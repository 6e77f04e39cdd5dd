----------------------------- MODULE FileHelper -----------------------------
(***************************************************************************)
(* SimpleReadCSV and SimpleConfig (file_helper.cpp), with split, join and  *)
(* trim (str_helper.cpp).  One client keeps a vector of rows and a         *)
(* configuration and fills each from one file after another.  A line is a  *)
(* sequence of characters, and a file shows its lines as they are read.    *)
(***************************************************************************)
EXTENDS Integers, Sequences, FiniteSets, FiniteSetsExt, SequencesExt, Rewriting

CONSTANTS Lines,        \* lines a file may have
          Delimiters,   \* what rows are split at; find("") would never end
          QuotedLines,  \* texts for split_with_quot
          MaxLines,     \* bound: lines of the two files last read
          MaxFiles      \* files the process can have open

ASSUME FileAssumption ==
  /\ Lines \subseteq Seq(STRING) /\ QuotedLines \subseteq Seq(STRING)
  /\ Delimiters \subseteq Seq(STRING) \ {<<>>}
  /\ MaxFiles \in Nat \ {0}

VARIABLES rows,       \* res of SimpleReadCSV
          data,       \* _data_ of the SimpleConfig
          reading,    \* the call that is under way: none, csv or config
          delimiter,  \* of the last SimpleReadCSV
          seen,       \* for each, the lines of the file last opened, so far
          leaked,     \* files LoadConfigFile opened: nothing closes them
          quoted      \* a text and what split_with_quot made of it

fileVars == <<rows, data, reading, delimiter, seen, leaked, quoted>>

NoData == [key \in {} |-> <<>>]

FileInit ==
  /\ rows = <<>> /\ data = NoData
  /\ reading = "none" /\ delimiter \in Delimiters
  /\ seen = [csv |-> <<>>, config |-> <<>>]
  /\ leaked = 0
  /\ quoted = [line |-> <<>>, fields |-> <<>>]

-----------------------------------------------------------------------------
(* trim; a string of nothing but such characters becomes empty. *)
Trim(line, chars) ==
  LET kept == {i \in DOMAIN line : line[i] \notin chars}
  IN IF kept = {} THEN <<>> ELSE SubSeq(line, Min(kept), Max(kept))

(* Where find(separator) finds it. *)
Finds(line, separator) ==
  {i \in 1 .. Len(line) - Len(separator) + 1 :
     SubSeq(line, i, i + Len(separator) - 1) = separator}

(* Mutant: one character is skipped, however long the separator is. *)
BadBehind(end, separator) == end + 1

Behind(end, separator) == end + Len(separator)

(* Fields that end in a separator, and what is behind the last, if anything. *)
Cutting(line, ends, separator) ==
  LET ahead(i) == {j \in ends : j >= i}
      field(i) ==
        IF ahead(i) # {}
        THEN [takes |-> Behind(Min(ahead(i)), separator) - i,
              gives |-> <<SubSeq(line, i, Min(ahead(i)) - 1)>>]
        ELSE [takes |-> Len(line) + 1 - i, gives |-> <<SubSeq(line, i, Len(line))>>]
  IN [i \in 1 .. Len(line) |-> field(i)]

Split(line, separator) == Rewritten(Cutting(line, Finds(line, separator), separator))

Count(line, char, n) == Cardinality({j \in 1 .. n : line[j] = char})

(* split_with_quot: no cut where an odd number of quotes is behind; the     *)
(* rest is lost if its last character is the separator.                     *)
SplitWithQuot(line, separator, quot) ==
  LET cuts == {i \in DOMAIN line : line[i] = separator /\ Count(line, quot, i) % 2 = 0}
      kept == IF line # <<>> /\ Last(line) = separator THEN Max({0} \union cuts)
              ELSE Len(line)
  IN Rewritten(Cutting(SubSeq(line, 1, kept), cuts, <<separator>>))

Joined(fields, separator) ==
  [i \in 1 .. Len(fields) |->
     [takes |-> 1,
      gives |-> IF i < Len(fields) THEN fields[i] \o separator ELSE fields[i]]]

Join(fields, separator) == Rewritten(Joined(fields, separator))

(* split_with_quot, with a comma and a double quote. *)
AskSplitWithQuot(line) ==
  /\ quoted' = [line |-> line, fields |-> SplitWithQuot(line, "comma", "quot")]
  /\ UNCHANGED <<rows, data, reading, delimiter, seen, leaked>>

-----------------------------------------------------------------------------
(* A line both readers pass over. *)
PassedOver(line) == line = <<>> \/ line[1] = "#"

Cleaned(line) == Trim(line, {"cr"})

ReadsLine(call, line) ==
  /\ reading = call
  /\ Len(seen.csv) + Len(seen.config) < MaxLines
  /\ seen' = [seen EXCEPT ![call] = Append(@, line)]

Opens(call) ==
  /\ reading = "none" /\ leaked < MaxFiles
  /\ reading' = call
  /\ seen' = [seen EXCEPT ![call] = <<>>]

(* An empty or unknown path, or too many open files: false, and res stays. *)
CsvRefuses == reading = "none" /\ UNCHANGED fileVars

CsvOpens(separator) ==
  /\ Opens("csv")
  /\ rows' = <<>>
  /\ delimiter' = separator
  /\ UNCHANGED <<data, leaked, quoted>>

CsvLine(line) ==
  /\ ReadsLine("csv", line)
  /\ LET fields == Split(Cleaned(line), delimiter)
     IN rows' = IF PassedOver(Cleaned(line)) \/ fields = <<>> THEN rows
                ELSE Append(rows, fields)
  /\ UNCHANGED <<data, reading, delimiter, leaked, quoted>>

(* The end of the file; SimpleReadCSV closes it. *)
CsvEnds ==
  /\ reading = "csv"
  /\ reading' = "none"
  /\ UNCHANGED <<rows, data, delimiter, seen, leaked, quoted>>

(* LoadConfigFile finds no file, or cannot open one more: the pointer it    *)
(* tests is never null, the old data is gone, and it returns true.          *)
ConfigFindsNone ==
  /\ reading = "none"
  /\ data' = NoData
  /\ seen' = [seen EXCEPT !.config = <<>>]
  /\ UNCHANGED <<rows, reading, delimiter, leaked, quoted>>

ConfigOpens ==
  /\ Opens("config")
  /\ data' = NoData
  /\ leaked' = leaked + 1
  /\ UNCHANGED <<rows, delimiter, quoted>>

(* Mutant: a later line overwrites an earlier one. *)
BadInserted(key, value) ==
  [k \in DOMAIN data \union {key} |-> IF k = key THEN value ELSE data[k]]

(* map::insert *)
Inserted(key, value) ==
  [k \in DOMAIN data \union {key} |-> IF k \in DOMAIN data THEN data[k] ELSE value]

WhiteSpaces == {"lf", "cr", "tab", "vt", "ff", " "}

ConfigLine(line) ==
  LET clean == Cleaned(line)
      equals == Finds(clean, <<"=">>)
      at == Min(equals)
  IN /\ ReadsLine("config", line)
     /\ data' = IF PassedOver(clean) \/ equals = {} THEN data
                ELSE Inserted(Trim(SubSeq(clean, 1, at - 1), WhiteSpaces),
                              Trim(SubSeq(clean, at + 1, Len(clean)), WhiteSpaces))
     /\ UNCHANGED <<rows, reading, delimiter, leaked, quoted>>

ConfigEnds ==
  /\ reading = "config"
  /\ reading' = "none"
  /\ UNCHANGED <<rows, data, delimiter, seen, leaked, quoted>>

LoadNext ==
  \/ CsvRefuses
  \/ \E separator \in Delimiters : CsvOpens(separator)
  \/ \E line \in Lines : CsvLine(line) \/ ConfigLine(line)
  \/ CsvEnds
  \/ ConfigFindsNone \/ ConfigOpens
  \/ ConfigEnds

FileNext == LoadNext \/ \E line \in QuotedLines : AskSplitWithQuot(line)

FileSpec == FileInit /\ [][FileNext]_fileVars

-----------------------------------------------------------------------------
(* A line without such characters at its ends: the piece of it outside of   *)
(* which there is no other, and of whose ends neither is one.               *)
Bare(line, chars) ==
  LET Holds(i, j) ==
        i <= j + 1 /\ \A k \in DOMAIN line : line[k] \in chars \/ k \in i .. j
      pieces == {SubSeq(line, p[1], p[2]) :
                   p \in {q \in (1 .. Len(line) + 1) \X (0 .. Len(line)) : Holds(q[1], q[2])}}
  IN CHOOSE text \in pieces :
       text = <<>> \/ (Head(text) \notin chars /\ Last(text) \notin chars)

Content(line) == Bare(line, {"cr"})

(* The fields are what the separators of the line stand between; only an    *)
(* empty field at its end is lost.                                          *)
Makes(fields, line, separator) ==
  \/ Join(fields, separator) = line /\ Last(fields) # <<>>
  \/ Join(fields, separator) \o separator = line

(* The rows are the lines of the last file that could be opened, with no    *)
(* rest of an earlier one, each line cut at all its separators, whether a   *)
(* row ends in one or not.  split_with_quot cuts a line whose quotes are    *)
(* closed at every separator outside them, and nowhere else.                *)
FieldsMakeTheLine ==
  LET Listed(line) == Content(line) # <<>> /\ Head(Content(line)) # "#"
      listed == {n \in DOMAIN seen.csv : Listed(seen.csv[n])}
      row(n) == rows[Cardinality({m \in listed : m <= n})]
      Whole(text) == Count(text, "quot", Len(text)) % 2 = 0
  IN /\ Len(rows) = Cardinality(listed)
     /\ \A n \in listed :
          /\ Makes(row(n), Content(seen.csv[n]), delimiter)
          /\ \A i \in DOMAIN row(n) : Finds(row(n)[i], delimiter) = {}
     /\ Whole(quoted.line) /\ quoted.line # <<>> =>
          /\ Makes(quoted.fields, quoted.line, <<"comma">>)
          /\ \A i \in DOMAIN quoted.fields :
               LET field == quoted.fields[i] IN
               /\ Whole(field)
               /\ \A j \in DOMAIN field : field[j] = "comma" => Count(field, "quot", j) % 2 = 1

(* The key and the value of a line that defines one. *)
Assigned(line) ==
  {<<Bare(SubSeq(line, 1, i - 1), WhiteSpaces),
     Bare(SubSeq(line, i + 1, Len(line)), WhiteSpaces)>> :
     i \in {j \in DOMAIN line : line[j] = "=" /\ Count(line, "=", j) = 1
                              /\ Head(Content(line)) # "#"}}

Defining(file, key) ==
  {n \in DOMAIN file : \E pair \in Assigned(file[n]) : pair[1] = key}

(* After however many loads, the configuration holds the keys some line of  *)
(* the last file defines, and for each the value of the first such line,    *)
(* without the white space around it; nothing of an earlier file is left.   *)
ConfigIsTheLastFile ==
  LET file == seen.config
      keys == {pair[1] : pair \in UNION {Assigned(file[n]) : n \in DOMAIN file}}
  IN /\ DOMAIN data = keys
     /\ \A key \in keys : <<key, data[key]>> \in Assigned(file[Min(Defining(file, key))])
=============================================================================
