------------------------------ MODULE StrPair ------------------------------
(***************************************************************************)
(* StrPair (xml_helper.cpp): a span of the text a document was read from.  *)
(* The first GetStr ends it with a zero where the next tag began, and      *)
(* normalises line ends, entities and white space within the span itself:  *)
(* p reads, q writes, in the same memory.                                  *)
(*                                                                         *)
(* A cell is a character; "&" "e" stands for an entity of the table,       *)
(* "&" "#" "w" for a character reference of two bytes, and "nul" for 0.    *)
(***************************************************************************)
EXTENDS Integers, Sequences, FiniteSets, FiniteSetsExt, Rewriting

CONSTANTS Cells,      \* characters of a span
          MaxSpan     \* bound: their number

ASSUME CellsAssumption == "nul" \notin Cells     \* a text ends at its first 0

VARIABLES text,     \* the span as it was read
          flags,    \* _flags, without NEEDS_FLUSH: a set of FlagNames
          mem,      \* the memory of the span and the character behind it
          p, q,     \* the read and the write pointer
          start,    \* _start
          stage,    \* set, scan, trim (CollapseWhitespace) or read
          odd       \* has the scan met what the code does not read as XML?

spanVars == <<text, flags, mem, p, q, start, stage, odd>>

White == {"cr", "lf", " "}

FlagNames == {"newlines", "entities", "collapse"}

End == Len(text) + 1

(* Set, by ParseText or ParseName. *)
SpanInit(t, f) ==
  /\ text = t /\ flags = f
  /\ mem = Append(t, "<")
  /\ p = 1 /\ q = 1 /\ start = 1
  /\ stage = "set" /\ odd = FALSE

-----------------------------------------------------------------------------
(* GetStr: *_end = 0, and what the flags ask for. *)
Flush ==
  /\ stage = "set"
  /\ mem' = [mem EXCEPT ![End] = "nul"]
  /\ stage' = IF flags = {} THEN "read" ELSE "scan"
  /\ UNCHANGED <<text, flags, p, q, start, odd>>

(* q takes the cells given, p skips over those read. *)
Scan(read, written) ==
  /\ stage = "scan" /\ p < End
  /\ mem' = [i \in DOMAIN mem |-> IF i \in q .. q + Len(written) - 1
                                  THEN written[i - q + 1] ELSE mem[i]]
  /\ p' = p + read
  /\ q' = q + Len(written)
  /\ UNCHANGED <<text, flags, start, stage>>

(* Mutant: LF CR is taken for two line ends. *)
BadLineEnd == IF mem[p] = "cr" /\ mem[p + 1] = "lf" THEN 2 ELSE 1

(* CR LF, LF CR, CR and LF are one line end. *)
LineEnd == IF {mem[p], mem[p + 1]} = {"cr", "lf"} THEN 2 ELSE 1

ScanNewline ==
  /\ "newlines" \in flags /\ mem[p] \in {"cr", "lf"}
  /\ Scan(LineEnd, <<"lf">>)
  /\ UNCHANGED odd

Ampersand == "entities" \in flags /\ mem[p] = "&"

(* GetCharacterRef looks for the next ";" and reads digits backwards from   *)
(* there to a "#", not to the one behind this "&": all between is dropped.  *)
Semicolons == {j \in p + 2 .. Len(text) : mem[j] \in {"w", "e"}}

Refers == /\ Semicolons # {}
          /\ mem[Min(Semicolons)] = "w" /\ mem[Min(Semicolons) - 1] = "#"

(* "&#" at the end loses its "&"; "&#" that begins no reference stays.      *)
ScanReference ==
  /\ Ampersand /\ mem[p + 1] = "#"
  /\ \/ p + 2 = End /\ Scan(1, <<>>) /\ UNCHANGED odd
     \/ /\ Refers
        /\ Scan(Min(Semicolons) + 1 - p, <<"u", "u">>)
        /\ odd' = (odd \/ mem[p + 2] # "w")
     \/ p + 2 # End /\ ~Refers /\ Scan(1, <<"&">>) /\ UNCHANGED odd

ScanEntity ==
  /\ Ampersand /\ mem[p + 1] = "e"
  /\ Scan(2, <<"<">>)
  /\ UNCHANGED odd

(* No entity: both pointers go on, and nothing is written. *)
ScanUnknown ==
  /\ stage = "scan" /\ p < End
  /\ Ampersand /\ mem[p + 1] \notin {"#", "e"}
  /\ p' = p + 1 /\ q' = q + 1
  /\ odd' = (odd \/ q # p)
  /\ UNCHANGED <<text, flags, mem, start, stage>>

ScanPlain ==
  /\ ~Ampersand
  /\ ~("newlines" \in flags /\ mem[p] \in {"cr", "lf"})
  /\ Scan(1, <<mem[p]>>)
  /\ UNCHANGED odd

(* SkipWhiteSpace from cell i. *)
Skipped(i) == Min({j \in i .. Len(mem) : mem[j] \notin White})

ScanEnds ==
  /\ stage = "scan" /\ p = End
  /\ mem' = [mem EXCEPT ![q] = "nul"]
  /\ stage' = IF "collapse" \in flags THEN "trim" ELSE "read"
  /\ LET first == Min({j \in 1 .. Len(mem) : mem'[j] \notin White})
     IN IF "collapse" \in flags
        THEN start' = first /\ p' = first /\ q' = first
        ELSE UNCHANGED <<start, p, q>>
  /\ UNCHANGED <<text, flags, odd>>

(* A turn of CollapseWhitespace, or its end. *)
Collapse ==
  LET next == Skipped(p)
      spaced == next # p
  IN /\ stage = "trim"
     /\ IF mem[next] = "nul"
        THEN /\ mem' = [mem EXCEPT ![q] = "nul"]
             /\ stage' = "read"
             /\ UNCHANGED <<p, q>>
        ELSE /\ mem' = IF spaced THEN [mem EXCEPT ![q] = " ", ![q + 1] = mem[next]]
                       ELSE [mem EXCEPT ![q] = mem[p]]
             /\ q' = IF spaced THEN q + 2 ELSE q + 1
             /\ p' = next + 1
             /\ stage' = stage
     /\ UNCHANGED <<text, flags, start, odd>>

SpanNext ==
  \/ Flush
  \/ ScanNewline \/ ScanReference \/ ScanEntity \/ ScanUnknown \/ ScanPlain
  \/ ScanEnds
  \/ Collapse

SpanSpec ==
  /\ \E t \in Seq(Cells), f \in SUBSET FlagNames : SpanInit(t, f)
  /\ [][SpanNext]_spanVars

-----------------------------------------------------------------------------
(* What begins at cell i of a text, by its flags: how many cells belong to  *)
(* it and what it stands for.                                               *)
Item(t, f, i) ==
  LET at(j) == IF j <= Len(t) THEN t[j] ELSE "nul"
      item(n, cells) == [takes |-> n, gives |-> cells]
      refers == "entities" \in f /\ at(i) = "&" /\ at(i + 1) = "#"
  IN CASE "newlines" \in f /\ {at(i), at(i + 1)} = {"cr", "lf"} -> item(2, <<"lf">>)
       [] "newlines" \in f /\ at(i) = "cr" /\ at(i + 1) # "lf" -> item(1, <<"lf">>)
       [] "entities" \in f /\ at(i) = "&" /\ at(i + 1) = "e" -> item(2, <<"<">>)
       [] refers /\ i + 1 = Len(t) -> item(1, <<>>)
       [] refers /\ at(i + 2) = "w" -> item(3, <<"u", "u">>)
       [] OTHER -> item(1, <<t[i]>>)

Items(t, f) == [i \in 1 .. Len(t) |-> Item(t, f, i)]

(* What the flags ask of the text. *)
Unescaped == Rewritten(Items(text, flags))

(* A cell is part of a word, the one space behind it, or nothing. *)
Word(t) ==
  LET solid == {i \in 1 .. Len(t) : t[i] \notin White}
      shows(i) == IF i \in solid THEN <<t[i]>>
                  ELSE IF i - 1 \in solid /\ \E j \in solid : j > i THEN <<" ">>
                  ELSE <<>>
  IN [i \in 1 .. Len(t) |-> [takes |-> 1, gives |-> shows(i)]]

(* Words with one space between them. *)
Words(t) == Rewritten(Word(t))

Shown == SubSeq(mem, start, Min({i \in start .. Len(mem) : mem[i] = "nul"}) - 1)

(* The write pointer never overtakes the read pointer, what is still to be  *)
(* read is as it was, and the result is what the flags promise.  Two texts  *)
(* are excluded: one with "&" before no entity and q behind p, where the    *)
(* code shows the byte that stood at q, and "&#" ahead of a "#12;" that is  *)
(* not its own, where it drops what stands between.                         *)
TextIsNormalised ==
  /\ stage = "scan" => q <= p /\ p <= End /\ \A i \in p .. Len(text) : mem[i] = text[i]
  /\ stage = "trim" => start <= q /\ q <= p
  /\ stage = "read" /\ ~odd =>
       Shown = IF "collapse" \in flags THEN Words(Unescaped) ELSE Unescaped
=============================================================================
