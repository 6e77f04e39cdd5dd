------------------------------ MODULE XmlParser ------------------------------
(***************************************************************************)
(* How an XMLDocument is read (xml_helper.cpp): Parse and LoadFile, the    *)
(* mutual recursion of XMLNode::ParseDeep, XMLElement::ParseDeep and       *)
(* Identify, its errors and the depth limit, over the node store XmlTree.  *)
(*                                                                         *)
(* The text is a sequence of tokens: runs of characters, tags, comments,   *)
(* CDATA sections, declarations and unknowns.  A token read stands for one *)
(* turn of the loop of ParseDeep.  Each open element on the way to p has a *)
(* frame; the frame of the document itself is implied.                     *)
(***************************************************************************)
EXTENDS XmlTree

CONSTANTS Tokens,     \* what a text can be made of
          MaxTokens,  \* bound: tokens of a text
          Samples,    \* some longer texts
          MaxDepth,   \* TINYXML2_MAX_ELEMENT_DEPTH
          MaxLost     \* bound: nodes a pool still counts as untracked

VARIABLES value,   \* node -> the token it was made from
          input,   \* the tokens read since the call began
          rest,    \* the tokens to come, when the text was chosen beforehand
          origin,  \* whose text the document is now: a client's, a printer's ...
          more,    \* is there anything left at p?
          frames,  \* the elements whose content is being read
          depth,   \* _parsingDepth
          error,   \* _errorID
          via,     \* Parse or LoadFile
          phase    \* idle, reading, failing (a frame returns 0), printing

parserVars == <<value, input, rest, origin, more, frames, depth, error, via, phase>>
parseVars == <<vars, parserVars>>

Tok(kind, name, attrs, fault) ==
  [kind |-> kind, name |-> name, attrs |-> attrs, fault |-> fault]

NoToken == Tok("none", <<>>, <<>>, "none")

(* Names and runs of characters are sequences of letters, " " is white space. *)
Blank(tok) == tok.kind = "text" /\ ToSet(tok.name) = {" "}

Faults == {"none", "name", "attribute", "unterminated"}
Kinds == {"text", "cdata", "comment", "declaration", "unknown", "open", "closed", "close"}

TokenType == [kind : Kinds, name : Seq(STRING), attrs : Seq(STRING), fault : Faults]

(* Characters side by side are one run. *)
Parted(text) ==
  \A i \in 1 .. Len(text) - 1 : ~(text[i].kind = "text" /\ text[i + 1].kind = "text")

ASSUME TokensAssumption ==
  /\ Tokens \subseteq TokenType
  /\ Samples \subseteq Seq(TokenType)
  /\ \A text \in Samples : Parted(text)
  /\ MaxDepth \in Nat /\ MaxDepth > 1

(* The error of a node whose end is not found. *)
Unterminated ==
  [text |-> "PARSING_TEXT", cdata |-> "PARSING_CDATA", comment |-> "PARSING_COMMENT",
   declaration |-> "PARSING_DECLARATION", unknown |-> "PARSING_UNKNOWN",
   open |-> "PARSING_ELEMENT", closed |-> "PARSING_ELEMENT", close |-> "PARSING_ELEMENT"]

(* What ParseDeep of the token's node reports; "PARSING" is the caller's    *)
(* word for a node that returned 0 without one of its own.  Text runs up to *)
(* the next "<" and fails when there is none; a "<" with nothing behind it  *)
(* is its fault "name".  </a/> counts as <a/>.                              *)
Failure(tok, last) ==
  IF tok.fault = "name" THEN "PARSING"
  ELSE IF tok.fault = "attribute" \/ ~IsInjective(tok.attrs) THEN "PARSING_ATTRIBUTE"
  ELSE IF tok.fault = "unterminated" \/ (tok.kind = "text" /\ last)
       THEN Unterminated[tok.kind]
       ELSE "none"

ParseInit ==
  /\ Init
  /\ value = [n \in Nodes |-> NoToken]
  /\ input = <<>> /\ rest = <<>> /\ origin = "none"
  /\ more = FALSE
  /\ frames = <<>>
  /\ depth = 0
  /\ error = "none"
  /\ via = "Parse"
  /\ phase = "idle"

-----------------------------------------------------------------------------
(* Parse(p, len), LoadFile(filename), LoadFile(fp): whatever the document   *)
(* held goes; the document's own frame is entered unless there is no text.  *)
Begin(v, who, text) ==
  /\ phase = "idle"
  /\ doc.untracked <= MaxLost
  /\ Clear
  /\ value' = [n \in Nodes |-> NoToken]
  /\ via' = v
  /\ input' = <<>>
  /\ rest' = text
  /\ origin' = who
  /\ frames' = <<>>
  /\ more' = (who = "client" \/ text # <<>>)
  /\ IF more'
     THEN phase' = "reading" /\ depth' = 1 /\ error' = "none"
     ELSE phase' = "idle" /\ depth' = 0 /\ error' = "EMPTY_DOCUMENT"

(* The file is not there, or cannot be read to its end. *)
LoadFileFails(why) ==
  /\ phase = "idle"
  /\ doc.untracked <= MaxLost
  /\ Clear
  /\ value' = [n \in Nodes |-> NoToken]
  /\ error' = why
  /\ origin' = "none" /\ input' = <<>> /\ rest' = <<>>
  /\ depth' = 0
  /\ UNCHANGED <<more, frames, via, phase>>

(* The next token and whether it is the last one: from the text chosen, or  *)
(* any token that can stand next to the one before.                         *)
Chosen(tok, last) ==
  IF rest # <<>>
  THEN tok = Head(rest) /\ last = (Len(rest) = 1)
  ELSE /\ origin = "client"
       /\ tok \in Tokens
       /\ tok.kind = "text" /\ input # <<>> => Last(input).kind # "text"
       /\ tok.fault = "unterminated" \/ Len(input) + 1 = MaxTokens => last

Read(tok, last) ==
  /\ phase = "reading" /\ more
  /\ live # Nodes       \* bound: the memory of the pools
  /\ Chosen(tok, last)
  /\ input' = Append(input, tok)
  /\ rest' = IF rest = <<>> THEN rest ELSE Tail(rest)
  /\ more' = ~last
  /\ UNCHANGED <<origin, via, call, result, crashed>>

Fails(why) ==
  /\ error' = why
  /\ phase' = "failing"

GoesOn == UNCHANGED <<error, phase>>

Top == IF frames = <<>> THEN Doc ELSE Last(frames)

(* The pool hands out memory not in use. *)
Unused == CHOOSE n \in Nodes : n \notin live

Forgotten(gone) == [n \in Nodes |-> IF n \in gone THEN NoToken ELSE value[n]]

(* Identify skips white space between tags; Parse does so before the first. *)
ReadBlank(tok, last) ==
  /\ Blank(tok)
  /\ Read(tok, last)
  /\ IF last /\ input = <<>> THEN Fails("EMPTY_DOCUMENT") ELSE GoesOn
  /\ UNCHANGED <<doc, live, value, frames, depth>>

(* Mutant: a declaration may follow whatever the first child is. *)
BadWellLocated(tok) ==
  tok.kind = "declaration" =>
    /\ frames = <<>>
    /\ doc.first[Doc] # Nil => value[doc.first[Doc]].kind = "declaration"

(* Declarations only at document level, and before all else. *)
WellLocated(tok) ==
  tok.kind = "declaration" =>
    /\ frames = <<>>
    /\ doc.first[Doc] # Nil => /\ value[doc.first[Doc]].kind = "declaration"
                               /\ value[doc.last[Doc]].kind = "declaration"

(* XMLNode::DeleteNode: the pool still counts the node as untracked. *)
Discarded(d, n) == Freed(d, Subtree(d, n))

(* Texts, comments and their like, and elements that end in the same tag. *)
ReadLeaf(tok, last) ==
  LET n == Unused
      why == Failure(tok, last)
      made == Created(doc, n)
      bad == why # "none" \/ ~WellLocated(tok)
  IN /\ tok.kind \notin {"open", "close"} /\ ~Blank(tok)
     /\ Read(tok, last)
     /\ IF bad THEN Fails(IF why # "none" THEN why ELSE "PARSING_DECLARATION")
        ELSE GoesOn
     /\ doc' = IF bad THEN Discarded(made, n) ELSE EndInserted(made, Top, n)
     /\ live' = IF bad THEN live ELSE live \union {n}
     /\ value' = IF bad THEN value ELSE [value EXCEPT ![n] = tok]
     /\ UNCHANGED <<frames, depth>>

(* A tag that opens an element, at the end of the text or faulty. *)
ReadVainOpen(tok, last) ==
  LET n == Unused
      why == Failure(tok, last)
  IN /\ tok.kind = "open"
     /\ why # "none" \/ last
     /\ Read(tok, last)
     /\ Fails(IF why # "none" THEN why ELSE "MISMATCHED_ELEMENT")
     /\ doc' = Discarded(Created(doc, n), n)
     /\ UNCHANGED <<live, value, frames, depth>>

(* PushDepth. *)
TooDeep(d) == d = MaxDepth

(* A tag that opens an element, with more to come: its content is next. *)
ReadOpen(tok, last) ==
  LET n == Unused IN
  /\ tok.kind = "open"
  /\ Failure(tok, last) = "none" /\ ~last
  /\ Read(tok, last)
  /\ doc' = Created(doc, n)
  /\ live' = live \union {n}
  /\ value' = [value EXCEPT ![n] = tok]
  /\ frames' = Append(frames, n)
  /\ depth' = depth + 1
  /\ IF TooDeep(depth') THEN Fails("DEPTH_EXCEEDED") ELSE GoesOn

Parent == IF Len(frames) < 2 THEN Doc ELSE frames[Len(frames) - 1]

Matches(e, tok) == value[e].name = tok.name

(* Mutant: a frame is left without PopDepth. *)
BadLeave ==
  /\ frames' = Front(frames)
  /\ depth' = depth

(* PopDepth. *)
Leave ==
  /\ frames' = Front(frames)
  /\ depth' = depth - 1

(* A closing tag is read as an element, counted as used, deleted and handed *)
(* to the parent, which compares names; at document level it ends the text. *)
ReadClose(tok, last) ==
  LET n == Unused
      why == Failure(tok, last)
      made == Created(doc, n)
      d == IF why = "none" THEN LooseRemoved(made, n) ELSE Discarded(made, n)
  IN /\ tok.kind = "close"
     /\ Read(tok, last)
     /\ \/ /\ why # "none"
           /\ Fails(why)
           /\ doc' = d
           /\ UNCHANGED <<live, value, frames, depth>>
        \/ /\ why = "none" /\ frames = <<>>
           /\ doc' = d
           /\ phase' = "ended"
           /\ UNCHANGED <<live, value, frames, depth, error>>
        \/ /\ why = "none" /\ frames # <<>> /\ Matches(Top, tok)
           /\ doc' = EndInserted(d, Parent, Top)
           /\ Leave
           /\ GoesOn
           /\ UNCHANGED <<live, value>>
        \/ /\ why = "none" /\ frames # <<>> /\ ~Matches(Top, tok)
           /\ doc' = Discarded(d, Top)
           /\ live' = live \ Subtree(doc, Top)
           /\ value' = Forgotten(Subtree(doc, Top))
           /\ Leave
           /\ Fails("MISMATCHED_ELEMENT")

(* Mutant: the loop of an inner frame does not end with the text. *)
BadEndOfInput ==
  /\ phase = "reading" /\ ~more
  /\ phase' = IF frames = <<>> THEN "ended" ELSE "reading"
  /\ UNCHANGED <<vars, value, input, rest, origin, more, frames, depth, error, via>>

EndOfInput ==
  /\ phase = "reading" /\ ~more
  /\ phase' = IF frames = <<>> THEN "ended" ELSE "failing"
  /\ UNCHANGED <<vars, value, input, rest, origin, more, frames, depth, error, via>>

(* Mutant: the error that is known already is overwritten. *)
BadReported(why) == "PARSING"

Reported(why) == IF why = "none" THEN "PARSING" ELSE why

(* A frame has returned 0: its parent deletes the element and returns 0. *)
Unwind ==
  LET gone == Subtree(doc, Top) IN
  /\ phase = "failing" /\ frames # <<>>
  /\ doc' = Discarded(doc, Top)
  /\ live' = live \ gone
  /\ value' = Forgotten(gone)
  /\ error' = Reported(error)
  /\ Leave
  /\ UNCHANGED <<input, rest, origin, more, via, phase, call, result, crashed>>

(* Mutant: a text that cannot be parsed keeps its beginning. *)
BadCleanedUp(d) == [d EXCEPT !.untracked = 0]

(* After a failure Parse deletes what is in the tree and clears the pools,  *)
(* whatever else they held.                                                 *)
CleanedUp(d) == [ChildrenRemoved(d, Doc) EXCEPT !.untracked = 0]

Finish ==
  /\ phase = "ended" \/ (phase = "failing" /\ frames = <<>>)
  /\ phase' = "idle"
  /\ depth' = depth - 1
  /\ IF error # "none" /\ via = "Parse"
     THEN /\ doc' = CleanedUp(doc)
          /\ live' = {}
          /\ value' = [n \in Nodes |-> NoToken]
     ELSE UNCHANGED <<doc, live, value>>
  /\ UNCHANGED <<input, rest, origin, more, frames, error, via, call, result, crashed>>

(* The client takes a node out of what it loaded. *)
ClientDeletes(n) ==
  /\ phase = "idle" /\ origin \in {"client", "sample"}
  /\ DeleteNode(n)
  /\ value' = Forgotten(Subtree(doc, n))
  /\ origin' = "edited" /\ input' = <<>> /\ rest' = <<>>
  /\ UNCHANGED <<more, frames, depth, error, via, phase>>

ReadToken(tok, last) ==
  \/ ReadBlank(tok, last)
  \/ ReadLeaf(tok, last)
  \/ ReadVainOpen(tok, last)
  \/ ReadOpen(tok, last)
  \/ ReadClose(tok, last)

Coming == IF rest # <<>> THEN {Head(rest)} ELSE Tokens

ParseStep ==
  \/ \E tok \in Coming, last \in BOOLEAN : ReadToken(tok, last)
  \/ EndOfInput
  \/ Unwind
  \/ Finish

-----------------------------------------------------------------------------
Closing(name) == Tok("close", name, <<>>, "none")

Enclosed(tok, content) ==
  IF tok.kind = "open" THEN <<tok>> \o content \o <<Closing(tok.name)>> ELSE <<tok>>

(* The document as the tokens of a text: from a node on, every element with *)
(* its content and its closing tag, in order.                               *)
TextOf(d, v) ==
  LET from[n \in Nodes \union {Nil}] ==
        IF n = Nil THEN <<>>
        ELSE Enclosed(v[n], from[d.first[n]]) \o from[d.next[n]]
  IN from[d.first[Doc]]

Listing == TextOf(doc, value)

(* Elements that are open in front of token i. *)
Level(text, i) ==
  Cardinality({j \in 1 .. i - 1 : text[j].kind = "open"})
    - Cardinality({j \in 1 .. i - 1 : text[j].kind = "close"})

Opener(text, i) ==
  Max({j \in 1 .. i - 1 : text[j].kind = "open" /\ Level(text, j) = Level(text, i) - 1})

(* Does token i stand where it may?  The text may be whole or go on. *)
Correct(text, whole, i) ==
  LET last == whole /\ i = Len(text) IN
  /\ Blank(text[i]) \/ Failure(text[i], last) = "none"
  /\ text[i].kind = "open" => ~last /\ Level(text, i) + 2 < MaxDepth
  /\ text[i].kind = "close" => text[Opener(text, i)].name = text[i].name
  /\ text[i].kind = "declaration" =>
       \A j \in 1 .. i - 1 : text[j].kind = "declaration" \/ Blank(text[j])

WellFormed(text, whole, k) ==
  Level(text, k + 1) = 0 /\ \A i \in 1 .. k : Correct(text, whole, i)

(* What the first k tokens say: white space between tags says nothing, nor  *)
(* does what a closing tag has besides its name.                            *)
Plain(tok) == IF tok.kind = "close" THEN Closing(tok.name) ELSE tok

Significant(text) ==
  LET upto[k \in 0 .. Len(text)] ==
        IF k = 0 THEN <<>>
        ELSE IF Blank(text[k]) THEN upto[k - 1]
        ELSE Append(upto[k - 1], Plain(text[k]))
  IN upto

(* Closing tags that close nothing; the first ends what is read. *)
Strays(text, whole) ==
  {i \in DOMAIN text : /\ text[i].kind = "close" /\ Level(text, i) = 0
                       /\ Failure(text[i], whole /\ i = Len(text)) = "none"}

Extent(text, whole) ==
  IF Strays(text, whole) = {} THEN Len(text) ELSE Min(Strays(text, whole)) - 1

(* A well-formed text, in which something must stand. *)
Accepted(text, whole) ==
  /\ Strays(text, whole) # {} \/ whole
  /\ WellFormed(text, whole, Extent(text, whole))
  /\ Strays(text, whole) = {} => Significant(text)[Len(text)] # <<>>

Best(text, whole) == Max({k \in 0 .. Extent(text, whole) : WellFormed(text, whole, k)})

-----------------------------------------------------------------------------
(* Pointers, memory and control fit together in the middle of a parse and   *)
(* after every way out of it: nothing points to memory the pools took back. *)
ParserTypeOK ==
  /\ TreeTypeOK
  /\ \A n \in Nodes : value[n] = NoToken <=> n \notin live
  /\ \A n \in live : value[n].kind \in Kinds \ {"close"} /\ value[n].fault = "none"
  /\ depth \in 0 .. MaxDepth
  /\ phase \in {"idle", "reading", "failing", "ended", "printing"}
  /\ more \in BOOLEAN /\ via \in {"Parse", "LoadFile"}

(* While a text is read, the only nodes outside the tree are the elements   *)
(* whose content is being read, innermost last, and the depth counts their  *)
(* frames; between calls there are none.  So no error path leaks a node,    *)
(* frees one twice or leaves a level behind.                                *)
OnlyPendingUnlinked ==
  /\ NodesAreOwned
  /\ doc.unlinked = frames
  /\ doc.untracked >= Len(doc.unlinked)
  /\ phase \in {"idle", "ended", "printing"} => frames = <<>>
  /\ depth = IF phase \in {"idle", "printing"} THEN 0 ELSE Len(frames) + 1

(* Loading succeeds exactly if the text, up to a closing tag that closes    *)
(* nothing, is well formed, and then the document is that text.  A failed   *)
(* Parse leaves nothing, a failed LoadFile the longest well-formed          *)
(* beginning.                                                               *)
ParsesWhatIsThere ==
  phase = "idle" /\ origin \in {"client", "sample", "saved"} =>
    /\ error = "none" <=> Accepted(input, ~more)
    /\ Listing = IF error # "none" /\ via = "Parse" THEN <<>>
                 ELSE Significant(input)[Best(input, ~more)]

(* An error stays what it was when first found, however many frames it      *)
(* passes on its way out.                                                   *)
FirstErrorStays ==
  [][(phase \in {"reading", "failing"} /\ error # "none") => error' = error]_parseVars

(* Whatever the text, the call comes back. *)
CallsEnd == phase # "idle" ~> phase = "idle"
=============================================================================
