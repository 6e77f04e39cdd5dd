----------------------------- MODULE XmlPrinter -----------------------------
(***************************************************************************)
(* How an XMLDocument is written (xml_helper.cpp): SaveFile and Print, the *)
(* walk of Accept over the nodes, and XMLPrinter with the line breaks and  *)
(* indents it puts between them; and the document as a whole: calls that   *)
(* load it, change it and save it, and the loading of what was saved.      *)
(***************************************************************************)
EXTENDS XmlParser

VARIABLES at,           \* the node Accept is at, and whether on the way out
          out,          \* the tokens printed
          compact,      \* _compactMode
          names,        \* _stack
          justOpened,   \* _elementJustOpened
          isFirst,      \* _firstElement
          indent,       \* _depth
          textDepth,    \* _textDepth
          saved         \* what the document was when it was printed

printerVars == <<at, out, compact, names, justOpened, isFirst, indent, textDepth, saved>>
allVars == <<parseVars, printerVars>>

PrintInit ==
  /\ ParseInit
  /\ at = <<Doc, "out">>
  /\ out = <<>> /\ compact = FALSE /\ names = <<>> /\ justOpened = FALSE
  /\ isFirst = TRUE /\ indent = 0 /\ textDepth = -1
  /\ saved = <<>>

-----------------------------------------------------------------------------
(* Characters printed one after another are one run when they are read. *)
Put(printed, tok) ==
  IF printed # <<>> /\ tok.kind = "text" /\ Last(printed).kind = "text"
  THEN Append(Front(printed), [tok EXCEPT !.name = Last(printed).name \o @])
  ELSE Append(printed, tok)

WhiteSpace == Tok("text", <<" ">>, <<>>, "none")

(* SealElementIfJustOpened: until then the tag lacks its ">". *)
Sealed(printed) ==
  IF justOpened THEN Append(Front(printed), [Last(printed) EXCEPT !.fault = "none"])
  ELSE printed

(* Putc('\n') and PrintSpace(_depth). *)
OnNewLine(printed, wanted) ==
  IF wanted /\ ~compact THEN Put(printed, WhiteSpace) ELSE printed

(* The next node of the walk after n and all below it. *)
Beyond(n) ==
  CASE n = Doc -> <<Doc, "out">>
    [] n # Doc /\ doc.next[n] # Nil -> <<doc.next[n], "in">>
    [] OTHER -> <<doc.parent[n], "out">>

Inside(n) == IF doc.first[n] = Nil THEN <<n, "out">> ELSE <<doc.first[n], "in">>

(* SaveFile of the whole document by a new XMLPrinter, which forgets the    *)
(* error of the last call.  What came from a printer is not saved again.    *)
Save(c) ==
  /\ phase = "idle" /\ origin \in {"client", "sample", "edited"}
  /\ error' = "none"
  /\ phase' = "printing"
  /\ at' = Inside(Doc)
  /\ out' = <<>> /\ compact' = c /\ names' = <<>> /\ justOpened' = FALSE
  /\ isFirst' = TRUE /\ indent' = 0 /\ textDepth' = -1
  /\ saved' = Listing
  /\ origin' = "none" /\ input' = <<>>
  /\ UNCHANGED <<vars, value, rest, more, frames, depth, via>>

(* SaveFile that cannot open its file. *)
SaveFails ==
  /\ phase = "idle" /\ origin \in {"client", "sample", "edited"}
  /\ error' = "FILE_COULD_NOT_BE_OPENED"
  /\ origin' = "edited" /\ input' = <<>> /\ rest' = <<>>
  /\ UNCHANGED <<vars, value, more, frames, depth, via, phase>>

Visiting(n, way) ==
  /\ phase = "printing"
  /\ at = <<n, way>>
  /\ n # Doc
  /\ UNCHANGED <<parseVars, compact, saved>>

IsElement(n) == value[n].kind \in {"open", "closed"}

(* VisitEnter: OpenElement and a PushAttribute for each attribute. *)
EnterElement(n) ==
  /\ Visiting(n, "in") /\ IsElement(n)
  /\ names' = Append(names, value[n].name)
  /\ out' = Put(OnNewLine(Sealed(out), textDepth < 0 /\ ~isFirst),
                Tok("open", value[n].name, value[n].attrs, "unterminated"))
  /\ justOpened' = TRUE /\ isFirst' = FALSE
  /\ indent' = indent + 1
  /\ at' = Inside(n)
  /\ UNCHANGED textDepth

TextEnds(d) == textDepth = d

(* CloseElement. *)
ExitElement(n) ==
  /\ Visiting(n, "out")
  /\ indent' = indent - 1
  /\ names' = Front(names)
  /\ LET tag == IF justOpened
                THEN Append(Front(out), [Last(out) EXCEPT !.kind = "closed", !.fault = "none"])
                ELSE Put(OnNewLine(out, textDepth < 0),
                         Tok("close", Last(names), <<>>, "none"))
     IN out' = OnNewLine(tag, indent' = 0)
  /\ textDepth' = IF TextEnds(indent') THEN -1 ELSE textDepth
  /\ justOpened' = FALSE
  /\ at' = Beyond(n)
  /\ UNCHANGED isFirst

(* Mutant: a text does not keep line breaks away. *)
BadTextLevel == -1

TextLevel == indent - 1

(* PushText, of characters or a CDATA section. *)
VisitText(n) ==
  /\ Visiting(n, "in") /\ value[n].kind \in {"text", "cdata"}
  /\ textDepth' = TextLevel
  /\ out' = Put(Sealed(out), value[n])
  /\ justOpened' = FALSE
  /\ at' = Beyond(n)
  /\ UNCHANGED <<names, isFirst, indent>>

(* PushComment, PushDeclaration, PushUnknown. *)
VisitOther(n) ==
  /\ Visiting(n, "in") /\ value[n].kind \in {"comment", "declaration", "unknown"}
  /\ out' = Put(OnNewLine(Sealed(out), textDepth < 0 /\ ~isFirst), value[n])
  /\ justOpened' = FALSE /\ isFirst' = FALSE
  /\ at' = Beyond(n)
  /\ UNCHANGED <<names, indent, textDepth>>

PrintStep ==
  \E n \in Nodes : EnterElement(n) \/ ExitElement(n) \/ VisitText(n) \/ VisitOther(n)

Printed ==
  /\ phase = "printing" /\ at = <<Doc, "out">>
  /\ phase' = "idle"
  /\ UNCHANGED <<vars, value, input, rest, origin, more, frames, depth, error, via, printerVars>>

(* What was printed is the text of the next call. *)
Reload(v) ==
  /\ Begin(v, "saved", out)
  /\ UNCHANGED printerVars

(* A call of the client that has nothing to do with what was printed. *)
Client ==
  /\ \/ \E v \in {"Parse", "LoadFile"} :
          \/ Begin(v, "client", <<>>)
          \/ \E text \in Samples \union {<<>>} : Begin(v, "sample", text)
     \/ \E why \in {"FILE_NOT_FOUND", "FILE_READ_ERROR"} : LoadFileFails(why)
     \/ \E n \in Nodes : ClientDeletes(n)
     \/ SaveFails
  /\ out' = <<>> /\ saved' = <<>>
  /\ UNCHANGED <<at, compact, names, justOpened, isFirst, indent, textDepth>>

Step ==
  \/ ParseStep /\ UNCHANGED printerVars
  \/ PrintStep
  \/ Printed

DocumentNext ==
  \/ Client
  \/ Step
  \/ \E c \in BOOLEAN : Save(c)
  \/ \E v \in {"Parse", "LoadFile"} : Reload(v)

DocumentSpec == PrintInit /\ [][DocumentNext]_allVars /\ WF_allVars(Step)

-----------------------------------------------------------------------------
(* Printing writes an element without content as one tag, and two texts     *)
(* side by side become one.                                                 *)
Shrunk(printed, tok) ==
  IF tok.kind = "close" /\ Last(printed).kind = "open"
  THEN Append(Front(printed), [Last(printed) EXCEPT !.kind = "closed"])
  ELSE Put(printed, tok)

(* A document that was saved, compact or not, loads as the same document:   *)
(* the line breaks and indents put in never touch a text, and no tag is     *)
(* left open.  Texts outside the root element are the exception: a line     *)
(* break after the element in front of them becomes part of them.           *)
SavedTreeReloads ==
  phase = "idle" /\ origin = "saved" /\
  (\A i \in DOMAIN saved : saved[i].kind = "text" => Level(saved, i) > 0) =>
    /\ error = IF saved = <<>> THEN "EMPTY_DOCUMENT" ELSE "none"
    /\ Listing = FoldLeft(Shrunk, <<>>, saved)
=============================================================================
