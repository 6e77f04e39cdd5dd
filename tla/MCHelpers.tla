------------------------------ MODULE MCHelpers ------------------------------
(* The helpers that keep a state of their own, one of them at a time: a     *)
(* behaviour chooses its part, and the other parts stay as they begin.      *)
EXTENDS Md5, StrPair, FileHelper

VARIABLE part

MCText == UNION {[1 .. n -> Cells] : n \in 0 .. MaxSpan}

MCFlags == {{}, {"newlines"}, {"entities", "newlines"}, {"newlines", "collapse"},
            {"entities", "newlines", "collapse"}}

MCLines ==
  {<<>>, <<"cr">>, <<"#", "a", "=", "b">>, <<" ", "#", "=", "a">>, <<"cr", "#", "=", "b">>,
   <<"a", "=", "b">>, <<" ", "a", "vt", "=", "c", "=", "cr">>, <<"=", "b">>,
   <<"a", "comma", "b", "comma">>, <<"comma", "comma", "a", "cr">>, <<"comma", "comma", "comma">>,
   <<"a", "comma", "comma", "comma", "comma", "=", "b">>}

MCDelimiters == {<<"comma">>, <<"comma", "comma">>}

MCQuotedLines == UNION {[1 .. n -> {"a", "comma", "quot"}] : n \in 1 .. 6}

Md5Stays == UNCHANGED md5Vars
SpanStays == UNCHANGED spanVars
FilesStay == UNCHANGED fileVars

HelpersInit ==
  /\ part \in {"md5", "span", "files", "quotes"}
  /\ Md5Init /\ FileInit
  /\ IF part = "span" THEN \E t \in MCText, f \in MCFlags : SpanInit(t, f)
     ELSE SpanInit(<<>>, {})

HelpersNext ==
  /\ UNCHANGED part
  /\ \/ part = "md5" /\ Md5Next /\ SpanStays /\ FilesStay
     \/ part = "span" /\ SpanNext /\ Md5Stays /\ FilesStay
     \/ part = "files" /\ LoadNext /\ Md5Stays /\ SpanStays
     \/ /\ part = "quotes" /\ quoted.line = <<>>       \* one call: it keeps no state
        /\ Md5Stays /\ SpanStays
        /\ \E line \in QuotedLines : AskSplitWithQuot(line)

HelpersSpec == HelpersInit /\ [][HelpersNext]_<<part, md5Vars, spanVars, fileVars>>
=============================================================================
