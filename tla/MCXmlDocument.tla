---------------------------- MODULE MCXmlDocument ----------------------------
(* Letters, tags and longer texts for XmlPrinter. *)
EXTENDS XmlPrinter

Leaf(kind) == Tok(kind, <<"x">>, <<>>, "none")
Open(name, attrs) == Tok("open", <<name>>, attrs, "none")
Close(name) == Tok("close", <<name>>, <<>>, "none")

MCTokens ==
  {Leaf(kind) : kind \in {"text", "cdata", "comment", "declaration"}}
    \union {WhiteSpace, Open("a", <<>>), Open("b", <<"p", "q">>), Close("a"), Close("b"),
            Tok("closed", <<"b">>, <<"p">>, "none"),
            Tok("open", <<"a">>, <<"p", "p">>, "none"),
            Tok("closed", <<"a">>, <<>>, "name"),
            Tok("open", <<"b">>, <<>>, "unterminated"),
            Tok("comment", <<"x">>, <<>>, "unterminated"),
            Tok("close", <<"a">>, <<"p">>, "none"),
            Tok("close", <<"a">>, <<>>, "unterminated")}

(* Texts around and between elements, several levels deep. *)
Mixed ==
  <<Open("a", <<>>), Leaf("text"), Open("b", <<"p">>), Leaf("text"), Close("b"),
    Tok("closed", <<"b">>, <<>>, "none"), Leaf("text"), Close("a")>>

Wrapped ==
  <<Leaf("declaration"), WhiteSpace, Open("a", <<>>), WhiteSpace, Open("b", <<>>),
    Leaf("cdata"), Open("a", <<>>), Leaf("comment"), Close("a"), Close("b"), Close("a")>>

TooDeepNest ==
  <<Open("a", <<>>), Leaf("text"), Open("a", <<>>), Open("a", <<>>), Open("a", <<>>),
    Leaf("text")>>

(* The last character is a "<". *)
LoneBracket == <<Open("a", <<>>), Tok("text", <<"x">>, <<>>, "name")>>

MCSamples == {Mixed, Wrapped, TooDeepNest, LoneBracket, <<WhiteSpace>>}
=============================================================================
