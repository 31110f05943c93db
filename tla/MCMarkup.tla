------------------------------ MODULE MCMarkup ------------------------------
(***************************************************************************)
(* Instances of Markup for TLC: pages put together from whole constructs   *)
(* and from torn ones.                                                     *)
(***************************************************************************)
EXTENDS Markup

\* Symbols with what they are meant to be.
Part(kind, s, name, form) == [kind |-> kind, src |-> s, name |-> name, form |-> form]
Text(s) == Part("text", <<s>>, "x", "open")
Open(name) == Part("tag", <<"<", name, ">">>, name, "open")
Close(name) == Part("tag", <<"<", "/", name, ">">>, name, "close")
Void(name) == Part("tag", <<"<", name, "/", ">">>, name, "void")
Raw(name, s) == Part("raw", <<"<", name, ">">> \o s \o <<"<", "/", name, ">">>, name, "open")
TornPart(s) == Part("torn", s, "x", "open")

\* What the renderer tells apart.
Flow ==
    {Text("x"), Text("\n"), Text(" "), Close("p"), Close("td"), Open("pre"), Close("pre")}

\* What the scanner tells apart.
Constructs ==
    {Text(s) : s \in {"x", "\n", "&amp;", "&nbsp;", "&", ">", "<"}} \cup
    {Open(name) : name \in {"p", "br", "pre", "code"}} \cup
    {Close(name) : name \in {"p", "pre", "code"}} \cup
    {Void("p"), Void("code"),
     Part("tag", <<"<", "b", " ", "quote", ">", "x", "x", "x", "quote", ">">>, "b", "open"),
     Part("comment", <<"<", "!", "--", "<", "p", ">", "x", "--", ">">>, "x", "open"),
     Raw("script", <<"x", "<", "/", "script", "x", ">", "x">>),
     Raw("style", <<"<", "!", "--">>)}
Torn1 ==
    {TornPart(<<"<", "p">>), TornPart(<<"<", "b", "quote">>), TornPart(<<"<", "!", "--">>),
     TornPart(<<"<", "script", ">">>), TornPart(<<"<">>), TornPart(<<"<", "/", "x">>),
     TornPart(<<"<", "b", "x", "x", "x", "x", ">">>)}
Openings ==
    {Part("tag", <<"<", "!", "doctype", ">">>, "!", "open"),
     TornPart(<<"<", "?", "xml", "?", ">">>), TornPart(<<"<", "?", "x", ">">>),
     Text("\n"), Text("x")}

\* The parts one behind the other.
Page(parts) ==
    LET Symbols1(k) == FlattenSeq([i \in 1 .. k |-> parts[i].src])
    IN  [src |-> Symbols1(Len(parts)),
         pieces |-> [k \in DOMAIN parts |->
                        [from |-> Len(Symbols1(k - 1)) + 1, to |-> Len(Symbols1(k)),
                         kind |-> parts[k].kind, name |-> parts[k].name,
                         form |-> parts[k].form]]]

Of(S, n) == [1 .. n -> S]
MCPages ==
    {Page(<<Open("html")>> \o q) :
        q \in Of(Flow, 5) \cup Of(Constructs, 3) \cup Of(Constructs \cup Torn1, 2)}
    \cup {Page(<<o>> \o q) : o \in Openings, q \in Of(Constructs \cup Torn1, 2)}
=============================================================================
