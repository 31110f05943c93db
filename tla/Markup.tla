------------------------------- MODULE Markup -------------------------------
(***************************************************************************)
(* The markup stripper: what strip_html makes of a page, one step per      *)
(* construct the scanner comes to.  A page is a sequence of symbols, each  *)
(* a character or a name that matters to the scanner; a name outside a tag *)
(* is text.  A step either renders, skips or gives up.  Of the two kinds   *)
(* of quote there is one: no quoted value of these pages has the other in  *)
(* it.                                                                     *)
(*                                                                         *)
(* A page comes with its author's reading of it, for the properties only:  *)
(* the pieces it is made of.  Every rendered character remembers its place *)
(* in the page and whether it stood in pre or code, for the same reason.   *)
(***************************************************************************)
EXTENDS Integers, Sequences, FiniteSets, FiniteSetsExt, SequencesExt

CONSTANTS
    Pages,                  \* pages, each with its pieces
    UNQUOTED_TAG_WINDOW,
    MIN_TAG_HITS,
    MIN_DISTINCT_TAGS

HTML_TAGS == {"p", "td", "br", "script", "style"}
BLOCK_TAGS == {"p", "br", "pre"}
CELL_TAGS == {"td"}
RAW_TAGS == {"script", "style"}
PRE_TAGS == {"pre", "code"}
Names == HTML_TAGS \cup BLOCK_TAGS \cup PRE_TAGS \cup {"b", "html", "xml", "x"}
Entities == {"&amp;", "&nbsp;"}
Marks == {"<", ">", "/", "!", "--", "?", "&", "doctype", "quote", " ", "\n"}
Symbols == Names \cup Entities \cup Marks
Chars == Symbols \ Entities

\* A piece of a page: where it is, and what its author meant it to be.
Pieces == [from : Nat, to : Nat, kind : {"text", "tag", "comment", "raw", "torn"},
           name : Symbols, form : {"open", "close", "void"}]
PageType == [src : Seq(Symbols), pieces : Seq(Pieces)]

ASSUME MarkupAssumption ==
    /\ {UNQUOTED_TAG_WINDOW, MIN_TAG_HITS, MIN_DISTINCT_TAGS} \subseteq Nat \ {0}
    /\ Pages \subseteq PageType

VARIABLES
    page,
    at,                 \* the symbol the scanner is at
    out,                \* the rendered characters
    trailing_newlines,
    pending,            \* a separator to come: 0 none, 1 a space, 2 a newline
    pre_depth,
    result              \* "new", "scan", then "rendered" or "none"

renderer == <<out, trailing_newlines, pending, pre_depth>>
vars == <<page, at, renderer, result>>

Init ==
    /\ page \in Pages
    /\ at = 1
    /\ out = <<>> /\ trailing_newlines = 0 /\ pending = 0 /\ pre_depth = 0
    /\ result = "new"

input == page.src
Is(i, s) == i \in 1 .. Len(input) /\ input[i] = s
IsOneOf(i, S) == i \in 1 .. Len(input) /\ input[i] \in S
\* The first index of S, or 0.
First(S) == IF S = {} THEN 0 ELSE Min(S)
From(i) == {j \in 1 .. Len(input) : j >= i}

-----------------------------------------------------------------------------
(***************************************************************************)
(* What the scanner sees.                                                  *)
(***************************************************************************)
is_tag_boundary(i) == i > Len(input) \/ IsOneOf(i, {" ", "\n", "/", ">"})
named_opening_tag_at(i, name) == Is(i, "<") /\ Is(i + 1, name) /\ is_tag_boundary(i + 2)

named_closing_tag_at(i, name) ==
    Is(i, "<") /\ Is(i + 1, "/") /\ Is(i + 2, name) /\ is_tag_boundary(i + 3)
named_tag_at(i, name) == named_opening_tag_at(i, name) \/ named_closing_tag_at(i, name)

Space == {" ", "\n"}
looks_like_html ==
    LET first == First({i \in From(1) : input[i] \notin Space})
        hits == {i \in From(1) : \E name \in HTML_TAGS : named_tag_at(i, name)}
        seen == {name \in HTML_TAGS : \E i \in hits : named_tag_at(i, name)}
        root == Is(first + 1, "html") \/ (Is(first + 1, "!") /\ Is(first + 2, "doctype"))
        dense == Cardinality(hits) >= MIN_TAG_HITS /\ Cardinality(seen) >= MIN_DISTINCT_TAGS
    IN  /\ Is(first, "<") /\ ~(Is(first + 1, "?") /\ Is(first + 2, "xml"))
        /\ root \/ dense

starts_tag(i) == IsOneOf(i, Names \cup {"/", "!"})

\* Mutant: quotes are not looked at.
find_tag_end_unquoted(start) == First({j \in From(start + 1) : input[j] = ">"})

\* The closing bracket of the tag at start, or 0: none, a quote that never
\* closes, or too long a run outside quotes.  The search goes on at last, the
\* tag's first bracket or a quote that closes.
find_tag_end(start) ==
    LET next(j, S) == First({k \in From(j + 1) : input[k] \in S})
        end[last \in 1 .. Len(input)] ==
            LET k == next(last, {">", "quote"})
                close == next(k, {"quote"})
            IN  IF k = 0 \/ k - last - 1 > UNQUOTED_TAG_WINDOW THEN 0
                ELSE IF input[k] = ">" THEN k
                ELSE IF close = 0 THEN 0
                ELSE end[close]
    IN  end[start]

comment_at(i) == Is(i, "<") /\ Is(i + 1, "!") /\ Is(i + 2, "--")
comment_end(i) == First({j \in From(i + 3) : input[j] = "--" /\ Is(j + 1, ">")})
find_closing_tag(i, name) == First({j \in From(i) : named_closing_tag_at(j, name)})

\* Where the span of a script or style ends, or 0.
raw_end(name) ==
    LET tag_end == find_tag_end(at)
        close == find_closing_tag(tag_end + 1, name)
    IN  IF close = 0 THEN 0 ELSE find_tag_end(close)

Tag_parse(start, end) ==
    LET closing == Is(start + 1, "/")
        name_start == start + IF closing THEN 2 ELSE 1
    IN  [name |-> IF IsOneOf(name_start + 1, Names) THEN "x" ELSE input[name_start],
         closing |-> closing,
         self_closing |-> input[end - 1] = "/"]

separator(tag) ==
    CASE tag.name = "br" -> 2
      [] tag.name # "br" /\ ~tag.closing /\ ~tag.self_closing -> 0
      [] tag.name \in CELL_TAGS /\ (tag.closing \/ tag.self_closing) -> 1
      [] tag.name \in BLOCK_TAGS \ {"br"} /\ (tag.closing \/ tag.self_closing) -> 2
      [] OTHER -> 0

-----------------------------------------------------------------------------
(***************************************************************************)
(* Renderer: what it is after a tag and after a character.                 *)
(***************************************************************************)
R == [out |-> out, newlines |-> trailing_newlines, pending |-> pending, depth |-> pre_depth]
Becomes(r) ==
    /\ out' = r.out /\ trailing_newlines' = r.newlines
    /\ pending' = r.pending /\ pre_depth' = r.depth

raw(r, ch, src) ==
    [r EXCEPT !.out = Append(@, [ch |-> ch, src |-> src, pre |-> r.depth > 0]),
              !.newlines = IF ch = "\n" THEN @ + 1 ELSE 0]

newline_capped(r, src) == IF r.newlines < 2 THEN raw(r, "\n", src) ELSE r

flush_pending(r) ==
    LET cleared == [r EXCEPT !.pending = 0]
    IN  CASE r.pending = 2 -> newline_capped(cleared, 0)
          [] r.pending = 1 -> raw(cleared, " ", 0)
          [] OTHER -> r

\* What becomes of a pending separator before ch.
settle(r, ch) ==
    CASE r.pending = 2 /\ ch = "\n" -> [r EXCEPT !.pending = 0]
      [] r.pending = 1 /\ ch \in Space -> [r EXCEPT !.pending = 0]
      [] r.pending # 0 /\ ch \notin Space -> flush_pending(r)
      [] OTHER -> r

\* Mutant: pre and code are like any other text.
push_everywhere(r, ch, src) ==
    IF r.pending = 2 /\ ch = " " THEN r
    ELSE IF ch = "\n" THEN newline_capped(settle(r, ch), src)
    ELSE raw(settle(r, ch), ch, src)

push(r, ch, src) ==
    IF r.depth > 0 THEN raw(flush_pending(r), ch, src)
    ELSE IF r.pending = 2 /\ ch = " " THEN r
    ELSE IF ch = "\n" THEN newline_capped(settle(r, ch), src)
    ELSE raw(settle(r, ch), ch, src)

\* Mutant: the last separator wins.
Renderer_tag_last(r, tag) ==
    LET depth == IF tag.name \notin PRE_TAGS THEN r.depth
                 ELSE IF tag.closing THEN Max({r.depth - 1, 0})
                 ELSE IF tag.self_closing THEN r.depth ELSE r.depth + 1
    IN  [r EXCEPT !.depth = depth,
                  !.pending = IF depth = 0 /\ r.out # <<>> /\ separator(tag) # 0
                              THEN separator(tag) ELSE @]

\* The depth changes before the separator is scheduled.
Renderer_tag(r, tag) ==
    LET depth == IF tag.name \notin PRE_TAGS THEN r.depth
                 ELSE IF tag.closing THEN Max({r.depth - 1, 0})
                 ELSE IF tag.self_closing THEN r.depth ELSE r.depth + 1
    IN  [r EXCEPT !.depth = depth,
                  !.pending = IF depth = 0 /\ r.out # <<>> THEN Max({@, separator(tag)}) ELSE @]

-----------------------------------------------------------------------------
(***************************************************************************)
(* strip_html.                                                             *)
(***************************************************************************)
Scanning == result = "scan" /\ at <= Len(input)
GiveUp == result' = "none" /\ UNCHANGED <<page, at, renderer>>
Skip(end) == at' = end + 1 /\ UNCHANGED <<page, renderer, result>>
AtTag == Is(at, "<") /\ ~comment_at(at) /\ starts_tag(at + 1)
AtRaw == AtTag /\ find_tag_end(at) # 0 /\ \E name \in RAW_TAGS : named_opening_tag_at(at, name)

Recognize ==
    /\ result = "new"
    /\ result' = IF looks_like_html THEN "scan" ELSE "none"
    /\ UNCHANGED <<page, at, renderer>>

Comment ==
    /\ Scanning /\ comment_at(at)
    /\ LET end == comment_end(at) IN IF end = 0 THEN GiveUp ELSE Skip(end + 1)

\* A bracket that is the last symbol, or a tag without an end.
Torn ==
    /\ Scanning /\ Is(at, "<") /\ ~comment_at(at)
    /\ at = Len(input) \/ (AtTag /\ find_tag_end(at) = 0)
    /\ GiveUp

RawSpan ==
    /\ Scanning /\ AtRaw
    /\ LET end == raw_end(input[at + 1]) IN IF end = 0 THEN GiveUp ELSE Skip(end)

Tag ==
    /\ Scanning /\ AtTag /\ ~AtRaw
    /\ LET end == find_tag_end(at)
       IN  /\ end # 0
           /\ Becomes(Renderer_tag(R, Tag_parse(at, end)))
           /\ at' = end + 1
    /\ UNCHANGED <<page, result>>

decoded_entity(s) == CASE s = "&amp;" -> "&" [] s = "&nbsp;" -> " " [] OTHER -> s

\* Text, an entity, or a bracket or ampersand that is only text.
Character ==
    /\ Scanning
    /\ Is(at, "<") => at < Len(input) /\ ~comment_at(at) /\ ~AtTag
    /\ Becomes(push(R, decoded_entity(input[at]), at))
    /\ at' = at + 1
    /\ UNCHANGED <<page, result>>

Width(s) == IF s \in Entities THEN Len("&amp;") ELSE 1
Finish ==
    /\ result = "scan" /\ at > Len(input)
    /\ result' = IF Len(out) < FoldLeft(LAMBDA n, s : n + Width(s), 0, input)
                 THEN "rendered" ELSE "none"
    /\ UNCHANGED <<page, at, renderer>>

Next == Recognize \/ Comment \/ Torn \/ RawSpan \/ Tag \/ Character \/ Finish

Spec == Init /\ [][Next]_vars

-----------------------------------------------------------------------------
(***************************************************************************)
(* The page as its author meant it: pieces, one behind the other.          *)
(***************************************************************************)
Piece(k) == page.pieces[k]
End(k) == IF k = 0 THEN 0 ELSE Piece(k).to

\* An odd number of quotes from a on stands before k.
quoted(a, k) == Cardinality({j \in a .. k - 1 : Is(j, "quote")}) % 2 = 1

\* The symbols from a to b are one tag: its bracket is the first one outside
\* quotes, and nowhere is there too much between two quotes.
IsTag(a, b) ==
    /\ a < b /\ Is(a, "<") /\ Is(b, ">") /\ ~quoted(a, b)
    /\ \A k \in a + 1 .. b - 1 : Is(k, ">") => quoted(a, k)
    /\ \A k \in a + 1 .. b - 1 : k + UNQUOTED_TAG_WINDOW < b =>
           \E j \in k .. k + UNQUOTED_TAG_WINDOW : Is(j, "quote") \/ quoted(a, j)

\* A tag or a declaration is written as its author means it.
IsWritten(p) ==
    LET n == p.from + IF p.form = "close" THEN 2 ELSE 1
    IN  /\ p.form = "close" => Is(p.from + 1, "/")
        /\ Is(n, p.name)
        /\ \/ p.name \in Names /\ is_tag_boundary(n + 1)
           \/ p.name = "!" /\ p.form = "open" /\ ~Is(n + 1, "--")
        /\ p.form = "open" => ~Is(p.to - 1, "/")
        /\ p.form = "void" => Is(p.to - 1, "/")
        /\ p.name \in RAW_TAGS => p.form = "close"

IsComment(a, b) ==
    /\ comment_at(a) /\ b > a + 3
    /\ Is(b - 1, "--") /\ Is(b, ">")
    /\ \A j \in a + 3 .. b - 2 : ~(Is(j, "--") /\ Is(j + 1, ">"))

\* A script or style: two tags, and no other that closes it between them.
IsRaw(p) ==
    \E a, c \in p.from + 1 .. p.to :
        /\ p.name \in RAW_TAGS /\ named_opening_tag_at(p.from, p.name) /\ IsTag(p.from, a)
        /\ a < c /\ named_closing_tag_at(c, p.name) /\ IsTag(c, p.to)
        /\ \A j \in a + 1 .. c - 1 : ~named_closing_tag_at(j, p.name)

\* A text is one symbol, and a bracket only before what cannot start a tag.
IsText(a) == Is(a, "<") => a < Len(input) /\ ~starts_tag(a + 1)

Whole(p) ==
    \/ p.kind = "text" /\ p.from = p.to /\ IsText(p.from)
    \/ p.kind = "tag" /\ IsTag(p.from, p.to) /\ IsWritten(p)
    \/ p.kind = "comment" /\ IsComment(p.from, p.to)
    \/ p.kind = "raw" /\ IsRaw(p)

\* The pieces are whole and tile the page.
AllWhole ==
    /\ \A k \in DOMAIN page.pieces :
           Piece(k).from = End(k - 1) + 1 /\ Piece(k).from <= Piece(k).to /\ Whole(Piece(k))
    /\ End(Len(page.pieces)) = Len(input)

nest(p) ==
    IF p.kind = "tag" /\ p.name \in PRE_TAGS
    THEN [open |-> 1, close |-> -1, void |-> 0][p.form] ELSE 0

ends(p) ==
    CASE p.kind = "tag" /\ p.name = "br" -> "block"
      [] p.kind = "tag" /\ p.form # "open" /\ p.name \in BLOCK_TAGS \ {"br"} -> "block"
      [] p.kind = "tag" /\ p.form # "open" /\ p.name \in CELL_TAGS -> "cell"
      [] OTHER -> "nothing"

\* The nesting of pre and code behind the k-th piece.
Depth(k) ==
    LET depth[j \in 0 .. Len(page.pieces)] ==
            IF j = 0 THEN 0 ELSE Max({0, depth[j - 1] + nest(Piece(j))})
    IN  depth[k]

Texts == {k \in DOMAIN page.pieces : Piece(k).kind = "text"}
Places(I) == {out[i].src : i \in I}
\* What ends between two places of the page, outside pre and code.
EndsBetween(a, b) ==
    {ends(Piece(k)) : k \in {l \in DOMAIN page.pieces :
                                a < Piece(l).from /\ Piece(l).to < b /\ Depth(l) = 0}}
              \ {"nothing"}

-----------------------------------------------------------------------------
TypeOK ==
    /\ page \in PageType
    /\ at \in 1 .. Len(input) + 1
    /\ out \in Seq([ch : Chars, src : 0 .. Len(input), pre : BOOLEAN])
    /\ trailing_newlines \in Nat
    /\ pending \in 0 .. 2 /\ (out = <<>> => pending = 0)
    /\ pre_depth \in Nat
    /\ result \in {"new", "scan", "rendered", "none"}

(* strip_html: of a page made of whole constructs no visible character is  *)
(* lost, added or moved, and nothing of a tag, a quoted attribute, a       *)
(* comment, a script or a style shows, whatever brackets and names those   *)
(* contain.  Blanks may go, and blanks alone may come.                     *)
TextKept ==
    result = "rendered" /\ AllWhole =>
        /\ \A i \in DOMAIN out :
              out[i].ch \in IF out[i].src = 0 THEN Space ELSE {decoded_entity(input[out[i].src])}
        /\ \A i, j \in DOMAIN out :
              i < j /\ 0 \notin Places({i, j}) => out[i].src < out[j].src
        /\ Places({i \in DOMAIN out : out[i].ch \notin Space}) =
              {Piece(k).from : k \in {k \in Texts :
                                        decoded_entity(input[Piece(k).from]) \notin Space}}

(* Renderer: the text inside pre and code keeps its white space, character *)
(* for character, and nothing is put into it: a separator stands only where*)
(* a block or a cell ended outside pre and code.                           *)
PreVerbatim ==
    result = "rendered" /\ AllWhole =>
        /\ Places({i \in DOMAIN out : out[i].pre}) \ {0} =
              {Piece(k).from : k \in {k \in Texts : Depth(k) > 0}}
        /\ \A i \in DOMAIN out :
              out[i].src = 0 => /\ i - 1 \in DOMAIN out /\ i + 1 \in DOMAIN out
                                /\ EndsBetween(out[i - 1].src, out[i + 1].src) # {}

(* Renderer: text on the two sides of the end of a block, outside pre and  *)
(* code, is on two lines, and text on the two sides of the end of a cell   *)
(* is never glued together, whatever tags and blanks stand between.        *)
BlocksApart ==
    result = "rendered" /\ AllWhole =>
        \A i, j \in DOMAIN out :
            /\ i < j /\ {out[i].ch, out[j].ch} \cap Space = {}
            /\ \A m \in i + 1 .. j - 1 : out[m].ch \in Space
            => LET between == EndsBetween(out[i].src, out[j].src)
                   blanks == {out[m].ch : m \in i + 1 .. j - 1}
               IN  /\ "block" \in between => "\n" \in blanks
                   /\ "cell" \in between => blanks # {}
=============================================================================
