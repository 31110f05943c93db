------------------------------- MODULE Recode -------------------------------
(***************************************************************************)
(* The deterministic recode chain over one parsed request: the runner, the *)
(* ledger, the nine recode passes and the rules that thread one leaf       *)
(* through them.                                                           *)
(*                                                                         *)
(* A text is the document it renders and the features a pass can still     *)
(* strip from it, so two texts are byte-identical iff they are equal.      *)
(* Lengths count in units of 256 bytes.  What the strippers do to bytes is *)
(* left out (Markup has that of the largest), and so are the token counts  *)
(* of a proposal, which staging does not read.                             *)
(***************************************************************************)
EXTENDS Integers, Sequences, FiniteSets, FiniteSetsExt

CONSTANTS
    N,              \* segments of the request
    Docs,           \* documents a leaf can render
    Core,           \* length of a document without any feature
    Family,         \* documents of one family differ in a few lines
    Gain,           \* bytes that stripping a feature removes, may be negative
    DiffLen,        \* length of a header and a diff of two similar texts
    DiffNoise,      \* features of a diff (blank context lines end in a space)
    Tools,          \* names of tools
    NoTool,         \* a segment that is no tool pair
    Conversations,  \* the requests to recode
    Pipelines,      \* the pipelines to run
    max_reverts,
    None

Segs == 1 .. N
Features == {"blob", "ansi", "ws", "html", "pretty", "rows", "long", "tall"}
\* What an inline pass removes carries no meaning for the model.
Cosmetic == {"ansi", "ws", "pretty"}
Statuses == {"open",    \* one recodeable leaf
             "salient", \* the same, but the source of a live constraint
             "many",    \* no leaf, several leaves or several targets
             "pinned",  \* the last segment, or a call without its result
             "typed",   \* typed by the human (or pinned, and a source)
             "paste"}   \* typed, and larger than human_verbatim_max
\* pinned || is_true_human: never recoded.
Verbatim == {"pinned", "typed", "paste"}

MIN_RECODE_SPAN == 1
DEDUPE_MIN_CHARS == 4
G_MIN_BYTES == 4
G_MAX_BYTES == 2048

Whole == [doc : Docs, has : SUBSET Features, form : {"whole"}, base : {None}]
Diffs == [doc : Docs, has : SUBSET Features, form : {"diff"},
          base : [seg : Segs, text : Whole]]
Empty == [doc |-> None, has |-> {}, form |-> "empty", base |-> None]
Texts == Whole \cup Diffs \cup {Empty}

Passes == {"blob_extract", "ansi_strip", "whitespace", "markup_strip", "json_minify",
           "json_toon", "dedup_backref", "head_tail", "seq_diff"}
\* A checkpoint, and a pass that asks to rewind to it whenever it runs.
Stages == Passes \cup {"checkpoint", "rewind"}
Proposals == [content : Texts, needs_ref : Whole \cup {None}, by : Passes]
Segments == [raw : Whole, tool : Tools \cup {NoTool}, status : Statuses]

ASSUME RecodeAssumption ==
    /\ N \in Nat /\ max_reverts \in Nat
    /\ None \notin Docs /\ None \notin Texts /\ None \notin Proposals
    /\ Core \in [Docs -> Nat] /\ Gain \in [Features -> Int] /\ DiffLen \in Nat
    /\ DiffNoise \subseteq Features
    /\ NoTool \notin Tools
    /\ Conversations \subseteq [Segs -> Segments]
    /\ Pipelines \subseteq Seq(Stages)

VARIABLES
    segs,       \* the segments, with their leaves as received
    ledger,     \* the proposal of each segment
    pipe,       \* the pipeline that runs
    at,         \* the stage that runs next
    reverts     \* rewinds so far

chain_vars == <<segs, ledger, pipe, at, reverts>>

Length(t) ==
    IF t.form = "empty" THEN 0
    ELSE MapThenSumSet(LAMBDA f : Gain[f], t.has)
         + IF t.form = "whole" THEN Core[t.doc] ELSE DiffLen

-----------------------------------------------------------------------------
(***************************************************************************)
(* The strippers.  None: the text is not theirs to strip.  Escape codes    *)
(* keep a text from parsing as JSON and from being recognised as HTML.     *)
(***************************************************************************)
Without(t, fs) == [t EXCEPT !.has = @ \ fs]
Parses(t) == t.form = "whole" /\ "ansi" \notin t.has

extract_blob(t) == IF "blob" \in t.has THEN Without(t, {"blob"}) ELSE None
strip_ansi(t) == Without(t, {"ansi"})
normalize_ws(t) == Without(t, {"ws"})
strip_html(t) == IF Parses(t) /\ "html" \in t.has THEN Without(t, {"html"}) ELSE None
minify_json(t) ==
    IF Parses(t) /\ t.has \cap {"pretty", "rows"} # {} THEN Without(t, {"pretty"}) ELSE None
select_leaner(t) ==
    IF Parses(t) /\ t.has \cap {"pretty", "rows"} # {}
    THEN Without(t, {"pretty", "rows"})
    ELSE None
\* More than sixty lines; of a tall text the elided ones are shorter than
\* the marker that replaces them.
head_tail(t) ==
    IF t.has \cap {"long", "tall"} # {} THEN Without(t, {"long", "tall"}) ELSE None

-----------------------------------------------------------------------------
(***************************************************************************)
(* The leaf of a segment and the proposals of a pass for it.               *)
(***************************************************************************)
raw_leaf(s) ==
    IF segs[s].status # "many" /\ Length(segs[s].raw) > MIN_RECODE_SPAN
    THEN [content |-> segs[s].raw, carried_ref |-> None]
    ELSE None

recode_leaf(s, L) ==
    CASE segs[s].status \in Verbatim -> None
      [] segs[s].status \notin Verbatim /\ L[s] # None ->
            [content |-> L[s].content, carried_ref |-> L[s].needs_ref]
      [] OTHER -> raw_leaf(s)

raw_recode_leaf(s) == IF segs[s].status \in Verbatim THEN None ELSE raw_leaf(s)

Shrinks(leaf, t) == t # None /\ Length(t) < Length(leaf.content)

inline_recode(leaf, t, p) ==
    IF Shrinks(leaf, t)
    THEN [content |-> t, needs_ref |-> leaf.carried_ref, by |-> p]
    ELSE None

\* Mutant: each ref-backed pass stores its own input.
ref_recode_latest(leaf, t, p) ==
    IF Shrinks(leaf, t) THEN [content |-> t, needs_ref |-> leaf.content, by |-> p] ELSE None

ref_recode(leaf, t, p) ==
    IF Shrinks(leaf, t)
    THEN [content |-> t,
          needs_ref |-> IF leaf.carried_ref = None THEN leaf.content ELSE leaf.carried_ref,
          by |-> p]
    ELSE None

BlobExtractPass(leaf) == ref_recode(leaf, extract_blob(leaf.content), "blob_extract")
AnsiStripPass(leaf) == inline_recode(leaf, strip_ansi(leaf.content), "ansi_strip")
WhitespacePass(leaf) == inline_recode(leaf, normalize_ws(leaf.content), "whitespace")
MarkupStripPass(leaf) == ref_recode(leaf, strip_html(leaf.content), "markup_strip")
JsonMinifyPass(leaf) == inline_recode(leaf, minify_json(leaf.content), "json_minify")
JsonToonPass(leaf) == ref_recode(leaf, select_leaner(leaf.content), "json_toon")
HeadTailPass(leaf) == ref_recode(leaf, head_tail(leaf.content), "head_tail")

LeafPass(p, leaf) ==
    CASE p = "blob_extract" -> BlobExtractPass(leaf)
      [] p = "ansi_strip"   -> AnsiStripPass(leaf)
      [] p = "whitespace"   -> WhitespacePass(leaf)
      [] p = "markup_strip" -> MarkupStripPass(leaf)
      [] p = "json_minify"  -> JsonMinifyPass(leaf)
      [] p = "json_toon"    -> JsonToonPass(leaf)
      [] p = "head_tail"    -> HeadTailPass(leaf)

\* The proposal of a pass, or the one the segment has.
upsert(L, s, prop) == IF prop = None THEN L[s] ELSE prop

OnEachLeaf(p, L) ==
    [s \in Segs |-> LET leaf == recode_leaf(s, L)
                    IN  IF leaf = None THEN L[s] ELSE upsert(L, s, LeafPass(p, leaf))]

\* Dedup keys on the leaf as received: an earlier segment has the same.
Duplicate(s) ==
    LET leaf == raw_recode_leaf(s)
    IN  /\ leaf # None
        /\ Length(leaf.content) >= DEDUPE_MIN_CHARS
        /\ \E e \in 1 .. s - 1 : raw_recode_leaf(e) = leaf

DedupBackrefPass(L) ==
    [s \in Segs |-> IF Duplicate(s)
                    THEN upsert(L, s, ref_recode(raw_recode_leaf(s), Empty, "dedup_backref"))
                    ELSE L[s]]

(***************************************************************************)
(* The sequential diff: the last bare result of a tool is the base of the  *)
(* next ones that resemble it.                                             *)
(***************************************************************************)
Similar(a, b) ==
    /\ a.form = "whole" /\ b.form = "whole"
    /\ Family[a.doc] = Family[b.doc] /\ a.has = b.has

diff_proposal(leaf, base) ==
    LET target == leaf.content
        diff == [doc |-> target.doc, has |-> DiffNoise, form |-> "diff", base |-> base]
    IN  IF /\ {Length(base.text), Length(target)} \subseteq G_MIN_BYTES .. G_MAX_BYTES - 1
           /\ Similar(base.text, target)
           /\ 2 * Length(diff) <= Length(target)
        THEN ref_recode(leaf, diff, "seq_diff")
        ELSE None

\* A leaf that renders bare becomes the base of its tool.
base_after(last, s, leaf, prop) ==
    IF prop = None /\ leaf.carried_ref = None /\ Length(leaf.content) >= G_MIN_BYTES
    THEN [last EXCEPT ![segs[s].tool] = [seg |-> s, text |-> leaf.content]]
    ELSE last

seq_diff_step(s, acc) ==
    LET L == acc.ledger
        leaf == recode_leaf(s, L)
        base == acc.last[segs[s].tool]
        prop == IF base = None THEN None ELSE diff_proposal(leaf, base)
    IN  IF \/ L[s] # None /\ L[s].by = "seq_diff"
           \/ leaf = None
           \/ segs[s].tool = NoTool
        THEN acc
        ELSE [ledger |-> [L EXCEPT ![s] = upsert(L, s, prop)],
              last |-> base_after(acc.last, s, leaf, prop)]

SeqDiffPass(L) ==
    LET upto[s \in 0 .. N] ==
            IF s = 0
            THEN [ledger |-> L, last |-> [t \in Tools \cup {NoTool} |-> None]]
            ELSE seq_diff_step(s, upto[s - 1])
    IN  upto[N].ledger

apply(p, L) ==
    CASE p = "dedup_backref" -> DedupBackrefPass(L)
      [] p = "seq_diff"      -> SeqDiffPass(L)
      [] OTHER               -> OnEachLeaf(p, L)

-----------------------------------------------------------------------------
(***************************************************************************)
(* The pipelines and the runner.                                           *)
(***************************************************************************)
\* Mutant: head and tail are cut after the diffs.
deterministic_cut_last ==
    <<"blob_extract", "ansi_strip", "whitespace", "markup_strip", "json_minify",
      "json_toon", "dedup_backref", "seq_diff", "head_tail">>

deterministic ==
    <<"blob_extract", "ansi_strip", "whitespace", "markup_strip", "json_minify",
      "json_toon", "dedup_backref", "head_tail", "seq_diff">>

\* The chain between a checkpoint and a pass that rewinds to it, composed
\* with >> as the tests of the runner compose theirs.
replayed == <<"checkpoint">> \o deterministic \o <<"rewind">>

ChainInit ==
    /\ segs \in Conversations
    /\ ledger = [s \in Segs |-> None]
    /\ pipe \in Pipelines
    /\ at = 1
    /\ reverts = 0

ChainDone == at > Len(pipe)

RunPass ==
    /\ ~ChainDone
    /\ pipe[at] \in Passes
    /\ ledger' = apply(pipe[at], ledger)
    /\ at' = at + 1
    /\ UNCHANGED <<segs, pipe, reverts>>

PassCheckpoint ==
    /\ ~ChainDone
    /\ pipe[at] = "checkpoint"
    /\ at' = at + 1
    /\ UNCHANGED <<segs, ledger, pipe, reverts>>

checkpoint_position == {k \in 1 .. Len(pipe) : pipe[k] = "checkpoint"}

Rewind ==
    /\ ~ChainDone
    /\ pipe[at] = "rewind"
    /\ IF reverts < max_reverts
       THEN /\ reverts' = reverts + 1
            /\ at' = IF checkpoint_position # {} THEN Min(checkpoint_position) + 1 ELSE at + 1
       ELSE at' = at + 1 /\ UNCHANGED reverts
    /\ UNCHANGED <<segs, ledger, pipe>>

Chain == RunPass \/ PassCheckpoint \/ Rewind

-----------------------------------------------------------------------------
ChainTypeOK ==
    /\ segs \in Conversations
    /\ ledger \in [Segs -> Proposals \cup {None}]
    /\ pipe \in Pipelines
    /\ at \in 1 .. Len(pipe) + 1
    /\ reverts \in 0 .. max_reverts

\* What the model can no longer read off t.
Lossy(raw, t) == t.form # "whole" \/ ~(raw.has \ t.has \subseteq Cosmetic)

(* ref_recode and inline_recode: however the passes compose, and however   *)
(* often the chain is replayed, a proposal that lost content carries an    *)
(* original, and that original is the leaf as received but for cosmetics:  *)
(* the one from before the first ref-backed pass.                          *)
OriginalCarried ==
    \A s \in Segs :
        ledger[s] # None =>
            LET prop == ledger[s]
            IN  /\ Lossy(segs[s].raw, prop.content) => prop.needs_ref # None
                /\ prop.needs_ref # None =>
                        /\ prop.needs_ref.doc = segs[s].raw.doc
                        /\ ~Lossy(segs[s].raw, prop.needs_ref)

\* The text the chain leaves a segment with.
Threaded(s) == IF ledger[s] = None THEN segs[s].raw ELSE ledger[s].content

(* The ordering contract of seq_diff: at the end of the chain, replayed or *)
(* not, the base of every diff is an earlier segment that still reads as   *)
(* it did when the diff was taken, without a marker and not itself a diff. *)
DiffBaseFinal ==
    ChainDone =>
        \A s \in Segs :
            ledger[s] # None /\ ledger[s].content.form = "diff" =>
                LET base == ledger[s].content.base
                IN  /\ base.seg < s
                    /\ base.text.form = "whole"
                    /\ Threaded(base.seg) = base.text
                    /\ ledger[base.seg] # None => ledger[base.seg].needs_ref = None
=============================================================================
