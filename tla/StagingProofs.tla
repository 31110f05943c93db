--------------------------- MODULE StagingProofs ---------------------------
(***************************************************************************)
(* Proofs about Staging and the recode chain it runs, for any number of    *)
(* segments, any texts, any pipeline and any order of the passes.          *)
(***************************************************************************)
EXTENDS Staging, Induction

(***************************************************************************)
(* The scan of seq_diff, unfolded.                                         *)
(***************************************************************************)

\* The state of the scan before the first segment.
ScanInit(L) == [ledger |-> L, last |-> [t \in Tools \cup {NoTool} |-> None]]

\* u is the scan of the first n segments.
IsScan(L, u, n) ==
    u = [s \in 0 .. n |-> IF s = 0 THEN ScanInit(L) ELSE seq_diff_step(s, u[s - 1])]

\* There is such a scan.
LEMMA ScanExists ==
    ASSUME NEW L, NEW n \in Nat
    PROVE  \E u : IsScan(L, u, n)
<1> DEFINE S == {k \in Nat : \E u : IsScan(L, u, k)}
<1>1. 0 \in S
  <2> DEFINE u == [s \in 0 .. 0 |-> ScanInit(L)]
  <2>1. IsScan(L, u, 0)
    <3>1. 0 .. 0 = {0}
      OBVIOUS
    <3> QED BY <3>1 DEF IsScan
  <2> QED BY <2>1
<1>2. ASSUME NEW k \in Nat, k \in S PROVE k + 1 \in S
  <2>1. PICK u : IsScan(L, u, k)
    BY <1>2
  <2> DEFINE v == [s \in 0 .. k + 1 |-> IF s = k + 1 THEN seq_diff_step(s, u[k]) ELSE u[s]]
             w == [s \in 0 .. k + 1 |-> IF s = 0 THEN ScanInit(L) ELSE seq_diff_step(s, v[s - 1])]
  <2>2. ASSUME NEW s \in 0 .. k + 1 PROVE v[s] = w[s]
    <3>1. CASE s = k + 1
      <4>1. v[s - 1] = u[k] /\ s # 0
        BY <3>1
      <4> QED BY <3>1, <4>1
    <3>2. CASE s = 0
      BY <3>2, <2>1 DEF IsScan
    <3>3. CASE s # 0 /\ s # k + 1
      <4>1. s \in 0 .. k /\ s - 1 \in 0 .. k /\ s - 1 \in 0 .. k + 1 /\ s - 1 # k + 1
        BY <3>3
      <4>2. v[s] = u[s] /\ v[s - 1] = u[s - 1]
        BY <3>3, <4>1
      <4>3. u[s] = seq_diff_step(s, u[s - 1])
        BY <3>3, <4>1, <2>1 DEF IsScan
      <4>4. w[s] = seq_diff_step(s, v[s - 1])
        BY <3>3
      <4> HIDE DEF v, w
      <4> QED BY <4>2, <4>3, <4>4
    <3> QED BY <3>1, <3>2, <3>3
  <2>3. v = w
    BY <2>2
  <2>4. IsScan(L, v, k + 1)
    BY <2>3 DEF IsScan
  <2> HIDE DEF v
  <2> QED BY <2>4
<1>3. Nat \subseteq S
  <2> HIDE DEF S
  <2> QED BY <1>1, <1>2, SetInduction
<1> QED BY <1>3

\* The pass ends with the ledger of the scan of all segments.
LEMMA SeqDiffUnfold ==
    ASSUME NEW L
    PROVE  \E u : IsScan(L, u, N) /\ SeqDiffPass(L) = u[N].ledger
<1>1. \E u : IsScan(L, u, N)
  BY ScanExists, RecodeAssumption
<1> DEFINE upto == CHOOSE u : u = [s \in 0 .. N |->
                      IF s = 0 THEN [ledger |-> L, last |-> [t \in Tools \cup {NoTool} |-> None]]
                      ELSE seq_diff_step(s, u[s - 1])]
<1>2. SeqDiffPass(L) = upto[N].ledger
  BY DEF SeqDiffPass
<1>3. IsScan(L, upto, N)
  BY <1>1 DEF IsScan, ScanInit
<1> QED BY <1>2, <1>3

(***************************************************************************)
(* The originals.                                                          *)
(*                                                                         *)
(* OriginalCarried alone is not inductive: a ref-backed pass stores the    *)
(* text it finds when no original is carried yet, so a whole text must be  *)
(* of the segment's own document.                                          *)
(***************************************************************************)

\* A text that lost content has an original with it, the leaf as received
\* but for cosmetics, and a whole text renders the segment's document.
Carries(s, content, ref) ==
    /\ content.form = "whole" => content.doc = segs[s].raw.doc
    /\ Lossy(segs[s].raw, content) => ref # None
    /\ ref # None => ref.doc = segs[s].raw.doc /\ ~Lossy(segs[s].raw, ref)

PropOK(s, prop) == prop \in Proposals /\ Carries(s, prop.content, prop.needs_ref)

LedgerOK(L) ==
    /\ L \in [Segs -> Proposals \cup {None}]
    /\ \A s \in Segs : L[s] # None => PropOK(s, L[s])

LeafOK(s, leaf) ==
    /\ leaf.content \in Texts
    /\ leaf.carried_ref \in Whole \cup {None}
    /\ Carries(s, leaf.content, leaf.carried_ref)

\* The segments have the types of the requests.
LEMMA SegsType ==
    ASSUME ChainTypeOK, NEW s \in Segs
    PROVE  segs[s] \in Segments /\ segs[s].raw \in Whole /\ segs[s].tool \in Tools \cup {NoTool}
<1>1. segs[s] \in Segments
  BY RecodeAssumption DEF ChainTypeOK
<1> QED BY <1>1 DEF Segments

\* The fields of the texts.
LEMMA TextFacts ==
    ASSUME NEW t \in Texts
    PROVE  /\ t.form \in {"whole", "diff", "empty"}
           /\ t.form = "whole" => t \in Whole
           /\ t.form # "empty" => t.doc \in Docs
           /\ t.has \subseteq Features
BY DEF Texts, Whole, Diffs, Empty

\* The leaf as received carries itself.
LEMMA RawLeafOK ==
    ASSUME ChainTypeOK, NEW s \in Segs, raw_leaf(s) # None
    PROVE  LeafOK(s, raw_leaf(s)) /\ raw_leaf(s).content = segs[s].raw
<1>1. segs[s].raw \in Whole
  BY SegsType
<1>2. raw_leaf(s) = [content |-> segs[s].raw, carried_ref |-> None]
  BY DEF raw_leaf
<1>3. segs[s].raw.form = "whole" /\ segs[s].raw \in Texts
  BY <1>1 DEF Whole, Texts
<1>4. Carries(s, segs[s].raw, None)
  BY <1>3 DEF Carries, Lossy
<1> QED BY <1>2, <1>3, <1>4 DEF LeafOK

\* The leaf a pass works on carries what the ledger does.
LEMMA RecodeLeafOK ==
    ASSUME ChainTypeOK, NEW L, LedgerOK(L), NEW s \in Segs, recode_leaf(s, L) # None
    PROVE  LeafOK(s, recode_leaf(s, L)) /\ segs[s].status \notin Verbatim
<1>0. segs[s].status \notin Verbatim
  BY DEF recode_leaf
<1>1. CASE L[s] # None
  <2>1. recode_leaf(s, L) = [content |-> L[s].content, carried_ref |-> L[s].needs_ref]
    BY <1>0, <1>1 DEF recode_leaf
  <2>2. L[s] \in Proposals /\ Carries(s, L[s].content, L[s].needs_ref)
    BY <1>1 DEF LedgerOK, PropOK
  <2>3. L[s].content \in Texts /\ L[s].needs_ref \in Whole \cup {None}
    BY <2>2 DEF Proposals
  <2> QED BY <1>0, <2>1, <2>2, <2>3 DEF LeafOK
<1>2. CASE L[s] = None
  <2>1. recode_leaf(s, L) = raw_leaf(s)
    BY <1>0, <1>2 DEF recode_leaf
  <2> QED BY <1>0, <2>1, RawLeafOK
<1> QED BY <1>1, <1>2

\* A ref-backed pass stores the text it finds unless an original is carried.
LEMMA RefOK ==
    ASSUME ChainTypeOK, NEW s \in Segs, NEW leaf, LeafOK(s, leaf), NEW t, NEW p \in Passes,
           t # None => t \in Texts /\ (t.form = "whole" => t.doc = segs[s].raw.doc),
           ref_recode(leaf, t, p) # None
    PROVE  PropOK(s, ref_recode(leaf, t, p))
<1> DEFINE ref == IF leaf.carried_ref = None THEN leaf.content ELSE leaf.carried_ref
           prop == [content |-> t, needs_ref |-> ref, by |-> p]
<1>1. ref_recode(leaf, t, p) = prop /\ t # None
  BY DEF ref_recode, Shrinks
<1>2. ref \in Whole /\ ref.doc = segs[s].raw.doc /\ ~Lossy(segs[s].raw, ref)
  <2>1. CASE leaf.carried_ref = None
    <3>1. ~Lossy(segs[s].raw, leaf.content)
      BY <2>1 DEF LeafOK, Carries
    <3>2. leaf.content.form = "whole"
      BY <3>1 DEF Lossy
    <3> QED BY <2>1, <3>1, <3>2, TextFacts DEF LeafOK, Carries
  <2>2. CASE leaf.carried_ref # None
    BY <2>2 DEF LeafOK, Carries
  <2> QED BY <2>1, <2>2
<1>3. ref # None
  BY <1>2, RecodeAssumption DEF Texts
<1> HIDE DEF ref
<1>4. prop \in Proposals
  BY <1>1, <1>2 DEF Proposals
<1>5. Carries(s, t, ref)
  BY <1>1, <1>2, <1>3 DEF Carries
<1> QED BY <1>1, <1>4, <1>5 DEF PropOK

\* Taking features off a text leaves a text of the same form and document.
LEMMA WithoutText ==
    ASSUME NEW t \in Texts, NEW fs
    PROVE  /\ Without(t, fs) \in Texts
           /\ Without(t, fs).form = t.form /\ Without(t, fs).doc = t.doc
           /\ Without(t, fs).has = t.has \ fs
<1> DEFINE w == [t EXCEPT !.has = @ \ fs]
<1>1. CASE t \in Whole
  BY <1>1 DEF Texts, Whole, Without
<1>2. CASE t \in Diffs
  BY <1>2 DEF Texts, Diffs, Without
<1>3. CASE t = Empty
  <2>1. w.doc = t.doc /\ w.form = t.form /\ w.base = t.base /\ w.has = {} /\ t.has = {}
    BY <1>3 DEF Empty
  <2>2. w = t
    BY <1>3, <2>1 DEF Empty
  <2> QED BY <1>3, <2>1, <2>2 DEF Texts, Without
<1> QED BY <1>1, <1>2, <1>3 DEF Texts

\* An inline pass takes off cosmetics only, and passes the original on.
LEMMA InlineOK ==
    ASSUME ChainTypeOK, NEW s \in Segs, NEW leaf, LeafOK(s, leaf), NEW t, NEW p \in Passes,
           NEW fs \in SUBSET Cosmetic,
           t # None => t = Without(leaf.content, fs),
           inline_recode(leaf, t, p) # None
    PROVE  PropOK(s, inline_recode(leaf, t, p))
<1> DEFINE prop == [content |-> t, needs_ref |-> leaf.carried_ref, by |-> p]
<1>1. inline_recode(leaf, t, p) = prop /\ t = Without(leaf.content, fs)
  BY DEF inline_recode, Shrinks
<1>2. leaf.content \in Texts /\ leaf.carried_ref \in Whole \cup {None}
      /\ Carries(s, leaf.content, leaf.carried_ref)
  BY DEF LeafOK
<1>3. /\ t \in Texts /\ t.form = leaf.content.form /\ t.doc = leaf.content.doc
      /\ t.has = leaf.content.has \ fs
  BY <1>1, <1>2, WithoutText
<1>4. Lossy(segs[s].raw, t) => Lossy(segs[s].raw, leaf.content)
  BY <1>3 DEF Lossy
<1>5. Carries(s, t, leaf.carried_ref)
  BY <1>2, <1>3, <1>4 DEF Carries
<1>6. prop \in Proposals
  BY <1>2, <1>3 DEF Proposals
<1> QED BY <1>1, <1>5, <1>6 DEF PropOK

\* The passes over one leaf.
LEMMA LeafPassOK ==
    ASSUME ChainTypeOK, NEW s \in Segs, NEW leaf, LeafOK(s, leaf),
           NEW p \in Passes \ {"dedup_backref", "seq_diff"}, LeafPass(p, leaf) # None
    PROVE  PropOK(s, LeafPass(p, leaf))
<1> DEFINE t == leaf.content
<1>0. t \in Texts /\ (t.form = "whole" => t.doc = segs[s].raw.doc)
  BY DEF LeafOK, Carries
<1>1. ASSUME NEW fs, NEW u, u # None => u = Without(t, fs), NEW q \in Passes,
             ref_recode(leaf, u, q) # None
      PROVE  PropOK(s, ref_recode(leaf, u, q))
  <2>1. u # None => u \in Texts /\ (u.form = "whole" => u.doc = segs[s].raw.doc)
    BY <1>0, <1>1, WithoutText
  <2> QED BY <1>1, <2>1, RefOK
<1>2. CASE p = "blob_extract"
  <2>1. LeafPass(p, leaf) = ref_recode(leaf, extract_blob(t), p) /\ p \in Passes
    BY <1>2 DEF LeafPass, BlobExtractPass
  <2>2. extract_blob(t) # None => extract_blob(t) = Without(t, {"blob"})
    BY DEF extract_blob
  <2> QED BY <2>1, <2>2, <1>1
<1>3. CASE p = "markup_strip"
  <2>1. LeafPass(p, leaf) = ref_recode(leaf, strip_html(t), p) /\ p \in Passes
    BY <1>3 DEF LeafPass, MarkupStripPass
  <2>2. strip_html(t) # None => strip_html(t) = Without(t, {"html"})
    BY DEF strip_html
  <2> QED BY <2>1, <2>2, <1>1
<1>4. CASE p = "json_toon"
  <2>1. LeafPass(p, leaf) = ref_recode(leaf, select_leaner(t), p) /\ p \in Passes
    BY <1>4 DEF LeafPass, JsonToonPass
  <2>2. select_leaner(t) # None => select_leaner(t) = Without(t, {"pretty", "rows"})
    BY DEF select_leaner
  <2> QED BY <2>1, <2>2, <1>1
<1>5. CASE p = "head_tail"
  <2>1. LeafPass(p, leaf) = ref_recode(leaf, head_tail(t), p) /\ p \in Passes
    BY <1>5 DEF LeafPass, HeadTailPass
  <2>2. head_tail(t) # None => head_tail(t) = Without(t, {"long", "tall"})
    BY DEF head_tail
  <2> QED BY <2>1, <2>2, <1>1
<1>6. CASE p = "ansi_strip"
  <2>1. LeafPass(p, leaf) = inline_recode(leaf, strip_ansi(t), p) /\ p \in Passes
    BY <1>6 DEF LeafPass, AnsiStripPass
  <2>2. strip_ansi(t) = Without(t, {"ansi"}) /\ {"ansi"} \in SUBSET Cosmetic
    BY DEF strip_ansi, Cosmetic
  <2> QED BY <2>1, <2>2, InlineOK
<1>7. CASE p = "whitespace"
  <2>1. LeafPass(p, leaf) = inline_recode(leaf, normalize_ws(t), p) /\ p \in Passes
    BY <1>7 DEF LeafPass, WhitespacePass
  <2>2. normalize_ws(t) = Without(t, {"ws"}) /\ {"ws"} \in SUBSET Cosmetic
    BY DEF normalize_ws, Cosmetic
  <2> QED BY <2>1, <2>2, InlineOK
<1>8. CASE p = "json_minify"
  <2>1. LeafPass(p, leaf) = inline_recode(leaf, minify_json(t), p) /\ p \in Passes
    BY <1>8 DEF LeafPass, JsonMinifyPass
  <2>2. minify_json(t) # None => minify_json(t) = Without(t, {"pretty"})
    BY DEF minify_json
  <2>3. {"pretty"} \in SUBSET Cosmetic
    BY DEF Cosmetic
  <2> QED BY <2>1, <2>2, <2>3, InlineOK
<1> QED BY <1>2, <1>3, <1>4, <1>5, <1>6, <1>7, <1>8 DEF Passes

\* A proposal that is fine, or none, leaves a fine ledger entry.
LEMMA UpsertOK ==
    ASSUME NEW L, LedgerOK(L), NEW s \in Segs, NEW prop, prop # None => PropOK(s, prop)
    PROVE  /\ upsert(L, s, prop) \in Proposals \cup {None}
           /\ upsert(L, s, prop) # None => PropOK(s, upsert(L, s, prop))
BY DEF upsert, LedgerOK, PropOK

\* A pass over each leaf on its own.
LEMMA OnEachLeafOK ==
    ASSUME ChainTypeOK, NEW L, LedgerOK(L), NEW p \in Passes \ {"dedup_backref", "seq_diff"}
    PROVE  LedgerOK(OnEachLeaf(p, L))
<1>1. ASSUME NEW s \in Segs
      PROVE  /\ OnEachLeaf(p, L)[s] \in Proposals \cup {None}
             /\ OnEachLeaf(p, L)[s] # None => PropOK(s, OnEachLeaf(p, L)[s])
  <2> DEFINE leaf == recode_leaf(s, L)
  <2>1. OnEachLeaf(p, L)[s] = IF leaf = None THEN L[s] ELSE upsert(L, s, LeafPass(p, leaf))
    BY DEF OnEachLeaf
  <2>2. CASE leaf = None
    BY <2>1, <2>2 DEF LedgerOK
  <2>3. CASE leaf # None
    <3>1. LeafPass(p, leaf) # None => PropOK(s, LeafPass(p, leaf))
      BY <2>3, RecodeLeafOK, LeafPassOK
    <3> HIDE DEF leaf
    <3> QED BY <2>1, <2>3, <3>1, UpsertOK
  <2> QED BY <2>2, <2>3
<1>2. OnEachLeaf(p, L) = [s \in Segs |-> OnEachLeaf(p, L)[s]]
  BY DEF OnEachLeaf
<1> QED BY <1>1, <1>2 DEF LedgerOK

\* The pass over duplicates: it takes the leaf as received.
LEMMA DedupBackrefOK ==
    ASSUME ChainTypeOK, NEW L, LedgerOK(L)
    PROVE  LedgerOK(DedupBackrefPass(L))
<1>1. ASSUME NEW s \in Segs
      PROVE  /\ DedupBackrefPass(L)[s] \in Proposals \cup {None}
             /\ DedupBackrefPass(L)[s] # None => PropOK(s, DedupBackrefPass(L)[s])
  <2> DEFINE leaf == raw_recode_leaf(s)
             prop == ref_recode(leaf, Empty, "dedup_backref")
  <2>1. DedupBackrefPass(L)[s] = IF Duplicate(s) THEN upsert(L, s, prop) ELSE L[s]
    BY DEF DedupBackrefPass
  <2>2. CASE ~Duplicate(s)
    BY <2>1, <2>2 DEF LedgerOK
  <2>3. CASE Duplicate(s)
    <3>1. leaf # None /\ leaf = raw_leaf(s)
      BY <2>3 DEF Duplicate, raw_recode_leaf
    <3>2. LeafOK(s, leaf)
      BY <3>1, RawLeafOK
    <3>3. Empty \in Texts /\ Empty.form # "whole" /\ "dedup_backref" \in Passes
      BY DEF Texts, Empty, Passes
    <3> HIDE DEF leaf
    <3>4. prop # None => PropOK(s, prop)
      BY <3>2, <3>3, RefOK
    <3> HIDE DEF prop
    <3> QED BY <2>1, <2>3, <3>4, UpsertOK
  <2> QED BY <2>2, <2>3
<1>2. DedupBackrefPass(L) = [s \in Segs |-> DedupBackrefPass(L)[s]]
  BY DEF DedupBackrefPass
<1> QED BY <1>1, <1>2 DEF LedgerOK

(***************************************************************************)
(* The scan: the bases it remembers are whole texts of the segments.       *)
(***************************************************************************)
Bases == [seg : Segs, text : Whole]

ScanOK(acc) ==
    /\ LedgerOK(acc.ledger)
    /\ acc.last \in [Tools \cup {NoTool} -> Bases \cup {None}]

\* A diff stores what it replaces.
LEMMA DiffOK ==
    ASSUME ChainTypeOK, NEW s \in Segs, NEW leaf, LeafOK(s, leaf), NEW base \in Bases,
           diff_proposal(leaf, base) # None
    PROVE  PropOK(s, diff_proposal(leaf, base))
<1> DEFINE target == leaf.content
           diff == [doc |-> target.doc, has |-> DiffNoise, form |-> "diff", base |-> base]
<1>1. diff_proposal(leaf, base) = ref_recode(leaf, diff, "seq_diff") /\ target.form = "whole"
  BY DEF diff_proposal, Similar
<1>2. target \in Texts
  BY DEF LeafOK
<1>3. target.doc \in Docs
  BY <1>1, <1>2, TextFacts
<1>4. diff \in Texts /\ diff.form # "whole"
  BY <1>3, RecodeAssumption DEF Texts, Diffs, Bases
<1>5. "seq_diff" \in Passes
  BY DEF Passes
<1> HIDE DEF diff
<1> QED BY <1>1, <1>4, <1>5, RefOK

\* One segment of the scan.
LEMMA ScanStepOK ==
    ASSUME ChainTypeOK, NEW s \in Segs, NEW acc, ScanOK(acc)
    PROVE  ScanOK(seq_diff_step(s, acc))
<1> DEFINE L == acc.ledger
           leaf == recode_leaf(s, L)
           base == acc.last[segs[s].tool]
           prop == IF base = None THEN None ELSE diff_proposal(leaf, base)
           new == [ledger |-> [L EXCEPT ![s] = upsert(L, s, prop)],
                   last |-> base_after(acc.last, s, leaf, prop)]
<1>1. seq_diff_step(s, acc) \in {acc, new} /\ (seq_diff_step(s, acc) # acc => leaf # None)
  BY DEF seq_diff_step
<1>2. CASE leaf = None
  BY <1>1, <1>2
<1>3. CASE leaf # None
  <2>1. LeafOK(s, leaf)
    BY <1>3, RecodeLeafOK DEF ScanOK
  <2>2. base \in Bases \cup {None} /\ segs[s].tool \in Tools \cup {NoTool}
    BY SegsType DEF ScanOK
  <2>3. prop # None => PropOK(s, prop)
    BY <2>1, <2>2, DiffOK
  <2>4. LedgerOK(L)
    BY DEF ScanOK
  <2> HIDE DEF leaf, prop, base
  <2>5. LedgerOK([L EXCEPT ![s] = upsert(L, s, prop)])
    <3>1. /\ upsert(L, s, prop) \in Proposals \cup {None}
          /\ upsert(L, s, prop) # None => PropOK(s, upsert(L, s, prop))
      BY <2>3, <2>4, UpsertOK
    <3> QED BY <2>4, <3>1 DEF LedgerOK
  <2>6. base_after(acc.last, s, leaf, prop) \in [Tools \cup {NoTool} -> Bases \cup {None}]
    <3>1. CASE leaf.carried_ref = None
      <4>1. ~Lossy(segs[s].raw, leaf.content)
        BY <2>1, <3>1 DEF LeafOK, Carries
      <4>2. leaf.content \in Whole
        BY <2>1, <4>1, TextFacts DEF LeafOK, Lossy
      <4>3. [seg |-> s, text |-> leaf.content] \in Bases
        BY <4>2 DEF Bases
      <4> QED BY <2>2, <4>3 DEF base_after, ScanOK
    <3>2. CASE leaf.carried_ref # None
      BY <3>2 DEF base_after, ScanOK
    <3> QED BY <3>1, <3>2
  <2>7. ScanOK(new)
    BY <2>5, <2>6 DEF ScanOK
  <2> HIDE DEF new
  <2> QED BY <1>1, <2>7
<1> QED BY <1>2, <1>3

\* The scan, by induction over its length.
LEMMA SeqDiffOK ==
    ASSUME ChainTypeOK, NEW L, LedgerOK(L)
    PROVE  LedgerOK(SeqDiffPass(L))
<1>1. PICK u : IsScan(L, u, N) /\ SeqDiffPass(L) = u[N].ledger
  BY SeqDiffUnfold
<1>n. N \in Nat
  BY RecodeAssumption
<1> DEFINE S == {k \in Nat : k <= N => ScanOK(u[k])}
<1>2. 0 \in S
  <2>1. u[0] = ScanInit(L)
    BY <1>1, <1>n DEF IsScan
  <2>2. ScanOK(ScanInit(L))
    BY DEF ScanOK, ScanInit
  <2> QED BY <2>1, <2>2
<1>3. ASSUME NEW k \in Nat, k \in S PROVE k + 1 \in S
  <2> SUFFICES ASSUME k + 1 <= N PROVE ScanOK(u[k + 1])
    OBVIOUS
  <2>1. ScanOK(u[k]) /\ k + 1 \in Segs
    BY <1>3, <1>n DEF Segs
  <2>2. u[k + 1] = seq_diff_step(k + 1, u[(k + 1) - 1])
    BY <1>1, <1>n DEF IsScan
  <2>3. (k + 1) - 1 = k
    OBVIOUS
  <2> QED BY <2>1, <2>2, <2>3, ScanStepOK
<1>4. Nat \subseteq S
  <2> HIDE DEF S
  <2> QED BY <1>2, <1>3, SetInduction
<1>5. ScanOK(u[N])
  BY <1>4, <1>n
<1> QED BY <1>1, <1>5 DEF ScanOK

\* Whatever pass runs, the ledger stays fine.
LEMMA ApplyOK ==
    ASSUME ChainTypeOK, NEW L, LedgerOK(L), NEW p \in Passes
    PROVE  LedgerOK(apply(p, L))
<1>1. CASE p = "dedup_backref"
  BY <1>1, DedupBackrefOK DEF apply
<1>2. CASE p = "seq_diff"
  BY <1>2, SeqDiffOK DEF apply
<1>3. CASE p \notin {"dedup_backref", "seq_diff"}
  BY <1>3, OnEachLeafOK DEF apply
<1> QED BY <1>1, <1>2, <1>3

(***************************************************************************)
(* The runner.                                                             *)
(***************************************************************************)
ChainInv == ChainTypeOK /\ LedgerOK(ledger)

\* A chain starts with an empty ledger.
LEMMA ChainStart ==
    ASSUME ChainInit
    PROVE  ChainInv
<1>1. pipe \in Seq(Stages) /\ max_reverts \in Nat
  BY RecodeAssumption DEF ChainInit
<1>2. Len(pipe) \in Nat
  BY <1>1
<1>3. at \in 1 .. Len(pipe) + 1 /\ reverts \in 0 .. max_reverts
  BY <1>1, <1>2 DEF ChainInit
<1>4. ledger \in [Segs -> Proposals \cup {None}] /\ \A s \in Segs : ledger[s] = None
  BY DEF ChainInit
<1> QED BY <1>3, <1>4 DEF ChainInv, ChainTypeOK, LedgerOK, ChainInit

\* The ledger's property is about the segments, which never change.
LEMMA LedgerFrame ==
    ASSUME NEW L, LedgerOK(L), segs' = segs, ledger' = L
    PROVE  LedgerOK(ledger)'
BY DEF LedgerOK, PropOK, Carries, Lossy

\* A stage of the pipeline.
LEMMA ChainStep ==
    ASSUME ChainInv, Chain
    PROVE  ChainInv'
<1>1. pipe \in Seq(Stages) /\ max_reverts \in Nat /\ Len(pipe) \in Nat
      /\ at \in 1 .. Len(pipe) + 1 /\ reverts \in 0 .. max_reverts
  BY RecodeAssumption DEF ChainInv, ChainTypeOK
<1>2. CASE RunPass
  <2>1. LedgerOK(apply(pipe[at], ledger)) /\ ledger' = apply(pipe[at], ledger)
    BY <1>2, ApplyOK DEF RunPass, ChainInv
  <2>2. LedgerOK(ledger)'
    BY <1>2, <2>1, LedgerFrame DEF RunPass
  <2>3. at' \in 1 .. Len(pipe) + 1
    BY <1>1, <1>2 DEF RunPass, ChainDone
  <2> QED BY <1>2, <2>2, <2>3 DEF ChainInv, ChainTypeOK, LedgerOK, RunPass
<1>3. CASE PassCheckpoint
  <2>1. LedgerOK(ledger)'
    BY <1>3, LedgerFrame DEF PassCheckpoint, ChainInv
  <2>2. at' \in 1 .. Len(pipe) + 1
    BY <1>1, <1>3 DEF PassCheckpoint, ChainDone
  <2> QED BY <1>3, <2>1, <2>2 DEF ChainInv, ChainTypeOK, PassCheckpoint
<1>4. CASE Rewind
  <2>1. LedgerOK(ledger)'
    BY <1>4, LedgerFrame DEF Rewind, ChainInv
  <2>2. checkpoint_position # {} => Min(checkpoint_position) \in 1 .. Len(pipe)
    <3>1. checkpoint_position \in SUBSET Nat /\ checkpoint_position \subseteq 1 .. Len(pipe)
      BY <1>1 DEF checkpoint_position
    <3> QED BY <3>1, MinOf
  <2>3. at' \in 1 .. Len(pipe) + 1
    <3>1. at + 1 \in 1 .. Len(pipe) + 1
      BY <1>1, <1>4 DEF Rewind, ChainDone
    <3>2. checkpoint_position # {} => Min(checkpoint_position) + 1 \in 1 .. Len(pipe) + 1
      BY <1>1, <2>2
    <3> QED BY <1>4, <3>1, <3>2 DEF Rewind
  <2>4. reverts' \in 0 .. max_reverts
    BY <1>1, <1>4 DEF Rewind
  <2> QED BY <1>4, <2>1, <2>3, <2>4 DEF ChainInv, ChainTypeOK, Rewind
<1> QED BY <1>2, <1>3, <1>4 DEF Chain

\* The task leaves the chain's state alone.
LEMMA ChainFrame ==
    ASSUME ChainInv, UNCHANGED chain_vars
    PROVE  ChainInv'
<1>1. segs' = segs /\ ledger' = ledger /\ pipe' = pipe /\ at' = at /\ reverts' = reverts
  BY DEF chain_vars
<1>2. LedgerOK(ledger)'
  BY <1>1, LedgerFrame DEF ChainInv
<1> QED BY <1>1, <1>2 DEF ChainInv, ChainTypeOK

\* Every step keeps the chain's part.
LEMMA ChainPart ==
    ASSUME ChainInv, [Next]_vars
    PROVE  ChainInv' /\ segs' = segs
<1>1. CASE RunChain
  BY <1>1, ChainStep DEF RunChain, Chain, RunPass, PassCheckpoint, Rewind
<1>2. CASE UNCHANGED chain_vars
  BY <1>2, ChainFrame DEF chain_vars
<1>3. CASE ~RunChain
  <2>1. UNCHANGED chain_vars
    BY <1>3 DEF Next, vars, Task, ReturnEarly, SkipGated, stage_recode, DecideShort, Post,
                RateLimited, Tick, CallFails, Decided, Folded, Show, Done
  <2> QED BY <2>1, <1>2
<1> QED BY <1>1, <1>3

(* ref_recode, inline_recode and the scan of seq_diff, for every request,  *)
(* every composition of the passes and any number of replays: a proposal   *)
(* that lost content carries the leaf as received, but for cosmetics.      *)
THEOREM OriginalIsCarried == Spec => []OriginalCarried
<1>1. Init => ChainInv
  BY ChainStart DEF Init
<1>2. ChainInv /\ [Next]_vars => ChainInv'
  BY ChainPart
<1>3. ChainInv => OriginalCarried
  BY DEF ChainInv, LedgerOK, PropOK, Carries, OriginalCarried
<1> QED BY <1>1, <1>2, <1>3, PTL DEF Spec

(***************************************************************************)
(* Payloads.                                                               *)
(***************************************************************************)

\* A payload is named by a segment that has the same leaf, and is the same
\* kind of segment.
LEMMA PayloadOf ==
    ASSUME ChainTypeOK, NEW s \in Segs
    PROVE  /\ Payload(s) \in Segs
           /\ segs[Payload(s)].raw = segs[s].raw
           /\ segs[s].tool # NoTool => Payload(s) = s
           /\ segs[s].tool = NoTool => segs[Payload(s)].tool = NoTool
<1>1. CASE segs[s].tool # NoTool
  BY <1>1 DEF Payload
<1>2. CASE segs[s].tool = NoTool
  <2> DEFINE same == {e \in Segs : segs[e].tool = NoTool /\ segs[e].raw = segs[s].raw}
  <2>1. same \in SUBSET Nat /\ s \in same
    BY <1>2, RecodeAssumption DEF Segs
  <2>2. Min(same) \in same
    BY <2>1, MinOf
  <2>3. Payload(s) = Min(same)
    BY <1>2 DEF Payload
  <2> QED BY <1>2, <2>2, <2>3
<1> QED BY <1>1, <1>2

\* Segments of one payload have one leaf and one length.
LEMMA SamePayload ==
    ASSUME ChainTypeOK, NEW s \in Segs, NEW e \in Segs, Payload(s) = Payload(e)
    PROVE  segs[s].raw = segs[e].raw
BY PayloadOf

\* The payload of a segment depends on the segments only.
LEMMA PayloadFrame ==
    ASSUME segs' = segs, NEW s
    PROVE  Payload(s)' = Payload(s)
BY DEF Payload

(***************************************************************************)
(* The state of the task.                                                  *)
(***************************************************************************)
TaskTypeOK ==
    /\ next \in 1 .. N + 2
    /\ call \in CallType
    /\ stored \subseteq Segs
    /\ plan \in [Segs -> Entries \cup {None}]
    /\ working \in 0 .. 1
    /\ shown \in [Segs -> [text : Texts, marker : {"none", "placeholder", "backref"}]]
                 \cup {None}

\* Attempts are counted from the first post, and two back-offs are left then.
CallOK ==
    /\ call.phase = "idle" => call.tries = 0
    /\ call.phase = "waiting" => call.tries \in 1 .. 2
    /\ call.phase = "posted" => call.tries \in 1 .. 3

\* The fold is the last call.
FoldOnce == next <= N + 1 => working = 0

\* What an entry of the plan says is backed by the store: its payload was
\* put, and without a marker it shows the leaf but for cosmetics.
EntryKept(p) ==
    plan[p] # None =>
        /\ p \in stored
        /\ plan[p].recode # None /\ ~plan[p].marker =>
              \A s \in Segs : Payload(s) = p => ~Lossy(segs[s].raw, plan[p].recode)

PlanKept == \A p \in Segs : EntryKept(p)

TaskInv == TaskTypeOK /\ CallOK /\ FoldOnce /\ PlanKept /\ ShownRecoverable

\* The task before its first segment.
LEMMA TaskStart ==
    ASSUME TaskInit
    PROVE  TaskInv
<1>n. N \in Nat /\ CALL_TIMEOUT \in Nat
  BY RecodeAssumption, StagingAssumption
<1>1. TaskTypeOK
  BY <1>n DEF TaskInit, TaskTypeOK, CallType, NoCall
<1>2. CallOK /\ FoldOnce
  BY DEF TaskInit, CallOK, FoldOnce, NoCall
<1>3. PlanKept /\ ShownRecoverable
  BY DEF TaskInit, PlanKept, EntryKept, ShownRecoverable
<1> QED BY <1>1, <1>2, <1>3 DEF TaskInv

\* A call that ended leaves the state of a call that has not begun.
LEMMA AdvanceOK ==
    ASSUME TaskInv, Advance, next <= N + 1
    PROVE  next' \in 1 .. N + 2 /\ call' \in CallType /\ CallOK'
<1>n. N \in Nat /\ CALL_TIMEOUT \in Nat
  BY RecodeAssumption, StagingAssumption
<1>1. next' \in 1 .. N + 2
  BY <1>n DEF TaskInv, TaskTypeOK, Advance
<1>2. call' = NoCall /\ NoCall \in CallType
  BY <1>n DEF Advance, NoCall, CallType
<1>3. CallOK'
  BY <1>2 DEF CallOK, NoCall
<1> QED BY <1>1, <1>2, <1>3

\* The plan, the store and the turn are kept when they do not change.
LEMMA PlanFrame ==
    ASSUME TaskInv, segs' = segs, UNCHANGED <<stored, plan, shown>>
    PROVE  PlanKept' /\ ShownRecoverable'
<1>1. \A s \in Segs : Payload(s)' = Payload(s)
  BY PayloadFrame
<1>2. PlanKept'
  BY <1>1 DEF TaskInv, PlanKept, EntryKept, Lossy
<1>3. ShownRecoverable'
  BY <1>1 DEF TaskInv, ShownRecoverable, Lossy
<1> QED BY <1>2, <1>3

\* Putting a payload and staging an entry for it.
LEMMA StageEntry ==
    ASSUME ChainTypeOK, TaskInv, segs' = segs, shown' = shown,
           NEW n \in Segs, NEW entry \in Entries,
           entry.recode # None /\ ~entry.marker => ~Lossy(segs[n].raw, entry.recode),
           stored' = stored \cup {Payload(n)},
           plan' = [plan EXCEPT ![Payload(n)] = entry]
    PROVE  /\ stored' \subseteq Segs
           /\ plan' \in [Segs -> Entries \cup {None}]
           /\ PlanKept' /\ ShownRecoverable'
<1>1. Payload(n) \in Segs
  BY PayloadOf
<1>2. \A s \in Segs : Payload(s)' = Payload(s)
  BY PayloadFrame
<1>3. stored' \subseteq Segs /\ plan' \in [Segs -> Entries \cup {None}]
  BY <1>1 DEF TaskInv, TaskTypeOK
<1>4. ASSUME NEW p \in Segs PROVE EntryKept(p)'
  <2>1. CASE p = Payload(n)
    <3>1. plan'[p] = entry /\ p \in stored'
      BY <1>1, <2>1 DEF TaskInv, TaskTypeOK
    <3>2. \A s \in Segs : Payload(s) = p => segs[s].raw = segs[n].raw
      BY <2>1, SamePayload
    <3> QED BY <1>2, <3>1, <3>2 DEF EntryKept, Lossy
  <2>2. CASE p # Payload(n)
    <3>1. plan'[p] = plan[p] /\ (p \in stored => p \in stored')
      BY <1>1, <2>2 DEF TaskInv, TaskTypeOK
    <3>2. EntryKept(p)
      BY DEF TaskInv, PlanKept
    <3> QED BY <1>2, <3>1, <3>2 DEF EntryKept, Lossy
  <2> QED BY <2>1, <2>2
<1>5. PlanKept'
  BY <1>4 DEF PlanKept
<1>6. ShownRecoverable'
  BY <1>2 DEF TaskInv, ShownRecoverable, Lossy
<1> QED BY <1>3, <1>5, <1>6

\* A recode that is staged without a marker kept what the segment said.
LEMMA RecodeEntry ==
    ASSUME ChainInv, NEW n \in Segs, ledger[n] # None
    PROVE  /\ recode_entry(n) \in Entries
           /\ recode_entry(n).recode # None /\ ~recode_entry(n).marker
                => ~Lossy(segs[n].raw, recode_entry(n).recode)
<1>1. ledger[n] \in Proposals /\ Carries(n, ledger[n].content, ledger[n].needs_ref)
  BY DEF ChainInv, LedgerOK, PropOK
<1>2. ledger[n].content \in Texts /\ (ledger[n].needs_ref # None) \in BOOLEAN
  BY <1>1 DEF Proposals
<1>3. recode_entry(n) \in [recode : Texts, decision : {None}, marker : BOOLEAN]
  BY <1>2 DEF recode_entry
<1>4. recode_entry(n).recode = ledger[n].content
      /\ recode_entry(n).marker = (ledger[n].needs_ref # None)
  BY DEF recode_entry
<1> QED BY <1>1, <1>3, <1>4 DEF Entries, Carries

\* A repaired answer that is not to keep has one of the other choices.
LEMMA NormalizeType ==
    ASSUME NEW d \in Decisions, normalize(d).choice # "keep"
    PROVE  normalize(d).choice \in {"truncate", "summarize", "compress"}
<1>1. CASE d.choice = "truncate" /\ ~d.ranges
  BY <1>1 DEF Decisions, normalize
<1>2. CASE d.choice = "summarize" /\ d.summary = "none"
  BY <1>2 DEF Decisions, normalize
<1>3. CASE ~(d.choice = "truncate" /\ ~d.ranges) /\ ~(d.choice = "summarize" /\ d.summary = "none")
  <2>1. normalize(d) = d
    BY <1>3 DEF normalize
  <2> QED BY <2>1 DEF Decisions
<1> QED BY <1>1, <1>2, <1>3

\* What the next turn shows of a plan that is backed.
LEMMA RenderOK ==
    ASSUME ChainTypeOK, TaskInv, NEW dropped, NEW forced
    PROVE  /\ render_segments(dropped, forced)
                \in [Segs -> [text : Texts, marker : {"none", "placeholder", "backref"}]]
           /\ \A s \in Segs :
                Lossy(segs[s].raw, render_segments(dropped, forced)[s].text) =>
                    render_segments(dropped, forced)[s].marker # "none" /\ Payload(s) \in stored
<1> DEFINE r == render_segments(dropped, forced)
           Shown == [text : Texts, marker : {"none", "placeholder", "backref"}]
<1>1. ASSUME NEW s \in Segs
      PROVE  /\ r[s] \in Shown
             /\ Lossy(segs[s].raw, r[s].text) => r[s].marker # "none" /\ Payload(s) \in stored
  <2> DEFINE entry == plan[Payload(s)]
  <2>1. /\ r[s] = IF ~Applied(s, dropped) THEN [text |-> segs[s].raw, marker |-> "none"]
                  ELSE IF entry.recode # None THEN render_recode_segment(entry)
                  ELSE render_reversible_segment(s, dropped, forced)
        /\ segs[s].raw \in Texts /\ segs[s].raw.form = "whole" /\ Payload(s) \in Segs
        /\ Empty \in Texts
    BY SegsType, PayloadOf DEF render_segments, Texts, Whole
  <2>2. CASE ~Applied(s, dropped)
    <3>1. r[s] = [text |-> segs[s].raw, marker |-> "none"]
      BY <2>1, <2>2
    <3>2. ~Lossy(segs[s].raw, segs[s].raw)
      BY <2>1 DEF Lossy
    <3> QED BY <2>1, <3>1, <3>2
  <2>3. CASE Applied(s, dropped)
    <3>1. entry # None /\ EntryKept(Payload(s)) /\ entry \in Entries
      BY <2>1, <2>3 DEF Applied, TaskInv, TaskTypeOK, PlanKept
    <3>2. Payload(s) \in stored
          /\ (entry.recode # None /\ ~entry.marker => ~Lossy(segs[s].raw, entry.recode))
      BY <2>1, <3>1 DEF EntryKept
    <3>3. CASE entry.recode # None
      <4>1. entry.recode \in Texts /\ entry.marker \in BOOLEAN
        BY <3>1, <3>3 DEF Entries
      <4>2. r[s] = [text |-> entry.recode,
                    marker |-> IF ~entry.marker THEN "none"
                               ELSE IF entry.recode = Empty THEN "backref" ELSE "placeholder"]
        BY <2>1, <2>3, <3>3 DEF render_recode_segment
      <4> HIDE DEF entry, r
      <4> QED BY <3>2, <3>3, <4>1, <4>2
    <3>4. CASE entry.recode = None
      <4>1. r[s] = [text |-> Empty,
                    marker |-> IF backref_allowed(s, dropped, forced)
                               THEN "backref" ELSE "placeholder"]
        BY <2>1, <2>3, <3>4 DEF render_reversible_segment
      <4> HIDE DEF entry, r
      <4> QED BY <2>1, <3>2, <4>1
    <3> QED BY <3>3, <3>4
  <2> QED BY <2>2, <2>3
<1>2. r = [s \in Segs |-> r[s]]
  BY DEF render_segments
<1> HIDE DEF r, Shown
<1>3. r \in [Segs -> Shown]
  BY <1>1, <1>2
<1> QED BY <1>1, <1>3 DEF r, Shown

\* Every step of the task, one action at a time.
LEMMA TaskStep ==
    ASSUME ChainInv, TaskInv, [Next]_vars
    PROVE  TaskInv'
<1>n. N \in Nat /\ CALL_TIMEOUT \in Nat /\ RetryAfters \subseteq Nat
  BY RecodeAssumption, StagingAssumption
<1>c. ChainTypeOK /\ segs' = segs
  BY ChainPart DEF ChainInv
<1>t. TaskTypeOK /\ CallOK /\ FoldOnce
  BY DEF TaskInv
<1>f. ASSUME UNCHANGED <<stored, plan, shown>>
      PROVE  PlanKept' /\ ShownRecoverable'
  BY <1>c, <1>f, PlanFrame
<1>0. CASE UNCHANGED task_vars
  <2>1. TaskTypeOK' /\ CallOK' /\ FoldOnce'
    BY <1>0, <1>t DEF task_vars, TaskTypeOK, CallOK, FoldOnce
  <2> QED BY <1>0, <1>f, <2>1 DEF task_vars, TaskInv
<1>1. CASE RunChain \/ Done \/ UNCHANGED vars
  BY <1>0, <1>1 DEF RunChain, Done, vars
<1>2. CASE ReturnEarly
  <2>1. TaskTypeOK' /\ CallOK' /\ FoldOnce'
    BY <1>2, <1>n, <1>t DEF ReturnEarly, TaskTypeOK, CallOK, FoldOnce
  <2> QED BY <1>2, <1>f, <2>1 DEF ReturnEarly, TaskInv
<1>3. ASSUME Advance, next <= N + 1, UNCHANGED <<stored, plan, working, shown>>
      PROVE  TaskInv'
  <2>1. next' \in 1 .. N + 2 /\ call' \in CallType /\ CallOK'
    BY <1>3, AdvanceOK
  <2>2. TaskTypeOK'
    BY <1>3, <1>t, <2>1 DEF TaskTypeOK
  <2>3. FoldOnce'
    BY <1>3, <1>n, <1>t DEF FoldOnce, Advance, TaskTypeOK
  <2> QED BY <1>3, <1>f, <2>1, <2>2, <2>3 DEF TaskInv
<1>4. CASE SkipGated \/ DecideShort \/ CallFails
  BY <1>3, <1>4, <1>n DEF SkipGated, DecideShort, CallFails, Asks, Calling, Staging, Segs
<1>5. ASSUME Advance, next \in Segs, UNCHANGED <<working, shown>>, NEW entry \in Entries,
             entry.recode # None /\ ~entry.marker => ~Lossy(segs[next].raw, entry.recode),
             stored' = stored \cup {Payload(next)},
             plan' = [plan EXCEPT ![Payload(next)] = entry]
      PROVE  TaskInv'
  <2>1. next' \in 1 .. N + 2 /\ call' \in CallType /\ CallOK'
    BY <1>5, <1>n, AdvanceOK DEF Segs
  <2>2. stored' \subseteq Segs /\ plan' \in [Segs -> Entries \cup {None}]
        /\ PlanKept' /\ ShownRecoverable'
    BY <1>5, <1>c, StageEntry
  <2>3. TaskTypeOK'
    BY <1>5, <1>t, <2>1, <2>2 DEF TaskTypeOK
  <2>4. FoldOnce'
    BY <1>5, <1>n, <1>t DEF FoldOnce, Advance, TaskTypeOK, Segs
  <2> QED BY <2>1, <2>2, <2>3, <2>4 DEF TaskInv
<1>6. CASE stage_recode
  <2>1. Advance /\ next \in Segs /\ ledger[next] # None /\ UNCHANGED <<working, shown>>
    BY <1>6 DEF stage_recode, Staging, prefers_recode
  <2>2. CASE UNCHANGED <<stored, plan>>
    BY <1>3, <1>n, <2>1, <2>2 DEF Segs
  <2>3. CASE ~UNCHANGED <<stored, plan>>
    <3>1. stored' = stored \cup {Payload(next)}
          /\ plan' = [plan EXCEPT ![Payload(next)] = recode_entry(next)]
      BY <1>6, <2>3 DEF stage_recode
    <3> QED BY <1>5, <2>1, <3>1, RecodeEntry
  <2> QED BY <2>2, <2>3
<1>7. CASE Decided
  <2>1. Advance /\ next \in Segs /\ UNCHANGED <<working, shown>>
    BY <1>7 DEF Decided
  <2>2. CASE UNCHANGED <<stored, plan>>
    BY <1>3, <1>n, <2>1, <2>2 DEF Segs
  <2>3. CASE ~UNCHANGED <<stored, plan>>
    <3>1. PICK d \in Decisions :
             /\ normalize(d).choice # "keep"
             /\ stored' = stored \cup {Payload(next)}
             /\ plan' = [plan EXCEPT ![Payload(next)] =
                            [recode |-> None, decision |-> normalize(d).choice,
                             marker |-> TRUE]]
      BY <1>7, <2>3 DEF Decided
    <3> DEFINE entry == [recode |-> None, decision |-> normalize(d).choice, marker |-> TRUE]
    <3>2. entry \in Entries /\ entry.recode = None
      BY <3>1, NormalizeType DEF Entries
    <3> HIDE DEF entry
    <3> QED BY <1>5, <2>1, <3>1, <3>2 DEF entry
  <2> QED BY <2>2, <2>3
<1>8. CASE Folded
  <2>1. Advance /\ next = N + 1 /\ working' = working + 1 /\ UNCHANGED <<stored, plan, shown>>
    BY <1>8 DEF Folded
  <2>2. next' \in 1 .. N + 2 /\ call' \in CallType /\ CallOK'
    BY <1>n, <2>1, AdvanceOK
  <2>3. working' \in 0 .. 1 /\ FoldOnce'
    BY <1>n, <1>t, <2>1 DEF FoldOnce, Advance
  <2>4. TaskTypeOK'
    BY <1>t, <2>1, <2>2, <2>3 DEF TaskTypeOK
  <2> QED BY <1>f, <2>1, <2>2, <2>3, <2>4 DEF TaskInv
<1>9. ASSUME call' \in CallType, CallOK', UNCHANGED <<next, stored, plan, working, shown>>
      PROVE  TaskInv'
  <2>1. TaskTypeOK' /\ FoldOnce'
    BY <1>9, <1>t DEF TaskTypeOK, FoldOnce
  <2> QED BY <1>9, <1>f, <2>1 DEF TaskInv
<1>10. CASE Post
  <2>1. call' = [call EXCEPT !.phase = "posted", !.tries = @ + 1] /\ call \in CallType
        /\ call.phase \in {"idle", "waiting"}
    BY <1>10, <1>t DEF Post, TaskTypeOK
  <2>2. call'.phase = "posted" /\ call'.tries = call.tries + 1 /\ call.tries \in 0 .. 2
    BY <1>t, <2>1 DEF CallType, CallOK
  <2>3. call' \in CallType
    <3>1. call.tries + 1 \in 0 .. 3
      BY <2>2
    <3> DEFINE k == call.tries + 1
    <3>2. call' = [call EXCEPT !.phase = "posted", !.tries = k]
      BY <2>1
    <3> HIDE DEF k
    <3> QED BY <2>1, <3>1, <3>2 DEF CallType, k
  <2>4. CallOK'
    BY <2>2 DEF CallOK
  <2> QED BY <1>9, <1>10, <2>3, <2>4 DEF Post
<1>11. CASE RateLimited
  <2>1. call \in CallType /\ call.tries \in 1 .. 2
    BY <1>11, <1>t DEF RateLimited, TaskTypeOK, CallOK, RETRY_BACKOFFS
  <2>2. RETRY_BACKOFFS[call.tries] \in Nat
    BY <2>1 DEF RETRY_BACKOFFS
  <2>3. PICK d \in Nat : call' = [call EXCEPT !.phase = "waiting", !.due = call.clock + d]
    BY <1>11, <1>n, <2>2 DEF RateLimited
  <2>4. call.clock + d \in Nat
    BY <1>n, <2>1 DEF CallType
  <2>5. call' \in CallType /\ call'.phase = "waiting" /\ call'.tries = call.tries
    BY <2>1, <2>3, <2>4 DEF CallType
  <2>6. CallOK'
    BY <2>1, <2>5 DEF CallOK
  <2> QED BY <1>9, <1>11, <2>5, <2>6 DEF RateLimited
<1>12. CASE Tick
  <2>1. call \in CallType /\ call' = [call EXCEPT !.clock = @ + 1] /\ call.clock < CALL_TIMEOUT
    BY <1>12, <1>t DEF Tick, TaskTypeOK
  <2>2. call.clock + 1 \in 0 .. CALL_TIMEOUT
    BY <1>n, <2>1 DEF CallType
  <2>3. call' \in CallType /\ call'.phase = call.phase /\ call'.tries = call.tries
    BY <2>1, <2>2 DEF CallType
  <2>4. CallOK'
    BY <1>t, <2>3 DEF CallOK
  <2> QED BY <1>9, <1>12, <2>3, <2>4 DEF Tick
<1>13. CASE Show
  <2>1. PICK dropped, forced : shown' = render_segments(dropped, forced)
    BY <1>13 DEF Show
  <2>2. UNCHANGED <<next, call, stored, plan, working>>
    BY <1>13 DEF Show
  <2>3. TaskTypeOK' /\ CallOK' /\ FoldOnce'
    BY <1>c, <1>t, <2>1, <2>2, RenderOK DEF TaskTypeOK, CallOK, FoldOnce
  <2>4. \A s \in Segs : Payload(s)' = Payload(s)
    BY <1>c, PayloadFrame
  <2>5. PlanKept'
    BY <1>c, <2>2, <2>4 DEF TaskInv, PlanKept, EntryKept, Lossy
  <2>6. ShownRecoverable'
    <3>1. \A s \in Segs : Lossy(segs[s].raw, shown'[s].text) =>
                             shown'[s].marker # "none" /\ Payload(s) \in stored
      BY <1>c, <2>1, RenderOK
    <3> QED BY <1>c, <2>2, <2>4, <3>1 DEF ShownRecoverable, Lossy
  <2> QED BY <2>3, <2>5, <2>6 DEF TaskInv
<1> QED
  BY <1>1, <1>2, <1>4, <1>6, <1>7, <1>8, <1>10, <1>11, <1>12, <1>13 DEF Next, Task

StagingInv == ChainInv /\ TaskInv

\* The invariant of the whole task.
LEMMA StagingInvariant == Spec => []StagingInv
<1>1. Init => StagingInv
  BY ChainStart, TaskStart DEF Init, StagingInv
<1>2. StagingInv /\ [Next]_vars => StagingInv'
  BY ChainPart, TaskStep DEF StagingInv
<1> QED BY <1>1, <1>2, PTL DEF Spec

(* The state of the chain, the calls, the plan and the turn keeps its      *)
(* types: no pipeline runs past its end, no call is posted a fourth time,  *)
(* and the working state is folded at most once.                           *)
THEOREM TypeCorrect == Spec => []TypeOK
<1>1. StagingInv => TypeOK
  BY DEF StagingInv, ChainInv, TaskInv, TaskTypeOK, TypeOK
<1> QED BY <1>1, StagingInvariant, PTL

(* From the chain to the wire, for every request and every answer of the   *)
(* summarizer: a turn that no longer shows what a segment said carries a   *)
(* marker for it, and its payload is in the store.                         *)
THEOREM ShownIsRecoverable == Spec => []ShownRecoverable
<1>1. StagingInv => ShownRecoverable
  BY DEF StagingInv, TaskInv
<1> QED BY <1>1, StagingInvariant, PTL

(***************************************************************************)
(* What the gate keeps out of the plan stays as it was.                    *)
(***************************************************************************)

\* The payload of some segment that is offered to the squash loop.
Offered(p) == \E e \in Segs : ~Gated(e) /\ Payload(e) = p

PlanOffered == \A p \in Segs : plan[p] # None => Offered(p)

\* Which payloads are offered depends on the segments only.
LEMMA OfferedFrame ==
    ASSUME segs' = segs, NEW p
    PROVE  Offered(p)' = Offered(p)
<1>1. \A s \in Segs : Payload(s)' = Payload(s) /\ Gated(s)' = Gated(s)
  BY PayloadFrame DEF Gated
<1> QED BY <1>1 DEF Offered

\* Staging an entry for a segment that is not gated.
LEMMA StageOffered ==
    ASSUME ChainTypeOK, TaskInv, segs' = segs, PlanOffered,
           NEW n \in Segs, ~Gated(n), NEW entry,
           plan' = [plan EXCEPT ![Payload(n)] = entry]
    PROVE  PlanOffered'
<1> SUFFICES ASSUME NEW p \in Segs, plan'[p] # None PROVE Offered(p)'
  BY DEF PlanOffered
<1>1. CASE p # Payload(n)
  <2>1. plan'[p] = plan[p]
    BY <1>1 DEF TaskInv, TaskTypeOK
  <2> QED BY <2>1, OfferedFrame DEF PlanOffered
<1>2. CASE p = Payload(n)
  <2>1. Offered(p)
    BY <1>2 DEF Offered
  <2> QED BY <2>1, OfferedFrame
<1> QED BY <1>1, <1>2

\* Only the two staging actions write the plan, both past the gate.
LEMMA OfferedStep ==
    ASSUME StagingInv, [Next]_vars, PlanOffered
    PROVE  PlanOffered'
<1>c. ChainInv /\ ChainTypeOK /\ TaskInv /\ segs' = segs
  BY ChainPart DEF StagingInv, ChainInv
<1>1. CASE UNCHANGED plan
  BY <1>1, <1>c, OfferedFrame DEF PlanOffered
<1>2. CASE stage_recode /\ ~UNCHANGED plan
  <2>1. next \in Segs /\ ~Gated(next)
        /\ plan' = [plan EXCEPT ![Payload(next)] = recode_entry(next)]
    BY <1>2 DEF stage_recode, Staging
  <2> QED BY <1>c, <2>1, StageOffered
<1>3. CASE Decided /\ ~UNCHANGED plan
  <2>1. next \in Segs /\ ~Gated(next)
    BY <1>3, <1>c, RecodeAssumption DEF Decided, Calling, Asks, Segs
  <2>2. \E entry : plan' = [plan EXCEPT ![Payload(next)] = entry]
    BY <1>3 DEF Decided
  <2> QED BY <1>c, <2>1, <2>2, StageOffered
<1>4. CASE ~stage_recode /\ ~Decided
  <2>1. UNCHANGED plan
    BY <1>4 DEF Next, vars, task_vars, Task, RunChain, ReturnEarly, SkipGated, DecideShort,
                Post, RateLimited, Tick, CallFails, Folded, Show, Done
  <2> QED BY <2>1, <1>1
<1> QED BY <1>1, <1>2, <1>3, <1>4

\* A turn shows raw what the plan has no entry for.
LEMMA GatedStep ==
    ASSUME StagingInv, [Next]_vars, PlanOffered, GatedStaysVerbatim
    PROVE  GatedStaysVerbatim'
<1>c. ChainTypeOK /\ segs' = segs
  BY ChainPart DEF StagingInv, ChainInv
<1>g. \A s \in Segs : Gated(s)' = Gated(s) /\ Payload(s)' = Payload(s)
  BY <1>c, PayloadFrame DEF Gated
<1>1. CASE UNCHANGED shown
  BY <1>1, <1>c, <1>g DEF GatedStaysVerbatim
<1>2. CASE Show
  <2>1. PICK dropped, forced : shown' = render_segments(dropped, forced)
    BY <1>2 DEF Show
  <2>2. ASSUME NEW s \in Segs, Gated(s)
        PROVE  \/ shown'[s] = [text |-> segs[s].raw, marker |-> "none"]
               \/ \E e \in Segs : ~Gated(e) /\ Payload(e) = Payload(s)
    <3>1. CASE Offered(Payload(s))
      BY <3>1 DEF Offered
    <3>2. CASE ~Offered(Payload(s))
      <4>1. plan[Payload(s)] = None
        BY <1>c, <3>2, PayloadOf DEF PlanOffered
      <4>2. ~Applied(s, dropped)
        BY <4>1 DEF Applied
      <4> QED BY <2>1, <4>2 DEF render_segments
    <3> QED BY <3>1, <3>2
  <2> QED BY <1>c, <1>g, <2>2 DEF GatedStaysVerbatim
<1>3. CASE ~Show
  <2>1. UNCHANGED shown
    BY <1>3 DEF Next, vars, task_vars, Task, RunChain, ReturnEarly, SkipGated, stage_recode,
                DecideShort, Post, RateLimited, Tick, CallFails, Decided, Folded, Done
  <2> QED BY <1>1, <2>1
<1> QED BY <1>2, <1>3

(* is_gated in stage_next, whatever the chain proposes and the summarizer  *)
(* answers: a source of a live constraint and what the human typed stay    *)
(* verbatim on the next turn unless a candidate has the same payload.      *)
THEOREM GatedVerbatim == Spec => []GatedStaysVerbatim
<1>1. Init => PlanOffered /\ GatedStaysVerbatim
  BY DEF Init, TaskInit, PlanOffered, GatedStaysVerbatim
<1>2. StagingInv /\ PlanOffered /\ GatedStaysVerbatim /\ [Next]_vars
        => PlanOffered' /\ GatedStaysVerbatim'
  BY OfferedStep, GatedStep
<1> QED BY <1>1, <1>2, StagingInvariant, PTL DEF Spec

(***************************************************************************)
(* The bases of the diffs, when seq_diff is the last stage.  That the      *)
(* passes leave them alone when the chain is replayed rests on what they   *)
(* do twice, and stays with TLC.                                           *)
(***************************************************************************)

\* The production pipeline has this: nothing runs after the diffs.
DiffsLast ==
    \A p \in Pipelines : \A k \in 1 .. Len(p) : p[k] = "seq_diff" => k = Len(p)

\* The base reads in L as it did when it was taken, and without a marker.
Bare(L, base) ==
    /\ base.text.form = "whole"
    /\ (IF L[base.seg] = None THEN segs[base.seg].raw ELSE L[base.seg].content) = base.text
    /\ L[base.seg] # None => L[base.seg].needs_ref = None

IsDiff(prop) == prop # None /\ prop.content.form = "diff"

NoDiffs(L) == \A s \in Segs : ~IsDiff(L[s])

DiffsBare(L, n) ==
    \A s \in Segs : IsDiff(L[s]) =>
        s <= n /\ L[s].content.base.seg < s /\ Bare(L, L[s].content.base)

\* The scan of the first n segments.
BasesOK(acc, n) ==
    /\ \A t \in Tools \cup {NoTool} :
          acc.last[t] # None => acc.last[t].seg <= n /\ Bare(acc.ledger, acc.last[t])
    /\ DiffsBare(acc.ledger, n)

\* A base is left alone when another segment is written.
LEMMA BareFrame ==
    ASSUME NEW L \in [Segs -> Proposals \cup {None}], NEW s \in Segs, NEW v,
           NEW base, base.seg \in Segs, base.seg # s, Bare(L, base)
    PROVE  Bare([L EXCEPT ![s] = v], base)
<1>1. [L EXCEPT ![s] = v][base.seg] = L[base.seg]
  OBVIOUS
<1> QED BY <1>1 DEF Bare

\* The base of a diff is a segment.
LEMMA DiffBase ==
    ASSUME NEW prop \in Proposals, IsDiff(prop)
    PROVE  prop.content.base \in Bases
BY DEF IsDiff, Proposals, Texts, Whole, Diffs, Empty, Bases

\* One segment of the scan: it writes that segment only, which is no base
\* yet, and a new base is a leaf without an original.
LEMMA BasesStep ==
    ASSUME ChainTypeOK, NEW n \in Nat, n + 1 \in Segs, NEW acc, ScanOK(acc), BasesOK(acc, n)
    PROVE  BasesOK(seq_diff_step(n + 1, acc), n + 1)
<1> DEFINE s == n + 1
           L == acc.ledger
           leaf == recode_leaf(s, L)
           tool == segs[s].tool
           base == acc.last[tool]
           prop == IF base = None THEN None ELSE diff_proposal(leaf, base)
           M == [L EXCEPT ![s] = upsert(L, s, prop)]
           last == base_after(acc.last, s, leaf, prop)
           new == [ledger |-> M, last |-> last]
<1>0. /\ L \in [Segs -> Proposals \cup {None}] /\ LedgerOK(L)
      /\ acc.last \in [Tools \cup {NoTool} -> Bases \cup {None}]
      /\ tool \in Tools \cup {NoTool} /\ s \in Segs
  BY SegsType DEF ScanOK, LedgerOK
<1>1. seq_diff_step(s, acc) \in {acc, new} /\ (seq_diff_step(s, acc) # acc => leaf # None)
  BY DEF seq_diff_step
<1>2. \A b \in Bases : b.seg \in Segs
  BY DEF Bases
<1>3. BasesOK(acc, s)
  <2>1. \A k \in Segs : k <= n => k <= s
    BY RecodeAssumption DEF Segs
  <2>2. \A t \in Tools \cup {NoTool} : acc.last[t] # None => acc.last[t].seg <= s
    BY <1>0, <1>2, <2>1 DEF BasesOK
  <2> QED BY <2>1, <2>2 DEF BasesOK, DiffsBare
<1>4. CASE leaf = None
  BY <1>1, <1>3, <1>4
<1>5. CASE leaf # None
  <2>1. LeafOK(s, leaf)
    BY <1>0, <1>5, RecodeLeafOK
  <2>2. \A b \in Bases : b.seg <= n /\ Bare(L, b) => b.seg # s /\ Bare(M, b)
    <3> TAKE b \in Bases
    <3>1. b.seg \in Segs /\ (b.seg <= n => b.seg # s)
      BY <1>2, RecodeAssumption DEF Segs
    <3> HIDE DEF prop, L, s
    <3> QED BY <1>0, <3>1, BareFrame
  <2>3. prop # None => base \in Bases /\ base.seg <= n /\ Bare(L, base)
                       /\ prop.content.form = "diff" /\ prop.content.base = base
    <3> SUFFICES ASSUME prop # None
                 PROVE  base \in Bases /\ base.seg <= n /\ Bare(L, base)
                        /\ prop.content.form = "diff" /\ prop.content.base = base
      OBVIOUS
    <3>1. base # None /\ prop = diff_proposal(leaf, base)
      OBVIOUS
    <3>2. base \in Bases /\ base.seg <= n /\ Bare(L, base)
      BY <1>0, <3>1 DEF BasesOK
    <3> HIDE DEF base, leaf, prop
    <3>3. prop.content.form = "diff" /\ prop.content.base = base
      BY <3>1 DEF diff_proposal, ref_recode
    <3> QED BY <3>2, <3>3
  <2>5. M[s] = (IF prop = None THEN L[s] ELSE prop) /\ \A x \in Segs : x # s => M[x] = L[x]
    <3> DEFINE v == upsert(L, s, prop)
    <3>1. v = IF prop = None THEN L[s] ELSE prop
      BY DEF upsert
    <3>2. L \in [Segs -> Proposals \cup {None}] /\ s \in Segs
      BY <1>0
    <3> HIDE DEF prop, L, s, v
    <3>3. [L EXCEPT ![s] = v][s] = v /\ \A x \in Segs : x # s => [L EXCEPT ![s] = v][x] = L[x]
      BY ONLY <3>2, Zenon
    <3> QED BY <3>1, <3>3 DEF v
  <2>6. DiffsBare(M, s)
    <3> SUFFICES ASSUME NEW x \in Segs, IsDiff(M[x])
                 PROVE  x <= s /\ M[x].content.base.seg < x /\ Bare(M, M[x].content.base)
      BY Zenon DEF DiffsBare
    <3>1. CASE x # s \/ prop = None
      <4>1. M[x] = L[x]
        BY <2>5, <3>1
      <4>2. IsDiff(L[x])
        BY <4>1
      <4>3. x <= n /\ L[x].content.base.seg < x /\ Bare(L, L[x].content.base)
        BY <4>2 DEF BasesOK, DiffsBare
      <4>4. L[x].content.base \in Bases
        BY <1>0, <4>2, DiffBase DEF IsDiff
      <4>5. L[x].content.base.seg \in Segs
        BY <1>2, <4>4
      <4>6. L[x].content.base.seg <= n /\ x <= s
        BY <4>3, <4>5, RecodeAssumption DEF Segs
      <4>7. Bare(M, L[x].content.base)
        BY <2>2, <4>3, <4>4, <4>6
      <4> HIDE DEF M, L, s
      <4> QED BY <4>1, <4>3, <4>6, <4>7
    <3>2. CASE x = s /\ prop # None
      <4>1. M[x] = prop
        BY <2>5, <3>2
      <4>2. base.seg \in Segs /\ base.seg <= n /\ Bare(M, base)
        BY <1>2, <2>2, <2>3, <3>2
      <4>3. base.seg < x /\ x <= s
        BY <3>2, <4>2, RecodeAssumption DEF Segs
      <4>4. M[x].content.base = base
        <5> HIDE DEF M, s, prop, base
        <5> QED BY <2>3, <3>2, <4>1
      <4> HIDE DEF M, L, s, prop, base
      <4>5. Bare(M, M[x].content.base)
        BY <4>2, <4>4
      <4>6. M[x].content.base.seg < x
        BY <4>3, <4>4
      <4> QED BY <4>3, <4>5, <4>6
    <3> HIDE DEF M, L, s, prop
    <3> QED BY <3>1, <3>2
  <2>7. ASSUME NEW t \in Tools \cup {NoTool}, last[t] # None
        PROVE  last[t].seg <= s /\ Bare(M, last[t])
    <3>1. CASE last[t] = acc.last[t]
      <4>1. acc.last[t] \in Bases /\ acc.last[t].seg <= n /\ Bare(L, acc.last[t])
        BY <1>0, <2>7, <3>1 DEF BasesOK
      <4>2. acc.last[t].seg <= s
        BY <1>2, <4>1, RecodeAssumption DEF Segs
      <4>3. Bare(M, acc.last[t])
        BY <2>2, <4>1
      <4> HIDE DEF M, last, s
      <4> QED BY <3>1, <4>2, <4>3
    <3>2. CASE last[t] # acc.last[t]
      <4> HIDE DEF prop, leaf, L, s, base
      <4>1. prop = None /\ leaf.carried_ref = None /\ last[t] = [seg |-> s, text |-> leaf.content]
        BY <1>0, <3>2 DEF base_after, tool
      <4>2. leaf.content.form = "whole"
        BY <2>1, <4>1 DEF LeafOK, Carries, Lossy
      <4>3. M[s] = L[s]
        BY <2>5, <4>1
      <4>4. /\ leaf.content = IF L[s] = None THEN segs[s].raw ELSE L[s].content
            /\ L[s] # None => L[s].needs_ref = None
        <5>1. CASE L[s] = None
          BY <1>5, <5>1 DEF leaf, recode_leaf, raw_leaf
        <5>2. CASE L[s] # None
          BY <1>5, <4>1, <5>2 DEF leaf, recode_leaf
        <5> QED BY <5>1, <5>2
      <4>5. last[t].seg = s /\ last[t].text = leaf.content
        BY <4>1
      <4>6. Bare(M, last[t])
        <5> HIDE DEF M, last
        <5> QED BY <4>2, <4>3, <4>4, <4>5 DEF Bare
      <4> QED BY <4>5, <4>6 DEF s
    <3> QED BY <3>1, <3>2
  <2>8. BasesOK(new, s)
    <3> HIDE DEF M, last, s
    <3> QED BY <2>6, <2>7 DEF BasesOK
  <2> HIDE DEF new
  <2> QED BY <1>1, <1>3, <2>8
<1> QED BY <1>4, <1>5

\* The scan of a ledger without diffs.
LEMMA SeqDiffBases ==
    ASSUME ChainTypeOK, NEW L, LedgerOK(L), NoDiffs(L)
    PROVE  DiffsBare(SeqDiffPass(L), N)
<1>1. PICK u : IsScan(L, u, N) /\ SeqDiffPass(L) = u[N].ledger
  BY SeqDiffUnfold
<1>n. N \in Nat
  BY RecodeAssumption
<1> DEFINE S == {k \in Nat : k <= N => ScanOK(u[k]) /\ BasesOK(u[k], k)}
<1>2. 0 \in S
  <2>1. u[0] = ScanInit(L)
    BY <1>1, <1>n DEF IsScan
  <2>2. ScanOK(ScanInit(L)) /\ BasesOK(ScanInit(L), 0)
    BY DEF ScanOK, ScanInit, BasesOK, DiffsBare, NoDiffs
  <2> QED BY <2>1, <2>2
<1>3. ASSUME NEW k \in Nat, k \in S PROVE k + 1 \in S
  <2> SUFFICES ASSUME k + 1 <= N PROVE ScanOK(u[k + 1]) /\ BasesOK(u[k + 1], k + 1)
    OBVIOUS
  <2>1. ScanOK(u[k]) /\ BasesOK(u[k], k) /\ k + 1 \in Segs
    BY <1>3, <1>n DEF Segs
  <2>2. u[k + 1] = seq_diff_step(k + 1, u[(k + 1) - 1])
    BY <1>1, <1>n DEF IsScan
  <2>3. (k + 1) - 1 = k
    OBVIOUS
  <2> QED BY <2>1, <2>2, <2>3, ScanStepOK, BasesStep
<1>4. Nat \subseteq S
  <2> HIDE DEF S
  <2> QED BY <1>2, <1>3, SetInduction
<1>5. BasesOK(u[N], N)
  BY <1>4, <1>n
<1> QED BY <1>1, <1>5 DEF BasesOK

\* No other pass makes a diff.
LEMMA OtherPasses ==
    ASSUME ChainTypeOK, NEW L, LedgerOK(L), NoDiffs(L), NEW p \in Passes \ {"seq_diff"}
    PROVE  NoDiffs(apply(p, L))
<1>1. ASSUME NEW leaf, NEW t, NEW q,
             t # None => t.form # "diff"
      PROVE  ~IsDiff(ref_recode(leaf, t, q)) /\ ~IsDiff(inline_recode(leaf, t, q))
  BY <1>1 DEF IsDiff, ref_recode, inline_recode, Shrinks
<1>2. CASE p = "dedup_backref"
  <2> SUFFICES ASSUME NEW s \in Segs PROVE ~IsDiff(DedupBackrefPass(L)[s])
    BY <1>2 DEF apply, NoDiffs
  <2> DEFINE prop == ref_recode(raw_recode_leaf(s), Empty, "dedup_backref")
  <2>1. Empty.form # "diff"
    BY DEF Empty
  <2>2. ~IsDiff(prop)
    BY <1>1, <2>1
  <2>3. DedupBackrefPass(L)[s] \in {L[s], prop}
    BY DEF DedupBackrefPass, upsert
  <2> HIDE DEF prop
  <2> QED BY <2>2, <2>3 DEF NoDiffs
<1>3. CASE p # "dedup_backref"
  <2> SUFFICES ASSUME NEW s \in Segs PROVE ~IsDiff(OnEachLeaf(p, L)[s])
    BY <1>3 DEF apply, NoDiffs
  <2> DEFINE leaf == recode_leaf(s, L)
             t == leaf.content
             prop == LeafPass(p, leaf)
  <2>1. OnEachLeaf(p, L)[s] = IF leaf = None THEN L[s] ELSE upsert(L, s, prop)
    BY DEF OnEachLeaf
  <2>2. CASE leaf = None
    BY <2>1, <2>2 DEF NoDiffs
  <2>3. CASE leaf # None
    <3>1. t \in Texts
      BY <2>3, RecodeLeafOK DEF LeafOK
    <3>2. t.form # "diff"
      <4>1. CASE L[s] # None
        BY <2>3, <4>1 DEF recode_leaf, NoDiffs, IsDiff
      <4>2. CASE L[s] = None
        <5>1. leaf = raw_leaf(s)
          BY <2>3, <4>2 DEF recode_leaf
        <5>2. t = segs[s].raw /\ segs[s].raw.form = "whole"
          BY <2>3, <5>1, RawLeafOK, SegsType DEF Whole
        <5> QED BY <5>2
      <4> QED BY <4>1, <4>2
    <3>3. \A fs : Without(t, fs).form # "diff"
      BY <3>1, <3>2, WithoutText
    <3> HIDE DEF leaf
    <3>4. ~IsDiff(prop)
      <4>1. p \in {"blob_extract", "ansi_strip", "whitespace", "markup_strip", "json_minify",
                   "json_toon", "head_tail"}
        BY <1>3 DEF Passes
      <4>2. /\ extract_blob(t) # None => extract_blob(t).form # "diff"
            /\ strip_ansi(t).form # "diff"
            /\ normalize_ws(t).form # "diff"
            /\ strip_html(t) # None => strip_html(t).form # "diff"
            /\ minify_json(t) # None => minify_json(t).form # "diff"
            /\ select_leaner(t) # None => select_leaner(t).form # "diff"
            /\ head_tail(t) # None => head_tail(t).form # "diff"
        BY <3>3 DEF extract_blob, strip_ansi, normalize_ws, strip_html, minify_json,
                    select_leaner, head_tail
      <4>3. CASE p = "blob_extract"
        BY <1>1, <4>2, <4>3 DEF LeafPass, BlobExtractPass
      <4>4. CASE p = "ansi_strip"
        BY <1>1, <4>2, <4>4 DEF LeafPass, AnsiStripPass
      <4>5. CASE p = "whitespace"
        BY <1>1, <4>2, <4>5 DEF LeafPass, WhitespacePass
      <4>6. CASE p = "markup_strip"
        BY <1>1, <4>2, <4>6 DEF LeafPass, MarkupStripPass
      <4>7. CASE p = "json_minify"
        BY <1>1, <4>2, <4>7 DEF LeafPass, JsonMinifyPass
      <4>8. CASE p = "json_toon"
        BY <1>1, <4>2, <4>8 DEF LeafPass, JsonToonPass
      <4>9. CASE p = "head_tail"
        BY <1>1, <4>2, <4>9 DEF LeafPass, HeadTailPass
      <4> QED BY <4>1, <4>3, <4>4, <4>5, <4>6, <4>7, <4>8, <4>9
    <3> HIDE DEF prop
    <3>5. OnEachLeaf(p, L)[s] \in {L[s], prop}
      BY <2>1, <2>3 DEF upsert
    <3> QED BY <3>4, <3>5 DEF NoDiffs
  <2> QED BY <2>2, <2>3
<1> QED BY <1>2, <1>3

\* Until the chain has ended there are no diffs, and then their bases are bare.
DiffsInv ==
    /\ ~ChainDone => NoDiffs(ledger)
    /\ DiffsBare(ledger, N)

\* A step of the chain, or one that leaves it alone.
LEMMA DiffsStep ==
    ASSUME DiffsLast, ChainInv, DiffsInv, [Next]_vars
    PROVE  DiffsInv'
<1>0. segs' = segs /\ pipe \in Pipelines /\ Len(pipe) \in Nat /\ at \in 1 .. Len(pipe) + 1
  BY ChainPart, RecodeAssumption DEF ChainInv, ChainTypeOK
<1>1. CASE RunChain /\ RunPass /\ pipe[at] = "seq_diff"
  <2>1. at = Len(pipe) /\ ~ChainDone
    BY <1>0, <1>1 DEF DiffsLast, RunPass, ChainDone
  <2>2. ChainDone'
    BY <1>0, <1>1, <2>1 DEF RunPass, ChainDone
  <2>3. ledger' = SeqDiffPass(ledger)
    BY <1>1 DEF RunPass, apply
  <2>4. DiffsBare(SeqDiffPass(ledger), N)
    BY <2>1, SeqDiffBases DEF DiffsInv, ChainInv
  <2>5. DiffsBare(ledger, N)'
    BY <1>0, <2>3, <2>4 DEF DiffsBare, Bare, IsDiff
  <2> QED BY <2>2, <2>5 DEF DiffsInv
<1>2. CASE RunChain /\ RunPass /\ pipe[at] # "seq_diff"
  <2>1. NoDiffs(apply(pipe[at], ledger)) /\ ledger' = apply(pipe[at], ledger)
    BY <1>2, OtherPasses DEF RunPass, DiffsInv, ChainInv
  <2>2. NoDiffs(ledger)'
    BY <2>1 DEF NoDiffs, IsDiff
  <2> QED BY <2>2 DEF DiffsInv, NoDiffs, DiffsBare
<1>3. CASE RunChain /\ (PassCheckpoint \/ Rewind)
  <2>1. ledger' = ledger /\ NoDiffs(ledger)
    BY <1>3 DEF PassCheckpoint, Rewind, DiffsInv
  <2>2. NoDiffs(ledger)'
    BY <2>1 DEF NoDiffs, IsDiff
  <2> QED BY <2>2 DEF DiffsInv, NoDiffs, DiffsBare
<1>4. CASE ~RunChain
  <2>1. UNCHANGED chain_vars
    BY <1>4 DEF Next, vars, Task, ReturnEarly, SkipGated, stage_recode, DecideShort, Post,
                RateLimited, Tick, CallFails, Decided, Folded, Show, Done
  <2>2. ledger' = ledger /\ at' = at /\ pipe' = pipe
    BY <2>1 DEF chain_vars
  <2>3. DiffsBare(ledger, N)'
    BY <1>0, <2>2 DEF DiffsInv, DiffsBare, Bare, IsDiff
  <2> QED BY <2>2, <2>3 DEF DiffsInv, ChainDone, NoDiffs, IsDiff
<1> QED BY <1>1, <1>2, <1>3, <1>4 DEF RunChain, Chain

(* The ordering contract of seq_diff, for every request and every pipeline *)
(* that runs nothing after it: the base of a diff is an earlier segment    *)
(* that still reads as it did, without a marker and not itself a diff.     *)
THEOREM BasesAreFinal == DiffsLast => (Spec => []DiffBaseFinal)
<1> SUFFICES ASSUME DiffsLast PROVE Spec => []DiffBaseFinal
  OBVIOUS
<1>1. Init => ChainInv /\ DiffsInv
  <2>1. Init => ChainInv
    BY ChainStart DEF Init
  <2>2. Init => DiffsInv
    BY DEF Init, ChainInit, DiffsInv, NoDiffs, DiffsBare, IsDiff
  <2> QED BY <2>1, <2>2
<1>2. ChainInv /\ DiffsInv /\ [Next]_vars => ChainInv' /\ DiffsInv'
  BY ChainPart, DiffsStep
<1>3. DiffsInv => DiffBaseFinal
  BY DEF DiffsInv, DiffsBare, IsDiff, Bare, Threaded, DiffBaseFinal
<1> QED BY <1>1, <1>2, <1>3, PTL DEF Spec
=============================================================================
