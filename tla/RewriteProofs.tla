--------------------------- MODULE RewriteProofs ---------------------------
(***************************************************************************)
(* Proofs about Rewrite, for conversations of any length and blocks of any *)
(* size: what a turn may do to the request it sends.                       *)
(*                                                                         *)
(* The invariant is about the conversation and the plan alone (BodyOK,     *)
(* PlanOK); a turn is written once, so all of what holds of it is a fact   *)
(* about finish and the replacements it is given (RenderedOK).             *)
(***************************************************************************)
EXTENDS Rewrite, Induction

(***************************************************************************)
(* The segments of a body are of its messages.                             *)
(***************************************************************************)

\* u holds the first messages of the segments of every prefix up to n.
IsStarts(body, u, n) ==
    u = [k \in 0 .. n |->
            IF k = 0 THEN <<>>
            ELSE IF Absorbed(body, k) THEN u[k - 1]
            ELSE Append(u[k - 1], k)]

\* There is such a function.
LEMMA StartsExist ==
    ASSUME NEW body, NEW n \in Nat
    PROVE  \E u : IsStarts(body, u, n)
<1> DEFINE S == {k \in Nat : \E u : IsStarts(body, u, k)}
           step(k, v) == IF Absorbed(body, k) THEN v ELSE Append(v, k)
<1>1. 0 \in S
  <2> DEFINE u == [k \in 0 .. 0 |-> <<>>]
  <2>1. IsStarts(body, u, 0)
    <3>1. 0 .. 0 = {0}
      OBVIOUS
    <3> QED BY <3>1 DEF IsStarts
  <2> QED BY <2>1
<1>2. ASSUME NEW k \in Nat, k \in S PROVE k + 1 \in S
  <2>1. PICK u : IsStarts(body, u, k)
    BY <1>2
  <2> DEFINE v == [s \in 0 .. k + 1 |-> IF s = k + 1 THEN step(s, u[k]) ELSE u[s]]
             w == [s \in 0 .. k + 1 |-> IF s = 0 THEN <<>> ELSE step(s, v[s - 1])]
  <2>2. ASSUME NEW s \in 0 .. k + 1 PROVE v[s] = w[s]
    <3>1. CASE s = k + 1
      <4>1. v[s - 1] = u[k] /\ s # 0
        BY <3>1
      <4> HIDE DEF step
      <4> QED BY <3>1, <4>1
    <3>2. CASE s = 0
      <4> HIDE DEF step
      <4> QED BY <3>2, <2>1 DEF IsStarts
    <3>3. CASE s # 0 /\ s # k + 1
      <4>1. s \in 0 .. k /\ s - 1 \in 0 .. k /\ s - 1 \in 0 .. k + 1 /\ s - 1 # k + 1
        BY <3>3
      <4>2. v[s] = u[s] /\ v[s - 1] = u[s - 1]
        BY <3>3, <4>1
      <4>3. u[s] = step(s, u[s - 1])
        BY <3>3, <4>1, <2>1 DEF IsStarts
      <4>4. w[s] = step(s, v[s - 1])
        BY <3>3
      <4> HIDE DEF v, w, step
      <4> QED BY <4>2, <4>3, <4>4
    <3> QED BY <3>1, <3>2, <3>3
  <2>3. v = w
    <3> HIDE DEF step
    <3> QED BY <2>2
  <2>4. IsStarts(body, v, k + 1)
    BY <2>3 DEF IsStarts
  <2> HIDE DEF v
  <2> QED BY <2>4
<1>3. Nat \subseteq S
  <2> HIDE DEF S
  <2> QED BY <1>1, <1>2, SetInduction
<1> QED BY <1>3

\* A segment begins with a message of the body.
LEMMA StartsType ==
    ASSUME NEW body, Len(body) \in Nat
    PROVE  Starts(body) \in Seq(1 .. Len(body))
<1> DEFINE n == Len(body)
           u == CHOOSE u : u = [k \in 0 .. n |->
                    IF k = 0 THEN <<>>
                    ELSE IF Absorbed(body, k) THEN u[k - 1] ELSE Append(u[k - 1], k)]
           D == 1 .. n
<1>1. Starts(body) = u[n]
  BY DEF Starts
<1>2. IsStarts(body, u, n)
  <2>1. \E v : IsStarts(body, v, n)
    BY StartsExist
  <2> QED BY ONLY <2>1, Zenon DEF IsStarts
<1>n. n \in Nat
  OBVIOUS
<1> HIDE DEF u, D, n
<1> DEFINE S == {k \in Nat : k <= n => u[k] \in Seq(D)}
<1>3. 0 \in S
  <2>1. u[0] = <<>>
    BY <1>2, <1>n DEF IsStarts
  <2>2. <<>> \in Seq(D)
    OBVIOUS
  <2> QED BY <2>1, <2>2
<1>4. ASSUME NEW k \in Nat, k \in S PROVE k + 1 \in S
  <2> SUFFICES ASSUME k + 1 <= n PROVE u[k + 1] \in Seq(D)
    OBVIOUS
  <2>1. u[k] \in Seq(D) /\ k + 1 \in D
    BY <1>4, <1>n DEF D
  <2>2. u[k + 1] \in {u[k], Append(u[k], k + 1)}
    <3>1. k + 1 \in 0 .. n /\ k + 1 # 0 /\ (k + 1) - 1 = k
      BY <1>n
    <3>2. u[k + 1] = IF Absorbed(body, k + 1) THEN u[(k + 1) - 1]
                     ELSE Append(u[(k + 1) - 1], k + 1)
      BY <1>2, <3>1 DEF IsStarts
    <3> QED BY <3>1, <3>2
  <2>3. Append(u[k], k + 1) \in Seq(D)
    BY <2>1
  <2> QED BY <2>1, <2>2, <2>3
<1>5. Nat \subseteq S
  <2> HIDE DEF S
  <2> QED BY <1>3, <1>4, SetInduction
<1>6. u[n] \in Seq(D)
  BY <1>5, <1>n
<1> QED BY <1>1, <1>6 DEF D, n

\* A function on 1 .. n is a sequence.
LEMMA FunctionIsSeq ==
    ASSUME NEW T, NEW n \in Nat, NEW f \in [1 .. n -> T]
    PROVE  f \in Seq(T) /\ Len(f) = n
OBVIOUS

\* A record with the fields of a segment.
IsSegment(x) ==
    x = [kind |-> x.kind, msgs |-> x.msgs, pinned |-> x.pinned, human |-> x.human,
         tokens |-> x.tokens]

\* The messages of a segment: none, one, or a pair.
SegOK(body, seg) ==
    \/ seg.msgs = {}
    \/ \E i \in DOMAIN body :
          \/ seg.msgs = {i}
          \/ i + 1 \in DOMAIN body /\ seg.msgs = {i, i + 1}

\* The segments of a prompt are its tools and system, and its messages.
LEMMA SegmentsOK ==
    ASSUME NEW body \in Seq(MessageType), NEW k \in DOMAIN segment_prompt(body)
    PROVE  SegOK(body, segment_prompt(body)[k])
<1> DEFINE starts == Starts(body)
           tail == [i \in DOMAIN starts |-> SegmentAt(body, starts[i])]
           all == HeadSegments \o tail
<1>0. Len(body) \in Nat /\ DOMAIN body = 1 .. Len(body)
  OBVIOUS
<1>1. starts \in Seq(1 .. Len(body)) /\ Len(starts) \in Nat
  BY <1>0, StartsType
<1>2. DOMAIN starts = 1 .. Len(starts) /\ \A i \in DOMAIN starts : starts[i] \in DOMAIN body
  BY <1>0, <1>1
<1>3. segment_prompt(body) = [all EXCEPT ![Len(all)].pinned = TRUE]
  BY DEF segment_prompt
<1>4. ASSUME NEW i \in DOMAIN body PROVE SegOK(body, SegmentAt(body, i))
  <2>1. SegmentAt(body, i).msgs = IF paired_user(body, i) THEN {i, i + 1} ELSE {i}
    BY DEF SegmentAt
  <2>2. paired_user(body, i) => i + 1 \in DOMAIN body
    BY <1>0 DEF paired_user
  <2> QED BY <2>1, <2>2 DEF SegOK
<1>5. HeadTokens \in Seq(Nat) /\ Len(HeadTokens) \in Nat /\ DOMAIN HeadTokens = 1 .. Len(HeadTokens)
  BY SizesAssumption
<1> DEFINE any == {HeadSegments[i] : i \in DOMAIN HeadTokens} \cup {tail[i] : i \in DOMAIN starts}
<1>6. HeadSegments \in Seq(any) /\ tail \in Seq(any)
  <2>1. HeadSegments \in [1 .. Len(HeadTokens) -> any]
    BY <1>5 DEF HeadSegments
  <2>2. tail \in [1 .. Len(starts) -> any]
    BY <1>2
  <2>3. Len(starts) \in Nat /\ Len(HeadTokens) \in Nat
    BY <1>1, <1>5
  <2> HIDE DEF tail, any, starts
  <2>4. HeadSegments \in Seq(any)
    BY <2>1, <2>3, FunctionIsSeq
  <2>5. tail \in Seq(any)
    BY <2>2, <2>3, FunctionIsSeq
  <2> QED BY <2>4, <2>5
<1>7. \A x \in any : SegOK(body, x) /\ IsSegment(x)
  <2>1. \A i \in DOMAIN HeadTokens : HeadSegments[i].msgs = {} /\ IsSegment(HeadSegments[i])
    BY DEF HeadSegments, IsSegment
  <2>2. \A i \in DOMAIN starts : tail[i] = SegmentAt(body, starts[i])
    OBVIOUS
  <2> HIDE DEF tail
  <2>3. \A i \in DOMAIN starts : SegOK(body, tail[i]) /\ IsSegment(tail[i])
    <3>1. \A i : IsSegment(SegmentAt(body, i))
      BY DEF SegmentAt, IsSegment
    <3> QED BY <1>2, <1>4, <2>2, <3>1
  <2>4. \A i \in DOMAIN HeadTokens : SegOK(body, HeadSegments[i])
    BY <2>1 DEF SegOK
  <2> QED BY <2>1, <2>3, <2>4
<1> HIDE DEF tail, any, all
<1>8. all \in Seq(any)
  BY <1>6 DEF all
<1>9. segment_prompt(body)[k].msgs = all[k].msgs /\ k \in DOMAIN all
  <2>1. k \in DOMAIN all
    BY <1>3
  <2>2. CASE k = Len(all)
    <3>1. segment_prompt(body)[k] = [all[k] EXCEPT !.pinned = TRUE]
      BY <1>3, <2>1, <2>2
    <3>2. IsSegment(all[k])
      BY <1>7, <1>8, <2>1
    <3> QED BY <2>1, <3>1, <3>2 DEF IsSegment
  <2>3. CASE k # Len(all)
    BY <1>3, <2>1, <2>3
  <2> QED BY <2>1, <2>2, <2>3
<1>10. all[k] \in any
  BY <1>8, <1>9
<1>11. SegOK(body, all[k])
  BY <1>7, <1>10
<1> QED BY <1>9, <1>11 DEF SegOK

(***************************************************************************)
(* The replacements.                                                       *)
(***************************************************************************)
ReplaceableKinds == {"string", "text", "tool_result"}

\* Block t of the body is one that may be replaced.
IsTarget(body, t) ==
    \E i \in DOMAIN body : \E j \in DOMAIN body[i].blocks :
        t = <<i, j>> /\ body[i].blocks[j].kind \in ReplaceableKinds

\* Every replacement is of such a block and of a length in Ls.
RenderedOK(body, r, Ls) ==
    \A t \in DOMAIN r :
        /\ IsTarget(body, t)
        /\ \E len \in Ls : r[t] = Rendered(At(body, t), len)

\* The blocks to replace are those of the segment.
LEMMA TargetsOK ==
    ASSUME NEW body, NEW seg, SegOK(body, seg), NEW t \in squash_targets(body, seg)
    PROVE  IsTarget(body, t) /\ t[1] \in seg.msgs
<1>1. PICK i \in seg.msgs : \E j \in DOMAIN body[i].blocks :
         t = <<i, j>> /\ body[i].blocks[j].kind \in Replaceable(seg.kind)
  BY DEF squash_targets, Leaves
<1>2. PICK j \in DOMAIN body[i].blocks :
         t = <<i, j>> /\ body[i].blocks[j].kind \in Replaceable(seg.kind)
  BY <1>1
<1>3. i \in DOMAIN body
  BY DEF SegOK
<1>4. Replaceable(seg.kind) \subseteq ReplaceableKinds
  <2>1. CASE seg.kind = "pair"
    BY <2>1 DEF Replaceable, ReplaceableKinds
  <2>2. CASE seg.kind \in {"assistant", "user"}
    BY <2>2 DEF Replaceable, ReplaceableKinds
  <2>3. CASE seg.kind = "system"
    BY <2>3 DEF Replaceable, ReplaceableKinds
  <2>4. CASE seg.kind \notin {"pair", "assistant", "user", "system"}
    BY <2>4 DEF Replaceable
  <2> QED BY <2>1, <2>2, <2>3, <2>4
<1>5. t[1] = i
  BY <1>2
<1> QED BY <1>2, <1>3, <1>4, <1>5 DEF IsTarget

\* What is rendered of some segments.
LEMMA RenderAllOK ==
    ASSUME NEW body, NEW segs, NEW S, NEW lens, NEW Ls,
           \A k \in S : SegOK(body, segs[k]) /\ lens[k] \in Ls
    PROVE  RenderedOK(body, RenderAll(body, segs, S, lens), Ls)
<1> DEFINE r == RenderAll(body, segs, S, lens)
           D == UNION {squash_targets(body, segs[k]) : k \in S}
           owner(t) == CHOOSE k \in S : t[1] \in segs[k].msgs
<1>1. r = [t \in D |-> Rendered(At(body, t), lens[owner(t)])]
  BY DEF RenderAll
<1>2. ASSUME NEW t \in D
      PROVE  IsTarget(body, t) /\ owner(t) \in S
  <2>1. PICK k \in S : t \in squash_targets(body, segs[k])
    BY <1>2
  <2>2. SegOK(body, segs[k])
    OBVIOUS
  <2>3. IsTarget(body, t) /\ t[1] \in segs[k].msgs
    BY <2>1, <2>2, TargetsOK
  <2> QED BY <2>3
<1> HIDE DEF D, owner
<1>3. DOMAIN r = D /\ \A t \in D : r[t] = Rendered(At(body, t), lens[owner(t)])
  BY <1>1
<1> HIDE DEF r
<1> QED BY <1>2, <1>3 DEF RenderedOK, r

\* A replacement is a block with the id of the one it replaces.
LEMMA RenderedBlock ==
    ASSUME NEW a \in BlockType, a.kind \in ReplaceableKinds, NEW len \in Lens
    PROVE  LET b == Rendered(a, len)
           IN  /\ b \in BlockType /\ b.id = a.id /\ b.len = len /\ b.kind \in {"text", "tool_result"}
               /\ b.kind = "tool_result" <=> a.kind = "tool_result"
               /\ b.inner = 0
BY SizesAssumption DEF Rendered, BlockType, ReplaceableKinds, BlockKinds

(***************************************************************************)
(* The splice, one block and one message at a time.                        *)
(***************************************************************************)

\* The requests of the client: nothing is re-serialized yet, and the thinking
\* of a message has an id of its own.
BodyOK(body) ==
    /\ body \in Seq(MessageType)
    /\ \A i \in DOMAIN body : \A j \in DOMAIN body[i].blocks :
          /\ body[i].blocks[j].canon = FALSE
          /\ body[i].blocks[j].kind = "thinking" => body[i].blocks[j].id = i

Edited(body, i, j, r, wants) ==
    [(IF <<i, j>> \in DOMAIN r THEN r[<<i, j>>] ELSE body[i].blocks[j])
        EXCEPT !.hint = wants /\ j = Len(body[i].blocks), !.canon = TRUE,
               !.kind = IF wants /\ @ = "string" THEN "text" ELSE @]

\* b is what the splice makes of block a.
BlockKept(a, b) ==
    /\ b \in BlockType /\ b.id = a.id
    /\ a.inner = 0 => b.inner = 0
    /\ b.kind = "tool_use" <=> a.kind = "tool_use"
    /\ b.kind = "tool_result" <=> a.kind = "tool_result"
    /\ a.kind \notin ReplaceableKinds => b.kind = a.kind /\ b.len = a.len

\* The types of the messages and blocks of a body.
LEMMA BodyTypes ==
    ASSUME NEW body \in Seq(MessageType), NEW i \in DOMAIN body
    PROVE  /\ body[i] \in MessageType /\ body[i].blocks \in Seq(BlockType)
           /\ DOMAIN body[i].blocks = 1 .. Len(body[i].blocks) /\ Len(body[i].blocks) \in Nat
           /\ \A j \in DOMAIN body[i].blocks : body[i].blocks[j] \in BlockType
<1>1. body[i] \in MessageType
  OBVIOUS
<1>2. body[i].blocks \in Seq(BlockType)
  BY <1>1 DEF MessageType
<1> HIDE DEF MessageType, BlockType
<1>3. \A j \in DOMAIN body[i].blocks : body[i].blocks[j] \in BlockType
  BY <1>2
<1>4. DOMAIN body[i].blocks = 1 .. Len(body[i].blocks) /\ Len(body[i].blocks) \in Nat
  BY <1>2
<1> QED BY <1>1, <1>2, <1>3, <1>4

\* b is block j of message i, written again.
IsEdit(body, i, j, r, wants, b) ==
    /\ BlockKept(body[i].blocks[j], b) /\ b.canon = TRUE
    /\ b.hint = (wants /\ j = Len(body[i].blocks))
    /\ b.len = IF <<i, j>> \in DOMAIN r THEN r[<<i, j>>].len ELSE body[i].blocks[j].len

\* One block of a message that is written again.
LEMMA EditedBlock ==
    ASSUME NEW body \in Seq(MessageType), NEW r, RenderedOK(body, r, Lens),
           NEW i \in DOMAIN body, NEW j \in DOMAIN body[i].blocks, NEW wants \in BOOLEAN
    PROVE  IsEdit(body, i, j, r, wants, Edited(body, i, j, r, wants))
<1> DEFINE a == body[i].blocks[j]
           new == IF <<i, j>> \in DOMAIN r THEN r[<<i, j>>] ELSE a
           h == (wants /\ j = Len(body[i].blocks))
           b == [new EXCEPT !.hint = h, !.canon = TRUE,
                            !.kind = IF wants /\ @ = "string" THEN "text" ELSE @]
<1>1. a \in BlockType
  BY BodyTypes
<1>2. /\ new \in BlockType /\ new.id = a.id
      /\ a.inner = 0 => new.inner = 0
      /\ new.kind = "tool_result" <=> a.kind = "tool_result"
      /\ new.kind = "tool_use" <=> a.kind = "tool_use"
      /\ a.kind \notin ReplaceableKinds => new = a
  <2>1. CASE <<i, j>> \notin DOMAIN r
    BY <1>1, <2>1
  <2>2. CASE <<i, j>> \in DOMAIN r
    <3>1. \E p \in DOMAIN body : \E q \in DOMAIN body[p].blocks :
             <<i, j>> = <<p, q>> /\ body[p].blocks[q].kind \in ReplaceableKinds
      BY <2>2 DEF RenderedOK, IsTarget
    <3>2. a.kind \in ReplaceableKinds
      BY <3>1
    <3>3. PICK len \in Lens : r[<<i, j>>] = Rendered(a, len)
      BY <2>2 DEF RenderedOK, At
    <3>4. new = Rendered(a, len)
      BY <2>2, <3>3
    <3> HIDE DEF a, new
    <3> QED BY <1>1, <3>2, <3>4, RenderedBlock DEF ReplaceableKinds
  <2> QED BY <2>1, <2>2
<1>3. b = Edited(body, i, j, r, wants)
  BY DEF Edited
<1>4. new.len = IF <<i, j>> \in DOMAIN r THEN r[<<i, j>>].len ELSE a.len
  OBVIOUS
<1>5. h \in BOOLEAN
  OBVIOUS
<1> HIDE DEF a, new, h
<1>6. /\ b \in BlockType /\ b.id = new.id /\ b.len = new.len /\ b.canon = TRUE /\ b.hint = h
      /\ b.inner = new.inner
      /\ b.kind = IF wants /\ new.kind = "string" THEN "text" ELSE new.kind
  BY <1>2, <1>5 DEF BlockType, BlockKinds
<1>7. BlockKept(a, b)
  BY <1>2, <1>6 DEF BlockKept, ReplaceableKinds
<1> HIDE DEF b
<1> QED BY <1>3, <1>4, <1>6, <1>7 DEF a, h, IsEdit

\* n is what the splice makes of message m, block by block.
MessageKept(m, n) ==
    /\ n \in MessageType /\ n.role = m.role
    /\ DOMAIN n.blocks = DOMAIN m.blocks
    /\ \A j \in DOMAIN m.blocks : BlockKept(m.blocks[j], n.blocks[j])

\* n is message i, kept whole, or written again whole with at most one hint.
IsEdited(body, i, r, wants, n) ==
    /\ MessageKept(body[i], n)
    /\ n = body[i] \/ \A j \in DOMAIN body[i].blocks : n.blocks[j].canon = TRUE
    /\ \A j \in DOMAIN body[i].blocks :
          /\ <<i, j>> \in DOMAIN r => n.blocks[j].len = r[<<i, j>>].len
          /\ n.blocks[j].hint => wants /\ j = Len(body[i].blocks)

\* That is what edit_message makes of it.
LEMMA EditOK ==
    ASSUME NEW body \in Seq(MessageType), NEW r, RenderedOK(body, r, Lens),
           NEW i \in DOMAIN body, NEW wants \in BOOLEAN
    PROVE  IsEdited(body, i, r, wants, edit_message(body, i, r, wants))
<1> DEFINE m == body[i]
           n == edit_message(body, i, r, wants)
           bs == [j \in 1 .. Len(m.blocks) |-> Edited(body, i, j, r, wants)]
           same == (\A j \in 1 .. Len(m.blocks) : <<i, j>> \notin DOMAIN r) /\ ~wants /\ ~HasHint(m)
<1>1. /\ m \in MessageType /\ m.blocks \in Seq(BlockType)
      /\ DOMAIN m.blocks = 1 .. Len(m.blocks) /\ Len(m.blocks) \in Nat
      /\ \A j \in DOMAIN m.blocks : m.blocks[j] \in BlockType
  BY BodyTypes
<1>2. n = IF same THEN m ELSE [m EXCEPT !.blocks = bs]
  BY DEF edit_message, Edited
<1>3. CASE same
  <2>1. n = m
    BY <1>2, <1>3
  <2>2. MessageKept(m, m)
    BY <1>1 DEF MessageKept, BlockKept
  <2>3. \A j \in DOMAIN m.blocks : <<i, j>> \notin DOMAIN r /\ ~m.blocks[j].hint
    BY <1>1, <1>3 DEF HasHint
  <2> HIDE DEF n, m
  <2> QED BY <2>1, <2>2, <2>3 DEF n, m, IsEdited
<1>4. CASE ~same
  <2>1. n = [m EXCEPT !.blocks = bs]
    BY <1>2, <1>4
  <2>2. \A j \in DOMAIN m.blocks :
           /\ BlockKept(m.blocks[j], bs[j]) /\ bs[j].canon = TRUE
           /\ bs[j].hint = (wants /\ j = Len(m.blocks))
           /\ bs[j].len = IF <<i, j>> \in DOMAIN r THEN r[<<i, j>>].len ELSE m.blocks[j].len
    <3> TAKE j \in DOMAIN m.blocks
    <3>1. bs[j] = Edited(body, i, j, r, wants)
      BY <1>1
    <3>2. IsEdit(body, i, j, r, wants, bs[j])
      BY <3>1, EditedBlock
    <3> HIDE DEF bs
    <3> QED BY <3>2 DEF IsEdit
  <2>3. DOMAIN bs = DOMAIN m.blocks /\ bs \in Seq(BlockType)
    <3>1. \A j \in 1 .. Len(m.blocks) : bs[j] \in BlockType
      BY <1>1, <2>2 DEF BlockKept
    <3>2. bs \in [1 .. Len(m.blocks) -> BlockType]
      BY <3>1
    <3> HIDE DEF bs
    <3>3. bs \in Seq(BlockType)
      BY <1>1, <3>2, FunctionIsSeq
    <3> QED BY <1>1, <3>2, <3>3
  <2> HIDE DEF bs, m
  <2>4. n \in MessageType /\ n.role = m.role /\ n.blocks = bs
    BY <1>1, <2>1, <2>3 DEF MessageType
  <2> HIDE DEF n
  <2>5. MessageKept(m, n)
    BY <2>2, <2>3, <2>4 DEF MessageKept
  <2>6. /\ \A j \in DOMAIN m.blocks : n.blocks[j].canon = TRUE
        /\ \A j \in DOMAIN m.blocks :
              /\ <<i, j>> \in DOMAIN r => n.blocks[j].len = r[<<i, j>>].len
              /\ n.blocks[j].hint => wants /\ j = Len(m.blocks)
    BY <2>2, <2>4
  <2> QED BY <2>5, <2>6 DEF n, m, IsEdited
<1> QED BY <1>3, <1>4

\* The splice of a body.
SpliceOK(body, r, new, kept) ==
    /\ new \in Seq(MessageType) /\ DOMAIN new = DOMAIN body
    /\ \A i \in DOMAIN body :
          /\ MessageKept(body[i], new[i])
          /\ new[i] = body[i] \/ \A j \in DOMAIN body[i].blocks : new[i].blocks[j].canon = TRUE
          /\ \A j \in DOMAIN body[i].blocks :
                /\ <<i, j>> \in DOMAIN r => new[i].blocks[j].len = r[<<i, j>>].len
                /\ new[i].blocks[j].hint => i \in kept /\ j = Len(body[i].blocks)

\* It is the edit of every message, the latest positions marked.
LEMMA SpliceFacts ==
    ASSUME NEW body \in Seq(MessageType), NEW r, RenderedOK(body, r, Lens), NEW positions
    PROVE  SpliceOK(body, r, splice(body, r, positions),
                    Latest(positions \cap DOMAIN body, effective_cap))
<1> DEFINE kept == Latest(positions \cap DOMAIN body, effective_cap)
           new == splice(body, r, positions)
<1>1. new = [i \in DOMAIN body |-> edit_message(body, i, r, i \in kept)]
  BY DEF splice
<1>2. ASSUME NEW i \in DOMAIN body
      PROVE  /\ MessageKept(body[i], new[i])
             /\ new[i] = body[i] \/ \A j \in DOMAIN body[i].blocks : new[i].blocks[j].canon = TRUE
             /\ \A j \in DOMAIN body[i].blocks :
                   /\ <<i, j>> \in DOMAIN r => new[i].blocks[j].len = r[<<i, j>>].len
                   /\ new[i].blocks[j].hint => i \in kept /\ j = Len(body[i].blocks)
  <2>1. new[i] = edit_message(body, i, r, i \in kept)
    BY <1>1
  <2> DEFINE wants == i \in kept
             n == edit_message(body, i, r, wants)
  <2>2. wants \in BOOLEAN /\ new[i] = n
    BY <2>1
  <2> HIDE DEF new, kept, wants
  <2>3. IsEdited(body, i, r, wants, n)
    BY <2>2, EditOK
  <2> HIDE DEF n
  <2>4. IsEdited(body, i, r, wants, new[i])
    BY <2>2, <2>3
  <2> QED BY <2>4 DEF wants, IsEdited
<1>3. new \in Seq(MessageType) /\ DOMAIN new = DOMAIN body
  <2>1. DOMAIN body = 1 .. Len(body) /\ Len(body) \in Nat
    OBVIOUS
  <2>2. \A i \in DOMAIN body : new[i] \in MessageType
    BY <1>2 DEF MessageKept
  <2>3. new \in [1 .. Len(body) -> MessageType]
    BY <1>1, <2>1, <2>2
  <2> HIDE DEF new
  <2>4. new \in Seq(MessageType)
    BY <2>1, <2>3, FunctionIsSeq
  <2> QED BY <2>1, <2>3, <2>4
<1> HIDE DEF new, kept
<1>4. SpliceOK(body, r, new, kept)
  BY <1>2, <1>3 DEF SpliceOK
<1> QED BY <1>4 DEF new, kept

(***************************************************************************)
(* Hints and pairs.                                                        *)
(***************************************************************************)

\* The latest n of a set are at most n.
LEMMA LatestSize ==
    ASSUME NEW S \in SUBSET Nat, IsFiniteSet(S), NEW n \in Nat
    PROVE  IsFiniteSet(Latest(S, n)) /\ Cardinality(Latest(S, n)) <= n
<1> DEFINE L == Latest(S, n)
<1>1. L \in SUBSET S /\ \A p \in L : Cardinality({q \in S : q > p}) < n
  BY DEF Latest
<1> HIDE DEF L
<1>2. IsFiniteSet(L) /\ Cardinality(L) \in Nat
  BY <1>1, FS_Subset, FS_CardinalityType
<1>3. CASE L = {}
  <2>1. Cardinality(L) = 0
    BY <1>3, FS_EmptySet
  <2> QED BY <1>2, <2>1 DEF L
<1>4. CASE L # {}
  <2>1. PICK m \in L : \A k \in L : m <= k
    BY <1>1, <1>4, Smallest
  <2> DEFINE A == {q \in S : q > m}
  <2>2. IsFiniteSet(A) /\ Cardinality(A) \in Nat /\ Cardinality(A) < n
    <3>1. A \in SUBSET S
      OBVIOUS
    <3>2. Cardinality(A) < n
      BY <1>1, <2>1
    <3> HIDE DEF A
    <3> QED BY <3>1, <3>2, FS_Subset, FS_CardinalityType
  <2>3. L \ {m} \in SUBSET A
    BY <1>1, <2>1
  <2> HIDE DEF A
  <2>4. Cardinality(L \ {m}) <= Cardinality(A) /\ Cardinality(L \ {m}) = Cardinality(L) - 1
    BY <1>2, <2>1, <2>2, <2>3, FS_Subset, FS_RemoveElement
  <2>5. Cardinality(L) <= n
    BY <1>2, <2>2, <2>4
  <2> QED BY <1>2, <2>5 DEF L
<1> QED BY <1>3, <1>4

\* The number of hints of a message.
HintsOf(m) == Cardinality({j \in DOMAIN m.blocks : m.blocks[j].hint})

\* The hints of a body are the sum of those of its messages.
LEMMA HintsSum ==
    ASSUME NEW body, IsFiniteSet(DOMAIN body)
    PROVE  \E u : /\ IsSum(u, SUBSET (DOMAIN body), [i \in DOMAIN body |-> HintsOf(body[i])])
                  /\ Hints(body) = u[DOMAIN body]
<1> DEFINE S == DOMAIN body
           g == [i \in S |-> HintsOf(body[i])]
           h(i) == Cardinality({j \in DOMAIN body[i].blocks : body[i].blocks[j].hint})
           iter == CHOOSE u : u = [s \in SUBSET S |->
                      IF s = {} THEN 0
                      ELSE h(CHOOSE x \in s : TRUE) + u[s \ {CHOOSE x \in s : TRUE}]]
<1>1. Hints(body) = iter[S]
  BY DEF Hints, MapThenSumSet, MapThenFoldSet
<1>2. ASSUME NEW u
      PROVE  [s \in SUBSET S |-> IF s = {} THEN 0 ELSE g[Pick(s)] + u[s \ {Pick(s)}]]
             = [s \in SUBSET S |-> IF s = {} THEN 0 ELSE h(Pick(s)) + u[s \ {Pick(s)}]]
  <2>1. ASSUME NEW s \in SUBSET S, s # {} PROVE g[Pick(s)] = h(Pick(s))
    <3>1. Pick(s) \in S
      BY <2>1 DEF Pick
    <3> QED BY <3>1 DEF HintsOf
  <2> HIDE DEF g, h
  <2> QED BY <2>1
<1>3. PICK u : IsSum(u, SUBSET S, g)
  BY SumExists
<1> DEFINE IsRaw(v) == v = [s \in SUBSET S |-> IF s = {} THEN 0 ELSE h(Pick(s)) + v[s \ {Pick(s)}]]
<1>4. IsRaw(u)
  BY <1>2, <1>3 DEF IsSum
<1>5. iter = CHOOSE v : IsRaw(v)
  BY DEF Pick
<1> HIDE DEF iter
<1>6. IsRaw(iter)
  <2> HIDE DEF IsRaw
  <2> QED BY <1>4, <1>5
<1>7. IsSum(iter, SUBSET S, g)
  BY <1>2, <1>6 DEF IsSum
<1> QED BY <1>1, <1>7

\* No block holds a hint deeper down.
LEMMA NoNested ==
    ASSUME NEW body \in Seq(MessageType)
    PROVE  Nested(body) = {} <=>
              \A i \in DOMAIN body : \A j \in DOMAIN body[i].blocks : body[i].blocks[j].inner = 0
<1>1. ASSUME NEW i \in DOMAIN body, NEW j \in DOMAIN body[i].blocks
      PROVE  body[i].blocks[j].inner \in Nat
  <2>1. body[i].blocks[j] \in BlockType
    BY BodyTypes
  <2> QED BY <2>1, SizesAssumption DEF BlockType
<1>2. ASSUME Nested(body) = {}, NEW i \in DOMAIN body, NEW j \in DOMAIN body[i].blocks
      PROVE  body[i].blocks[j].inner = 0
  <2>1. \A k \in 1 .. body[i].blocks[j].inner : <<i, j, k>> \in Nested(body)
    BY DEF Nested
  <2>2. body[i].blocks[j].inner # 0 => 1 \in 1 .. body[i].blocks[j].inner
    BY <1>1
  <2> QED BY <1>2, <2>1, <2>2
<1>3. ASSUME \A i \in DOMAIN body : \A j \in DOMAIN body[i].blocks : body[i].blocks[j].inner = 0
      PROVE  Nested(body) = {}
  <2> SUFFICES ASSUME NEW e \in Nested(body) PROVE FALSE
    OBVIOUS
  <2>1. PICK i \in DOMAIN body : \E j \in DOMAIN body[i].blocks :
           \E k \in 1 .. body[i].blocks[j].inner : e = <<i, j, k>>
    BY DEF Nested
  <2>2. \A j \in DOMAIN body[i].blocks : body[i].blocks[j].inner = 0
    BY <1>3
  <2> QED BY <2>1, <2>2
<1> QED BY <1>2, <1>3

\* The splice puts on no more hints than there is room for.
LEMMA HintsBound ==
    ASSUME NEW body \in Seq(MessageType), NEW r, NEW new, NEW positions,
           SpliceOK(body, r, new, Latest(positions \cap DOMAIN body, effective_cap)),
           PrefixHints <= CACHE_HINT_CAP, Nested(body) = {}
    PROVE  check_hint_cap(new)
<1> DEFINE S == DOMAIN body
           K == Latest(positions \cap S, effective_cap)
           g == [i \in S |-> HintsOf(new[i])]
<1>1. S = 1 .. Len(body) /\ Len(body) \in Nat /\ DOMAIN new = S
  BY DEF SpliceOK
<1>2. IsFiniteSet(S) /\ S \in SUBSET Nat
  BY <1>1, FS_Interval
<1>3. PrefixHints \in Nat /\ effective_cap \in Nat /\ effective_cap = 4 - PrefixHints
  <2>1. PrefixHints \in Nat
    BY SizesAssumption
  <2> QED BY <2>1 DEF effective_cap, CACHE_HINT_CAP
<1>4. IsFiniteSet(K) /\ Cardinality(K) <= effective_cap
  <2>1. positions \cap S \in SUBSET S
    OBVIOUS
  <2>2. IsFiniteSet(positions \cap S) /\ positions \cap S \in SUBSET Nat
    BY <1>2, <2>1, FS_Subset
  <2> QED BY <1>3, <2>2, LatestSize
<1>5. ASSUME NEW i \in S
      PROVE  g[i] \in Int /\ g[i] <= 1 /\ (i \notin K => g[i] <= 0)
  <2> DEFINE H == {j \in DOMAIN new[i].blocks : new[i].blocks[j].hint}
             n == Len(body[i].blocks)
  <2>1. g[i] = Cardinality(H)
    BY DEF HintsOf
  <2>2. \A j \in H : i \in K /\ j = n
    BY DEF SpliceOK, MessageKept
  <2> HIDE DEF H, n, K, g
  <2>3. CASE i \in K
    <3>1. H \in SUBSET {n} /\ IsFiniteSet({n}) /\ Cardinality({n}) = 1
      BY <2>2, FS_Singleton
    <3>2. IsFiniteSet(H) /\ Cardinality(H) <= 1
      BY <3>1, FS_Subset
    <3>3. Cardinality(H) \in Nat
      BY <3>2, FS_CardinalityType
    <3> QED BY <2>1, <2>3, <3>2, <3>3
  <2>4. CASE i \notin K
    <3>1. H = {}
      BY <2>2, <2>4
    <3>2. Cardinality(H) = 0
      BY <3>1, FS_EmptySet
    <3> QED BY <2>1, <3>2
  <2> QED BY <2>3, <2>4
<1>6. PICK u : IsSum(u, SUBSET S, g) /\ Hints(new) = u[S]
  <2>1. IsFiniteSet(DOMAIN new)
    BY <1>1, <1>2
  <2>2. \E u : /\ IsSum(u, SUBSET (DOMAIN new), [i \in DOMAIN new |-> HintsOf(new[i])])
               /\ Hints(new) = u[DOMAIN new]
    BY <2>1, HintsSum
  <2> QED BY <1>1, <2>2
<1> HIDE DEF g, K
<1>7. u[S] <= Cardinality(S \cap K) /\ u[S] \in Int
  BY <1>2, <1>5, <1>6, SumBound, SumInt
<1>8. Cardinality(S \cap K) <= Cardinality(K) /\ Cardinality(S \cap K) \in Nat
      /\ Cardinality(K) \in Nat
  <2>1. S \cap K \in SUBSET K
    OBVIOUS
  <2> QED BY <1>4, <2>1, FS_Subset, FS_CardinalityType
<1>9. PrefixHints + u[S] <= 4
  BY <1>3, <1>4, <1>7, <1>8
<1>10. Cardinality(Nested(new)) = 0
  <2>1. new \in Seq(MessageType)
    BY DEF SpliceOK
  <2>2. ASSUME NEW i \in DOMAIN new, NEW j \in DOMAIN new[i].blocks
        PROVE  new[i].blocks[j].inner = 0
    <3>1. i \in DOMAIN body /\ MessageKept(body[i], new[i])
      BY DEF SpliceOK
    <3>2. j \in DOMAIN body[i].blocks /\ BlockKept(body[i].blocks[j], new[i].blocks[j])
      BY <3>1 DEF MessageKept
    <3>3. body[i].blocks[j].inner = 0
      BY <3>1, <3>2, NoNested
    <3> QED BY <3>2, <3>3 DEF BlockKept
  <2>3. Nested(new) = {}
    BY <2>1, <2>2, NoNested
  <2> QED BY <2>3, FS_EmptySet
<1>11. Hints(new) = u[S] /\ u[S] \in Int /\ PrefixHints \in Nat
  BY <1>3, <1>6, <1>7
<1> QED BY <1>9, <1>10, <1>11 DEF check_hint_cap, CACHE_HINT_CAP

\* The splice keeps the ids of the tools' calls and results.
LEMMA IdsKept ==
    ASSUME NEW m, NEW n, MessageKept(m, n), NEW kind \in {"tool_use", "tool_result"}
    PROVE  Ids(n, kind) = Ids(m, kind)
<1>1. DOMAIN n.blocks = DOMAIN m.blocks
  BY DEF MessageKept
<1>2. \A j \in DOMAIN m.blocks :
         /\ n.blocks[j].id = m.blocks[j].id
         /\ n.blocks[j].kind = kind <=> m.blocks[j].kind = kind
  BY DEF MessageKept, BlockKept
<1> DEFINE P(b) == {j \in DOMAIN b.blocks : b.blocks[j].kind = kind}
<1>3. P(n) = P(m)
  BY <1>1, <1>2
<1>4. Ids(n, kind) = {n.blocks[j].id : j \in P(n)} /\ Ids(m, kind) = {m.blocks[j].id : j \in P(m)}
  BY DEF Ids
<1>5. \A j \in P(m) : n.blocks[j].id = m.blocks[j].id
  BY <1>2
<1> HIDE DEF P
<1> QED BY <1>3, <1>4, <1>5

\* So it never severs a pair.
LEMMA PairsKept ==
    ASSUME NEW body, NEW r, NEW new, NEW kept, SpliceOK(body, r, new, kept)
    PROVE  check_tool_pairs(new) <=> check_tool_pairs(body)
<1>1. DOMAIN new = DOMAIN body /\ \A i \in DOMAIN body : MessageKept(body[i], new[i])
  BY DEF SpliceOK
<1>2. \A i \in DOMAIN body : /\ Ids(new[i], "tool_use") = Ids(body[i], "tool_use")
                             /\ Ids(new[i], "tool_result") = Ids(body[i], "tool_result")
  BY <1>1, IdsKept
<1>3. AllIds(new, "tool_use") = AllIds(body, "tool_use")
      /\ AllIds(new, "tool_result") = AllIds(body, "tool_result")
  BY <1>1, <1>2 DEF AllIds
<1> QED BY <1>3 DEF check_tool_pairs

(***************************************************************************)
(* A turn: whatever base, lane and positions finish is given.              *)
(***************************************************************************)
LaneOK(body, lane) == \A e \in lane : RenderedOK(body, e.rendered, {LaneLen})

\* Base and lane together are replacements, the lane's where the base has none.
LEMMA BothOK ==
    ASSUME NEW body, NEW base, RenderedOK(body, base, Lens), NEW lane, LaneOK(body, lane)
    PROVE  LET kept == Uncontested(base, lane)
               both == [t \in DOMAIN base \cup Domains({e.rendered : e \in kept}) |->
                           IF t \in DOMAIN base THEN base[t]
                           ELSE (CHOOSE e \in kept : t \in DOMAIN e.rendered).rendered[t]]
           IN  /\ RenderedOK(body, both, Lens)
               /\ \A e \in kept : \A t \in DOMAIN e.rendered :
                     /\ t \in DOMAIN both /\ IsTarget(body, t)
                     /\ both[t].len = LaneLen /\ e.rendered[t].len = LaneLen
<1> DEFINE kept == Uncontested(base, lane)
           pick(t) == CHOOSE e \in kept : t \in DOMAIN e.rendered
           both == [t \in DOMAIN base \cup Domains({e.rendered : e \in kept}) |->
                       IF t \in DOMAIN base THEN base[t] ELSE pick(t).rendered[t]]
<1>1. /\ \A e \in kept : e \in lane /\ DOMAIN e.rendered \cap DOMAIN base = {}
      /\ \A t \in Domains({e.rendered : e \in kept}) : \E e \in kept : t \in DOMAIN e.rendered
      /\ \A e \in kept : DOMAIN e.rendered \subseteq Domains({f.rendered : f \in kept})
  BY DEF Uncontested, Domains
<1>2. \A e \in kept : \A t \in DOMAIN e.rendered :
         IsTarget(body, t) /\ e.rendered[t] = Rendered(At(body, t), LaneLen)
  BY <1>1 DEF LaneOK, RenderedOK
<1>3. \A b : Rendered(b, LaneLen).len = LaneLen
  BY DEF Rendered
<1>4. LaneLen \in Lens
  BY DEF Lens
<1> HIDE DEF kept
<1>5. \A t \in Domains({e.rendered : e \in kept}) : pick(t) \in kept /\ t \in DOMAIN pick(t).rendered
  BY <1>1
<1>6. \A t \in Domains({e.rendered : e \in kept}) :
         /\ IsTarget(body, t)
         /\ pick(t).rendered[t] = Rendered(At(body, t), LaneLen)
  BY <1>2, <1>5
<1> HIDE DEF pick
<1>7. /\ DOMAIN both = DOMAIN base \cup Domains({e.rendered : e \in kept})
      /\ \A t \in DOMAIN base : both[t] = base[t]
      /\ \A t \in Domains({e.rendered : e \in kept}) :
            t \notin DOMAIN base => both[t] = pick(t).rendered[t]
  OBVIOUS
<1> HIDE DEF both
<1>8. RenderedOK(body, both, Lens)
  <2> SUFFICES ASSUME NEW t \in DOMAIN both
               PROVE  IsTarget(body, t) /\ \E len \in Lens : both[t] = Rendered(At(body, t), len)
    BY DEF RenderedOK
  <2>1. CASE t \in DOMAIN base
    BY <1>7, <2>1 DEF RenderedOK
  <2>2. CASE t \notin DOMAIN base
    BY <1>4, <1>6, <1>7, <2>2
  <2> QED BY <2>1, <2>2
<1>9. ASSUME NEW e \in kept, NEW t \in DOMAIN e.rendered
      PROVE  /\ t \in DOMAIN both /\ IsTarget(body, t)
             /\ both[t].len = LaneLen /\ e.rendered[t].len = LaneLen
  <2>1. t \in Domains({f.rendered : f \in kept}) /\ t \notin DOMAIN base
    BY <1>1
  <2>2. both[t] = Rendered(At(body, t), LaneLen)
    BY <1>6, <1>7, <2>1
  <2>3. e.rendered[t] = Rendered(At(body, t), LaneLen) /\ IsTarget(body, t)
    BY <1>2
  <2> QED BY <1>3, <1>7, <2>1, <2>2, <2>3
<1> QED BY <1>8, <1>9 DEF both, kept, pick

\* f is the request as it is, or a splice of it that passed the gate and that
\* has the bytes of every lane leaf it commits.
IsTurn(body, f, both, new, at) ==
    /\ f.body = body /\ f.verdict \in Verdicts
    /\ SpliceOK(body, both, new, Latest(at \cap DOMAIN body, effective_cap))
    /\ f.verdict \in {"identity", validate(body, new)}
    /\ \/ f.verdict # "ok" /\ f.sent = body /\ f.committed = {}
       \/ /\ f.verdict = "ok" /\ validate(body, new) = "ok" /\ f.sent = new
          /\ \A e \in f.committed : \A t \in DOMAIN e.rendered :
                /\ t \in DOMAIN both /\ IsTarget(body, t)
                /\ both[t].len = LaneLen /\ e.rendered[t].len = LaneLen

\* That is what finish comes to.
LEMMA FinishCases ==
    ASSUME NEW body \in Seq(MessageType), NEW base, RenderedOK(body, base, Lens),
           NEW lane, LaneOK(body, lane), NEW positions
    PROVE  \E both, new, at : IsTurn(body, finish(body, base, lane, positions), both, new, at)
<1> DEFINE f == finish(body, base, lane, positions)
           kept == Uncontested(base, lane)
           both == [t \in DOMAIN base \cup Domains({e.rendered : e \in kept}) |->
                       IF t \in DOMAIN base THEN base[t]
                       ELSE (CHOOSE e \in kept : t \in DOMAIN e.rendered).rendered[t]]
           at == safe_breakpoints(positions, base)
           new == splice(body, both, at)
           verdict == IF DOMAIN both = {} THEN "identity" ELSE validate(body, new)
<1>1. /\ RenderedOK(body, both, Lens)
      /\ \A e \in kept : \A t \in DOMAIN e.rendered :
            /\ t \in DOMAIN both /\ IsTarget(body, t)
            /\ both[t].len = LaneLen /\ e.rendered[t].len = LaneLen
  BY BothOK
<1>2. f = [body |-> body, verdict |-> verdict, base |-> DOMAIN base,
           sent |-> IF verdict = "ok" THEN new ELSE body,
           committed |-> IF verdict = "ok" THEN {e \in kept : e.fresh} ELSE {}]
  BY DEF finish
<1> HIDE DEF both, kept, at, f
<1>3. SpliceOK(body, both, new, Latest(at \cap DOMAIN body, effective_cap))
  BY <1>1, SpliceFacts
<1> HIDE DEF new
<1>4. validate(body, new) \in Verdicts \ {"identity"}
  BY DEF validate, Verdicts
<1>5. verdict \in {"identity", validate(body, new)} /\ verdict \in Verdicts
      /\ (verdict = "ok" => validate(body, new) = "ok")
  BY <1>4 DEF Verdicts
<1> HIDE DEF verdict
<1>6. /\ f.body = body /\ f.verdict = verdict
      /\ f.sent = IF verdict = "ok" THEN new ELSE body
      /\ f.committed = IF verdict = "ok" THEN {e \in kept : e.fresh} ELSE {}
  BY <1>2
<1>7. \/ f.verdict # "ok" /\ f.sent = body /\ f.committed = {}
      \/ /\ f.verdict = "ok" /\ validate(body, new) = "ok" /\ f.sent = new
         /\ \A e \in f.committed : \A t \in DOMAIN e.rendered :
               /\ t \in DOMAIN both /\ IsTarget(body, t)
               /\ both[t].len = LaneLen /\ e.rendered[t].len = LaneLen
  <2>1. CASE verdict = "ok"
    BY <1>1, <1>5, <1>6, <2>1
  <2>2. CASE verdict # "ok"
    BY <1>6, <2>2
  <2> QED BY <2>1, <2>2
<1>8. IsTurn(body, f, both, new, at)
  BY <1>3, <1>5, <1>6, <1>7 DEF IsTurn
<1> QED BY <1>8 DEF f

\* What a turn is: the request, and what was sent for it.
TurnOK ==
    /\ turn.body \in Seq(MessageType) /\ turn.sent \in Seq(MessageType)
    /\ turn.verdict \in Verdicts
    /\ SkeletonKept /\ ThinkingKept /\ SpliceNeedsNoGate /\ CommittedWasSent

\* A request sent as it is.
LEMMA SentAsIs ==
    ASSUME turn'.sent = turn'.body
    PROVE  SkeletonKept' /\ ThinkingKept'
<1>1. SkeletonKept'
  BY DEF SkeletonKept, Rewritten
<1>2. ThinkingKept'
  BY DEF ThinkingKept
<1> QED BY <1>1, <1>2

\* A spliced request has the blocks of the client's.
LEMMA SpliceKeepsSkeleton ==
    ASSUME NEW r, NEW kept, SpliceOK(turn'.body, r, turn'.sent, kept)
    PROVE  SkeletonKept'
<1> DEFINE body == turn'.body
           new == turn'.sent
<1>1. DOMAIN new = DOMAIN body /\ \A i \in DOMAIN body : MessageKept(body[i], new[i])
  BY DEF SpliceOK
<1>2. ASSUME NEW i \in DOMAIN body
      PROVE  /\ new[i].role = body[i].role
             /\ DOMAIN new[i].blocks = DOMAIN body[i].blocks
             /\ \A j \in DOMAIN body[i].blocks :
                   LET a == body[i].blocks[j]
                       b == new[i].blocks[j]
                   IN  a.id = b.id
                       /\ (Rewritten(a, b) => a.kind \in {"string", "text", "tool_result"})
  <2>1. MessageKept(body[i], new[i])
    BY <1>1
  <2> HIDE DEF body, new
  <2> QED BY <2>1 DEF MessageKept, BlockKept, Rewritten, ReplaceableKinds
<1> QED BY <1>1, <1>2 DEF SkeletonKept

\* The gate looks for the last thinking anywhere; it can only be in its place:
\* a message written again has no block as it was, and another message has
\* thinking of its own.
LEMMA GateKeepsThinking ==
    ASSUME BodyOK(turn'.body), NEW r, NEW kept, SpliceOK(turn'.body, r, turn'.sent, kept),
           check_thinking(turn'.body, turn'.sent)
    PROVE  ThinkingKept'
<1> DEFINE body == turn'.body
           new == turn'.sent
           A == Assistants(body)
           i == Max(A)
<1>0. body \in Seq(MessageType) /\ DOMAIN body = 1 .. Len(body) /\ Len(body) \in Nat
  BY DEF BodyOK
<1> SUFFICES ASSUME A # {}, NEW j \in DOMAIN body[i].blocks, body[i].blocks[j].kind = "thinking"
             PROVE  new[i].blocks[j] = body[i].blocks[j]
  BY DEF ThinkingKept
<1>1. i \in DOMAIN body
  <2>1. A \in SUBSET (0 .. Len(body))
    BY <1>0 DEF Assistants
  <2>2. i \in A
    BY <1>0, <2>1, MaxOf
  <2> QED BY <2>2 DEF Assistants
<1> DEFINE b == body[i].blocks[j]
<1>2. PICK p \in DOMAIN new : b \in ToSet(new[p].blocks)
  BY DEF check_thinking
<1>3. PICK q \in DOMAIN new[p].blocks : b = new[p].blocks[q]
  BY <1>2 DEF ToSet
<1> HIDE DEF body, new, A, i
<1>4. b.canon = FALSE /\ b.id = i
  BY <1>1 DEF BodyOK, body
<1>5. p \in DOMAIN body /\ MessageKept(body[p], new[p])
  BY <1>2 DEF SpliceOK, body, new
<1>6. q \in DOMAIN body[p].blocks
  BY <1>3, <1>5 DEF MessageKept
<1>7. new[p] = body[p] \/ new[p].blocks[q].canon = TRUE
  BY <1>5, <1>6 DEF SpliceOK, body, new
<1> HIDE DEF b
<1>8. new[p] = body[p]
  BY <1>3, <1>4, <1>7
<1>9. b = body[p].blocks[q]
  BY <1>3, <1>8
<1>10. b.id = p
  BY <1>5, <1>6, <1>9 DEF BodyOK, body, b
<1>11. p = i
  BY <1>4, <1>10
<1> QED BY <1>8, <1>11

\* Whatever a turn came to.
LEMMA FinishOK ==
    ASSUME NEW body, BodyOK(body), NEW base, RenderedOK(body, base, Lens),
           NEW lane, LaneOK(body, lane), NEW positions,
           turn' = finish(body, base, lane, positions)
    PROVE  TurnOK'
<1>0. body \in Seq(MessageType)
  BY DEF BodyOK
<1> DEFINE f == finish(body, base, lane, positions)
<1>2. PICK both, new, at : IsTurn(body, f, both, new, at)
  BY <1>0, FinishCases
<1>f. turn' = f
  OBVIOUS
<1> HIDE DEF f
<1>1. f.body = body /\ f.verdict \in Verdicts
      /\ SpliceOK(body, both, new, Latest(at \cap DOMAIN body, effective_cap))
  BY <1>2 DEF IsTurn
<1>3. new \in Seq(MessageType)
  BY <1>1 DEF SpliceOK
<1>4. SpliceNeedsNoGate'
  <2>1. validate(body, new) = "hints" => PrefixHints > CACHE_HINT_CAP \/ Nested(body) # {}
    <3>1. PrefixHints \in Nat /\ CACHE_HINT_CAP = 4
      BY SizesAssumption DEF CACHE_HINT_CAP
    <3>2. validate(body, new) = "hints" => ~check_hint_cap(new)
      BY DEF validate
    <3>3. PrefixHints <= CACHE_HINT_CAP /\ Nested(body) = {} => check_hint_cap(new)
      BY <1>0, <1>1, HintsBound
    <3>4. PrefixHints > CACHE_HINT_CAP \/ PrefixHints <= CACHE_HINT_CAP
      BY <3>1
    <3> QED BY <3>2, <3>3, <3>4
  <2>2. validate(body, new) = "pairs" => ~check_tool_pairs(body)
    BY <1>1, PairsKept DEF validate
  <2>3. turn'.body = body /\ turn'.verdict \in {"identity", validate(body, new)}
    BY <1>1, <1>2, <1>f DEF IsTurn
  <2>4. turn'.verdict = "hints" => PrefixHints > CACHE_HINT_CAP \/ Nested(turn'.body) # {}
    BY <2>1, <2>3
  <2>5. turn'.verdict = "pairs" => ~check_tool_pairs(turn'.body)
    BY <2>2, <2>3
  <2> QED BY <2>4, <2>5 DEF SpliceNeedsNoGate
<1>5. CASE f.verdict # "ok" /\ f.sent = body /\ f.committed = {}
  <2>1. SkeletonKept' /\ ThinkingKept'
    BY <1>1, <1>5, <1>f, SentAsIs
  <2>2. CommittedWasSent'
    BY <1>5, <1>f DEF CommittedWasSent
  <2> QED BY <1>0, <1>1, <1>4, <1>5, <1>f, <2>1, <2>2 DEF TurnOK
<1>6. CASE f.verdict = "ok" /\ f.sent = new /\ validate(body, new) = "ok"
  <2>1. turn'.body = body /\ turn'.sent = new
    BY <1>1, <1>6, <1>f
  <2>2. SkeletonKept'
    BY <1>1, <2>1, SpliceKeepsSkeleton
  <2>3. check_thinking(body, new)
    BY <1>6 DEF validate
  <2>4. ThinkingKept'
    BY <1>1, <2>1, <2>3, GateKeepsThinking
  <2>5. CommittedWasSent'
    <3> SUFFICES ASSUME NEW e \in turn'.committed, NEW t \in DOMAIN e.rendered
                 PROVE  At(new, t).len = e.rendered[t].len
      BY <2>1 DEF CommittedWasSent, At
    <3>1. /\ t \in DOMAIN both /\ IsTarget(body, t)
          /\ both[t].len = LaneLen /\ e.rendered[t].len = LaneLen
      BY <1>2, <1>6, <1>f DEF IsTurn
    <3>2. PICK i \in DOMAIN body : \E j \in DOMAIN body[i].blocks : t = <<i, j>>
      BY <3>1 DEF IsTarget
    <3>3. PICK j \in DOMAIN body[i].blocks : t = <<i, j>>
      BY <3>2
    <3>4. new[i].blocks[j].len = both[<<i, j>>].len
      BY <1>1, <3>1, <3>3 DEF SpliceOK
    <3>5. At(new, t) = new[i].blocks[j]
      BY <3>3 DEF At
    <3> QED BY <3>1, <3>3, <3>4, <3>5
  <2> QED BY <1>0, <1>1, <1>3, <1>4, <1>f, <2>1, <2>2, <2>4, <2>5 DEF TurnOK
<1> QED BY <1>2, <1>5, <1>6 DEF IsTurn

(***************************************************************************)
(* The plan's keys are blocks of the conversation.                         *)
(***************************************************************************)
IsFlat(seqs, u) ==
    u = [i \in 1 .. Len(seqs) |-> IF i = 1 THEN seqs[i] ELSE u[i - 1] \o seqs[i]]

\* One sequence, or two joined: a segment has no more messages.
LEMMA FlattenType ==
    ASSUME NEW T, NEW seqs \in Seq(Seq(T)), Len(seqs) \in {1, 2}
    PROVE  FlattenSeq(seqs) \in Seq(T)
<1> DEFINE n == Len(seqs)
           u == CHOOSE u : u = [i \in 1 .. n |-> IF i = 1 THEN seqs[i] ELSE u[i - 1] \o seqs[i]]
           v == [i \in 1 .. n |-> IF i = 1 THEN seqs[1] ELSE seqs[1] \o seqs[2]]
<1>1. FlattenSeq(seqs) = u[n]
  BY DEF FlattenSeq
<1>2. IsFlat(seqs, v)
  <2>0. n \in {1, 2}
    OBVIOUS
  <2> DEFINE both == seqs[1] \o seqs[2]
  <2>1. v = [i \in 1 .. n |-> IF i = 1 THEN seqs[1] ELSE both]
    OBVIOUS
  <2> HIDE DEF v, n
  <2>2. \A i \in 1 .. n : i = 1 \/ i = 2
    BY <2>0
  <2>3. \A i \in 1 .. n : i = 2 => v[i - 1] \o seqs[i] = both
    <3>1. 2 \in 1 .. n => v[1] = seqs[1]
      <4> HIDE DEF both
      <4> QED BY <2>0, <2>1
    <3>2. 2 - 1 = 1
      OBVIOUS
    <3> QED BY ONLY <3>1, <3>2, Zenon DEF both
  <2> DEFINE f(i) == v[i - 1] \o seqs[i]
  <2>4. \A i \in 1 .. n : i = 2 => f(i) = both
    BY <2>3
  <2> HIDE DEF both, f
  <2>5. v = [i \in 1 .. n |-> IF i = 1 THEN seqs[i] ELSE f(i)]
    BY <2>1, <2>2, <2>4
  <2> QED BY <2>5 DEF IsFlat, f, n
<1>3. IsFlat(seqs, u)
  <2> HIDE DEF v
  <2> QED BY ONLY <1>2, Zenon DEF IsFlat
<1> HIDE DEF u, v
<1>4. n \in {1, 2} /\ seqs[1] \in Seq(T) /\ (n = 2 => seqs[2] \in Seq(T))
  OBVIOUS
<1>5. u[1] = seqs[1]
  BY <1>3 DEF IsFlat
<1>6. CASE n = 1
  BY <1>1, <1>4, <1>5, <1>6
<1>7. CASE n = 2
  <2> DEFINE f(i) == u[i - 1] \o seqs[i]
  <2>1. u = [i \in 1 .. n |-> IF i = 1 THEN seqs[i] ELSE f(i)]
    BY <1>3 DEF IsFlat
  <2> HIDE DEF f
  <2>2. u[2] = f(2)
    BY <1>7, <2>1
  <2>3. f(2) = u[1] \o seqs[2]
    BY DEF f
  <2>4. seqs[1] \o seqs[2] \in Seq(T)
    BY <1>4, <1>7
  <2> QED BY ONLY <1>1, <1>5, <1>7, <2>2, <2>3, <2>4, Zenon
<1> QED BY <1>4, <1>6, <1>7

\* The content address of a segment.
LEMMA KeyType ==
    ASSUME NEW body \in Seq(MessageType), NEW seg, SegOK(body, seg), seg.msgs # {}
    PROVE  KeyOf(body, seg) \in Seq(BlockType)
<1> DEFINE c == Cardinality(seg.msgs)
           lo == Min(seg.msgs)
           seqs == [k \in 1 .. c |-> body[lo + k - 1].blocks]
<1>0. DOMAIN body = 1 .. Len(body) /\ Len(body) \in Nat
  OBVIOUS
<1>1. PICK i \in DOMAIN body : \/ seg.msgs = {i}
                               \/ i + 1 \in DOMAIN body /\ seg.msgs = {i, i + 1}
  BY DEF SegOK
<1>2. lo = i
  <2>1. seg.msgs \in SUBSET Nat
    BY <1>0, <1>1
  <2>2. lo \in seg.msgs /\ \A k \in seg.msgs : lo <= k
    BY <2>1, MinOf
  <2>3. i \in Nat /\ i \in seg.msgs
    BY <1>0, <1>1
  <2> HIDE DEF lo
  <2>4. lo \in {i, i + 1} /\ lo <= i
    BY <1>1, <2>2, <2>3
  <2> QED BY <2>3, <2>4
<1>3. c \in {1, 2} /\ (c = 2 => i + 1 \in DOMAIN body)
  <2>1. IsFiniteSet({i}) /\ Cardinality({i}) = 1
    BY FS_Singleton
  <2>2. {i, i + 1} = {i} \cup {i + 1}
    OBVIOUS
  <2>3. Cardinality({i, i + 1}) = 2
    <3>1. i + 1 \notin {i}
      BY <1>0
    <3>2. Cardinality({i} \cup {i + 1}) = Cardinality({i}) + 1
      BY <2>1, <3>1, FS_AddElement
    <3> QED BY <2>1, <2>2, <3>2, 1 + 1 = 2, Zenon
  <2>4. CASE seg.msgs = {i}
    <3>1. c = 1
      BY <2>1, <2>4, Zenon
    <3> HIDE DEF c
    <3> QED BY <3>1
  <2>5. CASE i + 1 \in DOMAIN body /\ seg.msgs = {i, i + 1}
    <3>1. c = 2
      BY <2>3, <2>5, Zenon
    <3> HIDE DEF c
    <3> QED BY <2>5, <3>1
  <2> QED BY <1>1, <2>4, <2>5
<1>4. \A k \in 1 .. c : lo + k - 1 \in DOMAIN body
  BY <1>0, <1>2, <1>3
<1>5. \A k \in 1 .. c : body[lo + k - 1].blocks \in Seq(BlockType)
  BY <1>4, BodyTypes
<1> HIDE DEF c, lo
<1>6. seqs \in [1 .. c -> Seq(BlockType)]
  BY <1>5
<1> HIDE DEF seqs
<1>7. seqs \in Seq(Seq(BlockType)) /\ Len(seqs) = c
  BY <1>3, <1>6, FunctionIsSeq
<1>8. KeyOf(body, seg) = FlattenSeq(seqs)
  BY DEF KeyOf, c, lo, seqs
<1> QED BY <1>3, <1>7, <1>8, FlattenType

(***************************************************************************)
(* The invariant.                                                          *)
(***************************************************************************)
PlanOK ==
    plan = None \/ \A key \in DOMAIN plan : key \in Seq(BlockType) /\ plan[key] \in EntryType

RewriteInv ==
    /\ BodyOK(msgs) /\ Len(msgs) <= MaxMessages
    /\ PlanOK
    /\ TurnOK

\* Before a request there is no turn.
LEMMA NoTurnOK ==
    ASSUME turn' = NoTurn
    PROVE  TurnOK'
<1>1. turn'.body = <<>> /\ turn'.sent = <<>> /\ turn'.committed = {} /\ turn'.verdict = "identity"
  BY DEF NoTurn
<1>2. SkeletonKept' /\ ThinkingKept'
  BY <1>1, SentAsIs
<1>3. SpliceNeedsNoGate' /\ CommittedWasSent'
  BY <1>1 DEF SpliceNeedsNoGate, CommittedWasSent
<1>4. turn'.body \in Seq(MessageType) /\ turn'.sent \in Seq(MessageType) /\ turn'.verdict \in Verdicts
  BY <1>1 DEF Verdicts
<1> QED BY <1>2, <1>3, <1>4 DEF TurnOK

\* What a client may say: blocks not written by the splice, and thinking
\* numbered by its message.
LEMMA SayOK ==
    ASSUME RewriteInv, NEW role \in Roles, NEW blocks \in Seq(BlockType),
           \A j \in DOMAIN blocks :
              blocks[j].canon = FALSE /\ (blocks[j].kind = "thinking" => blocks[j].id = Next1),
           Say(role, blocks)
    PROVE  RewriteInv'
<1> DEFINE m == [role |-> role, blocks |-> blocks]
           n == Len(msgs)
<1>1. msgs \in Seq(MessageType) /\ n \in Nat /\ DOMAIN msgs = 1 .. n /\ n < MaxMessages
  BY DEF RewriteInv, BodyOK, Say
<1>2. msgs' = Append(msgs, m) /\ turn' = NoTurn /\ plan' = plan
  BY DEF Say
<1>3. m \in MessageType
  BY DEF MessageType
<1>b. m.blocks = blocks
  OBVIOUS
<1> HIDE DEF m
<1>4. msgs' \in Seq(MessageType) /\ Len(msgs') = n + 1 /\ DOMAIN msgs' = 1 .. n + 1
      /\ msgs'[n + 1] = m /\ \A i \in 1 .. n : msgs'[i] = msgs[i]
  BY <1>1, <1>2, <1>3
<1>5. BodyOK(msgs')
  <2>1. ASSUME NEW i \in DOMAIN msgs'
        PROVE  \A j \in DOMAIN msgs'[i].blocks :
                  /\ msgs'[i].blocks[j].canon = FALSE
                  /\ msgs'[i].blocks[j].kind = "thinking" => msgs'[i].blocks[j].id = i
    <3>1. CASE i = n + 1
      BY <1>b, <1>4, <3>1 DEF Next1
    <3>2. CASE i # n + 1
      <4>1. i \in DOMAIN msgs /\ msgs'[i] = msgs[i]
        BY <1>1, <1>4, <3>2
      <4> QED BY <4>1 DEF RewriteInv, BodyOK
    <3> QED BY <3>1, <3>2
  <2> QED BY <1>4, <2>1 DEF BodyOK
<1>m. MaxMessages \in Nat
  BY SizesAssumption
<1>6. n + 1 <= MaxMessages
  BY <1>1, <1>m
<1>7. TurnOK'
  BY <1>2, NoTurnOK
<1>8. PlanOK'
  BY <1>2 DEF RewriteInv, PlanOK
<1> QED BY <1>4, <1>5, <1>6, <1>7, <1>8 DEF RewriteInv

\* A block that may stand in message Next1.
Spoken(b) ==
    b \in BlockType /\ b.canon = FALSE /\ (b.kind = "thinking" => b.id = Next1)

\* A block the client writes.
LEMMA ClientTool ==
    ASSUME NEW kind \in BlockKinds, NEW id \in 0 .. MaxMessages, NEW len \in Lens,
           NEW inner \in InnerHints, kind = "thinking" => id = Next1
    PROVE  Spoken(Tool(kind, id, len, inner))
BY DEF Tool, BlockType, Spoken

LEMMA ClientBlock ==
    ASSUME NEW kind \in BlockKinds, NEW id \in 0 .. MaxMessages, NEW len \in Lens,
           kind = "thinking" => id = Next1
    PROVE  Spoken(Block(kind, id, len))
<1>1. 0 \in InnerHints
  BY SizesAssumption
<1> QED BY <1>1, ClientTool DEF Block

\* Sequences of such blocks are what SayOK asks for.
LEMMA SpokenOK ==
    ASSUME RewriteInv, NEW role \in Roles, NEW T, \A b \in T : Spoken(b),
           NEW blocks \in Seq(T), Say(role, blocks)
    PROVE  RewriteInv'
<1>1. \A j \in DOMAIN blocks : Spoken(blocks[j])
  OBVIOUS
<1>2. blocks \in Seq(BlockType)
  <2>1. blocks \in [1 .. Len(blocks) -> BlockType] /\ Len(blocks) \in Nat
    BY <1>1 DEF Spoken
  <2> QED BY <2>1, FunctionIsSeq
<1>3. \A j \in DOMAIN blocks :
         blocks[j].canon = FALSE /\ (blocks[j].kind = "thinking" => blocks[j].id = Next1)
  BY <1>1 DEF Spoken
<1> QED BY <1>2, <1>3, SayOK

\* A prompt is one string.
LEMMA PromptOK ==
    ASSUME RewriteInv, Prompt
    PROVE  RewriteInv'
<1>1. PICK role \in {"user", "system"}, len \in PromptLens :
         Say(role, <<Block("string", 0, len)>>)
  BY DEF Prompt
<1> DEFINE b == Block("string", 0, len)
<1>2. 0 \in 0 .. MaxMessages /\ len \in Lens /\ "string" \in BlockKinds /\ role \in Roles
  BY SizesAssumption DEF Lens, BlockKinds, Roles
<1>3. Spoken(b)
  <2>1. "string" = "thinking" => 0 = Next1
    OBVIOUS
  <2> QED BY ONLY <1>2, <2>1, ClientBlock, Zenon
<1> HIDE DEF b
<1>4. <<b>> \in Seq({b})
  OBVIOUS
<1>5. \A x \in {b} : Spoken(x)
  BY <1>3
<1>6. Say(role, <<b>>)
  BY <1>1 DEF b
<1> QED BY <1>2, <1>4, <1>5, <1>6, SpokenOK

\* A reply has thinking and a tool call of its own number.
LEMMA ReplyOK ==
    ASSUME RewriteInv, Reply
    PROVE  RewriteInv'
<1>1. PICK len \in TextLens, thinks \in BOOLEAN, uses \in BOOLEAN, inner \in InnerHints :
         Say("assistant",
             (IF thinks THEN <<Block("thinking", Next1, ThinkLen)>> ELSE <<>>)
             \o <<Block("text", 0, len)>>
             \o (IF uses THEN <<Tool("tool_use", Next1, 1, inner)>> ELSE <<>>))
  BY DEF Reply
<1> DEFINE a == Block("thinking", Next1, ThinkLen)
           b == Block("text", 0, len)
           c == Tool("tool_use", Next1, 1, inner)
           T == {a, b, c}
<1>2. Next1 \in 0 .. MaxMessages /\ 0 \in 0 .. MaxMessages
  <2>1. Len(msgs) \in Nat /\ Len(msgs) < MaxMessages
    BY <1>1 DEF Say, RewriteInv, BodyOK
  <2>2. MaxMessages \in Nat
    BY SizesAssumption
  <2> QED BY <2>1, <2>2 DEF Next1
<1>3. ThinkLen \in Lens /\ len \in Lens /\ 1 \in Lens
  BY DEF Lens
<1>4. "thinking" \in BlockKinds /\ "text" \in BlockKinds /\ "tool_use" \in BlockKinds
  BY DEF BlockKinds
<1>5. Spoken(a) /\ Spoken(b) /\ Spoken(c)
  <2>1. ("text" = "thinking" => 0 = Next1) /\ inner \in InnerHints
    OBVIOUS
  <2>2. Spoken(a)
    BY ONLY <1>2, <1>3, <1>4, ClientBlock, Zenon
  <2>3. Spoken(b)
    BY ONLY <1>2, <1>3, <1>4, <2>1, ClientBlock, Zenon
  <2>4. Spoken(c)
    BY ONLY <1>2, <1>3, <1>4, <2>1, ClientTool, Zenon
  <2> QED BY <2>2, <2>3, <2>4
<1> DEFINE first == IF thinks THEN <<a>> ELSE <<>>
           last == IF uses THEN <<c>> ELSE <<>>
<1>6. first \in Seq(T) /\ <<b>> \in Seq(T) /\ last \in Seq(T)
  <2> HIDE DEF a, b, c
  <2>1. <<a>> \in Seq(T) /\ <<b>> \in Seq(T) /\ <<c>> \in Seq(T) /\ <<>> \in Seq(T)
    OBVIOUS
  <2> HIDE DEF T
  <2> QED BY <2>1
<1>7. \A x \in T : Spoken(x)
  BY <1>5
<1>8. Say("assistant", first \o <<b>> \o last)
  BY <1>1
<1> HIDE DEF a, b, c, T, first, last
<1>9. first \o <<b>> \o last \in Seq(T)
  BY <1>6
<1>10. "assistant" \in Roles
  BY DEF Roles
<1> QED BY <1>7, <1>8, <1>9, <1>10, SpokenOK

\* An answer has the id of a call in the last message.
LEMMA AnswerOK ==
    ASSUME RewriteInv, Answer
    PROVE  RewriteInv'
<1>1. PICK id \in Ids(Last(msgs), "tool_use"), len \in TextLens, inner \in InnerHints :
         Say("user", <<Tool("tool_result", id, len, inner)>>)
  BY DEF Answer
<1> DEFINE b == Tool("tool_result", id, len, inner)
<1>2. id \in 0 .. MaxMessages
  <2>1. msgs \in Seq(MessageType) /\ msgs # <<>> /\ Last(msgs) = msgs[Len(msgs)]
    BY DEF RewriteInv, BodyOK, Answer, ClosesTurn, Last
  <2>2. Len(msgs) \in DOMAIN msgs
    BY <2>1
  <2>3. PICK j \in DOMAIN msgs[Len(msgs)].blocks : id = msgs[Len(msgs)].blocks[j].id
    BY <2>1 DEF Ids
  <2>4. msgs[Len(msgs)].blocks[j] \in BlockType
    BY <2>1, <2>2, <2>3, BodyTypes
  <2> QED BY <2>3, <2>4 DEF BlockType
<1>3. len \in Lens /\ "tool_result" \in BlockKinds /\ "user" \in Roles
  BY DEF Lens, BlockKinds, Roles
<1>4. Spoken(b)
  <2>1. ("tool_result" = "thinking" => id = Next1) /\ inner \in InnerHints
    OBVIOUS
  <2> QED BY ONLY <1>2, <1>3, <2>1, ClientTool, Zenon
<1>5. <<b>> \in Seq({b})
  <2> HIDE DEF b
  <2> QED OBVIOUS
<1>6. Say("user", <<b>>)
  BY <1>1
<1>7. \A x \in {b} : Spoken(x)
  BY <1>4
<1> HIDE DEF b
<1> QED BY <1>3, <1>5, <1>6, <1>7, SpokenOK

\* The request is the conversation, with at most a hint on its last block.
LEMMA RequestOK ==
    ASSUME BodyOK(msgs), msgs # <<>>
    PROVE  BodyOK(Body)
<1> DEFINE n == Len(msgs)
           m == msgs[n]
           last == Len(m.blocks)
           bs == [m.blocks EXCEPT ![last].hint = TRUE]
           marked == [m EXCEPT !.blocks = bs]
<1>1. msgs \in Seq(MessageType) /\ n \in DOMAIN msgs
  BY DEF BodyOK
<1>2. m \in MessageType /\ m.blocks \in Seq(BlockType) /\ DOMAIN m.blocks = 1 .. last
      /\ last \in Nat /\ \A j \in DOMAIN m.blocks : m.blocks[j] \in BlockType
  BY <1>1, BodyTypes
<1>3. Body = IF ClientHints /\ ~IsString(m) THEN [msgs EXCEPT ![n] = marked] ELSE msgs
  BY DEF Body
<1>4. ASSUME NEW j \in DOMAIN m.blocks
      PROVE  /\ bs[j] \in BlockType /\ bs[j].canon = m.blocks[j].canon
             /\ bs[j].kind = m.blocks[j].kind /\ bs[j].id = m.blocks[j].id
  <2> HIDE DEF m, last
  <2>1. bs[j] = m.blocks[j] \/ bs[j] = [m.blocks[j] EXCEPT !.hint = TRUE]
    OBVIOUS
  <2>2. m.blocks[j] \in BlockType
    BY <1>2
  <2> HIDE DEF bs
  <2> QED BY <2>1, <2>2 DEF BlockType
<1>5. DOMAIN bs = DOMAIN m.blocks
  OBVIOUS
<1>6. bs \in Seq(BlockType)
  <2> HIDE DEF bs, m, last
  <2>1. bs = [j \in 1 .. last |-> bs[j]]
    BY <1>2 DEF bs
  <2>2. bs \in [1 .. last -> BlockType]
    BY <1>2, <1>4, <1>5, <2>1
  <2> QED BY <1>2, <2>2, FunctionIsSeq
<1>7. marked \in MessageType /\ marked.blocks = bs
  <2> HIDE DEF bs, m
  <2> QED BY <1>2, <1>6 DEF MessageType
<1> HIDE DEF marked, bs
<1>8. CASE ClientHints /\ ~IsString(m)
  <2>1. Body = [msgs EXCEPT ![n] = marked]
    BY <1>3, <1>8
  <2>2. Body \in Seq(MessageType) /\ DOMAIN Body = DOMAIN msgs
        /\ Body[n] = marked /\ \A i \in DOMAIN msgs : i # n => Body[i] = msgs[i]
    BY <1>1, <1>7, <2>1
  <2>3. ASSUME NEW i \in DOMAIN Body, NEW j \in DOMAIN Body[i].blocks
        PROVE  /\ Body[i].blocks[j].canon = FALSE
               /\ Body[i].blocks[j].kind = "thinking" => Body[i].blocks[j].id = i
    <3>1. CASE i = n
      <4>1. Body[i].blocks = bs /\ j \in DOMAIN m.blocks
        BY <1>5, <1>7, <2>2, <2>3, <3>1
      <4>2. m.blocks[j].canon = FALSE /\ (m.blocks[j].kind = "thinking" => m.blocks[j].id = n)
        BY <1>1, <4>1 DEF BodyOK
      <4> QED BY <1>4, <3>1, <4>1, <4>2
    <3>2. CASE i # n
      BY <2>2, <2>3, <3>2 DEF BodyOK
    <3> QED BY <3>1, <3>2
  <2> QED BY <2>2, <2>3 DEF BodyOK
<1>9. CASE ~(ClientHints /\ ~IsString(m))
  <2>1. Body = msgs
    BY <1>3, <1>9
  <2> QED BY <2>1
<1> QED BY <1>8, <1>9

\* The lane's entries are replacements.
LEMMA LanesOK ==
    ASSUME NEW body \in Seq(MessageType), NEW lane \in Lanes(body, segment_prompt(body))
    PROVE  LaneOK(body, lane)
<1> DEFINE segs == segment_prompt(body)
           one(k) == RenderAll(body, segs, {k}, [i \in {k} |-> LaneLen])
<1>1. ASSUME NEW e \in lane
      PROVE  RenderedOK(body, e.rendered, {LaneLen})
  <2>1. e \in LaneEntries(body, segs)
    BY DEF Lanes
  <2>2. \E k \in DOMAIN segs, fresh \in BOOLEAN : e = [fresh |-> fresh, rendered |-> one(k)]
    <3> HIDE DEF segs
    <3> QED BY <2>1 DEF LaneEntries
  <2>3. PICK k \in DOMAIN segs : e.rendered = one(k)
    <3> HIDE DEF one
    <3> QED BY <2>2
  <2>4. SegOK(body, segs[k])
    BY SegmentsOK
  <2> DEFINE lens == [i \in {k} |-> LaneLen]
  <2>5. \A i \in {k} : SegOK(body, segs[i]) /\ lens[i] \in {LaneLen}
    <3>1. lens[k] = LaneLen
      OBVIOUS
    <3> HIDE DEF lens, segs
    <3> QED BY <2>4, <3>1
  <2>6. one(k) = RenderAll(body, segs, {k}, lens)
    OBVIOUS
  <2> HIDE DEF lens, segs, one
  <2>7. RenderedOK(body, RenderAll(body, segs, {k}, lens), {LaneLen})
    BY <2>5, RenderAllOK
  <2> QED BY <2>3, <2>6, <2>7
<1> QED BY <1>1 DEF LaneOK

\* A plan is keyed by blocks of the request.
LEMMA StageOK ==
    ASSUME RewriteInv, Stage
    PROVE  RewriteInv'
<1> DEFINE segs == segment_prompt(Body)
           cands == {k \in DOMAIN segs : segs[k].msgs # {} /\ is_squash_candidate(segs[k])}
           keys(S) == {KeyOf(Body, segs[k]) : k \in S}
<1>0. msgs # <<>> /\ BodyOK(msgs)
  BY DEF Stage, Unsent, Requesting, RewriteInv
<1>1. Body \in Seq(MessageType)
  BY <1>0, RequestOK DEF BodyOK
<1>2. PICK K \in SUBSET keys(cands) :
         \E R \in SUBSET (K \cap keys({k \in cands : HasLeaf(Body, segs[k])})) :
         \E len \in RenderLens :
            plan' = [key \in K |-> [recode |-> key \in R, len |-> len]]
  BY DEF Stage
<1>3. PICK R : \E len \in RenderLens :
         plan' = [key \in K |-> [recode |-> key \in R, len |-> len]]
  BY <1>2
<1>4. \A key \in K : key \in Seq(BlockType)
  <2> SUFFICES ASSUME NEW key \in K PROVE key \in Seq(BlockType)
    OBVIOUS
  <2>1. key \in keys(cands)
    BY <1>2
  <2>2. PICK k \in DOMAIN segs : segs[k].msgs # {} /\ key = KeyOf(Body, segs[k])
    BY <2>1
  <2>3. SegOK(Body, segs[k])
    BY <1>1, SegmentsOK
  <2> HIDE DEF segs
  <2> QED BY <1>1, <2>2, <2>3, KeyType
<1> HIDE DEF segs, cands, keys
<1>5. DOMAIN plan' = K /\ \A key \in K : plan'[key] \in EntryType
  BY <1>3 DEF EntryType
<1>6. PlanOK'
  BY <1>4, <1>5 DEF PlanOK
<1>7. msgs' = msgs /\ turn' = turn
  BY DEF Stage
<1>8. TurnOK'
  BY <1>7 DEF RewriteInv, TurnOK, SkeletonKept, ThinkingKept, SpliceNeedsNoGate, CommittedWasSent
<1> QED BY <1>6, <1>7, <1>8 DEF RewriteInv

\* What a turn replaces by the plan has the lengths of the plan.
LEMMA ContinuousOK ==
    ASSUME RewriteInv, Continuous
    PROVE  RewriteInv'
<1> DEFINE body == Body
           segs == segment_prompt(body)
           base(S) == RenderAll(body, segs, S, [k \in S |-> plan[KeyOf(body, segs[k])].len])
<1>0. msgs # <<>> /\ BodyOK(msgs) /\ plan # None
  BY DEF Continuous, Unsent, Requesting, RewriteInv
<1>1. BodyOK(body)
  BY <1>0, RequestOK
<1>t. body \in Seq(MessageType)
  BY <1>1 DEF BodyOK
<1>2. PICK lane \in Lanes(body, segs), S \in SUBSET live(body, segs) :
         \/ turn' = finish(body, NoBase, lane, {})
         \/ \E positions : turn' = finish(body, base(S), lane, positions)
  BY DEF Continuous
<1>3. LaneOK(body, lane)
  BY <1>t, LanesOK
<1>4. RenderedOK(body, base(S), Lens)
  <2> DEFINE lens == [k \in S |-> plan[KeyOf(body, segs[k])].len]
  <2>1. ASSUME NEW k \in S PROVE SegOK(body, segs[k]) /\ lens[k] \in Lens
    <3>1. k \in DOMAIN segs /\ KeyOf(body, segs[k]) \in DOMAIN plan
      BY <1>2 DEF live
    <3>2. SegOK(body, segs[k])
      BY <1>t, <3>1, SegmentsOK
    <3>3. plan[KeyOf(body, segs[k])] \in EntryType
      BY <1>0, <3>1 DEF RewriteInv, PlanOK
    <3>4. plan[KeyOf(body, segs[k])].len \in RenderLens
      BY <3>3 DEF EntryType
    <3>5. lens[k] = plan[KeyOf(body, segs[k])].len
      OBVIOUS
    <3> HIDE DEF lens, segs, body
    <3> QED BY <3>2, <3>4, <3>5 DEF Lens
  <2>2. base(S) = RenderAll(body, segs, S, lens)
    OBVIOUS
  <2> HIDE DEF lens, segs, body, base
  <2> QED BY <2>1, <2>2, RenderAllOK
<1>5. RenderedOK(body, NoBase, Lens)
  BY DEF RenderedOK, NoBase
<1> HIDE DEF body, segs, base
<1>6. TurnOK'
  <2>1. CASE turn' = finish(body, NoBase, lane, {})
    BY <1>1, <1>3, <1>5, <2>1, FinishOK
  <2>2. CASE \E positions : turn' = finish(body, base(S), lane, positions)
    <3>1. PICK positions : turn' = finish(body, base(S), lane, positions)
      BY <2>2
    <3> QED BY <1>1, <1>3, <1>4, <3>1, FinishOK
  <2> QED BY <1>2, <2>1, <2>2
<1>7. msgs' = msgs /\ plan' = plan
  BY DEF Continuous
<1> QED BY <1>6, <1>7 DEF RewriteInv, PlanOK

\* What the ladder drops has the length of the placeholder.
LEMMA CompactOK ==
    ASSUME RewriteInv, Compact
    PROVE  RewriteInv'
<1> DEFINE body == Body
           segs == segment_prompt(body)
           drops == IF segs[Len(segs)].tokens <= Pressing THEN {}
                    ELSE {k \in budget_fallback(body, segs) :
                            ~segs[k].pinned /\ ~is_recency_protected(k, segs)}
           lens == [k \in drops |-> DropLen]
           all == RenderAll(body, segs, drops, lens)
           base == [t \in {t \in DOMAIN all : DropLen < span(At(body, t))} |-> all[t]]
<1>0. msgs # <<>> /\ BodyOK(msgs)
  BY DEF Compact, Unsent, Requesting, RewriteInv
<1>1. BodyOK(body)
  BY <1>0, RequestOK
<1>t. body \in Seq(MessageType)
  BY <1>1 DEF BodyOK
<1>2. PICK lane \in Lanes(body, segs) : turn' = finish(body, base, lane, {})
  BY DEF Compact
<1>3. LaneOK(body, lane)
  BY <1>t, LanesOK
<1>4. drops \subseteq DOMAIN segs
  <2>1. budget_fallback(body, segs) \subseteq DOMAIN segs
    <3> HIDE DEF segs, body
    <3> QED BY DEF budget_fallback, StripReasoning, Rung
  <2> QED BY <2>1
<1>5. RenderedOK(body, all, Lens)
  <2>1. ASSUME NEW k \in drops PROVE SegOK(body, segs[k]) /\ lens[k] \in Lens
    <3>1. k \in DOMAIN segs
      BY <1>4, <2>1
    <3>2. SegOK(body, segs[k])
      BY <1>t, <3>1, SegmentsOK
    <3>3. lens[k] = DropLen
      BY <2>1
    <3> HIDE DEF lens, segs, body
    <3> QED BY <3>2, <3>3 DEF Lens
  <2> HIDE DEF lens, segs, body, drops
  <2> QED BY <2>1, RenderAllOK
<1>6. RenderedOK(body, base, Lens)
  <2> HIDE DEF all, body
  <2>1. \A t \in DOMAIN base : t \in DOMAIN all /\ base[t] = all[t]
    OBVIOUS
  <2> HIDE DEF base
  <2> QED BY <1>5, <2>1 DEF RenderedOK
<1> HIDE DEF body, segs, drops, lens, all, base
<1>7. TurnOK'
  BY <1>1, <1>2, <1>3, <1>6, FinishOK
<1>8. msgs' = msgs /\ plan' = plan
  BY DEF Compact
<1> QED BY <1>7, <1>8 DEF RewriteInv, PlanOK

\* The inductive invariant.
THEOREM Invariance == Spec => []RewriteInv
<1>1. Init => RewriteInv
  <2> SUFFICES ASSUME Init PROVE RewriteInv
    OBVIOUS
  <2>1. msgs = <<>> /\ plan = None /\ turn = NoTurn
    BY DEF Init
  <2>2. BodyOK(msgs) /\ Len(msgs) <= MaxMessages
    BY <2>1, SizesAssumption DEF BodyOK
  <2>3. turn.body = <<>> /\ turn.sent = <<>> /\ turn.committed = {} /\ turn.verdict = "identity"
    BY <2>1 DEF NoTurn
  <2>4. SkeletonKept /\ ThinkingKept
    BY <2>3 DEF SkeletonKept, ThinkingKept, Assistants
  <2>5. SpliceNeedsNoGate /\ CommittedWasSent /\ turn.verdict \in Verdicts
    BY <2>3 DEF SpliceNeedsNoGate, CommittedWasSent, Verdicts
  <2>6. turn.body \in Seq(MessageType) /\ turn.sent \in Seq(MessageType)
    BY <2>3
  <2> QED BY <2>1, <2>2, <2>4, <2>5, <2>6 DEF RewriteInv, PlanOK, TurnOK
<1>2. RewriteInv /\ [Next]_vars => RewriteInv'
  <2> SUFFICES ASSUME RewriteInv, [Next]_vars PROVE RewriteInv'
    OBVIOUS
  <2>1. CASE UNCHANGED vars
    BY <2>1 DEF vars, RewriteInv, BodyOK, PlanOK, TurnOK, SkeletonKept, ThinkingKept,
                SpliceNeedsNoGate, CommittedWasSent
  <2> QED BY <2>1, PromptOK, ReplyOK, AnswerOK, StageOK, ContinuousOK, CompactOK DEF Next
<1> QED BY <1>1, <1>2, PTL DEF Spec

(* Rewrite.TypeOK: conversations, plans and requests keep their types,     *)
(* whatever segment_prompt, the passes and splice made of them.            *)
THEOREM TypeCorrect == Spec => []TypeOK
<1>1. RewriteInv => TypeOK
  BY DEF RewriteInv, BodyOK, PlanOK, TurnOK, TypeOK
<1> QED BY <1>1, Invariance, PTL

(* squash_targets and splice: a request of any length keeps its messages,  *)
(* roles, blocks and ids, and only strings, texts and tool results are     *)
(* ever replaced.                                                          *)
THEOREM SkeletonIsKept == Spec => []SkeletonKept
<1>1. RewriteInv => SkeletonKept
  BY DEF RewriteInv, TurnOK
<1> QED BY <1>1, Invariance, PTL

(* check_thinking: the gate looks for the latest thinking anywhere, and    *)
(* that is enough for it to go out unchanged and in its place.             *)
THEOREM ThinkingIsKept == Spec => []ThinkingKept
<1>1. RewriteInv => ThinkingKept
  BY DEF RewriteInv, TurnOK
<1> QED BY <1>1, Invariance, PTL

(* validate: of a request whose own pairs are whole the gate refuses       *)
(* nothing for its pairs, and none for its hints while tools and system    *)
(* have no more than the cap and no tool block of it holds any.            *)
THEOREM GateIsBackstop == Spec => []SpliceNeedsNoGate
<1>1. RewriteInv => SpliceNeedsNoGate
  BY DEF RewriteInv, TurnOK
<1> QED BY <1>1, Invariance, PTL

(* finish: what the lane commits is what was sent.                         *)
THEOREM CommittedIsSent == Spec => []CommittedWasSent
<1>1. RewriteInv => CommittedWasSent
  BY DEF RewriteInv, TurnOK
<1> QED BY <1>1, Invariance, PTL
=============================================================================
