---------------------------- MODULE SquashProofs ----------------------------
(***************************************************************************)
(* For any sessions, refs, sizes, cap, grace window and clock: an original *)
(* is safe for its first owner during the grace window, and a placeholder  *)
(* is only sent for an original that was stored; what was read back often  *)
(* enough is hot; and a sweep deletes what it must and no more.            *)
(*                                                                         *)
(* The inductive invariant adds to the types that a row is the one its ref *)
(* was last inserted with, up to the accounting of reads, and that every   *)
(* plan on its way to the wire names inserted refs only.                   *)
(***************************************************************************)
EXTENDS Squash, Induction, TLAPS

\* A row keeps the owner and time of its insertion, and the grace window
\* keeps the row.
RowsFaithful ==
    \A ref \in Refs :
        /\ store[ref] # NoRow =>
            /\ first[ref] # NoRow
            /\ store[ref].owner = first[ref].owner
            /\ store[ref].created = first[ref].created
        /\ first[ref] # NoRow /\ now - first[ref].created <= Grace => store[ref] # NoRow

\* Every plan, from the staging task to the wire, is made of stored refs.
PlansStored ==
    \A s \in Sessions, ref \in Refs :
        \/ ref \in stage[s].plan
        \/ sess[s].staged # None /\ ref \in sess[s].staged
        \/ turn[s] # None /\ ref \in turn[s]
        \/ ref \in wire[s]
        => first[ref] # NoRow

IInv == Typed /\ RowsFaithful /\ PlansStored

\* The row counts every hit of the session state.
ReadsCounted ==
    \A s \in Sessions, ref \in Refs :
        reads[s][ref] > 0 => store[ref] # NoRow /\ reads[s][ref] <= store[ref].count

HotInv == Typed /\ ReadsCounted /\ HotAfterReads

(* put: the table keeps its type.                                          *)
LEMMA PutType ==
    ASSUME NEW table \in [Refs -> RowType \cup {NoRow}], NEW ref \in Refs,
           NEW owner \in Sessions, NEW t \in Nat
    PROVE  put(table, ref, owner, t) \in [Refs -> RowType \cup {NoRow}]
BY DEF put, RowType

(* retrieve: the table keeps its type, and every row its owner and time of *)
(* insertion.                                                              *)
LEMMA RetrieveType ==
    ASSUME NEW table \in [Refs -> RowType \cup {NoRow}], NEW ref \in Refs,
           NEW owner \in Sessions, NEW t \in Nat
    PROVE  /\ retrieve(table, ref, owner, t) \in [Refs -> RowType \cup {NoRow}]
           /\ \A q \in Refs :
                /\ retrieve(table, ref, owner, t)[q] = NoRow <=> table[q] = NoRow
                /\ table[q] # NoRow =>
                    /\ retrieve(table, ref, owner, t)[q].owner = table[q].owner
                    /\ retrieve(table, ref, owner, t)[q].created = table[q].created
<1>1. CASE ~matches(table, ref, owner)
    BY <1>1 DEF retrieve
<1>2. CASE matches(table, ref, owner)
    <2> DEFINE row == [table[ref] EXCEPT !.access = t, !.count = @ + 1]
    <2>1. table[ref] \in RowType
        BY <1>2 DEF matches
    <2>2. row \in RowType /\ row.owner = table[ref].owner /\ row.created = table[ref].created
        <3>1. table[ref].count + 1 \in Nat
            BY <2>1 DEF RowType
        <3>2. ASSUME NEW n \in Nat, NEW r \in RowType
              PROVE  /\ [r EXCEPT !.access = t, !.count = n] \in RowType
                     /\ [r EXCEPT !.access = t, !.count = n].owner = r.owner
                     /\ [r EXCEPT !.access = t, !.count = n].created = r.created
            BY DEF RowType
        <3> QED BY <2>1, <3>1, <3>2
    <2>3. retrieve(table, ref, owner, t) = [table EXCEPT ![ref] = row]
        BY <1>2 DEF retrieve
    <2>4. row # NoRow
        BY <2>2, NoRowAssumption
    <2> HIDE DEF row
    <2> QED BY <2>1, <2>2, <2>3, <2>4, NoRowAssumption
<1> QED BY <1>1, <1>2

(* gc: only a row older than the grace window is deleted, every other one  *)
(* stays as it is.                                                         *)
LEMMA GcKeeps ==
    ASSUME NEW table \in [Refs -> RowType \cup {NoRow}], NEW R, NEW t \in Nat
    PROVE  /\ gc(table, R, t) \in [Refs -> RowType \cup {NoRow}]
           /\ \A q \in Refs :
                \/ gc(table, R, t)[q] = table[q]
                \/ /\ gc(table, R, t)[q] = NoRow
                   /\ table[q] # NoRow
                   /\ t - table[q].created > Grace
BY DEF gc, victims, eligible

(* What the tasks change in a staging task or in a session keeps its type. *)
LEMMA StageTypes ==
    ASSUME NEW g \in StageType, NEW b \in BOOLEAN, NEW t \in Nat, NEW R \in SUBSET Refs
    PROVE  /\ [g EXCEPT !.pc = "claimed"] \in StageType
           /\ [g EXCEPT !.pc = "running", !.at = t] \in StageType
           /\ [g EXCEPT !.orphan = b] \in StageType
           /\ [g EXCEPT !.orphan = b].plan = g.plan
           /\ [g EXCEPT !.plan = R] \in StageType
           /\ Idle \in StageType
BY DEF StageType, Idle

\* The types of a session's fields.
LEMMA SessTypes ==
    ASSUME NEW q \in SessType, NEW p \in (SUBSET Refs) \cup {None}, NEW R \in SUBSET Refs
    PROVE  /\ [q EXCEPT !.econ = TRUE, !.staged = p] \in SessType
           /\ [q EXCEPT !.staged = p] \in SessType
           /\ [q EXCEPT !.hot = R] \in SessType
           /\ Gone \in SessType
           /\ [Gone EXCEPT !.entry = TRUE] \in SessType
BY DEF SessType, Gone

\* The inductive invariant holds at first,
LEMMA InitInv == Init => IInv
<1> SUFFICES ASSUME Init PROVE IInv
    OBVIOUS
<1> USE DEF Init
<1>1. Typed
    BY BoundsAssumption, OptionAssumption
    DEF Typed, SessType, StageType, Gone, Idle, NoReads
<1>2. RowsFaithful
    BY DEF RowsFaithful
<1>3. PlansStored
    BY DEF PlansStored, Gone, Idle
<1> QED BY <1>1, <1>2, <1>3 DEF IInv

(* Every action keeps the types.                                           *)
LEMMA TypeStep == Typed /\ [Next]_vars => Typed'
<1> SUFFICES ASSUME Typed, [Next]_vars PROVE Typed'
    OBVIOUS
<1>0. now \in Nat
    BY BoundsAssumption DEF Typed
<1>r. \A s \in Sessions : sess[s] \in SessType /\ stage[s] \in StageType
    BY DEF Typed
<1>1. CASE Tick
    BY <1>1, BoundsAssumption DEF Tick, Typed
<1>2. CASE Restart
    <2>1. Gone \in SessType /\ Idle \in StageType /\ NoReads \in [Refs -> Nat]
        BY DEF Gone, SessType, Idle, StageType, NoReads
    <2> QED BY <1>2, <2>1 DEF Restart, Typed
<1>3. CASE RunGc
    <2>1. reachable_refs \subseteq Refs
        BY <1>r DEF reachable_refs, SessType
    <2> QED BY <1>3, <2>1 DEF RunGc, Typed
<1>4. CASE Sweep
    BY <1>4, <1>0, GcKeeps DEF Sweep, Typed
<1>5. ASSUME NEW s \in Sessions, Mint(s) \/ Evict(s) PROVE Typed'
    <2>1. Gone \in SessType /\ [Gone EXCEPT !.entry = TRUE] \in SessType
        BY <1>r, SessTypes
    <2>2. sess' \in [Sessions -> SessType]
        BY <1>5, <2>1 DEF Mint, Evict, Typed
    <2>3. stage' \in [Sessions -> StageType]
        <3> DEFINE b == stage[s].pc # "idle"
        <3>1. b \in BOOLEAN
            OBVIOUS
        <3>2. stage' = [stage EXCEPT ![s] = [stage[s] EXCEPT !.orphan = b]]
            BY <1>5 DEF Mint, Evict, Orphan
        <3> HIDE DEF b
        <3>3. [stage[s] EXCEPT !.orphan = b] \in StageType
            BY <1>r, <3>1, StageTypes
        <3> QED BY <3>2, <3>3 DEF Typed
    <2>4. reads' \in [Sessions -> [Refs -> Nat]]
        <3>1. NoReads \in [Refs -> Nat]
            BY DEF NoReads
        <3> QED BY <1>5, <3>1 DEF Mint, Evict, Orphan, Typed
    <2>5. mark' \in [Sessions -> Refs \cup {None}]
        BY <1>5 DEF Mint, Evict, Orphan, Typed
    <2> QED BY <1>5, <2>2, <2>3, <2>4, <2>5 DEF Mint, Evict, Typed
<1>6. ASSUME NEW s \in Sessions, NEW enabled \in BOOLEAN, Take(s, enabled) PROVE Typed'
    <2>1. sess' \in [Sessions -> SessType]
        <3> DEFINE p == IF enabled THEN None ELSE sess[s].staged
        <3>1. p \in (SUBSET Refs) \cup {None}
            <4>1. sess[s].staged \in (SUBSET Refs) \cup {None}
                BY <1>r DEF SessType
            <4> QED BY <4>1
        <3>2. sess' = [sess EXCEPT ![s] = [sess[s] EXCEPT !.econ = TRUE, !.staged = p]]
            BY <1>6 DEF Take
        <3> HIDE DEF p
        <3>3. [sess[s] EXCEPT !.econ = TRUE, !.staged = p] \in SessType
            BY <1>r, <3>1, SessTypes
        <3> QED BY <3>2, <3>3 DEF Typed
    <2>2. turn' \in [Sessions -> (SUBSET Refs) \cup {None}]
        <3> DEFINE T == IF enabled /\ sess[s].staged # None
                        THEN sess[s].staged \ sess[s].hot ELSE {}
        <3>1. T \in SUBSET Refs
            <4>1. sess[s].staged \in (SUBSET Refs) \cup {None}
                BY <1>r DEF SessType
            <4> QED BY <4>1
        <3>2. turn' = [turn EXCEPT ![s] = T]
            BY <1>6 DEF Take
        <3> HIDE DEF T
        <3> QED BY <3>1, <3>2 DEF Typed
    <2>3. stage' \in [Sessions -> StageType]
        <3>1. [stage[s] EXCEPT !.pc = "claimed"] \in StageType
            BY <1>r, StageTypes
        <3> QED BY <1>6, <3>1 DEF Take, Typed
    <2> QED BY <1>6, <2>1, <2>2, <2>3 DEF Take, Typed
<1>7. ASSUME NEW s \in Sessions, NEW spliced \in SUBSET Refs, Forward(s, spliced) PROVE Typed'
    BY <1>7 DEF Forward, Typed
<1>8. ASSUME NEW s \in Sessions, StageBegin(s) PROVE Typed'
    <2>1. [stage[s] EXCEPT !.pc = "running", !.at = now] \in StageType
        BY <1>0, <1>r, StageTypes
    <2> QED BY <1>8, <2>1 DEF StageBegin, Typed
<1>9. ASSUME NEW s \in Sessions, NEW ref \in Refs, StagePut(s, ref) PROVE Typed'
    <2>1. stage[s].at \in Nat /\ stage[s].plan \cup {ref} \in SUBSET Refs
        BY <1>r DEF StageType
    <2>2. store' \in [Refs -> RowType \cup {NoRow}]
        BY <1>9, <2>1, PutType DEF StagePut, Typed
    <2>3. first' \in [Refs -> RowType \cup {NoRow}]
        BY <1>9, <2>2 DEF StagePut, Typed
    <2>4. put_at' \in [Sessions -> [Refs -> Nat \cup {None}]]
        BY <1>9, <2>1 DEF StagePut, Typed
    <2>5. stage' \in [Sessions -> StageType]
        <3> DEFINE R == stage[s].plan \cup {ref}
        <3>1. stage' = [stage EXCEPT ![s] = [stage[s] EXCEPT !.plan = R]]
            BY <1>9 DEF StagePut
        <3> HIDE DEF R
        <3>2. [stage[s] EXCEPT !.plan = R] \in StageType
            BY <1>r, <2>1, StageTypes DEF R
        <3> QED BY <3>1, <3>2 DEF Typed
    <2> QED BY <1>9, <2>2, <2>3, <2>4, <2>5 DEF StagePut, Typed
<1>10. ASSUME NEW s \in Sessions, StageCommit(s) PROVE Typed'
    <2>1. stage[s].plan \in SUBSET Refs
        BY <1>r DEF StageType
    <2>2. [sess[s] EXCEPT !.staged = stage[s].plan] \in SessType
        BY <1>r, <2>1, SessTypes
    <2>3. Idle \in StageType
        BY <1>r, StageTypes
    <2> QED BY <1>10, <2>2, <2>3 DEF StageCommit, Typed
<1>11. ASSUME NEW s \in Sessions, StageSkip(s) PROVE Typed'
    <2>1. Idle \in StageType
        BY <1>r, StageTypes
    <2> QED BY <1>11, <2>1 DEF StageSkip, Typed
<1>12. ASSUME NEW s \in Sessions, NEW ref \in Refs, Retrieve(s, ref) PROVE Typed'
    <2>1. store' \in [Refs -> RowType \cup {NoRow}]
        BY <1>12, <1>0, RetrieveType DEF Retrieve, Typed
    <2>2. mark' \in [Sessions -> Refs \cup {None}]
        BY <1>12 DEF Retrieve, Typed
    <2>3. reads' \in [Sessions -> [Refs -> Nat]]
        BY <1>12 DEF Retrieve, Typed
    <2> QED BY <1>12, <2>1, <2>2, <2>3 DEF Retrieve, Typed
<1>13. ASSUME NEW s \in Sessions, mark_hot(s) PROVE Typed'
    <2> DEFINE R == sess[s].hot \cup {mark[s]}
    <2>1. R \in SUBSET Refs
        BY <1>13, <1>r DEF mark_hot, SessType, Typed
    <2>2. sess' = [sess EXCEPT ![s] = [sess[s] EXCEPT !.hot = R]]
        BY <1>13 DEF mark_hot
    <2> HIDE DEF R
    <2>3. [sess[s] EXCEPT !.hot = R] \in SessType
        BY <1>r, <2>1, SessTypes
    <2> QED BY <1>13, <2>2, <2>3 DEF mark_hot, Typed
<1>14. CASE UNCHANGED vars
    BY <1>14 DEF vars, Typed
<1> QED
    BY <1>1, <1>2, <1>3, <1>4, <1>5, <1>6, <1>7, <1>8, <1>9, <1>10, <1>11, <1>12, <1>13,
       <1>14 DEF Next

(* Rows only come with an insertion and only go by a sweep past the grace  *)
(* window; retrievals touch the accounting alone.                          *)
LEMMA RowsStep == IInv /\ [Next]_vars => RowsFaithful'
<1> SUFFICES ASSUME IInv, [Next]_vars PROVE RowsFaithful'
    OBVIOUS
<1>0. now \in Nat /\ Grace \in Nat
    BY BoundsAssumption, RefsAssumption DEF IInv, Typed
<1>t. /\ store \in [Refs -> RowType \cup {NoRow}]
      /\ first \in [Refs -> RowType \cup {NoRow}]
      /\ stage \in [Sessions -> StageType]
    BY DEF IInv, Typed
<1>c. \A q \in Refs : first[q] # NoRow => first[q].created \in Nat
    BY <1>t DEF RowType
<1>f. RowsFaithful
    BY DEF IInv
<1>1. CASE now' = now + 1 /\ UNCHANGED <<store, first>>
    BY <1>1, <1>0, <1>c, <1>f DEF RowsFaithful
<1>2. CASE UNCHANGED <<now, store, first>>
    BY <1>2, <1>f DEF RowsFaithful
<1>3. CASE Sweep
    <2>1. store' = gc(store, sweep, now) /\ UNCHANGED <<now, first>>
        BY <1>3 DEF Sweep
    <2>2. \A q \in Refs :
            \/ store'[q] = store[q]
            \/ store'[q] = NoRow /\ store[q] # NoRow /\ now - store[q].created > Grace
        BY <2>1, <1>0, <1>t, GcKeeps
    <2> QED BY <2>1, <2>2, <1>0, <1>c, <1>f DEF RowsFaithful
<1>4. ASSUME NEW s \in Sessions, NEW ref \in Refs, StagePut(s, ref) PROVE RowsFaithful'
    <2>1. CASE store[ref] # NoRow
        BY <1>4, <1>f, <2>1 DEF StagePut, put, RowsFaithful
    <2>2. CASE store[ref] = NoRow
        <3> DEFINE row == [owner |-> s, created |-> stage[s].at, access |-> stage[s].at,
                           count |-> 0]
        <3>1. row \in RowType
            BY <1>t DEF RowType, StageType
        <3>2. row # NoRow
            BY <3>1, NoRowAssumption
        <3>3. store' = [store EXCEPT ![ref] = row]
            BY <1>4, <2>2 DEF StagePut, put
        <3>5. first' = [first EXCEPT ![ref] = row]
            <4>1. first' = [first EXCEPT ![ref] = store'[ref]]
                BY <1>4, <2>2 DEF StagePut
            <4> HIDE DEF row
            <4>2. store'[ref] = row
                BY <3>3, <1>t
            <4> QED BY <4>1, <4>2
        <3>4. now' = now
            BY <1>4 DEF StagePut
        <3> HIDE DEF row
        <3> QED BY <3>2, <3>3, <3>5, <3>4, <1>t, <1>f DEF RowsFaithful
    <2> QED BY <2>1, <2>2
<1>5. ASSUME NEW s \in Sessions, NEW ref \in Refs, Retrieve(s, ref) PROVE RowsFaithful'
    <2>1. store' = retrieve(store, ref, s, now) /\ UNCHANGED <<now, first>>
        BY <1>5 DEF Retrieve
    <2>2. \A q \in Refs :
            /\ store'[q] = NoRow <=> store[q] = NoRow
            /\ store[q] # NoRow => /\ store'[q].owner = store[q].owner
                                   /\ store'[q].created = store[q].created
        BY <2>1, <1>0, <1>t, RetrieveType
    <2> QED BY <2>1, <2>2, <1>f DEF RowsFaithful
<1>6. CASE Tick \/ Restart \/ RunGc
    BY <1>6, <1>1, <1>2 DEF Tick, Restart, RunGc
<1>7. ASSUME NEW s \in Sessions,
             \/ Mint(s) \/ Evict(s) \/ StageBegin(s) \/ StageCommit(s) \/ StageSkip(s)
             \/ mark_hot(s)
             \/ \E enabled \in BOOLEAN : Take(s, enabled)
             \/ \E spliced \in SUBSET Refs : Forward(s, spliced)
      PROVE  RowsFaithful'
    BY <1>7, <1>2 DEF Mint, Evict, StageBegin, StageCommit, StageSkip, mark_hot, Take, Forward
<1> QED
    BY <1>2, <1>3, <1>4, <1>5, <1>6, <1>7 DEF Next, vars

(* A ref enters a plan together with its put, and only moves on from       *)
(* there: plan, staged, turn, wire.                                        *)
LEMMA PlansStep == IInv /\ [Next]_vars => PlansStored'
<1> SUFFICES ASSUME IInv, [Next]_vars PROVE PlansStored'
    OBVIOUS
<1>t. /\ first \in [Refs -> RowType \cup {NoRow}]
      /\ sess \in [Sessions -> SessType]
      /\ turn \in [Sessions -> (SUBSET Refs) \cup {None}]
      /\ wire \in [Sessions -> SUBSET Refs]
      /\ stage \in [Sessions -> StageType]
    BY DEF IInv, Typed
<1>s. store \in [Refs -> RowType \cup {NoRow}] /\ RowsFaithful
    BY DEF IInv, Typed
<1>f. PlansStored
    BY DEF IInv
<1>1. CASE UNCHANGED <<first, stage, sess, turn, wire>>
    BY <1>1, <1>f DEF PlansStored
<1>2. CASE Restart
    BY <1>2, <1>f DEF Restart, PlansStored, Gone, Idle
<1>3. ASSUME NEW s \in Sessions, Mint(s) \/ Evict(s) PROVE PlansStored'
    <2>1. UNCHANGED <<first, turn, wire>>
        BY <1>3 DEF Mint, Evict
    <2>2. \A q \in Sessions : stage'[q].plan = stage[q].plan
        <3> DEFINE b == stage[s].pc # "idle"
        <3>1. stage' = [stage EXCEPT ![s] = [stage[s] EXCEPT !.orphan = b]]
            BY <1>3 DEF Mint, Evict, Orphan
        <3>2. [stage[s] EXCEPT !.orphan = b].plan = stage[s].plan
            <4>1. stage[s] \in StageType
                BY <1>t
            <4> HIDE DEF b
            <4> QED BY <4>1 DEF StageType
        <3> HIDE DEF b
        <3> QED BY <3>1, <3>2, <1>t
    <2>3. \A q \in Sessions : sess'[q].staged \in {None, sess[q].staged}
        <3>1. Gone.staged = None /\ [Gone EXCEPT !.entry = TRUE].staged = None
            BY DEF Gone
        <3>2. PICK g \in {Gone, [Gone EXCEPT !.entry = TRUE]} : sess' = [sess EXCEPT ![s] = g]
            BY <1>3 DEF Mint, Evict
        <3> QED BY <3>1, <3>2, <1>t
    <2> QED BY <2>1, <2>2, <2>3, <1>f DEF PlansStored
<1>4. ASSUME NEW s \in Sessions, NEW enabled \in BOOLEAN, Take(s, enabled) PROVE PlansStored'
    <2>1. UNCHANGED <<first, wire>>
        BY <1>4 DEF Take
    <2>2. \A q \in Sessions : stage'[q].plan = stage[q].plan
        BY <1>4, <1>t DEF Take, StageType
    <2>3. \A q \in Sessions : sess'[q].staged \in {None, sess[q].staged}
        BY <1>4, <1>t DEF Take, SessType
    <2>4. \A q \in Sessions, ref \in Refs :
            turn'[q] # None /\ ref \in turn'[q] =>
                \/ turn[q] # None /\ ref \in turn[q]
                \/ sess[q].staged # None /\ ref \in sess[q].staged
        BY <1>4, <1>t DEF Take
    <2> QED BY <2>1, <2>2, <2>3, <2>4, <1>f DEF PlansStored
<1>5. ASSUME NEW s \in Sessions, NEW spliced \in SUBSET Refs, Forward(s, spliced)
      PROVE  PlansStored'
    BY <1>5, <1>t, <1>f DEF Forward, PlansStored
<1>6. ASSUME NEW s \in Sessions, StageBegin(s) PROVE PlansStored'
    BY <1>6, <1>t, <1>f DEF StageBegin, PlansStored, StageType
<1>7. ASSUME NEW s \in Sessions, NEW ref \in Refs, StagePut(s, ref) PROVE PlansStored'
    <2>1. UNCHANGED <<sess, turn, wire>>
        BY <1>7 DEF StagePut
    <2>2. stage[s].at \in Nat
        BY <1>t DEF StageType
    <2>3. put(store, ref, s, stage[s].at)[ref] # NoRow
        <3>1. [owner |-> s, created |-> stage[s].at, access |-> stage[s].at, count |-> 0]
                \in RowType
            BY <2>2 DEF RowType
        <3> QED BY <3>1, <1>s, NoRowAssumption DEF put
    <2>4. first'[ref] # NoRow /\ \A q \in Refs : first[q] # NoRow => first'[q] # NoRow
        BY <1>7, <2>3, <1>t, <1>s DEF StagePut, RowsFaithful
    <2>5. \A q \in Sessions, a \in Refs :
            a \in stage'[q].plan => a \in stage[q].plan \/ a = ref
        BY <1>7, <1>t DEF StagePut, StageType
    <2> QED BY <2>1, <2>4, <2>5, <1>f DEF PlansStored
<1>8. ASSUME NEW s \in Sessions, StageCommit(s) PROVE PlansStored'
    <2>1. UNCHANGED <<first, turn, wire>>
        BY <1>8 DEF StageCommit
    <2>2. \A q \in Sessions : stage'[q].plan \subseteq stage[q].plan
        BY <1>8, <1>t DEF StageCommit, Idle, StageType
    <2>3. \A q \in Sessions : sess'[q].staged \in {stage[q].plan, sess[q].staged}
        BY <1>8, <1>t DEF StageCommit, SessType
    <2> QED BY <2>1, <2>2, <2>3, <1>f DEF PlansStored
<1>9. ASSUME NEW s \in Sessions, StageSkip(s) PROVE PlansStored'
    BY <1>9, <1>t, <1>f DEF StageSkip, Idle, PlansStored
<1>10. ASSUME NEW s \in Sessions, mark_hot(s) PROVE PlansStored'
    <2>1. UNCHANGED <<first, stage, turn, wire>>
        BY <1>10 DEF mark_hot
    <2>2. \A q \in Sessions : sess'[q].staged = sess[q].staged
        BY <1>10, <1>t DEF mark_hot, SessType
    <2> QED BY <2>1, <2>2, <1>f DEF PlansStored
<1>11. CASE Tick \/ RunGc \/ Sweep
    BY <1>11, <1>1 DEF Tick, RunGc, Sweep
<1>12. ASSUME NEW s \in Sessions, NEW ref \in Refs, Retrieve(s, ref) PROVE PlansStored'
    BY <1>12, <1>1 DEF Retrieve
<1> QED
    BY <1>1, <1>2, <1>3, <1>4, <1>5, <1>6, <1>7, <1>8, <1>9, <1>10, <1>11, <1>12
    DEF Next, vars

\* and for ever.
LEMMA Invariance == Spec => []IInv
<1>1. IInv /\ [Next]_vars => IInv'
    BY TypeStep, RowsStep, PlansStep DEF IInv
<1> QED BY InitInv, <1>1, PTL DEF Spec

(* No time of the future enters a row.                                     *)
LEMMA TimelyStep == Typed /\ Timely /\ [Next]_vars => Timely'
<1> SUFFICES ASSUME Typed, Timely, [Next]_vars PROVE Timely'
    OBVIOUS
<1>0. now \in Nat
    BY BoundsAssumption DEF Typed
<1>t. /\ store \in [Refs -> RowType \cup {NoRow}] /\ stage \in [Sessions -> StageType]
      /\ \A s \in Sessions : stage[s] \in StageType /\ stage[s].at \in Nat
      /\ \A q \in Refs : store[q] # NoRow =>
            store[q] \in RowType /\ store[q].created \in Nat /\ store[q].access \in Nat
    BY DEF Typed, StageType, RowType
<1>1. ASSUME store' = store, \A s \in Sessions : stage'[s].at \in {0, now, stage[s].at},
             now' \in {now, now + 1}
      PROVE  Timely'
    BY <1>1, <1>0, <1>t DEF Timely
<1>i. Idle.at = 0
    BY DEF Idle
<1>2. CASE Tick
    BY <1>2, <1>1 DEF Tick
<1>3. CASE Restart
    BY <1>3, <1>1, <1>i DEF Restart
<1>4. CASE RunGc
    BY <1>4, <1>1 DEF RunGc
<1>5. CASE Sweep
    <2>1. store' = gc(store, sweep, now) /\ UNCHANGED <<now, stage>>
        BY <1>5 DEF Sweep
    <2>2. \A q \in Refs : store'[q] = store[q] \/ store'[q] = NoRow
        BY <2>1, <1>0, <1>t, GcKeeps
    <2> QED BY <2>1, <2>2 DEF Timely
<1>6. ASSUME NEW s \in Sessions, Mint(s) \/ Evict(s) PROVE Timely'
    <2>1. UNCHANGED <<now, store>>
        BY <1>6 DEF Mint, Evict
    <2>2. \A q \in Sessions : stage'[q].at = stage[q].at
        <3> DEFINE b == stage[s].pc # "idle"
        <3>1. stage' = [stage EXCEPT ![s] = [stage[s] EXCEPT !.orphan = b]]
            BY <1>6 DEF Mint, Evict, Orphan
        <3> HIDE DEF b
        <3>2. [stage[s] EXCEPT !.orphan = b].at = stage[s].at
            BY <1>t DEF StageType
        <3> QED BY <3>1, <3>2, <1>t
    <2> QED BY <2>1, <2>2, <1>1
<1>7. ASSUME NEW s \in Sessions, NEW enabled \in BOOLEAN, Take(s, enabled) PROVE Timely'
    <2>1. [stage[s] EXCEPT !.pc = "claimed"].at = stage[s].at
        BY <1>t DEF StageType
    <2>2. \A q \in Sessions : stage'[q].at = stage[q].at
        BY <1>7, <2>1, <1>t DEF Take
    <2> QED BY <1>7, <2>2, <1>1 DEF Take
<1>8. ASSUME NEW s \in Sessions, NEW spliced \in SUBSET Refs, Forward(s, spliced) PROVE Timely'
    BY <1>8, <1>1 DEF Forward
<1>9. ASSUME NEW s \in Sessions, StageBegin(s) PROVE Timely'
    <2>1. [stage[s] EXCEPT !.pc = "running", !.at = now].at = now
        BY <1>t DEF StageType
    <2>2. \A q \in Sessions : stage'[q].at \in {now, stage[q].at}
        BY <1>9, <2>1, <1>t DEF StageBegin
    <2> QED BY <1>9, <2>2, <1>1 DEF StageBegin
<1>10. ASSUME NEW s \in Sessions, NEW ref \in Refs, StagePut(s, ref) PROVE Timely'
    <2> DEFINE t == stage[s].at
    <2> DEFINE row == [owner |-> s, created |-> t, access |-> t, count |-> 0]
    <2>1. t \in Nat /\ t <= now /\ now' = now
        BY <1>10, <1>t DEF StagePut, Timely
    <2>2. store' = store \/ store' = [store EXCEPT ![ref] = row]
        BY <1>10 DEF StagePut, put
    <2>3. \A q \in Sessions : stage'[q].at = stage[q].at
        <3> DEFINE R == stage[s].plan \cup {ref}
        <3>1. stage' = [stage EXCEPT ![s] = [stage[s] EXCEPT !.plan = R]]
            BY <1>10 DEF StagePut
        <3> HIDE DEF R
        <3>2. [stage[s] EXCEPT !.plan = R].at = stage[s].at
            BY <1>t DEF StageType
        <3> QED BY <3>1, <3>2, <1>t
    <2>4. row.created = t /\ row.access = t
        OBVIOUS
    <2> HIDE DEF row, t
    <2>5. \A q \in Refs : store'[q] = store[q] \/ store'[q] = row
        BY <2>2, <1>t
    <2> QED BY <2>1, <2>3, <2>4, <2>5 DEF Timely
<1>11. ASSUME NEW s \in Sessions, StageCommit(s) \/ StageSkip(s) PROVE Timely'
    BY <1>11, <1>i, <1>t, <1>1 DEF StageCommit, StageSkip
<1>12. ASSUME NEW s \in Sessions, NEW ref \in Refs, Retrieve(s, ref) PROVE Timely'
    <2>1. store' = retrieve(store, ref, s, now) /\ UNCHANGED <<now, stage>>
        BY <1>12 DEF Retrieve
    <2>2. CASE ~matches(store, ref, s)
        BY <2>1, <2>2, <1>1 DEF retrieve
    <2>3. CASE matches(store, ref, s)
        <3> DEFINE row == [store[ref] EXCEPT !.access = now, !.count = @ + 1]
        <3>1. store' = [store EXCEPT ![ref] = row] /\ store[ref] # NoRow
            BY <2>1, <2>3 DEF retrieve, matches
        <3>2. row.created = store[ref].created /\ row.access = now
            BY <3>1, <1>t DEF RowType
        <3> HIDE DEF row
        <3>3. \A q \in Refs : q # ref => store'[q] = store[q]
            BY <3>1, <1>t
        <3>4. store'[ref] = row
            BY <3>1, <1>t
        <3>5. store[ref].created <= now
            BY <3>1, <1>0, <1>t DEF Timely
        <3> QED BY <2>1, <3>2, <3>3, <3>4, <3>5, <1>0 DEF Timely
    <2> QED BY <2>2, <2>3
<1>13. ASSUME NEW s \in Sessions, mark_hot(s) PROVE Timely'
    BY <1>13, <1>1 DEF mark_hot
<1>14. CASE UNCHANGED vars
    BY <1>14, <1>1 DEF vars
<1> QED
    BY <1>2, <1>3, <1>4, <1>5, <1>6, <1>7, <1>8, <1>9, <1>10, <1>11, <1>12, <1>13, <1>14
    DEF Next

(* TypeOK of the store, the sessions map and every task, and their times,  *)
(* for any constants.                                                      *)
THEOREM TypeCorrect == Spec => []TypeOK
<1>1. Init => Typed /\ Timely
    <2>1. Init => Timely
        BY DEF Init, Timely, Idle
    <2> QED BY <2>1, InitInv DEF IInv
<1>2. Typed /\ Timely /\ [Next]_vars => (Typed /\ Timely)'
    BY TypeStep, TimelyStep
<1>3. Typed /\ Timely => TypeOK
    BY DEF TypeOK
<1> QED BY <1>1, <1>2, <1>3, PTL DEF Spec

(* RefStore::put, retrieve and gc: whoever stored an original first can    *)
(* have it back until Grace seconds after its staging began, whatever the  *)
(* other sessions and the collector do, and across restarts.               *)
THEOREM FirstPutSafe == Spec => []FirstPutProtected
<1>1. IInv => FirstPutProtected
    BY DEF IInv, RowsFaithful, FirstPutProtected, Recoverable, matches
<1> QED BY Invariance, <1>1, PTL

(* stage_next, intercept_inputs and the splice: no body goes upstream with *)
(* a placeholder whose original was never stored.                          *)
THEOREM SplicedStored == Spec => []SplicedWasStored
<1>1. IInv => SplicedWasStored
    BY DEF IInv, Typed, StageType, PlansStored, SplicedWasStored
<1> QED BY Invariance, <1>1, PTL

-----------------------------------------------------------------------------
(***************************************************************************)
(* Hot refs.                                                               *)
(***************************************************************************)

(* retrieve: a hit is counted, no other row is touched.                    *)
LEMMA RetrieveCounts ==
    ASSUME NEW table \in [Refs -> RowType \cup {NoRow}], NEW ref \in Refs,
           NEW owner \in Sessions, NEW t \in Nat
    PROVE  /\ matches(table, ref, owner) =>
                retrieve(table, ref, owner, t)[ref].count = table[ref].count + 1
           /\ ~matches(table, ref, owner) => retrieve(table, ref, owner, t) = table
           /\ \A q \in Refs \ {ref} : retrieve(table, ref, owner, t)[q] = table[q]
<1>1. CASE ~matches(table, ref, owner)
    BY <1>1 DEF retrieve
<1>2. CASE matches(table, ref, owner)
    <2> DEFINE row == [table[ref] EXCEPT !.access = t, !.count = @ + 1]
    <2>1. row.count = table[ref].count + 1
        BY <1>2 DEF matches, RowType
    <2>2. retrieve(table, ref, owner, t) = [table EXCEPT ![ref] = row]
        BY <1>2 DEF retrieve
    <2> HIDE DEF row
    <2> QED BY <1>2, <2>1, <2>2
<1> QED BY <1>1, <1>2

(* Every step keeps the hits counted, and a row that was read often enough *)
(* hot or about to be.                                                     *)
LEMMA HotStep ==
    ASSUME HotInv, [Next]_vars
    PROVE  ReadsCounted' /\ HotAfterReads'
<1>t. /\ Typed /\ now \in Nat
      /\ store \in [Refs -> RowType \cup {NoRow}]
      /\ sess \in [Sessions -> SessType]
      /\ mark \in [Sessions -> Refs \cup {None}]
      /\ reads \in [Sessions -> [Refs -> Nat]]
      /\ \A q \in Refs : store[q] # NoRow => store[q].count \in Nat
    BY BoundsAssumption DEF HotInv, Typed, RowType
<1>h. ReadsCounted /\ HotAfterReads
    BY DEF HotInv
<1>1. CASE UNCHANGED <<store, reads, mark>> /\ (\A s \in Sessions : sess'[s].hot = sess[s].hot)
    BY <1>1, <1>h DEF ReadsCounted, HotAfterReads
<1>2. CASE Tick \/ RunGc
    BY <1>1, <1>2 DEF Tick, RunGc
<1>3. CASE Restart
    <2>1. store' = store /\ \A s \in Sessions, ref \in Refs : reads'[s][ref] = 0
        BY <1>3 DEF Restart, NoReads
    <2> QED BY <2>1 DEF ReadsCounted, HotAfterReads, HOT_THRESHOLD
<1>4. CASE Sweep
    <2>1. /\ store' = gc(store, sweep, now) /\ UNCHANGED <<sess, mark>>
          /\ \A s \in Sessions, ref \in Refs :
                reads'[s][ref] = IF store'[ref] = NoRow THEN 0 ELSE reads[s][ref]
        BY <1>4 DEF Sweep
    <2>2. \A q \in Refs : store'[q] = store[q] \/ store'[q] = NoRow
        BY <2>1, <1>t, GcKeeps
    <2> QED BY <2>1, <2>2, <1>h, <1>t DEF ReadsCounted, HotAfterReads, HOT_THRESHOLD
<1>5. ASSUME NEW s \in Sessions, Mint(s) \/ Evict(s) PROVE ReadsCounted' /\ HotAfterReads'
    <2>1. /\ store' = store
          /\ \A ref \in Refs : reads'[s][ref] = 0
          /\ \A q \in Sessions \ {s} : UNCHANGED <<reads[q], mark[q], sess[q]>>
        BY <1>5, <1>t DEF Mint, Evict, Orphan, NoReads
    <2> QED BY <2>1, <1>h DEF ReadsCounted, HotAfterReads, HOT_THRESHOLD
<1>6. ASSUME NEW s \in Sessions, NEW enabled \in BOOLEAN, Take(s, enabled)
      PROVE  ReadsCounted' /\ HotAfterReads'
    <2>1. \A q \in Sessions : sess'[q].hot = sess[q].hot
        <3> DEFINE p == IF enabled THEN None ELSE sess[s].staged
        <3>1. sess' = [sess EXCEPT ![s] = [sess[s] EXCEPT !.econ = TRUE, !.staged = p]]
            BY <1>6 DEF Take
        <3> HIDE DEF p
        <3> QED BY <3>1, <1>t DEF SessType
    <2> QED BY <1>6, <2>1, <1>1 DEF Take
<1>7. ASSUME NEW s \in Sessions,
             \/ \E spliced \in SUBSET Refs : Forward(s, spliced)
             \/ StageBegin(s) \/ StageSkip(s)
      PROVE  ReadsCounted' /\ HotAfterReads'
    BY <1>7, <1>1 DEF Forward, StageBegin, StageSkip
<1>8. ASSUME NEW s \in Sessions, NEW ref \in Refs, StagePut(s, ref)
      PROVE  ReadsCounted' /\ HotAfterReads'
    <2>1. store' = put(store, ref, s, stage[s].at) /\ UNCHANGED <<reads, mark, sess>>
        BY <1>8 DEF StagePut
    <2>2. \A q \in Refs : store[q] # NoRow => store'[q] = store[q]
        BY <2>1, <1>t DEF put
    <2> QED BY <2>1, <2>2, <1>h DEF ReadsCounted, HotAfterReads
<1>9. ASSUME NEW s \in Sessions, StageCommit(s) PROVE ReadsCounted' /\ HotAfterReads'
    <2>1. \A q \in Sessions : sess'[q].hot = sess[q].hot
        BY <1>9, <1>t DEF StageCommit, SessType
    <2> QED BY <1>9, <2>1, <1>1 DEF StageCommit
<1>10. ASSUME NEW s \in Sessions, mark_hot(s) PROVE ReadsCounted' /\ HotAfterReads'
    <2>1. UNCHANGED <<store, reads>> /\ \A q \in Sessions \ {s} : mark'[q] = mark[q]
        BY <1>10, <1>t DEF mark_hot
    <2>2. /\ sess'[s].hot = sess[s].hot \cup {mark[s]}
          /\ \A q \in Sessions \ {s} : sess'[q] = sess[q]
        <3> DEFINE R == sess[s].hot \cup {mark[s]}
        <3>1. sess' = [sess EXCEPT ![s] = [sess[s] EXCEPT !.hot = R]]
            BY <1>10 DEF mark_hot
        <3> HIDE DEF R
        <3>2. sess'[s].hot = R /\ \A q \in Sessions \ {s} : sess'[q] = sess[q]
            BY <3>1, <1>t DEF SessType
        <3> QED BY <3>2 DEF R
    <2>3. ReadsCounted'
        BY <2>1, <1>h DEF ReadsCounted
    <2>4. HotAfterReads'
        BY <2>1, <2>2, <1>h DEF HotAfterReads
    <2> QED BY <2>3, <2>4
<1>11. ASSUME NEW s \in Sessions, NEW ref \in Refs, Retrieve(s, ref)
       PROVE  ReadsCounted' /\ HotAfterReads'
    <2>0. mark[s] = None /\ store' = retrieve(store, ref, s, now) /\ UNCHANGED sess
        BY <1>11 DEF Retrieve
    <2>1. CASE ~matches(store, ref, s)
        <3>1. UNCHANGED <<store, reads, mark>>
            BY <1>11, <2>0, <2>1, <1>t, RetrieveCounts DEF Retrieve
        <3> QED BY <2>0, <3>1, <1>1
    <2>2. CASE matches(store, ref, s)
        <3>1. /\ store'[ref].count = store[ref].count + 1 /\ store'[ref] # NoRow
              /\ \A q \in Refs \ {ref} : store'[q] = store[q]
            <4>0. store \in [Refs -> RowType \cup {NoRow}] /\ now \in Nat
                BY <1>t
            <4> DEFINE next == retrieve(store, ref, s, now)
            <4>1. /\ next[ref].count = store[ref].count + 1
                  /\ \A q \in Refs \ {ref} : next[q] = store[q]
                BY <2>2, <4>0, RetrieveCounts
            <4>2. next[ref] # NoRow
                <5>1. next[ref] = NoRow <=> store[ref] = NoRow
                    BY <4>0, RetrieveType
                <5> QED BY <2>2, <5>1 DEF matches
            <4> HIDE DEF next
            <4>3. store' = next
                BY <2>0 DEF next
            <4> QED BY <4>1, <4>2, <4>3
        <3>2. /\ reads'[s][ref] \in {reads[s][ref], reads[s][ref] + 1}
              /\ sess[s].econ => reads'[s][ref] = reads[s][ref] + 1
              /\ ~sess[s].econ => reads' = reads
              /\ \A q \in Sessions, r \in Refs :
                    q # s \/ r # ref => reads'[q][r] = reads[q][r]
            BY <1>11, <2>2, <1>t DEF Retrieve
        <3>3. reads'[s][ref] <= store'[ref].count
            BY <3>1, <3>2, <1>h, <1>t, <2>2 DEF ReadsCounted, matches
        <3>4. ReadsCounted'
            BY <3>1, <3>2, <3>3, <1>h, <1>t, <2>2 DEF ReadsCounted, matches
        <3>5. /\ \A q \in Sessions \ {s} : mark'[q] = mark[q]
              /\ sess[s].econ /\ store'[ref].count >= 2 => mark'[s] = ref
            BY <1>11, <2>2, <1>t DEF Retrieve, hot, HOT_THRESHOLD
        <3>6. ASSUME NEW q \in Sessions, NEW r \in Refs, reads'[q][r] >= HOT_THRESHOLD
              PROVE  r \in sess'[q].hot \/ mark'[q] = r
            <4>1. CASE q = s /\ r = ref /\ sess[s].econ
                <5>1. store'[ref].count \in Nat /\ reads'[s][ref] \in Nat
                    BY <3>1, <3>2, <1>t, <2>2 DEF matches
                <5> QED BY <4>1, <5>1, <3>3, <3>5, <3>6 DEF HOT_THRESHOLD
            <4>2. CASE ~(q = s /\ r = ref /\ sess[s].econ)
                <5>1. reads'[q][r] = reads[q][r]
                    BY <3>2, <4>2
                <5>2. r \in sess[q].hot \/ mark[q] = r
                    BY <3>6, <5>1, <1>h DEF HotAfterReads
                <5>3. q = s => r \in sess[q].hot
                    BY <5>2, <2>0, OptionAssumption
                <5> QED BY <2>0, <3>5, <5>2, <5>3
            <4> QED BY <4>1, <4>2
        <3>7. HotAfterReads'
            BY <3>6 DEF HotAfterReads, HOT_THRESHOLD
        <3> QED BY <3>4, <3>7
    <2> QED BY <2>1, <2>2
<1>12. CASE UNCHANGED vars
    BY <1>12, <1>1 DEF vars
<1> QED
    BY <1>2, <1>3, <1>4, <1>5, <1>6, <1>7, <1>8, <1>9, <1>10, <1>11, <1>12 DEF Next

(* mark_hot and HOT_THRESHOLD: a session that has read a row back often    *)
(* enough has it hot, or the mark is on its way, however retrievals        *)
(* interleave with sweeps, restagings, evictions and restarts.             *)
THEOREM HotRemembered == Spec => []HotAfterReads
<1>1. Init => HotInv
    <2> SUFFICES ASSUME Init PROVE HotInv
        OBVIOUS
    <2>1. \A s \in Sessions, ref \in Refs : reads[s][ref] = 0
        BY DEF Init, NoReads
    <2>2. Typed
        BY InitInv DEF IInv
    <2> QED BY <2>1, <2>2 DEF HotInv, ReadsCounted, HotAfterReads, HOT_THRESHOLD
<1>2. HotInv /\ [Next]_vars => HotInv'
    BY TypeStep, HotStep DEF HotInv
<1>3. HotInv => HotAfterReads
    BY DEF HotInv
<1> QED BY <1>1, <1>2, <1>3, PTL DEF Spec
-----------------------------------------------------------------------------
(***************************************************************************)
(* The sweep.                                                              *)
(***************************************************************************)
StoredRefs(table) == {ref \in Refs : table[ref] # NoRow}

\* The table never has infinitely many rows, so that a sweep can add them up.
FiniteInv == Typed /\ IsFiniteSet(StoredRefs(store))

(* Bytes adds the sizes up, whatever the order.                            *)
LEMMA BytesSum ==
    ASSUME NEW S \in SUBSET Refs, IsFiniteSet(S)
    PROVE  \E v : IsSum(v, SUBSET S, Size) /\ \A R \in SUBSET S : Bytes(R) = v[R]
<1>1. PICK v : IsSum(v, SUBSET S, Size)
    BY SumExists
<1>2. ASSUME NEW R \in SUBSET S PROVE Bytes(R) = v[R]
    <2> DEFINE iter == CHOOSE u : u = [s \in SUBSET R |->
                          IF s = {} THEN 0
                          ELSE Size[CHOOSE x \in s : TRUE] + u[s \ {CHOOSE x \in s : TRUE}]]
    <2>1. Bytes(R) = iter[R]
        BY DEF Bytes, FoldFunctionOnSet, MapThenFoldSet
    <2>2. iter = CHOOSE u : IsSum(u, SUBSET R, Size)
        BY DEF IsSum, Pick
    <2>3. \E u : IsSum(u, SUBSET R, Size)
        BY FS_Subset, SumExists
    <2> HIDE DEF iter
    <2>4. IsSum(iter, SUBSET R, Size)
        BY <2>2, <2>3
    <2>5. iter[R] = v[R]
        BY <1>1, <2>4, SumAgrees
    <2> QED BY <2>1, <2>5
<1> QED BY <1>1, <1>2

(* The sum of sizes is a number, and may be split.                         *)
LEMMA SizesSplit ==
    ASSUME NEW S \in SUBSET Refs, IsFiniteSet(S), NEW v, IsSum(v, SUBSET S, Size),
           NEW r \in SUBSET S, NEW p \in SUBSET r
    PROVE  v[r] = v[p] + v[r \ p] /\ v[r] \in Nat /\ v[p] \in Nat /\ v[r \ p] \in Nat
<1>1. \A x \in S : Size[x] \in Nat
    BY RefsAssumption
<1>2. \A x \in S : Size[x] \in Int
    BY <1>1
<1>3. \A s \in SUBSET S : v[s] \in Nat
    BY <1>1, SumNat
<1>4. v[r] = v[p] + v[r \ p]
    BY <1>2, SumSplit
<1>5. v[r] \in Nat /\ v[p] \in Nat /\ v[r \ p] \in Nat
    <2>1. p \in SUBSET S /\ r \ p \in SUBSET S
        OBVIOUS
    <2> QED BY <1>3, <2>1
<1> QED BY <1>4, <1>5

(* The size of one row may be taken out.                                   *)
LEMMA SizesTake ==
    ASSUME NEW S \in SUBSET Refs, IsFiniteSet(S), NEW v, IsSum(v, SUBSET S, Size),
           NEW r \in SUBSET S, NEW x \in r
    PROVE  v[r] = Size[x] + v[r \ {x}] /\ Size[x] \in Nat /\ v[r \ {x}] \in Nat
<1>1. \A y \in S : Size[y] \in Nat
    BY RefsAssumption
<1>2. \A y \in S : Size[y] \in Int
    BY <1>1
<1>3. v[r] = Size[x] + v[r \ {x}]
    BY <1>2, SumTakes
<1>4. v[r \ {x}] \in Nat
    <2>1. r \ {x} \in SUBSET S
        OBVIOUS
    <2> QED BY <1>1, <2>1, SumNat
<1> QED BY <1>1, <1>3, <1>4

(* The order of the sweep is total on the stored rows.                     *)
LEMMA EarlierOrder ==
    ASSUME NEW table \in [Refs -> RowType \cup {NoRow}],
           NEW E \in SUBSET StoredRefs(table)
    PROVE  /\ \A a, b \in E : a # b => earlier(table, a, b) \/ earlier(table, b, a)
           /\ \A a, b \in E : ~(earlier(table, a, b) /\ earlier(table, b, a))
           /\ \A a, b, c \in E :
                earlier(table, a, b) /\ earlier(table, b, c) => earlier(table, a, c)
           /\ E # {} => \E m \in E : \A k \in E : k # m => earlier(table, m, k)
<1>1. \A a \in E : a \in Nat /\ table[a].access \in Nat
    BY RefsAssumption DEF StoredRefs, RowType
<1>2. \A a, b \in E : a # b => earlier(table, a, b) \/ earlier(table, b, a)
    BY <1>1 DEF earlier
<1>3. \A a, b \in E : ~(earlier(table, a, b) /\ earlier(table, b, a))
    BY <1>1 DEF earlier
<1>4. \A a, b, c \in E :
        earlier(table, a, b) /\ earlier(table, b, c) => earlier(table, a, c)
    BY <1>1 DEF earlier
<1>5. ASSUME E # {} PROVE \E m \in E : \A k \in E : k # m => earlier(table, m, k)
    <2> DEFINE A == {table[a].access : a \in E}
    <2>1. A \in SUBSET Nat /\ A # {}
        BY <1>1, <1>5
    <2>2. PICK n \in A : \A k \in A : n <= k
        <3> HIDE DEF A
        <3> QED BY <2>1, Smallest
    <2> DEFINE T == {a \in E : table[a].access = n}
    <2>3. T \in SUBSET Nat /\ T # {}
        BY <1>1, <2>2
    <2>4. PICK m \in T : \A k \in T : m <= k
        <3> HIDE DEF T
        <3> QED BY <2>3, Smallest
    <2>5. ASSUME NEW k \in E, k # m PROVE earlier(table, m, k)
        <3>1. n <= table[k].access /\ table[m].access = n
            BY <2>2, <2>4
        <3>2. table[k].access = n => m <= k
            BY <2>4
        <3>3. n \in Nat /\ table[k].access \in Nat /\ k \in Nat /\ m \in Nat
            BY <1>1, <2>1, <2>2, <2>4
        <3> QED BY <2>5, <3>1, <3>2, <3>3 DEF earlier
    <2> QED BY <2>4, <2>5
<1> QED BY <1>2, <1>3, <1>4, <1>5

\* The rows of E the sweep comes to before a.
Before(table, E, a) == {q \in E : earlier(table, q, a)}

\* V is what a sweep of E takes when S is what counts.
Takes(table, S, v, E, V) ==
    \A a : a \in V <=> a \in E /\ v[S] - v[Before(table, E, a)] > MaxBytes

(* Of a set of rows, those before which the total is over the cap: a       *)
(* prefix in the order of the sweep, all of them unless what is left fits  *)
(* the cap, and no row more than needed.                                   *)
LEMMA PrefixTight ==
    ASSUME NEW table \in [Refs -> RowType \cup {NoRow}],
           NEW S \in SUBSET StoredRefs(table), IsFiniteSet(S),
           NEW v, IsSum(v, SUBSET S, Size), NEW E \in SUBSET S, NEW V, Takes(table, S, v, E, V)
    PROVE  /\ v[S] - v[V] \in Nat
           /\ v[S] - v[V] > MaxBytes => V = E
           /\ \A a \in V, b \in E \ V : earlier(table, a, b)
           /\ \A a \in V :
                (\A b \in V \ {a} : earlier(table, b, a)) => v[S] - v[V] + Size[a] > MaxBytes
<1>1. S \in SUBSET Refs /\ MaxBytes \in Nat
    BY RefsAssumption DEF StoredRefs
<1>2. V \subseteq E /\ V \in SUBSET S
    BY DEF Takes
<1>3. \A a : Before(table, E, a) \in SUBSET S
    BY DEF Before
<1>4. /\ \A a, b \in E : a # b => earlier(table, a, b) \/ earlier(table, b, a)
      /\ \A a, b \in E : ~(earlier(table, a, b) /\ earlier(table, b, a))
      /\ \A a, b, c \in E :
            earlier(table, a, b) /\ earlier(table, b, c) => earlier(table, a, c)
      /\ \A D \in SUBSET E :
            D # {} => \E m \in D : \A k \in D : k # m => earlier(table, m, k)
    <2>1. E \in SUBSET StoredRefs(table) /\ \A D \in SUBSET E : D \in SUBSET StoredRefs(table)
        OBVIOUS
    <2> QED BY <2>1, EarlierOrder
<1>5. v[S] - v[V] \in Nat /\ v[S] \in Nat /\ v[V] \in Nat
    <2>1. v[S] = v[V] + v[S \ V] /\ v[S] \in Nat /\ v[V] \in Nat /\ v[S \ V] \in Nat
        BY <1>1, <1>2, SizesSplit
    <2> QED BY <2>1
\* The rows taken are a prefix.
<1>6. ASSUME NEW a \in V, NEW b \in E, earlier(table, b, a) PROVE b \in V
    <2> DEFINE A == Before(table, E, a)
               B == Before(table, E, b)
    <2>1. a \in E /\ v[S] - v[A] > MaxBytes
        BY DEF Takes
    <2>2. B \in SUBSET A
        BY <1>4, <1>6, <2>1 DEF Before
    <2>3. v[A] = v[B] + v[A \ B] /\ v[A] \in Nat /\ v[B] \in Nat /\ v[A \ B] \in Nat
        <3> HIDE DEF A, B
        <3>1. A \in SUBSET S
            BY <1>3 DEF A
        <3> QED BY <1>1, <2>2, <3>1, SizesSplit
    <2>4. v[S] - v[B] > MaxBytes
        <3> HIDE DEF A, B
        <3> QED BY <1>1, <1>5, <2>1, <2>3
    <2> QED BY <2>4 DEF Takes
<1>7. ASSUME NEW a \in V, NEW b \in E \ V PROVE earlier(table, a, b)
    <2>1. a \in E /\ a # b
        BY <1>2
    <2> QED BY <1>4, <1>6, <2>1
\* What is before the first row that is kept is what was taken.
<1>8. ASSUME v[S] - v[V] > MaxBytes, V # E PROVE FALSE
    <2>1. PICK m \in E \ V : \A k \in E \ V : k # m => earlier(table, m, k)
        BY <1>2, <1>4, <1>8
    <2>2. Before(table, E, m) = V
        <3>1. ASSUME NEW p \in Before(table, E, m) PROVE p \in V
            BY <1>4, <2>1, <3>1 DEF Before
        <3>2. ASSUME NEW p \in V PROVE p \in Before(table, E, m)
            BY <1>2, <1>7, <2>1, <3>2 DEF Before
        <3> QED BY <3>1, <3>2
    <2>3. ~(v[S] - v[Before(table, E, m)] > MaxBytes)
        BY <2>1 DEF Takes
    <2> QED BY <1>8, <2>2, <2>3
<1>9. ASSUME NEW a \in V, \A b \in V \ {a} : earlier(table, b, a)
      PROVE  v[S] - v[V] + Size[a] > MaxBytes
    <2>1. Before(table, E, a) = V \ {a}
        <3>1. ASSUME NEW p \in Before(table, E, a) PROVE p \in V \ {a}
            BY <1>2, <1>4, <1>6, <3>1 DEF Before
        <3>2. ASSUME NEW p \in V \ {a} PROVE p \in Before(table, E, a)
            BY <1>2, <1>9, <3>2 DEF Before
        <3> QED BY <3>1, <3>2
    <2>2. v[S] - v[V \ {a}] > MaxBytes
        BY <2>1 DEF Takes
    <2>3. v[V] = Size[a] + v[V \ {a}] /\ Size[a] \in Nat /\ v[V \ {a}] \in Nat
        BY <1>1, <1>2, SizesTake
    <2> QED BY <1>1, <1>5, <2>2, <2>3
<1> QED BY <1>5, <1>7, <1>8, <1>9

\* The rows that count in a sweep.
Counted(table, R) == {ref \in Refs \ R : table[ref] # NoRow}

(* victims, eligible and live_bytes, over one sum of the sizes.            *)
LEMMA VictimsTaken ==
    ASSUME NEW table, IsFiniteSet(StoredRefs(table)), NEW R, NEW t
    PROVE  LET S == Counted(table, R)
               E == eligible(table, R, t)
           IN  /\ S \in SUBSET Refs /\ S \in SUBSET StoredRefs(table) /\ IsFiniteSet(S)
               /\ E \in SUBSET S /\ victims(table, R, t) \subseteq E
               /\ \E v : /\ IsSum(v, SUBSET S, Size)
                         /\ \A r \in SUBSET S : Bytes(r) = v[r]
                         /\ live_bytes(table, R) = v[S]
                         /\ Takes(table, S, v, E, victims(table, R, t))
<1> DEFINE S == Counted(table, R)
           E == eligible(table, R, t)
<1>1. S \in SUBSET Refs /\ S \in SUBSET StoredRefs(table) /\ E \in SUBSET S
    BY DEF StoredRefs, Counted, eligible
<1>2. IsFiniteSet(S)
    BY <1>1, FS_Subset
<1>3. PICK v : IsSum(v, SUBSET S, Size) /\ \A r \in SUBSET S : Bytes(r) = v[r]
    BY <1>1, <1>2, BytesSum
<1>4. live_bytes(table, R) = Bytes(S)
    BY DEF live_bytes, Counted
<1>5. victims(table, R, t) = {a \in E : Bytes(S) - Bytes(Before(table, E, a)) > MaxBytes}
    BY <1>4 DEF victims, Before
<1>6. \A a : Bytes(Before(table, E, a)) = v[Before(table, E, a)]
    BY <1>1, <1>3 DEF Before
<1>7. live_bytes(table, R) = v[S] /\ Bytes(S) = v[S]
    BY <1>3, <1>4
<1>8. Takes(table, S, v, E, victims(table, R, t))
    <2> HIDE DEF S, E
    <2> QED BY <1>5, <1>6, <1>7 DEF Takes
<1>9. victims(table, R, t) \subseteq E
    BY <1>5
<1> HIDE DEF S, E
<1> QED BY <1>1, <1>2, <1>3, <1>7, <1>8, <1>9 DEF S, E

(* What a sweep leaves of S.                                               *)
LEMMA LeftOver ==
    ASSUME NEW S \in SUBSET Refs, IsFiniteSet(S), NEW v, IsSum(v, SUBSET S, Size),
           NEW V \in SUBSET S
    PROVE  v[S \ V] = v[S] - v[V]
<1>1. v[S] = v[V] + v[S \ V] /\ v[S] \in Nat /\ v[V] \in Nat /\ v[S \ V] \in Nat
    BY SizesSplit
<1> QED BY <1>1

(* victims: a prefix of the eligible rows, all of them unless what the     *)
(* sweep leaves fits the cap, and no row more than needed.                 *)
LEMMA VictimsTight ==
    ASSUME NEW table \in [Refs -> RowType \cup {NoRow}], IsFiniteSet(StoredRefs(table)),
           NEW R \in SUBSET Refs, NEW t \in Nat
    PROVE  LET E == eligible(table, R, t)
               V == victims(table, R, t)
               left == live_bytes(gc(table, R, t), R)
           IN  /\ V \subseteq E
               /\ left > MaxBytes => V = E
               /\ \A a \in V, b \in E \ V : earlier(table, a, b)
               /\ \A a \in V :
                    (\A b \in V \ {a} : earlier(table, b, a)) => left + Size[a] > MaxBytes
<1> DEFINE E == eligible(table, R, t)
           V == victims(table, R, t)
           left == live_bytes(gc(table, R, t), R)
           S == Counted(table, R)
<1>1. /\ S \in SUBSET Refs /\ S \in SUBSET StoredRefs(table) /\ IsFiniteSet(S)
      /\ E \in SUBSET S /\ V \subseteq E
    BY VictimsTaken
<1>2. PICK v : /\ IsSum(v, SUBSET S, Size) /\ \A r \in SUBSET S : Bytes(r) = v[r]
               /\ Takes(table, S, v, E, V)
    <2>1. \E v : /\ IsSum(v, SUBSET S, Size)
                 /\ \A r \in SUBSET S : Bytes(r) = v[r]
                 /\ live_bytes(table, R) = v[S]
                 /\ Takes(table, S, v, E, V)
        BY VictimsTaken
    <2> HIDE DEF S, E, V
    <2> QED BY <2>1
<1>3. left = Bytes(S \ V)
    <2>1. {ref \in Refs \ R : gc(table, R, t)[ref] # NoRow} = S \ V
        BY DEF gc, Counted
    <2> QED BY <2>1 DEF live_bytes
<1> HIDE DEF S, V, E, left
<1>4. left = v[S] - v[V]
    <2>1. left = v[S \ V]
        BY <1>2, <1>3
    <2>2. V \in SUBSET S
        BY <1>1
    <2>3. v[S \ V] = v[S] - v[V]
        BY <1>1, <1>2, <2>2, LeftOver
    <2> QED BY <2>1, <2>3
<1>5. /\ v[S] - v[V] > MaxBytes => V = E
      /\ \A a \in V, b \in E \ V : earlier(table, a, b)
      /\ \A a \in V :
            (\A b \in V \ {a} : earlier(table, b, a)) => v[S] - v[V] + Size[a] > MaxBytes
    BY <1>1, <1>2, PrefixTight
<1> QED BY <1>1, <1>4, <1>5 DEF E, V, left

(* A finite set of stored rows has a latest one.                           *)
LEMMA LatestOf ==
    ASSUME NEW table \in [Refs -> RowType \cup {NoRow}],
           NEW S \in SUBSET StoredRefs(table), IsFiniteSet(S), NEW s \in SUBSET S, s # {}
    PROVE  latest(table, s) \in s /\ \A q \in s \ {latest(table, s)} :
                                        earlier(table, q, latest(table, s))
<1> DEFINE G == {r \in SUBSET S :
                    r # {} => \E m \in r : \A q \in r \ {m} : earlier(table, q, m)}
<1>1. ASSUME NEW r \in SUBSET S,
             \A p \in SUBSET S : Cardinality(p) < Cardinality(r) => p \in G
      PROVE  r \in G
    <2> SUFFICES ASSUME r # {} PROVE \E m \in r : \A q \in r \ {m} : earlier(table, q, m)
        OBVIOUS
    <2>1. PICK x \in r : TRUE
        OBVIOUS
    <2>2. r \ {x} \in G
        <3>1. r \ {x} \in SUBSET S /\ Cardinality(r \ {x}) < Cardinality(r)
            BY Removes
        <3> HIDE DEF G
        <3> QED BY <1>1, <3>1
    <2>3. CASE r \ {x} = {}
        BY <2>3
    <2>4. CASE r \ {x} # {}
        <3>1. PICK m \in r \ {x} : \A q \in (r \ {x}) \ {m} : earlier(table, q, m)
            BY <2>2, <2>4
        <3>2. /\ \A a, b \in r : a # b => earlier(table, a, b) \/ earlier(table, b, a)
              /\ \A a, b, c \in r :
                    earlier(table, a, b) /\ earlier(table, b, c) => earlier(table, a, c)
            <4>1. r \in SUBSET StoredRefs(table)
                OBVIOUS
            <4> QED BY <4>1, EarlierOrder
        <3>3. CASE earlier(table, x, m)
            BY <3>1, <3>3
        <3>4. CASE earlier(table, m, x)
            <4>1. \A q \in r \ {x} : earlier(table, q, x)
                BY <3>1, <3>2, <3>4
            <4> QED BY <4>1
        <3> QED BY <3>1, <3>2, <3>3, <3>4
    <2> QED BY <2>3, <2>4
<1> HIDE DEF G
<1>2. SUBSET S \subseteq G
    BY <1>1, SizeInduction
<1>3. \E m \in s : \A q \in s \ {m} : earlier(table, q, m)
    BY <1>2 DEF G
<1> QED BY <1>3 DEF latest

\* The scan of the subsets of E, as a recursive function.
IsScan(u, table, E, base) ==
    u = [s \in SUBSET E |->
            IF s = {} THEN base ELSE scan_step(latest(table, s), u[s \ {latest(table, s)}])]

(* A scan of one more row, the latest, takes it iff all before it were     *)
(* taken and the total is still over the cap.                              *)
LEMMA ScanStep ==
    ASSUME NEW table \in [Refs -> RowType \cup {NoRow}],
           NEW S \in SUBSET StoredRefs(table), IsFiniteSet(S),
           NEW v, IsSum(v, SUBSET S, Size),
           NEW s \in SUBSET S, NEW x \in s, \A q \in s \ {x} : earlier(table, q, x),
           NEW V, Takes(table, S, v, s, V), NEW W, Takes(table, S, v, s \ {x}, W)
    PROVE  [remaining |-> v[S] - v[V], taken |-> V]
             = scan_step(x, [remaining |-> v[S] - v[W], taken |-> W])
<1> DEFINE r == s \ {x}
<1>1. S \in SUBSET Refs /\ MaxBytes \in Nat
    BY RefsAssumption DEF StoredRefs
<1>2. x \in s /\ \A q \in r : earlier(table, q, x)
    OBVIOUS
<1>3. r \in SUBSET S /\ s = r \cup {x} /\ x \notin r
    BY <1>2
<1>4. \A a, b \in s : ~(earlier(table, a, b) /\ earlier(table, b, a))
    <2>1. s \in SUBSET StoredRefs(table)
        OBVIOUS
    <2> QED BY <2>1, EarlierOrder
<1>5. Before(table, s, x) = r /\ \A a \in r : Before(table, s, a) = Before(table, r, a)
    BY <1>2, <1>4 DEF Before
<1> HIDE DEF r
<1>6. \A a \in r : a \in V <=> a \in W
    BY <1>3, <1>5 DEF Takes, r
<1>7. x \in V <=> v[S] - v[r] > MaxBytes
    BY <1>2, <1>5 DEF Takes
<1>8. V \subseteq s /\ W \subseteq r /\ W \in SUBSET S
    BY <1>3 DEF Takes, r
<1>9. v[r] = v[W] + v[r \ W] /\ v[r] \in Nat /\ v[W] \in Nat /\ v[r \ W] \in Nat
    BY <1>1, <1>3, <1>8, SizesSplit
<1>10. v[S] \in Nat /\ v[S] - v[W] \in Nat /\ (v[S] - v[W] > MaxBytes => W = r)
    <2>1. Takes(table, S, v, r, W)
        BY DEF r
    <2>2. v[S] - v[W] \in Nat /\ (v[S] - v[W] > MaxBytes => W = r)
        BY <1>3, <2>1, PrefixTight, ZenonT(60)
    <2>3. v[S] \in Nat
        <3>1. \A y \in S : Size[y] \in Nat
            BY <1>1, RefsAssumption
        <3> QED BY <3>1, SumNat
    <2> QED BY <2>2, <2>3
<1>11. CASE v[S] - v[W] > MaxBytes
    <2>1. W = r /\ V = s
        BY <1>3, <1>6, <1>7, <1>8, <1>10, <1>11
    <2>2. v[s] = Size[x] + v[r] /\ Size[x] \in Nat /\ v[r] \in Nat
        <3>1. v[s] = Size[x] + v[s \ {x}] /\ Size[x] \in Nat /\ v[s \ {x}] \in Nat
            BY <1>1, SizesTake
        <3> QED BY <3>1 DEF r
    <2>3. v[S] - v[V] = (v[S] - v[W]) - Size[x]
        BY <1>10, <2>1, <2>2
    <2> QED BY <1>3, <1>11, <2>1, <2>3 DEF scan_step
<1>12. CASE ~(v[S] - v[W] > MaxBytes)
    <2>1. ~(v[S] - v[r] > MaxBytes)
        BY <1>1, <1>9, <1>10, <1>12
    <2>2. V = W
        BY <1>3, <1>6, <1>7, <1>8, <2>1
    <2> QED BY <1>12, <2>2 DEF scan_step
<1> QED BY <1>11, <1>12

(* RefStore::gc: the scan takes the victims, and never more than there is. *)
LEMMA ScanTakes ==
    ASSUME NEW table \in [Refs -> RowType \cup {NoRow}], IsFiniteSet(StoredRefs(table)),
           NEW R \in SUBSET Refs, NEW t \in Nat
    PROVE  /\ scan(table, R, t).taken = victims(table, R, t)
           /\ scan(table, R, t).remaining \in Nat
<1> DEFINE S == Counted(table, R)
           E == eligible(table, R, t)
<1>1. S \in SUBSET Refs /\ S \in SUBSET StoredRefs(table) /\ IsFiniteSet(S) /\ E \in SUBSET S
    BY VictimsTaken
<1>2. PICK v : /\ IsSum(v, SUBSET S, Size) /\ live_bytes(table, R) = v[S]
               /\ Takes(table, S, v, E, victims(table, R, t))
    <2>1. \E v : /\ IsSum(v, SUBSET S, Size)
                 /\ \A r \in SUBSET S : Bytes(r) = v[r]
                 /\ live_bytes(table, R) = v[S]
                 /\ Takes(table, S, v, E, victims(table, R, t))
        BY VictimsTaken
    <2> HIDE DEF S, E
    <2> QED BY <2>1
<1> DEFINE base == [remaining |-> v[S], taken |-> {}]
           V(s) == {a \in s : v[S] - v[Before(table, s, a)] > MaxBytes}
           w == [s \in SUBSET E |-> [remaining |-> v[S] - v[V(s)], taken |-> V(s)]]
           iter == CHOOSE u : u = [s \in SUBSET E |->
                      IF s = {} THEN base
                      ELSE scan_step(latest(table, s), u[s \ {latest(table, s)}])]
<1>3. scan(table, R, t) = iter[E]
    BY <1>2 DEF scan, MapThenFoldSet
<1> HIDE DEF S, E, base
\* The closed form, taken of every subset, is a scan,
<1>4. \A s : Takes(table, S, v, s, V(s))
    BY DEF Takes
<1>5. w[{}] = base
    <2>1. V({}) = {} /\ {} \in SUBSET E
        OBVIOUS
    <2>2. v[{}] = 0
        BY <1>2 DEF IsSum
    <2>3. v[S] \in Nat
        <3>1. \A y \in S : Size[y] \in Nat
            BY <1>1, RefsAssumption
        <3> QED BY <1>1, <1>2, <3>1, SumNat
    <2>4. v[S] - v[V({})] = v[S]
        BY <2>1, <2>2, <2>3
    <2>5. w[{}] = [remaining |-> v[S] - v[V({})], taken |-> V({})]
        BY <2>1
    <2> HIDE DEF V, w
    <2> QED BY <2>1, <2>4, <2>5 DEF base
<1>6. ASSUME NEW s \in SUBSET E, s # {}
      PROVE  w[s] = scan_step(latest(table, s), w[s \ {latest(table, s)}])
    <2> DEFINE x == latest(table, s)
               r == s \ {x}
    <2>1. s \in SUBSET S /\ r \in SUBSET E
        BY <1>1
    <2>2. Takes(table, S, v, s, V(s)) /\ Takes(table, S, v, r, V(r))
        BY <1>4
    <2>3. /\ w[s] = [remaining |-> v[S] - v[V(s)], taken |-> V(s)]
          /\ w[r] = [remaining |-> v[S] - v[V(r)], taken |-> V(r)]
        BY <2>1
    <2> HIDE DEF V, w
    <2>4. x \in s /\ \A q \in s \ {x} : earlier(table, q, x)
        BY <1>1, <1>6, <2>1, LatestOf
    <2>5. w[s] = scan_step(x, w[r])
        <3> HIDE DEF x
        <3> QED BY <1>1, <1>2, <2>1, <2>2, <2>3, <2>4, ScanStep
    <2> QED BY <2>5
<1> HIDE DEF w
<1>7. IsScan(w, table, E, base)
    <2>1. w = [s \in SUBSET E |-> w[s]]
        BY DEF w
    <2> QED BY <1>5, <1>6, <2>1 DEF IsScan
\* and there is only one.
<1>8. IsScan(iter, table, E, base)
    <2>1. iter = CHOOSE u : IsScan(u, table, E, base)
        BY DEF IsScan
    <2> HIDE DEF iter
    <2> QED BY <1>7, <2>1
<1> HIDE DEF iter
<1>9. \A s \in SUBSET E : iter[s] = w[s]
    <2> DEFINE G == {s \in SUBSET E : iter[s] = w[s]}
    <2>0. IsFiniteSet(E)
        BY <1>1, FS_Subset
    <2>1. ASSUME NEW s \in SUBSET E,
                 \A r \in SUBSET E : Cardinality(r) < Cardinality(s) => r \in G
          PROVE  s \in G
        <3>1. CASE s = {}
            BY <1>7, <1>8, <3>1 DEF IsScan
        <3>2. CASE s # {}
            <4> DEFINE x == latest(table, s)
            <4>1. x \in s
                BY <1>1, <3>2, LatestOf
            <4>2. s \ {x} \in SUBSET E /\ Cardinality(s \ {x}) < Cardinality(s)
                BY <2>0, <4>1, Removes
            <4>3. iter[s \ {x}] = w[s \ {x}]
                BY <2>1, <4>2
            <4>4. iter[s] = scan_step(x, iter[s \ {x}]) /\ w[s] = scan_step(x, w[s \ {x}])
                BY <1>7, <1>8, <3>2 DEF IsScan
            <4> QED BY <4>3, <4>4
        <3> QED BY <3>1, <3>2
    <2> HIDE DEF G
    <2>2. SUBSET E \subseteq G
        BY <2>0, <2>1, SizeInduction
    <2> QED BY <2>2 DEF G
<1>10. V(E) = victims(table, R, t)
    BY <1>2 DEF Takes
<1>11. scan(table, R, t) = [remaining |-> v[S] - v[V(E)], taken |-> V(E)]
    BY <1>3, <1>9 DEF w
<1>12. v[S] - v[V(E)] \in Nat
    <2>1. Takes(table, S, v, E, V(E))
        BY <1>4
    <2> HIDE DEF V
    <2> QED BY <1>1, <1>2, <2>1, PrefixTight
<1> HIDE DEF V
<1> QED BY <1>10, <1>11, <1>12

(* Rows are inserted one at a time.                                        *)
LEMMA FiniteStep == FiniteInv /\ [Next]_vars => FiniteInv'
<1> SUFFICES ASSUME FiniteInv, [Next]_vars PROVE FiniteInv'
    OBVIOUS
<1>1. Typed /\ IsFiniteSet(StoredRefs(store)) /\ now \in Nat
    BY BoundsAssumption DEF FiniteInv, Typed
<1>2. CASE store' = store
    BY <1>1, <1>2, TypeStep DEF FiniteInv, StoredRefs
<1>3. CASE Sweep
    <2>1. StoredRefs(store') \in SUBSET StoredRefs(store)
        BY <1>3 DEF Sweep, gc, StoredRefs
    <2> QED BY <1>1, <2>1, TypeStep, FS_Subset DEF FiniteInv
<1>4. ASSUME NEW s \in Sessions, NEW ref \in Refs, StagePut(s, ref) PROVE FiniteInv'
    <2>1. StoredRefs(store') \in SUBSET (StoredRefs(store) \cup {ref})
        BY <1>1, <1>4 DEF StagePut, put, StoredRefs, Typed
    <2>2. IsFiniteSet(StoredRefs(store) \cup {ref})
        BY <1>1, FS_AddElement
    <2> QED BY <1>1, <2>1, <2>2, TypeStep, FS_Subset DEF FiniteInv
<1>5. ASSUME NEW s \in Sessions, NEW ref \in Refs, Retrieve(s, ref) PROVE FiniteInv'
    <2>1. store \in [Refs -> RowType \cup {NoRow}]
        BY <1>1 DEF Typed
    <2>2. \A q \in Refs : store'[q] = NoRow <=> store[q] = NoRow
        BY <1>1, <1>5, <2>1, RetrieveType DEF Retrieve
    <2>3. StoredRefs(store') = StoredRefs(store)
        BY <2>2 DEF StoredRefs
    <2> QED BY <1>1, <2>3, TypeStep DEF FiniteInv
<1>6. store' = store \/ Sweep
      \/ \E s \in Sessions, ref \in Refs : StagePut(s, ref) \/ Retrieve(s, ref)
    BY DEF Next, vars, Tick, Restart, RunGc, Mint, Evict, Take, Forward, StageBegin,
           StageCommit, StageSkip, mark_hot
<1> QED BY <1>2, <1>3, <1>4, <1>5, <1>6

\* So the table is finite for ever.
LEMMA FiniteInvariance == Spec => []FiniteInv
<1>1. Init => FiniteInv
    <2> SUFFICES ASSUME Init PROVE FiniteInv
        OBVIOUS
    <2>1. StoredRefs(store) = {}
        BY DEF Init, StoredRefs
    <2> QED BY <2>1, InitInv, FS_EmptySet DEF IInv, FiniteInv
<1> QED BY <1>1, FiniteStep, PTL DEF Spec

(* RefStore::gc: whatever was staged, retrieved and swept before it, a     *)
(* sweep deletes old, unreachable rows only, in the order of their last    *)
(* access, all of them if it must and none that it need not.               *)
THEOREM SweepTight == Spec => SweepIsTight
<1>1. FiniteInv /\ Sweep => CutIsTight
    <2> SUFFICES ASSUME FiniteInv, Sweep PROVE CutIsTight
        OBVIOUS
    <2> DEFINE old  == {ref \in Refs \ sweep :
                          store[ref] # NoRow /\ now - store[ref].created > Grace}
               cut  == {ref \in Refs : store[ref] # NoRow /\ store'[ref] = NoRow}
               left == live_bytes(store', sweep)
    <2> DEFINE E == eligible(store, sweep, now)
               V == victims(store, sweep, now)
    <2>1. /\ store \in [Refs -> RowType \cup {NoRow}] /\ IsFiniteSet(StoredRefs(store))
          /\ sweep \in SUBSET Refs /\ now \in Nat
        BY BoundsAssumption DEF FiniteInv, Typed, Sweep
    <2>2. store' = gc(store, sweep, now)
        BY DEF Sweep
    <2>3. old = E
        BY DEF eligible
    <2>4. V \subseteq E
        BY DEF victims
    <2>5. cut = V
        BY <2>2, <2>4 DEF gc, eligible
    <2>6. left = live_bytes(gc(store, sweep, now), sweep)
        BY <2>2
    <2>7. /\ left > MaxBytes => V = E
          /\ \A a \in V, b \in E \ V : earlier(store, a, b)
          /\ \A a \in V :
                (\A b \in V \ {a} : earlier(store, b, a)) => left + Size[a] > MaxBytes
        BY <2>1, <2>6, VictimsTight
    <2>8. /\ cut \subseteq old
          /\ left > MaxBytes => cut = old
          /\ \A a \in cut, b \in old \ cut : earlier(store, a, b)
          /\ \A a \in cut :
                (\A b \in cut \ {a} : earlier(store, b, a)) => left + Size[a] > MaxBytes
        <3> HIDE DEF E, V, cut, old, left
        <3> QED BY <2>3, <2>4, <2>5, <2>7
    <2> QED BY <2>8, Zenon DEF CutIsTight, earlier
<1> QED BY <1>1, FiniteInvariance, PTL DEF Spec, SweepIsTight

(* RefStore::gc: in every reachable state, a scan of the eligible rows in  *)
(* the order of their last access takes exactly the victims, none of them  *)
(* reachable, and its unchecked subtraction never goes below zero.         *)
THEOREM ScanIsVictims == Spec => []ScanTakesVictims
<1>1. FiniteInv => ScanTakesVictims
    <2> SUFFICES ASSUME FiniteInv, sweep # None
                 PROVE  /\ scan(store, sweep, now).taken = victims(store, sweep, now)
                        /\ scan(store, sweep, now).taken \cap sweep = {}
                        /\ scan(store, sweep, now).remaining >= 0
        BY DEF ScanTakesVictims
    <2>1. /\ store \in [Refs -> RowType \cup {NoRow}] /\ IsFiniteSet(StoredRefs(store))
          /\ sweep \in SUBSET Refs /\ now \in Nat
        BY BoundsAssumption DEF FiniteInv, Typed
    <2>2. /\ scan(store, sweep, now).taken = victims(store, sweep, now)
          /\ scan(store, sweep, now).remaining \in Nat
        BY <2>1, ScanTakes
    <2>3. victims(store, sweep, now) \cap sweep = {}
        BY DEF victims, eligible
    <2> QED BY <2>2, <2>3
<1> QED BY <1>1, FiniteInvariance, PTL
=============================================================================
