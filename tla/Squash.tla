------------------------------- MODULE Squash -------------------------------
(***************************************************************************)
(* What happens to a squashed original: sessions whose turns splice        *)
(* placeholders onto the wire, their staging tasks that store originals,   *)
(* the retrieve tool that reads them back, and the garbage collector, all  *)
(* over one RefStore.                                                      *)
(*                                                                         *)
(* Relay models how handlers and staging tasks of one session interleave;  *)
(* here a session has one turn and one staging task at a time, and a body  *)
(* is known by the refs of the segments in it.                             *)
(***************************************************************************)
EXTENDS RefStore

CONSTANTS
    None,
    MaxNow,         \* bound: the last second of the clock
    MaxReads,       \* bound: retrievals counted per row
    Frames          \* what the control plane may do: mint, evict, gc, restart

ASSUME BoundsAssumption == MaxNow \in Nat /\ MaxReads \in Nat
ASSUME OptionAssumption == None \notin Nat \cup Refs /\ \A R \in SUBSET Refs : R # None

HOT_THRESHOLD == 2

VARIABLES
    now,
    store,          \* the refs table, which outlives the proxy
    first,          \* history: owner and time of each ref's last insertion
    put_at,         \* history: the time of the session's last put of the ref
    sess,           \* the sessions map: entry, SessionEcon, staged plan, hot_refs
    turn,           \* the plan an in-flight turn took, hot refs dropped
    wire,           \* placeholders in the last body the session forwarded
    stage,          \* the staging task
    mark,           \* a retrieval about to mark its ref hot
    reads,          \* history: hits of the session state on the row
    sweep           \* the reachable set of a spawned sweep

vars == <<now, store, first, put_at, sess, turn, wire, stage, mark, reads, sweep>>

SessType == [entry : BOOLEAN, econ : BOOLEAN,
             staged : (SUBSET Refs) \cup {None}, hot : SUBSET Refs]
StageType == [pc : {"idle", "claimed", "running"}, at : Nat,
              orphan : BOOLEAN, plan : SUBSET Refs]

Gone == [entry |-> FALSE, econ |-> FALSE, staged |-> None, hot |-> {}]
Idle == [pc |-> "idle", at |-> 0, orphan |-> FALSE, plan |-> {}]
NoReads == [ref \in Refs |-> 0]

Init ==
    /\ now = 0
    /\ store = [ref \in Refs |-> NoRow]
    /\ first = [ref \in Refs |-> NoRow]
    /\ put_at = [s \in Sessions |-> [ref \in Refs |-> None]]
    /\ sess = [s \in Sessions |-> Gone]
    /\ turn = [s \in Sessions |-> None]
    /\ wire = [s \in Sessions |-> {}]
    /\ stage = [s \in Sessions |-> Idle]
    /\ mark = [s \in Sessions |-> None]
    /\ reads = [s \in Sessions |-> NoReads]
    /\ sweep = None

Tick ==
    /\ now < MaxNow
    /\ now' = now + 1
    /\ UNCHANGED <<store, first, put_at, sess, turn, wire, stage, mark, reads, sweep>>

-----------------------------------------------------------------------------
(***************************************************************************)
(* Control frames.  Tasks of a replaced session state go on, but what they *)
(* commit to it is lost.                                                   *)
(***************************************************************************)
Orphan(s) ==
    /\ stage' = [stage EXCEPT ![s].orphan = stage[s].pc # "idle"]
    /\ mark' = [mark EXCEPT ![s] = None]
    /\ reads' = [reads EXCEPT ![s] = NoReads]

Mint(s) ==
    /\ "mint" \in Frames \/ ~sess[s].entry
    /\ sess' = [sess EXCEPT ![s] = [Gone EXCEPT !.entry = TRUE]]
    /\ Orphan(s)
    /\ UNCHANGED <<now, store, first, put_at, turn, wire, sweep>>

Evict(s) ==
    /\ "evict" \in Frames
    /\ sess[s].entry
    /\ sess' = [sess EXCEPT ![s] = Gone]
    /\ Orphan(s)
    /\ UNCHANGED <<now, store, first, put_at, turn, wire, sweep>>

\* The proxy dies and is spawned again: only the store is left.
Restart ==
    /\ "restart" \in Frames
    /\ sess' = [s \in Sessions |-> Gone]
    /\ turn' = [s \in Sessions |-> None]
    /\ stage' = [s \in Sessions |-> Idle]
    /\ mark' = [s \in Sessions |-> None]
    /\ reads' = [s \in Sessions |-> NoReads]
    /\ sweep' = None
    /\ UNCHANGED <<now, store, first, put_at, wire>>

reachable_refs ==
    UNION {IF sess[s].staged = None THEN {} ELSE sess[s].staged : s \in Sessions}

\* The set is computed on the seam loop, the sweep spawned.
RunGc ==
    /\ "gc" \in Frames
    /\ sweep = None
    /\ sweep' = reachable_refs
    /\ UNCHANGED <<now, store, first, put_at, sess, turn, wire, stage, mark, reads>>

Sweep ==
    /\ sweep # None
    /\ store' = gc(store, sweep, now)
    /\ reads' = [s \in Sessions |->
                    [ref \in Refs |-> IF store'[ref] = NoRow THEN 0 ELSE reads[s][ref]]]
    /\ sweep' = None
    /\ UNCHANGED <<now, first, put_at, sess, turn, wire, stage, mark>>

-----------------------------------------------------------------------------
(***************************************************************************)
(* A turn: forward_setup and intercept_inputs, then the rewrite.           *)
(***************************************************************************)

\* The anti-thrash filter works on the hot refs of this moment.  With the
\* breaker open, or a model without known prices, the plan is left alone.
Take(s, enabled) ==
    /\ sess[s].entry
    /\ turn[s] = None
    /\ stage[s].pc # "claimed"
    /\ turn' = [turn EXCEPT ![s] = IF enabled /\ sess[s].staged # None
                                    THEN sess[s].staged \ sess[s].hot ELSE {}]
    /\ sess' = [sess EXCEPT ![s].econ = TRUE,
                            ![s].staged = IF enabled THEN None ELSE @]
    /\ stage' = IF stage[s].pc = "idle"
                THEN [stage EXCEPT ![s].pc = "claimed"] ELSE stage
    /\ UNCHANGED <<now, store, first, put_at, wire, mark, reads, sweep>>

\* The body reaches upstream with a placeholder for each live proposal, or,
\* on a Hold or a failed rewrite, with none.
Forward(s, spliced) ==
    /\ turn[s] # None
    /\ spliced \subseteq turn[s]
    /\ wire' = [wire EXCEPT ![s] = spliced]
    /\ turn' = [turn EXCEPT ![s] = None]
    /\ UNCHANGED <<now, store, first, put_at, sess, stage, mark, reads, sweep>>

-----------------------------------------------------------------------------
(***************************************************************************)
(* The staging task: stage_next.                                           *)
(***************************************************************************)

\* Mutant: the time is rounded up to whole seconds.
StageBegin_rounds(s) ==
    /\ stage[s].pc = "claimed"
    /\ turn[s] = None
    /\ stage' = [stage EXCEPT ![s].pc = "running", ![s].at = now + 1]
    /\ UNCHANGED <<now, store, first, put_at, sess, turn, wire, mark, reads, sweep>>

\* Spawned with the time at which the response came back.
StageBegin(s) ==
    /\ stage[s].pc = "claimed"
    /\ turn[s] = None
    /\ stage' = [stage EXCEPT ![s].pc = "running", ![s].at = now]
    /\ UNCHANGED <<now, store, first, put_at, sess, turn, wire, mark, reads, sweep>>

\* A segment was decided against Keep, or recoded, and its payload stored;
\* a put that fails leaves the segment out of the plan.
StagePut(s, ref) ==
    /\ stage[s].pc = "running"
    /\ ref \notin stage[s].plan
    /\ store' = put(store, ref, s, stage[s].at)
    /\ first' = IF store[ref] = NoRow
                THEN [first EXCEPT ![ref] = store'[ref]] ELSE first
    /\ put_at' = [put_at EXCEPT ![s][ref] = stage[s].at]
    /\ stage' = [stage EXCEPT ![s].plan = @ \cup {ref}]
    /\ UNCHANGED <<now, sess, turn, wire, mark, reads, sweep>>

StageCommit(s) ==
    /\ stage[s].pc = "running"
    /\ sess' = IF stage[s].orphan THEN sess
               ELSE [sess EXCEPT ![s].staged = stage[s].plan]
    /\ stage' = [stage EXCEPT ![s] = Idle]
    /\ UNCHANGED <<now, store, first, put_at, turn, wire, mark, reads, sweep>>

\* No candidates, or the body did not parse: nothing is committed.
StageSkip(s) ==
    /\ stage[s].pc = "running"
    /\ stage[s].plan = {}
    /\ stage' = [stage EXCEPT ![s] = Idle]
    /\ UNCHANGED <<now, store, first, put_at, sess, turn, wire, mark, reads, sweep>>

-----------------------------------------------------------------------------
(***************************************************************************)
(* The cc_squash_retrieve tool.                                            *)
(***************************************************************************)

\* Mutant: hot only from the third hit on.
hot_late(count) == count > HOT_THRESHOLD

hot(count) == count >= HOT_THRESHOLD

\* resolve_scope and the store's update.
Retrieve(s, ref) ==
    /\ sess[s].entry
    /\ mark[s] = None
    /\ matches(store, ref, s) => store[ref].count < MaxReads
    /\ store' = retrieve(store, ref, s, now)
    /\ mark' = IF matches(store, ref, s) /\ hot(store'[ref].count) /\ sess[s].econ
               THEN [mark EXCEPT ![s] = ref] ELSE mark
    /\ reads' = IF matches(store, ref, s) /\ sess[s].econ
                THEN [reads EXCEPT ![s][ref] = @ + 1] ELSE reads
    /\ UNCHANGED <<now, first, put_at, sess, turn, wire, stage, sweep>>

mark_hot(s) ==
    /\ mark[s] # None
    /\ sess' = [sess EXCEPT ![s].hot = @ \cup {mark[s]}]
    /\ mark' = [mark EXCEPT ![s] = None]
    /\ UNCHANGED <<now, store, first, put_at, turn, wire, stage, reads, sweep>>

-----------------------------------------------------------------------------
Next ==
    \/ Tick
    \/ Restart
    \/ RunGc
    \/ Sweep
    \/ \E s \in Sessions :
        \/ Mint(s)
        \/ Evict(s)
        \/ \E enabled \in BOOLEAN : Take(s, enabled)
        \/ \E spliced \in SUBSET Refs : Forward(s, spliced)
        \/ StageBegin(s)
        \/ \E ref \in Refs : StagePut(s, ref)
        \/ StageCommit(s)
        \/ StageSkip(s)
        \/ \E ref \in Refs : Retrieve(s, ref)
        \/ mark_hot(s)

Spec == Init /\ [][Next]_vars

-----------------------------------------------------------------------------
(***************************************************************************)
(* Properties.                                                             *)
(***************************************************************************)

Typed ==
    /\ now \in 0 .. MaxNow
    /\ store \in [Refs -> RowType \cup {NoRow}]
    /\ first \in [Refs -> RowType \cup {NoRow}]
    /\ put_at \in [Sessions -> [Refs -> Nat \cup {None}]]
    /\ sess \in [Sessions -> SessType]
    /\ turn \in [Sessions -> (SUBSET Refs) \cup {None}]
    /\ wire \in [Sessions -> SUBSET Refs]
    /\ stage \in [Sessions -> StageType]
    /\ mark \in [Sessions -> Refs \cup {None}]
    /\ reads \in [Sessions -> [Refs -> Nat]]
    /\ sweep \in (SUBSET Refs) \cup {None}

\* No row and no task carries a time of the future, whatever task wrote it
\* and however late: the age of a row is never negative.
Timely ==
    /\ \A s \in Sessions : stage[s].at <= now
    /\ \A ref \in Refs : store[ref] # NoRow =>
        store[ref].created <= store[ref].access /\ store[ref].access <= now

(* The table, the sessions map and every task keep their types, and a row  *)
(* is never accessed before it is created nor in the future, although puts *)
(* carry the time at which their task was spawned.                         *)
TypeOK == Typed /\ Timely

\* The session can have the original back.
Recoverable(s, ref) == matches(store, ref, s)

(* "Every squash is recoverable": the original behind each placeholder a   *)
(* session has on the wire can be retrieved by that session.               *)
SquashRecoverable == \A s \in Sessions : \A ref \in wire[s] : Recoverable(s, ref)

\* The session's last put of the ref is within the grace window.
RecentlyPut(s, ref) == put_at[s][ref] # None /\ now - put_at[s][ref] <= Grace

(* GRACE_SECONDS: a ref that was just staged and spliced is not evicted    *)
(* from under the turn it was spliced into.                                *)
WireStored ==
    \A s \in Sessions : \A ref \in wire[s] : RecentlyPut(s, ref) => store[ref] # NoRow

(* run_gc: a ref that was just staged and is not yet applied is never      *)
(* evicted.                                                                *)
StagedStored ==
    \A s \in Sessions :
        sess[s].staged # None =>
            \A ref \in sess[s].staged : RecentlyPut(s, ref) => store[ref] # NoRow

(* What put, retrieve and gc together do guarantee: an original that a     *)
(* session was the first to store can be retrieved by that session until   *)
(* Grace seconds after its staging began, whatever is staged, retrieved or *)
(* swept meanwhile, and across restarts of the proxy.                      *)
FirstPutProtected ==
    \A ref \in Refs :
        first[ref] # NoRow /\ now - first[ref].created <= Grace
            => Recoverable(first[ref].owner, ref)

(* A placeholder is only ever sent for an original that was stored: the    *)
(* put precedes the commit of the plan, and the plan the splice.           *)
SplicedWasStored ==
    \A s \in Sessions :
        \A ref \in wire[s] \cup stage[s].plan : first[ref] # NoRow

(* mark_hot: once a session state has read a row back HOT_THRESHOLD times  *)
(* and no mark is pending, the ref is hot, so that no later turn squashes  *)
(* it again.                                                               *)
HotAfterReads ==
    \A s \in Sessions, ref \in Refs :
        reads[s][ref] >= HOT_THRESHOLD => ref \in sess[s].hot \/ mark[s] = ref

(* RefStore::gc: what a sweep deletes is what the code's scan takes, never *)
(* a reachable row, and the scan's unchecked subtraction stays above zero. *)
ScanTakesVictims ==
    sweep # None =>
        LET out == scan(store, sweep, now)
        IN  /\ out.taken = victims(store, sweep, now)
            /\ out.taken \cap sweep = {}
            /\ out.remaining >= 0

\* The step's deletions, against the rows it could have deleted.
CutIsTight ==
    LET old  == {ref \in Refs \ sweep :
                    store[ref] # NoRow /\ now - store[ref].created > Grace}
        cut  == {ref \in Refs : store[ref] # NoRow /\ store'[ref] = NoRow}
        left == live_bytes(store', sweep)
        Older(a, b) == \/ store[a].access < store[b].access
                       \/ store[a].access = store[b].access /\ a < b
    IN  /\ cut \subseteq old
        /\ left > MaxBytes => cut = old
        /\ \A a \in cut, b \in old \ cut : Older(a, b)
        /\ \A a \in cut :
                (\A b \in cut \ {a} : Older(b, a)) => left + Size[a] > MaxBytes

(* RefStore::gc: a sweep deletes a prefix of the old, unreachable rows in  *)
(* the order of their last access; it stops over the cap only when no such *)
(* row is left, and its last victim was still needed to reach the cap.     *)
SweepIsTight == [][Sweep => CutIsTight]_vars
=============================================================================
