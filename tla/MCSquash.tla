------------------------------ MODULE MCSquash ------------------------------
(***************************************************************************)
(* Instances of Squash for TLC.                                            *)
(***************************************************************************)
EXTENDS Squash, TLC

CONSTANTS s1, s2

\* Sessions are interchangeable.
Symmetry == Permutations({s1, s2})

\* put_at is a history that no step and, but for its type, no checked property
\* reads.
WithoutPutTimes == <<now, store, first, sess, turn, wire, stage, mark, reads, sweep>>

UnitSize == [ref \in Refs |-> 1]
MixedSize == [ref \in Refs |-> ref]

(***************************************************************************)
(* Every table that puts and retrievals can leave behind, every staged     *)
(* plan, and sweeps of them.                                               *)
(***************************************************************************)
Rows == {row \in [owner : Sessions, created : 0 .. MaxNow, access : 0 .. MaxNow,
                  count : {0}] : row.created <= row.access}

SweepInit ==
    /\ now = MaxNow
    /\ store \in [Refs -> Rows \cup {NoRow}]
    /\ first = store
    /\ put_at = [s \in Sessions |-> [ref \in Refs |-> None]]
    /\ sess \in [Sessions -> {[Gone EXCEPT !.entry = TRUE, !.econ = TRUE, !.staged = R] :
                                R \in SUBSET Refs}]
    /\ turn = [s \in Sessions |-> None]
    /\ wire = [s \in Sessions |-> {}]
    /\ stage = [s \in Sessions |-> Idle]
    /\ mark = [s \in Sessions |-> None]
    /\ reads = [s \in Sessions |-> NoReads]
    /\ sweep = None

SweepSpec == SweepInit /\ [][RunGc \/ Sweep]_vars
=============================================================================
