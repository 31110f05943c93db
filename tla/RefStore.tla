------------------------------ MODULE RefStore ------------------------------
(***************************************************************************)
(* The content-addressed store of originals (ccs-refs, store.rs) as        *)
(* operators on a table.  One connection runs one statement at a time, so  *)
(* each operator is one atomic change.                                     *)
(*                                                                         *)
(* A ref is the content address of a payload.  A table maps each ref to    *)
(* its row or to NoRow.  Times are seconds, of which the model only keeps  *)
(* the order and the distance to Grace.                                    *)
(***************************************************************************)
EXTENDS Integers, FiniteSets, Functions

CONSTANTS
    Sessions,       \* session ids (the minted tokens)
    Refs,           \* content addresses, numbered in their string order
    Size,           \* byte_len of each
    Grace,          \* GRACE_SECONDS
    MaxBytes,       \* MAX_REFS_BYTES
    NoRow           \* no row has the ref

ASSUME RefsAssumption ==
    /\ Refs \subseteq Nat
    /\ Size \in [Refs -> Nat]
    /\ Grace \in Nat
    /\ MaxBytes \in Nat

RowType == [owner : Sessions, created : Nat, access : Nat, count : Nat]

ASSUME NoRowAssumption == NoRow \notin RowType

Bytes(R) == FoldFunctionOnSet(+, 0, Size, R)

\* Mutant: a second put of the same bytes takes the row over.
put_overwrites(table, ref, owner, t) ==
    [table EXCEPT ![ref] = [owner |-> owner, created |-> t, access |-> t, count |-> 0]]

\* Mutant: the insertion is lost and nobody notices.
put_lost(table, ref, owner, t) == table

\* INSERT ... ON CONFLICT DO NOTHING: the row of the first put stays as it is.
put(table, ref, owner, t) ==
    IF table[ref] = NoRow
    THEN [table EXCEPT ![ref] = [owner |-> owner, created |-> t, access |-> t, count |-> 0]]
    ELSE table

\* The row retrieve's WHERE clause matches.
matches(table, ref, owner) == table[ref] # NoRow /\ table[ref].owner = owner

\* UPDATE ... WHERE ref_id AND session_id: bumps the accounting on a hit only.
retrieve(table, ref, owner, t) ==
    IF matches(table, ref, owner)
    THEN [table EXCEPT ![ref].access = t, ![ref].count = @ + 1]
    ELSE table

eligible(table, reachable, t) ==
    {ref \in Refs \ reachable : table[ref] # NoRow /\ t - table[ref].created > Grace}

\* Mutant: rows are ordered by age instead of by last access.
earlier_by_age(table, a, b) ==
    \/ table[a].created < table[b].created
    \/ table[a].created = table[b].created /\ a < b

\* The order of the sweep: by last access, then by id.
earlier(table, a, b) ==
    \/ table[a].access < table[b].access
    \/ table[a].access = table[b].access /\ a < b

live_bytes(table, reachable) == Bytes({ref \in Refs \ reachable : table[ref] # NoRow})

\* Mutant: the sweep goes on at the cap.
victims_at_cap(table, reachable, t) ==
    LET E == eligible(table, reachable, t)
    IN  {ref \in E : live_bytes(table, reachable)
                        - Bytes({q \in E : earlier(table, q, ref)}) >= MaxBytes}

\* Oldest first, the eligible rows before which the total is still over the cap.
victims(table, reachable, t) ==
    LET E == eligible(table, reachable, t)
    IN  {ref \in E : live_bytes(table, reachable)
                        - Bytes({q \in E : earlier(table, q, ref)}) > MaxBytes}

\* The row of Q that the sweep comes to last.
latest(table, Q) == CHOOSE ref \in Q : \A q \in Q \ {ref} : earlier(table, q, ref)

scan_step(ref, acc) ==
    IF acc.remaining > MaxBytes
    THEN [remaining |-> acc.remaining - Size[ref], taken |-> acc.taken \cup {ref}]
    ELSE acc

\* The same as the code computes it: a scan of the sorted eligible rows.
scan(table, reachable, t) ==
    MapThenFoldSet(scan_step, [remaining |-> live_bytes(table, reachable), taken |-> {}],
                   LAMBDA ref : ref, LAMBDA Q : latest(table, Q),
                   eligible(table, reachable, t))

gc(table, reachable, t) ==
    LET V == victims(table, reachable, t)
    IN  [ref \in Refs |-> IF ref \in V THEN NoRow ELSE table[ref]]
=============================================================================
