---------------------------- MODULE SeamChannel ----------------------------
(***************************************************************************)
(* What the seam promises to the control plane: per child an ordered       *)
(* channel without gaps or repetitions that may be cut at any time.  A cut *)
(* channel takes and delivers nothing more; what it still held is lost.    *)
(***************************************************************************)
EXTENDS Naturals, Sequences

CONSTANTS Conns, Frames

VARIABLES
    sent,       \* frames each channel took, in order
    got,        \* frames each child applied, in order
    up          \* channels that are not cut

vars == <<sent, got, up>>

Init ==
    /\ sent = [c \in Conns |-> <<>>]
    /\ got = [c \in Conns |-> <<>>]
    /\ up = Conns

Take(c, f) ==
    /\ c \in up
    /\ \A d \in Conns : \A i \in 1 .. Len(sent[d]) : sent[d][i] # f
    /\ sent' = [sent EXCEPT ![c] = Append(@, f)]
    /\ UNCHANGED <<got, up>>

\* The last frame a child applies may be the one that cuts its channel.
Deliver(c) ==
    /\ c \in up
    /\ Len(got[c]) < Len(sent[c])
    /\ got' = [got EXCEPT ![c] = Append(@, sent[c][Len(@) + 1])]
    /\ up' \in {up, up \ {c}}
    /\ UNCHANGED sent

Cut(c) ==
    /\ up' = up \ {c}
    /\ UNCHANGED <<sent, got>>

Next ==
    \E c \in Conns : Deliver(c) \/ Cut(c) \/ \E f \in Frames : Take(c, f)

Spec == Init /\ [][Next]_vars
=============================================================================
