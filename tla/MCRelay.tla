------------------------------ MODULE MCRelay ------------------------------
(***************************************************************************)
(* Instances of Relay for TLC.                                             *)
(***************************************************************************)
EXTENDS Relay, TLC

CONSTANTS k1, k2, k3, r1, r2, e1, e2

OneTurn == <<k1>>
ThreeTurns == <<k1, k2, k3>>
RepeatedTurn == <<k1, k1, k2>>

\* Request slots, and session states, are interchangeable.
Symmetry == Permutations({r1, r2}) \cup Permutations({e1, e2})

(***************************************************************************)
(* Views, which leave out what neither a guard nor a property of the run   *)
(* reads: the estimate and the scale calibrated from it, the histories of  *)
(* the fast lane or of the guard, and, where no body has a segment before  *)
(* its last and so nothing to splice, the interceptor's inputs and window. *)
(***************************************************************************)
NothingToSplice ==
    <<kill, shadow, session, orphaned, [r \in Reqs |-> [req[r] EXCEPT !.inputs = NoInputs]],
      [e \in Econs |-> [econ[e] EXCEPT !.est = None, !.scale = "own", !.left = {},
                                       !.closed = TRUE]]>>

WithoutOrphans ==
    <<kill, shadow, session, req, seen, asked,
      [e \in Econs |-> [econ[e] EXCEPT !.est = None, !.scale = "own"]]>>
=============================================================================
