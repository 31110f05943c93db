------------------------------- MODULE MCSeam -------------------------------
(***************************************************************************)
(* Instances of Seam for TLC.                                              *)
(***************************************************************************)
EXTENDS Seam
=============================================================================
