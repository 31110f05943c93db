----------------------------- MODULE MCRewrite -----------------------------
(***************************************************************************)
(* Instances of Rewrite for TLC.                                           *)
(***************************************************************************)
EXTENDS Rewrite

NoHead == <<>>
OneHead == <<2>>
=============================================================================
