----------------------------- MODULE MCFourWay -----------------------------
(* Instances of FourWay for TLC. *)
EXTENDS FourWay
=============================================================================
