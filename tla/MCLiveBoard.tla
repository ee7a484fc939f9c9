---------------------------- MODULE MCLiveBoard ----------------------------
(* Instances of LiveBoard for TLC. *)
EXTENDS LiveBoard

CONSTANTS t1, Todo, f1, f2, d1
=============================================================================
