------------------------------- MODULE MCRing -------------------------------
(* Instances of Ring for TLC. *)
EXTENDS Ring, TLC

(* Rings with the SQPOLL thread and rings without. *)
Either == BOOLEAN
=============================================================================
