----------------------------- MODULE MCLinkCopy -----------------------------
(* Instances of LinkCopy for TLC. *)
EXTENDS LinkCopy, TLC
=============================================================================
