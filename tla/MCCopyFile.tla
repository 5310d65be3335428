----------------------------- MODULE MCCopyFile -----------------------------
(* Instances of CopyFile for TLC. *)
EXTENDS CopyFile, TLC
=============================================================================
