--------------------------- MODULE MCAsyncStdRing ---------------------------
(* Instances of AsyncStdRing for TLC. *)
EXTENDS AsyncStdRing, TLC

CONSTANTS recv, send

(* A receive that completes once the send of the same program has. *)
RecvAfterSend == {<<recv, send>>}
=============================================================================
