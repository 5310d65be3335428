----------------------------- MODULE RingQueues -----------------------------
(***************************************************************************)
(* What an IoUring promises the program that owns it, with the rings, the  *)
(* wrapping counters and the CQ overflow list abstracted away:             *)
(*                                                                         *)
(*   sq        requests pushed with get_sqe + prepare, oldest first        *)
(*   inflight  requests the kernel has taken and not completed             *)
(*   cq        completions not yet reaped, oldest first                    *)
(*                                                                         *)
(* Module Ring implements this one (its property ImplementsQueues); the    *)
(* clients of the ring are built on its actions.                           *)
(***************************************************************************)
EXTENDS Naturals, Sequences, FiniteSets, Functions

CONSTANTS
  Reqs,       \* identities of requests; one may be reused once it is reaped
  Results,    \* the values of cqe.result()
  SqEntries   \* entries of the submission ring, at least one

VARIABLES sq, inflight, cq

qvars == <<sq, inflight, cq>>

Cqes == [req : Reqs, res : Results]

(* Every request that is somewhere between get_sqe and its reaped Cqe. *)
Held == Range(sq) \cup inflight \cup {c.req : c \in Range(cq)}

QInit ==
  /\ sq = <<>>
  /\ inflight = {}
  /\ cq = <<>>

-----------------------------------------------------------------------------
(* get_sqe returned an entry and the caller prepared it; None when full. *)
CanPush == Len(sq) < SqEntries

Push(r) ==
  /\ CanPush
  /\ r \notin Held
  /\ sq' = Append(sq, r)
  /\ UNCHANGED <<inflight, cq>>

(* The kernel takes the k oldest entries.  submit() is Ok(k) when k > 0 or  *)
(* when there was nothing to take; a kernel that takes none of several      *)
(* entries reports an error, and the entries stay queued.                   *)
Take(k) ==
  /\ k \in 0 .. Len(sq)
  /\ sq' = SubSeq(sq, k + 1, Len(sq))
  /\ inflight' = inflight \cup {sq[i] : i \in 1 .. k}
  /\ UNCHANGED cq

SubmitOk(k) == k = 0 => sq = <<>>

(* The kernel posts the completion of a request it holds, in any order. *)
Complete(r, res) ==
  /\ r \in inflight
  /\ inflight' = inflight \ {r}
  /\ cq' = Append(cq, [req |-> r, res |-> res])
  /\ UNCHANGED sq

(* The oldest Cqe is dropped, which marks it as seen. *)
Reap ==
  /\ cq # <<>>
  /\ cq' = Tail(cq)
  /\ UNCHANGED <<sq, inflight>>

(* Drop of the ring: whatever it held is gone. *)
Exit ==
  /\ sq' = <<>>
  /\ inflight' = {}
  /\ cq' = <<>>

QNext ==
  \/ \E r \in Reqs : Push(r)
  \/ \E k \in 1 .. SqEntries : Take(k)
  \/ \E r \in Reqs, res \in Results : Complete(r, res)
  \/ Reap
  \/ Exit

QSpec == QInit /\ [][QNext]_qvars
=============================================================================
