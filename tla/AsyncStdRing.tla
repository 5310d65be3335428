---------------------------- MODULE AsyncStdRing ----------------------------
(***************************************************************************)
(* async_io::async_std_impl: submit_op hands a closure to the blocking     *)
(* thread pool; the closure locks the ring, submits one operation, waits   *)
(* for a completion and takes it for its own: every operation carries      *)
(* user_data 1, which nobody looks at.  Composed with the ring             *)
(* (RingQueues) and the kernel.                                            *)
(***************************************************************************)
EXTENDS Naturals, Sequences, FiniteSets, Functions

CONSTANTS
  Futures,     \* one call of submit_op each
  After,       \* <<f, g>> \in After: f cannot complete before g did (a recv
               \* and the send it waits for)
  SqEntries,
  Faults,      \* submit() may fail or be short, a signal may end wait_cqe()
  MayDrop,     \* a future may be dropped while its closure runs
  NoFuture

ASSUME AsyncStdAssumption ==
  /\ After \subseteq Futures \X Futures
  /\ SqEntries \in Nat \ {0}
  /\ {Faults, MayDrop} \subseteq BOOLEAN
  /\ NoFuture \notin Futures

VARIABLES
  sq, inflight, cq,  \* the ring, as RingQueues
  state, got,        \* outcome of each future, as in SubmitOp
  executed,          \* operations the kernel has completed (history)
  closure,           \* where the blocking closure of each future is
  failed             \* closures that failed after get_sqe (history)

ring == <<sq, inflight, cq, executed>>
vars == <<ring, state, got, closure, failed>>

Queues == INSTANCE RingQueues WITH Reqs <- Futures, Results <- {0}

Unlocked == \A f \in Futures : closure[f] \notin {"submitting", "waiting"}

Init ==
  /\ Queues!QInit /\ executed = {}
  /\ state = [f \in Futures |-> "unborn"] /\ got = [f \in Futures |-> NoFuture]
  /\ closure = [f \in Futures |-> "none"]
  /\ failed = {}

-----------------------------------------------------------------------------
(* The closure of f returns and unlocks the ring; what it returns is lost   *)
(* when the future has been dropped.                                        *)
Returns(f, how, of) ==
  /\ closure' = [closure EXCEPT ![f] = "done"]
  /\ IF state[f] = "waiting"
     THEN /\ state' = [state EXCEPT ![f] = how]
          /\ got' = [got EXCEPT ![f] = of]
     ELSE UNCHANGED <<state, got>>

(* First poll: ring.clone() and spawn_blocking.  The future borrows the     *)
(* AsyncIoUring (an async fn on &mut self), so it is the only one alive;    *)
(* closures of dropped futures may still be around.                         *)
SpawnBlocking(f) ==
  /\ closure[f] = "none"
  /\ \A g \in Futures : state[g] # "waiting"
  /\ closure' = [closure EXCEPT ![f] = "locking"]
  /\ state' = [state EXCEPT ![f] = "waiting"]
  /\ UNCHANGED <<ring, got, failed>>

(* The JoinHandle is dropped with the future; the closure is not stopped. *)
Drop(f) ==
  /\ MayDrop /\ state[f] = "waiting"
  /\ state' = [state EXCEPT ![f] = "dropped"]
  /\ UNCHANGED <<ring, got, closure, failed>>

(* ring.lock() (a std Mutex), held until the closure returns.  An operator   *)
(* marked MUTANT is a mistake the definition after it could have contained.  *)
SubmittedUnlocked == \A f \in Futures : closure[f] # "submitting"  \* MUTANT: wait outside the lock
NeverUnlocked == \A f \in Futures : closure[f] \in {"none", "locking"}  \* MUTANT: the guard is leaked
MayLock == Unlocked

Lock(f) ==
  /\ closure[f] = "locking"
  /\ MayLock
  /\ closure' = [closure EXCEPT ![f] = "submitting"]
  /\ UNCHANGED <<ring, state, got, failed>>

GetSqeFull(f) ==
  /\ closure[f] = "submitting"
  /\ ~Queues!CanPush
  /\ Returns(f, "err", NoFuture)
  /\ UNCHANGED <<ring, failed>>

(* get_sqe, prepare and submit: the kernel takes the k oldest entries. *)
SubmitTakes(f, k) ==
  LET queue == Append(sq, f)
  IN  /\ closure[f] = "submitting" /\ Queues!CanPush
      /\ k \in IF Faults THEN 0 .. Len(queue) ELSE {Len(queue)}
      /\ sq' = SubSeq(queue, k + 1, Len(queue))
      /\ inflight' = inflight \cup {queue[i] : i \in 1 .. k}
      /\ UNCHANGED <<cq, executed>>

SubmitFails(f) ==
  /\ SubmitTakes(f, 0)
  /\ Returns(f, "err", NoFuture)
  /\ failed' = failed \cup {f}

SubmitOk(f) ==
  /\ \E k \in 1 .. SqEntries : SubmitTakes(f, k)
  /\ closure' = [closure EXCEPT ![f] = "waiting"]
  /\ UNCHANGED <<state, got, failed>>

(* wait_cqe()?; the Cqe is read and dropped, which marks it as seen. *)
CqeForgotten == UNCHANGED <<sq, inflight, cq>>  \* MUTANT: never marked as seen
CqeSeen == Queues!Reap
UserDataOf(c) == 1  \* MUTANT: cqe.user_data() for cqe.result()
ResultOf(c) == c.req

WaitCqe(f) ==
  /\ closure[f] = "waiting" /\ cq # <<>>
  /\ CqeSeen
  /\ Returns(f, "ok", ResultOf(Head(cq)))
  /\ UNCHANGED <<executed, failed>>

WaitInterrupted(f) ==
  /\ Faults
  /\ closure[f] = "waiting" /\ cq = <<>>
  /\ Returns(f, "err", NoFuture)
  /\ failed' = failed \cup {f}
  /\ UNCHANGED ring

(* The kernel completes an operation once what it depends on has happened. *)
Complete(f) ==
  /\ \A g \in Futures : <<f, g>> \in After => g \in executed
  /\ Queues!Complete(f, 0)
  /\ executed' = executed \cup {f}
  /\ UNCHANGED <<state, got, closure, failed>>

ClosureStep(f) ==
  \/ GetSqeFull(f) \/ SubmitFails(f) \/ SubmitOk(f) \/ WaitCqe(f)

Next ==
  \E f \in Futures :
    \/ SpawnBlocking(f) \/ Drop(f) \/ Lock(f) \/ ClosureStep(f)
    \/ WaitInterrupted(f) \/ Complete(f)

Spec == Init /\ [][Next]_vars

(* A thread that runs goes on, the mutex goes to each thread that wants it  *)
(* in the end, and the kernel completes what nothing holds up.              *)
FairSpec ==
  /\ Spec
  /\ \A f \in Futures :
       SF_vars(Lock(f)) /\ WF_vars(ClosureStep(f)) /\ WF_vars(Complete(f))

-----------------------------------------------------------------------------
(* Type invariant. *)
TypeOK ==
  /\ sq \in Seq(Futures) /\ inflight \subseteq Futures /\ cq \in Seq(Queues!Cqes)
  /\ state \in [Futures -> {"unborn", "waiting", "ok", "err", "dropped"}]
  /\ got \in [Futures -> Futures \cup {NoFuture}]
  /\ executed \subseteq Futures /\ failed \subseteq Futures
  /\ closure \in [Futures -> {"none", "locking", "submitting", "waiting", "done"}]

Left == Len(sq) + Cardinality(inflight) + Len(cq)

(* Each closure leaves the ring as it found it, but one that failed after   *)
(* get_sqe leaves one operation too many behind, for good: it stays queued, *)
(* in flight or completed, and shifts what every later closure takes.       *)
LeftByFailures ==
  Unlocked => Left = Cardinality(failed)

(* The mutex makes the oldest completion the right one as long as nobody   *)
(* fails half way: until then, a future that resolves Ok returns the result *)
(* of its own operation, although completions carry no identity.            *)
OwnResultUntilFailure ==
  failed = {} => \A f \in Futures : state[f] = "ok" => got[f] = f

(* "A future that resolves to the result code of the operation", whatever   *)
(* failed before.                                                           *)
Promise == INSTANCE SubmitOp

ImplementsSubmitOp == Promise!PSpec

(* A future resolves, whatever failed or was dropped before it, unless the  *)
(* ring is held up: an operation in flight, that of a dropped future maybe, *)
(* depends on one that only a later closure could submit.                   *)
HeldUp ==
  \E f \in inflight, g \in Futures : <<f, g>> \in After /\ g \notin executed

ResolvesUnlessHeldUp ==
  \A f \in Futures : state[f] = "waiting" ~> state[f] # "waiting" \/ HeldUp
=============================================================================
