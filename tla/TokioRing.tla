----------------------------- MODULE TokioRing ------------------------------
(***************************************************************************)
(* async_io::tokio_impl: AsyncIoUring shared by the tasks of a tokio       *)
(* runtime.  A task awaits its futures one after the other; a poll of a    *)
(* SubmitFuture holds the mutex from its first line to its return.         *)
(*                                                                         *)
(* Around it: the ring (RingQueues), the kernel that completes operations, *)
(* and tokio's I/O driver (external), which learns from an edge-triggered  *)
(* epoll that the ring's fd became readable, sets the AsyncFd's readiness  *)
(* and wakes the one task in the AsyncFd's reader slot.                    *)
(***************************************************************************)
EXTENDS Naturals, Sequences, FiniteSets, Functions

CONSTANTS
  Tasks,
  OpsPerTask,  \* bound: futures each task awaits
  SqEntries,
  Programs,    \* the programs and the circumstances they run in: records of
               \*   tasks    the tasks there are
               \*   slow     futures whose operation completes after submit()
               \*            returned; the others' (a Nop) complete inside it
               \*   workers  runtime threads; 1 is the current-thread runtime
               \*   faults   submit() may fail or be short
               \*   drops    a pending future may be dropped (select!, timeout)
               \*   stops    the runtime's I/O driver may shut down
  NoTask, NoFuture

Futures == Tasks \X (1 .. OpsPerTask)
UserData == 1 .. Cardinality(Futures)

ASSUME TokioAssumption ==
  /\ IsFiniteSet(Tasks)
  /\ OpsPerTask \in Nat \ {0} /\ SqEntries \in Nat \ {0}
  /\ Programs \subseteq [tasks : SUBSET Tasks, slow : SUBSET Futures, workers : Nat \ {0},
                         faults : BOOLEAN, drops : BOOLEAN, stops : BOOLEAN]
  /\ NoTask \notin Tasks /\ NoFuture \notin Futures

VARIABLES
  program,           \* one of Programs
  sq, inflight, cq,  \* inner.ring, as RingQueues
  wakers,            \* inner.wakers
  nextUserData,      \* inner.next_user_data
  userData,          \* future.user_data, 0 for None
  state, got,        \* outcome of each future, as in SubmitOp
  executed,          \* operations the kernel has completed (history)
  current,           \* number of the future the task awaits
  poll,              \* where the task's poll is
  woken,             \* the task is in the run queue
  ready,             \* readiness of the AsyncFd
  reader,            \* the AsyncFd's one waker slot for readers
  edge,              \* epoll has an unreported wakeup of the ring's fd
  event,             \* the driver holds an event it has not dispatched
  stopped            \* the driver is shut down

ring    == <<sq, inflight, cq, executed>>
inner   == <<wakers, nextUserData, userData>>
outcome == <<state, got, current>>
driver  == <<ready, reader, edge, event, stopped>>
vars    == <<ring, inner, outcome, poll, woken, driver>>

Queues == INSTANCE RingQueues WITH Reqs <- Futures, Results <- {0}

Future(t)   == <<t, current[t]>>
Finished(t) == state[Future(t)] \notin {"unborn", "waiting"}
Locked(t)   == poll[t] \in {"submitting", "draining", "arming"}

(* A worker polls a task or turns the driver. *)
Busy == Cardinality({t \in Tasks : poll[t] # "idle"}) + (IF event THEN 1 ELSE 0)

Woken(t) == [woken EXCEPT ![t] = TRUE]

Init ==
  /\ program \in Programs
  /\ Queues!QInit
  /\ wakers = [u \in UserData |-> NoTask]
  /\ nextUserData = 1
  /\ userData = [f \in Futures |-> 0]
  /\ state = [f \in Futures |-> "unborn"] /\ got = [f \in Futures |-> NoFuture]
  /\ executed = {}
  /\ current = [t \in Tasks |-> 1]
  /\ poll = [t \in Tasks |-> "idle"]
  /\ woken = [t \in Tasks |-> t \in program.tasks]
  /\ ready = FALSE /\ reader = NoTask /\ edge = FALSE /\ event = FALSE
  /\ stopped = FALSE

-----------------------------------------------------------------------------
(* The runtime polls a woken task; the task polls the future it awaits. *)
TaskPoll(t) ==
  /\ woken[t] /\ poll[t] = "idle" /\ ~Finished(t) /\ Busy < program.workers
  /\ woken' = [woken EXCEPT ![t] = FALSE]
  /\ poll' = [poll EXCEPT ![t] = "locking"]
  /\ UNCHANGED <<ring, inner, outcome, driver>>

(* future.ring.lock(): a std Mutex, which blocks the worker.  (Here and      *)
(* below, an operator marked MUTANT is a mistake the definition after it     *)
(* could have contained; a property is shown to notice it.)                  *)
UnlockedAfterSubmit == \A t \in Tasks : poll[t] # "submitting"  \* MUTANT: held for submit only
Unlocked == \A t \in Tasks : ~Locked(t)

Lock(t) ==
  /\ poll[t] = "locking"
  /\ Unlocked
  /\ poll' = [poll EXCEPT ![t] = IF state[Future(t)] = "unborn" THEN "submitting"
                                 ELSE "draining"]
  /\ state' = [state EXCEPT ![Future(t)] = "waiting"]
  /\ UNCHANGED <<ring, inner, got, current, woken, driver>>

(* A future is over: the mutex is released, and the task, still being       *)
(* polled, creates and polls its next one.                                  *)
Over(t, how, of) ==
  /\ state' = [state EXCEPT ![Future(t)] = how]
  /\ got' = [got EXCEPT ![Future(t)] = of]
  /\ IF current[t] < OpsPerTask
     THEN /\ current' = [current EXCEPT ![t] = @ + 1]
          /\ poll' = [poll EXCEPT ![t] = "locking"]
     ELSE /\ poll' = [poll EXCEPT ![t] = "idle"]
          /\ UNCHANGED current

(* First poll: op.take() and a fresh user_data, then ... *)
SameUserData == nextUserData       \* MUTANT: the counter is not advanced
TwoUserData == nextUserData + 2     \* MUTANT: advanced when taken and when submitted
FreshUserData == nextUserData + 1

TakeOp(t) ==
  /\ poll[t] = "submitting"
  /\ userData' = [userData EXCEPT ![Future(t)] = nextUserData]
  /\ nextUserData' = FreshUserData

(* ... get_sqe_or_err() fails, ... *)
SubmitFull(t) ==
  /\ TakeOp(t)
  /\ ~Queues!CanPush
  /\ Over(t, "err", NoFuture)
  /\ UNCHANGED <<ring, wakers, woken, driver>>

(* ... or prepare, set_user_data and submit(): the kernel takes the k oldest *)
(* entries of the queue, and completes at once those that never block.       *)
SubmitTakes(t, k) ==
  LET queue == Append(sq, Future(t))
      taken == {queue[i] : i \in 1 .. k}
      fast == {i \in 1 .. k : queue[i] \notin program.slow}
  IN  /\ Queues!CanPush
      /\ k \in IF program.faults THEN 0 .. Len(queue) ELSE {Len(queue)}
      /\ sq' = SubSeq(queue, k + 1, Len(queue))
      /\ inflight' = inflight \cup (taken \cap program.slow)
      /\ \E order \in [1 .. Cardinality(fast) -> fast] :
           /\ \A i, j \in DOMAIN order : i < j => order[i] < order[j]
           /\ cq' = cq \o [i \in DOMAIN order |-> [req |-> queue[order[i]], res |-> 0]]
      /\ executed' = executed \cup (taken \ program.slow)
      /\ edge' = (edge \/ fast # {})
      /\ UNCHANGED <<ready, reader, event, stopped>>

SubmitFails(t) ==
  /\ TakeOp(t)
  /\ SubmitTakes(t, 0)
  /\ Over(t, "err", NoFuture)
  /\ UNCHANGED <<wakers, woken>>

SubmitOk(t) ==
  /\ TakeOp(t)
  /\ \E k \in 1 .. SqEntries : SubmitTakes(t, k)
  /\ wakers' = [wakers EXCEPT ![nextUserData] = t]
  /\ poll' = [poll EXCEPT ![t] = "draining"]
  /\ UNCHANGED <<outcome, woken>>

-----------------------------------------------------------------------------
(* One turn of the loop over peek_cqe(); the Cqe is dropped before the next. *)
OwnCqeUnchecked(t) == cq # <<>>  \* MUTANT: the oldest completion is taken for one's own
OwnCqe(t) == cq # <<>> /\ userData[Head(cq).req] = userData[Future(t)]

ForgetKept(t) == wakers  \* MUTANT: the waker stays registered
Forget(t) == [wakers EXCEPT ![userData[Future(t)]] = NoTask]

DrainOwn(t) ==
  /\ poll[t] = "draining"
  /\ OwnCqe(t)
  /\ Queues!Reap
  /\ wakers' = Forget(t)
  /\ Over(t, "ok", Head(cq).req)
  /\ UNCHANGED <<executed, nextUserData, userData, woken, driver>>

(* Another future's completion: its task is woken, its result is dropped. *)
PeekOnce  == "arming"   \* MUTANT: an if for the loop
PeekAgain == "draining"

DrainOther(t) ==
  /\ poll[t] = "draining"
  /\ cq # <<>> /\ ~OwnCqe(t)
  /\ Queues!Reap
  /\ LET u == userData[Head(cq).req]
     IN  /\ woken' = IF wakers[u] = NoTask THEN woken ELSE Woken(wakers[u])
         /\ wakers' = [wakers EXCEPT ![u] = NoTask]
  /\ poll' = [poll EXCEPT ![t] = PeekAgain]
  /\ UNCHANGED <<executed, nextUserData, userData, outcome, driver>>

DrainedAll(t) ==
  /\ poll[t] = "draining"
  /\ cq = <<>>
  /\ poll' = [poll EXCEPT ![t] = "arming"]
  /\ UNCHANGED <<ring, inner, outcome, woken, driver>>

(* async_fd.poll_read_ready(): an error once the driver is gone; readiness, *)
(* which is cleared; or neither, which leaves this task in the reader slot. *)
ArmFails(t) ==
  /\ poll[t] = "arming"
  /\ stopped
  /\ Over(t, "err", NoFuture)
  /\ UNCHANGED <<ring, inner, woken, driver>>

RegisterOnce(t) == wakers  \* MUTANT: the waker is registered by the first poll only
Register(t) == [wakers EXCEPT ![userData[Future(t)]] = t]

ReaderUnset(t) == reader  \* MUTANT: nobody is registered with the driver
Reader(t) == t

Arm(t) ==
  /\ poll[t] = "arming"
  /\ ~stopped
  /\ IF ready THEN ready' = FALSE /\ UNCHANGED reader
              ELSE reader' = Reader(t) /\ UNCHANGED ready
  /\ wakers' = Register(t)
  /\ poll' = [poll EXCEPT ![t] = "idle"]
  /\ UNCHANGED <<ring, nextUserData, userData, outcome, woken, edge, event, stopped>>

(* The task drops the future it waits for, from a poll of its own (a timer, *)
(* another branch of a select), and goes on to its next future.             *)
Drop(t) ==
  /\ program.drops
  /\ poll[t] = "idle" /\ state[Future(t)] = "waiting" /\ Busy < program.workers
  /\ Over(t, "dropped", NoFuture)
  /\ UNCHANGED <<ring, inner, woken, driver>>

-----------------------------------------------------------------------------
(* The kernel completes an operation and wakes who polls the ring's fd. *)
Complete(f) ==
  /\ Queues!Complete(f, 0)
  /\ executed' = executed \cup {f}
  /\ edge' = TRUE
  /\ UNCHANGED <<inner, outcome, poll, woken, ready, reader, event, stopped>>

(* A worker with no task to poll asks epoll, which reports the edge only    *)
(* while the completion queue is not empty, ...                             *)
EpollWait ==
  /\ edge /\ ~event /\ ~stopped /\ Busy < program.workers
  /\ edge' = FALSE
  /\ event' = (cq # <<>>)
  /\ UNCHANGED <<ring, inner, outcome, poll, woken, ready, reader, stopped>>

(* ... and dispatches the event. *)
Dispatch ==
  /\ event
  /\ event' = FALSE
  /\ ready' = TRUE
  /\ reader' = NoTask
  /\ woken' = IF reader = NoTask THEN woken ELSE Woken(reader)
  /\ UNCHANGED <<ring, inner, outcome, poll, edge, stopped>>

(* Shutting the driver down wakes whoever is in the slot. *)
StopDriver ==
  /\ program.stops /\ ~stopped /\ ~event
  /\ stopped' = TRUE
  /\ reader' = NoTask
  /\ woken' = IF reader = NoTask THEN woken ELSE Woken(reader)
  /\ UNCHANGED <<ring, inner, outcome, poll, ready, edge, event>>

PollStep(t) ==
  \/ SubmitFull(t) \/ SubmitFails(t) \/ SubmitOk(t)
  \/ DrainOwn(t) \/ DrainOther(t) \/ DrainedAll(t)
  \/ ArmFails(t) \/ Arm(t)

Next ==
  /\ \/ \E t \in Tasks : TaskPoll(t) \/ Lock(t) \/ PollStep(t) \/ Drop(t)
     \/ \E f \in Futures : Complete(f)
     \/ EpollWait \/ Dispatch \/ StopDriver
  /\ UNCHANGED program

Spec == Init /\ [][Next]_<<program, vars>>

(* The runtime polls what is woken and turns its driver, a poll never       *)
(* blocks but on the mutex, and the kernel completes what it has taken.     *)
(* Nothing makes a task drop a future or the driver stop.                   *)
FairSpec ==
  /\ Spec
  /\ \A t \in Tasks : SF_vars(TaskPoll(t)) /\ SF_vars(Lock(t)) /\ WF_vars(PollStep(t))
  /\ \A f \in Futures : WF_vars(Complete(f))
  /\ SF_vars(EpollWait) /\ WF_vars(Dispatch)

-----------------------------------------------------------------------------
(* Type invariant. *)
TypeOK ==
  /\ program \in Programs
  /\ sq \in Seq(Futures) /\ inflight \subseteq Futures /\ cq \in Seq(Queues!Cqes)
  /\ wakers \in [UserData -> Tasks \cup {NoTask}]
  /\ nextUserData \in 1 .. Cardinality(Futures) + 1
  /\ userData \in [Futures -> UserData \cup {0}]
  /\ state \in [Futures -> {"unborn", "waiting", "ok", "err", "dropped"}]
  /\ got \in [Futures -> Futures \cup {NoFuture}]
  /\ current \in [Tasks -> 1 .. OpsPerTask]
  /\ poll \in [Tasks -> {"idle", "locking", "submitting", "draining", "arming"}]
  /\ woken \in [Tasks -> BOOLEAN]
  /\ {ready, edge, event, stopped} \subseteq BOOLEAN
  /\ reader \in Tasks \cup {NoTask}
  /\ executed \subseteq Futures

(* Whatever fails, is dropped or arrives out of order, a future that        *)
(* resolves Ok returns the result code of its own operation, and no         *)
(* operation is carried out twice.                                          *)
Promise == INSTANCE SubmitOp

ImplementsSubmitOp == Promise!PSpec

(* The wakers map and the tasks agree: a registered waker belongs to the    *)
(* task that awaits that user_data, and no entry outlives an Ok future.     *)
WakersAreOwn ==
  /\ \A u \in UserData :
       wakers[u] # NoTask => \E n \in 1 .. OpsPerTask : userData[<<wakers[u], n>>] = u
  /\ \A f \in Futures : state[f] = "ok" => wakers[userData[f]] = NoTask

(* A task that sleeps on a pending future can be found by whoever drains    *)
(* its completion: the drain that removed its waker also woke it, and it    *)
(* registered again before it went back to sleep.                           *)
SleepersAreRegistered ==
  \A t \in Tasks :
    poll[t] = "idle" /\ ~woken[t] /\ state[Future(t)] = "waiting"
      => wakers[userData[Future(t)]] = t

(* When every operation completes inside submit(), a poll leaves nothing    *)
(* behind: no entry, no completion and no waker is there for the next one.  *)
Calm == program.slow = {} /\ ~program.faults /\ ~program.drops /\ ~program.stops

QuietBetweenPolls ==
  Calm /\ Unlocked =>
    /\ sq = <<>> /\ inflight = {} /\ cq = <<>>
    /\ \A u \in UserData : wakers[u] = NoTask

(* "A future that resolves": no submitted operation waits for ever. *)
FutureResolves ==
  \A f \in Futures : state[f] = "waiting" ~> state[f] # "waiting"

(* Where the result of an operation may be, and where its task may be.      *)
Completed(q) == {c.req : c \in Range(q)}
Stolen(f)    == f \in executed \ Completed(cq)
Deaf(t)      == poll[t] = "idle" /\ ~woken[t] /\ reader # t

(* "To the result code of the operation": once the operation is carried out *)
(* its future resolves, by whatever way the result comes to it, except that *)
(* it may sleep where no event wakes it (which FutureResolves is about).    *)
CompletionsAreDelivered ==
  \A f \in Futures :
    state[f] = "waiting" /\ f \in executed ~> state[f] # "waiting" \/ Deaf(f[1])

(* What is true of all programs: whatever failed, was dropped or was shut   *)
(* down, a future that waits for ever does so for one of three reasons and  *)
(* never for another: another future's poll has drained its completion and  *)
(* woken its task for nothing (the code keeps no result for it); its task   *)
(* sleeps and the driver wakes another one, or none; or a short submission  *)
(* left its entry in the queue with nobody to submit it.  When every        *)
(* operation completes inside submit(), no future waits for ever.           *)
WaitsForAReason ==
  <>[](\A f \in Futures :
         state[f] = "waiting" => ~Calm /\ (Stolen(f) \/ Deaf(f[1]) \/ f \in Range(sq)))
=============================================================================
