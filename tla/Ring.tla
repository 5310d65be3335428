-------------------------------- MODULE Ring --------------------------------
(***************************************************************************)
(* The safe wrapper layer (src/uring.rs, src/queue.rs) over the two shared *)
(* rings of io_uring.                                                      *)
(*                                                                         *)
(* Both rings are arrays indexed by free-running u32 counters: CounterMod  *)
(* is 2^32 in the program and small here, so that they wrap.  The program  *)
(* owns sqeTail and cqHead; the kernel owns sqHead and cqTail.  IoUring    *)
(* has only &mut methods, so there is one caller; it runs against the      *)
(* kernel, which posts completions at any time and, with SQPOLL, takes     *)
(* submissions at any time.                                                *)
(***************************************************************************)
EXTENDS Integers, Sequences, FiniteSets, Functions

CONSTANTS
  Reqs,        \* identities of requests (what user_data names)
  Results,     \* values of cqe.res
  SqEntries,   \* sq.ring_entries
  CqEntries,   \* cq.ring_entries
  CounterMod,  \* 2^32: the modulus of the ring counters
  SqPollChoice, \* whether rings are set up with SetupFlags::SQPOLL: a set of Booleans
  NoReq        \* content of a ring slot nobody has written

ASSUME RingAssumption ==
  /\ SqEntries \in Nat \ {0} /\ SqEntries + 1 < CounterMod
  /\ CqEntries \in Nat \ {0} /\ CqEntries < CounterMod
  /\ CounterMod \in Nat
  /\ CounterMod % SqEntries = 0
  /\ CounterMod % CqEntries = 0
  /\ SqPollChoice \subseteq BOOLEAN
  /\ NoReq \notin Reqs

VARIABLES
  open,      \* queue_init succeeded and the IoUring is not dropped
  sqPoll,    \* the open ring was set up with SetupFlags::SQPOLL
  sqHead,    \* *sq.khead: next entry the kernel takes
  sqTail,    \* *sq.ktail: first entry the kernel may not take yet
  sqeTail,   \* sq.sqe_tail: next entry get_sqe hands out
  sqes,      \* the SQE slots
  sqe,       \* slot of the &mut sqe being prepared, or NoSlot
  cqHead,    \* *cq.khead: oldest CQE not marked as seen
  cqTail,    \* *cq.ktail: next slot the kernel writes
  cqes,      \* the CQE slots
  cqe,       \* slot the live Cqe guard points to, or NoSlot
  overflow,  \* completions the kernel holds back while the CQ is full
  inflight,  \* requests the kernel has taken and not completed
  call,      \* the call the program is blocked in
  want,      \* wait_nr of a blocked submit_and_wait
  space      \* slots the program still counts on since its last space_left()

sqVars   == <<sqHead, sqTail, sqeTail, sqes, sqe, space>>
cqVars   == <<cqHead, cqTail, cqes, overflow>>
userVars == <<cqe, call, want>>
vars     == <<open, sqPoll, sqVars, cqVars, userVars, inflight>>

NoSlot  == -1
NoCqe   == [req |-> NoReq, res |-> 0]
Counter == 0 .. CounterMod - 1

-----------------------------------------------------------------------------
(* u32 arithmetic of the counters, and the slot a counter selects. *)
WrapAdd(a, n) == (a + n) % CounterMod
WrapSub(a, b) == (a - b) % CounterMod
SqSlot(c)     == c % SqEntries
CqSlot(c)     == c % CqEntries

(* SubmissionQueue::space_left and what liburing calls cq_ready.  (Here and *)
(* below, an operator marked MUTANT is a mistake the definition after it    *)
(* could have contained; a property is shown to notice it.)                 *)
ToSubmit  == WrapSub(sqeTail, sqHead)
SpaceLeftPublished == SqEntries - WrapSub(sqTail, sqHead)  \* MUTANT: ktail for sqe_tail
SpaceLeft == SqEntries - ToSubmit
CqReady   == WrapSub(cqTail, cqHead)

(* The borrow checker lets a method of the ring be called only when no     *)
(* entry and no Cqe borrowed from it is alive.                             *)
IdleHoldingCqe == open /\ call = "none"  \* MUTANT: Cqe does not borrow the ring
Idle == open /\ call = "none" /\ cqe = NoSlot

FreeUnborrowed == Idle  \* MUTANT: entry does not borrow the ring
Free == Idle /\ sqe = NoSlot

(* What is queued and what is readable, oldest first, as sequences. *)
Queued   == IF sqe = NoSlot THEN ToSubmit ELSE ToSubmit - 1
SqWindow == [i \in 1 .. Queued |-> sqes[SqSlot(WrapAdd(sqHead, i - 1))]]
CqWindow == [i \in 1 .. CqReady |-> cqes[CqSlot(WrapAdd(cqHead, i - 1))]]

Held == Range(SqWindow) \cup inflight
          \cup {c.req : c \in Range(CqWindow \o overflow)}

-----------------------------------------------------------------------------
(* IoUring::new / with_flags / with_params when queue_init succeeds; when   *)
(* it fails there is no IoUring and nothing to drop.  One ring is followed  *)
(* at a time: the next one once the kernel has let go of the previous.      *)
NewSqes == [s \in 0 .. SqEntries - 1 |-> NoReq]
NewCqes == [s \in 0 .. CqEntries - 1 |-> NoCqe]

Init ==
  /\ open = FALSE /\ sqPoll = FALSE
  /\ sqHead = 0 /\ sqTail = 0 /\ sqeTail = 0 /\ sqes = NewSqes
  /\ cqHead = 0 /\ cqTail = 0 /\ cqes = NewCqes /\ overflow = <<>>
  /\ sqe = NoSlot /\ cqe = NoSlot
  /\ call = "none" /\ want = 0 /\ space = 0
  /\ inflight = {}

WithFlags ==
  /\ ~open /\ inflight = {}
  /\ open' = TRUE /\ sqPoll' \in SqPollChoice
  /\ UNCHANGED <<sqVars, cqVars, userVars, inflight>>

(* Drop for IoUring: queue_exit unmaps both rings; it does not wait for     *)
(* what is in flight, which the kernel cancels on its own time.  An entry   *)
(* that nobody prepared may have been given back: it is never submitted.    *)
DropRing ==
  /\ Idle
  /\ open' = FALSE /\ sqPoll' = FALSE /\ sqe' = NoSlot
  /\ sqHead' = 0 /\ sqTail' = 0 /\ sqeTail' = 0 /\ sqes' = NewSqes
  /\ cqHead' = 0 /\ cqTail' = 0 /\ cqes' = NewCqes /\ overflow' = <<>>
  /\ space' = 0
  /\ UNCHANGED <<userVars, inflight>>

(* get_sqe: an entry if there is one, else None (SubmissionQueueFull).  The *)
(* program has a request to put in it (bound: one per member of Reqs), and  *)
(* prepares it before its next call, unless that drops the ring.            *)
HasSqe == WrapSub(WrapAdd(sqeTail, 1), sqHead) <= SqEntries

NextSqe == SqSlot(sqeTail)

GetSqe ==
  /\ Free /\ Held # Reqs
  /\ HasSqe
  /\ sqe' = NextSqe
  /\ sqeTail' = WrapAdd(sqeTail, 1)
  /\ space' = IF space > 0 THEN space - 1 ELSE 0
  /\ UNCHANGED <<open, sqPoll, sqHead, sqTail, sqes, cqVars, userVars, inflight>>

GetSqeFull ==
  /\ Free
  /\ ~HasSqe
  /\ UNCHANGED vars

(* PrepareOp::prepare + set_user_data on the entry just handed out. *)
Prepare(r) ==
  /\ sqe # NoSlot
  /\ r \notin Held
  /\ sqes' = [sqes EXCEPT ![sqe] = r]
  /\ sqe' = NoSlot
  /\ UNCHANGED <<open, sqPoll, sqHead, sqTail, sqeTail, space, cqVars, userVars, inflight>>

(* space_left / is_full: the program remembers what it was told. *)
AskSpace ==
  /\ Free
  /\ space' = SpaceLeft
  /\ UNCHANGED <<open, sqPoll, sqHead, sqTail, sqeTail, sqes, sqe, cqVars, userVars, inflight>>

-----------------------------------------------------------------------------
(* The kernel's side of a system call (external). *)

(* The kernel takes k entries from the submission ring, in ring order. *)
Consume(k) ==
  /\ sqHead' = WrapAdd(sqHead, k)
  /\ inflight' = inflight \cup {sqes[SqSlot(WrapAdd(sqHead, i))] : i \in 0 .. k - 1}

(* Completions held back are moved to the ring as far as there is room. *)
FlushOverflow ==
  LET room  == CqEntries - CqReady
      moved == IF Len(overflow) < room THEN Len(overflow) ELSE room
  IN  /\ cqes' = [s \in DOMAIN cqes |->
                    LET i == WrapSub(s, CqSlot(cqTail)) % CqEntries
                    IN  IF i < moved THEN overflow[i + 1] ELSE cqes[s]]
      /\ cqTail' = WrapAdd(cqTail, moved)
      /\ overflow' = SubSeq(overflow, moved + 1, Len(overflow))
      /\ UNCHANGED cqHead

(* io_uring_enter for a submission: entries are published; without SQPOLL  *)
(* the kernel takes k of them here, and fewer than all (an error when it   *)
(* takes none) ends the call before any completion is looked at.           *)
Enter(k) ==
  /\ sqTail' = sqeTail
  /\ IF sqPoll THEN k = 0 /\ UNCHANGED <<sqHead, inflight>>
               ELSE k \in 0 .. ToSubmit /\ Consume(k)
  /\ IF sqPoll \/ k = ToSubmit THEN FlushOverflow ELSE UNCHANGED cqVars
  /\ UNCHANGED <<open, sqPoll, sqeTail, sqes, sqe, cqe, space>>

-----------------------------------------------------------------------------
(* IoUring::submit and SubmissionQueue::submit. *)
Submit ==
  /\ Free
  /\ \E k \in 0 .. SqEntries : Enter(k)
  /\ UNCHANGED <<call, want>>

(* submit_and_wait: after a full submission the caller blocks until        *)
(* wait_nr completions are readable, or a signal arrives.                  *)
SubmitAndWait(n) ==
  /\ Free
  /\ \E k \in 0 .. SqEntries :
       /\ Enter(k)
       /\ IF sqPoll \/ k = ToSubmit
          THEN call' = "submit_and_wait" /\ want' = n
          ELSE UNCHANGED <<call, want>>

SubmitAndWaitReturns ==
  /\ call = "submit_and_wait"
  /\ CqReady >= want
  /\ call' = "none" /\ want' = 0
  /\ UNCHANGED <<open, sqPoll, sqVars, cqVars, cqe, inflight>>

(* wait_cqe: the oldest completion; blocks when there is none. *)
WaitCqe ==
  /\ Free
  /\ IF CqReady > 0
     THEN cqe' = CqSlot(cqHead) /\ UNCHANGED <<call, cqVars>>
     ELSE call' = "wait_cqe" /\ FlushOverflow /\ UNCHANGED cqe
  /\ UNCHANGED <<open, sqPoll, sqVars, want, inflight>>

WaitCqeReturns ==
  /\ call = "wait_cqe"
  /\ CqReady > 0
  /\ cqe' = CqSlot(cqHead)
  /\ call' = "none"
  /\ UNCHANGED <<open, sqPoll, sqVars, cqVars, want, inflight>>

(* A signal ends the wait (external); both calls give up with what is done. *)
Interrupted ==
  /\ call # "none"
  /\ call' = "none" /\ want' = 0
  /\ UNCHANGED <<open, sqPoll, sqVars, cqVars, cqe, inflight>>

(* peek_cqe: an empty ring is refilled from the overflow list first. *)
PeekCqe ==
  /\ Free
  /\ IF CqReady > 0 THEN UNCHANGED cqVars ELSE FlushOverflow
  /\ cqe' = IF CqReady + Len(overflow) > 0 THEN CqSlot(cqHead) ELSE NoSlot
  /\ UNCHANGED <<open, sqPoll, sqVars, call, want, inflight>>

(* peek_batch reads without consuming; it only refills an empty ring. *)
PeekBatch ==
  /\ Free
  /\ CqReady = 0
  /\ FlushOverflow
  /\ UNCHANGED <<open, sqPoll, sqVars, userVars, inflight>>

(* Drop for Cqe (and into_result): the CQE is marked as seen. *)
SeenUnwrapped == cqHead + 1  \* MUTANT: a counter wider than u32
SeenTwice == WrapAdd(cqHead, 2)  \* MUTANT: into_result marks it, then drop does
NotSeen == cqHead  \* MUTANT: the Cqe is forgotten
Seen == WrapAdd(cqHead, 1)

DropCqe ==
  /\ cqe # NoSlot
  /\ cqe' = NoSlot
  /\ cqHead' = Seen
  /\ UNCHANGED <<open, sqPoll, sqVars, cqTail, cqes, overflow, call, want, inflight>>

-----------------------------------------------------------------------------
(* The kernel on its own time (external). *)

(* The SQPOLL thread takes one published entry. *)
SqThread ==
  /\ open /\ sqPoll
  /\ sqHead # sqTail
  /\ Consume(1)
  /\ UNCHANGED <<open, sqPoll, sqTail, sqeTail, sqes, sqe, space, cqVars, userVars>>

(* A completion goes to the ring, or behind those already held back. *)
PostCqe(r, res) ==
  LET done == [req |-> r, res |-> res]
  IN  /\ open /\ r \in inflight
      /\ inflight' = inflight \ {r}
      /\ IF overflow = <<>> /\ CqReady < CqEntries
         THEN /\ cqes' = [cqes EXCEPT ![CqSlot(cqTail)] = done]
              /\ cqTail' = WrapAdd(cqTail, 1)
              /\ UNCHANGED overflow
         ELSE /\ overflow' = Append(overflow, done)
              /\ UNCHANGED <<cqes, cqTail>>
      /\ UNCHANGED <<open, sqPoll, sqVars, cqHead, userVars>>

(* What was in flight when the ring was dropped ends without a CQE. *)
Cancelled(r) ==
  /\ ~open /\ r \in inflight
  /\ inflight' = inflight \ {r}
  /\ UNCHANGED <<open, sqPoll, sqVars, cqVars, userVars>>

Next ==
  \/ WithFlags \/ DropRing
  \/ GetSqe \/ GetSqeFull \/ AskSpace
  \/ \E r \in Reqs : Prepare(r)
  \/ Submit
  \/ \E n \in 1 .. CqEntries : SubmitAndWait(n)
  \/ SubmitAndWaitReturns \/ WaitCqe \/ WaitCqeReturns \/ Interrupted
  \/ PeekCqe \/ PeekBatch \/ DropCqe
  \/ SqThread
  \/ \E r \in Reqs, res \in Results : PostCqe(r, res)
  \/ \E r \in Reqs : Cancelled(r)

Spec == Init /\ [][Next]_vars

(* The kernel completes what it took and lets a wait return whose           *)
(* completions are there.  The program is one that prepares the entries and *)
(* drops the Cqes it gets, and comes back to peek_cqe as long as it is not  *)
(* blocked.  Signals, short submissions, and calls that block may never     *)
(* come, or come at every turn: nothing is assumed of them.                 *)
FairSpec ==
  /\ Spec
  /\ WF_vars(SqThread)
  /\ \A r \in Reqs : WF_vars(\E res \in Results : PostCqe(r, res)) /\ WF_vars(Cancelled(r))
  /\ WF_vars(SubmitAndWaitReturns) /\ WF_vars(WaitCqeReturns)
  /\ SF_vars(PeekCqe)
  /\ WF_vars(DropCqe) /\ WF_vars(\E r \in Reqs : Prepare(r))

-----------------------------------------------------------------------------
(* Type invariant. *)
TypeOK ==
  /\ open \in BOOLEAN /\ sqPoll \in BOOLEAN
  /\ {sqHead, sqTail, sqeTail, cqHead, cqTail} \subseteq Counter
  /\ sqes \in [0 .. SqEntries - 1 -> Reqs \cup {NoReq}]
  /\ cqes \in [0 .. CqEntries - 1 -> [req : Reqs \cup {NoReq}, res : Results \cup {0}]]
  /\ sqe \in 0 .. SqEntries - 1 \cup {NoSlot}
  /\ cqe \in 0 .. CqEntries - 1 \cup {NoSlot}
  /\ overflow \in Seq([req : Reqs, res : Results])
  /\ inflight \subseteq Reqs
  /\ call \in {"none", "wait_cqe", "submit_and_wait"}
  /\ want \in 0 .. CqEntries
  /\ space \in 0 .. SqEntries

(* space_left()'s u32 subtraction never underflows: entries handed out and  *)
(* not taken by the kernel never exceed the ring, published ones are among  *)
(* them, and the kernel never posts over a CQE not marked as seen.          *)
WithinRings ==
  /\ WrapSub(sqTail, sqHead) <= ToSubmit
  /\ ToSubmit <= SqEntries
  /\ CqReady <= CqEntries

(* What space_left() or is_full() answered stays true until the program     *)
(* spends it: as many get_sqe calls succeed, whatever the kernel does.      *)
SpaceIsKept == space > 0 => HasSqe

(* The kernel (the SQPOLL thread) may take no entry that prepare() is still *)
(* writing: a slot being prepared is not among the published entries.       *)
DraftIsPrivate ==
  sqe # NoSlot =>
    \A i \in 0 .. WrapSub(sqTail, sqHead) - 1 : SqSlot(WrapAdd(sqHead, i)) # sqe

(* What makes the three properties above inductive: the entry being         *)
(* prepared is the last one handed out and is not published, every other    *)
(* entry between khead and sqe_tail has been prepared, the live Cqe is the  *)
(* oldest one, and the program counts on no more slots than there are.      *)
DraftIsLast ==
  sqe # NoSlot =>
    /\ open /\ call = "none" /\ cqe = NoSlot
    /\ WrapSub(sqTail, sqHead) < ToSubmit
    /\ sqe = SqSlot(WrapAdd(sqHead, ToSubmit - 1))

WindowPrepared ==
  \A i \in 0 .. Queued - 1 : sqes[SqSlot(WrapAdd(sqHead, i))] \in Reqs

GuardIsOldest ==
  cqe # NoSlot => open /\ call = "none" /\ CqReady > 0 /\ cqe = CqSlot(cqHead)

RingInv ==
  /\ TypeOK
  /\ WithinRings
  /\ DraftIsLast
  /\ WindowPrepared
  /\ GuardIsOldest
  /\ call # "none" => open
  /\ space <= SpaceLeft

(* A request is in one place of the ring at a time, and once: it is never   *)
(* submitted twice, never completed twice, never both pending and complete. *)
EachRequestOnce ==
  LET done == CqWindow \o overflow
  IN  /\ \A i, j \in DOMAIN SqWindow : SqWindow[i] = SqWindow[j] => i = j
      /\ \A i, j \in DOMAIN done : done[i].req = done[j].req => i = j
      /\ Range(SqWindow) \cap inflight = {}
      /\ Range(SqWindow) \cap {c.req : c \in Range(done)} = {}
      /\ open => inflight \cap {c.req : c \in Range(done)} = {}

(* What a live Cqe reads does not change until it is dropped, and what a    *)
(* pointer from peek_batch reads does not change until its CQE is marked as *)
(* seen: the kernel does not reuse the slot.                                *)
ReadableStays ==
  /\ cqe # NoSlot /\ cqe' = cqe => cqes'[cqe] = cqes[cqe]
  /\ \A i \in 0 .. CqReady - 1 :
       LET s == CqSlot(WrapAdd(cqHead, i))
       IN  open' /\ i >= WrapSub(cqHead', cqHead) => cqes'[s] = cqes[s]

CqeStable == [][ReadableStays]_vars

(* The wrapping rings, the overflow list and the SQPOLL thread implement    *)
(* plain FIFO queues: nothing is lost, reordered or invented on the way in  *)
(* or on the way out.                                                       *)
Queues == INSTANCE RingQueues WITH
            sq       <- SqWindow,
            inflight <- IF open THEN inflight ELSE {},
            cq       <- CqWindow \o overflow

ImplementsQueues == Queues!QSpec

(* A request the kernel took is reaped, even when completions overflowed,   *)
(* and no wait misses its wakeup: the one caller that may stay blocked is a *)
(* submit_and_wait for more completions than there are requests.            *)
AsksForMore == call = "submit_and_wait" /\ want > Cardinality(Held)

SubmittedIsReaped == \A r \in Reqs : r \in inflight ~> r \notin Held \/ AsksForMore
=============================================================================
