------------------------------ MODULE Examples ------------------------------
(***************************************************************************)
(* The small examples: nop, read_file, cat, poll-bench, and the async nops *)
(* and poll benchmarks.  Each is one thread of control that goes through   *)
(* the same steps round after round, on a ring (RingQueues) of its own:    *)
(*                                                                         *)
(*   queue   get_sqe, prepare and set_user_data, for each request          *)
(*   submit  submit(), or the first half of submit_and_wait(1)             *)
(*   block   the second half of submit_and_wait(1)                         *)
(*   wait    wait_cqe() for each request                                   *)
(*   own     the await of the tokio SubmitFuture: drain up to one's own    *)
(*   result  wait_cqe() and what cat does with the result                  *)
(*   peek    peek_cqe() and what read_file does with the result            *)
(*   write, read   one byte into the pipe that is polled, and out of it    *)
(*                                                                         *)
(* What a Nop, or a poll of a readable pipe, asks for is done inside       *)
(* submit(), so that the await of an async example needs no wakeup.  What  *)
(* wakeups do is in TokioRing.                                             *)
(***************************************************************************)
EXTENDS Integers, Sequences, FiniteSets, Functions

CONSTANTS
  QueueDepth,  \* QUEUE_DEPTH of poll-bench
  SqEntries,   \* entries of the ring: 1024, 256 or 8
  FileSize,    \* bytes of the file that is read
  BlockSize,   \* BLOCK_SIZE of cat
  MaxRounds    \* bound: rounds of a benchmark before its deadline

ASSUME ExamplesAssumption ==
  /\ QueueDepth \in Nat \ {0} /\ SqEntries \in Nat /\ QueueDepth <= SqEntries
  /\ FileSize \in Nat \ {0} /\ BlockSize \in Nat \ {0}
  /\ MaxRounds \in Nat /\ MaxRounds > FileSize

AsyncBenches == {"bench_tokio", "bench_async_std"}
Nops         == {"nop", "nop_tokio", "nop_async_std"}
Loops        == AsyncBenches \cup {"cat", "poll_bench"}
Programs     == Loops \cup Nops \cup {"read_file"}

NopSteps        == <<"queue", "submit", "wait">>
ReadFileSteps   == <<"queue", "submit", "block", "peek">>
CatSteps        == <<"queue", "submit", "block", "result">>
PollBenchSteps  == <<"queue", "submit", "write", "read", "wait">>
NopTokioSteps   == <<"queue", "submit", "own">>
NopAsyncSteps   == <<"queue", "submit", "wait">>
BenchTokioSteps == <<"write", "queue", "submit", "own", "read">>
BenchAsyncSteps == <<"write", "queue", "submit", "wait", "read">>

Steps == [
  nop |-> NopSteps, read_file |-> ReadFileSteps, cat |-> CatSteps,
  poll_bench |-> PollBenchSteps,
  nop_tokio |-> NopTokioSteps, nop_async_std |-> NopAsyncSteps,
  bench_tokio |-> BenchTokioSteps, bench_async_std |-> BenchAsyncSteps]

VARIABLES
  program,           \* which one runs
  sq, inflight, cq,  \* its ring, as RingQueues
  entry,             \* what the entry of each request asks for
  step, round,       \* where it is
  end,               \* "running", or main returned "ok" or "err"
  left,              \* completions it still waits for in this round
  registered,        \* io_uring_register_files succeeded
  pipe,              \* bytes in the pipe
  fired,             \* polls that the write woke
  offset, out,       \* cat's offset, and what was printed
  interrupted        \* a signal ended submit_and_wait (history)

ring    == <<sq, inflight, cq>>
outside == <<registered, pipe, fired>>
data    == <<offset, out, interrupted>>
control == <<step, round, end>>
vars    == <<program, ring, entry, control, left, outside, data>>

(* A request: the i-th of a round. *)
Reqs  == (1 .. MaxRounds) \X (1 .. QueueDepth)
Errno == -1

Queues == INSTANCE RingQueues WITH Results <- Errno .. FileSize

Batch == IF program = "poll_bench" THEN QueueDepth ELSE 1

At(s) == end = "running" /\ Steps[program][step] = s

-----------------------------------------------------------------------------
(* ops.rs: an operation, prepared on an entry; the entry's flags are clear, *)
(* and its user_data is what the slot held until it is set.                 *)
Prepare(opcode, fd, len, off) ==
  [opcode |-> opcode, fd |-> fd, len |-> len, off |-> off, flags |-> {}, userData |-> 0]

SetFlags(sqe, flags)    == [sqe EXCEPT !.flags = flags]
SetUserData(sqe, value) == [sqe EXCEPT !.userData = value]

(* Read::from_slice on a buffer of size bytes. *)
ReadFromSlice(fd, size, off) == Prepare("READ", fd, size, off)

Nop == Prepare("NOP", "none", 0, 0)

(* PollOp of the async benchmarks; poll-bench polls fixed file 0.  (Here    *)
(* and below, an operator marked MUTANT is a mistake the definition after   *)
(* it could have contained; a property is shown to notice it.)              *)
PollOp(fd) == Prepare("POLL_ADD", fd, 0, 0)
PollUnflagged == PollOp("0")  \* MUTANT: FIXED_FILE is not set
PollFixed == SetFlags(PollOp("0"), {"FIXED_FILE"})

(* The entry each program makes; tokio's next_user_data counts the rounds. *)
NewEntry ==
  LET op == CASE program \in Nops          -> Nop
              [] program = "read_file"  -> ReadFromSlice("file", FileSize + 1, 0)
              [] program = "cat"        -> ReadFromSlice("file", BlockSize, offset)
              [] program = "poll_bench" -> PollFixed
              [] OTHER                  -> PollOp("pipe")
  IN  SetUserData(op, IF program = "bench_tokio" THEN round ELSE 1)

-----------------------------------------------------------------------------
(* main up to its first round: the ring is set up (poll-bench tries twice)  *)
(* or main returns the error; poll-bench registers its files, or is told    *)
(* that it failed and goes on.                                              *)
Init ==
  /\ program \in Programs
  /\ Queues!QInit
  /\ entry = [r \in Reqs |-> Nop]
  /\ step = 1 /\ round = 1 /\ left = 0
  /\ end \in {"running", "err"}
  /\ registered \in IF program = "poll_bench" THEN BOOLEAN ELSE {FALSE}
  /\ pipe = 0 /\ fired = {}
  /\ offset = 0 /\ out = <<>> /\ interrupted = FALSE

Stop(how) == end' = how /\ UNCHANGED <<step, round>>

(* On to the next step, to the next round, or to the end of main. *)
Advance ==
  IF step < Len(Steps[program]) THEN step' = step + 1 /\ UNCHANGED <<round, end>>
  ELSE IF program \in Loops THEN step' = 1 /\ round' = round + 1 /\ UNCHANGED end
  ELSE Stop("ok")

(* A call of the library failed: main returns the error; an async benchmark *)
(* prints it and reads the byte back.                                       *)
Fails ==
  IF program \in AsyncBenches THEN step' = Len(Steps[program]) /\ UNCHANGED <<round, end>>
                              ELSE Stop("err")

(* The benchmarks' clock, read before a round (bound: MaxRounds of them). *)
InTime == round <= MaxRounds

Deadline ==
  /\ end = "running" /\ step = 1 /\ program \in AsyncBenches \cup {"poll_bench"}
  /\ Stop("ok")
  /\ UNCHANGED <<program, ring, entry, left, outside, data>>

(* poll-bench goes without the entries that get_sqe does not give it; the   *)
(* others return the error of get_sqe_or_err.                               *)
OneTooFew(n) == n - 1  \* MUTANT: for _ in 1..QUEUE_DEPTH
Entries(n) == n
WaitForOne == 1        \* MUTANT: one completion stands for the batch
ToWaitFor == Batch

Queue ==
  LET room == SqEntries - Len(sq)
      n    == Entries(IF Batch <= room THEN Batch ELSE room)
  IN  /\ At("queue") /\ InTime
      /\ IF room = 0 /\ program # "poll_bench"
         THEN Fails /\ UNCHANGED <<sq, entry, left>>
         ELSE /\ sq' = sq \o [i \in 1 .. n |-> <<round, i>>]
              /\ entry' = [r \in Reqs |-> IF r \in {round} \X (1 .. n) THEN NewEntry
                                                                     ELSE entry[r]]
              /\ left' = ToWaitFor
              /\ Advance
      /\ UNCHANGED <<program, inflight, cq, outside, data>>

-----------------------------------------------------------------------------
(* The file an entry is about: itself, or a slot of the registered table. *)
FileOf(sqe) ==
  IF sqe.flags = {} THEN sqe.fd
  ELSE IF registered /\ sqe.fd = "0" THEN "pipe" ELSE "EBADF"

(* What the kernel completes while it takes the entry. *)
AtOnce(r) ==
  \/ entry[r].opcode = "NOP"
  \/ /\ entry[r].opcode = "POLL_ADD"
     /\ FileOf(entry[r]) = "pipe" => pipe > 0
     /\ FileOf(entry[r]) \in {"pipe", "EBADF"}

(* submit(): the kernel takes the k oldest entries; none of those there are *)
(* is an error.  poll-bench prints a warning when it took some of them.     *)
Submit ==
  /\ At("submit")
  /\ \E k \in 0 .. Len(sq) :
       LET inline == {i \in 1 .. k : AtOnce(sq[i])}
           Res(r) == IF FileOf(entry[r]) = "EBADF" THEN Errno ELSE 0
       IN  /\ sq' = SubSeq(sq, k + 1, Len(sq))
           /\ inflight' = inflight \cup {sq[i] : i \in (1 .. k) \ inline}
           /\ \E order \in [1 .. Cardinality(inline) -> inline] :
                /\ \A i, j \in DOMAIN order : i < j => order[i] < order[j]
                /\ cq' = cq \o [i \in DOMAIN order |->
                                 [req |-> sq[order[i]], res |-> Res(sq[order[i]])]]
           /\ IF k = 0 /\ sq # <<>> THEN Fails ELSE Advance
  /\ UNCHANGED <<program, entry, left, outside, data>>

(* submit_and_wait(1) returns Ok once there is a completion, or a signal. *)
Unblock ==
  /\ At("block") /\ cq # <<>>
  /\ Advance
  /\ UNCHANGED <<program, ring, entry, left, outside, data>>

UnblockSignal ==
  /\ At("block")
  /\ interrupted' = TRUE
  /\ Advance
  /\ UNCHANGED <<program, ring, entry, left, outside, offset, out>>

-----------------------------------------------------------------------------
(* wait_cqe() as often as requests were due; an error ends the loop. *)
Wait ==
  /\ At("wait") /\ cq # <<>>
  /\ Queues!Reap
  /\ left' = left - 1
  /\ IF left = 1 THEN Advance ELSE UNCHANGED control
  /\ UNCHANGED <<program, entry, outside, data>>

WaitSignal ==
  /\ (At("wait") \/ At("result"))
  /\ cq = <<>>
  /\ Fails
  /\ UNCHANGED <<program, ring, entry, left, outside, data>>

(* A poll of the SubmitFuture: completions of earlier rounds are dropped. *)
Own ==
  /\ At("own") /\ cq # <<>>
  /\ Queues!Reap
  /\ IF entry[Head(cq).req].userData = entry[<<round, 1>>].userData
     THEN Advance ELSE UNCHANGED control
  /\ UNCHANGED <<program, entry, left, outside, data>>

(* The n bytes of the file from off on; byte i of the file is i. *)
Bytes(off, n) == [i \in 1 .. n |-> off + i]

(* cat: an error, the end of the file, or bytes to print, which may fail *)
(* half way.                                                             *)
NextBlock(n) == offset + BlockSize  \* MUTANT: every read fills the buffer
NextOffset(n) == offset + n

Result ==
  /\ At("result") /\ cq # <<>>
  /\ Queues!Reap
  /\ LET n == Head(cq).res
     IN  \/ /\ n < 0
            /\ Stop("err") /\ UNCHANGED <<offset, out>>
         \/ /\ n = 0
            /\ Stop("ok") /\ UNCHANGED <<offset, out>>
         \/ /\ n > 0
            /\ out' = out \o Bytes(entry[Head(cq).req].off, n)
            /\ offset' = NextOffset(n)
            /\ Advance
         \/ /\ n > 0
            /\ \E m \in 0 .. n - 1 : out' = out \o Bytes(entry[Head(cq).req].off, m)
            /\ Stop("err") /\ UNCHANGED offset
  /\ UNCHANGED <<program, entry, left, outside, interrupted>>

(* read_file: a completion, or nothing to print. *)
Peek ==
  /\ At("peek")
  /\ IF cq = <<>> THEN UNCHANGED <<ring, out>>
     ELSE /\ Queues!Reap
          /\ out' = IF Head(cq).res > 0 THEN Bytes(0, Head(cq).res) ELSE out
  /\ Advance
  /\ UNCHANGED <<program, entry, left, outside, offset, interrupted>>

(* The write wakes the polls of the pipe that are armed; it, or the read,  *)
(* may fail.                                                               *)
Armed(r) == entry[r].opcode = "POLL_ADD" /\ FileOf(entry[r]) = "pipe"

Write ==
  /\ At("write") /\ InTime
  /\ \/ pipe' = pipe + 1 /\ fired' = fired \cup {r \in inflight : Armed(r)} /\ Advance
     \/ Stop("err") /\ UNCHANGED <<pipe, fired>>
  /\ UNCHANGED <<program, ring, entry, left, registered, data>>

ReadBack ==
  /\ At("read") /\ pipe > 0
  /\ \/ pipe' = pipe - 1 /\ Advance
     \/ Stop("err") /\ UNCHANGED pipe
  /\ UNCHANGED <<program, ring, entry, left, registered, fired, data>>

-----------------------------------------------------------------------------
(* The kernel completes a read, short maybe, or a poll that was woken. *)
Outcomes(sqe) ==
  IF sqe.opcode = "POLL_ADD" THEN {0}
  ELSE {n \in Errno .. sqe.len : n <= FileSize - sqe.off /\ (n = 0 => sqe.off = FileSize)}

Complete(r) ==
  /\ r \in inflight /\ (entry[r].opcode = "POLL_ADD" => r \in fired)
  /\ \E res \in Outcomes(entry[r]) : Queues!Complete(r, res)
  /\ UNCHANGED <<program, entry, control, left, outside, data>>

ProgramStep ==
  \/ Deadline \/ Queue \/ Submit \/ Unblock
  \/ Wait \/ Own \/ Result \/ Peek \/ Write \/ ReadBack

Next ==
  \/ ProgramStep \/ UnblockSignal \/ WaitSignal
  \/ \E r \in Reqs : Complete(r)

Spec == Init /\ [][Next]_vars

(* A program that can go on does, and the kernel completes what it can. *)
FairSpec == Spec /\ WF_vars(ProgramStep) /\ \A r \in Reqs : WF_vars(Complete(r))

-----------------------------------------------------------------------------
(* Type invariant; a read never starts past the end of the file. *)
TypeOK ==
  /\ program \in Programs /\ step \in 1 .. Len(Steps[program])
  /\ round \in 1 .. MaxRounds + 1 /\ end \in {"running", "ok", "err"}
  /\ sq \in Seq(Reqs) /\ inflight \subseteq Reqs /\ cq \in Seq(Queues!Cqes)
  /\ left \in 0 .. QueueDepth
  /\ {registered, interrupted} \subseteq BOOLEAN
  /\ pipe \in 0 .. 1 /\ fired \subseteq Reqs
  /\ offset \in 0 .. FileSize /\ out \in Seq(1 .. FileSize)

(* poll-bench always waits for as many completions as there are requests in *)
(* the ring, those that a short submission left in the queue included.      *)
Outstanding == Len(sq) + Cardinality(inflight) + Len(cq)

OwedIsOutstanding ==
  program = "poll_bench" /\ end = "running" => left = Outstanding

(* A round starts with nothing in flight and an empty pipe, whatever calls  *)
(* failed before; only an async benchmark, which goes on after an error,    *)
(* can find entries and completions of earlier rounds in its ring.          *)
RoundIsClean ==
  end = "running" /\ step = 1 =>
    /\ inflight = {} /\ pipe = 0
    /\ program \notin AsyncBenches => sq = <<>> /\ cq = <<>>

(* cat prints the file from its start, in order and without a gap, and when *)
(* it returns Ok the whole of it, however short the reads were.             *)
FileIsPrinted ==
  /\ out = Bytes(0, Len(out))
  /\ program = "cat" /\ end = "ok" => Len(out) = FileSize

(* When main returns Ok, which frees its buffers, no operation is in flight *)
(* that could still use them; but read_file takes a submit_and_wait that a  *)
(* signal ended for one that waited.                                        *)
NothingOutlivesMain ==
  end = "ok" => inflight = {} \/ (program = "read_file" /\ interrupted)

(* Every example comes to an end, unless a short submission left it waiting *)
(* for an entry that stays in the queue.                                    *)
EndsUnlessShort == <>(end # "running") \/ <>[](sq # <<>>)
=============================================================================
