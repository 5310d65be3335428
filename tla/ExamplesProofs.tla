--------------------------- MODULE ExamplesProofs ---------------------------
(***************************************************************************)
(* Theorems about module Examples, for every size of file, block, batch    *)
(* and ring.                                                               *)
(*                                                                         *)
(* The invariants the run checks look at the ends of rounds and of main.   *)
(* ExampleInv carries to them what each step of each program leaves in the *)
(* ring: read_file and cat one read at a time, poll-bench as many polls as *)
(* it waits for, the others nothing that the kernel keeps.                 *)
(***************************************************************************)
EXTENDS Examples, QueueLemmas

Reading == program \in {"cat", "read_file"}
Inline  == program \in Nops \cup AsyncBenches
Running == end = "running"
Current == <<round, 1>>   \* the request of a round that has only one

Entry == [opcode : {"NOP", "READ", "POLL_ADD"}, fd : {"none", "file", "pipe", "0"},
          len : Nat, off : 0 .. FileSize, flags : SUBSET {"FIXED_FILE"}, userData : Nat]

Typed ==
  /\ program \in Programs /\ step \in 1 .. Len(Steps[program])
  /\ round \in 1 .. MaxRounds + 1 /\ (step > 1 => round <= MaxRounds)
  /\ end \in {"running", "ok", "err"}
  /\ sq \in Seq(Reqs) /\ Len(sq) <= SqEntries /\ inflight \subseteq Reqs /\ cq \in Seq(Queues!Cqes)
  /\ left \in 0 .. QueueDepth
  /\ {registered, interrupted} \subseteq BOOLEAN
  /\ pipe \in 0 .. 1 /\ fired \subseteq Reqs
  /\ offset \in 0 .. FileSize /\ out \in Seq(1 .. FileSize)
  /\ entry \in [Reqs -> Entry]

(* The byte in the pipe, and the one completion that is due. *)
Piped ==
  Running =>
    /\ pipe = IF \/ program = "poll_bench" /\ step = 4
                 \/ program \in AsyncBenches /\ step > 1
              THEN 1 ELSE 0
    /\ program # "poll_bench" /\ Steps[program][step] \in {"submit", "wait"} => left = 1

(* A Nop, or a poll of a readable pipe, is done inside submit(). *)
DoneInside(sqe) ==
  \/ sqe.opcode = "NOP"
  \/ sqe.opcode = "POLL_ADD" /\ sqe.fd = "pipe" /\ sqe.flags = {} /\ program \in AsyncBenches

InlineInv == Inline => inflight = {} /\ \A r \in Range(sq) : DoneInside(entry[r])

(* One read of read_file or cat: not queued yet, queued, and taken. *)
Fits(n) == n <= FileSize - offset /\ (n = 0 => offset = FileSize)

ReadInv ==
  Reading /\ Running =>
    /\ step = 1 => sq = <<>> /\ inflight = {} /\ cq = <<>>
    /\ step = 2 => Len(sq) = 1 /\ sq[1] = Current /\ inflight = {} /\ cq = <<>>
    /\ step > 2 => /\ sq = <<>>
                   /\ \/ inflight = {Current} /\ cq = <<>>
                      \/ /\ inflight = {} /\ Len(cq) = 1
                         /\ cq[1].req = Current /\ Fits(cq[1].res)
    /\ step > 1 => entry[Current].opcode = "READ" /\ entry[Current].off = offset
    /\ program = "read_file" =>
         offset = 0 /\ (step = 4 /\ cq = <<>> => interrupted)

(* A poll of the registered file. *)
PollsFixed(sqe) == sqe.opcode = "POLL_ADD" /\ sqe.fd = "0" /\ sqe.flags # {}

(* The batch of poll-bench: all of it before submit(), and what it still    *)
(* waits for after.                                                         *)
PollInv ==
  program = "poll_bench" /\ Running =>
    /\ IsFiniteSet(inflight)
    /\ left = Len(sq) + Cardinality(inflight) + Len(cq)
    /\ step = 1 => left = 0
    /\ step = 2 => /\ inflight = {} /\ cq = <<>> /\ Distinct(sq)
                   /\ \A r \in Range(sq) : PollsFixed(entry[r])

(* What was printed is the file up to cat's offset; an error may come half  *)
(* way through a block.                                                     *)
Printed ==
  /\ out = Bytes(0, Len(out))
  /\ program = "cat" /\ Running => Len(out) = offset
  /\ program = "cat" /\ end = "ok" => Len(out) = FileSize

Ended == end = "ok" => inflight = {} \/ (program = "read_file" /\ interrupted)

ExampleInv == Typed /\ Piped /\ InlineInv /\ ReadInv /\ PollInv /\ Printed /\ Ended

-----------------------------------------------------------------------------
(* 1. The steps of each program. *)

(* The table Steps, program by program. *)
LEMMA StepsAre ==
  /\ program \in Nops =>
       /\ Len(Steps[program]) = 3
       /\ Steps[program][1] = "queue" /\ Steps[program][2] = "submit"
       /\ Steps[program][3] = IF program = "nop_tokio" THEN "own" ELSE "wait"
  /\ Reading =>
       /\ Len(Steps[program]) = 4
       /\ Steps[program][1] = "queue" /\ Steps[program][2] = "submit"
       /\ Steps[program][3] = "block"
       /\ Steps[program][4] = IF program = "cat" THEN "result" ELSE "peek"
  /\ program = "poll_bench" =>
       /\ Len(Steps[program]) = 5
       /\ Steps[program][1] = "queue" /\ Steps[program][2] = "submit"
       /\ Steps[program][3] = "write" /\ Steps[program][4] = "read"
       /\ Steps[program][5] = "wait"
  /\ program \in AsyncBenches =>
       /\ Len(Steps[program]) = 5
       /\ Steps[program][1] = "write" /\ Steps[program][2] = "queue"
       /\ Steps[program][3] = "submit"
       /\ Steps[program][4] = IF program = "bench_tokio" THEN "own" ELSE "wait"
       /\ Steps[program][5] = "read"
<1>1. CASE program = "nop"
  BY <1>1 DEF Steps, NopSteps, Nops, AsyncBenches, Reading
<1>2. CASE program = "nop_tokio"
  BY <1>2 DEF Steps, NopTokioSteps, Nops, AsyncBenches, Reading
<1>3. CASE program = "nop_async_std"
  BY <1>3 DEF Steps, NopAsyncSteps, Nops, AsyncBenches, Reading
<1>4. CASE program = "read_file"
  BY <1>4 DEF Steps, ReadFileSteps, Nops, AsyncBenches, Reading
<1>5. CASE program = "cat"
  BY <1>5 DEF Steps, CatSteps, Nops, AsyncBenches, Reading
<1>6. CASE program = "poll_bench"
  BY <1>6 DEF Steps, PollBenchSteps, Nops, AsyncBenches, Reading
<1>7. CASE program = "bench_tokio"
  BY <1>7 DEF Steps, BenchTokioSteps, Nops, AsyncBenches, Reading
<1>8. CASE program = "bench_async_std"
  BY <1>8 DEF Steps, BenchAsyncSteps, Nops, AsyncBenches, Reading
<1>9. CASE program \notin Nops \cup AsyncBenches \cup {"read_file", "cat", "poll_bench"}
  BY <1>9 DEF Nops, AsyncBenches, Reading
<1> QED
  BY <1>1, <1>2, <1>3, <1>4, <1>5, <1>6, <1>7, <1>8, <1>9 DEF Nops, AsyncBenches

(* A program is of one kind. *)
LEMMA Kinds ==
  ASSUME Typed
  PROVE  /\ program \in Nops \/ Reading \/ program = "poll_bench" \/ program \in AsyncBenches
         /\ program \in Nops => /\ ~Reading /\ program # "poll_bench"
                                /\ program \notin AsyncBenches \cup Loops
         /\ Reading => program # "poll_bench" /\ program \notin AsyncBenches
         /\ program = "poll_bench" => program \notin AsyncBenches
         /\ program \in AsyncBenches => program \in Loops
         /\ program = "poll_bench" \/ program = "cat" => program \in Loops
         /\ program = "read_file" => program \notin Loops
BY DEF Typed, Programs, Loops, Nops, AsyncBenches, Reading

(* Where each program makes a call. *)
LEMMA Where ==
  ASSUME Typed
  PROVE  /\ At("queue")  => Running /\ step = IF program \in AsyncBenches THEN 2 ELSE 1
         /\ At("submit") => Running /\ step = IF program \in AsyncBenches THEN 3 ELSE 2
         /\ At("block")  => Running /\ Reading /\ step = 3
         /\ At("result") => Running /\ program = "cat" /\ step = 4
         /\ At("peek")   => Running /\ program = "read_file" /\ step = 4
         /\ At("wait")   => /\ Running
                            /\ \/ program \in Nops /\ step = 3
                               \/ program = "poll_bench" /\ step = 5
                               \/ program \in AsyncBenches /\ step = 4
         /\ At("own")    => /\ Running
                            /\ \/ program \in Nops /\ step = 3
                               \/ program \in AsyncBenches /\ step = 4
         /\ At("write")  => /\ Running
                            /\ \/ program = "poll_bench" /\ step = 3
                               \/ program \in AsyncBenches /\ step = 1
         /\ At("read")   => /\ Running
                            /\ \/ program = "poll_bench" /\ step = 4
                               \/ program \in AsyncBenches /\ step = 5
<1>1. step \in 1 .. Len(Steps[program])
  BY DEF Typed
<1>2. CASE program \in Nops
  <2>1. step \in 1 .. 3
    BY <1>1, <1>2, StepsAre
  <2> QED
    BY <1>2, <2>1, StepsAre, Kinds DEF At, Running
<1>3. CASE Reading
  <2>1. step \in 1 .. 4
    BY <1>1, <1>3, StepsAre
  <2> QED
    BY <1>3, <2>1, StepsAre, Kinds DEF At, Running, Reading
<1>4. CASE program = "poll_bench"
  <2>1. step \in 1 .. 5
    BY <1>1, <1>4, StepsAre
  <2> QED
    BY <1>4, <2>1, StepsAre, Kinds DEF At, Running
<1>5. CASE program \in AsyncBenches
  <2>1. step \in 1 .. 5
    BY <1>1, <1>5, StepsAre
  <2> QED
    BY <1>5, <2>1, StepsAre, Kinds DEF At, Running
<1> QED
  BY <1>2, <1>3, <1>4, <1>5, Kinds

(* What Advance does; a step that begins a round is taken in time. *)
LEMMA Advances ==
  ASSUME Typed, Running, Advance, program' = program, step > 1 \/ round <= MaxRounds
  PROVE  /\ step' \in 1 .. Len(Steps[program]) /\ end' \in {"running", "ok"}
         /\ round' \in 1 .. MaxRounds + 1 /\ (step' > 1 => round' <= MaxRounds)
         /\ step < Len(Steps[program]) => step' = step + 1 /\ round' = round /\ Running'
         /\ step = Len(Steps[program]) =>
              IF program \in Loops THEN step' = 1 /\ Running'
                                   ELSE step' = step /\ round' = round /\ end' = "ok"
<1> DEFINE n == Len(Steps[program])
<1>1. /\ n \in Nat /\ n > 1 /\ step \in 1 .. n /\ round \in 1 .. MaxRounds
      /\ end = "running" /\ MaxRounds \in Nat
  <2>1. n = 3 \/ n = 4 \/ n = 5
    BY Kinds, StepsAre
  <2>2. step \in 1 .. n
    BY DEF Typed
  <2> HIDE DEF n
  <2>3. round \in 1 .. MaxRounds + 1 /\ MaxRounds \in Nat /\ (step > 1 => round <= MaxRounds)
    BY ExamplesAssumption DEF Typed
  <2> QED
    BY <2>1, <2>2, <2>3 DEF Running
<1>2. /\ step < n => step' = step + 1 /\ round' = round /\ end' = end
      /\ step = n => IF program \in Loops
                     THEN step' = 1 /\ round' = round + 1 /\ end' = end
                     ELSE step' = step /\ round' = round /\ end' = "ok"
  BY <1>1 DEF Advance, Stop
<1> HIDE DEF n
<1> QED
  BY <1>1, <1>2 DEF Running, n

(* What an error does. *)
LEMMA Failing ==
  ASSUME Typed, Fails, program' = program, program \in AsyncBenches => step > 1
  PROVE  /\ step' \in 1 .. Len(Steps[program]) /\ end' \in {"running", "ok", "err"}
         /\ round' = round /\ (step' > 1 => round' <= MaxRounds)
         /\ program \in AsyncBenches => step' = 5 /\ end' = end
         /\ program \notin AsyncBenches => step' = step /\ end' = "err"
<1>1. CASE program \in AsyncBenches
  <2>1. Len(Steps[program]) = 5
    BY <1>1, StepsAre
  <2> QED
    BY <1>1, <2>1 DEF Fails, Typed
<1>2. CASE program \notin AsyncBenches
  BY <1>2 DEF Fails, Stop, Typed
<1> QED
  BY <1>1, <1>2

-----------------------------------------------------------------------------
(* 2. Every step keeps the invariant. *)

(* The constants, as far as the steps use them. *)
LEMMA Sizes ==
  /\ QueueDepth \in Nat /\ QueueDepth >= 1 /\ SqEntries \in Nat /\ QueueDepth <= SqEntries
  /\ FileSize \in Nat /\ FileSize >= 1 /\ BlockSize \in Nat /\ MaxRounds \in Nat
  /\ MaxRounds >= 1
BY ExamplesAssumption

(* main sets up its ring, or returns the error. *)
LEMMA InitExampleInv == Init => ExampleInv
<1> SUFFICES ASSUME Init PROVE ExampleInv
  OBVIOUS
<1>1. /\ program \in Programs /\ sq = <<>> /\ inflight = {} /\ cq = <<>>
      /\ entry = [r \in Reqs |-> Nop] /\ step = 1 /\ round = 1 /\ left = 0
      /\ end \in {"running", "err"} /\ registered \in BOOLEAN
      /\ pipe = 0 /\ fired = {} /\ offset = 0 /\ out = <<>> /\ interrupted = FALSE
  BY DEF Init, Queues!QInit
<1>2. Len(<<>>) = 0 /\ Range(<<>>) = {}
  BY EmptySeq DEF Range
<1>3. step \in 1 .. Len(Steps[program]) /\ Steps[program][1] \in {"queue", "write"}
  <2>1. program \in Nops \/ Reading \/ program = "poll_bench" \/ program \in AsyncBenches
    BY <1>1 DEF Programs, Loops, Nops, AsyncBenches, Reading
  <2>2. \/ Len(Steps[program]) = 3 \/ Len(Steps[program]) = 4 \/ Len(Steps[program]) = 5
    BY <2>1, StepsAre
  <2>3. Steps[program][1] = "queue" \/ Steps[program][1] = "write"
    BY <2>1, StepsAre
  <2> QED
    BY <1>1, <2>2, <2>3
<1>4. Typed
  <2>1. Nop \in Entry
    BY Sizes DEF Nop, Prepare, Entry
  <2>2. entry \in [Reqs -> Entry]
    BY <1>1, <2>1
  <2>3. /\ <<>> \in Seq(Reqs) /\ <<>> \in Seq(Queues!Cqes) /\ <<>> \in Seq(1 .. FileSize)
    BY EmptySeq
  <2>4. {registered, interrupted} \subseteq BOOLEAN
    BY <1>1
  <2>5. /\ round \in 1 .. MaxRounds + 1 /\ Len(sq) <= SqEntries /\ left \in 0 .. QueueDepth
        /\ pipe \in 0 .. 1 /\ offset \in 0 .. FileSize /\ ~(step > 1)
    BY <1>1, <1>2, Sizes
  <2> QED
    BY <1>1, <1>3, <2>2, <2>3, <2>4, <2>5 DEF Typed
<1>5. Piped
  BY <1>1, <1>3 DEF Piped
<1>6. InlineInv
  BY <1>1, <1>2 DEF InlineInv
<1>7. ReadInv
  BY <1>1 DEF ReadInv
<1>8. PollInv
  BY <1>1, <1>2, FS_EmptySet DEF PollInv
<1>9. Printed
  <2>1. Bytes(0, 0) = <<>>
    BY DEF Bytes
  <2> QED
    BY <1>1, <1>2, <2>1 DEF Printed, Running
<1>10. Ended
  BY <1>1 DEF Ended
<1> QED
  BY <1>4, <1>5, <1>6, <1>7, <1>8, <1>9, <1>10 DEF ExampleInv

(* In the first step of a round the ring is empty, or else it belongs to a   *)
(* benchmark that survived an error.                                        *)
LEMMA EmptyAtStart ==
  ASSUME ExampleInv, Running, step = 1
  PROVE  /\ inflight = {}
         /\ Reading \/ program = "poll_bench" => sq = <<>> /\ cq = <<>>
<1>1. Typed /\ InlineInv /\ ReadInv /\ PollInv
  BY DEF ExampleInv
<1>2. CASE Inline
  BY <1>1, <1>2, Kinds DEF InlineInv, Inline
<1>3. CASE Reading
  BY <1>1, <1>3, Kinds DEF ReadInv
<1>4. CASE program = "poll_bench"
  <2>1. IsFiniteSet(inflight) /\ Len(sq) + Cardinality(inflight) + Len(cq) = 0
    BY <1>1, <1>4 DEF PollInv
  <2>2. sq \in Seq(Reqs) /\ cq \in Seq(Queues!Cqes)
    BY <1>1 DEF Typed
  <2>3. Len(sq) \in Nat /\ Cardinality(inflight) \in Nat /\ Len(cq) \in Nat
    BY <2>1, <2>2, LenProperties, FS_CardinalityType
  <2>4. Len(sq) = 0 /\ Cardinality(inflight) = 0 /\ Len(cq) = 0
    BY <2>1, <2>3
  <2> QED
    BY <2>1, <2>2, <2>4, NoneIsEmpty, FS_EmptySet
<1> QED
  BY <1>1, <1>2, <1>3, <1>4, Kinds DEF Inline

(* A benchmark's time is over. *)
LEMMA DeadlineKeepsInv == ASSUME ExampleInv, Deadline PROVE ExampleInv'
<1>1. /\ Running /\ step = 1 /\ program \in AsyncBenches \cup {"poll_bench"}
      /\ end' = "ok"
      /\ UNCHANGED <<step, round, program, sq, inflight, cq, entry, left, registered, pipe,
                     fired, offset, out, interrupted>>
  BY DEF Deadline, Stop, Running, ring, outside, data
<1>2. ~Running' /\ end' # "err" /\ program # "cat"
  BY <1>1 DEF Running, AsyncBenches
<1>3. Typed'
  BY <1>1 DEF ExampleInv, Typed
<1>4. InlineInv'
  BY <1>1 DEF ExampleInv, InlineInv, Inline, DoneInside
<1>5. Printed'
  BY <1>1, <1>2 DEF ExampleInv, Printed
<1>6. Ended'
  BY <1>1, EmptyAtStart DEF Ended
<1> QED
  BY <1>2, <1>3, <1>4, <1>5, <1>6 DEF ExampleInv, Piped, ReadInv, PollInv

(* The entry that a program makes. *)
LEMMA NewEntryIs ==
  ASSUME Typed
  PROVE  /\ NewEntry \in Entry
         /\ program \in Nops => NewEntry.opcode = "NOP"
         /\ program \in AsyncBenches =>
              NewEntry.opcode = "POLL_ADD" /\ NewEntry.fd = "pipe" /\ NewEntry.flags = {}
         /\ program = "poll_bench" => PollsFixed(NewEntry)
         /\ program = "cat" => NewEntry.opcode = "READ" /\ NewEntry.off = offset
         /\ program = "read_file" => NewEntry.opcode = "READ" /\ NewEntry.off = 0
<1> DEFINE value == IF program = "bench_tokio" THEN round ELSE 1
<1>1. value \in Nat /\ offset \in 0 .. FileSize /\ 0 \in 0 .. FileSize
  BY Sizes DEF Typed
<1> HIDE DEF value
<1>2. CASE program \in Nops
  <2>1. NewEntry = SetUserData(Nop, value)
    BY <1>2 DEF NewEntry, Nops, value
  <2>2. NewEntry = [opcode |-> "NOP", fd |-> "none", len |-> 0, off |-> 0, flags |-> {},
                    userData |-> value]
    BY <2>1 DEF SetUserData, Nop, Prepare
  <2> QED
    BY <1>1, <1>2, <2>2, Kinds DEF Entry, Reading
<1>3. CASE program = "read_file"
  <2>1. NewEntry = SetUserData(ReadFromSlice("file", FileSize + 1, 0), value)
    BY <1>3 DEF NewEntry, Nops, value
  <2>2. NewEntry = [opcode |-> "READ", fd |-> "file", len |-> FileSize + 1, off |-> 0,
                    flags |-> {}, userData |-> value]
    BY <2>1 DEF SetUserData, ReadFromSlice, Prepare
  <2> QED
    BY <1>1, <1>3, <2>2, Sizes DEF Entry, Nops, AsyncBenches
<1>4. CASE program = "cat"
  <2>1. NewEntry = SetUserData(ReadFromSlice("file", BlockSize, offset), value)
    BY <1>4 DEF NewEntry, Nops, value
  <2>2. NewEntry = [opcode |-> "READ", fd |-> "file", len |-> BlockSize, off |-> offset,
                    flags |-> {}, userData |-> value]
    BY <2>1 DEF SetUserData, ReadFromSlice, Prepare
  <2> QED
    BY <1>1, <1>4, <2>2, Sizes DEF Entry, Nops, AsyncBenches
<1>5. CASE program = "poll_bench"
  <2>1. NewEntry = SetUserData(PollFixed, value)
    BY <1>5 DEF NewEntry, Nops, value
  <2>2. NewEntry = [opcode |-> "POLL_ADD", fd |-> "0", len |-> 0, off |-> 0,
                    flags |-> {"FIXED_FILE"}, userData |-> value]
    BY <2>1 DEF SetUserData, PollFixed, SetFlags, PollOp, Prepare
  <2> QED
    BY <1>1, <1>5, <2>2 DEF Entry, Nops, AsyncBenches, PollsFixed
<1>6. CASE program \in AsyncBenches
  <2>1. NewEntry = SetUserData(PollOp("pipe"), value)
    BY <1>6 DEF NewEntry, Nops, AsyncBenches, value
  <2>2. NewEntry = [opcode |-> "POLL_ADD", fd |-> "pipe", len |-> 0, off |-> 0,
                    flags |-> {}, userData |-> value]
    BY <2>1 DEF SetUserData, PollOp, Prepare
  <2> QED
    BY <1>1, <1>6, <2>2, Kinds DEF Entry, Reading
<1> QED
  BY <1>2, <1>3, <1>4, <1>5, <1>6, Kinds DEF Reading

(* What the programs other than one that goes on leave to prove. *)
LEMMA OverKeepsInv ==
  ASSUME ExampleInv, Typed', InlineInv', Printed', end' = "err"
  PROVE  ExampleInv'
<1>1. ~Running' /\ end' # "ok"
  BY DEF Running
<1> QED
  BY <1>1 DEF ExampleInv, Piped, ReadInv, PollInv, Ended

(* A call failed; it may have moved entries from the queue to completions.  *)
FailsSafely ==
  /\ Running /\ Fails /\ (program \in AsyncBenches => step > 1)
  /\ sq' \in Seq(Reqs) /\ Len(sq') <= SqEntries /\ Range(sq') \subseteq Range(sq)
  /\ cq' \in Seq(Queues!Cqes)
  /\ UNCHANGED <<program, entry, left, inflight, registered, pipe, fired, offset, out,
                 interrupted>>

(* An async benchmark reads the byte back; for the others it is over. *)
LEMMA FailsKeepsInv == ASSUME ExampleInv, FailsSafely PROVE ExampleInv'
<1>1. /\ Typed /\ Running /\ (program \in AsyncBenches => step > 1)
      /\ sq' \in Seq(Reqs) /\ Len(sq') <= SqEntries /\ Range(sq') \subseteq Range(sq)
      /\ cq' \in Seq(Queues!Cqes)
      /\ UNCHANGED <<program, entry, left, inflight, registered, pipe, fired, offset, out,
                     interrupted>>
  BY DEF ExampleInv, FailsSafely
<1>2. /\ step' \in 1 .. Len(Steps[program]) /\ end' \in {"running", "ok", "err"}
      /\ round' = round /\ (step' > 1 => round' <= MaxRounds)
      /\ program \in AsyncBenches => step' = 5 /\ end' = end
      /\ program \notin AsyncBenches => step' = step /\ end' = "err"
  BY <1>1, Failing DEF FailsSafely
<1>3. Typed'
  BY <1>1, <1>2 DEF Typed
<1>4. InlineInv'
  BY <1>1 DEF ExampleInv, InlineInv, Inline, DoneInside
<1>5. CASE program \notin AsyncBenches
  <2>1. end' = "err"
    BY <1>2, <1>5
  <2>2. Printed'
    BY <1>1, <2>1 DEF ExampleInv, Printed, Running
  <2> QED
    BY <1>3, <1>4, <2>1, <2>2, OverKeepsInv
<1>6. CASE program \in AsyncBenches
  <2>1. step' = 5 /\ end' = "running" /\ Running'
    BY <1>1, <1>2, <1>6 DEF Running
  <2>2. Steps[program][5] = "read"
    BY <1>6, StepsAre
  <2>3. Piped'
    BY <1>1, <1>6, <2>1, <2>2, Kinds DEF ExampleInv, Piped
  <2>4. ReadInv' /\ PollInv' /\ Printed' /\ Ended'
    BY <1>1, <1>6, <2>1, Kinds DEF ReadInv, PollInv, Printed, Ended, Reading, ExampleInv
  <2> QED
    BY <1>3, <1>4, <2>3, <2>4 DEF ExampleInv
<1> QED
  BY <1>5, <1>6

(* The requests of a round, in the queue. *)
LEMMA Queued ==
  ASSUME Typed, round <= MaxRounds, NEW n \in 0 .. QueueDepth,
         NEW q, q = sq \o [i \in 1 .. n |-> <<round, i>>]
  PROVE  /\ q \in Seq(Reqs) /\ Len(q) = Len(sq) + n
         /\ \A r \in Range(q) : r \in Range(sq) \/ r \in {round} \X (1 .. n)
         /\ sq = <<>> => /\ \A i \in 1 .. n : q[i] = <<round, i>>
                         /\ Distinct(q)
<1> DEFINE new == [i \in 1 .. n |-> <<round, i>>]
<1>1. /\ n \in Nat /\ sq \in Seq(Reqs) /\ round \in 1 .. MaxRounds
      /\ n <= QueueDepth /\ QueueDepth \in Nat
  BY Sizes DEF Typed
<1>2. \A i \in 1 .. n : new[i] = <<round, i>> /\ <<round, i>> \in Reqs
  BY <1>1 DEF Reqs
<1>3. new \in [1 .. n -> Reqs]
  BY <1>2
<1> DEFINE j == sq \o new
<1>4. q = j
  OBVIOUS
<1> HIDE DEF new
<1>5. new \in Seq(Reqs) /\ Len(new) = n
  BY <1>1, <1>3, FunctionIsSeq
<1>6. /\ q \in Seq(Reqs) /\ Len(q) = Len(sq) + n
      /\ Range(q) = Range(sq) \cup Range(new)
      /\ \A i \in 1 .. Len(sq) + n : q[i] = IF i <= Len(sq) THEN sq[i] ELSE new[i - Len(sq)]
  <2>1. /\ j \in Seq(Reqs) /\ Len(j) = Len(sq) + Len(new)
        /\ Range(j) = Range(sq) \cup Range(new)
        /\ \A i \in 1 .. Len(sq) + Len(new) :
             j[i] = IF i <= Len(sq) THEN sq[i] ELSE new[i - Len(sq)]
    BY <1>1, <1>5, ConcatProperties, RangeConcatenation
  <2> HIDE DEF j
  <2> QED
    BY <1>4, <1>5, <2>1
<1>7. \A r \in Range(new) : r \in {round} \X (1 .. n)
  <2>1. Range(new) = {new[i] : i \in 1 .. n}
    BY <1>5, RangeEquality
  <2>2. \A i \in 1 .. n : <<round, i>> \in {round} \X (1 .. n)
    OBVIOUS
  <2>3. \A i \in 1 .. n : new[i] \in {round} \X (1 .. n)
    BY <1>2, <2>2
  <2> QED
    BY <2>1, <2>3
<1>8. ASSUME sq = <<>> PROVE (\A i \in 1 .. n : q[i] = <<round, i>>) /\ Distinct(q)
  <2>1. Len(sq) = 0
    BY <1>8
  <2>2. \A i \in 1 .. n : q[i] = <<round, i>>
    BY <1>1, <1>2, <1>6, <2>1
  <2>3. Len(q) = n
    BY <1>1, <1>6, <2>1
  <2> QED
    BY <2>2, <2>3 DEF Distinct
<1> QED
  BY <1>6, <1>7, <1>8

(* The n requests of a round are queued, and waited for. *)
Makes(n) ==
  /\ At("queue") /\ InTime /\ Advance
  /\ n = IF Batch <= SqEntries - Len(sq) THEN Batch ELSE SqEntries - Len(sq)
  /\ ~(SqEntries - Len(sq) = 0 /\ program # "poll_bench")
  /\ sq' = sq \o [i \in 1 .. n |-> <<round, i>>]
  /\ entry' = [r \in Reqs |-> IF r \in {round} \X (1 .. n) THEN NewEntry ELSE entry[r]]
  /\ left' = Batch
  /\ UNCHANGED <<program, inflight, cq, registered, pipe, fired, offset, out, interrupted>>

(* Queueing the requests keeps the invariant. *)
LEMMA QueueMakesKeepsInv ==
  ASSUME ExampleInv, NEW n, Makes(n)
  PROVE  ExampleInv'
<1>0. UNCHANGED <<program, inflight, cq, registered, pipe, fired, offset, out, interrupted>>
  BY DEF Makes
<1>1. /\ Typed /\ Running /\ step = (IF program \in AsyncBenches THEN 2 ELSE 1)
      /\ round <= MaxRounds
  BY Where DEF ExampleInv, InTime, Makes
<1>2. /\ Batch = IF program = "poll_bench" THEN QueueDepth ELSE 1
      /\ Batch \in 1 .. QueueDepth
  BY Sizes DEF Batch
<1>3. Len(sq) \in Nat /\ Len(sq) <= SqEntries
  BY LenProperties DEF ExampleInv, Typed
<1>4. /\ n \in 0 .. QueueDepth /\ Len(sq) + n <= SqEntries
      /\ program # "poll_bench" => n = 1
      /\ sq = <<>> => n = Batch
  <2>1. sq = <<>> => Len(sq) = 0
    OBVIOUS
  <2> QED
    BY <1>2, <1>3, <2>1, Sizes DEF Makes
<1>5. /\ sq' \in Seq(Reqs) /\ Len(sq') = Len(sq) + n
      /\ \A r \in Range(sq') : r \in Range(sq) \/ r \in {round} \X (1 .. n)
      /\ sq = <<>> => (\A i \in 1 .. n : sq'[i] = <<round, i>>) /\ Distinct(sq')
  <2>1. sq' = sq \o [i \in 1 .. n |-> <<round, i>>]
    BY DEF Makes
  <2>2. n \in 0 .. QueueDepth
    BY <1>4
  <2> QED
    BY <1>1, <2>1, <2>2, Queued
<1>6. /\ step < Len(Steps[program])
      /\ Steps[program][step + 1] = "submit"
  <2>1. Len(Steps[program]) >= 3
    BY <1>1, Kinds, StepsAre
  <2> QED
    BY <1>1, <2>1, Kinds, StepsAre
<1>7. /\ step' = step + 1 /\ round' = round /\ Running' /\ end' = "running"
      /\ step' \in 1 .. Len(Steps[program])
  BY <1>0, <1>1, <1>6, Advances DEF Running, Makes
<1>8. /\ \A r \in Reqs : entry'[r] = IF r \in {round} \X (1 .. n) THEN NewEntry ELSE entry[r]
      /\ entry' \in [Reqs -> Entry]
  BY <1>1, NewEntryIs DEF Typed, Makes
<1>9. Typed'
  <2>1. left' \in 0 .. QueueDepth /\ Len(sq') <= SqEntries
    BY <1>2, <1>4, <1>5 DEF Makes
  <2> QED
    BY <1>0, <1>1, <1>5, <1>7, <1>8, <2>1 DEF Typed
<1>10. ASSUME NEW r \in Range(sq')
       PROVE  r \in Reqs /\ (entry'[r] = NewEntry \/ (r \in Range(sq) /\ entry'[r] = entry[r]))
  <2>1. PICK i \in 1 .. Len(sq') : sq'[i] = r
    BY <1>5, InRange
  <2>2. r \in Reqs
    BY <1>5, <2>1, ElementOfSeq
  <2> QED
    BY <1>5, <1>8, <2>2
<1>11. Piped'
  <2>1. program # "poll_bench" => left' = 1
    BY <1>2 DEF Makes
  <2>2. pipe = IF program \in AsyncBenches THEN 1 ELSE 0
    BY <1>1, Kinds DEF ExampleInv, Piped
  <2> QED
    BY <1>0, <1>1, <1>7, <2>1, <2>2, Kinds DEF Piped
<1>12. InlineInv'
  <2> SUFFICES ASSUME Inline PROVE inflight = {} /\ \A r \in Range(sq') : DoneInside(entry[r])'
    BY <1>0 DEF InlineInv, Inline
  <2>1. inflight = {} /\ \A r \in Range(sq) : DoneInside(entry[r])
    BY DEF ExampleInv, InlineInv
  <2>2. NewEntry.opcode = "NOP" \/ (/\ program \in AsyncBenches /\ NewEntry.opcode = "POLL_ADD"
                                    /\ NewEntry.fd = "pipe" /\ NewEntry.flags = {})
    BY <1>1, NewEntryIs DEF Inline
  <2> QED
    BY <1>0, <1>10, <2>1, <2>2 DEF DoneInside
<1>13. ReadInv'
  <2>1. CASE ~Reading
    BY <1>0, <1>1, <2>1 DEF ReadInv, Reading
  <2>2. CASE Reading
    <3>1. step = 1 /\ n = 1 /\ step' = 2
      BY <1>1, <1>4, <1>7, <2>2, Kinds
    <3>2. sq = <<>> /\ inflight = {} /\ cq = <<>> /\ (program = "read_file" => offset = 0)
      BY <1>1, <2>2, <3>1 DEF ExampleInv, ReadInv
    <3>3. <<round, 1>> \in Reqs /\ <<round, 1>> \in {round} \X (1 .. n)
      BY <1>1, <3>1, Sizes DEF Reqs, Typed
    <3>4. entry'[<<round, 1>>] = NewEntry
      BY <1>8, <3>3
    <3>5. Len(sq') = 1 /\ sq'[1] = <<round, 1>>
      BY <1>5, <3>1, <3>2
    <3>6. entry'[<<round, 1>>].opcode = "READ" /\ entry'[<<round, 1>>].off = offset
      BY <1>1, <2>2, <3>2, <3>4, NewEntryIs DEF Reading
    <3>7. Current' = <<round, 1>>
      BY <1>7 DEF Current
    <3> QED
      BY <1>0, <3>1, <3>2, <3>5, <3>6, <3>7 DEF ReadInv
  <2> QED
    BY <2>1, <2>2
<1>14. PollInv'
  <2>1. CASE program # "poll_bench"
    BY <1>0, <2>1 DEF PollInv
  <2>2. CASE program = "poll_bench"
    <3>1. step' = 2
      BY <1>1, <1>7, <2>2, Kinds
    <3>2. sq = <<>> /\ inflight = {} /\ cq = <<>>
      BY <1>1, <2>2, EmptyAtStart, Kinds
    <3>3. Range(sq) = {} /\ Len(sq) = 0 /\ Len(cq) = 0
      BY <3>2 DEF Range
    <3>4. IsFiniteSet({}) /\ Cardinality({}) = 0
      BY FS_EmptySet
    <3>5. \A r \in Range(sq') : entry'[r] = NewEntry
      BY <1>10, <3>3
    <3>6. left' = Len(sq') + Cardinality(inflight) + Len(cq)
      BY <1>2, <1>4, <1>5, <3>2, <3>3, <3>4 DEF Makes
    <3>7. \A r \in Range(sq') : PollsFixed(entry'[r])
      BY <1>1, <2>2, <3>5, NewEntryIs
    <3>8. Distinct(sq)'
      BY <1>5, <3>2 DEF Distinct
    <3>9. /\ inflight' = {} /\ cq' = <<>> /\ IsFiniteSet(inflight')
          /\ left' = Len(sq') + Cardinality(inflight') + Len(cq')
      BY <1>0, <3>2, <3>4, <3>6
    <3> QED
      BY <3>1, <3>7, <3>8, <3>9 DEF PollInv
  <2> QED
    BY <2>1, <2>2
<1>15. Printed' /\ Ended'
  BY <1>0, <1>1, <1>7 DEF ExampleInv, Printed, Ended
<1> QED
  BY <1>9, <1>11, <1>12, <1>13, <1>14, <1>15 DEF ExampleInv

(* get_sqe, prepare and set_user_data, for each request of the round. *)
LEMMA QueueKeepsInv == ASSUME ExampleInv, Queue PROVE ExampleInv'
<1> DEFINE room == SqEntries - Len(sq)
           n == IF Batch <= room THEN Batch ELSE room
<1>1. /\ At("queue") /\ InTime
      /\ UNCHANGED <<program, inflight, cq, registered, pipe, fired, offset, out, interrupted>>
      /\ \/ /\ room = 0 /\ program # "poll_bench"
            /\ Fails /\ UNCHANGED <<sq, entry, left>>
         \/ /\ ~(room = 0 /\ program # "poll_bench")
            /\ sq' = sq \o [i \in 1 .. n |-> <<round, i>>]
            /\ entry' = [r \in Reqs |-> IF r \in {round} \X (1 .. n) THEN NewEntry ELSE entry[r]]
            /\ left' = Batch /\ Advance
  BY DEF Queue, Entries, ToWaitFor, outside, data
<1>2. CASE room = 0 /\ program # "poll_bench"
  <2>1. Typed /\ Running /\ step = IF program \in AsyncBenches THEN 2 ELSE 1
    BY <1>1, Where DEF ExampleInv
  <2>2. FailsSafely
    BY <1>1, <1>2, <2>1 DEF FailsSafely, Typed
  <2> QED
    BY <2>2, FailsKeepsInv
<1>3. CASE ~(room = 0 /\ program # "poll_bench")
  BY <1>1, <1>3, QueueMakesKeepsInv DEF Makes
<1> QED
  BY <1>2, <1>3

-----------------------------------------------------------------------------
(* 3. submit() and submit_and_wait(1). *)

(* submit(): what the kernel completes of the k entries it takes, and what *)
(* becomes of them.                                                        *)
Inside(k) == {i \in 1 .. k : AtOnce(sq[i])}

Answer(r) == [req |-> r, res |-> IF FileOf(entry[r]) = "EBADF" THEN Errno ELSE 0]

Takes(k) ==
  /\ sq' = Rest(sq, k)
  /\ inflight' = inflight \cup {sq[i] : i \in (1 .. k) \ Inside(k)}
  /\ \E order \in [1 .. Cardinality(Inside(k)) -> Inside(k)] :
       cq' = cq \o [i \in DOMAIN order |-> Answer(sq[order[i]])]

(* The kernel completes all of the entries it takes, or none of them. *)
LEMMA AllOrNone ==
  ASSUME ExampleInv, At("submit"), NEW k \in 0 .. Len(sq)
  PROVE  /\ Inside(k) = {} \/ Inside(k) = 1 .. k
         /\ Inline => Inside(k) = 1 .. k
         /\ Reading => Inside(k) = {}
<1>1. /\ Typed /\ Running /\ step = IF program \in AsyncBenches THEN 3 ELSE 2
  BY Where DEF ExampleInv
<1>2. \A i \in 1 .. k : i \in 1 .. Len(sq) /\ sq[i] \in Reqs /\ sq[i] \in Range(sq)
  <2>1. sq \in Seq(Reqs) /\ k <= Len(sq) /\ Len(sq) \in Nat
    BY <1>1, LenProperties DEF Typed
  <2> QED
    BY <2>1, ElementOfSeq, InRange
<1>3. CASE Inline
  <2>1. \A r \in Range(sq) : DoneInside(entry[r])
    BY <1>3 DEF ExampleInv, InlineInv
  <2>2. program \in AsyncBenches => pipe = 1
    BY <1>1, Kinds DEF ExampleInv, Piped
  <2>3. \A i \in 1 .. k : AtOnce(sq[i])
    BY <1>2, <2>1, <2>2 DEF DoneInside, AtOnce, FileOf
  <2> QED
    BY <1>1, <1>3, <2>3, Kinds DEF Inside, Inline
<1>4. CASE Reading
  <2>1. Len(sq) = 1 /\ sq[1] = Current /\ entry[Current].opcode = "READ"
    BY <1>1, <1>4, Kinds DEF ExampleInv, ReadInv
  <2>2. \A i \in 1 .. k : ~AtOnce(sq[i])
    BY <1>2, <2>1 DEF AtOnce
  <2> QED
    BY <1>1, <1>4, <2>2, Kinds DEF Inside, Inline
<1>5. CASE program = "poll_bench"
  <2>1. /\ \A r \in Range(sq) : PollsFixed(entry[r])
        /\ pipe = 0 /\ registered \in BOOLEAN
    BY <1>1, <1>5, Kinds DEF ExampleInv, PollInv, Piped, Typed
  <2>2. \A r \in Range(sq) : FileOf(entry[r]) = IF registered THEN "pipe" ELSE "EBADF"
    BY <2>1 DEF PollsFixed, FileOf
  <2>3. CASE registered
    <3>1. \A i \in 1 .. k : ~AtOnce(sq[i])
      BY <1>2, <2>1, <2>2, <2>3 DEF PollsFixed, AtOnce
    <3> QED
      BY <1>1, <1>5, <3>1, Kinds DEF Inside, Inline
  <2>4. CASE ~registered
    <3>1. \A i \in 1 .. k : AtOnce(sq[i])
      BY <1>2, <2>1, <2>2, <2>4 DEF PollsFixed, AtOnce
    <3> QED
      BY <1>1, <1>5, <3>1, Kinds DEF Inside, Inline
  <2> QED
    BY <2>3, <2>4
<1> QED
  BY <1>1, <1>3, <1>4, <1>5, Kinds DEF Inline

(* The entries the kernel takes go to one place. *)
LEMMA TakenTo ==
  ASSUME ExampleInv, At("submit"), NEW k \in 0 .. Len(sq), Takes(k)
  PROVE  /\ sq' \in Seq(Reqs) /\ Len(sq') = Len(sq) - k
         /\ Range(sq') \subseteq Range(sq)
         /\ cq' \in Seq(Queues!Cqes) /\ inflight' \subseteq Reqs
         /\ \/ /\ Inside(k) = {} /\ cq' = cq
               /\ inflight' = inflight \cup Oldest(sq, k)
            \/ /\ Inside(k) = 1 .. k /\ Len(cq') = Len(cq) + k
               /\ inflight' = inflight
<1>1. /\ sq \in Seq(Reqs) /\ cq \in Seq(Queues!Cqes) /\ inflight \subseteq Reqs
      /\ entry \in [Reqs -> Entry] /\ Len(sq) \in Nat /\ k \in Nat /\ k <= Len(sq)
  BY LenProperties DEF ExampleInv, Typed
<1>2. \A i \in 1 .. k : sq[i] \in Reqs /\ i \in 1 .. Len(sq)
  BY <1>1, ElementOfSeq
<1>3. /\ sq' \in Seq(Reqs) /\ Len(sq') = Len(sq) - k
      /\ Range(sq') \subseteq Range(sq)
  <2> DEFINE p == Rest(sq, k)
  <2>1. /\ p \in Seq(Reqs) /\ Len(p) = Len(sq) - k
        /\ \A i \in 1 .. Len(sq) - k : p[i] = sq[k + i]
    BY <1>1, SubSeqProperties DEF Rest
  <2> HIDE DEF p
  <2>2. ASSUME NEW x \in Range(p) PROVE x \in Range(sq)
    <3>1. PICK i \in 1 .. Len(p) : p[i] = x
      BY <2>1, InRange
    <3>2. k + i \in 1 .. Len(sq) /\ sq[k + i] = x
      BY <1>1, <2>1, <3>1
    <3> QED
      BY <1>1, <3>2, InRange
  <2>3. sq' = p
    BY DEF Takes, p
  <2> QED
    BY <2>1, <2>2, <2>3
<1>4. PICK order \in [1 .. Cardinality(Inside(k)) -> Inside(k)] :
        cq' = cq \o [i \in DOMAIN order |-> Answer(sq[order[i]])]
  BY DEF Takes
<1>5. ASSUME NEW r \in Reqs PROVE Answer(r) \in Queues!Cqes
  BY Sizes DEF Answer, Queues!Cqes, Errno
<1>6. CASE Inside(k) = {}
  <2>1. Cardinality(Inside(k)) = 0
    BY <1>6, FS_EmptySet
  <2>2. cq' = cq \o [i \in 1 .. 0 |-> Answer(sq[order[i]])]
    BY <1>4, <2>1
  <2>3. [i \in 1 .. 0 |-> Answer(sq[order[i]])] = <<>>
    OBVIOUS
  <2>4. cq' = cq
    BY <1>1, <2>2, <2>3, ConcatEmptySeq
  <2>5. inflight' = inflight \cup Oldest(sq, k)
    BY <1>6 DEF Takes, Oldest
  <2>6. inflight' \subseteq Reqs
    BY <1>1, <1>2, <2>5 DEF Oldest
  <2> QED
    BY <1>1, <1>3, <1>6, <2>4, <2>5, <2>6
<1>7. CASE Inside(k) = 1 .. k
  <2> DEFINE f == [i \in 1 .. k |-> Answer(sq[order[i]])]
  <2>1. Cardinality(Inside(k)) = k
    <3>1. Cardinality(1 .. k) = k
      BY <1>1, FS_Interval
    <3> QED
      BY <1>7, <3>1
  <2>2. order \in [1 .. k -> 1 .. k] /\ cq' = cq \o f
    BY <1>4, <1>7, <2>1
  <2>3. f \in [1 .. k -> Queues!Cqes]
    BY <1>2, <1>5, <2>2
  <2> HIDE DEF f
  <2>4. f \in Seq(Queues!Cqes) /\ Len(f) = k
    BY <1>1, <2>3, FunctionIsSeq
  <2>5. cq' \in Seq(Queues!Cqes) /\ Len(cq') = Len(cq) + k
    BY <1>1, <2>2, <2>4, ConcatProperties
  <2>6. inflight' = inflight
    BY <1>7 DEF Takes
  <2> QED
    BY <1>1, <1>3, <1>7, <2>5, <2>6
<1> QED
  BY <1>6, <1>7, AllOrNone

(* The kernel took none: the call fails, and the ring is as it was. *)
LEMMA TakenNoneKeepsInv ==
  ASSUME ExampleInv, At("submit"), Takes(0), Fails,
         UNCHANGED <<program, entry, left, registered, pipe, fired, offset, out, interrupted>>
  PROVE  ExampleInv'
<1>1. /\ Typed /\ Running /\ step = IF program \in AsyncBenches THEN 3 ELSE 2
      /\ Len(sq) \in Nat
  BY Where, LenProperties DEF ExampleInv, Typed
<1>2. /\ sq' \in Seq(Reqs) /\ Len(sq') = Len(sq)
      /\ Range(sq') \subseteq Range(sq)
      /\ cq' \in Seq(Queues!Cqes) /\ inflight' \subseteq Reqs /\ inflight' = inflight
  <2>1. 0 \in 0 .. Len(sq) /\ Oldest(sq, 0) = {}
    BY <1>1 DEF Oldest
  <2>2. /\ sq' \in Seq(Reqs) /\ Len(sq') = Len(sq) - 0
        /\ Range(sq') \subseteq Range(sq)
        /\ cq' \in Seq(Queues!Cqes) /\ inflight' \subseteq Reqs
        /\ inflight' = inflight \cup Oldest(sq, 0) \/ inflight' = inflight
    BY <2>1, TakenTo
  <2>3. inflight \cup {} = inflight
    OBVIOUS
  <2>4. inflight' = inflight
    BY <2>1, <2>2, <2>3, Zenon
  <2>5. Len(sq') = Len(sq)
    BY <1>1, <2>2
  <2> QED
    BY <2>2, <2>4, <2>5
<1>3. FailsSafely
  <2>1. Len(sq') <= SqEntries
    BY <1>1, <1>2 DEF Typed
  <2> QED
    BY <1>1, <1>2, <2>1 DEF FailsSafely
<1> QED
  BY <1>3, FailsKeepsInv

(* submit() took k entries, at least one of those there are, and main goes on. *)
TakesSome(k) ==
  /\ At("submit") /\ k \in 0 .. Len(sq) /\ (k = 0 => sq = <<>>) /\ Takes(k) /\ Advance
  /\ UNCHANGED <<program, entry, left, registered, pipe, fired, offset, out, interrupted>>

(* The completions of poll-bench that are due, before and after submit(). *)
LEMMA PollsTaken ==
  ASSUME ExampleInv, program = "poll_bench", NEW k, TakesSome(k)
  PROVE  /\ IsFiniteSet(inflight')
         /\ left = Len(sq') + Cardinality(inflight') + Len(cq')
<1>1. /\ At("submit") /\ Takes(k) /\ Typed /\ Running /\ step = 2
  BY Where, Kinds DEF ExampleInv, TakesSome
<1>2. /\ inflight = {} /\ cq = <<>> /\ Distinct(sq)
      /\ left = Len(sq) + Cardinality(inflight) + Len(cq)
  BY <1>1 DEF ExampleInv, PollInv
<1>3. sq \in Seq(Reqs) /\ Len(sq) \in Nat /\ k \in 0 .. Len(sq)
  <2>1. sq \in Seq(Reqs) /\ Len(sq) \in Nat
    BY <1>1, LenProperties DEF Typed
  <2> QED
    BY <2>1 DEF TakesSome
<1>4. Len(cq) = 0 /\ IsFiniteSet({}) /\ Cardinality({}) = 0
  BY <1>2, FS_EmptySet
<1>5. /\ Len(sq') = Len(sq) - k
      /\ \/ cq' = cq /\ inflight' = inflight \cup Oldest(sq, k)
         \/ Len(cq') = Len(cq) + k /\ inflight' = inflight
  BY <1>1, <1>3, TakenTo
<1>6. CASE cq' = cq /\ inflight' = inflight \cup Oldest(sq, k)
  <2>1. /\ IsFiniteSet({} \cup Oldest(sq, k))
        /\ Cardinality({} \cup Oldest(sq, k)) = Cardinality({}) + k
    BY <1>2, <1>3, <1>4, TakeFirst
  <2> DEFINE T == {} \cup Oldest(sq, k)
  <2>3. inflight' = T /\ IsFiniteSet(T) /\ Cardinality(T) = 0 + k
    BY <1>2, <1>4, <1>6, <2>1
  <2> HIDE DEF T
  <2>2. IsFiniteSet(inflight') /\ Cardinality(inflight') = k /\ Len(cq') = 0
    BY <1>2, <1>3, <1>4, <1>6, <2>3
  <2> QED
    BY <1>2, <1>3, <1>4, <1>5, <2>2
<1>7. CASE Len(cq') = Len(cq) + k /\ inflight' = inflight
  BY <1>2, <1>3, <1>4, <1>5, <1>7
<1> QED
  BY <1>5, <1>6, <1>7

(* Submitting keeps the invariant. *)
LEMMA TakesSomeKeepsInv == ASSUME ExampleInv, NEW k, TakesSome(k) PROVE ExampleInv'
<1>1. /\ At("submit") /\ Takes(k) /\ Typed /\ Running
      /\ step = IF program \in AsyncBenches THEN 3 ELSE 2
      /\ Len(sq) \in Nat /\ k \in 0 .. Len(sq) /\ (k = 0 => sq = <<>>)
      /\ UNCHANGED <<program, entry, left, registered, pipe, fired, offset, out, interrupted>>
  BY Where, LenProperties DEF ExampleInv, Typed, TakesSome
<1>2. /\ sq' \in Seq(Reqs) /\ Len(sq') = Len(sq) - k
      /\ Range(sq') \subseteq Range(sq)
      /\ cq' \in Seq(Queues!Cqes) /\ inflight' \subseteq Reqs
      /\ \/ /\ Inside(k) = {} /\ cq' = cq
            /\ inflight' = inflight \cup Oldest(sq, k)
         \/ /\ Inside(k) = 1 .. k /\ Len(cq') = Len(cq) + k
            /\ inflight' = inflight
  <2>1. k \in 0 .. Len(sq)
    BY <1>1
  <2> QED
    BY <1>1, <2>1, TakenTo
<1>3. /\ Inline => Inside(k) = 1 .. k
      /\ Reading => Inside(k) = {}
      /\ Inside(k) = 1 .. k /\ k > 0 => Inside(k) # {}
  <2>1. k \in 0 .. Len(sq) /\ (k > 0 => 1 \in 1 .. k)
    BY <1>1
  <2> QED
    BY <1>1, <2>1, AllOrNone
<1>4. /\ step < Len(Steps[program])
      /\ Inline \/ Reading \/ program = "poll_bench"
      /\ program \in AsyncBenches => Steps[program][4] \in {"own", "wait"}
      /\ program = "poll_bench" => Steps[program][3] = "write"
  BY <1>1, Kinds, StepsAre DEF Inline
<1>5. /\ step' = step + 1 /\ round' = round /\ Running' /\ end' = "running"
      /\ step' \in 1 .. Len(Steps[program]) /\ (step' > 1 => round' <= MaxRounds)
      /\ round' \in 1 .. MaxRounds + 1
  <2>1. Advance
    BY DEF TakesSome
  <2> QED
    BY <1>1, <1>4, <2>1, Advances DEF Running
<1>6. Typed'
  <2>1. Len(sq') <= SqEntries
    BY <1>1, <1>2, Sizes DEF Typed
  <2> QED
    BY <1>1, <1>2, <1>5, <2>1 DEF Typed
<1>7. Piped'
  <2>1. program # "poll_bench" => left = 1
    BY <1>1 DEF ExampleInv, Piped, At
  <2>2. pipe = IF program \in AsyncBenches THEN 1 ELSE 0
    BY <1>1, Kinds DEF ExampleInv, Piped
  <2> QED
    BY <1>1, <1>5, <2>1, <2>2, Kinds DEF Piped
<1>8. InlineInv'
  <2>1. Inline => inflight' = inflight
    <3>1. CASE k = 0
      <4>1. Oldest(sq, k) = {}
        BY <3>1 DEF Oldest
      <4> QED
        BY <1>2, <4>1
    <3>2. CASE k > 0
      BY <1>2, <1>3, <3>2
    <3> QED
      BY <1>1, <3>1, <3>2
  <2> QED
    BY <1>1, <1>2, <2>1 DEF ExampleInv, InlineInv, Inline, DoneInside
<1>9. ReadInv'
  <2>1. CASE ~Reading
    BY <1>1, <2>1 DEF ReadInv, Reading
  <2>2. CASE Reading
    <3>1. step = 2 /\ step' = 3
      BY <1>1, <1>5, <2>2, Kinds
    <3>2. /\ Len(sq) = 1 /\ sq[1] = Current /\ inflight = {} /\ cq = <<>>
          /\ entry[Current].opcode = "READ" /\ entry[Current].off = offset
          /\ program = "read_file" => offset = 0
      BY <1>1, <2>2, <3>1 DEF ExampleInv, ReadInv
    <3>3. k = 1 /\ sq' = <<>> /\ cq' = <<>> /\ inflight' = {} \cup Oldest(sq, 1)
      <4>1. k = 1
        <5>1. Len(<<>>) = 0
          BY EmptySeq
        <5>2. sq # <<>>
          BY <3>2, <5>1
        <5> QED
          BY <1>1, <3>2, <5>2
      <4>2. Inside(k) = {} /\ Inside(k) # 1 .. k
        BY <1>3, <2>2, <4>1
      <4>3. /\ cq' = <<>> /\ inflight' = {} \cup Oldest(sq, 1)
        BY <1>2, <3>2, <4>1, <4>2
      <4>4. Len(sq') = 0 /\ sq' \in Seq(Reqs)
        BY <1>2, <3>2, <4>1
      <4> QED
        BY <4>1, <4>3, <4>4, NoneIsEmpty
    <3>4. inflight' = {Current}
      BY <3>2, <3>3 DEF Oldest
    <3>5. Current' = Current
      BY <1>5 DEF Current
    <3> QED
      BY <1>1, <3>1, <3>2, <3>3, <3>4, <3>5 DEF ReadInv
  <2> QED
    BY <2>1, <2>2
<1>10. PollInv'
  <2>1. CASE program # "poll_bench"
    BY <1>1, <2>1 DEF PollInv
  <2>2. CASE program = "poll_bench"
    <3>1. step' = 3 /\ left' = left /\ program' = program
      BY <1>1, <1>5, <2>2, Kinds
    <3>2. /\ IsFiniteSet(inflight')
          /\ left = Len(sq') + Cardinality(inflight') + Len(cq')
      BY <2>2, PollsTaken
    <3> QED
      BY <3>1, <3>2 DEF PollInv
  <2> QED
    BY <2>1, <2>2
<1>11. Printed' /\ Ended'
  BY <1>1, <1>5 DEF ExampleInv, Printed, Ended
<1> QED
  BY <1>6, <1>7, <1>8, <1>9, <1>10, <1>11 DEF ExampleInv

(* submit(), or the first half of submit_and_wait(1). *)
LEMMA SubmitKeepsInv == ASSUME ExampleInv, Submit PROVE ExampleInv'
<1>1. PICK k \in 0 .. Len(sq) :
        /\ At("submit") /\ Takes(k)
        /\ IF k = 0 /\ sq # <<>> THEN Fails ELSE Advance
        /\ UNCHANGED <<program, entry, left, registered, pipe, fired, offset, out, interrupted>>
  BY DEF Submit, Takes, Inside, Answer, Rest, outside, data
<1>2. CASE k = 0 /\ sq # <<>>
  BY <1>1, <1>2, TakenNoneKeepsInv
<1>3. CASE ~(k = 0 /\ sq # <<>>)
  <2>1. Len(sq) \in Nat
    BY LenProperties DEF ExampleInv, Typed
  <2> QED
    BY <1>1, <1>3, <2>1, TakesSomeKeepsInv DEF TakesSome
<1> QED
  BY <1>2, <1>3

(* submit_and_wait(1) returned, because of a completion or of a signal. *)
Returns ==
  /\ At("block") /\ Advance /\ (cq = <<>> => interrupted') /\ interrupted' \in BOOLEAN
  /\ (interrupted => interrupted')
  /\ UNCHANGED <<program, sq, inflight, cq, entry, left, registered, pipe, fired, offset, out>>

(* Either way the read is where it was. *)
LEMMA ReturnsKeepsInv == ASSUME ExampleInv, Returns PROVE ExampleInv'
<1>1. /\ At("block") /\ Advance /\ (cq = <<>> => interrupted') /\ interrupted' \in BOOLEAN
      /\ UNCHANGED <<program, sq, inflight, cq, entry, left, registered, pipe, fired,
                     offset, out>>
  BY DEF Returns
<1>2. Typed /\ Running /\ Reading /\ step = 3
  BY <1>1, Where DEF ExampleInv
<1>3. /\ Len(Steps[program]) = 4 /\ Steps[program][4] \in {"result", "peek"}
      /\ ~Inline /\ program # "poll_bench" /\ program \notin AsyncBenches
  BY <1>2, Kinds, StepsAre DEF Inline
<1>4. /\ step' = 4 /\ round' = round /\ Running' /\ end' = "running"
      /\ step' \in 1 .. Len(Steps[program]) /\ (step' > 1 => round' <= MaxRounds)
      /\ round' \in 1 .. MaxRounds + 1
  BY <1>1, <1>2, <1>3, Advances DEF Running
<1>5. Typed'
  <2>1. {registered', interrupted'} \subseteq BOOLEAN
    <3>1. registered \in BOOLEAN
      BY <1>2 DEF Typed
    <3>2. registered' \in BOOLEAN /\ interrupted' \in BOOLEAN
      BY <1>1, <3>1
    <3> QED
      BY <3>2
  <2> QED
    BY <1>1, <1>2, <1>4, <2>1 DEF Typed
<1>6. Piped'
  BY <1>1, <1>2, <1>3, <1>4 DEF ExampleInv, Piped
<1>7. InlineInv' /\ PollInv'
  BY <1>1, <1>3 DEF InlineInv, PollInv, Inline
<1>8. ReadInv'
  BY <1>1, <1>2, <1>4 DEF ExampleInv, ReadInv, Current, Fits, Reading
<1>9. Printed' /\ Ended'
  BY <1>1, <1>2, <1>4 DEF ExampleInv, Printed, Ended
<1> QED
  BY <1>5, <1>6, <1>7, <1>8, <1>9 DEF ExampleInv

(* There is a completion. *)
LEMMA UnblockKeepsInv == ASSUME ExampleInv, Unblock PROVE ExampleInv'
<1>1. interrupted \in BOOLEAN
  BY DEF ExampleInv, Typed
<1>2. Returns
  BY <1>1 DEF Unblock, Returns, ring, outside, data
<1> QED
  BY <1>2, ReturnsKeepsInv

(* There is a signal. *)
LEMMA UnblockSignalKeepsInv == ASSUME ExampleInv, UnblockSignal PROVE ExampleInv'
<1>1. Returns
  BY DEF UnblockSignal, Returns, ring, outside
<1> QED
  BY <1>1, ReturnsKeepsInv

-----------------------------------------------------------------------------
(* 4. The completions, and the pipe. *)

(* A Cqe is dropped. *)
LEMMA Dropped ==
  ASSUME Typed, Queues!Reap
  PROVE  /\ cq # <<>> /\ cq' \in Seq(Queues!Cqes) /\ Len(cq') = Len(cq) - 1
         /\ Len(cq) \in Nat \ {0} /\ Head(cq) \in Queues!Cqes /\ Head(cq) = cq[1]
         /\ sq' = sq /\ inflight' = inflight
<1>1. cq \in Seq(Queues!Cqes) /\ cq # <<>> /\ cq' = Tail(cq) /\ sq' = sq /\ inflight' = inflight
  BY DEF Typed, Queues!Reap
<1>2. /\ Tail(cq) \in Seq(Queues!Cqes) /\ Len(Tail(cq)) = Len(cq) - 1 /\ Head(cq) \in Queues!Cqes
  BY <1>1, RangeTail
<1>3. Len(cq) \in Nat \ {0} /\ Head(cq) = cq[1]
  BY <1>1, HeadTailProperties, LenProperties, EmptySeq
<1> QED
  BY <1>1, <1>2, <1>3

(* Main goes on, or is over, after a step that dropped a Cqe of a program    *)
(* whose requests the kernel does not keep.                                 *)
InlineGoesOn ==
  /\ Inline /\ Running /\ step \in {3, 4} /\ Steps[program][step] \in {"wait", "own"}
  /\ Queues!Reap \/ UNCHANGED <<sq, inflight, cq>>
  /\ left' \in 0 .. QueueDepth
  /\ \/ Advance
     \/ left' = left /\ UNCHANGED <<step, round, end>>
  /\ UNCHANGED <<program, entry, registered, pipe, fired, offset, out, interrupted>>

(* It keeps the invariant. *)
LEMMA InlineGoesOnKeepsInv == ASSUME ExampleInv, InlineGoesOn PROVE ExampleInv'
<1>1. /\ Typed /\ Inline /\ Running /\ Steps[program][step] \in {"wait", "own"}
      /\ UNCHANGED <<program, entry, registered, pipe, fired, offset, out, interrupted>>
      /\ step \in {3, 4}
  BY DEF ExampleInv, InlineGoesOn
<1>2. /\ program \in Nops => Len(Steps[program]) = 3 /\ step = 3
      /\ program \in AsyncBenches => /\ Len(Steps[program]) = 5 /\ step = 4
                                     /\ Steps[program][5] = "read"
      /\ program \in Nops \/ program \in AsyncBenches
      /\ ~Reading /\ program # "poll_bench" /\ program # "cat"
  <2>1. step \in 1 .. Len(Steps[program])
    BY <1>1 DEF Typed
  <2>2. CASE program \in Nops
    <3>1. Len(Steps[program]) = 3
      BY <2>2, StepsAre
    <3> QED
      BY <1>1, <2>1, <2>2, <3>1, Kinds DEF Inline, Reading
  <2>3. CASE program \in AsyncBenches
    <3>1. Len(Steps[program]) = 5 /\ Steps[program][3] = "submit" /\ Steps[program][5] = "read"
      BY <2>3, StepsAre
    <3> QED
      BY <1>1, <2>3, <3>1, Kinds DEF Inline, Reading
  <2> QED
    BY <1>1, <2>2, <2>3 DEF Inline
<1>3. sq' = sq /\ inflight' = inflight /\ cq' \in Seq(Queues!Cqes)
  <2>1. CASE Queues!Reap
    BY <1>1, <2>1, Dropped
  <2>2. CASE UNCHANGED <<sq, inflight, cq>>
    BY <1>1, <2>2 DEF Typed
  <2> QED
    BY <2>1, <2>2 DEF InlineGoesOn
<1>4. \/ program \in Nops /\ step' = 3 /\ round' = round /\ end' = "ok"
      \/ program \in AsyncBenches /\ step' = 5 /\ round' = round /\ end' = "running"
      \/ left' = left /\ UNCHANGED <<step, round, end>>
  <2>1. CASE Advance
    <3>1. /\ step < Len(Steps[program]) => step' = step + 1 /\ round' = round /\ Running'
          /\ step = Len(Steps[program]) =>
               IF program \in Loops THEN step' = 1 /\ Running'
                                    ELSE step' = step /\ round' = round /\ end' = "ok"
      BY <1>1, <1>2, <2>1, Advances
    <3>2. CASE program \in Nops
      BY <1>1, <1>2, <3>1, <3>2, Kinds
    <3>3. CASE program \in AsyncBenches
      <4>1. step < Len(Steps[program]) /\ step + 1 = 5
        BY <1>2, <3>3
      <4> QED
        BY <3>1, <3>3, <4>1 DEF Running
    <3> QED
      BY <1>2, <3>2, <3>3
  <2> QED
    BY <2>1 DEF InlineGoesOn
<1>5. Typed'
  <2>1. /\ step' \in 1 .. Len(Steps[program]) /\ round' = round /\ step > 1
        /\ end' \in {"running", "ok", "err"}
    BY <1>1, <1>2, <1>4 DEF Typed
  <2>2. left' \in 0 .. QueueDepth
    BY DEF InlineGoesOn
  <2> QED
    BY <1>1, <1>3, <2>1, <2>2 DEF Typed
<1>6. Piped'
  <2>1. pipe = IF program \in AsyncBenches THEN 1 ELSE 0
    BY <1>1, <1>2, Kinds DEF ExampleInv, Piped
  <2>2. Steps[program][step] = "wait" => left = 1
    BY <1>1, <1>2 DEF ExampleInv, Piped
  <2> QED
    BY <1>1, <1>2, <1>4, <2>1, <2>2, Kinds DEF Piped, Running
<1>7. inflight = {} /\ InlineInv'
  BY <1>1, <1>3 DEF ExampleInv, InlineInv, Inline, DoneInside
<1>8. ReadInv' /\ PollInv' /\ Printed' /\ Ended'
  BY <1>1, <1>2, <1>3, <1>7 DEF ExampleInv, ReadInv, PollInv, Printed, Ended, Reading
<1> QED
  BY <1>5, <1>6, <1>7, <1>8 DEF ExampleInv

(* wait_cqe() of poll-bench: one of the completions that are due. *)
PollWait ==
  /\ program = "poll_bench" /\ At("wait") /\ Queues!Reap /\ left' = left - 1
  /\ IF left = 1 THEN Advance ELSE UNCHANGED <<step, round, end>>
  /\ UNCHANGED <<program, entry, registered, pipe, fired, offset, out, interrupted>>

(* It keeps the invariant. *)
LEMMA PollWaitKeepsInv == ASSUME ExampleInv, PollWait PROVE ExampleInv'
<1>1. /\ Typed /\ program = "poll_bench" /\ Running /\ step = 5 /\ Queues!Reap
      /\ left' = left - 1 /\ Len(Steps[program]) = 5
      /\ IF left = 1 THEN Advance ELSE UNCHANGED <<step, round, end>>
      /\ UNCHANGED <<program, entry, registered, pipe, fired, offset, out, interrupted>>
  BY Where, Kinds, StepsAre DEF ExampleInv, PollWait
<1>2. /\ program \notin Nops \cup AsyncBenches /\ ~Reading /\ program # "cat"
      /\ program \in Loops /\ ~Inline
  BY <1>1, Kinds DEF Reading, Inline
<1>3. /\ cq' \in Seq(Queues!Cqes) /\ Len(cq') = Len(cq) - 1
      /\ Len(cq) \in Nat \ {0} /\ sq' = sq /\ inflight' = inflight
  BY <1>1, Dropped
<1>4. /\ IsFiniteSet(inflight) /\ left = Len(sq) + Cardinality(inflight) + Len(cq)
      /\ Len(sq) \in Nat /\ Cardinality(inflight) \in Nat
  BY <1>1, LenProperties, FS_CardinalityType DEF ExampleInv, PollInv, Typed
<1>5. left >= 1 /\ left' = Len(sq) + Cardinality(inflight) + Len(cq')
  BY <1>1, <1>3, <1>4
<1>6. /\ Running' /\ end' = "running" /\ step' \in 1 .. 5
      /\ round' \in 1 .. MaxRounds + 1 /\ (step' > 1 => round' <= MaxRounds)
      /\ step' = 5 \/ (step' = 1 /\ left' = 0)
  <2>1. CASE left = 1
    <3>1. step' = 1 /\ Running' /\ round' \in 1 .. MaxRounds + 1
      BY <1>1, <1>2, <2>1, Advances
    <3> QED
      BY <1>1, <2>1, <3>1 DEF Running
  <2>2. CASE left # 1
    BY <1>1, <2>2 DEF Typed, Running
  <2> QED
    BY <2>1, <2>2
<1>7. Typed'
  <2>1. left' \in 0 .. QueueDepth
    BY <1>1, <1>5, Sizes DEF Typed
  <2> QED
    BY <1>1, <1>3, <1>6, <2>1 DEF Typed
<1>8. Piped'
  BY <1>1, <1>2, <1>6 DEF ExampleInv, Piped
<1>9. InlineInv' /\ ReadInv' /\ Printed' /\ Ended'
  BY <1>1, <1>2, <1>6 DEF ExampleInv, InlineInv, ReadInv, Printed, Ended, Inline, Reading
<1>10. PollInv'
  BY <1>1, <1>3, <1>4, <1>5, <1>6 DEF PollInv
<1> QED
  BY <1>7, <1>8, <1>9, <1>10 DEF ExampleInv

(* wait_cqe() as often as requests were due. *)
LEMMA WaitKeepsInv == ASSUME ExampleInv, Wait PROVE ExampleInv'
<1>1. /\ At("wait") /\ Typed /\ Running /\ Queues!Reap /\ left' = left - 1
      /\ IF left = 1 THEN Advance ELSE UNCHANGED <<step, round, end>>
      /\ UNCHANGED <<program, entry, registered, pipe, fired, offset, out, interrupted>>
      /\ \/ program \in Nops /\ step = 3
         \/ program = "poll_bench" /\ step = 5
         \/ program \in AsyncBenches /\ step = 4
  BY Where DEF ExampleInv, Wait, control, outside, data
<1>2. CASE program = "poll_bench"
  BY <1>1, <1>2, PollWaitKeepsInv DEF PollWait
<1>3. CASE program # "poll_bench"
  <2>1. left = 1
    BY <1>1, <1>3 DEF ExampleInv, Piped, At
  <2>2. left' \in 0 .. QueueDepth /\ Steps[program][step] = "wait" /\ Inline /\ step \in {3, 4}
    BY <1>1, <1>3, <2>1, Sizes DEF At, Inline
  <2> QED
    BY <1>1, <2>1, <2>2, InlineGoesOnKeepsInv DEF InlineGoesOn
<1> QED
  BY <1>2, <1>3

(* A poll of the SubmitFuture. *)
LEMMA OwnKeepsInv == ASSUME ExampleInv, Own PROVE ExampleInv'
<1>1. /\ At("own") /\ Typed /\ Running /\ Queues!Reap /\ left' = left
      /\ Advance \/ UNCHANGED <<step, round, end>>
      /\ UNCHANGED <<program, entry, registered, pipe, fired, offset, out, interrupted>>
      /\ \/ program \in Nops /\ step = 3
         \/ program \in AsyncBenches /\ step = 4
  BY Where DEF ExampleInv, Own, control, outside, data
<1>2. Steps[program][step] = "own" /\ left' \in 0 .. QueueDepth /\ Inline /\ step \in {3, 4}
  BY <1>1 DEF At, Typed, Inline
<1> QED
  BY <1>1, <1>2, InlineGoesOnKeepsInv DEF InlineGoesOn

(* wait_cqe() failed. *)
LEMMA WaitSignalKeepsInv == ASSUME ExampleInv, WaitSignal PROVE ExampleInv'
<1>1. /\ Typed /\ Running /\ Fails
      /\ \/ program \in Nops /\ step = 3
         \/ program = "poll_bench" /\ step = 5
         \/ program \in AsyncBenches /\ step = 4
         \/ program = "cat" /\ step = 4
      /\ UNCHANGED <<program, sq, inflight, cq, entry, left, registered, pipe, fired, offset,
                     out, interrupted>>
  BY Where DEF ExampleInv, WaitSignal, ring, outside, data
<1>2. FailsSafely
  BY <1>1 DEF FailsSafely, Typed
<1> QED
  BY <1>2, FailsKeepsInv

(* A piece of the file. *)
LEMMA BytesAre ==
  ASSUME NEW b \in Nat, NEW n \in Nat, b + n <= FileSize
  PROVE  Bytes(b, n) \in Seq(1 .. FileSize) /\ Len(Bytes(b, n)) = n
<1>1. Bytes(b, n) \in [1 .. n -> 1 .. FileSize]
  BY Sizes DEF Bytes
<1> QED
  BY <1>1, FunctionIsSeq

(* Two pieces of the file, one after the other. *)
LEMMA BytesJoin ==
  ASSUME NEW a \in Nat, NEW m \in Nat, a + m <= FileSize, NEW o, o = Bytes(0, a)
  PROVE  /\ o \o Bytes(a, m) = Bytes(0, a + m)
         /\ Bytes(0, a + m) \in Seq(1 .. FileSize) /\ Len(Bytes(0, a + m)) = a + m
<1>1. /\ o \in Seq(1 .. FileSize) /\ Len(o) = a
      /\ Bytes(a, m) \in Seq(1 .. FileSize) /\ Len(Bytes(a, m)) = m
      /\ Bytes(0, a + m) \in Seq(1 .. FileSize) /\ Len(Bytes(0, a + m)) = a + m
  <2>1. /\ a <= FileSize /\ 0 + a = a /\ 0 + (a + m) = a + m
        /\ a + m \in Nat /\ 0 + a <= FileSize /\ 0 + (a + m) <= FileSize
    BY Sizes
  <2> QED
    BY <2>1, BytesAre
<1> DEFINE s == Bytes(a, m)
           t == Bytes(0, a + m)
<1>2. \A i \in 1 .. a + m : t[i] = IF i <= Len(o) THEN o[i] ELSE s[i - Len(o)]
  BY <1>1 DEF Bytes
<1>3. s \in Seq(1 .. FileSize) /\ Len(s) = m /\ t \in Seq(1 .. FileSize) /\ Len(t) = a + m
  BY <1>1
<1> HIDE DEF s, t
<1> DEFINE j == o \o s
<1>4. /\ j \in Seq(1 .. FileSize) /\ Len(j) = Len(o) + Len(s)
      /\ \A i \in 1 .. Len(o) + Len(s) : j[i] = IF i <= Len(o) THEN o[i] ELSE s[i - Len(o)]
  BY <1>1, <1>3, ConcatProperties
<1> HIDE DEF j
<1>5. j = t
  <2>1. Len(j) = Len(t) /\ \A i \in 1 .. Len(j) : j[i] = t[i]
    BY <1>1, <1>2, <1>3, <1>4
  <2> QED
    BY <1>3, <1>4, <2>1, SeqEqual
<1> QED
  BY <1>3, <1>5 DEF j, s, t

(* What cat prints: the read is over, and n of its bytes are the next ones. *)
LEMMA BlockRead ==
  ASSUME ExampleInv, Result
  PROVE  /\ Typed /\ Running /\ program = "cat" /\ step = 4
         /\ sq = <<>> /\ sq' = <<>> /\ inflight = {} /\ inflight' = {} /\ cq' = <<>>
         /\ UNCHANGED <<program, entry, left, registered, pipe, fired, interrupted>>
         /\ Len(out) = offset /\ out = Bytes(0, offset)
         /\ entry[Head(cq).req].off = offset
         /\ Head(cq).res \in Errno .. FileSize /\ Fits(Head(cq).res)
<1>1. /\ At("result") /\ Typed /\ Running /\ program = "cat" /\ step = 4 /\ Queues!Reap
      /\ UNCHANGED <<program, entry, left, registered, pipe, fired, interrupted>>
  BY Where DEF ExampleInv, Result, outside
<1>2. /\ cq # <<>> /\ cq' \in Seq(Queues!Cqes) /\ Len(cq') = Len(cq) - 1
      /\ Head(cq) \in Queues!Cqes /\ Head(cq) = cq[1]
      /\ sq' = sq /\ inflight' = inflight
  BY <1>1, Dropped
<1>3. /\ sq = <<>> /\ inflight = {} /\ Len(cq) = 1 /\ cq[1].req = Current /\ Fits(cq[1].res)
      /\ entry[Current].off = offset
  BY <1>1, <1>2 DEF ExampleInv, ReadInv, Reading
<1>4. cq' = <<>>
  BY <1>2, <1>3, NoneIsEmpty
<1>5. Len(out) = offset /\ out = Bytes(0, offset)
  BY <1>1 DEF ExampleInv, Printed
<1>6. Head(cq).res \in Errno .. FileSize
  BY <1>2 DEF Queues!Cqes
<1> QED
  BY <1>1, <1>2, <1>3, <1>4, <1>5, <1>6

(* wait_cqe() of cat, and what it does with the result. *)
LEMMA ResultKeepsInv == ASSUME ExampleInv, Result PROVE ExampleInv'
<1> DEFINE n == Head(cq).res
<1>1. /\ Typed /\ Running /\ program = "cat" /\ step = 4
      /\ sq' = <<>> /\ inflight' = {} /\ cq' = <<>>
      /\ UNCHANGED <<program, entry, left, registered, pipe, fired, interrupted>>
      /\ Len(out) = offset /\ out = Bytes(0, offset)
      /\ n \in Errno .. FileSize /\ Fits(n)
  BY BlockRead
<1>2. \/ n < 0 /\ Stop("err") /\ UNCHANGED <<offset, out>>
      \/ n = 0 /\ Stop("ok") /\ UNCHANGED <<offset, out>>
      \/ n > 0 /\ out' = out \o Bytes(offset, n) /\ offset' = offset + n /\ Advance
      \/ /\ n > 0 /\ Stop("err") /\ UNCHANGED offset
         /\ \E m \in 0 .. n - 1 : out' = out \o Bytes(offset, m)
  BY BlockRead DEF Result, NextOffset
<1>3. /\ Reading /\ program \in Loops /\ ~Inline /\ program # "poll_bench"
      /\ program \notin AsyncBenches /\ Len(Steps[program]) = 4
      /\ Steps[program][1] = "queue"
  BY <1>1, Kinds, StepsAre DEF Reading, Inline
<1>4. offset \in 0 .. FileSize /\ FileSize \in Nat /\ n \in Int /\ n <= FileSize - offset
  BY <1>1, Sizes DEF Typed, Fits, Errno
<1> HIDE DEF n
<1>5. InlineInv' /\ PollInv'
  BY <1>1, <1>3 DEF InlineInv, PollInv, Inline
<1>6. ASSUME offset' \in 0 .. FileSize, out' \in Seq(1 .. FileSize),
             step' \in 1 .. 4, round' \in 1 .. MaxRounds + 1,
             step' > 1 => round' <= MaxRounds, end' \in {"running", "ok", "err"}
      PROVE  Typed'
  BY <1>1, <1>3, <1>6, Sizes, EmptySeq DEF Typed
<1>7. CASE n < 0 /\ Stop("err") /\ UNCHANGED <<offset, out>>
  <2>1. end' = "err" /\ UNCHANGED <<step, round, offset, out>>
    BY <1>7 DEF Stop
  <2>2. Typed'
    BY <1>1, <1>6, <2>1 DEF Typed
  <2>3. Printed'
    BY <1>1, <2>1 DEF Printed, Running
  <2> QED
    BY <1>5, <2>1, <2>2, <2>3, OverKeepsInv
<1>8. CASE n = 0 /\ Stop("ok") /\ UNCHANGED <<offset, out>>
  <2>1. end' = "ok" /\ UNCHANGED <<step, round, offset, out>> /\ offset = FileSize
    BY <1>1, <1>8 DEF Stop, Fits
  <2>2. Typed'
    BY <1>1, <1>6, <2>1 DEF Typed
  <2>3. Printed' /\ Ended' /\ ~Running'
    BY <1>1, <2>1 DEF Printed, Running, Ended
  <2> QED
    BY <1>5, <2>2, <2>3 DEF ExampleInv, Piped, ReadInv
<1>9. CASE n > 0 /\ out' = out \o Bytes(offset, n) /\ offset' = offset + n /\ Advance
  <2>1. step' = 1 /\ Running' /\ end' = "running" /\ round' \in 1 .. MaxRounds + 1
    BY <1>1, <1>3, <1>9, Advances DEF Running
  <2>2. offset \in Nat /\ n \in Nat /\ offset + n <= FileSize
    BY <1>4, <1>9
  <2>3. /\ out \o Bytes(offset, n) = Bytes(0, offset + n)
        /\ Bytes(0, offset + n) \in Seq(1 .. FileSize)
        /\ Len(Bytes(0, offset + n)) = offset + n
    BY <1>1, <2>2, BytesJoin
  <2>4. out' = Bytes(0, offset + n) /\ out' \in Seq(1 .. FileSize) /\ Len(out') = offset + n
    BY <1>9, <2>3
  <2>5. Typed'
    BY <1>4, <1>6, <1>9, <2>1, <2>4
  <2>6. Printed'
    BY <1>1, <1>9, <2>1, <2>4 DEF Printed
  <2>7. Piped' /\ Ended'
    BY <1>1, <1>3, <2>1 DEF ExampleInv, Piped, Ended
  <2>8. ReadInv'
    BY <1>1, <2>1 DEF ReadInv
  <2> QED
    BY <1>5, <2>5, <2>6, <2>7, <2>8 DEF ExampleInv
<1>10. CASE /\ n > 0 /\ Stop("err") /\ UNCHANGED offset
            /\ \E m \in 0 .. n - 1 : out' = out \o Bytes(offset, m)
  <2>1. end' = "err" /\ UNCHANGED <<step, round, offset>>
    BY <1>10 DEF Stop
  <2>2. PICK m \in 0 .. n - 1 : out' = out \o Bytes(offset, m)
    BY <1>10
  <2>3. m \in Nat /\ offset \in Nat /\ offset + m <= FileSize
    BY <1>4, <1>10, <2>2
  <2>4. /\ out \o Bytes(offset, m) = Bytes(0, offset + m)
        /\ Bytes(0, offset + m) \in Seq(1 .. FileSize)
        /\ Len(Bytes(0, offset + m)) = offset + m
    BY <1>1, <2>3, BytesJoin
  <2>5. out' = Bytes(0, offset + m) /\ out' \in Seq(1 .. FileSize) /\ Len(out') = offset + m
    BY <2>2, <2>4
  <2>6. Typed'
    BY <1>1, <1>6, <2>1, <2>5 DEF Typed
  <2>7. Printed'
    BY <2>1, <2>5 DEF Printed, Running
  <2> QED
    BY <1>5, <2>1, <2>6, <2>7, OverKeepsInv
<1> QED
  BY <1>2, <1>7, <1>8, <1>9, <1>10

(* peek_cqe() of read_file, after which main returns. *)
LEMMA PeekKeepsInv == ASSUME ExampleInv, Peek PROVE ExampleInv'
<1>1. /\ At("peek") /\ Typed /\ Running /\ program = "read_file" /\ step = 4 /\ Advance
      /\ UNCHANGED <<program, entry, left, registered, pipe, fired, offset, interrupted>>
      /\ IF cq = <<>> THEN UNCHANGED <<sq, inflight, cq, out>>
         ELSE /\ Queues!Reap
              /\ out' = IF Head(cq).res > 0 THEN Bytes(0, Head(cq).res) ELSE out
  BY Where DEF ExampleInv, Peek, ring, outside
<1>2. /\ Reading /\ program \notin Loops /\ ~Inline /\ program # "poll_bench" /\ program # "cat"
      /\ Len(Steps[program]) = 4
  BY <1>1, Kinds, StepsAre DEF Reading, Inline
<1>3. step' = 4 /\ round' = round /\ end' = "ok" /\ ~Running'
  BY <1>1, <1>2, Advances DEF Running
<1>4. /\ inflight = {} \/ interrupted
      /\ cq # <<>> => Fits(cq[1].res)
      /\ offset = 0 /\ sq = <<>>
  BY <1>1, <1>2 DEF ExampleInv, ReadInv
<1>5. out = Bytes(0, Len(out)) /\ out \in Seq(1 .. FileSize)
  BY <1>1 DEF ExampleInv, Printed, Typed
<1>6. /\ sq' = sq /\ inflight' = inflight /\ cq' \in Seq(Queues!Cqes)
      /\ out' = Bytes(0, Len(out')) /\ out' \in Seq(1 .. FileSize)
  <2>1. CASE cq = <<>>
    BY <1>1, <1>5, <2>1 DEF Typed
  <2>2. CASE cq # <<>>
    <3>1. /\ cq' \in Seq(Queues!Cqes) /\ Head(cq) \in Queues!Cqes /\ Head(cq) = cq[1]
          /\ sq' = sq /\ inflight' = inflight
      BY <1>1, <2>2, Dropped
    <3> DEFINE n == Head(cq).res
    <3>2. n \in Errno .. FileSize
      BY <3>1 DEF Queues!Cqes
    <3>3. out' = IF n > 0 THEN Bytes(0, n) ELSE out
      BY <1>1, <2>2
    <3> HIDE DEF n
    <3>4. CASE n > 0
      <4>1. n \in Nat /\ 0 \in Nat /\ 0 + n <= FileSize
        BY <3>2, <3>4, Sizes DEF Errno
      <4>2. Bytes(0, n) \in Seq(1 .. FileSize) /\ Len(Bytes(0, n)) = n
        BY <4>1, BytesAre
      <4> QED
        BY <3>1, <3>3, <3>4, <4>2
    <3>5. CASE ~(n > 0)
      BY <1>5, <3>1, <3>3, <3>5
    <3> QED
      BY <3>4, <3>5
  <2> QED
    BY <2>1, <2>2
<1>7. Typed'
  BY <1>1, <1>3, <1>6 DEF Typed
<1>8. InlineInv' /\ PollInv' /\ Piped' /\ ReadInv'
  BY <1>1, <1>2, <1>3 DEF InlineInv, PollInv, Piped, ReadInv, Inline
<1>9. Printed' /\ Ended'
  BY <1>1, <1>2, <1>3, <1>4, <1>6 DEF Printed, Ended
<1> QED
  BY <1>7, <1>8, <1>9 DEF ExampleInv

(* The byte goes into the pipe of a benchmark, or comes out of it. *)
PipeStep ==
  /\ \/ At("write") /\ InTime /\ pipe' = pipe + 1
     \/ At("read") /\ pipe' = pipe - 1
  /\ fired' \subseteq Reqs
  /\ Advance
  /\ UNCHANGED <<program, sq, inflight, cq, entry, left, registered, offset, out, interrupted>>

(* It is the only one. *)
LEMMA PipeStepKeepsInv == ASSUME ExampleInv, PipeStep PROVE ExampleInv'
<1>1. /\ Typed /\ Running /\ Advance /\ fired' \subseteq Reqs
      /\ UNCHANGED <<program, sq, inflight, cq, entry, left, registered, offset, out,
                     interrupted>>
      /\ \/ program = "poll_bench" /\ step = 3 /\ pipe' = pipe + 1
         \/ program \in AsyncBenches /\ step = 1 /\ round <= MaxRounds /\ pipe' = pipe + 1
         \/ program = "poll_bench" /\ step = 4 /\ pipe' = pipe - 1
         \/ program \in AsyncBenches /\ step = 5 /\ pipe' = pipe - 1
  BY Where DEF ExampleInv, PipeStep, InTime
<1>2. /\ program \in Loops /\ program # "cat" /\ ~Reading
      /\ Len(Steps[program]) = 5
      /\ program = "poll_bench" => ~Inline
      /\ program \in AsyncBenches =>
           /\ program # "poll_bench" /\ Steps[program][1] = "write"
           /\ Steps[program][2] = "queue"
  BY <1>1, Kinds, StepsAre DEF Inline, Reading
<1>3. /\ step' \in 1 .. Len(Steps[program]) /\ end' \in {"running", "ok"}
      /\ round' \in 1 .. MaxRounds + 1 /\ (step' > 1 => round' <= MaxRounds)
      /\ step < Len(Steps[program]) => step' = step + 1 /\ Running'
      /\ step = Len(Steps[program]) => step' = 1 /\ Running'
  BY <1>1, <1>2, Advances
<1>4. /\ Running'
      /\ \/ program = "poll_bench" /\ step' = 4 /\ pipe' = 1
         \/ program \in AsyncBenches /\ step' = 2 /\ pipe' = 1
         \/ program = "poll_bench" /\ step' = 5 /\ pipe' = 0
         \/ program \in AsyncBenches /\ step' = 1 /\ pipe' = 0
  BY <1>1, <1>2, <1>3 DEF ExampleInv, Piped
<1>5. Typed'
  <2>1. pipe' \in 0 .. 1
    BY <1>4
  <2> QED
    BY <1>1, <1>3, <2>1 DEF Typed
<1>6. Piped'
  BY <1>1, <1>2, <1>4 DEF Piped
<1>7. InlineInv' /\ ReadInv' /\ Printed' /\ Ended'
  BY <1>1, <1>2, <1>4
     DEF ExampleInv, InlineInv, ReadInv, Printed, Ended, Running, Inline, Reading, DoneInside
<1>8. PollInv'
  BY <1>1, <1>2, <1>4 DEF ExampleInv, PollInv
<1> QED
  BY <1>5, <1>6, <1>7, <1>8 DEF ExampleInv

(* write() or read() failed: main returns the error. *)
LEMMA PipeErrorKeepsInv ==
  ASSUME ExampleInv, Stop("err"),
         UNCHANGED <<program, sq, inflight, cq, entry, left, registered, pipe, fired, offset,
                     out, interrupted>>
  PROVE  ExampleInv'
<1>1. end' = "err" /\ UNCHANGED <<step, round>>
  BY DEF Stop
<1>2. Typed'
  BY <1>1 DEF ExampleInv, Typed
<1>3. InlineInv'
  BY DEF ExampleInv, InlineInv, Inline, DoneInside
<1>4. Printed'
  BY <1>1 DEF ExampleInv, Printed, Running
<1> QED
  BY <1>1, <1>2, <1>3, <1>4, OverKeepsInv

(* The write of a benchmark. *)
LEMMA WriteKeepsInv == ASSUME ExampleInv, Write PROVE ExampleInv'
<1>1. fired \subseteq Reqs /\ inflight \subseteq Reqs
  BY DEF ExampleInv, Typed
<1>2. PipeStep \/ (/\ Stop("err")
                  /\ UNCHANGED <<program, sq, inflight, cq, entry, left, registered, pipe, fired,
                                 offset, out, interrupted>>)
  BY <1>1 DEF Write, PipeStep, ring, data
<1> QED
  BY <1>2, PipeStepKeepsInv, PipeErrorKeepsInv

(* The read of a benchmark. *)
LEMMA ReadBackKeepsInv == ASSUME ExampleInv, ReadBack PROVE ExampleInv'
<1>1. fired \subseteq Reqs
  BY DEF ExampleInv, Typed
<1>2. PipeStep \/ (/\ Stop("err")
                  /\ UNCHANGED <<program, sq, inflight, cq, entry, left, registered, pipe, fired,
                                 offset, out, interrupted>>)
  BY <1>1 DEF ReadBack, PipeStep, ring, data
<1> QED
  BY <1>2, PipeStepKeepsInv, PipeErrorKeepsInv

(* The kernel completed r with the result res. *)
Done(r, res) ==
  /\ r \in inflight /\ res \in Outcomes(entry[r]) /\ sq' = sq
  /\ inflight' = inflight \ {r} /\ cq' = Append(cq, [req |-> r, res |-> res])
  /\ UNCHANGED <<program, entry, step, round, end, left, registered, pipe, fired, offset, out,
                 interrupted>>

(* A request in flight belongs to the read, or to the polls, of its round. *)
LEMMA DoneIsTyped ==
  ASSUME ExampleInv, NEW r, NEW res, Done(r, res)
  PROVE  /\ Typed' /\ Typed /\ ~Inline /\ (Reading \/ program = "poll_bench")
         /\ Running => step > 1
         /\ Running /\ Reading => step > 2
         /\ Len(cq') = Len(cq) + 1 /\ Len(cq) \in Nat
         /\ cq'[Len(cq) + 1] = [req |-> r, res |-> res]
<1>1. /\ Typed /\ r \in inflight /\ res \in Outcomes(entry[r]) /\ sq' = sq
      /\ inflight' = inflight \ {r} /\ cq' = Append(cq, [req |-> r, res |-> res])
      /\ UNCHANGED <<program, entry, step, round, end, left, registered, pipe, fired, offset,
                     out, interrupted>>
  BY DEF ExampleInv, Done
<1>2. ~Inline
  BY <1>1 DEF ExampleInv, InlineInv
<1>3. Reading \/ program = "poll_bench"
  BY <1>1, <1>2, Kinds DEF Inline
<1>4. Running => step > 1
  <2>1. Running => step # 1
    BY <1>1, EmptyAtStart
  <2> QED
    BY <1>1, <2>1 DEF Typed
<1>5. Running /\ Reading => step > 2
  <2>1. Running /\ Reading => step # 2
    BY <1>1 DEF ExampleInv, ReadInv
  <2> QED
    BY <1>1, <1>4, <2>1 DEF Typed
<1>6. [req |-> r, res |-> res] \in Queues!Cqes
  <2>1. r \in Reqs /\ entry[r] \in Entry
    BY <1>1 DEF Typed
  <2>2. entry[r].off \in 0 .. FileSize /\ entry[r].len \in Nat
    BY <2>1 DEF Entry
  <2>3. res \in Errno .. FileSize
    BY <1>1, <2>2, Sizes DEF Outcomes, Errno
  <2> QED
    BY <2>1, <2>3 DEF Queues!Cqes
<1>7. /\ cq' \in Seq(Queues!Cqes) /\ Len(cq') = Len(cq) + 1 /\ Len(cq) \in Nat
      /\ cq'[Len(cq) + 1] = [req |-> r, res |-> res]
  BY <1>1, <1>6, AppendRange, LenProperties DEF Typed
<1>8. Typed'
  BY <1>1, <1>7 DEF Typed
<1> QED
  BY <1>1, <1>2, <1>3, <1>4, <1>5, <1>7, <1>8

(* A completion keeps the invariant. *)
LEMMA DoneKeepsInv == ASSUME ExampleInv, NEW r, NEW res, Done(r, res) PROVE ExampleInv'
<1>1. /\ r \in inflight /\ res \in Outcomes(entry[r]) /\ sq' = sq
      /\ inflight' = inflight \ {r}
      /\ UNCHANGED <<program, entry, step, round, end, left, registered, pipe, fired, offset,
                     out, interrupted>>
  BY DEF Done
<1>2. /\ Typed' /\ Typed /\ ~Inline /\ (Reading \/ program = "poll_bench")
      /\ Running => step > 1
      /\ Running /\ Reading => step > 2
      /\ Len(cq') = Len(cq) + 1 /\ Len(cq) \in Nat
      /\ cq'[Len(cq) + 1] = [req |-> r, res |-> res]
  BY DoneIsTyped
<1>3. Piped' /\ Printed'
  BY <1>1 DEF ExampleInv, Piped, Printed, Running
<1>4. InlineInv'
  BY <1>1, <1>2 DEF InlineInv, Inline
<1>5. Ended'
  BY <1>1 DEF ExampleInv, Ended
<1>6. ReadInv'
  <2>1. CASE ~(Reading /\ Running)
    BY <1>1, <2>1 DEF ReadInv, Reading, Running
  <2>2. CASE Reading /\ Running
    <3>1. /\ sq = <<>> /\ inflight = {Current} /\ cq = <<>>
          /\ entry[Current].opcode = "READ" /\ entry[Current].off = offset
          /\ program = "read_file" => offset = 0
          /\ step > 2 /\ step > 1 /\ step \in Nat
      <4>1. step > 2 /\ step > 1 /\ step \in Nat
        BY <1>2, <2>2 DEF Typed
      <4>2. ReadInv
        BY DEF ExampleInv
      <4>3. /\ sq = <<>>
            /\ \/ inflight = {Current} /\ cq = <<>>
               \/ inflight = {}
            /\ entry[Current].opcode = "READ" /\ entry[Current].off = offset
            /\ program = "read_file" => offset = 0
        BY <2>2, <4>1, <4>2 DEF ReadInv
      <4> QED
        BY <1>1, <4>1, <4>3
    <3>2. r = Current /\ inflight' = {}
      BY <1>1, <3>1
    <3>3. Len(cq) = 0
      BY <3>1
    <3>4. Len(cq') = 1 /\ cq'[1] = [req |-> Current, res |-> res] /\ cq' # <<>>
      BY <1>2, <3>2, <3>3
    <3>5. Fits(res)
      <4>1. res \in {n \in Errno .. entry[r].len : n <= FileSize - entry[r].off
                                                /\ (n = 0 => entry[r].off = FileSize)}
        BY <1>1, <3>1, <3>2 DEF Outcomes
      <4> QED
        BY <3>1, <3>2, <4>1 DEF Fits
    <3>6. Current' = Current
      BY <1>1 DEF Current
    <3>7. Fits(cq[1].res)' /\ cq'[1].req = Current'
      <4>1. cq'[1].res = res /\ cq'[1].req = Current
        BY <3>4
      <4> QED
        BY <1>1, <3>5, <3>6, <4>1 DEF Fits
    <3>8. /\ Len(cq') = 1 /\ cq' # <<>> /\ Current' = Current
          /\ entry'[Current].opcode = "READ" /\ entry'[Current].off = offset'
      BY <1>1, <3>1, <3>4, <3>6
    <3>9. step' > 2 /\ step' > 1 /\ step' # 1 /\ step' # 2
      BY <1>1, <3>1
    <3> QED
      BY <1>1, <3>1, <3>2, <3>7, <3>8, <3>9 DEF ReadInv
  <2> QED
    BY <2>1, <2>2
<1>7. PollInv'
  <2>1. CASE ~(program = "poll_bench" /\ Running)
    BY <1>1, <2>1 DEF PollInv, Running
  <2>2. CASE program = "poll_bench" /\ Running
    <3>1. IsFiniteSet(inflight) /\ left = Len(sq) + Cardinality(inflight) + Len(cq)
      BY <2>2 DEF ExampleInv, PollInv
    <3>2. step # 1 /\ step # 2
      BY <1>1, <1>2, <2>2 DEF ExampleInv, PollInv, Typed
    <3>3. IsFiniteSet(inflight') /\ Cardinality(inflight') = Cardinality(inflight) - 1
      BY <1>1, <3>1, FS_RemoveElement
    <3>4. Len(sq) \in Nat /\ Cardinality(inflight) \in Nat
      BY <1>2, <3>1, LenProperties, FS_CardinalityType DEF Typed
    <3>5. left' = Len(sq') + Cardinality(inflight') + Len(cq')
      BY <1>1, <1>2, <3>1, <3>3, <3>4
    <3> QED
      BY <1>1, <3>2, <3>3, <3>5 DEF PollInv
  <2> QED
    BY <2>1, <2>2
<1> QED
  BY <1>2, <1>3, <1>4, <1>5, <1>6, <1>7 DEF ExampleInv

(* The kernel completes a read, or a poll. *)
LEMMA CompleteKeepsInv == ASSUME ExampleInv, NEW r \in Reqs, Complete(r) PROVE ExampleInv'
<1>1. PICK res \in Outcomes(entry[r]) : Queues!Complete(r, res)
  BY DEF Complete
<1>2. Done(r, res)
  BY <1>1 DEF Complete, Done, Queues!Complete, control, outside, data
<1> QED
  BY <1>2, DoneKeepsInv

(* A step that changes nothing. *)
LEMMA StutterKeepsInv == ASSUME ExampleInv, UNCHANGED vars PROVE ExampleInv'
<1>1. UNCHANGED <<program, sq, inflight, cq, entry, step, round, end, left, registered, pipe,
                  fired, offset, out, interrupted>>
  BY DEF vars, ring, control, outside, data
<1>2. Typed'
  BY <1>1 DEF ExampleInv, Typed
<1>3. Piped' /\ InlineInv'
  BY <1>1 DEF ExampleInv, Piped, Running, InlineInv, Inline, DoneInside
<1>4. ReadInv'
  BY <1>1 DEF ExampleInv, ReadInv, Reading, Running, Current, Fits
<1>5. PollInv'
  BY <1>1 DEF ExampleInv, PollInv, Running, Distinct, PollsFixed
<1>6. Printed' /\ Ended'
  BY <1>1 DEF ExampleInv, Printed, Running, Ended
<1> QED
  BY <1>2, <1>3, <1>4, <1>5, <1>6 DEF ExampleInv

(* One step of any of them. *)
LEMMA NextExampleInv == ASSUME ExampleInv, [Next]_vars PROVE ExampleInv'
<1>1. CASE Deadline
  BY <1>1, DeadlineKeepsInv
<1>2. CASE Queue
  BY <1>2, QueueKeepsInv
<1>3. CASE Submit
  BY <1>3, SubmitKeepsInv
<1>4. CASE Unblock
  BY <1>4, UnblockKeepsInv
<1>5. CASE Wait
  BY <1>5, WaitKeepsInv
<1>6. CASE Own
  BY <1>6, OwnKeepsInv
<1>7. CASE Result
  BY <1>7, ResultKeepsInv
<1>8. CASE Peek
  BY <1>8, PeekKeepsInv
<1>9. CASE Write
  BY <1>9, WriteKeepsInv
<1>10. CASE ReadBack
  BY <1>10, ReadBackKeepsInv
<1>11. CASE UnblockSignal
  BY <1>11, UnblockSignalKeepsInv
<1>12. CASE WaitSignal
  BY <1>12, WaitSignalKeepsInv
<1>13. ASSUME NEW r \in Reqs, Complete(r) PROVE ExampleInv'
  BY <1>13, CompleteKeepsInv
<1>14. CASE UNCHANGED vars
  BY <1>14, StutterKeepsInv
<1> QED
  BY <1>1, <1>2, <1>3, <1>4, <1>5, <1>6, <1>7, <1>8, <1>9, <1>10, <1>11, <1>12, <1>13, <1>14
     DEF Next, ProgramStep

(* A nop has one round: where it starts, its ring is new. *)
NopStarts == program \in Nops /\ Running /\ step = 1 => sq = <<>> /\ cq = <<>>

(* It never comes back to its first step. *)
LEMMA NextNopStarts == ASSUME ExampleInv, NopStarts, [Next]_vars PROVE NopStarts'
<1> SUFFICES ASSUME program \in Nops, program' = program, Running', step' = 1
             PROVE  Running /\ step = 1 /\ sq' = sq /\ cq' = cq
  <2>1. program' = program
    BY DEF Next, ProgramStep, Deadline, Queue, Submit, Unblock, Wait, Own, Result, Peek, Write,
           ReadBack, UnblockSignal, WaitSignal, Complete, vars
  <2> QED
    BY <2>1 DEF NopStarts
<1>1. /\ Typed /\ inflight = {} /\ Len(Steps[program]) = 3
      /\ program \notin Loops \cup AsyncBenches /\ program # "poll_bench" /\ ~Reading
      /\ program # "cat" /\ program # "read_file"
  BY Kinds, StepsAre DEF ExampleInv, InlineInv, Inline, Reading
<1>2. ~At("block") /\ ~At("result") /\ ~At("peek") /\ ~At("write") /\ ~At("read")
  BY <1>1, Where
<1>3. ~Advance \/ ~(Running /\ step \in 1 .. 3)
  BY <1>1 DEF Advance, Stop, Running
<1>4. ~Fails
  BY <1>1 DEF Fails, Stop, Running
<1>5. At("queue") \/ At("submit") \/ At("wait") \/ At("own") => Running /\ step \in 1 .. 3
  BY <1>1, Where
<1>6. ~Deadline
  BY <1>1 DEF Deadline
<1>7. ~Queue /\ ~Submit
  BY <1>3, <1>4, <1>5 DEF Queue, Submit
<1>8. ~Unblock /\ ~UnblockSignal /\ ~Result /\ ~Peek /\ ~Write /\ ~ReadBack
  BY <1>2 DEF Unblock, UnblockSignal, Result, Peek, Write, ReadBack
<1>9. ~Wait /\ ~Own
  <2>1. At("wait") \/ At("own") => Running /\ step = 3
    BY <1>1, Where
  <2>2. step = 3 => ~(UNCHANGED control)
    BY DEF control
  <2> QED
    BY <1>3, <1>5, <2>1, <2>2 DEF Wait, Own
<1>10. ~WaitSignal
  BY <1>4 DEF WaitSignal
<1>11. \A r \in Reqs : ~Complete(r)
  BY <1>1 DEF Complete
<1>12. UNCHANGED vars
  BY <1>6, <1>7, <1>8, <1>9, <1>10, <1>11 DEF Next, ProgramStep
<1> QED
  BY <1>12 DEF vars, ring, control, Running

-----------------------------------------------------------------------------
(* 5. The theorems. *)

(* Each program's steps, and what they leave in the ring. *)
THEOREM ExampleInvariant == Spec => [](ExampleInv /\ NopStarts)
<1>1. Init => ExampleInv /\ NopStarts
  <2>1. Init => sq = <<>> /\ cq = <<>>
    BY DEF Init, Queues!QInit
  <2> QED
    BY <2>1, InitExampleInv DEF NopStarts
<1>2. (ExampleInv /\ NopStarts) /\ [Next]_vars => (ExampleInv /\ NopStarts)'
  BY NextExampleInv, NextNopStarts
<1> QED
  BY <1>1, <1>2, PTL DEF Spec

(* Every variable of the examples keeps its type: no read starts past the  *)
(* end of the file, and the pipe never holds two bytes.                     *)
THEOREM ExamplesTypeCorrect == Spec => []TypeOK
<1>1. ExampleInv => TypeOK
  BY DEF ExampleInv, Typed, TypeOK
<1> QED
  BY <1>1, ExampleInvariant, PTL

(* poll-bench waits for as many completions as there are requests in its    *)
(* ring, whatever number of entries it got and submit() took.              *)
THEOREM OwedStaysOutstanding == Spec => []OwedIsOutstanding
<1>1. ExampleInv => OwedIsOutstanding
  BY DEF ExampleInv, PollInv, OwedIsOutstanding, Outstanding, Running
<1> QED
  BY <1>1, ExampleInvariant, PTL

(* A round starts with nothing in flight and nothing in the pipe. *)
THEOREM RoundsStartClean == Spec => []RoundIsClean
<1>1. ExampleInv /\ NopStarts => RoundIsClean
  <2> SUFFICES ASSUME ExampleInv, NopStarts, Running, step = 1
               PROVE  /\ inflight = {} /\ pipe = 0
                      /\ program \notin AsyncBenches => sq = <<>> /\ cq = <<>>
    BY DEF RoundIsClean, Running
  <2>1. Typed
    BY DEF ExampleInv
  <2>2. pipe = 0
    BY DEF ExampleInv, Piped
  <2> QED
    BY <2>1, <2>2, EmptyAtStart, Kinds DEF NopStarts
<1> QED
  BY <1>1, ExampleInvariant, PTL

(* cat prints the file from its start, in order and without a gap, and the  *)
(* whole of it when it returns Ok, for any sizes of reads.                  *)
THEOREM FileGetsPrinted == Spec => []FileIsPrinted
<1>1. ExampleInv => FileIsPrinted
  BY DEF ExampleInv, Printed, FileIsPrinted
<1> QED
  BY <1>1, ExampleInvariant, PTL

(* When main returns Ok no operation is in flight that could still use its  *)
(* buffers, an interrupted read_file apart.                                 *)
THEOREM NothingIsLeft == Spec => []NothingOutlivesMain
<1>1. ExampleInv => NothingOutlivesMain
  BY DEF ExampleInv, Ended, NothingOutlivesMain
<1> QED
  BY <1>1, ExampleInvariant, PTL
=============================================================================
