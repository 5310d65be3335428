------------------------------ MODULE LinkCopy ------------------------------
(***************************************************************************)
(* examples/link-cp.rs, copy_file_linked: every block is a read linked     *)
(* (IOSQE_IO_LINK) to the write of the same buffer, both queued at once.   *)
(* Composed with the ring (RingQueues), of QUEUE_DEPTH entries, and with   *)
(* the kernel, which holds a linked write back until its read is done and  *)
(* cancels it when the read failed or was short.                           *)
(***************************************************************************)
EXTENDS Integers, Sequences, FiniteSets, Functions

CONSTANTS
  FileSize, BlockSize, QueueDepth,
  Errors,        \* an operation or submit() may fail
  Shorts,        \* a read or a write may move fewer bytes than asked for
  ShortSubmits   \* submit() may take only some of the entries

ASSUME LinkCopyAssumption ==
  /\ FileSize \in Nat /\ BlockSize \in Nat \ {0}
  /\ QueueDepth \in Nat \ {0} /\ QueueDepth % 2 = 0
  /\ {Errors, Shorts, ShortSubmits} \subseteq BOOLEAN

VARIABLES
  sq, inflight, cq,  \* the ring, as RingQueues
  pc, offset,
  operations,        \* completed_ops of each IoData, in op_index order
  outstanding,       \* the variable inflight of the code
  unlinked,          \* blocks whose write the kernel took outside of a chain
  readOk,            \* blocks whose read returned the whole block
  ran,               \* blocks whose write was executed
  written,           \* blocks whose write moved the whole block
  cut                \* blocks whose read or write moved less (history)

ring    == <<sq, inflight, cq>>
program == <<pc, offset, operations, outstanding>>
kernel  == <<unlinked, readOk, ran, written, cut>>
vars    == <<ring, program, kernel>>

Blocks == 0 .. (FileSize + BlockSize - 1) \div BlockSize - 1
Size(b) == IF FileSize - b * BlockSize < BlockSize THEN FileSize - b * BlockSize ELSE BlockSize

(* An SQE: user_data is 2 * block for a read and one more for a write; link *)
(* is the flag IO_LINK.                                                     *)
Ops == [block : Blocks, isRead : BOOLEAN, link : BOOLEAN]

EIO == -5
ECANCELED == -125
Results == 0 .. BlockSize \cup {EIO, ECANCELED}

Queues == INSTANCE RingQueues WITH Reqs <- Ops, SqEntries <- QueueDepth

Init ==
  /\ Queues!QInit
  /\ pc = "fill" /\ offset = 0 /\ operations = <<>> /\ outstanding = 0
  /\ unlinked = {} /\ readOk = {} /\ ran = {} /\ written = {} /\ cut = {}

-----------------------------------------------------------------------------
(* Queue read-write pairs.  A pair that does not fit ends the loop half     *)
(* queued: its read is in the ring and in no IoData.  After the loop the    *)
(* queue is submitted if there are operations to wait for.  An operator     *)
(* marked MUTANT is a mistake the definition after it could have contained. *)
AfterFilling == IF outstanding > 0 THEN "submit" ELSE "drain"

MayFillOdd == offset < FileSize /\ outstanding <= QueueDepth + 1  \* MUTANT: no room kept for the pair
MayFill == offset < FileSize /\ outstanding < QueueDepth

PairIsOne == 1  \* MUTANT: a pair counted as one operation
PairSize == 2

PairUnlinked(b) == [i \in 1 .. 2 |-> [block |-> b, isRead |-> i = 1, link |-> FALSE]]  \* MUTANT: no flag
PairOf(b) == [i \in 1 .. 2 |-> [block |-> b, isRead |-> i = 1, link |-> i = 1]]

QueuePair ==
  LET b == Len(operations)
      fits == Len(sq) + 2 <= QueueDepth
  IN  /\ pc = "fill" /\ MayFill
      /\ sq' = sq \o SubSeq(PairOf(b), 1, IF fits THEN 2 ELSE QueueDepth - Len(sq))
      /\ IF fits
         THEN /\ operations' = Append(operations, 0)
              /\ offset' = offset + Size(b)
              /\ outstanding' = outstanding + PairSize
              /\ UNCHANGED pc
         ELSE pc' = AfterFilling /\ UNCHANGED <<operations, offset, outstanding>>
      /\ UNCHANGED <<inflight, cq, kernel>>

Filled ==
  /\ pc = "fill" /\ ~MayFill
  /\ pc' = AfterFilling
  /\ UNCHANGED <<ring, offset, operations, outstanding, kernel>>

(* ring.submit()?: a chain ends where a submission ends, so a write is taken *)
(* alone unless the entry before it was taken with it and links to it.      *)
Alone(k) ==
  {sq[i].block : i \in {j \in 1 .. k : ~sq[j].isRead /\ (j > 1 => ~sq[j - 1].link)}}

Submit ==
  /\ pc = "submit"
  /\ \/ \E k \in 1 .. QueueDepth :
          /\ ShortSubmits \/ k = Len(sq)
          /\ Queues!Take(k)
          /\ unlinked' = unlinked \cup Alone(k)
          /\ pc' = "drain"
     \/ sq = <<>> /\ pc' = "drain" /\ UNCHANGED <<ring, unlinked>>
     \/ Errors /\ pc' = "failed" /\ UNCHANGED <<ring, unlinked>>
  /\ UNCHANGED <<offset, operations, outstanding, readOk, ran, written, cut>>

(* One turn of the loop over peek_cqe(): -ECANCELED is reported and counts  *)
(* as done, any other error ends the copy.                                  *)
OnlyReported(res) == FALSE  \* MUTANT: every error is reported and counts as done
EndsCopy(res) == res < 0 /\ res # ECANCELED

CancelUncounted(res) == IF res = ECANCELED THEN 0 ELSE 1  \* MUTANT: a cancelled write still in flight
Finished(res) == 1

Drain ==
  /\ pc = "drain" /\ cq # <<>>
  /\ Queues!Reap
  /\ IF EndsCopy(Head(cq).res)
     THEN pc' = "failed" /\ UNCHANGED <<operations, outstanding>>
     ELSE /\ operations' = [operations EXCEPT ![Head(cq).req.block + 1] = @ + 1]
          /\ outstanding' = outstanding - Finished(Head(cq).res)
          /\ UNCHANGED pc
  /\ UNCHANGED <<offset, kernel>>

MoreToDo == offset < FileSize \/ outstanding > 0

Drained ==
  /\ pc = "drain" /\ cq = <<>>
  /\ pc' = IF MoreToDo THEN "fill" ELSE "done"
  /\ UNCHANGED <<ring, offset, operations, outstanding, kernel>>

-----------------------------------------------------------------------------
(* The kernel carries an operation out (external). *)
Outcomes(b) ==
  {Size(b)} \cup (IF Shorts THEN 0 .. Size(b) ELSE {}) \cup (IF Errors THEN {EIO} ELSE {})

(* The cut set when an operation on b moved res bytes. *)
CutBy(b, res) == IF res \in 0 .. Size(b) - 1 THEN cut \cup {b} ELSE cut

ReadCompletes(op) ==
  LET b == op.block
  IN  \E res \in Outcomes(b) :
        /\ op.isRead
        /\ Queues!Complete(op, res)
        /\ readOk' = IF res = Size(b) THEN readOk \cup {b} ELSE readOk
        /\ cut' = CutBy(b, res)
        /\ UNCHANGED <<program, unlinked, ran, written>>

(* A linked write waits for its read, and is cancelled unless that returned *)
(* the whole block; an unlinked one writes what the buffer holds.           *)
WriteCompletes(op) ==
  LET b == op.block
      readPending == \E other \in inflight : other.isRead /\ other.block = b
  IN  /\ ~op.isRead
      /\ b \in unlinked \/ ~readPending
      /\ IF b \in unlinked \cup readOk
         THEN \E res \in Outcomes(b) :
                /\ Queues!Complete(op, res)
                /\ ran' = ran \cup {b}
                /\ written' = IF res = Size(b) THEN written \cup {b} ELSE written
                /\ cut' = CutBy(b, res)
         ELSE Queues!Complete(op, ECANCELED) /\ UNCHANGED <<ran, written, cut>>
      /\ UNCHANGED <<program, unlinked, readOk>>

Kernel  == \E op \in inflight : ReadCompletes(op) \/ WriteCompletes(op)
Program == QueuePair \/ Filled \/ Submit \/ Drain \/ Drained

Next == Program \/ Kernel

Spec == Init /\ [][Next]_vars

(* The program runs until it returns, and the kernel completes what it      *)
(* holds.                                                                   *)
FairSpec == Spec /\ WF_vars(Program) /\ WF_vars(Kernel)

-----------------------------------------------------------------------------
(* Type invariant: inflight is unsigned and never drops below zero; it may  *)
(* pass QUEUE_DEPTH, for a pair is queued whenever one entry is free.       *)
TypeOK ==
  /\ pc \in {"fill", "submit", "drain", "done", "failed"}
  /\ offset \in 0 .. FileSize
  /\ outstanding \in 0 .. QueueDepth + 1
  /\ operations \in Seq(0 .. 2)
  /\ {unlinked, readOk, ran, written, cut} \subseteq SUBSET Blocks

(* The counter that ends the loop counts "Read + write" (link-cp.rs:67): it *)
(* is the number of operations in the ring, and the completions an IoData   *)
(* has seen are the others of its pair.  So no pair is ever queued by half. *)
InflightIsExact ==
  pc # "failed" =>
    /\ outstanding = Cardinality(Queues!Held)
    /\ \A i \in DOMAIN operations :
         operations[i] + Cardinality({op \in Queues!Held : op.block = i - 1}) = 2

(* Ok means that every block was queued and waited for, and that the blocks *)
(* that are not in the destination are those of which a read or a write     *)
(* moved fewer bytes than it was asked for, and no other.  (So Ok does not  *)
(* mean that the file was copied: a short read is printed as a cancelled    *)
(* write and a short write not at all, and both count as done.)             *)
OkMeansWritten ==
  pc = "done" =>
    /\ Len(operations) = Cardinality(Blocks) /\ Queues!Held = {}
    /\ written = Blocks \ cut

(* "The write will only execute if the read succeeds." *)
WriteAfterRead == ran \subseteq readOk

(* The copy comes to an end, with Ok or with an error. *)
CopyEnds == <>(pc \in {"done", "failed"})
=============================================================================
