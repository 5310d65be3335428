------------------------------ MODULE CopyFile ------------------------------
(***************************************************************************)
(* examples/io_uring-cp.rs, copy_file: a file is read in blocks, and each  *)
(* block written once its read has completed, with up to QUEUE_DEPTH       *)
(* operations in flight.  Composed with the ring (RingQueues), whose       *)
(* submission queue has QUEUE_DEPTH entries, and with the kernel.          *)
(***************************************************************************)
EXTENDS Integers, Sequences, FiniteSets, SequencesExt

CONSTANTS
  FileSize,    \* bytes
  BlockSize,   \* BLOCK_SIZE
  QueueDepth,  \* QUEUE_DEPTH
  ShortReads,  \* a read may return fewer bytes than asked for
  ShortWrites, \* a write may write fewer bytes than asked for
  Errors       \* an operation or submit() may fail; submit() may be short

ASSUME CopyAssumption ==
  /\ FileSize \in Nat /\ BlockSize \in Nat \ {0} /\ QueueDepth \in Nat \ {0}
  /\ {ShortReads, ShortWrites, Errors} \subseteq BOOLEAN

VARIABLES
  sq, inflight, cq,  \* the ring, as RingQueues
  pc,
  offset, bytesToRead, bytesToWrite, readsInFlight, writesInFlight,
  pending,           \* pending_operations
  completions,       \* the vector drained from the completion queue
  written            \* bytes of the destination that hold the source's

ring     == <<sq, inflight, cq>>
counters == <<offset, bytesToRead, bytesToWrite, readsInFlight, writesInFlight>>
vars     == <<ring, pc, counters, pending, completions, written>>

(* An IoData, and the SQE prepared from it: the offset is its user_data. *)
Ops == [offset : 0 .. FileSize, len : 0 .. BlockSize, isRead : BOOLEAN]
EIO == -5

Queues == INSTANCE RingQueues WITH
            Reqs <- Ops, Results <- 0 .. BlockSize \cup {EIO}, SqEntries <- QueueDepth

Init ==
  /\ Queues!QInit
  /\ pc = "fill"
  /\ offset = 0 /\ bytesToRead = FileSize /\ bytesToWrite = FileSize
  /\ readsInFlight = 0 /\ writesInFlight = 0
  /\ pending = <<>> /\ completions = <<>>
  /\ written = {}

-----------------------------------------------------------------------------
(* Queue as many reads as possible.  An operator marked MUTANT is a mistake *)
(* the definition after it could have contained.                            *)
MayFillOneMore == bytesToRead > 0 /\ readsInFlight + writesInFlight <= QueueDepth  \* MUTANT: off by one
MayFill == bytesToRead > 0 /\ readsInFlight + writesInFlight < QueueDepth

QueueRead ==
  LET size == IF bytesToRead < BlockSize THEN bytesToRead ELSE BlockSize
      op   == [offset |-> offset, len |-> size, isRead |-> TRUE]
  IN  /\ pc = "fill" /\ MayFill
      /\ Queues!Push(op)
      /\ pending' = Append(pending, op)
      /\ offset' = offset + size
      /\ bytesToRead' = bytesToRead - size
      /\ readsInFlight' = readsInFlight + 1
      /\ UNCHANGED <<pc, bytesToWrite, writesInFlight, completions, written>>

MustSubmitReads == readsInFlight > 0  \* MUTANT: writes are taken to be submitted already
MustSubmit == readsInFlight + writesInFlight > 0

Filled ==
  /\ pc = "fill"
  /\ MayFill => ~Queues!CanPush
  /\ pc' = IF MustSubmit THEN "submit" ELSE "drain"
  /\ UNCHANGED <<ring, counters, pending, completions, written>>

(* ring.submit()?: `entries' is the queue with what was just pushed.        *)
SubmitsFrom(entries, k) ==
  /\ k \in IF Errors THEN 0 .. Len(entries) ELSE {Len(entries)}
  /\ k = 0 => entries = <<>>
  /\ sq' = SubSeq(entries, k + 1, Len(entries))
  /\ inflight' = inflight \cup {entries[i] : i \in 1 .. k}
  /\ UNCHANGED cq

SubmitFailsFrom(entries) ==
  /\ Errors
  /\ sq' = entries
  /\ UNCHANGED <<inflight, cq>>

Submit ==
  /\ pc = "submit"
  /\ \/ \E k \in 0 .. QueueDepth : SubmitsFrom(sq, k) /\ pc' = "drain"
     \/ SubmitFailsFrom(sq) /\ pc' = "failed"
  /\ UNCHANGED <<counters, pending, completions, written>>

(* while let Some(cqe) = cq.peek_cqe() *)
Drain ==
  /\ pc = "drain"
  /\ cq # <<>>
  /\ Queues!Reap
  /\ completions' = Append(completions, Head(cq))
  /\ UNCHANGED <<pc, counters, pending, written>>

Drained ==
  /\ pc = "drain" /\ cq = <<>>
  /\ pc' = "process"
  /\ UNCHANGED <<ring, counters, pending, completions, written>>

-----------------------------------------------------------------------------
(* for (result, user_data) in completions: an error ends the copy at once.  *)
Result  == Head(completions).res
PosAny == 1  \* MUTANT: completions assumed to arrive in order
Pos == SelectInSeq(pending, LAMBDA op : op.offset = Head(completions).req.offset)

Fails ==
  /\ pc = "process" /\ completions # <<>>
  /\ Result < 0
  /\ pc' = "failed"
  /\ UNCHANGED <<ring, counters, pending, completions, written>>

(* A read completed: its write is queued, if there is an entry for it, and  *)
(* submitted.                                                               *)
ReadDone ==
  LET write == [pending[Pos] EXCEPT !.isRead = FALSE, !.len = Result]
      entries == IF Queues!CanPush THEN Append(sq, write) ELSE sq
  IN  /\ pc = "process" /\ completions # <<>>
      /\ Result >= 0 /\ Pos # 0 /\ pending[Pos].isRead
      /\ readsInFlight' = readsInFlight - 1
      /\ writesInFlight' = writesInFlight + 1
      /\ pending' = Append(RemoveAt(pending, Pos), write)
      /\ completions' = Tail(completions)
      /\ \/ \E k \in 0 .. QueueDepth : SubmitsFrom(entries, k) /\ UNCHANGED pc
         \/ SubmitFailsFrom(entries) /\ pc' = "failed"
      /\ UNCHANGED <<offset, bytesToRead, bytesToWrite, written>>

WriteDone ==
  /\ pc = "process" /\ completions # <<>>
  /\ Result >= 0 /\ Pos # 0 /\ ~pending[Pos].isRead
  /\ writesInFlight' = writesInFlight - 1
  /\ bytesToWrite' = bytesToWrite - pending[Pos].len
  /\ pending' = RemoveAt(pending, Pos)
  /\ completions' = Tail(completions)
  /\ UNCHANGED <<ring, pc, offset, bytesToRead, readsInFlight, written>>

(* The outer loop's condition, and Ok(()) when it fails: the last loop of   *)
(* the function waits for writes in flight, of which there are none then    *)
(* (CopyIsComplete).                                                        *)
Processed ==
  /\ pc = "process" /\ completions = <<>>
  /\ pc' = IF bytesToRead > 0 \/ bytesToWrite > 0 THEN "fill" ELSE "done"
  /\ UNCHANGED <<ring, counters, pending, completions, written>>

-----------------------------------------------------------------------------
(* The kernel carries an operation out (external). *)
Outcomes(op) ==
  (IF (IF op.isRead THEN ShortReads ELSE ShortWrites) THEN 0 .. op.len ELSE {op.len})
    \cup (IF Errors THEN {EIO} ELSE {})

Complete(op, res) ==
  /\ res \in Outcomes(op)
  /\ Queues!Complete(op, res)
  /\ written' = IF op.isRead \/ res < 0 THEN written
                ELSE written \cup (op.offset .. op.offset + res - 1)
  /\ UNCHANGED <<pc, counters, pending, completions>>

Kernel == \E op \in inflight, res \in 0 .. BlockSize \cup {EIO} : Complete(op, res)

Program ==
  \/ QueueRead \/ Filled \/ Submit \/ Drain \/ Drained
  \/ Fails \/ ReadDone \/ WriteDone \/ Processed

Next == Program \/ Kernel

Spec == Init /\ [][Next]_vars

(* The program runs until it returns, and the kernel completes what it      *)
(* holds.                                                                   *)
FairSpec == Spec /\ WF_vars(Program) /\ WF_vars(Kernel)

-----------------------------------------------------------------------------
(* Type invariant: no counter goes below zero (they are unsigned). *)
TypeOK ==
  /\ pc \in {"fill", "submit", "drain", "process", "done", "failed"}
  /\ {offset, bytesToRead, bytesToWrite} \subseteq 0 .. FileSize
  /\ {readsInFlight, writesInFlight} \subseteq 0 .. QueueDepth
  /\ pending \in Seq(Ops)

(* The program's counters are exact: each operation it counts is in the     *)
(* ring or among the completions it has drained.  So the write that follows *)
(* a read always found an entry (the code would count it all the same, and  *)
(* wait for it), and no completion is matched with another's IoData.        *)
Outstanding == Queues!Held \cup {c.req : c \in Range(completions)}

CountersMatchRing ==
  pc # "failed" =>
    /\ readsInFlight = Cardinality({op \in Outstanding : op.isRead})
    /\ writesInFlight = Cardinality({op \in Outstanding : ~op.isRead})
    /\ Len(pending) = readsInFlight + writesInFlight

(* Until the function returns, every operation that the kernel may still    *)
(* work on has its IoData, and so its buffer, in pending_operations, under  *)
(* the role and the length it was queued with.  (An error returns at once,  *)
(* and frees the buffers of what is in flight.)                             *)
BuffersAreKept ==
  pc # "failed" => Outstanding \subseteq Range(pending)

(* Ok means that every byte was copied and nothing is in flight. *)
CopyIsComplete ==
  pc = "done" => written = 0 .. FileSize - 1 /\ Outstanding = {}

(* "Handling short reads/writes": with no error, every copy ends with every *)
(* byte written.                                                            *)
CopySucceeds == <>(pc = "done" /\ written = 0 .. FileSize - 1)

(* The copy comes to an end, with Ok or with an error. *)
CopyEnds == <>(pc \in {"done", "failed"})
=============================================================================
