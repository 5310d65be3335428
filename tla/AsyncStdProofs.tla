--------------------------- MODULE AsyncStdProofs ---------------------------
(***************************************************************************)
(* Theorems about module AsyncStdRing, for any number of futures, any ring *)
(* size, any dependencies between operations, with every fault.            *)
(***************************************************************************)
EXTENDS AsyncStdRing, Integers, QueueLemmas

(* Where an operation of a closure that has the mutex, or had it, may be. *)
Held      == Range(sq) \cup inflight \cup {c.req : c \in Range(cq)}
Holder(f) == closure[f] \in {"submitting", "waiting"}
Waiting   == \E f \in Futures : closure[f] = "waiting"
Owed      == IF Waiting THEN 1 ELSE 0

(* The mutex is held by one closure at a time. *)
OneHolder == \A f, g \in Futures : Holder(f) /\ Holder(g) => f = g

(* What the ring holds was put there by a closure that waits or is over, so *)
(* that nobody submits an operation twice; failed closures are over.        *)
RingIsOwned ==
  /\ \A f \in Held : closure[f] \in {"waiting", "done"}
  /\ \A f \in failed : closure[f] = "done"

(* An operation is in one place, and there are finitely many. *)
NoRepeats ==
  /\ Distinct(sq) /\ inflight \cap Range(sq) = {}
  /\ IsFiniteSet(inflight) /\ IsFiniteSet(failed)

(* The ring holds one operation for each closure that failed after get_sqe, *)
(* and one for the closure that waits.                                      *)
Balanced == Left = Cardinality(failed) + Owed

(* Until a closure fails, the one that waits finds nothing but its own. *)
OwnOnly ==
  failed = {} => \A f \in Futures : closure[f] = "waiting" => Held \subseteq {f}

PoolInv ==
  /\ TypeOK /\ OneHolder /\ RingIsOwned /\ NoRepeats /\ Balanced
  /\ OwnOnly /\ OwnResultUntilFailure

-----------------------------------------------------------------------------
(* PoolInv holds before the first future is made. *)
LEMMA InitPoolInv == Init => PoolInv
<1> SUFFICES ASSUME Init PROVE PoolInv
  OBVIOUS
<1>1. sq = <<>> /\ inflight = {} /\ cq = <<>> /\ failed = {} /\ executed = {}
  BY DEF Init, Queues!QInit
<1>2. \A f \in Futures : state[f] = "unborn" /\ closure[f] = "none"
  BY DEF Init
<1>3. TypeOK
  BY <1>1, EmptySeq DEF Init, TypeOK
<1>4. Len(sq) = 0 /\ Len(cq) = 0 /\ Range(sq) = {} /\ Range(cq) = {}
  BY <1>1 DEF Range
<1>5. ~Waiting /\ Held = {}
  BY <1>1, <1>2, <1>4 DEF Waiting, Held
<1>6. OneHolder /\ RingIsOwned
  BY <1>1, <1>2, <1>5 DEF OneHolder, Holder, RingIsOwned
<1>7. NoRepeats
  BY <1>1, <1>4, FS_EmptySet DEF NoRepeats, Distinct
<1>8. Balanced
  <2>1. Left = 0 /\ Cardinality(failed) = 0 /\ Owed = 0
    BY <1>1, <1>4, <1>5, FS_EmptySet DEF Left, Owed
  <2> QED
    BY <2>1 DEF Balanced
<1>9. OwnOnly /\ OwnResultUntilFailure
  BY <1>2 DEF OwnOnly, OwnResultUntilFailure
<1> QED
  BY <1>3, <1>6, <1>7, <1>8, <1>9 DEF PoolInv

-----------------------------------------------------------------------------
(* What the steps of a closure that leave the ring alone have in common.    *)
LEMMA StepOutsideRing ==
  ASSUME PoolInv, TypeOK',
         UNCHANGED <<sq, inflight, cq, failed>>,
         NEW f \in Futures, NEW c, closure' = [closure EXCEPT ![f] = c],
         closure[f] # "waiting", c # "waiting",
         closure[f] = "done" => c = "done",
         c = "submitting" => Unlocked,
         \A g \in Futures : state'[g] = "ok" => state[g] = "ok" /\ got'[g] = got[g]
  PROVE  PoolInv'
<1> USE DEF PoolInv
<1>1. closure \in [Futures -> {"none", "locking", "submitting", "waiting", "done"}]
  BY DEF TypeOK
<1>2. \A g \in Futures : closure'[g] = IF g = f THEN c ELSE closure[g]
  BY <1>1
<1>3. Held \subseteq Futures /\ failed \subseteq Futures
  <2>1. Range(sq) \subseteq Futures /\ Range(cq) \subseteq Queues!Cqes
    BY RangeOfSeq DEF TypeOK
  <2> QED
    BY <2>1 DEF Held, TypeOK, Queues!Cqes
<1>4. Held' = Held /\ Left' = Left
  BY DEF Held, Left
<1>5. Waiting' <=> Waiting
  BY <1>2 DEF Waiting
<1>6. OneHolder'
  BY <1>2 DEF OneHolder, Holder, Unlocked
<1>7. RingIsOwned'
  BY <1>2, <1>3, <1>4 DEF RingIsOwned
<1>8. NoRepeats'
  BY DEF NoRepeats, Distinct
<1>9. Balanced'
  BY <1>4, <1>5 DEF Balanced, Owed
<1>10. OwnOnly'
  BY <1>2, <1>4 DEF OwnOnly
<1>11. OwnResultUntilFailure'
  BY DEF OwnResultUntilFailure
<1> QED
  BY <1>6, <1>7, <1>8, <1>9, <1>10, <1>11

(* Returns leaves the futures that are over alone. *)
LEMMA ReturnsFacts ==
  ASSUME TypeOK, NEW f \in Futures, NEW how \in {"ok", "err"}, NEW of \in Futures \cup {NoFuture},
         Returns(f, how, of)
  PROVE  /\ closure' = [closure EXCEPT ![f] = "done"]
         /\ closure' \in [Futures -> {"none", "locking", "submitting", "waiting", "done"}]
         /\ state' \in [Futures -> {"unborn", "waiting", "ok", "err", "dropped"}]
         /\ got' \in [Futures -> Futures \cup {NoFuture}]
         /\ \A g \in Futures :
              state'[g] = "ok" => \/ state[g] = "ok" /\ got'[g] = got[g]
                                  \/ g = f /\ how = "ok" /\ got'[g] = of
BY DEF Returns, TypeOK

(* submit_op gives its closure to the blocking pool. *)
LEMMA SpawnKeepsInv == ASSUME PoolInv, NEW f \in Futures, SpawnBlocking(f) PROVE PoolInv'
<1>1. TypeOK'
  BY DEF PoolInv, SpawnBlocking, TypeOK, ring
<1>2. /\ closure[f] = "none" /\ closure' = [closure EXCEPT ![f] = "locking"]
      /\ UNCHANGED <<sq, inflight, cq, failed>>
      /\ \A g \in Futures : state'[g] = "ok" => state[g] = "ok" /\ got'[g] = got[g]
  BY DEF PoolInv, SpawnBlocking, TypeOK, ring
<1>3. /\ closure[f] # "waiting" /\ "locking" # "waiting"
      /\ closure[f] = "done" => "locking" = "done"
      /\ "locking" = "submitting" => Unlocked
  BY <1>2
<1> QED
  BY <1>1, <1>2, <1>3, StepOutsideRing, Zenon

(* The mutex is granted to a closure. *)
LEMMA LockKeepsInv == ASSUME PoolInv, NEW f \in Futures, Lock(f) PROVE PoolInv'
<1>1. TypeOK'
  BY DEF PoolInv, Lock, TypeOK, ring
<1>2. /\ closure[f] = "locking" /\ closure' = [closure EXCEPT ![f] = "submitting"]
      /\ UNCHANGED <<sq, inflight, cq, failed, state, got>>
      /\ Unlocked
  BY DEF Lock, MayLock, ring
<1> QED
  BY <1>1, <1>2, StepOutsideRing

(* get_sqe finds the queue full: nothing was queued, nothing is left behind. *)
LEMMA GetSqeFullKeepsInv == ASSUME PoolInv, NEW f \in Futures, GetSqeFull(f) PROVE PoolInv'
<1>1. /\ closure[f] = "submitting" /\ closure' = [closure EXCEPT ![f] = "done"]
      /\ \A g \in Futures : state'[g] = "ok" => state[g] = "ok" /\ got'[g] = got[g]
      /\ UNCHANGED <<sq, inflight, cq, failed>>
  BY ReturnsFacts DEF PoolInv, GetSqeFull, ring
<1>2. TypeOK'
  BY <1>1, ReturnsFacts DEF PoolInv, GetSqeFull, TypeOK, ring
<1>3. /\ closure[f] # "waiting" /\ "done" # "waiting"
      /\ closure[f] = "done" => "done" = "done"
      /\ "done" = "submitting" => Unlocked
  BY <1>1
<1> QED
  BY <1>1, <1>2, <1>3, StepOutsideRing, Zenon

(* A future is dropped; its closure goes on. *)
LEMMA DropKeepsInv == ASSUME PoolInv, NEW f \in Futures, Drop(f) PROVE PoolInv'
<1> USE DEF PoolInv
<1>1. TypeOK'
  BY DEF Drop, TypeOK, ring
<1>2. /\ UNCHANGED <<sq, inflight, cq, failed, closure, got>>
      /\ \A g \in Futures : state'[g] = "ok" => state[g] = "ok"
  BY DEF Drop, TypeOK, ring
<1>3. Held' = Held /\ Left' = Left /\ Owed' = Owed
  BY <1>2 DEF Held, Left, Owed, Waiting
<1>4. OneHolder' /\ RingIsOwned' /\ Balanced' /\ OwnOnly'
  BY <1>2, <1>3 DEF OneHolder, Holder, RingIsOwned, Balanced, OwnOnly
<1>5. NoRepeats'
  BY <1>2 DEF NoRepeats, Distinct
<1>6. OwnResultUntilFailure'
  BY <1>2 DEF OwnResultUntilFailure
<1> QED
  BY <1>1, <1>4, <1>5, <1>6

-----------------------------------------------------------------------------
(* Only one closure is past the lock: while f is, no other one waits.       *)
LEMMA HolderIsAlone ==
  ASSUME OneHolder, NEW f \in Futures, Holder(f)
  PROVE  \A g \in Futures : closure[g] = "waiting" => g = f
BY DEF OneHolder, Holder

(* The sizes that Left adds up. *)
LEMMA LeftParts ==
  ASSUME TypeOK, NoRepeats
  PROVE  /\ Len(sq) \in Nat /\ Len(cq) \in Nat /\ Cardinality(inflight) \in Nat
         /\ Cardinality(failed) \in Nat
         /\ Left = 0 => Held = {}
<1>1. Len(sq) \in Nat /\ Len(cq) \in Nat
  BY LenProperties DEF TypeOK
<1>2. Cardinality(inflight) \in Nat /\ Cardinality(failed) \in Nat
  BY FS_CardinalityType DEF NoRepeats
<1>3. ASSUME Left = 0 PROVE Held = {}
  <2>1. Len(sq) = 0 /\ Len(cq) = 0 /\ Cardinality(inflight) = 0
    BY <1>1, <1>2, <1>3 DEF Left
  <2>2. sq = <<>> /\ cq = <<>>
    BY <2>1, EmptySeq DEF TypeOK
  <2>3. inflight = {}
    BY <2>1, FS_EmptySet DEF NoRepeats
  <2>4. Range(sq) = {} /\ Range(cq) = {}
    BY <2>2 DEF Range
  <2> QED
    BY <2>3, <2>4 DEF Held
<1> QED
  BY <1>1, <1>2, <1>3

(* What the ring holds are operations of futures. *)
LEMMA HeldType == TypeOK => Held \subseteq Futures
<1> SUFFICES ASSUME TypeOK PROVE Held \subseteq Futures
  OBVIOUS
<1>1. Range(sq) \subseteq Futures /\ Range(cq) \subseteq Queues!Cqes
  BY RangeOfSeq DEF TypeOK
<1> QED
  BY <1>1 DEF Held, TypeOK, Queues!Cqes

(* get_sqe, prepare and submit(), whatever the kernel takes: the ring holds *)
(* f besides what it held.                                                  *)
LEMMA SubmitAddsOne ==
  ASSUME PoolInv, NEW f \in Futures, NEW k, SubmitTakes(f, k), closure[f] = "submitting"
  PROVE  /\ sq' \in Seq(Futures) /\ inflight' \subseteq Futures
         /\ cq' = cq /\ executed' = executed
         /\ Distinct(sq') /\ inflight' \cap Range(sq') = {} /\ IsFiniteSet(inflight')
         /\ Held' = Held \cup {f}
         /\ Left' = Left + 1
<1> DEFINE queue == Append(sq, f)
           taken == Oldest(queue, k)
           rest  == Rest(queue, k)
<1> USE DEF PoolInv
<1>1. f \notin Held
  BY DEF RingIsOwned
<1>2. f \notin Range(sq) /\ f \notin inflight
  BY <1>1 DEF Held
<1>3. sq \in Seq(Futures) /\ inflight \subseteq Futures /\ cq \in Seq(Queues!Cqes)
  BY DEF TypeOK
<1>4. /\ queue \in Seq(Futures) /\ Len(queue) = Len(sq) + 1
      /\ Distinct(queue) /\ Range(queue) = Range(sq) \cup {f}
  BY <1>2, <1>3, AppendNew DEF NoRepeats
<1>5. Len(sq) \in Nat /\ Len(cq) \in Nat /\ Cardinality(inflight) \in Nat
  BY LeftParts
<1>6. k \in 0 .. Len(queue)
  BY <1>4, <1>5 DEF SubmitTakes
<1>7. sq' = rest /\ inflight' = inflight \cup taken /\ cq' = cq /\ executed' = executed
  BY DEF SubmitTakes, Oldest, Rest
<1>8. inflight \cap Range(queue) = {}
  BY <1>2, <1>4 DEF NoRepeats
<1> HIDE DEF queue
<1>9. /\ rest \in Seq(Futures) /\ Len(rest) = Len(queue) - k
      /\ Distinct(rest)
      /\ (inflight \cup taken) \cap Range(rest) = {}
      /\ Range(rest) \cup taken = Range(queue)
      /\ IsFiniteSet(inflight \cup taken)
      /\ Cardinality(inflight \cup taken) = Cardinality(inflight) + k
  <2>1. IsFiniteSet(inflight)
    BY DEF NoRepeats
  <2>2. k \in Int /\ Len(queue) \in Int /\ Cardinality(inflight) \in Int
    BY <1>4, <1>5, <1>6
  <2> QED
    BY <1>4, <1>6, <1>8, <2>1, <2>2, TakeFirst
<1>10. taken \subseteq Futures
  BY <1>4, <1>9, RangeOfSeq
<1> HIDE DEF taken, rest
<1>11. Held' = Held \cup {f}
  BY <1>4, <1>7, <1>9 DEF Held
<1>12. Left' = Left + 1
  <2>1. Left' = Len(rest) + Cardinality(inflight \cup taken) + Len(cq)
    BY <1>7 DEF Left
  <2> QED
    BY <2>1, <1>4, <1>5, <1>6, <1>9 DEF Left
<1> QED
  BY <1>3, <1>7, <1>9, <1>10, <1>11, <1>12

(* submit() fails: the entry stays in the queue, and f counts as failed. *)
LEMMA SubmitFailsKeepsInv ==
  ASSUME PoolInv, NEW f \in Futures, SubmitFails(f)
  PROVE  PoolInv'
<1> USE DEF PoolInv
<1>1. /\ SubmitTakes(f, 0) /\ closure[f] = "submitting"
      /\ Returns(f, "err", NoFuture)
      /\ failed' = failed \cup {f}
  BY DEF SubmitFails, SubmitTakes
<1>2. /\ closure' = [closure EXCEPT ![f] = "done"]
      /\ closure' \in [Futures -> {"none", "locking", "submitting", "waiting", "done"}]
      /\ state' \in [Futures -> {"unborn", "waiting", "ok", "err", "dropped"}]
      /\ got' \in [Futures -> Futures \cup {NoFuture}]
  BY <1>1, ReturnsFacts
<1>3. \A g \in Futures : closure'[g] = IF g = f THEN "done" ELSE closure[g]
  BY <1>2 DEF TypeOK
<1>4. /\ sq' \in Seq(Futures) /\ inflight' \subseteq Futures
      /\ cq' = cq /\ executed' = executed
      /\ Distinct(sq') /\ inflight' \cap Range(sq') = {} /\ IsFiniteSet(inflight')
      /\ Held' = Held \cup {f}
      /\ Left' = Left + 1
  BY <1>1, SubmitAddsOne
<1>5. TypeOK'
  BY <1>1, <1>2, <1>4 DEF TypeOK
<1>6. \A g \in Futures : closure[g] # "waiting"
  BY <1>1, HolderIsAlone DEF Holder
<1>7. f \notin failed
  BY <1>1 DEF RingIsOwned
<1>8. OneHolder'
  BY <1>3 DEF OneHolder, Holder
<1>9. RingIsOwned'
  BY <1>1, <1>3, <1>4, HeldType DEF RingIsOwned, TypeOK
<1>10. IsFiniteSet(failed') /\ Cardinality(failed') = Cardinality(failed) + 1
  BY <1>1, <1>7, FS_AddElement DEF NoRepeats
<1>11. NoRepeats'
  BY <1>4, <1>10 DEF NoRepeats
<1>12. Balanced'
  <2>1. Owed = 0 /\ Owed' = 0
    BY <1>3, <1>6 DEF Owed, Waiting
  <2> QED
    BY <2>1, <1>4, <1>10, LeftParts DEF Balanced
<1>13. OwnOnly' /\ OwnResultUntilFailure'
  BY <1>1 DEF OwnOnly, OwnResultUntilFailure
<1> QED
  BY <1>5, <1>8, <1>9, <1>11, <1>12, <1>13

(* submit() takes an entry at least, and f waits. *)
LEMMA SubmitOkKeepsInv ==
  ASSUME PoolInv, NEW f \in Futures, SubmitOk(f)
  PROVE  PoolInv'
<1> USE DEF PoolInv
<1>1. PICK k \in 1 .. SqEntries : SubmitTakes(f, k)
  BY DEF SubmitOk
<1>2. /\ closure[f] = "submitting" /\ closure' = [closure EXCEPT ![f] = "waiting"]
      /\ UNCHANGED <<state, got, failed>>
  BY <1>1 DEF SubmitOk, SubmitTakes
<1>3. \A g \in Futures : closure'[g] = IF g = f THEN "waiting" ELSE closure[g]
  BY <1>2 DEF TypeOK
<1>4. /\ sq' \in Seq(Futures) /\ inflight' \subseteq Futures
      /\ cq' = cq /\ executed' = executed
      /\ Distinct(sq') /\ inflight' \cap Range(sq') = {} /\ IsFiniteSet(inflight')
      /\ Held' = Held \cup {f}
      /\ Left' = Left + 1
  BY <1>1, <1>2, SubmitAddsOne
<1>5. TypeOK'
  BY <1>2, <1>4 DEF TypeOK
<1>6. \A g \in Futures : closure[g] # "waiting"
  BY <1>2, HolderIsAlone DEF Holder
<1>7. OneHolder'
  BY <1>2, <1>3 DEF OneHolder, Holder
<1>8. RingIsOwned'
  BY <1>2, <1>3, <1>4, HeldType DEF RingIsOwned, TypeOK
<1>9. NoRepeats'
  BY <1>2, <1>4 DEF NoRepeats
<1>10. Owed = 0 /\ Owed' = 1
  BY <1>3, <1>6 DEF Owed, Waiting
<1>11. Balanced'
  BY <1>2, <1>4, <1>10, LeftParts DEF Balanced
<1>12. OwnOnly'
  <2> SUFFICES ASSUME failed' = {} PROVE Held' \subseteq {f}
    BY <1>3, <1>6 DEF OwnOnly
  <2>1. Cardinality(failed) = 0
    BY <1>2, FS_EmptySet
  <2>2. Held = {}
    BY <2>1, <1>10, LeftParts DEF Balanced
  <2> QED
    BY <2>2, <1>4
<1>13. OwnResultUntilFailure'
  BY <1>2 DEF OwnResultUntilFailure
<1> QED
  BY <1>5, <1>7, <1>8, <1>9, <1>11, <1>12, <1>13

-----------------------------------------------------------------------------
(* wait_cqe() and the drop of the Cqe: the oldest completion is gone. *)
LEMMA ReapTakesOne ==
  ASSUME PoolInv, CqeSeen
  PROVE  /\ cq # <<>> /\ sq' = sq /\ inflight' = inflight
         /\ cq' \in Seq(Queues!Cqes)
         /\ Head(cq).req \in Held /\ Head(cq).req \in Futures
         /\ Held' \subseteq Held
         /\ Left' = Left - 1
<1> USE DEF PoolInv
<1>1. cq # <<>> /\ cq' = Tail(cq) /\ sq' = sq /\ inflight' = inflight
  BY DEF CqeSeen, Queues!Reap
<1>2. cq \in Seq(Queues!Cqes)
  BY DEF TypeOK
<1>3. /\ Tail(cq) \in Seq(Queues!Cqes) /\ Len(Tail(cq)) = Len(cq) - 1
      /\ Head(cq) \in Queues!Cqes /\ Head(cq) \in Range(cq)
      /\ Range(Tail(cq)) \subseteq Range(cq)
  BY <1>1, <1>2, RangeTail
<1>4. Head(cq).req \in Held /\ Head(cq).req \in Futures
  BY <1>3 DEF Held, Queues!Cqes
<1>5. Held' \subseteq Held
  BY <1>1, <1>3 DEF Held
<1>6. Left' = Left - 1
  BY <1>1, <1>3, LeftParts DEF Left
<1> QED
  BY <1>1, <1>3, <1>4, <1>5, <1>6

(* wait_cqe() returns a completion: as many are left as were owed to others. *)
LEMMA WaitCqeKeepsInv ==
  ASSUME PoolInv, NEW f \in Futures, WaitCqe(f)
  PROVE  PoolInv'
<1> USE DEF PoolInv
<1>1. /\ closure[f] = "waiting" /\ CqeSeen
      /\ Returns(f, "ok", Head(cq).req)
      /\ UNCHANGED <<executed, failed>>
  BY DEF WaitCqe, ResultOf
<1>2. /\ cq # <<>> /\ sq' = sq /\ inflight' = inflight
      /\ cq' \in Seq(Queues!Cqes)
      /\ Head(cq).req \in Held /\ Head(cq).req \in Futures
      /\ Held' \subseteq Held
      /\ Left' = Left - 1
  BY <1>1, ReapTakesOne
<1>3. /\ closure' = [closure EXCEPT ![f] = "done"]
      /\ closure' \in [Futures -> {"none", "locking", "submitting", "waiting", "done"}]
      /\ state' \in [Futures -> {"unborn", "waiting", "ok", "err", "dropped"}]
      /\ got' \in [Futures -> Futures \cup {NoFuture}]
      /\ \A g \in Futures :
           state'[g] = "ok" => \/ state[g] = "ok" /\ got'[g] = got[g]
                               \/ g = f /\ got'[g] = Head(cq).req
  BY <1>1, <1>2, ReturnsFacts
<1>4. \A g \in Futures : closure'[g] = IF g = f THEN "done" ELSE closure[g]
  BY <1>3 DEF TypeOK
<1>5. \A g \in Futures : closure[g] = "waiting" => g = f
  BY <1>1, HolderIsAlone DEF Holder
<1>6. TypeOK'
  BY <1>1, <1>2, <1>3 DEF TypeOK
<1>7. OneHolder'
  BY <1>4 DEF OneHolder, Holder
<1>8. RingIsOwned'
  BY <1>1, <1>2, <1>4, HeldType DEF RingIsOwned, TypeOK
<1>9. NoRepeats'
  BY <1>1, <1>2 DEF NoRepeats, Distinct
<1>10. Owed = 1 /\ Owed' = 0
  BY <1>1, <1>4, <1>5 DEF Owed, Waiting
<1>11. Balanced'
  BY <1>1, <1>2, <1>10, LeftParts DEF Balanced
<1>12. OwnOnly'
  BY <1>4, <1>5 DEF OwnOnly
<1>13. OwnResultUntilFailure'
  <2>1. failed = {} => Head(cq).req = f
    BY <1>1, <1>2 DEF OwnOnly
  <2> QED
    BY <2>1, <1>1, <1>3 DEF OwnResultUntilFailure
<1> QED
  BY <1>6, <1>7, <1>8, <1>9, <1>11, <1>12, <1>13

(* The wait ends without a completion: what was owed to f is left behind. *)
LEMMA WaitInterruptedKeepsInv ==
  ASSUME PoolInv, NEW f \in Futures, WaitInterrupted(f)
  PROVE  PoolInv'
<1> USE DEF PoolInv
<1>1. /\ closure[f] = "waiting" /\ Returns(f, "err", NoFuture)
      /\ failed' = failed \cup {f}
      /\ UNCHANGED <<sq, inflight, cq, executed>>
  BY DEF WaitInterrupted, ring
<1>2. /\ closure' = [closure EXCEPT ![f] = "done"]
      /\ closure' \in [Futures -> {"none", "locking", "submitting", "waiting", "done"}]
      /\ state' \in [Futures -> {"unborn", "waiting", "ok", "err", "dropped"}]
      /\ got' \in [Futures -> Futures \cup {NoFuture}]
  BY <1>1, ReturnsFacts
<1>3. \A g \in Futures : closure'[g] = IF g = f THEN "done" ELSE closure[g]
  BY <1>2 DEF TypeOK
<1>4. \A g \in Futures : closure[g] = "waiting" => g = f
  BY <1>1, HolderIsAlone DEF Holder
<1>5. Held' = Held /\ Left' = Left
  BY <1>1 DEF Held, Left
<1>6. f \notin failed
  BY <1>1 DEF RingIsOwned
<1>7. IsFiniteSet(failed') /\ Cardinality(failed') = Cardinality(failed) + 1
  BY <1>1, <1>6, FS_AddElement DEF NoRepeats
<1>8. TypeOK'
  BY <1>1, <1>2 DEF TypeOK
<1>9. OneHolder'
  BY <1>3 DEF OneHolder, Holder
<1>10. RingIsOwned'
  BY <1>1, <1>3, <1>5, HeldType DEF RingIsOwned, TypeOK
<1>11. NoRepeats'
  BY <1>1, <1>7 DEF NoRepeats, Distinct
<1>12. Owed = 1 /\ Owed' = 0
  BY <1>1, <1>3, <1>4 DEF Owed, Waiting
<1>13. Balanced'
  BY <1>5, <1>7, <1>12, LeftParts DEF Balanced
<1>14. OwnOnly' /\ OwnResultUntilFailure'
  BY <1>1 DEF OwnOnly, OwnResultUntilFailure
<1> QED
  BY <1>8, <1>9, <1>10, <1>11, <1>13, <1>14

(* The kernel's completion moves an operation within the ring. *)
LEMMA CompleteKeepsInv ==
  ASSUME PoolInv, NEW f \in Futures, Complete(f)
  PROVE  PoolInv'
<1> DEFINE c == [req |-> f, res |-> 0]
<1> USE DEF PoolInv
<1>1. /\ f \in inflight /\ inflight' = inflight \ {f}
      /\ cq' = Append(cq, c) /\ sq' = sq
      /\ executed' = executed \cup {f}
      /\ UNCHANGED <<state, got, closure, failed>>
  BY DEF Complete, Queues!Complete
<1>2. c \in Queues!Cqes /\ c.req = f
  BY DEF Queues!Cqes
<1> HIDE DEF c
<1>3. cq \in Seq(Queues!Cqes)
  BY DEF TypeOK
<1>4. /\ cq' \in Seq(Queues!Cqes) /\ Len(cq') = Len(cq) + 1
      /\ Range(cq') = Range(cq) \cup {c}
  BY <1>1, <1>2, <1>3, AppendRange
<1>5. IsFiniteSet(inflight') /\ Cardinality(inflight') = Cardinality(inflight) - 1
  BY <1>1, FS_RemoveElement DEF NoRepeats
<1>6. Held' = Held
  BY <1>1, <1>2, <1>4 DEF Held
<1>7. Left' = Left
  <2>1. Left' = Len(sq) + (Cardinality(inflight) - 1) + (Len(cq) + 1)
    BY <1>1, <1>4, <1>5 DEF Left
  <2> QED
    BY <2>1, LeftParts DEF Left
<1>8. TypeOK'
  BY <1>1, <1>4 DEF TypeOK
<1>9. OneHolder' /\ RingIsOwned' /\ OwnOnly' /\ Owed' = Owed
  BY <1>1, <1>6 DEF OneHolder, Holder, RingIsOwned, OwnOnly, Owed, Waiting
<1>10. NoRepeats'
  BY <1>1, <1>5 DEF NoRepeats, Distinct
<1>11. Balanced' /\ OwnResultUntilFailure'
  BY <1>1, <1>7, <1>9 DEF Balanced, OwnResultUntilFailure
<1> QED
  BY <1>8, <1>9, <1>10, <1>11

(* PoolInv survives every step. *)
LEMMA NextPoolInv == PoolInv /\ [Next]_vars => PoolInv'
<1> SUFFICES ASSUME PoolInv, [Next]_vars PROVE PoolInv'
  OBVIOUS
<1>1. ASSUME NEW f \in Futures,
             \/ SpawnBlocking(f) \/ Drop(f) \/ Lock(f) \/ ClosureStep(f)
             \/ WaitInterrupted(f) \/ Complete(f)
      PROVE  PoolInv'
  BY <1>1, SpawnKeepsInv, DropKeepsInv, LockKeepsInv, GetSqeFullKeepsInv,
    SubmitFailsKeepsInv, SubmitOkKeepsInv, WaitCqeKeepsInv, WaitInterruptedKeepsInv,
    CompleteKeepsInv
  DEF ClosureStep
<1>2. CASE UNCHANGED vars
  <2>1. UNCHANGED <<sq, inflight, cq, executed, state, got, closure, failed>>
    BY <1>2 DEF vars, ring
  <2> QED
    BY <2>1 DEF PoolInv, TypeOK, OneHolder, Holder, RingIsOwned, NoRepeats, Distinct,
      Balanced, Left, Owed, Waiting, Held, OwnOnly, OwnResultUntilFailure
<1> QED
  BY <1>1, <1>2 DEF Next

-----------------------------------------------------------------------------
(* PoolInv is an invariant of the closures that share the ring. *)
THEOREM PoolInvariant == Spec => []PoolInv
<1>1. Init => PoolInv
  BY InitPoolInv
<1>2. PoolInv /\ [Next]_vars => PoolInv'
  BY NextPoolInv
<1> QED
  BY <1>1, <1>2, PTL DEF Spec

(* Type correctness. *)
THEOREM PoolTypeCorrect == Spec => []TypeOK
<1>1. PoolInv => TypeOK
  BY DEF PoolInv
<1> QED
  BY <1>1, PoolInvariant, PTL

(* Between two closures the ring holds exactly one operation for each of    *)
(* those that failed after get_sqe.                                         *)
THEOREM FailuresLeaveOneEach == Spec => []LeftByFailures
<1>1. PoolInv => LeftByFailures
  <2> SUFFICES ASSUME PoolInv, Unlocked PROVE Left = Cardinality(failed)
    BY DEF LeftByFailures
  <2>1. Owed = 0
    BY DEF Unlocked, Owed, Waiting
  <2> QED
    BY <2>1, LeftParts DEF PoolInv, Balanced
<1> QED
  BY <1>1, PoolInvariant, PTL

(* As long as no closure failed after get_sqe, a future that resolves Ok     *)
(* returns the result of its own operation.                                 *)
THEOREM ResultsAreOwn == Spec => []OwnResultUntilFailure
<1>1. PoolInv => OwnResultUntilFailure
  BY DEF PoolInv
<1> QED
  BY <1>1, PoolInvariant, PTL
=============================================================================
