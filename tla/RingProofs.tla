----------------------------- MODULE RingProofs -----------------------------
(***************************************************************************)
(* Theorems about module Ring, for every ring size, every counter width    *)
(* the rings divide, with and without SQPOLL.                              *)
(*                                                                         *)
(* The counters are reduced to their distances first (section 1): nothing  *)
(* after it looks inside WrapAdd and WrapSub.  Sections 2 to 5 are about   *)
(* RingInv and what follows from it, 6 to 9 about what the two wrapping    *)
(* windows are to the programs: the plain queues of RingQueues.            *)
(***************************************************************************)
EXTENDS Ring, QueueLemmas

-----------------------------------------------------------------------------
(* 1. Arithmetic of the wrapping counters. *)

(* One wrap at most: a counter is moved by no more than its modulus. *)
LEMMA AddCases ==
  ASSUME NEW a \in Counter, NEW n \in 0 .. CounterMod
  PROVE  WrapAdd(a, n) = IF a + n < CounterMod THEN a + n ELSE a + n - CounterMod
<1>1. CASE a + n < CounterMod
  BY <1>1, RingAssumption DEF WrapAdd, Counter
<1>2. CASE a + n >= CounterMod
  BY <1>2, RingAssumption DEF WrapAdd, Counter
<1> QED
  BY <1>1, <1>2, RingAssumption DEF Counter

(* WrapSub without the modulus. *)
LEMMA SubCases ==
  ASSUME NEW a \in Counter, NEW b \in Counter
  PROVE  WrapSub(a, b) = IF a >= b THEN a - b ELSE a - b + CounterMod
<1>1. CASE a >= b
  BY <1>1, RingAssumption DEF WrapSub, Counter
<1>2. CASE a < b
  BY <1>2, RingAssumption DEF WrapSub, Counter
<1> QED
  BY <1>1, <1>2 DEF Counter

(* Sums of counters are counters, ... *)
LEMMA AddClosed ==
  ASSUME NEW a \in Counter, NEW n \in 0 .. CounterMod
  PROVE  WrapAdd(a, n) \in Counter
BY AddCases, RingAssumption DEF Counter

(* ... and so are differences. *)
LEMMA SubClosed ==
  ASSUME NEW a \in Counter, NEW b \in Counter
  PROVE  WrapSub(a, b) \in Counter
BY SubCases, RingAssumption DEF Counter

(* Moving the front of a window by n makes it n longer ... *)
LEMMA GrowFront ==
  ASSUME NEW a \in Counter, NEW b \in Counter, NEW n \in 0 .. CounterMod,
         WrapSub(a, b) + n < CounterMod
  PROVE  WrapSub(WrapAdd(a, n), b) = WrapSub(a, b) + n
<1> DEFINE c == WrapAdd(a, n)
<1>1. c \in Counter
  BY AddClosed
<1>2. c = IF a + n < CounterMod THEN a + n ELSE a + n - CounterMod
  BY AddCases
<1>3. WrapSub(c, b) = IF c >= b THEN c - b ELSE c - b + CounterMod
  BY <1>1, SubCases, RingAssumption
<1>4. WrapSub(a, b) = IF a >= b THEN a - b ELSE a - b + CounterMod
  BY SubCases
<1> HIDE DEF c
<1>5. WrapSub(c, b) = WrapSub(a, b) + n
  BY <1>1, <1>2, <1>3, <1>4, RingAssumption DEF Counter
<1> QED
  BY <1>5 DEF c

(* ... and moving its back by n, at most its length, n shorter. *)
LEMMA ShrinkBack ==
  ASSUME NEW a \in Counter, NEW b \in Counter, NEW n \in 0 .. WrapSub(a, b)
  PROVE  WrapSub(a, WrapAdd(b, n)) = WrapSub(a, b) - n
<1> DEFINE c == WrapAdd(b, n)
<1>1. WrapSub(a, b) \in Counter /\ n \in 0 .. CounterMod
  BY SubClosed, RingAssumption DEF Counter
<1>2. c \in Counter
  BY <1>1, AddClosed
<1>3. c = IF b + n < CounterMod THEN b + n ELSE b + n - CounterMod
  BY <1>1, AddCases
<1>4. WrapSub(a, c) = IF a >= c THEN a - c ELSE a - c + CounterMod
  BY <1>2, SubCases, RingAssumption
<1>5. WrapSub(a, b) = IF a >= b THEN a - b ELSE a - b + CounterMod
  BY <1>1, SubCases
<1> HIDE DEF c
<1>6. WrapSub(a, c) = WrapSub(a, b) - n
  BY <1>1, <1>2, <1>3, <1>4, <1>5, RingAssumption DEF Counter
<1> QED
  BY <1>6 DEF c

(* The front is reached from the back by the length of the window. *)
LEMMA BackToFront ==
  ASSUME NEW a \in Counter, NEW b \in Counter
  PROVE  WrapAdd(b, WrapSub(a, b)) = a
<1> DEFINE n == WrapSub(a, b)
<1>1. n \in Counter
  BY SubClosed
<1>2. n = IF a >= b THEN a - b ELSE a - b + CounterMod
  BY SubCases
<1> HIDE DEF n
<1>3. WrapAdd(b, n) = IF b + n < CounterMod THEN b + n ELSE b + n - CounterMod
  BY <1>1, AddCases, RingAssumption DEF Counter
<1>4. WrapAdd(b, n) = a
  BY <1>1, <1>2, <1>3, RingAssumption DEF Counter
<1> QED
  BY <1>4 DEF n

(* Two advances of a counter are one of their sum. *)
LEMMA AddTwice ==
  ASSUME NEW a \in Counter, NEW m \in Nat, NEW n \in Nat, m + n < CounterMod
  PROVE  WrapAdd(WrapAdd(a, m), n) = WrapAdd(a, m + n)
<1> DEFINE c == WrapAdd(a, m)
<1>1. m \in 0 .. CounterMod /\ n \in 0 .. CounterMod /\ m + n \in 0 .. CounterMod
  BY RingAssumption
<1>2. c \in Counter
  BY <1>1, AddClosed
<1>3. c = IF a + m < CounterMod THEN a + m ELSE a + m - CounterMod
  BY <1>1, AddCases
<1>4. WrapAdd(c, n) = IF c + n < CounterMod THEN c + n ELSE c + n - CounterMod
  BY <1>1, <1>2, AddCases
<1>5. WrapAdd(a, m + n) = IF a + (m + n) < CounterMod THEN a + (m + n)
                          ELSE a + (m + n) - CounterMod
  BY <1>1, AddCases
<1> HIDE DEF c
<1>6. WrapAdd(c, n) = WrapAdd(a, m + n)
  BY <1>1, <1>2, <1>3, <1>4, <1>5, RingAssumption DEF Counter
<1> QED
  BY <1>6 DEF c

(* The entries of a ring that divides the counter's modulus: counters less *)
(* than a ring apart select different slots, across the wrap too.          *)
LEMMA DivMod ==
  ASSUME NEW E \in Nat \ {0}, NEW a \in Nat
  PROVE  /\ a = E * (a \div E) + (a % E)
         /\ (a \div E) \in Nat
         /\ a % E \in 0 .. E - 1
OBVIOUS

(* Counters less than a ring apart that select the same slot are equal. *)
LEMMA SlotsDistinct ==
  ASSUME NEW E \in Nat \ {0}, CounterMod % E = 0,
         NEW a \in Counter, NEW b \in Counter,
         a % E = b % E, WrapSub(a, b) < E
  PROVE  a = b
<1> DEFINE qa == a \div E
           qb == b \div E
           k  == CounterMod \div E
<1>1. /\ a = E * qa + (a % E) /\ b = E * qb + (b % E)
      /\ qa \in Nat /\ qb \in Nat /\ a % E \in Nat
  BY DivMod, RingAssumption DEF Counter
<1>2. CounterMod = E * k /\ k \in Nat
  <2>1. CounterMod = E * k + (CounterMod % E) /\ k \in Nat
    BY DivMod, RingAssumption
  <2> QED
    BY <2>1
<1>3. WrapSub(a, b) = IF a >= b THEN a - b ELSE a - b + CounterMod
  BY SubCases, RingAssumption
<1> HIDE DEF qa, qb, k
<1>4. CASE a >= b
  <2>1. a - b = E * (qa - qb) /\ a - b < E
    BY <1>1, <1>3, <1>4
  <2>2. qa - qb \in Int /\ qa - qb < 1
    BY <2>1, <1>1
  <2> QED
    BY <2>1, <2>2, <1>1, <1>4 DEF Counter
<1>5. CASE a < b
  <2> DEFINE n == qa - qb + k
  <2>1. a - b + CounterMod = E * n /\ n \in Int
    BY <1>1, <1>2 DEF Counter
  <2>2. a - b + CounterMod < E /\ a - b + CounterMod > 0
    BY <1>3, <1>5, RingAssumption DEF Counter
  <2> HIDE DEF n
  <2>3. E * n < E /\ E * n > 0
    BY <2>1, <2>2
  <2> QED
    BY <2>1, <2>3
<1> QED
  BY <1>4, <1>5 DEF Counter

(* So two steps less than a ring apart from the same counter select two     *)
(* slots.                                                                   *)
LEMMA SlotsApart ==
  ASSUME NEW E \in Nat \ {0}, CounterMod % E = 0, E < CounterMod,
         NEW c \in Counter, NEW i \in Nat, NEW j \in Nat, i < j, j < E
  PROVE  WrapAdd(c, i) % E # WrapAdd(c, j) % E
<1> DEFINE a == WrapAdd(c, j)
           b == WrapAdd(c, i)
<1>1. i \in 0 .. CounterMod /\ j \in 0 .. CounterMod
  BY RingAssumption
<1>2. a \in Counter /\ b \in Counter
  BY <1>1, AddClosed
<1>3. WrapSub(c, c) = 0
  BY SubCases DEF Counter
<1>4. WrapSub(a, c) = j
  <2>1. WrapSub(c, c) + j = j /\ j < CounterMod
    BY <1>3, RingAssumption
  <2>2. WrapSub(WrapAdd(c, j), c) = WrapSub(c, c) + j
    BY <1>1, <2>1, GrowFront
  <2> QED
    BY <2>1, <2>2
<1>5. WrapSub(a, b) = j - i
  BY <1>1, <1>2, <1>4, ShrinkBack
<1> HIDE DEF a, b
<1>6. ASSUME a % E = b % E PROVE FALSE
  <2>1. j - i < E
    OBVIOUS
  <2>2. a = b
    BY <1>2, <1>5, <1>6, <2>1, SlotsDistinct
  <2>3. WrapSub(a, b) = 0
    BY <1>2, <2>2, SubCases DEF Counter
  <2> QED
    BY <1>5, <2>3
<1> QED
  BY <1>6 DEF a, b

-----------------------------------------------------------------------------
(* 2. The two windows, and the moves the actions are built from. *)

(* The distances between the counters are natural numbers. *)
LEMMA Distances ==
  ASSUME TypeOK
  PROVE  /\ sqHead \in Counter /\ sqTail \in Counter /\ sqeTail \in Counter
         /\ cqHead \in Counter /\ cqTail \in Counter
         /\ ToSubmit \in Nat /\ CqReady \in Nat
         /\ WrapSub(sqTail, sqHead) \in Nat
<1>1. /\ sqHead \in Counter /\ sqTail \in Counter /\ sqeTail \in Counter
      /\ cqHead \in Counter /\ cqTail \in Counter
  BY DEF TypeOK
<1>2. Counter \subseteq Nat
  BY RingAssumption DEF Counter
<1> QED
  BY <1>1, <1>2, SubClosed DEF ToSubmit, CqReady

(* A counter selects a slot of its ring. *)
LEMMA SlotsInRange ==
  ASSUME NEW c \in Counter
  PROVE  SqSlot(c) \in 0 .. SqEntries - 1 /\ CqSlot(c) \in 0 .. CqEntries - 1
BY DivMod, RingAssumption DEF SqSlot, CqSlot, Counter

(* The kernel takes k prepared entries: both distances from khead shrink by *)
(* k, what is taken are requests, and the rest of the window is unmoved.    *)
LEMMA ConsumePrepared ==
  ASSUME RingInv, NEW k \in 0 .. Queued, Consume(k),
         k <= WrapSub(sqTail', sqHead),
         sqTail' \in {sqTail, sqeTail}, UNCHANGED <<sqeTail, sqes, sqe>>
  PROVE  /\ sqHead' \in Counter
         /\ inflight' \subseteq Reqs
         /\ ToSubmit' = ToSubmit - k
         /\ WrapSub(sqTail', sqHead') = WrapSub(sqTail', sqHead) - k
         /\ \A i \in 0 .. ToSubmit - k : WrapAdd(sqHead', i) = WrapAdd(sqHead, k + i)
         /\ WindowPrepared'
<1>1. /\ sqHead \in Counter /\ sqeTail \in Counter /\ sqTail' \in Counter
      /\ ToSubmit \in Nat /\ ToSubmit <= SqEntries /\ inflight \subseteq Reqs
  BY Distances DEF RingInv, TypeOK, WithinRings
<1>2. /\ Queued \in Int /\ Queued <= ToSubmit /\ k \in Nat /\ k <= Queued
      /\ ToSubmit < CounterMod /\ SqEntries \in Nat
  BY <1>1, RingAssumption DEF Queued
<1>3. sqHead' = WrapAdd(sqHead, k) /\ sqHead' \in Counter
  BY <1>1, <1>2, AddClosed, RingAssumption DEF Consume
<1>4. inflight' \subseteq Reqs
  <2>1. \A i \in 0 .. k - 1 : sqes[SqSlot(WrapAdd(sqHead, i))] \in Reqs
    BY <1>2 DEF RingInv, WindowPrepared
  <2> QED
    BY <2>1, <1>1 DEF Consume
<1>5. ToSubmit' = ToSubmit - k
  BY <1>1, <1>2, <1>3, ShrinkBack DEF ToSubmit
<1>6. WrapSub(sqTail', sqHead') = WrapSub(sqTail', sqHead) - k
  BY <1>1, <1>2, <1>3, SubClosed, ShrinkBack DEF Counter
<1>7. ASSUME NEW i \in 0 .. ToSubmit - k
      PROVE  WrapAdd(sqHead', i) = WrapAdd(sqHead, k + i)
  <2>1. i \in Nat /\ k \in Nat /\ k + i < CounterMod
    BY <1>1, <1>2, RingAssumption
  <2>2. WrapAdd(WrapAdd(sqHead, k), i) = WrapAdd(sqHead, k + i)
    BY <2>1, <1>1, AddTwice
  <2> QED
    BY <2>2, <1>3
<1>8. WindowPrepared'
  <2> SUFFICES ASSUME NEW i \in 0 .. Queued' - 1
               PROVE  sqes'[SqSlot(WrapAdd(sqHead', i))] \in Reqs
    BY DEF WindowPrepared, SqSlot
  <2>1. Queued' = Queued - k
    BY <1>1, <1>2, <1>5 DEF Queued
  <2>2. i \in 0 .. ToSubmit - k /\ k + i \in 0 .. Queued - 1
    BY <2>1, <1>1, <1>2 DEF Queued
  <2>3. sqes[SqSlot(WrapAdd(sqHead, k + i))] \in Reqs
    BY <2>2 DEF RingInv, WindowPrepared
  <2> QED
    BY <2>2, <2>3, <1>7
<1> QED
  BY <1>3, <1>4, <1>5, <1>6, <1>7, <1>8

(* Moving completions from the overflow list keeps the CQ ring's types and  *)
(* its bound.                                                               *)
CqTyped ==
  /\ cqHead \in Counter /\ cqTail \in Counter
  /\ cqes \in [0 .. CqEntries - 1 -> [req : Reqs \cup {NoReq}, res : Results \cup {0}]]
  /\ overflow \in Seq([req : Reqs, res : Results])
  /\ CqReady <= CqEntries

(* Refilling the ring from the overflow list never overfills it. *)
LEMMA FlushKeepsCq ==
  ASSUME CqTyped, FlushOverflow
  PROVE  CqTyped' /\ CqReady' >= CqReady /\ cqHead' = cqHead
<1> DEFINE room  == CqEntries - CqReady
           moved == IF Len(overflow) < room THEN Len(overflow) ELSE room
           From(s) == WrapSub(s, CqSlot(cqTail)) % CqEntries
<1>1. CqReady \in Nat /\ Len(overflow) \in Nat /\ CqEntries \in Nat \ {0}
  BY SubClosed, RingAssumption DEF CqTyped, CqReady, Counter
<1>2. moved \in 0 .. room /\ moved <= Len(overflow) /\ room \in 0 .. CqEntries
  BY <1>1 DEF CqTyped
<1>3. /\ cqes' = [s \in DOMAIN cqes |->
                    IF From(s) < moved THEN overflow[From(s) + 1] ELSE cqes[s]]
      /\ cqTail' = WrapAdd(cqTail, moved)
      /\ overflow' = SubSeq(overflow, moved + 1, Len(overflow))
      /\ cqHead' = cqHead
  BY DEF FlushOverflow
<1>4. CqReady' = CqReady + moved /\ cqTail' \in Counter
  <2> HIDE DEF moved
  <2>1. /\ moved \in 0 .. CounterMod /\ CqReady + moved < CounterMod
        /\ cqTail \in Counter /\ cqHead \in Counter
    BY <1>1, <1>2, RingAssumption DEF CqTyped
  <2>2. WrapSub(WrapAdd(cqTail, moved), cqHead) = WrapSub(cqTail, cqHead) + moved
    BY <2>1, GrowFront DEF CqReady
  <2> QED
    BY <2>1, <2>2, <1>3, AddClosed DEF CqReady
<1>5. overflow' \in Seq([req : Reqs, res : Results])
  <2>1. \A i \in moved + 1 .. Len(overflow) : overflow[i] \in [req : Reqs, res : Results]
    <3> SUFFICES ASSUME NEW i \in moved + 1 .. Len(overflow)
                 PROVE  overflow[i] \in [req : Reqs, res : Results]
      OBVIOUS
    <3> HIDE DEF moved
    <3>1. i \in 1 .. Len(overflow)
      BY <1>1, <1>2
    <3> QED
      BY <3>1, ElementOfSeq DEF CqTyped
  <2>2. moved + 1 \in Int /\ Len(overflow) \in Int
    BY <1>1, <1>2
  <2> HIDE DEF moved
  <2> QED
    BY <2>1, <2>2, <1>3, SubSeqProperties
<1>6. cqes' \in [0 .. CqEntries - 1 -> [req : Reqs \cup {NoReq}, res : Results \cup {0}]]
  <2> SUFFICES ASSUME NEW s \in 0 .. CqEntries - 1
               PROVE  (IF From(s) < moved THEN overflow[From(s) + 1] ELSE cqes[s])
                        \in [req : Reqs \cup {NoReq}, res : Results \cup {0}]
    BY <1>3 DEF CqTyped
  <2>1. s \in Counter /\ CqSlot(cqTail) \in Counter
    <3>1. CqSlot(cqTail) \in 0 .. CqEntries - 1
      BY SlotsInRange DEF CqTyped
    <3> QED
      BY <3>1, RingAssumption DEF Counter
  <2>2. From(s) \in Nat
    <3>1. WrapSub(s, CqSlot(cqTail)) \in Nat
      BY <2>1, SubClosed DEF Counter
    <3> QED
      BY <3>1, <1>1, DivMod
  <2> HIDE DEF From, moved
  <2>3. CASE From(s) < moved
    <3>1. From(s) + 1 \in 1 .. Len(overflow)
      BY <2>2, <2>3, <1>1, <1>2
    <3>2. overflow[From(s) + 1] \in [req : Reqs, res : Results]
      BY <3>1, ElementOfSeq DEF CqTyped
    <3> QED
      BY <2>3, <3>2
  <2> QED
    BY <2>3 DEF CqTyped
<1> QED
  BY <1>1, <1>2, <1>3, <1>4, <1>5, <1>6 DEF CqTyped

-----------------------------------------------------------------------------
(* 3. RingInv is inductive.  It is the conjunction of what concerns the     *)
(* submission side, the completion side and the caller.                     *)

SqInv ==
  /\ sqHead \in Counter /\ sqTail \in Counter /\ sqeTail \in Counter
  /\ sqes \in [0 .. SqEntries - 1 -> Reqs \cup {NoReq}]
  /\ sqe \in 0 .. SqEntries - 1 \cup {NoSlot}
  /\ inflight \subseteq Reqs
  /\ space \in 0 .. SqEntries /\ space <= SpaceLeft
  /\ WrapSub(sqTail, sqHead) <= ToSubmit /\ ToSubmit <= SqEntries
  /\ WindowPrepared
  /\ sqe # NoSlot => /\ WrapSub(sqTail, sqHead) < ToSubmit
                     /\ sqe = SqSlot(WrapAdd(sqHead, ToSubmit - 1))

CqInv ==
  /\ CqTyped
  /\ cqe \in 0 .. CqEntries - 1 \cup {NoSlot}
  /\ cqe # NoSlot => CqReady > 0 /\ cqe = CqSlot(cqHead)

UserInv ==
  /\ open \in BOOLEAN /\ sqPoll \in BOOLEAN
  /\ call \in {"none", "wait_cqe", "submit_and_wait"} /\ want \in 0 .. CqEntries
  /\ sqe # NoSlot => open /\ call = "none" /\ cqe = NoSlot
  /\ cqe # NoSlot => open /\ call = "none"
  /\ call # "none" => open

(* The invariant, taken apart along the two rings and the caller. *)
LEMMA Parts == RingInv <=> SqInv /\ CqInv /\ UserInv
<1>1. RingInv => SqInv /\ CqInv /\ UserInv
  BY DEF RingInv, TypeOK, WithinRings, DraftIsLast, GuardIsOldest,
         SqInv, CqInv, CqTyped, UserInv
<1>2. SqInv /\ CqInv /\ UserInv => RingInv
  BY DEF RingInv, TypeOK, WithinRings, DraftIsLast, GuardIsOldest,
         SqInv, CqInv, CqTyped, UserInv
<1> QED
  BY <1>1, <1>2

(* A step that leaves the submission ring alone. *)
LEMMA SqUnchanged ==
  ASSUME SqInv, UNCHANGED sqVars, inflight' \subseteq Reqs
  PROVE  SqInv'
BY DEF SqInv, sqVars, WindowPrepared, Queued, ToSubmit, SpaceLeft, SqSlot

(* An empty ring is refilled when there is anything to refill it with. *)
LEMMA FlushMoves ==
  ASSUME CqTyped, FlushOverflow, CqReady = 0, Len(overflow) > 0
  PROVE  CqReady' > 0
<1> DEFINE moved == IF Len(overflow) < CqEntries THEN Len(overflow) ELSE CqEntries
<1>1. cqTail' = WrapAdd(cqTail, moved) /\ cqHead' = cqHead
  BY RingAssumption DEF FlushOverflow
<1>2. /\ moved \in 0 .. CounterMod /\ moved > 0 /\ CqReady + moved < CounterMod
      /\ cqTail \in Counter /\ cqHead \in Counter
  <2>1. Len(overflow) \in Nat
    BY DEF CqTyped
  <2>2. moved \in 1 .. CqEntries
    BY <2>1, RingAssumption
  <2>3. cqTail \in Counter /\ cqHead \in Counter
    BY DEF CqTyped
  <2> HIDE DEF moved
  <2> QED
    BY <2>2, <2>3, RingAssumption
<1> HIDE DEF moved
<1>3. WrapSub(WrapAdd(cqTail, moved), cqHead) = moved
  BY <1>2, GrowFront DEF CqReady
<1> QED
  BY <1>1, <1>2, <1>3 DEF CqReady

(* A step that leaves the completion ring alone. *)
LEMMA CqUnchanged ==
  ASSUME CqInv, UNCHANGED <<cqVars, cqe>>
  PROVE  CqInv'
BY DEF CqInv, cqVars, CqTyped, CqReady, CqSlot

(* A refill of the completion ring keeps its part. *)
LEMMA CqFlushed ==
  ASSUME CqInv, FlushOverflow, UNCHANGED cqe
  PROVE  CqInv'
<1>1. CqTyped' /\ CqReady' >= CqReady /\ cqHead' = cqHead
  BY FlushKeepsCq DEF CqInv
<1>2. CqReady \in Int /\ CqReady' \in Int
  BY <1>1, SubClosed DEF CqInv, CqTyped, CqReady, Counter
<1> QED
  BY <1>1, <1>2 DEF CqInv, CqSlot

(* get_sqe hands out the entry after the window. *)
LEMMA GetSqeKeepsSq ==
  ASSUME SqInv, GetSqe
  PROVE  SqInv'
<1>1. /\ sqHead \in Counter /\ sqeTail \in Counter /\ sqe = NoSlot
      /\ ToSubmit \in Nat /\ ToSubmit <= SqEntries /\ SqEntries + 1 < CounterMod
      /\ SqEntries \in Nat \ {0} /\ 1 \in 0 .. CounterMod
  BY SubClosed, RingAssumption DEF SqInv, GetSqe, Free, Idle, ToSubmit, Counter
<1>2. ToSubmit < SqEntries
  <2>1. WrapSub(WrapAdd(sqeTail, 1), sqHead) = ToSubmit + 1
    BY <1>1, GrowFront, RingAssumption DEF ToSubmit
  <2> QED
    BY <2>1, <1>1 DEF GetSqe, HasSqe
<1>3. sqeTail' \in Counter /\ ToSubmit' = ToSubmit + 1
  <2>1. WrapSub(WrapAdd(sqeTail, 1), sqHead) = ToSubmit + 1
    BY <1>1, GrowFront, RingAssumption DEF ToSubmit
  <2>2. sqeTail' = WrapAdd(sqeTail, 1) /\ sqHead' = sqHead
    BY DEF GetSqe
  <2> QED
    BY <2>1, <2>2, <1>1, AddClosed DEF ToSubmit
<1>4. sqHead' = sqHead /\ sqTail' = sqTail /\ sqes' = sqes /\ inflight' = inflight
  BY DEF GetSqe
<1>5. sqe' \in 0 .. SqEntries - 1 /\ sqe' = SqSlot(WrapAdd(sqHead, ToSubmit))
  BY <1>1, SlotsInRange, BackToFront DEF GetSqe, NextSqe, ToSubmit
<1>6. sqe' # NoSlot /\ Queued' = Queued
  BY <1>1, <1>3, <1>5 DEF Queued, NoSlot
<1>7. WindowPrepared'
  BY <1>4, <1>6 DEF SqInv, WindowPrepared, SqSlot
<1>8. space' \in 0 .. SqEntries /\ space' <= SpaceLeft'
  BY <1>1, <1>2, <1>3 DEF SqInv, GetSqe, SpaceLeft
<1>9. WrapSub(sqTail, sqHead) \in Nat /\ WrapSub(sqTail, sqHead) <= ToSubmit
  BY <1>1, SubClosed DEF SqInv, Counter
<1>10. sqe' = SqSlot(WrapAdd(sqHead', ToSubmit' - 1))
  BY <1>1, <1>3, <1>4, <1>5
<1> QED
  BY <1>1, <1>2, <1>3, <1>4, <1>5, <1>7, <1>8, <1>9, <1>10 DEF SqInv

(* prepare() fills the last entry of the window. *)
LEMMA PrepareKeepsSq ==
  ASSUME SqInv, NEW r \in Reqs, Prepare(r)
  PROVE  SqInv'
<1>1. /\ sqe \in 0 .. SqEntries - 1 /\ sqe = SqSlot(WrapAdd(sqHead, ToSubmit - 1))
      /\ sqHead \in Counter /\ ToSubmit \in Nat
      /\ WrapSub(sqTail, sqHead) <= ToSubmit
  BY SubClosed DEF SqInv, Prepare, ToSubmit, Counter
<1>2. sqes' = [sqes EXCEPT ![sqe] = r] /\ sqe' = NoSlot
  BY DEF Prepare
<1>3. UNCHANGED <<sqHead, sqTail, sqeTail, space, inflight>> /\ ToSubmit' = ToSubmit
  BY DEF Prepare, ToSubmit
<1>4. sqes' \in [0 .. SqEntries - 1 -> Reqs \cup {NoReq}]
  BY <1>1, <1>2 DEF SqInv
<1>5. WindowPrepared'
  <2> SUFFICES ASSUME NEW i \in 0 .. ToSubmit - 1
               PROVE  sqes'[SqSlot(WrapAdd(sqHead, i))] \in Reqs
    BY <1>2, <1>3 DEF WindowPrepared, Queued, SqSlot
  <2>1. SqSlot(WrapAdd(sqHead, i)) \in 0 .. SqEntries - 1
    <3>1. i \in 0 .. CounterMod
      BY <1>1, RingAssumption DEF SqInv
    <3> QED
      BY <3>1, <1>1, AddClosed, SlotsInRange
  <2>2. CASE i = ToSubmit - 1
    BY <2>1, <2>2, <1>1, <1>2 DEF SqInv
  <2>3. CASE i < ToSubmit - 1
    <3>1. sqes[SqSlot(WrapAdd(sqHead, i))] \in Reqs
      BY <2>3, <1>1 DEF SqInv, WindowPrepared, Queued, Prepare
    <3> QED
      BY <3>1, <2>1, <1>1, <1>2 DEF SqInv
  <2> QED
    BY <2>2, <2>3, <1>1
<1> QED
  BY <1>2, <1>3, <1>4, <1>5 DEF SqInv, SpaceLeft

(* io_uring_enter: everything handed out is published and k entries taken. *)
LEMMA EnterKeepsParts ==
  ASSUME RingInv, sqe = NoSlot, cqe = NoSlot, NEW k \in 0 .. SqEntries, Enter(k)
  PROVE  SqInv' /\ CqInv'
<1> USE Parts
<1>1. /\ sqTail' = sqeTail
      /\ UNCHANGED <<sqeTail, sqes, sqe, cqe, space>>
  BY DEF Enter
<1>2. /\ ToSubmit \in Nat /\ ToSubmit <= SqEntries /\ sqeTail \in Counter
      /\ space \in Nat /\ space <= SqEntries - ToSubmit
      /\ sqes \in [0 .. SqEntries - 1 -> Reqs \cup {NoReq}]
      /\ space \in 0 .. SqEntries /\ SqEntries \in Nat
  <2>1. ToSubmit \in Nat
    BY SubClosed DEF SqInv, ToSubmit, Counter
  <2> QED
    BY <2>1, RingAssumption DEF SqInv, SpaceLeft
<1>3. CqInv'
  BY <1>1, CqFlushed, CqUnchanged DEF Enter
<1>4. SqInv'
  <2>1. CASE sqPoll
    <3>1. UNCHANGED <<sqHead, inflight>> /\ ToSubmit' = ToSubmit
      BY <2>1, <1>1 DEF Enter, ToSubmit
    <3> QED
      BY <3>1, <1>1, <1>2 DEF SqInv, WindowPrepared, Queued, ToSubmit, SpaceLeft, SqSlot
  <2>2. CASE ~sqPoll
    <3>1. k \in 0 .. Queued /\ Consume(k) /\ k <= WrapSub(sqTail', sqHead)
      BY <2>2, <1>1, <1>2 DEF Enter, Queued, ToSubmit
    <3>2. /\ sqHead' \in Counter /\ inflight' \subseteq Reqs
          /\ ToSubmit' = ToSubmit - k /\ WindowPrepared'
      BY <3>1, <1>1, ConsumePrepared
    <3>3. WrapSub(sqTail', sqHead') = ToSubmit'
      BY <1>1 DEF ToSubmit
    <3> QED
      BY <3>1, <3>2, <3>3, <1>1, <1>2 DEF SqInv, SpaceLeft
  <2> QED
    BY <2>1, <2>2
<1> QED
  BY <1>3, <1>4

(* The SQPOLL thread takes the oldest published entry; the entry being      *)
(* prepared stays the last one.                                             *)
LEMMA SqThreadKeepsSq ==
  ASSUME RingInv, SqThread
  PROVE  SqInv'
<1> USE Parts
<1>1. /\ UNCHANGED <<sqTail, sqeTail, sqes, sqe, space>> /\ Consume(1)
      /\ sqHead # sqTail
  BY DEF SqThread
<1>2. /\ sqHead \in Counter /\ sqTail \in Counter /\ sqeTail \in Counter
      /\ ToSubmit \in Nat /\ WrapSub(sqTail, sqHead) \in Nat
      /\ WrapSub(sqTail, sqHead) <= ToSubmit /\ ToSubmit <= SqEntries
      /\ sqe # NoSlot => WrapSub(sqTail, sqHead) < ToSubmit
      /\ space \in 0 .. SqEntries /\ space <= SqEntries - ToSubmit /\ SqEntries \in Nat
  BY SubClosed, RingAssumption DEF SqInv, ToSubmit, Counter, SpaceLeft
<1>3. WrapSub(sqTail, sqHead) >= 1
  <2>1. WrapSub(sqTail, sqHead) = IF sqTail >= sqHead THEN sqTail - sqHead
                                  ELSE sqTail - sqHead + CounterMod
    BY <1>2, SubCases
  <2> QED
    BY <2>1, <1>1, <1>2, RingAssumption DEF Counter
<1>4. 1 \in 0 .. Queued
  BY <1>2, <1>3 DEF Queued
<1>5. /\ sqHead' \in Counter /\ inflight' \subseteq Reqs
      /\ ToSubmit' = ToSubmit - 1 /\ WindowPrepared'
      /\ WrapSub(sqTail', sqHead') = WrapSub(sqTail, sqHead) - 1
      /\ \A i \in 0 .. ToSubmit - 1 : WrapAdd(sqHead', i) = WrapAdd(sqHead, 1 + i)
  BY <1>1, <1>3, <1>4, ConsumePrepared
<1>6. ASSUME sqe # NoSlot
      PROVE  sqe' = SqSlot(WrapAdd(sqHead', ToSubmit' - 1))
  <2>1. ToSubmit' - 1 \in 0 .. ToSubmit - 1 /\ 1 + (ToSubmit' - 1) = ToSubmit - 1
    BY <1>2, <1>3, <1>5, <1>6
  <2>2. WrapAdd(sqHead', ToSubmit' - 1) = WrapAdd(sqHead, ToSubmit - 1)
    BY <2>1, <1>5
  <2> QED
    BY <2>2, <1>1, <1>6 DEF SqInv
<1> QED
  BY <1>1, <1>2, <1>5, <1>6 DEF SqInv, SpaceLeft

(* The kernel posts a completion where there is room, else holds it back. *)
LEMMA PostCqeKeepsCq ==
  ASSUME CqInv, NEW r \in Reqs, NEW res \in Results, PostCqe(r, res)
  PROVE  CqInv'
<1> DEFINE done == [req |-> r, res |-> res]
<1>1. done \in [req : Reqs, res : Results] /\ UNCHANGED <<cqHead, cqe>>
  BY DEF PostCqe, userVars
<1>2. /\ cqHead \in Counter /\ cqTail \in Counter /\ CqReady \in Nat
      /\ CqReady <= CqEntries /\ CqEntries \in Nat /\ 1 \in 0 .. CounterMod
  BY SubClosed, RingAssumption DEF CqInv, CqTyped, CqReady, Counter
<1>3. CASE overflow = <<>> /\ CqReady < CqEntries
  <2>1. /\ cqes' = [cqes EXCEPT ![CqSlot(cqTail)] = done]
        /\ cqTail' = WrapAdd(cqTail, 1) /\ overflow' = overflow
    BY <1>3 DEF PostCqe
  <2>2. WrapSub(WrapAdd(cqTail, 1), cqHead) = CqReady + 1
    BY <1>2, <1>3, GrowFront, RingAssumption DEF CqReady
  <2>3. CqReady' = CqReady + 1 /\ cqTail' \in Counter
    BY <2>1, <2>2, <1>1, <1>2, AddClosed DEF CqReady
  <2>4. cqes' \in [0 .. CqEntries - 1 -> [req : Reqs \cup {NoReq}, res : Results \cup {0}]]
    BY <2>1, <1>1 DEF CqInv, CqTyped
  <2> QED
    BY <2>1, <2>3, <2>4, <1>1, <1>2, <1>3 DEF CqInv, CqTyped, CqSlot
<1>4. CASE ~(overflow = <<>> /\ CqReady < CqEntries)
  <2>1. overflow' = Append(overflow, done) /\ UNCHANGED <<cqes, cqTail>>
    BY <1>4 DEF PostCqe
  <2>2. overflow' \in Seq([req : Reqs, res : Results])
    BY <2>1, <1>1, AppendProperties DEF CqInv, CqTyped
  <2> QED
    BY <2>1, <2>2, <1>1 DEF CqInv, CqTyped, CqReady, CqSlot
<1> QED
  BY <1>3, <1>4

(* Marking the oldest CQE as seen is sound while there is one. *)
LEMMA DropCqeKeepsCq ==
  ASSUME CqInv, DropCqe
  PROVE  CqInv'
<1>1. /\ cqHead' = WrapAdd(cqHead, 1) /\ cqe' = NoSlot
      /\ UNCHANGED <<cqTail, cqes, overflow>>
  BY DEF DropCqe, Seen
<1>2. /\ cqHead \in Counter /\ cqTail \in Counter /\ CqReady \in Nat
      /\ CqReady > 0 /\ CqReady <= CqEntries /\ CqEntries \in Nat
      /\ 1 \in 0 .. CounterMod
  BY SubClosed, RingAssumption DEF CqInv, CqTyped, CqReady, DropCqe, Counter
<1>3. WrapSub(cqTail, WrapAdd(cqHead, 1)) = CqReady - 1
  BY <1>2, ShrinkBack DEF CqReady
<1>4. CqReady' = CqReady - 1 /\ cqHead' \in Counter
  BY <1>1, <1>2, <1>3, AddClosed DEF CqReady
<1> QED
  BY <1>1, <1>2, <1>4 DEF CqInv, CqTyped

(* RingInv holds of a ring just opened. *)
LEMMA RingInvInit == Init => RingInv
<1> SUFFICES ASSUME Init PROVE RingInv
  OBVIOUS
<1>1. 0 \in Counter /\ WrapSub(0, 0) = 0 /\ SqEntries \in Nat \ {0} /\ CqEntries \in Nat \ {0}
  BY SubCases, RingAssumption DEF Counter
<1>2. ToSubmit = 0 /\ CqReady = 0 /\ Queued = 0 /\ SpaceLeft = SqEntries
  BY <1>1 DEF Init, ToSubmit, CqReady, Queued, SpaceLeft
<1>3. SqInv
  BY <1>1, <1>2 DEF Init, SqInv, NewSqes, WindowPrepared
<1>4. CqInv
  BY <1>1, <1>2 DEF Init, CqInv, CqTyped, NewCqes, NoCqe
<1>5. UserInv
  <2>1. open \in BOOLEAN /\ sqPoll \in BOOLEAN /\ sqe = NoSlot /\ cqe = NoSlot /\ call = "none"
    BY Zenon DEF Init
  <2>2. want \in 0 .. CqEntries
    BY <1>1 DEF Init
  <2> QED
    BY <2>1, <2>2 DEF UserInv
<1> QED
  BY <1>3, <1>4, <1>5, Parts

(* RingInv survives every step of the caller and of the kernel. *)
LEMMA RingInvStep == RingInv /\ [Next]_vars => RingInv'
<1> SUFFICES ASSUME RingInv, [Next]_vars PROVE SqInv' /\ CqInv' /\ UserInv'
  BY Parts DEF RingInv, TypeOK, WithinRings, DraftIsLast, GuardIsOldest,
               SqInv, CqInv, CqTyped, UserInv
<1>0. SqInv /\ CqInv /\ UserInv /\ inflight \subseteq Reqs
  BY Parts DEF SqInv
<1>1. CASE WithFlags
  <2>1. SqInv' /\ CqInv'
    BY <1>0, <1>1, SqUnchanged, CqUnchanged DEF WithFlags, userVars
  <2> QED
    BY <1>0, <1>1, <2>1, RingAssumption DEF WithFlags, UserInv, userVars, sqVars
<1>2. CASE DropRing
  <2>1. 0 \in Counter /\ WrapSub(0, 0) = 0 /\ SqEntries \in Nat \ {0}
        /\ CqEntries \in Nat \ {0}
    BY SubCases, RingAssumption DEF Counter
  <2>2. /\ sqHead' = 0 /\ sqTail' = 0 /\ sqeTail' = 0 /\ sqes' = NewSqes
        /\ sqe' = NoSlot /\ space' = 0 /\ inflight' = inflight
        /\ cqHead' = 0 /\ cqTail' = 0 /\ cqes' = NewCqes /\ overflow' = <<>>
        /\ cqe' = NoSlot /\ open' = FALSE /\ sqPoll' = FALSE /\ call' = "none" /\ want' = want
    BY <1>2 DEF DropRing, Idle, userVars
  <2>3. ToSubmit' = 0 /\ CqReady' = 0 /\ Queued' = 0 /\ SpaceLeft' = SqEntries
    BY <2>1, <2>2 DEF ToSubmit, CqReady, Queued, SpaceLeft
  <2>4. SqInv'
    BY <1>0, <2>1, <2>2, <2>3 DEF SqInv, NewSqes, WindowPrepared
  <2>5. CqInv'
    BY <2>1, <2>2, <2>3 DEF CqInv, CqTyped, NewCqes, NoCqe
  <2>6. UserInv'
    BY <1>0, <2>2 DEF UserInv
  <2> QED
    BY <2>4, <2>5, <2>6
<1>3. CASE GetSqe
  <2>1. SqInv' /\ CqInv'
    BY <1>0, <1>3, GetSqeKeepsSq, CqUnchanged DEF GetSqe, userVars
  <2> QED
    BY <1>0, <1>3, <2>1 DEF GetSqe, UserInv, userVars, Free, Idle
<1>4. CASE GetSqeFull \/ UNCHANGED vars
  <2>1. UNCHANGED vars
    BY <1>4 DEF GetSqeFull
  <2>2. SqInv' /\ CqInv'
    BY <1>0, <2>1, SqUnchanged, CqUnchanged DEF vars, userVars
  <2> QED
    BY <1>0, <2>1, <2>2 DEF UserInv, vars, userVars, sqVars
<1>5. CASE AskSpace
  <2>1. UNCHANGED <<sqHead, sqTail, sqeTail, sqes, sqe, inflight>> /\ space' = SpaceLeft
    BY <1>5 DEF AskSpace
  <2>2. SpaceLeft \in 0 .. SqEntries /\ SpaceLeft' = SpaceLeft
    <3>1. ToSubmit \in Nat /\ ToSubmit' = ToSubmit
      BY <1>0, <2>1, SubClosed DEF SqInv, ToSubmit, Counter
    <3> QED
      BY <1>0, <3>1, RingAssumption DEF SqInv, SpaceLeft
  <2>3. SqInv'
    BY <1>0, <2>1, <2>2 DEF SqInv, WindowPrepared, Queued, ToSubmit, SqSlot
  <2>4. CqInv'
    BY <1>0, <1>5, CqUnchanged DEF AskSpace, userVars
  <2> QED
    BY <1>0, <1>5, <2>3, <2>4 DEF AskSpace, UserInv, userVars
<1>6. ASSUME NEW r \in Reqs, Prepare(r)
      PROVE  SqInv' /\ CqInv' /\ UserInv'
  <2>1. SqInv' /\ CqInv'
    BY <1>0, <1>6, PrepareKeepsSq, CqUnchanged DEF Prepare, userVars
  <2> QED
    BY <1>0, <1>6, <2>1 DEF Prepare, UserInv, userVars
<1>7. CASE Submit
  <2>1. SqInv' /\ CqInv'
    BY <1>7, EnterKeepsParts DEF Submit, Free, Idle
  <2> QED
    BY <1>0, <1>7, <2>1 DEF Submit, Enter, UserInv, Free, Idle
<1>8. ASSUME NEW n \in 1 .. CqEntries, SubmitAndWait(n)
      PROVE  SqInv' /\ CqInv' /\ UserInv'
  <2>1. SqInv' /\ CqInv'
    BY <1>8, EnterKeepsParts DEF SubmitAndWait, Free, Idle
  <2>2. UNCHANGED <<open, sqPoll, sqe, cqe>> /\ Free
    BY <1>8 DEF SubmitAndWait, Enter
  <2>3. /\ call' \in {"none", "wait_cqe", "submit_and_wait"}
        /\ want' \in 0 .. CqEntries
    BY <1>0, <1>8, RingAssumption DEF SubmitAndWait, UserInv, Free, Idle
  <2> QED
    BY <1>0, <2>1, <2>2, <2>3 DEF UserInv, Free, Idle
<1>9. CASE SubmitAndWaitReturns \/ Interrupted
  <2>1. /\ UNCHANGED <<open, sqPoll, sqVars, cqVars, cqe, inflight>>
        /\ call' = "none" /\ want' = 0
    BY <1>9 DEF SubmitAndWaitReturns, Interrupted
  <2>2. SqInv' /\ CqInv'
    BY <1>0, <2>1, SqUnchanged, CqUnchanged
  <2>3. 0 \in 0 .. CqEntries
    BY RingAssumption
  <2> QED
    BY <1>0, <2>1, <2>2, <2>3 DEF UserInv, sqVars
<1>10. CASE WaitCqe
  <2>1. UNCHANGED <<open, sqPoll, sqVars, want, inflight>> /\ Free
    BY <1>10 DEF WaitCqe
  <2>2. SqInv'
    BY <1>0, <2>1, SqUnchanged
  <2>3. CASE CqReady > 0
    <3>1. cqe' = CqSlot(cqHead) /\ UNCHANGED <<call, cqVars>>
      BY <1>10, <2>3 DEF WaitCqe
    <3>2. cqe' \in 0 .. CqEntries - 1
      BY <1>0, <3>1, SlotsInRange DEF CqInv, CqTyped
    <3>3. CqInv'
      BY <1>0, <2>3, <3>1, <3>2 DEF CqInv, CqTyped, CqReady, CqSlot, cqVars
    <3> QED
      BY <1>0, <2>1, <2>2, <3>1, <3>3 DEF UserInv, Free, Idle, sqVars
  <2>4. CASE ~(CqReady > 0)
    <3>1. call' = "wait_cqe" /\ FlushOverflow /\ UNCHANGED cqe
      BY <1>10, <2>4 DEF WaitCqe
    <3>2. CqInv'
      BY <1>0, <3>1, CqFlushed
    <3> QED
      BY <1>0, <2>1, <2>2, <3>1, <3>2 DEF UserInv, Free, Idle, sqVars
  <2> QED
    BY <2>3, <2>4
<1>11. CASE WaitCqeReturns
  <2>1. /\ UNCHANGED <<open, sqPoll, sqVars, cqVars, want, inflight>> /\ call = "wait_cqe"
        /\ CqReady > 0 /\ cqe' = CqSlot(cqHead) /\ call' = "none"
    BY <1>11 DEF WaitCqeReturns
  <2>2. SqInv'
    BY <1>0, <2>1, SqUnchanged
  <2>3. cqe' \in 0 .. CqEntries - 1
    BY <1>0, <2>1, SlotsInRange DEF CqInv, CqTyped
  <2>4. CqInv'
    BY <1>0, <2>1, <2>3 DEF CqInv, CqTyped, CqReady, CqSlot, cqVars
  <2>5. UserInv'
    BY <1>0, <2>1 DEF UserInv, sqVars
  <2> QED
    BY <2>2, <2>4, <2>5
<1>12. CASE PeekCqe
  <2>1. /\ UNCHANGED <<open, sqPoll, sqVars, call, want, inflight>> /\ Free
        /\ IF CqReady > 0 THEN UNCHANGED cqVars ELSE FlushOverflow
        /\ cqe' = IF CqReady + Len(overflow) > 0 THEN CqSlot(cqHead) ELSE NoSlot
    BY <1>12 DEF PeekCqe
  <2>2. SqInv'
    BY <1>0, <2>1, SqUnchanged
  <2>3. /\ CqTyped' /\ cqHead' = cqHead /\ CqReady \in Nat /\ CqReady' \in Nat
        /\ CqReady > 0 => CqReady' = CqReady
    <3>1. CqTyped' /\ cqHead' = cqHead /\ (CqReady > 0 => CqReady' = CqReady)
      BY <1>0, <2>1, FlushKeepsCq DEF CqInv, CqTyped, CqReady, cqVars
    <3> QED
      BY <1>0, <3>1, SubClosed DEF CqInv, CqTyped, CqReady, Counter
  <2>4. CqReady + Len(overflow) > 0 => CqReady' > 0
    <3>1. CASE CqReady = 0 /\ Len(overflow) > 0
      BY <1>0, <2>1, <3>1, FlushMoves DEF CqInv
    <3>2. Len(overflow) \in Nat
      BY <1>0 DEF CqInv, CqTyped
    <3> QED
      BY <2>3, <3>1, <3>2
  <2>5. cqe' \in 0 .. CqEntries - 1 \cup {NoSlot} /\ (cqe' # NoSlot => cqe' = CqSlot(cqHead'))
    BY <1>0, <2>1, <2>3, SlotsInRange DEF CqInv, CqTyped
  <2>6. CqInv'
    BY <2>1, <2>3, <2>4, <2>5 DEF CqInv, CqSlot
  <2>7. UserInv'
    BY <1>0, <2>1 DEF UserInv, Free, Idle, sqVars
  <2> QED
    BY <2>2, <2>6, <2>7
<1>13. CASE PeekBatch
  <2>1. /\ UNCHANGED <<open, sqPoll, sqVars, userVars, inflight>> /\ FlushOverflow
    BY <1>13 DEF PeekBatch
  <2>2. SqInv' /\ CqInv'
    BY <1>0, <2>1, SqUnchanged, CqFlushed DEF userVars
  <2> QED
    BY <1>0, <2>1, <2>2 DEF UserInv, sqVars, userVars
<1>14. CASE DropCqe
  <2>1. SqInv' /\ CqInv'
    BY <1>0, <1>14, SqUnchanged, DropCqeKeepsCq DEF DropCqe
  <2> QED
    BY <1>0, <1>14, <2>1 DEF DropCqe, UserInv, sqVars
<1>15. CASE SqThread
  <2>1. SqInv' /\ CqInv'
    BY <1>0, <1>15, SqThreadKeepsSq, CqUnchanged DEF SqThread, userVars
  <2> QED
    BY <1>0, <1>15, <2>1 DEF SqThread, UserInv, userVars
<1>16. ASSUME NEW r \in Reqs, NEW res \in Results, PostCqe(r, res)
       PROVE  SqInv' /\ CqInv' /\ UserInv'
  <2>1. UNCHANGED <<open, sqPoll, sqVars, userVars>> /\ inflight' \subseteq Reqs
    BY <1>0, <1>16 DEF PostCqe
  <2>2. SqInv' /\ CqInv'
    BY <1>0, <1>16, <2>1, SqUnchanged, PostCqeKeepsCq
  <2> QED
    BY <1>0, <2>1, <2>2 DEF UserInv, sqVars, userVars
<1>17. ASSUME NEW r \in Reqs, Cancelled(r)
       PROVE  SqInv' /\ CqInv' /\ UserInv'
  <2>1. UNCHANGED <<open, sqPoll, sqVars, cqVars, userVars>> /\ inflight' \subseteq Reqs
    BY <1>0, <1>17 DEF Cancelled
  <2>2. SqInv' /\ CqInv'
    BY <1>0, <2>1, SqUnchanged, CqUnchanged DEF userVars
  <2> QED
    BY <1>0, <2>1, <2>2 DEF UserInv, sqVars, userVars
<1> QED
  BY <1>1, <1>2, <1>3, <1>4, <1>5, <1>6, <1>7, <1>8, <1>9, <1>10, <1>11, <1>12,
     <1>13, <1>14, <1>15, <1>16, <1>17 DEF Next

-----------------------------------------------------------------------------
(* 4. What holds in every reachable state and of every step. *)

(* RingInv holds throughout: it is inductive. *)
THEOREM RingInvariant == Spec => []RingInv
<1>1. Init => RingInv
  BY RingInvInit
<1>2. RingInv /\ [Next]_vars => RingInv'
  BY RingInvStep
<1> QED
  BY <1>1, <1>2, PTL DEF Spec

(* Type correctness, for every ring and every counter width. *)
THEOREM TypeCorrect == Spec => []TypeOK
<1>1. RingInv => TypeOK
  BY DEF RingInv
<1> QED
  BY <1>1, RingInvariant, PTL

(* space_left() never underflows, the kernel never reads an entry that was  *)
(* not handed out and never posts over a CQE not marked as seen.            *)
THEOREM StaysWithinRings == Spec => []WithinRings
<1>1. RingInv => WithinRings
  BY DEF RingInv
<1> QED
  BY <1>1, RingInvariant, PTL

(* As many get_sqe calls succeed as space_left() promised, also while the   *)
(* SQPOLL thread runs: the kernel only ever makes room.                     *)
THEOREM SpaceStays == Spec => []SpaceIsKept
<1>1. RingInv => SpaceIsKept
  <2> SUFFICES ASSUME RingInv, space > 0 PROVE HasSqe
    BY DEF SpaceIsKept
  <2>1. /\ sqHead \in Counter /\ sqeTail \in Counter /\ ToSubmit \in Nat
        /\ space \in Nat /\ space <= SqEntries - ToSubmit /\ 1 \in 0 .. CounterMod
        /\ SqEntries \in Nat
    BY Distances, RingAssumption DEF RingInv, TypeOK, SpaceLeft
  <2>2. WrapSub(WrapAdd(sqeTail, 1), sqHead) = ToSubmit + 1
    BY <2>1, GrowFront, RingAssumption DEF ToSubmit
  <2> QED
    BY <2>1, <2>2 DEF HasSqe
<1> QED
  BY <1>1, RingInvariant, PTL

(* The slot prepare() writes to is not one the SQPOLL thread may read:      *)
(* entries less than a ring apart are in different slots, and the entry     *)
(* being prepared lies after every published one.                           *)
THEOREM DraftStaysPrivate == Spec => []DraftIsPrivate
<1>1. RingInv => DraftIsPrivate
  <2> SUFFICES ASSUME RingInv, sqe # NoSlot,
                      NEW i \in 0 .. WrapSub(sqTail, sqHead) - 1
               PROVE  SqSlot(WrapAdd(sqHead, i)) # sqe
    BY DEF DraftIsPrivate
  <2>1. /\ sqHead \in Counter /\ ToSubmit \in Nat /\ WrapSub(sqTail, sqHead) \in Nat
        /\ WrapSub(sqTail, sqHead) < ToSubmit /\ ToSubmit <= SqEntries
        /\ sqe = SqSlot(WrapAdd(sqHead, ToSubmit - 1))
    BY Distances DEF RingInv, WithinRings, DraftIsLast
  <2>2. /\ i \in Nat /\ ToSubmit - 1 \in Nat /\ i < ToSubmit - 1 /\ ToSubmit - 1 < SqEntries
        /\ SqEntries \in Nat \ {0} /\ SqEntries < CounterMod
    BY <2>1, RingAssumption
  <2> QED
    BY <2>1, <2>2, SlotsApart, RingAssumption DEF SqSlot
<1> QED
  BY <1>1, RingInvariant, PTL

-----------------------------------------------------------------------------
(* 5. What can be read stays as it is: the slots that are written are not   *)
(* those that hold a completion.                                            *)

(* A division with remainder has one remainder. *)
LEMMA Remainder ==
  ASSUME NEW E \in Nat \ {0}, NEW r \in 0 .. E - 1, NEW q \in Nat, NEW a \in Nat,
         a = E * q + r
  PROVE  a % E = r
<1> DEFINE p == a \div E
           t == a % E
<1>1. a = E * p + t /\ p \in Nat /\ t \in 0 .. E - 1
  BY DivMod
<1> HIDE DEF p, t
<1> DEFINE d == p - q
<1>2. E * d = r - t /\ d \in Int
  BY <1>1
<1> HIDE DEF d
<1>3. E * d < E /\ E * d > -E
  BY <1>1, <1>2
<1>4. d = 0
  BY <1>2, <1>3
<1>5. t = r
  BY <1>1, <1>2, <1>4
<1> QED
  BY <1>5 DEF t

(* Every slot is selected by a counter, at a distance below the ring's size, *)
(* after any counter: the one FlushOverflow computes.                       *)
LEMMA SlotsReached ==
  ASSUME NEW E \in Nat \ {0}, CounterMod % E = 0, E < CounterMod,
         NEW c \in Counter, NEW s \in 0 .. E - 1
  PROVE  LET m == WrapSub(s, c % E) % E
         IN  m \in 0 .. E - 1 /\ WrapAdd(c, m) % E = s
<1> DEFINE t == c % E
           q == c \div E
           k == CounterMod \div E
           d == WrapSub(s, t)
           m == d % E
<1>1. c = E * q + t /\ q \in Nat /\ t \in 0 .. E - 1
  BY DivMod DEF Counter
<1>2. CounterMod = E * k /\ k \in Nat
  <2>1. CounterMod = E * k + (CounterMod % E) /\ k \in Nat
    BY DivMod, RingAssumption
  <2> QED
    BY <2>1
<1>3. s \in Counter /\ t \in Counter
  BY <1>1, RingAssumption DEF Counter
<1>4. d = IF s >= t THEN s - t ELSE s - t + CounterMod
  BY <1>3, SubCases
<1>5. d \in Nat
  BY <1>3, SubClosed DEF Counter
<1> HIDE DEF t, q, k, d
<1>6. k > 0
  BY <1>2, RingAssumption
<1>7. m = IF s >= t THEN s - t ELSE s - t + E
  <2>1. CASE s >= t
    <3>1. d = E * 0 + (s - t) /\ s - t \in 0 .. E - 1
      BY <1>1, <1>4, <2>1
    <3> QED
      BY <3>1, <2>1, <1>5, Remainder
  <2>2. CASE s < t
    <3> DEFINE j == k - 1
               r == s - t + E
    <3>1. r \in 0 .. E - 1 /\ j \in Nat
      BY <1>1, <1>2, <1>6, <2>2
    <3>2. d = E * j + r
      BY <1>1, <1>2, <1>4, <2>2
    <3> HIDE DEF j, r
    <3>3. m = r
      BY <3>1, <3>2, <1>5, Remainder
    <3> QED
      BY <3>3, <2>2, <1>1 DEF r
  <2> QED
    BY <2>1, <2>2, <1>1
<1> HIDE DEF m
<1>8. m \in 0 .. E - 1 /\ m \in 0 .. CounterMod
  BY <1>1, <1>7, RingAssumption
<1>9. WrapAdd(c, m) = IF c + m < CounterMod THEN c + m ELSE c + m - CounterMod
  BY <1>8, AddCases
<1> DEFINE u == IF s >= t THEN 0 ELSE 1
<1>10. c + m = E * (q + u) + s /\ u \in 0 .. 1
  <2>1. CASE s >= t
    BY <2>1, <1>1, <1>7
  <2>2. CASE s < t
    BY <2>2, <1>1, <1>7
  <2> QED
    BY <2>1, <2>2, <1>1
<1> HIDE DEF u
<1>11. WrapAdd(c, m) % E = s
  <2>1. CASE c + m < CounterMod
    <3>1. q + u \in Nat /\ c + m \in Nat
      BY <1>1, <1>8, <1>10 DEF Counter
    <3> QED
      BY <2>1, <3>1, <1>9, <1>10, Remainder
  <2>2. CASE c + m >= CounterMod
    <3> DEFINE n == q + u - k
    <3>1. c + m - CounterMod = E * n + s /\ n \in Int /\ c + m - CounterMod \in Nat
      BY <2>2, <1>1, <1>2, <1>8, <1>10 DEF Counter
    <3> HIDE DEF n
    <3>2. E * n > -E
      BY <3>1
    <3>3. n > -1
      BY <3>1, <3>2
    <3>4. n \in Nat
      BY <3>1, <3>3
    <3> DEFINE w == c + m - CounterMod
    <3>5. WrapAdd(c, m) = w
      BY <2>2, <1>9, <1>8, RingAssumption DEF Counter
    <3>6. w \in Nat /\ w = E * n + s
      BY <3>1
    <3> HIDE DEF w
    <3>7. w % E = s
      BY <3>4, <3>6, Remainder
    <3> QED
      BY <3>5, <3>7
  <2> QED
    BY <2>1, <2>2, <1>8, RingAssumption DEF Counter
<1> QED
  BY <1>8, <1>11 DEF m, d, t

(* A slot behind the newest CQE, within the room that is left, is none of   *)
(* those that hold one.                                                     *)
LEMMA RoomIsFree ==
  ASSUME CqTyped, NEW m \in 0 .. CqEntries - CqReady - 1, NEW i \in 0 .. CqReady - 1
  PROVE  CqSlot(WrapAdd(cqTail, m)) # CqSlot(WrapAdd(cqHead, i))
<1> DEFINE n == CqReady + m
<1>1. /\ cqHead \in Counter /\ cqTail \in Counter /\ CqReady \in Nat
      /\ CqEntries \in Nat \ {0} /\ CqEntries < CounterMod /\ CounterMod \in Nat
  BY SubClosed, RingAssumption DEF CqTyped, CqReady, Counter
<1>2. m \in Nat /\ n \in Nat /\ i \in Nat /\ i < n /\ n < CqEntries
  BY <1>1
<1>3. WrapAdd(cqTail, m) = WrapAdd(cqHead, n)
  <2>1. WrapAdd(cqHead, CqReady) = cqTail
    BY <1>1, BackToFront DEF CqReady
  <2> QED
    BY <1>1, <1>2, <2>1, AddTwice
<1> HIDE DEF n
<1> QED
  BY <1>1, <1>2, <1>3, SlotsApart, RingAssumption DEF CqSlot

(* A refill of the ring writes none of the slots that can be read. *)
LEMMA FlushLeavesReadable ==
  ASSUME CqTyped, FlushOverflow, NEW i \in 0 .. CqReady - 1
  PROVE  cqes'[CqSlot(WrapAdd(cqHead, i))] = cqes[CqSlot(WrapAdd(cqHead, i))]
<1> DEFINE s == CqSlot(WrapAdd(cqHead, i))
           room  == CqEntries - CqReady
           moved == IF Len(overflow) < room THEN Len(overflow) ELSE room
           From == WrapSub(s, CqSlot(cqTail)) % CqEntries
<1>1. /\ cqHead \in Counter /\ cqTail \in Counter /\ CqReady \in Nat
      /\ CqEntries \in Nat \ {0} /\ CqEntries < CounterMod /\ CounterMod \in Nat
      /\ CqReady <= CqEntries /\ Len(overflow) \in Nat
  BY SubClosed, RingAssumption DEF CqTyped, CqReady, Counter
<1>2. s \in 0 .. CqEntries - 1
  <2>1. i \in 0 .. CounterMod
    BY <1>1
  <2> QED
    BY <1>1, <2>1, AddClosed, SlotsInRange
<1>3. cqes'[s] = IF From < moved THEN overflow[From + 1] ELSE cqes[s]
  BY <1>2 DEF FlushOverflow, CqTyped
<1>4. moved <= room
  BY <1>1
<1> HIDE DEF s, moved
<1>5. From \in 0 .. CqEntries - 1 /\ CqSlot(WrapAdd(cqTail, From)) = s
  BY <1>1, <1>2, SlotsReached, RingAssumption DEF CqSlot
<1> HIDE DEF From
<1>6. ~(From < room)
  <2> SUFFICES ASSUME From < room PROVE FALSE
    OBVIOUS
  <2>1. From \in 0 .. CqEntries - CqReady - 1
    BY <1>1, <1>5
  <2> QED
    BY <2>1, <1>5, RoomIsFree DEF s
<1>7. ~(From < moved)
  BY <1>1, <1>4, <1>5, <1>6 DEF moved
<1> QED
  BY <1>3, <1>7 DEF s

(* Neither does a completion that is posted. *)
LEMMA PostLeavesReadable ==
  ASSUME CqTyped, NEW r \in Reqs, NEW res \in Results, PostCqe(r, res),
         NEW i \in 0 .. CqReady - 1
  PROVE  cqes'[CqSlot(WrapAdd(cqHead, i))] = cqes[CqSlot(WrapAdd(cqHead, i))]
<1>1. CqReady \in Nat /\ CqEntries \in Nat /\ cqTail \in Counter
  BY SubClosed, RingAssumption DEF CqTyped, CqReady, Counter
<1>2. WrapAdd(cqTail, 0) = cqTail
  BY <1>1, AddCases, RingAssumption DEF Counter
<1>3. CqReady < CqEntries => CqSlot(cqTail) # CqSlot(WrapAdd(cqHead, i))
  BY <1>1, <1>2, RoomIsFree
<1>4. CqSlot(WrapAdd(cqHead, i)) \in DOMAIN cqes
  <2>1. cqHead \in Counter /\ i \in 0 .. CounterMod
    BY <1>1, RingAssumption DEF CqTyped
  <2> QED
    BY <2>1, AddClosed, SlotsInRange DEF CqTyped
<1> QED
  BY <1>3, <1>4 DEF PostCqe

(* What can be read stays as it is in every step that the caller or the     *)
(* kernel can take.                                                         *)
LEMMA StepKeepsReadable == RingInv /\ [Next]_vars => ReadableStays
<1> SUFFICES ASSUME RingInv, [Next]_vars PROVE ReadableStays
  OBVIOUS
<1>1. CqTyped /\ CqInv
  BY Parts DEF CqInv
<1>2. CASE DropRing
  BY <1>2 DEF DropRing, Idle, ReadableStays
<1>3. CASE cqes' = cqes
  BY <1>3 DEF ReadableStays
<1>4. ASSUME \A i \in 0 .. CqReady - 1 :
               cqes'[CqSlot(WrapAdd(cqHead, i))] = cqes[CqSlot(WrapAdd(cqHead, i))]
      PROVE  ReadableStays
  <2>1. ASSUME cqe # NoSlot PROVE cqes'[cqe] = cqes[cqe]
    <3>1. CqReady > 0 /\ cqe = CqSlot(cqHead)
      BY <1>1, <2>1 DEF CqInv
    <3>2. WrapAdd(cqHead, 0) = cqHead /\ 0 \in 0 .. CqReady - 1
      <4>1. cqHead \in Counter /\ CqReady \in Nat
        BY <1>1, SubClosed DEF CqTyped, CqReady, Counter
      <4>2. WrapAdd(cqHead, 0) = cqHead
        BY <4>1, AddCases, RingAssumption DEF Counter
      <4> QED
        BY <3>1, <4>1, <4>2
    <3> QED
      BY <1>4, <3>1, <3>2
  <2> QED
    BY <1>4, <2>1 DEF ReadableStays
<1>5. CASE FlushOverflow
  BY <1>1, <1>4, <1>5, FlushLeavesReadable
<1>6. CASE \E r \in Reqs, res \in Results : PostCqe(r, res)
  BY <1>1, <1>4, <1>6, PostLeavesReadable
<1>7. ASSUME NEW k, Enter(k) PROVE ReadableStays
  BY <1>3, <1>5, <1>7 DEF Enter, cqVars
<1>8. CASE Submit \/ \E n \in 1 .. CqEntries : SubmitAndWait(n)
  BY <1>7, <1>8 DEF Submit, SubmitAndWait
<1>9. CASE WaitCqe \/ PeekCqe \/ PeekBatch
  BY <1>3, <1>5, <1>9 DEF WaitCqe, PeekCqe, PeekBatch, cqVars
<1>10. CASE \/ WithFlags \/ GetSqe \/ GetSqeFull \/ AskSpace
            \/ \E r \in Reqs : Prepare(r) \/ Cancelled(r)
            \/ SubmitAndWaitReturns \/ WaitCqeReturns \/ Interrupted
            \/ DropCqe \/ SqThread \/ UNCHANGED vars
  <2>1. cqes' = cqes
    BY <1>10 DEF WithFlags, GetSqe, GetSqeFull, AskSpace, Prepare, Cancelled,
      SubmitAndWaitReturns, WaitCqeReturns, Interrupted, DropCqe, SqThread, vars, cqVars
  <2> QED
    BY <1>3, <2>1
<1> QED
  BY <1>2, <1>6, <1>8, <1>9, <1>10 DEF Next

(* A Cqe, and every pointer that peek_batch returned, can be read until it  *)
(* is given back, on every ring.                                            *)
THEOREM CqesStayReadable == Spec => CqeStable
<1>1. RingInv /\ [Next]_vars => ReadableStays
  BY StepKeepsReadable
<1> QED
  BY <1>1, RingInvariant, PTL DEF Spec, CqeStable
-----------------------------------------------------------------------------
(* 6. Module Ring implements RingQueues: the windows are sequences. *)

Done    == CqWindow \o overflow
Pending == IF open THEN inflight ELSE {}
CqEntry == [req : Reqs \cup {NoReq}, res : Results \cup {0}]

(* The entries that wait to be submitted: requests, oldest first. *)
SqWindowTyped ==
  /\ SqWindow \in Seq(Reqs) /\ Len(SqWindow) = Queued
  /\ Queued \in Nat /\ Queued <= ToSubmit /\ Queued < CounterMod
  /\ \A i \in 1 .. Queued : SqWindow[i] = sqes[SqSlot(WrapAdd(sqHead, i - 1))]

(* The entries from the head to the one being prepared are a sequence.      *)
LEMMA SqWindowIsSeq == RingInv => SqWindowTyped
<1> SUFFICES ASSUME RingInv PROVE SqWindowTyped
  OBVIOUS
<1>1. Queued \in Nat /\ Queued <= ToSubmit /\ Queued < CounterMod
  <2>1. /\ ToSubmit \in Nat /\ ToSubmit <= SqEntries /\ WrapSub(sqTail, sqHead) \in Nat
        /\ sqe # NoSlot => WrapSub(sqTail, sqHead) < ToSubmit
    BY Distances DEF RingInv, WithinRings, DraftIsLast
  <2> QED
    BY <2>1, RingAssumption DEF Queued
<1>2. ASSUME NEW i \in 1 .. Queued
      PROVE  sqes[SqSlot(WrapAdd(sqHead, i - 1))] \in Reqs
  <2>1. i - 1 \in 0 .. Queued - 1
    BY <1>1
  <2> QED
    BY <2>1 DEF RingInv, WindowPrepared
<1>3. SqWindow \in [1 .. Queued -> Reqs]
  BY <1>2 DEF SqWindow
<1>4. SqWindow \in Seq(Reqs) /\ Len(SqWindow) = Queued
  BY <1>1, <1>3, FunctionIsSeq
<1> QED
  BY <1>1, <1>4 DEF SqWindow, SqWindowTyped

(* The completions that can be read, oldest first. *)
CqWindowTyped ==
  /\ CqWindow \in Seq(CqEntry) /\ Len(CqWindow) = CqReady
  /\ CqReady \in Nat /\ CqReady < CounterMod
  /\ \A i \in 1 .. CqReady : CqWindow[i] = cqes[CqSlot(WrapAdd(cqHead, i - 1))]

(* So are the CQEs from the head to the tail, ...                           *)
LEMMA CqWindowIsSeq == CqTyped => CqWindowTyped
<1> SUFFICES ASSUME CqTyped PROVE CqWindowTyped
  OBVIOUS
<1>1. CqReady \in Nat /\ CqReady < CounterMod /\ cqHead \in Counter
  <2>1. cqHead \in Counter /\ cqTail \in Counter
    BY DEF CqTyped
  <2>2. CqReady \in Counter
    BY <2>1, SubClosed DEF CqReady
  <2> QED
    BY <2>1, <2>2, RingAssumption DEF Counter
<1>2. ASSUME NEW i \in 1 .. CqReady
      PROVE  cqes[CqSlot(WrapAdd(cqHead, i - 1))] \in CqEntry
  <2> DEFINE s == CqSlot(WrapAdd(cqHead, i - 1))
  <2>1. i - 1 \in 0 .. CounterMod
    BY <1>1, RingAssumption
  <2>2. s \in 0 .. CqEntries - 1
    BY <1>1, <2>1, AddClosed, SlotsInRange
  <2>3. cqes \in [0 .. CqEntries - 1 -> CqEntry]
    BY DEF CqTyped, CqEntry
  <2> HIDE DEF s
  <2>4. cqes[s] \in CqEntry
    BY <2>2, <2>3
  <2> QED
    BY <2>4 DEF s
<1>3. CqWindow \in [1 .. CqReady -> CqEntry]
  BY <1>2 DEF CqWindow
<1>4. CqWindow \in Seq(CqEntry) /\ Len(CqWindow) = CqReady
  BY <1>1, <1>3, FunctionIsSeq
<1> QED
  BY <1>1, <1>4 DEF CqWindow, CqWindowTyped

(* With what the kernel holds back: everything completed and not reaped. *)
DoneTyped ==
  /\ overflow \in Seq(CqEntry) /\ Len(overflow) \in Nat
  /\ Done \in Seq(CqEntry) /\ Len(Done) = CqReady + Len(overflow)
  /\ \A i \in 1 .. CqReady + Len(overflow) :
       Done[i] = IF i <= CqReady THEN CqWindow[i] ELSE overflow[i - CqReady]

(* ... and these followed by the completions the kernel holds back.         *)
LEMMA DoneIsSeq == CqTyped => DoneTyped
<1> SUFFICES ASSUME CqTyped PROVE DoneTyped
  OBVIOUS
<1>1. overflow \in Seq(CqEntry)
  <2>1. [req : Reqs, res : Results] \subseteq CqEntry
    BY DEF CqEntry
  <2> QED
    BY <2>1, SeqMonotonic DEF CqTyped
<1>2. Len(overflow) \in Nat
  BY <1>1, LenProperties
<1>3. CqWindow \in Seq(CqEntry) /\ Len(CqWindow) = CqReady
  BY CqWindowIsSeq DEF CqWindowTyped
<1> QED
  BY <1>1, <1>2, <1>3, ConcatProperties DEF Done, DoneTyped
-----------------------------------------------------------------------------
(* 7. What the actions do to the windows. *)

(* A sequence is determined by its elements; here, one that grew by one.    *)
LEMMA IsAppend ==
  ASSUME NEW S, NEW q \in Seq(S), NEW p \in Seq(S), NEW x \in S,
         Len(p) = Len(q) + 1, p[Len(q) + 1] = x,
         \A i \in 1 .. Len(q) : p[i] = q[i]
  PROVE  p = Append(q, x)
<1> DEFINE t == Append(q, x)
<1>1. /\ t \in Seq(S) /\ Len(t) = Len(q) + 1 /\ t[Len(q) + 1] = x
      /\ \A i \in 1 .. Len(q) : t[i] = q[i]
  BY AppendRange
<1>2. Len(q) \in Nat
  BY LenProperties
<1> HIDE DEF t
<1>3. \A i \in 1 .. Len(p) : p[i] = t[i]
  BY <1>1, <1>2
<1>4. p = t
  BY <1>1, <1>3, SeqEqual
<1> QED
  BY <1>4 DEF t

(* get_sqe hands out an entry behind the window. *)
LEMMA GetSqeWindow ==
  ASSUME RingInv, RingInv', GetSqe
  PROVE  SqWindow' = SqWindow
<1>1. sqHead' = sqHead /\ sqes' = sqes /\ sqe = NoSlot /\ sqe' # NoSlot
  <2>1. sqe' = SqSlot(sqeTail) /\ sqe = NoSlot /\ sqHead' = sqHead /\ sqes' = sqes
    BY DEF GetSqe, NextSqe, Free, Idle
  <2>2. sqe' \in 0 .. SqEntries - 1
    BY <2>1, SlotsInRange DEF RingInv, TypeOK
  <2> QED
    BY <2>1, <2>2, RingAssumption DEF NoSlot
<1>2. Queued' = Queued
  <2>1. ToSubmit' = ToSubmit + 1 /\ ToSubmit \in Nat
    <3>1. /\ sqHead \in Counter /\ sqeTail \in Counter /\ ToSubmit \in Nat
          /\ ToSubmit <= SqEntries /\ ToSubmit + 1 < CounterMod /\ 1 \in 0 .. CounterMod
      BY Distances, RingAssumption DEF RingInv, WithinRings
    <3>2. WrapSub(WrapAdd(sqeTail, 1), sqHead) = ToSubmit + 1
      BY <3>1, GrowFront DEF ToSubmit
    <3>3. sqeTail' = WrapAdd(sqeTail, 1)
      BY DEF GetSqe
    <3> QED
      BY <1>1, <3>1, <3>2, <3>3 DEF ToSubmit
  <2> QED
    BY <1>1, <2>1 DEF Queued
<1> QED
  BY <1>1, <1>2 DEF SqWindow, SqSlot

(* prepare() puts its request at the end of the window and touches no other *)
(* entry of it.                                                             *)
LEMMA PrepareWindow ==
  ASSUME RingInv, RingInv', NEW r \in Reqs, Prepare(r)
  PROVE  SqWindow' = Append(SqWindow, r) /\ Len(SqWindow) < SqEntries
<1>1. /\ sqe # NoSlot /\ sqe' = NoSlot /\ sqes' = [sqes EXCEPT ![sqe] = r]
      /\ UNCHANGED <<sqHead, sqeTail>>
  BY DEF Prepare
<1>2. /\ sqHead \in Counter /\ ToSubmit \in Nat /\ ToSubmit <= SqEntries
      /\ sqe \in DOMAIN sqes /\ sqe = SqSlot(WrapAdd(sqHead, ToSubmit - 1))
  BY <1>1, Distances DEF RingInv, TypeOK, WithinRings, DraftIsLast, NoSlot
<1>3. Queued = ToSubmit - 1 /\ Queued' = ToSubmit
  BY <1>1 DEF Queued, ToSubmit
<1>4. /\ SqWindow \in Seq(Reqs) /\ Len(SqWindow) = Queued /\ Queued \in Nat
      /\ \A i \in 1 .. Queued : SqWindow[i] = sqes[SqSlot(WrapAdd(sqHead, i - 1))]
  BY SqWindowIsSeq DEF SqWindowTyped
<1>5. /\ SqWindow' \in Seq(Reqs) /\ Len(SqWindow') = Queued'
      /\ \A i \in 1 .. Queued' : SqWindow'[i] = sqes'[SqSlot(WrapAdd(sqHead, i - 1))]
  <2>1. SqWindowTyped'
    BY SqWindowIsSeq, PTL
  <2> QED
    BY <2>1, <1>1 DEF SqWindowTyped, SqSlot
<1>6. SqWindow'[Queued + 1] = r
  BY <1>1, <1>2, <1>3, <1>4, <1>5
<1>7. ASSUME NEW i \in 1 .. Queued PROVE SqWindow'[i] = SqWindow[i]
  <2>1. /\ i - 1 \in Nat /\ Queued \in Nat /\ i - 1 < Queued /\ Queued < SqEntries
        /\ SqEntries \in Nat \ {0} /\ SqEntries < CounterMod
    BY <1>2, <1>3, <1>4, RingAssumption
  <2>2. SqSlot(WrapAdd(sqHead, i - 1)) # sqe
    BY <1>2, <1>3, <2>1, SlotsApart, RingAssumption DEF SqSlot
  <2>3. i \in 1 .. Queued'
    BY <1>2, <1>3, <1>4
  <2>4. SqSlot(WrapAdd(sqHead, i - 1)) \in DOMAIN sqes
    <3>1. i - 1 \in 0 .. CounterMod
      BY <2>1, RingAssumption
    <3> QED
      BY <1>2, <3>1, AddClosed, SlotsInRange DEF RingInv, TypeOK
  <2> QED
    BY <1>1, <1>4, <1>5, <2>2, <2>3, <2>4
<1>8. SqWindow' = Append(SqWindow, r)
  BY <1>3, <1>4, <1>5, <1>6, <1>7, IsAppend
<1> QED
  BY <1>2, <1>3, <1>4, <1>8, RingAssumption

(* The kernel takes the k oldest entries of the window. *)
LEMMA ConsumeWindow ==
  ASSUME RingInv, RingInv', NEW k \in 0 .. Queued, Consume(k),
         k <= WrapSub(sqTail', sqHead),
         sqTail' \in {sqTail, sqeTail}, UNCHANGED <<sqeTail, sqes, sqe>>
  PROVE  /\ k <= Len(SqWindow)
         /\ SqWindow' = SubSeq(SqWindow, k + 1, Len(SqWindow))
         /\ inflight' = inflight \cup {SqWindow[i] : i \in 1 .. k}
<1>1. /\ ToSubmit' = ToSubmit - k /\ ToSubmit \in Nat
      /\ \A i \in 0 .. ToSubmit - k : WrapAdd(sqHead', i) = WrapAdd(sqHead, k + i)
  BY ConsumePrepared, Distances DEF RingInv
<1>2. /\ SqWindow \in Seq(Reqs) /\ Len(SqWindow) = Queued
      /\ Queued \in Nat /\ Queued <= ToSubmit
      /\ \A i \in 1 .. Queued : SqWindow[i] = sqes[SqSlot(WrapAdd(sqHead, i - 1))]
  BY SqWindowIsSeq DEF SqWindowTyped
<1>3. /\ SqWindow' \in Seq(Reqs) /\ Len(SqWindow') = Queued'
      /\ \A i \in 1 .. Queued' : SqWindow'[i] = sqes[SqSlot(WrapAdd(sqHead', i - 1))]
  <2>1. SqWindowTyped'
    BY SqWindowIsSeq, PTL
  <2> QED
    BY <2>1 DEF SqWindowTyped, SqSlot
<1>4. Queued' = Queued - k /\ k \in Nat /\ k <= Queued
  BY <1>1, <1>2 DEF Queued
<1>5. ASSUME NEW i \in 1 .. Queued - k PROVE SqWindow'[i] = SqWindow[k + i]
  <2>1. i - 1 \in 0 .. ToSubmit - k /\ k + i \in 1 .. Queued /\ k + (i - 1) = (k + i) - 1
    BY <1>1, <1>2, <1>4
  <2>2. WrapAdd(sqHead', i - 1) = WrapAdd(sqHead, (k + i) - 1)
    BY <1>1, <2>1
  <2>3. SqWindow'[i] = sqes[SqSlot(WrapAdd(sqHead', i - 1))]
    BY <1>3, <1>4
  <2> QED
    BY <1>2, <2>1, <2>2, <2>3
<1>6. SqWindow' = SubSeq(SqWindow, k + 1, Len(SqWindow))
  <2> DEFINE t == SubSeq(SqWindow, k + 1, Len(SqWindow))
  <2>1. \A i \in k + 1 .. Len(SqWindow) : SqWindow[i] \in Reqs
    BY <1>2, <1>4, ElementOfSeq
  <2>2. /\ t \in Seq(Reqs)
        /\ Len(t) = IF k + 1 <= Queued THEN Queued - (k + 1) + 1 ELSE 0
        /\ \A i \in 1 .. Queued - (k + 1) + 1 : t[i] = SqWindow[(k + 1) + i - 1]
    BY <1>2, <1>4, <2>1, SubSeqProperties
  <2> HIDE DEF t
  <2>3. Len(t) = Queued - k /\ Queued - (k + 1) + 1 = Queued - k
    BY <1>2, <1>4, <2>2
  <2>4. \A i \in 1 .. Queued - k : t[i] = SqWindow[k + i]
    <3>1. \A i \in 1 .. Queued - k : (k + 1) + i - 1 = k + i
      BY <1>4
    <3> QED
      BY <2>2, <2>3, <3>1
  <2>5. SqWindow' = t
    BY <1>3, <1>4, <1>5, <2>2, <2>3, <2>4, SeqEqual
  <2> QED
    BY <2>5 DEF t
<1>7. inflight' = inflight \cup {SqWindow[i] : i \in 1 .. k}
  <2> DEFINE slot(i) == sqes[SqSlot(WrapAdd(sqHead, i))]
  <2>1. inflight' = inflight \cup {slot(i) : i \in 0 .. k - 1}
    BY DEF Consume
  <2>2. \A i \in 1 .. k : SqWindow[i] = slot(i - 1)
    BY <1>2, <1>4
  <2> HIDE DEF slot
  <2>3. \A i \in 0 .. k - 1 : i + 1 \in 1 .. k /\ (i + 1) - 1 = i
    BY <1>4
  <2>4. \A i \in 1 .. k : i - 1 \in 0 .. k - 1
    BY <1>4
  <2>5. {slot(i) : i \in 0 .. k - 1} = {SqWindow[i] : i \in 1 .. k}
    <3>1. ASSUME NEW i \in 0 .. k - 1 PROVE \E j \in 1 .. k : slot(i) = SqWindow[j]
      <4>1. SqWindow[i + 1] = slot((i + 1) - 1)
        BY <2>2, <2>3
      <4> QED
        BY <2>3, <4>1
    <3>2. ASSUME NEW j \in 1 .. k PROVE \E i \in 0 .. k - 1 : SqWindow[j] = slot(i)
      BY <2>2, <2>4
    <3> QED
      BY <3>1, <3>2
  <2> QED
    BY <2>1, <2>5
<1> QED
  BY <1>2, <1>4, <1>6, <1>7

(* A completion that is moved from the overflow list to the ring keeps its  *)
(* place in the order.                                                      *)
LEMMA FlushDone ==
  ASSUME CqTyped, CqTyped', FlushOverflow
  PROVE  Done' = Done
<1> DEFINE room  == CqEntries - CqReady
           moved == IF Len(overflow) < room THEN Len(overflow) ELSE room
           From(s) == WrapSub(s, CqSlot(cqTail)) % CqEntries
<1>1. /\ CqReady \in Nat /\ Len(overflow) \in Nat /\ CqEntries \in Nat \ {0}
      /\ cqHead \in Counter /\ cqTail \in Counter
      /\ CqReady <= CqEntries /\ CqEntries < CounterMod /\ CounterMod \in Nat
  BY CqWindowIsSeq, DoneIsSeq, RingAssumption DEF CqTyped, CqWindowTyped, DoneTyped
<1>2. moved \in 0 .. room /\ moved <= Len(overflow) /\ room \in 0 .. CqEntries
  BY <1>1
<1>3. /\ cqes' = [s \in DOMAIN cqes |->
                    IF From(s) < moved THEN overflow[From(s) + 1] ELSE cqes[s]]
      /\ cqTail' = WrapAdd(cqTail, moved)
      /\ overflow' = SubSeq(overflow, moved + 1, Len(overflow))
      /\ cqHead' = cqHead
  BY DEF FlushOverflow
<1> HIDE DEF moved, From
<1>4. CqReady' = CqReady + moved
  <2>1. moved \in 0 .. CounterMod /\ CqReady + moved < CounterMod
    BY <1>1, <1>2
  <2>2. WrapSub(WrapAdd(cqTail, moved), cqHead) = WrapSub(cqTail, cqHead) + moved
    BY <1>1, <2>1, GrowFront DEF CqReady
  <2> QED
    BY <1>3, <2>2 DEF CqReady
<1>5. /\ Len(overflow') = Len(overflow) - moved
      /\ \A i \in 1 .. Len(overflow) - moved : overflow'[i] = overflow[moved + i]
  <2> DEFINE n == Len(overflow)
  <2>1. \A i \in moved + 1 .. n : overflow[i] \in CqEntry
    <3>1. overflow \in Seq(CqEntry)
      BY DoneIsSeq DEF DoneTyped
    <3>2. \A i \in moved + 1 .. n : i \in 1 .. n
      BY <1>1, <1>2
    <3> QED
      BY <3>1, <3>2, ElementOfSeq
  <2>2. /\ Len(overflow') = IF moved + 1 <= n THEN n - (moved + 1) + 1 ELSE 0
        /\ \A i \in 1 .. n - (moved + 1) + 1 : overflow'[i] = overflow[(moved + 1) + i - 1]
    BY <1>1, <1>2, <1>3, <2>1, SubSeqProperties
  <2>3. n \in Nat /\ moved \in Nat /\ moved <= n
    BY <1>1, <1>2
  <2> HIDE DEF n
  <2>4. Len(overflow') = n - moved /\ n - (moved + 1) + 1 = n - moved
    BY <2>2, <2>3
  <2>5. \A i \in 1 .. n - moved : (moved + 1) + i - 1 = moved + i
    BY <2>3
  <2> QED
    BY <2>2, <2>4, <2>5 DEF n
<1>6. /\ Done \in Seq(CqEntry) /\ Len(Done) = CqReady + Len(overflow)
      /\ \A i \in 1 .. CqReady + Len(overflow) :
           Done[i] = IF i <= CqReady THEN CqWindow[i] ELSE overflow[i - CqReady]
      /\ \A i \in 1 .. CqReady : CqWindow[i] = cqes[CqSlot(WrapAdd(cqHead, i - 1))]
  BY DoneIsSeq, CqWindowIsSeq DEF DoneTyped, CqWindowTyped
<1>7. /\ Done' \in Seq(CqEntry) /\ Len(Done') = CqReady + Len(overflow)
      /\ \A i \in 1 .. CqReady + Len(overflow) :
           Done'[i] = IF i <= CqReady + moved THEN CqWindow'[i]
                      ELSE overflow'[i - (CqReady + moved)]
      /\ \A i \in 1 .. CqReady + moved :
           CqWindow'[i] = cqes'[CqSlot(WrapAdd(cqHead, i - 1))]
  <2>1. DoneTyped' /\ CqWindowTyped'
    BY DoneIsSeq, CqWindowIsSeq, PTL
  <2>2. CqReady' + Len(overflow') = CqReady + Len(overflow)
    BY <1>1, <1>2, <1>4, <1>5
  <2> QED
    BY <1>3, <1>4, <2>1, <2>2 DEF DoneTyped, CqWindowTyped, CqSlot, CqEntry
<1>8. ASSUME NEW i \in 1 .. CqReady PROVE Done'[i] = Done[i]
  <2>1. i - 1 \in 0 .. CqReady - 1 /\ i <= CqReady + moved /\ i \in 1 .. CqReady + Len(overflow)
        /\ i \in 1 .. CqReady + moved
    BY <1>1, <1>2
  <2>2. cqes'[CqSlot(WrapAdd(cqHead, i - 1))] = cqes[CqSlot(WrapAdd(cqHead, i - 1))]
    BY <2>1, FlushLeavesReadable
  <2> QED
    BY <1>6, <1>7, <2>1, <2>2
<1>9. ASSUME NEW j \in 0 .. moved - 1 PROVE Done'[CqReady + j + 1] = Done[CqReady + j + 1]
  <2> DEFINE s == CqSlot(WrapAdd(cqTail, j))
  <2>1. /\ j \in Nat /\ j < CqEntries /\ j < moved /\ j + 1 <= Len(overflow)
        /\ j \in 0 .. CounterMod /\ CqReady + j < CounterMod
    BY <1>1, <1>2
  <2>2. s = CqSlot(WrapAdd(cqHead, (CqReady + j + 1) - 1))
    <3>1. WrapAdd(cqHead, CqReady) = cqTail
      BY <1>1, BackToFront DEF CqReady
    <3>2. WrapAdd(cqTail, j) = WrapAdd(cqHead, CqReady + j)
      BY <1>1, <2>1, <3>1, AddTwice
    <3> QED
      BY <1>1, <2>1, <3>2
  <2>3. s \in 0 .. CqEntries - 1
    BY <1>1, <2>1, AddClosed, SlotsInRange
  <2>4. From(s) = j
    <3> DEFINE m == From(s)
    <3>1. m \in 0 .. CqEntries - 1 /\ CqSlot(WrapAdd(cqTail, m)) = s
      BY <1>1, <2>3, SlotsReached, RingAssumption DEF CqSlot, From
    <3> HIDE DEF m
    <3>2. m \in Nat /\ m < CqEntries
      BY <1>1, <3>1
    <3>3. ~(m < j) /\ ~(j < m)
      BY <1>1, <2>1, <3>1, <3>2, SlotsApart, RingAssumption DEF CqSlot
    <3>4. m = j
      BY <2>1, <3>2, <3>3
    <3> QED
      BY <3>4 DEF m
  <2>5. cqes'[s] = overflow[j + 1]
    BY <1>3, <2>1, <2>3, <2>4 DEF CqTyped
  <2> HIDE DEF s
  <2> DEFINE i == CqReady + j + 1
  <2>6. /\ i \in 1 .. CqReady + Len(overflow) /\ i \in 1 .. CqReady + moved
        /\ i <= CqReady + moved /\ ~(i <= CqReady) /\ i - CqReady = j + 1
    BY <1>1, <1>2, <2>1
  <2>7. s = CqSlot(WrapAdd(cqHead, i - 1))
    BY <2>2
  <2> HIDE DEF i
  <2>8. Done'[i] = cqes'[s] /\ Done[i] = overflow[j + 1]
    BY <1>6, <1>7, <2>6, <2>7
  <2>9. Done'[i] = Done[i]
    BY <2>5, <2>8
  <2> QED
    BY <2>9 DEF i
<1>10. ASSUME NEW i \in CqReady + moved + 1 .. CqReady + Len(overflow)
       PROVE  Done'[i] = Done[i]
  <2> DEFINE j == i - (CqReady + moved)
  <2>1. /\ i \in 1 .. CqReady + Len(overflow) /\ ~(i <= CqReady) /\ ~(i <= CqReady + moved)
        /\ j \in 1 .. Len(overflow) - moved /\ moved + j = i - CqReady
    BY <1>1, <1>2
  <2> HIDE DEF j
  <2>2. overflow'[j] = overflow[i - CqReady]
    BY <1>5, <2>1
  <2>3. Done'[i] = overflow'[j] /\ Done[i] = overflow[i - CqReady]
    BY <1>6, <1>7, <2>1 DEF j
  <2> QED
    BY <2>2, <2>3
<1>11. ASSUME NEW i \in 1 .. Len(Done') PROVE Done'[i] = Done[i]
  <2>1. i \in 1 .. CqReady + Len(overflow)
    BY <1>7
  <2>2. CASE i <= CqReady
    BY <1>1, <1>8, <2>1, <2>2
  <2>3. CASE i > CqReady /\ i <= CqReady + moved
    <3>1. i - CqReady - 1 \in 0 .. moved - 1 /\ CqReady + (i - CqReady - 1) + 1 = i
      BY <1>1, <1>2, <2>1, <2>3
    <3> QED
      BY <1>9, <3>1
  <2>4. CASE i > CqReady + moved
    BY <1>1, <1>2, <1>10, <2>1, <2>4
  <2> QED
    BY <1>1, <1>2, <2>1, <2>2, <2>3, <2>4
<1> QED
  BY <1>6, <1>7, <1>11, SeqEqual

(* A completion is posted at the end of the order, in the ring or behind    *)
(* those held back.                                                         *)
LEMMA PostDone ==
  ASSUME CqTyped, CqTyped', NEW r \in Reqs, NEW res \in Results, PostCqe(r, res)
  PROVE  Done' = Append(Done, [req |-> r, res |-> res])
<1> DEFINE d == [req |-> r, res |-> res]
           n == CqReady + Len(overflow)
<1>1. d \in CqEntry
  BY DEF CqEntry
<1>2. /\ CqReady \in Nat /\ Len(overflow) \in Nat /\ CqEntries \in Nat \ {0}
      /\ cqHead \in Counter /\ cqTail \in Counter
      /\ CqReady <= CqEntries /\ CqEntries < CounterMod /\ CounterMod \in Nat
  BY CqWindowIsSeq, DoneIsSeq, RingAssumption DEF CqTyped, CqWindowTyped, DoneTyped
<1>3. /\ Done \in Seq(CqEntry) /\ Len(Done) = n
      /\ \A i \in 1 .. n :
           Done[i] = IF i <= CqReady THEN CqWindow[i] ELSE overflow[i - CqReady]
      /\ \A i \in 1 .. CqReady : CqWindow[i] = cqes[CqSlot(WrapAdd(cqHead, i - 1))]
  BY DoneIsSeq, CqWindowIsSeq DEF DoneTyped, CqWindowTyped
<1>4. /\ Done' \in Seq(CqEntry) /\ Len(Done') = CqReady' + Len(overflow')
      /\ \A i \in 1 .. CqReady' + Len(overflow') :
           Done'[i] = IF i <= CqReady' THEN CqWindow'[i] ELSE overflow'[i - CqReady']
      /\ \A i \in 1 .. CqReady' : CqWindow'[i] = cqes'[CqSlot(WrapAdd(cqHead, i - 1))]
  <2>1. DoneTyped' /\ CqWindowTyped'
    BY DoneIsSeq, CqWindowIsSeq, PTL
  <2>2. cqHead' = cqHead
    BY DEF PostCqe
  <2> QED
    BY <2>1, <2>2 DEF DoneTyped, CqWindowTyped, CqSlot, CqEntry
<1> HIDE DEF d
<1>5. CASE overflow = <<>> /\ CqReady < CqEntries
  <2>1. /\ cqes' = [cqes EXCEPT ![CqSlot(cqTail)] = d]
        /\ cqTail' = WrapAdd(cqTail, 1) /\ overflow' = overflow /\ cqHead' = cqHead
    BY <1>5 DEF PostCqe, d
  <2>2. CqReady' = CqReady + 1 /\ Len(overflow) = 0 /\ n = CqReady
    <3>1. CqReady + 1 < CounterMod /\ 1 \in 0 .. CounterMod
      BY <1>2, <1>5, RingAssumption
    <3>2. WrapSub(WrapAdd(cqTail, 1), cqHead) = CqReady + 1
      BY <1>2, <3>1, GrowFront DEF CqReady
    <3> QED
      BY <1>2, <1>5, <2>1, <3>2 DEF CqReady
  <2>3. Done'[CqReady + 1] = d
    <3>1. WrapAdd(cqHead, CqReady) = cqTail
      BY <1>2, BackToFront DEF CqReady
    <3>2. Done'[CqReady + 1] = cqes'[CqSlot(WrapAdd(cqHead, (CqReady + 1) - 1))]
      <4> DEFINE i == CqReady + 1
      <4>1. /\ i \in 1 .. CqReady' + Len(overflow') /\ i \in 1 .. CqReady'
            /\ i <= CqReady'
        BY <1>2, <2>1, <2>2
      <4> HIDE DEF i
      <4>2. Done'[i] = cqes'[CqSlot(WrapAdd(cqHead, i - 1))]
        BY <1>4, <4>1
      <4> QED
        BY <4>2 DEF i
    <3>3. CqSlot(cqTail) \in DOMAIN cqes
      BY <1>2, SlotsInRange DEF CqTyped
    <3>4. (CqReady + 1) - 1 = CqReady
      BY <1>2
    <3>5. cqes'[CqSlot(cqTail)] = d
      BY <2>1, <3>3
    <3> QED
      BY <3>1, <3>2, <3>4, <3>5
  <2>4. ASSUME NEW i \in 1 .. CqReady PROVE Done'[i] = Done[i]
    <3>1. i - 1 \in 0 .. CqReady - 1 /\ i \in 1 .. CqReady + 1 /\ i <= CqReady
      BY <1>2
    <3>2. cqes'[CqSlot(WrapAdd(cqHead, i - 1))] = cqes[CqSlot(WrapAdd(cqHead, i - 1))]
      BY <3>1, PostLeavesReadable
    <3>3. /\ i \in 1 .. n /\ i \in 1 .. CqReady' + Len(overflow') /\ i \in 1 .. CqReady'
          /\ i <= CqReady'
      BY <1>2, <2>1, <2>2
    <3>4. Done[i] = cqes[CqSlot(WrapAdd(cqHead, i - 1))]
      BY <1>3, <3>1, <3>3
    <3>5. Done'[i] = cqes'[CqSlot(WrapAdd(cqHead, i - 1))]
      BY <1>4, <3>3
    <3> QED
      BY <3>2, <3>4, <3>5
  <2>5. Len(Done') = Len(Done) + 1
    BY <1>2, <1>3, <1>4, <2>1, <2>2
  <2>6. Done' = Append(Done, d)
    BY <1>1, <1>3, <1>4, <2>2, <2>3, <2>4, <2>5, IsAppend
  <2> QED
    BY <2>6 DEF d
<1>6. CASE ~(overflow = <<>> /\ CqReady < CqEntries)
  <2>1. overflow' = Append(overflow, d) /\ UNCHANGED <<cqes, cqTail, cqHead>>
    BY <1>6 DEF PostCqe, d
  <2>2. /\ Len(overflow') = Len(overflow) + 1 /\ overflow'[Len(overflow) + 1] = d
        /\ \A i \in 1 .. Len(overflow) : overflow'[i] = overflow[i]
    <3>1. overflow \in Seq(CqEntry)
      BY DoneIsSeq DEF DoneTyped
    <3> QED
      BY <1>1, <2>1, <3>1, AppendProperties
  <2>3. CqReady' = CqReady
    BY <2>1 DEF CqReady
  <2>4. Done'[n + 1] = d
    <3>1. n + 1 \in 1 .. n + 1 /\ ~(n + 1 <= CqReady) /\ (n + 1) - CqReady = Len(overflow) + 1
          /\ CqReady' + Len(overflow') = n + 1
      BY <1>2, <2>2, <2>3
    <3> QED
      BY <1>4, <2>2, <2>3, <3>1
  <2>5. ASSUME NEW i \in 1 .. n PROVE Done'[i] = Done[i]
    <3>1. i \in 1 .. CqReady' + Len(overflow')
      BY <1>2, <2>2, <2>3
    <3>2. CASE i <= CqReady
      <4>1. i \in 1 .. CqReady
        BY <1>2, <3>2
      <4> QED
        BY <1>3, <1>4, <2>1, <2>3, <3>1, <3>2, <4>1
    <3>3. CASE i > CqReady
      <4>1. i - CqReady \in 1 .. Len(overflow) /\ ~(i <= CqReady)
        BY <1>2, <3>3
      <4> QED
        BY <1>3, <1>4, <2>2, <2>3, <3>1, <4>1
    <3> QED
      BY <1>2, <3>2, <3>3
  <2>6. Len(Done') = Len(Done) + 1
    BY <1>2, <1>3, <1>4, <2>2, <2>3
  <2>7. Done' = Append(Done, d)
    BY <1>1, <1>3, <1>4, <2>4, <2>5, <2>6, IsAppend
  <2> QED
    BY <2>7 DEF d
<1> QED
  BY <1>5, <1>6

(* The Cqe that is dropped is the oldest completion. *)
LEMMA DropDone ==
  ASSUME CqInv, CqTyped', DropCqe
  PROVE  Done # <<>> /\ Done' = Tail(Done)
<1> DEFINE n == CqReady + Len(overflow)
<1>1. /\ CqReady \in Nat /\ CqReady > 0 /\ Len(overflow) \in Nat
      /\ cqHead \in Counter /\ cqTail \in Counter
      /\ CqReady < CounterMod /\ CounterMod \in Nat
  BY CqWindowIsSeq, DoneIsSeq, RingAssumption
  DEF CqInv, CqTyped, CqWindowTyped, DoneTyped, DropCqe
<1>2. /\ Done \in Seq(CqEntry) /\ Len(Done) = n
      /\ \A i \in 1 .. n :
           Done[i] = IF i <= CqReady THEN CqWindow[i] ELSE overflow[i - CqReady]
      /\ \A i \in 1 .. CqReady : CqWindow[i] = cqes[CqSlot(WrapAdd(cqHead, i - 1))]
  BY DoneIsSeq, CqWindowIsSeq DEF CqInv, DoneTyped, CqWindowTyped
<1>3. UNCHANGED <<cqTail, cqes, overflow>> /\ cqHead' = WrapAdd(cqHead, 1)
  BY DEF DropCqe, Seen
<1>4. CqReady' = CqReady - 1
  <2>1. 1 \in 0 .. WrapSub(cqTail, cqHead)
    BY <1>1 DEF CqReady
  <2>2. WrapSub(cqTail, WrapAdd(cqHead, 1)) = CqReady - 1
    BY <1>1, <2>1, ShrinkBack DEF CqReady
  <2> QED
    BY <1>3, <2>2 DEF CqReady
<1>5. /\ Done' \in Seq(CqEntry) /\ Len(Done') = n - 1
      /\ \A i \in 1 .. n - 1 :
           Done'[i] = IF i <= CqReady - 1 THEN CqWindow'[i]
                      ELSE overflow[i - (CqReady - 1)]
      /\ \A i \in 1 .. CqReady - 1 :
           CqWindow'[i] = cqes[CqSlot(WrapAdd(WrapAdd(cqHead, 1), i - 1))]
  <2>1. DoneTyped' /\ CqWindowTyped'
    BY DoneIsSeq, CqWindowIsSeq, PTL
  <2>2. CqReady' + Len(overflow') = n - 1
    BY <1>1, <1>3, <1>4
  <2> QED
    BY <1>3, <1>4, <2>1, <2>2 DEF DoneTyped, CqWindowTyped, CqSlot, CqEntry
<1>6. Done # <<>>
  BY <1>1, <1>2, EmptySeq
<1>7. /\ Tail(Done) \in Seq(CqEntry) /\ Len(Tail(Done)) = n - 1
      /\ \A i \in 1 .. n - 1 : Tail(Done)[i] = Done[i + 1]
  BY <1>2, <1>6, HeadTailProperties
<1>8. ASSUME NEW i \in 1 .. n - 1 PROVE Done'[i] = Done[i + 1]
  <2>1. i + 1 \in 1 .. n /\ i \in Nat
    BY <1>1
  <2>2. CASE i <= CqReady - 1
    <3>1. /\ i \in 1 .. CqReady - 1 /\ i + 1 \in 1 .. CqReady /\ i + 1 <= CqReady
          /\ i - 1 \in Nat /\ 1 + (i - 1) = i /\ (i + 1) - 1 = i /\ i < CounterMod
      BY <1>1, <2>1, <2>2
    <3>2. WrapAdd(WrapAdd(cqHead, 1), i - 1) = WrapAdd(cqHead, i)
      BY <1>1, <3>1, AddTwice
    <3> QED
      BY <1>2, <1>5, <2>1, <2>2, <3>1, <3>2
  <2>3. CASE ~(i <= CqReady - 1)
    <3>1. ~(i + 1 <= CqReady) /\ i - (CqReady - 1) = (i + 1) - CqReady
      BY <1>1, <2>1, <2>3
    <3> QED
      BY <1>2, <1>5, <2>1, <2>3, <3>1
  <2> QED
    BY <2>2, <2>3
<1>9. Done' = Tail(Done)
  BY <1>5, <1>7, <1>8, SeqEqual
<1> QED
  BY <1>6, <1>9
-----------------------------------------------------------------------------
(* 8. Each step of the ring is a step of the plain queues, or none. *)

(* None of the queues moves when the counters and the slots do not.         *)
LEMMA SqStays ==
  ASSUME UNCHANGED <<sqHead, sqeTail, sqes, sqe>>
  PROVE  SqWindow' = SqWindow
BY DEF SqWindow, Queued, ToSubmit, SqSlot

(* The same of the completion queue, ...                                    *)
LEMMA DoneStays ==
  ASSUME UNCHANGED cqVars
  PROVE  Done' = Done
BY DEF cqVars, Done, CqWindow, CqReady, CqSlot

(* ... and of all three queues together.                                    *)
LEMMA QueuesStay ==
  ASSUME SqWindow' = SqWindow, Pending' = Pending, Done' = Done
  PROVE  [Queues!QNext]_(Queues!qvars)
BY DEF Queues!qvars, Pending, Done

(* Entries taken by the kernel are the oldest ones: a Take, unless there    *)
(* were none to take.                                                       *)
LEMMA TakeStep ==
  ASSUME RingInv, open, open' = open, NEW k \in Nat, k <= Len(SqWindow),
         SqWindow' = SubSeq(SqWindow, k + 1, Len(SqWindow)),
         inflight' = inflight \cup {SqWindow[i] : i \in 1 .. k},
         Done' = Done
  PROVE  [Queues!QNext]_(Queues!qvars)
<1>1. /\ SqWindow \in Seq(Reqs) /\ Len(SqWindow) \in Nat /\ Len(SqWindow) <= SqEntries
      /\ SqEntries \in Nat
  <2>1. /\ SqWindow \in Seq(Reqs) /\ Len(SqWindow) = Queued
        /\ Queued \in Nat /\ Queued <= ToSubmit /\ ToSubmit <= SqEntries /\ ToSubmit \in Nat
    BY SqWindowIsSeq, Distances DEF SqWindowTyped, RingInv, WithinRings
  <2> QED
    BY <2>1, RingAssumption
<1>2. CASE k = 0
  <2>1. SqWindow' = SqWindow
    BY <1>1, <1>2, SubSeqFull
  <2>2. inflight' = inflight
    <3>1. {SqWindow[i] : i \in 1 .. k} = {}
      BY <1>2
    <3> QED
      BY <3>1
  <2> QED
    BY <2>1, <2>2, QueuesStay DEF Pending
<1>3. CASE k > 0
  <2>1. k \in 1 .. SqEntries /\ k \in 0 .. Len(SqWindow)
    BY <1>1, <1>3
  <2>2. Queues!Take(k)
    BY <2>1 DEF Queues!Take, Pending, Done
  <2> QED
    BY <2>1, <2>2 DEF Queues!QNext
<1> QED
  BY <1>2, <1>3

(* io_uring_enter: what it takes is taken, what it flushes keeps its place. *)
LEMMA EnterStep ==
  ASSUME RingInv, RingInv', Free, NEW k \in 0 .. SqEntries, Enter(k)
  PROVE  [Queues!QNext]_(Queues!qvars)
<1>1. /\ open /\ open' = open /\ sqe = NoSlot /\ sqTail' = sqeTail
      /\ UNCHANGED <<sqeTail, sqes, sqe>>
  BY DEF Free, Idle, Enter
<1>2. Done' = Done
  <2>1. CqTyped /\ CqTyped'
    BY Parts, PTL DEF CqInv
  <2> QED
    BY <2>1, FlushDone, DoneStays DEF Enter
<1>3. CASE sqPoll
  <2>1. UNCHANGED <<sqHead, inflight>>
    BY <1>3 DEF Enter
  <2> QED
    BY <1>1, <1>2, <2>1, SqStays, QueuesStay DEF Pending
<1>4. CASE ~sqPoll
  <2>1. k \in 0 .. ToSubmit /\ Consume(k)
    BY <1>4 DEF Enter
  <2>2. ToSubmit \in Nat /\ Queued = ToSubmit /\ WrapSub(sqTail', sqHead) = ToSubmit
    BY <1>1, Distances DEF RingInv, Queued, ToSubmit
  <2>3. k \in Nat /\ k \in 0 .. Queued /\ k <= WrapSub(sqTail', sqHead)
    BY <2>1, <2>2
  <2>4. /\ k <= Len(SqWindow)
        /\ SqWindow' = SubSeq(SqWindow, k + 1, Len(SqWindow))
        /\ inflight' = inflight \cup {SqWindow[i] : i \in 1 .. k}
    BY <1>1, <2>1, <2>3, ConsumeWindow
  <2> QED
    BY <1>1, <1>2, <2>3, <2>4, TakeStep
<1> QED
  BY <1>3, <1>4

(* The SQPOLL thread takes the oldest entry, never the one being prepared.  *)
LEMMA SqThreadStep ==
  ASSUME RingInv, RingInv', SqThread
  PROVE  [Queues!QNext]_(Queues!qvars)
<1>1. /\ open /\ open' = open /\ sqHead # sqTail /\ Consume(1)
      /\ UNCHANGED <<sqTail, sqeTail, sqes, sqe, cqVars>>
  BY DEF SqThread
<1>2. /\ sqHead \in Counter /\ sqTail \in Counter /\ ToSubmit \in Nat
      /\ WrapSub(sqTail, sqHead) \in Nat /\ WrapSub(sqTail, sqHead) <= ToSubmit
      /\ sqe # NoSlot => WrapSub(sqTail, sqHead) < ToSubmit
  BY Distances DEF RingInv, WithinRings, DraftIsLast
<1>3. WrapSub(sqTail, sqHead) >= 1
  <2>1. WrapSub(sqTail, sqHead) = IF sqTail >= sqHead THEN sqTail - sqHead
                                  ELSE sqTail - sqHead + CounterMod
    BY <1>2, SubCases
  <2> QED
    BY <2>1, <1>1, <1>2, RingAssumption DEF Counter
<1>4. 1 \in 0 .. Queued /\ 1 <= WrapSub(sqTail', sqHead)
  BY <1>1, <1>2, <1>3 DEF Queued
<1>5. /\ 1 <= Len(SqWindow)
      /\ SqWindow' = SubSeq(SqWindow, 1 + 1, Len(SqWindow))
      /\ inflight' = inflight \cup {SqWindow[i] : i \in 1 .. 1}
  BY <1>1, <1>4, ConsumeWindow
<1>6. Done' = Done
  BY <1>1, DoneStays
<1> QED
  BY <1>1, <1>5, <1>6, TakeStep

(* The simulation: any step the caller or the kernel takes. *)
LEMMA QueuesStep == RingInv /\ RingInv' /\ [Next]_vars => [Queues!QNext]_(Queues!qvars)
<1> SUFFICES ASSUME RingInv, RingInv', [Next]_vars PROVE [Queues!QNext]_(Queues!qvars)
  OBVIOUS
<1>0. CqTyped /\ CqTyped' /\ CqInv
  BY Parts, PTL DEF CqInv
<1>1. CASE WithFlags
  <2>1. SqWindow' = SqWindow /\ Done' = Done
    BY <1>1, SqStays, DoneStays DEF WithFlags, sqVars
  <2>2. Pending' = Pending
    BY <1>1 DEF WithFlags, Pending
  <2> QED
    BY <2>1, <2>2, QueuesStay
<1>2. CASE DropRing
  <2>1. /\ sqHead' = 0 /\ sqeTail' = 0 /\ sqe' = NoSlot /\ cqHead' = 0 /\ cqTail' = 0
        /\ overflow' = <<>> /\ open' = FALSE
    BY <1>2 DEF DropRing, Idle
  <2>2. WrapSub(0, 0) = 0
    BY SubCases, RingAssumption DEF Counter
  <2>3. Queued' = 0 /\ CqReady' = 0
    BY <2>1, <2>2 DEF Queued, ToSubmit, CqReady
  <2>4. SqWindow' = <<>> /\ CqWindow' = <<>>
    BY <2>3 DEF SqWindow, CqWindow
  <2>5. (CqWindow \o overflow)' = <<>>
    BY <2>1, <2>4, ConcatEmptySeq, EmptySeq
  <2>6. Queues!Exit
    BY <2>1, <2>4, <2>5 DEF Queues!Exit
  <2> QED
    BY <2>6 DEF Queues!QNext
<1>3. CASE GetSqe
  <2>1. SqWindow' = SqWindow
    BY <1>3, GetSqeWindow
  <2> QED
    BY <1>3, <2>1, DoneStays, QueuesStay DEF GetSqe, Pending
<1>4. ASSUME NEW r \in Reqs, Prepare(r) PROVE [Queues!QNext]_(Queues!qvars)
  <2>1. SqWindow' = Append(SqWindow, r) /\ Len(SqWindow) < SqEntries
    BY <1>4, PrepareWindow
  <2>2. Done' = Done /\ Pending' = Pending
    BY <1>4, DoneStays DEF Prepare, Pending
  <2>3. r \notin Queues!Held
    <3>1. r \notin Held
      BY <1>4 DEF Prepare
    <3>2. Queues!Range(SqWindow) = Range(SqWindow)
          /\ Queues!Range(CqWindow \o overflow) = Range(CqWindow \o overflow)
      BY DEF Range, Queues!Range
    <3> QED
      BY <3>1, <3>2 DEF Held, Queues!Held
  <2>4. Queues!Push(r)
    BY <2>1, <2>2, <2>3 DEF Queues!Push, Queues!CanPush, Pending, Done
  <2> QED
    BY <2>4 DEF Queues!QNext
<1>5. CASE Submit \/ \E n \in 1 .. CqEntries : SubmitAndWait(n)
  BY <1>5, EnterStep DEF Submit, SubmitAndWait
<1>6. CASE WaitCqe \/ PeekCqe \/ PeekBatch
  <2>1. UNCHANGED <<open, sqVars, inflight>>
    BY <1>6 DEF WaitCqe, PeekCqe, PeekBatch
  <2>2. Done' = Done
    <3>1. UNCHANGED cqVars \/ FlushOverflow
      BY <1>6 DEF WaitCqe, PeekCqe, PeekBatch
    <3> QED
      BY <1>0, <3>1, FlushDone, DoneStays
  <2> QED
    BY <2>1, <2>2, SqStays, QueuesStay DEF Pending, sqVars
<1>7. CASE DropCqe
  <2>1. Done # <<>> /\ Done' = Tail(Done)
    BY <1>0, <1>7, DropDone
  <2>2. SqWindow' = SqWindow /\ Pending' = Pending
    BY <1>7, SqStays DEF DropCqe, Pending, sqVars
  <2>3. Queues!Reap
    BY <2>1, <2>2 DEF Queues!Reap, Pending, Done
  <2> QED
    BY <2>3 DEF Queues!QNext
<1>8. CASE SqThread
  BY <1>8, SqThreadStep
<1>9. ASSUME NEW r \in Reqs, NEW res \in Results, PostCqe(r, res)
      PROVE  [Queues!QNext]_(Queues!qvars)
  <2>1. Done' = Append(Done, [req |-> r, res |-> res])
    BY <1>0, <1>9, PostDone
  <2>2. SqWindow' = SqWindow
    BY <1>9, SqStays DEF PostCqe, sqVars
  <2>3. r \in Pending /\ Pending' = Pending \ {r}
    BY <1>9 DEF PostCqe, Pending
  <2>4. Queues!Complete(r, res)
    BY <2>1, <2>2, <2>3 DEF Queues!Complete, Pending, Done
  <2> QED
    BY <2>4 DEF Queues!QNext
<1>10. CASE \E r \in Reqs : Cancelled(r)
  <2>1. UNCHANGED <<sqVars, cqVars>> /\ Pending' = Pending
    BY <1>10 DEF Cancelled, Pending
  <2> QED
    BY <2>1, SqStays, DoneStays, QueuesStay DEF sqVars
<1>11. CASE \/ GetSqeFull \/ AskSpace \/ SubmitAndWaitReturns \/ WaitCqeReturns
            \/ Interrupted \/ UNCHANGED vars
  <2>1. UNCHANGED <<sqHead, sqeTail, sqes, sqe, cqVars, open, inflight>>
    <3>1. UNCHANGED vars => UNCHANGED <<sqHead, sqeTail, sqes, sqe, cqVars, open, inflight>>
      BY DEF vars, sqVars
    <3> QED
      BY <1>11, <3>1 DEF GetSqeFull, AskSpace, SubmitAndWaitReturns, WaitCqeReturns,
        Interrupted, sqVars
  <2> QED
    BY <2>1, SqStays, DoneStays, QueuesStay DEF Pending
<1> QED
  BY <1>1, <1>2, <1>3, <1>4, <1>5, <1>6, <1>7, <1>8, <1>9, <1>10, <1>11 DEF Next

(* A ring just made is three empty queues. *)
LEMMA QueuesInit == Init => Queues!QInit
<1> SUFFICES ASSUME Init PROVE Queues!QInit
  OBVIOUS
<1>1. /\ sqHead = 0 /\ sqeTail = 0 /\ sqe = NoSlot /\ cqHead = 0 /\ cqTail = 0
      /\ overflow = <<>> /\ open = FALSE
  BY DEF Init
<1>2. WrapSub(0, 0) = 0
  BY SubCases, RingAssumption DEF Counter
<1>3. Queued = 0 /\ CqReady = 0
  BY <1>1, <1>2 DEF Queued, ToSubmit, CqReady
<1>4. SqWindow = <<>> /\ CqWindow = <<>>
  BY <1>3 DEF SqWindow, CqWindow
<1>5. CqWindow \o overflow = <<>>
  BY <1>1, <1>4, ConcatEmptySeq, EmptySeq
<1> QED
  BY <1>1, <1>4, <1>5 DEF Queues!QInit

(* What the wrapper promises: the wrapping rings, the overflow list and the *)
(* SQPOLL thread implement plain FIFO queues.  Nothing is lost, reordered   *)
(* or invented on the way in or on the way out.                             *)
THEOREM RingImplementsQueues == Spec => ImplementsQueues
<1>1. Init => Queues!QInit
  BY QueuesInit
<1>2. RingInv /\ RingInv' /\ [Next]_vars => [Queues!QNext]_(Queues!qvars)
  BY QueuesStep
<1> QED
  BY <1>1, <1>2, RingInvariant, PTL DEF Spec, ImplementsQueues, Queues!QSpec
-----------------------------------------------------------------------------
(* 9. A request is in one place at a time: an invariant of the plain        *)
(* queues, carried over by the simulation; a ring that is closed is empty,  *)
(* whatever the kernel still has in flight from the one before it.          *)
OnceInv ==
  /\ Once(SqWindow, Pending, Done)
  /\ ~open => SqWindow = <<>> /\ Done = <<>>

(* The queues as the module RingQueues calls them. *)
LEMMA QueuesHeld ==
  ASSUME RingInv
  PROVE  Queues!Held = Range(SqWindow) \cup Pending \cup Asked(Done)
<1>1. Done \in Seq(CqEntry)
  BY Parts, DoneIsSeq DEF CqInv, DoneTyped
<1>2. Range(Done) = {Done[i] : i \in 1 .. Len(Done)}
  BY <1>1, RangeEquality
<1>3. {x.req : x \in Range(Done)} = Asked(Done)
  BY <1>2 DEF Asked
<1>4. Queues!Range(SqWindow) = Range(SqWindow) /\ Queues!Range(Done) = Range(Done)
  BY DEF Range, Queues!Range
<1> QED
  BY <1>3, <1>4 DEF Queues!Held, Pending, Done

(* Once, of the three queues, survives every step of the plain queues.      *)
LEMMA OnceStep ==
  ASSUME RingInv, Once(SqWindow, Pending, Done), [Queues!QNext]_(Queues!qvars)
  PROVE  Once(SqWindow', Pending', Done')
<1>1. SqWindow \in Seq(Reqs) /\ Done \in Seq(CqEntry)
  BY SqWindowIsSeq, Parts, DoneIsSeq DEF SqWindowTyped, CqInv, DoneTyped
<1>2. ASSUME NEW r \in Reqs, Queues!Push(r) PROVE Once(SqWindow', Pending', Done')
  <2>1. /\ SqWindow' = Append(SqWindow, r) /\ Pending' = Pending /\ Done' = Done
        /\ r \notin Range(SqWindow) \cup Pending \cup Asked(Done)
    BY <1>2, QueuesHeld DEF Queues!Push, Pending, Done
  <2> QED
    BY <1>1, <2>1, OncePush
<1>3. ASSUME NEW k \in 1 .. SqEntries, Queues!Take(k)
      PROVE  Once(SqWindow', Pending', Done')
  <2>1. /\ k \in 0 .. Len(SqWindow) /\ SqWindow' = Rest(SqWindow, k)
        /\ Pending' = Pending \cup Oldest(SqWindow, k) /\ Done' = Done
    BY <1>3 DEF Queues!Take, Pending, Done, Rest, Oldest
  <2>2. Once(Rest(SqWindow, k), Pending \cup Oldest(SqWindow, k), Done)
    BY <1>1, <2>1, OnceTake
  <2> QED
    BY <2>1, <2>2
<1>4. ASSUME NEW r \in Reqs, NEW res \in Results, Queues!Complete(r, res)
      PROVE  Once(SqWindow', Pending', Done')
  <2> DEFINE d == [req |-> r, res |-> res]
  <2>1. /\ r \in Pending /\ Pending' = Pending \ {r} /\ SqWindow' = SqWindow
        /\ Done' = Append(Done, d)
    BY <1>4 DEF Queues!Complete, Pending, Done
  <2>2. d \in CqEntry /\ d.req = r
    BY DEF CqEntry
  <2> HIDE DEF d
  <2>3. Once(SqWindow, Pending \ {d.req}, Append(Done, d))
    BY <1>1, <2>1, <2>2, OnceComplete
  <2> QED
    BY <2>1, <2>2, <2>3
<1>5. CASE Queues!Reap
  <2>1. Done # <<>> /\ Done' = Tail(Done) /\ SqWindow' = SqWindow /\ Pending' = Pending
    BY <1>5 DEF Queues!Reap, Pending, Done
  <2> QED
    BY <1>1, <2>1, OnceReap
<1>6. CASE Queues!Exit
  <2>1. SqWindow' = <<>> /\ Pending' = {} /\ Done' = <<>>
    BY <1>6 DEF Queues!Exit, Pending, Done
  <2>2. Range(<<>>) = {}
    BY DEF Range
  <2> QED
    BY <2>1, <2>2 DEF Once, Distinct, Asked
<1>7. CASE UNCHANGED Queues!qvars
  <2>1. SqWindow' = SqWindow /\ Pending' = Pending /\ Done' = Done
    BY <1>7 DEF Queues!qvars, Pending, Done
  <2> QED
    BY <2>1
<1> QED
  BY <1>2, <1>3, <1>4, <1>5, <1>6, <1>7 DEF Queues!QNext

(* A closed ring stays empty: only one that is open hands out an entry,     *)
(* takes or completes a request.                                            *)
LEMMA ClosedStaysEmpty ==
  ASSUME RingInv, RingInv', [Next]_vars, ~open => SqWindow = <<>> /\ Done = <<>>, ~open'
  PROVE  SqWindow' = <<>> /\ Done' = <<>>
<1>0. /\ sqe # NoSlot => open
      /\ cqe # NoSlot => open
      /\ call # "none" => open
  BY DEF RingInv, DraftIsLast, GuardIsOldest
<1>1. CASE open
  <2>1. DropRing
    BY <1>1 DEF Next, WithFlags, GetSqe, GetSqeFull, AskSpace, Prepare, Submit, SubmitAndWait,
      Enter, SubmitAndWaitReturns, WaitCqe, WaitCqeReturns, Interrupted, PeekCqe, PeekBatch,
      DropCqe, SqThread, PostCqe, Cancelled, vars
  <2>2. /\ sqHead' = 0 /\ sqeTail' = 0 /\ sqe' = NoSlot /\ cqHead' = 0 /\ cqTail' = 0
        /\ overflow' = <<>>
    BY <2>1 DEF DropRing, Idle
  <2>3. WrapSub(0, 0) = 0
    BY SubCases, RingAssumption DEF Counter
  <2>4. Queued' = 0 /\ CqReady' = 0
    BY <2>2, <2>3 DEF Queued, ToSubmit, CqReady
  <2>5. SqWindow' = <<>> /\ CqWindow' = <<>>
    BY <2>4 DEF SqWindow, CqWindow
  <2> QED
    BY <2>2, <2>5, ConcatEmptySeq, EmptySeq DEF Done
<1>2. CASE ~open
  <2>1. UNCHANGED <<sqHead, sqeTail, sqes, sqe, cqVars>>
    <3>1. UNCHANGED vars => UNCHANGED <<sqHead, sqeTail, sqes, sqe, cqVars>>
      BY DEF vars, sqVars
    <3>2. \/ WithFlags \/ \E r \in Reqs : Cancelled(r)
          \/ UNCHANGED vars
      BY <1>0, <1>2 DEF Next, Free, Idle, DropRing, GetSqe, GetSqeFull, AskSpace, Prepare, Submit,
        SubmitAndWait, SubmitAndWaitReturns, WaitCqe, WaitCqeReturns, Interrupted, PeekCqe,
        PeekBatch, DropCqe, SqThread, PostCqe
    <3> QED
      BY <3>1, <3>2 DEF WithFlags, Cancelled, sqVars
  <2> QED
    BY <1>2, <2>1, SqStays, DoneStays
<1> QED
  BY <1>1, <1>2

(* OnceInv says of the three queues what EachRequestOnce says of the rings. *)
LEMMA OnceInvMeans == RingInv /\ OnceInv => EachRequestOnce
<1> SUFFICES ASSUME RingInv, OnceInv PROVE EachRequestOnce
  OBVIOUS
<1>1. SqWindow \in Seq(Reqs) /\ Done \in Seq(CqEntry)
  BY SqWindowIsSeq, Parts, DoneIsSeq DEF SqWindowTyped, CqInv, DoneTyped
<1>2. DOMAIN SqWindow = 1 .. Len(SqWindow) /\ DOMAIN Done = 1 .. Len(Done)
  BY <1>1, LenProperties
<1>3. {x.req : x \in Range(Done)} = Asked(Done)
  <2>1. Range(Done) = {Done[i] : i \in 1 .. Len(Done)}
    BY <1>1, RangeEquality
  <2> QED
    BY <2>1 DEF Asked
<1>4. /\ \A i, j \in DOMAIN SqWindow : SqWindow[i] = SqWindow[j] => i = j
      /\ \A i, j \in DOMAIN Done : Done[i].req = Done[j].req => i = j
      /\ Range(SqWindow) \cap Asked(Done) = {}
  BY <1>2 DEF OnceInv, Once, Distinct
<1>5. Range(SqWindow) \cap inflight = {} /\ (open => inflight \cap Asked(Done) = {})
  <2>1. CASE open
    BY <2>1 DEF OnceInv, Once, Pending
  <2>2. CASE ~open
    <3>1. Range(SqWindow) = {}
      BY <2>2 DEF OnceInv, Range
    <3> QED
      BY <2>2, <3>1
  <2> QED
    BY <2>1, <2>2
<1> QED
  BY <1>3, <1>4, <1>5 DEF EachRequestOnce, Done

(* A request is never submitted twice, never completed twice and never both *)
(* pending and complete, on every ring, through every wrap of the counters, *)
(* overflow of the completion queue and new ring after a dropped one.       *)
THEOREM RequestsAreOnce == Spec => []EachRequestOnce
<1>1. Init => OnceInv
  <2> SUFFICES ASSUME Init PROVE OnceInv
    OBVIOUS
  <2>1. SqWindow = <<>> /\ Pending = {} /\ Done = <<>>
    BY QueuesInit DEF Queues!QInit, Pending, Done
  <2>2. Range(<<>>) = {}
    BY DEF Range
  <2> QED
    BY <2>1, <2>2 DEF OnceInv, Once, Distinct, Asked
<1>2. RingInv /\ RingInv' /\ OnceInv /\ [Next]_vars => OnceInv'
  <2> SUFFICES ASSUME RingInv, RingInv', OnceInv, [Next]_vars PROVE OnceInv'
    OBVIOUS
  <2>1. Once(SqWindow', Pending', Done')
    BY QueuesStep, OnceStep DEF OnceInv
  <2>2. ~open' => SqWindow' = <<>> /\ Done' = <<>>
    BY ClosedStaysEmpty DEF OnceInv
  <2> QED
    BY <2>1, <2>2 DEF OnceInv, Once, Distinct, Asked
<1>3. RingInv /\ OnceInv => EachRequestOnce
  BY OnceInvMeans
<1> QED
  BY <1>1, <1>2, <1>3, RingInvariant, PTL DEF Spec
=============================================================================
