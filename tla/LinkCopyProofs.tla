--------------------------- MODULE LinkCopyProofs ---------------------------
(***************************************************************************)
(* Theorems about module LinkCopy, for every file, block and queue size,   *)
(* with every error and short transfer, for a kernel that takes all the    *)
(* entries a submit() hands over (~ShortSubmits: see the run               *)
(* link_cp_split for one that does not).                                   *)
(*                                                                         *)
(* What makes the checked invariants inductive is LinkInv: the ring holds  *)
(* whole pairs until the kernel takes them, a read the kernel holds has    *)
(* its write there too, and a write runs for a block that was read; and    *)
(* DestInv: each block queued is written, cut or still to come, unless an  *)
(* error was met.                                                          *)
(***************************************************************************)
EXTENDS LinkCopy, QueueLemmas

(* The two operations of a block. *)
ReadOf(b)  == [block |-> b, isRead |-> TRUE, link |-> TRUE]
WriteOf(b) == [block |-> b, isRead |-> FALSE, link |-> FALSE]

Pairs == Len(operations)   \* queued so far
InRing == Range(sq) \cup inflight \cup Asked(cq)
OfBlock(b) == {op \in InRing : op.block = b}

Typed ==
  /\ pc \in {"fill", "submit", "drain", "done", "failed"}
  /\ outstanding \in 0 .. QueueDepth + 1
  /\ operations \in Seq(0 .. 2)
  /\ sq \in Seq(Ops) /\ inflight \subseteq Ops /\ cq \in Seq(Queues!Cqes)
  /\ unlinked = {} /\ readOk \subseteq Blocks /\ ran \subseteq Blocks
  /\ written \subseteq Blocks /\ cut \subseteq Blocks

(* The file is queued from its start, a block at a time. *)
ToOffset ==
  /\ offset = IF Pairs * BlockSize < FileSize THEN Pairs * BlockSize ELSE FileSize
  /\ \A b \in 0 .. Pairs - 1 : b \in Blocks

(* An operation is in one place, and is of a block queued before. *)
Placed ==
  /\ Once(sq, inflight, cq)
  /\ \A op \in InRing : \E b \in 0 .. Pairs - 1 : op \in {ReadOf(b), WriteOf(b)}

(* Reads and writes alternate in the queue, which submit() empties; and a    *)
(* read the kernel holds is never without its write.                        *)
Alternate(q) ==
  /\ Len(q) % 2 = 0
  /\ \A i \in 1 .. Len(q) : IF i % 2 = 1 THEN q[i].isRead /\ q[i].link ELSE ~q[i].isRead

Linked ==
  /\ Alternate(sq)
  /\ pc \in {"drain", "done"} => sq = <<>>
  /\ \A b \in Blocks : ReadOf(b) \in Range(sq) <=> WriteOf(b) \in Range(sq)
  /\ \A b \in Blocks : ReadOf(b) \in inflight => WriteOf(b) \in inflight

(* A write was executed because its block was read whole. *)
Followed == ran \subseteq readOk

(* As long as the copy goes on, both counters count the ring. *)
Counted ==
  pc # "failed" =>
    /\ IsFiniteSet(InRing) /\ outstanding = Cardinality(InRing)
    /\ \A i \in DOMAIN operations : operations[i] + Cardinality(OfBlock(i - 1)) = 2

Ended == pc = "done" => offset >= FileSize /\ outstanding = 0

LinkInv == Typed /\ ToOffset /\ Placed /\ Linked /\ Followed /\ Counted /\ Ended

(* What is known of each block that was queued: its read is to come, or was *)
(* short, or whole, and then its write is to come, or was short, or whole;  *)
(* unless an error was met, which ends the copy when it is drained.         *)
Pending == Range(sq) \cup inflight
Erred   == pc = "failed" \/ \E i \in 1 .. Len(cq) : cq[i].res = EIO

Accounted(b) ==
  \/ Erred \/ b \in cut \/ ReadOf(b) \in Pending
  \/ b \in readOk /\ (b \in written \/ WriteOf(b) \in Pending)

DestInv ==
  /\ written \subseteq readOk /\ cut \cap written = {}
  /\ \A b \in readOk \cup cut : b \in 0 .. Pairs - 1 /\ ReadOf(b) \notin Pending
  /\ \A b \in readOk \cap (cut \cup written) : WriteOf(b) \notin Pending
  /\ \A b \in 0 .. Pairs - 1 : Accounted(b)

-----------------------------------------------------------------------------
(* 0. Arithmetic. *)

(* Products, with the terms that follow from their factors. *)
LEMMA Product == ASSUME NEW m \in Nat, NEW n \in Nat PROVE m * n \in Nat
OBVIOUS

LEMMA Multiplied ==
  ASSUME NEW l \in Nat, NEW m \in Nat, NEW n \in Nat, l <= m
  PROVE  l * n <= m * n
OBVIOUS

LEMMA Distributed ==
  ASSUME NEW m \in Nat, NEW n \in Nat
  PROVE  (m + 1) * n = m * n + n
OBVIOUS

LEMMA Divided ==
  ASSUME NEW m \in Nat, NEW n \in Nat, n > 0
  PROVE  /\ m \div n \in Nat
         /\ (m \div n) * n <= m /\ m < (m \div n) * n + n
OBVIOUS

-----------------------------------------------------------------------------
(* 1. Blocks, pairs and places.                                             *)

(* A block begins before the end of the file. *)
LEMMA BlockFacts ==
  /\ \A b \in Nat : b \in Blocks <=> b * BlockSize < FileSize
  /\ \E n \in Nat : Blocks = 0 .. n - 1
<1> DEFINE q == (FileSize + BlockSize - 1) \div BlockSize
<1>1. BlockSize \in Nat /\ BlockSize > 0 /\ FileSize \in Nat
  BY LinkCopyAssumption
<1>2. q \in Nat /\ q * BlockSize <= FileSize + BlockSize - 1
      /\ FileSize + BlockSize - 1 < q * BlockSize + BlockSize
  <2>1. FileSize + BlockSize - 1 \in Nat
    BY <1>1
  <2> QED
    BY <1>1, <2>1, Divided
<1> HIDE DEF q
<1>3. Blocks = 0 .. q - 1
  BY DEF Blocks, q
<1>4. ASSUME NEW b \in Nat PROVE b \in Blocks <=> b * BlockSize < FileSize
  <2>1. b \in Blocks <=> b + 1 <= q
    BY <1>2, <1>3, <1>4
  <2>2. ASSUME b + 1 <= q PROVE b * BlockSize < FileSize
    <3>1. (b + 1) * BlockSize <= q * BlockSize
      BY <1>1, <1>2, <2>2, Multiplied
    <3>2. (b + 1) * BlockSize = b * BlockSize + BlockSize
      BY <1>1, Distributed
    <3> QED
      BY <1>1, <1>2, <3>1, <3>2, Product
  <2>3. ASSUME q <= b PROVE ~(b * BlockSize < FileSize)
    <3>1. q * BlockSize <= b * BlockSize
      BY <1>1, <1>2, <2>3, Multiplied
    <3> QED
      BY <1>1, <1>2, <3>1, Product
  <2> QED
    BY <1>2, <2>1, <2>2, <2>3
<1> QED
  BY <1>2, <1>3, <1>4

(* What the invariants call InRing is what the ring holds. *)
LEMMA HeldIsInRing ==
  ASSUME Typed
  PROVE  Queues!Held = InRing
<1>1. cq \in Seq(Queues!Cqes) /\ Range(cq) = {cq[i] : i \in 1 .. Len(cq)}
  BY RangeEquality DEF Typed
<1>2. Queues!Range(sq) = Range(sq) /\ Queues!Range(cq) = Range(cq)
  BY DEF Range, Queues!Range
<1>3. {c.req : c \in Range(cq)} = Asked(cq)
  BY <1>1 DEF Asked
<1> QED
  BY <1>2, <1>3 DEF Queues!Held, InRing

(* The queue with a pair at its end. *)
LEMMA PairAppended ==
  ASSUME NEW q \in Seq(Ops), NEW b \in Blocks
  PROVE  /\ ReadOf(b) \in Ops /\ WriteOf(b) \in Ops /\ ReadOf(b) # WriteOf(b)
         /\ q \o SubSeq(PairOf(b), 1, 2) = Append(Append(q, ReadOf(b)), WriteOf(b))
<1> DEFINE p == PairOf(b)
           s == SubSeq(p, 1, 2)
           a == Append(q, ReadOf(b))
           e == Append(a, WriteOf(b))
<1>1. ReadOf(b) \in Ops /\ WriteOf(b) \in Ops /\ ReadOf(b) # WriteOf(b)
  BY DEF ReadOf, WriteOf, Ops
<1>2. p[1] = ReadOf(b) /\ p[2] = WriteOf(b)
  <2>1. /\ p[1] = [block |-> b, isRead |-> 1 = 1, link |-> 1 = 1]
        /\ p[2] = [block |-> b, isRead |-> 2 = 1, link |-> 2 = 1]
    BY DEF PairOf
  <2>2. (1 = 1) = TRUE /\ (2 = 1) = FALSE
    OBVIOUS
  <2> HIDE DEF p
  <2> QED
    BY <2>1, <2>2 DEF ReadOf, WriteOf
<1> HIDE DEF p
<1>3. s \in Seq(Ops) /\ Len(s) = 2 /\ s[1] = ReadOf(b) /\ s[2] = WriteOf(b)
  <2>1. \A i \in 1 .. 2 : p[i] \in Ops
    BY <1>1, <1>2
  <2>2. /\ s \in Seq(Ops) /\ Len(s) = IF 1 <= 2 THEN 2 - 1 + 1 ELSE 0
        /\ \A i \in 1 .. 2 - 1 + 1 : s[i] = p[1 + i - 1]
    BY <2>1, SubSeqProperties
  <2> HIDE DEF s
  <2> QED
    BY <1>2, <2>2
<1> HIDE DEF s
<1> DEFINE j == q \o s
<1>4. /\ j \in Seq(Ops) /\ Len(j) = Len(q) + 2 /\ Len(q) \in Nat
      /\ \A i \in 1 .. Len(q) + 2 : j[i] = IF i <= Len(q) THEN q[i] ELSE s[i - Len(q)]
  <2>1. /\ j \in Seq(Ops) /\ Len(j) = Len(q) + Len(s)
        /\ \A i \in 1 .. Len(q) + Len(s) : j[i] = IF i <= Len(q) THEN q[i] ELSE s[i - Len(q)]
    BY <1>3, ConcatProperties
  <2> HIDE DEF j
  <2> QED
    BY <1>3, <2>1, LenProperties
<1>5. /\ a \in Seq(Ops) /\ Len(a) = Len(q) + 1
      /\ \A i \in 1 .. Len(q) : a[i] = q[i]
      /\ a[Len(q) + 1] = ReadOf(b)
  BY <1>1, AppendProperties
<1> HIDE DEF a
<1>6. /\ e \in Seq(Ops) /\ Len(e) = Len(a) + 1
      /\ \A i \in 1 .. Len(a) : e[i] = a[i]
      /\ e[Len(a) + 1] = WriteOf(b)
  BY <1>1, <1>5, AppendProperties
<1> HIDE DEF e, j
<1>7. ASSUME NEW i \in 1 .. Len(j) PROVE j[i] = e[i]
  <2>1. CASE i <= Len(q)
    BY <1>4, <1>5, <1>6, <2>1
  <2>2. CASE i = Len(q) + 1
    BY <1>3, <1>4, <1>5, <1>6, <2>2
  <2>3. CASE i = Len(q) + 2
    BY <1>3, <1>4, <1>5, <1>6, <2>3
  <2> QED
    BY <1>4, <2>1, <2>2, <2>3
<1>8. j = e
  BY <1>4, <1>5, <1>6, <1>7, SeqEqual
<1> QED
  BY <1>1, <1>8 DEF j, s, e, a, p

(* Reads and writes still alternate when a pair is added. *)
LEMMA PairAlternates ==
  ASSUME NEW q \in Seq(Ops), Alternate(q), NEW b \in Blocks,
         NEW e, e = Append(Append(q, ReadOf(b)), WriteOf(b))
  PROVE  Alternate(e) /\ Len(e) = Len(q) + 2
<1> DEFINE a == Append(q, ReadOf(b))
<1>1. ReadOf(b) \in Ops /\ WriteOf(b) \in Ops
  BY PairAppended
<1>2. /\ a \in Seq(Ops) /\ Len(a) = Len(q) + 1 /\ Len(q) \in Nat
      /\ \A i \in 1 .. Len(q) : a[i] = q[i]
      /\ a[Len(q) + 1] = ReadOf(b)
  BY <1>1, AppendProperties, LenProperties
<1>3. e = Append(a, WriteOf(b))
  OBVIOUS
<1> HIDE DEF a
<1>4. /\ Len(e) = Len(q) + 2
      /\ \A i \in 1 .. Len(q) : e[i] = q[i]
      /\ e[Len(q) + 1] = ReadOf(b) /\ e[Len(q) + 2] = WriteOf(b)
  <2>1. /\ Len(e) = Len(a) + 1
        /\ \A i \in 1 .. Len(a) : e[i] = a[i]
        /\ e[Len(a) + 1] = WriteOf(b)
    BY <1>1, <1>2, <1>3, AppendProperties
  <2> QED
    BY <1>2, <2>1
<1>5. Len(q) % 2 = 0
  BY DEF Alternate
<1>6. Len(e) % 2 = 0 /\ (Len(q) + 1) % 2 = 1 /\ (Len(q) + 2) % 2 # 1
  BY <1>2, <1>4, <1>5
<1>7. ASSUME NEW i \in 1 .. Len(e)
      PROVE  IF i % 2 = 1 THEN e[i].isRead /\ e[i].link ELSE ~e[i].isRead
  <2>1. CASE i \in 1 .. Len(q)
    BY <1>4, <2>1 DEF Alternate
  <2>2. CASE i = Len(q) + 1
    <3>1. i % 2 = 1 /\ e[i] = ReadOf(b)
      BY <1>4, <1>6, <2>2
    <3> QED
      BY <3>1 DEF ReadOf
  <2>3. CASE i = Len(q) + 2
    <3>1. i % 2 # 1 /\ e[i] = WriteOf(b)
      BY <1>4, <1>6, <2>3
    <3> QED
      BY <3>1 DEF WriteOf
  <2> QED
    BY <1>2, <1>4, <2>1, <2>2, <2>3
<1> QED
  BY <1>4, <1>6, <1>7 DEF Alternate

(* A chain is whole in the queue, so a submission of all of it takes no     *)
(* write alone.                                                             *)
LEMMA NoneAlone ==
  ASSUME sq \in Seq(Ops), Alternate(sq), NEW k \in Nat, k = Len(sq)
  PROVE  Alone(k) = {}
<1> SUFFICES ASSUME NEW j \in 1 .. k, ~sq[j].isRead, j > 1 => ~sq[j - 1].link
             PROVE  FALSE
  BY DEF Alone
<1>1. j % 2 # 1
  BY DEF Alternate
<1>2. j % 2 = 0 /\ j # 1
  BY <1>1
<1>3. j > 1 /\ j - 1 \in 1 .. Len(sq) /\ (j - 1) % 2 = 1
  BY <1>2
<1>4. sq[j - 1].link
  BY <1>3 DEF Alternate
<1> QED
  BY <1>3, <1>4

(* The block of an operation in the ring, and which of the two it is. *)
LEMMA InRingFacts ==
  ASSUME Typed, ToOffset, Placed, NEW op \in InRing
  PROVE  /\ op.block \in 0 .. Pairs - 1 /\ op.block \in Blocks
         /\ op.isRead => op = ReadOf(op.block)
         /\ ~op.isRead => op = WriteOf(op.block)
<1>1. PICK b \in 0 .. Pairs - 1 : op \in {ReadOf(b), WriteOf(b)}
  BY DEF Placed
<1>2. op.block = b
  BY <1>1 DEF ReadOf, WriteOf
<1>3. CASE op = ReadOf(b)
  BY <1>1, <1>2, <1>3 DEF ReadOf, ToOffset
<1>4. CASE op = WriteOf(b)
  BY <1>1, <1>2, <1>4 DEF WriteOf, ToOffset
<1> QED
  BY <1>1, <1>3, <1>4

(* What moves an operation within the ring leaves the counts alone. *)
LEMMA MoveKeepsCounts ==
  ASSUME Counted, InRing' = InRing, UNCHANGED <<operations, outstanding>>,
         pc' # "failed" => pc # "failed"
  PROVE  Counted'
<1>1. \A b : OfBlock(b)' = OfBlock(b)
  BY DEF OfBlock
<1> QED
  BY <1>1 DEF Counted

(* The kernel's results are those that a Cqe can carry. *)
LEMMA OutcomesAreResults ==
  ASSUME NEW b \in Blocks
  PROVE  Outcomes(b) \subseteq Results
<1>1. b \in Nat
  BY BlockFacts
<1>2. b * BlockSize < FileSize /\ b * BlockSize \in Nat
  BY <1>1, BlockFacts, Product, LinkCopyAssumption
<1>3. Size(b) \in 0 .. BlockSize
  BY <1>2, LinkCopyAssumption DEF Size
<1>4. \A n \in 0 .. Size(b) : n \in 0 .. BlockSize
  BY <1>3, LinkCopyAssumption
<1> QED
  BY <1>3, <1>4 DEF Outcomes, Results

-----------------------------------------------------------------------------
(* 2. Every step keeps LinkInv.                                             *)

(* The copy begins with an empty ring. *)
LEMMA InitLinkInv == Init => LinkInv
<1> SUFFICES ASSUME Init PROVE LinkInv
  OBVIOUS
<1>1. /\ sq = <<>> /\ inflight = {} /\ cq = <<>> /\ operations = <<>>
      /\ pc = "fill" /\ offset = 0 /\ outstanding = 0
      /\ unlinked = {} /\ readOk = {} /\ ran = {} /\ written = {} /\ cut = {}
  BY DEF Init, Queues!QInit
<1>2. Range(<<>>) = {} /\ Len(<<>>) = 0
  BY EmptySeq DEF Range
<1>3. Asked(cq) = {} /\ InRing = {} /\ Range(sq) = {}
  BY <1>1, <1>2 DEF Asked, InRing
<1>4. Typed
  <2>1. <<>> \in Seq(0 .. 2) /\ <<>> \in Seq(Ops) /\ <<>> \in Seq(Queues!Cqes)
    BY EmptySeq
  <2>2. 0 \in 0 .. QueueDepth + 1
    BY LinkCopyAssumption
  <2> QED
    BY <1>1, <2>1, <2>2 DEF Typed
<1>5. ToOffset
  <2>1. Pairs = 0
    BY <1>1, <1>2 DEF Pairs
  <2>2. Pairs * BlockSize = 0
    BY <2>1, LinkCopyAssumption
  <2>3. 0 .. Pairs - 1 = {}
    BY <2>1
  <2> QED
    BY <1>1, <2>2, <2>3, LinkCopyAssumption DEF ToOffset
<1>6. Placed
  BY <1>1, <1>2, <1>3 DEF Placed, Once, Distinct, Asked
<1>7. Linked
  BY <1>1, <1>2, <1>3 DEF Linked, Alternate
<1>8. Followed
  BY <1>1 DEF Followed
<1>9. Counted
  <2>1. IsFiniteSet({}) /\ Cardinality({}) = 0
    BY FS_EmptySet
  <2>2. DOMAIN operations = {}
    BY <1>1
  <2> QED
    BY <1>1, <1>3, <2>1, <2>2 DEF Counted
<1>10. Ended
  BY <1>1 DEF Ended
<1> QED
  BY <1>4, <1>5, <1>6, <1>7, <1>8, <1>9, <1>10 DEF LinkInv

(* As long as the counter leaves room for a read, the queue has room for a  *)
(* pair: it holds whole pairs and no more than the counter says.            *)
LEMMA PairFits ==
  ASSUME LinkInv, pc = "fill", MayFill
  PROVE  /\ Len(sq) + 2 <= QueueDepth
         /\ Pairs \in Nat /\ Pairs \in Blocks /\ offset = Pairs * BlockSize
<1>1. /\ IsFiniteSet(InRing) /\ outstanding = Cardinality(InRing)
      /\ outstanding < QueueDepth /\ offset < FileSize
  BY DEF LinkInv, Counted, MayFill
<1>2. sq \in Seq(Ops) /\ operations \in Seq(0 .. 2) /\ Distinct(sq)
  BY DEF LinkInv, Typed, Placed, Once
<1>3. Cardinality(Range(sq)) = Len(sq) /\ Range(sq) \in SUBSET InRing
  BY <1>2, RangeSize DEF InRing
<1>4. Len(sq) <= outstanding
  BY <1>1, <1>3, FS_Subset
<1>5. Len(sq) + 2 <= QueueDepth
  <2>1. Len(sq) \in Nat /\ Len(sq) % 2 = 0
    BY <1>2, LenProperties DEF LinkInv, Linked, Alternate
  <2>2. QueueDepth \in Nat /\ QueueDepth % 2 = 0
    BY LinkCopyAssumption
  <2>3. outstanding \in Nat
    BY DEF LinkInv, Typed
  <2> QED
    BY <1>1, <1>4, <2>1, <2>2, <2>3
<1>6. Pairs \in Nat
  BY <1>2, LenProperties DEF Pairs
<1>7. Pairs * BlockSize < FileSize /\ offset = Pairs * BlockSize
  BY <1>1, LinkCopyAssumption DEF LinkInv, ToOffset
<1> QED
  BY <1>5, <1>6, <1>7, BlockFacts

(* A pair is queued: two operations more, of a block that is new. *)
LEMMA QueuePairKeepsInv ==
  ASSUME LinkInv, QueuePair
  PROVE  LinkInv'
<1> DEFINE b == Pairs
           r == ReadOf(b)
           w == WriteOf(b)
<1>1. pc = "fill" /\ MayFill
  BY DEF QueuePair
<1>2. Len(sq) + 2 <= QueueDepth /\ b \in Nat /\ b \in Blocks /\ offset = b * BlockSize
  BY <1>1, PairFits
<1>3. /\ sq' = sq \o SubSeq(PairOf(b), 1, 2)
      /\ operations' = Append(operations, 0)
      /\ offset' = offset + Size(b)
      /\ outstanding' = outstanding + 2
      /\ UNCHANGED <<pc, inflight, cq, unlinked, readOk, ran, written, cut>>
  BY <1>2 DEF QueuePair, PairSize, kernel, Pairs
<1>4. /\ sq \in Seq(Ops) /\ operations \in Seq(0 .. 2) /\ outstanding \in Nat
      /\ Alternate(sq) /\ Once(sq, inflight, cq)
  BY DEF LinkInv, Typed, Linked, Placed
<1>5. r \in Ops /\ w \in Ops /\ r # w /\ sq' = Append(Append(sq, r), w)
  BY <1>2, <1>3, <1>4, PairAppended
<1>6. \A op \in InRing : op.block # b
  BY InRingFacts DEF LinkInv
<1>7. r.block = b /\ w.block = b
  BY DEF ReadOf, WriteOf
<1>8. Alternate(sq')
  BY <1>2, <1>4, <1>5, PairAlternates
<1> HIDE DEF r, w
<1>9. r \notin InRing /\ w \notin InRing
  BY <1>6, <1>7
<1>10. /\ Once(sq', inflight, cq)
       /\ sq' \in Seq(Ops) /\ Range(sq') = Range(sq) \cup {r, w}
  <2> DEFINE a == Append(sq, r)
  <2>1. a \in Seq(Ops) /\ Range(a) = Range(sq) \cup {r} /\ Once(a, inflight, cq)
    BY <1>4, <1>5, <1>9, AppendRange, OncePush DEF InRing
  <2>2. sq' = Append(a, w)
    BY <1>5
  <2> HIDE DEF a
  <2>3. w \notin Range(a) \cup inflight \cup Asked(cq)
    BY <1>5, <1>9, <2>1 DEF InRing
  <2> QED
    BY <1>5, <2>1, <2>2, <2>3, AppendRange, OncePush
<1>11. InRing' = InRing \cup {r, w}
  BY <1>3, <1>10 DEF InRing
<1>12. Pairs' = b + 1 /\ operations' \in Seq(0 .. 2)
       /\ (\A i \in 1 .. b : operations'[i] = operations[i]) /\ operations'[b + 1] = 0
  BY <1>3, <1>4, AppendProperties DEF Pairs
<1>13. Typed'
  BY <1>1, <1>3, <1>4, <1>10, <1>12, LinkCopyAssumption DEF LinkInv, Typed, MayFill
<1>14. ToOffset'
  <2>1. (b + 1) * BlockSize = b * BlockSize + BlockSize /\ b * BlockSize \in Nat
    BY <1>2, LinkCopyAssumption, Distributed, Product
  <2>2. offset' = IF FileSize - b * BlockSize < BlockSize
                  THEN b * BlockSize + (FileSize - b * BlockSize)
                  ELSE b * BlockSize + BlockSize
    BY <1>2, <1>3 DEF Size
  <2>3. offset' = IF b * BlockSize + BlockSize < FileSize
                  THEN b * BlockSize + BlockSize ELSE FileSize
    BY <2>1, <2>2, LinkCopyAssumption
  <2>4. offset' = IF Pairs' * BlockSize < FileSize THEN Pairs' * BlockSize ELSE FileSize
    BY <1>12, <2>1, <2>3
  <2>5. \A c \in 0 .. Pairs' - 1 : c = b \/ c \in 0 .. Pairs - 1
    BY <1>2, <1>12
  <2> QED
    BY <1>2, <2>4, <2>5 DEF LinkInv, ToOffset
<1>15. Placed'
  <2>1. ASSUME NEW op \in InRing' PROVE \E c \in 0 .. Pairs' - 1 : op \in {ReadOf(c), WriteOf(c)}
    <3>1. CASE op \in InRing
      <4>1. PICK c \in 0 .. Pairs - 1 : op \in {ReadOf(c), WriteOf(c)}
        BY <3>1 DEF LinkInv, Placed
      <4>2. c \in 0 .. Pairs' - 1
        BY <1>2, <1>12
      <4> QED
        BY <4>1, <4>2
    <3>2. CASE op \in {r, w}
      <4>1. b \in 0 .. Pairs' - 1
        BY <1>2, <1>12
      <4> QED
        BY <3>2, <4>1 DEF r, w
    <3> QED
      BY <1>11, <2>1, <3>1, <3>2
  <2>2. Once(sq', inflight', cq')
    BY <1>3, <1>10
  <2> QED
    BY <2>1, <2>2 DEF Placed, Once, Distinct, Asked
<1>16. Linked'
  <2>1. ASSUME NEW c \in Blocks
        PROVE  ReadOf(c) \in Range(sq') <=> WriteOf(c) \in Range(sq')
    <3>1. CASE c = b
      BY <1>10, <3>1 DEF r, w
    <3>2. CASE c # b
      <4>1. ReadOf(c) \notin {r, w} /\ WriteOf(c) \notin {r, w}
        BY <1>7, <3>2 DEF ReadOf, WriteOf
      <4> QED
        BY <1>10, <4>1 DEF LinkInv, Linked
    <3> QED
      BY <3>1, <3>2
  <2>2. pc' = "fill"
    BY <1>1, <1>3
  <2>3. \A c \in Blocks : ReadOf(c) \in inflight' => WriteOf(c) \in inflight'
    BY <1>3 DEF LinkInv, Linked
  <2> QED
    BY <1>8, <2>1, <2>2, <2>3 DEF Linked, Alternate
<1>17. Followed'
  BY <1>3 DEF LinkInv, Followed
<1>18. Counted'
  <2>1. IsFiniteSet(InRing) /\ outstanding = Cardinality(InRing)
        /\ \A i \in DOMAIN operations : operations[i] + Cardinality(OfBlock(i - 1)) = 2
    BY <1>1 DEF LinkInv, Counted
  <2>2. IsFiniteSet({r, w}) /\ Cardinality({r, w}) = 2
    BY <1>5, PairIsTwo
  <2>3. IsFiniteSet(InRing') /\ Cardinality(InRing') = Cardinality(InRing) + 2
    BY <1>9, <1>11, <2>1, <2>2, PutTogether
  <2>4. DOMAIN operations' = 1 .. b + 1 /\ DOMAIN operations = 1 .. b
    BY <1>4, <1>12, LenProperties DEF Pairs
  <2>5. ASSUME NEW i \in 1 .. b + 1
        PROVE  operations'[i] + Cardinality(OfBlock(i - 1)') = 2
    <3>1. CASE i = b + 1
      <4>1. OfBlock(i - 1)' = {r, w}
        BY <1>2, <1>6, <1>7, <1>11, <3>1 DEF OfBlock
      <4>2. operations'[i] = 0 /\ Cardinality(OfBlock(i - 1)') = 2
        BY <1>12, <2>2, <3>1, <4>1
      <4> QED
        BY <4>2
    <3>2. CASE i \in 1 .. b
      <4>1. OfBlock(i - 1)' = OfBlock(i - 1)
        BY <1>2, <1>7, <1>11, <3>2 DEF OfBlock
      <4> QED
        BY <1>12, <2>1, <2>4, <3>2, <4>1
    <3> QED
      BY <1>2, <3>1, <3>2
  <2> QED
    BY <1>3, <2>1, <2>3, <2>4, <2>5 DEF Counted
<1>19. Ended'
  BY <1>1, <1>3 DEF Ended
<1> QED
  BY <1>13, <1>14, <1>15, <1>16, <1>17, <1>18, <1>19 DEF LinkInv

(* The end of the filling loop. *)
LEMMA FilledKeepsInv ==
  ASSUME LinkInv, Filled
  PROVE  LinkInv'
<1>1. /\ pc = "fill" /\ pc' \in {"submit", "drain"}
      /\ pc' = "drain" => ~(outstanding > 0)
      /\ UNCHANGED <<sq, inflight, cq, offset, operations, outstanding, unlinked, readOk, ran, written, cut>>
  BY DEF Filled, AfterFilling, ring, kernel
<1>2. InRing' = InRing /\ Pairs' = Pairs
  BY <1>1 DEF InRing, Pairs, Asked
<1>3. pc' = "drain" => sq = <<>>
  <2> SUFFICES ASSUME pc' = "drain" PROVE sq = <<>>
    OBVIOUS
  <2>1. /\ IsFiniteSet(InRing) /\ outstanding = Cardinality(InRing)
        /\ outstanding \in Nat /\ sq \in Seq(Ops)
    BY <1>1 DEF LinkInv, Typed, Counted
  <2>2. InRing = {}
    BY <1>1, <2>1, FS_EmptySet
  <2>3. Range(sq) = {}
    BY <2>2 DEF InRing
  <2> QED
    BY <2>1, <2>3, RangeTail
<1>4. Typed' /\ ToOffset' /\ Placed'
  BY <1>1, <1>2 DEF LinkInv, Typed, ToOffset, Placed, Once, Distinct, Asked
<1>5. Linked'
  BY <1>1, <1>3 DEF LinkInv, Linked, Alternate
<1>6. Followed' /\ Ended'
  BY <1>1 DEF LinkInv, Followed, Ended
<1>7. Counted'
  BY <1>1, <1>2, MoveKeepsCounts DEF LinkInv
<1> QED
  BY <1>4, <1>5, <1>6, <1>7 DEF LinkInv

(* submit() hands over the whole queue, or fails before it takes anything. *)
LEMMA SubmitKeepsInv ==
  ASSUME ~ShortSubmits, LinkInv, Submit
  PROVE  LinkInv'
<1>1. /\ pc = "submit"
      /\ UNCHANGED <<offset, operations, outstanding, readOk, ran, written, cut>>
  BY DEF Submit
<1>2. sq \in Seq(Ops) /\ Len(sq) \in Nat /\ Alternate(sq) /\ Once(sq, inflight, cq)
  BY LenProperties DEF LinkInv, Typed, Linked, Placed
<1>3. CASE /\ pc' = "failed" \/ (sq = <<>> /\ pc' = "drain")
           /\ UNCHANGED <<ring, unlinked>>
  <2>1. /\ UNCHANGED <<sq, inflight, cq, unlinked>>
        /\ pc' = "failed" \/ (sq = <<>> /\ pc' = "drain")
    BY <1>3 DEF ring
  <2>2. InRing' = InRing /\ Pairs' = Pairs
    BY <1>1, <2>1 DEF InRing, Pairs, Asked
  <2>3. Typed' /\ ToOffset' /\ Placed'
    BY <1>1, <2>1, <2>2 DEF LinkInv, Typed, ToOffset, Placed, Once, Distinct, Asked
  <2>4. Linked'
    BY <2>1 DEF LinkInv, Linked, Alternate
  <2>5. Followed' /\ Ended'
    BY <1>1, <2>1 DEF LinkInv, Followed, Ended
  <2>6. Counted'
    BY <1>1, <2>1, <2>2, MoveKeepsCounts DEF LinkInv
  <2> QED
    BY <2>3, <2>4, <2>5, <2>6 DEF LinkInv
<1>4. CASE /\ Queues!Take(Len(sq)) /\ unlinked' = unlinked \cup Alone(Len(sq))
           /\ pc' = "drain"
  <2>1. /\ sq' = SubSeq(sq, Len(sq) + 1, Len(sq))
        /\ inflight' = inflight \cup {sq[i] : i \in 1 .. Len(sq)} /\ cq' = cq
    BY <1>4 DEF Queues!Take
  <2>2. sq' = <<>>
    BY <1>2, <2>1, SubSeqEmpty
  <2>3. inflight' = inflight \cup Range(sq)
    BY <1>2, <2>1, RangeEquality
  <2>4. Range(<<>>) = {} /\ Len(<<>>) = 0 /\ <<>> \in Seq(Ops)
    BY EmptySeq DEF Range
  <2>5. Range(sq') = {} /\ Len(sq') = 0 /\ sq' \in Seq(Ops)
    BY <2>2, <2>4
  <2>6. unlinked' = {}
    BY <1>2, <1>4, NoneAlone DEF LinkInv, Typed
  <2>7. InRing' = InRing /\ Pairs' = Pairs
    BY <1>1, <2>1, <2>3, <2>5 DEF InRing, Pairs, Asked
  <2>8. \A x \in Range(sq) : x \in Ops
    BY <1>2, RangeEquality, ElementOfSeq
  <2>9. Typed'
    BY <1>1, <1>4, <2>1, <2>3, <2>5, <2>6, <2>8 DEF LinkInv, Typed
  <2>10. Placed'
    <3>1. Once(sq', inflight', cq')
      <4>1. Distinct(sq') /\ Asked(cq') = Asked(cq)
        BY <2>1, <2>5 DEF Distinct, Asked
      <4>2. inflight' \cap Asked(cq) = {}
        BY <1>2, <2>3 DEF Once
      <4> QED
        BY <1>2, <2>1, <2>5, <4>1, <4>2 DEF Once
    <3> QED
      BY <2>7, <3>1 DEF LinkInv, Placed, Once, Distinct, Asked
  <2>11. Linked'
    BY <2>2, <2>3, <2>5 DEF LinkInv, Linked, Alternate
  <2>12. ToOffset' /\ Ended'
    BY <1>1, <1>4, <2>7 DEF LinkInv, ToOffset, Ended
  <2>13. Followed'
    BY <1>1, <2>3 DEF LinkInv, Followed
  <2>14. Counted'
    BY <1>1, <2>7, MoveKeepsCounts DEF LinkInv
  <2> QED
    BY <2>9, <2>10, <2>11, <2>12, <2>13, <2>14 DEF LinkInv
<1>5. \/ /\ pc' = "failed" \/ (sq = <<>> /\ pc' = "drain")
         /\ UNCHANGED <<ring, unlinked>>
      \/ \E k \in 1 .. QueueDepth :
           /\ k = Len(sq) /\ Queues!Take(k) /\ unlinked' = unlinked \cup Alone(k)
           /\ pc' = "drain"
  BY DEF Submit
<1> QED
  BY <1>3, <1>4, <1>5

(* A completion is reaped: the ring holds one operation less, and unless    *)
(* the copy ends there, it counts as done.                                  *)
LEMMA DrainKeepsInv ==
  ASSUME LinkInv, Drain
  PROVE  LinkInv'
<1>0. PICK r, b : r = Head(cq).req /\ b = r.block
  OBVIOUS
<1>1. /\ pc = "drain" /\ cq # <<>> /\ cq' = Tail(cq)
      /\ UNCHANGED <<sq, inflight, offset, unlinked, readOk, ran, written, cut>>
      /\ \/ pc' = "failed" /\ UNCHANGED <<operations, outstanding>>
         \/ /\ pc' = pc
            /\ operations' = [operations EXCEPT ![b + 1] = @ + 1]
            /\ outstanding' = outstanding - 1
  BY <1>0 DEF Drain, Queues!Reap, Finished, kernel
<1>2. /\ cq \in Seq(Queues!Cqes) /\ Once(sq, inflight, cq) /\ operations \in Seq(0 .. 2)
  BY DEF LinkInv, Typed, Placed
<1>3. /\ Once(sq, inflight, cq') /\ cq' \in Seq(Queues!Cqes)
      /\ r \in Asked(cq) /\ Asked(cq') = Asked(cq) \ {r}
  BY <1>0, <1>1, <1>2, OnceReap
<1>4. r \in InRing /\ b \in 0 .. Pairs - 1
  BY <1>0, <1>3, InRingFacts DEF LinkInv, InRing
<1>5. InRing' = InRing \ {r}
  BY <1>1, <1>2, <1>3 DEF InRing, Once
<1>6. Pairs \in Nat /\ b + 1 \in 1 .. Pairs /\ DOMAIN operations = 1 .. Pairs
  BY <1>2, <1>4, LenProperties DEF Pairs
<1>7. /\ IsFiniteSet(InRing) /\ outstanding = Cardinality(InRing)
      /\ \A i \in 1 .. Pairs : operations[i] + Cardinality(OfBlock(i - 1)) = 2
  BY <1>1, <1>6 DEF LinkInv, Counted
<1>8. /\ IsFiniteSet(InRing') /\ Cardinality(InRing') = Cardinality(InRing) - 1
      /\ Cardinality(InRing') \in Nat
  BY <1>4, <1>5, <1>7, FS_RemoveElement, FS_CardinalityType
<1>9. ASSUME NEW c PROVE /\ c # b => OfBlock(c)' = OfBlock(c)
                         /\ c = b => /\ OfBlock(c)' = OfBlock(c) \ {r}
                                     /\ Cardinality(OfBlock(c)') = Cardinality(OfBlock(c)) - 1
                                     /\ Cardinality(OfBlock(c)') \in Nat
  <2>1. CASE c # b
    BY <1>0, <1>5, <2>1 DEF OfBlock
  <2>2. CASE c = b
    <3>1. OfBlock(c)' = OfBlock(c) \ {r} /\ r \in OfBlock(c)
      BY <1>0, <1>4, <1>5, <2>2 DEF OfBlock
    <3>2. OfBlock(c) \in SUBSET InRing
      BY DEF OfBlock
    <3>3. IsFiniteSet(OfBlock(c))
      BY <1>7, <3>2, FS_Subset
    <3> QED
      BY <2>2, <3>1, <3>3, FS_RemoveElement, FS_CardinalityType
  <2> QED
    BY <2>1, <2>2
<1>10. \/ UNCHANGED operations
       \/ /\ operations' \in Seq(0 .. 2) /\ Len(operations') = Pairs
          /\ \A i \in 1 .. Pairs :
               operations'[i] = IF i = b + 1 THEN operations[i] + 1 ELSE operations[i]
  <2> SUFFICES ASSUME operations' = [operations EXCEPT ![b + 1] = @ + 1]
               PROVE  /\ operations' \in Seq(0 .. 2) /\ Len(operations') = Pairs
                      /\ \A i \in 1 .. Pairs :
                           operations'[i] = IF i = b + 1 THEN operations[i] + 1 ELSE operations[i]
    BY <1>1
  <2>1. b + 1 \in 1 .. Len(operations) /\ operations[b + 1] \in 0 .. 2
    BY <1>2, <1>6, ElementOfSeq DEF Pairs
  <2>2. operations[b + 1] + Cardinality(OfBlock(b)) = 2
    <3>1. (b + 1) - 1 = b
      BY <1>4
    <3> QED
      BY <1>6, <1>7, <3>1
  <2>3. operations[b + 1] + 1 \in 0 .. 2
    <3>1. Cardinality(OfBlock(b)') = Cardinality(OfBlock(b)) - 1 /\ Cardinality(OfBlock(b)') \in Nat
      BY <1>9
    <3>2. Cardinality(OfBlock(b)) \in Nat
      <4>1. OfBlock(b) \in SUBSET InRing
        BY DEF OfBlock
      <4> QED
        BY <1>7, <4>1, FS_Subset, FS_CardinalityType
    <3> QED
      BY <2>1, <2>2, <3>1, <3>2
  <2> QED
    BY <1>2, <2>1, <2>3, ExceptSeq DEF Pairs
<1>11. Pairs' = Pairs /\ operations' \in Seq(0 .. 2)
  BY <1>2, <1>10 DEF Pairs
<1>12. Typed'
  <2>1. outstanding' \in 0 .. QueueDepth + 1
    <3>1. outstanding \in 0 .. QueueDepth + 1
      BY DEF LinkInv, Typed
    <3>2. outstanding' = outstanding \/ outstanding' = outstanding - 1
      BY <1>1
    <3> QED
      BY <1>7, <1>8, <3>1, <3>2, LinkCopyAssumption
  <2>2. pc' \in {"drain", "failed"}
    BY <1>1
  <2> QED
    BY <1>1, <1>3, <1>11, <2>1, <2>2 DEF LinkInv, Typed
<1>13. ToOffset'
  BY <1>1, <1>11 DEF LinkInv, ToOffset
<1>14. Placed'
  BY <1>1, <1>3, <1>5, <1>11 DEF LinkInv, Placed, Once, Distinct, Asked
<1>15. Linked' /\ Followed' /\ Ended'
  BY <1>1 DEF LinkInv, Linked, Alternate, Followed, Ended
<1>16. Counted'
  <2> SUFFICES ASSUME pc' # "failed"
               PROVE  /\ IsFiniteSet(InRing') /\ outstanding' = Cardinality(InRing')
                      /\ \A i \in DOMAIN operations' :
                           operations'[i] + Cardinality(OfBlock(i - 1)') = 2
    BY DEF Counted
  <2>1. /\ operations' = [operations EXCEPT ![b + 1] = @ + 1]
        /\ outstanding' = outstanding - 1
    BY <1>1
  <2>2. DOMAIN operations' = 1 .. Pairs
    BY <1>6, <2>1
  <2>3. ASSUME NEW i \in 1 .. Pairs
        PROVE  operations'[i] + Cardinality(OfBlock(i - 1)') = 2
    <3>1. /\ operations[i] \in 0 .. 2 /\ operations[i] + Cardinality(OfBlock(i - 1)) = 2
          /\ operations'[i] = IF i = b + 1 THEN operations[i] + 1 ELSE operations[i]
      BY <1>2, <1>6, <1>7, <2>1, ElementOfSeq DEF Pairs
    <3>2. CASE i = b + 1
      <4>1. i - 1 = b
        BY <1>4, <3>2
      <4>2. /\ Cardinality(OfBlock(i - 1)') = Cardinality(OfBlock(i - 1)) - 1
            /\ Cardinality(OfBlock(i - 1)') \in Nat
        BY <1>9, <4>1
      <4>3. Cardinality(OfBlock(i - 1)) \in Nat
        <5>1. OfBlock(i - 1) \in SUBSET InRing
          BY DEF OfBlock
        <5> QED
          BY <1>7, <5>1, FS_Subset, FS_CardinalityType
      <4> QED
        BY <3>1, <3>2, <4>2, <4>3
    <3>3. CASE i # b + 1
      <4>1. i - 1 # b
        BY <1>4, <3>3
      <4>2. OfBlock(i - 1)' = OfBlock(i - 1)
        BY <1>9, <4>1
      <4> QED
        BY <3>1, <3>3, <4>2
    <3> QED
      BY <3>2, <3>3
  <2> QED
    BY <1>7, <1>8, <2>1, <2>2, <2>3
<1> QED
  BY <1>12, <1>13, <1>14, <1>15, <1>16 DEF LinkInv

(* The end of the draining loop. *)
LEMMA DrainedKeepsInv ==
  ASSUME LinkInv, Drained
  PROVE  LinkInv'
<1>1. /\ pc = "drain" /\ pc' \in {"fill", "done"}
      /\ pc' = "done" => ~(offset < FileSize \/ outstanding > 0)
      /\ UNCHANGED <<sq, inflight, cq, offset, operations, outstanding, unlinked, readOk, ran, written, cut>>
  BY DEF Drained, MoreToDo, ring, kernel
<1>2. InRing' = InRing /\ Pairs' = Pairs
  BY <1>1 DEF InRing, Pairs, Asked
<1>3. Typed' /\ ToOffset' /\ Placed'
  BY <1>1, <1>2 DEF LinkInv, Typed, ToOffset, Placed, Once, Distinct, Asked
<1>4. Linked'
  BY <1>1 DEF LinkInv, Linked, Alternate
<1>5. Followed'
  BY <1>1 DEF LinkInv, Followed
<1>6. Ended'
  <2>1. offset \in Nat /\ outstanding \in Nat /\ FileSize \in Nat
    <3>1. Pairs \in Nat
      BY LenProperties DEF LinkInv, Typed, Pairs
    <3>2. Pairs * BlockSize \in Nat
      BY <3>1, Product, LinkCopyAssumption
    <3> QED
      BY <3>2, LinkCopyAssumption DEF LinkInv, Typed, ToOffset
  <2> QED
    BY <1>1, <2>1 DEF Ended
<1>7. Counted'
  BY <1>1, <1>2, MoveKeepsCounts DEF LinkInv
<1> QED
  BY <1>3, <1>4, <1>5, <1>6, <1>7 DEF LinkInv

(* The kernel completes an operation that it holds: it stays in the ring.   *)
LEMMA CompletionKeepsPlaces ==
  ASSUME LinkInv, NEW op, NEW res \in Results, Queues!Complete(op, res),
         UNCHANGED <<pc, offset, operations, outstanding>>
  PROVE  /\ op \in inflight /\ inflight' = inflight \ {op} /\ sq' = sq
         /\ op.block \in Blocks
         /\ op.isRead => op = ReadOf(op.block)
         /\ ~op.isRead => op = WriteOf(op.block)
         /\ cq' \in Seq(Queues!Cqes)
         /\ ToOffset' /\ Placed' /\ Counted' /\ Ended'
<1> DEFINE c == [req |-> op, res |-> res]
<1>1. op \in inflight /\ inflight' = inflight \ {op} /\ sq' = sq /\ cq' = Append(cq, c)
  BY DEF Queues!Complete
<1>2. /\ cq \in Seq(Queues!Cqes) /\ Once(sq, inflight, cq) /\ inflight \subseteq Ops
  BY DEF LinkInv, Typed, Placed
<1>3. c \in Queues!Cqes /\ c.req = op
  BY <1>1, <1>2 DEF Queues!Cqes
<1> HIDE DEF c
<1>4. cq' \in Seq(Queues!Cqes) /\ Asked(cq') = Asked(cq) \cup {op}
  BY <1>1, <1>2, <1>3, AppendProperties, AskedAppend
<1>5. Once(sq', inflight', cq')
  BY <1>1, <1>2, <1>3, OnceComplete
<1>6. InRing' = InRing /\ Pairs' = Pairs
  BY <1>1, <1>4 DEF InRing, Pairs
<1>7. op \in InRing
  BY <1>1 DEF InRing
<1>8. /\ op.block \in Blocks
      /\ op.isRead => op = ReadOf(op.block)
      /\ ~op.isRead => op = WriteOf(op.block)
  BY <1>7, InRingFacts DEF LinkInv
<1>9. ToOffset' /\ Ended'
  BY <1>6 DEF LinkInv, ToOffset, Ended
<1>10. Placed'
  BY <1>5, <1>6 DEF LinkInv, Placed, Once, Distinct, Asked
<1>11. Counted'
  BY <1>6, MoveKeepsCounts DEF LinkInv
<1> QED
  BY <1>1, <1>4, <1>8, <1>9, <1>10, <1>11

(* A read is done. *)
LEMMA ReadKeepsInv ==
  ASSUME LinkInv, NEW op \in inflight, ReadCompletes(op)
  PROVE  LinkInv'
<1>1. PICK res \in Outcomes(op.block) :
        /\ op.isRead /\ Queues!Complete(op, res)
        /\ readOk' = IF res = Size(op.block) THEN readOk \cup {op.block} ELSE readOk
        /\ cut' = CutBy(op.block, res)
        /\ UNCHANGED <<pc, offset, operations, outstanding, unlinked, ran, written>>
  BY DEF ReadCompletes, program
<1>2. op \in InRing
  BY DEF InRing
<1>3. op.block \in Blocks
  BY <1>2, InRingFacts DEF LinkInv
<1>4. res \in Results
  BY <1>1, <1>3, OutcomesAreResults
<1>5. /\ inflight' = inflight \ {op} /\ sq' = sq /\ op = ReadOf(op.block)
      /\ cq' \in Seq(Queues!Cqes)
      /\ ToOffset' /\ Placed' /\ Counted' /\ Ended'
  BY <1>1, <1>4, CompletionKeepsPlaces
<1>6. \A b \in Blocks : WriteOf(b) # op
  BY <1>5 DEF ReadOf, WriteOf
<1>7. Typed'
  BY <1>1, <1>3, <1>5 DEF LinkInv, Typed, CutBy
<1>8. Linked'
  BY <1>1, <1>5, <1>6 DEF LinkInv, Linked, Alternate
<1>9. Followed'
  BY <1>1 DEF LinkInv, Followed
<1> QED
  BY <1>5, <1>7, <1>8, <1>9 DEF LinkInv

(* A write is done, or cancelled: its read is done. *)
LEMMA WriteKeepsInv ==
  ASSUME LinkInv, NEW op \in inflight, WriteCompletes(op)
  PROVE  LinkInv'
<1> DEFINE b == op.block
<1>1. /\ ~op.isRead /\ unlinked = {}
      /\ ~ \E other \in inflight : other.isRead /\ other.block = b
      /\ UNCHANGED <<pc, offset, operations, outstanding, unlinked, readOk>>
  BY DEF WriteCompletes, program, LinkInv, Typed
<1>2. op \in InRing
  BY DEF InRing
<1>3. b \in Blocks
  BY <1>2, InRingFacts DEF LinkInv
<1>4. PICK res \in Results :
        /\ Queues!Complete(op, res)
        /\ ran' = IF b \in readOk THEN ran \cup {b} ELSE ran
        /\ written' \subseteq written \cup {b} /\ cut' \subseteq cut \cup {b}
  <2>1. ECANCELED \in Results /\ \A x \in Outcomes(b) : x \in Results
    BY <1>3, OutcomesAreResults DEF Results
  <2> QED
    BY <1>1, <2>1 DEF WriteCompletes, CutBy
<1>5. /\ inflight' = inflight \ {op} /\ sq' = sq /\ op = WriteOf(b)
      /\ cq' \in Seq(Queues!Cqes)
      /\ ToOffset' /\ Placed' /\ Counted' /\ Ended'
  BY <1>1, <1>4, CompletionKeepsPlaces
<1>6. ReadOf(b) \notin inflight
  BY <1>1 DEF ReadOf
<1>7. \A c \in Blocks : c # b => WriteOf(c) # op
  BY DEF WriteOf
<1> HIDE DEF b
<1>8. Typed'
  BY <1>1, <1>3, <1>4, <1>5 DEF LinkInv, Typed
<1>9. Linked'
  <2>1. ASSUME NEW c \in Blocks, ReadOf(c) \in inflight' PROVE WriteOf(c) \in inflight'
    <3>1. ReadOf(c) \in inflight /\ c # b
      BY <1>5, <1>6, <2>1
    <3> QED
      BY <1>5, <1>7, <3>1 DEF LinkInv, Linked
  <2> QED
    BY <1>1, <1>5, <2>1 DEF LinkInv, Linked, Alternate
<1>10. Followed'
  BY <1>1, <1>4 DEF LinkInv, Followed
<1> QED
  BY <1>5, <1>8, <1>9, <1>10 DEF LinkInv

(* Every step keeps the invariant. *)
LEMMA NextLinkInv ==
  ASSUME ~ShortSubmits, LinkInv, [Next]_vars
  PROVE  LinkInv'
<1>1. CASE QueuePair
  BY <1>1, QueuePairKeepsInv
<1>2. CASE Filled
  BY <1>2, FilledKeepsInv
<1>3. CASE Submit
  BY <1>3, SubmitKeepsInv
<1>4. CASE Drain
  BY <1>4, DrainKeepsInv
<1>5. CASE Drained
  BY <1>5, DrainedKeepsInv
<1>6. ASSUME NEW op \in inflight, ReadCompletes(op) PROVE LinkInv'
  BY <1>6, ReadKeepsInv
<1>7. ASSUME NEW op \in inflight, WriteCompletes(op) PROVE LinkInv'
  BY <1>7, WriteKeepsInv
<1>8. CASE UNCHANGED vars
  <2>1. UNCHANGED <<sq, inflight, cq, pc, offset, operations, outstanding, unlinked, readOk, ran, written, cut>>
    BY <1>8 DEF vars, ring, program, kernel
  <2>2. InRing' = InRing /\ Pairs' = Pairs
    BY <2>1 DEF InRing, Pairs, Asked
  <2>3. Typed' /\ ToOffset' /\ Placed'
    BY <2>1, <2>2 DEF LinkInv, Typed, ToOffset, Placed, Once, Distinct, Asked
  <2>4. Linked' /\ Followed' /\ Ended'
    BY <2>1 DEF LinkInv, Linked, Alternate, Followed, Ended
  <2>5. Counted'
    BY <2>1, <2>2, MoveKeepsCounts DEF LinkInv
  <2> QED
    BY <2>3, <2>4, <2>5 DEF LinkInv
<1> QED
  BY <1>1, <1>2, <1>3, <1>4, <1>5, <1>6, <1>7, <1>8 DEF Next, Program, Kernel

-----------------------------------------------------------------------------
(* 3. Every step keeps DestInv.                                             *)

(* The copy begins with no block. *)
LEMMA InitDestInv == Init => DestInv
<1> SUFFICES ASSUME Init PROVE DestInv
  OBVIOUS
<1>1. readOk = {} /\ written = {} /\ cut = {} /\ operations = <<>>
  BY DEF Init
<1>2. Pairs = 0
  BY <1>1, EmptySeq DEF Pairs
<1> QED
  BY <1>1, <1>2 DEF DestInv

(* A result is of the whole block, or of less, or an error. *)
LEMMA OutcomeKinds ==
  ASSUME NEW b \in Blocks, NEW res \in Outcomes(b)
  PROVE  /\ CutBy(b, res) = (IF res \in 0 .. Size(b) - 1 THEN cut \cup {b} ELSE cut)
         /\ res = Size(b) \/ res \in 0 .. Size(b) - 1 \/ res = EIO
         /\ res = Size(b) => res \notin 0 .. Size(b) - 1
<1>1. b \in Nat
  BY BlockFacts
<1>2. b * BlockSize < FileSize /\ b * BlockSize \in Nat
  BY <1>1, BlockFacts, Product, LinkCopyAssumption
<1>3. Size(b) \in Nat
  BY <1>2, LinkCopyAssumption DEF Size
<1>4. res = Size(b) \/ res \in 0 .. Size(b) \/ res = EIO
  BY DEF Outcomes
<1> QED
  BY <1>3, <1>4 DEF CutBy

(* A step that only moves operations from the queue to the kernel, or takes *)
(* a completion that is no error.                                           *)
LEMMA MoveKeepsDest ==
  ASSUME DestInv, UNCHANGED <<readOk, written, cut>>, Pairs' = Pairs,
         Pending' = Pending, Erred => Erred'
  PROVE  DestInv'
<1>1. \A b \in 0 .. Pairs - 1 : Accounted(b) => Accounted(b)'
  BY DEF Accounted
<1>2. \A b \in 0 .. Pairs - 1 : Accounted(b)'
  BY <1>1 DEF DestInv
<1> QED
  BY <1>2 DEF DestInv

(* A pair is queued: its read and its write are to come. *)
LEMMA QueuePairKeepsDest ==
  ASSUME LinkInv, DestInv, QueuePair
  PROVE  DestInv'
<1> DEFINE p == Pairs
           r == ReadOf(p)
           w == WriteOf(p)
<1>1. pc = "fill" /\ MayFill
  BY DEF QueuePair
<1>2. Len(sq) + 2 <= QueueDepth /\ p \in Nat /\ p \in Blocks
  BY <1>1, PairFits
<1>3. /\ sq' = sq \o SubSeq(PairOf(p), 1, 2)
      /\ operations' = Append(operations, 0)
      /\ UNCHANGED <<pc, inflight, cq, readOk, written, cut>>
  BY <1>2 DEF QueuePair, kernel, Pairs
<1>4. sq \in Seq(Ops) /\ operations \in Seq(0 .. 2)
  BY DEF LinkInv, Typed
<1>5. Pairs' = p + 1
  BY <1>3, <1>4, AppendProperties DEF Pairs
<1>6. Pending' = Pending \cup {r, w}
  <2> DEFINE a == Append(sq, r)
  <2>1. r \in Ops /\ w \in Ops /\ sq' = Append(a, w)
    BY <1>2, <1>3, <1>4, PairAppended
  <2>2. a \in Seq(Ops) /\ Range(a) = Range(sq) \cup {r}
    BY <1>4, <2>1, AppendRange
  <2> HIDE DEF a, r, w
  <2>3. Range(sq') = Range(sq) \cup {r, w}
    BY <2>1, <2>2, AppendRange
  <2> QED
    BY <1>3, <2>3 DEF Pending
<1>7. \A b : b # p => ReadOf(b) \notin {r, w} /\ WriteOf(b) \notin {r, w}
  BY DEF ReadOf, WriteOf
<1>8. \A b \in 0 .. p - 1 : b # p /\ b \in 0 .. Pairs' - 1
  BY <1>2, <1>5
<1>9. p \notin readOk \cup cut
  BY <1>8 DEF DestInv
<1>10. ASSUME NEW b \in 0 .. Pairs' - 1 PROVE Accounted(b)'
  <2>1. CASE b = p
    BY <1>6, <2>1 DEF Accounted
  <2>2. CASE b \in 0 .. p - 1
    <3>1. Accounted(b)
      BY <2>2 DEF DestInv
    <3>2. Erred' <=> Erred
      BY <1>3 DEF Erred
    <3> QED
      BY <1>3, <1>6, <3>1, <3>2 DEF Accounted
  <2> QED
    BY <1>2, <1>5, <2>1, <2>2
<1>11. \A b \in readOk \cup cut : b \in 0 .. Pairs' - 1 /\ ReadOf(b) \notin Pending'
  BY <1>6, <1>7, <1>8 DEF DestInv
<1>12. \A b \in readOk \cap (cut \cup written) : WriteOf(b) \notin Pending'
  BY <1>6, <1>7, <1>9 DEF DestInv
<1> QED
  BY <1>3, <1>10, <1>11, <1>12 DEF DestInv

(* submit() moves the queue into the kernel, or fails. *)
LEMMA SubmitKeepsDest ==
  ASSUME ~ShortSubmits, LinkInv, DestInv, Submit
  PROVE  DestInv'
<1>1. /\ pc = "submit" /\ UNCHANGED <<operations, readOk, written, cut>>
      /\ pc' \in {"failed", "drain"}
      /\ \/ UNCHANGED ring
         \/ \E k \in 1 .. QueueDepth : k = Len(sq) /\ Queues!Take(k)
  BY DEF Submit
<1>2. sq \in Seq(Ops) /\ Len(sq) \in Nat /\ Range(sq) = {sq[i] : i \in 1 .. Len(sq)}
  BY LenProperties, RangeEquality DEF LinkInv, Typed
<1>3. cq' = cq /\ Pending' = Pending
  <2>1. CASE UNCHANGED ring
    BY <2>1 DEF ring, Pending
  <2>2. CASE Queues!Take(Len(sq))
    <3>1. /\ sq' = SubSeq(sq, Len(sq) + 1, Len(sq)) /\ cq' = cq
          /\ inflight' = inflight \cup Range(sq)
      BY <1>2, <2>2 DEF Queues!Take
    <3>2. SubSeq(sq, Len(sq) + 1, Len(sq)) = <<>>
      BY <1>2, SubSeqEmpty
    <3>3. Range(<<>>) = {}
      BY EmptySeq DEF Range
    <3> QED
      BY <3>1, <3>2, <3>3 DEF Pending
  <2> QED
    BY <1>1, <2>1, <2>2
<1>4. Pairs' = Pairs
  BY <1>1 DEF Pairs
<1>5. Erred => Erred'
  BY <1>1, <1>3 DEF Erred
<1> QED
  BY <1>1, <1>3, <1>4, <1>5, MoveKeepsDest

(* An error that is drained ends the copy; one that is not stays. *)
LEMMA DrainKeepsDest ==
  ASSUME LinkInv, DestInv, Drain
  PROVE  DestInv'
<1>1. /\ pc = "drain" /\ cq # <<>> /\ cq' = Tail(cq)
      /\ UNCHANGED <<sq, inflight, readOk, written, cut>>
      /\ \/ pc' = "failed" /\ UNCHANGED operations
         \/ /\ ~EndsCopy(Head(cq).res)
            /\ operations' = [operations EXCEPT ![Head(cq).req.block + 1] = @ + 1]
  BY DEF Drain, Queues!Reap, kernel
<1>2. cq \in Seq(Queues!Cqes) /\ operations \in Seq(0 .. 2)
  BY DEF LinkInv, Typed
<1>3. Pairs' = Pairs
  <2>1. ASSUME NEW x, operations' = [operations EXCEPT ![x] = @ + 1]
        PROVE  DOMAIN operations' = DOMAIN operations
    BY <2>1
  <2>2. DOMAIN operations' = DOMAIN operations
    BY <1>1, <2>1
  <2>3. LinkInv'
    BY DrainKeepsInv
  <2>4. operations' \in Seq(0 .. 2)
    BY <2>3 DEF LinkInv, Typed
  <2> QED
    BY <1>2, <2>2, <2>4, LenProperties DEF Pairs
<1>4. Erred => Erred'
  <2> SUFFICES ASSUME NEW i \in 1 .. Len(cq), cq[i].res = EIO, pc' # "failed"
               PROVE  \E j \in 1 .. Len(cq') : cq'[j].res = EIO
    BY <1>1 DEF Erred
  <2>1. Head(cq).res # EIO
    BY <1>1 DEF EndsCopy, EIO, ECANCELED
  <2>2. Head(cq) = cq[1] /\ Len(cq') = Len(cq) - 1 /\ Len(cq) \in Nat
        /\ \A j \in 1 .. Len(cq') : cq'[j] = cq[j + 1]
    BY <1>1, <1>2, HeadTailProperties, LenProperties
  <2>3. i - 1 \in 1 .. Len(cq') /\ (i - 1) + 1 = i
    BY <2>1, <2>2
  <2> QED
    BY <2>2, <2>3
<1>5. Pending' = Pending
  BY <1>1 DEF Pending
<1> QED
  BY <1>1, <1>3, <1>4, <1>5, MoveKeepsDest

(* The kernel completes an operation that it holds. *)
LEMMA CompletionKeepsPending ==
  ASSUME LinkInv, NEW op, NEW res, Queues!Complete(op, res), UNCHANGED <<pc, operations>>
  PROVE  /\ op \in Pending /\ Pending' = Pending \ {op} /\ Pairs' = Pairs
         /\ op.block \in 0 .. Pairs - 1 /\ op.block \in Blocks
         /\ op.isRead => op = ReadOf(op.block)
         /\ ~op.isRead => op = WriteOf(op.block)
         /\ Erred => Erred'
         /\ res = EIO => Erred'
<1> DEFINE c == [req |-> op, res |-> res]
<1>1. op \in inflight /\ inflight' = inflight \ {op} /\ sq' = sq /\ cq' = Append(cq, c)
  BY DEF Queues!Complete
<1>2. cq \in Seq(Queues!Cqes) /\ Once(sq, inflight, cq) /\ op \in InRing
  BY <1>1 DEF LinkInv, Typed, Placed, InRing
<1>3. op \notin Range(sq)
  BY <1>1, <1>2 DEF Once
<1>4. Pending' = Pending \ {op}
  BY <1>1, <1>3 DEF Pending
<1>5. /\ op.block \in 0 .. Pairs - 1 /\ op.block \in Blocks
      /\ op.isRead => op = ReadOf(op.block)
      /\ ~op.isRead => op = WriteOf(op.block)
  BY <1>2, InRingFacts DEF LinkInv
<1>6. /\ Len(cq') = Len(cq) + 1 /\ Len(cq) \in Nat
      /\ \A i \in 1 .. Len(cq) : cq'[i] = cq[i]
      /\ cq'[Len(cq) + 1] = c
  BY <1>1, <1>2, AppendProperties, LenProperties
<1>7. Erred => Erred'
  BY <1>6 DEF Erred
<1>8. res = EIO => Erred'
  <2>1. c.res = res /\ Len(cq) + 1 \in 1 .. Len(cq')
    BY <1>6
  <2> QED
    BY <1>6, <2>1 DEF Erred
<1> QED
  BY <1>1, <1>4, <1>5, <1>7, <1>8 DEF Pending, Pairs

(* What is known of the other blocks is not touched. *)
LEMMA OthersAccounted ==
  ASSUME LinkInv, DestInv, NEW op, NEW res, Queues!Complete(op, res),
         UNCHANGED <<pc, operations>>,
         readOk \subseteq readOk', written \subseteq written', cut \subseteq cut',
         NEW b \in 0 .. Pairs - 1, b # op.block
  PROVE  Accounted(b)'
<1>1. ReadOf(b) # op /\ WriteOf(b) # op
  BY DEF ReadOf, WriteOf
<1>2. Accounted(b)
  BY DEF DestInv
<1>3. Pending' = Pending \ {op} /\ (Erred => Erred')
  BY CompletionKeepsPending
<1> QED
  BY <1>1, <1>2, <1>3 DEF Accounted

(* A read is done: whole, and its write is to come, or short, or an error. *)
LEMMA ReadKeepsDest ==
  ASSUME LinkInv, DestInv, NEW op \in inflight, ReadCompletes(op)
  PROVE  DestInv'
<1> DEFINE d == op.block
<1>1. PICK res \in Outcomes(d) :
        /\ op.isRead /\ Queues!Complete(op, res)
        /\ readOk' = IF res = Size(d) THEN readOk \cup {d} ELSE readOk
        /\ cut' = CutBy(d, res)
        /\ UNCHANGED <<pc, offset, operations, outstanding, written>>
  BY DEF ReadCompletes, program
<1>2. /\ Pending' = Pending \ {op} /\ Pairs' = Pairs /\ op \in Pending
      /\ d \in 0 .. Pairs - 1 /\ d \in Blocks /\ op = ReadOf(d)
      /\ res = EIO => Erred'
  BY <1>1, CompletionKeepsPending
<1>3. d \notin readOk \cup cut
  BY <1>2 DEF DestInv
<1>4. /\ cut' = IF res \in 0 .. Size(d) - 1 THEN cut \cup {d} ELSE cut
      /\ res = Size(d) \/ res \in 0 .. Size(d) - 1 \/ res = EIO
      /\ res = Size(d) => res \notin 0 .. Size(d) - 1
  BY <1>1, <1>2, OutcomeKinds
<1>5. WriteOf(d) \in Pending' /\ \A b : WriteOf(b) # op
  <2>1. WriteOf(d) \in inflight
    BY <1>2 DEF LinkInv, Linked
  <2>2. \A b : WriteOf(b) # op
    BY <1>2 DEF ReadOf, WriteOf
  <2> QED
    BY <1>2, <2>1, <2>2 DEF Pending
<1> HIDE DEF d
<1>6. Accounted(d)'
  BY <1>1, <1>2, <1>4, <1>5 DEF Accounted
<1>7. readOk \subseteq readOk' /\ cut \subseteq cut' /\ written \subseteq written'
  BY <1>1, <1>4
<1>8. ASSUME NEW b \in 0 .. Pairs - 1, b # d PROVE Accounted(b)'
  BY <1>1, <1>7, <1>8, OthersAccounted DEF d
<1>9. written' \subseteq readOk' /\ cut' \cap written' = {}
  BY <1>1, <1>3, <1>4, <1>7 DEF DestInv
<1>10. \A b \in readOk' \cup cut' : b \in 0 .. Pairs' - 1 /\ ReadOf(b) \notin Pending'
  <2>1. readOk' \cup cut' \subseteq readOk \cup cut \cup {d}
    BY <1>1, <1>4
  <2> QED
    BY <1>2, <2>1 DEF DestInv
<1>11. \A b \in readOk' \cap (cut' \cup written') : WriteOf(b) \notin Pending'
  <2>1. readOk' \cap (cut' \cup written') \subseteq readOk \cap (cut \cup written)
    BY <1>1, <1>3, <1>4 DEF DestInv
  <2> QED
    BY <1>2, <2>1 DEF DestInv
<1> QED
  BY <1>2, <1>6, <1>8, <1>9, <1>10, <1>11 DEF DestInv

(* A write is done: whole, short, an error, or cancelled. *)
LEMMA WriteKeepsDest ==
  ASSUME LinkInv, DestInv, NEW op \in inflight, WriteCompletes(op)
  PROVE  DestInv'
<1> DEFINE d == op.block
<1>1. /\ ~op.isRead
      /\ UNCHANGED <<pc, offset, operations, outstanding, readOk>>
      /\ \/ /\ d \in readOk
            /\ \E res \in Outcomes(d) :
                 /\ Queues!Complete(op, res)
                 /\ written' = IF res = Size(d) THEN written \cup {d} ELSE written
                 /\ cut' = CutBy(d, res)
         \/ /\ d \notin readOk /\ UNCHANGED <<written, cut>>
            /\ Queues!Complete(op, ECANCELED)
  BY DEF WriteCompletes, program, LinkInv, Typed
<1>2. PICK res :
        /\ Queues!Complete(op, res)
        /\ \/ /\ d \in readOk /\ res \in Outcomes(d)
              /\ written' = IF res = Size(d) THEN written \cup {d} ELSE written
              /\ cut' = CutBy(d, res)
           \/ d \notin readOk /\ UNCHANGED <<written, cut>>
  BY <1>1
<1>3. /\ Pending' = Pending \ {op} /\ Pairs' = Pairs /\ op \in Pending
      /\ d \in 0 .. Pairs - 1 /\ d \in Blocks /\ op = WriteOf(d)
      /\ (res = EIO => Erred') /\ (Erred => Erred')
  BY <1>1, <1>2, CompletionKeepsPending
<1>4. \A b : ReadOf(b) # op
  BY <1>3 DEF ReadOf, WriteOf
<1>5. d \in readOk =>
        /\ d \notin cut \cup written
        /\ cut' = IF res \in 0 .. Size(d) - 1 THEN cut \cup {d} ELSE cut
        /\ written' = IF res = Size(d) THEN written \cup {d} ELSE written
        /\ res = Size(d) \/ res \in 0 .. Size(d) - 1 \/ res = EIO
        /\ res = Size(d) => res \notin 0 .. Size(d) - 1
  <2>1. d \in readOk => d \notin cut \cup written
    BY <1>3 DEF DestInv
  <2> QED
    BY <1>2, <1>3, <2>1, OutcomeKinds
<1>6. d \notin readOk => UNCHANGED <<written, cut>>
  BY <1>2
<1> HIDE DEF d
<1>7. written \subseteq written' /\ cut \subseteq cut' /\ readOk' = readOk
      /\ written' \cup cut' \subseteq written \cup cut \cup {d}
  BY <1>1, <1>5, <1>6
<1>8. Accounted(d)'
  <2>1. CASE d \in readOk
    BY <1>3, <1>5, <1>7, <2>1 DEF Accounted
  <2>2. CASE d \notin readOk
    <3>1. Accounted(d)
      BY <1>3 DEF DestInv
    <3>2. Erred \/ d \in cut \/ ReadOf(d) \in Pending
      BY <2>2, <3>1 DEF Accounted
    <3> QED
      BY <1>3, <1>4, <1>7, <3>2 DEF Accounted
  <2> QED
    BY <2>1, <2>2
<1>9. ASSUME NEW b \in 0 .. Pairs - 1, b # d PROVE Accounted(b)'
  BY <1>1, <1>2, <1>7, <1>9, OthersAccounted DEF d
<1>10. written' \subseteq readOk' /\ cut' \cap written' = {}
  <2>1. written \subseteq readOk /\ cut \cap written = {}
    BY DEF DestInv
  <2> QED
    BY <1>5, <1>6, <1>7, <2>1
<1>11. \A b \in readOk' \cup cut' : b \in 0 .. Pairs' - 1 /\ ReadOf(b) \notin Pending'
  <2>1. readOk' \cup cut' \subseteq readOk \cup cut
    BY <1>5, <1>6, <1>7
  <2> QED
    BY <1>3, <2>1 DEF DestInv
<1>12. \A b \in readOk' \cap (cut' \cup written') : WriteOf(b) \notin Pending'
  <2>1. \A b \in readOk' \cap (cut' \cup written') :
          b = d \/ b \in readOk \cap (cut \cup written)
    BY <1>7
  <2> QED
    BY <1>3, <2>1 DEF DestInv
<1> QED
  BY <1>3, <1>8, <1>9, <1>10, <1>11, <1>12 DEF DestInv

(* Every step keeps both invariants. *)
LEMMA NextDestInv ==
  ASSUME ~ShortSubmits, LinkInv, DestInv, [Next]_vars
  PROVE  DestInv'
<1>1. CASE QueuePair
  BY <1>1, QueuePairKeepsDest
<1>2. CASE Filled \/ Drained \/ UNCHANGED vars
  <2>1. /\ UNCHANGED <<sq, inflight, cq, operations, readOk, written, cut>>
        /\ pc = "failed" => pc' = "failed"
    BY <1>2 DEF Filled, Drained, vars, ring, program, kernel
  <2>2. Pending' = Pending /\ Pairs' = Pairs /\ (Erred => Erred')
    BY <2>1 DEF Pending, Pairs, Erred
  <2> QED
    BY <2>1, <2>2, MoveKeepsDest
<1>3. CASE Submit
  BY <1>3, SubmitKeepsDest
<1>4. CASE Drain
  BY <1>4, DrainKeepsDest
<1>5. ASSUME NEW op \in inflight, ReadCompletes(op) PROVE DestInv'
  BY <1>5, ReadKeepsDest
<1>6. ASSUME NEW op \in inflight, WriteCompletes(op) PROVE DestInv'
  BY <1>6, WriteKeepsDest
<1> QED
  BY <1>1, <1>2, <1>3, <1>4, <1>5, <1>6 DEF Next, Program, Kernel

-----------------------------------------------------------------------------
(* 4. What the invariants imply. *)

(* The types of every variable. *)
LEMMA LinkInvType == LinkInv => TypeOK
<1> SUFFICES ASSUME LinkInv PROVE TypeOK
  OBVIOUS
<1>1. offset \in 0 .. FileSize
  <2>1. Pairs \in Nat
    BY LenProperties DEF LinkInv, Typed, Pairs
  <2>2. Pairs * BlockSize \in Nat
    BY <2>1, Product, LinkCopyAssumption
  <2> QED
    BY <2>2, LinkCopyAssumption DEF LinkInv, ToOffset
<1> QED
  BY <1>1 DEF LinkInv, Typed, TypeOK

(* Both counters are exact. *)
LEMMA LinkInvExact == LinkInv => InflightIsExact
<1> SUFFICES ASSUME LinkInv, pc # "failed" PROVE InflightIsExact
  BY DEF InflightIsExact
<1>1. Queues!Held = InRing
  BY HeldIsInRing DEF LinkInv
<1>2. \A i : {op \in Queues!Held : op.block = i - 1} = OfBlock(i - 1)
  BY <1>1 DEF OfBlock
<1> QED
  BY <1>1, <1>2 DEF InflightIsExact, LinkInv, Counted

(* At the end of the copy. *)
LEMMA LinkInvDone == LinkInv /\ DestInv => OkMeansWritten
<1> SUFFICES ASSUME LinkInv, DestInv, pc = "done"
             PROVE  /\ Pairs = Cardinality(Blocks) /\ Queues!Held = {}
                    /\ written = Blocks \ cut
  BY DEF OkMeansWritten, Pairs
<1>1. offset >= FileSize /\ outstanding = 0
  BY DEF LinkInv, Ended
<1>2. Pairs \in Nat /\ BlockSize \in Nat \ {0} /\ FileSize \in Nat
  BY LenProperties, LinkCopyAssumption DEF LinkInv, Typed, Pairs
<1>3. Pairs \notin Blocks
  <2>1. Pairs * BlockSize \in Nat
    BY <1>2, Product
  <2>2. ~(Pairs * BlockSize < FileSize)
    BY <1>1, <1>2, <2>1 DEF LinkInv, ToOffset
  <2> QED
    BY <1>2, <2>2, BlockFacts
<1>4. PICK n \in Nat : Blocks = 0 .. n - 1
  BY BlockFacts
<1>5. \A b \in 0 .. Pairs - 1 : b \in Blocks
  BY DEF LinkInv, ToOffset
<1>6. Pairs = n
  <2>1. n <= Pairs
    BY <1>2, <1>3, <1>4
  <2>2. CASE Pairs = 0
    BY <2>1, <2>2, <1>2, <1>4
  <2>3. CASE Pairs > 0
    <3>1. Pairs - 1 \in 0 .. Pairs - 1
      BY <1>2, <2>3
    <3>2. Pairs - 1 \in 0 .. n - 1
      BY <1>4, <1>5, <3>1
    <3> QED
      BY <1>2, <1>4, <2>1, <3>2
  <2> QED
    BY <1>2, <2>2, <2>3
<1>7. Cardinality(Blocks) = n
  <2>1. Cardinality(0 .. n - 1) = IF 0 > n - 1 THEN 0 ELSE n - 1 - 0 + 1
    BY <1>4, FS_Interval
  <2> QED
    BY <1>4, <2>1
<1>8. InRing = {}
  <2>1. IsFiniteSet(InRing) /\ Cardinality(InRing) = 0
    BY <1>1 DEF LinkInv, Counted
  <2> QED
    BY <2>1, FS_EmptySet
<1>9. Pending = {} /\ ~Erred
  <2>1. cq \in Seq(Queues!Cqes) /\ Asked(cq) = {}
    BY <1>8 DEF InRing, LinkInv, Typed
  <2>2. 1 .. Len(cq) = {}
    BY <2>1 DEF Asked
  <2> QED
    BY <1>8, <2>2 DEF Pending, InRing, Erred
<1>10. written = Blocks \ cut
  <2>1. \A b \in Blocks : b \in cut \/ b \in written
    BY <1>4, <1>6, <1>9 DEF DestInv, Accounted
  <2>2. written \subseteq Blocks /\ cut \cap written = {}
    BY DEF DestInv, LinkInv, Typed
  <2> QED
    BY <2>1, <2>2
<1>11. Queues!Held = {}
  BY <1>8, HeldIsInRing DEF LinkInv
<1> QED
  BY <1>6, <1>7, <1>10, <1>11

-----------------------------------------------------------------------------
(* 5. The theorems.                                                         *)

(* The inductive invariant holds in every reachable state: the pairs are    *)
(* queued, submitted and waited for as pairs.                               *)
THEOREM LinkInvariant ==
  ASSUME ~ShortSubmits
  PROVE  Spec => []LinkInv
<1>1. Init => LinkInv
  BY InitLinkInv
<1>2. LinkInv /\ [Next]_vars => LinkInv'
  BY NextLinkInv
<1> QED
  BY <1>1, <1>2, PTL DEF Spec

(* inflight of the code, an unsigned counter, never drops below zero, and   *)
(* passes QUEUE_DEPTH by at most one.                                       *)
THEOREM LinkTypeCorrect ==
  ASSUME ~ShortSubmits
  PROVE  Spec => []TypeOK
BY LinkInvariant, LinkInvType, PTL

(* The counter that ends the loop is the number of operations in the ring,  *)
(* and each IoData counts the completed ones of its pair.                   *)
THEOREM InflightStaysExact ==
  ASSUME ~ShortSubmits
  PROVE  Spec => []InflightIsExact
BY LinkInvariant, LinkInvExact, PTL

(* No write is executed before its read returned the whole block.           *)
THEOREM WritesFollowReads ==
  ASSUME ~ShortSubmits
  PROVE  Spec => []WriteAfterRead
<1>1. LinkInv => WriteAfterRead
  BY DEF LinkInv, Followed, WriteAfterRead
<1> QED
  BY <1>1, LinkInvariant, PTL

(* What became of each block is known in every reachable state. *)
THEOREM BlocksAccounted ==
  ASSUME ~ShortSubmits
  PROVE  Spec => []DestInv
<1>1. Init => DestInv
  BY InitDestInv
<1>2. LinkInv /\ DestInv /\ [Next]_vars => DestInv'
  BY NextDestInv
<1> QED
  BY <1>1, <1>2, LinkInvariant, PTL DEF Spec

(* Ok means that nothing is left in the ring and that what is missing in    *)
(* the destination is the blocks with a short read or a short write, all of *)
(* them and no other.                                                       *)
THEOREM OkMeansAllWritten ==
  ASSUME ~ShortSubmits
  PROVE  Spec => []OkMeansWritten
BY LinkInvariant, BlocksAccounted, LinkInvDone, PTL
=============================================================================
