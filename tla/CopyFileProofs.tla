--------------------------- MODULE CopyFileProofs ---------------------------
(***************************************************************************)
(* Theorems about module CopyFile, for every file, block and queue size.   *)
(*                                                                         *)
(* The invariants the runs check relate the program's counters to the      *)
(* ring.  What makes them inductive is CopyInv: the operations in          *)
(* pending_operations are disjoint pieces of the file, each of them is in  *)
(* exactly one place of the ring, and bytesToWrite counts the bytes that   *)
(* are not written for good.                                               *)
(***************************************************************************)
EXTENDS CopyFile, QueueLemmas

-----------------------------------------------------------------------------
(* 1. The sequence pending_operations.                                      *)

(* An element of a sequence without repetitions is removed. *)
LEMMA RemoveRange ==
  ASSUME NEW S, NEW q \in Seq(S), Distinct(q), NEW p \in 1 .. Len(q)
  PROVE  /\ RemoveAt(q, p) \in Seq(S) /\ Distinct(RemoveAt(q, p))
         /\ Len(RemoveAt(q, p)) = Len(q) - 1
         /\ Range(RemoveAt(q, p)) = Range(q) \ {q[p]}
<1> DEFINE front == SubSeq(q, 1, p - 1)
           back == SubSeq(q, p + 1, Len(q))
           r == RemoveAt(q, p)
<1>1. Len(q) \in Nat /\ \A i \in 1 .. Len(q) : q[i] \in S
  BY LenProperties, ElementOfSeq
<1>2. /\ front \in Seq(S) /\ Len(front) = p - 1
      /\ \A i \in 1 .. p - 1 : front[i] = q[i]
  <2>1. /\ front \in Seq(S)
        /\ Len(front) = IF 1 <= p - 1 THEN (p - 1) - 1 + 1 ELSE 0
        /\ \A i \in 1 .. (p - 1) - 1 + 1 : front[i] = q[1 + i - 1]
    BY <1>1, SubSeqProperties
  <2> HIDE DEF front
  <2>2. Len(front) = p - 1
    BY <2>1
  <2>3. ASSUME NEW i \in 1 .. p - 1 PROVE front[i] = q[i]
    <3>1. i \in 1 .. (p - 1) - 1 + 1 /\ 1 + i - 1 = i
      OBVIOUS
    <3> QED
      BY <2>1, <3>1
  <2> QED
    BY <2>1, <2>2, <2>3
<1>3. /\ back \in Seq(S) /\ Len(back) = Len(q) - p
      /\ \A i \in 1 .. Len(q) - p : back[i] = q[p + i]
  <2>1. /\ back \in Seq(S)
        /\ Len(back) = IF p + 1 <= Len(q) THEN Len(q) - (p + 1) + 1 ELSE 0
        /\ \A i \in 1 .. Len(q) - (p + 1) + 1 : back[i] = q[(p + 1) + i - 1]
    BY <1>1, SubSeqProperties
  <2> HIDE DEF back
  <2>2. Len(back) = Len(q) - p
    BY <1>1, <2>1
  <2>3. ASSUME NEW i \in 1 .. Len(q) - p PROVE back[i] = q[p + i]
    <3>1. i \in 1 .. Len(q) - (p + 1) + 1 /\ (p + 1) + i - 1 = p + i
      BY <1>1
    <3> QED
      BY <2>1, <3>1
  <2> QED
    BY <2>1, <2>2, <2>3
<1> HIDE DEF front, back
<1>4. /\ r \in Seq(S) /\ Len(r) = Len(q) - 1
      /\ \A i \in 1 .. Len(q) - 1 : r[i] = IF i <= p - 1 THEN q[i] ELSE q[i + 1]
  <2>1. r = front \o back
    BY DEF RemoveAt, front, back
  <2> HIDE DEF r
  <2>2. /\ r \in Seq(S) /\ Len(r) = Len(front) + Len(back)
        /\ \A i \in 1 .. Len(front) + Len(back) :
             r[i] = IF i <= Len(front) THEN front[i] ELSE back[i - Len(front)]
    BY <1>2, <1>3, <2>1, ConcatProperties
  <2>3. Len(front) + Len(back) = Len(q) - 1 /\ Len(front) = p - 1
    BY <1>1, <1>2, <1>3
  <2>4. ASSUME NEW i \in 1 .. Len(q) - 1, i <= p - 1 PROVE r[i] = q[i]
    BY <1>2, <2>2, <2>3, <2>4
  <2>5. ASSUME NEW i \in 1 .. Len(q) - 1, ~(i <= p - 1) PROVE r[i] = q[i + 1]
    <3>1. i - (p - 1) \in 1 .. Len(q) - p /\ p + (i - (p - 1)) = i + 1
      BY <1>1, <2>5
    <3>2. back[i - (p - 1)] = q[i + 1]
      BY <1>3, <3>1
    <3> QED
      BY <2>2, <2>3, <2>5, <3>2
  <2> QED
    BY <2>2, <2>3, <2>4, <2>5
<1> HIDE DEF r
<1> DEFINE At(i) == IF i <= p - 1 THEN i ELSE i + 1
<1>5. ASSUME NEW i \in 1 .. Len(r) PROVE At(i) \in 1 .. Len(q) /\ At(i) # p /\ r[i] = q[At(i)]
  BY <1>1, <1>4
<1>6. Distinct(r)
  <2> SUFFICES ASSUME NEW i \in 1 .. Len(r), NEW j \in 1 .. Len(r), r[i] = r[j]
               PROVE  i = j
    BY DEF Distinct
  <2>1. At(i) \in 1 .. Len(q) /\ At(j) \in 1 .. Len(q) /\ q[At(i)] = q[At(j)]
    BY <1>5
  <2> HIDE DEF At
  <2>2. At(i) = At(j)
    BY <2>1 DEF Distinct
  <2> QED
    BY <1>1, <1>4, <2>2 DEF At
<1>7. ASSUME NEW x \in Range(r) PROVE x \in Range(q) \ {q[p]}
  <2>1. PICK i \in 1 .. Len(r) : r[i] = x
    BY <1>4, InRange
  <2>2. At(i) \in 1 .. Len(q) /\ At(i) # p /\ q[At(i)] = x
    BY <1>5, <2>1
  <2> HIDE DEF At
  <2>3. x # q[p]
    BY <2>2 DEF Distinct
  <2> QED
    BY <2>2, <2>3, InRange
<1>8. ASSUME NEW x \in Range(q), x # q[p] PROVE x \in Range(r)
  <2>1. PICK i \in 1 .. Len(q) : q[i] = x
    BY InRange
  <2>2. i # p
    BY <1>8, <2>1
  <2>3. CASE i < p
    <3>1. i \in 1 .. Len(r) /\ r[i] = q[i]
      BY <1>1, <1>4, <2>3
    <3> QED
      BY <1>4, <2>1, <3>1, InRange
  <2>4. CASE i > p
    <3>1. i - 1 \in 1 .. Len(r) /\ ~(i - 1 <= p - 1) /\ (i - 1) + 1 = i
      BY <1>1, <1>4, <2>4
    <3>2. r[i - 1] = q[i]
      BY <1>4, <3>1
    <3> QED
      BY <1>4, <2>1, <3>1, <3>2, InRange
  <2> QED
    BY <2>2, <2>3, <2>4
<1>9. Range(r) = Range(q) \ {q[p]}
  BY <1>7, <1>8
<1> QED
  BY <1>4, <1>6, <1>9 DEF r

-----------------------------------------------------------------------------
(* 2. Operations as pieces of the file.                                     *)

Bytes(op) == op.offset .. op.offset + op.len - 1
Span(P)   == UNION {Bytes(op) : op \in P}

(* The operations P lie one behind the other, below end; a read is for at   *)
(* least one byte.                                                          *)
LaidOut(P, end) ==
  /\ \A a, b \in P : a.offset = b.offset => a = b
  /\ \A a, b \in P : a.offset < b.offset => a.offset + a.len <= b.offset
  /\ \A a \in P : a.offset < end /\ a.offset + a.len <= end /\ (a.isRead => a.len > 0)

Readers(P) == {op \in P : op.isRead}
Writers(P) == {op \in P : ~op.isRead}

(* The bytes below end that are not written for good. *)
Lost(P, end, bytes) == (0 .. end - 1) \ (bytes \ Span(P))

(* A byte of an operation, as inequalities. *)
LEMMA InBytes ==
  ASSUME NEW op \in Ops
  PROVE  /\ op.offset \in 0 .. FileSize /\ op.len \in Nat /\ op.isRead \in BOOLEAN
         /\ IsFiniteSet(Bytes(op)) /\ Cardinality(Bytes(op)) = op.len
         /\ \A b : b \in Bytes(op) <=> b \in Int /\ op.offset <= b /\ b < op.offset + op.len
<1>1. op.offset \in 0 .. FileSize /\ op.len \in 0 .. BlockSize /\ op.isRead \in BOOLEAN
  BY DEF Ops
<1>2. FileSize \in Nat /\ BlockSize \in Nat
  BY CopyAssumption
<1>3. op.offset \in Int /\ op.offset + op.len - 1 \in Int /\ op.len \in Nat
  BY <1>1, <1>2
<1>4. /\ IsFiniteSet(Bytes(op))
      /\ Cardinality(Bytes(op)) = IF op.offset > op.offset + op.len - 1 THEN 0
                                  ELSE (op.offset + op.len - 1) - op.offset + 1
  BY <1>3, FS_Interval DEF Bytes
<1>5. Cardinality(Bytes(op)) = op.len
  BY <1>3, <1>4
<1>6. \A b : b \in Bytes(op) <=> b \in Int /\ op.offset <= b /\ b < op.offset + op.len
  BY <1>3 DEF Bytes
<1> QED
  BY <1>1, <1>3, <1>4, <1>5, <1>6

(* Different operations have no byte in common, and all are below the end.  *)
LEMMA Disjoint ==
  ASSUME NEW P \in SUBSET Ops, NEW end \in 0 .. FileSize, LaidOut(P, end)
  PROVE  /\ \A a, b \in P : a # b => Bytes(a) \cap Bytes(b) = {}
         /\ Span(P) \subseteq 0 .. end - 1 /\ IsFiniteSet(Span(P))
<1> FileSize \in Nat /\ end \in Nat
  BY CopyAssumption
<1>1. ASSUME NEW a \in P, NEW b \in P, a # b, NEW x \in Bytes(a), x \in Bytes(b)
      PROVE  FALSE
  <2>1. a.offset \in Nat /\ b.offset \in Nat /\ a.len \in Nat /\ b.len \in Nat
    BY InBytes
  <2>2. /\ x \in Int /\ a.offset <= x /\ x < a.offset + a.len
        /\ b.offset <= x /\ x < b.offset + b.len
    BY <1>1, InBytes
  <2>3. a.offset # b.offset
    BY <1>1 DEF LaidOut
  <2>4. /\ a.offset < b.offset => a.offset + a.len <= b.offset
        /\ b.offset < a.offset => b.offset + b.len <= a.offset
    BY DEF LaidOut
  <2> QED
    BY <2>1, <2>2, <2>3, <2>4
<1>2. ASSUME NEW a \in P, NEW x \in Bytes(a) PROVE x \in 0 .. end - 1
  <2>1. a.offset \in Nat /\ a.len \in Nat /\ a.offset + a.len <= end
    BY InBytes DEF LaidOut
  <2>2. x \in Int /\ a.offset <= x /\ x < a.offset + a.len
    BY InBytes
  <2> QED
    BY <2>1, <2>2
<1>3. Span(P) \subseteq 0 .. end - 1
  BY <1>2 DEF Span
<1>4. IsFiniteSet(0 .. end - 1)
  BY FS_Interval
<1>5. IsFiniteSet(Span(P))
  BY <1>3, <1>4, FS_Subset
<1> QED
  BY <1>1, <1>3, <1>5

(* A block at the end. *)
LEMMA AddBlock ==
  ASSUME NEW P \in SUBSET Ops, NEW end \in 0 .. FileSize, LaidOut(P, end),
         NEW op \in Ops, op.offset = end, op.len > 0, NEW next, next = end + op.len
  PROVE  LaidOut(P \cup {op}, next)
<1> FileSize \in Nat /\ end \in Nat /\ op.len \in Nat
  BY CopyAssumption, InBytes
<1>1. \A a \in P : a.offset \in Nat /\ a.len \in Nat
  BY InBytes
<1>2. \A a \in P : a.offset < end /\ a.offset + a.len <= end
  BY DEF LaidOut
<1>3. \A a \in P : a.offset # op.offset
  BY <1>1, <1>2
<1>4. ASSUME NEW a \in P \cup {op}, NEW b \in P \cup {op}, a.offset = b.offset PROVE a = b
  BY <1>3, <1>4 DEF LaidOut
<1>5. ASSUME NEW a \in P \cup {op}, NEW b \in P \cup {op}, a.offset < b.offset
      PROVE  a.offset + a.len <= b.offset
  <2>1. a # op
    BY <1>1, <1>2, <1>5
  <2> QED
    BY <1>2, <1>5, <2>1 DEF LaidOut
<1>6. ASSUME NEW a \in P \cup {op}
      PROVE  /\ a.offset < next /\ a.offset + a.len <= next
             /\ a.isRead => a.len > 0
  <2>1. CASE a = op
    BY <2>1
  <2>2. CASE a \in P
    <3>1. a.isRead => a.len > 0
      BY <2>2 DEF LaidOut
    <3> QED
      BY <1>1, <1>2, <2>2, <3>1
  <2> QED
    BY <2>1, <2>2
<1> QED
  BY <1>4, <1>5, <1>6 DEF LaidOut
(* A read is replaced by the write of what it returned. *)
LEMMA SwapBlock ==
  ASSUME NEW P \in SUBSET Ops, NEW end \in 0 .. FileSize, LaidOut(P, end),
         NEW r \in P, NEW w \in Ops, w.offset = r.offset, w.len <= r.len, ~w.isRead,
         NEW Q, Q = (P \ {r}) \cup {w}
  PROVE  /\ \A a \in P \ {r} : a.offset # w.offset
         /\ LaidOut(Q, end)
         /\ Span(Q) \subseteq Span(P)
         /\ Span(P) \ Bytes(r) \subseteq Span(Q)
<1> FileSize \in Nat /\ end \in Nat
  BY CopyAssumption
<1>1. /\ \A a \in P : a.offset \in Nat /\ a.len \in Nat
      /\ w.offset \in Nat /\ w.len \in Nat
  BY InBytes
<1>2. \A a \in P \ {r} : a.offset # w.offset
  BY DEF LaidOut
<1>3. LaidOut(Q, end)
  <2>1. ASSUME NEW a \in Q, NEW b \in Q, a.offset = b.offset PROVE a = b
    BY <1>2, <2>1 DEF LaidOut
  <2>2. ASSUME NEW a \in Q, NEW b \in Q, a.offset < b.offset
        PROVE  a.offset + a.len <= b.offset
    <3>1. CASE a = w /\ b = w
      BY <1>1, <2>2, <3>1
    <3>2. CASE a = w /\ b # w
      <4>1. b \in P /\ r.offset < b.offset
        BY <2>2, <3>2
      <4>2. r.offset + r.len <= b.offset
        BY <4>1 DEF LaidOut
      <4> QED
        BY <1>1, <3>2, <4>1, <4>2
    <3>3. CASE a # w /\ b = w
      <4>1. a \in P /\ a.offset < r.offset
        BY <2>2, <3>3
      <4> QED
        BY <3>3, <4>1 DEF LaidOut
    <3>4. CASE a # w /\ b # w
      BY <2>2, <3>4 DEF LaidOut
    <3> QED
      BY <3>1, <3>2, <3>3, <3>4
  <2>3. ASSUME NEW a \in Q
        PROVE  a.offset < end /\ a.offset + a.len <= end /\ (a.isRead => a.len > 0)
    <3>1. CASE a = w
      <4>1. r.offset < end /\ r.offset + r.len <= end
        BY DEF LaidOut
      <4> QED
        BY <1>1, <3>1, <4>1
    <3>2. CASE a # w
      BY <3>2 DEF LaidOut
    <3> QED
      BY <3>1, <3>2
  <2> QED
    BY <2>1, <2>2, <2>3 DEF LaidOut
<1>4. Bytes(w) \subseteq Bytes(r)
  <2> SUFFICES ASSUME NEW b \in Bytes(w) PROVE b \in Bytes(r)
    OBVIOUS
  <2>1. b \in Int /\ w.offset <= b /\ b < w.offset + w.len
    BY InBytes
  <2>2. b \in Int /\ r.offset <= b /\ b < r.offset + r.len
    BY <1>1, <2>1
  <2> QED
    BY <2>2, InBytes
<1>5. Span(Q) \subseteq Span(P)
  BY <1>4 DEF Span
<1>6. Span(P) \ Bytes(r) \subseteq Span(Q)
  BY DEF Span
<1> QED
  BY <1>2, <1>3, <1>5, <1>6

(* An operation is dropped. *)
LEMMA DropBlock ==
  ASSUME NEW P \in SUBSET Ops, NEW end \in 0 .. FileSize, LaidOut(P, end), NEW w \in P
  PROVE  /\ LaidOut(P \ {w}, end)
         /\ Bytes(w) \subseteq Span(P)
         /\ Span(P \ {w}) = Span(P) \ Bytes(w)
<1>1. LaidOut(P \ {w}, end)
  BY DEF LaidOut
<1>2. Bytes(w) \subseteq Span(P)
  BY DEF Span
<1>3. \A a \in P \ {w} : Bytes(a) \cap Bytes(w) = {}
  BY Disjoint
<1>4. Span(P \ {w}) = Span(P) \ Bytes(w)
  BY <1>3 DEF Span
<1> QED
  BY <1>1, <1>2, <1>4

(* How many operations of P read and how many write, after P has grown by a *)
(* read, ...                                                                *)
LEMMA CountAdd ==
  ASSUME NEW P \in SUBSET Ops, IsFiniteSet(P), NEW op \in Ops, op \notin P, op.isRead
  PROVE  /\ Cardinality(Readers(P \cup {op})) = Cardinality(Readers(P)) + 1
         /\ Cardinality(Writers(P \cup {op})) = Cardinality(Writers(P))
<1>1. IsFiniteSet(Readers(P)) /\ op \notin Readers(P)
  BY FS_Subset DEF Readers
<1>2. Readers(P \cup {op}) = Readers(P) \cup {op} /\ Writers(P \cup {op}) = Writers(P)
  BY DEF Readers, Writers
<1> QED
  BY <1>1, <1>2, FS_AddElement

(* ... after one of its reads has become a write, ...                       *)
LEMMA CountSwap ==
  ASSUME NEW P \in SUBSET Ops, IsFiniteSet(P), NEW r \in P, r.isRead,
         NEW w \in Ops, w \notin P \ {r}, ~w.isRead
  PROVE  /\ Cardinality(Readers((P \ {r}) \cup {w})) = Cardinality(Readers(P)) - 1
         /\ Cardinality(Writers((P \ {r}) \cup {w})) = Cardinality(Writers(P)) + 1
<1>1. /\ IsFiniteSet(Readers(P)) /\ r \in Readers(P)
      /\ IsFiniteSet(Writers(P)) /\ w \notin Writers(P)
  BY FS_Subset DEF Readers, Writers
<1>2. /\ Readers((P \ {r}) \cup {w}) = Readers(P) \ {r}
      /\ Writers((P \ {r}) \cup {w}) = Writers(P) \cup {w}
  BY DEF Readers, Writers
<1> QED
  BY <1>1, <1>2, FS_AddElement, FS_RemoveElement

(* ... and after one of its writes is gone.                                 *)
LEMMA CountDrop ==
  ASSUME NEW P \in SUBSET Ops, IsFiniteSet(P), NEW w \in P, ~w.isRead
  PROVE  /\ Cardinality(Readers(P \ {w})) = Cardinality(Readers(P))
         /\ Cardinality(Writers(P \ {w})) = Cardinality(Writers(P)) - 1
<1>1. IsFiniteSet(Writers(P)) /\ w \in Writers(P)
  BY FS_Subset DEF Writers
<1>2. Readers(P \ {w}) = Readers(P) /\ Writers(P \ {w}) = Writers(P) \ {w}
  BY DEF Readers, Writers
<1> QED
  BY <1>1, <1>2, FS_RemoveElement

(* Every operation either reads or writes. *)
LEMMA CountBoth ==
  ASSUME NEW P, IsFiniteSet(P)
  PROVE  /\ Cardinality(P) = Cardinality(Readers(P)) + Cardinality(Writers(P))
         /\ Cardinality(Readers(P)) \in Nat /\ Cardinality(Writers(P)) \in Nat
<1>1. IsFiniteSet(Readers(P)) /\ IsFiniteSet(Writers(P))
  BY FS_Subset DEF Readers, Writers
<1>2. Readers(P) \cap Writers(P) = {} /\ Readers(P) \cup Writers(P) = P
  BY DEF Readers, Writers
<1> QED
  BY <1>1, <1>2, PutTogether, FS_CardinalityType

(* The bytes that are not written for good are finitely many. *)
LEMMA LostIsFinite ==
  ASSUME NEW P, NEW end \in Nat, NEW bytes
  PROVE  IsFiniteSet(Lost(P, end, bytes)) /\ Cardinality(Lost(P, end, bytes)) \in Nat
<1>1. IsFiniteSet(0 .. end - 1)
  BY FS_Interval
<1>2. Lost(P, end, bytes) \in SUBSET (0 .. end - 1)
  BY DEF Lost
<1>3. IsFiniteSet(Lost(P, end, bytes))
  BY <1>1, <1>2, FS_Subset
<1> QED
  BY <1>3, FS_CardinalityType

(* How many they are, after another block was queued to be read, ...        *)
LEMMA LostAdd ==
  ASSUME NEW P \in SUBSET Ops, NEW end \in 0 .. FileSize, LaidOut(P, end),
         NEW bytes \in SUBSET (0 .. end - 1),
         NEW op \in Ops, op.offset = end, op.len > 0
  PROVE  Cardinality(Lost(P \cup {op}, end + op.len, bytes))
           = Cardinality(Lost(P, end, bytes)) + op.len
<1> DEFINE lost == Lost(P, end, bytes)
<1> FileSize \in Nat /\ end \in Nat /\ op.len \in Nat
  BY CopyAssumption, InBytes
<1>1. /\ Span(P \cup {op}) = Span(P) \cup Bytes(op)
      /\ Bytes(op) = end .. end + op.len - 1
  BY DEF Span, Bytes
<1>2. 0 .. (end + op.len) - 1 = (0 .. end - 1) \cup Bytes(op)
  BY <1>1
<1>3. (0 .. end - 1) \cap Bytes(op) = {}
  BY <1>1
<1>4. Lost(P \cup {op}, end + op.len, bytes) = lost \cup Bytes(op)
  BY <1>1, <1>2, <1>3 DEF Lost
<1>5. lost \cap Bytes(op) = {} /\ IsFiniteSet(lost)
  <2>1. lost \subseteq 0 .. end - 1
    BY DEF Lost
  <2> QED
    BY <1>3, <2>1, LostIsFinite
<1> HIDE DEF lost
<1>6. IsFiniteSet(Bytes(op)) /\ Cardinality(Bytes(op)) = op.len
  BY InBytes
<1> QED
  BY <1>4, <1>5, <1>6, PutTogether DEF lost

(* ... after a read, of which nothing is written, has become a write, ...   *)
LEMMA LostSwap ==
  ASSUME NEW P \in SUBSET Ops, NEW end \in 0 .. FileSize, LaidOut(P, end),
         NEW bytes, NEW r \in P, NEW w \in Ops,
         w.offset = r.offset, w.len <= r.len, ~w.isRead, Bytes(r) \cap bytes = {}
  PROVE  Lost((P \ {r}) \cup {w}, end, bytes) = Lost(P, end, bytes)
<1>1. /\ Span((P \ {r}) \cup {w}) \subseteq Span(P)
      /\ Span(P) \ Bytes(r) \subseteq Span((P \ {r}) \cup {w})
  BY SwapBlock
<1> QED
  BY <1>1 DEF Lost

(* ... after a write, all of whose bytes are written, is done with, ...     *)
LEMMA LostDrop ==
  ASSUME NEW P \in SUBSET Ops, NEW end \in 0 .. FileSize, LaidOut(P, end),
         NEW bytes, NEW w \in P, Bytes(w) \subseteq bytes, NEW Q, Q = P \ {w}
  PROVE  Cardinality(Lost(Q, end, bytes)) = Cardinality(Lost(P, end, bytes)) - w.len
<1> DEFINE lost == Lost(P, end, bytes)
<1> FileSize \in Nat /\ end \in Nat
  BY CopyAssumption
<1>1. Bytes(w) \subseteq Span(P) /\ Span(P \ {w}) = Span(P) \ Bytes(w)
  BY DropBlock
<1>2. Span(P) \subseteq 0 .. end - 1
  BY Disjoint
<1>3. Lost(P \ {w}, end, bytes) = lost \ Bytes(w) /\ Bytes(w) \subseteq lost
  BY <1>1, <1>2 DEF Lost
<1>4. IsFiniteSet(lost)
  BY LostIsFinite
<1> HIDE DEF lost
<1>5. Cardinality(lost \ Bytes(w)) = Cardinality(lost) - Cardinality(Bytes(w))
  BY <1>3, <1>4, TakenOut
<1>6. Cardinality(Bytes(w)) = w.len
  BY InBytes
<1> QED
  BY <1>3, <1>5, <1>6 DEF lost

(* ... and after the kernel has written an operation that is in flight.     *)
LEMMA LostWrite ==
  ASSUME NEW P, NEW end, NEW bytes, NEW op \in P
  PROVE  Lost(P, end, bytes \cup Bytes(op)) = Lost(P, end, bytes)
<1>1. Bytes(op) \subseteq Span(P)
  BY DEF Span
<1> QED
  BY <1>1 DEF Lost

-----------------------------------------------------------------------------
(* 3. The inductive invariant.                                              *)

(* Completed and not processed: drained, then those in the ring.            *)
Done     == completions \o cq
DoneType == [req : Ops, res : 0 .. BlockSize \cup {EIO}]

Typed ==
  /\ pc \in {"fill", "submit", "drain", "process", "done", "failed"}
  /\ offset \in 0 .. FileSize /\ bytesToRead = FileSize - offset
  /\ bytesToWrite \in 0 .. FileSize
  /\ readsInFlight \in 0 .. QueueDepth /\ writesInFlight \in 0 .. QueueDepth
  /\ pending \in Seq(Ops) /\ sq \in Seq(Ops) /\ inflight \subseteq Ops
  /\ completions \in Seq(DoneType) /\ cq \in Seq(DoneType)

(* No operation moves more than it was asked for.                           *)
Bounded == \A d \in Range(Done) : d.res \in Outcomes(d.req)

Blocks == Distinct(pending) /\ LaidOut(Range(pending), offset)

(* An operation is in one place of the ring, and has its IoData.            *)
Placed ==
  /\ Once(sq, inflight, Done)
  /\ Range(sq) \cup inflight \cup Asked(Done) = Range(pending)

Counted ==
  /\ readsInFlight = Cardinality(Readers(Range(pending)))
  /\ writesInFlight = Cardinality(Writers(Range(pending)))
  /\ readsInFlight + writesInFlight <= QueueDepth

(* bytesToWrite covers what is still to read and what is in flight, ...     *)
Owing == bytesToRead + Cardinality(Span(Range(pending))) <= bytesToWrite

(* ... and, when writes are not short, is what is not written for good.     *)
Exact ==
  /\ bytesToWrite = bytesToRead + Cardinality(Lost(Range(pending), offset, written))
  /\ written \subseteq 0 .. offset - 1
  /\ \A c \in Range(Done) : ~c.req.isRead /\ c.res >= 0 => Bytes(c.req) \subseteq written
  /\ \A a \in Range(pending) :
       /\ a.isRead => Bytes(a) \cap written = {}
       /\ a.len = 0 => a.offset \notin written

Books == Blocks /\ Placed /\ Counted /\ Owing /\ (~ShortWrites => Exact)

(* An error returns at once, and leaves the books as they are.              *)
CopyInv ==
  /\ Typed
  /\ Bounded
  /\ pc # "failed" => Books
  /\ pc = "done" => bytesToRead = 0 /\ bytesToWrite = 0

-----------------------------------------------------------------------------
(* 4. Each step keeps the invariant.                                        *)

(* What the books say of pending_operations as a set. *)
LEMMA BooksMean ==
  ASSUME Typed, Books
  PROVE  /\ Range(pending) \in SUBSET Ops /\ IsFiniteSet(Range(pending))
         /\ Cardinality(Range(pending)) = Len(pending)
         /\ Len(pending) = readsInFlight + writesInFlight
         /\ Range(sq) \subseteq Range(pending) /\ Distinct(sq)
<1>1. Range(pending) \in SUBSET Ops
  BY RangeEquality, ElementOfSeq DEF Typed
<1>2. IsFiniteSet(Range(pending)) /\ Cardinality(Range(pending)) = Len(pending)
  BY RangeSize DEF Typed, Books, Blocks
<1>3. Len(pending) = readsInFlight + writesInFlight
  BY <1>2, CountBoth DEF Books, Counted
<1> QED
  BY <1>1, <1>2, <1>3 DEF Books, Placed, Once

(* Completions are rearranged at most, the program goes on: the books stay. *)
LEMMA BooksStay ==
  ASSUME CopyInv, pc # "failed",
         UNCHANGED <<counters, pending, written, sq, inflight>>,
         Done' = Done, completions' \in Seq(DoneType), cq' \in Seq(DoneType),
         pc' \in {"fill", "submit", "drain", "process", "done", "failed"},
         pc' = "done" => bytesToRead = 0 /\ bytesToWrite = 0
  PROVE  CopyInv'
<1>1. Typed'
  BY DEF CopyInv, Typed, counters
<1>2. Bounded'
  BY DEF CopyInv, Bounded
<1>3. Blocks' /\ Counted' /\ Owing'
  BY DEF CopyInv, Books, Blocks, Counted, Owing, counters
<1>4. Placed'
  BY DEF CopyInv, Books, Placed
<1>5. ~ShortWrites => Exact'
  BY DEF CopyInv, Books, Exact, counters
<1> QED
  BY <1>1, <1>2, <1>3, <1>4, <1>5 DEF CopyInv, Books, counters

(* A read of the next block is queued. *)
LEMMA QueueReadStep == ASSUME CopyInv, QueueRead PROVE CopyInv'
<1> DEFINE size == IF bytesToRead < BlockSize THEN bytesToRead ELSE BlockSize
           op   == [offset |-> offset, len |-> size, isRead |-> TRUE]
           P    == Range(pending)
<1>1. /\ pc = "fill" /\ pc' = pc /\ MayFill
      /\ sq' = Append(sq, op) /\ pending' = Append(pending, op)
      /\ inflight' = inflight /\ cq' = cq /\ completions' = completions
      /\ offset' = offset + size /\ bytesToRead' = bytesToRead - size
      /\ readsInFlight' = readsInFlight + 1 /\ writesInFlight' = writesInFlight
      /\ bytesToWrite' = bytesToWrite /\ written' = written
  BY DEF QueueRead, Queues!Push
<1>2. Typed /\ Bounded /\ Books
  BY <1>1 DEF CopyInv
<1>3. Done' = Done
  BY <1>1 DEF Done
<1>4. /\ size \in 1 .. BlockSize /\ size <= bytesToRead
      /\ offset \in Nat /\ offset + size \in 0 .. FileSize /\ FileSize \in Nat
  BY <1>1, <1>2, CopyAssumption DEF MayFill, Typed
<1> HIDE DEF size
<1>5. op \in Ops /\ op.offset = offset /\ op.len = size /\ op.len > 0 /\ op.isRead
  BY <1>2, <1>4 DEF Ops, Typed
<1>6. P \in SUBSET Ops /\ IsFiniteSet(P) /\ offset \in 0 .. FileSize /\ LaidOut(P, offset)
  BY <1>2, BooksMean DEF Typed, Books, Blocks
<1> HIDE DEF op
<1>7. /\ \A a \in P : a.offset # op.offset
      /\ LaidOut(P \cup {op}, offset + size)
      /\ Span(P \cup {op}) = Span(P) \cup Bytes(op)
      /\ Bytes(op) = offset .. offset + size - 1
  <2> HIDE DEF P
  <2>1. LaidOut(P \cup {op}, offset + size)
    BY <1>5, <1>6, AddBlock
  <2>2. ASSUME NEW a \in P PROVE a.offset # op.offset
    <3>1. a.offset < offset
      BY <1>6 DEF LaidOut
    <3>2. a.offset \in Int
      BY <1>6, InBytes
    <3> QED
      BY <1>4, <1>5, <3>1, <3>2
  <2>3. Span(P \cup {op}) = Span(P) \cup Bytes(op)
    BY DEF Span
  <2>4. Bytes(op) = offset .. offset + size - 1
    BY <1>5 DEF Bytes
  <2> QED
    BY <2>1, <2>2, <2>3, <2>4
<1>8. op \notin P
  BY <1>7
<1>9. /\ Append(pending, op) \in Seq(Ops) /\ Distinct(pending')
      /\ Range(pending') = P \cup {op}
  BY <1>1, <1>2, <1>5, <1>8, AppendNew DEF Typed, Books, Blocks
<1>10. Typed'
  <2>1. sq' \in Seq(Ops) /\ pending' \in Seq(Ops)
    BY <1>1, <1>2, <1>5, <1>9, AppendProperties DEF Typed
  <2>2. readsInFlight + 1 \in 0 .. QueueDepth
    BY <1>1, <1>2, CopyAssumption DEF MayFill, Typed
  <2>3. offset' \in 0 .. FileSize /\ bytesToRead' = FileSize - offset'
    BY <1>1, <1>2, <1>4 DEF Typed
  <2> QED
    BY <1>1, <1>2, <2>1, <2>2, <2>3 DEF Typed
<1>11. Bounded'
  BY <1>2, <1>3 DEF Bounded
<1>12. Blocks'
  BY <1>1, <1>7, <1>9 DEF Blocks
<1>13. Placed'
  <2>1. op \notin Range(sq) \cup inflight \cup Asked(Done)
    BY <1>2, <1>8 DEF Books, Placed
  <2>2. Once(sq', inflight', Done')
    BY <1>1, <1>2, <1>3, <1>5, <2>1, OncePush DEF Typed, Books, Placed
  <2>3. Range(sq') = Range(sq) \cup {op}
    BY <1>1, <1>2, <1>5, AppendRange DEF Typed
  <2>4. Range(sq) \cup inflight \cup Asked(Done) = P
    BY <1>2 DEF Books, Placed
  <2> QED
    BY <1>1, <1>3, <1>9, <2>2, <2>3, <2>4 DEF Placed
<1>14. Counted'
  <2>1. /\ Cardinality(Readers(P \cup {op})) = Cardinality(Readers(P)) + 1
        /\ Cardinality(Writers(P \cup {op})) = Cardinality(Writers(P))
    BY <1>5, <1>6, <1>8, CountAdd
  <2>2. readsInFlight + 1 + writesInFlight <= QueueDepth
    BY <1>1, <1>2, CopyAssumption DEF MayFill, Typed
  <2>3. /\ readsInFlight = Cardinality(Readers(P))
        /\ writesInFlight = Cardinality(Writers(P))
    BY <1>2 DEF Books, Counted
  <2> QED
    BY <1>1, <1>9, <2>1, <2>2, <2>3 DEF Counted
<1>15. Owing'
  <2>1. IsFiniteSet(Span(P)) /\ Span(P) \subseteq 0 .. offset - 1
    BY <1>6, Disjoint
  <2>2. Span(P) \cap Bytes(op) = {}
    BY <1>4, <1>7, <2>1
  <2>3. IsFiniteSet(Bytes(op)) /\ Cardinality(Bytes(op)) = size
    BY <1>5, InBytes
  <2>4. Cardinality(Span(P \cup {op})) = Cardinality(Span(P)) + size
    BY <1>7, <2>1, <2>2, <2>3, PutTogether
  <2>5. Cardinality(Span(P)) \in Nat
    BY <2>1, FS_CardinalityType
  <2>6. bytesToRead + Cardinality(Span(P)) <= bytesToWrite
    BY <1>2 DEF Books, Owing
  <2> HIDE DEF P
  <2>7. bytesToRead \in Int /\ bytesToWrite \in Int /\ size \in Int
    BY <1>2, <1>4, CopyAssumption DEF Typed
  <2>8. (bytesToRead - size) + (Cardinality(Span(P)) + size) <= bytesToWrite
    BY <2>5, <2>6, <2>7
  <2> QED
    BY <1>1, <1>9, <2>4, <2>8 DEF Owing
<1>16. ASSUME ~ShortWrites PROVE Exact'
  <2>1. Exact
    BY <1>2, <1>16 DEF Books
  <2>2. written \in SUBSET (0 .. offset - 1)
    BY <2>1 DEF Exact
  <2>3. Cardinality(Lost(P \cup {op}, offset + size, written))
          = Cardinality(Lost(P, offset, written)) + size
    <3> HIDE DEF P
    <3> QED
      BY <1>5, <1>6, <2>2, LostAdd
  <2>4. bytesToWrite = (bytesToRead - size)
                         + Cardinality(Lost(P \cup {op}, offset + size, written))
    <3>1. bytesToWrite = bytesToRead + Cardinality(Lost(P, offset, written))
      BY <2>1 DEF Exact
    <3> HIDE DEF P
    <3>2. Cardinality(Lost(P, offset, written)) \in Nat
      BY <1>4, LostIsFinite
    <3>3. bytesToRead \in Int /\ size \in Int
      BY <1>2, <1>4, CopyAssumption DEF Typed
    <3> QED
      BY <2>3, <3>1, <3>2, <3>3
  <2>5. written \subseteq 0 .. (offset + size) - 1
    BY <1>4, <2>2
  <2>6. Bytes(op) \cap written = {}
    BY <1>4, <1>7, <2>2
  <2>7. \A d \in Range(Done) : ~d.req.isRead /\ d.res >= 0 => Bytes(d.req) \subseteq written
    BY <2>1 DEF Exact
  <2>8. \A a \in P \cup {op} : /\ a.isRead => Bytes(a) \cap written = {}
                               /\ a.len = 0 => a.offset \notin written
    BY <1>5, <2>1, <2>6 DEF Exact
  <2> QED
    BY <1>1, <1>3, <1>9, <2>4, <2>5, <2>7, <2>8 DEF Exact
<1>17. Books'
  BY <1>12, <1>13, <1>14, <1>15, <1>16 DEF Books
<1> QED
  BY <1>1, <1>10, <1>11, <1>17 DEF CopyInv

(* submit(): the kernel takes the oldest entries, or none with an error;    *)
(* each stays in one place.                                                 *)
LEMMA EntriesSubmitted ==
  ASSUME NEW entries \in Seq(Ops), NEW D, Once(entries, inflight, D),
         \/ \E k \in 0 .. QueueDepth : SubmitsFrom(entries, k)
         \/ SubmitFailsFrom(entries)
  PROVE  /\ sq' \in Seq(Ops) /\ cq' = cq /\ Once(sq', inflight', D)
         /\ Range(sq') \cup inflight' = Range(entries) \cup inflight
<1>1. CASE SubmitFailsFrom(entries)
  BY <1>1 DEF SubmitFailsFrom
<1>2. ASSUME NEW k \in 0 .. QueueDepth, SubmitsFrom(entries, k)
      PROVE  /\ sq' \in Seq(Ops) /\ cq' = cq /\ Once(sq', inflight', D)
             /\ Range(sq') \cup inflight' = Range(entries) \cup inflight
  <2>1. k \in 0 .. Len(entries)
    <3>1. Len(entries) \in Nat
      BY LenProperties
    <3> QED
      BY <1>2, <3>1 DEF SubmitsFrom
  <2>2. /\ sq' = Rest(entries, k) /\ inflight' = inflight \cup Oldest(entries, k)
        /\ cq' = cq
    BY <1>2 DEF SubmitsFrom, Rest, Oldest
  <2>3. /\ Once(Rest(entries, k), inflight \cup Oldest(entries, k), D)
        /\ Rest(entries, k) \in Seq(Ops)
        /\ Range(Rest(entries, k)) \cup Oldest(entries, k) = Range(entries)
    BY <2>1, OnceTake
  <2> QED
    BY <2>2, <2>3
<1> QED
  BY <1>1, <1>2

(* What was queued is submitted. *)
LEMMA SubmitStep == ASSUME CopyInv, Submit PROVE CopyInv'
<1>1. /\ pc = "submit" /\ pc' \in {"drain", "failed"}
      /\ UNCHANGED <<counters, pending, completions, written>>
      /\ \/ \E k \in 0 .. QueueDepth : SubmitsFrom(sq, k)
         \/ SubmitFailsFrom(sq)
  BY DEF Submit
<1>2. Typed /\ Bounded /\ Books
  BY <1>1 DEF CopyInv
<1>3. /\ sq' \in Seq(Ops) /\ cq' = cq /\ Once(sq', inflight', Done)
      /\ Range(sq') \cup inflight' = Range(sq) \cup inflight
  BY <1>1, <1>2, EntriesSubmitted DEF Typed, Books, Placed
<1>4. Done' = Done
  BY <1>1, <1>3 DEF Done
<1>5. inflight' \subseteq Ops
  <2>1. Range(pending) \subseteq Ops
    BY <1>2, BooksMean
  <2> QED
    BY <1>2, <1>3, <2>1 DEF Books, Placed
<1>6. Typed'
  BY <1>1, <1>2, <1>3, <1>5 DEF Typed, counters
<1>7. Bounded'
  BY <1>2, <1>4 DEF Bounded
<1>8. Blocks' /\ Counted' /\ Owing'
  BY <1>1, <1>2 DEF Books, Blocks, Counted, Owing, counters
<1>9. Placed'
  BY <1>1, <1>2, <1>3, <1>4 DEF Books, Placed
<1>10. ~ShortWrites => Exact'
  BY <1>1, <1>2, <1>4 DEF Books, Exact, counters
<1> QED
  BY <1>1, <1>6, <1>7, <1>8, <1>9, <1>10 DEF CopyInv, Books

(* A Cqe moves from the ring to the vector of completions. *)
LEMMA DrainStep == ASSUME CopyInv, Drain PROVE CopyInv'
<1>1. /\ pc = "drain" /\ pc' = pc /\ cq # <<>> /\ cq' = Tail(cq)
      /\ completions' = Append(completions, Head(cq))
      /\ UNCHANGED <<counters, pending, written, sq, inflight>>
  BY DEF Drain, Queues!Reap
<1>2. completions \in Seq(DoneType) /\ cq \in Seq(DoneType)
  BY DEF CopyInv, Typed
<1>3. Head(cq) \in DoneType /\ cq' \in Seq(DoneType)
  BY <1>1, <1>2, HeadTailProperties
<1>4. completions' \in Seq(DoneType)
  BY <1>1, <1>2, <1>3, AppendProperties
<1>5. Done' = Done
  BY <1>1, <1>2, JoinMove DEF Done
<1> QED
  BY <1>1, <1>3, <1>4, <1>5, BooksStay

(* The steps that only move the program on. *)
LEMMA ControlStep ==
  ASSUME CopyInv, Filled \/ Drained \/ Fails \/ Processed
  PROVE  CopyInv'
<1>1. /\ pc # "failed" /\ UNCHANGED <<counters, pending, written, sq, inflight>>
      /\ completions' = completions /\ cq' = cq
      /\ pc' \in {"fill", "submit", "drain", "process", "done", "failed"}
  BY DEF Filled, Drained, Fails, Processed, ring
<1>2. pc' = "done" => bytesToRead = 0 /\ bytesToWrite = 0
  <2> SUFFICES ASSUME pc' = "done" PROVE bytesToRead = 0 /\ bytesToWrite = 0
    OBVIOUS
  <2>1. ~(bytesToRead > 0 \/ bytesToWrite > 0)
    BY DEF Filled, Drained, Fails, Processed
  <2>2. bytesToRead \in Nat /\ bytesToWrite \in Nat
    BY CopyAssumption DEF CopyInv, Typed
  <2> QED
    BY <2>1, <2>2
<1>3. Done' = Done
  BY <1>1 DEF Done
<1>4. completions' \in Seq(DoneType) /\ cq' \in Seq(DoneType)
  BY <1>1 DEF CopyInv, Typed
<1> QED
  BY <1>1, <1>2, <1>3, <1>4, BooksStay

(* The oldest completion, and what is in the ring without it. *)
LEMMA OldestDone ==
  ASSUME Typed, Books, completions # <<>>
  PROVE  /\ Head(completions) \in DoneType /\ Tail(completions) \in Seq(DoneType)
         /\ Done \in Seq(DoneType) /\ Tail(Done) = Tail(completions) \o cq
         /\ Head(completions) \in Range(Done) /\ Range(Tail(Done)) \subseteq Range(Done)
         /\ Head(completions).req \in Range(pending)
         /\ Once(sq, inflight, Tail(Done))
         /\ Range(sq) \cup inflight \cup Asked(Tail(Done))
              = Range(pending) \ {Head(completions).req}
<1> DEFINE d == Head(completions)
<1>1. completions \in Seq(DoneType) /\ cq \in Seq(DoneType)
  BY DEF Typed
<1>2. d \in DoneType /\ Tail(completions) \in Seq(DoneType)
  BY <1>1, HeadTailProperties
<1>3. /\ Done \in Seq(DoneType) /\ Done # <<>> /\ Head(Done) = d
      /\ Tail(Done) = Tail(completions) \o cq
  BY <1>1, JoinTail DEF Done
<1> HIDE DEF d
<1>4. d \in Range(Done) /\ Range(Tail(Done)) \subseteq Range(Done)
  BY <1>3, RangeTail
<1>5. /\ Once(sq, inflight, Tail(Done)) /\ d.req \in Asked(Done)
      /\ Asked(Tail(Done)) = Asked(Done) \ {d.req}
  BY <1>3, OnceReap DEF Books, Placed
<1>6. d.req \notin Range(sq) /\ d.req \notin inflight
  BY <1>5 DEF Books, Placed, Once
<1>7. Range(sq) \cup inflight \cup Asked(Done) = Range(pending)
  BY DEF Books, Placed
<1> QED
  BY <1>2, <1>3, <1>4, <1>5, <1>6, <1>7 DEF d

(* The IoData found for a completion by its offset is the one of the        *)
(* operation that completed.                                                *)
LEMMA Matched ==
  ASSUME Typed, Books, completions # <<>>
  PROVE  Pos \in 1 .. Len(pending) /\ pending[Pos] = Head(completions).req
<1> DEFINE r == Head(completions).req
           I == {i \in 1 .. Len(pending) : pending[i].offset = r.offset}
<1>1. r \in Range(pending) /\ pending \in Seq(Ops)
  BY OldestDone DEF Typed
<1>2. Pos = IF I # {} THEN Min(I) ELSE 0
  BY DEF Pos, SelectInSeq
<1> HIDE DEF r
<1>3. PICK p \in 1 .. Len(pending) : pending[p] = r
  BY <1>1, InRange
<1>4. ASSUME NEW i \in 1 .. Len(pending), pending[i].offset = r.offset PROVE i = p
  <2>1. pending[i] \in Range(pending)
    BY <1>1, InRange
  <2>2. pending[i] = pending[p]
    BY <1>1, <1>3, <1>4, <2>1 DEF Books, Blocks, LaidOut
  <2> QED
    BY <2>2 DEF Books, Blocks, Distinct
<1>5. I = {p}
  BY <1>3, <1>4
<1>6. Min({p}) = p
  <2>1. \A y \in {p} : p <= y
    OBVIOUS
  <2> QED
    BY <2>1 DEF Min
<1> HIDE DEF I
<1>7. Pos = p
  BY <1>2, <1>5, <1>6
<1> QED
  BY <1>3, <1>7 DEF r

(* A completion that is not an error reports no more than was asked for,    *)
(* and all of it unless it may be short.                                    *)
LEMMA ResultIs ==
  ASSUME Typed, Bounded, Books, completions # <<>>, Result >= 0
  PROVE  /\ Result \in 0 .. BlockSize /\ Result <= Head(completions).req.len
         /\ ~Head(completions).req.isRead /\ ~ShortWrites
              => Result = Head(completions).req.len
<1> DEFINE d == Head(completions)
<1>1. /\ d \in Range(Done) /\ d \in DoneType
  BY OldestDone
<1>2. d.res \in Outcomes(d.req) /\ Result = d.res /\ d.req \in Ops
  BY <1>1 DEF Bounded, Result, DoneType
<1> HIDE DEF d
<1>3. d.req.len \in 0 .. BlockSize
  BY <1>2 DEF Ops
<1>4. d.res # EIO
  BY <1>2 DEF EIO
<1>5. /\ d.res \in 0 .. d.req.len \/ d.res = d.req.len
      /\ ~d.req.isRead /\ ~ShortWrites => d.res = d.req.len
  BY <1>2, <1>4 DEF Outcomes
<1> QED
  BY <1>2, <1>3, <1>5, CopyAssumption DEF d

(* A write is done with: its IoData is dropped. *)
LEMMA WriteDoneStep == ASSUME CopyInv, WriteDone PROVE CopyInv'
<1> DEFINE w == Head(completions).req
           P == Range(pending)
<1>1. /\ pc = "process" /\ pc' = pc /\ completions # <<>> /\ Result >= 0
      /\ ~pending[Pos].isRead
      /\ writesInFlight' = writesInFlight - 1 /\ readsInFlight' = readsInFlight
      /\ bytesToWrite' = bytesToWrite - pending[Pos].len /\ bytesToRead' = bytesToRead
      /\ pending' = RemoveAt(pending, Pos) /\ completions' = Tail(completions)
      /\ sq' = sq /\ inflight' = inflight /\ cq' = cq
      /\ offset' = offset /\ written' = written
  BY DEF WriteDone, ring
<1>2. Typed /\ Bounded /\ Books
  BY <1>1 DEF CopyInv
<1>3. Pos \in 1 .. Len(pending) /\ pending[Pos] = w
  BY <1>1, <1>2, Matched
<1>4. /\ completions' \in Seq(DoneType) /\ Done' = Tail(Done)
      /\ Head(completions) \in Range(Done) /\ Range(Done') \subseteq Range(Done)
      /\ w \in P /\ Once(sq, inflight, Done')
      /\ Range(sq) \cup inflight \cup Asked(Done') = P \ {w}
  BY <1>1, <1>2, OldestDone DEF Done
<1>5. /\ pending' \in Seq(Ops) /\ Distinct(pending') /\ Range(pending') = P \ {w}
  <2>1. pending \in Seq(Ops) /\ Distinct(pending)
    BY <1>2 DEF Typed, Books, Blocks
  <2>2. /\ RemoveAt(pending, Pos) \in Seq(Ops) /\ Distinct(RemoveAt(pending, Pos))
        /\ Range(RemoveAt(pending, Pos)) = Range(pending) \ {pending[Pos]}
    BY <1>3, <2>1, RemoveRange
  <2> QED
    BY <1>1, <1>3, <2>2
<1>6. /\ P \in SUBSET Ops /\ IsFiniteSet(P) /\ offset \in 0 .. FileSize
      /\ LaidOut(P, offset)
  BY <1>2, BooksMean DEF Typed, Books, Blocks
<1>7. w \in Ops /\ ~w.isRead /\ w.len \in Nat
  BY <1>1, <1>3, <1>4, <1>6, InBytes
<1>8. ~ShortWrites => Result = w.len
  BY <1>1, <1>2, <1>7, ResultIs
<1> HIDE DEF w
<1>9. Counted'
  <2>1. /\ Cardinality(Readers(P \ {w})) = Cardinality(Readers(P))
        /\ Cardinality(Writers(P \ {w})) = Cardinality(Writers(P)) - 1
    BY <1>4, <1>6, <1>7, CountDrop
  <2>2. /\ readsInFlight = Cardinality(Readers(P))
        /\ writesInFlight = Cardinality(Writers(P))
        /\ readsInFlight + writesInFlight <= QueueDepth
    BY <1>2 DEF Books, Counted
  <2>3. readsInFlight + (writesInFlight - 1) <= QueueDepth
    BY <1>2, <2>2, CopyAssumption DEF Typed
  <2> QED
    BY <1>1, <1>5, <2>1, <2>2, <2>3 DEF Counted
<1>10. LaidOut(P \ {w}, offset) /\ Bytes(w) \subseteq Span(P) /\ Span(P \ {w}) = Span(P) \ Bytes(w)
  BY <1>4, <1>6, DropBlock
<1>11. /\ Cardinality(Span(P)) \in Nat /\ w.len <= Cardinality(Span(P))
       /\ Cardinality(Span(P \ {w})) = Cardinality(Span(P)) - w.len
  <2>1. IsFiniteSet(Span(P))
    BY <1>6, Disjoint
  <2>2. Cardinality(Bytes(w)) = w.len
    BY <1>7, InBytes
  <2> HIDE DEF P
  <2>3. Bytes(w) \in SUBSET Span(P)
    BY <1>10
  <2>4. Cardinality(Span(P) \ Bytes(w)) = Cardinality(Span(P)) - Cardinality(Bytes(w))
    BY <2>1, <2>3, TakenOut
  <2>5. Cardinality(Bytes(w)) <= Cardinality(Span(P)) /\ Cardinality(Span(P)) \in Nat
    BY <2>1, <2>3, FS_Subset, FS_CardinalityType
  <2> QED
    BY <1>10, <2>2, <2>4, <2>5
<1>12. bytesToRead + Cardinality(Span(P)) <= bytesToWrite
  BY <1>2 DEF Books, Owing
<1>13. bytesToRead \in Nat /\ bytesToWrite \in Nat /\ bytesToWrite <= FileSize
  BY <1>2, CopyAssumption DEF Typed
<1>14. Typed'
  <2>1. bytesToWrite' \in 0 .. FileSize
    <3> HIDE DEF P
    <3> QED
      BY <1>1, <1>3, <1>7, <1>11, <1>12, <1>13, CopyAssumption
  <2>2. writesInFlight' \in 0 .. QueueDepth
    <3>1. writesInFlight' \in Nat
      <4>1. IsFiniteSet(P \ {w})
        BY <1>6, FS_Subset
      <4> QED
        BY <1>5, <1>9, <4>1, CountBoth DEF Counted
    <3> QED
      BY <1>1, <1>2, <3>1, CopyAssumption DEF Typed
  <2> QED
    BY <1>1, <1>2, <1>4, <1>5, <2>1, <2>2 DEF Typed
<1>15. Bounded'
  BY <1>2, <1>4 DEF Bounded
<1>16. Blocks'
  BY <1>1, <1>5, <1>10 DEF Blocks
<1>17. Placed'
  BY <1>1, <1>4, <1>5 DEF Placed
<1>18. Owing'
  <2> HIDE DEF P
  <2>1. bytesToRead + (Cardinality(Span(P)) - w.len) <= bytesToWrite - w.len
    BY <1>7, <1>11, <1>12, <1>13
  <2> QED
    BY <1>1, <1>3, <1>5, <1>11, <2>1 DEF Owing
<1>19. ASSUME ~ShortWrites PROVE Exact'
  <2>1. Exact
    BY <1>2, <1>19 DEF Books
  <2>2. Bytes(w) \subseteq written
    BY <1>1, <1>4, <1>7, <2>1 DEF Exact, Result, w
  <2>3. Cardinality(Lost(P \ {w}, offset, written)) = Cardinality(Lost(P, offset, written)) - w.len
    <3> HIDE DEF P
    <3> DEFINE Q == P \ {w}
    <3>1. w \in P /\ Q = P \ {w}
      BY <1>4
    <3> HIDE DEF Q
    <3>2. Cardinality(Lost(Q, offset, written)) = Cardinality(Lost(P, offset, written)) - w.len
      BY <1>6, <2>2, <3>1, LostDrop
    <3> QED
      BY <3>2 DEF Q
  <2>4. bytesToWrite - w.len = bytesToRead + Cardinality(Lost(P \ {w}, offset, written))
    <3>1. bytesToWrite = bytesToRead + Cardinality(Lost(P, offset, written))
      BY <2>1 DEF Exact
    <3> HIDE DEF P
    <3>2. Cardinality(Lost(P, offset, written)) \in Nat
      BY <1>6, LostIsFinite, CopyAssumption
    <3> QED
      BY <1>7, <1>13, <2>3, <3>1, <3>2
  <2>5. written \subseteq 0 .. offset - 1
    BY <2>1 DEF Exact
  <2>6. \A d \in Range(Done') : ~d.req.isRead /\ d.res >= 0 => Bytes(d.req) \subseteq written
    BY <1>4, <2>1 DEF Exact
  <2>7. \A a \in P \ {w} : /\ a.isRead => Bytes(a) \cap written = {}
                           /\ a.len = 0 => a.offset \notin written
    BY <2>1 DEF Exact
  <2> QED
    BY <1>1, <1>3, <1>5, <2>4, <2>5, <2>6, <2>7 DEF Exact
<1> QED
  BY <1>1, <1>9, <1>14, <1>15, <1>16, <1>17, <1>18, <1>19 DEF CopyInv, Books

(* A read is done with: its IoData is replaced by that of the write, which  *)
(* always finds an entry and is submitted.                                  *)
LEMMA ReadDoneStep == ASSUME CopyInv, ReadDone PROVE CopyInv'
<1> DEFINE r == Head(completions).req
           w == [pending[Pos] EXCEPT !.isRead = FALSE, !.len = Result]
           entries == IF Queues!CanPush THEN Append(sq, w) ELSE sq
           left == RemoveAt(pending, Pos)
           P == Range(pending)
           Q == (P \ {r}) \cup {w}
<1>1. /\ pc = "process" /\ completions # <<>> /\ Result >= 0 /\ pending[Pos].isRead
      /\ writesInFlight' = writesInFlight + 1 /\ readsInFlight' = readsInFlight - 1
      /\ bytesToWrite' = bytesToWrite /\ bytesToRead' = bytesToRead
      /\ pending' = Append(left, w) /\ completions' = Tail(completions)
      /\ offset' = offset /\ written' = written
  BY DEF ReadDone
<1>2. /\ \/ \E k \in 0 .. QueueDepth : SubmitsFrom(entries, k)
         \/ SubmitFailsFrom(entries)
      /\ pc' \in {"process", "failed"}
  BY DEF ReadDone
<1>3. Typed /\ Bounded /\ Books
  BY <1>1 DEF CopyInv
<1>4. Pos \in 1 .. Len(pending) /\ pending[Pos] = r
  BY <1>1, <1>3, Matched
<1>5. /\ Tail(completions) \in Seq(DoneType) /\ Tail(Done) = Tail(completions) \o cq
      /\ Range(Tail(Done)) \subseteq Range(Done)
      /\ r \in P /\ Once(sq, inflight, Tail(Done))
      /\ Range(sq) \cup inflight \cup Asked(Tail(Done)) = P \ {r}
  BY <1>1, <1>3, OldestDone
<1>6. /\ P \in SUBSET Ops /\ IsFiniteSet(P) /\ offset \in 0 .. FileSize
      /\ LaidOut(P, offset)
  BY <1>3, BooksMean DEF Typed, Books, Blocks
<1>7. r \in Ops /\ r.isRead /\ r.len \in Nat /\ r.offset \in Nat /\ r.len > 0
  BY <1>1, <1>4, <1>5, <1>6, InBytes DEF LaidOut
<1>8. Result \in 0 .. BlockSize /\ Result <= r.len
  BY <1>1, <1>3, ResultIs
<1>9. /\ w \in Ops /\ w.offset = r.offset /\ w.len = Result /\ ~w.isRead
  BY <1>4, <1>7, <1>8 DEF Ops
<1>10. Cardinality(P) = readsInFlight + writesInFlight /\ Range(sq) \subseteq P /\ Distinct(sq)
  BY <1>3, BooksMean
<1>11. sq \in Seq(Ops) /\ pending \in Seq(Ops) /\ cq \in Seq(DoneType) /\ Distinct(pending)
  BY <1>3 DEF Typed, Books, Blocks
<1> HIDE DEF r, w
<1>12. Queues!CanPush
  <2>1. Range(sq) \in SUBSET (P \ {r})
    BY <1>5
  <2>2. IsFiniteSet(P \ {r}) /\ Cardinality(P \ {r}) = Cardinality(P) - 1
    BY <1>5, <1>6, FS_RemoveElement
  <2>3. Cardinality(Range(sq)) <= Cardinality(P \ {r})
    BY <2>1, <2>2, FS_Subset
  <2>4. Cardinality(Range(sq)) = Len(sq) /\ Len(sq) \in Nat
    BY <1>10, <1>11, RangeSize, LenProperties
  <2>5. readsInFlight + writesInFlight <= QueueDepth
    BY <1>3 DEF Books, Counted
  <2>6. readsInFlight \in Nat /\ writesInFlight \in Nat /\ QueueDepth \in Nat
    BY <1>3, CopyAssumption DEF Typed
  <2>7. Len(sq) < QueueDepth
    BY <1>10, <2>2, <2>3, <2>4, <2>5, <2>6
  <2> QED
    BY <2>7 DEF Queues!CanPush
<1>13. entries = Append(sq, w)
  BY <1>12
<1> HIDE DEF entries
<1>14. /\ \A a \in P \ {r} : a.offset # w.offset
       /\ LaidOut(Q, offset)
       /\ Span(Q) \subseteq Span(P)
  <2>1. Q = (P \ {r}) \cup {w}
    OBVIOUS
  <2> HIDE DEF P, Q
  <2>2. r \in P /\ w \in Ops /\ w.offset = r.offset /\ w.len <= r.len /\ ~w.isRead
    BY <1>5, <1>8, <1>9
  <2>3. LaidOut(Q, offset)
    BY <1>6, <2>1, <2>2, SwapBlock
  <2>4. Span(Q) \subseteq Span(P)
    BY <1>6, <2>1, <2>2, SwapBlock
  <2>5. \A a \in P \ {r} : a.offset # w.offset
    BY <1>6, <2>2 DEF LaidOut
  <2> QED
    BY <2>3, <2>4, <2>5
<1>15. w \notin P \ {r}
  BY <1>14
<1>16. /\ entries \in Seq(Ops) /\ Once(entries, inflight, Tail(Done))
       /\ Range(entries) = Range(sq) \cup {w}
  <2>1. w \notin Range(sq) \cup inflight \cup Asked(Tail(Done))
    BY <1>5, <1>15
  <2>2. Once(Append(sq, w), inflight, Tail(Done))
    BY <1>5, <1>9, <1>11, <2>1, OncePush
  <2>3. Append(sq, w) \in Seq(Ops) /\ Range(Append(sq, w)) = Range(sq) \cup {w}
    BY <1>9, <1>11, AppendRange
  <2> QED
    BY <1>13, <2>2, <2>3
<1>17. /\ sq' \in Seq(Ops) /\ cq' = cq /\ Once(sq', inflight', Tail(Done))
       /\ Range(sq') \cup inflight' = Range(entries) \cup inflight
  BY <1>2, <1>16, EntriesSubmitted
<1>18. Done' = Tail(Done)
  BY <1>1, <1>5, <1>17 DEF Done
<1>19. /\ pending' \in Seq(Ops) /\ Distinct(pending') /\ Range(pending') = Q
  <2>1. /\ left \in Seq(Ops) /\ Distinct(left) /\ Range(left) = P \ {r}
    <3>1. Range(left) = P \ {pending[Pos]} /\ left \in Seq(Ops) /\ Distinct(left)
      BY <1>4, <1>11, RemoveRange
    <3> QED
      BY <1>4, <3>1
  <2> HIDE DEF left
  <2>2. w \notin Range(left)
    BY <1>15, <2>1
  <2>3. /\ Append(left, w) \in Seq(Ops) /\ Distinct(Append(left, w))
        /\ Range(Append(left, w)) = Range(left) \cup {w}
    BY <1>9, <2>1, <2>2, AppendNew
  <2> QED
    BY <1>1, <2>1, <2>3
<1>20. Placed'
  <2>1. Range(sq') \cup inflight' \cup Asked(Tail(Done)) = Q
    BY <1>5, <1>16, <1>17
  <2> QED
    BY <1>17, <1>18, <1>19, <2>1 DEF Placed
<1>21. Counted'
  <2>1. /\ Cardinality(Readers(Q)) = Cardinality(Readers(P)) - 1
        /\ Cardinality(Writers(Q)) = Cardinality(Writers(P)) + 1
    BY <1>5, <1>6, <1>7, <1>9, <1>15, CountSwap
  <2>2. /\ readsInFlight = Cardinality(Readers(P))
        /\ writesInFlight = Cardinality(Writers(P))
        /\ readsInFlight + writesInFlight <= QueueDepth
    BY <1>3 DEF Books, Counted
  <2>3. (readsInFlight - 1) + (writesInFlight + 1) <= QueueDepth
    BY <1>3, <2>2, CopyAssumption DEF Typed
  <2> QED
    BY <1>1, <1>19, <2>1, <2>2, <2>3 DEF Counted
<1>22. Typed'
  <2>1. inflight' \subseteq Ops
    <3>1. Range(pending') \subseteq Ops
      BY <1>6, <1>9, <1>19
    <3> QED
      BY <1>20, <3>1 DEF Placed
  <2>2. readsInFlight' \in Nat /\ writesInFlight' \in Nat
    <3>1. IsFiniteSet(Q)
      BY <1>6, FS_Subset, FS_AddElement
    <3> QED
      BY <1>19, <1>21, <3>1, CountBoth DEF Counted
  <2>3. readsInFlight' \in 0 .. QueueDepth /\ writesInFlight' \in 0 .. QueueDepth
    BY <1>21, <2>2, CopyAssumption DEF Counted
  <2> QED
    BY <1>1, <1>2, <1>3, <1>5, <1>11, <1>17, <1>19, <2>1, <2>3 DEF Typed
<1>23. Bounded'
  BY <1>3, <1>5, <1>18 DEF Bounded
<1>24. Blocks'
  BY <1>1, <1>14, <1>19 DEF Blocks
<1>25. Owing'
  <2> HIDE DEF P, Q
  <2>1. IsFiniteSet(Span(P)) /\ Span(Q) \in SUBSET Span(P)
    BY <1>6, <1>14, Disjoint
  <2>2. Cardinality(Span(Q)) <= Cardinality(Span(P)) /\ Cardinality(Span(P)) \in Nat
        /\ Cardinality(Span(Q)) \in Nat
    BY <2>1, FS_Subset, FS_CardinalityType
  <2>3. bytesToRead + Cardinality(Span(P)) <= bytesToWrite
    BY <1>3 DEF Books, Owing, P
  <2>4. bytesToRead \in Nat /\ bytesToWrite \in Nat
    BY <1>3, CopyAssumption DEF Typed
  <2>5. bytesToRead + Cardinality(Span(Q)) <= bytesToWrite
    BY <2>2, <2>3, <2>4
  <2> QED
    BY <1>1, <1>19, <2>5 DEF Owing
<1>26. ASSUME ~ShortWrites PROVE Exact'
  <2>1. Exact
    BY <1>3, <1>26 DEF Books
  <2>2. Bytes(r) \cap written = {}
    BY <1>5, <1>7, <2>1 DEF Exact
  <2>3. Lost(Q, offset, written) = Lost(P, offset, written)
    <3> HIDE DEF P
    <3> QED
      BY <1>5, <1>6, <1>8, <1>9, <2>2, LostSwap
  <2>4. \A d \in Range(Done') : ~d.req.isRead /\ d.res >= 0 => Bytes(d.req) \subseteq written
    BY <1>5, <1>18, <2>1 DEF Exact
  <2>5. w.offset \notin written
    <3>1. r.offset \in Bytes(r)
      BY <1>7, InBytes
    <3> QED
      BY <1>9, <2>2, <3>1
  <2>6. \A a \in Q : /\ a.isRead => Bytes(a) \cap written = {}
                     /\ a.len = 0 => a.offset \notin written
    BY <1>9, <2>1, <2>5 DEF Exact
  <2>7. /\ bytesToWrite = bytesToRead + Cardinality(Lost(Q, offset, written))
        /\ written \subseteq 0 .. offset - 1
    BY <2>1, <2>3 DEF Exact
  <2> QED
    BY <1>1, <1>19, <2>4, <2>6, <2>7 DEF Exact
<1> QED
  BY <1>1, <1>2, <1>20, <1>21, <1>22, <1>23, <1>24, <1>25, <1>26 DEF CopyInv, Books

(* The kernel completes an operation, and has written what it reports. *)
LEMMA KernelStep == ASSUME CopyInv, Kernel PROVE CopyInv'
<1>1. PICK op \in inflight, res \in 0 .. BlockSize \cup {EIO} : Complete(op, res)
  BY DEF Kernel
<1> DEFINE d == [req |-> op, res |-> res]
           P == Range(pending)
<1>2. /\ res \in Outcomes(op) /\ pc' = pc /\ UNCHANGED <<counters, pending, completions>>
      /\ inflight' = inflight \ {op} /\ cq' = Append(cq, d) /\ sq' = sq
  BY <1>1 DEF Complete, Queues!Complete
<1>3. Typed /\ Bounded
  BY DEF CopyInv
<1>4. op \in Ops /\ d \in DoneType /\ d.req = op /\ d.res = res
  BY <1>3 DEF Typed, DoneType
<1>5. /\ completions \in Seq(DoneType) /\ cq \in Seq(DoneType)
      /\ Done \in Seq(DoneType)
  BY <1>3, ConcatProperties DEF Typed, Done
<1> HIDE DEF d
<1>6. cq' \in Seq(DoneType) /\ Done' = Append(Done, d)
  <2>1. completions \o Append(cq, d) = Append(completions \o cq, d)
    BY <1>4, <1>5, JoinAppend
  <2>2. Append(cq, d) \in Seq(DoneType)
    BY <1>4, <1>5, AppendProperties
  <2> QED
    BY <1>2, <2>1, <2>2 DEF Done
<1>7. Range(Done') = Range(Done) \cup {d}
  BY <1>4, <1>5, <1>6, AppendRange
<1>8. Typed'
  BY <1>2, <1>3, <1>6 DEF Typed, counters
<1>9. Bounded'
  BY <1>2, <1>3, <1>4, <1>7 DEF Bounded, Outcomes
<1>10. ASSUME pc # "failed" PROVE Books'
  <2>1. Books
    BY <1>10 DEF CopyInv
  <2>2. Blocks' /\ Counted' /\ Owing'
    BY <1>2, <2>1 DEF Books, Blocks, Counted, Owing, counters
  <2>3. Placed'
    <3>1. Once(sq, inflight, Done) /\ Range(sq) \cup inflight \cup Asked(Done) = P
      BY <2>1 DEF Books, Placed
    <3>2. /\ Once(sq, inflight \ {d.req}, Append(Done, d))
          /\ Asked(Append(Done, d)) = Asked(Done) \cup {d.req}
      <4>1. d.req \in inflight
        BY <1>1, <1>4
      <4>2. Once(sq, inflight \ {d.req}, Append(Done, d))
        BY <1>4, <1>5, <3>1, <4>1, OnceComplete
      <4>3. Asked(Append(Done, d)) = Asked(Done) \cup {d.req}
        BY <1>4, <1>5, AskedAppend
      <4> QED
        BY <4>2, <4>3
    <3>3. Once(sq', inflight', Done') /\ Asked(Done') = Asked(Done) \cup {op}
      BY <1>2, <1>4, <1>6, <3>2
    <3>4. Range(sq') \cup inflight' \cup Asked(Done') = P
      BY <1>2, <3>1, <3>3
    <3> QED
      BY <1>2, <3>3, <3>4 DEF Placed
  <2>4. ASSUME ~ShortWrites PROVE Exact'
    <3>1. Exact
      BY <2>1, <2>4 DEF Books
    <3>2. /\ P \in SUBSET Ops /\ op \in P /\ offset \in 0 .. FileSize
          /\ LaidOut(P, offset)
      BY <1>3, <2>1, BooksMean DEF Typed, Books, Blocks, Placed
    <3>3. CASE op.isRead \/ res < 0
      <4>1. written' = written
        BY <1>1, <3>3 DEF Complete
      <4>2. \A c \in Range(Done') : ~c.req.isRead /\ c.res >= 0
                                      => Bytes(c.req) \subseteq written
        <5>1. ~(~op.isRead /\ res >= 0)
          <6>1. res \in Int
            BY CopyAssumption DEF EIO
          <6> QED
            BY <3>3, <6>1
        <5> QED
          BY <1>4, <1>7, <3>1, <5>1 DEF Exact
      <4> QED
        BY <1>2, <3>1, <4>1, <4>2 DEF Exact, counters
    <3>4. CASE ~op.isRead /\ ~(res < 0)
      <4>1. res = op.len
        <5>1. res # EIO
          BY <3>4 DEF EIO
        <5> QED
          BY <1>2, <2>4, <3>4, <5>1 DEF Outcomes
      <4>2. written' = written \cup Bytes(op)
        BY <1>1, <3>4, <4>1 DEF Complete, Bytes
      <4>3. Lost(P, offset, written \cup Bytes(op)) = Lost(P, offset, written)
        BY <3>2, LostWrite
      <4>4. written \cup Bytes(op) \subseteq 0 .. offset - 1
        <5>1. Span(P) \subseteq 0 .. offset - 1
          BY <3>2, Disjoint
        <5>2. Bytes(op) \subseteq Span(P)
          BY <3>2 DEF Span
        <5> QED
          BY <3>1, <5>1, <5>2 DEF Exact
      <4>5. \A c \in Range(Done') : ~c.req.isRead /\ c.res >= 0
                                      => Bytes(c.req) \subseteq written \cup Bytes(op)
        BY <1>4, <1>7, <3>1 DEF Exact
      <4>6. ASSUME NEW a \in P
            PROVE  /\ a.isRead => Bytes(a) \cap (written \cup Bytes(op)) = {}
                   /\ a.len = 0 => a.offset \notin written \cup Bytes(op)
        <5>1. CASE a = op
          <6>1. a.len = 0 => Bytes(op) = {}
            BY <1>4, <5>1, FS_EmptySet, InBytes
          <6> QED
            BY <3>1, <3>4, <5>1, <6>1 DEF Exact
        <5>2. CASE a # op
          <6>1. Bytes(a) \cap Bytes(op) = {}
            BY <3>2, <5>2, Disjoint
          <6>2. a.offset \notin Bytes(op)
            <7>1. a.offset # op.offset
              BY <3>2, <5>2 DEF LaidOut
            <7>2. op.offset < a.offset => op.offset + op.len <= a.offset
              BY <3>2 DEF LaidOut
            <7>3. /\ a.offset \in Nat /\ op.offset \in Nat /\ op.len \in Nat
                  /\ a.offset \in Bytes(op)
                       <=> op.offset <= a.offset /\ a.offset < op.offset + op.len
              BY <1>4, <3>2, CopyAssumption, InBytes
            <7> QED
              BY <7>1, <7>2, <7>3
          <6> QED
            BY <3>1, <6>1, <6>2 DEF Exact
        <5> QED
          BY <5>1, <5>2
      <4>7. bytesToWrite = bytesToRead + Cardinality(Lost(P, offset, written \cup Bytes(op)))
        BY <3>1, <4>3 DEF Exact
      <4> QED
        BY <1>2, <4>2, <4>4, <4>5, <4>6, <4>7 DEF Exact, counters
    <3> QED
      BY <3>3, <3>4
  <2> QED
    BY <2>2, <2>3, <2>4 DEF Books
<1> QED
  BY <1>2, <1>8, <1>9, <1>10 DEF CopyInv, counters

(* Nothing is queued, and nothing is written. *)
LEMMA InitBooks == Init => CopyInv
<1> SUFFICES ASSUME Init PROVE CopyInv
  OBVIOUS
<1>1. /\ pc = "fill" /\ offset = 0 /\ bytesToRead = FileSize /\ bytesToWrite = FileSize
      /\ readsInFlight = 0 /\ writesInFlight = 0
      /\ pending = <<>> /\ completions = <<>> /\ written = {}
      /\ sq = <<>> /\ inflight = {} /\ cq = <<>>
  BY DEF Init, Queues!QInit
<1>2. /\ <<>> \in Seq(Ops) /\ <<>> \in Seq(DoneType) /\ Len(<<>>) = 0
      /\ Range(<<>>) = {}
  BY EmptySeq DEF Range
<1>3. Done = <<>>
  BY <1>1, <1>2, ConcatEmptySeq DEF Done
<1>4. Typed
  BY <1>1, <1>2, CopyAssumption DEF Typed
<1>5. Bounded
  BY <1>2, <1>3 DEF Bounded
<1>6. Distinct(<<>>) /\ Asked(<<>>) = {}
  BY <1>2 DEF Distinct, Asked
<1>7. Blocks
  BY <1>1, <1>2, <1>6 DEF Blocks, LaidOut
<1>8. Placed
  BY <1>1, <1>2, <1>3, <1>6 DEF Placed, Once
<1> DEFINE P == Range(pending)
<1>9. /\ Cardinality(Span(P)) = 0 /\ Cardinality(Readers(P)) = 0
      /\ Cardinality(Writers(P)) = 0 /\ Cardinality(Lost(P, offset, written)) = 0
  <2>1. P = {}
    BY <1>1, <1>2
  <2>2. Span(P) = {} /\ Readers(P) = {} /\ Writers(P) = {} /\ Lost(P, offset, written) = {}
    BY <1>1, <2>1 DEF Span, Readers, Writers, Lost
  <2> QED
    BY <2>2, FS_EmptySet
<1>10. Counted
  BY <1>1, <1>9, CopyAssumption DEF Counted
<1>11. Owing
  BY <1>1, <1>9, CopyAssumption DEF Owing
<1>12. Exact
  BY <1>1, <1>2, <1>3, <1>9, CopyAssumption DEF Exact
<1> QED
  BY <1>1, <1>4, <1>5, <1>7, <1>8, <1>10, <1>11, <1>12 DEF CopyInv, Books

(* CopyInv holds of every file, block and queue size, with and without      *)
(* short reads, short writes and errors.                                    *)
THEOREM CopyInvariant == Spec => []CopyInv
<1>1. CopyInv /\ [Next]_vars => CopyInv'
  <2> SUFFICES ASSUME CopyInv, [Next]_vars PROVE CopyInv'
    OBVIOUS
  <2>1. CASE QueueRead
    BY <2>1, QueueReadStep
  <2>2. CASE Submit
    BY <2>2, SubmitStep
  <2>3. CASE Drain
    BY <2>3, DrainStep
  <2>4. CASE ReadDone
    BY <2>4, ReadDoneStep
  <2>5. CASE WriteDone
    BY <2>5, WriteDoneStep
  <2>6. CASE Filled \/ Drained \/ Fails \/ Processed
    BY <2>6, ControlStep
  <2>7. CASE Kernel
    BY <2>7, KernelStep
  <2>8. CASE UNCHANGED vars
    BY <2>8 DEF vars, ring, counters, CopyInv, Typed, Bounded, Books, Blocks, Placed,
                Counted, Owing, Exact, Done
  <2> QED
    BY <2>1, <2>2, <2>3, <2>4, <2>5, <2>6, <2>7, <2>8 DEF Next, Program
<1> QED
  BY InitBooks, <1>1, PTL DEF Spec

-----------------------------------------------------------------------------
(* 5. What the invariant means for the program.                             *)

(* What is in the ring or drained is what has its IoData. *)
LEMMA OutstandingIs == CopyInv /\ pc # "failed" => Outstanding = Range(pending)
<1> SUFFICES ASSUME CopyInv, pc # "failed" PROVE Outstanding = Range(pending)
  OBVIOUS
<1>1. Typed /\ Books
  BY DEF CopyInv
<1>2. Asked(Done) = {c.req : c \in Range(completions)} \cup {c.req : c \in Range(cq)}
  BY <1>1, AskedJoin DEF Typed, Done
<1>3. Queues!Held = Range(sq) \cup inflight \cup {c.req : c \in Range(cq)}
  BY DEF Queues!Held, Range, Queues!Range
<1>4. Range(sq) \cup inflight \cup Asked(Done) = Range(pending)
  BY <1>1 DEF Books, Placed
<1> QED
  BY <1>2, <1>3, <1>4 DEF Outstanding

(* The counters are unsigned: none of readsInFlight, writesInFlight,        *)
(* bytesToRead and bytesToWrite ever drops below zero.                      *)
THEOREM CopyTypeCorrect == Spec => []TypeOK
<1>1. CopyInv => TypeOK
  BY CopyAssumption DEF CopyInv, Typed, TypeOK
<1> QED
  BY <1>1, CopyInvariant, PTL

(* The program's counters agree with the ring at every step, so the write   *)
(* that follows a read always finds an entry.                               *)
THEOREM CountersAreExact == Spec => []CountersMatchRing
<1>1. CopyInv => CountersMatchRing
  <2> SUFFICES ASSUME CopyInv, pc # "failed"
               PROVE  /\ readsInFlight = Cardinality({op \in Outstanding : op.isRead})
                      /\ writesInFlight = Cardinality({op \in Outstanding : ~op.isRead})
                      /\ Len(pending) = readsInFlight + writesInFlight
    BY DEF CountersMatchRing
  <2>1. Outstanding = Range(pending) /\ Typed /\ Books
    BY OutstandingIs DEF CopyInv
  <2>2. Len(pending) = readsInFlight + writesInFlight
    BY <2>1, BooksMean
  <2> QED
    BY <2>1, <2>2 DEF Books, Counted, Readers, Writers
<1> QED
  BY <1>1, CopyInvariant, PTL

(* Until copy_file returns an error, every operation the kernel may work on *)
(* has its buffer in pending_operations.                                    *)
THEOREM BuffersStayKept == Spec => []BuffersAreKept
<1>1. CopyInv => BuffersAreKept
  BY OutstandingIs DEF BuffersAreKept
<1> QED
  BY <1>1, CopyInvariant, PTL

(* When writes are not short, reads being short or not, Ok means that every *)
(* byte is written and nothing is in flight.                                *)
THEOREM OkMeansCopied ==
  ASSUME ~ShortWrites
  PROVE  Spec => []CopyIsComplete
<1>1. CopyInv => CopyIsComplete
  <2> SUFFICES ASSUME CopyInv, pc = "done"
               PROVE  written = 0 .. FileSize - 1 /\ Outstanding = {}
    BY DEF CopyIsComplete
  <2> DEFINE P == Range(pending)
             lost == Lost(P, offset, written)
  <2>1. Typed /\ Books /\ Exact /\ bytesToRead = 0 /\ bytesToWrite = 0
    BY DEF CopyInv, Books
  <2>2. offset = FileSize /\ offset \in Nat /\ offset \in 0 .. FileSize
    BY <2>1, CopyAssumption DEF Typed
  <2>3. IsFiniteSet(lost) /\ Cardinality(lost) \in Nat
    BY <2>2, LostIsFinite
  <2>4. 0 = 0 + Cardinality(lost)
    BY <2>1 DEF Exact
  <2>5. lost = {}
    <3> HIDE DEF lost
    <3> QED
      BY <2>3, <2>4, FS_EmptySet
  <2>6. 0 .. offset - 1 \subseteq written \ Span(P)
    BY <2>5 DEF Lost
  <2>7. P \in SUBSET Ops /\ LaidOut(P, offset)
    BY <2>1, BooksMean DEF Books, Blocks
  <2>8. ASSUME NEW a \in P PROVE FALSE
    <3>1. a.offset \in Nat /\ a.len \in Nat /\ a.offset < offset
      BY <2>7, <2>8, InBytes, CopyAssumption DEF LaidOut
    <3>2. a.offset \in written /\ a.offset \notin Span(P)
      BY <2>2, <2>6, <3>1
    <3>3. a.len # 0
      BY <2>1, <3>2 DEF Exact
    <3>4. a.offset \in Bytes(a)
      BY <2>7, <3>1, <3>3, InBytes
    <3> QED
      BY <3>2, <3>4 DEF Span
  <2>9. P = {}
    BY <2>8
  <2>10. written = 0 .. offset - 1
    BY <2>1, <2>6 DEF Exact
  <2> QED
    BY <2>2, <2>9, <2>10, OutstandingIs
<1> QED
  BY <1>1, CopyInvariant, PTL
=============================================================================
