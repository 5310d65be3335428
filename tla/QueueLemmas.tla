---------------------------- MODULE QueueLemmas -----------------------------
(***************************************************************************)
(* Facts about the sequences and sets of RingQueues, for the proofs about  *)
(* the programs that use a ring.                                           *)
(***************************************************************************)
EXTENDS Integers, Sequences, FiniteSets, Functions, FiniteSetTheorems,
        SequenceTheorems, TLAPS

(* The k oldest elements of a queue, and the queue without them. *)
Oldest(q, k) == {q[i] : i \in 1 .. k}
Rest(q, k)   == SubSeq(q, k + 1, Len(q))

Distinct(q) == \A i, j \in 1 .. Len(q) : q[i] = q[j] => i = j

(* A function on 1 .. n is a sequence of length n. *)
LEMMA FunctionIsSeq ==
  ASSUME NEW S, NEW n \in Nat, NEW f \in [1 .. n -> S]
  PROVE  f \in Seq(S) /\ Len(f) = n
<1>1. f \in Seq(S)
  BY SeqDef
<1>2. Len(f) \in Nat /\ 1 .. Len(f) = 1 .. n
  BY <1>1, LenProperties
<1>3. Len(f) = n
  BY <1>2
<1> QED
  BY <1>1, <1>3

(* A sequence of no length is the empty one. *)
LEMMA NoneIsEmpty ==
  ASSUME NEW S, NEW q \in Seq(S), Len(q) = 0
  PROVE  q = <<>>
BY EmptySeq

(* Range and membership, element by element. *)
LEMMA InRange ==
  ASSUME NEW S, NEW q \in Seq(S), NEW x
  PROVE  x \in Range(q) <=> \E i \in 1 .. Len(q) : q[i] = x
BY RangeEquality

(* The oldest element is taken off: the others stay where they are. *)
LEMMA RangeTail ==
  ASSUME NEW S, NEW q \in Seq(S), q # <<>>
  PROVE  /\ Tail(q) \in Seq(S) /\ Len(Tail(q)) = Len(q) - 1
         /\ Head(q) \in S /\ Head(q) \in Range(q)
         /\ Range(Tail(q)) \subseteq Range(q)
<1>1. /\ Head(q) \in S /\ Tail(q) \in Seq(S) /\ Len(Tail(q)) = Len(q) - 1
      /\ \A i \in 1 .. Len(Tail(q)) : Tail(q)[i] = q[i + 1]
  BY HeadTailProperties
<1>2. Len(q) \in Nat \ {0} /\ Head(q) = q[1]
  BY EmptySeq
<1>3. Head(q) \in Range(q)
  BY <1>2, InRange
<1>4. ASSUME NEW x \in Range(Tail(q)) PROVE x \in Range(q)
  <2>1. PICK i \in 1 .. Len(Tail(q)) : Tail(q)[i] = x
    BY <1>1, InRange
  <2>2. i + 1 \in 1 .. Len(q) /\ q[i + 1] = x
    BY <1>1, <1>2, <2>1
  <2> QED
    BY <2>2, InRange
<1> QED
  BY <1>1, <1>3, <1>4

(* A new element at the end, and what the queue then holds. *)
LEMMA AppendRange ==
  ASSUME NEW S, NEW q \in Seq(S), NEW x \in S
  PROVE  /\ Append(q, x) \in Seq(S) /\ Len(Append(q, x)) = Len(q) + 1
         /\ \A i \in 1 .. Len(q) : Append(q, x)[i] = q[i]
         /\ Append(q, x)[Len(q) + 1] = x
         /\ Range(Append(q, x)) = Range(q) \cup {x}
<1> DEFINE p == Append(q, x)
<1>1. /\ p \in Seq(S) /\ Len(p) = Len(q) + 1
      /\ \A i \in 1 .. Len(q) : p[i] = q[i]
      /\ p[Len(q) + 1] = x
  BY AppendProperties
<1>2. Len(q) \in Nat
  BY LenProperties
<1> HIDE DEF p
<1>3. ASSUME NEW y PROVE y \in Range(p) <=> y \in Range(q) \cup {x}
  BY <1>1, <1>2, InRange
<1> QED
  BY <1>1, <1>3 DEF p

(* A new element leaves a queue without repetitions without them. *)
LEMMA AppendNew ==
  ASSUME NEW S, NEW q \in Seq(S), NEW x \in S, x \notin Range(q), Distinct(q)
  PROVE  /\ Append(q, x) \in Seq(S) /\ Len(Append(q, x)) = Len(q) + 1
         /\ Distinct(Append(q, x))
         /\ Range(Append(q, x)) = Range(q) \cup {x}
<1> DEFINE p == Append(q, x)
<1>1. /\ p \in Seq(S) /\ Len(p) = Len(q) + 1
      /\ \A i \in 1 .. Len(q) : p[i] = q[i]
      /\ p[Len(q) + 1] = x /\ Range(p) = Range(q) \cup {x}
  BY AppendRange
<1>2. Len(q) \in Nat
  BY LenProperties
<1>3. \A i \in 1 .. Len(q) : q[i] # x
  BY InRange
<1> HIDE DEF p
<1>4. Distinct(p)
  <2> SUFFICES ASSUME NEW i \in 1 .. Len(p), NEW j \in 1 .. Len(p), p[i] = p[j]
               PROVE  i = j
    BY DEF Distinct
  <2>1. CASE i \in 1 .. Len(q) /\ j \in 1 .. Len(q)
    BY <1>1, <2>1 DEF Distinct
  <2>2. CASE i = Len(q) + 1 \/ j = Len(q) + 1
    BY <1>1, <1>2, <1>3, <2>2
  <2> QED
    BY <1>1, <1>2, <2>1, <2>2
<1> QED
  BY <1>1, <1>4 DEF p

(* The first k elements of a queue without repetitions are k, ... *)
LEMMA FirstAreMany ==
  ASSUME NEW S, NEW q \in Seq(S), Distinct(q), NEW k \in 0 .. Len(q)
  PROVE  /\ IsFiniteSet({q[i] : i \in 1 .. k})
         /\ Cardinality({q[i] : i \in 1 .. k}) = k
<1> DEFINE T == {q[i] : i \in 1 .. k}
           m == [i \in 1 .. k |-> q[i]]
<1>1. k \in Nat /\ Len(q) \in Nat
  BY LenProperties
<1>2. m \in Bijection(1 .. k, T)
  <2>1. m \in [1 .. k -> T]
    OBVIOUS
  <2>2. \A a, b \in DOMAIN m : m[a] = m[b] => a = b
    BY <1>1 DEF Distinct
  <2>3. \A t \in T : \E s \in 1 .. k : m[s] = t
    OBVIOUS
  <2> QED
    BY <2>1, <2>2, <2>3 DEF Bijection, Injection, Surjection, IsInjective
<1>3. ExistsBijection(1 .. k, T)
  BY <1>2 DEF ExistsBijection
<1>4. IsFiniteSet(1 .. k) /\ Cardinality(1 .. k) = k
  BY <1>1, FS_Interval
<1> HIDE DEF T, m
<1>5. IsFiniteSet(T) /\ Cardinality(T) = k
  BY <1>3, <1>4, FS_Bijection
<1> QED
  BY <1>5 DEF T

(* ... and add as many to a set that has none of them: what submit() does   *)
(* when the kernel takes the k oldest entries.                              *)
LEMMA TakeFirst ==
  ASSUME NEW S, NEW q \in Seq(S), Distinct(q), NEW k \in 0 .. Len(q),
         NEW I, IsFiniteSet(I), I \cap Range(q) = {}
  PROVE  /\ Rest(q, k) \in Seq(S) /\ Len(Rest(q, k)) = Len(q) - k
         /\ Distinct(Rest(q, k))
         /\ (I \cup Oldest(q, k)) \cap Range(Rest(q, k)) = {}
         /\ Range(Rest(q, k)) \cup Oldest(q, k) = Range(q)
         /\ IsFiniteSet(I \cup Oldest(q, k))
         /\ Cardinality(I \cup Oldest(q, k)) = Cardinality(I) + k
<1> DEFINE taken == Oldest(q, k)
           rest  == Rest(q, k)
<1>1. k \in Nat /\ Len(q) \in Nat /\ k <= Len(q)
  BY LenProperties
<1>2. \A i \in 1 .. Len(q) : q[i] \in S
  BY ElementOfSeq
<1>3. /\ rest \in Seq(S)
      /\ Len(rest) = Len(q) - k
      /\ \A i \in 1 .. Len(rest) : rest[i] = q[k + i]
  <2>1. /\ rest \in Seq(S)
        /\ Len(rest) = IF k + 1 <= Len(q) THEN Len(q) - (k + 1) + 1 ELSE 0
        /\ \A i \in 1 .. Len(q) - (k + 1) + 1 : rest[i] = q[(k + 1) + i - 1]
    BY <1>1, <1>2, SubSeqProperties DEF Rest
  <2> HIDE DEF rest
  <2>2. Len(rest) = Len(q) - k
    <3>1. CASE k = Len(q)
      BY <1>1, <2>1, <3>1
    <3>2. CASE k < Len(q)
      BY <1>1, <2>1, <3>2
    <3> QED
      BY <1>1, <3>1, <3>2
  <2>3. ASSUME NEW i \in 1 .. Len(rest) PROVE rest[i] = q[k + i]
    <3>1. (k + 1) + i - 1 = k + i /\ i \in 1 .. Len(q) - (k + 1) + 1
      BY <1>1, <2>2
    <3> QED
      BY <2>1, <3>1
  <2> QED
    BY <2>1, <2>2, <2>3
<1>4. \A x : x \in taken <=> \E i \in 1 .. k : q[i] = x
  BY DEF Oldest
<1>5. IsFiniteSet(taken) /\ Cardinality(taken) = k
  BY FirstAreMany DEF Oldest
<1> HIDE DEF taken, rest
<1>6. Distinct(rest)
  <2> SUFFICES ASSUME NEW i \in 1 .. Len(rest), NEW j \in 1 .. Len(rest), rest[i] = rest[j]
               PROVE  i = j
    BY DEF Distinct
  <2>1. k + i \in 1 .. Len(q) /\ k + j \in 1 .. Len(q) /\ q[k + i] = q[k + j]
    BY <1>1, <1>3
  <2>2. k + i = k + j
    BY <2>1 DEF Distinct
  <2> QED
    BY <1>1, <2>2
<1>7. taken \cap Range(rest) = {}
  <2> SUFFICES ASSUME NEW x \in taken, x \in Range(rest) PROVE FALSE
    OBVIOUS
  <2>1. PICK i \in 1 .. k : q[i] = x
    BY <1>4
  <2>2. PICK j \in 1 .. Len(rest) : rest[j] = x
    BY <1>3, InRange
  <2>3. i \in 1 .. Len(q) /\ k + j \in 1 .. Len(q) /\ q[i] = q[k + j]
    BY <1>1, <1>3, <2>1, <2>2
  <2>4. i = k + j
    BY <2>3 DEF Distinct
  <2> QED
    BY <1>1, <2>4
<1>8. Range(rest) \cup taken = Range(q)
  <2>1. ASSUME NEW x \in Range(rest) PROVE x \in Range(q)
    <3>1. PICK j \in 1 .. Len(rest) : rest[j] = x
      BY <1>3, InRange
    <3>2. k + j \in 1 .. Len(q) /\ q[k + j] = x
      BY <1>1, <1>3, <3>1
    <3> QED
      BY <3>2, InRange
  <2>2. ASSUME NEW x \in taken PROVE x \in Range(q)
    BY <1>1, <1>4, InRange
  <2>3. ASSUME NEW x \in Range(q) PROVE x \in Range(rest) \cup taken
    <3>1. PICK i \in 1 .. Len(q) : q[i] = x
      BY InRange
    <3>2. CASE i <= k
      BY <1>1, <1>4, <3>1, <3>2
    <3>3. CASE i > k
      <4>1. i - k \in 1 .. Len(rest) /\ rest[i - k] = q[k + (i - k)] /\ k + (i - k) = i
        BY <1>1, <1>3, <3>3
      <4> QED
        BY <1>3, <3>1, <4>1, InRange
    <3> QED
      BY <1>1, <3>2, <3>3
  <2> QED
    BY <2>1, <2>2, <2>3
<1>9. IsFiniteSet(I \cup taken) /\ Cardinality(I \cup taken) = Cardinality(I) + k
  <2>1. I \cap taken = {}
    BY <1>8
  <2>2. Cardinality(I \cap taken) = 0
    BY <2>1, FS_EmptySet
  <2>3. /\ IsFiniteSet(I \cup taken)
        /\ Cardinality(I \cup taken)
             = Cardinality(I) + Cardinality(taken) - Cardinality(I \cap taken)
    BY <1>5, FS_Union
  <2>4. Cardinality(I) \in Nat
    BY FS_CardinalityType
  <2> QED
    BY <1>1, <1>5, <2>2, <2>3, <2>4
<1>10. (I \cup taken) \cap Range(rest) = {}
  BY <1>7, <1>8
<1> QED
  BY <1>3, <1>6, <1>8, <1>9, <1>10 DEF taken, rest

(* What is left of a finite set when a part of it is taken out. *)
LEMMA TakenOut ==
  ASSUME NEW S, IsFiniteSet(S), NEW T \in SUBSET S
  PROVE  /\ IsFiniteSet(S \ T) /\ IsFiniteSet(T)
         /\ Cardinality(S \ T) = Cardinality(S) - Cardinality(T)
<1>1. IsFiniteSet(S \ T) /\ IsFiniteSet(T)
  BY FS_Subset
<1>2. (S \ T) \cup T = S /\ (S \ T) \cap T = {}
  OBVIOUS
<1>3. Cardinality(S) = Cardinality(S \ T) + Cardinality(T) - 0
  BY <1>1, <1>2, FS_Union, FS_EmptySet
<1>4. Cardinality(S) \in Nat /\ Cardinality(S \ T) \in Nat /\ Cardinality(T) \in Nat
  BY <1>1, FS_CardinalityType
<1> QED
  BY <1>1, <1>3, <1>4

(* Two finite sets with nothing in common. *)
LEMMA PutTogether ==
  ASSUME NEW S, IsFiniteSet(S), NEW T, IsFiniteSet(T), S \cap T = {}
  PROVE  IsFiniteSet(S \cup T) /\ Cardinality(S \cup T) = Cardinality(S) + Cardinality(T)
<1>1. IsFiniteSet(S \cup T) /\ Cardinality(S \cup T) = Cardinality(S) + Cardinality(T) - 0
  BY FS_Union, FS_EmptySet
<1>2. Cardinality(S) \in Nat /\ Cardinality(T) \in Nat
  BY FS_CardinalityType
<1> QED
  BY <1>1, <1>2

(* Two different elements. *)
LEMMA PairIsTwo ==
  ASSUME NEW x, NEW y, x # y
  PROVE  IsFiniteSet({x, y}) /\ Cardinality({x, y}) = 2
<1>1. /\ IsFiniteSet({x}) /\ Cardinality({x}) = 1
      /\ IsFiniteSet({y}) /\ Cardinality({y}) = 1
  BY FS_Singleton
<1>2. {x} \cap {y} = {} /\ {x} \cup {y} = {x, y}
  OBVIOUS
<1>3. IsFiniteSet({x} \cup {y}) /\ Cardinality({x} \cup {y}) = 1 + 1
  BY <1>1, <1>2, PutTogether
<1> QED
  BY <1>2, <1>3

(* A sequence without repetitions is as long as its range is large. *)
LEMMA RangeSize ==
  ASSUME NEW S, NEW q \in Seq(S), Distinct(q)
  PROVE  IsFiniteSet(Range(q)) /\ Cardinality(Range(q)) = Len(q)
<1>1. Len(q) \in 0 .. Len(q)
  BY LenProperties
<1>2. /\ IsFiniteSet({q[i] : i \in 1 .. Len(q)})
      /\ Cardinality({q[i] : i \in 1 .. Len(q)}) = Len(q)
  BY <1>1, FirstAreMany
<1>3. {q[i] : i \in 1 .. Len(q)} = Range(q)
  BY InRange
<1> QED
  BY <1>2, <1>3

-----------------------------------------------------------------------------
(* A request in one place of a ring at a time: the queue q, the set I the    *)
(* kernel holds, the completions c.                                         *)
Asked(c) == {c[i].req : i \in 1 .. Len(c)}

Once(q, I, c) ==
  /\ Distinct(q)
  /\ \A i, j \in 1 .. Len(c) : c[i].req = c[j].req => i = j
  /\ I \cap Range(q) = {} /\ Asked(c) \cap Range(q) = {} /\ I \cap Asked(c) = {}

(* A request that is nowhere yet is queued. *)
LEMMA OncePush ==
  ASSUME NEW S, NEW q \in Seq(S), NEW I, NEW c, Once(q, I, c),
         NEW r \in S, r \notin Range(q) \cup I \cup Asked(c)
  PROVE  Once(Append(q, r), I, c)
<1> DEFINE p == Append(q, r)
<1>1. Distinct(p) /\ Range(p) = Range(q) \cup {r}
  BY AppendNew DEF Once
<1> HIDE DEF p
<1>2. Once(p, I, c)
  BY <1>1 DEF Once
<1> QED
  BY <1>2 DEF p

(* The kernel takes the k oldest. *)
LEMMA OnceTake ==
  ASSUME NEW S, NEW q \in Seq(S), NEW I, NEW c, Once(q, I, c), NEW k \in 0 .. Len(q)
  PROVE  /\ Once(Rest(q, k), I \cup Oldest(q, k), c)
         /\ Rest(q, k) \in Seq(S) /\ Oldest(q, k) \subseteq Range(q)
         /\ Range(Rest(q, k)) \cup Oldest(q, k) = Range(q)
<1> DEFINE p == Rest(q, k)
           T == Oldest(q, k)
<1>1. /\ p \in Seq(S) /\ Distinct(p) /\ T \cap Range(p) = {}
      /\ Range(p) \cup T = Range(q)
  <2>1. IsFiniteSet({}) /\ {} \cap Range(q) = {} /\ Distinct(q)
    BY FS_EmptySet DEF Once
  <2>2. /\ p \in Seq(S) /\ Distinct(p) /\ ({} \cup T) \cap Range(p) = {}
        /\ Range(p) \cup T = Range(q)
    BY <2>1, TakeFirst
  <2> QED
    BY <2>2
<1> HIDE DEF p, T
<1>2. Once(p, I \cup T, c)
  BY <1>1 DEF Once
<1> QED
  BY <1>1, <1>2 DEF p, T

(* A new completion is of one request more. *)
LEMMA AskedAppend ==
  ASSUME NEW S, NEW c \in Seq(S), NEW d \in S
  PROVE  Asked(Append(c, d)) = Asked(c) \cup {d.req}
<1> DEFINE e == Append(c, d)
<1>1. /\ Len(e) = Len(c) + 1 /\ Len(c) \in Nat
      /\ \A i \in 1 .. Len(c) : e[i] = c[i]
      /\ e[Len(c) + 1] = d
  BY AppendProperties, LenProperties
<1> HIDE DEF e
<1>2. ASSUME NEW i \in 1 .. Len(e) PROVE e[i].req \in Asked(c) \cup {d.req}
  BY <1>1 DEF Asked
<1>3. ASSUME NEW i \in 1 .. Len(c) PROVE c[i].req \in Asked(e)
  <2>1. i \in 1 .. Len(e) /\ e[i] = c[i]
    BY <1>1
  <2> QED
    BY <2>1 DEF Asked
<1>4. d.req \in Asked(e)
  <2>1. Len(c) + 1 \in 1 .. Len(e) /\ e[Len(c) + 1] = d
    BY <1>1
  <2> QED
    BY <2>1 DEF Asked
<1>5. Asked(e) = Asked(c) \cup {d.req}
  BY <1>2, <1>3, <1>4 DEF Asked
<1> QED
  BY <1>5 DEF e

(* A request the kernel holds is completed. *)
LEMMA OnceComplete ==
  ASSUME NEW q, NEW I, NEW S, NEW c \in Seq(S), Once(q, I, c),
         NEW d \in S, d.req \in I
  PROVE  Once(q, I \ {d.req}, Append(c, d))
<1> DEFINE e == Append(c, d)
<1>1. /\ Len(e) = Len(c) + 1 /\ Len(c) \in Nat
      /\ \A i \in 1 .. Len(c) : e[i] = c[i]
      /\ e[Len(c) + 1] = d
  BY AppendProperties, LenProperties
<1>2. Asked(e) = Asked(c) \cup {d.req}
  BY AskedAppend
<1> HIDE DEF e
<1>3. ASSUME NEW i \in 1 .. Len(e), NEW j \in 1 .. Len(e), e[i].req = e[j].req
      PROVE  i = j
  <2>1. \A k \in 1 .. Len(c) : e[k].req # d.req /\ e[k].req = c[k].req
    BY <1>1 DEF Once, Asked
  <2>2. CASE i \in 1 .. Len(c) /\ j \in 1 .. Len(c)
    BY <1>3, <2>1, <2>2 DEF Once
  <2>3. CASE i = Len(c) + 1 \/ j = Len(c) + 1
    BY <1>1, <1>3, <2>1, <2>3
  <2> QED
    BY <1>1, <2>2, <2>3
<1>4. Once(q, I \ {d.req}, e)
  BY <1>2, <1>3 DEF Once
<1> QED
  BY <1>4 DEF e

(* The oldest completion is reaped. *)
LEMMA OnceReap ==
  ASSUME NEW q, NEW I, NEW S, NEW c \in Seq(S), c # <<>>, Once(q, I, c)
  PROVE  /\ Once(q, I, Tail(c)) /\ Tail(c) \in Seq(S)
         /\ Head(c).req \in Asked(c) /\ Asked(Tail(c)) = Asked(c) \ {Head(c).req}
<1> DEFINE e == Tail(c)
<1>1. /\ e \in Seq(S) /\ Len(e) = Len(c) - 1 /\ Len(c) \in Nat \ {0}
      /\ \A i \in 1 .. Len(c) - 1 : e[i] = c[i + 1]
      /\ Head(c) = c[1]
  BY HeadTailProperties, EmptySeq
<1> HIDE DEF e
<1>2. Head(c).req \in Asked(c)
  BY <1>1 DEF Asked
<1>3. ASSUME NEW i \in 1 .. Len(e)
      PROVE  i + 1 \in 1 .. Len(c) /\ i + 1 # 1 /\ e[i].req = c[i + 1].req
  BY <1>1
<1>4. ASSUME NEW i \in 1 .. Len(e), NEW j \in 1 .. Len(e), e[i].req = e[j].req
      PROVE  i = j
  <2>1. i + 1 = j + 1
    BY <1>3, <1>4 DEF Once
  <2> QED
    BY <2>1
<1>5. Asked(e) = Asked(c) \ {Head(c).req}
  <2>1. ASSUME NEW i \in 1 .. Len(e) PROVE e[i].req \in Asked(c) \ {Head(c).req}
    <3>1. c[i + 1].req # c[1].req
      BY <1>1, <1>3 DEF Once
    <3> QED
      BY <1>1, <1>3, <3>1 DEF Asked
  <2>2. ASSUME NEW i \in 1 .. Len(c), c[i].req # Head(c).req PROVE c[i].req \in Asked(e)
    <3>1. i - 1 \in 1 .. Len(e) /\ (i - 1) + 1 = i
      BY <1>1, <2>2
    <3>2. e[i - 1].req = c[i].req
      BY <1>1, <3>1
    <3> QED
      BY <3>1, <3>2 DEF Asked
  <2> QED
    BY <2>1, <2>2 DEF Asked
<1>6. Once(q, I, e)
  BY <1>4, <1>5 DEF Once
<1> QED
  BY <1>1, <1>2, <1>5, <1>6 DEF e
-----------------------------------------------------------------------------
(* Two queues in a row, p before q, as one. *)

(* An element that moves from the head of the second to the end of the      *)
(* first leaves the row as it was.                                          *)
LEMMA JoinMove ==
  ASSUME NEW S, NEW p \in Seq(S), NEW q \in Seq(S), q # <<>>
  PROVE  Append(p, Head(q)) \o Tail(q) = p \o q
<1> DEFINE x == Head(q)
           t == Tail(q)
           p2 == Append(p, x)
<1>1. /\ x \in S /\ t \in Seq(S) /\ Len(t) = Len(q) - 1 /\ Len(q) \in Nat \ {0}
      /\ \A i \in 1 .. Len(t) : t[i] = q[i + 1]
      /\ x = q[1] /\ Len(p) \in Nat
  BY HeadTailProperties, EmptySeq, LenProperties
<1>2. /\ p2 \in Seq(S) /\ Len(p2) = Len(p) + 1
      /\ \A i \in 1 .. Len(p) : p2[i] = p[i]
      /\ p2[Len(p) + 1] = x
  BY <1>1, AppendProperties
<1> HIDE DEF x, t, p2
<1>3. /\ p2 \o t \in Seq(S) /\ Len(p2 \o t) = Len(p2) + Len(t)
      /\ \A i \in 1 .. Len(p2) + Len(t) :
           (p2 \o t)[i] = IF i <= Len(p2) THEN p2[i] ELSE t[i - Len(p2)]
  BY <1>1, <1>2, ConcatProperties
<1>4. /\ p \o q \in Seq(S) /\ Len(p \o q) = Len(p) + Len(q)
      /\ \A i \in 1 .. Len(p) + Len(q) :
           (p \o q)[i] = IF i <= Len(p) THEN p[i] ELSE q[i - Len(p)]
  BY ConcatProperties
<1>5. Len(p2 \o t) = Len(p \o q)
  BY <1>1, <1>2, <1>3, <1>4
<1>6. ASSUME NEW i \in 1 .. Len(p2 \o t) PROVE (p2 \o t)[i] = (p \o q)[i]
  <2>1. i \in 1 .. Len(p2) + Len(t) /\ i \in 1 .. Len(p) + Len(q)
    BY <1>3, <1>4, <1>5
  <2>2. CASE i <= Len(p)
    <3>1. i \in 1 .. Len(p) /\ i <= Len(p2)
      BY <1>1, <1>2, <2>1, <2>2
    <3> QED
      BY <1>2, <1>3, <1>4, <2>1, <3>1
  <2>3. CASE i = Len(p) + 1
    <3>1. i <= Len(p2) /\ ~(i <= Len(p)) /\ i - Len(p) = 1
      BY <1>1, <1>2, <2>3
    <3> QED
      BY <1>1, <1>2, <1>3, <1>4, <2>1, <2>3, <3>1
  <2>4. CASE i > Len(p) + 1
    <3>1. /\ ~(i <= Len(p2)) /\ ~(i <= Len(p)) /\ i - Len(p2) \in 1 .. Len(t)
          /\ (i - Len(p2)) + 1 = i - Len(p)
      BY <1>1, <1>2, <2>1, <2>4
    <3>2. t[i - Len(p2)] = q[i - Len(p)]
      BY <1>1, <3>1
    <3> QED
      BY <1>3, <1>4, <2>1, <3>1, <3>2
  <2> QED
    BY <1>1, <2>1, <2>2, <2>3, <2>4
<1>7. p2 \o t = p \o q
  BY <1>3, <1>4, <1>5, <1>6, SeqEqual
<1> QED
  BY <1>7 DEF p2, x, t

(* The oldest of the row is the oldest of the first. *)
LEMMA JoinTail ==
  ASSUME NEW S, NEW p \in Seq(S), NEW q \in Seq(S), p # <<>>
  PROVE  /\ p \o q \in Seq(S) /\ p \o q # <<>>
         /\ Head(p \o q) = Head(p) /\ Tail(p \o q) = Tail(p) \o q
<1> DEFINE t == Tail(p)
           j == p \o q
           u == Tail(j)
<1>1. /\ t \in Seq(S) /\ Len(t) = Len(p) - 1 /\ Len(p) \in Nat \ {0}
      /\ \A i \in 1 .. Len(t) : t[i] = p[i + 1]
      /\ Head(p) = p[1] /\ Len(q) \in Nat
  BY HeadTailProperties, EmptySeq, LenProperties
<1>2. /\ j \in Seq(S) /\ Len(j) = Len(p) + Len(q)
      /\ \A i \in 1 .. Len(p) + Len(q) : j[i] = IF i <= Len(p) THEN p[i] ELSE q[i - Len(p)]
  BY ConcatProperties
<1> HIDE DEF j
<1>3. j # <<>>
  <2>1. Len(j) # 0
    BY <1>1, <1>2
  <2> QED
    BY <2>1, EmptySeq
<1>4. /\ u \in Seq(S) /\ Len(u) = Len(j) - 1
      /\ \A i \in 1 .. Len(u) : u[i] = j[i + 1]
  BY <1>2, <1>3, HeadTailProperties
<1>5. Head(j) = Head(p)
  <2>1. 1 \in 1 .. Len(p) + Len(q) /\ 1 <= Len(p)
    BY <1>1
  <2> QED
    BY <1>1, <1>2, <1>3, <2>1
<1> HIDE DEF t, u
<1>6. /\ t \o q \in Seq(S) /\ Len(t \o q) = Len(t) + Len(q)
      /\ \A i \in 1 .. Len(t) + Len(q) :
           (t \o q)[i] = IF i <= Len(t) THEN t[i] ELSE q[i - Len(t)]
  BY <1>1, ConcatProperties
<1>7. Len(u) = Len(t \o q)
  BY <1>1, <1>2, <1>4, <1>6
<1>8. ASSUME NEW i \in 1 .. Len(u) PROVE u[i] = (t \o q)[i]
  <2>1. i + 1 \in 1 .. Len(p) + Len(q) /\ i \in 1 .. Len(t) + Len(q)
    BY <1>1, <1>2, <1>4
  <2>2. u[i] = IF i + 1 <= Len(p) THEN p[i + 1] ELSE q[(i + 1) - Len(p)]
    BY <1>2, <1>4, <2>1
  <2>3. (i + 1) - Len(p) = i - Len(t) /\ (i + 1 <= Len(p) <=> i <= Len(t))
    BY <1>1
  <2>4. i <= Len(t) => t[i] = p[i + 1]
    BY <1>1
  <2> QED
    BY <1>6, <2>1, <2>2, <2>3, <2>4
<1>9. u = t \o q
  BY <1>4, <1>6, <1>7, <1>8, SeqEqual
<1> QED
  BY <1>2, <1>3, <1>5, <1>9 DEF t, u, j

(* A new element at the end of the second is at the end of the row. *)
LEMMA JoinAppend ==
  ASSUME NEW S, NEW p \in Seq(S), NEW q \in Seq(S), NEW x \in S
  PROVE  p \o Append(q, x) = Append(p \o q, x) /\ p \o q \in Seq(S)
<1>1. <<x>> \in Seq(S) /\ p \o q \in Seq(S)
  BY ConcatProperties
<1>2. Append(q, x) = q \o <<x>> /\ Append(p \o q, x) = (p \o q) \o <<x>>
  BY <1>1, AppendIsConcat
<1> QED
  BY <1>1, <1>2, ConcatAssociative

(* What a row of completions asks is what its two parts ask. *)
LEMMA AskedJoin ==
  ASSUME NEW S, NEW p \in Seq(S), NEW q \in Seq(S)
  PROVE  Asked(p \o q) = {d.req : d \in Range(p)} \cup {d.req : d \in Range(q)}
<1> DEFINE j == p \o q
<1>1. /\ j \in Seq(S) /\ Len(j) = Len(p) + Len(q) /\ Len(p) \in Nat /\ Len(q) \in Nat
      /\ \A i \in 1 .. Len(p) + Len(q) : j[i] = IF i <= Len(p) THEN p[i] ELSE q[i - Len(p)]
  BY ConcatProperties, LenProperties
<1> HIDE DEF j
<1>2. ASSUME NEW i \in 1 .. Len(j) PROVE j[i] \in Range(p) \cup Range(q)
  <2>1. CASE i <= Len(p)
    <3>1. i \in 1 .. Len(p) /\ j[i] = p[i]
      BY <1>1, <2>1
    <3> QED
      BY <3>1, InRange
  <2>2. CASE i > Len(p)
    <3>1. i - Len(p) \in 1 .. Len(q) /\ j[i] = q[i - Len(p)]
      BY <1>1, <2>2
    <3> QED
      BY <3>1, InRange
  <2> QED
    BY <1>1, <2>1, <2>2
<1>3. ASSUME NEW d \in Range(p) PROVE \E i \in 1 .. Len(j) : j[i] = d
  <2>1. PICK i \in 1 .. Len(p) : p[i] = d
    BY InRange
  <2>2. i \in 1 .. Len(j) /\ j[i] = p[i]
    BY <1>1
  <2> QED
    BY <2>1, <2>2
<1>4. ASSUME NEW d \in Range(q) PROVE \E i \in 1 .. Len(j) : j[i] = d
  <2>1. PICK i \in 1 .. Len(q) : q[i] = d
    BY InRange
  <2>2. Len(p) + i \in 1 .. Len(j) /\ ~(Len(p) + i <= Len(p)) /\ (Len(p) + i) - Len(p) = i
    BY <1>1
  <2>3. j[Len(p) + i] = q[i]
    BY <1>1, <2>2
  <2> QED
    BY <2>1, <2>2, <2>3
<1>5. Asked(j) = {d.req : d \in Range(p)} \cup {d.req : d \in Range(q)}
  BY <1>2, <1>3, <1>4 DEF Asked
<1> QED
  BY <1>5 DEF j
=============================================================================
