----------------------------- MODULE QueueLemmas -----------------------------
(***************************************************************************)
(* How often a message waits in a queue, when the queue changes.             *)
(***************************************************************************)
EXTENDS Queues, FiniteSetTheorems, SequenceTheorems, Functions, TLAPS

LEMMA Finite ==
    ASSUME NEW n \in Int, NEW A \in SUBSET (1 .. n)
    PROVE  IsFiniteSet(A) /\ Cardinality(A) \in Nat
<1>1. IsFiniteSet(1 .. n)
  BY FS_Interval, 1 \in Int
<1>2. IsFiniteSet(A)
  BY <1>1, FS_Subset
<1> QED
  BY <1>2, FS_CardinalityType

LEMMA CountIs ==
    ASSUME NEW S, NEW q \in Seq(S), NEW m
    PROVE  /\ IsFiniteSet({i \in DOMAIN q : q[i] = m})
           /\ Count(q, m) \in Nat
           /\ Count(q, m) > 0 <=> \E i \in DOMAIN q : q[i] = m
           /\ Count(q, m) > 0 => m \in S
<1>1. PICK n \in Nat : n = Len(q) /\ DOMAIN q = 1 .. n
  BY LenProperties
<1> DEFINE A == {i \in DOMAIN q : q[i] = m}
<1>2. IsFiniteSet(A)
  <2>1. A \in SUBSET (1 .. n) /\ n \in Int
    BY <1>1
  <2> HIDE DEF A
  <2> QED
    BY <2>1, Finite
<1>3. Cardinality(A) \in Nat /\ (Cardinality(A) = 0 <=> A = {})
  BY <1>2, FS_CardinalityType, FS_EmptySet
<1>4. \A i \in DOMAIN q : q[i] \in S
  BY <1>1, ElementOfSeq
<1> QED
  BY <1>2, <1>3, <1>4 DEF Count

LEMMA CountAppend ==
    ASSUME NEW S, NEW q \in Seq(S), NEW e \in S, NEW m
    PROVE  Count(Append(q, e), m) = Count(q, m) + (IF e = m THEN 1 ELSE 0)
<1>1. PICK n \in Nat : n = Len(q) /\ DOMAIN q = 1 .. n
  BY LenProperties
<1> DEFINE A == {i \in DOMAIN q : q[i] = m}
           B == {i \in DOMAIN Append(q, e) : Append(q, e)[i] = m}
<1>2. /\ Append(q, e) \in Seq(S) /\ DOMAIN Append(q, e) = 1 .. n + 1
      /\ \A i \in 1 .. n : Append(q, e)[i] = q[i]
      /\ Append(q, e)[n + 1] = e
  BY <1>1
<1>3. B = IF e = m THEN A \cup {n + 1} ELSE A
  BY <1>1, <1>2
<1>4. IsFiniteSet(A) /\ Cardinality(A) \in Nat
  <2>1. A \in SUBSET (1 .. n) /\ n \in Int
    BY <1>1
  <2> HIDE DEF A
  <2> QED
    BY <2>1, Finite
<1>5. Cardinality(A \cup {n + 1}) = Cardinality(A) + 1
  <2>1. n + 1 \notin A
    BY <1>1
  <2> HIDE DEF A
  <2> QED
    BY <1>4, <2>1, FS_AddElement
<1>6. Cardinality(B) = Cardinality(A) + (IF e = m THEN 1 ELSE 0)
  <2> HIDE DEF A, B
  <2> QED
    BY <1>3, <1>4, <1>5
<1> QED
  BY <1>6 DEF Count

\* What moves by k places is as often there as before.
LEMMA Shifted ==
    ASSUME NEW k \in Int, NEW A \in SUBSET Int, NEW B \in SUBSET Int, IsFiniteSet(A),
           \A i \in A : i + k \in B, \A j \in B : j - k \in A
    PROVE  Cardinality(B) = Cardinality(A)
<1> DEFINE f == [i \in A |-> i + k]
<1>1. f \in [A -> B] /\ \A x, y \in A : f[x] = f[y] => x = y
  OBVIOUS
<1>2. \A y \in B : \E x \in A : f[x] = y
  <2> SUFFICES ASSUME NEW y \in B PROVE \E x \in A : f[x] = y
    OBVIOUS
  <2>1. y - k \in A /\ f[y - k] = y
    OBVIOUS
  <2> QED
    BY <2>1
<1>3. f \in Bijection(A, B)
  <2> HIDE DEF f
  <2> QED
    BY <1>1, <1>2 DEF Bijection, Injection, IsInjective, Surjection
<1> QED
  BY <1>3, FS_Bijection DEF ExistsBijection

LEMMA CountTail ==
    ASSUME NEW S, NEW q \in Seq(S), q # <<>>, NEW m
    PROVE  Count(q, m) = Count(Tail(q), m) + (IF Head(q) = m THEN 1 ELSE 0)
<1>1. PICK n \in Nat : n = Len(q) /\ DOMAIN q = 1 .. n /\ n > 0
  BY LenProperties, EmptySeq
<1>2. /\ Tail(q) \in Seq(S) /\ Len(Tail(q)) = n - 1
      /\ \A i \in 1 .. n - 1 : Tail(q)[i] = q[i + 1]
  BY <1>1, HeadTailProperties
<1>3. DOMAIN Tail(q) = 1 .. n - 1 /\ Head(q) = q[1]
  BY <1>1, <1>2, LenProperties
<1> DEFINE A == {i \in DOMAIN q : q[i] = m}
           B == {i \in DOMAIN Tail(q) : Tail(q)[i] = m}
<1>4. IsFiniteSet(A) /\ IsFiniteSet(B) /\ Cardinality(A) \in Nat /\ Cardinality(B) \in Nat
  <2>1. A \in SUBSET (1 .. n) /\ B \in SUBSET (1 .. n - 1)
    BY <1>1, <1>3
  <2> HIDE DEF A, B
  <2>2. IsFiniteSet(B) /\ Cardinality(B) \in Nat
    BY <2>1, Finite, n - 1 \in Int
  <2> QED
    BY <2>1, <2>2, Finite, n \in Int
<1>5. Cardinality(A \ {1}) = Cardinality(B)
  <2>1. A \ {1} \in SUBSET Int /\ B \in SUBSET Int
    BY <1>1, <1>3
  <2>2. \A i \in B : i + 1 \in A \ {1}
    BY <1>1, <1>2, <1>3
  <2>3. \A j \in A \ {1} : j - 1 \in B
    BY <1>1, <1>2, <1>3
  <2>4. IsFiniteSet(B)
    BY <1>4
  <2> HIDE DEF A, B
  <2> QED
    BY <2>1, <2>2, <2>3, <2>4, Shifted, 1 \in Int
<1>6. Cardinality(A) = Cardinality(A \ {1}) + (IF 1 \in A THEN 1 ELSE 0)
  <2>1. Cardinality(A \ {1}) = IF 1 \in A THEN Cardinality(A) - 1 ELSE Cardinality(A)
    BY <1>4, FS_RemoveElement
  <2> QED
    BY <1>4, <2>1
<1>7. 1 \in A <=> Head(q) = m
  BY <1>1, <1>3
<1> QED
  BY <1>4, <1>5, <1>6, <1>7 DEF Count

LEMMA CountConcat ==
    ASSUME NEW S, NEW q \in Seq(S), NEW r \in Seq(S), NEW m
    PROVE  Count(q \o r, m) = Count(q, m) + Count(r, m)
<1>1. PICK n \in Nat : n = Len(q) /\ DOMAIN q = 1 .. n
  BY LenProperties
<1>2. PICK k \in Nat : k = Len(r) /\ DOMAIN r = 1 .. k
  BY LenProperties
<1>3. /\ q \o r \in Seq(S) /\ Len(q \o r) = n + k
      /\ \A i \in 1 .. n + k : (q \o r)[i] = IF i <= n THEN q[i] ELSE r[i - n]
  BY <1>1, <1>2, ConcatProperties
<1>4. DOMAIN (q \o r) = 1 .. n + k
  BY <1>3, LenProperties
<1> DEFINE A == {i \in DOMAIN q : q[i] = m}
           B == {i \in DOMAIN r : r[i] = m}
           C == {i \in DOMAIN (q \o r) : (q \o r)[i] = m}
<1>5. /\ IsFiniteSet(A) /\ IsFiniteSet(B) /\ IsFiniteSet(C)
      /\ Cardinality(A) \in Nat /\ Cardinality(B) \in Nat
  <2>1. A \in SUBSET (1 .. n) /\ B \in SUBSET (1 .. k) /\ C \in SUBSET (1 .. n + k)
    BY <1>1, <1>2, <1>4
  <2> HIDE DEF A, B, C
  <2>2. IsFiniteSet(A) /\ Cardinality(A) \in Nat
    BY <2>1, Finite, n \in Int
  <2>3. IsFiniteSet(B) /\ Cardinality(B) \in Nat
    BY <2>1, Finite, k \in Int
  <2>4. IsFiniteSet(C)
    BY <2>1, Finite, n + k \in Int
  <2> QED
    BY <2>2, <2>3, <2>4
<1>6. A \subseteq C
  BY <1>1, <1>3, <1>4
<1>7. IsFiniteSet(C \ A)
  BY <1>5, FS_Subset
<1>8. Cardinality(C \ A) = Cardinality(B)
  <2>1. C \ A \in SUBSET Int /\ B \in SUBSET Int
    BY <1>2, <1>4
  <2>2. \A i \in B : i + n \in C \ A
    BY <1>1, <1>2, <1>3, <1>4
  <2>3. \A j \in C \ A : j - n \in B
    BY <1>1, <1>2, <1>3, <1>4
  <2>4. IsFiniteSet(B)
    BY <1>5
  <2> HIDE DEF A, B, C
  <2> QED
    BY <2>1, <2>2, <2>3, <2>4, Shifted, n \in Int
<1>9. Cardinality(C) = Cardinality(A) + Cardinality(C \ A)
  <2>1. C = A \cup (C \ A) /\ A \cap (C \ A) = {}
    BY <1>6
  <2>2. IsFiniteSet(A) /\ Cardinality(A) \in Nat /\ Cardinality(C \ A) \in Nat
    BY <1>5, <1>8
  <2> HIDE DEF A, B, C
  <2>3. Cardinality(A \cup (C \ A)) =
            Cardinality(A) + Cardinality(C \ A) - Cardinality(A \cap (C \ A))
    BY <2>2, <1>7, FS_Union
  <2>4. Cardinality(A \cap (C \ A)) = 0
    BY <2>1, FS_EmptySet
  <2>5. Cardinality(C) = Cardinality(A \cup (C \ A))
    BY <2>1
  <2> QED
    BY <2>2, <2>3, <2>4, <2>5
<1> QED
  BY <1>8, <1>9 DEF Count

\* q2 is q with e at its end, or without its first message e.
Added(S, q, q2, e) ==
    /\ q2 \in Seq(S) /\ e \in S
    /\ \A m : Count(q2, m) = Count(q, m) + (IF m = e THEN 1 ELSE 0)
    /\ \A a, b : Ahead(q, a, b) /\ (e # a \/ Count(q, b) = 0) /\ a # b => Ahead(q2, a, b)
Taken(S, q, q2, e) ==
    /\ q2 \in Seq(S) /\ e \in S
    /\ \A m : Count(q, m) = Count(q2, m) + (IF m = e THEN 1 ELSE 0)
    /\ \A a, b : Ahead(q, a, b) => Ahead(q2, a, b)
    /\ \A a, b : Ahead(q, a, b) /\ a # b /\ e = b => Count(q, a) = 0

LEMMA Adding ==
    ASSUME NEW S, NEW q \in Seq(S), NEW e \in S
    PROVE  Added(S, q, Append(q, e), e)
<1>1. PICK n \in Nat : n = Len(q) /\ DOMAIN q = 1 .. n
  BY LenProperties
<1>2. /\ Append(q, e) \in Seq(S) /\ DOMAIN Append(q, e) = 1 .. n + 1
      /\ \A i \in 1 .. n : Append(q, e)[i] = q[i]
      /\ Append(q, e)[n + 1] = e
  BY <1>1
<1>3. \A m : Count(Append(q, e), m) = Count(q, m) + (IF m = e THEN 1 ELSE 0)
  BY CountAppend
<1>4. ASSUME NEW a, NEW b, Ahead(q, a, b), a # b, e # a \/ Count(q, b) = 0
      PROVE  Ahead(Append(q, e), a, b)
  <2>1. ASSUME NEW i \in 1 .. n + 1, NEW j \in 1 .. n + 1,
               Append(q, e)[i] = a, Append(q, e)[j] = b
        PROVE  i < j
    <3>1. CASE i \in 1 .. n /\ j \in 1 .. n
      BY <1>1, <1>2, <1>4, <2>1, <3>1 DEF Ahead
    <3>2. CASE j = n + 1 /\ i \in 1 .. n
      BY <3>2
    <3>3. CASE i = n + 1 /\ j = n + 1
      BY <1>2, <1>4, <2>1, <3>3
    <3>4. CASE i = n + 1 /\ j \in 1 .. n
      <4>1. e = a /\ q[j] = b /\ j \in DOMAIN q
        BY <1>1, <1>2, <2>1, <3>4
      <4>2. Count(q, b) > 0
        BY <4>1, CountIs
      <4>3. Count(q, b) = 0
        BY <4>1, <1>4
      <4> QED
        BY <4>2, <4>3
    <3> QED
      BY <3>1, <3>2, <3>3, <3>4
  <2> QED
    BY <1>2, <2>1 DEF Ahead
<1> QED
  BY <1>2, <1>3, <1>4 DEF Added

LEMMA Taking ==
    ASSUME NEW S, NEW q \in Seq(S), q # <<>>
    PROVE  Taken(S, q, Tail(q), Head(q))
<1>1. PICK n \in Nat : n = Len(q) /\ DOMAIN q = 1 .. n /\ n > 0
  BY LenProperties, EmptySeq
<1>2. /\ Tail(q) \in Seq(S) /\ Len(Tail(q)) = n - 1 /\ Head(q) \in S
      /\ \A i \in 1 .. n - 1 : Tail(q)[i] = q[i + 1]
  BY <1>1, HeadTailProperties
<1>3. DOMAIN Tail(q) = 1 .. n - 1 /\ Head(q) = q[1]
  BY <1>1, <1>2, LenProperties
<1>4. \A m : Count(q, m) = Count(Tail(q), m) + (IF m = Head(q) THEN 1 ELSE 0)
  BY CountTail
<1>5. ASSUME NEW a, NEW b, Ahead(q, a, b) PROVE Ahead(Tail(q), a, b)
  BY <1>1, <1>2, <1>3, <1>5 DEF Ahead
<1>6. ASSUME NEW a, NEW b, Ahead(q, a, b), a # b, Head(q) = b PROVE Count(q, a) = 0
  <2>1. \A i \in DOMAIN q : q[i] # a
    BY <1>1, <1>3, <1>6 DEF Ahead
  <2>2. Count(q, a) \in Nat /\ ~(Count(q, a) > 0)
    BY <2>1, CountIs
  <2> QED
    BY <2>2
<1> QED
  BY <1>2, <1>4, <1>5, <1>6 DEF Taken

LEMMA Appending ==
    ASSUME NEW S, NEW q \in Seq(S), NEW t \in Seq(S)
    PROVE  /\ q \o t \in Seq(S)
           /\ \A m : Count(q \o t, m) = Count(q, m) + Count(t, m)
           /\ \A a, b : /\ Ahead(q, a, b)
                        /\ Count(t, b) = 0
                        /\ Count(t, a) = 0 \/ Count(q, b) = 0
                        => Ahead(q \o t, a, b)
<1>1. PICK n \in Nat : n = Len(q) /\ DOMAIN q = 1 .. n
  BY LenProperties
<1>2. PICK k \in Nat : k = Len(t) /\ DOMAIN t = 1 .. k
  BY LenProperties
<1>3. /\ q \o t \in Seq(S) /\ Len(q \o t) = n + k
      /\ \A i \in 1 .. n + k : (q \o t)[i] = IF i <= n THEN q[i] ELSE t[i - n]
  BY <1>1, <1>2, ConcatProperties
<1>4. DOMAIN (q \o t) = 1 .. n + k
  BY <1>3, LenProperties
<1>5. \A m : Count(q \o t, m) = Count(q, m) + Count(t, m)
  BY CountConcat
<1>6. ASSUME NEW a, NEW b, Ahead(q, a, b), Count(t, b) = 0,
             Count(t, a) = 0 \/ Count(q, b) = 0
      PROVE  Ahead(q \o t, a, b)
  <2>1. \A j \in 1 .. k : t[j] # b
    <3>1. ~(Count(t, b) > 0)
      BY <1>6
    <3> QED
      BY <1>2, <3>1, CountIs
  <2>2. ASSUME NEW i \in 1 .. n + k, NEW j \in 1 .. n + k,
               (q \o t)[i] = a, (q \o t)[j] = b
        PROVE  i < j
    <3>1. j \in 1 .. n /\ q[j] = b
      <4>1. CASE j <= n
        BY <1>3, <2>2, <4>1
      <4>2. CASE ~(j <= n)
        <5>1. j - n \in 1 .. k /\ t[j - n] = b
          BY <1>3, <2>2, <4>2
        <5> QED
          BY <2>1, <5>1
      <4> QED
        BY <4>1, <4>2
    <3>2. CASE i \in 1 .. n
      BY <1>1, <1>3, <1>6, <2>2, <3>1, <3>2 DEF Ahead
    <3>3. CASE i \notin 1 .. n
      <4>1. i - n \in DOMAIN t /\ t[i - n] = a
        BY <1>2, <1>3, <2>2, <3>3
      <4>2. Count(t, a) > 0 /\ Count(q, b) > 0
        BY <1>1, <3>1, <4>1, CountIs
      <4> QED
        BY <1>6, <4>2
    <3> QED
      BY <3>2, <3>3
  <2> QED
    BY <1>4, <2>2 DEF Ahead
<1> QED
  BY <1>3, <1>5, <1>6

LEMMA CountNone ==
    ASSUME NEW q, NEW m, \A i \in DOMAIN q : q[i] # m
    PROVE  Count(q, m) = 0
<1>1. {i \in DOMAIN q : q[i] = m} = {}
  OBVIOUS
<1> QED
  BY <1>1, FS_EmptySet DEF Count

LEMMA CountOne ==
    ASSUME NEW q, NEW m, NEW j \in DOMAIN q, q[j] = m, \A i \in DOMAIN q : q[i] = m => i = j
    PROVE  Count(q, m) = 1
<1>1. {i \in DOMAIN q : q[i] = m} = {j}
  OBVIOUS
<1> QED
  BY <1>1, FS_Singleton DEF Count

\* What is first in a queue is in it.
LEMMA HeadCounts ==
    ASSUME NEW S, NEW q \in Seq(S), q # <<>>
    PROVE  Count(q, Head(q)) > 0
<1>1. Taken(S, q, Tail(q), Head(q))
  BY Taking
<1>2. /\ Count(q, Head(q)) = Count(Tail(q), Head(q)) + 1
      /\ Tail(q) \in Seq(S)
  BY <1>1 DEF Taken
<1>3. Count(Tail(q), Head(q)) \in Nat
  BY <1>2, CountIs
<1> QED
  BY <1>2, <1>3
==============================================================================
