---------------------------- MODULE InboxProofs ----------------------------
(***************************************************************************)
(* Proofs about Inbox for any messages, sizes, capacity, runs and number   *)
(* of crashes, with and without lost replies.                              *)
(***************************************************************************)
EXTENDS Inbox, FiniteSetTheorems, SequenceTheorems, WellFoundedInduction, TLAPS

(* A finite set of numbers that is not empty has a least and a greatest    *)
(* element: one with the smallest set of others beyond it.                 *)
LEMMA LeastOf ==
    ASSUME NEW T, T \subseteq Nat, IsFiniteSet(T), T # {}
    PROVE  Min(T) \in T /\ \A m \in T : Min(T) <= m
<1> DEFINE Under(n) == {m \in T : m < n}
           Sets == {Under(n) : n \in T}
<1>1. Sets # {} /\ Sets \subseteq FiniteSubsetsOf(T)
  <2>1. \A n \in T : Under(n) \in SUBSET T
    BY Zenon
  <2>2. \A n \in T : IsFiniteSet(Under(n))
    BY Zenon, <2>1, FS_Subset
  <2> QED BY Zenon, <2>1, <2>2 DEF FiniteSubsetsOf
<1>2. IsWellFoundedOn(StrictSubsetOrdering(T), FiniteSubsetsOf(T))
  BY Zenon, FS_StrictSubsetOrderingWellFounded
<1> HIDE DEF Sets
<1>3. PICK A \in Sets : \A B \in Sets : ~ (<<B, A>> \in StrictSubsetOrdering(T))
  BY Zenon, <1>1, <1>2, WFMin
<1> USE DEF Sets
<1>4. PICK n \in T : A = Under(n)
  BY Zenon
<1>5. ASSUME NEW m \in T PROVE n <= m
  <2> SUFFICES ASSUME m < n PROVE FALSE
    BY SMT
  <2>1. Under(m) \in Sets
    BY Zenon
  <2>2. Under(m) \subseteq Under(n) /\ m \in Under(n) /\ m \notin Under(m)
    <3>1. m \in Nat /\ n \in Nat /\ \A x \in T : x \in Nat
      BY Zenon
    <3>2. \A x \in T : x < m => x < n
      BY <3>1
    <3>3. ~(m < m)
      BY <3>1
    <3> QED
      BY <3>2, <3>3, Zenon
  <2>3. Under(m) \in SUBSET T /\ Under(n) \in SUBSET T
    BY Zenon
  <2> HIDE DEF Under, Sets
  <2>4. <<Under(m), A>> \in StrictSubsetOrdering(T)
    BY Zenon, <2>2, <2>3, <1>4 DEF StrictSubsetOrdering
  <2> QED BY Zenon, <2>1, <2>4, <1>3
<1>6. \E x \in T : \A y \in T : x <= y
  BY Zenon, <1>5
<1> QED
  BY <1>6, Zenon DEF Min

LEMMA GreatestOf ==
    ASSUME NEW T, T \subseteq Nat, IsFiniteSet(T), T # {}
    PROVE  Max(T) \in T /\ \A m \in T : Max(T) >= m
<1> DEFINE Over(n) == {m \in T : m > n}
           Sets == {Over(n) : n \in T}
<1>1. Sets # {} /\ Sets \subseteq FiniteSubsetsOf(T)
  <2>1. \A n \in T : Over(n) \in SUBSET T
    BY Zenon
  <2>2. \A n \in T : IsFiniteSet(Over(n))
    BY Zenon, <2>1, FS_Subset
  <2> QED BY Zenon, <2>1, <2>2 DEF FiniteSubsetsOf
<1>2. IsWellFoundedOn(StrictSubsetOrdering(T), FiniteSubsetsOf(T))
  BY Zenon, FS_StrictSubsetOrderingWellFounded
<1> HIDE DEF Sets
<1>3. PICK A \in Sets : \A B \in Sets : ~ (<<B, A>> \in StrictSubsetOrdering(T))
  BY Zenon, <1>1, <1>2, WFMin
<1> USE DEF Sets
<1>4. PICK n \in T : A = Over(n)
  BY Zenon
<1>5. ASSUME NEW m \in T PROVE n >= m
  <2> SUFFICES ASSUME m > n PROVE FALSE
    BY SMT
  <2>1. Over(m) \in Sets
    BY Zenon
  <2>2. Over(m) \subseteq Over(n) /\ m \in Over(n) /\ m \notin Over(m)
    <3>1. m \in Nat /\ n \in Nat /\ \A x \in T : x \in Nat
      BY Zenon
    <3>2. \A x \in T : x > m => x > n
      BY <3>1
    <3>3. ~(m > m)
      BY <3>1
    <3> QED
      BY <3>2, <3>3, Zenon
  <2>3. Over(m) \in SUBSET T /\ Over(n) \in SUBSET T
    BY Zenon
  <2> HIDE DEF Over, Sets
  <2>4. <<Over(m), A>> \in StrictSubsetOrdering(T)
    BY Zenon, <2>2, <2>3, <1>4 DEF StrictSubsetOrdering
  <2> QED BY Zenon, <2>1, <2>4, <1>3
<1>6. \E x \in T : \A y \in T : x >= y
  BY Zenon, <1>5
<1> QED
  BY <1>6, Zenon DEF Max

(* The greater of two numbers is a number. *)
LEMMA GreaterOfTwo ==
    ASSUME NEW m \in Nat, NEW n \in Nat
    PROVE  Max({m, n}) \in Nat
<1> DEFINE T == {m, n}
<1>1. T \subseteq Nat /\ T # {}
  BY Zenon
<1>2. IsFiniteSet(T)
  <2>1. IsFiniteSet({m})
    BY Zenon, FS_Singleton
  <2>2. IsFiniteSet({m} \union {n})
    BY Zenon, <2>1, FS_AddElement
  <2>3. {m} \union {n} = T
    BY Zenon
  <2> QED
    BY Zenon, <2>2, <2>3
<1> HIDE DEF T
<1>3. Max(T) \in T
  BY Zenon, <1>1, <1>2, GreatestOf
<1>4. Max(T) \in Nat
  BY <1>1, <1>3, Zenon
<1> QED
  BY <1>4, Zenon DEF T

(* The numbers of some positions of a sequence are such a set. *)
LEMMA PositionsFinite ==
    ASSUME NEW n \in Nat, NEW T, T \subseteq 0..n
    PROVE  T \subseteq Nat /\ IsFiniteSet(T)
<1>1. IsFiniteSet(0..n)
  BY FS_Interval
<1>2. T \in SUBSET (0..n)
  BY Zenon
<1>3. T \subseteq Nat
  OBVIOUS
<1>4. IsFiniteSet(T)
  BY <1>1, <1>2, FS_Subset, Zenon
<1> QED
  BY Zenon, <1>3, <1>4

-----------------------------------------------------------------------------
USE InboxConstants

(* What a set of messages takes of the capacity. *)
LEMMA BytesOfOne ==
    ASSUME NEW i \in Items
    PROVE  IsFiniteSet({i} \X (1..Bytes[i])) /\ Cardinality({i} \X (1..Bytes[i])) = Bytes[i]
<1>1. Bytes[i] \in Nat /\ 1 \in Int /\ Bytes[i] \in Int /\ Bytes[i] >= 1
  OBVIOUS
<1>2. IsFiniteSet(1..Bytes[i]) /\ Cardinality(1..Bytes[i]) = Bytes[i]
  BY <1>1, FS_Interval
<1>3. IsFiniteSet({i}) /\ Cardinality({i}) = 1
  BY Zenon, FS_Singleton
<1>4. /\ IsFiniteSet({i} \X (1..Bytes[i]))
      /\ Cardinality({i} \X (1..Bytes[i])) = Cardinality({i}) * Cardinality(1..Bytes[i])
  BY Zenon, <1>2, <1>3, FS_Product
<1> QED
  BY <1>1, <1>2, <1>3, <1>4

LEMMA SizeAdd ==
    ASSUME NEW S, S \subseteq Items, IsFiniteSet(S), IsFiniteSet(BytesOf(S)),
           NEW i \in Items, i \notin S
    PROVE  /\ IsFiniteSet(S \union {i}) /\ IsFiniteSet(BytesOf(S \union {i}))
           /\ Size(S \union {i}) = Add(Size(S), i)
<1> DEFINE B == {i} \X (1..Bytes[i])
<1>1. IsFiniteSet(S \union {i}) /\ Cardinality(S \union {i}) = Cardinality(S) + 1
  BY Zenon, FS_AddElement
<1>2. BytesOf(S \union {i}) = BytesOf(S) \union B
  BY Zenon DEF BytesOf
<1>3. BytesOf(S) \intersect B = {}
  BY DEF BytesOf
<1>4. IsFiniteSet(B) /\ Cardinality(B) = Bytes[i]
  BY Zenon, BytesOfOne
<1> HIDE DEF B
<1>5. /\ IsFiniteSet(BytesOf(S) \union B)
      /\ Cardinality(BytesOf(S) \union B) =
            Cardinality(BytesOf(S)) + Cardinality(B) - Cardinality(BytesOf(S) \intersect B)
  BY Zenon, <1>4, FS_Union
<1>6. Cardinality(BytesOf(S) \intersect B) = 0 /\ Cardinality(BytesOf(S)) \in Nat
  BY Zenon, <1>3, FS_EmptySet, FS_CardinalityType
<1>7. Cardinality(BytesOf(S \union {i})) = Cardinality(BytesOf(S)) + Bytes[i]
  <2>1. Cardinality(BytesOf(S \union {i})) = Cardinality(BytesOf(S)) + Bytes[i] - 0
    BY <1>2, <1>4, <1>5, <1>6, Zenon
  <2>2. Bytes[i] \in Nat
    BY Zenon
  <2> QED
    BY <1>6, <2>1, <2>2
<1>8. Size(S \union {i}) = Add(Size(S), i)
  <2>1. (Size(S)).items = Cardinality(S) /\ (Size(S)).bytes = Cardinality(BytesOf(S))
    BY Zenon DEF Size
  <2> QED
    BY <1>1, <1>7, <2>1, Zenon DEF Size, Add
<1>9. IsFiniteSet(BytesOf(S \union {i}))
  BY <1>2, <1>5, Zenon
<1> QED
  BY Zenon, <1>1, <1>8, <1>9

LEMMA SizeRemove ==
    ASSUME NEW S, S \subseteq Items, IsFiniteSet(S), IsFiniteSet(BytesOf(S)),
           NEW i \in S
    PROVE  /\ IsFiniteSet(S \ {i}) /\ IsFiniteSet(BytesOf(S \ {i}))
           /\ Size(S \ {i}) = Remove(Size(S), i)
           /\ Size(S) = Add(Size(S \ {i}), i)
<1> DEFINE T == S \ {i}
<1>1. T \subseteq Items /\ i \in Items /\ i \notin T /\ T \union {i} = S
  BY Zenon
<1>2. IsFiniteSet(T)
  BY Zenon, FS_RemoveElement
<1>3. IsFiniteSet(BytesOf(T))
  <2>1. BytesOf(T) \in SUBSET BytesOf(S)
    BY Zenon DEF BytesOf
  <2> QED BY Zenon, <2>1, FS_Subset
<1> HIDE DEF T
<1>4. Size(S) = Add(Size(T), i)
  BY Zenon, <1>1, <1>2, <1>3, SizeAdd
<1>5. Cardinality(T) \in Nat /\ Cardinality(BytesOf(T)) \in Nat /\ Bytes[i] \in Nat
  BY Zenon, <1>1, <1>2, <1>3, FS_CardinalityType
<1>6. Size(T) = Remove(Size(S), i)
  BY <1>4, <1>5 DEF Size, Add, Remove
<1> USE DEF T
<1> QED
  BY Zenon, <1>2, <1>3, <1>4, <1>6

LEMMA SizeType ==
    ASSUME NEW S, IsFiniteSet(S), IsFiniteSet(BytesOf(S))
    PROVE  Size(S) \in [items : Nat, bytes : Nat]
BY Zenon, FS_CardinalityType DEF Size

LEMMA SizeEmpty ==
    IsFiniteSet({}) /\ IsFiniteSet(BytesOf({})) /\ Size({}) = [items |-> 0, bytes |-> 0]
<1>1. BytesOf({}) = {}
  BY Zenon DEF BytesOf
<1> QED
  BY Zenon, <1>1, FS_EmptySet DEF Size

-----------------------------------------------------------------------------
(* The ready queue. *)
Entries == [id : Items, sequence : Nat, seq : Nat \ {0}]

(* An inbox that holds nothing. *)
LEMMA NothingHeld ==
    /\ 1..Len(<<>>) = {} /\ <<>> \in Seq(Entries) /\ 1 \in Nat
    /\ (Size({})).items + (Size({})).items <= MaxItems
    /\ (Size({})).bytes + (Size({})).bytes <= MaxBytes
<1>1. 1..Len(<<>>) = {} /\ <<>> \in Seq(Entries) /\ 1 \in Nat
  OBVIOUS
<1>2. (Size({})).items = 0 /\ (Size({})).bytes = 0
  BY SizeEmpty
<1>3. MaxItems \in Nat /\ MaxBytes \in Nat
  BY InboxConstants
<1> QED
  BY <1>1, <1>2, <1>3

Ids(q) == {q[j].id : j \in 1..Len(q)}

Distinct(q) == \A j, k \in 1..Len(q) : q[j].id = q[k].id => j = k

(* A queue without repetitions has as many ids as entries. *)
LEMMA IdsCounted ==
    ASSUME NEW q \in Seq(Entries), Distinct(q)
    PROVE  Cardinality(Ids(q)) = Len(q)
<1> DEFINE f == [j \in 1..Len(q) |-> q[j].id]
<1>1. Len(q) \in Nat
  BY Zenon, LenProperties
<1>2. f \in Bijection(1..Len(q), Ids(q))
  <2>1. f \in [1..Len(q) -> Ids(q)]
    BY Zenon DEF Ids
  <2>2. \A j, k \in 1..Len(q) : f[j] = f[k] => j = k
    BY Zenon DEF Distinct
  <2>3. \A x \in Ids(q) : \E j \in 1..Len(q) : f[j] = x
    BY Zenon DEF Ids
  <2>4. DOMAIN f = 1..Len(q)
    BY Zenon
  <2> HIDE DEF f
  <2>5. f \in Injection(1..Len(q), Ids(q))
    BY <2>1, <2>2, <2>4, Zenon DEF Injection, IsInjective
  <2>6. f \in Surjection(1..Len(q), Ids(q))
    BY <2>1, <2>3, Zenon DEF Surjection
  <2> QED
    BY <2>5, <2>6, Zenon DEF Bijection
<1>3. ExistsBijection(1..Len(q), Ids(q))
  BY Zenon, <1>2 DEF ExistsBijection
<1> QED
  BY Zenon, <1>1, <1>3, FS_CountingElements

(* ready_insert keeps what is queued and adds the entry, once. *)
LEMMA InsertKeeps ==
    ASSUME NEW q \in Seq(Entries), NEW e \in Entries
    PROVE  /\ ReadyInsert(q, e) \in Seq(Entries)
           /\ Ids(ReadyInsert(q, e)) = Ids(q) \union {e.id}
           /\ Distinct(q) /\ e.id \notin Ids(q) => Distinct(ReadyInsert(q, e))
<1> DEFINE n == Len(q)
           lower == {0} \union {j \in 1..n : q[j].sequence <= e.sequence}
           k == Max(lower)
           a == SubSeq(q, 1, k)
           b == SubSeq(q, k + 1, n)
           r == ReadyInsert(q, e)
<1>1. n \in Nat /\ \A j \in 1..n : q[j] \in Entries
  BY Zenon, LenProperties, ElementOfSeq
<1>2. k \in 0..n
  <2>1. lower \subseteq 0..n /\ lower # {}
    BY <1>1
  <2>2. lower \subseteq Nat /\ IsFiniteSet(lower)
    BY Zenon, <1>1, <2>1, PositionsFinite
  <2> HIDE DEF lower
  <2> QED
    BY Zenon, <2>1, <2>2, GreatestOf
<1>3. r = a \o <<e>> \o b
  BY Zenon DEF ReadyInsert
<1> HIDE DEF k, r, n
<1>4. a \in Seq(Entries) /\ Len(a) = k /\ \A j \in 1..k : a[j] = q[j]
  <2>1. 1 \in Int /\ k \in Int /\ \A j \in 1..k : q[j] \in Entries
    BY <1>1, <1>2
  <2>2. /\ SubSeq(q, 1, k) \in Seq(Entries)
        /\ Len(SubSeq(q, 1, k)) = IF 1 <= k THEN k - 1 + 1 ELSE 0
        /\ \A j \in 1..(k - 1 + 1) : SubSeq(q, 1, k)[j] = q[1 + j - 1]
    BY <2>1, SubSeqProperties
  <2>3. \A j \in 1..k : j \in 1..(k - 1 + 1) /\ 1 + j - 1 = j
    BY <1>2
  <2> QED
    BY <1>1, <1>2, <2>2, <2>3
<1>5. b \in Seq(Entries) /\ Len(b) = n - k /\ \A j \in 1..(n - k) : b[j] = q[k + j]
  <2>1. k + 1 \in Int /\ n \in Int /\ \A j \in (k + 1)..n : q[j] \in Entries
    BY <1>1, <1>2
  <2>2. /\ SubSeq(q, k + 1, n) \in Seq(Entries)
        /\ Len(SubSeq(q, k + 1, n)) = IF k + 1 <= n THEN n - (k + 1) + 1 ELSE 0
        /\ \A j \in 1..(n - (k + 1) + 1) : SubSeq(q, k + 1, n)[j] = q[k + 1 + j - 1]
    BY <2>1, SubSeqProperties
  <2>3. \A j \in 1..(n - k) : j \in 1..(n - (k + 1) + 1) /\ k + 1 + j - 1 = k + j
    BY <1>1, <1>2
  <2> QED
    BY <1>1, <1>2, <2>2, <2>3
<1> HIDE DEF a, b
<1>6. /\ a \o <<e>> \in Seq(Entries) /\ Len(a \o <<e>>) = k + 1
      /\ \A j \in 1..(k + 1) : (a \o <<e>>)[j] = IF j <= k THEN q[j] ELSE e
  <2>1. <<e>> \in Seq(Entries) /\ Len(<<e>>) = 1 /\ <<e>>[1] = e
    OBVIOUS
  <2>2. /\ a \o <<e>> \in Seq(Entries) /\ Len(a \o <<e>>) = k + 1
        /\ \A j \in 1..(k + 1) : (a \o <<e>>)[j] = IF j <= k THEN a[j] ELSE <<e>>[j - k]
    BY <1>4, <2>1, ConcatProperties
  <2>3. \A j \in 1..(k + 1) : ~(j <= k) => j - k = 1
    BY <1>2
  <2>4. \A j \in 1..(k + 1) : j <= k => j \in 1..k
    BY <1>2
  <2> QED
    BY ZenonT(60), <1>4, <2>1, <2>2, <2>3, <2>4
<1>7. /\ r \in Seq(Entries) /\ Len(r) = n + 1
      /\ \A j \in 1..(n + 1) : r[j] = IF j <= k THEN q[j] ELSE IF j = k + 1 THEN e ELSE q[j - 1]
  <2> DEFINE c == a \o <<e>>
  <2>0. c \in Seq(Entries) /\ Len(c) = k + 1
        /\ \A j \in 1..(k + 1) : c[j] = IF j <= k THEN q[j] ELSE e
    BY Zenon, <1>6
  <2>00. r = c \o b
    BY Zenon, <1>3
  <2> HIDE DEF c
  <2>1. /\ c \o b \in Seq(Entries) /\ Len(c \o b) = (k + 1) + (n - k)
        /\ \A j \in 1..((k + 1) + (n - k)) : (c \o b)[j] = IF j <= k + 1 THEN c[j] ELSE b[j - (k + 1)]
    <3>1. c \in Seq(Entries) /\ b \in Seq(Entries) /\ Len(c) = k + 1 /\ Len(b) = n - k
      BY Zenon, <1>5, <2>0
    <3>2. /\ c \o b \in Seq(Entries) /\ Len(c \o b) = Len(c) + Len(b)
          /\ \A j \in 1..(Len(c) + Len(b)) :
                (c \o b)[j] = IF j <= Len(c) THEN c[j] ELSE b[j - Len(c)]
      BY <3>1, ConcatProperties, ZenonT(40)
    <3> QED
      BY <3>1, <3>2, Zenon
  <2>2. (k + 1) + (n - k) = n + 1
    BY <1>1, <1>2
  <2>3. \A j \in 1..(n + 1) : /\ j <= k + 1 => j \in 1..(k + 1)
                              /\ ~(j <= k + 1) => j - (k + 1) \in 1..(n - k) /\ k + (j - (k + 1)) = j - 1
    BY <1>1, <1>2
  <2>4. ASSUME NEW j \in 1..(n + 1)
        PROVE  r[j] = IF j <= k THEN q[j] ELSE IF j = k + 1 THEN e ELSE q[j - 1]
    <3>1. CASE j <= k + 1
      <4>1. r[j] = c[j] /\ j \in 1..(k + 1)
        BY Zenon, <3>1, <2>00, <2>1, <2>2, <2>3
      <4> QED
        BY <3>1, <4>1, <2>0, <1>2
    <3>2. CASE ~(j <= k + 1)
      <4>1. r[j] = b[j - (k + 1)] /\ b[j - (k + 1)] = q[j - 1]
        BY Zenon, <3>2, <2>00, <2>1, <2>2, <2>3, <1>5
      <4> QED
        BY <3>2, <4>1, <1>2
    <3> QED
      BY Zenon, <3>1, <3>2
  <2> QED
    BY Zenon, <2>00, <2>1, <2>2, <2>4
<1>8. Ids(r) = Ids(q) \union {e.id}
  <2>1. ASSUME NEW j \in 1..(n + 1) PROVE r[j].id \in Ids(q) \union {e.id}
    <3>1. j <= k \/ j = k + 1 \/ j - 1 \in 1..n
      BY <1>1, <1>2
    <3>2. j <= k => j \in 1..n
      BY <1>1, <1>2
    <3>3. (r[j] = q[j] /\ j \in 1..n) \/ r[j] = e \/ (r[j] = q[j - 1] /\ j - 1 \in 1..n)
      BY Zenon, <3>1, <3>2, <1>7
    <3> QED
      BY Zenon, <3>3 DEF Ids, n
  <2>2. ASSUME NEW j \in 1..n PROVE q[j].id \in Ids(r)
    <3>1. CASE j <= k
      <4>1. j \in 1..(n + 1) /\ r[j] = q[j]
        BY <3>1, <1>1, <1>7
      <4> QED
        BY Zenon, <4>1, <1>7 DEF Ids
    <3>2. CASE ~(j <= k)
      <4>1. j + 1 \in 1..(n + 1) /\ ~(j + 1 <= k) /\ j + 1 # k + 1 /\ j + 1 - 1 = j
        BY <3>2, <1>1, <1>2
      <4>2. r[j + 1] = q[j]
        BY <4>1, <1>7
      <4> QED
        BY Zenon, <4>1, <4>2, <1>7 DEF Ids
    <3> QED
      BY Zenon, <3>1, <3>2
  <2>3. e.id \in Ids(r)
    <3>1. k + 1 \in 1..(n + 1) /\ ~(k + 1 <= k)
      BY <1>1, <1>2
    <3>2. r[k + 1] = e
      BY Zenon, <3>1, <1>7
    <3> QED
      BY Zenon, <3>1, <3>2, <1>7 DEF Ids
  <2>4. 1..Len(r) = 1..(n + 1) /\ 1..Len(q) = 1..n
    BY Zenon, <1>7 DEF n
  <2>5. \A x \in Ids(r) : x \in Ids(q) \union {e.id}
    BY Zenon, <2>1, <2>4 DEF Ids
  <2>6. \A x \in Ids(q) : x \in Ids(r)
    <3>1. ASSUME NEW x \in Ids(q) PROVE x \in Ids(r)
      <4>1. PICK j \in 1..n : x = q[j].id
        BY Zenon, <2>4 DEF Ids
      <4> QED
        BY Zenon, <4>1, <2>2
    <3> QED
      BY Zenon, <3>1
  <2> QED
    BY Zenon, <2>3, <2>5, <2>6
<1>9. ASSUME Distinct(q), e.id \notin Ids(q) PROVE Distinct(r)
  <2> DEFINE at(j) == IF j <= k THEN j ELSE j - 1
  <2>1. \A j \in 1..(n + 1) : j # k + 1 => at(j) \in 1..n /\ r[j] = q[at(j)]
    BY <1>1, <1>2, <1>7
  <2>2. \A j, m \in 1..(n + 1) : j # k + 1 /\ m # k + 1 /\ at(j) = at(m) => j = m
    BY <1>1, <1>2
  <2> HIDE DEF at
  <2>3. \A j \in 1..(n + 1) : j # k + 1 => r[j].id \in Ids(q)
    BY Zenon, <2>1 DEF Ids, n
  <2>4. r[k + 1] = e /\ k + 1 \in 1..(n + 1)
    BY <1>1, <1>2, <1>7
  <2>5. ASSUME NEW j \in 1..(n + 1), NEW m \in 1..(n + 1), r[j].id = r[m].id PROVE j = m
    <3>1. CASE j = k + 1 \/ m = k + 1
      BY Zenon, <3>1, <2>3, <2>4, <2>5, <1>9
    <3>2. CASE j # k + 1 /\ m # k + 1
      <4>1. q[at(j)].id = q[at(m)].id /\ at(j) \in 1..n /\ at(m) \in 1..n
        BY Zenon, <3>2, <2>1, <2>5
      <4>2. at(j) = at(m)
        BY Zenon, <4>1, <1>9 DEF Distinct, n
      <4> QED
        BY Zenon, <4>2, <3>2, <2>2
    <3> QED
      BY Zenon, <3>1, <3>2
  <2> QED
    BY Zenon, <2>5, <1>7 DEF Distinct
<1> QED
  BY Zenon, <1>7, <1>8, <1>9 DEF r

(* ready_take_kind takes one entry and keeps the others, each once. *)
LEMMA TakeKeeps ==
    ASSUME NEW q \in Seq(Entries), Distinct(q), NEW kind, OfKind(q, kind) # {}
    PROVE  LET taken == ReadyTakeKind(q, kind)
           IN  /\ taken.entry \in Entries /\ taken.rest \in Seq(Entries)
               /\ taken.entry.id \in Ids(q)
               /\ Ids(taken.rest) = Ids(q) \ {taken.entry.id}
               /\ Distinct(taken.rest)
<1> DEFINE n == Len(q)
           j == Min(OfKind(q, kind))
           a == SubSeq(q, j + 1, n)
           b == SubSeq(q, 1, j - 1)
           r == a \o b
<1>1. n \in Nat /\ \A m \in 1..n : q[m] \in Entries
  BY Zenon, LenProperties, ElementOfSeq
<1>2. j \in 1..n
  <2>1. OfKind(q, kind) \subseteq 0..n /\ OfKind(q, kind) \subseteq 1..n
    BY <1>1 DEF OfKind
  <2>2. OfKind(q, kind) \subseteq Nat /\ IsFiniteSet(OfKind(q, kind))
    BY Zenon, <1>1, <2>1, PositionsFinite
  <2> QED
    BY Zenon, <2>1, <2>2, LeastOf
<1>3. ReadyTakeKind(q, kind) = [entry |-> q[j], rest |-> r]
  BY Zenon DEF ReadyTakeKind
<1> HIDE DEF j, n
<1>4. a \in Seq(Entries) /\ Len(a) = n - j /\ \A m \in 1..(n - j) : a[m] = q[j + m]
  <2>1. j + 1 \in Int /\ n \in Int /\ \A m \in (j + 1)..n : q[m] \in Entries
    BY <1>1, <1>2
  <2>2. /\ SubSeq(q, j + 1, n) \in Seq(Entries)
        /\ Len(SubSeq(q, j + 1, n)) = IF j + 1 <= n THEN n - (j + 1) + 1 ELSE 0
        /\ \A m \in 1..(n - (j + 1) + 1) : SubSeq(q, j + 1, n)[m] = q[j + 1 + m - 1]
    BY SMTT(30), <2>1, SubSeqProperties
  <2>3. \A m \in 1..(n - j) : m \in 1..(n - (j + 1) + 1) /\ j + 1 + m - 1 = j + m
    BY <1>1, <1>2
  <2> QED
    BY <1>1, <1>2, <2>2, <2>3
<1>5. b \in Seq(Entries) /\ Len(b) = j - 1 /\ \A m \in 1..(j - 1) : b[m] = q[m]
  <2>1. 1 \in Int /\ j - 1 \in Int /\ \A m \in 1..(j - 1) : q[m] \in Entries
    BY <1>1, <1>2
  <2>2. /\ SubSeq(q, 1, j - 1) \in Seq(Entries)
        /\ Len(SubSeq(q, 1, j - 1)) = IF 1 <= j - 1 THEN j - 1 - 1 + 1 ELSE 0
        /\ \A m \in 1..(j - 1 - 1 + 1) : SubSeq(q, 1, j - 1)[m] = q[1 + m - 1]
    BY <2>1, SubSeqProperties
  <2>3. \A m \in 1..(j - 1) : m \in 1..(j - 1 - 1 + 1) /\ 1 + m - 1 = m
    BY <1>2
  <2> QED
    BY <1>1, <1>2, <2>2, <2>3
<1> DEFINE at(m) == IF m <= n - j THEN j + m ELSE m - (n - j)
<1>6. /\ r \in Seq(Entries) /\ Len(r) = n - 1
      /\ \A m \in 1..(n - 1) : r[m] = q[at(m)] /\ at(m) \in 1..n /\ at(m) # j
  <2> HIDE DEF a, b
  <2>1. /\ a \o b \in Seq(Entries) /\ Len(a \o b) = (n - j) + (j - 1)
        /\ \A m \in 1..((n - j) + (j - 1)) :
              (a \o b)[m] = IF m <= n - j THEN a[m] ELSE b[m - (n - j)]
    <3>1. a \in Seq(Entries) /\ b \in Seq(Entries) /\ Len(a) = n - j /\ Len(b) = j - 1
      BY Zenon, <1>4, <1>5
    <3>2. /\ a \o b \in Seq(Entries) /\ Len(a \o b) = Len(a) + Len(b)
          /\ \A m \in 1..(Len(a) + Len(b)) :
                (a \o b)[m] = IF m <= Len(a) THEN a[m] ELSE b[m - Len(a)]
      BY <3>1, ConcatProperties, ZenonT(40)
    <3> QED
      BY <3>1, <3>2, Zenon
  <2>2. (n - j) + (j - 1) = n - 1
    BY <1>1, <1>2
  <2>3. \A m \in 1..(n - 1) : /\ m <= n - j => m \in 1..(n - j) /\ j + m \in 1..n /\ j + m # j
                              /\ ~(m <= n - j) => /\ m - (n - j) \in 1..(j - 1)
                                                  /\ m - (n - j) \in 1..n /\ m - (n - j) # j
    BY <1>1, <1>2
  <2>4. ASSUME NEW m \in 1..(n - 1)
        PROVE  (a \o b)[m] = q[at(m)] /\ at(m) \in 1..n /\ at(m) # j
    <3>1. CASE m <= n - j
      BY Zenon, <3>1, <2>1, <2>2, <2>3, <1>4
    <3>2. CASE ~(m <= n - j)
      BY Zenon, <3>2, <2>1, <2>2, <2>3, <1>5
    <3> QED
      BY Zenon, <3>1, <3>2
  <2> QED
    BY Zenon, <2>1, <2>2, <2>4
<1> HIDE DEF r
<1>7. \A m, p \in 1..(n - 1) : at(m) = at(p) => m = p
  BY <1>1, <1>2
<1>8. \A p \in 1..n : p # j => \E m \in 1..(n - 1) : at(m) = p
  <2> SUFFICES ASSUME NEW p \in 1..n, p # j PROVE \E m \in 1..(n - 1) : at(m) = p
    BY Zenon
  <2>1. CASE p > j
    <3>1. p - j \in 1..(n - 1) /\ p - j <= n - j /\ j + (p - j) = p
      BY <2>1, <1>1, <1>2
    <3> QED
      BY Zenon, <3>1
  <2>2. CASE p < j
    <3>1. p + (n - j) \in 1..(n - 1) /\ ~(p + (n - j) <= n - j) /\ (p + (n - j)) - (n - j) = p
      BY <2>2, <1>1, <1>2
    <3> QED
      BY Zenon, <3>1
  <2> QED
    BY <2>1, <2>2, <1>1, <1>2
<1> HIDE DEF at
<1>9. q[j] \in Entries /\ q[j].id \in Ids(q)
  BY Zenon, <1>1, <1>2 DEF Ids, n
<1>10. Ids(r) = Ids(q) \ {q[j].id}
  <2>1. ASSUME NEW m \in 1..(n - 1) PROVE r[m].id \in Ids(q) \ {q[j].id}
    <3>1. r[m] = q[at(m)] /\ at(m) \in 1..n /\ at(m) # j
      BY Zenon, <1>6
    <3>2. q[at(m)].id # q[j].id
      BY Zenon, <3>1, <1>2 DEF Distinct, n
    <3> QED
      BY Zenon, <3>1, <3>2 DEF Ids, n
  <2>2. ASSUME NEW p \in 1..n, q[p].id # q[j].id PROVE q[p].id \in Ids(r)
    <3>1. PICK m \in 1..(n - 1) : at(m) = p
      BY Zenon, <2>2, <1>8
    <3>2. r[m] = q[p]
      BY Zenon, <3>1, <1>6
    <3> QED
      BY Zenon, <3>2, <1>6 DEF Ids
  <2>3. 1..Len(r) = 1..(n - 1) /\ 1..Len(q) = 1..n
    BY Zenon, <1>6 DEF n
  <2>4. \A x \in Ids(r) : x \in Ids(q) \ {q[j].id}
    BY Zenon, <2>1, <2>3 DEF Ids
  <2>5. ASSUME NEW x \in Ids(q), x # q[j].id PROVE x \in Ids(r)
    <3>1. PICK p \in 1..n : x = q[p].id
      BY Zenon, <2>3 DEF Ids
    <3> QED
      BY Zenon, <2>2, <2>5, <3>1
  <2> QED
    BY Zenon, <2>4, <2>5
<1>11. Distinct(r)
  <2> SUFFICES ASSUME NEW m \in 1..(n - 1), NEW p \in 1..(n - 1), r[m].id = r[p].id
               PROVE  m = p
    BY Zenon, <1>6 DEF Distinct
  <2>1. q[at(m)].id = q[at(p)].id /\ at(m) \in 1..n /\ at(p) \in 1..n
    BY Zenon, <1>6
  <2>2. at(m) = at(p)
    BY Zenon, <2>1 DEF Distinct, n
  <2> QED
    BY Zenon, <2>2, <1>7
<1>12. ReadyTakeKind(q, kind).entry = q[j] /\ ReadyTakeKind(q, kind).rest = r
  BY <1>3
<1> QED
  BY Zenon, <1>6, <1>9, <1>10, <1>11, <1>12

-----------------------------------------------------------------------------
(* The transition log of a message. *)
Records == [seq : Nat \ {0}, status : {"queued", "claimed", "applied"}, run : Runs \union {None}]

(* latest_transition of the log q. *)
LatestIn(q) ==
    LET top == Max({q[j].seq : j \in DOMAIN q})
    IN  q[Min({j \in DOMAIN q : q[j].seq = top})]

(* It is the first of the highest. *)
LEMMA LatestIsFirst ==
    ASSUME NEW q \in Seq(Records), q # <<>>
    PROVE  \E j \in 1..Len(q) : /\ LatestIn(q) = q[j]
                                /\ \A k \in 1..Len(q) : q[k].seq <= q[j].seq
                                /\ \A k \in 1..Len(q) : k < j => q[k].seq < q[j].seq
<1> DEFINE n == Len(q)
           S == {q[j].seq : j \in DOMAIN q}
           top == Max(S)
           F == {j \in DOMAIN q : q[j].seq = top}
           first == Min(F)
<1>1. n \in Nat /\ n # 0 /\ DOMAIN q = 1..n /\ \A j \in 1..n : q[j] \in Records /\ q[j].seq \in Nat
  <2>1. n \in Nat /\ n # 0 /\ DOMAIN q = 1..n
    BY Zenon, LenProperties, EmptySeq
  <2>2. \A j \in 1..n : q[j] \in Records
    BY Zenon, ElementOfSeq
  <2>3. \A x \in Records : x.seq \in Nat
    BY Zenon DEF Records
  <2> QED
    BY Zenon, <2>1, <2>2, <2>3
<1>2. S \subseteq Nat /\ S # {} /\ IsFiniteSet(S)
  <2>1. S \subseteq Nat /\ S # {}
    <3>1. 1 \in 1..n
      BY <1>1
    <3>2. q[1].seq \in S
      BY Zenon, <1>1, <3>1
    <3> QED
      BY Zenon, <1>1, <3>2
  <2>2. IsFiniteSet(1..n)
    <3>1. 1 \in Int /\ n \in Int
      BY <1>1
    <3> QED
      BY <3>1, FS_Interval, Zenon
  <2>3. [j \in 1..n |-> q[j].seq] \in Surjection(1..n, S)
    BY Zenon, <1>1 DEF Surjection
  <2> QED
    BY ZenonT(40), <2>1, <2>2, <2>3, FS_Surjection
<1>3. top \in S /\ \A x \in S : top >= x
  BY Zenon, <1>2, GreatestOf
<1> HIDE DEF top
<1>4. F \subseteq 0..n /\ F # {} /\ F \subseteq 1..n
  BY <1>1, <1>3
<1>5. F \subseteq Nat /\ IsFiniteSet(F)
  BY Zenon, <1>1, <1>4, PositionsFinite
<1>6. first \in F /\ \A k \in F : first <= k
  BY Zenon, <1>4, <1>5, LeastOf
<1>7. LatestIn(q) = q[first]
  BY Zenon DEF LatestIn, top
<1> HIDE DEF first
<1>8. first \in 1..n /\ q[first].seq = top
  BY Zenon, <1>6, <1>1
<1>9. \A k \in 1..n : q[k].seq <= q[first].seq
  BY Zenon, <1>1, <1>3, <1>8
<1>10. ASSUME NEW k \in 1..n, k < first PROVE q[k].seq < q[first].seq
  <2>1. k \notin F
    BY <1>6, <1>8, <1>10
  <2>2. q[k].seq # top
    BY Zenon, <2>1, <1>1
  <2> QED
    BY <2>2, <1>1, <1>8, <1>9
<1> QED
  BY Zenon, <1>7, <1>8, <1>9, <1>10

(* A new record becomes the latest one or leaves it as it was. *)
LEMMA LatestAfterAppend ==
    ASSUME NEW q \in Seq(Records), NEW t \in Records
    PROVE  LatestIn(Append(q, t)) = t \/ (q # <<>> /\ LatestIn(Append(q, t)) = LatestIn(q))
<1> DEFINE n == Len(q)
           r == Append(q, t)
<1>1. /\ r \in Seq(Records) /\ r # <<>> /\ Len(r) = n + 1
      /\ r[n + 1] = t /\ \A j \in 1..n : r[j] = q[j]
  BY AppendProperties
<1>2. n \in Nat /\ \A j \in 1..n : q[j].seq \in Nat
  <2>1. \A j \in 1..n : q[j] \in Records
    BY Zenon, ElementOfSeq
  <2>2. \A x \in Records : x.seq \in Nat
    BY Zenon DEF Records
  <2> QED
    BY Zenon, <2>1, <2>2, LenProperties
<1> HIDE DEF r
<1>3. PICK j \in 1..(n + 1) : /\ LatestIn(r) = r[j]
                              /\ \A k \in 1..(n + 1) : r[k].seq <= r[j].seq
                              /\ \A k \in 1..(n + 1) : k < j => r[k].seq < r[j].seq
  BY Zenon, <1>1, LatestIsFirst
<1>4. CASE j = n + 1
  BY Zenon, <1>1, <1>3, <1>4 DEF r
<1>5. CASE j # n + 1
  <2>1. j \in 1..n /\ n # 0
    BY <1>2, <1>5
  <2>2. q # <<>>
    BY <2>1
  <2>3. PICK m \in 1..n : /\ LatestIn(q) = q[m]
                          /\ \A k \in 1..n : q[k].seq <= q[m].seq
                          /\ \A k \in 1..n : k < m => q[k].seq < q[m].seq
    BY Zenon, <2>2, LatestIsFirst
  <2>4. q[m].seq <= q[j].seq /\ (m < j => q[m].seq < q[j].seq)
    <3>1. m \in 1..(n + 1) /\ r[m] = q[m] /\ r[j] = q[j]
      BY <1>1, <1>2, <2>1, <2>3
    <3> QED
      BY Zenon, <3>1, <1>3
  <2>5. m = j
    BY <1>2, <2>1, <2>3, <2>4
  <2>6. LatestIn(r) = LatestIn(q)
    BY Zenon, <1>1, <1>3, <2>1, <2>3, <2>5
  <2> QED
    BY Zenon, <2>2, <2>6 DEF r
<1> QED
  BY Zenon, <1>4, <1>5

-----------------------------------------------------------------------------
(* The inductive invariant. *)
ClaimRecords ==
    [id : Items, sequence : Nat, seq : Nat \ {0}, run : Runs, bound : BOOLEAN]

InboxTypes ==
    /\ payload \in [Items -> Nat]
    /\ log \in [Items -> Seq(Records)]
    /\ events \in [Runs -> SUBSET Items]
    /\ mode \in {"down", "recovering", "up"}
    /\ ready \in Seq(Entries)
    /\ nextSequence \in Nat
    /\ claim \in ClaimRecords \union {NoClaim}
    /\ consumer \in {"idle", "claiming"}
    /\ producer \in [Items -> ProducerSteps]
    /\ ticket \in [Items -> Nat]

(* The messages the object holds. *)
Held == InReady \union InClaim

(* Capacity is counted exactly in every mode. *)
Counted ==
    /\ Distinct(ready)
    /\ InReady \intersect InClaim = {}
    /\ Held \subseteq Items /\ IsFiniteSet(Held) /\ IsFiniteSet(BytesOf(Held))
    /\ used = Size(Held)
    /\ IsFiniteSet(InFlight) /\ IsFiniteSet(BytesOf(InFlight))
    /\ reserved = Size(InFlight)
    /\ used.items + reserved.items <= MaxItems
    /\ used.bytes + reserved.bytes <= MaxBytes

(* What a producer has not done yet has left no trace. *)
Untouched ==
    \A i \in Items :
       /\ producer[i] \in {"new"} \union Waiting \union Busy => i \notin Held
       /\ producer[i] \in {"new", "reserved"} \union Waiting => payload[i] = 0
       /\ producer[i] \in {"new", "reserved", "payload"} \union Waiting => log[i] = <<>>

(* The log q says that its message is applied. *)
DoneIn(q) == q # <<>> /\ LatestIn(q).status = "applied"

(* A message that is queued, or about to be, is not applied; one that is   *)
(* claimed is only applied when its event is durable.                      *)
LogsAgree ==
    /\ \A i \in Items : producer[i] = "publish" \/ i \in InReady => ~DoneIn(log[i])
    /\ claim # NoClaim /\ DoneIn(log[claim.id]) =>
          consumer = "idle" /\ claim.id \in events[claim.run]

Modes ==
    /\ mode # "up" => /\ claim = NoClaim /\ consumer = "idle"
                      /\ \A i \in Items : producer[i] \notin Waiting \union Busy
    /\ mode = "down" => ready = <<>>
    /\ mode = "recovering" => \A i \in pending : payload[i] # 0 /\ i \notin InReady
    /\ consumer = "claiming" => claim # NoClaim

InboxInv == InboxTypes /\ Counted /\ Untouched /\ LogsAgree /\ Modes /\ NoLostWakeUp

-----------------------------------------------------------------------------
(* Facts that several steps need. *)

(* A record more makes a message applied only if it says so. *)
LEMMA AppendDone ==
    ASSUME NEW q \in Seq(Records), NEW t \in Records
    PROVE  /\ Append(q, t) \in Seq(Records)
           /\ DoneIn(Append(q, t)) => t.status = "applied" \/ DoneIn(q)
           /\ DoneIn(q) /\ t.status = "applied" => DoneIn(Append(q, t))
BY AppendProperties, LatestAfterAppend DEF DoneIn

LEMMA TransitionIsRecord ==
    ASSUME NEW n \in Nat \ {0}, NEW s \in {"queued", "claimed", "applied"}, NEW r \in Runs \union {None}
    PROVE  Transition(n, s, r) \in Records /\ Transition(n, s, r).status = s
BY Zenon DEF Transition, Records

LEMMA ClaimIsRecord ==
    ASSUME InboxTypes, claim # NoClaim
    PROVE  claim \in ClaimRecords /\ InClaim = {claim.id}
BY Zenon DEF InboxTypes, InClaim

LEMMA RecordIsNoClaim == \A c \in ClaimRecords : c # NoClaim
BY DEF ClaimRecords, NoClaim

LEMMA InReadyIsIds == InReady = Ids(ready)
BY Zenon DEF InReady, Ids

LEMMA CountedNumbers ==
    ASSUME Counted
    PROVE  used \in [items : Nat, bytes : Nat] /\ reserved \in [items : Nat, bytes : Nat]
BY Zenon, SizeType DEF Counted

(* Only who frees capacity or closes has to wake others. *)
LEMMA WakeUpsKept ==
    ASSUME NoLostWakeUp, Counted, closed' = closed,
           used' \in [items : Nat, bytes : Nat], reserved' \in [items : Nat, bytes : Nat],
           used'.items + reserved'.items >= used.items + reserved.items,
           used'.bytes + reserved'.bytes >= used.bytes + reserved.bytes,
           \A p \in Items : producer'[p] = "asleep" => producer[p] = "asleep"
    PROVE  NoLostWakeUp'
<1>1. used \in [items : Nat, bytes : Nat] /\ reserved \in [items : Nat, bytes : Nat]
  BY Zenon, CountedNumbers
<1>2. ASSUME NEW p \in Items, HasCapacity(p)' PROVE HasCapacity(p)
  <2>1. Bytes[p] \in Nat
    BY Zenon
  <2>2. /\ used'.items + reserved'.items < MaxItems
        /\ used'.bytes + reserved'.bytes + Bytes[p] <= MaxBytes
    BY Zenon, <1>2 DEF HasCapacity
  <2> QED
    BY <1>1, <2>1, <2>2 DEF HasCapacity
<1> QED
  BY Zenon, <1>2 DEF NoLostWakeUp

LEMMA WakeUpsSame ==
    ASSUME NoLostWakeUp, closed' = closed, used' = used, reserved' = reserved,
           \A p \in Items : producer'[p] = "asleep" => producer[p] = "asleep"
    PROVE  NoLostWakeUp'
BY Zenon DEF NoLostWakeUp, HasCapacity

LEMMA NobodyAsleep ==
    ASSUME \A p \in Items : producer'[p] # "asleep"
    PROVE  NoLostWakeUp'
BY Zenon DEF NoLostWakeUp

(* A step that moves a message inside the object. *)
LEMMA CountedSame ==
    ASSUME Counted, Held' = Held, InFlight' = InFlight, used' = used, reserved' = reserved,
           Distinct(ready'), InReady' \intersect InClaim' = {}
    PROVE  Counted'
BY Zenon DEF Counted

(* Broadcast wakes everyone and moves no one else. *)
LEMMA BroadcastWakes ==
    ASSUME producer \in [Items -> ProducerSteps], Broadcast
    PROVE  /\ producer' \in [Items -> ProducerSteps]
           /\ \A p \in Items : /\ producer'[p] # "asleep"
                               /\ producer'[p] = producer[p] \/ (producer[p] = "asleep" /\ producer'[p] = "awake")
           /\ InFlight' = InFlight
BY Zenon DEF Broadcast, ProducerSteps, Waiting, Busy, InFlight

(* A claimed entry goes back to the queue. *)
LEMMA ReturnToReady ==
    ASSUME InboxTypes, Counted, claim # NoClaim, claim' = NoClaim, NEW n \in Nat \ {0},
           ready' = ReadyInsert(ready, Entry(claim, n))
    PROVE  /\ ready' \in Seq(Entries) /\ Distinct(ready')
           /\ InReady' = Held /\ InClaim' = {} /\ Held' = Held
<1>1. claim \in ClaimRecords /\ InClaim = {claim.id}
  BY Zenon, ClaimIsRecord
<1>2. Entry(claim, n) \in Entries /\ Entry(claim, n).id = claim.id
  BY Zenon, <1>1 DEF Entry, Entries, ClaimRecords
<1>3. ready \in Seq(Entries) /\ Distinct(ready) /\ claim.id \notin Ids(ready)
  BY Zenon, <1>1, InReadyIsIds DEF InboxTypes, Counted
<1>4. ready' \in Seq(Entries) /\ Distinct(ready') /\ Ids(ready') = Ids(ready) \union {claim.id}
  BY Zenon, <1>2, <1>3, InsertKeeps
<1>5. InReady' = Ids(ready') /\ InClaim' = {}
  BY Zenon DEF InReady, Ids, InClaim
<1> QED
  BY Zenon, <1>1, <1>4, <1>5, InReadyIsIds DEF Held

(* One record more in the log of i. *)
LEMMA AppendLogs ==
    ASSUME InboxTypes, NEW i \in Items, NEW t \in Records, Append1(i, t)
    PROVE  /\ log' \in [Items -> Seq(Records)]
           /\ log'[i] = Append(log[i], t)
           /\ \A p \in Items : p # i => log'[p] = log[p]
           /\ DoneIn(log'[i]) => t.status = "applied" \/ DoneIn(log[i])
BY Zenon, AppendDone DEF InboxTypes, Append1

-----------------------------------------------------------------------------
(* The new inbox has the invariant. *)
LEMMA InboxInit == Init => InboxInv
<1> SUFFICES ASSUME Init PROVE InboxInv
  BY Zenon
<1>1. InboxTypes
  BY DEF Init, InboxTypes, ProducerSteps, NoClaim
<1>2. InReady = {} /\ InClaim = {} /\ Held = {}
  BY DEF Init, InReady, InClaim, Held
<1>3. InFlight = {}
  BY Zenon DEF Init, InFlight, Busy
<1>4. Counted
  <2>1. Distinct(ready)
    BY DEF Init, Distinct
  <2>2. used = Size({}) /\ reserved = Size({})
    BY Zenon DEF Init
  <2> QED
    BY <1>2, <1>3, <2>1, <2>2, SizeEmpty DEF Counted
<1>5. Untouched
  BY Zenon, <1>2 DEF Init, Untouched
<1>6. LogsAgree /\ Modes /\ NoLostWakeUp
  BY Zenon, <1>2 DEF Init, LogsAgree, Modes, NoLostWakeUp, DoneIn
<1> QED
  BY Zenon, <1>1, <1>4, <1>5, <1>6 DEF InboxInv

-----------------------------------------------------------------------------
(* Producers. *)
LEMMA ReserveKeeps ==
    ASSUME InboxInv, NEW i \in Items, Reserve(i) PROVE InboxInv'
<1>1. /\ mode = "up" /\ producer[i] \in {"new", "awake"} /\ HasCapacity(i)
      /\ reserved' = Add(reserved, i)
      /\ ticket' = [ticket EXCEPT ![i] = nextSequence]
      /\ nextSequence' = nextSequence + 1
      /\ producer' = [producer EXCEPT ![i] = "reserved"]
      /\ UNCHANGED <<payload, log, events, mode, pending, ready, used, closed, claim, consumer>>
  BY Zenon DEF Reserve, Step, store, claims
<1>2. InboxTypes'
  BY <1>1 DEF InboxInv, InboxTypes, ProducerSteps, Busy
<1>3. InReady' = InReady /\ InClaim' = InClaim /\ Held' = Held
  BY Zenon, <1>1 DEF InReady, InClaim, Held
<1>4. InFlight' = InFlight \union {i} /\ i \notin InFlight /\ InFlight \subseteq Items
  BY Zenon, <1>1 DEF InboxInv, InboxTypes, InFlight, Busy
<1>5. /\ IsFiniteSet(InFlight') /\ IsFiniteSet(BytesOf(InFlight'))
      /\ reserved' = Size(InFlight')
  BY Zenon, <1>1, <1>4, SizeAdd DEF InboxInv, Counted
<1>6. used \in [items : Nat, bytes : Nat] /\ reserved \in [items : Nat, bytes : Nat]
      /\ Bytes[i] \in Nat
  BY Zenon, CountedNumbers DEF InboxInv
<1>7. reserved'.items = reserved.items + 1 /\ reserved'.bytes = reserved.bytes + Bytes[i]
      /\ reserved' \in [items : Nat, bytes : Nat]
  BY <1>1, <1>6 DEF Add
<1>8. used.items + reserved'.items <= MaxItems /\ used.bytes + reserved'.bytes <= MaxBytes
  BY <1>1, <1>6, <1>7 DEF HasCapacity
<1>9. Counted'
  <2>1. Distinct(ready') /\ used' = used
    BY Zenon, <1>1 DEF InboxInv, Counted
  <2> QED
    BY Zenon, <1>3, <1>5, <1>8, <2>1 DEF InboxInv, Counted
<1>10. Untouched'
  BY Zenon, <1>1, <1>3 DEF InboxInv, InboxTypes, Untouched, Waiting, Busy
<1>11. LogsAgree'
  BY Zenon, <1>1, <1>3 DEF InboxInv, InboxTypes, LogsAgree
<1>12. Modes'
  BY Zenon, <1>1 DEF InboxInv, Modes
<1>13. NoLostWakeUp'
  <2>1. \A p \in Items : producer'[p] = "asleep" => producer[p] = "asleep"
    BY Zenon, <1>1 DEF InboxInv, InboxTypes
  <2>2. /\ used' = used /\ closed' = closed
        /\ used.items + reserved'.items >= used.items + reserved.items
        /\ used.bytes + reserved'.bytes >= used.bytes + reserved.bytes
    BY <1>1, <1>6, <1>7
  <2> QED
    BY Zenon, <1>6, <1>7, <2>1, <2>2, WakeUpsKept DEF InboxInv
<1> QED
  BY Zenon, <1>2, <1>9, <1>10, <1>11, <1>12, <1>13 DEF InboxInv

(* A producer that waits, or stops waiting. *)
LEMMA WaitKeeps ==
    ASSUME InboxInv, NEW i \in Items, Sleep(i) \/ GiveUp(i) PROVE InboxInv'
<1>1. /\ mode = "up" /\ producer[i] \in {"new", "awake", "asleep"}
      /\ \/ producer' = [producer EXCEPT ![i] = "refused"]
         \/ producer' = [producer EXCEPT ![i] = "asleep"] /\ ~closed /\ ~HasCapacity(i)
      /\ UNCHANGED <<payload, log, events, mode, pending, ready, used, reserved, nextSequence,
                     closed, claim, consumer, ticket>>
  BY Zenon DEF Sleep, GiveUp, Step, store, object, claims
<1>2. InboxTypes'
  BY Zenon, <1>1 DEF InboxInv, InboxTypes, ProducerSteps, Waiting
<1>3. InReady' = InReady /\ InClaim' = InClaim /\ Held' = Held
  BY Zenon, <1>1 DEF InReady, InClaim, Held
<1>4. InFlight' = InFlight
  BY Zenon, <1>1 DEF InboxInv, InboxTypes, InFlight, Busy
<1>5. Counted'
  BY Zenon, <1>1, <1>3, <1>4, CountedSame DEF InboxInv, Counted
<1>6. Untouched'
  BY ZenonT(60), <1>1, <1>3 DEF InboxInv, InboxTypes, Untouched, Waiting, Busy
<1>7. LogsAgree'
  BY Zenon, <1>1, <1>3 DEF InboxInv, InboxTypes, LogsAgree
<1>8. Modes'
  BY Zenon, <1>1 DEF InboxInv, Modes
<1>9. NoLostWakeUp'
  BY Zenon, <1>1 DEF InboxInv, InboxTypes, NoLostWakeUp, HasCapacity
<1> QED
  BY Zenon, <1>2, <1>5, <1>6, <1>7, <1>8, <1>9 DEF InboxInv

LEMMA PutPayloadKeeps ==
    ASSUME InboxInv, NEW i \in Items, PutPayload(i) PROVE InboxInv'
<1>1. /\ producer[i] = "reserved"
      /\ payload' \in {payload, [payload EXCEPT ![i] = ticket[i]]}
      /\ \/ producer' = [producer EXCEPT ![i] = "payload"]
         \/ producer' = [producer EXCEPT ![i] = "abandon"]
      /\ UNCHANGED <<log, events, mode, pending, ready, used, reserved, nextSequence,
                     closed, claim, consumer, ticket>>
  BY Zenon DEF PutPayload, Put, Step, object, claims
<1>2. InboxTypes'
  <2>1. payload' \in [Items -> Nat]
    BY Zenon, <1>1 DEF InboxInv, InboxTypes
  <2>2. producer' \in [Items -> ProducerSteps]
    BY Zenon, <1>1 DEF InboxInv, InboxTypes, ProducerSteps, Busy
  <2> QED
    BY Zenon, <1>1, <2>1, <2>2 DEF InboxInv, InboxTypes
<1>3. InReady' = InReady /\ InClaim' = InClaim /\ Held' = Held
  BY <1>1 DEF InReady, InClaim, Held
<1>4. InFlight' = InFlight
  BY Zenon, <1>1 DEF InboxInv, InboxTypes, InFlight, Busy
<1>5. Counted'
  BY Zenon, <1>1, <1>3, <1>4, CountedSame DEF InboxInv, Counted
<1>6. Untouched'
  <2> SUFFICES ASSUME NEW p \in Items
               PROVE  /\ producer'[p] \in {"new"} \union Waiting \union Busy => p \notin Held
                      /\ producer'[p] \in {"new", "reserved"} \union Waiting => payload'[p] = 0
                      /\ producer'[p] \in {"new", "reserved", "payload"} \union Waiting => log[p] = <<>>
    BY Zenon, <1>1, <1>3 DEF Untouched
  <2>1. CASE p = i
    BY ZenonT(60), <1>1, <2>1 DEF InboxInv, InboxTypes, Untouched, Waiting, Busy
  <2>2. CASE p # i
    <3>1. producer'[p] = producer[p] /\ payload'[p] = payload[p]
      BY Zenon, <1>1, <2>2 DEF InboxInv, InboxTypes
    <3> QED
      BY <3>1 DEF InboxInv, Untouched
  <2> QED
    BY Zenon, <2>1, <2>2
<1>7. LogsAgree'
  BY Zenon, <1>1, <1>3 DEF InboxInv, InboxTypes, LogsAgree
<1>8. mode = "up"
  BY Zenon, <1>1 DEF InboxInv, Modes, Busy
<1>9. Modes'
  BY <1>1, <1>8 DEF InboxInv, Modes
<1>10. NoLostWakeUp'
  <2>1. \A p \in Items : producer'[p] = "asleep" => producer[p] = "asleep"
    BY Zenon, <1>1 DEF InboxInv, InboxTypes
  <2> QED
    BY Zenon, <1>1, <2>1, WakeUpsSame DEF InboxInv
<1> QED
  BY Zenon, <1>2, <1>5, <1>6, <1>7, <1>9, <1>10 DEF InboxInv

LEMMA PutQueuedKeeps ==
    ASSUME InboxInv, NEW i \in Items, PutQueued(i) PROVE InboxInv'
<1> DEFINE t == Transition(1, "queued", None)
<1>1. /\ producer[i] = "payload"
      /\ Append1(i, t) \/ log' = log
      /\ \/ producer' = [producer EXCEPT ![i] = "publish"]
         \/ producer' = [producer EXCEPT ![i] = "abandon"]
      /\ UNCHANGED <<payload, events, mode, pending, ready, used, reserved, nextSequence,
                     closed, claim, consumer, ticket>>
  BY Zenon DEF PutQueued, Put, Step, object, claims
<1>2. t \in Records /\ t.status = "queued"
  BY TransitionIsRecord
<1> HIDE DEF t
<1>3. /\ log' \in [Items -> Seq(Records)]
      /\ \A p \in Items : p # i => log'[p] = log[p]
      /\ DoneIn(log'[i]) => DoneIn(log[i])
  BY Zenon, <1>1, <1>2, AppendLogs DEF InboxInv, InboxTypes
<1>4. /\ producer' \in [Items -> ProducerSteps]
      /\ producer'[i] \in {"publish", "abandon"}
      /\ \A p \in Items : p # i => producer'[p] = producer[p]
  BY Zenon, <1>1 DEF InboxInv, InboxTypes, ProducerSteps, Busy
<1>5. InboxTypes'
  BY Zenon, <1>1, <1>3, <1>4 DEF InboxInv, InboxTypes
<1>6. InReady' = InReady /\ InClaim' = InClaim /\ Held' = Held
  BY Zenon, <1>1 DEF InReady, InClaim, Held
<1>7. InFlight' = InFlight
  BY Zenon, <1>1, <1>4 DEF InFlight, Busy
<1>8. Counted'
  BY Zenon, <1>1, <1>6, <1>7, CountedSame DEF InboxInv, Counted
<1>9. log[i] = <<>> /\ i \notin Held
  BY <1>1 DEF InboxInv, Untouched, Busy
<1>10. Untouched'
  <2> SUFFICES ASSUME NEW p \in Items
               PROVE  /\ producer'[p] \in {"new"} \union Waiting \union Busy => p \notin Held
                      /\ producer'[p] \in {"new", "reserved"} \union Waiting => payload[p] = 0
                      /\ producer'[p] \in {"new", "reserved", "payload"} \union Waiting => log'[p] = <<>>
    BY Zenon, <1>1, <1>6 DEF Untouched
  <2>1. CASE p = i
    BY Zenon, <1>4, <1>9, <2>1 DEF Waiting
  <2>2. CASE p # i
    <3>1. producer'[p] = producer[p] /\ log'[p] = log[p]
      BY Zenon, <1>3, <1>4, <2>2
    <3> QED
      BY Zenon, <3>1 DEF InboxInv, Untouched
  <2> QED
    BY Zenon, <2>1, <2>2
<1>11. LogsAgree'
  <2>1. ~DoneIn(log'[i])
    BY Zenon, <1>3, <1>9 DEF DoneIn
  <2>2. claim # NoClaim => claim.id \in Items /\ log'[claim.id] = log[claim.id]
    BY Zenon, <1>3, <1>9, ClaimIsRecord DEF InboxInv, Held, ClaimRecords
  <2>3. ASSUME NEW p \in Items, producer'[p] = "publish" \/ p \in InReady PROVE ~DoneIn(log'[p])
    <3>1. CASE p = i
      BY Zenon, <2>1, <3>1
    <3>2. CASE p # i
      <4>1. producer'[p] = producer[p] /\ log'[p] = log[p]
        BY Zenon, <1>3, <1>4, <3>2
      <4> QED
        BY Zenon, <4>1, <2>3 DEF InboxInv, LogsAgree
    <3> QED
      BY Zenon, <3>1, <3>2
  <2>4. claim # NoClaim /\ DoneIn(log'[claim.id]) =>
           consumer = "idle" /\ claim.id \in events[claim.run]
    BY Zenon, <2>2 DEF InboxInv, LogsAgree
  <2> QED
    BY Zenon, <1>1, <1>6, <2>3, <2>4 DEF LogsAgree
<1>12. mode = "up"
  BY Zenon, <1>1 DEF InboxInv, Modes, Busy
<1>13. Modes'
  BY Zenon, <1>1, <1>12 DEF InboxInv, Modes
<1>14. NoLostWakeUp'
  <2>1. \A p \in Items : producer'[p] = "asleep" => producer[p] = "asleep"
    BY Zenon, <1>4
  <2> QED
    BY Zenon, <1>1, <2>1, WakeUpsSame DEF InboxInv
<1> QED
  BY Zenon, <1>5, <1>8, <1>10, <1>11, <1>13, <1>14 DEF InboxInv

(* BroadcastAnd wakes everyone and moves i. *)
LEMMA BroadcastAndWakes ==
    ASSUME producer \in [Items -> ProducerSteps], NEW i \in Items, producer[i] \in Busy,
           NEW s \in {"accepted", "refused"}, BroadcastAnd(i, s)
    PROVE  /\ producer' \in [Items -> ProducerSteps]
           /\ producer'[i] = s
           /\ \A p \in Items :
                 /\ producer'[p] # "asleep"
                 /\ p # i => \/ producer'[p] = producer[p]
                             \/ producer[p] = "asleep" /\ producer'[p] = "awake"
           /\ i \in InFlight /\ InFlight' = InFlight \ {i} /\ InFlight \subseteq Items
BY Zenon DEF BroadcastAnd, ProducerSteps, Waiting, Busy, InFlight

LEMMA PublishKeeps ==
    ASSUME InboxInv, NEW i \in Items, Publish(i) PROVE InboxInv'
<1> DEFINE e == [id |-> i, sequence |-> ticket[i], seq |-> 1]
<1>1. /\ producer[i] = "publish"
      /\ reserved' = Remove(reserved, i) /\ used' = Add(used, i)
      /\ ready' = ReadyInsert(ready, e)
      /\ BroadcastAnd(i, "accepted")
      /\ UNCHANGED <<payload, log, events, mode, pending, nextSequence, closed, claim, consumer,
                     ticket>>
  BY Zenon DEF Publish, store, claims
<1>2. /\ producer' \in [Items -> ProducerSteps]
      /\ producer'[i] = "accepted"
      /\ \A p \in Items :
            /\ producer'[p] # "asleep"
            /\ p # i => \/ producer'[p] = producer[p]
                        \/ producer[p] = "asleep" /\ producer'[p] = "awake"
      /\ i \in InFlight /\ InFlight' = InFlight \ {i} /\ InFlight \subseteq Items
  BY Zenon, <1>1, BroadcastAndWakes DEF InboxInv, InboxTypes, Busy
<1>3. e \in Entries /\ e.id = i
  BY DEF InboxInv, InboxTypes, Entries
<1>4. i \notin Held
  BY Zenon, <1>1 DEF InboxInv, Untouched, Busy
<1> HIDE DEF e
<1>5. ready' \in Seq(Entries) /\ Ids(ready') = InReady \union {i} /\ Distinct(ready')
  <2>1. ready \in Seq(Entries) /\ Distinct(ready) /\ i \notin Ids(ready)
    BY Zenon, <1>4, InReadyIsIds DEF InboxInv, InboxTypes, Counted, Held
  <2> QED
    BY <1>1, <1>3, <2>1, InReadyIsIds, InsertKeeps
<1>6. InReady' = InReady \union {i} /\ InClaim' = InClaim /\ Held' = Held \union {i}
  <2>1. InReady' = Ids(ready') /\ InClaim' = InClaim
    BY Zenon, <1>1 DEF InReady, Ids, InClaim
  <2>2. Held' = InReady' \union InClaim'
    BY Zenon DEF Held
  <2> QED
    BY Zenon, <1>5, <2>1, <2>2 DEF Held
<1>7. InboxTypes'
  BY Zenon, <1>1, <1>2, <1>5 DEF InboxInv, InboxTypes
<1>8. /\ IsFiniteSet(Held') /\ IsFiniteSet(BytesOf(Held')) /\ used' = Size(Held')
      /\ Held' \subseteq Items
  BY Zenon, <1>1, <1>4, <1>6, SizeAdd DEF InboxInv, Counted
<1>9. IsFiniteSet(InFlight') /\ IsFiniteSet(BytesOf(InFlight')) /\ reserved' = Size(InFlight')
  BY Zenon, <1>1, <1>2, SizeRemove DEF InboxInv, Counted
<1>10. used'.items + reserved'.items <= MaxItems /\ used'.bytes + reserved'.bytes <= MaxBytes
  <2>1. used \in [items : Nat, bytes : Nat] /\ reserved \in [items : Nat, bytes : Nat]
        /\ Bytes[i] \in Nat
    BY Zenon, CountedNumbers DEF InboxInv
  <2>2. used.items + reserved.items <= MaxItems /\ used.bytes + reserved.bytes <= MaxBytes
    BY Zenon DEF InboxInv, Counted
  <2>3. used'.items = used.items + 1 /\ reserved'.items = reserved.items - 1
        /\ used'.bytes = used.bytes + Bytes[i] /\ reserved'.bytes = reserved.bytes - Bytes[i]
    BY Zenon, <1>1 DEF Add, Remove
  <2> QED
    BY <2>1, <2>2, <2>3
<1>11. Counted'
  <2>1. InReady' \intersect InClaim' = {}
    BY Zenon, <1>4, <1>6 DEF InboxInv, Counted, Held
  <2> QED
    BY Zenon, <1>5, <1>8, <1>9, <1>10, <2>1 DEF Counted
<1>12. Untouched'
  BY Zenon, <1>1, <1>2, <1>6 DEF InboxInv, Untouched, Waiting, Busy
<1>13. LogsAgree'
  BY Zenon, <1>1, <1>2, <1>6 DEF InboxInv, LogsAgree
<1>14. mode = "up"
  BY Zenon, <1>1 DEF InboxInv, Modes, Busy
<1>15. Modes'
  BY Zenon, <1>1, <1>14 DEF InboxInv, Modes
<1>16. NoLostWakeUp'
  BY Zenon, <1>2, NobodyAsleep
<1> QED
  BY Zenon, <1>7, <1>11, <1>12, <1>13, <1>15, <1>16 DEF InboxInv

LEMMA AbandonKeeps ==
    ASSUME InboxInv, NEW i \in Items, Abandon(i) PROVE InboxInv'
<1>1. /\ producer[i] = "abandon"
      /\ reserved' = Remove(reserved, i)
      /\ BroadcastAnd(i, "refused")
      /\ UNCHANGED <<payload, log, events, mode, pending, ready, used, nextSequence, closed, claim,
                     consumer, ticket>>
  BY Zenon DEF Abandon, store, claims
<1>2. /\ producer' \in [Items -> ProducerSteps]
      /\ producer'[i] = "refused"
      /\ \A p \in Items :
            /\ producer'[p] # "asleep"
            /\ p # i => \/ producer'[p] = producer[p]
                        \/ producer[p] = "asleep" /\ producer'[p] = "awake"
      /\ i \in InFlight /\ InFlight' = InFlight \ {i} /\ InFlight \subseteq Items
  BY Zenon, <1>1, BroadcastAndWakes DEF InboxInv, InboxTypes, Busy
<1>3. InReady' = InReady /\ InClaim' = InClaim /\ Held' = Held
  BY Zenon, <1>1 DEF InReady, InClaim, Held
<1>4. InboxTypes'
  BY Zenon, <1>1, <1>2 DEF InboxInv, InboxTypes
<1>5. IsFiniteSet(InFlight') /\ IsFiniteSet(BytesOf(InFlight')) /\ reserved' = Size(InFlight')
  BY Zenon, <1>1, <1>2, SizeRemove DEF InboxInv, Counted
<1>6. used.items + reserved'.items <= MaxItems /\ used.bytes + reserved'.bytes <= MaxBytes
  <2>1. used \in [items : Nat, bytes : Nat] /\ reserved \in [items : Nat, bytes : Nat]
        /\ Bytes[i] \in Nat
    BY Zenon, CountedNumbers DEF InboxInv
  <2>2. used.items + reserved.items <= MaxItems /\ used.bytes + reserved.bytes <= MaxBytes
    BY Zenon DEF InboxInv, Counted
  <2>3. reserved'.items = reserved.items - 1 /\ reserved'.bytes = reserved.bytes - Bytes[i]
    BY Zenon, <1>1 DEF Remove
  <2> QED
    BY <2>1, <2>2, <2>3
<1>7. Counted'
  <2>1. Distinct(ready') /\ used' = used
    BY Zenon, <1>1 DEF InboxInv, Counted
  <2> QED
    BY Zenon, <1>3, <1>5, <1>6, <2>1 DEF InboxInv, Counted
<1>8. Untouched'
  BY Zenon, <1>1, <1>2, <1>3 DEF InboxInv, Untouched, Waiting, Busy
<1>9. LogsAgree'
  BY <1>1, <1>2, <1>3 DEF InboxInv, LogsAgree
<1>10. mode = "up"
  BY Zenon, <1>1 DEF InboxInv, Modes, Busy
<1>11. Modes'
  BY <1>1, <1>10 DEF InboxInv, Modes
<1>12. NoLostWakeUp'
  BY Zenon, <1>2, NobodyAsleep
<1> QED
  BY Zenon, <1>4, <1>7, <1>8, <1>9, <1>11, <1>12 DEF InboxInv

-----------------------------------------------------------------------------
(* The consumer. *)
LEMMA TakeKeepsInv ==
    ASSUME InboxInv, NEW k \in Kinds, NEW r \in Runs, Take(k, r) PROVE InboxInv'
<1> DEFINE e == ReadyTakeKind(ready, k).entry
<1>1. /\ mode = "up" /\ claim = NoClaim /\ OfKind(ready, k) # {}
      /\ ready' = ReadyTakeKind(ready, k).rest
      /\ claim' = [id |-> e.id, sequence |-> e.sequence, seq |-> e.seq, run |-> r, bound |-> FALSE]
      /\ consumer' = "claiming"
      /\ UNCHANGED <<payload, log, events, mode, pending, used, reserved, nextSequence, closed,
                     producer, ticket>>
  BY Zenon DEF Take, store, producers
<1>2. /\ e \in Entries /\ ready' \in Seq(Entries) /\ Distinct(ready')
      /\ e.id \in InReady /\ Ids(ready') = InReady \ {e.id}
  <2>1. ready \in Seq(Entries) /\ Distinct(ready)
    BY Zenon DEF InboxInv, InboxTypes, Counted
  <2> QED
    BY Zenon, <1>1, <2>1, TakeKeeps, InReadyIsIds
<1> HIDE DEF e
<1>3. claim' \in ClaimRecords /\ claim'.id = e.id
  <2>1. FALSE \in BOOLEAN
    BY Zenon
  <2> QED
    BY Zenon, <1>1, <1>2, <2>1 DEF ClaimRecords, Entries
<1>4. claim' # NoClaim
  BY Zenon, <1>3, RecordIsNoClaim
<1>5. InReady' = InReady \ {e.id} /\ InClaim' = {e.id} /\ InClaim = {}
  <2>1. InReady' = Ids(ready')
    BY Zenon DEF InReady, Ids
  <2>2. InClaim' = {claim'.id}
    BY Zenon, <1>4 DEF InClaim
  <2>3. InClaim = {}
    BY Zenon, <1>1 DEF InClaim
  <2> QED
    BY Zenon, <1>2, <1>3, <2>1, <2>2, <2>3
<1>6. Held' = Held /\ e.id \in Items
  <2>1. Held' = InReady' \union InClaim'
    BY Zenon DEF Held
  <2> QED
    BY Zenon, <1>2, <1>5, <2>1 DEF Held, Entries
<1>7. InFlight' = InFlight
  BY Zenon, <1>1 DEF InFlight
<1>8. InboxTypes'
  BY Zenon, <1>1, <1>2, <1>3 DEF InboxInv, InboxTypes
<1>9. Counted'
  <2>1. InReady' \intersect InClaim' = {}
    BY Zenon, <1>5
  <2> QED
    BY Zenon, <1>1, <1>2, <1>6, <1>7, <2>1, CountedSame DEF InboxInv
<1>10. Untouched'
  BY <1>1, <1>6 DEF InboxInv, Untouched
<1>11. LogsAgree'
  <2>1. ~DoneIn(log[e.id])
    BY Zenon, <1>2, <1>6 DEF InboxInv, LogsAgree
  <2> QED
    BY Zenon, <1>1, <1>3, <1>5, <2>1 DEF InboxInv, LogsAgree
<1>12. Modes'
  BY Zenon, <1>1, <1>4 DEF InboxInv, Modes
<1>13. NoLostWakeUp'
  BY Zenon, <1>1, WakeUpsSame DEF InboxInv
<1> QED
  BY Zenon, <1>8, <1>9, <1>10, <1>11, <1>12, <1>13 DEF InboxInv

(* The claimed message goes back to the queue, with or without a record    *)
(* more: a failed claim, or a requeue.                                     *)
LEMMA ReturnKeeps ==
    ASSUME InboxInv, claim # NoClaim, claim' = NoClaim, consumer' = "idle",
           NEW n \in Nat \ {0}, ready' = ReadyInsert(ready, Entry(claim, n)),
           NEW t \in Records, t.status # "applied", ~DoneIn(log[claim.id]),
           Append1(claim.id, t) \/ log' = log,
           Broadcast,
           UNCHANGED <<payload, events, mode, pending, used, reserved, nextSequence, closed, ticket>>
    PROVE  InboxInv'
<1>1. claim.id \in Items /\ claim.id \in Held /\ InReady \subseteq Held
  BY Zenon, ClaimIsRecord DEF InboxInv, ClaimRecords, Held
<1>2. /\ ready' \in Seq(Entries) /\ Distinct(ready')
      /\ InReady' = Held /\ InClaim' = {} /\ Held' = Held
  BY ReturnToReady DEF InboxInv
<1>3. /\ producer' \in [Items -> ProducerSteps]
      /\ \A p \in Items : /\ producer'[p] # "asleep"
                          /\ producer'[p] = producer[p] \/ (producer[p] = "asleep" /\ producer'[p] = "awake")
      /\ InFlight' = InFlight
  BY Zenon, BroadcastWakes DEF InboxInv, InboxTypes
<1>4. /\ log' \in [Items -> Seq(Records)]
      /\ \A p \in Items : p # claim.id => log'[p] = log[p]
      /\ ~DoneIn(log'[claim.id])
  BY Zenon, <1>1, AppendLogs DEF InboxInv, InboxTypes
<1>5. InboxTypes'
  BY Zenon, <1>2, <1>3, <1>4 DEF InboxInv, InboxTypes
<1>6. Counted'
  BY Zenon, <1>2, <1>3, CountedSame DEF InboxInv
<1>7. Untouched'
  <2> SUFFICES ASSUME NEW p \in Items
               PROVE  /\ producer'[p] \in {"new"} \union Waiting \union Busy => p \notin Held
                      /\ producer'[p] \in {"new", "reserved"} \union Waiting => payload[p] = 0
                      /\ producer'[p] \in {"new", "reserved", "payload"} \union Waiting => log'[p] = <<>>
    BY Zenon, <1>2 DEF Untouched
  <2>1. CASE p = claim.id
    BY Zenon, <1>1, <1>3, <2>1 DEF InboxInv, Untouched, Waiting, Busy
  <2>2. CASE p # claim.id
    <3>1. log'[p] = log[p]
      BY Zenon, <1>4, <2>2
    <3> QED
      BY Zenon, <1>3, <3>1 DEF InboxInv, Untouched, Waiting, Busy
  <2> QED
    BY Zenon, <2>1, <2>2
<1>8. LogsAgree'
  <2> SUFFICES ASSUME NEW p \in Items, producer'[p] = "publish" \/ p \in Held
               PROVE  ~DoneIn(log'[p])
    BY Zenon, <1>2 DEF LogsAgree
  <2>1. CASE p = claim.id
    BY Zenon, <1>4, <2>1
  <2>2. CASE p # claim.id
    <3>1. log'[p] = log[p] /\ (producer[p] = "publish" \/ p \in InReady)
      BY Zenon, <1>3, <1>4, <2>2, ClaimIsRecord DEF InboxInv, Held
    <3> QED
      BY Zenon, <3>1 DEF InboxInv, LogsAgree
  <2> QED
    BY Zenon, <2>1, <2>2
<1>9. mode = "up"
  BY Zenon DEF InboxInv, Modes
<1>10. Modes'
  BY Zenon, <1>9 DEF Modes
<1>11. NoLostWakeUp'
  BY Zenon, <1>3, NobodyAsleep
<1> QED
  BY <1>5, <1>6, <1>7, <1>8, <1>10, <1>11 DEF InboxInv

(* A record more about the claimed message, which stays claimed. *)
LEMMA ClaimStaysKeeps ==
    ASSUME InboxInv, claim # NoClaim, claim' \in ClaimRecords,
           claim'.id = claim.id, claim'.run = claim.run, consumer' = "idle",
           NEW t \in Records, t.status = "applied" => claim.id \in events[claim.run],
           Append1(claim.id, t) \/ log' = log,
           \A x \in Runs : events[x] \subseteq events'[x], events' \in [Runs -> SUBSET Items],
           UNCHANGED <<payload, mode, pending, ready, used, reserved, nextSequence, closed,
                       producer, ticket>>
    PROVE  InboxInv'
<1>1. claim.id \in Items /\ claim.id \in Held /\ claim.run \in Runs /\ InClaim = {claim.id}
  BY Zenon, ClaimIsRecord DEF InboxInv, ClaimRecords, Held
<1>2. claim' # NoClaim
  BY Zenon, RecordIsNoClaim
<1>3. InReady' = InReady /\ InClaim' = InClaim /\ Held' = Held /\ InFlight' = InFlight
  BY Zenon, <1>1, <1>2 DEF InReady, InClaim, Held, InFlight
<1>4. /\ log' \in [Items -> Seq(Records)]
      /\ \A p \in Items : p # claim.id => log'[p] = log[p]
      /\ DoneIn(log'[claim.id]) => t.status = "applied" \/ DoneIn(log[claim.id])
  BY Zenon, <1>1, AppendLogs DEF InboxInv, InboxTypes
<1>5. InboxTypes'
  BY Zenon, <1>4 DEF InboxInv, InboxTypes
<1>6. Counted'
  BY Zenon, <1>3, CountedSame DEF InboxInv, Counted
<1>7. Untouched'
  <2> SUFFICES ASSUME NEW p \in Items
               PROVE  /\ producer[p] \in {"new"} \union Waiting \union Busy => p \notin Held
                      /\ producer[p] \in {"new", "reserved"} \union Waiting => payload[p] = 0
                      /\ producer[p] \in {"new", "reserved", "payload"} \union Waiting => log'[p] = <<>>
    BY Zenon, <1>3 DEF Untouched
  <2>1. CASE p = claim.id
    BY Zenon, <1>1, <2>1 DEF InboxInv, Untouched, Busy
  <2>2. CASE p # claim.id
    BY Zenon, <1>4, <2>2 DEF InboxInv, Untouched
  <2> QED
    BY Zenon, <2>1, <2>2
<1>8. LogsAgree'
  <2>1. ASSUME NEW p \in Items, producer[p] = "publish" \/ p \in InReady PROVE ~DoneIn(log'[p])
    <3>1. p # claim.id
      BY Zenon, <1>1, <2>1 DEF InboxInv, Untouched, Counted, Busy
    <3> QED
      BY Zenon, <1>4, <2>1, <3>1 DEF InboxInv, LogsAgree
  <2>2. DoneIn(log'[claim.id]) => claim.id \in events'[claim.run]
    <3>1. DoneIn(log'[claim.id]) => claim.id \in events[claim.run]
      BY Zenon, <1>4 DEF InboxInv, LogsAgree
    <3> QED
      BY Zenon, <1>1, <3>1
  <2> QED
    BY Zenon, <1>3, <2>1, <2>2 DEF LogsAgree
<1>9. mode = "up"
  BY DEF InboxInv, Modes
<1>10. Modes'
  BY <1>9 DEF Modes
<1>11. NoLostWakeUp'
  BY Zenon, WakeUpsSame DEF InboxInv
<1> QED
  BY Zenon, <1>5, <1>6, <1>7, <1>8, <1>10, <1>11 DEF InboxInv

(* latest_transition of a visible message is one of its records. *)
LEMMA LatestIsRecord ==
    ASSUME InboxTypes, NEW i \in Items, Visible(i)
    PROVE  Latest(i) = LatestIn(log[i]) /\ Latest(i) \in Records
<1>1. Latest(i) = LatestIn(log[i])
  BY Zenon DEF Latest, LatestIn
<1>2. log[i] \in Seq(Records) /\ log[i] # <<>>
  BY Zenon DEF InboxTypes, Visible
<1>3. PICK j \in 1..Len(log[i]) : LatestIn(log[i]) = log[i][j]
  BY Zenon, <1>2, LatestIsFirst
<1> QED
  BY <1>1, <1>2, <1>3, ElementOfSeq

LEMMA PutClaimedKeeps ==
    ASSUME InboxInv, PutClaimed PROVE InboxInv'
<1> DEFINE t == Transition(claim.seq + 1, "claimed", claim.run)
<1>1. consumer = "claiming" /\ consumer' = "idle" /\ claim # NoClaim
  BY Zenon DEF PutClaimed, InboxInv, Modes
<1>2. claim \in ClaimRecords /\ claim.seq \in Nat \ {0} /\ claim.run \in Runs
  BY Zenon, <1>1, ClaimIsRecord DEF InboxInv, ClaimRecords
<1>3. t \in Records /\ t.status = "claimed"
  BY <1>2, TransitionIsRecord
<1>4. ~DoneIn(log[claim.id])
  BY Zenon, <1>1 DEF InboxInv, LogsAgree
<1>5. /\ UNCHANGED <<payload, events, mode, pending, used, reserved, nextSequence, closed, ticket>>
      /\ \/ /\ Append1(claim.id, t) /\ claim' = [claim EXCEPT !.seq = @ + 1]
            /\ ready' = ready /\ producer' = producer
         \/ /\ Append1(claim.id, t) \/ log' = log
            /\ claim' = NoClaim /\ ready' = ReadyInsert(ready, Entry(claim, claim.seq)) /\ Broadcast
  BY Zenon DEF PutClaimed, Put
<1> HIDE DEF t
<1>6. CASE /\ Append1(claim.id, t) /\ claim' = [claim EXCEPT !.seq = @ + 1]
           /\ ready' = ready /\ producer' = producer
  <2>1. claim' \in ClaimRecords /\ claim'.id = claim.id /\ claim'.run = claim.run
    BY <1>2, <1>6 DEF ClaimRecords
  <2>2. events' \in [Runs -> SUBSET Items] /\ \A x \in Runs : events[x] \subseteq events'[x]
    BY Zenon, <1>5 DEF InboxInv, InboxTypes
  <2>3. t.status = "applied" => claim.id \in events[claim.run]
    BY Zenon, <1>3
  <2>4. UNCHANGED <<payload, mode, pending, ready, used, reserved, nextSequence, closed, producer,
                    ticket>>
    BY Zenon, <1>5, <1>6
  <2> QED
    BY Zenon, <1>1, <1>3, <1>6, <2>1, <2>2, <2>3, <2>4, ClaimStaysKeeps
<1>7. CASE /\ Append1(claim.id, t) \/ log' = log
           /\ claim' = NoClaim /\ ready' = ReadyInsert(ready, Entry(claim, claim.seq)) /\ Broadcast
  BY Zenon, <1>1, <1>2, <1>3, <1>4, <1>5, <1>7, ReturnKeeps
<1> QED
  BY Zenon, <1>5, <1>6, <1>7

LEMMA BindKeeps ==
    ASSUME InboxInv, Bind \/ PersistEvent PROVE InboxInv'
<1> DEFINE t == Transition(1, "queued", None)
<1>1. /\ claim # NoClaim /\ consumer' = "idle"
      /\ claim' = claim \/ claim' = [claim EXCEPT !.bound = TRUE]
      /\ events' = events \/ events' = [events EXCEPT ![claim.run] = @ \union {claim.id}]
      /\ log' = log
      /\ UNCHANGED <<payload, mode, pending, ready, used, reserved, nextSequence, closed, producer,
                     ticket>>
  BY Zenon DEF Bind, PersistEvent, Claimed, store, object, claims, producers
<1>2. t \in Records /\ t.status = "queued"
  BY TransitionIsRecord
<1> HIDE DEF t
<1>3. claim \in ClaimRecords /\ claim.id \in Items /\ claim.run \in Runs
  BY Zenon, <1>1, ClaimIsRecord DEF InboxInv, ClaimRecords
<1>4. claim' \in ClaimRecords /\ claim'.id = claim.id /\ claim'.run = claim.run
  <2>1. CASE claim' = claim
    BY Zenon, <1>3, <2>1
  <2>2. CASE claim' = [claim EXCEPT !.bound = TRUE]
    BY Zenon, <1>3, <2>2 DEF ClaimRecords
  <2> QED
    BY Zenon, <1>1, <2>1, <2>2
<1>5. events' \in [Runs -> SUBSET Items] /\ \A x \in Runs : events[x] \subseteq events'[x]
  <2>0. events \in [Runs -> SUBSET Items]
    BY Zenon DEF InboxInv, InboxTypes
  <2>1. CASE events' = events
    BY Zenon, <2>0, <2>1
  <2>2. CASE events' = [events EXCEPT ![claim.run] = @ \union {claim.id}]
    BY Zenon, <1>3, <2>0, <2>2
  <2> QED
    BY Zenon, <1>1, <2>1, <2>2
<1> QED
  BY Zenon, <1>1, <1>2, <1>4, <1>5, ClaimStaysKeeps

LEMMA MarkAppliedKeeps ==
    ASSUME InboxInv, claim # NoClaim, claim.id \in events[claim.run], MarkApplied PROVE InboxInv'
<1> DEFINE t == Transition(claim.seq + 1, "applied", None)
<1>1. /\ consumer = "idle" /\ consumer' = "idle"
      /\ Append1(claim.id, t) \/ log' = log
      /\ \/ claim' = NoClaim /\ used' = Remove(used, claim.id) /\ Broadcast
         \/ claim' = claim /\ used' = used /\ producer' = producer
      /\ UNCHANGED <<payload, events, mode, pending, ready, reserved, nextSequence, closed, ticket>>
  BY Zenon DEF MarkApplied, Put, Claimed
<1>2. claim \in ClaimRecords /\ claim.seq \in Nat \ {0} /\ claim.id \in Items /\ InClaim = {claim.id}
  BY Zenon, ClaimIsRecord DEF InboxInv, ClaimRecords
<1>3. t \in Records
  BY <1>2, TransitionIsRecord
<1> HIDE DEF t
<1>4. CASE claim' = claim /\ used' = used /\ producer' = producer
  <2>1. events' \in [Runs -> SUBSET Items] /\ \A x \in Runs : events[x] \subseteq events'[x]
    BY Zenon, <1>1 DEF InboxInv, InboxTypes
  <2> QED
    BY Zenon, <1>1, <1>2, <1>3, <1>4, <2>1, ClaimStaysKeeps
<1>5. CASE claim' = NoClaim /\ used' = Remove(used, claim.id) /\ Broadcast
  <2>1. InReady' = InReady /\ InClaim' = {}
    BY Zenon, <1>1, <1>5 DEF InReady, InClaim
  <2>2. InReady = Held \ {claim.id} /\ claim.id \in Held /\ Held' = Held \ {claim.id}
    <3>1. Held' = InReady' \union InClaim'
      BY Zenon DEF Held
    <3> QED
      BY Zenon, <1>2, <2>1, <3>1 DEF InboxInv, Counted, Held
  <2>3. /\ producer' \in [Items -> ProducerSteps]
        /\ \A p \in Items : /\ producer'[p] # "asleep"
                            /\ producer'[p] = producer[p] \/ (producer[p] = "asleep" /\ producer'[p] = "awake")
        /\ InFlight' = InFlight
    BY Zenon, <1>5, BroadcastWakes DEF InboxInv, InboxTypes
  <2>4. /\ log' \in [Items -> Seq(Records)]
        /\ \A p \in Items : p # claim.id => log'[p] = log[p]
    BY Zenon, <1>1, <1>2, <1>3, AppendLogs DEF InboxInv, InboxTypes
  <2>5. InboxTypes'
    BY Zenon, <1>1, <1>5, <2>3, <2>4 DEF InboxInv, InboxTypes
  <2>6. Held' \subseteq Items /\ IsFiniteSet(Held') /\ IsFiniteSet(BytesOf(Held')) /\ used' = Size(Held')
    BY Zenon, <1>5, <2>2, SizeRemove DEF InboxInv, Counted
  <2>7. used'.items + reserved.items <= MaxItems /\ used'.bytes + reserved.bytes <= MaxBytes
    <3>1. used \in [items : Nat, bytes : Nat] /\ reserved \in [items : Nat, bytes : Nat]
          /\ Bytes[claim.id] \in Nat
      BY Zenon, <1>2, CountedNumbers DEF InboxInv
    <3>2. used.items + reserved.items <= MaxItems /\ used.bytes + reserved.bytes <= MaxBytes
      BY Zenon DEF InboxInv, Counted
    <3>3. used'.items = used.items - 1 /\ used'.bytes = used.bytes - Bytes[claim.id]
      BY Zenon, <1>5 DEF Remove
    <3> QED
      BY <3>1, <3>2, <3>3
  <2>8. Counted'
    <3>1. Distinct(ready') /\ reserved' = reserved
      BY Zenon, <1>1 DEF InboxInv, Counted
    <3> QED
      BY Zenon, <2>1, <2>3, <2>6, <2>7, <3>1 DEF InboxInv, Counted
  <2>9. Untouched'
    <3> SUFFICES ASSUME NEW p \in Items
                 PROVE  /\ producer'[p] \in {"new"} \union Waiting \union Busy => p \notin Held'
                        /\ producer'[p] \in {"new", "reserved"} \union Waiting => payload[p] = 0
                        /\ producer'[p] \in {"new", "reserved", "payload"} \union Waiting => log'[p] = <<>>
      BY Zenon, <1>1 DEF Untouched
    <3>1. CASE p = claim.id
      BY Zenon, <2>2, <2>3, <3>1 DEF InboxInv, Untouched, Waiting, Busy
    <3>2. CASE p # claim.id
      <4>1. log'[p] = log[p]
        BY Zenon, <2>4, <3>2
      <4> QED
        BY Zenon, <2>2, <2>3, <4>1 DEF InboxInv, Untouched, Waiting, Busy
    <3> QED
      BY Zenon, <3>1, <3>2
  <2>10. LogsAgree'
    <3>1. ASSUME NEW p \in Items, producer'[p] = "publish" \/ p \in InReady PROVE ~DoneIn(log'[p])
      <4>1. producer[p] = "publish" \/ p \in InReady
        BY Zenon, <2>3, <3>1
      <4>2. p # claim.id
        BY <2>2, <4>1 DEF InboxInv, Untouched, Busy
      <4> QED
        BY Zenon, <2>4, <4>1, <4>2 DEF InboxInv, LogsAgree
    <3> QED
      BY <1>5, <2>1, <3>1 DEF LogsAgree
  <2>11. mode = "up"
    BY Zenon DEF InboxInv, Modes
  <2>12. Modes'
    BY <1>1, <2>11 DEF Modes
  <2>13. NoLostWakeUp'
    BY <2>3, NobodyAsleep
  <2> QED
    BY <2>5, <2>8, <2>9, <2>10, <2>12, <2>13 DEF InboxInv
<1> QED
  BY Zenon, <1>1, <1>4, <1>5

LEMMA RequeueKeeps ==
    ASSUME InboxInv, claim # NoClaim, claim.id \notin events[claim.run], Requeue PROVE InboxInv'
<1> DEFINE t == Transition(claim.seq + 1, "queued", None)
<1>1. /\ consumer = "idle" /\ consumer' = "idle"
      /\ Append1(claim.id, t) \/ log' = log
      /\ \/ /\ claim' = NoClaim /\ ready' = ReadyInsert(ready, Entry(claim, claim.seq + 1))
            /\ Broadcast
         \/ claim' = claim /\ ready' = ready /\ producer' = producer
      /\ UNCHANGED <<payload, events, mode, pending, used, reserved, nextSequence, closed, ticket>>
  BY Zenon DEF Requeue, Put, Claimed
<1>2. claim \in ClaimRecords /\ claim.seq \in Nat \ {0} /\ claim.seq + 1 \in Nat \ {0}
  BY ClaimIsRecord DEF InboxInv, ClaimRecords
<1>3. t \in Records /\ t.status = "queued"
  BY Zenon, <1>2, TransitionIsRecord
<1> HIDE DEF t
<1>4. ~DoneIn(log[claim.id])
  BY Zenon DEF InboxInv, LogsAgree
<1>5. CASE claim' = claim /\ ready' = ready /\ producer' = producer
  <2>1. events' \in [Runs -> SUBSET Items] /\ \A x \in Runs : events[x] \subseteq events'[x]
    BY Zenon, <1>1 DEF InboxInv, InboxTypes
  <2> QED
    BY Zenon, <1>1, <1>2, <1>3, <1>5, <2>1, ClaimStaysKeeps
<1>6. CASE /\ claim' = NoClaim /\ ready' = ReadyInsert(ready, Entry(claim, claim.seq + 1))
           /\ Broadcast
  BY Zenon, <1>1, <1>2, <1>3, <1>4, <1>6, ReturnKeeps
<1> QED
  BY Zenon, <1>1, <1>5, <1>6

LEMMA CloseKeeps ==
    ASSUME InboxInv, Close PROVE InboxInv'
<1>1. /\ mode = "up" /\ Broadcast
      /\ UNCHANGED <<payload, log, events, mode, pending, ready, used, reserved, nextSequence, claim,
                     consumer, ticket>>
  BY Zenon DEF Close, store, claims
<1>2. /\ producer' \in [Items -> ProducerSteps]
      /\ \A p \in Items : /\ producer'[p] # "asleep"
                          /\ producer'[p] = producer[p] \/ (producer[p] = "asleep" /\ producer'[p] = "awake")
      /\ InFlight' = InFlight
  BY Zenon, <1>1, BroadcastWakes DEF InboxInv, InboxTypes
<1>3. InReady' = InReady /\ InClaim' = InClaim /\ Held' = Held
  BY Zenon, <1>1 DEF InReady, InClaim, Held
<1>4. InboxTypes'
  BY Zenon, <1>1, <1>2 DEF InboxInv, InboxTypes
<1>5. Counted'
  <2>1. used' = used /\ reserved' = reserved /\ ready' = ready
    BY Zenon, <1>1
  <2> QED
    BY Zenon, <1>2, <1>3, <2>1 DEF InboxInv, Counted
<1>6. Untouched'
  BY Zenon, <1>1, <1>2, <1>3 DEF InboxInv, Untouched, Waiting, Busy
<1>7. LogsAgree'
  BY Zenon, <1>1, <1>2, <1>3 DEF InboxInv, LogsAgree
<1>8. Modes'
  BY Zenon, <1>1 DEF InboxInv, Modes
<1>9. NoLostWakeUp'
  BY Zenon, <1>2, NobodyAsleep
<1> QED
  BY Zenon, <1>4, <1>5, <1>6, <1>7, <1>8, <1>9 DEF InboxInv

-----------------------------------------------------------------------------
(* Crash and recovery. *)
LEMMA DownKeeps ==
    ASSUME InboxInv, Down, UNCHANGED <<payload, events, ticket>>,
           log' \in [Items -> Seq(Records)], producer' \in [Items -> ProducerSteps],
           \A p \in Items : producer'[p] \notin Waiting \union Busy,
           \A p \in Items : producer'[p] = "new" => producer[p] = "new" /\ log'[p] = log[p]
    PROVE  InboxInv'
<1>1. /\ mode' = "down" /\ ready' = <<>> /\ used' = Size({}) /\ reserved' = Size({})
      /\ nextSequence' = 1 /\ claim' = NoClaim /\ consumer' = "idle"
  BY Zenon DEF Down
<1>2. InReady' = {} /\ InClaim' = {}
  BY Zenon, <1>1, NothingHeld DEF InReady, InClaim
<1>3. Held' = {}
  BY Zenon, <1>2 DEF Held
<1>4. InFlight' = {}
  BY Zenon DEF InFlight
<1>5. InboxTypes'
  BY Zenon, <1>1, NothingHeld DEF InboxInv, InboxTypes
<1>6. Counted'
  <2>1. Distinct(ready')
    BY Zenon, <1>1, NothingHeld DEF Distinct
  <2>2. /\ (Size({})).items + (Size({})).items <= MaxItems
        /\ (Size({})).bytes + (Size({})).bytes <= MaxBytes
    BY Zenon, NothingHeld
  <2>3. used' = Size({}) /\ reserved' = Size({})
    BY Zenon, <1>1, SizeEmpty
  <2>4. /\ used'.items + reserved'.items <= MaxItems
        /\ used'.bytes + reserved'.bytes <= MaxBytes
    BY Zenon, <2>2, <2>3
  <2>5. InReady' \intersect InClaim' = {} /\ {} \subseteq Items
    BY Zenon, <1>2
  <2> QED
    BY Zenon, <1>3, <1>4, <2>1, <2>3, <2>4, <2>5, SizeEmpty DEF Counted
<1>7. Untouched'
  <2> SUFFICES ASSUME NEW p \in Items
               PROVE  /\ producer'[p] \in {"new", "reserved"} \union Waiting => payload[p] = 0
                      /\ producer'[p] \in {"new", "reserved", "payload"} \union Waiting => log'[p] = <<>>
    BY Zenon, <1>3 DEF Untouched
  <2>1. producer'[p] \in {"new", "reserved", "payload"} \union Waiting => producer'[p] = "new"
    BY Zenon DEF Busy
  <2> QED
    BY Zenon, <2>1 DEF InboxInv, Untouched
<1>8. LogsAgree'
  <2>1. \A p \in Items : producer'[p] # "publish"
    BY Zenon DEF Busy
  <2> QED
    BY Zenon, <1>1, <1>2, <2>1 DEF LogsAgree
<1>9. Modes'
  BY Zenon, <1>1 DEF Modes
<1>10. NoLostWakeUp'
  BY Zenon DEF NoLostWakeUp, Waiting
<1> QED
  BY Zenon, <1>5, <1>6, <1>7, <1>8, <1>9, <1>10 DEF InboxInv

LEMMA CrashKeeps ==
    ASSUME InboxInv, Crash PROVE InboxInv'
<1>1. /\ Down /\ UNCHANGED <<payload, log, events, ticket>>
      /\ producer' = [i \in Items |->
            IF producer[i] \in Waiting \union Busy THEN "lost" ELSE producer[i]]
  BY Zenon DEF Crash, store
<1>2. producer' \in [Items -> ProducerSteps]
  BY Zenon, <1>1 DEF InboxInv, InboxTypes, ProducerSteps
<1>3. /\ \A p \in Items : producer'[p] \notin Waiting \union Busy
      /\ \A p \in Items : producer'[p] = "new" => producer[p] = "new" /\ log'[p] = log[p]
  BY Zenon, <1>1 DEF Waiting, Busy
<1>4. log' \in [Items -> Seq(Records)]
  BY Zenon, <1>1 DEF InboxInv, InboxTypes
<1> QED
  BY Zenon, <1>1, <1>2, <1>3, <1>4, DownKeeps

LEMMA CreateKeeps ==
    ASSUME InboxInv, Create \/ Recovered PROVE InboxInv'
<1>1. UNCHANGED <<payload, log, events, ready, used, reserved, nextSequence, closed, claim, consumer,
                  producer, ticket>>
  BY Zenon DEF Create, Recovered, store, claims, producers
<1>2. InReady' = InReady /\ InClaim' = InClaim /\ Held' = Held /\ InFlight' = InFlight
  BY Zenon, <1>1 DEF InReady, InClaim, Held, InFlight
<1>3. InboxTypes'
  BY Zenon, <1>1 DEF InboxInv, InboxTypes, Create, Recovered
<1>4. Counted' /\ Untouched' /\ LogsAgree'
  <2>1. Counted'
    BY Zenon, <1>1, <1>2 DEF InboxInv, Counted
  <2>2. Untouched'
    BY Zenon, <1>1, <1>2 DEF InboxInv, Untouched
  <2>3. LogsAgree'
    BY Zenon, <1>1, <1>2 DEF InboxInv, LogsAgree
  <2> QED
    BY Zenon, <2>1, <2>2, <2>3
<1>5. Modes'
  <2>1. CASE Create
    <3>1. mode = "down" /\ mode' = "recovering" /\ pending' = {i \in Items : payload[i] # 0}
      BY Zenon, <2>1 DEF Create
    <3>2. InReady' = {}
      <4>1. ready = <<>>
        BY Zenon, <3>1 DEF InboxInv, Modes
      <4>2. Len(ready) = 0
        BY Zenon, <4>1
      <4>3. 1..Len(ready) = {}
        BY <4>2
      <4>4. InReady = {}
        BY <4>3, Zenon DEF InReady
      <4> QED
        BY Zenon, <1>2, <4>4
    <3> QED
      BY Zenon, <1>1, <3>1, <3>2 DEF InboxInv, Modes
  <2>2. CASE Recovered
    BY Zenon, <1>1, <2>2 DEF InboxInv, Modes, Recovered
  <2> QED
    BY Zenon, <2>1, <2>2
<1>6. NoLostWakeUp'
  BY Zenon, <1>1, WakeUpsSame DEF InboxInv
<1> QED
  BY Zenon, <1>3, <1>4, <1>5, <1>6 DEF InboxInv

(* recover passes over i, whatever record it adds. *)
LEMMA SkipKeeps ==
    ASSUME InboxInv, mode = "recovering", NEW i \in Items, i \in pending, Skip(i),
           log' \in [Items -> Seq(Records)], \A p \in Items : p # i => log'[p] = log[p],
           UNCHANGED <<payload, events, producer, ticket>>
    PROVE  InboxInv'
<1>1. /\ pending' = pending \ {i}
      /\ nextSequence' \in {nextSequence, Max({nextSequence, payload[i] + 1})}
      /\ UNCHANGED <<mode, ready, used, reserved, closed, claim, consumer>>
  BY Zenon DEF Skip, claims
<1>2. Max({nextSequence, payload[i] + 1}) \in Nat
  <2>1. nextSequence \in Nat /\ payload[i] + 1 \in Nat
    BY DEF InboxInv, InboxTypes
  <2> QED
    BY <2>1, GreaterOfTwo, Zenon
<1>3. InReady' = InReady /\ InClaim' = InClaim /\ Held' = Held /\ InFlight' = InFlight
  BY Zenon, <1>1 DEF InReady, InClaim, Held, InFlight
<1>4. /\ payload[i] # 0 /\ i \notin InReady /\ claim = NoClaim
      /\ \A p \in Items : producer[p] \notin Waiting \union Busy
  BY Zenon DEF InboxInv, Modes
<1>5. producer[i] \notin {"new", "reserved", "payload", "publish"} \union Waiting
  BY Zenon, <1>4 DEF InboxInv, Untouched, Busy
<1>6. InboxTypes'
  BY Zenon, <1>1, <1>2 DEF InboxInv, InboxTypes
<1>7. Counted'
  BY Zenon, <1>1, <1>3, CountedSame DEF InboxInv, Counted
<1>8. Untouched'
  <2> SUFFICES ASSUME NEW p \in Items
               PROVE  /\ producer[p] \in {"new"} \union Waiting \union Busy => p \notin Held
                      /\ producer[p] \in {"new", "reserved"} \union Waiting => payload[p] = 0
                      /\ producer[p] \in {"new", "reserved", "payload"} \union Waiting => log'[p] = <<>>
    BY Zenon, <1>3 DEF Untouched
  <2>1. CASE p = i
    BY Zenon, <1>4, <1>5, <2>1
  <2>2. CASE p # i
    BY Zenon, <2>2 DEF InboxInv, Untouched
  <2> QED
    BY Zenon, <2>1, <2>2
<1>9. LogsAgree'
  <2>1. ASSUME NEW p \in Items, producer[p] = "publish" \/ p \in InReady PROVE ~DoneIn(log'[p])
    <3>1. p # i
      BY Zenon, <1>4, <1>5, <2>1
    <3> QED
      BY Zenon, <2>1, <3>1 DEF InboxInv, LogsAgree
  <2> QED
    BY Zenon, <1>1, <1>3, <1>4, <2>1 DEF LogsAgree
<1>10. Modes'
  BY Zenon, <1>1, <1>3 DEF InboxInv, Modes
<1>11. NoLostWakeUp'
  BY Zenon, <1>1, WakeUpsSame DEF InboxInv
<1> QED
  BY Zenon, <1>6, <1>7, <1>8, <1>9, <1>10, <1>11 DEF InboxInv

(* recover admits i, or fails. *)
LEMMA AdmitKeeps ==
    ASSUME InboxInv, mode = "recovering", NEW i \in Items, i \in pending,
           NEW n \in Nat \ {0}, Admit(i, n),
           log' \in [Items -> Seq(Records)], \A p \in Items : p # i => log'[p] = log[p],
           ~DoneIn(log'[i]),
           UNCHANGED <<payload, events, producer, ticket>>
    PROVE  InboxInv'
<1> DEFINE e == [id |-> i, sequence |-> payload[i], seq |-> n]
<1>1. /\ payload[i] # 0 /\ i \notin InReady /\ claim = NoClaim
      /\ \A p \in Items : producer[p] \notin Waiting \union Busy
  BY Zenon DEF InboxInv, Modes
<1>2. producer[i] \notin {"new", "reserved", "payload", "publish"} \union Waiting
  BY Zenon, <1>1 DEF InboxInv, Untouched, Busy
<1>3. CASE used.items = MaxItems \/ used.bytes + Bytes[i] > MaxBytes
  <2>1. Down
    BY Zenon, <1>3 DEF Admit
  <2>2. producer' \in [Items -> ProducerSteps]
    BY Zenon DEF InboxInv, InboxTypes
  <2>3. \A p \in Items : producer'[p] = "new" => producer[p] = "new" /\ log'[p] = log[p]
    BY Zenon, <1>2
  <2> QED
    BY Zenon, <1>1, <2>1, <2>2, <2>3, DownKeeps
<1>4. CASE ~(used.items = MaxItems \/ used.bytes + Bytes[i] > MaxBytes)
  <2>1. /\ used' = Add(used, i) /\ ready' = ReadyInsert(ready, e)
        /\ pending' = pending \ {i}
        /\ nextSequence' = Max({nextSequence, payload[i] + 1})
        /\ UNCHANGED <<mode, reserved, closed, claim, consumer>>
    BY Zenon, <1>4 DEF Admit, claims
  <2>2. nextSequence' \in Nat
    <3>1. nextSequence \in Nat /\ payload[i] + 1 \in Nat
      BY DEF InboxInv, InboxTypes
    <3> QED
      BY <2>1, <3>1, GreaterOfTwo, Zenon
  <2>3. e \in Entries /\ e.id = i
    BY Zenon DEF InboxInv, InboxTypes, Entries
  <2> HIDE DEF e
  <2>4. ready' \in Seq(Entries) /\ Ids(ready') = InReady \union {i} /\ Distinct(ready')
    <3>1. ready \in Seq(Entries) /\ Distinct(ready) /\ i \notin Ids(ready)
      BY Zenon, <1>1, InReadyIsIds DEF InboxInv, InboxTypes, Counted
    <3> QED
      BY Zenon, <2>1, <2>3, <3>1, InReadyIsIds, InsertKeeps
  <2>5. /\ InReady' = InReady \union {i} /\ InClaim' = {} /\ InClaim = {}
        /\ Held' = Held \union {i} /\ i \notin Held /\ InFlight' = InFlight
    <3>1. InReady' = Ids(ready') /\ InClaim' = {} /\ InClaim = {}
      BY Zenon, <1>1, <2>1 DEF InReady, Ids, InClaim
    <3>2. Held' = InReady' \union InClaim'
      BY Zenon DEF Held
    <3>3. InFlight' = InFlight
      <4>1. producer' = producer
        BY Zenon
      <4> QED
        BY Zenon, <4>1 DEF InFlight
    <3>4. InReady' = InReady \union {i}
      BY Zenon, <2>4, <3>1
    <3>5. Held = InReady
      BY Zenon, <3>1 DEF Held
    <3>6. Held' = Held \union {i}
      BY Zenon, <3>1, <3>2, <3>4, <3>5
    <3> QED
      BY Zenon, <1>1, <3>1, <3>3, <3>4, <3>5, <3>6
  <2>6. InboxTypes'
    BY Zenon, <2>1, <2>2, <2>4 DEF InboxInv, InboxTypes
  <2>7. /\ Held' \subseteq Items /\ IsFiniteSet(Held') /\ IsFiniteSet(BytesOf(Held'))
        /\ used' = Size(Held')
    BY Zenon, <2>1, <2>5, SizeAdd DEF InboxInv, Counted
  <2>8. used'.items + reserved'.items <= MaxItems /\ used'.bytes + reserved'.bytes <= MaxBytes
    <3>1. used \in [items : Nat, bytes : Nat] /\ Bytes[i] \in Nat
      BY Zenon, CountedNumbers DEF InboxInv
    <3>2. used.items + reserved.items <= MaxItems /\ used.bytes + reserved.bytes <= MaxBytes
      BY Zenon DEF InboxInv, Counted
    <3>3. used'.items = used.items + 1 /\ used'.bytes = used.bytes + Bytes[i]
      BY Zenon, <2>1 DEF Add
    <3>4. reserved'.items = 0 /\ reserved'.bytes = 0 /\ reserved.items = 0 /\ reserved.bytes = 0
      <4>1. InFlight = {}
        BY Zenon, <1>1 DEF InFlight
      <4>2. reserved = Size({}) /\ reserved' = reserved
        BY Zenon, <2>1, <4>1 DEF InboxInv, Counted
      <4>3. reserved = [items |-> 0, bytes |-> 0]
        BY Zenon, <4>2, SizeEmpty
      <4> QED
        BY <4>2, <4>3
    <3> QED
      BY <1>4, <3>1, <3>2, <3>3, <3>4
  <2>9. Counted'
    <3>1. InReady' \intersect InClaim' = {}
      BY Zenon, <2>5
    <3>2. IsFiniteSet(InFlight') /\ IsFiniteSet(BytesOf(InFlight')) /\ reserved' = Size(InFlight')
      BY Zenon, <2>1, <2>5 DEF InboxInv, Counted
    <3> QED
      BY Zenon, <2>4, <2>7, <2>8, <3>1, <3>2 DEF Counted
  <2>10. Untouched'
    <3> SUFFICES ASSUME NEW p \in Items
                 PROVE  /\ producer[p] \in {"new"} \union Waiting \union Busy => p \notin Held'
                        /\ producer[p] \in {"new", "reserved"} \union Waiting => payload[p] = 0
                        /\ producer[p] \in {"new", "reserved", "payload"} \union Waiting => log'[p] = <<>>
      BY Zenon DEF Untouched
    <3>1. CASE p = i
      BY Zenon, <1>1, <1>2, <3>1
    <3>2. CASE p # i
      <4>1. /\ producer[p] \in {"new"} \union Waiting \union Busy => p \notin Held
            /\ producer[p] \in {"new", "reserved"} \union Waiting => payload[p] = 0
            /\ producer[p] \in {"new", "reserved", "payload"} \union Waiting => log[p] = <<>>
        BY Zenon DEF InboxInv, Untouched
      <4>2. log'[p] = log[p] /\ (p \in Held' => p \in Held)
        BY Zenon, <2>5, <3>2
      <4> QED
        BY Zenon, <4>1, <4>2
    <3> QED
      BY Zenon, <3>1, <3>2
  <2>11. LogsAgree'
    <3>1. ASSUME NEW p \in Items, producer[p] = "publish" \/ p \in InReady' PROVE ~DoneIn(log'[p])
      <4>1. CASE p = i
        BY Zenon, <4>1
      <4>2. CASE p # i
        <5>1. log'[p] = log[p] /\ (p \in InReady' => p \in InReady)
          BY Zenon, <2>5, <4>2
        <5> QED
          BY Zenon, <3>1, <5>1 DEF InboxInv, LogsAgree
      <4> QED
        BY Zenon, <4>1, <4>2
    <3>2. claim' = NoClaim /\ producer' = producer
      BY Zenon, <1>1, <2>1
    <3> QED
      BY Zenon, <3>1, <3>2 DEF LogsAgree
  <2>12. Modes'
    <3>1. /\ claim' = claim /\ consumer' = consumer /\ producer' = producer /\ payload' = payload
          /\ mode' = "recovering" /\ pending' = pending \ {i} /\ InReady' = InReady \union {i}
      BY Zenon, <2>1, <2>5
    <3>2. consumer = "idle" /\ \A p \in pending : payload[p] # 0 /\ p \notin InReady
      BY Zenon DEF InboxInv, Modes
    <3> QED
      BY Zenon, <1>1, <3>1, <3>2 DEF Modes
  <2>13. NoLostWakeUp'
    <3>1. \A p \in Items : producer'[p] # "asleep"
      BY Zenon, <1>1 DEF Waiting
    <3> QED
      BY Zenon, <3>1 DEF NoLostWakeUp
  <2> QED
    BY Zenon, <2>6, <2>9, <2>10, <2>11, <2>12, <2>13 DEF InboxInv
<1> QED
  BY Zenon, <1>3, <1>4

LEMMA RecoverItemKeeps ==
    ASSUME InboxInv, NEW i \in Items, RecoverItem(i) PROVE InboxInv'
<1>1. /\ mode = "recovering" /\ i \in pending
      /\ UNCHANGED <<payload, events, producer, ticket>>
  BY Zenon DEF RecoverItem, producers
<1>2. InboxTypes /\ log \in [Items -> Seq(Records)] /\ producer' \in [Items -> ProducerSteps]
  BY Zenon, <1>1 DEF InboxInv, InboxTypes
<1>3. \/ ~Visible(i) /\ Skip(i) /\ log' = log
      \/ Visible(i) /\ Latest(i).status = "applied" /\ Skip(i) /\ log' = log
      \/ Visible(i) /\ Latest(i).status = "queued" /\ Admit(i, Latest(i).seq) /\ log' = log
      \/ Visible(i) /\ Latest(i).status = "claimed" /\ RecoverClaimed(i)
  BY Zenon DEF RecoverItem
<1>4. CASE log' = log /\ Skip(i)
  BY Zenon, <1>1, <1>2, <1>4, SkipKeeps
<1>5. CASE Visible(i) /\ Latest(i).status = "queued" /\ Admit(i, Latest(i).seq) /\ log' = log
  <2>1. Latest(i).seq \in Nat \ {0} /\ ~DoneIn(log'[i])
    BY Zenon, <1>2, <1>5, LatestIsRecord DEF Records, DoneIn
  <2> QED
    BY Zenon, <1>1, <1>2, <1>5, <2>1, AdmitKeeps
<1>6. CASE Visible(i) /\ Latest(i).status = "claimed" /\ RecoverClaimed(i)
  <2> DEFINE n == Latest(i).seq + 1
             applied == i \in events[Latest(i).run]
             t == Transition(n, IF applied THEN "applied" ELSE "queued", None)
  <2>1. n \in Nat \ {0} /\ ~DoneIn(log[i])
    BY <1>2, <1>6, LatestIsRecord DEF Records, DoneIn
  <2>2. t \in Records /\ t.status = IF applied THEN "applied" ELSE "queued"
    <3>1. (IF applied THEN "applied" ELSE "queued") \in {"queued", "claimed", "applied"}
      BY Zenon
    <3> QED
      BY ZenonT(60), <2>1, <3>1, TransitionIsRecord
  <2>3. \/ Append1(i, t) /\ applied /\ Skip(i)
        \/ Append1(i, t) /\ ~applied /\ Admit(i, n)
        \/ Down /\ (log' = log \/ Append1(i, t))
    BY <1>6, Zenon DEF RecoverClaimed
  <2> HIDE DEF n, applied, t
  <2>4. Append1(i, t) => /\ log' \in [Items -> Seq(Records)]
                         /\ \A p \in Items : p # i => log'[p] = log[p]
                         /\ ~applied => ~DoneIn(log'[i])
    BY Zenon, <1>2, <2>1, <2>2, AppendLogs
  <2>5. CASE Append1(i, t) /\ applied /\ Skip(i)
    BY Zenon, <1>1, <2>4, <2>5, SkipKeeps
  <2>6. CASE Append1(i, t) /\ ~applied /\ Admit(i, n)
    BY Zenon, <1>1, <2>1, <2>4, <2>6, AdmitKeeps
  <2>7. CASE Down /\ (log' = log \/ Append1(i, t))
    <3>1. /\ \A p \in Items : producer[p] \notin Waiting \union Busy
          /\ producer[i] # "new"
      BY Zenon, <1>1 DEF InboxInv, Modes, Untouched
    <3>2. /\ log' \in [Items -> Seq(Records)]
          /\ \A p \in Items : p # i => log'[p] = log[p]
      BY Zenon, <1>2, <2>4, <2>7
    <3> QED
      BY Zenon, <1>1, <1>2, <2>7, <3>1, <3>2, DownKeeps
  <2> QED
    BY Zenon, <2>3, <2>5, <2>6, <2>7
<1> QED
  BY Zenon, <1>3, <1>4, <1>5, <1>6

-----------------------------------------------------------------------------
LEMMA InboxNext == InboxInv /\ [Next]_vars => InboxInv'
<1> SUFFICES ASSUME InboxInv, [Next]_vars PROVE InboxInv'
  BY Zenon
<1>1. CASE UNCHANGED vars
  <2>1. UNCHANGED <<payload, log, events, mode, pending, ready, used, reserved, nextSequence, closed,
                    claim, consumer, producer, ticket>>
    BY Zenon, <1>1 DEF vars, store, object, claims, producers
  <2>2. InReady' = InReady /\ InClaim' = InClaim /\ Held' = Held /\ InFlight' = InFlight
    BY Zenon, <2>1 DEF InReady, InClaim, Held, InFlight
  <2> QED
    BY Zenon, <2>1, <2>2 DEF InboxInv, InboxTypes, Counted, Untouched, LogsAgree, Modes, NoLostWakeUp,
       HasCapacity
<1>2. CASE \E i \in Items : Produce(i)
  BY Zenon, <1>2, ReserveKeeps, WaitKeeps, PutPayloadKeeps, PutQueuedKeeps, PublishKeeps, AbandonKeeps
     DEF Produce
<1>3. CASE Consume
  BY Zenon, <1>3, TakeKeepsInv, PutClaimedKeeps, BindKeeps, MarkAppliedKeeps, RequeueKeeps DEF Consume
<1>4. CASE Close \/ Crash
  BY Zenon, <1>4, CloseKeeps, CrashKeeps
<1>5. CASE Restart
  BY Zenon, <1>5, CreateKeeps, RecoverItemKeeps DEF Restart
<1> QED
  BY Zenon, <1>1, <1>2, <1>3, <1>4, <1>5 DEF Next

(* The invariant contains the accounting of the capacity. *)
LEMMA InboxInvAccounts == InboxInv => Accounting /\ NoLostWakeUp
<1> SUFFICES ASSUME InboxInv PROVE Accounting /\ NoLostWakeUp
  BY Zenon
<1>1. Cardinality(InReady) = Len(ready)
  BY Zenon, IdsCounted, InReadyIsIds DEF InboxInv, InboxTypes, Counted
<1> QED
  BY Zenon, <1>1 DEF InboxInv, Counted, Held, Accounting

(* Whoever writes a record about a message that is applied writes that it  *)
(* is applied.                                                             *)
LEMMA InboxStepsFinal == InboxInv /\ [Next]_vars => [AppliedIsFinalStep]_vars
<1> SUFFICES ASSUME InboxInv, Next, NEW i \in Items, log'[i] # log[i], Visible(i),
                    Latest(i).status = "applied"
             PROVE  Latest(i)'.status = "applied"
  BY DEF AppliedIsFinalStep
<1>1. InboxTypes /\ DoneIn(log[i])
  BY Zenon, LatestIsRecord DEF InboxInv, DoneIn, Visible
<1>2. claim # NoClaim => claim \in ClaimRecords /\ claim.id \in Items /\ claim.seq \in Nat \ {0}
  BY Zenon, ClaimIsRecord DEF InboxInv, ClaimRecords
<1>3. \E n \in Nat \ {0} : Append1(i, Transition(n, "applied", None))
  <2>1. CASE \E p \in Items : Produce(p)
    <3>1. PICK p \in Items : PutQueued(p)
      BY Zenon, <2>1 DEF Produce, Reserve, Sleep, GiveUp, PutPayload, Publish, Abandon, store
    <3>2. p = i /\ producer[p] = "payload"
      BY Zenon, <1>1, <3>1 DEF PutQueued, Put, Append1, InboxTypes
    <3> QED
      BY Zenon, <1>1, <3>2 DEF InboxInv, Untouched, DoneIn
  <2>2. CASE Consume
    <3>1. \/ PutClaimed
          \/ claim # NoClaim /\ claim.id \in events[claim.run] /\ MarkApplied
          \/ claim # NoClaim /\ claim.id \notin events[claim.run] /\ Requeue
      BY Zenon, <2>2 DEF Consume, Take, Bind, PersistEvent, store
    <3>2. claim # NoClaim
      BY Zenon, <3>1 DEF PutClaimed, InboxInv, Modes
    <3>3. claim.id = i
      BY Zenon, <1>1, <3>1 DEF PutClaimed, MarkApplied, Requeue, Put, Append1, InboxTypes
    <3>4. consumer = "idle" /\ claim.id \in events[claim.run]
      BY Zenon, <1>1, <3>2, <3>3 DEF InboxInv, LogsAgree
    <3>5. MarkApplied
      BY Zenon, <3>1, <3>4 DEF PutClaimed
    <3>6. Append1(i, Transition(claim.seq + 1, "applied", None))
      BY Zenon, <1>1, <3>3, <3>5 DEF MarkApplied, Put
    <3>7. claim.seq + 1 \in Nat \ {0}
      <4>1. claim.seq \in Nat
        BY Zenon, <1>2, <3>2
      <4> QED
        BY <4>1
    <3> QED
      BY Zenon, <3>6, <3>7
  <2>3. CASE Restart
    <3>1. PICK p \in Items : RecoverItem(p)
      BY Zenon, <2>3 DEF Restart, Create, Recovered, store
    <3>2. Visible(p) /\ Latest(p).status = "claimed" /\ RecoverClaimed(p)
      BY Zenon, <3>1 DEF RecoverItem
    <3>3. p = i
      BY Zenon, <1>1, <3>2 DEF RecoverClaimed, Append1, InboxTypes
    <3> QED
      BY Zenon, <3>2, <3>3
  <2>4. CASE Close \/ Crash
    <3>1. log' = log
      BY Zenon, <2>4 DEF Close, Crash, store
    <3> QED
      BY Zenon, <3>1
  <2> QED
    BY Zenon, <2>1, <2>2, <2>3, <2>4 DEF Next
<1>4. PICK n \in Nat \ {0} : Append1(i, Transition(n, "applied", None))
  BY Zenon, <1>3
<1>5. /\ Transition(n, "applied", None) \in Records
      /\ Transition(n, "applied", None).status = "applied"
  BY Zenon, TransitionIsRecord
<1>6. log'[i] = Append(log[i], Transition(n, "applied", None)) /\ log[i] \in Seq(Records)
  BY Zenon, <1>1, <1>4, <1>5, AppendLogs DEF InboxTypes
<1>7. DoneIn(log'[i])
  BY Zenon, <1>1, <1>5, <1>6, AppendDone
<1>8. Latest(i)' = LatestIn(log'[i])
  BY Zenon DEF Latest, LatestIn
<1> QED
  BY Zenon, <1>7, <1>8 DEF DoneIn

(* However producers, the consumer, failed puts, lost replies, crashes and *)
(* recovery interleave, the inbox counts its capacity exactly, keeps no    *)
(* producer asleep without a reason and never takes an applied message     *)
(* back (enqueue, claim, mark_applied, requeue and recover of              *)
(* turbo_agent_inbox.c), for any messages, sizes and limits.               *)
THEOREM InboxIsSound == Spec => InboxSound
<1>1. Spec => []InboxInv
  BY InboxInit, InboxNext, PTL DEF Spec
<1> QED
  BY <1>1, InboxInvAccounts, InboxStepsFinal, PTL DEF Spec, InboxSound, AppliedIsFinal

=============================================================================
