---- MODULE SubsequenceProofs ----
(***************************************************************************)
(* What filtering a sequence keeps: the members, their order and their     *)
(* uniqueness; and the least index with a property.                        *)
(***************************************************************************)
EXTENDS Subsequences, SequencesExt, TLAPS, FiniteSetTheorems, SequenceTheorems

(* A set of numbers that is not empty has a least one.                     *)
LEMMA LeastNumber ==
    ASSUME NEW I, I \subseteq Nat, I # {}
    PROVE  \E i \in I : \A j \in I : i <= j
<1>1. PICK i \in I : \A j \in I : ~ (<<j, i>> \in OpToRel(<, Nat))
  BY WFMin, NatLessThanWellFounded
<1>2. \A j \in I : ~(j < i)
  BY <1>1 DEF OpToRel
<1> QED
  BY <1>2

(* Places count the indices of a set from 1, in their order, without gaps. *)
LEMMA PlacesCount ==
    ASSUME NEW m \in Nat, NEW I, I \subseteq 1 .. m
    PROVE  /\ Cardinality(I) \in Nat
           /\ \A i \in I : Place(I, i) \in 1 .. Cardinality(I)
           /\ \A i, j \in I : i < j <=> Place(I, i) < Place(I, j)
           /\ \A n \in 1 .. Cardinality(I) : \E i \in I : Place(I, i) = n
<1>0. IsFiniteSet(I) /\ Cardinality(I) \in Nat
  <2>1. IsFiniteSet(1 .. m)
    BY FS_Interval
  <2> QED
    BY <2>1, FS_Subset, FS_CardinalityType
<1> DEFINE Upto(i) == {j \in I : j <= i}
<1>1. \A i \in I : IsFiniteSet(Upto(i)) /\ Cardinality(Upto(i)) \in Nat /\ Cardinality(Upto(i)) <= Cardinality(I)
  <2>1. \A i \in I : Upto(i) \in SUBSET I
    OBVIOUS
  <2> HIDE DEF Upto
  <2> QED
    BY <1>0, <2>1, FS_Subset, FS_CardinalityType
<1>2. \A i \in I : Cardinality(Upto(i)) # 0
  <2> TAKE i \in I
  <2>1. i \in Upto(i)
    OBVIOUS
  <2> HIDE DEF Upto
  <2>2. IsFiniteSet(Upto(i)) /\ Upto(i) # {}
    BY <1>1, <2>1
  <2> QED
    BY <2>2, FS_EmptySet
<1>3. ASSUME NEW i \in I, NEW j \in I, i < j
      PROVE  Cardinality(Upto(i)) < Cardinality(Upto(j))
  <2>0. I \subseteq Nat
    OBVIOUS
  <2>1. \A k \in I : k <= i => k <= j
    BY <1>3, <2>0
  <2>2. j <= j /\ ~(j <= i)
    BY <1>3, <2>0
  <2>3. Upto(i) \in SUBSET Upto(j) /\ j \in Upto(j) /\ j \notin Upto(i)
    BY <2>1, <2>2
  <2> HIDE DEF Upto
  <2>4. Cardinality(Upto(i)) <= Cardinality(Upto(j)) /\ Cardinality(Upto(i)) # Cardinality(Upto(j))
    BY <1>1, <2>3, FS_Subset
  <2> QED
    BY <1>1, <2>4
<1>4. \A i \in I : Place(I, i) = Cardinality(Upto(i))
  BY DEF Place
<1> HIDE DEF Upto
<1>5. \A i \in I : Place(I, i) \in 1 .. Cardinality(I)
  BY <1>0, <1>1, <1>2, <1>4
<1>6. \A i, j \in I : i < j <=> Place(I, i) < Place(I, j)
  BY <1>1, <1>3, <1>4
<1>7. ASSUME NEW n \in 1 .. Cardinality(I)
      PROVE  \E i \in I : Place(I, i) = n
  <2> DEFINE f == [i \in I |-> Place(I, i)]
  <2>1. f \in Injection(I, 1 .. Cardinality(I))
    BY <1>5, <1>6 DEF Injection, IsInjective
  <2>2. IsFiniteSet(1 .. Cardinality(I)) /\ Cardinality(1 .. Cardinality(I)) = Cardinality(I)
    BY <1>0, FS_Interval
  <2>3. f \in Surjection(I, 1 .. Cardinality(I))
    <3> HIDE DEF f
    <3> QED
      BY <2>1, <2>2, FS_Injection
  <2> QED
    BY <2>3 DEF Surjection
<1> QED
  BY <1>0, <1>5, <1>6, <1>7

(* f gives the indices of s, in increasing order, from which k is read.    *)
ReadAt(f, k, s, S) ==
    /\ f \in [1 .. Len(k) -> KeptAt(s, S)]
    /\ \A n \in 1 .. Len(k) : k[n] = s[f[n]]
    /\ \A n, m \in 1 .. Len(k) : n < m => f[n] < f[m]
    /\ \A i \in KeptAt(s, S) : \E n \in 1 .. Len(k) : f[n] = i

(* A filtered sequence is read off the sequence at increasing indices,     *)
(* which are all those whose member is in the set.                         *)
LEMMA KeepIndices ==
    ASSUME NEW T, NEW s \in Seq(T), NEW S
    PROVE  /\ Len(Keep(s, S)) \in Nat /\ DOMAIN Keep(s, S) = 1 .. Len(Keep(s, S))
           /\ \E f : ReadAt(f, Keep(s, S), s, S)
<1> DEFINE I == KeptAt(s, S)
           f == [n \in 1 .. Cardinality(I) |-> CHOOSE i \in I : Place(I, i) = n]
<1>1. I \subseteq 1 .. Len(s) /\ Len(s) \in Nat
  BY DEF KeptAt
<1> HIDE DEF I
<1>2. /\ Cardinality(I) \in Nat
      /\ \A i \in I : Place(I, i) \in 1 .. Cardinality(I)
      /\ \A i, j \in I : i < j <=> Place(I, i) < Place(I, j)
      /\ \A n \in 1 .. Cardinality(I) : \E i \in I : Place(I, i) = n
  BY <1>1, PlacesCount
<1>3. \A n \in 1 .. Cardinality(I) : f[n] \in I /\ Place(I, f[n]) = n
  BY <1>2
<1>4. f \in [1 .. Cardinality(I) -> I]
  BY <1>3
<1>5. \A i \in I : f[Place(I, i)] = i
  <2> TAKE i \in I
  <2>1. Place(I, i) \in 1 .. Cardinality(I)
    BY <1>2
  <2>2. PICK j \in I : j = f[Place(I, i)] /\ Place(I, j) = Place(I, i)
    BY <1>3, <2>1
  <2>3. ~(i < j) /\ ~(j < i)
    BY <1>2, <2>1, <2>2
  <2>4. i = j
    BY <1>1, <2>3
  <2> QED
    BY <2>2, <2>4
<1>6. Keep(s, S) = [n \in 1 .. Cardinality(I) |-> s[f[n]]]
  BY DEF Keep, I
<1> HIDE DEF f
<1>7. Len(Keep(s, S)) = Cardinality(I) /\ DOMAIN Keep(s, S) = 1 .. Cardinality(I)
  BY <1>2, <1>6
<1>8. \A n \in 1 .. Cardinality(I) : Keep(s, S)[n] = s[f[n]]
  BY <1>6
<1>9. \A n, k \in 1 .. Cardinality(I) : n < k => f[n] < f[k]
  BY <1>2, <1>3
<1>10. \A i \in I : \E n \in 1 .. Cardinality(I) : f[n] = i
  BY <1>2, <1>5
<1>11. ReadAt(f, Keep(s, S), s, S)
  BY <1>4, <1>7, <1>8, <1>9, <1>10 DEF I, ReadAt
<1> QED
  BY <1>2, <1>7, <1>11

(* Filtering keeps exactly the members in the set, and each of them once   *)
(* when the sequence has no duplicates.                                    *)
LEMMA KeepMembers ==
    ASSUME NEW T, NEW s \in Seq(T), NEW S
    PROVE  /\ Keep(s, S) \in Seq(T)
           /\ ToSet(Keep(s, S)) = ToSet(s) \cap S
           /\ IsInjective(s) => IsInjective(Keep(s, S))
<1> DEFINE k == Keep(s, S)
<1>0. PICK f : ReadAt(f, k, s, S)
  BY KeepIndices
<1>1. /\ f \in [1 .. Len(k) -> KeptAt(s, S)]
      /\ \A n \in 1 .. Len(k) : k[n] = s[f[n]]
      /\ \A n, m \in 1 .. Len(k) : n < m => f[n] < f[m]
      /\ \A i \in KeptAt(s, S) : \E n \in 1 .. Len(k) : f[n] = i
  BY <1>0 DEF ReadAt
<1>2. Len(k) \in Nat /\ DOMAIN k = 1 .. Len(k)
  BY KeepIndices
<1>3. KeptAt(s, S) \subseteq 1 .. Len(s) /\ \A i \in KeptAt(s, S) : s[i] \in S /\ s[i] \in T
  BY DEF KeptAt
<1> HIDE DEF k
<1>4. \A n \in 1 .. Len(k) : k[n] \in T /\ k[n] \in S /\ k[n] \in ToSet(s)
  BY <1>1, <1>3 DEF ToSet
<1>5. k = [n \in 1 .. Len(k) |-> k[n]]
  <2>1. k = [n \in DOMAIN k |-> k[n]]
    BY DEF Keep, k
  <2> QED
    BY <1>2, <2>1
<1>6. k \in Seq(T)
  BY <1>2, <1>4, <1>5
<1>7. ASSUME NEW x \in ToSet(s), x \in S
      PROVE  x \in ToSet(k)
  <2>1. PICK i \in 1 .. Len(s) : s[i] = x
    BY DEF ToSet
  <2>2. i \in KeptAt(s, S)
    BY <1>7, <2>1 DEF KeptAt
  <2>3. PICK n \in 1 .. Len(k) : f[n] = i
    BY <1>1, <2>2
  <2> QED
    BY <1>1, <1>2, <2>1, <2>3 DEF ToSet
<1>8. ToSet(k) \subseteq ToSet(s) \cap S
  BY <1>2, <1>4 DEF ToSet
<1>9. ASSUME IsInjective(s), NEW n \in 1 .. Len(k), NEW m \in 1 .. Len(k), k[n] = k[m]
      PROVE  n = m
  <2>1. f[n] \in 1 .. Len(s) /\ f[m] \in 1 .. Len(s) /\ s[f[n]] = s[f[m]]
    BY <1>1, <1>3, <1>9
  <2>2. f[n] = f[m]
    BY <1>9, <2>1 DEF IsInjective
  <2>3. ~(n < m) /\ ~(m < n)
    BY <1>1, <2>1, <2>2
  <2> QED
    BY <1>2, <2>3
<1> QED
  BY <1>2, <1>6, <1>7, <1>8, <1>9 DEF IsInjective, k

(* What is read off a sequence at all indices of a set, in their order, is *)
(* unique: the least difference between two readings would be an index     *)
(* that one of them passes over.                                           *)
LEMMA ReadingUnique ==
    ASSUME NEW T, NEW s \in Seq(T), NEW S, NEW k \in Seq(T), NEW l \in Seq(T), NEW f, NEW g,
           ReadAt(f, k, s, S), ReadAt(g, l, s, S)
    PROVE  k = l
<1> DEFINE I == KeptAt(s, S)
<1>1. /\ f \in [1 .. Len(k) -> I] /\ \A n \in 1 .. Len(k) : k[n] = s[f[n]]
      /\ \A n, m \in 1 .. Len(k) : n < m => f[n] < f[m]
      /\ \A i \in I : \E n \in 1 .. Len(k) : f[n] = i
  BY DEF ReadAt
<1>2. /\ g \in [1 .. Len(l) -> I] /\ \A n \in 1 .. Len(l) : l[n] = s[g[n]]
      /\ \A n, m \in 1 .. Len(l) : n < m => g[n] < g[m]
      /\ \A i \in I : \E n \in 1 .. Len(l) : g[n] = i
  BY DEF ReadAt
<1>3. I \subseteq Nat /\ Len(k) \in Nat /\ Len(l) \in Nat
  BY DEF KeptAt
<1> HIDE DEF I
<1> DEFINE Same(n) == n <= Len(l) /\ f[n] = g[n]
<1>4. \A n \in 1 .. Len(k) : Same(n)
  <2> DEFINE D == {n \in 1 .. Len(k) : ~Same(n)}
  <2>1. ASSUME D # {} PROVE FALSE
    <3>1. D \subseteq Nat
      OBVIOUS
    <3>2. PICK n \in D : \A m \in D : n <= m
      BY <2>1, <3>1, LeastNumber
    <3>3. n \in 1 .. Len(k) /\ ~Same(n)
      OBVIOUS
    <3>4. \A m \in 1 .. Len(k) : m < n => Same(m)
      BY <3>2, <3>3
    <3> HIDE DEF D
    <3>5. f[n] \in I /\ f[n] \in Nat
      BY <1>1, <1>3, <3>3
    <3>6. PICK m \in 1 .. Len(l) : g[m] = f[n]
      BY <1>2, <3>5
    <3>7. ~(m < n)
      <4> SUFFICES ASSUME m < n PROVE FALSE
        OBVIOUS
      <4>1. m \in 1 .. Len(k) /\ f[m] = f[n]
        BY <1>3, <3>3, <3>4, <3>6
      <4>2. f[m] < f[n]
        BY <1>1, <3>3, <4>1
      <4> QED
        BY <3>5, <4>1, <4>2
    <3>8. n <= Len(l) /\ n \in 1 .. Len(l)
      BY <1>3, <3>3, <3>7
    <3>9. n < m
      BY <1>3, <3>3, <3>6, <3>7, <3>8
    <3>10. g[n] \in I /\ g[n] \in Nat /\ g[n] < f[n]
      BY <1>2, <1>3, <3>6, <3>8, <3>9
    <3>11. PICK j \in 1 .. Len(k) : f[j] = g[n]
      BY <1>1, <3>10
    <3>12. j < n
      <4>1. ~(n < j) /\ j # n
        BY <1>1, <1>3, <3>3, <3>5, <3>10, <3>11
      <4> QED
        BY <1>3, <3>3, <4>1
    <3>13. j \in 1 .. Len(l) /\ g[j] = g[n]
      BY <1>3, <3>4, <3>11, <3>12
    <3>14. g[j] < g[n]
      BY <1>2, <3>8, <3>12, <3>13
    <3> QED
      BY <3>10, <3>13, <3>14
  <2> QED
    BY <2>1
<1>5. ~(Len(k) < Len(l))
  <2> SUFFICES ASSUME Len(k) < Len(l) PROVE FALSE
    OBVIOUS
  <2>1. Len(k) + 1 \in 1 .. Len(l)
    BY <1>3
  <2>2. PICK m \in 1 .. Len(k) : f[m] = g[Len(k) + 1]
    BY <1>1, <1>2, <2>1
  <2>3. m \in 1 .. Len(l) /\ m < Len(k) + 1 /\ g[m] = g[Len(k) + 1]
    BY <1>3, <1>4, <2>2
  <2>4. g[m] < g[Len(k) + 1] /\ g[m] \in Nat
    BY <1>2, <1>3, <2>1, <2>3
  <2> QED
    BY <1>2, <1>3, <2>1, <2>3, <2>4
<1>6. Len(k) = Len(l)
  <2>1. ~(Len(l) < Len(k))
    <3> SUFFICES ASSUME Len(l) < Len(k) PROVE FALSE
      OBVIOUS
    <3>1. Len(k) \in 1 .. Len(k)
      BY <1>3
    <3> QED
      BY <1>3, <1>4, <3>1
  <2> QED
    BY <1>3, <1>5, <2>1
<1>7. \A n \in 1 .. Len(k) : k[n] = l[n]
  BY <1>1, <1>2, <1>3, <1>4, <1>6
<1> QED
  BY <1>6, <1>7, SeqEqual

(* So a filtered sequence is known from one reading.                       *)
LEMMA KeepIs ==
    ASSUME NEW T, NEW s \in Seq(T), NEW S, NEW k \in Seq(T), NEW f, ReadAt(f, k, s, S)
    PROVE  Keep(s, S) = k
<1>1. Keep(s, S) \in Seq(T)
  BY KeepMembers
<1>2. PICK g : ReadAt(g, Keep(s, S), s, S)
  BY KeepIndices
<1> QED
  BY <1>1, <1>2, ReadingUnique

(* Sets that keep the same indices keep the same sequence.                 *)
LEMMA KeepSame ==
    ASSUME NEW T, NEW s \in Seq(T), NEW S, NEW R, KeptAt(s, S) = KeptAt(s, R)
    PROVE  Keep(s, S) = Keep(s, R)
<1>1. Keep(s, S) \in Seq(T)
  BY KeepMembers
<1>2. PICK f : ReadAt(f, Keep(s, S), s, S)
  BY KeepIndices
<1>3. ReadAt(f, Keep(s, S), s, R)
  BY <1>2 DEF ReadAt
<1> QED
  BY <1>1, <1>3, KeepIs

(* Nothing is dropped when all members are kept, nothing is left when none *)
(* is.                                                                     *)
LEMMA KeepAll ==
    ASSUME NEW T, NEW s \in Seq(T), NEW S, \A i \in 1 .. Len(s) : s[i] \in S
    PROVE  Keep(s, S) = s
<1> DEFINE f == [i \in 1 .. Len(s) |-> i]
<1>1. KeptAt(s, S) = 1 .. Len(s)
  BY DEF KeptAt
<1>2. ReadAt(f, s, s, S)
  BY <1>1 DEF ReadAt
<1> HIDE DEF f
<1> QED
  BY <1>2, KeepIs

(* Filtering away every element leaves the empty sequence.                 *)
LEMMA KeepNone ==
    ASSUME NEW T, NEW s \in Seq(T), NEW S, \A i \in 1 .. Len(s) : s[i] \notin S
    PROVE  Keep(s, S) = <<>>
<1> DEFINE f == [i \in {} |-> i]
<1>1. KeptAt(s, S) = {}
  BY DEF KeptAt
<1>2. Len(<<>>) = 0 /\ 1 .. 0 = {} /\ <<>> \in Seq(T)
  OBVIOUS
<1>3. ReadAt(f, <<>>, s, S)
  BY <1>1, <1>2 DEF ReadAt
<1> HIDE DEF f
<1> QED
  BY <1>2, <1>3, KeepIs

(* Filtering goes along when a sequence grows at its end ...               *)
LEMMA KeepAppend ==
    ASSUME NEW T, NEW s \in Seq(T), NEW x \in T, NEW S
    PROVE  Keep(Append(s, x), S) = IF x \in S THEN Append(Keep(s, S), x) ELSE Keep(s, S)
<1> DEFINE a == Append(s, x)
           k == Keep(s, S)
           L == Len(s) + 1
<1>1. k \in Seq(T)
  BY KeepMembers
<1>2. PICK f : ReadAt(f, k, s, S)
  BY KeepIndices
<1> HIDE DEF k
<1>3. /\ a \in Seq(T) /\ Len(a) = L /\ a[L] = x /\ \A i \in 1 .. Len(s) : a[i] = s[i]
      /\ Len(s) \in Nat /\ Len(k) \in Nat
  BY <1>1
<1> HIDE DEF a
<1>4. /\ f \in [1 .. Len(k) -> KeptAt(s, S)] /\ \A n \in 1 .. Len(k) : k[n] = s[f[n]]
      /\ \A n, m \in 1 .. Len(k) : n < m => f[n] < f[m]
      /\ \A i \in KeptAt(s, S) : \E n \in 1 .. Len(k) : f[n] = i
  BY <1>2 DEF ReadAt
<1>5. \A n \in 1 .. Len(k) : f[n] \in 1 .. Len(s) /\ f[n] \in KeptAt(s, S)
  BY <1>4 DEF KeptAt
<1>6. \A i : i \in KeptAt(s, S) => i \in 1 .. Len(s)
  BY DEF KeptAt
<1>7. CASE x \in S
  <2> DEFINE b == Append(k, x)
             h == [n \in 1 .. (Len(k) + 1) |-> IF n = Len(k) + 1 THEN L ELSE f[n]]
  <2>1. /\ b \in Seq(T) /\ Len(b) = Len(k) + 1 /\ b[Len(k) + 1] = x
        /\ \A n \in 1 .. Len(k) : b[n] = k[n]
    BY <1>1
  <2> HIDE DEF b
  <2>2. KeptAt(a, S) = KeptAt(s, S) \cup {L}
    BY <1>3, <1>7 DEF KeptAt
  <2>3. \A n \in 1 .. Len(b) : h[n] = IF n = Len(k) + 1 THEN L ELSE f[n]
    BY <2>1
  <2>4. h \in [1 .. Len(b) -> KeptAt(a, S)]
    BY <1>3, <1>5, <2>1, <2>2
  <2> HIDE DEF h
  <2>5. \A n \in 1 .. Len(b) : b[n] = a[h[n]]
    BY <1>3, <1>4, <1>5, <2>1, <2>3
  <2>6. \A n, m \in 1 .. Len(b) : n < m => h[n] < h[m]
    <3> TAKE n, m \in 1 .. Len(b)
    <3> HAVE n < m
    <3>1. n \in 1 .. Len(k) /\ h[n] = f[n] /\ f[n] \in 1 .. Len(s)
      BY <1>3, <1>5, <2>1, <2>3
    <3>2. CASE m = Len(k) + 1
      BY <1>3, <2>3, <3>1, <3>2
    <3>3. CASE m # Len(k) + 1
      <4>1. m \in 1 .. Len(k) /\ h[m] = f[m]
        BY <1>3, <2>1, <2>3, <3>3
      <4> QED
        BY <1>4, <3>1, <4>1
    <3> QED
      BY <3>2, <3>3
  <2>7. \A i \in KeptAt(a, S) : \E n \in 1 .. Len(b) : h[n] = i
    <3> TAKE i \in KeptAt(a, S)
    <3>1. CASE i = L
      <4>1. Len(k) + 1 \in 1 .. Len(b) /\ h[Len(k) + 1] = L
        BY <1>3, <2>1, <2>3
      <4> QED
        BY <3>1, <4>1
    <3>2. CASE i # L
      <4>1. PICK n \in 1 .. Len(k) : f[n] = i
        BY <1>4, <2>2, <3>2
      <4>2. n \in 1 .. Len(b) /\ h[n] = f[n]
        BY <1>3, <2>1, <2>3
      <4> QED
        BY <4>1, <4>2
    <3> QED
      BY <3>1, <3>2
  <2>8. ReadAt(h, b, a, S)
    BY <2>4, <2>5, <2>6, <2>7 DEF ReadAt
  <2>9. Keep(a, S) = b
    BY <1>3, <2>1, <2>8, KeepIs
  <2> QED
    BY <1>7, <2>9 DEF a, b, k
<1>8. CASE x \notin S
  <2>1. KeptAt(a, S) = KeptAt(s, S)
    BY <1>3, <1>8 DEF KeptAt
  <2>2. \A n \in 1 .. Len(k) : k[n] = a[f[n]]
    BY <1>3, <1>4, <1>5
  <2>3. ReadAt(f, k, a, S)
    BY <1>4, <2>1, <2>2 DEF ReadAt
  <2>4. Keep(a, S) = k
    BY <1>1, <1>3, <2>3, KeepIs
  <2> QED
    BY <1>8, <2>4 DEF a, k
<1> QED
  BY <1>7, <1>8

(* ... and when its first member is taken off.                             *)
LEMMA KeepTail ==
    ASSUME NEW T, NEW s \in Seq(T), s # <<>>, NEW S
    PROVE  /\ Head(s) \notin S => Keep(Tail(s), S) = Keep(s, S)
           /\ Head(s) \in S => /\ Keep(s, S) # <<>> /\ Head(Keep(s, S)) = Head(s)
                               /\ Keep(Tail(s), S) = Tail(Keep(s, S))
<1> DEFINE t == Tail(s)
           k == Keep(s, S)
<1>1. k \in Seq(T) /\ Len(k) \in Nat
  BY KeepMembers
<1>2. PICK f : ReadAt(f, k, s, S)
  BY KeepIndices
<1> HIDE DEF k
<1>3. /\ t \in Seq(T) /\ Len(s) \in Nat /\ Len(s) > 0 /\ Len(t) = Len(s) - 1 /\ Head(s) = s[1]
      /\ \A i \in 1 .. Len(t) : t[i] = s[i + 1]
  OBVIOUS
<1> HIDE DEF t
<1>4. /\ f \in [1 .. Len(k) -> KeptAt(s, S)] /\ \A n \in 1 .. Len(k) : k[n] = s[f[n]]
      /\ \A n, m \in 1 .. Len(k) : n < m => f[n] < f[m]
      /\ \A i \in KeptAt(s, S) : \E n \in 1 .. Len(k) : f[n] = i
  BY <1>2 DEF ReadAt
<1>5. \A n \in 1 .. Len(k) : f[n] \in 1 .. Len(s) /\ f[n] \in KeptAt(s, S)
  BY <1>4 DEF KeptAt
<1>6. /\ \A i \in 1 .. Len(t) : i \in KeptAt(t, S) <=> i + 1 \in KeptAt(s, S)
      /\ \A i : i \in KeptAt(t, S) => i \in 1 .. Len(t)
      /\ (1 \in KeptAt(s, S) <=> Head(s) \in S)
  BY <1>3 DEF KeptAt
<1>7. CASE Head(s) \notin S
  <2> DEFINE h == [n \in 1 .. Len(k) |-> f[n] - 1]
  <2>1. \A n \in 1 .. Len(k) : f[n] - 1 \in 1 .. Len(t) /\ f[n] - 1 \in KeptAt(t, S) /\ (f[n] - 1) + 1 = f[n]
    <3> TAKE n \in 1 .. Len(k)
    <3>1. f[n] # 1 /\ f[n] \in 1 .. Len(s) /\ f[n] \in KeptAt(s, S)
      BY <1>5, <1>6, <1>7
    <3>2. f[n] - 1 \in 1 .. Len(t) /\ (f[n] - 1) + 1 = f[n]
      BY <1>3, <3>1
    <3> QED
      BY <1>6, <3>1, <3>2
  <2>2. h \in [1 .. Len(k) -> KeptAt(t, S)] /\ \A n \in 1 .. Len(k) : h[n] = f[n] - 1
    BY <2>1
  <2> HIDE DEF h
  <2>3. \A n \in 1 .. Len(k) : k[n] = t[h[n]]
    <3> TAKE n \in 1 .. Len(k)
    <3>1. h[n] \in 1 .. Len(t) /\ h[n] + 1 = f[n]
      BY <2>1, <2>2
    <3>2. t[h[n]] = s[f[n]]
      BY <1>3, <3>1
    <3> QED
      BY <1>4, <3>2
  <2>4. \A n, m \in 1 .. Len(k) : n < m => h[n] < h[m]
    BY <1>4, <1>5, <2>2
  <2>5. \A i \in KeptAt(t, S) : \E n \in 1 .. Len(k) : h[n] = i
    <3> TAKE i \in KeptAt(t, S)
    <3>1. i \in 1 .. Len(t) /\ i + 1 \in KeptAt(s, S)
      BY <1>6
    <3>2. PICK n \in 1 .. Len(k) : f[n] = i + 1
      BY <1>4, <3>1
    <3>3. h[n] = i
      BY <2>2, <3>1, <3>2
    <3> QED
      BY <3>3
  <2>6. ReadAt(h, k, t, S)
    BY <2>2, <2>3, <2>4, <2>5 DEF ReadAt
  <2>7. Keep(t, S) = k
    BY <1>1, <1>3, <2>6, KeepIs
  <2> QED
    BY <1>7, <2>7 DEF t, k
<1>8. CASE Head(s) \in S
  <2>1. PICK z \in 1 .. Len(k) : f[z] = 1
    BY <1>4, <1>6, <1>8
  <2>2. 1 \in 1 .. Len(k) /\ f[1] = 1
    <3>1. 1 \in 1 .. Len(k) /\ ~(1 < z /\ f[1] < 1)
      BY <1>1, <1>5, <2>1
    <3> QED
      BY <1>4, <2>1, <3>1
  <2> DEFINE b == Tail(k)
             h == [n \in 1 .. (Len(k) - 1) |-> f[n + 1] - 1]
  <2>3. /\ k # <<>> /\ Head(k) = k[1] /\ b \in Seq(T) /\ Len(b) = Len(k) - 1
        /\ \A n \in 1 .. Len(b) : b[n] = k[n + 1] /\ n + 1 \in 1 .. Len(k)
    BY <1>1, <2>2
  <2>4. Head(k) = Head(s)
    BY <1>3, <1>4, <2>2, <2>3
  <2> HIDE DEF b
  <2>5. \A n \in 1 .. Len(b) : /\ f[n + 1] - 1 \in 1 .. Len(t) /\ f[n + 1] - 1 \in KeptAt(t, S)
                                /\ (f[n + 1] - 1) + 1 = f[n + 1]
    <3> TAKE n \in 1 .. Len(b)
    <3>1. n + 1 \in 1 .. Len(k) /\ 1 < n + 1
      BY <2>3
    <3>2. f[1] < f[n + 1] /\ f[n + 1] \in 1 .. Len(s) /\ f[n + 1] \in KeptAt(s, S)
      BY <1>4, <1>5, <2>2, <3>1
    <3>3. f[n + 1] - 1 \in 1 .. Len(t) /\ (f[n + 1] - 1) + 1 = f[n + 1]
      BY <1>3, <2>2, <3>2
    <3> QED
      BY <1>6, <3>2, <3>3
  <2>6. h \in [1 .. Len(b) -> KeptAt(t, S)] /\ \A n \in 1 .. Len(b) : h[n] = f[n + 1] - 1
    BY <2>3, <2>5
  <2> HIDE DEF h
  <2>7. \A n \in 1 .. Len(b) : b[n] = t[h[n]]
    <3> TAKE n \in 1 .. Len(b)
    <3>1. h[n] \in 1 .. Len(t) /\ h[n] + 1 = f[n + 1]
      BY <2>5, <2>6
    <3>2. t[h[n]] = s[f[n + 1]]
      BY <1>3, <3>1
    <3>3. k[n + 1] = s[f[n + 1]]
      BY <1>4, <2>3
    <3> QED
      BY <2>3, <3>2, <3>3
  <2>8. \A n, m \in 1 .. Len(b) : n < m => h[n] < h[m]
    <3> TAKE n, m \in 1 .. Len(b)
    <3> HAVE n < m
    <3>1. n + 1 \in 1 .. Len(k) /\ m + 1 \in 1 .. Len(k) /\ n + 1 < m + 1
      BY <2>3
    <3>2. f[n + 1] < f[m + 1] /\ f[n + 1] \in Nat /\ f[m + 1] \in Nat
      BY <1>4, <1>5, <3>1
    <3> QED
      BY <2>6, <3>2
  <2>9. \A i \in KeptAt(t, S) : \E n \in 1 .. Len(b) : h[n] = i
    <3> TAKE i \in KeptAt(t, S)
    <3>1. i \in 1 .. Len(t) /\ i + 1 \in KeptAt(s, S)
      BY <1>6
    <3>2. PICK n \in 1 .. Len(k) : f[n] = i + 1
      BY <1>4, <3>1
    <3>3. n # 1
      BY <2>2, <3>1, <3>2
    <3>4. n - 1 \in 1 .. Len(b) /\ (n - 1) + 1 = n
      BY <1>1, <2>3, <3>3
    <3>5. h[n - 1] = i
      BY <2>6, <3>1, <3>2, <3>4
    <3> QED
      BY <3>4, <3>5
  <2>10. ReadAt(h, b, t, S)
    BY <2>6, <2>7, <2>8, <2>9 DEF ReadAt
  <2>11. Keep(t, S) = b
    BY <1>3, <2>3, <2>10, KeepIs
  <2> QED
    BY <1>8, <2>3, <2>4, <2>11 DEF t, k, b
<1> QED
  BY <1>7, <1>8
====
