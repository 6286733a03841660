------------------------ MODULE PlaylistCommandsProofs ------------------------
(***************************************************************************)
(* Proofs about PlaylistCommands, for any playlists, tracks, clients and   *)
(* any number of edits.                                                    *)
(***************************************************************************)
EXTENDS PlaylistCommands, SequenceTheorems, FiniteSetTheorems, WellFoundedInduction, TLAPS

-----------------------------------------------------------------------------
(* Sequences without some of their items *)

\* The smallest number of a set that has one.
LEMMA Smallest ==
    ASSUME NEW T \in SUBSET Nat, T # {}
    PROVE  \E x \in T : \A y \in T : x <= y
<1>1. PICK x \in T : \A y \in T : ~(<<y, x>> \in OpToRel(<, Nat))
  BY WFMin, NatLessThanWellFounded
<1>2. \A y \in T : ~(y < x)
  BY <1>1 DEF OpToRel
<1> QED
  BY <1>2

\* The ranks of the numbers 1 .. m grow from 0 to the cardinality of K by one
\* at each number of K.
LEMMA RankSteps ==
    ASSUME NEW m \in Nat, NEW K \in SUBSET (1 .. m)
    PROVE  /\ IsFiniteSet(K) /\ Cardinality(K) \in Nat
           /\ Rank(K, 0) = 0 /\ Rank(K, m) = Cardinality(K)
           /\ \A i \in 0 .. m : Rank(K, i) \in Nat
           /\ \A i \in 1 .. m : Rank(K, i) = IF i \in K THEN Rank(K, i - 1) + 1 ELSE Rank(K, i - 1)
<1>1. IsFiniteSet(1 .. m)
  BY FS_Interval
<1>2. ASSUME NEW T \in SUBSET K
      PROVE  IsFiniteSet(T) /\ Cardinality(T) \in Nat
  <2>1. IsFiniteSet(T)
    BY <1>1, FS_Subset
  <2> QED
    BY <2>1, FS_CardinalityType
<1>a. \A j \in K : j \in Int /\ 1 <= j /\ j <= m
  OBVIOUS
<1>3. {j \in K : j <= 0} = {} /\ {j \in K : j <= m} = K
  <2>1. \A j \in K : ~(j <= 0) /\ j <= m
    BY <1>a
  <2> QED
    BY <2>1, Zenon
<1>4. Cardinality({}) = 0
  BY FS_EmptySet
<1>5. ASSUME NEW i \in 1 .. m
      PROVE  Rank(K, i) = IF i \in K THEN Rank(K, i - 1) + 1 ELSE Rank(K, i - 1)
  <2> DEFINE below == {j \in K : j <= i - 1}
  <2>1. {j \in K : j <= i} = IF i \in K THEN below \cup {i} ELSE below
    <3>1. \A j \in K : j <= i <=> j = i \/ j <= i - 1
      BY <1>a
    <3> QED
      BY <3>1, Zenon
  <2>2. i \notin below
    OBVIOUS
  <2>3. IsFiniteSet(below) /\ Rank(K, i - 1) = Cardinality(below)
    BY <1>2 DEF Rank
  <2> HIDE DEF below
  <2>4. Cardinality(below \cup {i}) = Cardinality(below) + 1
    BY <2>2, <2>3, FS_AddElement
  <2> QED
    BY <2>1, <2>3, <2>4 DEF Rank
<1> QED
  BY <1>2, <1>3, <1>4, <1>5 DEF Rank

\* Ranks grow with the numbers of K.
LEMMA RankGrows ==
    ASSUME NEW m \in Nat, NEW K \in SUBSET (1 .. m), NEW i \in K, NEW j \in K, i < j
    PROVE  Rank(K, i) < Rank(K, j)
<1> DEFINE I == {k \in K : k <= i}
           J == {k \in K : k <= j}
<1>1. IsFiniteSet(J) /\ IsFiniteSet(K)
  BY RankSteps, FS_Subset
<1>2. I \in SUBSET J /\ I # J
  <2>1. \A k \in K : k \in Int
    OBVIOUS
  <2>2. \A k \in K : k <= i => k <= j
    BY <2>1
  <2>3. j \in J /\ j \notin I
    BY <2>1
  <2> QED
    BY <2>2, <2>3, Zenon
<1>3. IsFiniteSet(I) /\ Cardinality(I) <= Cardinality(J) /\ Cardinality(I) # Cardinality(J)
  BY <1>1, <1>2, FS_Subset
<1>4. Cardinality(I) \in Nat /\ Cardinality(J) \in Nat
  BY <1>1, <1>3, FS_CardinalityType
<1> QED
  BY <1>3, <1>4 DEF Rank

\* Every number up to the cardinality of K is the rank of exactly one of K.
LEMMA RankIsOnto ==
    ASSUME NEW m \in Nat, NEW K \in SUBSET (1 .. m), NEW n \in 1 .. Cardinality(K)
    PROVE  \E i \in K : Rank(K, i) = n
<1> DEFINE T == {i \in 0 .. m : Rank(K, i) >= n}
<1>1. /\ Cardinality(K) \in Nat /\ Rank(K, 0) = 0 /\ Rank(K, m) = Cardinality(K)
      /\ \A i \in 0 .. m : Rank(K, i) \in Nat
      /\ \A i \in 1 .. m : Rank(K, i) = IF i \in K THEN Rank(K, i - 1) + 1 ELSE Rank(K, i - 1)
  BY RankSteps
<1>2. T \in SUBSET Nat /\ m \in T
  BY <1>1
<1>3. PICK i \in T : \A j \in T : i <= j
  BY <1>2, Smallest
<1>4. i \in 1 .. m /\ i - 1 \in 0 .. m /\ i - 1 \notin T
  BY <1>1, <1>3
<1>5. Rank(K, i - 1) < n /\ Rank(K, i) >= n
  BY <1>1, <1>3, <1>4
<1>6. i \in K /\ Rank(K, i) = n
  BY <1>1, <1>4, <1>5
<1> QED
  BY <1>6

\* Without(s, S) has the items of s that are not in S, each at its rank.
LEMMA WithoutItems ==
    ASSUME NEW T, NEW s \in Seq(T), NEW S
    PROVE  /\ Kept(s, S) \in SUBSET (1 .. Len(s))
           /\ Cardinality(Kept(s, S)) \in Nat
           /\ \A n \in 1 .. Cardinality(Kept(s, S)) :
                 \E i \in Kept(s, S) : Rank(Kept(s, S), i) = n /\ Without(s, S)[n] = s[i]
<1> DEFINE K == Kept(s, S)
<1>1. Len(s) \in Nat /\ DOMAIN s = 1 .. Len(s)
  BY LenProperties
<1>2. K \in SUBSET (1 .. Len(s))
  BY <1>1 DEF Kept
<1>3. Cardinality(K) \in Nat
  BY <1>1, <1>2, RankSteps
<1> HIDE DEF K
<1>4. ASSUME NEW n \in 1 .. Cardinality(K)
      PROVE  \E i \in K : Rank(K, i) = n /\ Without(s, S)[n] = s[i]
  <2> DEFINE i == CHOOSE j \in K : Rank(K, j) = n
  <2>1. i \in K /\ Rank(K, i) = n
    BY <1>1, <1>2, RankIsOnto
  <2>2. Without(s, S)[n] = s[i]
    BY <1>4 DEF Without, K
  <2> QED
    BY <2>1, <2>2
<1> QED
  BY <1>2, <1>3, <1>4 DEF K

\* Without(s, S) is a sequence of the items of s that are not in S, each once
\* if it is once in s.
LEMMA WithoutProperties ==
    ASSUME NEW T, NEW s \in Seq(T), NEW S
    PROVE  /\ Without(s, S) \in Seq(T)
           /\ Len(Without(s, S)) = Cardinality(Kept(s, S))
           /\ ToSet(Without(s, S)) = ToSet(s) \ S
           /\ IsInjective(s) => IsInjective(Without(s, S))
<1> DEFINE K == Kept(s, S)
           N == Cardinality(K)
           w == Without(s, S)
<1>1. Len(s) \in Nat /\ DOMAIN s = 1 .. Len(s) /\ \A i \in 1 .. Len(s) : s[i] \in T
  BY LenProperties, ElementOfSeq
<1>2. /\ K \in SUBSET (1 .. Len(s)) /\ N \in Nat
      /\ \A n \in 1 .. N : \E i \in K : Rank(K, i) = n /\ w[n] = s[i]
  BY WithoutItems
<1>3. DOMAIN w = 1 .. N
  BY DEF Without
<1>4. \A i : i \in K <=> i \in 1 .. Len(s) /\ s[i] \notin S
  BY <1>1 DEF Kept
<1>5. w \in [1 .. N -> T]
  <2>1. \A n \in 1 .. N : w[n] \in T
    BY <1>1, <1>2
  <2>2. w = [n \in 1 .. N |-> w[n]]
    BY DEF Without
  <2> QED
    BY <2>1, <2>2
<1> HIDE DEF K, w, N
<1>6. w \in Seq(T) /\ Len(w) = N
  BY <1>2, <1>5, <1>3, LenProperties, SeqDef
<1>7. \A i \in K : \E n \in 1 .. N : w[n] = s[i]
  <2> TAKE i \in K
  <2>1. i \in 1 .. Len(s) /\ i - 1 \in 0 .. Len(s)
    BY <1>1, <1>2
  <2>2. Rank(K, i) = Rank(K, i - 1) + 1 /\ Rank(K, i - 1) \in Nat /\ IsFiniteSet(K)
    BY <1>1, <1>2, <2>1, RankSteps
  <2>3. Rank(K, i) <= N
    <3>1. {j \in K : j <= i} \in SUBSET K
      OBVIOUS
    <3> QED
      BY <3>1, <2>2, FS_Subset DEF Rank, N
  <2>4. Rank(K, i) \in 1 .. N
    BY <1>2, <2>2, <2>3
  <2>5. PICK j \in K : Rank(K, j) = Rank(K, i) /\ w[Rank(K, i)] = s[j]
    BY <1>2, <2>4
  <2>6. i = j
    <3>1. ~(Rank(K, i) < Rank(K, j)) /\ ~(Rank(K, j) < Rank(K, i))
      BY <2>2, <2>5
    <3>2. ~(i < j) /\ ~(j < i)
      BY <1>1, <1>2, <3>1, RankGrows
    <3> QED
      BY <1>2, <3>2
  <2> QED
    BY <2>4, <2>5, <2>6
<1>8. ToSet(w) = ToSet(s) \ S
  <2>1. ASSUME NEW x \in ToSet(w)
        PROVE  x \in ToSet(s) \ S
    BY <1>1, <1>2, <1>3, <1>4 DEF ToSet
  <2>2. ASSUME NEW x \in ToSet(s) \ S
        PROVE  x \in ToSet(w)
    BY <1>1, <1>3, <1>4, <1>7 DEF ToSet
  <2> QED
    BY <2>1, <2>2
<1>9. ASSUME IsInjective(s)
      PROVE  IsInjective(w)
  <2> SUFFICES ASSUME NEW m \in 1 .. N, NEW n \in 1 .. N, w[m] = w[n]
               PROVE  m = n
    BY <1>3 DEF IsInjective
  <2>1. PICK i \in K : Rank(K, i) = m /\ w[m] = s[i]
    BY <1>2
  <2>2. PICK j \in K : Rank(K, j) = n /\ w[n] = s[j]
    BY <1>2
  <2>3. i = j
    BY <1>1, <1>2, <1>9, <2>1, <2>2 DEF IsInjective
  <2> QED
    BY <2>1, <2>2, <2>3
<1> QED
  BY <1>6, <1>8, <1>9 DEF K, w, N

\* Without one of its items a sequence of different items is shorter by one.
LEMMA WithoutOne ==
    ASSUME NEW T, NEW s \in Seq(T), IsInjective(s), NEW x \in ToSet(s)
    PROVE  Len(Without(s, {x})) = Len(s) - 1
<1>1. Len(s) \in Nat /\ DOMAIN s = 1 .. Len(s)
  BY LenProperties
<1>2. PICK i \in 1 .. Len(s) : s[i] = x
  BY <1>1 DEF ToSet
<1>3. Kept(s, {x}) = (1 .. Len(s)) \ {i}
  BY <1>1, <1>2 DEF Kept, IsInjective
<1>4. IsFiniteSet(1 .. Len(s)) /\ Cardinality(1 .. Len(s)) = Len(s)
  BY <1>1, FS_Interval
<1>5. Cardinality(Kept(s, {x})) = Len(s) - 1
  BY <1>2, <1>3, <1>4, FS_RemoveElement
<1> QED
  BY <1>5, WithoutProperties

\* The items of a concatenation are those of its parts; they are different if
\* those of each part are and the parts share none.
LEMMA ConcatItems ==
    ASSUME NEW T, NEW s \in Seq(T), NEW u \in Seq(T)
    PROVE  /\ s \o u \in Seq(T)
           /\ ToSet(s \o u) = ToSet(s) \cup ToSet(u)
           /\ IsInjective(s) /\ IsInjective(u) /\ ToSet(s) \cap ToSet(u) = {} => IsInjective(s \o u)
<1> DEFINE w == s \o u
<1>1. /\ Len(s) \in Nat /\ DOMAIN s = 1 .. Len(s)
      /\ Len(u) \in Nat /\ DOMAIN u = 1 .. Len(u)
  BY LenProperties
<1>2. /\ w \in Seq(T) /\ Len(w) = Len(s) + Len(u)
      /\ \A i \in 1 .. Len(s) + Len(u) : w[i] = IF i <= Len(s) THEN s[i] ELSE u[i - Len(s)]
  BY ConcatProperties
<1>3. DOMAIN w = 1 .. Len(s) + Len(u)
  BY <1>2, LenProperties
<1> HIDE DEF w
<1>4. \A i \in 1 .. Len(s) : i \in 1 .. Len(s) + Len(u) /\ w[i] = s[i]
  BY <1>1, <1>2
<1>5. \A i \in 1 .. Len(u) : Len(s) + i \in 1 .. Len(s) + Len(u) /\ w[Len(s) + i] = u[i]
  <2> TAKE i \in 1 .. Len(u)
  <2>1. /\ Len(s) + i \in 1 .. Len(s) + Len(u)
        /\ ~(Len(s) + i <= Len(s))
        /\ (Len(s) + i) - Len(s) = i
    BY <1>1
  <2>2. w[Len(s) + i] = u[(Len(s) + i) - Len(s)]
    BY <1>2, <2>1, Zenon
  <2> QED
    BY <2>1, <2>2
<1>6. \A i \in 1 .. Len(s) + Len(u) :
         \/ i \in 1 .. Len(s) /\ w[i] = s[i]
         \/ i - Len(s) \in 1 .. Len(u) /\ w[i] = u[i - Len(s)]
  BY <1>1, <1>2
<1>7. ToSet(w) = ToSet(s) \cup ToSet(u)
  <2>1. \A x \in ToSet(w) : x \in ToSet(s) \/ x \in ToSet(u)
    BY <1>1, <1>3, <1>6 DEF ToSet
  <2>2. \A x \in ToSet(s) : x \in ToSet(w)
    BY <1>1, <1>3, <1>4 DEF ToSet
  <2>3. \A x \in ToSet(u) : x \in ToSet(w)
    BY <1>1, <1>3, <1>5 DEF ToSet
  <2> QED
    BY <2>1, <2>2, <2>3
<1>8. ASSUME IsInjective(s), IsInjective(u), ToSet(s) \cap ToSet(u) = {}
      PROVE  IsInjective(w)
  <2> SUFFICES ASSUME NEW i \in 1 .. Len(s) + Len(u), NEW j \in 1 .. Len(s) + Len(u), w[i] = w[j]
               PROVE  i = j
    BY <1>3 DEF IsInjective
  <2>1. CASE i \in 1 .. Len(s) /\ j \in 1 .. Len(s)
    BY <1>1, <1>4, <1>8, <2>1 DEF IsInjective
  <2>2. CASE i - Len(s) \in 1 .. Len(u) /\ j - Len(s) \in 1 .. Len(u)
    <3>1. w[i] = u[i - Len(s)] /\ w[j] = u[j - Len(s)]
      BY <1>1, <1>2, <2>2
    <3>2. i - Len(s) = j - Len(s)
      BY <1>1, <1>8, <2>2, <3>1 DEF IsInjective
    <3> QED
      BY <1>1, <3>2
  <2>3. \A m \in 1 .. Len(s), n \in 1 .. Len(u) : s[m] # u[n]
    BY <1>1, <1>8 DEF ToSet
  <2>4. CASE i \in 1 .. Len(s) /\ j - Len(s) \in 1 .. Len(u)
    BY <1>1, <1>2, <2>3, <2>4
  <2>5. CASE i - Len(s) \in 1 .. Len(u) /\ j \in 1 .. Len(s)
    BY <1>1, <1>2, <2>3, <2>5
  <2> QED
    BY <1>6, <2>1, <2>2, <2>4, <2>5
<1> QED
  BY <1>2, <1>7, <1>8 DEF w

\* An item that is inserted comes to the others, each once.
LEMMA InsertItems ==
    ASSUME NEW T, NEW s \in Seq(T), IsInjective(s), NEW k \in 1 .. Len(s) + 1,
           NEW e \in T, e \notin ToSet(s)
    PROVE  /\ InsertAt(s, k, e) \in Seq(T)
           /\ ToSet(InsertAt(s, k, e)) = ToSet(s) \cup {e}
           /\ IsInjective(InsertAt(s, k, e))
<1> DEFINE before == SubSeq(s, 1, k - 1)
           after == SubSeq(s, k, Len(s))
           one == <<e>>
<1>1. Len(s) \in Nat /\ DOMAIN s = 1 .. Len(s) /\ \A i \in 1 .. Len(s) : s[i] \in T
  BY LenProperties, ElementOfSeq
<1>2. k \in Int /\ k - 1 \in 0 .. Len(s) /\ 1 \in Int /\ k - 1 \in Int
  BY <1>1
<1>3. /\ before \in Seq(T) /\ Len(before) = k - 1
      /\ \A i \in 1 .. k - 1 : before[i] = s[i]
  <2>1. \A i \in 1 .. k - 1 : s[i] \in T
    BY <1>1, <1>2
  <2>2. /\ before \in Seq(T)
        /\ Len(before) = IF 1 <= k - 1 THEN (k - 1) - 1 + 1 ELSE 0
        /\ \A i \in 1 .. (k - 1) - 1 + 1 : before[i] = s[1 + i - 1]
    BY <2>1, <1>2, SubSeqProperties
  <2> QED
    BY <1>1, <1>2, <2>2
<1>4. /\ after \in Seq(T) /\ Len(after) = Len(s) - k + 1
      /\ \A i \in 1 .. Len(s) - k + 1 : after[i] = s[k + i - 1]
  <2>1. \A i \in k .. Len(s) : s[i] \in T
    BY <1>1, <1>2
  <2>2. /\ after \in Seq(T)
        /\ Len(after) = IF k <= Len(s) THEN Len(s) - k + 1 ELSE 0
        /\ \A i \in 1 .. Len(s) - k + 1 : after[i] = s[k + i - 1]
    BY <2>1, <1>1, <1>2, SubSeqProperties
  <2> QED
    BY <1>1, <1>2, <2>2
<1>5. one \in Seq(T) /\ ToSet(one) = {e} /\ IsInjective(one)
  BY DEF ToSet, IsInjective
<1>a. /\ DOMAIN before = 1 .. k - 1
      /\ DOMAIN after = 1 .. Len(s) - k + 1
  BY <1>3, <1>4, LenProperties
<1> HIDE DEF before, after, one
<1>6. IsInjective(before) /\ ToSet(before) = {s[i] : i \in 1 .. k - 1}
  BY <1>1, <1>2, <1>3, <1>a DEF IsInjective, ToSet
<1>7. IsInjective(after) /\ ToSet(after) = {s[i] : i \in k .. Len(s)}
  <2>0. \A i \in DOMAIN after : k + i - 1 \in k .. Len(s) /\ after[i] = s[k + i - 1]
    BY <1>1, <1>2, <1>4, <1>a
  <2>1. IsInjective(after)
    <3>1. \A i \in DOMAIN after : i \in Int /\ k + i - 1 \in DOMAIN s
      BY <1>1, <1>2, <1>a
    <3>2. \A i, j \in DOMAIN after : after[i] = after[j] => k + i - 1 = k + j - 1
      BY <2>0, <3>1 DEF IsInjective
    <3> QED
      BY <1>2, <3>1, <3>2 DEF IsInjective
  <2>2. \A x \in ToSet(after) : x \in {s[i] : i \in k .. Len(s)}
    BY <2>0, Zenon DEF ToSet
  <2>3. ASSUME NEW i \in k .. Len(s)
        PROVE  s[i] \in ToSet(after)
    <3>1. i - k + 1 \in 1 .. Len(s) - k + 1 /\ after[i - k + 1] = s[i]
      BY <1>1, <1>2, <1>4
    <3> QED
      BY <3>1, <1>a DEF ToSet
  <2> QED
    BY <2>1, <2>2, <2>3
<1>8. ToSet(s) = ToSet(before) \cup ToSet(after) /\ ToSet(before) \cap ToSet(after) = {}
  <2>1. ToSet(s) = {s[i] : i \in 1 .. Len(s)}
    BY <1>1 DEF ToSet
  <2>2. \A i \in 1 .. Len(s) : i \in 1 .. k - 1 \/ i \in k .. Len(s)
    BY <1>1, <1>2
  <2>3. /\ \A i \in 1 .. k - 1 : i \in 1 .. Len(s)
        /\ \A i \in k .. Len(s) : i \in 1 .. Len(s)
    BY <1>1, <1>2
  <2>4. \A i \in 1 .. k - 1, j \in k .. Len(s) : s[i] # s[j]
    BY <1>1, <1>2 DEF IsInjective
  <2>5. ToSet(s) = ToSet(before) \cup ToSet(after)
    BY <1>6, <1>7, <2>1, <2>2, <2>3, Zenon
  <2>6. ToSet(before) \cap ToSet(after) = {}
    BY <1>6, <1>7, <2>4, Zenon
  <2> QED
    BY <2>5, <2>6
<1>9. /\ before \o one \in Seq(T)
      /\ ToSet(before \o one) = ToSet(before) \cup {e}
      /\ IsInjective(before \o one)
  <2>1. ToSet(before) \cap ToSet(one) = {}
    BY <1>5, <1>8
  <2> QED
    BY <1>3, <1>5, <1>6, <2>1, ConcatItems
<1>10. /\ (before \o one) \o after \in Seq(T)
       /\ ToSet((before \o one) \o after) = ToSet(s) \cup {e}
       /\ IsInjective((before \o one) \o after)
  <2>1. ToSet(before \o one) \cap ToSet(after) = {}
    BY <1>8, <1>9
  <2>2. /\ (before \o one) \o after \in Seq(T)
        /\ ToSet((before \o one) \o after) = ToSet(before \o one) \cup ToSet(after)
        /\ IsInjective((before \o one) \o after)
    <3> DEFINE left == before \o one
    <3>1. left \in Seq(T) /\ IsInjective(left) /\ ToSet(left) \cap ToSet(after) = {}
      BY <1>9, <2>1
    <3> HIDE DEF left
    <3>2. /\ left \o after \in Seq(T)
          /\ ToSet(left \o after) = ToSet(left) \cup ToSet(after)
          /\ IsInjective(left \o after)
      BY <1>4, <1>7, <3>1, ConcatItems
    <3> QED
      BY <3>2 DEF left
  <2> QED
    BY <2>2, <1>8, <1>9
<1> QED
  BY <1>10 DEF InsertAt, before, after, one

\* A playlist of different tracks has no more of them than there are.
LEMMA LengthBound ==
    ASSUME NEW s \in Seq(Tracks), IsInjective(s)
    PROVE  Len(s) <= Cardinality(Tracks) /\ Cardinality(Tracks) \in Nat
<1>1. Len(s) \in Nat /\ s \in [1 .. Len(s) -> Tracks]
  BY LenProperties
<1>2. IsFiniteSet(1 .. Len(s)) /\ Cardinality(1 .. Len(s)) = Len(s)
  BY <1>1, FS_Interval
<1>3. IsFiniteSet(Tracks) /\ Cardinality(Tracks) \in Nat
  BY TracksAssumption, FS_CardinalityType
<1>4. ASSUME Cardinality(Tracks) < Len(s)
      PROVE  FALSE
  <2>1. \E x, y \in 1 .. Len(s) : x # y /\ s[x] = s[y]
    BY <1>1, <1>2, <1>3, <1>4, FS_PigeonHole
  <2> QED
    BY <1>1, <2>1 DEF IsInjective
<1> QED
  BY <1>1, <1>3, <1>4

-----------------------------------------------------------------------------
(* The inductive invariant *)

\* Playlists and the queue: TypeOK, and that whatever is in a playlist has been
\* used, so that it never comes again, and that only loaded ones have items.
ItemsOK ==
    /\ loaded \subseteq Playlists
    /\ content \in [Playlists -> Seq(Tracks)]
    /\ \A p \in Playlists : IsInjective(content[p])
    /\ \A p, q \in Playlists : p # q => ToSet(content[p]) \cap ToSet(content[q]) = {}
    /\ queue \in Seq(Tracks)
    /\ IsInjective(queue)
    /\ ToSet(queue) \subseteq UNION {ToSet(content[p]) : p \in loaded}
    /\ used \subseteq Tracks \cup Playlists
    /\ loaded \subseteq used
    /\ \A p \in Playlists : ToSet(content[p]) \subseteq used
    /\ \A p \in Playlists \ loaded : content[p] = <<>>

\* A change of a playlist is one of the edits.
CountsOK ==
    /\ edits \in Versions
    /\ version \in [Playlists -> Nat]
    /\ \A p \in Playlists : version[p] <= edits

PropertiesOK ==
    /\ title \in [Playlists -> Titles]
    /\ enabled \subseteq Tracks
    /\ rating \in [Tracks -> 0 .. 5]
    /\ disk \subseteq Tracks
    /\ asked \subseteq Tracks
    /\ PhysicalDeletion \in BOOLEAN
    /\ known \subseteq Playlists

\* As long as a playlist is as it was when an id was handed out, the id's index
\* leads to the id's track.
StillThere(n) ==
    /\ n.since <= version[n.id[1]]
    /\ n.since = version[n.id[1]] =>
          /\ n.id[1] \in loaded
          /\ n.id[2] < Len(content[n.id[1]])
          /\ content[n.id[1]][n.id[2] + 1] = n.track

ToldOK ==
    /\ told \subseteq [id : TrackIds, track : Tracks, since : Versions]
    /\ \A n \in told : StillThere(n)

TrackCalls == [op : {"track"}, physically : BOOLEAN, id : TrackIds,
               track : Tracks \cup {None}, since : Versions]
Calls == {Idle} \cup TrackCalls \cup [op : {"CreatePlaylist"}, playlist : Playlists]

\* What the client of a command was told.
Meant(c) == [id |-> call[c].id, track |-> call[c].track, since |-> call[c].since]

CallsOK ==
    /\ call \in [Clients -> Calls]
    /\ \A c \in Clients : call[c].op = "track" /\ call[c].track # None => Meant(c) \in told

IInv == ItemsOK /\ CountsOK /\ PropertiesOK /\ ToldOK /\ CallsOK

-----------------------------------------------------------------------------
(* What the steps do to playlists, queue and ids *)

\* The playlists can be what they are with s as the items of p.
Fits(p, s) ==
    /\ IsInjective(s)
    /\ \A q \in Playlists \ {p} : ToSet(s) \cap ToSet(content[q]) = {}
    /\ ToSet(s) \subseteq used'
    /\ used \subseteq used' /\ used' \subseteq Tracks \cup Playlists
    /\ loaded \ {p} \subseteq loaded' /\ loaded' \subseteq loaded
    /\ s = <<>> \/ p \in loaded'

\* The items of a playlist change.
ContentChanges == \E p \in Playlists, s \in Seq(Tracks) :
    Fits(p, s) /\ SetContent(p, s) /\ Edit /\ UNCHANGED told

\* The queue alone changes.
QueueChanges ==
    /\ queue' \in Seq(Tracks) /\ IsInjective(queue')
    /\ ToSet(queue') \subseteq UNION {ToSet(content[p]) : p \in loaded}
    /\ Edit
    /\ UNCHANGED <<loaded, content, version, used, told>>

\* A playlist is created.
PlaylistAppears == \E p \in Playlists \ used :
    /\ loaded' = loaded \cup {p} /\ used' = used \cup {p}
    /\ Edit
    /\ UNCHANGED <<content, version, queue, told>>

\* Ids are handed out, or nothing happens to playlists, queue and ids.
Lists ==
    /\ UNCHANGED <<items, used>>
    /\ Edit \/ UNCHANGED edits
    /\ told \subseteq told'
    /\ \A n \in told' \ told : \E p \in loaded : \E k \in DOMAIN content[p] : n = News(p, k)

\* A look-up finds an item of the playlist.
LEMMA FoundItem ==
    ASSUME ItemsOK, NEW i \in TrackIds, NEW t \in FindPlaylistItem(i)
    PROVE  i[1] \in Playlists /\ i[1] \in loaded /\ t \in ToSet(content[i[1]]) /\ t \in Tracks
<1>1. i[1] \in Playlists /\ i[2] \in Nat
  <2>1. \A n \in 0 .. Cardinality(Tracks) - 1 : n \in Nat
    OBVIOUS
  <2> QED
    BY <2>1 DEF TrackIds
<1>2. i[1] \in loaded /\ i[2] < Len(content[i[1]]) /\ t = content[i[1]][i[2] + 1]
  BY DEF FindPlaylistItem
<1>3. content[i[1]] \in Seq(Tracks)
  BY <1>1 DEF ItemsOK
<1> DEFINE s == content[i[1]]
<1>4. Len(s) \in Nat /\ DOMAIN s = 1 .. Len(s)
  BY <1>3, LenProperties
<1>5. i[2] + 1 \in DOMAIN s
  BY <1>1, <1>2, <1>4
<1> QED
  BY <1>1, <1>2, <1>3, <1>4, <1>5, ElementOfSeq DEF ToSet

\* A command about a track carries an id.
LEMMA TrackCall ==
    ASSUME CallsOK, NEW c \in Clients, call[c].op = "track"
    PROVE  call[c] \in TrackCalls /\ call[c].id \in TrackIds
<1>1. call[c] \in Calls
  BY DEF CallsOK
<1>2. call[c] \in TrackCalls
  BY <1>1 DEF Calls, Idle
<1> QED
  BY <1>2 DEF TrackCalls

\* Taking items out of a loaded playlist fits.
LEMMA FitsWithout ==
    ASSUME ItemsOK, NEW p \in Playlists, p \in loaded, NEW S, UNCHANGED <<loaded, used>>
    PROVE  Without(content[p], S) \in Seq(Tracks) /\ Fits(p, Without(content[p], S))
<1>1. content[p] \in Seq(Tracks) /\ IsInjective(content[p])
  BY DEF ItemsOK
<1> DEFINE w == Without(content[p], S)
<1>2. w \in Seq(Tracks) /\ ToSet(w) = ToSet(content[p]) \ S /\ IsInjective(w)
  BY <1>1, WithoutProperties
<1> HIDE DEF w
<1>3. \A q \in Playlists \ {p} : ToSet(w) \cap ToSet(content[q]) = {}
  BY <1>2 DEF ItemsOK
<1> QED
  BY <1>2, <1>3 DEF Fits, ItemsOK, w

\* Putting an item into a loaded playlist fits if no playlist has it.
LEMMA FitsInsert ==
    ASSUME ItemsOK, NEW p \in Playlists, p \in loaded, NEW s \in Seq(Tracks), Fits(p, s),
           NEW k \in 1 .. Len(s) + 1, NEW t \in Tracks, t \notin ToSet(s),
           \A q \in Playlists \ {p} : t \notin ToSet(content[q]), t \in used', p \in loaded'
    PROVE  InsertAt(s, k, t) \in Seq(Tracks) /\ Fits(p, InsertAt(s, k, t))
<1> DEFINE w == InsertAt(s, k, t)
<1>1. IsInjective(s)
  BY DEF Fits
<1>2. w \in Seq(Tracks) /\ ToSet(w) = ToSet(s) \cup {t} /\ IsInjective(w)
  BY <1>1, InsertItems
<1> HIDE DEF w
<1>3. \A q \in Playlists \ {p} : ToSet(w) \cap ToSet(content[q]) = {}
  BY <1>2 DEF Fits
<1>4. ToSet(w) \subseteq used'
  BY <1>2 DEF Fits
<1> QED
  BY <1>2, <1>3, <1>4 DEF Fits, w

LEMMA UserEditsItems ==
    ASSUME ItemsOK, NEW p \in Playlists, UserEdits(p)
    PROVE  ContentChanges
<1> DEFINE s == content[p]
<1>1. s \in Seq(Tracks) /\ IsInjective(s) /\ ToSet(s) \subseteq used /\ Len(s) \in Nat
  BY LenProperties DEF ItemsOK
<1>2. p \in loaded /\ Edit /\ UNCHANGED <<loaded, told>>
  BY DEF UserEdits, ids
<1> SUFFICES \E u \in Seq(Tracks) : Fits(p, u) /\ SetContent(p, u)
  BY <1>2 DEF ContentChanges
<1>3. ASSUME NEW t \in Tracks \ used, NEW k \in 1 .. Len(s) + 1,
             SetContent(p, InsertAt(s, k, t)), used' = used \cup {t}
      PROVE  \E u \in Seq(Tracks) : Fits(p, u) /\ SetContent(p, u)
  <2>1. Fits(p, s)
    BY <1>1, <1>2, <1>3 DEF Fits, ItemsOK
  <2>2. t \notin ToSet(s) /\ \A q \in Playlists \ {p} : t \notin ToSet(content[q])
    BY <1>1 DEF ItemsOK
  <2> HIDE DEF s
  <2>3. t \in Tracks /\ t \in used' /\ p \in loaded'
    BY <1>2, <1>3
  <2>4. InsertAt(s, k, t) \in Seq(Tracks) /\ Fits(p, InsertAt(s, k, t))
    BY <1>1, <1>2, <2>1, <2>2, <2>3, FitsInsert
  <2> QED
    BY <1>3, <2>4
<1>4. ASSUME NEW t \in ToSet(s), SetContent(p, Without(s, {t})), UNCHANGED used
      PROVE  \E u \in Seq(Tracks) : Fits(p, u) /\ SetContent(p, u)
  BY <1>2, <1>4, FitsWithout
<1>5. ASSUME NEW t \in ToSet(s), NEW k \in 1 .. Len(s),
             SetContent(p, InsertAt(Without(s, {t}), k, t)), UNCHANGED used
      PROVE  \E u \in Seq(Tracks) : Fits(p, u) /\ SetContent(p, u)
  <2> DEFINE w == Without(s, {t})
  <2>1. w \in Seq(Tracks) /\ Fits(p, w)
    BY <1>2, <1>5, FitsWithout
  <2>2. ToSet(w) = ToSet(s) \ {t} /\ Len(w) = Len(s) - 1
    BY <1>1, WithoutProperties, WithoutOne
  <2>3. k \in 1 .. Len(w) + 1 /\ t \notin ToSet(w)
    <3> HIDE DEF w, s
    <3>1. Len(w) + 1 = Len(s)
      BY <1>1, <2>2
    <3>2. t \notin ToSet(w)
      BY <2>2
    <3> QED
      BY <3>1, <3>2
  <2>4. t \in Tracks /\ \A q \in Playlists \ {p} : t \notin ToSet(content[q])
    <3>1. ToSet(s) \subseteq Tracks
      BY <1>1, ElementOfSeq, LenProperties DEF ToSet
    <3> QED
      BY <3>1 DEF ItemsOK
  <2>5. t \in used' /\ p \in loaded'
    BY <1>1, <1>2, <1>5
  <2> HIDE DEF w, s
  <2>6. InsertAt(w, k, t) \in Seq(Tracks) /\ Fits(p, InsertAt(w, k, t))
    BY <1>2, <2>1, <2>3, <2>4, <2>5, FitsInsert
  <2> QED
    BY <1>5, <2>6 DEF w
<1> QED
  BY <1>3, <1>4, <1>5 DEF UserEdits

LEMMA AddFilesItems ==
    ASSUME ItemsOK, NEW p \in Playlists, AddFiles(p)
    PROVE  ContentChanges
<1>1. /\ p \in loaded /\ Edit /\ UNCHANGED <<loaded, told>>
      /\ content[p] \in Seq(Tracks) /\ IsInjective(content[p]) /\ ToSet(content[p]) \subseteq used
  BY DEF AddFiles, FindPlaylist, ItemsOK, ids
<1>2. PICK new \in NewItems : AddList(p, new)
  BY DEF AddFiles
<1>3. new \in Seq(Tracks) /\ ToSet(new) \subseteq Tracks \ used /\ IsInjective(new)
  <2>1. PICK m \in 0 .. 2 : new \in [1 .. m -> Tracks \ used]
    BY DEF NewItems, SeqOf
  <2>2. new \in Seq(Tracks \ used)
    BY <2>1, SeqDef
  <2> QED
    BY <2>1, <2>2, SeqMonotonic DEF NewItems, ToSet
<1> DEFINE w == content[p] \o new
<1>4. w \in Seq(Tracks) /\ ToSet(w) = ToSet(content[p]) \cup ToSet(new) /\ IsInjective(w)
  <2>1. ToSet(content[p]) \cap ToSet(new) = {}
    BY <1>1, <1>3
  <2> QED
    BY <1>1, <1>3, <2>1, ConcatItems
<1>5. SetContent(p, w) /\ used' = used \cup ToSet(new)
  BY <1>2 DEF AddList
<1> HIDE DEF w
<1>6. \A q \in Playlists \ {p} : ToSet(w) \cap ToSet(content[q]) = {}
  BY <1>3, <1>4 DEF ItemsOK
<1>7. Fits(p, w)
  BY <1>1, <1>3, <1>4, <1>5, <1>6 DEF Fits, ItemsOK
<1> QED
  BY <1>1, <1>4, <1>5, <1>7 DEF ContentChanges

LEMMA PlaylistRemoveItems ==
    ASSUME ItemsOK, NEW p \in Playlists, PlaylistRemove(p)
    PROVE  ContentChanges
<1>1. <<>> \in Seq(Tracks) /\ IsInjective(<<>>) /\ ToSet(<<>>) = {}
  BY DEF IsInjective, ToSet
<1>2. Fits(p, <<>>)
  BY <1>1 DEF PlaylistRemove, Fits, ItemsOK
<1> QED
  BY <1>1, <1>2 DEF PlaylistRemove, ContentChanges, ids

LEMMA RemovalItems ==
    ASSUME ItemsOK, CallsOK, NEW c \in Clients, NEW t, RemoveTrack(c, t) \/ RemoveTrackPhysically(c, t)
    PROVE  ContentChanges
<1>1. call[c].op = "track" /\ t \in FindPlaylistItem(call[c].id) /\ Edit /\ UNCHANGED <<loaded, used, told>>
  BY DEF RemoveTrack, RemoveTrackPhysically, Ends, ids
<1>2. call[c].id[1] \in Playlists /\ call[c].id[1] \in loaded
  BY <1>1, TrackCall, FoundItem
<1>3. PICK S : SetContent(call[c].id[1], Without(content[call[c].id[1]], S))
  BY DEF RemoveTrack, RemoveTrackPhysically
<1> QED
  BY <1>1, <1>2, <1>3, FitsWithout DEF ContentChanges

\* The queue without an item, or with the item at one of its ends.
LEMMA QueueItems ==
    ASSUME ItemsOK, CallsOK, NEW c \in Clients, NEW t,
           (\E atBeginning \in BOOLEAN : EnqueueTrack(c, t, atBeginning)) \/ RemoveTrackFromPlayQueue(c, t)
    PROVE  QueueChanges
<1>1. /\ call[c].op = "track" /\ t \in FindPlaylistItem(call[c].id) /\ Edit
      /\ UNCHANGED <<loaded, content, version, used, told>>
  BY DEF EnqueueTrack, RemoveTrackFromPlayQueue, Ends, ids
<1>2. t \in Tracks /\ t \in UNION {ToSet(content[p]) : p \in loaded}
  BY <1>1, TrackCall, FoundItem
<1> DEFINE w == Without(queue, {t})
           one == <<t>>
<1>3. w \in Seq(Tracks) /\ ToSet(w) = ToSet(queue) \ {t} /\ IsInjective(w)
  BY WithoutProperties DEF ItemsOK
<1>4. one \in Seq(Tracks) /\ ToSet(one) = {t} /\ IsInjective(one)
  BY <1>2 DEF ToSet, IsInjective
<1>5. Append(w, t) = w \o one
  BY <1>2, <1>3, AppendIsConcat
<1>6. queue' = w \/ queue' = one \o w \/ queue' = w \o one
  BY <1>5 DEF EnqueueTrack, RemoveTrackFromPlayQueue
<1> HIDE DEF w, one
<1>7. ToSet(w) \cap ToSet(one) = {}
  BY <1>3, <1>4
<1>8. /\ w \o one \in Seq(Tracks) /\ IsInjective(w \o one)
      /\ ToSet(w \o one) = ToSet(w) \cup {t}
  BY <1>3, <1>4, <1>7, ConcatItems
<1>9. /\ one \o w \in Seq(Tracks) /\ IsInjective(one \o w)
      /\ ToSet(one \o w) = ToSet(w) \cup {t}
  BY <1>3, <1>4, <1>7, ConcatItems
<1>10. /\ queue' \in Seq(Tracks) /\ IsInjective(queue')
       /\ ToSet(queue') \subseteq ToSet(queue) \cup {t}
  BY <1>3, <1>6, <1>8, <1>9
<1>11. ToSet(queue') \subseteq UNION {ToSet(content[p]) : p \in loaded}
  BY <1>2, <1>10 DEF ItemsOK
<1> QED
  BY <1>1, <1>10, <1>11 DEF QueueChanges

\* GetQueuedEntries hands out ids of items of loaded playlists.
LEMMA QueuedNews ==
    ASSUME ItemsOK, NEW n \in DOMAIN queue
    PROVE  \E p \in loaded : QueueNews(n).id[1] = p /\ \E k \in DOMAIN content[p] : QueueNews(n) = News(p, k)
<1> DEFINE p == CHOOSE q \in loaded : queue[n] \in ToSet(content[q])
           k == CHOOSE j \in DOMAIN content[p] : content[p][j] = queue[n]
<1>1. queue[n] \in ToSet(queue)
  BY DEF ToSet
<1>2. \E q \in loaded : queue[n] \in ToSet(content[q])
  BY <1>1 DEF ItemsOK
<1>3. p \in loaded /\ queue[n] \in ToSet(content[p])
  BY <1>2
<1>4. k \in DOMAIN content[p]
  BY <1>3 DEF ToSet
<1>5. QueueNews(n) = News(p, k)
  BY DEF QueueNews
<1>6. News(p, k).id[1] = p
  BY DEF News
<1> QED
  BY <1>3, <1>4, <1>5, <1>6

LEMMA ListingSteps ==
    ASSUME ItemsOK, GetPlaylists \/ GetPlaylistEntries \/ GetQueuedEntries
    PROVE  Lists /\ (known \subseteq Playlists => known' \subseteq Playlists)
           /\ UNCHANGED <<title, enabled, rating, disk, asked, PhysicalDeletion, call>>
<1>1. CASE GetPlaylists
  BY <1>1 DEF GetPlaylists, Lists, aimp, properties, files, ItemsOK
<1>2. ASSUME NEW P \in SUBSET loaded, ListEntries(P)
      PROVE  Lists /\ (known \subseteq Playlists => known' \subseteq Playlists)
             /\ UNCHANGED <<title, enabled, rating, disk, asked, PhysicalDeletion, call>>
  <2>1. \A n \in told' \ told : \E p \in loaded : \E k \in DOMAIN content[p] : n = News(p, k)
    BY <1>2 DEF ListEntries
  <2> QED
    BY <1>2, <2>1 DEF ListEntries, Lists, aimp, properties, files, ItemsOK
<1>3. CASE GetPlaylistEntries
  BY <1>2, <1>3 DEF GetPlaylistEntries, FindPlaylist
<1>4. CASE GetQueuedEntries
  <2>1. \A n \in told' \ told : \E p \in loaded : \E k \in DOMAIN content[p] : n = News(p, k)
    BY <1>4, QueuedNews DEF GetQueuedEntries
  <2>2. known \subseteq Playlists => known' \subseteq Playlists
    BY <1>4, QueuedNews DEF GetQueuedEntries, ItemsOK
  <2> QED
    BY <1>4, <2>1, <2>2 DEF GetQueuedEntries, Lists, aimp, properties, files
<1> QED
  BY <1>1, <1>3, <1>4

\* Every step is of one of the four kinds.
LEMMA StepKinds ==
    ASSUME ItemsOK, CallsOK, [Next]_vars
    PROVE  ContentChanges \/ QueueChanges \/ PlaylistAppears \/ Lists
<1>1. CASE UNCHANGED vars
  BY <1>1 DEF vars, aimp, ids, Lists
<1>2. CASE UserChangesSettings
  BY <1>2 DEF UserChangesSettings, ids, Lists
<1>3. CASE GetPlaylists \/ GetPlaylistEntries \/ GetQueuedEntries
  BY <1>3, ListingSteps
<1>4. ASSUME NEW p \in Playlists,
             \/ UserEdits(p) \/ AddFiles(p) \/ PlaylistRemove(p)
             \/ \E newName \in Titles : PlaylistRename(p, newName)
      PROVE  ContentChanges \/ Lists
  <2>1. CASE UserEdits(p) \/ AddFiles(p) \/ PlaylistRemove(p)
    BY <2>1, UserEditsItems, AddFilesItems, PlaylistRemoveItems
  <2>2. CASE \E newName \in Titles : PlaylistRename(p, newName)
    BY <2>2 DEF PlaylistRename, ids, Lists
  <2> QED
    BY <1>4, <2>1, <2>2
<1>5. ASSUME NEW c \in Clients, NEW i \in TrackIds, Receive(c, i)
      PROVE  Lists
  BY <1>5 DEF Receive, aimp, ids, Lists
<1>6. ASSUME NEW c \in Clients, TrackNotFound(c) \/ CreatePlaylistAnswers(c)
      PROVE  Lists
  BY <1>6 DEF TrackNotFound, CreatePlaylistAnswers, Ends, aimp, ids, Lists
<1>7. ASSUME NEW c \in Clients, NEW t \in Tracks, ActsOn(c, t)
      PROVE  ContentChanges \/ QueueChanges \/ Lists
  <2>1. CASE TrackUnchanged(c, t)
    BY <2>1 DEF TrackUnchanged, Ends, aimp, ids, Lists
  <2>2. CASE (\E atBeginning \in BOOLEAN : EnqueueTrack(c, t, atBeginning)) \/ RemoveTrackFromPlayQueue(c, t)
    BY <2>2, QueueItems
  <2>3. CASE \E on \in BOOLEAN : SetTrackEnabled(c, t, on)
    BY <2>3 DEF SetTrackEnabled, Ends, ids, Lists
  <2>4. CASE \E value \in Ratings : SetTrackRating(c, t, value)
    BY <2>4 DEF SetTrackRating, Ends, ids, Lists
  <2>5. CASE RemoveTrack(c, t) \/ RemoveTrackPhysically(c, t)
    BY <2>5, RemovalItems
  <2> QED
    BY <1>7, <2>1, <2>2, <2>3, <2>4, <2>5 DEF ActsOn
<1>8. ASSUME NEW c \in Clients, NEW p \in Playlists, NEW name \in Titles, CreatePlaylist(c, p, name)
      PROVE  PlaylistAppears
  BY <1>8 DEF CreatePlaylist, PlaylistAppears, ids
<1> QED
  BY <1>1, <1>2, <1>3, <1>4, <1>5, <1>6, <1>7, <1>8 DEF Next

-----------------------------------------------------------------------------
(* The invariant is inductive *)

LEMMA InitInv == Init => IInv
<1> SUFFICES ASSUME Init
             PROVE  IInv
  OBVIOUS
<1>1. ItemsOK
  <2>1. <<>> \in Seq(Tracks) /\ IsInjective(<<>>) /\ ToSet(<<>>) = {}
    BY DEF IsInjective, ToSet
  <2>2. \A p \in Playlists : ToSet(content[p]) \subseteq Tracks
    BY InitialAssumption, LenProperties, ElementOfSeq DEF Init, ToSet
  <2>3. \A p \in Playlists \ loaded : content[p] = <<>>
    BY DEF Init
  <2>4. used \subseteq Tracks \cup Playlists
    BY <2>2 DEF Init
  <2> QED
    BY <2>1, <2>3, <2>4, InitialAssumption DEF Init, ItemsOK
<1>2. CountsOK
  BY MaxEditsAssumption DEF Init, CountsOK, Versions
<1>3. PropertiesOK
  BY DEF Init, PropertiesOK
<1>4. ToldOK /\ CallsOK
  BY DEF Init, ToldOK, CallsOK, Calls, Idle
<1> QED
  BY <1>1, <1>2, <1>3, <1>4 DEF IInv

\* A change of a playlist leaves every item in one place, and the queue with
\* items of playlists.
LEMMA ContentKeepsItems ==
    ASSUME ItemsOK, NEW p \in Playlists, NEW s \in Seq(Tracks), Fits(p, s), SetContent(p, s)
    PROVE  ItemsOK'
<1> DEFINE gone == ToSet(content[p]) \ ToSet(s)
<1>1. /\ content' = [content EXCEPT ![p] = s]
      /\ queue' = Without(queue, gone)
      /\ content \in [Playlists -> Seq(Tracks)]
  BY DEF SetContent, ItemsOK
<1>2. content'[p] = s /\ \A q \in Playlists \ {p} : content'[q] = content[q]
  BY <1>1
<1>3. loaded' \subseteq Playlists /\ loaded' \subseteq loaded /\ loaded \ {p} \subseteq loaded'
  BY DEF Fits, ItemsOK
<1>4. queue' \in Seq(Tracks) /\ IsInjective(queue') /\ ToSet(queue') = ToSet(queue) \ gone
  BY <1>1, WithoutProperties DEF ItemsOK
<1>5. \A q \in Playlists : IsInjective(content'[q])
  BY <1>2 DEF Fits, ItemsOK
<1>6. \A q, r \in Playlists : q # r => ToSet(content'[q]) \cap ToSet(content'[r]) = {}
  BY <1>2 DEF Fits, ItemsOK
<1>7. ToSet(queue') \subseteq UNION {ToSet(content'[q]) : q \in loaded'}
  <2> SUFFICES ASSUME NEW x \in ToSet(queue')
               PROVE  \E q \in loaded' : x \in ToSet(content'[q])
    OBVIOUS
  <2>1. PICK q \in loaded : x \in ToSet(content[q])
    BY <1>4 DEF ItemsOK
  <2>2. CASE q = p
    <3>1. x \in ToSet(s)
      BY <1>4, <2>1, <2>2
    <3>2. s # <<>>
      BY <3>1 DEF ToSet
    <3> QED
      BY <1>2, <3>1, <3>2 DEF Fits
  <2>3. CASE q # p
    BY <1>2, <1>3, <2>1, <2>3
  <2> QED
    BY <2>2, <2>3
<1>8. \A q \in Playlists : ToSet(content'[q]) \subseteq used'
  BY <1>2 DEF Fits, ItemsOK
<1>9. \A q \in Playlists \ loaded' : content'[q] = <<>>
  BY <1>2 DEF Fits, ItemsOK
<1>10. loaded' \subseteq used' /\ used' \subseteq Tracks \cup Playlists
  BY <1>3 DEF Fits, ItemsOK
<1>11. content' \in [Playlists -> Seq(Tracks)]
  BY <1>1
<1> QED
  BY <1>3, <1>4, <1>5, <1>6, <1>7, <1>8, <1>9, <1>10, <1>11 DEF ItemsOK

LEMMA ItemsStep == ItemsOK /\ CallsOK /\ [Next]_vars => ItemsOK'
<1> SUFFICES ASSUME ItemsOK, CallsOK, [Next]_vars
             PROVE  ItemsOK'
  OBVIOUS
<1>1. CASE ContentChanges
  BY <1>1, ContentKeepsItems DEF ContentChanges
<1>2. CASE QueueChanges
  BY <1>2 DEF QueueChanges, ItemsOK
<1>3. CASE PlaylistAppears
  BY <1>3 DEF PlaylistAppears, ItemsOK
<1>4. CASE Lists
  BY <1>4 DEF Lists, items, ItemsOK
<1> QED
  BY <1>1, <1>2, <1>3, <1>4, StepKinds

LEMMA CountsStep == IInv /\ [Next]_vars => CountsOK'
<1> SUFFICES ASSUME IInv, [Next]_vars
             PROVE  CountsOK'
  OBVIOUS
<1> USE MaxEditsAssumption DEF CountsOK, Versions
<1>1. CountsOK
  BY DEF IInv
<1>2. CASE ContentChanges
  <2>1. PICK p \in Playlists : version' = [version EXCEPT ![p] = @ + 1]
    BY <1>2 DEF ContentChanges, SetContent
  <2>2. edits' = edits + 1 /\ edits < MaxEdits
    BY <1>2 DEF ContentChanges, Edit
  <2> QED
    BY <1>1, <2>1, <2>2
<1>3. CASE QueueChanges
  BY <1>1, <1>3 DEF QueueChanges, Edit
<1>4. CASE PlaylistAppears
  BY <1>1, <1>4 DEF PlaylistAppears, Edit
<1>5. CASE Lists
  BY <1>1, <1>5 DEF Lists, items, Edit
<1> QED
  BY <1>2, <1>3, <1>4, <1>5, StepKinds DEF IInv

\* Every id that is handed out is one, and stands for what is there.
LEMMA NewsIsTrue ==
    ASSUME ItemsOK, CountsOK, NEW p \in loaded, NEW k \in DOMAIN content[p]
    PROVE  /\ News(p, k) \in [id : TrackIds, track : Tracks, since : Versions]
           /\ StillThere(News(p, k))
<1> DEFINE s == content[p]
<1>1. p \in Playlists /\ s \in Seq(Tracks) /\ IsInjective(s)
  BY DEF ItemsOK
<1>2. Len(s) \in Nat /\ DOMAIN s = 1 .. Len(s) /\ Len(s) <= Cardinality(Tracks) /\ Cardinality(Tracks) \in Nat
  BY <1>1, LenProperties, LengthBound
<1>3. k \in 1 .. Len(s) /\ s[k] \in Tracks
  BY <1>1, <1>2, ElementOfSeq
<1>4. k - 1 \in 0 .. Cardinality(Tracks) - 1 /\ k - 1 < Len(s) /\ (k - 1) + 1 = k
  BY <1>2, <1>3
<1>5. version[p] \in Versions /\ version[p] \in Nat
  BY <1>1, MaxEditsAssumption DEF CountsOK, Versions
<1>6. <<p, k - 1>> \in TrackIds
  BY <1>1, <1>4 DEF TrackIds
<1> HIDE DEF s
<1>7. News(p, k).id[1] = p /\ News(p, k).id[2] = k - 1 /\ News(p, k).since = version[p] /\ News(p, k).track = s[k]
  BY DEF News, s
<1>8. StillThere(News(p, k))
  <2>1. content[p][k - 1 + 1] = s[k] /\ k - 1 < Len(content[p])
    BY <1>4 DEF s
  <2> QED
    BY <1>5, <1>7, <2>1 DEF StillThere
<1>9. News(p, k) \in [id : TrackIds, track : Tracks, since : Versions]
  BY <1>3, <1>5, <1>6 DEF News, s
<1> QED
  BY <1>8, <1>9

LEMMA ToldStep == IInv /\ [Next]_vars => ToldOK'
<1> SUFFICES ASSUME IInv, [Next]_vars
             PROVE  ToldOK'
  OBVIOUS
<1>1. ItemsOK /\ CountsOK /\ ToldOK
  BY DEF IInv
<1>2. ASSUME NEW n \in told
      PROVE  n.id[1] \in Playlists /\ n.since \in Nat /\ StillThere(n)
  BY <1>1, MaxEditsAssumption DEF ToldOK, TrackIds, Versions
<1>3. CASE ContentChanges
  <2>1. PICK p \in Playlists, s \in Seq(Tracks) : Fits(p, s) /\ SetContent(p, s) /\ told' = told
    BY <1>3 DEF ContentChanges
  <2>2. /\ content' = [content EXCEPT ![p] = s] /\ version' = [version EXCEPT ![p] = @ + 1]
        /\ content \in [Playlists -> Seq(Tracks)] /\ version \in [Playlists -> Nat]
    BY <1>1, <2>1 DEF SetContent, ItemsOK, CountsOK
  <2>3. loaded \ {p} \subseteq loaded'
    BY <2>1 DEF Fits
  <2>4. ASSUME NEW n \in told
        PROVE  StillThere(n)'
    <3>1. n.id[1] \in Playlists /\ n.since \in Nat /\ StillThere(n)
      BY <1>2
    <3>2. CASE n.id[1] = p
      <4>1. version'[p] = version[p] + 1 /\ n.since <= version[p] /\ version[p] \in Nat
        BY <2>2, <3>1, <3>2 DEF StillThere
      <4> QED
        BY <3>1, <3>2, <4>1 DEF StillThere
    <3>3. CASE n.id[1] # p
      <4>1. version'[n.id[1]] = version[n.id[1]] /\ content'[n.id[1]] = content[n.id[1]]
        BY <2>2, <3>1, <3>3
      <4> QED
        BY <2>3, <3>1, <3>3, <4>1 DEF StillThere
    <3> QED
      BY <3>2, <3>3
  <2> QED
    BY <1>1, <2>1, <2>4 DEF ToldOK
<1>4. CASE QueueChanges
  BY <1>1, <1>4 DEF QueueChanges, ToldOK, StillThere
<1>5. CASE PlaylistAppears
  BY <1>1, <1>5 DEF PlaylistAppears, ToldOK, StillThere
<1>6. CASE Lists
  <2>1. ASSUME NEW n \in told'
        PROVE  n \in [id : TrackIds, track : Tracks, since : Versions] /\ StillThere(n)
    <3>1. CASE n \in told
      BY <1>1, <3>1 DEF ToldOK
    <3>2. CASE n \notin told
      BY <1>1, <1>6, <3>2, NewsIsTrue DEF Lists
    <3> QED
      BY <3>1, <3>2
  <2> QED
    BY <1>6, <2>1 DEF Lists, items, ToldOK, StillThere
<1> QED
  BY <1>3, <1>4, <1>5, <1>6, StepKinds DEF IInv

\* Nothing but RemoveTrackPhysically changes files, and it deletes the one file
\* of the track that was found: the index it looks for is that track's only.
LEMMA PhysicalRemoval ==
    ASSUME ItemsOK, CallsOK, NEW c \in Clients, NEW t, RemoveTrackPhysically(c, t)
    PROVE  t \in Tracks /\ disk' = disk \ {t} /\ asked' = asked \cup {t}
<1> DEFINE p == call[c].id[1]
           index == CHOOSE k \in DOMAIN content[p] : content[p][k] = t
<1>1. /\ call[c].op = "track" /\ t \in FindPlaylistItem(call[c].id)
      /\ disk' = disk \ DeleteOnlyIndex(p, index) /\ asked' = asked \cup {t}
  BY DEF RemoveTrackPhysically, Ends
<1>2. t \in ToSet(content[p]) /\ t \in Tracks
  BY <1>1, TrackCall, FoundItem
<1>3. index \in DOMAIN content[p] /\ content[p][index] = t
  BY <1>2 DEF ToSet
<1>4. DeleteOnlyIndex(p, index) = {t}
  BY <1>3 DEF DeleteOnlyIndex
<1> QED
  BY <1>1, <1>2, <1>4

LEMMA PropertiesStep == IInv /\ [Next]_vars => PropertiesOK'
<1> SUFFICES ASSUME IInv, [Next]_vars
             PROVE  PropertiesOK'
  OBVIOUS
<1> USE DEF PropertiesOK
<1>0. ItemsOK /\ CallsOK /\ PropertiesOK
  BY DEF IInv
<1>1. CASE UNCHANGED vars
  BY <1>0, <1>1 DEF vars, aimp, ids, properties, files
<1>2. CASE UserChangesSettings
  BY <1>0, <1>2 DEF UserChangesSettings, ids, properties, files
<1>3. CASE GetPlaylists \/ GetPlaylistEntries \/ GetQueuedEntries
  BY <1>0, <1>3, ListingSteps
<1>4. ASSUME NEW p \in Playlists, UserEdits(p) \/ AddFiles(p) \/ PlaylistRemove(p)
      PROVE  PropertiesOK'
  BY <1>0, <1>4 DEF UserEdits, AddFiles, PlaylistRemove, ids, properties, files
<1>5. ASSUME NEW p \in Playlists, NEW newName \in Titles, PlaylistRename(p, newName)
      PROVE  PropertiesOK'
  BY <1>0, <1>5 DEF PlaylistRename, ids, files
<1>6. ASSUME NEW c \in Clients, NEW i \in TrackIds, Receive(c, i)
      PROVE  PropertiesOK'
  BY <1>0, <1>6 DEF Receive, aimp, ids, properties, files
<1>7. ASSUME NEW c \in Clients, TrackNotFound(c)
      PROVE  PropertiesOK'
  BY <1>0, <1>7 DEF TrackNotFound, Ends, aimp, ids, properties, files
<1>8. ASSUME NEW c \in Clients, NEW t \in Tracks, ActsOn(c, t)
      PROVE  PropertiesOK'
  <2>1. CASE TrackUnchanged(c, t)
    BY <1>0, <2>1 DEF TrackUnchanged, Ends, aimp, ids, properties, files
  <2>2. CASE (\E atBeginning \in BOOLEAN : EnqueueTrack(c, t, atBeginning)) \/ RemoveTrackFromPlayQueue(c, t)
    BY <1>0, <2>2 DEF EnqueueTrack, RemoveTrackFromPlayQueue, Ends, ids, properties, files
  <2>3. CASE \E on \in BOOLEAN : SetTrackEnabled(c, t, on)
    BY <1>0, <2>3 DEF SetTrackEnabled, Ends, ids, files
  <2>4. ASSUME NEW value \in Ratings, SetTrackRating(c, t, value)
        PROVE  PropertiesOK'
    <3>1. Clamp(value) \in 0 .. 5
      BY RatingsAssumption DEF Clamp
    <3> QED
      BY <1>0, <2>4, <3>1 DEF SetTrackRating, Ends, ids, files
  <2>5. CASE RemoveTrack(c, t)
    BY <1>0, <2>5 DEF RemoveTrack, Ends, ids, properties, files
  <2>6. CASE RemoveTrackPhysically(c, t)
    <3>1. t \in Tracks /\ disk' = disk \ {t} /\ asked' = asked \cup {t}
      BY <1>0, <2>6, PhysicalRemoval
    <3> QED
      BY <1>0, <2>6, <3>1 DEF RemoveTrackPhysically, Ends, ids, properties
  <2> QED
    BY <1>8, <2>1, <2>2, <2>3, <2>4, <2>5, <2>6 DEF ActsOn
<1>9. ASSUME NEW c \in Clients, NEW p \in Playlists, NEW name \in Titles, CreatePlaylist(c, p, name)
      PROVE  PropertiesOK'
  BY <1>0, <1>9 DEF CreatePlaylist, ids, files
<1>10. ASSUME NEW c \in Clients, CreatePlaylistAnswers(c)
       PROVE  PropertiesOK'
  <2>1. call[c] \in Calls /\ call[c].op = "CreatePlaylist"
    BY <1>0, <1>10 DEF CallsOK, CreatePlaylistAnswers
  <2>2. call[c].playlist \in Playlists
    BY <2>1 DEF Calls, Idle, TrackCalls
  <2> QED
    BY <1>0, <1>10, <2>2 DEF CreatePlaylistAnswers, aimp, properties, files
<1> QED
  BY <1>1, <1>2, <1>3, <1>4, <1>5, <1>6, <1>7, <1>8, <1>9, <1>10 DEF Next

\* A command on its way keeps what its client was told.
LEMMA CallsKept ==
    ASSUME CallsOK, told \subseteq told', NEW c \in Clients, NEW m \in Calls,
           m.op = "track" /\ m.track # None =>
              [id |-> m.id, track |-> m.track, since |-> m.since] \in told,
           call' = call \/ call' = [call EXCEPT ![c] = m]
    PROVE  CallsOK'
<1>1. \A d \in Clients : call'[d] = call[d] \/ call'[d] = m
  BY DEF CallsOK
<1>2. call' \in [Clients -> Calls]
  BY DEF CallsOK
<1>3. ASSUME NEW d \in Clients, call'[d].op = "track", call'[d].track # None
      PROVE  Meant(d)' \in told'
  BY <1>1, <1>3 DEF CallsOK, Meant
<1> QED
  BY <1>2, <1>3 DEF CallsOK

LEMMA CallsStep == IInv /\ [Next]_vars => CallsOK'
<1> SUFFICES ASSUME IInv, [Next]_vars
             PROVE  CallsOK'
  OBVIOUS
<1>0. ItemsOK /\ CallsOK /\ ToldOK
  BY DEF IInv
<1>a. told \subseteq told'
  BY <1>0, StepKinds DEF ContentChanges, QueueChanges, PlaylistAppears, Lists
<1>b. Idle \in Calls /\ ~(Idle.op = "track")
  BY DEF Calls, Idle
<1>c. ASSUME UNCHANGED call
      PROVE  CallsOK'
  BY <1>0, <1>a, <1>c DEF CallsOK, Meant
<1>d. ASSUME NEW c \in Clients, call' = [call EXCEPT ![c] = Idle]
      PROVE  CallsOK'
  BY <1>0, <1>a, <1>b, <1>d, CallsKept
<1>1. CASE UNCHANGED vars
  BY <1>c, <1>1 DEF vars
<1>2. CASE UserChangesSettings
  BY <1>c, <1>2 DEF UserChangesSettings
<1>3. CASE GetPlaylists \/ GetPlaylistEntries \/ GetQueuedEntries
  BY <1>0, <1>c, <1>3, ListingSteps
<1>4. ASSUME NEW p \in Playlists,
             \/ UserEdits(p) \/ AddFiles(p) \/ PlaylistRemove(p)
             \/ \E newName \in Titles : PlaylistRename(p, newName)
      PROVE  CallsOK'
  BY <1>c, <1>4 DEF UserEdits, AddFiles, PlaylistRemove, PlaylistRename
<1>5. ASSUME NEW c \in Clients, NEW i \in TrackIds, Receive(c, i)
      PROVE  CallsOK'
  <2>1. PICK physically \in BOOLEAN :
           \/ \E n \in told :
                 /\ n.id = i
                 /\ call' = [call EXCEPT ![c] =
                       [op |-> "track", physically |-> physically, id |-> i,
                        track |-> n.track, since |-> n.since]]
           \/ call' = [call EXCEPT ![c] =
                 [op |-> "track", physically |-> physically, id |-> i, track |-> None, since |-> 0]]
    BY <1>5 DEF Receive
  <2>2. ASSUME NEW n \in told, n.id = i,
               call' = [call EXCEPT ![c] = [op |-> "track", physically |-> physically, id |-> i,
                                            track |-> n.track, since |-> n.since]]
        PROVE  CallsOK'
    <3> DEFINE m == [op |-> "track", physically |-> physically, id |-> i,
                     track |-> n.track, since |-> n.since]
    <3>1. n \in [id : TrackIds, track : Tracks, since : Versions]
      BY <1>0 DEF ToldOK
    <3>2. m \in TrackCalls
      BY <3>1 DEF TrackCalls
    <3>3. [id |-> m.id, track |-> m.track, since |-> m.since] = n
      BY <2>2, <3>1
    <3> HIDE DEF m
    <3>4. m \in Calls
      BY <3>2 DEF Calls
    <3>5. [id |-> m.id, track |-> m.track, since |-> m.since] \in told
      BY <3>3
    <3> QED
      BY <1>0, <1>a, <2>2, <3>4, <3>5, CallsKept DEF m
  <2>3. ASSUME call' = [call EXCEPT ![c] = [op |-> "track", physically |-> physically, id |-> i,
                                            track |-> None, since |-> 0]]
        PROVE  CallsOK'
    <3> DEFINE m == [op |-> "track", physically |-> physically, id |-> i, track |-> None, since |-> 0]
    <3>1. m \in TrackCalls /\ m.track = None
      BY MaxEditsAssumption DEF TrackCalls, Versions
    <3> HIDE DEF m
    <3>2. m \in Calls
      BY <3>1 DEF Calls
    <3> QED
      BY <1>0, <1>a, <2>3, <3>1, <3>2, CallsKept DEF m
  <2> QED
    BY <2>1, <2>2, <2>3
<1>6. ASSUME NEW c \in Clients, TrackNotFound(c) \/ CreatePlaylistAnswers(c)
      PROVE  CallsOK'
  BY <1>d, <1>6 DEF TrackNotFound, CreatePlaylistAnswers, Ends
<1>7. ASSUME NEW c \in Clients, NEW t \in Tracks, ActsOn(c, t)
      PROVE  CallsOK'
  BY <1>d, <1>7 DEF ActsOn, TrackUnchanged, EnqueueTrack, RemoveTrackFromPlayQueue, SetTrackEnabled,
     SetTrackRating, RemoveTrack, RemoveTrackPhysically, Ends
<1>8. ASSUME NEW c \in Clients, NEW p \in Playlists, NEW name \in Titles, CreatePlaylist(c, p, name)
      PROVE  CallsOK'
  <2> DEFINE m == [op |-> "CreatePlaylist", playlist |-> p]
  <2>1. m \in Calls /\ ~(m.op = "track") /\ call' = [call EXCEPT ![c] = m]
    BY <1>8 DEF CreatePlaylist, Calls
  <2> HIDE DEF m
  <2> QED
    BY <1>0, <1>a, <2>1, CallsKept
<1> QED
  BY <1>1, <1>2, <1>3, <1>4, <1>5, <1>6, <1>7, <1>8 DEF Next

LEMMA Inductive == Spec => []IInv
<1>1. IInv /\ [Next]_vars => IInv'
  BY ItemsStep, CountsStep, PropertiesStep, ToldStep, CallsStep DEF IInv
<1> QED
  BY InitInv, <1>1, PTL DEF Spec

-----------------------------------------------------------------------------
(* The theorems *)

\* PlaylistCommands is type correct: however clients and the user edit, every
\* item is in one place of one playlist, and the queue holds each of its items
\* once and none of a playlist that is gone.
THEOREM TypeCorrect == Spec => []TypeOK
<1>1. IInv => TypeOK
  <2> SUFFICES ASSUME IInv
               PROVE  TypeOK
    OBVIOUS
  <2>1. version \in [Playlists -> Versions]
    BY MaxEditsAssumption DEF IInv, CountsOK, Versions
  <2>2. call \in [Clients ->
          {Idle} \cup [op : {"track"}, physically : BOOLEAN, id : TrackIds,
                       track : Tracks \cup {None}, since : Versions]
                 \cup [op : {"CreatePlaylist"}, playlist : Playlists]]
    BY DEF IInv, CallsOK, Calls, TrackCalls
  <2>3. edits \in 0 .. MaxEdits
    BY DEF IInv, CountsOK, Versions
  <2>4. told \subseteq [id : TrackIds, track : Tracks, since : Versions]
    BY DEF IInv, ToldOK
  <2> QED
    BY <2>1, <2>2, <2>3, <2>4 DEF IInv, ItemsOK, PropertiesOK, TypeOK
<1> QED
  BY Inductive, <1>1, PTL

\* The look-up and every listing agree about what an id stands for: while the
\* playlist of an id is as it was, a command finds the track that was meant,
\* for any number of playlists, tracks and clients.
THEOREM LookupFindsWhatIsMeant == Spec => []FindsWhatIsMeant
<1>1. IInv => FindsWhatIsMeant
  <2> SUFFICES ASSUME IInv, NEW c \in Clients, call[c].op = "track", UpToDate(c)
               PROVE  FindPlaylistItem(call[c].id) = {call[c].track}
    BY DEF FindsWhatIsMeant
  <2> DEFINE n == Meant(c)
  <2>1. n \in told /\ StillThere(n)
    BY DEF IInv, CallsOK, ToldOK, UpToDate
  <2>2. n.id = call[c].id /\ n.track = call[c].track /\ n.since = call[c].since
    BY DEF Meant
  <2>3. n.since = version[n.id[1]]
    BY <2>2 DEF UpToDate
  <2> HIDE DEF n
  <2> QED
    BY <2>1, <2>2, <2>3 DEF StillThere, FindPlaylistItem
<1> QED
  BY Inductive, <1>1, PTL

\* No file is deleted but that of a track which a command to delete the file
\* has found: DeleteOnlyIndex accepts one item, whatever the playlist holds.
THEOREM NoOtherFileDeleted == Spec => []OnlyAskedFilesDeleted
<1>1. Init => OnlyAskedFilesDeleted
  BY DEF Init, OnlyAskedFilesDeleted
<1>2. IInv /\ OnlyAskedFilesDeleted /\ [Next]_vars => OnlyAskedFilesDeleted'
  <2> SUFFICES ASSUME IInv, OnlyAskedFilesDeleted, [Next]_vars
               PROVE  OnlyAskedFilesDeleted'
    OBVIOUS
  <2>0. ItemsOK /\ CallsOK
    BY DEF IInv
  <2>a. ASSUME UNCHANGED files
        PROVE  OnlyAskedFilesDeleted'
    BY <2>a DEF files, OnlyAskedFilesDeleted
  <2>1. CASE UNCHANGED vars
    BY <2>a, <2>1 DEF vars, aimp
  <2>2. CASE UserChangesSettings
    BY <2>a, <2>2 DEF UserChangesSettings
  <2>3. CASE GetPlaylists \/ GetPlaylistEntries \/ GetQueuedEntries
    BY <2>0, <2>3, <2>a, ListingSteps DEF files
  <2>4. ASSUME NEW p \in Playlists,
               \/ UserEdits(p) \/ AddFiles(p) \/ PlaylistRemove(p)
               \/ \E newName \in Titles : PlaylistRename(p, newName)
        PROVE  OnlyAskedFilesDeleted'
    BY <2>a, <2>4 DEF UserEdits, AddFiles, PlaylistRemove, PlaylistRename
  <2>5. ASSUME NEW c \in Clients,
               \/ \E i \in TrackIds : Receive(c, i)
               \/ TrackNotFound(c)
               \/ \E p \in Playlists, name \in Titles : CreatePlaylist(c, p, name)
               \/ CreatePlaylistAnswers(c)
        PROVE  OnlyAskedFilesDeleted'
    BY <2>a, <2>5 DEF Receive, TrackNotFound, CreatePlaylist, CreatePlaylistAnswers, aimp
  <2>6. ASSUME NEW c \in Clients, NEW t \in Tracks, ActsOn(c, t)
        PROVE  OnlyAskedFilesDeleted'
    <3>1. CASE RemoveTrackPhysically(c, t)
      BY <2>0, <3>1, PhysicalRemoval DEF OnlyAskedFilesDeleted
    <3>2. CASE ~RemoveTrackPhysically(c, t)
      BY <2>6, <2>a, <3>2 DEF ActsOn, TrackUnchanged, EnqueueTrack, RemoveTrackFromPlayQueue,
         SetTrackEnabled, SetTrackRating, RemoveTrack, aimp
    <3> QED
      BY <3>1, <3>2
  <2> QED
    BY <2>1, <2>2, <2>3, <2>4, <2>5, <2>6 DEF Next
<1> QED
  BY Inductive, <1>1, <1>2, PTL DEF Spec

\* Adding tracks leaves every id right: they are appended, so what an id found
\* before it finds after.
THEOREM AddingKeepsEveryId == Spec => AddingKeepsIds
<1>1. ASSUME IInv, NEW p \in Playlists, AddFiles(p), NEW i \in TrackIds
      PROVE  FindPlaylistItem(i) \subseteq FindPlaylistItem(i)'
  <2>0. ItemsOK /\ told' = told /\ loaded' = loaded
    BY <1>1 DEF IInv, AddFiles, ids
  <2>1. PICK new \in NewItems : content' = [content EXCEPT ![p] = content[p] \o new]
    BY <1>1 DEF AddFiles, AddList, SetContent
  <2>2. new \in Seq(Tracks)
    <3>1. PICK m \in 0 .. 2 : new \in [1 .. m -> Tracks \ used]
      BY DEF NewItems, SeqOf
    <3> QED
      BY <3>1, SeqDef, SeqMonotonic
  <2>3. content \in [Playlists -> Seq(Tracks)] /\ i[1] \in Playlists /\ i[2] \in Nat
    <3>1. \A n \in 0 .. Cardinality(Tracks) - 1 : n \in Nat
      OBVIOUS
    <3> QED
      BY <2>0, <3>1 DEF ItemsOK, TrackIds
  <2> DEFINE s == content[i[1]]
  <2>4. ASSUME (\E n \in told : n.id = i), i[1] \in loaded, i[2] < Len(s)
        PROVE  i[2] < Len(content'[i[1]]) /\ content'[i[1]][i[2] + 1] = s[i[2] + 1]
    <3>1. CASE i[1] = p
      <4>1. s \in Seq(Tracks) /\ Len(s) \in Nat /\ Len(new) \in Nat
        BY <2>2, <2>3, LenProperties
      <4>2. content'[i[1]] = s \o new
        BY <2>1, <2>3, <3>1
      <4> HIDE DEF s
      <4>3. i[2] + 1 \in 1 .. Len(s) + Len(new) /\ i[2] + 1 <= Len(s) /\ i[2] < Len(s) + Len(new)
        BY <2>3, <2>4, <4>1
      <4> QED
        BY <2>2, <4>1, <4>2, <4>3, ConcatProperties
    <3>2. CASE i[1] # p
      BY <2>1, <2>3, <2>4, <3>2
    <3> QED
      BY <3>1, <3>2
  <2> QED
    BY <2>0, <2>4 DEF FindPlaylistItem
<1>2. IInv /\ [Next]_vars =>
         [\A p \in Playlists : AddFiles(p) =>
             \A i \in TrackIds : FindPlaylistItem(i) \subseteq FindPlaylistItem(i)']_vars
  BY <1>1
<1> QED
  BY Inductive, <1>2, PTL DEF Spec, AddingKeepsIds
=============================================================================
