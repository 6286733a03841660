----------------------------- MODULE PlayerProofs -----------------------------
(***************************************************************************)
(* Proofs about the two modules that act on the player by themselves.      *)
(* About PlayerControl: the answers to writes of a property, for any       *)
(* properties and bands, and the buttons, for any playlists of any sizes.  *)
(* About SleepTimer: for any callers, actions, delays and bounds.  The     *)
(* first part rests on facts about Float32: how far a rounded result is    *)
(* from the exact one, and when it is the exact one.                       *)
(***************************************************************************)
EXTENDS SleepTimer, PlayerControl, WellFoundedInduction, TLAPS

-----------------------------------------------------------------------------
(***************************************************************************)
(* The powers of two.                                                      *)
(***************************************************************************)
\* Induction over the natural numbers, for sets.
LEMMA NatSetInduction ==
    ASSUME NEW S, 0 \in S, \A n \in Nat : n \in S => n + 1 \in S
    PROVE  Nat \subseteq S
<1> DEFINE T == Nat \ S
<1>1. SUFFICES ASSUME T # {} PROVE FALSE
    OBVIOUS
<1>2. PICK x \in T : \A y \in T : ~(<<y, x>> \in OpToRel(<, Nat))
    BY <1>1, NatLessThanWellFounded, WFMin
<1>3. x - 1 \in T /\ x - 1 < x
    OBVIOUS
<1>4. <<x - 1, x>> \in OpToRel(<, Nat)
    BY <1>3 DEF OpToRel
<1> QED BY <1>2, <1>3, <1>4

\* The recursion that defines TwoTo has a solution.
LEMMA TwoToIsDefined ==
    TwoTo = [n \in Nat |-> IF n = 0 THEN 1 ELSE 2 * TwoTo[n - 1]]
<1> DEFINE Upto(n, g) == /\ g \in [0 .. n -> Int]
                         /\ \A i \in 0 .. n : g[i] = IF i = 0 THEN 1 ELSE 2 * g[i - 1]
           Some(n) == CHOOSE g \in [0 .. n -> Int] : Upto(n, g)
           f == [n \in Nat |-> Some(n)[n]]
<1>1. \A n \in Nat : \E g \in [0 .. n -> Int] : Upto(n, g)
    <2> DEFINE S == {n \in Nat : \E g \in [0 .. n -> Int] : Upto(n, g)}
    <2>1. 0 \in S
        <3>1. Upto(0, [i \in 0 .. 0 |-> 1])
            OBVIOUS
        <3> QED BY <3>1
    <2>2. ASSUME NEW n \in Nat, n \in S PROVE n + 1 \in S
        <3>1. PICK g \in [0 .. n -> Int] : Upto(n, g)
            BY <2>2
        <3> DEFINE h == [i \in 0 .. n + 1 |-> IF i <= n THEN g[i] ELSE 2 * g[n]]
        <3>2. h \in [0 .. n + 1 -> Int]
            OBVIOUS
        <3>3. ASSUME NEW i \in 0 .. n + 1 PROVE h[i] = IF i = 0 THEN 1 ELSE 2 * h[i - 1]
            <4>1. CASE i <= n
                <5>1. i \in 0 .. n /\ (i # 0 => i - 1 \in 0 .. n + 1 /\ i - 1 <= n)
                    BY <4>1
                <5> QED BY <3>1, <4>1, <5>1
            <4>2. CASE i = n + 1
                BY <4>2
            <4> QED BY <4>1, <4>2
        <3> HIDE DEF h
        <3>4. Upto(n + 1, h)
            BY <3>2, <3>3
        <3> HIDE DEF Upto
        <3> QED BY <3>2, <3>4
    <2> HIDE DEF S
    <2>3. Nat \subseteq S
        BY <2>1, <2>2, NatSetInduction
    <2> QED BY <2>3 DEF S
<1>2. \A n \in Nat : Upto(n, Some(n))
    <2> TAKE n \in Nat
    <2>1. \E g \in [0 .. n -> Int] : Upto(n, g)
        BY <1>1
    <2> HIDE DEF Upto
    <2> QED BY <2>1
<1>3. ASSUME NEW n \in Nat PROVE Some(n + 1)[n] = Some(n)[n]
    <2> DEFINE S == {i \in Nat : i <= n => Some(n + 1)[i] = Some(n)[i]}
    <2>0. n + 1 \in Nat
        OBVIOUS
    <2>a. Upto(n, Some(n)) /\ Upto(n + 1, Some(n + 1))
        BY <1>2, <2>0
    <2> HIDE DEF Some
    <2>1. 0 \in S
        BY <2>a
    <2>2. ASSUME NEW i \in Nat, i \in S PROVE i + 1 \in S
        <3>1. i + 1 <= n => /\ i + 1 \in 0 .. n /\ i + 1 \in 0 .. n + 1 /\ i + 1 # 0 /\ (i + 1) - 1 = i
            OBVIOUS
        <3>2. i + 1 <= n => Some(n + 1)[i + 1] = 2 * Some(n + 1)[i] /\ Some(n)[i + 1] = 2 * Some(n)[i]
            BY <2>a, <3>1
        <3> QED BY <2>2, <3>2
    <2> HIDE DEF S
    <2>3. Nat \subseteq S
        BY <2>1, <2>2, NatSetInduction
    <2> QED BY <2>3 DEF S
<1>4. ASSUME NEW n \in Nat PROVE f[n] = IF n = 0 THEN 1 ELSE 2 * f[n - 1]
    <2>1. Upto(n, Some(n))
        BY <1>2
    <2>2. CASE n = 0
        <3> HIDE DEF Some
        <3> QED BY <2>1, <2>2
    <2>3. CASE n # 0
        <3>1. n - 1 \in Nat /\ (n - 1) + 1 = n
            BY <2>3
        <3>2. Some(n)[n - 1] = Some(n - 1)[n - 1]
            BY <1>3, <3>1
        <3> HIDE DEF Some
        <3>3. Some(n)[n] = 2 * Some(n)[n - 1]
            BY <2>1, <2>3
        <3> QED BY <3>1, <3>2, <3>3, <2>3
    <2> QED BY <2>2, <2>3
<1>5. f = [n \in Nat |-> IF n = 0 THEN 1 ELSE 2 * f[n - 1]]
    <2> HIDE DEF Some
    <2> QED BY <1>4
<1> HIDE DEF f
<1> QED BY <1>5 DEF TwoTo

\* The powers of two, from their recursion.
LEMMA TwoToStep ==
    /\ TwoTo \in [Nat -> Nat \ {0}]
    /\ TwoTo[0] = 1
    /\ \A n \in Nat : TwoTo[n + 1] = 2 * TwoTo[n]
<1>1. TwoTo[0] = 1
    BY TwoToIsDefined
<1>2. \A n \in Nat : TwoTo[n + 1] = 2 * TwoTo[n]
    <2> TAKE n \in Nat
    <2>1. n + 1 \in Nat /\ n + 1 # 0 /\ (n + 1) - 1 = n
        OBVIOUS
    <2> QED BY <2>1, TwoToIsDefined
<1>3. \A n \in Nat : TwoTo[n] \in Nat \ {0}
    <2> DEFINE S == {n \in Nat : TwoTo[n] \in Nat \ {0}}
    <2>1. 0 \in S
        BY <1>1
    <2>2. \A n \in Nat : n \in S => n + 1 \in S
        BY <1>2
    <2> HIDE DEF S
    <2>3. Nat \subseteq S
        BY <2>1, <2>2, NatSetInduction
    <2> QED BY <2>3 DEF S
<1>4. TwoTo \in [Nat -> Nat \ {0}]
    <2>1. DOMAIN TwoTo = Nat
        BY TwoToIsDefined
    <2>2. TwoTo = [n \in Nat |-> TwoTo[n]]
        BY TwoToIsDefined, <2>1
    <2> QED BY <1>3, <2>2
<1> QED BY <1>1, <1>2, <1>4

\* No power of two is zero.
LEMMA TwoToPositive == \A n \in Nat : TwoTo[n] \in Nat \ {0}
BY TwoToStep

\* What the solvers do not try of the product of integers.
LEMMA Products ==
    /\ \A x, y, z \in Int : x * (y * z) = (x * y) * z
    /\ \A x, y \in Int : x * y \in Int /\ x * y = y * x
    /\ \A x, y, p \in Int : p > 0 => (x * p = y * p <=> x = y) /\ (x * p < y * p <=> x < y) /\ (x * p <= y * p <=> x <= y)
OBVIOUS

\* The law of exponents.
LEMMA TwoToSum ==
    ASSUME NEW a \in Nat, NEW b \in Nat
    PROVE  TwoTo[a + b] = TwoTo[a] * TwoTo[b]
<1> DEFINE S == {n \in Nat : TwoTo[a + n] = TwoTo[a] * TwoTo[n]}
<1>1. 0 \in S
    <2>1. a + 0 = a
        OBVIOUS
    <2> QED BY <2>1, TwoToStep
<1>2. ASSUME NEW n \in Nat, n \in S PROVE n + 1 \in S
    <2>1. a + (n + 1) = (a + n) + 1 /\ a + n \in Nat
        OBVIOUS
    <2>2. TwoTo[(a + n) + 1] = 2 * TwoTo[a + n] /\ TwoTo[n + 1] = 2 * TwoTo[n]
        BY <2>1, TwoToStep
    <2>3. TwoTo[a] \in Int /\ TwoTo[n] \in Int
        BY TwoToStep
    <2> QED BY <1>2, <2>1, <2>2, <2>3
<1> HIDE DEF S
<1>3. Nat \subseteq S
    BY <1>1, <1>2, NatSetInduction
<1> QED BY <1>3 DEF S

\* The powers of two grow, and all but the first are even.
LEMMA TwoToGrows ==
    ASSUME NEW a \in Nat, NEW b \in Nat, a < b
    PROVE  2 * TwoTo[a] <= TwoTo[b] /\ TwoTo[b] % 2 = 0
<1>1. b - a - 1 \in Nat /\ b = a + ((b - a - 1) + 1) /\ b = (b - 1) + 1 /\ b - 1 \in Nat
    OBVIOUS
<1>2. TwoTo[b] = TwoTo[a] * (2 * TwoTo[b - a - 1])
    BY <1>1, TwoToSum, TwoToStep
<1>3. TwoTo[b] = 2 * TwoTo[b - 1] /\ TwoTo[b - 1] \in Nat
    BY <1>1, TwoToStep
<1>4. TwoTo[a] \in Nat /\ TwoTo[b - a - 1] \in Nat \ {0}
    BY <1>1, TwoToStep
<1>5. \A x, y \in Nat : y # 0 => 2 * x <= x * (2 * y)
    OBVIOUS
<1> QED BY <1>2, <1>3, <1>4, <1>5

\* The powers that the float format and the ranges are about.
LEMMA TwoToValues ==
    /\ TwoTo[1] = 2 /\ TwoTo[2] = 4 /\ TwoTo[3] = 8 /\ TwoTo[4] = 16
    /\ TwoTo[5] = 32 /\ TwoTo[6] = 64 /\ TwoTo[7] = 128
    /\ TwoTo[24] = 2^24 /\ TwoTo[30] = 2^30 /\ TwoTo[31] = 2^31
<1>1. \A n \in Nat : TwoTo[n + 1] = 2 * TwoTo[n]
    BY TwoToStep
<1>2. TwoTo[1] = 2 /\ TwoTo[2] = 4 /\ TwoTo[3] = 8 /\ TwoTo[4] = 16
    <2>1. TwoTo[0 + 1] = 2 * TwoTo[0] /\ TwoTo[1 + 1] = 2 * TwoTo[1] /\ TwoTo[2 + 1] = 2 * TwoTo[2] /\ TwoTo[3 + 1] = 2 * TwoTo[3]
        BY <1>1
    <2> QED BY <2>1, TwoToStep
<1>3. TwoTo[5] = 32 /\ TwoTo[6] = 64 /\ TwoTo[7] = 128
    <2>1. TwoTo[4 + 1] = 2 * TwoTo[4] /\ TwoTo[5 + 1] = 2 * TwoTo[5] /\ TwoTo[6 + 1] = 2 * TwoTo[6]
        BY <1>1
    <2> QED BY <2>1, <1>2
<1>4. TwoTo[14] = 128 * 128 /\ TwoTo[24] = TwoTo[14] * TwoTo[10] /\ TwoTo[10] = TwoTo[7] * TwoTo[3]
    <2>1. TwoTo[7 + 7] = TwoTo[7] * TwoTo[7] /\ TwoTo[14 + 10] = TwoTo[14] * TwoTo[10] /\ TwoTo[7 + 3] = TwoTo[7] * TwoTo[3]
        BY TwoToSum
    <2> QED BY <2>1, <1>3
<1>5. TwoTo[30] = TwoTo[24] * TwoTo[6] /\ TwoTo[31] = TwoTo[24] * TwoTo[7]
    <2>1. TwoTo[24 + 6] = TwoTo[24] * TwoTo[6] /\ TwoTo[24 + 7] = TwoTo[24] * TwoTo[7]
        BY TwoToSum
    <2> QED BY <2>1
<1>6. TwoTo[24] = 2^24
    BY <1>2, <1>3, <1>4
<1>7. TwoTo[30] = 2^30 /\ TwoTo[31] = 2^31
    BY <1>3, <1>5, <1>6
<1> QED BY <1>2, <1>3, <1>6, <1>7

\* Division undoes multiplication.
LEMMA DivideProduct ==
    \A q \in Int, p \in Nat \ {0} : (q * p) % p = 0 /\ (q * p) \div p = q
OBVIOUS

\* Quotient and remainder.
LEMMA DivideRest ==
    \A a \in Int, p \in Nat \ {0} :
       /\ a \div p \in Int /\ a % p \in 0 .. p - 1
       /\ a = (a \div p) * p + (a % p)
OBVIOUS

\* An integer other than 0 is an odd one times a power of two.
LEMMA OddFactor ==
    ASSUME NEW i \in Int, i # 0, NEW n \in Nat, Magnitude(i) < TwoTo[n]
    PROVE  \E k \in 0 .. n - 1, q \in Int : i = q * TwoTo[k] /\ q % 2 = 1
<1> DEFINE S == {l \in Nat : \A j \in Int : j # 0 /\ Magnitude(j) < TwoTo[l] => \E k \in 0 .. l - 1, q \in Int : j = q * TwoTo[k] /\ q % 2 = 1}
<1>1. 0 \in S
    BY TwoToStep DEF Magnitude
<1>2. ASSUME NEW l \in Nat, l \in S PROVE l + 1 \in S
    <2>1. SUFFICES ASSUME NEW j \in Int, j # 0, Magnitude(j) < TwoTo[l + 1]
                   PROVE  \E k \in 0 .. l, q \in Int : j = q * TwoTo[k] /\ q % 2 = 1
        OBVIOUS
    <2>2. CASE j % 2 = 1
        <3>1. 0 \in 0 .. l /\ j = j * TwoTo[0]
            BY TwoToStep
        <3> QED BY <3>1, <2>2
    <2>3. CASE j % 2 # 1
        <3>1. PICK h \in Int : j = 2 * h
            <4>1. j = 2 * (j \div 2) /\ j \div 2 \in Int
                BY <2>3
            <4> QED BY <4>1
        <3>2. h # 0 /\ Magnitude(h) < TwoTo[l]
            BY <2>1, <3>1, TwoToStep DEF Magnitude
        <3>3. PICK k \in 0 .. l - 1, q \in Int : h = q * TwoTo[k] /\ q % 2 = 1
            BY <1>2, <3>2
        <3>4. k + 1 \in 0 .. l /\ TwoTo[k + 1] = 2 * TwoTo[k] /\ TwoTo[k] \in Int
            BY TwoToStep
        <3>5. j = q * TwoTo[k + 1]
            BY <3>1, <3>3, <3>4
        <3> QED BY <3>3, <3>4, <3>5
    <2> QED BY <2>2, <2>3
<1> HIDE DEF S
<1>3. Nat \subseteq S
    BY <1>1, <1>2, NatSetInduction
<1> QED BY <1>3 DEF S

-----------------------------------------------------------------------------
(***************************************************************************)
(* Floats: Canonical and Round.                                            *)
(***************************************************************************)
\* The numbers of Float32, and those that a float can be.
Zero == [m |-> 0, e |-> 0]
Number == {x \in [m : Int, e : Int] : x = Zero \/ x.m % 2 = 1}
Float == {x \in Number : Magnitude(x.m) < 2^24}

\* The odd factor and the power of two are unique.
LEMMA OddUnique ==
    ASSUME NEW q \in Int, NEW r \in Int, q % 2 = 1, r % 2 = 1, NEW a \in Nat, NEW b \in Nat,
           q * TwoTo[a] = r * TwoTo[b]
    PROVE  a = b /\ q = r
<1>1. ASSUME NEW u \in Int, NEW v \in Int, u % 2 = 1, v % 2 = 1, NEW c \in Nat, NEW d \in Nat,
             u * TwoTo[c] = v * TwoTo[d], c < d
      PROVE  FALSE
    <2>1. d - c - 1 \in Nat /\ d = c + ((d - c - 1) + 1)
        BY <1>1
    <2>2. PICK h \in Int : TwoTo[d] = TwoTo[c] * (2 * h)
        <3>1. TwoTo[d] = TwoTo[c] * TwoTo[(d - c - 1) + 1]
            BY <2>1, TwoToSum
        <3>2. TwoTo[(d - c - 1) + 1] = 2 * TwoTo[d - c - 1] /\ TwoTo[d - c - 1] \in Int
            BY <2>1, TwoToStep, TwoToPositive
        <3> QED BY <3>1, <3>2
    <2>3. TwoTo[c] \in Nat \ {0} /\ 2 * h \in Int
        BY TwoToPositive
    <2>5. u = v * (2 * h)
        <3>1. v * TwoTo[d] = (v * (2 * h)) * TwoTo[c]
            <4> HIDE <1>1
            <4> QED BY <2>2, <2>3, Products
        <3>2. u * TwoTo[c] = (v * (2 * h)) * TwoTo[c]
            BY <1>1, <3>1
        <3>3. u \in Int /\ v * (2 * h) \in Int /\ TwoTo[c] > 0
            BY <2>3
        <3> HIDE <1>1
        <3> QED BY <3>2, <3>3, <2>3, Products
    <2>6. u = 2 * (v * h) /\ v * h \in Int
        BY <2>5
    <2> QED BY <1>1, <2>6
<1>2. a = b
    BY <1>1
<1>3. TwoTo[b] \in Nat \ {0}
    BY TwoToStep
<1> QED BY <1>2, <1>3

\* Canonical finds the odd factor.
LEMMA CanonicalIs ==
    ASSUME NEW q \in Int, q % 2 = 1, NEW k \in 0 .. 30, NEW e \in Int
    PROVE  Canonical(q * TwoTo[k], e) = [m |-> q, e |-> e + k]
<1> DEFINE i == q * TwoTo[k]
           Is(l) == i % TwoTo[l] = 0 /\ (i \div TwoTo[l]) % 2 = 1
           c == CHOOSE l \in 0 .. 30 : Is(l)
<1>1. \A l \in 0 .. 30 : TwoTo[l] \in Nat \ {0}
    BY TwoToStep
<1>2. i \in Int /\ i # 0
    <2>1. q # 0
        OBVIOUS
    <2>2. \A x, p \in Int : x # 0 /\ p > 0 => x * p # 0 /\ x * p \in Int
        OBVIOUS
    <2> QED BY <1>1, <2>1, <2>2
<1>3. Is(k)
    BY <1>1, DivideProduct
<1>4. c \in 0 .. 30 /\ Is(c)
    <2> HIDE DEF Is
    <2> QED BY <1>3
<1>5. i = (i \div TwoTo[c]) * TwoTo[c] /\ i \div TwoTo[c] \in Int
    <2>1. TwoTo[c] \in Nat \ {0} /\ i % TwoTo[c] = 0 /\ i \in Int
        BY <1>1, <1>2, <1>4
    <2> HIDE DEF i, c
    <2>2. i = (i \div TwoTo[c]) * TwoTo[c] + (i % TwoTo[c]) /\ i \div TwoTo[c] \in Int
        BY <2>1, DivideRest
    <2> QED BY <2>1, <2>2
<1>6. c = k /\ i \div TwoTo[c] = q
    <2> HIDE DEF c
    <2>1. q * TwoTo[k] = (i \div TwoTo[c]) * TwoTo[c] /\ i \div TwoTo[c] \in Int
        BY <1>5
    <2>2. (i \div TwoTo[c]) % 2 = 1
        BY <1>4
    <2> HIDE DEF i
    <2> QED BY <2>1, <2>2, <1>4, OddUnique
<1>7. Canonical(i, e) = [m |-> i \div TwoTo[c], e |-> e + c]
    <2> HIDE DEF i
    <2> QED BY <1>2 DEF Canonical
<1> HIDE DEF c
<1> QED BY <1>6, <1>7

\* What Canonical returns.
LEMMA CanonicalCases ==
    ASSUME NEW i \in Int, Magnitude(i) < 2^31, NEW e \in Int
    PROVE  \/ i = 0 /\ Canonical(i, e) = Zero
           \/ \E k \in 0 .. 30, q \in Int : /\ i = q * TwoTo[k] /\ q % 2 = 1
                                            /\ Canonical(i, e) = [m |-> q, e |-> e + k]
<1>1. CASE i = 0
    BY <1>1 DEF Canonical, Zero
<1>2. CASE i # 0
    <2>1. PICK k \in 0 .. 31 - 1, q \in Int : i = q * TwoTo[k] /\ q % 2 = 1
        <3>1. 31 \in Nat /\ Magnitude(i) < TwoTo[31]
            BY TwoToValues
        <3> QED BY <1>2, <3>1, OddFactor
    <2>2. k \in 0 .. 30
        OBVIOUS
    <2>3. Canonical(i, e) = [m |-> q, e |-> e + k]
        BY <2>1, <2>2, CanonicalIs
    <2> QED BY <2>1, <2>2, <2>3
<1> QED BY <1>1, <1>2

\* Zero and odd multiples of a power of two.
Scaled(x, s) == x.m * TwoTo[x.e + s]

\* Canonical does not change the value.
LEMMA CanonicalValue ==
    ASSUME NEW i \in Int, Magnitude(i) < 2^31, NEW e \in Int
    PROVE  /\ Canonical(i, e) \in Number
           /\ Magnitude(Canonical(i, e).m) <= Magnitude(i)
           /\ Canonical(i, e) = Zero \/ Canonical(i, e).e >= e
           /\ \A s \in Nat : e + s >= 0 => Scaled(Canonical(i, e), s) = i * TwoTo[e + s]
<1> DEFINE Claim == /\ Canonical(i, e) \in Number
                    /\ Magnitude(Canonical(i, e).m) <= Magnitude(i)
                    /\ Canonical(i, e) = Zero \/ Canonical(i, e).e >= e
                    /\ \A s \in Nat : e + s >= 0 => Scaled(Canonical(i, e), s) = i * TwoTo[e + s]
<1>1. CASE i = 0 /\ Canonical(i, e) = Zero
    <2>1. ASSUME NEW s \in Nat, e + s >= 0
          PROVE Scaled(Canonical(i, e), s) = i * TwoTo[e + s]
        <3>1. TwoTo[e + s] \in Int /\ TwoTo[0 + s] \in Int
            BY <2>1, TwoToStep
        <3> QED BY <1>1, <3>1 DEF Scaled, Zero
    <2>2. Canonical(i, e) \in Number /\ Canonical(i, e).m = i
        BY <1>1 DEF Zero, Number
    <2>3. Magnitude(i) \in Int
        BY DEF Magnitude
    <2> QED BY <1>1, <2>1, <2>2, <2>3
<1>2. ASSUME NEW k \in 0 .. 30, NEW q \in Int, i = q * TwoTo[k], q % 2 = 1, Canonical(i, e) = [m |-> q, e |-> e + k]
      PROVE  Claim
    <2>0. TwoTo[k] \in Nat \ {0}
        BY TwoToStep
    <2>1. Magnitude(q) <= Magnitude(i)
        <3>1. \A x, p \in Int : p > 0 => (x >= 0 => x * p >= x) /\ (x < 0 => x * p <= x)
            OBVIOUS
        <3> QED BY <1>2, <2>0, <3>1 DEF Magnitude
    <2>2. ASSUME NEW s \in Nat, e + s >= 0
          PROVE Scaled(Canonical(i, e), s) = i * TwoTo[e + s]
        <3>1. (e + k) + s = k + (e + s) /\ e + s \in Nat
            BY <2>2
        <3>0. k \in Nat
            OBVIOUS
        <3>2. TwoTo[(e + k) + s] = TwoTo[k] * TwoTo[e + s] /\ TwoTo[e + s] \in Nat
            <4>1. TwoTo[k + (e + s)] = TwoTo[k] * TwoTo[e + s]
                BY <3>0, <3>1, TwoToSum
            <4> QED BY <3>1, <4>1, TwoToPositive
        <3>3. q * (TwoTo[k] * TwoTo[e + s]) = (q * TwoTo[k]) * TwoTo[e + s]
            BY <3>2, <2>0, Products
        <3> QED BY <1>2, <3>2, <3>3 DEF Scaled
    <2>3. Canonical(i, e) \in Number /\ Canonical(i, e).m = q /\ Canonical(i, e).e >= e
        BY <1>2 DEF Number
    <2> HIDE <1>2
    <2> QED BY <2>1, <2>2, <2>3
<1>3. CASE i # 0
    <2>1. PICK k \in 0 .. 30, q \in Int : /\ i = q * TwoTo[k] /\ q % 2 = 1
                                         /\ Canonical(i, e) = [m |-> q, e |-> e + k]
        BY <1>3, CanonicalCases
    <2> QED BY <2>1, <1>2
<1>4. CASE i = 0
    <2>1. Canonical(i, e) = Zero
        BY <1>4 DEF Canonical, Zero
    <2> QED BY <2>1, <1>4, <1>1
<1> QED BY <1>3, <1>4

\* What Round has to do with a: it takes the first k for which a \div 2^k fits.
Fits(a, k) == a \div TwoTo[k] < 2^24 /\ (k = 0 \/ a \div TwoTo[k - 1] >= 2^24)

\* Round finds a shift.
LEMMA FirstFit ==
    ASSUME NEW a \in Nat, a < 2^31
    PROVE  \E k \in 0 .. 7 : Fits(a, k)
<1>1. a \div 128 < 2^24
    OBVIOUS
<1> DEFINE F(k) == a \div TwoTo[k] < 2^24
<1>2. F(7)
    BY <1>1, TwoToValues
<1>3. \E k \in 0 .. 7 : F(k) /\ (k = 0 \/ ~F(k - 1))
    <2> HIDE DEF F
    <2>1. CASE F(0)
        BY <2>1
    <2>2. CASE ~F(0)
        <3>1. \E k \in {1, 2, 3, 4, 5, 6, 7} : F(k) /\ ~F(k - 1)
            BY <2>2, <1>2
        <3> QED BY <3>1
    <2> QED BY <2>1, <2>2
<1>4. \A k \in 0 .. 7 : k # 0 => a \div TwoTo[k - 1] \in Int
    <2> SUFFICES ASSUME NEW k \in 0 .. 7, k # 0 PROVE a \div TwoTo[k - 1] \in Int
        OBVIOUS
    <2>1. a \in Int /\ k - 1 \in Nat
        OBVIOUS
    <2>2. TwoTo[k - 1] \in Nat \ {0}
        BY <2>1, TwoToPositive
    <2> QED BY <2>1, <2>2, DivideRest
<1> QED BY <1>3, <1>4 DEF Fits

\* Division with remainder by 2^k, and rounding of the quotient.
LEMMA RoundCases ==
    ASSUME NEW i \in Int, Magnitude(i) < 2^31, NEW e \in Int
    PROVE  \E k \in 0 .. 7, q, r, n \in Nat :
              /\ r < TwoTo[k] /\ n \in {q, q + 1}
              /\ Fits(Magnitude(i), k)
              /\ Magnitude(i) = q * TwoTo[k] + r
              /\ q < 2^24
              /\ 2^24 * Magnitude(n * TwoTo[k] - Magnitude(i)) <= Magnitude(i)
              /\ r = 0 => n = q
              /\ Round(i, e) = Canonical(Signed(i, n), e + k)
<1> DEFINE a == Magnitude(i)
           k == CHOOSE l \in 0 .. 7 : Fits(a, l)
           q == a \div TwoTo[k]
           r == a % TwoTo[k]
           up == k > 0 /\ (2 * r > TwoTo[k] \/ (2 * r = TwoTo[k] /\ q % 2 = 1))
           n == IF up THEN q + 1 ELSE q
<1>1. a \in Nat /\ a < 2^31
    BY DEF Magnitude
<1>2. k \in 0 .. 7 /\ Fits(a, k)
    <2> HIDE DEF a
    <2> QED BY <1>1, FirstFit
<1>3. Round(i, e) = Canonical(Signed(i, n), e + k)
    BY DEF Round, Fits
<1> HIDE DEF a, k
<1>4. TwoTo[k] \in Nat \ {0}
    BY <1>2, TwoToPositive
<1>5. q \in Nat /\ r \in 0 .. TwoTo[k] - 1 /\ a = q * TwoTo[k] + r
    <2>0. a \in Int
        BY <1>1
    <2>1. q \in Int /\ r \in 0 .. TwoTo[k] - 1 /\ a = q * TwoTo[k] + r
        BY <2>0, <1>4, DivideRest
    <2>2. \A x, p \in Nat : p # 0 => x \div p >= 0
        OBVIOUS
    <2> QED BY <1>1, <1>4, <2>1, <2>2
<1>6. q < 2^24 /\ (k = 0 \/ a \div TwoTo[k - 1] >= 2^24)
    BY <1>2 DEF Fits
<1>7. n \in {q, q + 1} /\ (r = 0 => n = q)
    BY <1>4
<1>8. 2^24 * Magnitude(n * TwoTo[k] - a) <= a
    <2>1. CASE k = 0
        <3>1. TwoTo[k] = 1 /\ n = q /\ r = 0
            BY <2>1, <1>5, TwoToStep
        <3> HIDE DEF n, q, r
        <3>2. n * TwoTo[k] - a = 0
            BY <3>1, <1>5
        <3> QED BY <3>2, <1>1 DEF Magnitude
    <2>2. CASE k # 0
        <3>1. TwoTo[k] = 2 * TwoTo[k - 1] /\ TwoTo[k - 1] \in Nat \ {0}
            <4>1. k - 1 \in Nat /\ (k - 1) + 1 = k
                BY <2>2, <1>2
            <4> QED BY <4>1, TwoToStep, TwoToPositive
        <3>2. a >= 2^24 * TwoTo[k - 1]
            <4>1. a \div TwoTo[k - 1] >= 2^24
                BY <1>6, <2>2
            <4>2. \A x, p \in Nat : p # 0 /\ x \div p >= 2^24 => x >= 2^24 * p
                OBVIOUS
            <4> QED BY <4>1, <4>2, <3>1, <1>1
        <3>3. Magnitude(n * TwoTo[k] - a) <= TwoTo[k - 1]
            <4>1. CASE up
                <5>1. n = q + 1 /\ 2 * r >= TwoTo[k]
                    BY <4>1, <1>4, <1>5
                <5> HIDE DEF n, q, r, up
                <5>2. n * TwoTo[k] = q * TwoTo[k] + TwoTo[k]
                    BY <5>1, <1>5, <1>4
                <5>3. n * TwoTo[k] - a = TwoTo[k] - r
                    BY <5>2, <1>5, <1>4
                <5> QED BY <5>1, <5>3, <3>1, <1>5 DEF Magnitude
            <4>2. CASE ~up
                <5>1. n = q /\ 2 * r <= TwoTo[k]
                    BY <4>2, <1>4, <1>5, <2>2, <1>2
                <5> HIDE DEF n, q, r, up
                <5>2. n * TwoTo[k] - a = -r
                    BY <5>1, <1>5, <1>4
                <5> QED BY <5>1, <5>2, <3>1, <1>5 DEF Magnitude
            <4> QED BY <4>1, <4>2
        <3>4. Magnitude(n * TwoTo[k] - a) \in Int
            BY <1>4, <1>5, <1>7, <1>1 DEF Magnitude
        <3> HIDE DEF n
        <3> QED BY <3>1, <3>2, <3>3, <3>4, <1>1
    <2> QED BY <2>1, <2>2
<1>9. n \in Nat /\ r \in Nat /\ r < TwoTo[k]
    BY <1>4, <1>5, <1>7
<1> HIDE DEF q, r, n
<1> USE <1>2, <1>5, <1>9
<1> WITNESS k \in 0 .. 7, q \in Nat, r \in Nat, n \in Nat
<1> QED BY <1>2, <1>3, <1>5, <1>6, <1>7, <1>8, <1>9 DEF a

\* Magnitudes and signs.
LEMMA MagnitudeType == \A i \in Int : Magnitude(i) \in Nat
BY DEF Magnitude

\* Magnitudes of products with a positive factor.
LEMMA MagnitudeProduct ==
    ASSUME NEW i \in Int, NEW p \in Nat \ {0}
    PROVE  Magnitude(i * p) = Magnitude(i) * p
<1>1. (i < 0 => i * p < 0) /\ (i >= 0 => i * p >= 0) /\ (-i) * p = -(i * p)
    OBVIOUS
<1> QED BY <1>1 DEF Magnitude

\* The sign is put back.
LEMMA SignedType ==
    \A i, n \in Int : Signed(i, n) \in Int /\ Magnitude(Signed(i, n)) = Magnitude(n)
BY DEF Magnitude, Signed

\* The sign of a product with a factor.
LEMMA SignedProduct ==
    ASSUME NEW i \in Int, NEW n \in Int, NEW p \in Int
    PROVE  Signed(i, n) * p = Signed(i, n * p)
<1>1. (-n) * p = -(n * p)
    OBVIOUS
<1> QED BY <1>1 DEF Signed

\* A number is its sign and its magnitude.
LEMMA SignedMagnitude ==
    ASSUME NEW i \in Int, NEW n \in Nat
    PROVE  /\ Signed(i, Magnitude(i)) = i
           /\ Magnitude(Signed(i, n) - i) = Magnitude(n - Magnitude(i))
BY DEF Magnitude, Signed

\* u is v, rounded.
Near(u, v) == 2^24 * Magnitude(u - v) <= Magnitude(v)

\* A change of scale.
LEMMA NearScaled ==
    ASSUME NEW u \in Int, NEW v \in Int, NEW p \in Nat \ {0}, Near(u, v)
    PROVE  Near(u * p, v * p)
<1>1. u * p - v * p = (u - v) * p /\ u - v \in Int
    OBVIOUS
<1>2. Magnitude(u * p - v * p) = Magnitude(u - v) * p /\ Magnitude(v * p) = Magnitude(v) * p
    BY <1>1, MagnitudeProduct
<1>3. Magnitude(u - v) \in Nat /\ Magnitude(v) \in Nat
    BY <1>1, MagnitudeType
<1>4. \A x, y \in Nat : 2^24 * x <= y => 2^24 * (x * p) <= y * p
    <2>1. \A x \in Nat : 2^24 * (x * p) = (2^24 * x) * p
        OBVIOUS
    <2> QED BY <2>1, Products
<1> QED BY <1>2, <1>3, <1>4 DEF Near

\* Round returns a float within 2^-24 of its argument, and no finer.
LEMMA RoundValue ==
    ASSUME NEW i \in Int, Magnitude(i) < 2^31, NEW e \in Int
    PROVE  /\ Round(i, e) \in Float
           /\ Round(i, e) = Zero \/ Round(i, e).e >= e
           /\ \A s \in Nat : e + s >= 0 => Near(Scaled(Round(i, e), s), i * TwoTo[e + s])
<1>1. PICK k \in 0 .. 7, q, r, n \in Nat :
              /\ n \in {q, q + 1}
              /\ q < 2^24
              /\ 2^24 * Magnitude(n * TwoTo[k] - Magnitude(i)) <= Magnitude(i)
              /\ Round(i, e) = Canonical(Signed(i, n), e + k)
    <2>1. \E k \in 0 .. 7, q, r, n \in Nat :
              /\ r < TwoTo[k] /\ n \in {q, q + 1}
              /\ Fits(Magnitude(i), k)
              /\ Magnitude(i) = q * TwoTo[k] + r
              /\ q < 2^24
              /\ 2^24 * Magnitude(n * TwoTo[k] - Magnitude(i)) <= Magnitude(i)
              /\ r = 0 => n = q
              /\ Round(i, e) = Canonical(Signed(i, n), e + k)
        BY RoundCases
    <2> QED BY <2>1
<1> DEFINE c == Canonical(Signed(i, n), e + k)
<1>2. Signed(i, n) \in Int /\ Magnitude(Signed(i, n)) = n /\ n <= 2^24 /\ n < 2^31
    <2>1. n <= 2^24
        BY <1>1
    <2> QED BY <2>1 DEF Magnitude, Signed
<1>3. /\ c \in Number
      /\ Magnitude(c.m) <= n
      /\ c = Zero \/ c.e >= e + k
      /\ \A s \in Nat : (e + k) + s >= 0 => Scaled(c, s) = Signed(i, n) * TwoTo[(e + k) + s]
    <2>1. Magnitude(Signed(i, n)) < 2^31 /\ e + k \in Int
        BY <1>2
    <2> QED BY <1>2, <2>1, CanonicalValue
<1> HIDE DEF c
<1>4. c \in Float
    <2>1. c.m \in Int /\ (c = Zero \/ c.m % 2 = 1)
        BY <1>3 DEF Number
    <2>2. Magnitude(c.m) # 2^24
        BY <2>1 DEF Magnitude, Zero
    <2>3. Magnitude(c.m) \in Int
        BY <2>1, MagnitudeType
    <2>4. Magnitude(c.m) < 2^24
        BY <1>2, <1>3, <2>2, <2>3
    <2> QED BY <1>3, <2>4 DEF Float
<1>5. ASSUME NEW s \in Nat, e + s >= 0
      PROVE  Near(Scaled(c, s), i * TwoTo[e + s])
    <2>1. e + s \in Nat /\ k \in Nat /\ (e + k) + s = k + (e + s)
        BY <1>5
    <2>2. TwoTo[(e + k) + s] = TwoTo[k] * TwoTo[e + s]
        BY <2>1, TwoToSum
    <2>3. TwoTo[k] \in Nat \ {0} /\ TwoTo[e + s] \in Nat \ {0}
        BY <2>1, TwoToPositive
    <2>4. Scaled(c, s) = (Signed(i, n) * TwoTo[k]) * TwoTo[e + s]
        BY <1>2, <1>3, <2>1, <2>2, <2>3, Products
    <2>5. Signed(i, n) * TwoTo[k] = Signed(i, n * TwoTo[k]) /\ n * TwoTo[k] \in Nat
        <3>1. TwoTo[k] \in Int /\ n \in Int /\ n * TwoTo[k] \in Nat
            BY <2>3
        <3> QED BY <3>1, SignedProduct
    <2>6. Magnitude(Signed(i, n) * TwoTo[k] - i) = Magnitude(n * TwoTo[k] - Magnitude(i))
        BY <2>5, SignedMagnitude
    <2>7. Near(Signed(i, n) * TwoTo[k], i)
        BY <1>1, <2>6 DEF Near
    <2>8. Signed(i, n) * TwoTo[k] \in Int
        BY <1>2, <2>3
    <2> QED BY <2>3, <2>4, <2>7, <2>8, NearScaled
<1>6. Round(i, e) = c /\ (c = Zero \/ c.e >= e)
    <2>1. c = Zero \/ c.e \in Int
        BY <1>3 DEF Number
    <2>2. Round(i, e) = c
        BY <1>1 DEF c
    <2> QED BY <1>3, <2>1, <2>2
<1> QED BY <1>4, <1>5, <1>6

\* A float is rounded to itself.
LEMMA RoundKeepsProduct ==
    ASSUME NEW q \in Int, q % 2 = 1, Magnitude(q) < 2^24, NEW t \in 0 .. 30, NEW e \in Int,
           Magnitude(q * TwoTo[t]) < 2^31
    PROVE  Round(q * TwoTo[t], e) = [m |-> q, e |-> e + t]
<1> DEFINE i == q * TwoTo[t]
<1>1. TwoTo[t] \in Nat \ {0} /\ i \in Int /\ Magnitude(i) = Magnitude(q) * TwoTo[t] /\ Magnitude(q) \in Nat
    <2>1. TwoTo[t] \in Nat \ {0}
        BY TwoToPositive
    <2>2. Magnitude(i) = Magnitude(q) * TwoTo[t]
        BY <2>1, MagnitudeProduct
    <2>3. i \in Int
        BY <2>1
    <2> QED BY <2>1, <2>2, <2>3, MagnitudeType
<1>2. PICK k \in 0 .. 7, w, r, n \in Nat :
              /\ r < TwoTo[k]
              /\ Fits(Magnitude(i), k)
              /\ Magnitude(i) = w * TwoTo[k] + r
              /\ r = 0 => n = w
              /\ Round(i, e) = Canonical(Signed(i, n), e + k)
    <2>1. i \in Int /\ Magnitude(i) < 2^31
        BY <1>1
    <2> HIDE DEF i
    <2>2. \E k \in 0 .. 7, w, r, n \in Nat :
              /\ r < TwoTo[k] /\ n \in {w, w + 1}
              /\ Fits(Magnitude(i), k)
              /\ Magnitude(i) = w * TwoTo[k] + r
              /\ w < 2^24
              /\ 2^24 * Magnitude(n * TwoTo[k] - Magnitude(i)) <= Magnitude(i)
              /\ r = 0 => n = w
              /\ Round(i, e) = Canonical(Signed(i, n), e + k)
        BY <2>1, RoundCases
    <2> QED BY <2>2
<1>3. k <= t
    <2> SUFFICES ASSUME k > t PROVE FALSE
        OBVIOUS
    <2>1. k - 1 \in Nat /\ t \in Nat /\ t <= k - 1
        OBVIOUS
    <2>2. TwoTo[t] <= TwoTo[k - 1] /\ TwoTo[k - 1] \in Nat \ {0}
        BY <2>1, TwoToGrows, TwoToPositive
    <2>3. Magnitude(i) \div TwoTo[k - 1] >= 2^24
        BY <1>2, <2>1 DEF Fits
    <2>4. \A x, p \in Nat : p # 0 /\ x \div p >= 2^24 => x >= 2^24 * p
        OBVIOUS
    <2>5. Magnitude(i) >= 2^24 * TwoTo[k - 1]
        BY <2>2, <2>3, <2>4, <1>1
    <2>6. \A x, y \in Nat, p \in Nat : x < y /\ p # 0 => x * p < y * p
        OBVIOUS
    <2>7. Magnitude(q) * TwoTo[t] < 2^24 * TwoTo[t]
        BY <1>1, <2>6
    <2> QED BY <1>1, <2>2, <2>5, <2>7
<1>4. t - k \in 0 .. 30 /\ TwoTo[t] = TwoTo[t - k] * TwoTo[k]
    <2>1. t - k \in 0 .. 30 /\ t - k \in Nat /\ k \in Nat /\ (t - k) + k = t
        BY <1>3
    <2>2. TwoTo[(t - k) + k] = TwoTo[t - k] * TwoTo[k]
        BY <2>1, TwoToSum
    <2> QED BY <2>1, <2>2
<1>5. TwoTo[k] \in Nat \ {0} /\ TwoTo[t - k] \in Nat \ {0}
    BY <1>4, TwoToPositive
<1>6. n = Magnitude(q) * TwoTo[t - k]
    <2>1. Magnitude(q) * TwoTo[t - k] \in Nat /\ Magnitude(i) = (Magnitude(q) * TwoTo[t - k]) * TwoTo[k]
        BY <1>1, <1>4, <1>5, Products
    <2>2. \A x, y, z \in Nat, p \in Nat \ {0} : z < p /\ x * p = y * p + z => z = 0 /\ x = y
        OBVIOUS
    <2> HIDE DEF i
    <2> QED BY <1>2, <1>5, <2>1, <2>2
<1>7. Signed(i, n) = q * TwoTo[t - k]
    <2>1. i < 0 <=> q < 0
        BY <1>1
    <2>2. Signed(q, Magnitude(q)) * TwoTo[t - k] = Signed(q, Magnitude(q) * TwoTo[t - k]) /\ Signed(q, Magnitude(q)) = q
        <3>1. TwoTo[t - k] \in Int /\ Magnitude(q) \in Int
            BY <1>1, <1>5
        <3> QED BY <3>1, SignedProduct, SignedMagnitude
    <2> HIDE DEF i
    <2> QED BY <1>6, <2>1, <2>2 DEF Signed
<1>8. Canonical(q * TwoTo[t - k], e + k) = [m |-> q, e |-> (e + k) + (t - k)]
    <2>1. e + k \in Int
        OBVIOUS
    <2> QED BY <1>4, <2>1, CanonicalIs
<1> HIDE DEF i
<1>9. Round(i, e) = [m |-> q, e |-> e + t]
    <2>1. (e + k) + (t - k) = e + t
        OBVIOUS
    <2> QED BY <1>2, <1>7, <1>8, <2>1
<1> QED BY <1>9 DEF i

\* The fields of a float.
LEMMA FloatFields ==
    \A x \in Float : /\ x.m \in Int /\ x.e \in Int /\ x = [m |-> x.m, e |-> x.e]
                     /\ Magnitude(x.m) < 2^24 /\ (x = Zero \/ x.m % 2 = 1)
BY DEF Float, Number

\* A float is an integer at any scale fine enough.
LEMMA ScaledType ==
    ASSUME NEW x \in Float, NEW s \in Nat, x.e + s >= 0
    PROVE  Scaled(x, s) \in Int
<1>1. x.e + s \in Nat /\ x.m \in Int
    BY FloatFields
<1> QED BY <1>1, TwoToPositive DEF Scaled

\* A finer scale multiplies by a power of two.
LEMMA ScaledFiner ==
    ASSUME NEW x \in Float, NEW s \in Nat, x.e + s >= 0, NEW d \in Nat
    PROVE  Scaled(x, s + d) = Scaled(x, s) * TwoTo[d]
<1>1. x.e + s \in Nat /\ x.m \in Int /\ x.e + (s + d) = (x.e + s) + d
    BY FloatFields
<1>2. TwoTo[(x.e + s) + d] = TwoTo[x.e + s] * TwoTo[d] /\ TwoTo[x.e + s] \in Int /\ TwoTo[d] \in Int
    <2>1. TwoTo[(x.e + s) + d] = TwoTo[x.e + s] * TwoTo[d]
        BY <1>1, TwoToSum
    <2> QED BY <2>1, <1>1, TwoToPositive
<1> QED BY <1>1, <1>2, Products DEF Scaled

\* A float is one product of an odd number with a power of two.
LEMMA ScaledUnique ==
    ASSUME NEW x \in Float, NEW z \in Float, NEW s \in Nat, x.e + s >= 0, z.e + s >= 0,
           Scaled(x, s) = Scaled(z, s)
    PROVE  x = z
<1>1. /\ x.e + s \in Nat /\ z.e + s \in Nat /\ x.m \in Int /\ z.m \in Int
      /\ (x = Zero \/ x.m % 2 = 1) /\ (z = Zero \/ z.m % 2 = 1)
    BY FloatFields
<1>2. TwoTo[x.e + s] \in Nat \ {0} /\ TwoTo[z.e + s] \in Nat \ {0}
    BY <1>1, TwoToPositive
<1>3. x.m * TwoTo[x.e + s] = z.m * TwoTo[z.e + s]
    BY DEF Scaled
<1>4. x.m = 0 <=> z.m = 0
    <2>1. \A q \in Int, p \in Nat \ {0} : q * p = 0 <=> q = 0
        OBVIOUS
    <2> QED BY <1>1, <1>2, <1>3, <2>1
<1>5. CASE x.m = 0
    BY <1>1, <1>4, <1>5
<1>6. CASE x.m # 0
    <2>1. x.m % 2 = 1 /\ z.m % 2 = 1
        BY <1>1, <1>4, <1>6 DEF Zero
    <2>2. x.e + s = z.e + s /\ x.m = z.m
        BY <1>1, <1>3, <2>1, OddUnique
    <2>3. x.e = z.e
        BY <2>2, FloatFields
    <2> QED BY <2>2, <2>3, FloatFields
<1> QED BY <1>5, <1>6

\* Round returns a float that has the value of its argument.
LEMMA RoundKeeps ==
    ASSUME NEW i \in Int, Magnitude(i) < 2^31, NEW e \in Int, NEW s \in Nat, e + s >= 0,
           NEW x \in Float, x.e + s >= 0, Scaled(x, s) = i * TwoTo[e + s]
    PROVE  Round(i, e) = x
<1>1. e + s \in Nat /\ x.e + s \in Nat /\ x.m \in Int
    BY FloatFields
<1>2. CASE i = 0
    <2>1. Round(i, e) \in Float /\ (Round(i, e) = Zero \/ Round(i, e).e >= e) /\ Near(Scaled(Round(i, e), s), i * TwoTo[e + s])
        BY RoundValue
    <2>2. Round(i, e).e + s >= 0
        <3>1. Zero.e = 0 /\ Round(i, e).e \in Int
            BY <2>1, FloatFields DEF Zero
        <3> QED BY <2>1, <3>1
    <2>3. i * TwoTo[e + s] = 0
        BY <1>1, <1>2, TwoToPositive
    <2>4. Scaled(Round(i, e), s) = 0
        <3>1. Scaled(Round(i, e), s) \in Int
            BY <2>1, <2>2, ScaledType
        <3> HIDE DEF Scaled
        <3> QED BY <2>1, <2>3, <3>1 DEF Near, Magnitude
    <2> QED BY <2>1, <2>2, <2>3, <2>4, ScaledUnique
<1>3. CASE i # 0
    <2>1. PICK k \in 0 .. 30, q \in Int : i = q * TwoTo[k] /\ q % 2 = 1
        <3>1. \/ i = 0 /\ Canonical(i, e) = Zero
              \/ \E k \in 0 .. 30, q \in Int : /\ i = q * TwoTo[k] /\ q % 2 = 1
                                               /\ Canonical(i, e) = [m |-> q, e |-> e + k]
            BY CanonicalCases
        <3> QED BY <1>3, <3>1
    <2>2. k \in Nat /\ TwoTo[k + (e + s)] = TwoTo[k] * TwoTo[e + s] /\ TwoTo[k] \in Int /\ TwoTo[e + s] \in Nat \ {0}
        <3>1. k \in Nat
            OBVIOUS
        <3>2. TwoTo[k + (e + s)] = TwoTo[k] * TwoTo[e + s]
            BY <3>1, <1>1, TwoToSum
        <3> QED BY <3>1, <3>2, <1>1, TwoToPositive
    <2>3. x.m * TwoTo[x.e + s] = q * TwoTo[k + (e + s)]
        BY <2>1, <2>2, Products DEF Scaled
    <2>4. x.m % 2 = 1
        <3>1. x.m # 0
            <4>1. \A u \in Int, p \in Nat \ {0} : u # 0 => u * p # 0
                OBVIOUS
            <4>2. i * TwoTo[e + s] # 0
                BY <4>1, <1>3, <2>2
            <4>3. TwoTo[x.e + s] \in Int
                BY <1>1, TwoToPositive
            <4> QED BY <4>2, <4>3 DEF Scaled
        <3> QED BY <3>1, FloatFields DEF Zero
    <2>5. x.e + s = k + (e + s) /\ x.m = q
        <3>1. k + (e + s) \in Nat
            BY <1>1
        <3> QED BY <1>1, <2>1, <2>3, <2>4, <3>1, OddUnique
    <2>6. x = [m |-> q, e |-> e + k]
        <3>0. x.e \in Int
            BY FloatFields
        <3>1. x.e = e + k
            BY <2>5, <3>0
        <3> QED BY <2>5, <3>1, FloatFields
    <2>7. Magnitude(q) < 2^24
        BY <2>5, FloatFields
    <2> QED BY <2>1, <2>6, <2>7, RoundKeepsProduct
<1> QED BY <1>2, <1>3

\* A lower bound of a float bounds its exponent.
LEMMA NotTooFine ==
    ASSUME NEW x \in Float, NEW s \in Nat, x.e + s >= 0, NEW t \in 0 .. s,
           Magnitude(Scaled(x, s)) >= TwoTo[s - t]
    PROVE  x.e >= -(t + 23)
<1> SUFFICES ASSUME x.e < -(t + 23) PROVE FALSE
    BY FloatFields
<1>1. x.e + s \in Nat /\ x.m \in Int /\ Magnitude(x.m) \in Nat /\ Magnitude(x.m) < 2^24 /\ s - t \in Nat
    BY FloatFields, MagnitudeType
<1>2. TwoTo[x.e + s] \in Nat \ {0}
    BY <1>1, TwoToPositive
<1>3. Magnitude(Scaled(x, s)) = Magnitude(x.m) * TwoTo[x.e + s]
    BY <1>1, <1>2, MagnitudeProduct DEF Scaled
<1>4. Magnitude(x.m) * TwoTo[x.e + s] < 2^24 * TwoTo[x.e + s]
    <2>1. \A u, p \in Nat : u < 2^24 /\ p # 0 => u * p < 2^24 * p
        OBVIOUS
    <2> QED BY <1>1, <1>2, <2>1
<1>5. TwoTo[(x.e + s) + 24] = TwoTo[x.e + s] * TwoTo[24] /\ TwoTo[24] = 2^24
    <2>1. 24 \in Nat
        OBVIOUS
    <2>2. TwoTo[(x.e + s) + 24] = TwoTo[x.e + s] * TwoTo[24]
        BY <1>1, <2>1, TwoToSum
    <2> QED BY <2>2, TwoToValues
<1>6. TwoTo[(x.e + s) + 24] <= TwoTo[s - t]
    <2>0. x.e \in Int
        BY FloatFields
    <2>1. (x.e + s) + 24 \in Nat /\ (x.e + s) + 24 <= s - t
        BY <1>1, <2>0
    <2>2. TwoTo[(x.e + s) + 24] \in Nat /\ TwoTo[s - t] \in Nat
        BY <2>1, <1>1, TwoToPositive
    <2> QED BY <2>1, <2>2, <1>1, TwoToGrows
<1>7. TwoTo[s - t] \in Nat
    BY <1>1, TwoToPositive
<1> QED BY <1>1, <1>2, <1>3, <1>4, <1>5, <1>6, <1>7

-----------------------------------------------------------------------------
(***************************************************************************)
(* Add, Sub, Less and Mul.                                                 *)
(***************************************************************************)
\* The floats that are multiples of 2^-s.
Grid(s) == {x \in Float : x.e + s >= 0}

\* Zero is on every grid.
LEMMA ZeroOnGrid == \A s \in Nat : Zero \in Grid(s) /\ Scaled(Zero, s) = 0
<1> TAKE s \in Nat
<1>1. Zero \in Float /\ Zero.m = 0 /\ Zero.e = 0
    BY DEF Zero, Float, Number, Magnitude
<1>2. TwoTo[s] \in Int /\ 0 + s = s
    BY TwoToPositive
<1> QED BY <1>1, <1>2 DEF Grid, Scaled

\* Rounding on a grid: close to what is rounded, and exact when that is a float.
Rounded(x, v, s) ==
    /\ x \in Grid(s)
    /\ Near(Scaled(x, s), v)
    /\ \A z \in Grid(s) : Scaled(z, s) = v => x = z

\* Round on a grid.
LEMMA RoundOnGrid ==
    ASSUME NEW i \in Int, Magnitude(i) < 2^31, NEW e \in Int, NEW s \in Nat, e + s >= 0
    PROVE  Rounded(Round(i, e), i * TwoTo[e + s], s)
<1>1. Round(i, e) \in Float /\ (Round(i, e) = Zero \/ Round(i, e).e >= e) /\ Near(Scaled(Round(i, e), s), i * TwoTo[e + s])
    BY RoundValue
<1>2. Round(i, e) \in Grid(s)
    <2>1. Round(i, e).e \in Int
        BY <1>1, FloatFields
    <2> QED BY <1>1, <2>1, ZeroOnGrid DEF Grid
<1>3. ASSUME NEW z \in Grid(s), Scaled(z, s) = i * TwoTo[e + s] PROVE Round(i, e) = z
    <2>1. z \in Float /\ z.e + s >= 0
        BY DEF Grid
    <2> QED BY <1>3, <2>1, RoundKeeps
<1> QED BY <1>1, <1>2, <1>3 DEF Rounded

\* Aligned does not change the values.
LEMMA AlignedValue ==
    ASSUME NEW s \in Nat, NEW x \in Grid(s), NEW y \in Grid(s)
    PROVE  LET a == Aligned(x, y)
           IN  /\ a.i \in Int /\ a.j \in Int /\ a.e \in Int /\ a.e + s \in Nat
               /\ Scaled(x, s) = a.i * TwoTo[a.e + s]
               /\ Scaled(y, s) = a.j * TwoTo[a.e + s]
<1> DEFINE e == IF x.e < y.e THEN x.e ELSE y.e
<1>1. x.m \in Int /\ y.m \in Int /\ x.e \in Int /\ y.e \in Int /\ x.e + s >= 0 /\ y.e + s >= 0
    BY FloatFields DEF Grid
<1>2. e \in Int /\ e + s \in Nat /\ x.e - e \in Nat /\ y.e - e \in Nat
    BY <1>1
<1> HIDE DEF e
<1>3. TwoTo[x.e - e] \in Nat /\ TwoTo[y.e - e] \in Nat /\ TwoTo[e + s] \in Nat
    BY <1>2, TwoToPositive
<1>4. x.m * TwoTo[x.e + s] = (x.m * TwoTo[x.e - e]) * TwoTo[e + s]
    <2>1. x.e + s = (x.e - e) + (e + s)
        BY <1>1, <1>2
    <2>2. TwoTo[(x.e - e) + (e + s)] = TwoTo[x.e - e] * TwoTo[e + s]
        BY <1>2, TwoToSum
    <2> QED BY <2>1, <2>2, <1>1, <1>3, Products
<1>5. y.m * TwoTo[y.e + s] = (y.m * TwoTo[y.e - e]) * TwoTo[e + s]
    <2>1. y.e + s = (y.e - e) + (e + s)
        BY <1>1, <1>2
    <2>2. TwoTo[(y.e - e) + (e + s)] = TwoTo[y.e - e] * TwoTo[e + s]
        BY <1>2, TwoToSum
    <2> QED BY <2>1, <2>2, <1>1, <1>3, Products
<1>6. Aligned(x, y) = [i |-> x.m * TwoTo[x.e - e], j |-> y.m * TwoTo[y.e - e], e |-> e]
    BY DEF Aligned, e
<1>7. x.m * TwoTo[x.e - e] \in Int /\ y.m * TwoTo[y.e - e] \in Int
    BY <1>1, <1>3
<1> QED BY <1>2, <1>4, <1>5, <1>6, <1>7 DEF Scaled

\* A factor is no larger than the product.
LEMMA SmallFactor ==
    ASSUME NEW i \in Int, NEW p \in Nat \ {0}
    PROVE  Magnitude(i) <= Magnitude(i * p)
<1>1. Magnitude(i * p) = Magnitude(i) * p /\ Magnitude(i) \in Nat
    BY MagnitudeProduct, MagnitudeType
<1>2. \A u \in Nat : u <= u * p
    OBVIOUS
<1> QED BY <1>1, <1>2

\* Add and Sub round the exact sum and difference, and Less compares values.
LEMMA AddValue ==
    ASSUME NEW s \in Nat, NEW x \in Grid(s), NEW y \in Grid(s)
    PROVE  /\ Magnitude(Scaled(x, s) + Scaled(y, s)) < 2^31 =>
              Rounded(Add(x, y), Scaled(x, s) + Scaled(y, s), s)
           /\ Magnitude(Scaled(x, s) - Scaled(y, s)) < 2^31 =>
              Rounded(Sub(x, y), Scaled(x, s) - Scaled(y, s), s)
           /\ Less(x, y) <=> Scaled(x, s) < Scaled(y, s)
<1> DEFINE a == Aligned(x, y)
           p == TwoTo[a.e + s]
<1>1. /\ a.i \in Int /\ a.j \in Int /\ a.e \in Int /\ a.e + s \in Nat
      /\ Scaled(x, s) = a.i * p /\ Scaled(y, s) = a.j * p
    BY AlignedValue
<1>2. p \in Nat \ {0}
    BY <1>1, TwoToPositive
<1>3. Add(x, y) = Round(a.i + a.j, a.e) /\ Sub(x, y) = Round(a.i - a.j, a.e) /\ (Less(x, y) <=> a.i < a.j)
    BY DEF Add, Sub, Less
<1> HIDE DEF a
<1>4. ASSUME NEW k \in {a.i + a.j, a.i - a.j}, Magnitude(k * p) < 2^31
      PROVE  Rounded(Round(k, a.e), k * p, s)
    <2>1. k \in Int
        BY <1>1
    <2>2. Magnitude(k) <= Magnitude(k * p) /\ Magnitude(k) \in Int /\ Magnitude(k * p) \in Int
        <3>1. k * p \in Int
            BY <1>2, <2>1
        <3>2. Magnitude(k) <= Magnitude(k * p)
            BY <1>2, <2>1, SmallFactor
        <3> QED BY <2>1, <3>1, <3>2, MagnitudeType
    <2>3. Magnitude(k) < 2^31
        BY <2>2, <1>4
    <2>4. a.e + s >= 0
        BY <1>1
    <2> QED BY <1>1, <2>1, <2>3, <2>4, RoundOnGrid
<1>5. (a.i + a.j) * p = Scaled(x, s) + Scaled(y, s) /\ (a.i - a.j) * p = Scaled(x, s) - Scaled(y, s)
    BY <1>1, <1>2
<1>6. a.i < a.j <=> Scaled(x, s) < Scaled(y, s)
    BY <1>1, <1>2, Products
<1> HIDE DEF p
<1> QED BY <1>3, <1>4, <1>5, <1>6

\* y is h / 2.
Halves(h) == Canonical(h, -1)

\* Mul rounds the exact product, with a factor that is small and a multiple
\* of 1/2.
LEMMA MulValue ==
    ASSUME NEW s \in Nat, NEW x \in Grid(s), NEW y \in Float, Magnitude(y.m) <= 100, y.e >= -1, x.e + y.e + s >= 0
    PROVE  \E v \in Int : 2 * v = Scaled(x, s) * Scaled(y, 1) /\ Rounded(Mul(x, y), v, s)
<1>1. x.m \in Int /\ y.m \in Int /\ x.e \in Int /\ y.e \in Int /\ x.e + s >= 0 /\ Magnitude(x.m) < 2^24
    BY FloatFields DEF Grid
<1>2. (x.e + y.e) + s \in Nat /\ x.e + s \in Nat /\ y.e + 1 \in Nat
    BY <1>1
<1> DEFINE v == (x.m * y.m) * TwoTo[(x.e + y.e) + s]
<1>3. TwoTo[(x.e + y.e) + s] \in Nat /\ TwoTo[x.e + s] \in Nat /\ TwoTo[y.e + 1] \in Nat /\ x.m * y.m \in Int
    BY <1>1, <1>2, TwoToPositive
<1>4. 2 * v = Scaled(x, s) * Scaled(y, 1)
    <2>1. ((x.e + y.e) + s) + 1 = (x.e + s) + (y.e + 1)
        BY <1>1
    <2>2. TwoTo[(x.e + s) + (y.e + 1)] = TwoTo[x.e + s] * TwoTo[y.e + 1]
        BY <1>2, TwoToSum
    <2>3. TwoTo[((x.e + y.e) + s) + 1] = 2 * TwoTo[(x.e + y.e) + s]
        BY <1>2, TwoToStep
    <2>4. 2 * v = (x.m * y.m) * (TwoTo[x.e + s] * TwoTo[y.e + 1])
        BY <2>1, <2>2, <2>3, <1>3
    <2>5. \A a, b, c, d \in Int : (a * b) * (c * d) = (a * c) * (b * d)
        OBVIOUS
    <2>6. (x.m * y.m) * (TwoTo[x.e + s] * TwoTo[y.e + 1]) = (x.m * TwoTo[x.e + s]) * (y.m * TwoTo[y.e + 1])
        BY <2>5, <1>1, <1>3
    <2> QED BY <2>4, <2>6 DEF Scaled
<1>5. Magnitude(x.m * y.m) < 2^31
    <2>1. \A a, b \in Int : Magnitude(a * b) = Magnitude(a) * Magnitude(b)
        BY DEF Magnitude
    <2>2. \A a, b \in Nat : a < 2^24 /\ b <= 100 => a * b < 2^31
        OBVIOUS
    <2> QED BY <1>1, <2>1, <2>2, MagnitudeType
<1>6. Rounded(Mul(x, y), v, s)
    <2>1. x.e + y.e \in Int /\ (x.e + y.e) + s >= 0
        BY <1>1
    <2> QED BY <1>3, <1>5, <2>1, RoundOnGrid DEF Mul
<1>7. v \in Int
    BY <1>3
<1> HIDE DEF v
<1> QED BY <1>4, <1>6, <1>7

-----------------------------------------------------------------------------
(***************************************************************************)
(* Div.                                                                    *)
(***************************************************************************)
\* What Div takes the first k for.
Reaches(n, d, k) == (n * TwoTo[k]) \div d >= 2^25 /\ (k = 0 \/ (n * TwoTo[k - 1]) \div d < 2^25)

\* A quotient against a bound.
LEMMA DivideBound ==
    /\ \A x \in Nat, d, b \in Nat \ {0} : x \div d >= b <=> x >= b * d
    /\ \A x \in Nat, d \in Nat \ {0} : x \div d \in Nat
OBVIOUS

\* Div finds a shift.
LEMMA FirstReach ==
    ASSUME NEW n \in Nat \ {0}, NEW d \in 1 .. 32
    PROVE  \E k \in 0 .. 30 : Reaches(n, d, k)
<1> DEFINE F(k) == (n * TwoTo[k]) \div d >= 2^25
           S == {l \in Nat : \E k \in 0 .. l : F(k) /\ (k = 0 \/ ~F(k - 1))}
           U == {l \in Nat : F(l) => l \in S}
<1>1. F(30)
    <2>1. n * TwoTo[30] >= 2^25 * d /\ n * TwoTo[30] \in Nat
        BY TwoToValues
    <2> QED BY <2>1, DivideBound
<1>2. Nat \subseteq U
    <2> HIDE DEF F
    <2>1. 0 \in U
        OBVIOUS
    <2>2. ASSUME NEW l \in Nat, l \in U PROVE l + 1 \in U
        <3>1. CASE F(l)
            <4>1. PICK k \in 0 .. l : F(k) /\ (k = 0 \/ ~F(k - 1))
                BY <2>2, <3>1
            <4>2. k \in 0 .. l + 1
                OBVIOUS
            <4> QED BY <4>1, <4>2
        <3>2. CASE ~F(l)
            <4>1. F(l + 1) => l + 1 \in 0 .. l + 1 /\ ~F((l + 1) - 1)
                BY <3>2
            <4> QED BY <4>1
        <3> QED BY <3>1, <3>2
    <2> HIDE DEF U
    <2> QED BY <2>1, <2>2, NatSetInduction
<1>3. PICK k \in 0 .. 30 : F(k) /\ (k = 0 \/ ~F(k - 1))
    <2> HIDE DEF F
    <2>1. 30 \in U
        BY <1>2
    <2> QED BY <1>1, <2>1
<1>4. k # 0 => (n * TwoTo[k - 1]) \div d < 2^25
    <2> SUFFICES ASSUME k # 0 PROVE (n * TwoTo[k - 1]) \div d < 2^25
        OBVIOUS
    <2>1. TwoTo[k - 1] \in Nat
        BY TwoToPositive
    <2>2. (n * TwoTo[k - 1]) \div d \in Nat
        BY <2>1, DivideBound
    <2> QED BY <1>3, <2>2
<1> QED BY <1>3, <1>4 DEF Reaches

\* The quotient, with a last bit for the rest.
LEMMA DivCases ==
    ASSUME NEW x \in Float, x.m # 0, NEW y \in Float, y.m \in 1 .. 32
    PROVE  \E k \in 0 .. 30, q, r \in Nat, rest \in {0, 1} :
              /\ r < y.m /\ Magnitude(x.m) * TwoTo[k] = q * y.m + r
              /\ rest = 0 <=> r = 0
              /\ 2^25 <= q /\ 2 * q + rest < 2^31
              /\ Div(x, y) = Round(Signed(x.m, 2 * q + rest), x.e - y.e - k - 1)
<1> DEFINE n == Magnitude(x.m)
           d == y.m
           k == CHOOSE l \in 0 .. 30 : Reaches(n, d, l)
           q == (n * TwoTo[k]) \div d
           r == (n * TwoTo[k]) % d
           rest == IF r = 0 THEN 0 ELSE 1
<1>1. x.m \in Int /\ n \in Nat \ {0} /\ n < 2^24
    BY FloatFields DEF Magnitude
<1>2. k \in 0 .. 30 /\ Reaches(n, d, k)
    <2> HIDE DEF n
    <2> QED BY <1>1, FirstReach
<1>3. Magnitude(y.m) = d /\ Signed(x.m * y.m, 2 * q + rest) = Signed(x.m, 2 * q + rest)
    <2>1. x.m * y.m < 0 <=> x.m < 0
        BY <1>1
    <2>2. Magnitude(y.m) = d
        BY DEF Magnitude
    <2> HIDE DEF q, rest, d, k
    <2> QED BY <2>1, <2>2 DEF Signed
<1>4. Div(x, y) = Round(Signed(x.m * y.m, 2 * q + rest), x.e - y.e - k - 1)
    BY <1>3 DEF Div, Reaches
<1> HIDE DEF n, k
<1>5. TwoTo[k] \in Nat \ {0}
    BY <1>2, TwoToPositive
<1>6. n * TwoTo[k] \in Nat /\ n * TwoTo[k] \in Int /\ d \in Nat \ {0}
    BY <1>1, <1>5
<1>7. q \in Nat /\ r \in 0 .. d - 1 /\ n * TwoTo[k] = q * d + r
    BY <1>6, DivideRest, DivideBound
<1>8. q >= 2^25
    BY <1>2 DEF Reaches
<1>9. q < 2^26
    <2>1. k # 0
        <3>1. k = 0 => n * TwoTo[k] = n
            BY TwoToStep, <1>1
        <3>2. n \div d <= n
            BY <1>1
        <3> QED BY <1>1, <1>8, <3>1, <3>2
    <2>2. k - 1 \in Nat /\ TwoTo[k] = 2 * TwoTo[k - 1] /\ TwoTo[k - 1] \in Nat
        <3>1. k - 1 \in Nat /\ (k - 1) + 1 = k
            BY <2>1, <1>2
        <3> QED BY <3>1, TwoToStep, TwoToPositive
    <2>3. (n * TwoTo[k - 1]) \div d < 2^25
        BY <1>2, <2>1 DEF Reaches
    <2>4. n * TwoTo[k - 1] \in Nat /\ n * TwoTo[k] = 2 * (n * TwoTo[k - 1])
        BY <1>1, <2>2
    <2>5. n * TwoTo[k - 1] < 2^25 * d
        BY <2>3, <2>4, <1>6
    <2>6. n * TwoTo[k] < 2^26 * d
        BY <2>4, <2>5
    <2> HIDE DEF q, r
    <2>7. q * d < 2^26 * d
        BY <2>6, <1>6, <1>7
    <2> QED BY <2>7, <1>6, <1>7, Products
<1>10. rest \in {0, 1} /\ (rest = 0 <=> r = 0)
    OBVIOUS
<1> HIDE DEF q, r, rest
<1>11. q \in Nat /\ r \in Nat /\ r < d /\ 2 * q + rest < 2^31
    BY <1>7, <1>9, <1>10, <1>6
<1> USE <1>2, <1>10, <1>11
<1> WITNESS k \in 0 .. 30, q \in Nat, r \in Nat, rest \in {0, 1}
<1> QED BY <1>3, <1>4, <1>7, <1>8 DEF n

\* The triangle inequality.
LEMMA MagnitudeSum ==
    \A u, v, w \in Int : Magnitude(u - w) <= Magnitude(u - v) + Magnitude(v - w)
BY DEF Magnitude

\* Two roundings, the first to two bits more: u is x / d.
LEMMA DivError ==
    ASSUME NEW u \in Int, NEW a \in Int, NEW x \in Int, NEW d \in Nat \ {0},
           Near(u, a), 2^26 * Magnitude(a * d - x) <= Magnitude(a * d)
    PROVE  2^23 * Magnitude(u * d - x) <= Magnitude(x)
<1> DEFINE b == a * d
           w == u * d
<1>1. Near(w, b) /\ b \in Int /\ w \in Int
    <2>1. Near(u * d, a * d)
        BY NearScaled
    <2> QED BY <2>1
<1>2. 2^26 * Magnitude(b - x) <= Magnitude(b)
    OBVIOUS
<1> HIDE DEF b, w
<1>3. 2^23 * Magnitude(w - x) <= Magnitude(x)
    BY <1>1, <1>2 DEF Near, Magnitude
<1> QED BY <1>3 DEF w

\* Div returns a float within 2^-23 of the exact quotient, and the exact one
\* when that is a float.
LEMMA DivValue ==
    ASSUME NEW s \in Nat, NEW x \in Float, NEW y \in Float, y.m \in 1 .. 32, y.e \in -1 .. 6, x.e + s >= 40
    PROVE  /\ Div(x, y) \in Grid(s)
           /\ 2^23 * Magnitude(Scaled(Div(x, y), s) * Scaled(y, 1) - 2 * Scaled(x, s)) <= 2 * Magnitude(Scaled(x, s))
           /\ \A z \in Grid(s) : Scaled(z, s) * Scaled(y, 1) = 2 * Scaled(x, s) => Div(x, y) = z
<1>1. x.m \in Int /\ x.e \in Int /\ Magnitude(x.m) \in Nat /\ y.m \in Nat \ {0} /\ y.e \in Int
    BY FloatFields, MagnitudeType
<1>a. x.e + s \in Nat /\ y.e + 1 \in Nat
    BY <1>1
<1>b. TwoTo[x.e + s] \in Nat \ {0} /\ TwoTo[y.e + 1] \in Nat \ {0}
    BY <1>a, TwoToPositive
<1>2. CASE x.m = 0
    <2>1. x = Zero /\ Div(x, y) = Zero
        BY <1>2, FloatFields DEF Zero, Div
    <2>2. Scaled(y, 1) \in Int /\ Scaled(y, 1) # 0
        BY <1>1, <1>b DEF Scaled
    <2>3. Scaled(Zero, s) = 0 /\ Zero \in Grid(s)
        BY ZeroOnGrid
    <2>4. ASSUME NEW z \in Grid(s), Scaled(z, s) * Scaled(y, 1) = 0 PROVE z = Zero
        <3>1. Scaled(z, s) \in Int
            BY ScaledType DEF Grid
        <3>2. \A u, v \in Int : v # 0 /\ u * v = 0 => u = 0
            OBVIOUS
        <3>3. Scaled(z, s) = Scaled(Zero, s)
            BY <2>2, <2>3, <2>4, <3>1, <3>2
        <3> QED BY <2>3, <3>3, ScaledUnique DEF Grid
    <2> HIDE DEF Scaled
    <2>5. 0 * Scaled(y, 1) - 2 * 0 = 0
        BY <2>2
    <2> QED BY <2>1, <2>2, <2>3, <2>4, <2>5 DEF Magnitude
<1>3. CASE x.m # 0
    <2>1. PICK k \in 0 .. 30, q \in Nat, r \in Nat, rest \in {0, 1} :
              /\ r < y.m /\ Magnitude(x.m) * TwoTo[k] = q * y.m + r
              /\ rest = 0 <=> r = 0
              /\ 2^25 <= q /\ 2 * q + rest < 2^31
              /\ Div(x, y) = Round(Signed(x.m, 2 * q + rest), x.e - y.e - k - 1)
        BY <1>3, DivCases
    <2> DEFINE j == 2 * q + rest
               i == Signed(x.m, j)
               e == x.e - y.e - k - 1
               p == TwoTo[e + s]
    <2>2. j \in Nat /\ i \in Int /\ Magnitude(i) = j /\ j < 2^31 /\ e \in Int /\ e + s \in Nat /\ e + s >= 0
        <3>1. j \in Nat /\ j < 2^31
            BY <2>1
        <3>2. e \in Int /\ e + s \in Nat
            BY <1>1
        <3> HIDE DEF j, e
        <3>3. i \in Int /\ Magnitude(i) = j
            BY <3>1, <1>1 DEF Magnitude, Signed
        <3> QED BY <3>1, <3>2, <3>3
    <2>3. p \in Nat \ {0}
        BY <2>2, TwoToPositive
    <2>4. Rounded(Div(x, y), i * p, s)
        BY <2>1, <2>2, RoundOnGrid
    \* 2 * Scaled(x, s) = x.m * 2^(k + 1) * p * 2^(y.e + 1)
    <2>5. 2 * Scaled(x, s) = ((2 * (x.m * TwoTo[k])) * p) * TwoTo[y.e + 1]
        <3>1. (x.e + s) + 1 = ((k + 1) + (e + s)) + (y.e + 1) /\ k \in Nat /\ k + 1 \in Nat /\ (k + 1) + (e + s) \in Nat
            BY <2>2, <1>1
        <3>2. TwoTo[((k + 1) + (e + s)) + (y.e + 1)] = TwoTo[(k + 1) + (e + s)] * TwoTo[y.e + 1]
            BY <3>1, <1>a, TwoToSum
        <3>3. TwoTo[(k + 1) + (e + s)] = TwoTo[k + 1] * p
            BY <3>1, <2>2, TwoToSum
        <3>4. TwoTo[k + 1] = 2 * TwoTo[k] /\ TwoTo[k] \in Int /\ TwoTo[(x.e + s) + 1] = 2 * TwoTo[x.e + s]
            <4>1. TwoTo[k + 1] = 2 * TwoTo[k] /\ TwoTo[k] \in Int
                BY <3>1, TwoToStep, TwoToPositive
            <4>2. TwoTo[(x.e + s) + 1] = 2 * TwoTo[x.e + s]
                BY <1>a, TwoToStep
            <4> QED BY <4>1, <4>2
        <3> HIDE DEF p, e
        <3>5. x.m * (2 * TwoTo[x.e + s]) = x.m * (((2 * TwoTo[k]) * p) * TwoTo[y.e + 1])
            BY <3>1, <3>2, <3>3, <3>4
        <3>6. \A a, b, c, d \in Int : a * (((2 * b) * c) * d) = ((2 * (a * b)) * c) * d
            OBVIOUS
        <3>7. x.m * (2 * TwoTo[x.e + s]) = 2 * (x.m * TwoTo[x.e + s])
            BY <1>1, <1>b
        <3> QED BY <3>4, <3>5, <3>6, <3>7, <1>1, <1>b, <2>3 DEF Scaled
    <2> DEFINE d == y.m
               g == TwoTo[y.e + 1]
               h == 2 * (x.m * TwoTo[k])
               a == i * p
               u == Scaled(Div(x, y), s)
    <2>6. Scaled(y, 1) = d * g /\ 2 * Scaled(x, s) = (h * p) * g
        BY <2>5 DEF Scaled
    <2>7. TwoTo[k] \in Nat \ {0} /\ h \in Int /\ h = Signed(x.m, 2 * (q * d + r))
        <3>1. TwoTo[k] \in Nat \ {0}
            BY TwoToPositive
        <3>2. Signed(x.m, Magnitude(x.m)) * TwoTo[k] = Signed(x.m, Magnitude(x.m) * TwoTo[k]) /\ Signed(x.m, Magnitude(x.m)) = x.m
            <4> DEFINE n == Magnitude(x.m)
                       b == TwoTo[k]
            <4>1. b \in Int /\ n \in Int /\ x.m \in Int /\ 0 \in Nat
                BY <3>1, <1>1
            <4>2. Signed(x.m, n) * b = Signed(x.m, n * b)
                <5> HIDE DEF n, b
                <5> QED BY <4>1, SignedProduct
            <4>3. Signed(x.m, n) = x.m
                BY <4>1, SignedMagnitude
            <4> QED BY <4>2, <4>3
        <3>3. x.m * TwoTo[k] = Signed(x.m, q * d + r)
            BY <2>1, <3>2
        <3>4. q * d + r \in Int /\ x.m * TwoTo[k] \in Int
            BY <1>1, <2>1, <3>1
        <3> QED BY <3>1, <3>3, <3>4 DEF Signed
    <2>8. i * d = Signed(x.m, j * d)
        <3>1. d \in Int /\ j \in Int /\ x.m \in Int
            BY <1>1, <2>2
        <3>2. Signed(x.m, j) * d = Signed(x.m, j * d)
            <4> HIDE DEF d, j
            <4> QED BY <3>1, SignedProduct
        <3> QED BY <3>2
    <2>9. a \in Int /\ u \in Int /\ h * p \in Int /\ d \in Nat \ {0} /\ g \in Nat \ {0} /\ j * d \in Nat /\ i * d \in Int
        <3>1. u \in Int
            BY <2>4, ScaledType DEF Rounded, Grid
        <3> HIDE DEF u, i, p, h, g, j
        <3> QED BY <1>1, <1>b, <2>2, <2>3, <2>7, <3>1 DEF g
    <2> HIDE DEF d, g, h, i, p, u
    <2>10. 2^26 * Magnitude(a * d - h * p) <= Magnitude(a * d)
        <3>1. a * d = (i * d) * p /\ a * d - h * p = (i * d - h) * p /\ i * d - h \in Int
            BY <2>2, <2>3, <2>7, <2>9, Products
        <3>2. Magnitude(a * d) = Magnitude(i * d) * p /\ Magnitude(a * d - h * p) = Magnitude(i * d - h) * p
            BY <3>1, <2>3, <2>9, MagnitudeProduct
        <3>3. j * d = 2 * (q * d) + rest * d /\ q * d \in Nat /\ rest * d \in {0, d}
            BY <2>1, <2>9
        <3>4. Magnitude(i * d - h) <= d /\ Magnitude(i * d) = j * d
            <4>1. rest * d = 0 => r = 0
                BY <2>1, <2>9, <3>3
            <4>2. Magnitude(j * d - 2 * (q * d + r)) <= d
                <5>1. r < d
                    BY <2>1 DEF d
                <5> HIDE DEF j
                <5>2. rest * d = 0 \/ rest * d = d
                    BY <3>3
                <5> QED BY <2>1, <2>9, <3>3, <4>1, <5>1, <5>2 DEF Magnitude
            <4>3. q * d + r \in Nat
                BY <2>1, <3>3
            <4> HIDE DEF j
            <4> QED BY <2>7, <2>8, <2>9, <4>2, <4>3 DEF Signed, Magnitude
        <3>5. 2^26 * d <= j * d
            <4>1. 2^26 <= j
                BY <2>1
            <4> QED BY <4>1, <2>2, <2>9
        <3>6. 2^26 * Magnitude(i * d - h) <= Magnitude(i * d) /\ Magnitude(i * d - h) \in Nat /\ Magnitude(i * d) \in Nat
            BY <3>1, <3>4, <3>5, <2>9, MagnitudeType
        <3>7. \A v, w \in Nat : 2^26 * v <= w => 2^26 * (v * p) <= w * p
            <4>1. \A v \in Nat : 2^26 * (v * p) = (2^26 * v) * p
                BY <2>3
            <4> QED BY <4>1, <2>3, Products
        <3> QED BY <3>2, <3>6, <3>7
    <2>11. 2^23 * Magnitude(u * Scaled(y, 1) - 2 * Scaled(x, s)) <= 2 * Magnitude(Scaled(x, s))
        <3>1. Near(u, a)
            BY <2>4 DEF Rounded, u
        <3>2. 2^23 * Magnitude(u * d - h * p) <= Magnitude(h * p)
            BY <2>9, <2>10, <3>1, DivError
        <3>3. u * d - h * p \in Int /\ (u * d - h * p) * g = u * (d * g) - (h * p) * g
            BY <2>9, Products
        <3>4. Magnitude(u * (d * g) - (h * p) * g) = Magnitude(u * d - h * p) * g /\ Magnitude((h * p) * g) = Magnitude(h * p) * g
            BY <2>9, <3>3, MagnitudeProduct
        <3>5. Magnitude(u * d - h * p) \in Nat /\ Magnitude(h * p) \in Nat
            BY <2>9, <3>3, MagnitudeType
        <3>6. \A v, w \in Nat : 2^23 * v <= w => 2^23 * (v * g) <= w * g
            <4>1. \A v \in Nat : 2^23 * (v * g) = (2^23 * v) * g
                BY <2>9
            <4> QED BY <4>1, <2>9, Products
        <3>7. Magnitude(2 * Scaled(x, s)) = 2 * Magnitude(Scaled(x, s))
            <4>1. Scaled(x, s) \in Int
                BY <1>1, <1>b DEF Scaled
            <4> HIDE DEF Scaled
            <4> QED BY <4>1 DEF Magnitude
        <3> QED BY <2>6, <3>2, <3>4, <3>5, <3>6, <3>7
    <2>12. ASSUME NEW z \in Grid(s), Scaled(z, s) * Scaled(y, 1) = 2 * Scaled(x, s) PROVE Div(x, y) = z
        <3>1. z.m \in Int /\ z.e + s \in Nat /\ (z = Zero \/ z.m % 2 = 1)
            BY FloatFields DEF Grid
        <3>2. TwoTo[z.e + s] \in Nat \ {0} /\ Scaled(z, s) \in Int
            BY <3>1, TwoToPositive DEF Scaled
        <3>3. Scaled(z, s) * d = h * p
            <4>1. (Scaled(z, s) * d) * g = (h * p) * g /\ Scaled(z, s) * d \in Int /\ g > 0
                BY <2>6, <2>9, <2>12, <3>2, Products
            <4> QED BY <4>1, <2>9, Products
        <3>4. h * p = x.m * TwoTo[(k + 1) + (e + s)]
            <4>1. k \in Nat /\ k + 1 \in Nat
                OBVIOUS
            <4>2. TwoTo[(k + 1) + (e + s)] = TwoTo[k + 1] * p
                BY <4>1, <2>2, TwoToSum DEF p
            <4>3. TwoTo[k + 1] = 2 * TwoTo[k]
                BY <4>1, TwoToStep
            <4>4. \A b, c \in Int : (2 * (b * c)) * p = b * ((2 * c) * p)
                BY <2>3
            <4> QED BY <4>2, <4>3, <4>4, <1>1, <2>7 DEF h
        <3>5. (z.m * d) * TwoTo[z.e + s] = x.m * TwoTo[(k + 1) + (e + s)]
            <4>1. (z.m * TwoTo[z.e + s]) * d = (z.m * d) * TwoTo[z.e + s]
                BY <3>1, <3>2, <2>9, Products
            <4> QED BY <3>3, <3>4, <4>1 DEF Scaled
        <3>6. z.m * d \in Int /\ z.m * d = x.m
            <4>1. x.m % 2 = 1 /\ d % 2 = 1
                BY <1>3, FloatFields DEF Zero, d
            <4>2. z.m # 0
                <5>1. (k + 1) + (e + s) \in Nat
                    BY <2>2
                <5>2. TwoTo[(k + 1) + (e + s)] \in Nat \ {0}
                    BY <5>1, TwoToPositive
                <5>3. x.m * TwoTo[(k + 1) + (e + s)] # 0
                    <6>1. \A b \in Int, c \in Nat \ {0} : b # 0 => b * c # 0
                        OBVIOUS
                    <6> QED BY <5>2, <6>1, <1>1, <1>3
                <5> QED BY <5>3, <3>5, <2>9, <3>2
            <4>3. z.m % 2 = 1
                BY <4>2, <3>1 DEF Zero
            <4>4. \A b, c \in Int : b % 2 = 1 /\ c % 2 = 1 => (b * c) % 2 = 1
                <5> SUFFICES ASSUME NEW b \in Int, NEW c \in Int, b % 2 = 1, c % 2 = 1 PROVE (b * c) % 2 = 1
                    OBVIOUS
                <5>1. PICK v \in Int : b = 2 * v + 1
                    <6>1. b = 2 * (b \div 2) + 1 /\ b \div 2 \in Int
                        OBVIOUS
                    <6> QED BY <6>1
                <5>2. PICK w \in Int : c = 2 * w + 1
                    <6>1. c = 2 * (c \div 2) + 1 /\ c \div 2 \in Int
                        OBVIOUS
                    <6> QED BY <6>1
                <5>3. b * c = 2 * (2 * (v * w) + v + w) + 1 /\ 2 * (v * w) + v + w \in Int
                    BY <5>1, <5>2
                <5> QED BY <5>3
            <4>5. (z.m * d) % 2 = 1 /\ z.m * d \in Int /\ (k + 1) + (e + s) \in Nat
                BY <4>1, <4>3, <4>4, <3>1, <2>9, <2>2
            <4> QED BY <4>1, <4>5, <3>1, <3>5, <1>1, OddUnique
        <3>7. r = 0 /\ rest = 0
            <4>1. Magnitude(x.m) = Magnitude(z.m) * d /\ Magnitude(z.m) \in Nat
                BY <3>1, <3>6, <2>9, MagnitudeProduct, MagnitudeType
            <4>2. (Magnitude(z.m) * TwoTo[k]) * d = q * d + r /\ Magnitude(z.m) * TwoTo[k] \in Nat
                BY <4>1, <2>1, <2>7, <2>9, Products DEF d
            <4>3. \A v, w, b \in Nat : b < d /\ v * d = w * d + b => b = 0
                BY <2>9
            <4> QED BY <4>2, <4>3, <2>1 DEF d
        <3>8. i * d = h
            BY <2>7, <2>8, <2>9, <3>7, <2>1
        <3>9. a = Scaled(z, s)
            <4>1. a * d = Scaled(z, s) * d /\ d > 0
                BY <3>3, <3>8, <2>2, <2>3, <2>9, Products
            <4> QED BY <4>1, <2>9, <3>2, Products
        <3> QED BY <2>4, <3>9 DEF Rounded
    <2>13. Div(x, y) \in Grid(s)
        BY <2>4 DEF Rounded
    <2> QED BY <2>11, <2>12, <2>13 DEF u
<1> QED BY <1>2, <1>3

-----------------------------------------------------------------------------
(***************************************************************************)
(* Floor and LRound; multiples of 1/2 are computed with exactly.           *)
(***************************************************************************)
\* Floor rounds down.
LEMMA FloorValue ==
    ASSUME NEW s \in Nat, NEW x \in Grid(s)
    PROVE  /\ Floor(x) \in Int
           /\ Floor(x) * TwoTo[s] <= Scaled(x, s)
           /\ Scaled(x, s) < (Floor(x) + 1) * TwoTo[s]
<1>1. x.m \in Int /\ x.e \in Int /\ x.e + s \in Nat
    BY FloatFields DEF Grid
<1>2. TwoTo[s] \in Nat \ {0} /\ TwoTo[x.e + s] \in Nat \ {0}
    BY <1>1, TwoToPositive
<1>3. CASE x.e >= 0
    <2>1. TwoTo[x.e + s] = TwoTo[x.e] * TwoTo[s] /\ TwoTo[x.e] \in Nat
        <3>1. x.e \in Nat
            BY <1>1, <1>3
        <3>2. TwoTo[x.e + s] = TwoTo[x.e] * TwoTo[s]
            BY <3>1, TwoToSum
        <3> QED BY <3>1, <3>2, TwoToPositive
    <2>2. Floor(x) = x.m * TwoTo[x.e] /\ x.m * TwoTo[x.e] \in Int
        BY <1>1, <1>3, <2>1 DEF Floor
    <2>3. Scaled(x, s) = Floor(x) * TwoTo[s]
        BY <1>1, <1>2, <2>1, <2>2, Products DEF Scaled
    <2>4. (Floor(x) + 1) * TwoTo[s] = Floor(x) * TwoTo[s] + TwoTo[s] /\ Floor(x) * TwoTo[s] \in Int
        BY <1>2, <2>2
    <2> QED BY <1>2, <2>2, <2>3, <2>4
<1>4. CASE x.e < 0
    <2> DEFINE p == TwoTo[-x.e]
               g == TwoTo[x.e + s]
               q == x.m \div p
               r == x.m % p
    <2>1. p \in Nat \ {0} /\ TwoTo[s] = p * g
        <3>1. -x.e \in Nat /\ (-x.e) + (x.e + s) = s
            BY <1>1, <1>4
        <3>2. TwoTo[(-x.e) + (x.e + s)] = TwoTo[-x.e] * TwoTo[x.e + s]
            BY <3>1, <1>1, TwoToSum
        <3> QED BY <3>1, <3>2, TwoToPositive
    <2> HIDE DEF p
    <2>2. q \in Int /\ r \in 0 .. p - 1 /\ x.m = q * p + r
        BY <2>1, <1>1, DivideRest
    <2>3. Floor(x) = q
        BY <1>1, <1>4 DEF Floor, p
    <2> HIDE DEF q, r, g
    <2>4. q * p <= x.m /\ x.m < (q + 1) * p
        BY <2>1, <2>2
    <2>5. g \in Nat \ {0}
        BY <1>2 DEF g
    <2>6. (q * p) * g <= x.m * g /\ x.m * g < ((q + 1) * p) * g
        BY <2>1, <2>2, <2>4, <2>5, <1>1, Products
    <2>7. (q * p) * g = q * (p * g) /\ ((q + 1) * p) * g = (q + 1) * (p * g)
        BY <2>1, <2>2, <2>5, Products
    <2> QED BY <2>1, <2>2, <2>3, <2>6, <2>7 DEF Scaled, g
<1> QED BY <1>1, <1>3, <1>4

\* LRound rounds to the nearest, halves up.
LEMMA LRoundValue ==
    ASSUME NEW s \in Nat, NEW x \in Grid(s)
    PROVE  /\ LRound(x) \in Int
           /\ 2 * (LRound(x) * TwoTo[s]) <= 2 * Scaled(x, s) + TwoTo[s]
           /\ 2 * Scaled(x, s) < 2 * (LRound(x) * TwoTo[s]) + TwoTo[s]
<1>1. x.m \in Int /\ x.e \in Int /\ x.e + s \in Nat
    BY FloatFields DEF Grid
<1>2. TwoTo[s] \in Nat \ {0} /\ TwoTo[x.e + s] \in Nat \ {0}
    BY <1>1, TwoToPositive
<1>3. CASE x.e >= 0
    <2>1. LRound(x) = Floor(x)
        BY <1>3 DEF LRound, Floor
    <2>2. TwoTo[x.e + s] = TwoTo[x.e] * TwoTo[s] /\ TwoTo[x.e] \in Nat
        <3>1. x.e \in Nat
            BY <1>1, <1>3
        <3>2. TwoTo[x.e + s] = TwoTo[x.e] * TwoTo[s]
            BY <3>1, TwoToSum
        <3> QED BY <3>1, <3>2, TwoToPositive
    <2>3. LRound(x) = x.m * TwoTo[x.e] /\ x.m * TwoTo[x.e] \in Int
        BY <1>1, <1>3, <2>2 DEF LRound
    <2>4. Scaled(x, s) = LRound(x) * TwoTo[s] /\ LRound(x) * TwoTo[s] \in Int
        BY <1>1, <1>2, <2>2, <2>3, Products DEF Scaled
    <2> QED BY <1>2, <2>3, <2>4
<1>4. CASE x.e < 0
    <2> DEFINE p == TwoTo[-x.e - 1]
               g == TwoTo[x.e + s]
               q == (x.m + p) \div (2 * p)
               r == (x.m + p) % (2 * p)
    <2>1. p \in Nat \ {0} /\ TwoTo[-x.e] = 2 * p /\ TwoTo[s] = (2 * p) * g
        <3>1. -x.e \in Nat /\ (-x.e) + (x.e + s) = s /\ -x.e - 1 \in Nat /\ (-x.e - 1) + 1 = -x.e
            BY <1>1, <1>4
        <3>2. TwoTo[(-x.e) + (x.e + s)] = TwoTo[-x.e] * TwoTo[x.e + s]
            BY <3>1, <1>1, TwoToSum
        <3>3. TwoTo[-x.e] = 2 * TwoTo[-x.e - 1] /\ TwoTo[-x.e - 1] \in Nat \ {0}
            BY <3>1, TwoToStep, TwoToPositive
        <3> QED BY <3>1, <3>2, <3>3
    <2>2. LRound(x) = q
        BY <1>1, <1>4, <2>1 DEF LRound
    <2> HIDE DEF p
    <2>3. x.m + p \in Int /\ 2 * p \in Nat \ {0}
        BY <1>1, <2>1
    <2>4. q \in Int /\ r \in 0 .. 2 * p - 1 /\ x.m + p = q * (2 * p) + r
        BY <2>3, DivideRest
    <2> HIDE DEF q, r, g
    <2>5. g \in Nat \ {0}
        BY <1>2 DEF g
    <2>6. q * (2 * p) <= x.m + p /\ x.m + p < q * (2 * p) + 2 * p /\ q * (2 * p) \in Int
        BY <2>3, <2>4
    <2>7. (q * (2 * p)) * g <= (x.m + p) * g /\ (x.m + p) * g < (q * (2 * p) + 2 * p) * g
        BY <2>3, <2>5, <2>6, Products
    <2>8. (q * (2 * p)) * g = q * ((2 * p) * g)
        BY <2>3, <2>4, <2>5, Products
    <2>9. 2 * ((x.m + p) * g) = 2 * (x.m * g) + (2 * p) * g /\ (q * (2 * p) + 2 * p) * g = (q * (2 * p)) * g + (2 * p) * g
        BY <1>1, <2>1, <2>5, <2>6
    <2>10. x.m * g \in Int /\ (x.m + p) * g \in Int /\ (2 * p) * g \in Int /\ (q * (2 * p)) * g \in Int
        BY <1>1, <2>1, <2>3, <2>5, <2>6
    <2> QED BY <2>1, <2>2, <2>4, <2>7, <2>8, <2>9, <2>10 DEF Scaled, g
<1> QED BY <1>1, <1>3, <1>4

\* The constants of the code: halves of small numbers.
LEMMA HalvesValue ==
    ASSUME NEW h \in Int, Magnitude(h) < 2^24
    PROVE  /\ Halves(h) \in Grid(1) /\ Scaled(Halves(h), 1) = h
           /\ Magnitude(Halves(h).m) <= Magnitude(h)
           /\ Halves(h).e >= -1
           /\ \A s \in Nat \ {0} : Halves(h) \in Grid(s) /\ 2 * Scaled(Halves(h), s) = h * TwoTo[s]
<1>1. Magnitude(h) < 2^31 /\ Magnitude(h) \in Nat
    BY MagnitudeType
<1>2. /\ Halves(h) \in Number
      /\ Magnitude(Halves(h).m) <= Magnitude(h)
      /\ Halves(h) = Zero \/ Halves(h).e >= -1
      /\ \A s \in Nat : -1 + s >= 0 => Scaled(Halves(h), s) = h * TwoTo[-1 + s]
    <2>1. -1 \in Int
        OBVIOUS
    <2>2. /\ Canonical(h, -1) \in Number
          /\ Magnitude(Canonical(h, -1).m) <= Magnitude(h)
          /\ Canonical(h, -1) = Zero \/ Canonical(h, -1).e >= -1
          /\ \A s \in Nat : -1 + s >= 0 => Scaled(Canonical(h, -1), s) = h * TwoTo[-1 + s]
        BY <1>1, <2>1, CanonicalValue
    <2> QED BY <2>2 DEF Halves
<1>3. Halves(h) \in Float /\ Halves(h).e >= -1
    <2>1. Halves(h).m \in Int /\ Halves(h).e \in Int
        BY <1>2 DEF Number
    <2>2. Magnitude(Halves(h).m) < 2^24
        BY <1>1, <1>2, <2>1, MagnitudeType
    <2> QED BY <1>2, <2>1, <2>2 DEF Float, Zero
<1>4. Halves(h).e \in Int
    BY <1>3, FloatFields
<1>5. ASSUME NEW s \in Nat \ {0} PROVE Halves(h) \in Grid(s) /\ 2 * Scaled(Halves(h), s) = h * TwoTo[s]
    <2>1. -1 + s \in Nat /\ (-1 + s) + 1 = s /\ -1 + s >= 0 /\ s \in Nat
        OBVIOUS
    <2>2. Scaled(Halves(h), s) = h * TwoTo[-1 + s]
        BY <2>1, <1>2
    <2>3. TwoTo[s] = 2 * TwoTo[-1 + s] /\ TwoTo[-1 + s] \in Int
        BY <2>1, TwoToStep, TwoToPositive
    <2>4. Halves(h) \in Grid(s)
        BY <1>3, <1>4, <2>1 DEF Grid
    <2> QED BY <2>2, <2>3, <2>4
<1>6. Scaled(Halves(h), 1) = h
    <2>1. -1 + 1 = 0 /\ 1 \in Nat /\ TwoTo[0] = 1
        BY TwoToStep
    <2>2. Scaled(Halves(h), 1) = h * TwoTo[-1 + 1]
        BY <1>2
    <2> QED BY <2>1, <2>2
<1> QED BY <1>2, <1>3, <1>5, <1>6

\* There is one float of a value.
LEMMA HalvesUnique ==
    ASSUME NEW s \in Nat \ {0}, NEW x \in Grid(s), NEW h \in Int, Magnitude(h) < 2^24, 2 * Scaled(x, s) = h * TwoTo[s]
    PROVE  x = Halves(h)
<1>1. Halves(h) \in Grid(s) /\ 2 * Scaled(Halves(h), s) = h * TwoTo[s]
    BY HalvesValue
<1>2. Scaled(x, s) \in Int /\ Scaled(Halves(h), s) \in Int /\ s \in Nat
    BY <1>1, ScaledType DEF Grid
<1>3. Scaled(x, s) = Scaled(Halves(h), s)
    BY <1>1, <1>2
<1> QED BY <1>1, <1>2, <1>3, ScaledUnique DEF Grid

\* An integer is an even number of halves.
LEMMA FromIntIsHalves ==
    ASSUME NEW i \in Int, Magnitude(i) < 2^20
    PROVE  FromInt(i) = Halves(2 * i)
<1>1. Magnitude(i) < 2^31 /\ Magnitude(2 * i) < 2^24 /\ 2 * i \in Int /\ Magnitude(i) < 2^24
    BY DEF Magnitude
<1>2. /\ FromInt(i) \in Number
      /\ Magnitude(FromInt(i).m) <= Magnitude(i)
      /\ FromInt(i) = Zero \/ FromInt(i).e >= 0
      /\ \A s \in Nat : 0 + s >= 0 => Scaled(FromInt(i), s) = i * TwoTo[0 + s]
    <2>1. 0 \in Int
        OBVIOUS
    <2>2. /\ Canonical(i, 0) \in Number
          /\ Magnitude(Canonical(i, 0).m) <= Magnitude(i)
          /\ Canonical(i, 0) = Zero \/ Canonical(i, 0).e >= 0
          /\ \A s \in Nat : 0 + s >= 0 => Scaled(Canonical(i, 0), s) = i * TwoTo[0 + s]
        BY <1>1, <2>1, CanonicalValue
    <2> QED BY <2>2 DEF FromInt
<1>3. FromInt(i) \in Grid(1)
    <2>1. FromInt(i).m \in Int /\ FromInt(i).e \in Int
        BY <1>2 DEF Number
    <2>2. Magnitude(FromInt(i).m) < 2^24
        BY <1>1, <1>2, <2>1, MagnitudeType
    <2> QED BY <1>2, <2>1, <2>2 DEF Float, Zero, Grid
<1>4. 2 * Scaled(FromInt(i), 1) = (2 * i) * TwoTo[1]
    <2>1. Scaled(FromInt(i), 1) = i * TwoTo[0 + 1] /\ 0 + 1 = 1 /\ TwoTo[1] = 2
        BY <1>2, TwoToValues
    <2> QED BY <2>1
<1> QED BY <1>1, <1>3, <1>4, HalvesUnique

\* Halves of small numbers are added, multiplied and divided exactly.
LEMMA HalvesSum ==
    ASSUME NEW a \in Int, NEW b \in Int, Magnitude(a) < 2^20, Magnitude(b) < 2^20
    PROVE  /\ Add(Halves(a), Halves(b)) = Halves(a + b)
           /\ Sub(Halves(a), Halves(b)) = Halves(a - b)
           /\ Less(Halves(a), Halves(b)) <=> a < b
<1>1. /\ Magnitude(a) < 2^24 /\ Magnitude(b) < 2^24 /\ Magnitude(a + b) < 2^24 /\ Magnitude(a - b) < 2^24
      /\ Magnitude(a + b) < 2^31 /\ Magnitude(a - b) < 2^31
    BY DEF Magnitude
<1>2. Halves(a) \in Grid(1) /\ Scaled(Halves(a), 1) = a /\ Halves(b) \in Grid(1) /\ Scaled(Halves(b), 1) = b
    BY <1>1, HalvesValue
<1>3. \A k \in {a + b, a - b} : Halves(k) \in Grid(1) /\ Scaled(Halves(k), 1) = k
    BY <1>1, HalvesValue
<1>4. /\ Rounded(Add(Halves(a), Halves(b)), a + b, 1)
      /\ Rounded(Sub(Halves(a), Halves(b)), a - b, 1)
      /\ Less(Halves(a), Halves(b)) <=> a < b
    <2>1. 1 \in Nat
        OBVIOUS
    <2> QED BY <1>1, <1>2, <2>1, AddValue
<1> QED BY <1>3, <1>4 DEF Rounded

\* FromInt of an integer that is not large.
LEMMA FromIntValue ==
    ASSUME NEW i \in Int, Magnitude(i) <= 100
    PROVE  /\ FromInt(i) = Halves(2 * i)
           /\ FromInt(i) \in Float /\ FromInt(i).m \in Int /\ Magnitude(FromInt(i).m) <= 100 /\ FromInt(i).e >= 0
           /\ Scaled(FromInt(i), 1) = 2 * i
<1>1. Magnitude(i) < 2^20 /\ Magnitude(2 * i) < 2^24 /\ 2 * i \in Int /\ Magnitude(i) < 2^31 /\ Magnitude(i) \in Nat
    BY DEF Magnitude
<1>2. FromInt(i) = Halves(2 * i)
    BY <1>1, FromIntIsHalves
<1>3. FromInt(i) \in Grid(1) /\ Scaled(FromInt(i), 1) = 2 * i
    BY <1>1, <1>2, HalvesValue
<1>4. FromInt(i) \in Float /\ FromInt(i).m \in Int /\ FromInt(i).e \in Int
    BY <1>3, FloatFields DEF Grid
<1>5. Magnitude(FromInt(i).m) <= Magnitude(i) /\ (FromInt(i) = Zero \/ FromInt(i).e >= 0)
    <2>1. 0 \in Int
        OBVIOUS
    <2>2. /\ Magnitude(Canonical(i, 0).m) <= Magnitude(i)
          /\ Canonical(i, 0) = Zero \/ Canonical(i, 0).e >= 0
        BY <1>1, <2>1, CanonicalValue
    <2> QED BY <2>2 DEF FromInt
<1>6. FromInt(i).e >= 0
    BY <1>5 DEF Zero
<1>7. Magnitude(FromInt(i).m) <= 100
    BY <1>1, <1>4, <1>5, MagnitudeType
<1> QED BY <1>2, <1>3, <1>4, <1>6, <1>7

\* Products of halves and integers are exact.
LEMMA HalvesProduct ==
    ASSUME NEW a \in Int, NEW i \in Int, Magnitude(a) < 2^12, Magnitude(i) <= 100
    PROVE  Mul(Halves(a), FromInt(i)) = Halves(a * i)
<1>1. Magnitude(a) < 2^24 /\ a * i \in Int /\ Magnitude(a * i) < 2^24
    <2>1. \A k \in Int : Magnitude(k) <= 100 => Magnitude(a * k) <= 100 * Magnitude(a)
        BY DEF Magnitude
    <2>2. Magnitude(a * i) <= 100 * Magnitude(a)
        BY <2>1
    <2>3. a * i \in Int
        OBVIOUS
    <2> QED BY <2>2, <2>3, MagnitudeType
<1>2. Halves(a) \in Grid(1) /\ Scaled(Halves(a), 1) = a /\ Halves(a).e >= -1
    BY <1>1, HalvesValue
<1>3. Halves(a * i) \in Grid(1) /\ Scaled(Halves(a * i), 1) = a * i
    BY <1>1, HalvesValue
<1>4. FromInt(i) \in Float /\ Magnitude(FromInt(i).m) <= 100 /\ FromInt(i).e >= 0 /\ Scaled(FromInt(i), 1) = 2 * i
    BY FromIntValue
<1>5. FromInt(i).e >= -1 /\ Halves(a).e + FromInt(i).e + 1 >= 0 /\ 1 \in Nat
    <2>1. Halves(a).e \in Int /\ FromInt(i).e \in Int
        BY <1>2, <1>4, FloatFields DEF Grid
    <2> QED BY <1>2, <1>4, <2>1
<1>6. PICK v \in Int : 2 * v = Scaled(Halves(a), 1) * Scaled(FromInt(i), 1) /\ Rounded(Mul(Halves(a), FromInt(i)), v, 1)
    BY <1>2, <1>4, <1>5, MulValue
<1>7. v = a * i
    <2>1. 2 * v = a * (2 * i)
        BY <1>2, <1>4, <1>6
    <2>2. a * (2 * i) = 2 * (a * i)
        OBVIOUS
    <2> QED BY <2>1, <2>2, <1>1
<1> QED BY <1>3, <1>6, <1>7 DEF Rounded

\* What the code divides by.
Divisor(y) == y \in Float /\ y.m \in 1 .. 32 /\ y.e \in -1 .. 6

\* The widths of the segments, in values and in percents.
LEMMA Divisors ==
    /\ \A w \in {1, 2, 4, 8, 40, 60} : Divisor(Halves(w))
    /\ \A c \in {28, 50, 72, 100} : Divisor(FromInt(c))
<1>1. \A q \in {1, 5, 7, 9, 15, 25}, k \in 0 .. 3, e \in {-1, 0} : Divisor(Canonical(q * TwoTo[k], e))
    <2> TAKE q \in {1, 5, 7, 9, 15, 25}, k \in 0 .. 3, e \in {-1, 0}
    <2>1. q \in Int /\ q % 2 = 1 /\ k \in 0 .. 30 /\ e \in Int /\ Magnitude(q) < 2^24
        BY DEF Magnitude
    <2>2. Canonical(q * TwoTo[k], e) = [m |-> q, e |-> e + k]
        BY <2>1, CanonicalIs
    <2>3. e + k \in -1 .. 6 /\ q \in 1 .. 32
        OBVIOUS
    <2> QED BY <2>1, <2>2, <2>3 DEF Divisor, Float, Number
<1>2. /\ 1 = 1 * TwoTo[0] /\ 2 = 1 * TwoTo[1] /\ 4 = 1 * TwoTo[2] /\ 8 = 1 * TwoTo[3] /\ 40 = 5 * TwoTo[3] /\ 60 = 15 * TwoTo[2]
      /\ 28 = 7 * TwoTo[2] /\ 50 = 25 * TwoTo[1] /\ 72 = 9 * TwoTo[3] /\ 100 = 25 * TwoTo[2]
    BY TwoToStep, TwoToValues
<1>3. \A w \in {1, 2, 4, 8, 40, 60, 28, 50, 72, 100} : \E q \in {1, 5, 7, 9, 15, 25}, k \in 0 .. 3 : w = q * TwoTo[k]
    <2> DEFINE Is(w, q, k) == w = q * TwoTo[k]
    <2>1. /\ Is(1, 1, 0) /\ Is(2, 1, 1) /\ Is(4, 1, 2) /\ Is(8, 1, 3) /\ Is(40, 5, 3) /\ Is(60, 15, 2)
          /\ Is(28, 7, 2) /\ Is(50, 25, 1) /\ Is(72, 9, 3) /\ Is(100, 25, 2)
        BY <1>2
    <2> HIDE DEF Is
    <2>2. \A w \in {1, 2, 4, 8, 40, 60, 28, 50, 72, 100} : \E q \in {1, 5, 7, 9, 15, 25}, k \in 0 .. 3 : Is(w, q, k)
        BY <2>1
    <2> QED BY <2>2 DEF Is
<1>4. \A w \in {1, 2, 4, 8, 40, 60, 28, 50, 72, 100} : Divisor(Canonical(w, -1)) /\ Divisor(Canonical(w, 0))
    BY <1>1, <1>3
<1> QED BY <1>4 DEF Halves, FromInt

\* A quotient that is a multiple of 1/2 is exact.
LEMMA HalvesQuotient ==
    ASSUME NEW a \in Int, NEW c \in Int, Magnitude(a) < 2^20, Magnitude(c) < 2^20,
           NEW y, Divisor(y), c * Scaled(y, 1) = 2 * a
    PROVE  Div(Halves(a), y) = Halves(c)
<1>1. Magnitude(a) < 2^24 /\ Magnitude(c) < 2^24
    BY DEF Magnitude
<1>2. /\ Halves(a) \in Grid(1) /\ Halves(a).e >= -1 /\ 2 * Scaled(Halves(a), 41) = a * TwoTo[41]
      /\ Halves(c) \in Grid(41) /\ 2 * Scaled(Halves(c), 41) = c * TwoTo[41]
    BY <1>1, HalvesValue
<1>3. Halves(a) \in Float /\ Halves(a).e \in Int /\ Halves(a).e + 41 >= 40 /\ 41 \in Nat
    BY <1>2, FloatFields DEF Grid
<1>4. /\ Scaled(Halves(a), 41) \in Int /\ Scaled(Halves(c), 41) \in Int /\ Scaled(y, 1) \in Int /\ TwoTo[41] \in Int
    <2>1. Halves(a).e + 41 >= 0 /\ Halves(c) \in Float /\ Halves(c).e + 41 >= 0
        BY <1>2, <1>3 DEF Grid
    <2>2. y \in Float /\ y.e + 1 >= 0 /\ 1 \in Nat
        BY DEF Divisor
    <2> QED BY <2>1, <2>2, <1>3, ScaledType, TwoToPositive
<1>5. Scaled(Halves(c), 41) * Scaled(y, 1) = 2 * Scaled(Halves(a), 41)
    <2> DEFINE sc == Scaled(Halves(c), 41)
               sa == Scaled(Halves(a), 41)
               h == Scaled(y, 1)
               p == TwoTo[41]
    <2>1. 2 * sc = c * p /\ 2 * sa = a * p /\ c * h = 2 * a /\ sc \in Int /\ sa \in Int /\ h \in Int /\ p \in Int
        BY <1>2, <1>4
    <2> HIDE DEF sc, sa, h, p
    <2>2. 2 * (sc * h) = (2 * sc) * h /\ (c * p) * h = (c * h) * p /\ (2 * a) * p = 2 * (a * p) /\ sc * h \in Int
        BY <2>1
    <2>3. 2 * (sc * h) = 2 * (2 * sa)
        BY <2>1, <2>2
    <2>4. sc * h = 2 * sa
        BY <2>1, <2>2, <2>3
    <2> QED BY <2>4 DEF sc, sa, h
<1> QED BY <1>2, <1>3, <1>5, DivValue DEF Divisor

\* Floor of an integer.
LEMMA HalvesFloor ==
    ASSUME NEW n \in Int, Magnitude(n) < 2^20
    PROVE  Floor(Halves(2 * n)) = n
<1>1. Magnitude(2 * n) < 2^24 /\ 2 * n \in Int
    BY DEF Magnitude
<1>2. Halves(2 * n) \in Grid(1) /\ Scaled(Halves(2 * n), 1) = 2 * n
    BY <1>1, HalvesValue
<1>3. TwoTo[1] = 2 /\ 1 \in Nat
    BY TwoToValues
<1>4. Floor(Halves(2 * n)) \in Int /\ Floor(Halves(2 * n)) * 2 <= 2 * n /\ 2 * n < (Floor(Halves(2 * n)) + 1) * 2
    BY <1>2, <1>3, FloorValue
<1> QED BY <1>4

-----------------------------------------------------------------------------
(***************************************************************************)
(* One segment of a range: what is written, and what is read back.         *)
(***************************************************************************)
\* A grid is part of the finer ones.
LEMMA FinerGrid ==
    ASSUME NEW s \in Nat, NEW d \in Nat, NEW x \in Grid(s)
    PROVE  x \in Grid(s + d) /\ Scaled(x, s + d) = Scaled(x, s) * TwoTo[d] /\ Scaled(x, s) \in Int
<1>1. x \in Float /\ x.e + s >= 0 /\ x.e \in Int
    BY FloatFields DEF Grid
<1>2. x.e + (s + d) >= 0
    BY <1>1
<1>3. Scaled(x, s + d) = Scaled(x, s) * TwoTo[d] /\ Scaled(x, s) \in Int
    BY <1>1, ScaledFiner, ScaledType
<1> QED BY <1>1, <1>2, <1>3 DEF Grid

\* A quotient that is not too small is on a grid.
LEMMA DivOnGrid ==
    ASSUME NEW r \in Nat, NEW x \in Grid(r), NEW y, Divisor(y), NEW t \in 0 .. r, r >= t + 23,
           (2^24 - 2) * Magnitude(Scaled(x, r)) >= 2^23 * (Scaled(y, 1) * TwoTo[r - t])
    PROVE  /\ Div(x, y) \in Grid(t + 23)
           /\ 2^23 * Magnitude(Scaled(Div(x, y), r) * Scaled(y, 1) - 2 * Scaled(x, r)) <= 2 * Magnitude(Scaled(x, r))
<1> DEFINE D == Div(x, y)
           h == Scaled(y, 1)
           P == TwoTo[40]
           q == TwoTo[r - t]
           X == Scaled(x, r)
<1>1. x \in Float /\ x.e \in Int /\ x.e + r >= 0 /\ x.e + (r + 40) >= 40 /\ r + 40 \in Nat /\ 40 \in Nat /\ r - t \in Nat
    BY FloatFields DEF Grid
<1>2. P \in Nat \ {0} /\ q \in Nat \ {0}
    BY <1>1, TwoToPositive
<1>3. X \in Int /\ Scaled(x, r + 40) = X * P
    BY <1>1, FinerGrid
<1>4. h \in Nat \ {0}
    <2>1. y \in Float /\ y.e + 1 \in Nat /\ y.m \in Nat \ {0}
        BY DEF Divisor
    <2>2. TwoTo[y.e + 1] \in Nat \ {0}
        BY <2>1, TwoToPositive
    <2>3. \A a, b \in Nat \ {0} : a * b \in Nat \ {0}
        OBVIOUS
    <2> QED BY <2>1, <2>2, <2>3 DEF Scaled
<1>5. D \in Grid(r + 40) /\ 2^23 * Magnitude(Scaled(D, r + 40) * h - 2 * (X * P)) <= 2 * Magnitude(X * P)
    BY <1>1, <1>3, DivValue DEF Divisor
<1>6. D \in Float /\ D.e \in Int /\ D.e + (r + 40) >= 0 /\ Scaled(D, r + 40) \in Int
    BY <1>5, <1>1, FloatFields, ScaledType DEF Grid
<1>7. Magnitude(Scaled(D, r + 40)) >= q * P
    <2> DEFINE U == Scaled(D, r + 40)
    <2>1. Magnitude(X * P) = Magnitude(X) * P /\ Magnitude(X) \in Nat
        BY <1>2, <1>3, MagnitudeProduct, MagnitudeType
    <2>2. Magnitude(U * h) = Magnitude(U) * h /\ Magnitude(U) \in Nat
        BY <1>4, <1>6, MagnitudeProduct, MagnitudeType
    <2>3. X * P \in Int /\ U * h \in Int
        BY <1>2, <1>3, <1>4, <1>6
    <2>4. 2^23 * Magnitude(U * h) >= (2^24 - 2) * Magnitude(X * P)
        <3> DEFINE a == U * h
                   b == X * P
        <3>1. 2^23 * Magnitude(a - 2 * b) <= 2 * Magnitude(b) /\ a \in Int /\ b \in Int
            BY <1>5, <2>3
        <3> HIDE DEF a, b
        <3>2. 2^23 * Magnitude(a) >= (2^24 - 2) * Magnitude(b)
            BY <3>1 DEF Magnitude
        <3> QED BY <3>2 DEF a, b
    <2>5. (2^24 - 2) * (Magnitude(X) * P) >= 2^23 * ((h * q) * P)
        <3>1. (2^24 - 2) * Magnitude(X) >= 2^23 * (h * q)
            OBVIOUS
        <3>2. \A a, b \in Nat : (2^24 - 2) * a >= 2^23 * b => (2^24 - 2) * (a * P) >= 2^23 * (b * P)
            <4> HIDE DEF P
            <4> QED BY <1>2
        <3>3. h * q \in Nat
            BY <1>2, <1>4
        <3> HIDE DEF X, h, q, P
        <3> QED BY <2>1, <3>1, <3>2, <3>3
    <2>6. Magnitude(U) * h >= (h * q) * P
        <3> HIDE DEF U, h, q, P, X
        <3>1. Magnitude(U) * h \in Int /\ (h * q) * P \in Int /\ Magnitude(X) * P \in Int
            BY <1>2, <1>4, <2>1, <2>2
        <3> QED BY <2>1, <2>2, <2>4, <2>5, <3>1
    <2>7. (h * q) * P = (q * P) * h
        <3> HIDE DEF h, q, P
        <3>1. \A a, b, c \in Int : (a * b) * c = (b * c) * a
            OBVIOUS
        <3> QED BY <3>1, <1>2, <1>4
    <2>8. q * P \in Int
        BY <1>2
    <2>9. (q * P) * h <= Magnitude(U) * h
        BY <2>6, <2>7
    <2>10. q * P <= Magnitude(U)
        <3> HIDE DEF U, h, q, P
        <3> QED BY <2>2, <2>8, <2>9, <1>4, Products
    <2> QED BY <2>10
<1>8. D.e >= -(t + 23)
    <2>1. TwoTo[(r + 40) - t] = q * P
        <3>1. (r + 40) - t = (r - t) + 40
            OBVIOUS
        <3> QED BY <1>1, <3>1, TwoToSum
    <2>2. t \in 0 .. r + 40
        OBVIOUS
    <2> QED BY <1>1, <1>6, <1>7, <2>1, <2>2, NotTooFine
<1>9. D \in Grid(t + 23)
    BY <1>6, <1>8 DEF Grid
<1>10. D \in Grid(r) /\ Scaled(D, r) \in Int /\ Scaled(D, r + 40) = Scaled(D, r) * P
    <2>1. D.e + r >= 0
        BY <1>6, <1>8
    <2>2. D \in Grid(r)
        BY <1>6, <2>1 DEF Grid
    <2> QED BY <1>1, <2>2, FinerGrid
<1>11. 2^23 * Magnitude(Scaled(D, r) * h - 2 * X) <= 2 * Magnitude(X)
    <2> DEFINE V == Scaled(D, r)
    <2>1. (V * P) * h - 2 * (X * P) = (V * h - 2 * X) * P
        <3>1. \A a, b, c, d \in Int : (a * d) * b - 2 * (c * d) = (a * b - 2 * c) * d
            OBVIOUS
        <3>2. V \in Int /\ h \in Int /\ X \in Int /\ P \in Int
            BY <1>2, <1>3, <1>4, <1>10
        <3> HIDE DEF V, h, P, X
        <3> QED BY <3>1, <3>2
    <2>2. V * h - 2 * X \in Int
        BY <1>3, <1>4, <1>10
    <2>3. Magnitude((V * h - 2 * X) * P) = Magnitude(V * h - 2 * X) * P /\ Magnitude(X * P) = Magnitude(X) * P
        BY <1>2, <1>3, <2>2, MagnitudeProduct
    <2>4. Magnitude(V * h - 2 * X) \in Int /\ Magnitude(X) \in Int
        BY <1>3, <2>2, MagnitudeType
    <2>5. 2^23 * (Magnitude(V * h - 2 * X) * P) <= 2 * (Magnitude(X) * P)
        BY <1>5, <1>10, <2>1, <2>3
    <2>6. \A a, b \in Int : 2^23 * (a * P) <= 2 * (b * P) => 2^23 * a <= 2 * b
        <3> HIDE DEF P
        <3>1. \A a, b \in Int : a * P <= b * P => a <= b
            BY <1>2, Products
        <3>2. \A a, b \in Int : 2^23 * (a * P) = (2^23 * a) * P /\ 2 * (b * P) = (2 * b) * P
            BY <1>2
        <3> QED BY <3>1, <3>2
    <2> QED BY <2>4, <2>5, <2>6
<1> QED BY <1>9, <1>11

\* The percentages from b to b + c of a range stand for the values from f / 2
\* to (f + w) / 2, which are written as multiples of 2^-(t + 23).
Piece(f, w, b, c, t) ==
    /\ f \in Int /\ w \in 1 .. 60 /\ b \in 0 .. 100 /\ c \in 1 .. 100 /\ b + c <= 100 /\ t \in 0 .. 7
    /\ Divisor(Halves(w)) /\ Divisor(FromInt(c))
    /\ w * TwoTo[t] > 2 * c /\ w * TwoTo[t] <= 384
    /\ \A k \in {f, f + w} : Magnitude(k) <= 2 * w /\ Magnitude(k) * TwoTo[t] <= 384

\* The value that percentage b + u is written as.
Written(f, w, c, u) == Add(Halves(f), Div(Mul(Halves(w), FromInt(u)), FromInt(c)))

\* The numbers of a segment are small.
LEMMA PieceBounds ==
    ASSUME NEW f, NEW w, NEW b, NEW c, NEW t, Piece(f, w, b, c, t)
    PROVE  /\ f \in Int /\ w \in 1 .. 60 /\ c \in 1 .. 100 /\ t \in 0 .. 7
           /\ Magnitude(f) <= 120 /\ Magnitude(f + w) <= 120
           /\ TwoTo[t] \in Nat \ {0} /\ TwoTo[t + 23] = TwoTo[t] * TwoTo[23]
           /\ TwoTo[23] = 2^23 /\ TwoTo[t + 23] \in Nat \ {0}
<1>1. f \in Int /\ w \in 1 .. 60 /\ c \in 1 .. 100 /\ t \in 0 .. 7 /\ t \in Nat /\ t + 23 \in Nat /\ 23 \in Nat /\ 22 \in Nat
    BY DEF Piece
<1>2. Magnitude(f) <= 120 /\ Magnitude(f + w) <= 120
    <2>1. Magnitude(f) <= 2 * w /\ Magnitude(f + w) <= 2 * w
        BY DEF Piece
    <2> QED BY <1>1, <2>1, MagnitudeType
<1>3. TwoTo[t] \in Nat \ {0} /\ TwoTo[t + 23] \in Nat \ {0} /\ TwoTo[23] \in Nat
    BY <1>1, TwoToPositive
<1>4. TwoTo[t + 23] = TwoTo[t] * TwoTo[23]
    BY <1>1, TwoToSum
<1>5. TwoTo[23] = 2^23
    <2>1. TwoTo[23 + 1] = 2 * TwoTo[23] /\ 23 + 1 = 24
        BY <1>1, TwoToStep
    <2> QED BY <2>1, <1>3, TwoToValues
<1> QED BY <1>1, <1>2, <1>3, <1>4, <1>5

\* The product is exact.
LEMMA PieceQuotient ==
    ASSUME NEW f, NEW w, NEW b, NEW c, NEW t, Piece(f, w, b, c, t), NEW u \in 1 .. c
    PROVE  LET D == Div(Mul(Halves(w), FromInt(u)), FromInt(c))
               W == w * TwoTo[t + 23]
           IN  /\ D \in Grid(t + 23)
               /\ 2^23 * Magnitude((2 * c) * Scaled(D, t + 23) - u * W) <= u * W
<1> DEFINE g == t + 23
           G == TwoTo[g]
           x == Halves(w * u)
           X == Scaled(x, g)
           W == w * G
           D == Div(x, FromInt(c))
<1>1. /\ f \in Int /\ w \in 1 .. 60 /\ c \in 1 .. 100 /\ t \in 0 .. 7 /\ u \in 1 .. 100
      /\ TwoTo[t] \in Nat \ {0} /\ G = TwoTo[t] * TwoTo[23] /\ TwoTo[23] = 2^23 /\ G \in Nat \ {0}
    BY PieceBounds
<1>2. g \in Nat \ {0} /\ t \in 0 .. g /\ g >= t + 23 /\ g - t = 23
    BY <1>1
<1>3. w * u \in 1 .. 6000 /\ Magnitude(w * u) < 2^24 /\ Magnitude(w) < 2^12 /\ Magnitude(u) <= 100 /\ Magnitude(c) <= 100
    <2>1. w \in 1 .. 60 /\ c \in 1 .. 100 /\ u \in 1 .. 100
        BY <1>1
    <2>2. PICK p \in 1 .. 6000 : p = w * u
        BY <2>1
    <2>3. Magnitude(p) < 2^24
        BY DEF Magnitude
    <2>4. Magnitude(w) < 2^12 /\ Magnitude(u) <= 100 /\ Magnitude(c) <= 100
        BY <2>1 DEF Magnitude
    <2> QED BY <2>2, <2>3, <2>4
<1>4. Mul(Halves(w), FromInt(u)) = x
    BY <1>1, <1>3, HalvesProduct
<1>5. x \in Grid(g) /\ 2 * X = (w * u) * G
    <2>1. w * u \in Int
        BY <1>1
    <2>2. \A s \in Nat \ {0} : Halves(w * u) \in Grid(s) /\ 2 * Scaled(Halves(w * u), s) = (w * u) * TwoTo[s]
        <3> DEFINE n == w * u
        <3>0. n \in Int
            BY <2>1
        <3>1. Magnitude(n) < 2^24
            BY <1>3
        <3> HIDE DEF n
        <3>2. \A s \in Nat \ {0} : Halves(n) \in Grid(s) /\ 2 * Scaled(Halves(n), s) = n * TwoTo[s]
            BY <3>0, <3>1, HalvesValue
        <3> QED BY <3>2 DEF n
    <2> HIDE DEF g
    <2> QED BY <1>2, <2>2
<1>6. X \in Int /\ 2 * X = u * W /\ u * W > 0
    <2>1. X \in Int
        BY <1>2, <1>5, ScaledType DEF Grid
    <2>2. (w * u) * G = u * (w * G)
        <3>1. \A i, j, k \in Int : (i * j) * k = j * (i * k)
            OBVIOUS
        <3> HIDE DEF G
        <3> QED BY <1>1, <3>1
    <2>3. (w * u) * G > 0
        <3>1. \A i, j \in Nat \ {0} : i * j > 0
            OBVIOUS
        <3> HIDE DEF G
        <3> QED BY <1>1, <1>3, <3>1
    <2> QED BY <1>5, <2>1, <2>2, <2>3
<1>7. Divisor(FromInt(c)) /\ Scaled(FromInt(c), 1) = 2 * c
    <2>1. Divisor(FromInt(c))
        BY DEF Piece
    <2>2. c \in Int
        BY <1>1
    <2>3. Magnitude(c) <= 100
        BY <1>3
    <2>4. Scaled(FromInt(c), 1) = 2 * c
        BY <2>2, <2>3, FromIntValue
    <2> QED BY <2>1, <2>4
<1>8. (2^24 - 2) * Magnitude(X) >= 2^23 * (Scaled(FromInt(c), 1) * TwoTo[g - t])
    <2> DEFINE n == (w * u) * TwoTo[t]
    <2>1. n > 2 * c /\ n \in Int
        <3>1. w * TwoTo[t] > 2 * c
            BY DEF Piece
        <3>2. n = (w * TwoTo[t]) * u
            BY <1>1
        <3>3. w * TwoTo[t] \in Int
            BY <1>1
        <3>4. \A i \in Int, j \in Nat \ {0} : i > 0 => i * j >= i /\ i * j \in Int
            OBVIOUS
        <3>5. (w * TwoTo[t]) * u >= w * TwoTo[t]
            BY <1>1, <3>1, <3>3, <3>4
        <3> HIDE DEF n
        <3> QED BY <1>1, <3>1, <3>2, <3>3, <3>4, <3>5
    <2>2. 2 * X = n * 2^23
        <3>1. (w * u) * G = n * 2^23
            BY <1>1, <1>3
        <3> QED BY <1>5, <3>1
    <2> HIDE DEF n, X
    <2>3. (2^24 - 2) * X >= 2^23 * ((2 * c) * 2^23)
        BY <1>1, <1>6, <2>1, <2>2
    <2>4. Magnitude(X) = X
        BY <1>6 DEF Magnitude
    <2> QED BY <1>1, <1>2, <1>7, <2>3, <2>4
<1>9. /\ D \in Grid(g)
      /\ 2^23 * Magnitude(Scaled(D, g) * (2 * c) - 2 * X) <= 2 * Magnitude(X)
    BY <1>2, <1>5, <1>7, <1>8, DivOnGrid
<1>10. 2^23 * Magnitude((2 * c) * Scaled(D, g) - u * W) <= u * W
    <2>1. Scaled(D, g) \in Int
        BY <1>2, <1>9, ScaledType DEF Grid
    <2>2. Scaled(D, g) * (2 * c) = (2 * c) * Scaled(D, g)
        <3> HIDE DEF D
        <3> QED BY <1>1, <2>1
    <2>3. 2 * Magnitude(X) = u * W
        <3> HIDE DEF X, W
        <3> QED BY <1>6 DEF Magnitude
    <2> QED BY <1>6, <1>9, <2>2, <2>3
<1> QED BY <1>4, <1>9, <1>10

\* The exact value is no further from 0 than the ends of the range.
LEMMA PieceSum ==
    ASSUME NEW f, NEW w, NEW b, NEW c, NEW t, Piece(f, w, b, c, t), NEW u \in 1 .. c
    PROVE  /\ Magnitude(c * (f * TwoTo[t + 23]) + u * (w * TwoTo[t + 23])) <= 2 * (c * (w * TwoTo[t + 23]))
           /\ Magnitude(c * (f * TwoTo[t + 23]) + u * (w * TwoTo[t + 23])) <= (384 * c) * 2^23
           /\ c * (w * TwoTo[t + 23]) <= (768 * c) * 2^23
<1> DEFINE T == TwoTo[t]
           G == TwoTo[t + 23]
<1>1. /\ f \in Int /\ w \in 1 .. 60 /\ c \in 1 .. 100 /\ t \in 0 .. 7 /\ u \in 1 .. 100 /\ u <= c
      /\ T \in Nat \ {0} /\ G = T * 2^23 /\ G \in Nat \ {0}
    BY PieceBounds
<1>2. /\ -(2 * w) <= f /\ f + w <= 2 * w
      /\ -384 <= f * T /\ (f + w) * T <= 384 /\ f * T \in Int /\ w * T \in Int
    <2>1. /\ Magnitude(f) <= 2 * w /\ Magnitude(f) * T <= 384
          /\ Magnitude(f + w) <= 2 * w /\ Magnitude(f + w) * T <= 384
        BY DEF Piece
    <2>2. Magnitude(f) * T = Magnitude(f * T) /\ Magnitude(f + w) * T = Magnitude((f + w) * T)
        <3>1. f \in Int /\ f + w \in Int /\ T \in Nat \ {0}
            BY <1>1
        <3> HIDE DEF T
        <3> QED BY <3>1, MagnitudeProduct
    <2>3. f * T \in Int /\ (f + w) * T \in Int /\ w * T \in Int
        BY <1>1
    <2> HIDE DEF T
    <2> QED BY <1>1, <2>1, <2>2, <2>3 DEF Magnitude
<1>3. ASSUME NEW i \in Int, NEW j \in Int, NEW lo \in Int, NEW hi \in Int, j >= 0, lo <= i, i + j <= hi
      PROVE  c * lo <= c * i + u * j /\ c * i + u * j <= c * hi
    <2>1. c * lo <= c * i /\ c * (i + j) <= c * hi
        BY <1>1, <1>3
    <2>2. 0 <= u * j /\ u * j <= c * j
        BY <1>1, <1>3
    <2>3. c * (i + j) = c * i + c * j /\ c * lo \in Int /\ c * i \in Int /\ c * hi \in Int /\ u * j \in Int /\ c * j \in Int
        BY <1>1
    <2> QED BY <2>1, <2>2, <2>3
<1>4. Magnitude(c * (f * G) + u * (w * G)) <= 2 * (c * (w * G))
    <2>1. /\ f * G \in Int /\ w * G \in Int /\ w * G >= 0
          /\ -(2 * (w * G)) <= f * G /\ f * G + w * G <= 2 * (w * G)
        <3>1. (-(2 * w)) * G <= f * G /\ (f + w) * G <= (2 * w) * G
            <4>1. -(2 * w) \in Int /\ f + w \in Int /\ 2 * w \in Int
                BY <1>1
            <4> HIDE DEF G
            <4> QED BY <1>1, <1>2, <4>1, Products
        <3>2. (-(2 * w)) * G = -(2 * (w * G)) /\ (2 * w) * G = 2 * (w * G) /\ (f + w) * G = f * G + w * G
            <4>1. \A i, j, k \in Int : (-(2 * i)) * j = -(2 * (i * j)) /\ (2 * i) * j = 2 * (i * j) /\ (k + i) * j = k * j + i * j
                OBVIOUS
            <4>2. f \in Int /\ w \in Int /\ G \in Int
                BY <1>1
            <4> HIDE DEF G
            <4> QED BY <4>1, <4>2
        <3>3. f * G \in Int /\ w * G \in Int /\ w * G >= 0
            <4> HIDE DEF G
            <4> QED BY <1>1
        <3> QED BY <3>1, <3>2, <3>3
    <2> DEFINE F == f * G
               W == w * G
    <2> HIDE DEF F, W
    <2>2. /\ F \in Int /\ W \in Int /\ W >= 0 /\ -(2 * W) <= F /\ F + W <= 2 * W
        BY <2>1 DEF F, W
    <2>3. c * (-(2 * W)) <= c * F + u * W /\ c * F + u * W <= c * (2 * W)
        <3>1. -(2 * W) \in Int /\ 2 * W \in Int
            BY <2>2
        <3> QED BY <1>3, <2>2, <3>1
    <2>4. c * (-(2 * W)) = -(2 * (c * W)) /\ c * (2 * W) = 2 * (c * W) /\ c * F + u * W \in Int /\ c * W \in Int
        BY <1>1, <2>2
    <2>5. Magnitude(c * F + u * W) <= 2 * (c * W)
        <3> DEFINE a == c * F + u * W
                   k == c * W
        <3>1. a \in Int /\ k \in Int /\ -(2 * k) <= a /\ a <= 2 * k
            BY <2>3, <2>4
        <3> HIDE DEF a, k
        <3>2. Magnitude(a) <= 2 * k
            BY <3>1 DEF Magnitude
        <3> QED BY <3>2 DEF a, k
    <2> QED BY <2>5 DEF F, W
<1>5. Magnitude(c * (f * G) + u * (w * G)) <= (384 * c) * 2^23 /\ c * (w * G) <= (768 * c) * 2^23
    <2> DEFINE p == f * T
               q == w * T
    <2>1. p \in Int /\ q \in Int /\ q >= 0 /\ -384 <= p /\ p + q <= 384 /\ q <= 768
        <3>1. (f + w) * T = p + q
            <4> HIDE DEF T
            <4> QED BY <1>1
        <3>2. q >= 0
            <4> HIDE DEF T
            <4> QED BY <1>1
        <3> HIDE DEF T
        <3> QED BY <1>2, <3>1, <3>2
    <2>2. c * (f * G) + u * (w * G) = (c * p + u * q) * 2^23 /\ c * (w * G) = (c * q) * 2^23
        <3>1. f * G = p * 2^23 /\ w * G = q * 2^23
            <4> HIDE DEF T
            <4> QED BY <1>1
        <3>2. \A i, j \in Int : c * (i * 2^23) + u * (j * 2^23) = (c * i + u * j) * 2^23 /\ c * (j * 2^23) = (c * j) * 2^23
            BY <1>1
        <3> HIDE DEF p, q, G
        <3> QED BY <2>1, <3>1, <3>2
    <2> HIDE DEF p, q
    <2>3. c * (-384) <= c * p + u * q /\ c * p + u * q <= c * 384
        <3>1. -384 \in Int /\ 384 \in Int
            OBVIOUS
        <3> QED BY <1>3, <2>1, <3>1
    <2>4. c * q <= 768 * c /\ c * q \in Int /\ c * p + u * q \in Int
        BY <1>1, <2>1
    <2>5. Magnitude((c * p + u * q) * 2^23) <= (384 * c) * 2^23
        <3> DEFINE a == c * p + u * q
        <3>1. a \in Int /\ -(384 * c) <= a /\ a <= 384 * c
            BY <1>1, <2>3, <2>4
        <3> HIDE DEF a
        <3>2. Magnitude(a * 2^23) <= (384 * c) * 2^23
            BY <1>1, <3>1 DEF Magnitude
        <3> QED BY <3>2 DEF a
    <2>6. (c * q) * 2^23 <= (768 * c) * 2^23
        <3> DEFINE k == c * q
        <3>1. k \in Int /\ k <= 768 * c
            BY <2>4
        <3> HIDE DEF k
        <3>2. k * 2^23 <= (768 * c) * 2^23
            BY <1>1, <3>1
        <3> QED BY <3>2 DEF k
    <2> QED BY <2>2, <2>5, <2>6
<1> QED BY <1>4, <1>5

\* What is written is close to the point of the segment that the percentage
\* stands for, and on the same side of the segment's ends.
LEMMA WrittenValue ==
    ASSUME NEW f, NEW w, NEW b, NEW c, NEW t, Piece(f, w, b, c, t), NEW u \in 1 .. c
    PROVE  LET v == Written(f, w, c, u)
               g == t + 23
               W == w * TwoTo[t + 23]
           IN  /\ v \in Grid(t + 23)
               /\ 2^26 * Magnitude((2 * c) * (Scaled(v, t + 23) - Scaled(Halves(f), t + 23)) - u * W) <= 17 * (c * W)
               /\ u < c => Less(v, Halves(f + w))
               /\ ~Less(v, Halves(f))
<1> DEFINE g == t + 23
           G == TwoTo[t + 23]
           W == w * G
           F == f * G
           D == Div(Mul(Halves(w), FromInt(u)), FromInt(c))
           v == Written(f, w, c, u)
           P == Scaled(Halves(f), g)
           Q == Scaled(D, g)
           S == Scaled(v, g)
<1>1. /\ f \in Int /\ w \in 1 .. 60 /\ c \in 1 .. 100 /\ t \in 0 .. 7 /\ u \in 1 .. 100 /\ u <= c
      /\ G \in Nat \ {0} /\ Magnitude(f) <= 120 /\ Magnitude(f + w) <= 120 /\ g \in Nat \ {0}
    BY PieceBounds
<1>2. D \in Grid(g) /\ 2^23 * Magnitude((2 * c) * Q - u * W) <= u * W
    BY PieceQuotient
<1>3. \A k \in {f, f + w} : Halves(k) \in Grid(g) /\ 2 * Scaled(Halves(k), g) = k * G
    <2> TAKE k \in {f, f + w}
    <2>1. k \in Int /\ Magnitude(k) < 2^24
        <3>1. f \in Int /\ f + w \in Int /\ \A i \in Int : Magnitude(i) \in Nat
            BY <1>1, MagnitudeType
        <3>2. Magnitude(f) < 2^24 /\ Magnitude(f + w) < 2^24
            BY <1>1, <3>1
        <3> QED BY <3>1, <3>2
    <2>2. \A s \in Nat \ {0} : Halves(k) \in Grid(s) /\ 2 * Scaled(Halves(k), s) = k * TwoTo[s]
        BY <2>1, HalvesValue
    <2> HIDE DEF g
    <2>3. Halves(k) \in Grid(g) /\ 2 * Scaled(Halves(k), g) = k * TwoTo[g]
        BY <1>1, <2>2
    <2> QED BY <2>3 DEF g
<1>4. P \in Int /\ Q \in Int /\ 2 * P = F /\ W \in Int /\ F \in Int /\ Scaled(Halves(f + w), g) \in Int
    <2>1. P \in Int /\ Q \in Int /\ Scaled(Halves(f + w), g) \in Int
        BY <1>1, <1>2, <1>3, ScaledType DEF Grid
    <2>2. 2 * P = F
        BY <1>3
    <2>3. W \in Int /\ F \in Int
        BY <1>1
    <2> QED BY <2>1, <2>2, <2>3
<1> DEFINE A == c * W
           X == u * W
<1>5. /\ A \in Int /\ X \in Int /\ 0 < X /\ X <= A /\ A <= 100 * X
      /\ u < c => 100 * (A - X) >= A
    <2>1. W > 0
        <3> HIDE DEF G
        <3> QED BY <1>1
    <2>2. W <= u * W /\ u * W <= c * W /\ c * W <= 100 * W /\ u * W \in Int /\ c * W \in Int
        <3> HIDE DEF W
        <3> QED BY <1>1, <1>4, <2>1
    <2>3. u < c => c * W - u * W >= W
        <3>1. (c - u) * W = c * W - u * W
            <4> HIDE DEF W
            <4> QED BY <1>1, <1>4
        <3>2. u < c => (c - u) * W >= W
            <4> HIDE DEF W
            <4> QED BY <1>1, <1>4, <2>1
        <3> QED BY <3>1, <3>2
    <2> HIDE DEF W
    <2> QED BY <1>4, <2>1, <2>2, <2>3
<1>6. /\ Magnitude(c * F + X) <= 2 * A /\ Magnitude(c * F + X) <= (384 * c) * 2^23 /\ A <= (768 * c) * 2^23
      /\ c * F \in Int /\ c * F = (2 * c) * P
    <2>1. Magnitude(c * F + X) <= 2 * A /\ Magnitude(c * F + X) <= (384 * c) * 2^23 /\ A <= (768 * c) * 2^23
        BY PieceSum
    <2>2. c * F \in Int /\ c * F = (2 * c) * P
        <3> HIDE DEF F, P
        <3>1. c * (2 * P) = (2 * c) * P
            BY <1>1, <1>4
        <3> QED BY <1>1, <1>4, <3>1
    <2> QED BY <2>1, <2>2
<1> DEFINE PC == (2 * c) * P
           QC == (2 * c) * Q
           SC == (2 * c) * S
<1>7. PC \in Int /\ QC \in Int /\ (2 * c) * (P + Q) = PC + QC /\ 2^23 * Magnitude(QC - X) <= X
    <2>1. PC \in Int /\ QC \in Int /\ (2 * c) * (P + Q) = PC + QC
        <3> HIDE DEF P, Q
        <3> QED BY <1>1, <1>4
    <2> QED BY <1>2, <2>1
<1>8. Magnitude(P + Q) < 2^31
    <2> DEFINE B == P + Q
    <2>1. Magnitude(PC + X) <= (384 * c) * 2^23 /\ 2^23 * Magnitude(QC - X) <= X /\ X <= (768 * c) * 2^23
        <3>1. Magnitude(PC + X) <= (384 * c) * 2^23
            BY <1>6
        <3>2. X <= (768 * c) * 2^23
            <4>1. X <= A /\ X \in Int /\ A \in Int /\ A <= (768 * c) * 2^23
                BY <1>5, <1>6
            <4> HIDE DEF X, A
            <4> QED BY <1>1, <4>1
        <3> QED BY <1>7, <3>1, <3>2
    <2>2. Magnitude(PC + QC) <= (384 * c) * 2^23 + 768 * c
        <3> HIDE DEF PC, QC, X
        <3> QED BY <1>1, <1>5, <1>7, <2>1 DEF Magnitude
    <2>3. Magnitude((2 * c) * B) = Magnitude(B) * (2 * c) /\ Magnitude(B) \in Int /\ B \in Int
        <3>1. B \in Int /\ 2 * c \in Nat \ {0}
            BY <1>1, <1>4
        <3> DEFINE p == 2 * c
        <3>2. Magnitude(B * p) = Magnitude(B) * p /\ Magnitude(B) \in Int
            <4>1. B \in Int /\ p \in Nat \ {0}
                BY <3>1
            <4> HIDE DEF B, p
            <4>2. Magnitude(B * p) = Magnitude(B) * p
                BY <4>1, MagnitudeProduct
            <4>3. Magnitude(B) \in Int
                BY <4>1, MagnitudeType
            <4> QED BY <4>2, <4>3
        <3>3. B * (2 * c) = (2 * c) * B
            <4> HIDE DEF B
            <4> QED BY <3>1
        <3> QED BY <3>1, <3>2, <3>3
    <2>4. Magnitude(B) * (2 * c) <= (384 * c) * 2^23 + 768 * c
        BY <1>7, <2>2, <2>3
    <2>5. \A m \in Int : m * (2 * c) <= (384 * c) * 2^23 + 768 * c => m <= 192 * 2^23 + 384
        BY <1>1
    <2> HIDE DEF B
    <2>6. Magnitude(B) <= 192 * 2^23 + 384
        BY <2>3, <2>4, <2>5
    <2>7. Magnitude(B) < 2^31
        BY <2>3, <2>6
    <2> QED BY <2>7 DEF B
<1>9. v \in Grid(g) /\ Near(S, P + Q)
    <2>1. g \in Nat /\ Halves(f) \in Grid(g)
        BY <1>1, <1>3
    <2> QED BY <1>2, <1>8, <2>1, AddValue DEF Written, Rounded
<1>10. S \in Int /\ SC \in Int /\ 2^24 * Magnitude(SC - (PC + QC)) <= Magnitude(PC + QC)
    <2>1. S \in Int /\ P + Q \in Int
        BY <1>1, <1>4, <1>9, ScaledType DEF Grid
    <2>2. 2 * c \in Nat \ {0}
        BY <1>1
    <2>3. Near(S * (2 * c), (P + Q) * (2 * c))
        <3> HIDE DEF S, P, Q
        <3> QED BY <1>9, <2>1, <2>2, NearScaled
    <2>4. S * (2 * c) = SC /\ (P + Q) * (2 * c) = PC + QC /\ SC \in Int
        <3> HIDE DEF S, P, Q
        <3> QED BY <1>1, <1>4, <1>7, <2>1
    <2> QED BY <2>1, <2>3, <2>4 DEF Near
<1>11. 2^26 * Magnitude((SC - PC) - X) <= 17 * A
    <2>1. Magnitude(PC + X) <= 2 * A
        BY <1>6
    <2> HIDE DEF SC, PC, QC, X, A
    <2> QED BY <1>5, <1>7, <1>10, <2>1 DEF Magnitude
<1>12. (2 * c) * (S - P) = SC - PC
    <2> HIDE DEF S, P
    <2> QED BY <1>1, <1>4, <1>10
<1>13. ASSUME u < c PROVE Less(v, Halves(f + w))
    <2> DEFINE Z == Scaled(Halves(f + w), g)
               ZC == (2 * c) * Z
    <2>1. ZC = PC + A
        <3>1. 2 * Z = F + W
            <4>1. 2 * Z = (f + w) * G
                BY <1>3
            <4>2. (f + w) * G = F + W
                <5> HIDE DEF G
                <5> QED BY <1>1
            <4> QED BY <4>1, <4>2
        <3>2. ZC = c * (F + W)
            <4>1. ZC = c * (2 * Z)
                <5> HIDE DEF Z
                <5> QED BY <1>1, <1>4 DEF Z
            <4> QED BY <3>1, <4>1
        <3>3. c * (F + W) = c * F + c * W
            <4> HIDE DEF F, W
            <4> QED BY <1>1, <1>4
        <3> QED BY <1>6, <3>2, <3>3
    <2>2. SC < ZC
        <3>1. SC < PC + A
            <4> HIDE DEF SC, PC, X, A
            <4> QED BY <1>5, <1>7, <1>10, <1>11, <1>13 DEF Magnitude
        <3> QED BY <2>1, <3>1
    <2>3. S < Z
        <3>1. Z \in Int
            BY <1>4
        <3> HIDE DEF S, Z
        <3> QED BY <1>1, <1>10, <2>2, <3>1
    <2>4. g \in Nat /\ Halves(f + w) \in Grid(g)
        BY <1>1, <1>3
    <2> QED BY <1>9, <2>3, <2>4, AddValue
<1>14. ~Less(v, Halves(f))
    <2>1. SC > PC
        <3> HIDE DEF SC, PC, X, A
        <3> QED BY <1>5, <1>7, <1>10, <1>11 DEF Magnitude
    <2>2. S > P
        <3> HIDE DEF S, P
        <3> QED BY <1>1, <1>4, <1>10, <2>1
    <2>3. g \in Nat /\ Halves(f) \in Grid(g)
        BY <1>1, <1>3
    <2>4. ~(S < P)
        <3> HIDE DEF S, P
        <3> QED BY <1>4, <1>10, <2>2
    <2> QED BY <1>9, <2>3, <2>4, AddValue
<1> QED BY <1>9, <1>11, <1>12, <1>13, <1>14

\* E is u / c, nearly.
Share(E, c, u) ==
    E \in Grid(30) /\ 2^26 * Magnitude(c * Scaled(E, 30) - u * 2^30) <= (31 * c) * 2^30

\* M is u, nearly.
InPercents(M, u) ==
    M \in Grid(24) /\ Magnitude(Scaled(M, 24) - u * 2^24) <= 900

\* The distance from the start of a segment, in halves of its width.
LEMMA ReadQuotient ==
    ASSUME NEW f, NEW w, NEW b, NEW c, NEW t, Piece(f, w, b, c, t), NEW u \in 1 .. c,
           NEW y \in Int, 2^26 * Magnitude((2 * c) * y - u * (w * TwoTo[t + 23])) <= 17 * (c * (w * TwoTo[t + 23])),
           NEW d, Rounded(d, y, t + 23)
    PROVE  Share(Div(d, Halves(w)), c, u)
<1> DEFINE g == t + 23
           G == TwoTo[t + 23]
           k == 7 - t
           K == TwoTo[7 - t]
           W == w * G
           X == u * W
           A == c * W
           Y == (2 * c) * y
           S == Scaled(d, g)
           U == Scaled(d, 30)
           E == Div(d, Halves(w))
           e == Scaled(E, 30)
           Z == w * 2^30
<1>1. /\ w \in 1 .. 60 /\ c \in 1 .. 100 /\ t \in 0 .. 7 /\ u \in 1 .. 100 /\ u <= c
      /\ G \in Nat \ {0} /\ g \in Nat \ {0} /\ k \in Nat
    BY PieceBounds
<1>2. K \in Nat \ {0} /\ G * K = 2^30 /\ g + k = 30
    <2>1. k \in Nat /\ g \in Nat /\ g + k = 30
        BY <1>1
    <2>2. TwoTo[g + k] = TwoTo[g] * TwoTo[k]
        BY <2>1, TwoToSum
    <2> QED BY <2>1, <2>2, TwoToPositive, TwoToValues
<1>3. d \in Grid(g) /\ S \in Int /\ d \in Grid(30) /\ U = S * K /\ U \in Int
    <2>1. d \in Grid(g) /\ g \in Nat
        BY <1>1 DEF Rounded
    <2>2. d \in Grid(g + k) /\ Scaled(d, g + k) = S * TwoTo[k] /\ S \in Int
        BY <1>1, <2>1, FinerGrid
    <2>3. S * K \in Int
        BY <1>2, <2>2
    <2> QED BY <1>2, <2>1, <2>2, <2>3
<1>4. W \in Int /\ X \in Int /\ A \in Int /\ Y \in Int /\ 0 < X /\ X <= A /\ A <= 100 * X /\ W * K = Z
    <2>1. W > 0 /\ W \in Int
        <3> HIDE DEF G
        <3> QED BY <1>1
    <2>2. W <= u * W /\ u * W <= c * W /\ c * W <= 100 * W /\ u * W \in Int /\ c * W \in Int
        <3> HIDE DEF W
        <3> QED BY <1>1, <2>1
    <2>3. W * K = w * (G * K)
        <3> HIDE DEF G, K
        <3> QED BY <1>1, <1>2
    <2>4. Y \in Int
        BY <1>1
    <2> HIDE DEF W
    <2> QED BY <1>2, <2>1, <2>2, <2>3, <2>4
<1> DEFINE SC == (2 * c) * S
           UC == (2 * c) * U
<1>5. SC \in Int /\ 2^26 * Magnitude(SC - X) <= 22 * A
    <2>1. 2 * c \in Nat \ {0}
        BY <1>1
    <2>2. Near(S * (2 * c), y * (2 * c))
        <3>1. Near(S, y)
            BY DEF Rounded
        <3> HIDE DEF S
        <3> QED BY <1>3, <2>1, <3>1, NearScaled
    <2>3. S * (2 * c) = SC /\ y * (2 * c) = Y /\ SC \in Int
        <3> HIDE DEF S
        <3> QED BY <1>1, <1>3
    <2>4. 2^24 * Magnitude(SC - Y) <= Magnitude(Y)
        BY <2>2, <2>3 DEF Near
    <2>5. 2^26 * Magnitude(Y - X) <= 17 * A
        OBVIOUS
    <2> HIDE DEF SC, Y, X, A
    <2> QED BY <1>4, <2>3, <2>4, <2>5 DEF Magnitude
<1>6. UC \in Int /\ 2^26 * Magnitude(UC - u * Z) <= 22 * (c * Z)
    <2>1. UC = SC * K
        <3> HIDE DEF S, K
        <3> QED BY <1>1, <1>2, <1>3
    <2>2. X * K = u * Z /\ A * K = c * Z
        <3>1. X * K = u * (W * K) /\ A * K = c * (W * K)
            <4>1. \A i, j, l \in Int : (i * j) * l = i * (j * l)
                OBVIOUS
            <4>2. u \in Int /\ c \in Int /\ W \in Int /\ K \in Int
                BY <1>1, <1>2, <1>4
            <4> HIDE DEF W, K
            <4> QED BY <4>1, <4>2
        <3> QED BY <1>4, <3>1
    <2>3. Magnitude((SC - X) * K) = Magnitude(SC - X) * K /\ Magnitude(SC - X) \in Int
        <3>1. SC - X \in Int /\ K \in Nat \ {0}
            BY <1>2, <1>4, <1>5
        <3>2. Magnitude((SC - X) * K) = Magnitude(SC - X) * K
            <4> HIDE DEF SC, X, K
            <4> QED BY <3>1, MagnitudeProduct
        <3>3. Magnitude(SC - X) \in Int
            <4> HIDE DEF SC, X, K
            <4> QED BY <3>1, MagnitudeType
        <3> QED BY <3>2, <3>3
    <2>4. (SC - X) * K = SC * K - X * K
        <3> HIDE DEF SC, X, K
        <3> QED BY <1>2, <1>4, <1>5
    <2>5. \A i, j \in Int : 2^26 * i <= 22 * j => 2^26 * (i * K) <= 22 * (j * K)
        <3> HIDE DEF K
        <3> QED BY <1>2
    <2>6. 2^26 * (Magnitude(SC - X) * K) <= 22 * (A * K)
        <3>1. 2^26 * Magnitude(SC - X) <= 22 * A /\ Magnitude(SC - X) \in Int /\ A \in Int
            BY <1>4, <1>5, <2>3
        <3> HIDE DEF SC, X, K, A
        <3> QED BY <2>5, <3>1
    <2>7. UC \in Int
        BY <1>1, <1>3
    <2> QED BY <2>1, <2>2, <2>3, <2>4, <2>6, <2>7
<1>7. u * Z \in Int /\ c * Z \in Int /\ Z \in Int /\ Z <= u * Z /\ u * Z <= c * Z /\ c * Z <= 100 * Z /\ Z >= 2^30
    <2>1. Z \in Int /\ Z >= 2^30
        BY <1>1
    <2> HIDE DEF Z
    <2> QED BY <1>1, <2>1
<1>8. 201 * U >= Z /\ U > 0
    <2>1. 2^26 * UC >= (2^26 - 2200) * Z
        <3> DEFINE i == u * Z
                   j == c * Z
        <3>1. i \in Int /\ j \in Int /\ Z <= i /\ i <= j /\ j <= 100 * Z /\ 2^26 * Magnitude(UC - i) <= 22 * j
            BY <1>6, <1>7
        <3> HIDE DEF i, j, UC, Z
        <3> QED BY <1>6, <1>7, <3>1 DEF Magnitude
    <2>2. UC > 0
        <3> HIDE DEF UC, Z
        <3> QED BY <1>6, <1>7, <2>1
    <2>3. U > 0
        <3> HIDE DEF U
        <3> QED BY <1>1, <1>3, <2>2
    <2>4. UC <= 200 * U
        <3> HIDE DEF U
        <3> QED BY <1>1, <1>3, <2>3
    <2>5. 201 * U >= Z
        <3> HIDE DEF UC, U, Z
        <3> QED BY <1>3, <1>6, <1>7, <2>1, <2>3, <2>4
    <2> QED BY <2>3, <2>5
<1>9. Divisor(Halves(w)) /\ Scaled(Halves(w), 1) = w
    <2>1. w \in Int /\ Magnitude(w) < 2^24
        BY <1>1 DEF Magnitude
    <2> QED BY <2>1, HalvesValue DEF Piece
<1>10. E \in Grid(30) /\ 2^23 * Magnitude(e * w - 2 * U) <= 2 * Magnitude(U)
    <2>1. 30 - 7 = 23 /\ 7 + 23 = 30 /\ 7 \in 0 .. 30 /\ 30 \in Nat /\ TwoTo[23] = 2^23
        BY PieceBounds
    <2>2. (2^24 - 2) * Magnitude(U) >= 2^23 * (w * 2^23)
        <3> HIDE DEF U
        <3> QED BY <1>1, <1>3, <1>8 DEF Magnitude, Z
    <2>3. (2^24 - 2) * Magnitude(Scaled(d, 30)) >= 2^23 * (Scaled(Halves(w), 1) * TwoTo[30 - 7])
        BY <1>9, <2>1, <2>2
    <2>4. /\ Div(d, Halves(w)) \in Grid(7 + 23)
          /\ 2^23 * Magnitude(Scaled(Div(d, Halves(w)), 30) * Scaled(Halves(w), 1) - 2 * Scaled(d, 30)) <= 2 * Magnitude(Scaled(d, 30))
        BY <1>3, <1>9, <2>1, <2>3, DivOnGrid
    <2> QED BY <1>9, <2>1, <2>4
<1> DEFINE EC == c * e
<1>11. e \in Int /\ EC \in Int /\ 2^23 * Magnitude(EC * w - UC) <= UC
    <2>1. 30 \in Nat /\ e \in Int
        BY <1>10, ScaledType DEF Grid
    <2> DEFINE B == e * w - 2 * U
    <2>2. B * c = EC * w - UC
        <3> HIDE DEF e, U
        <3> QED BY <1>1, <1>3, <2>1
    <2>3. B \in Int /\ c \in Nat \ {0}
        BY <1>1, <1>3, <2>1
    <2>4. Magnitude(B * c) = Magnitude(B) * c
        <3> HIDE DEF B
        <3> QED BY <2>3, MagnitudeProduct
    <2>5. Magnitude(B) \in Int
        <3> HIDE DEF B
        <3> QED BY <2>3, MagnitudeType
    <2>6. 2^23 * Magnitude(B) <= 2 * U
        <3>1. Magnitude(U) = U
            <4> HIDE DEF U
            <4> QED BY <1>3, <1>8 DEF Magnitude
        <3> QED BY <1>10, <3>1
    <2>7. 2^23 * (Magnitude(B) * c) <= (2 * c) * U
        <3> HIDE DEF B, U
        <3> QED BY <1>1, <1>3, <2>5, <2>6
    <2>8. EC \in Int
        BY <1>1, <2>1
    <2> QED BY <2>1, <2>2, <2>4, <2>7, <2>8
<1>12. 2^26 * Magnitude(EC * w - u * Z) <= 31 * (c * Z)
    <2> DEFINE i == u * Z
               j == c * Z
               l == EC * w
    <2>1. /\ i \in Int /\ j \in Int /\ i <= j /\ 0 < i /\ j <= 100 * i /\ 2^26 * Magnitude(UC - i) <= 22 * j
          /\ l \in Int /\ 2^23 * Magnitude(l - UC) <= UC
        <3>1. l \in Int
            BY <1>1, <1>11
        <3>2. 0 < i /\ j <= 100 * i
            <4> HIDE DEF i, j
            <4>1. Z <= i /\ j <= 100 * Z /\ i \in Int /\ j \in Int
                BY <1>7 DEF i, j
            <4> HIDE DEF Z
            <4> QED BY <1>7, <4>1
        <3> QED BY <1>6, <1>7, <1>11, <3>1, <3>2
    <2> HIDE DEF i, j, l, UC
    <2>2. 2^26 * Magnitude(l - i) <= 31 * j
        BY <1>6, <2>1 DEF Magnitude
    <2> QED BY <2>2 DEF i, j, l
<1>13. 2^26 * Magnitude(EC - u * 2^30) <= (31 * c) * 2^30
    <2> DEFINE B == EC - u * 2^30
    <2>1. B * w = EC * w - u * Z
        <3> HIDE DEF EC
        <3> QED BY <1>1, <1>11
    <2>2. B \in Int /\ w \in Nat \ {0}
        BY <1>1, <1>11
    <2>3. Magnitude(B * w) = Magnitude(B) * w
        <3> HIDE DEF B
        <3> QED BY <2>2, MagnitudeProduct
    <2>4. Magnitude(B) \in Int
        <3> HIDE DEF B
        <3> QED BY <2>2, MagnitudeType
    <2>5. 2^26 * (Magnitude(B) * w) <= 31 * (c * Z)
        BY <1>12, <2>1, <2>3
    <2>6. (2^26 * Magnitude(B)) * w <= ((31 * c) * 2^30) * w
        <3> HIDE DEF B
        <3> QED BY <1>1, <2>4, <2>5 DEF Z
    <2>7. \A i, j \in Int : i * w <= j * w => i <= j
        BY <1>1
    <2>8. 2^26 * Magnitude(B) \in Int /\ (31 * c) * 2^30 \in Int
        BY <1>1, <2>4
    <2> HIDE DEF B
    <2>9. 2^26 * Magnitude(B) <= (31 * c) * 2^30
        BY <2>6, <2>7, <2>8
    <2> QED BY <2>9 DEF B
<1> QED BY <1>10, <1>13 DEF Share

\* The product with the width in percents is close to the distance in percents.
LEMMA ReadProduct ==
    ASSUME NEW c \in 1 .. 100, NEW u \in 1 .. c, NEW E, Share(E, c, u)
    PROVE  InPercents(Mul(E, FromInt(c)), u)
<1> DEFINE e == Scaled(E, 30)
           EC == c * e
           F == FromInt(c)
           M == Mul(E, F)
           S == Scaled(M, 30)
<1>0. E \in Grid(30) /\ 2^26 * Magnitude(EC - u * 2^30) <= (31 * c) * 2^30
    BY DEF Share
<1>1. u \in 1 .. 100 /\ c \in Int /\ Magnitude(c) <= 100 /\ 30 \in Nat
    BY DEF Magnitude
<1>2. e \in Int /\ EC \in Int /\ E \in Float /\ E.e \in Int /\ E.e + 30 >= 0
    <2>1. e \in Int
        BY <1>0, <1>1, ScaledType DEF Grid
    <2> QED BY <1>0, <1>1, <2>1, FloatFields DEF Grid
<1>3. F \in Float /\ Magnitude(F.m) <= 100 /\ F.e >= 0 /\ F.e \in Int /\ Scaled(F, 1) = 2 * c
    <2>1. F \in Float /\ Magnitude(F.m) <= 100 /\ F.e >= 0 /\ Scaled(F, 1) = 2 * c
        BY <1>1, FromIntValue
    <2> QED BY <2>1, FloatFields
<1>4. M \in Grid(30) /\ Near(S, EC)
    <2>1. E.e + F.e + 30 >= 0 /\ F.e >= -1
        BY <1>2, <1>3
    <2>2. PICK v \in Int : 2 * v = e * Scaled(F, 1) /\ Rounded(M, v, 30)
        <3> HIDE DEF F
        <3> QED BY <1>0, <1>1, <1>3, <2>1, MulValue
    <2>3. v = EC
        <3> HIDE DEF e
        <3> QED BY <1>1, <1>2, <1>3, <2>2
    <2> QED BY <2>2, <2>3 DEF Rounded
<1>5. S \in Int /\ Magnitude(S - u * 2^30) <= 57600
    <2>1. S \in Int
        BY <1>1, <1>4, ScaledType DEF Grid
    <2>2. 2^26 * Magnitude(EC - u * 2^30) <= 3100 * 2^30
        <3> DEFINE n == 2^26 * Magnitude(EC - u * 2^30)
        <3>1. n <= (31 * c) * 2^30 /\ n \in Int
            BY <1>0, <1>1, <1>2, MagnitudeType
        <3> HIDE DEF n
        <3>2. n <= 3100 * 2^30
            BY <1>1, <3>1
        <3> QED BY <3>2 DEF n
    <2> HIDE DEF S, EC
    <2>3. 2^24 * Magnitude(S - EC) <= Magnitude(EC)
        BY <1>4 DEF Near
    <2> QED BY <1>1, <1>2, <2>1, <2>2, <2>3 DEF Magnitude
<1>6. M \in Grid(24)
    <2>1. TwoTo[29] = 2^29
        <3>1. TwoTo[29 + 1] = 2 * TwoTo[29] /\ 29 \in Nat /\ 29 + 1 = 30
            BY TwoToStep
        <3>2. TwoTo[29] \in Nat
            BY <3>1, TwoToPositive
        <3> QED BY <3>1, <3>2, TwoToValues
    <2>2. Magnitude(S) >= 2^29
        <3> HIDE DEF S
        <3> QED BY <1>1, <1>5 DEF Magnitude
    <2>3. M \in Float /\ M.e + 30 >= 0 /\ 1 \in 0 .. 30 /\ 30 - 1 = 29 /\ -(1 + 23) = -24 /\ M.e \in Int
        BY <1>4, FloatFields DEF Grid
    <2>4. Magnitude(Scaled(M, 30)) >= TwoTo[30 - 1]
        BY <2>1, <2>2, <2>3
    <2>5. M.e >= -(1 + 23)
        <3> HIDE DEF M
        <3> QED BY <1>1, <2>3, <2>4, NotTooFine
    <2>6. M.e + 24 >= 0
        BY <2>3, <2>5
    <2> QED BY <2>3, <2>6 DEF Grid
<1>7. Magnitude(Scaled(M, 24) - u * 2^24) <= 900
    <2> DEFINE s == Scaled(M, 24)
    <2>1. s \in Int /\ S = s * 64
        <3>1. 24 \in Nat /\ 6 \in Nat /\ 24 + 6 = 30
            OBVIOUS
        <3>2. Scaled(M, 24 + 6) = s * TwoTo[6] /\ s \in Int
            <4> HIDE DEF M
            <4> QED BY <1>6, <3>1, FinerGrid
        <3> QED BY <3>1, <3>2, TwoToValues
    <2> HIDE DEF s, S
    <2>2. Magnitude(s - u * 2^24) <= 900
        BY <1>1, <1>5, <2>1 DEF Magnitude
    <2> QED BY <2>2 DEF s
<1> HIDE DEF M
<1>8. InPercents(M, u)
    BY <1>6, <1>7 DEF InPercents
<1> QED BY <1>8 DEF M

\* The percentage read is the one written or one less.
LEMMA ReadFloor ==
    ASSUME NEW M, NEW u \in 1 .. 100, InPercents(M, u), NEW b \in 0 .. 100, b + u <= 100
    PROVE  /\ Floor(M) \in {u - 1, u}
           /\ Floor(Add(FromInt(b), M)) \in {b + u - 1, b + u}
<1> DEFINE S == Scaled(M, 24)
           R == Add(FromInt(b), M)
           T == Scaled(R, 24)
           B == Scaled(FromInt(b), 24)
<1>0. M \in Grid(24) /\ Magnitude(Scaled(M, 24) - u * 2^24) <= 900
    BY DEF InPercents
<1>1. 24 \in Nat \ {0} /\ 24 \in Nat /\ TwoTo[24] = 2^24 /\ S \in Int
    <2>1. 24 \in Nat
        OBVIOUS
    <2> QED BY <1>0, <2>1, TwoToValues, ScaledType DEF Grid
<1>2. ASSUME NEW x \in Grid(24), NEW p \in Int, Magnitude(Scaled(x, 24) - p * 2^24) <= 2000
      PROVE  Floor(x) \in {p - 1, p}
    <2> DEFINE s == Scaled(x, 24)
               n == Floor(x)
    <2>1. n \in Int /\ n * 2^24 <= s /\ s < (n + 1) * 2^24 /\ s \in Int
        BY <1>1, FloorValue, ScaledType DEF Grid
    <2>2. Magnitude(s - p * 2^24) <= 2000
        BY <1>2
    <2> HIDE DEF s, n
    <2>3. n \in {p - 1, p}
        BY <2>1, <2>2 DEF Magnitude
    <2> QED BY <2>3 DEF n
<1>3. Floor(M) \in {u - 1, u}
    <2>1. Magnitude(S - u * 2^24) <= 2000 /\ u \in Int
        <3> HIDE DEF S
        <3>1. Magnitude(S - u * 2^24) <= 900 /\ Magnitude(S - u * 2^24) \in Int
            BY <1>0, <1>1, MagnitudeType DEF S
        <3> QED BY <3>1
    <2> QED BY <1>0, <1>2, <2>1
<1>4. FromInt(b) \in Grid(24) /\ B = b * 2^24
    <2>1. Magnitude(b) <= 100 /\ b \in Int /\ 2 * b \in Int /\ Magnitude(2 * b) < 2^24
        BY DEF Magnitude
    <2>2. FromInt(b) = Halves(2 * b)
        BY <2>1, FromIntValue
    <2>3. FromInt(b) \in Grid(24) /\ 2 * Scaled(FromInt(b), 24) = (2 * b) * TwoTo[24]
        <3>1. \A s \in Nat \ {0} : Halves(2 * b) \in Grid(s) /\ 2 * Scaled(Halves(2 * b), s) = (2 * b) * TwoTo[s]
            BY <2>1, HalvesValue
        <3> QED BY <1>1, <2>2, <3>1
    <2>4. B \in Int
        BY <1>1, <2>3, ScaledType DEF Grid
    <2>5. 2 * B = (2 * b) * 2^24
        BY <1>1, <2>3
    <2> HIDE DEF B
    <2>6. B = b * 2^24
        BY <2>4, <2>5
    <2> QED BY <2>3, <2>6
<1>5. R \in Grid(24) /\ Near(T, B + S)
    <2>1. Magnitude(B + S) < 2^31
        <3>1. Magnitude(S - u * 2^24) <= 900
            BY <1>0
        <3> HIDE DEF B, S
        <3> QED BY <1>1, <1>4, <3>1 DEF Magnitude
    <2> QED BY <1>0, <1>1, <1>4, <2>1, AddValue DEF Rounded
<1>6. T \in Int /\ Magnitude(T - (b + u) * 2^24) <= 2000
    <2>1. T \in Int
        BY <1>1, <1>5, ScaledType DEF Grid
    <2>2. Magnitude(S - u * 2^24) <= 900
        BY <1>0
    <2>3. 2^24 * Magnitude(T - (B + S)) <= Magnitude(B + S)
        BY <1>5 DEF Near
    <2> HIDE DEF B, S, T
    <2> QED BY <1>1, <1>4, <2>1, <2>2, <2>3 DEF Magnitude
<1>7. Floor(R) \in {b + u - 1, b + u}
    <2>1. b + u \in Int
        OBVIOUS
    <2>2. Floor(R) \in {(b + u) - 1, b + u}
        <3> HIDE DEF R
        <3> QED BY <1>2, <1>5, <1>6, <2>1
    <2> QED BY <2>2
<1> QED BY <1>3, <1>7

\* What is read from distance d, counted from the start of the segment.
Steps(d, w, c) == Mul(Div(d, Halves(w)), FromInt(c))

\* The middle and the ends of a segment are exact.
LEMMA PieceExact ==
    ASSUME NEW f, NEW w, NEW b, NEW c, NEW t, Piece(f, w, b, c, t), NEW u \in 0 .. c,
           NEW k \in Int, w * u = c * k, k = 0 \/ k = w \/ 2 * k = w
    PROVE  /\ Written(f, w, c, u) = Halves(f + k)
           /\ Sub(Halves(f + k), Halves(f)) = Halves(k)
           /\ Floor(Steps(Halves(k), w, c)) = u
           /\ Floor(Add(FromInt(b), Steps(Halves(k), w, c))) = b + u
<1>1. /\ f \in Int /\ w \in 1 .. 60 /\ c \in 1 .. 100 /\ u \in 0 .. 100 /\ b \in 0 .. 100 /\ b + u \in 0 .. 100
      /\ Magnitude(f) <= 120
      /\ k \in 0 .. 60
    <2>1. f \in Int /\ w \in 1 .. 60 /\ c \in 1 .. 100 /\ Magnitude(f) <= 120
        BY PieceBounds
    <2>2. b \in 0 .. 100 /\ b + c <= 100
        BY DEF Piece
    <2> QED BY <2>1, <2>2
<1>j. PICK j \in 0 .. 2 : w * j = 2 * k
    <2>1. w * 0 = 2 * 0 /\ w * 2 = 2 * w /\ w * 1 = w
        BY <1>1
    <2> QED BY <2>1
<1>2. /\ w \in Int /\ u \in Int /\ b \in Int /\ f + k \in Int /\ w * u \in Int /\ 2 * u \in Int /\ 2 * b \in Int /\ b + u \in Int
      /\ Magnitude(w) < 2^12 /\ Magnitude(u) <= 100 /\ Magnitude(c) <= 100 /\ Magnitude(k) < 2^20 /\ Magnitude(f) < 2^20
      /\ Magnitude(f + k) < 2^20 /\ Magnitude(w * u) < 2^20 /\ Magnitude(j) < 2^12 /\ Magnitude(j) < 2^20 /\ Magnitude(b) <= 100
      /\ Magnitude(2 * b) < 2^20 /\ Magnitude(2 * u) < 2^20 /\ Magnitude(u) < 2^20 /\ Magnitude(b + u) < 2^20
    <2>1. w * u \in 0 .. 6000
        BY <1>1
    <2> QED BY <1>1, <1>j, <2>1 DEF Magnitude
<1>3. Divisor(Halves(w)) /\ Divisor(FromInt(c)) /\ Scaled(Halves(w), 1) = w /\ Scaled(FromInt(c), 1) = 2 * c
    <2>1. Scaled(Halves(w), 1) = w
        <3>1. Magnitude(w) < 2^24
            BY <1>1 DEF Magnitude
        <3> QED BY <1>2, <3>1, HalvesValue
    <2>2. Scaled(FromInt(c), 1) = 2 * c
        BY <1>1, <1>2, FromIntValue
    <2> QED BY <2>1, <2>2 DEF Piece
<1>4. Mul(Halves(w), FromInt(u)) = Halves(w * u)
    BY <1>2, HalvesProduct
<1>5. Div(Halves(w * u), FromInt(c)) = Halves(k)
    <2>1. k * Scaled(FromInt(c), 1) = 2 * (w * u)
        BY <1>1, <1>3
    <2> QED BY <1>2, <1>3, <2>1, HalvesQuotient
<1>6. Add(Halves(f), Halves(k)) = Halves(f + k)
    BY <1>1, <1>2, HalvesSum
<1>7. Sub(Halves(f + k), Halves(f)) = Halves(k)
    <2>1. Sub(Halves(f + k), Halves(f)) = Halves((f + k) - f)
        BY <1>1, <1>2, HalvesSum
    <2>2. (f + k) - f = k
        BY <1>1
    <2> QED BY <2>1, <2>2
<1>8. Div(Halves(k), Halves(w)) = Halves(j)
    <2>1. j * Scaled(Halves(w), 1) = 2 * k
        BY <1>1, <1>3, <1>j
    <2> QED BY <1>2, <1>3, <1>j, <2>1, HalvesQuotient
<1>9. Mul(Halves(j), FromInt(c)) = Halves(2 * u)
    <2>1. j * c = 2 * u
        <3>1. w * (j * c) = w * (2 * u)
            <4>1. w * (j * c) = (w * j) * c /\ w * (2 * u) = 2 * (w * u) /\ (2 * k) * c = 2 * (c * k)
                BY <1>1, <1>j
            <4> QED BY <1>j, <4>1
        <3>2. j * c \in Int /\ 2 * u \in Int
            BY <1>1, <1>j
        <3>3. \A p, q \in Int : w * p = w * q => p = q
            BY <1>1
        <3> QED BY <3>1, <3>2, <3>3
    <2>2. Mul(Halves(j), FromInt(c)) = Halves(j * c)
        BY <1>1, <1>2, HalvesProduct
    <2> QED BY <2>1, <2>2
<1>10. Steps(Halves(k), w, c) = Halves(2 * u)
    BY <1>8, <1>9 DEF Steps
<1>11. Floor(Halves(2 * u)) = u
    BY <1>2, HalvesFloor
<1>12. Floor(Add(FromInt(b), Halves(2 * u))) = b + u
    <2>1. FromInt(b) = Halves(2 * b)
        BY <1>2, FromIntValue
    <2>2. Add(Halves(2 * b), Halves(2 * u)) = Halves(2 * b + 2 * u)
        BY <1>2, HalvesSum
    <2>3. 2 * b + 2 * u = 2 * (b + u)
        BY <1>1
    <2>4. Floor(Halves(2 * (b + u))) = b + u
        BY <1>2, HalvesFloor
    <2> QED BY <2>1, <2>2, <2>3, <2>4
<1> QED BY <1>4, <1>5, <1>6, <1>7, <1>10, <1>11, <1>12 DEF Written

\* What is read after a write is what was written, or one less.
LEMMA PieceEcho ==
    ASSUME NEW f, NEW w, NEW b, NEW c, NEW t, Piece(f, w, b, c, t), NEW u \in 0 .. c
    PROVE  LET v == Written(f, w, c, u)
               M == Steps(Sub(v, Halves(f)), w, c)
           IN  /\ Floor(M) \in {u - 1, u}
               /\ Floor(Add(FromInt(b), M)) \in {b + u - 1, b + u}
               /\ u = c => v = Halves(f + w)
               /\ u = 0 => v = Halves(f)
               /\ u # c => Less(v, Halves(f + w))
               /\ ~Less(v, Halves(f))
<1> DEFINE v == Written(f, w, c, u)
           M == Steps(Sub(v, Halves(f)), w, c)
           g == t + 23
           G == TwoTo[t + 23]
           W == w * G
<1>1. /\ f \in Int /\ w \in 1 .. 60 /\ c \in 1 .. 100 /\ t \in 0 .. 7
      /\ Magnitude(f) <= 120 /\ Magnitude(f + w) <= 120
      /\ G \in Nat \ {0} /\ G = TwoTo[t] * 2^23 /\ TwoTo[t] \in Nat \ {0} /\ g \in Nat \ {0} /\ g \in Nat
    BY PieceBounds
<1>2. b \in 0 .. 100 /\ b + c <= 100 /\ u \in 0 .. 100 /\ b + u <= 100
    BY <1>1 DEF Piece
<1>3. /\ Magnitude(f) < 2^20 /\ Magnitude(f + w) < 2^20 /\ Magnitude(f) < 2^24
      /\ f + w \in Int /\ f + 0 = f
    BY <1>1, MagnitudeType
<1>4. CASE u = 0
    <2>1. w * 0 = c * 0 /\ 0 \in 0 .. c
        BY <1>1
    <2>2. v = Halves(f) /\ Floor(M) = 0 /\ Floor(Add(FromInt(b), M)) = b + 0
        BY <1>3, <1>4, <2>1, PieceExact
    <2>3. /\ Less(Halves(f), Halves(f)) <=> f < f
          /\ Less(Halves(f), Halves(f + w)) <=> f < f + w
        BY <1>1, <1>3, HalvesSum
    <2>4. ~(f < f) /\ f < f + w /\ b + 0 = b + u /\ u # c
        BY <1>1, <1>2, <1>4
    <2> QED BY <1>4, <2>2, <2>3, <2>4
<1>5. CASE u # 0
    <2>1. u \in 1 .. c
        BY <1>1, <1>5
    <2>2. /\ v \in Grid(g)
          /\ 2^26 * Magnitude((2 * c) * (Scaled(v, g) - Scaled(Halves(f), g)) - u * W) <= 17 * (c * W)
          /\ u < c => Less(v, Halves(f + w))
          /\ ~Less(v, Halves(f))
        BY <2>1, WrittenValue
    <2>3. Halves(f) \in Grid(g)
        <3>1. \A s \in Nat \ {0} : Halves(f) \in Grid(s)
            BY <1>1, <1>3, HalvesValue
        <3> QED BY <1>1, <3>1
    <2> DEFINE y == Scaled(v, g) - Scaled(Halves(f), g)
               d == Sub(v, Halves(f))
    <2>4. y \in Int
        BY <1>1, <2>2, <2>3, ScaledType DEF Grid
    <2>5. Magnitude(y) < 2^31
        <3>1. W <= 384 * 2^23 /\ W \in Int /\ W >= 0
            <4>1. w * TwoTo[t] <= 384 /\ W = (w * TwoTo[t]) * 2^23 /\ w * TwoTo[t] \in Int /\ w * TwoTo[t] >= 0
                BY <1>1 DEF Piece
            <4> QED BY <4>1
        <3>2. u * W <= c * W /\ u * W >= 0 /\ c * W \in Int /\ u * W \in Int /\ c * W <= c * (384 * 2^23)
            <4> HIDE DEF W
            <4> QED BY <1>1, <1>2, <2>1, <3>1
        <3> DEFINE X == u * W
                   A == c * W
                   Y == (2 * c) * y
        <3>3. 2^26 * Magnitude(Y - X) <= 17 * A /\ Y \in Int
            BY <1>1, <2>2, <2>4
        <3>4. Magnitude(Y) <= (c * 400) * 2^23
            <4>1. X <= A /\ 0 <= X /\ X \in Int /\ A \in Int /\ A <= c * (384 * 2^23)
                BY <3>2
            <4> HIDE DEF X, A, Y
            <4> QED BY <1>1, <3>3, <4>1 DEF Magnitude
        <3>5. Magnitude(y) * (2 * c) <= (c * 400) * 2^23 /\ Magnitude(y) \in Nat
            <4> DEFINE p == 2 * c
            <4>1. p \in Nat \ {0}
                BY <1>1
            <4>2. Magnitude(y * p) = Magnitude(y) * p
                <5> HIDE DEF y, p
                <5> QED BY <2>4, <4>1, MagnitudeProduct
            <4>3. y * p = Y
                <5> HIDE DEF y
                <5> QED BY <1>1, <2>4
            <4>4. Magnitude(y) \in Nat
                <5> HIDE DEF y
                <5> QED BY <2>4, MagnitudeType
            <4> QED BY <3>4, <4>2, <4>3, <4>4
        <3>6. \A m \in Nat : m * (2 * c) <= (c * 400) * 2^23 => m <= 200 * 2^23
            BY <1>1
        <3> HIDE DEF y
        <3>7. Magnitude(y) <= 200 * 2^23
            BY <3>5, <3>6
        <3> QED BY <3>5, <3>7
    <2>6. Rounded(d, y, g)
        BY <1>1, <2>2, <2>3, <2>5, AddValue
    <2> DEFINE E == Div(d, Halves(w))
    <2>7. Share(E, c, u)
        <3>1. 2^26 * Magnitude((2 * c) * y - u * W) <= 17 * (c * W)
            BY <2>2
        <3> HIDE DEF y, d
        <3> QED BY <2>1, <2>4, <2>6, <3>1, ReadQuotient
    <2>8. InPercents(Mul(E, FromInt(c)), u)
        <3>1. c \in 1 .. 100 /\ u \in 1 .. c
            BY <1>1, <2>1
        <3> HIDE DEF E, d, y, v, M, W, G, g
        <3> QED BY <2>7, <3>1, ReadProduct
    <2>9. M = Mul(E, FromInt(c))
        BY DEF Steps
    <2>10. Floor(M) \in {u - 1, u} /\ Floor(Add(FromInt(b), M)) \in {b + u - 1, b + u}
        <3>1. u \in 1 .. 100
            BY <1>1, <2>1
        <3> HIDE DEF M
        <3> QED BY <1>2, <2>8, <2>9, <3>1, ReadFloor
    <2>11. ASSUME u = c PROVE v = Halves(f + w)
        <3>1. w * u = c * w /\ w \in Int
            BY <1>1, <2>11
        <3> QED BY <3>1, PieceExact
    <2> QED BY <1>1, <1>5, <2>1, <2>2, <2>10, <2>11
<1> QED BY <1>4, <1>5

-----------------------------------------------------------------------------
(***************************************************************************)
(* The ranges and the bands.                                               *)
(***************************************************************************)
\* The segments of the ranges.
LEMMA Pieces ==
    /\ Piece(0, 2, 0, 100, 7) /\ Piece(-2, 4, 0, 100, 6) /\ Piece(0, 4, 0, 100, 6) /\ Piece(2, 8, 0, 100, 5)
    /\ Piece(-20, 40, 0, 100, 3) /\ Piece(-30, 60, 0, 100, 2)
    /\ Piece(1, 1, 0, 50, 7) /\ Piece(2, 4, 50, 50, 5)
    /\ Piece(1, 1, 0, 28, 6) /\ Piece(2, 4, 28, 72, 6)
<1>1. /\ \A w \in {1, 2, 4, 8, 40, 60} : Divisor(Halves(w))
      /\ \A c \in {28, 50, 72, 100} : Divisor(FromInt(c))
      /\ TwoTo[2] = 4 /\ TwoTo[3] = 8 /\ TwoTo[5] = 32 /\ TwoTo[6] = 64 /\ TwoTo[7] = 128
    BY Divisors, TwoToValues
<1>2. Piece(0, 2, 0, 100, 7) /\ Piece(-2, 4, 0, 100, 6) /\ Piece(0, 4, 0, 100, 6)
    BY <1>1 DEF Piece, Magnitude
<1>3. Piece(2, 8, 0, 100, 5) /\ Piece(-20, 40, 0, 100, 3) /\ Piece(-30, 60, 0, 100, 2)
    BY <1>1 DEF Piece, Magnitude
<1>4. Piece(1, 1, 0, 50, 7) /\ Piece(2, 4, 50, 50, 5)
    BY <1>1 DEF Piece, Magnitude
<1>5. Piece(1, 1, 0, 28, 6) /\ Piece(2, 4, 28, 72, 6)
    BY <1>1 DEF Piece, Magnitude
<1> QED BY <1>2, <1>3, <1>4, <1>5

\* The panel rounds the volume to what was written.
LEMMA VolumeRound ==
    ASSUME NEW u \in 0 .. 100
    PROVE  LRound(Mul(Written(0, 2, 100, u), FromInt(100))) = u
<1> DEFINE v == Written(0, 2, 100, u)
           M == Mul(v, FromInt(100))
           n == LRound(M)
<1>0. Piece(0, 2, 0, 100, 7) /\ Magnitude(100) <= 100 /\ Magnitude(0) < 2^12 /\ Magnitude(0) < 2^20 /\ Magnitude(0) < 2^24
    BY Pieces DEF Magnitude
<1>1. CASE u = 0
    <2>1. v = Halves(0)
        <3>1. u = 0 => v = Halves(0)
            BY <1>0, PieceEcho
        <3> QED BY <1>1, <3>1
    <2>2. M = Halves(0)
        <3>1. Mul(Halves(0), FromInt(100)) = Halves(0 * 100) /\ 0 * 100 = 0
            BY <1>0, HalvesProduct
        <3> QED BY <2>1, <3>1
    <2>3. Halves(0) \in Grid(1) /\ Scaled(Halves(0), 1) = 0 /\ TwoTo[1] = 2 /\ 1 \in Nat
        BY <1>0, HalvesValue, TwoToValues
    <2>4. n \in Int /\ 2 * (n * 2) <= 2 * 0 + 2 /\ 2 * 0 < 2 * (n * 2) + 2
        BY <2>2, <2>3, LRoundValue
    <2> HIDE DEF n
    <2>5. n = 0
        BY <2>4
    <2> QED BY <1>1, <2>5 DEF n
<1>2. CASE u # 0
    <2>1. u \in 1 .. 100 /\ 7 + 23 = 30 /\ TwoTo[30] = 2^30 /\ 30 \in Nat \ {0} /\ 30 \in Nat
        BY <1>2, TwoToValues
    <2> DEFINE S == Scaled(v, 30)
               Z == Scaled(Halves(0), 30)
               T == Scaled(M, 30)
    <2>2. Z = 0
        <3>1. \A s \in Nat \ {0} : Halves(0) \in Grid(s) /\ 2 * Scaled(Halves(0), s) = 0 * TwoTo[s]
            BY <1>0, HalvesValue
        <3>2. Halves(0) \in Grid(30) /\ 2 * Z = 0 * 2^30
            BY <2>1, <3>1
        <3>3. Z \in Int
            BY <2>1, <3>2, ScaledType DEF Grid
        <3> HIDE DEF Z
        <3> QED BY <3>2, <3>3
    <2>3. v \in Grid(30) /\ 2^26 * Magnitude((2 * 100) * (S - Z) - u * (2 * 2^30)) <= 17 * (100 * (2 * 2^30))
        BY <1>0, <2>1, WrittenValue
    <2>4. S \in Int
        BY <2>1, <2>3, ScaledType DEF Grid
    <2>5. 2^26 * Magnitude(100 * S - u * 2^30) <= 1700 * 2^30
        <3>1. 2^26 * Magnitude((2 * 100) * (S - 0) - u * (2 * 2^30)) <= 17 * (100 * (2 * 2^30))
            BY <2>2, <2>3
        <3> HIDE DEF S
        <3> QED BY <2>1, <2>4, <3>1 DEF Magnitude
    <2>6. M \in Grid(30) /\ Near(T, 100 * S)
        <3> DEFINE F == FromInt(100)
        <3>1. F \in Float /\ Magnitude(F.m) <= 100 /\ F.e >= 0 /\ F.e \in Int /\ Scaled(F, 1) = 2 * 100
            <4>1. F \in Float /\ Magnitude(F.m) <= 100 /\ F.e >= 0 /\ Scaled(F, 1) = 2 * 100
                BY <1>0, FromIntValue
            <4> QED BY <4>1, FloatFields
        <3>2. v.e \in Int /\ v.e + 30 >= 0
            BY <2>3, FloatFields DEF Grid
        <3>3. v.e + F.e + 30 >= 0 /\ F.e >= -1
            BY <3>1, <3>2
        <3>4. PICK x \in Int : 2 * x = S * Scaled(F, 1) /\ Rounded(M, x, 30)
            <4> HIDE DEF F, v
            <4> QED BY <2>1, <2>3, <3>1, <3>3, MulValue DEF F
        <3>5. x = 100 * S
            <4> HIDE DEF S
            <4> QED BY <2>4, <3>1, <3>4
        <3> QED BY <3>4, <3>5 DEF Rounded
    <2>7. T \in Int
        BY <2>1, <2>6, ScaledType DEF Grid
    <2>8. Magnitude(T - u * 2^30) <= 40000
        <3>1. 2^24 * Magnitude(T - 100 * S) <= Magnitude(100 * S)
            BY <2>6 DEF Near
        <3> HIDE DEF S, T
        <3> QED BY <2>1, <2>4, <2>5, <2>7, <3>1 DEF Magnitude
    <2>9. n \in Int /\ 2 * (n * 2^30) <= 2 * T + 2^30 /\ 2 * T < 2 * (n * 2^30) + 2^30
        BY <2>1, <2>6, LRoundValue
    <2> HIDE DEF n, T
    <2>10. n = u
        BY <2>1, <2>7, <2>8, <2>9 DEF Magnitude
    <2> QED BY <2>10 DEF n
<1> QED BY <1>1, <1>2

\* Every percentage is read back as it was written, or as one less, and the
\* neutral one and the ends of the range are exact.
RangeWorks(r, neutral) ==
    \A p \in Percents :
       LET v == FromPercent(p, r)
           q == ToPercent(v, r)
       IN  /\ q \in {p - 1, p}
           /\ p \in {neutral.percent, 0, 100} => q = p
           /\ p = neutral.percent => v = neutral.value

\* The range of one segment from f / 2 to (f + w) / 2.
Plain(f, w) == RangeProperty(Halves(f), Halves(f + w))

\* A range of one segment.
LEMMA PlainRange ==
    ASSUME NEW f, NEW w, NEW t, Piece(f, w, 0, 100, t), NEW p \in Percents
    PROVE  LET v == Written(f, w, 100, p)
           IN  /\ FromPercent(p, Plain(f, w)) = v
               /\ ToPercent(v, Plain(f, w)) = Floor(Add(FromInt(0), Steps(Sub(v, Halves(f)), w, 100)))
<1>1. Sub(Halves(f + w), Halves(f)) = Halves(w)
    <2>1. f \in Int /\ w \in 1 .. 60 /\ Magnitude(f) <= 120 /\ Magnitude(f + w) <= 120
        BY PieceBounds
    <2>2. f + w \in Int /\ Magnitude(f) < 2^20 /\ Magnitude(f + w) < 2^20 /\ (f + w) - f = w
        BY <2>1, MagnitudeType
    <2>3. Sub(Halves(f + w), Halves(f)) = Halves((f + w) - f)
        BY <2>1, <2>2, HalvesSum
    <2> QED BY <2>2, <2>3
<1>2. p - 0 = p /\ 100 - 0 = 100 /\ p \in Int
    BY DEF Percents
<1>3. FromPercent(p, Plain(f, w)) = Written(f, w, 100, p)
    BY <1>1, <1>2 DEF FromPercent, Plain, RangeProperty, Segment, Written
<1>4. \A v : ToPercent(v, Plain(f, w)) = Floor(Add(FromInt(0), Steps(Sub(v, Halves(f)), w, 100)))
    BY <1>1, <1>2 DEF ToPercent, Plain, RangeProperty, Segment, Steps
<1> QED BY <1>3, <1>4

\* Its neutral percentage is at an end or at the middle.
LEMMA PlainWorks ==
    ASSUME NEW f, NEW w, NEW t, Piece(f, w, 0, 100, t),
           NEW n \in Percents, NEW k \in Int, w * n = 100 * k, k = 0 \/ k = w \/ 2 * k = w
    PROVE  RangeWorks(Plain(f, w), [percent |-> n, value |-> Halves(f + k)])
<1>1. w \in 1 .. 60
    BY PieceBounds
<1> SUFFICES ASSUME NEW p \in Percents
             PROVE  LET v == FromPercent(p, Plain(f, w))
                        q == ToPercent(v, Plain(f, w))
                    IN  /\ q \in {p - 1, p}
                        /\ p \in {n, 0, 100} => q = p
                        /\ p = n => v = Halves(f + k)
    BY DEF RangeWorks
<1> DEFINE v == Written(f, w, 100, p)
           q == Floor(Add(FromInt(0), Steps(Sub(v, Halves(f)), w, 100)))
<1>2. FromPercent(p, Plain(f, w)) = v /\ ToPercent(v, Plain(f, w)) = q
    BY PlainRange
<1>3. p \in 0 .. 100 /\ n \in 0 .. 100 /\ 0 + p - 1 = p - 1 /\ 0 + p = p
    BY DEF Percents
<1>4. q \in {p - 1, p}
    <2>1. q \in {0 + p - 1, 0 + p}
        BY <1>3, PieceEcho
    <2> QED BY <1>3, <2>1
<1>5. ASSUME NEW l \in Int, w * p = 100 * l, l = 0 \/ l = w \/ 2 * l = w
      PROVE  v = Halves(f + l) /\ q = p
    <2>1. /\ v = Halves(f + l)
          /\ Sub(Halves(f + l), Halves(f)) = Halves(l)
          /\ Floor(Add(FromInt(0), Steps(Halves(l), w, 100))) = 0 + p
        <3>1. Piece(f, w, 0, 100, t) /\ p \in 0 .. 100 /\ w * p = 100 * l
            BY <1>3, <1>5
        <3>2. /\ Written(f, w, 100, p) = Halves(f + l)
              /\ Sub(Halves(f + l), Halves(f)) = Halves(l)
              /\ Floor(Add(FromInt(0), Steps(Halves(l), w, 100))) = 0 + p
            <4> HIDE DEF v, q
            <4> QED BY <1>5, <3>1, PieceExact
        <3> QED BY <3>2
    <2> QED BY <1>3, <2>1
<1>6. p = n => v = Halves(f + k) /\ q = p
    BY <1>5
<1>7. ASSUME p = 0 PROVE q = p
    <2>1. w * p = 100 * 0
        BY <1>1, <1>7
    <2> QED BY <1>5, <2>1
<1>8. ASSUME p = 100 PROVE q = p
    <2>1. w * p = 100 * w /\ w \in Int
        BY <1>1, <1>8
    <2> QED BY <1>5, <2>1
<1> HIDE DEF v, q
<1> QED BY <1>2, <1>4, <1>6, <1>7, <1>8

\* The range of two segments from 1/2 over 1 to 3.
Pivoted(q) == WithPivot(q, RangeProperty(Halves(1), Halves(6)))

\* The ranges of speed and tempo, from 1/2 to 3, have two segments that meet
\* at 1.
LEMMA PivotWorks ==
    ASSUME NEW n \in {28, 50}
    PROVE  RangeWorks(Pivoted(n), [percent |-> n, value |-> Halves(2)])
<1>1. PICK t \in Nat : Piece(1, 1, 0, n, t)
    BY Pieces
<1>2. PICK t2 \in Nat : Piece(2, 4, n, 100 - n, t2)
    <2>1. Piece(2, 4, 50, 100 - 50, 5) /\ Piece(2, 4, 28, 100 - 28, 6)
        BY Pieces
    <2> QED BY <2>1
<1>3. FromInt(1) = Halves(2) /\ Sub(Halves(2), Halves(1)) = Halves(1) /\ Sub(Halves(6), Halves(2)) = Halves(4)
      /\ 1 + 1 = 2 /\ 2 + 4 = 6
    <2>1. Magnitude(1) <= 100 /\ Magnitude(1) < 2^20 /\ Magnitude(2) < 2^20 /\ Magnitude(6) < 2^20
        BY DEF Magnitude
    <2>2. Sub(Halves(2), Halves(1)) = Halves(2 - 1) /\ Sub(Halves(6), Halves(2)) = Halves(6 - 2)
        BY <2>1, HalvesSum
    <2>3. FromInt(1) = Halves(2 * 1)
        BY <2>1, FromIntValue
    <2> QED BY <2>2, <2>3
<1> SUFFICES ASSUME NEW p \in Percents
             PROVE  LET v == FromPercent(p, Pivoted(n))
                        q == ToPercent(v, Pivoted(n))
                    IN  /\ q \in {p - 1, p}
                        /\ p \in {n, 0, 100} => q = p
                        /\ p = n => v = Halves(2)
    BY DEF RangeWorks
<1>4. p \in 0 .. 100 /\ p \in Int
    BY DEF Percents
<1>5. /\ Pivoted(n).min = Halves(1) /\ Pivoted(n).max = Halves(6)
      /\ Pivoted(n).pivotPercent = n /\ Pivoted(n).pivotValue = Halves(2)
    BY <1>3 DEF Pivoted, WithPivot, RangeProperty
<1>6. CASE p < n
    <2> DEFINE v == Written(1, 1, n, p)
               q == Floor(Add(FromInt(0), Steps(Sub(v, Halves(1)), 1, n)))
    <2>1. p \in 0 .. n /\ p - 0 = p /\ n - 0 = n /\ 0 + p = p /\ 0 + p - 1 = p - 1 /\ p # n /\ p # 100
        BY <1>4, <1>6
    <2>2. FromPercent(p, Pivoted(n)) = v
        BY <1>3, <1>5, <1>6, <2>1 DEF FromPercent, Segment, Written
    <2>3. Less(v, Halves(2)) /\ q \in {0 + p - 1, 0 + p}
        BY <1>1, <1>3, <2>1, PieceEcho
    <2>4. ToPercent(v, Pivoted(n)) = q
        BY <1>3, <1>5, <2>1, <2>3 DEF ToPercent, Segment, Steps
    <2>5. ASSUME p = 0 PROVE q = p
        <3>1. 1 * p = n * 0
            BY <2>5
        <3>2. /\ v = Halves(1 + 0)
              /\ Sub(Halves(1 + 0), Halves(1)) = Halves(0)
              /\ Floor(Add(FromInt(0), Steps(Halves(0), 1, n))) = 0 + p
            BY <1>1, <2>1, <3>1, PieceExact
        <3> QED BY <2>1, <3>2
    <2> HIDE DEF v, q
    <2> QED BY <2>1, <2>2, <2>3, <2>4, <2>5
<1>7. CASE ~(p < n)
    <2> DEFINE c == 100 - n
               u == p - n
               v == Written(2, 4, c, u)
               q == Floor(Add(FromInt(n), Steps(Sub(v, Halves(2)), 4, c)))
    <2>0. Piece(2, 4, n, c, t2)
        BY <1>2
    <2>1. u \in 0 .. c /\ n + u = p /\ n + u - 1 = p - 1 /\ p # 0 /\ c \in Int
        BY <1>4, <1>7
    <2>2. FromPercent(p, Pivoted(n)) = v
        BY <1>3, <1>5, <1>7 DEF FromPercent, Segment, Written
    <2>3. ~Less(v, Halves(2)) /\ q \in {n + u - 1, n + u}
        BY <1>2, <2>1, PieceEcho
    <2>4. ToPercent(v, Pivoted(n)) = q
        BY <1>3, <1>5, <2>3 DEF ToPercent, Segment, Steps
    <2>5. ASSUME p = n PROVE q = p /\ v = Halves(2)
        <3>1. 4 * u = c * 0 /\ 2 + 0 = 2
            BY <2>1, <2>5
        <3>2. /\ v = Halves(2 + 0)
              /\ Sub(Halves(2 + 0), Halves(2)) = Halves(0)
              /\ Floor(Add(FromInt(n), Steps(Halves(0), 4, c))) = n + u
            <4> HIDE DEF c, u
            <4> QED BY <2>0, <2>1, <3>1, PieceExact
        <3> QED BY <2>1, <3>1, <3>2
    <2>6. ASSUME p = 100 PROVE q = p
        <3>1. 4 * u = c * 4
            BY <2>1, <2>6
        <3>2. /\ v = Halves(2 + 4)
              /\ Sub(Halves(2 + 4), Halves(2)) = Halves(4)
              /\ Floor(Add(FromInt(n), Steps(Halves(4), 4, c))) = n + u
            <4> HIDE DEF c, u
            <4> QED BY <2>0, <2>1, <3>1, PieceExact
        <3> QED BY <2>1, <3>2
    <2> HIDE DEF v, q
    <2> QED BY <2>1, <2>2, <2>3, <2>4, <2>5, <2>6
<1> QED BY <1>6, <1>7

\* The bands are read by adding what the preamplifier's range subtracts.
LEMMA AddBand ==
    ASSUME NEW v \in Float
    PROVE  Add(v, Halves(30)) = Sub(v, Halves(-30))
<1>1. Halves(30) = [m |-> 15, e |-> 0] /\ Halves(-30) = [m |-> -15, e |-> 0]
    <2>1. TwoTo[1] = 2 /\ 1 \in 0 .. 30 /\ 15 % 2 = 1 /\ (-15) % 2 = 1 /\ 15 \in Int /\ -15 \in Int /\ -1 \in Int
        <3>2. 15 % 2 = 1 /\ -15 \in Int
            OBVIOUS
        <3>3. (-15) % 2 = 1
            <4> DEFINE n == -15
            <4>1. n \in Int /\ n + 15 = 0
                OBVIOUS
            <4>2. \A i \in Int : i + 15 = 0 => i % 2 = 1
                OBVIOUS
            <4> HIDE DEF n
            <4>3. n % 2 = 1
                BY <4>1, <4>2
            <4> QED BY <4>3 DEF n
        <3> QED BY <3>2, <3>3, TwoToValues
    <2>2. /\ Canonical(15 * TwoTo[1], -1) = [m |-> 15, e |-> -1 + 1]
          /\ Canonical((-15) * TwoTo[1], -1) = [m |-> -15, e |-> -1 + 1]
        BY <2>1, CanonicalIs
    <2>3. 15 * TwoTo[1] = 30 /\ (-15) * TwoTo[1] = -30 /\ -1 + 1 = 0
        BY <2>1
    <2> QED BY <2>2, <2>3 DEF Halves
<1> DEFINE e == IF v.e < 0 THEN v.e ELSE 0
           i == v.m * TwoTo[v.e - e]
           P == TwoTo[0 - e]
<1>2. v.m \in Int /\ v.e \in Int
    BY FloatFields
<1>3. e \in Int /\ v.e - e \in Nat /\ 0 - e \in Nat
    BY <1>2
<1>4. TwoTo[v.e - e] \in Int /\ P \in Int
    BY <1>3, TwoToPositive
<1>5. i \in Int
    BY <1>2, <1>4
<1>6. Aligned(v, Halves(30)) = [i |-> i, j |-> 15 * P, e |-> e] /\ Aligned(v, Halves(-30)) = [i |-> i, j |-> (-15) * P, e |-> e]
    BY <1>1 DEF Aligned
<1>7. i + 15 * P = i - (-15) * P
    <2> HIDE DEF i, P
    <2> QED BY <1>4, <1>5
<1> HIDE DEF i, P, e
<1> QED BY <1>6, <1>7 DEF Add, Sub

\* What is written is a float.
LEMMA WrittenIsFloat ==
    ASSUME NEW f, NEW w, NEW b, NEW c, NEW t, Piece(f, w, b, c, t), NEW u \in 0 .. c
    PROVE  Written(f, w, c, u) \in Float
<1>1. f \in Int /\ c \in 1 .. 100 /\ Magnitude(f) < 2^24
    <2>1. f \in Int /\ c \in 1 .. 100 /\ Magnitude(f) <= 120
        BY PieceBounds
    <2> QED BY <2>1, MagnitudeType
<1>2. CASE u = 0
    <2>1. Written(f, w, c, u) = Halves(f)
        BY <1>2, PieceEcho
    <2>2. Halves(f) \in Grid(1)
        BY <1>1, HalvesValue
    <2> QED BY <2>1, <2>2 DEF Grid
<1>3. CASE u # 0
    <2>1. u \in 1 .. c
        BY <1>1, <1>3
    <2>2. Written(f, w, c, u) \in Grid(t + 23)
        BY <2>1, WrittenValue
    <2> QED BY <2>2 DEF Grid
<1> QED BY <1>2, <1>3

\* The conversions of the bands agree with those of the preamplifier's range.
LEMMA BandWorks ==
    \A p \in Percents :
       LET v == EqualizerPercentToDb(p)
           q == EqualizerDbToPercent(v)
       IN  /\ q \in {p - 1, p}
           /\ p \in {50, 0, 100} => q = p
           /\ p = 50 => v = Halves(0)
<1> SUFFICES ASSUME NEW p \in Percents
             PROVE  LET v == EqualizerPercentToDb(p)
                        q == EqualizerDbToPercent(v)
                    IN  /\ q \in {p - 1, p}
                        /\ p \in {50, 0, 100} => q = p
                        /\ p = 50 => v = Halves(0)
    OBVIOUS
<1>1. Piece(-30, 60, 0, 100, 2) /\ p \in 0 .. 100
    BY Pieces DEF Percents
<1>2. EqualizerBandRangeDb = Halves(30) /\ Mul(FromInt(2), Halves(30)) = Halves(60) /\ Sub(FromInt(0), Halves(30)) = Halves(-30)
    <2>1. Magnitude(15) <= 100 /\ Magnitude(2) <= 100 /\ Magnitude(0) <= 100 /\ Magnitude(4) < 2^12
          /\ Magnitude(0) < 2^20 /\ Magnitude(30) < 2^20
        BY DEF Magnitude
    <2>2. FromInt(15) = Halves(2 * 15) /\ FromInt(2) = Halves(2 * 2) /\ FromInt(0) = Halves(2 * 0)
        BY <2>1, FromIntValue
    <2>3. Mul(Halves(4), FromInt(15)) = Halves(4 * 15)
        BY <2>1, HalvesProduct
    <2>4. Sub(Halves(0), Halves(30)) = Halves(0 - 30)
        BY <2>1, HalvesSum
    <2>5. 2 * 15 = 30 /\ 2 * 2 = 4 /\ 2 * 0 = 0 /\ 4 * 15 = 60 /\ 0 - 30 = -30
        OBVIOUS
    <2>6. FromInt(15) = Halves(30) /\ FromInt(2) = Halves(4) /\ FromInt(0) = Halves(0)
        BY <2>2, <2>5
    <2>7. Mul(FromInt(2), Halves(30)) = Halves(60)
        <3>1. Mul(FromInt(2), Halves(30)) = Mul(Halves(4), FromInt(15))
            BY <2>6
        <3> QED BY <2>3, <2>5, <3>1
    <2>8. Sub(FromInt(0), Halves(30)) = Halves(-30)
        BY <2>4, <2>5, <2>6
    <2> QED BY <2>6, <2>7, <2>8 DEF EqualizerBandRangeDb
<1> DEFINE v == Written(-30, 60, 100, p)
           q == Floor(Steps(Sub(v, Halves(-30)), 60, 100))
<1>3. EqualizerPercentToDb(p) = v
    BY <1>2 DEF EqualizerPercentToDb, Written
<1>4. EqualizerDbToPercent(v) = q
    <2>1. Add(v, Halves(30)) = Sub(v, Halves(-30))
        BY <1>1, WrittenIsFloat, AddBand
    <2> QED BY <1>2, <2>1 DEF EqualizerDbToPercent, Steps
<1>5. q \in {p - 1, p}
    BY <1>1, PieceEcho
<1>6. ASSUME NEW l \in Int, 60 * p = 100 * l, l = 0 \/ l = 60 \/ 2 * l = 60
      PROVE  v = Halves(-30 + l) /\ q = p
    <2>1. /\ v = Halves(-30 + l)
          /\ Sub(Halves(-30 + l), Halves(-30)) = Halves(l)
          /\ Floor(Steps(Halves(l), 60, 100)) = p
        BY <1>1, <1>6, PieceExact
    <2> QED BY <2>1
<1>7. ASSUME p = 50 PROVE q = p /\ v = Halves(0)
    <2>1. 60 * p = 100 * 30 /\ 2 * 30 = 60 /\ -30 + 30 = 0
        BY <1>7
    <2>2. v = Halves(-30 + 30) /\ q = p
        BY <1>6, <2>1
    <2> QED BY <2>1, <2>2
<1>8. ASSUME p = 0 PROVE q = p
    <2>1. 60 * p = 100 * 0
        BY <1>8
    <2> QED BY <1>6, <2>1
<1>9. ASSUME p = 100 PROVE q = p
    <2>1. 60 * p = 100 * 60
        BY <1>9
    <2> QED BY <1>6, <2>1
<1> HIDE DEF v, q
<1> QED BY <1>3, <1>4, <1>5, <1>7, <1>8, <1>9

\* The neutral value of a range around 0 is the middle.
Balanced(f, w) == RangeWorks(Plain(f, w), [percent |-> 50, value |-> Halves(0)])

\* The ranges of RangeFor.
LEMMA AllRangesWork ==
    /\ RangeWorks(Plain(0, 2), [percent |-> 0, value |-> Halves(0)])
    /\ RangeWorks(Plain(0, 4), [percent |-> 0, value |-> Halves(0)])
    /\ RangeWorks(Plain(2, 8), [percent |-> 0, value |-> Halves(2)])
    /\ Balanced(-2, 4) /\ Balanced(-20, 40) /\ Balanced(-30, 60)
<1>0. 0 \in Percents /\ 50 \in Percents /\ 0 \in Int /\ 2 \in Int /\ 20 \in Int /\ 30 \in Int
    BY DEF Percents
<1>1. RangeWorks(Plain(0, 2), [percent |-> 0, value |-> Halves(0 + 0)])
    <2>1. 2 * 0 = 100 * 0
        OBVIOUS
    <2> QED BY <1>0, <2>1, Pieces, PlainWorks
<1>2. RangeWorks(Plain(0, 4), [percent |-> 0, value |-> Halves(0 + 0)])
    <2>1. 4 * 0 = 100 * 0
        OBVIOUS
    <2> QED BY <1>0, <2>1, Pieces, PlainWorks
<1>3. RangeWorks(Plain(2, 8), [percent |-> 0, value |-> Halves(2 + 0)])
    <2>1. 8 * 0 = 100 * 0
        OBVIOUS
    <2> QED BY <1>0, <2>1, Pieces, PlainWorks
<1>4. RangeWorks(Plain(-2, 4), [percent |-> 50, value |-> Halves(-2 + 2)])
    <2>1. 4 * 50 = 100 * 2 /\ 2 * 2 = 4
        OBVIOUS
    <2> QED BY <1>0, <2>1, Pieces, PlainWorks
<1>5. RangeWorks(Plain(-20, 40), [percent |-> 50, value |-> Halves(-20 + 20)])
    <2>1. 40 * 50 = 100 * 20 /\ 2 * 20 = 40
        OBVIOUS
    <2> QED BY <1>0, <2>1, Pieces, PlainWorks
<1>6. RangeWorks(Plain(-30, 60), [percent |-> 50, value |-> Halves(-30 + 30)])
    <2>1. 60 * 50 = 100 * 30 /\ 2 * 30 = 60
        OBVIOUS
    <2> QED BY <1>0, <2>1, Pieces, PlainWorks
<1>7. 0 + 0 = 0 /\ 2 + 0 = 2 /\ -2 + 2 = 0 /\ -20 + 20 = 0 /\ -30 + 30 = 0
    OBVIOUS
<1> QED BY <1>1, <1>2, <1>3, <1>4, <1>5, <1>6, <1>7 DEF Balanced

\* RangeFor, in halves.
LEMMA RangesAre ==
    /\ DOMAIN RangeFor = {"volume", "reverb", "echo", "chorus", "flanger", "balance", "speed", "trueBass",
                          "enhancer", "tempo", "pitch", "preamp"}
    /\ \A id \in {"volume", "reverb", "echo", "chorus", "flanger"} : RangeFor[id] = Plain(0, 2)
    /\ RangeFor["balance"] = Plain(-2, 4) /\ RangeFor["trueBass"] = Plain(0, 4)
    /\ RangeFor["enhancer"] = Plain(2, 8) /\ RangeFor["pitch"] = Plain(-20, 40)
    /\ RangeFor["preamp"] = Plain(-30, 60)
    /\ RangeFor["speed"] = Pivoted(50) /\ RangeFor["tempo"] = Pivoted(28)
    /\ FromInt(0) = Halves(0) /\ FromInt(1) = Halves(2)
<1>1. \A i \in {-15, -10, -1, 0, 1, 2, 3, 5, 10, 15} : FromInt(i) = Halves(2 * i)
    <2> TAKE i \in {-15, -10, -1, 0, 1, 2, 3, 5, 10, 15}
    <2>1. i \in Int /\ Magnitude(i) <= 100
        BY DEF Magnitude
    <2> QED BY <2>1, FromIntValue
<1>2. /\ FromInt(0) = Halves(0) /\ FromInt(1) = Halves(0 + 2) /\ FromInt(1) = Halves(2)
      /\ FromInt(-1) = Halves(-2) /\ FromInt(1) = Halves(-2 + 4)
      /\ FromInt(2) = Halves(0 + 4) /\ FromInt(5) = Halves(2 + 8)
      /\ FromInt(-10) = Halves(-20) /\ FromInt(10) = Halves(-20 + 40)
      /\ FromInt(-15) = Halves(-30) /\ FromInt(15) = Halves(-30 + 60)
      /\ FromInt(3) = Halves(6) /\ Half = Halves(1)
    <2>1. \A i \in Int, h \in Int : i \in {-15, -10, -1, 0, 1, 2, 3, 5, 10, 15} /\ h = 2 * i => FromInt(i) = Halves(h)
        BY <1>1
    <2>2. FromInt(0) = Halves(0) /\ FromInt(1) = Halves(0 + 2) /\ FromInt(1) = Halves(2) /\ FromInt(1) = Halves(-2 + 4)
        BY <2>1
    <2>3. FromInt(2) = Halves(0 + 4) /\ FromInt(5) = Halves(2 + 8) /\ FromInt(3) = Halves(6)
        BY <2>1
    <2>4. FromInt(-1) = Halves(-2) /\ FromInt(-10) = Halves(-20) /\ FromInt(-15) = Halves(-30)
        BY <2>1
    <2>5. FromInt(10) = Halves(-20 + 40) /\ FromInt(15) = Halves(-30 + 60)
        BY <2>1
    <2>6. Half = Halves(1)
        BY DEF Half, Halves
    <2> QED BY <2>2, <2>3, <2>4, <2>5, <2>6
<1> DEFINE unit == RangeProperty(FromInt(0), FromInt(1))
           rate == RangeProperty(Half, FromInt(3))
<1>3. /\ unit = Plain(0, 2)
      /\ WithPivot(50, rate) = Pivoted(50) /\ WithPivot(28, rate) = Pivoted(28)
      /\ RangeProperty(FromInt(-1), FromInt(1)) = Plain(-2, 4)
      /\ RangeProperty(FromInt(0), FromInt(2)) = Plain(0, 4)
      /\ RangeProperty(FromInt(1), FromInt(5)) = Plain(2, 8)
      /\ RangeProperty(FromInt(-10), FromInt(10)) = Plain(-20, 40)
      /\ RangeProperty(FromInt(-15), FromInt(15)) = Plain(-30, 60)
    BY <1>2 DEF Plain, Pivoted
<1> HIDE DEF unit, rate
<1>4. RangeFor =
        [volume |-> unit, reverb |-> unit, echo |-> unit, chorus |-> unit, flanger |-> unit,
         balance  |-> Plain(-2, 4),
         speed    |-> Pivoted(50),
         trueBass |-> Plain(0, 4),
         enhancer |-> Plain(2, 8),
         tempo    |-> Pivoted(28),
         pitch    |-> Plain(-20, 40),
         preamp   |-> Plain(-30, 60)]
    BY <1>3 DEF RangeFor, unit, rate
<1> QED BY <1>2, <1>3, <1>4

\* The answer to a write, for every property and every band.
LEMMA EveryEcho ==
    ASSUME NEW id \in Ids, NEW p \in Percents
    PROVE  LET v == Applied[id][p]
               q == Answered[id][v]
           IN  /\ q \in {p - 1, p}
               /\ p \in {Neutral[id].percent, 0, 100} => q = p
               /\ p = Neutral[id].percent => v = Neutral[id].value
<1> DEFINE v == Applied[id][p]
           q == Answered[id][v]
<1>1. /\ v = IF id \in Bands THEN EqualizerPercentToDb(p) ELSE FromPercent(p, RangeFor[id])
      /\ q = IF id \in Bands THEN EqualizerDbToPercent(v) ELSE ToPercent(v, RangeFor[id])
    <2>1. v = IF id \in Bands THEN EqualizerPercentToDb(p) ELSE FromPercent(p, RangeFor[id])
        BY DEF Applied
    <2>2. v \in {Applied[id][percent] : percent \in Percents}
        OBVIOUS
    <2> HIDE DEF v
    <2>3. Answered[id][v] = IF id \in Bands THEN EqualizerDbToPercent(v) ELSE ToPercent(v, RangeFor[id])
        BY <2>2 DEF Answered
    <2> QED BY <2>1, <2>3
<1> HIDE DEF v, q
<1>2. CASE id \in Bands
    <2>1. id \notin DOMAIN RangeFor
        BY <1>2, IdAssumption
    <2>2. id \notin {"speed", "tempo", "enhancer"}
        BY <2>1, RangesAre
    <2>3. Neutral[id] = [percent |-> 50, value |-> Halves(0)]
        BY <1>2, <2>2, RangesAre DEF Neutral
    <2>4. LET x == EqualizerPercentToDb(p)
              y == EqualizerDbToPercent(x)
          IN  /\ y \in {p - 1, p}
              /\ p \in {50, 0, 100} => y = p
              /\ p = 50 => x = Halves(0)
        BY BandWorks
    <2>5. v = EqualizerPercentToDb(p) /\ q = EqualizerDbToPercent(v)
        BY <1>1, <1>2
    <2> QED BY <2>3, <2>4, <2>5 DEF v, q
<1>3. CASE id \notin Bands
    <2>1. id \in DOMAIN RangeFor
        BY <1>3, IdAssumption DEF Ids
    <2>2. RangeWorks(RangeFor[id], Neutral[id])
        <3>1. CASE id \in {"volume", "reverb", "echo", "chorus", "flanger"}
            <4>1. Neutral[id] = [percent |-> 0, value |-> Halves(0)]
                BY <1>3, <3>1, RangesAre DEF Neutral
            <4>2. RangeFor[id] = Plain(0, 2)
                BY <3>1, RangesAre
            <4> QED BY <4>1, <4>2, AllRangesWork
        <3>2. CASE id = "trueBass"
            <4>1. Neutral[id] = [percent |-> 0, value |-> Halves(0)]
                BY <1>3, <3>2, RangesAre DEF Neutral
            <4> QED BY <3>2, <4>1, RangesAre, AllRangesWork
        <3>3. CASE id = "enhancer"
            <4>1. Neutral[id] = [percent |-> 0, value |-> Halves(2)]
                BY <1>3, <3>3, RangesAre DEF Neutral
            <4> QED BY <3>3, <4>1, RangesAre, AllRangesWork
        <3>4. CASE id \in {"balance", "pitch", "preamp"}
            <4>1. Neutral[id] = [percent |-> 50, value |-> Halves(0)]
                BY <1>3, <3>4, RangesAre DEF Neutral
            <4> QED BY <3>4, <4>1, RangesAre, AllRangesWork DEF Balanced
        <3>5. CASE id = "speed"
            <4>1. Neutral[id] = [percent |-> 50, value |-> Halves(2)]
                BY <1>3, <3>5, RangesAre DEF Neutral
            <4> QED BY <3>5, <4>1, RangesAre, PivotWorks
        <3>6. CASE id = "tempo"
            <4>1. Neutral[id] = [percent |-> 28, value |-> Halves(2)]
                BY <1>3, <3>6, RangesAre DEF Neutral
            <4> QED BY <3>6, <4>1, RangesAre, PivotWorks
        <3> QED BY <2>1, <3>1, <3>2, <3>3, <3>4, <3>5, <3>6, RangesAre
    <2>3. v = FromPercent(p, RangeFor[id]) /\ q = ToPercent(v, RangeFor[id])
        BY <1>1, <1>3
    <2> QED BY <2>2, <2>3 DEF RangeWorks, v, q
<1> QED BY <1>2, <1>3

-----------------------------------------------------------------------------
(***************************************************************************)
(* The commands.                                                           *)
(***************************************************************************)
\* What is kept is what the latest command wrote, and what is answered was
\* read from what is kept.
RepliesAreRead ==
    \A id \in DOMAIN reply.written :
       /\ id \in Ids
       /\ reply.written[id] \in Percents
       /\ value[id] = Applied[id][reply.written[id]]
       /\ reply.answered[id] = Answered[id][value[id]]

\* Both commands answer what they read after they have written.
LEMMA WriteAndReadReplies ==
    ASSUME NEW percents, NEW read, WriteAndRead(percents, read),
           \A id \in DOMAIN percents : id \in Ids /\ id \in read /\ percents[id] \in Percents
    PROVE  RepliesAreRead'
<1>1. /\ reply'.written = percents
      /\ reply'.answered = [id \in read |-> Answered[id][value'[id]]]
      /\ value' = [id \in Ids |-> IF id \in DOMAIN percents THEN Applied[id][percents[id]] ELSE value[id]]
    BY DEF WriteAndRead
<1> QED BY <1>1 DEF RepliesAreRead

\* Every step keeps RepliesAreRead.
LEMMA RepliesInvariant == PlayerSpec => []RepliesAreRead
<1>1. PlayerInit => RepliesAreRead
    BY DEF PlayerInit, StatusInit, NoReply, RepliesAreRead
<1>2. RepliesAreRead /\ [PlayerNext]_playerVars => RepliesAreRead'
    <2> SUFFICES ASSUME RepliesAreRead, [PlayerNext]_playerVars PROVE RepliesAreRead'
        OBVIOUS
    <2>1. CASE UNCHANGED statusVars
        BY <2>1 DEF statusVars, RepliesAreRead
    <2>2. ASSUME NEW id \in Ids, StatusRead(id) PROVE RepliesAreRead'
        <3>1. WriteAndRead(<<>>, {id})
            BY <2>2 DEF StatusRead
        <3> QED BY <3>1, WriteAndReadReplies
    <2>3. ASSUME NEW id \in Ids, NEW percent \in Percents, StatusWrite(id, percent) PROVE RepliesAreRead'
        <3>1. WriteAndRead([i \in {id} |-> percent], {id})
            BY <2>3 DEF StatusWrite
        <3> QED BY <3>1, WriteAndReadReplies
    <2>4. ASSUME NEW id \in BoolIds, NEW on \in BOOLEAN, StatusSwitch(id, on) PROVE RepliesAreRead'
        BY <2>4 DEF StatusSwitch, NoReply, RepliesAreRead
    <2>5. ASSUME NEW on \in {{}, {TRUE}, {FALSE}}, NEW percents \in BandLists, Equalizer(on, percents)
          PROVE  RepliesAreRead'
        <3>1. WriteAndRead(percents, Bands) /\ DOMAIN percents \subseteq Bands
            BY <2>5 DEF Equalizer
        <3>2. percents = <<>> \/ \E moved \in Bands, p \in Percents : percents = [b \in Bands |-> IF b = moved THEN p ELSE 50]
            BY DEF BandLists
        <3>3. \A id \in DOMAIN percents : percents[id] \in Percents
            <4>1. CASE percents = <<>>
                BY <4>1
            <4>2. ASSUME NEW moved \in Bands, NEW p \in Percents, percents = [b \in Bands |-> IF b = moved THEN p ELSE 50]
                  PROVE  \A id \in DOMAIN percents : percents[id] \in Percents
                BY <4>2 DEF Percents
            <4> QED BY <3>2, <4>1, <4>2
        <3> QED BY <3>1, <3>3, WriteAndReadReplies DEF Ids
    <2> QED BY <2>1, <2>2, <2>3, <2>4, <2>5 DEF PlayerNext, StatusNext, playerVars
<1> QED BY <1>1, <1>2, PTL DEF PlayerSpec

\* For any properties and bands, every write through the Status or Equalizer
\* command is answered with the percentage written or one less, and the panel
\* of the player's state shows the volume exactly as it was written.
THEOREM EchoesAreClose == PlayerSpec => []EchoWithinOne
<1>1. RepliesAreRead => EchoWithinOne
    <2> SUFFICES ASSUME RepliesAreRead PROVE EchoWithinOne
        OBVIOUS
    <2>1. \A id \in DOMAIN reply.written : reply.answered[id] \in {reply.written[id] - 1, reply.written[id]}
        BY EveryEcho DEF RepliesAreRead
    <2>2. ASSUME "volume" \in DOMAIN reply.written PROVE PanelVolume = reply.written["volume"]
        <3> DEFINE p == reply.written["volume"]
        <3>1. /\ "volume" \in Ids /\ p \in Percents /\ value["volume"] = Applied["volume"][p]
              /\ "volume" \in DOMAIN RangeFor /\ "volume" \notin Bands /\ RangeFor["volume"] = Plain(0, 2)
            BY <2>2, IdAssumption, RangesAre DEF RepliesAreRead
        <3> HIDE DEF p
        <3>2. Applied["volume"][p] = FromPercent(p, Plain(0, 2))
            BY <3>1 DEF Applied
        <3>3. FromPercent(p, Plain(0, 2)) = Written(0, 2, 100, p)
            BY <3>1, Pieces, PlainRange
        <3>4. LRound(Mul(Written(0, 2, 100, p), FromInt(100))) = p
            BY <3>1, VolumeRound DEF Percents
        <3>5. PanelVolume = p
            BY <3>1, <3>2, <3>3, <3>4 DEF PanelVolume
        <3> QED BY <3>5 DEF p
    <2> QED BY <2>1, <2>2 DEF EchoWithinOne
<1> QED BY <1>1, RepliesInvariant, PTL

\* For any properties and bands, a property that is reset has its neutral value
\* exactly and reads back as written, and so do the ends of its range.
THEOREM ResetsAreExact == PlayerSpec => []NeutralIsExact
<1>1. RepliesAreRead => NeutralIsExact
    BY EveryEcho DEF RepliesAreRead, NeutralIsExact
<1> QED BY <1>1, RepliesInvariant, PTL

-----------------------------------------------------------------------------
(***************************************************************************)
(* The sleep timer.                                                        *)
(***************************************************************************)
USE DelaysAssumption, BoundsAssumption

\* A Set that has not happened yet is neither revoked nor executed.
FutureSets ==
    \A g \in Sets : g > FGeneration => g \notin revoked /\ times[g] = 0

\* The active timer is the latest Set, neither revoked nor executed, and not
\* the one that Run is about to execute.
ActiveTimer ==
    FActive =>
        /\ FGeneration \in Sets
        /\ requested[FGeneration] = [action |-> FAction, deadline |-> FDeadline]
        /\ FGeneration \notin revoked
        /\ times[FGeneration] = 0
        /\ runPc = "execute" => generation # FGeneration

\* Run waits for a Set that has happened.
ArmedTimer == runPc = "armed" => generation \in Sets /\ generation <= FGeneration

\* What Run is about to execute is as requested, due, not revoked, and has not
\* been executed.
FiringTimer ==
    runPc = "execute" =>
        /\ generation \in Sets
        /\ generation <= FGeneration
        /\ requested[generation].action = action
        /\ requested[generation].deadline <= now
        /\ generation \notin revoked
        /\ times[generation] = 0

ExecutionsCounted == \A e \in executed : times[e.set] >= 1

IInv ==
    /\ TypeOK
    /\ FutureSets
    /\ ActiveTimer
    /\ ArmedTimer
    /\ FiringTimer
    /\ ExecutionsCounted
    /\ ExecutedAsRequested
    /\ RevokedNeverFires
    /\ FiresAtMostOnce

\* Type correctness of one step, given what IInv says of local variables.
LEMMA TypeStep ==
    TypeOK /\ ActiveTimer /\ FiringTimer /\ [Next]_vars => TypeOK'
<1> SUFFICES ASSUME TypeOK, ActiveTimer, FiringTimer, [Next]_vars
             PROVE  TypeOK'
    OBVIOUS
<1> USE DEF TypeOK, Time, Sets, timer, run, history
<1>0. Revoke => revoked' \subseteq Sets
    BY DEF Revoke, ActiveTimer
<1>a. Announce => announced' \in 0 .. MaxSets
    BY DEF Announce, TimerState
<1>1. CASE UNCHANGED vars
    BY <1>1 DEF vars
<1>2. CASE Tick
    BY <1>2 DEF Tick
<1>3. ASSUME NEW c \in Callers, NEW a \in Actions, NEW d \in Delays, Set(c, a, d)
      PROVE  TypeOK'
    <2>1. FDeadline' \in Time /\ FGeneration' \in 0 .. MaxSets
        BY <1>3 DEF Set
    <2>2. requested' \in [Sets -> [action : Actions, deadline : Time]]
        BY <1>3 DEF Set
    <2>3. revoked' \subseteq Sets
        BY <1>3, <1>0 DEF Set
    <2> QED
        BY <1>3, <2>1, <2>2, <2>3 DEF Set
<1>4. ASSUME NEW c \in Callers, Cancel(c)
      PROVE  TypeOK'
    BY <1>4, <1>0 DEF Cancel
<1>5. ASSUME NEW c \in Callers, CallerWakes(c)
      PROVE  TypeOK'
    BY <1>5 DEF CallerWakes
<1>6. ASSUME NEW c \in Callers, CallerNotifies(c)
      PROVE  TypeOK'
    BY <1>6, <1>a DEF CallerNotifies
<1>7. CASE Start
    BY <1>7 DEF Start, LoopTop
<1>8. CASE SpuriousWakeup
    BY <1>8 DEF SpuriousWakeup
<1>9. CASE WakeIdle
    BY <1>9 DEF WakeIdle, LoopTop
<1>10. CASE WakeArmed
    BY <1>10 DEF WakeArmed, LoopTop, Fire
<1>11. CASE Execute
    BY <1>11 DEF Execute, FiringTimer, ActionToExecute
<1>12. CASE RunNotifies
    BY <1>12, <1>a DEF RunNotifies, LoopTop
<1>13. CASE StopBegins
    BY <1>13, <1>0 DEF StopBegins
<1>14. CASE StopWakes
    BY <1>14 DEF StopWakes
<1>15. CASE StopJoins
    BY <1>15 DEF StopJoins
<1> QED
    BY <1>1, <1>2, <1>3, <1>4, <1>5, <1>6, <1>7, <1>8, <1>9, <1>10, <1>11, <1>12,
       <1>13, <1>14, <1>15 DEF Next

Safety == ExecutedAsRequested /\ RevokedNeverFires /\ FiresAtMostOnce

Ghosts == FutureSets /\ ActiveTimer /\ ArmedTimer /\ FiringTimer /\ ExecutionsCounted

\* Set: the new Set has neither been revoked nor executed, and the one it
\* replaces has not been executed and is not being executed.
LEMMA SetStep ==
    ASSUME IInv, NEW c \in Callers, NEW a \in Actions, NEW d \in Delays, Set(c, a, d)
    PROVE  Ghosts' /\ Safety'
<1> USE DEF Time, Sets
<1> DEFINE g == FGeneration + 1
<1>1. /\ g \in Sets
      /\ FGeneration' = g
      /\ requested' = [requested EXCEPT ![g] = [action |-> a, deadline |-> now + d]]
      /\ FActive' = TRUE
      /\ FAction' = a
      /\ FDeadline' = now + d
      /\ UNCHANGED <<runPc, generation, action, executed, times, now>>
    BY DEF Set, run, IInv, TypeOK
<1>2. /\ revoked' \subseteq revoked \cup {FGeneration}
      /\ revoked' # revoked => FActive
    BY DEF Set, Revoke
<1>3. g \notin revoked' /\ times'[g] = 0
    BY <1>1, <1>2 DEF IInv, FutureSets, TypeOK
<1>4. \A h \in Sets : h # g => requested'[h] = requested[h]
    BY <1>1 DEF IInv, TypeOK
<1>5. \A e \in executed : e.set \in Sets /\ e.set # g /\ e.set \notin revoked'
    <2> SUFFICES ASSUME NEW e \in executed
                 PROVE  e.set \in Sets /\ e.set # g /\ e.set \notin revoked'
        OBVIOUS
    <2>1. e.set \in Sets /\ times[e.set] >= 1
        BY DEF IInv, TypeOK, ExecutionsCounted
    <2>2. e.set # g
        BY <2>1, <1>1, <1>3
    <2>3. FActive => e.set # FGeneration
        BY <2>1 DEF IInv, ActiveTimer
    <2> QED
        BY <2>1, <2>2, <2>3, <1>2 DEF IInv, RevokedNeverFires
<1>6. FutureSets'
    BY <1>1, <1>2 DEF IInv, FutureSets, TypeOK
<1>7. ActiveTimer'
    BY <1>1, <1>3 DEF IInv, FiringTimer, TypeOK, ActiveTimer
<1>8. ArmedTimer'
    BY <1>1 DEF IInv, ArmedTimer, TypeOK
<1>9. FiringTimer'
    BY <1>1, <1>2, <1>4 DEF IInv, FiringTimer, ActiveTimer, TypeOK
<1>10. ExecutionsCounted'
    BY <1>1 DEF IInv, ExecutionsCounted
<1>11. Safety'
    BY <1>1, <1>4, <1>5
    DEF IInv, Safety, ExecutedAsRequested, RevokedNeverFires, FiresAtMostOnce
<1> QED
    BY <1>6, <1>7, <1>8, <1>9, <1>10, <1>11 DEF Ghosts

\* Cancel and the beginning of Stop: what is revoked is active, hence neither
\* executed nor being executed.
LEMMA RevokeStep ==
    ASSUME IInv, Revoke, FActive' = FALSE,
           UNCHANGED <<now, FGeneration, runPc, generation, action, requested,
                       executed, times>>
    PROVE  Ghosts' /\ Safety'
<1> USE DEF Time, Sets
<1>1. /\ revoked' \subseteq revoked \cup {FGeneration}
      /\ revoked' # revoked => FActive
    BY DEF Revoke
<1>2. \A e \in executed : e.set \notin revoked'
    <2> SUFFICES ASSUME NEW e \in executed
                 PROVE  e.set \notin revoked'
        OBVIOUS
    <2>1. times[e.set] >= 1
        BY DEF IInv, ExecutionsCounted
    <2>2. FActive => e.set # FGeneration
        BY <2>1 DEF IInv, ActiveTimer
    <2> QED
        BY <2>2, <1>1 DEF IInv, RevokedNeverFires
<1>3. FutureSets'
    BY <1>1 DEF IInv, FutureSets, TypeOK
<1>4. ActiveTimer' /\ ArmedTimer' /\ ExecutionsCounted'
    BY DEF IInv, ActiveTimer, ArmedTimer, ExecutionsCounted
<1>5. FiringTimer'
    BY <1>1 DEF IInv, FiringTimer, ActiveTimer
<1>6. Safety'
    BY <1>2 DEF IInv, Safety, ExecutedAsRequested, RevokedNeverFires, FiresAtMostOnce
<1> QED
    BY <1>3, <1>4, <1>5, <1>6 DEF Ghosts

\* The top of Run's loop changes nothing but where Run is.
LEMMA LoopTopStep ==
    ASSUME IInv, LoopTop,
           UNCHANGED <<now, timer, action, requested, revoked, executed, times>>
    PROVE  Ghosts' /\ Safety'
<1> USE DEF timer
<1>1. runPc' # "execute"
    BY DEF LoopTop
<1>2. ArmedTimer'
    BY DEF LoopTop, ArmedTimer, IInv, ActiveTimer, TypeOK
<1>3. ActiveTimer' /\ FiringTimer'
    BY <1>1 DEF ActiveTimer, FiringTimer, IInv
<1>4. FutureSets' /\ ExecutionsCounted'
    BY DEF FutureSets, ExecutionsCounted, IInv
<1>5. Safety'
    BY DEF IInv, Safety, ExecutedAsRequested, RevokedNeverFires, FiresAtMostOnce
<1> QED
    BY <1>2, <1>3, <1>4, <1>5 DEF Ghosts

\* The decision to fire: the timer Run waited for is the active one, and due.
LEMMA FireStep ==
    ASSUME IInv, runPc = "armed", ~Changed, ~TooEarly, Fire,
           UNCHANGED <<now, FGeneration, requested, revoked, executed, times>>
    PROVE  Ghosts' /\ Safety'
<1>1. FActive /\ FGeneration = generation /\ now >= FDeadline
    BY DEF Changed, TooEarly, IInv, TypeOK, Time
<1>2. FiringTimer'
    BY <1>1 DEF IInv, TypeOK, ActiveTimer, FiringTimer, Fire
<1>3. ActiveTimer' /\ ArmedTimer'
    BY DEF Fire, ActiveTimer, ArmedTimer
<1>4. FutureSets' /\ ExecutionsCounted'
    BY DEF FutureSets, ExecutionsCounted, IInv
<1>5. Safety'
    BY DEF IInv, Safety, ExecutedAsRequested, RevokedNeverFires, FiresAtMostOnce
<1> QED
    BY <1>2, <1>3, <1>4, <1>5 DEF Ghosts

\* The execution itself.
LEMMA ExecuteStep ==
    ASSUME IInv, Execute
    PROVE  Ghosts' /\ Safety'
<1> USE DEF timer
<1> DEFINE e0 == [set |-> generation, action |-> action, at |-> now]
<1>1. /\ runPc = "execute"
      /\ runPc' = "notify"
      /\ executed' = executed \cup {e0}
      /\ times' = [times EXCEPT ![generation] = @ + 1]
      /\ UNCHANGED <<now, timer, generation, action, requested, revoked>>
    BY DEF Execute, ActionToExecute
<1>2. /\ generation \in Sets
      /\ generation <= FGeneration
      /\ requested[generation].action = action
      /\ requested[generation].deadline <= now
      /\ generation \notin revoked
      /\ times[generation] = 0
    BY <1>1 DEF IInv, FiringTimer
<1>3. times'[generation] = 1 /\ \A g \in Sets : g # generation => times'[g] = times[g]
    BY <1>1, <1>2 DEF IInv, TypeOK
<1>4. \A e \in executed : e.set \in Sets
    BY DEF IInv, TypeOK
<1>5. FutureSets'
    BY <1>1, <1>2, <1>3 DEF IInv, FutureSets, TypeOK, Sets
<1>6. ActiveTimer' /\ ArmedTimer' /\ FiringTimer'
    BY <1>1, <1>3 DEF IInv, ActiveTimer, ArmedTimer, FiringTimer
<1>7. ExecutionsCounted'
    BY <1>1, <1>3, <1>4 DEF IInv, ExecutionsCounted
<1>8. ExecutedAsRequested'
    BY <1>1, <1>2 DEF IInv, ExecutedAsRequested, TypeOK, Time
<1>9. RevokedNeverFires'
    BY <1>1, <1>2 DEF IInv, RevokedNeverFires
<1>10. FiresAtMostOnce'
    BY <1>3 DEF IInv, FiresAtMostOnce
<1> QED
    BY <1>5, <1>6, <1>7, <1>8, <1>9, <1>10 DEF Ghosts, Safety

\* The remaining steps touch neither the timer nor what Run does with it.
LEMMA QuietStep ==
    ASSUME IInv, now' \in Nat, now' >= now,
           UNCHANGED <<timer, runPc, generation, action, requested, revoked,
                       executed, times>>
    PROVE  Ghosts' /\ Safety'
<1> USE DEF timer
<1>1. FutureSets' /\ ActiveTimer' /\ ArmedTimer' /\ ExecutionsCounted'
    BY DEF IInv, FutureSets, ActiveTimer, ArmedTimer, ExecutionsCounted
<1>2. FiringTimer'
    <2>1. ASSUME runPc = "execute"
          PROVE  requested[generation].deadline <= now'
        BY <2>1 DEF IInv, FiringTimer, TypeOK, Time
    <2> QED
        BY <2>1 DEF IInv, FiringTimer
<1>3. Safety'
    BY DEF IInv, Safety, ExecutedAsRequested, RevokedNeverFires, FiresAtMostOnce
<1> QED
    BY <1>1, <1>2, <1>3 DEF Ghosts

\* IInv is inductive.
LEMMA IInvStep == IInv /\ [Next]_vars => IInv'
<1> SUFFICES ASSUME IInv, [Next]_vars
             PROVE  IInv'
    OBVIOUS
<1>0. TypeOK'
    BY TypeStep DEF IInv
<1>n. now \in Nat
    BY DEF IInv, TypeOK, Time
<1>1. ASSUME UNCHANGED vars
      PROVE  Ghosts' /\ Safety'
    BY <1>1, <1>n, QuietStep DEF vars, run, history, timer
<1>2. ASSUME Tick
      PROVE  Ghosts' /\ Safety'
    BY <1>2, <1>n, QuietStep DEF Tick, timer, run, history
<1>3. ASSUME NEW c \in Callers, NEW a \in Actions, NEW d \in Delays, Set(c, a, d)
      PROVE  Ghosts' /\ Safety'
    BY <1>3, SetStep
<1>4. ASSUME NEW c \in Callers, Cancel(c)
      PROVE  Ghosts' /\ Safety'
    BY <1>4, RevokeStep DEF Cancel, run
<1>5. ASSUME NEW c \in Callers, CallerWakes(c)
      PROVE  Ghosts' /\ Safety'
    BY <1>5, <1>n, QuietStep DEF CallerWakes, timer, history
<1>6. ASSUME NEW c \in Callers, CallerNotifies(c)
      PROVE  Ghosts' /\ Safety'
    BY <1>6, <1>n, QuietStep DEF CallerNotifies, timer, run, history
<1>7. ASSUME Start
      PROVE  Ghosts' /\ Safety'
    BY <1>7, LoopTopStep DEF Start, timer, history
<1>8. ASSUME SpuriousWakeup
      PROVE  Ghosts' /\ Safety'
    BY <1>8, <1>n, QuietStep DEF SpuriousWakeup, timer, history
<1>9. ASSUME WakeIdle
      PROVE  Ghosts' /\ Safety'
    BY <1>9, LoopTopStep DEF WakeIdle, timer, history
<1>10. ASSUME WakeArmed
      PROVE  Ghosts' /\ Safety'
    <2>1. CASE Changed \/ TooEarly
        BY <1>10, <2>1, LoopTopStep DEF WakeArmed, history, timer
    <2>2. CASE ~Changed /\ ~TooEarly
        BY <1>10, <2>2, FireStep DEF WakeArmed, history, timer
    <2> QED
        BY <2>1, <2>2
<1>11. ASSUME Execute
      PROVE  Ghosts' /\ Safety'
    BY <1>11, ExecuteStep
<1>12. ASSUME RunNotifies
      PROVE  Ghosts' /\ Safety'
    BY <1>12, LoopTopStep DEF RunNotifies, timer, history
<1>13. ASSUME StopBegins
      PROVE  Ghosts' /\ Safety'
    BY <1>13, RevokeStep DEF StopBegins, run
<1>14. ASSUME StopWakes
      PROVE  Ghosts' /\ Safety'
    BY <1>14, <1>n, QuietStep DEF StopWakes, timer, history
<1>15. ASSUME StopJoins
      PROVE  Ghosts' /\ Safety'
    BY <1>15, <1>n, QuietStep DEF StopJoins, timer, run, history
<1>16. Ghosts' /\ Safety'
    BY <1>1, <1>2, <1>3, <1>4, <1>5, <1>6, <1>7, <1>8, <1>9, <1>10, <1>11, <1>12,
       <1>13, <1>14, <1>15 DEF Next
<1> QED
    BY <1>0, <1>16 DEF IInv, Ghosts, Safety

LEMMA IInvInit == Init => IInv
<1> SUFFICES ASSUME Init
             PROVE  IInv
    OBVIOUS
<1>1. TypeOK
    <2>1. /\ requested \in [Sets -> [action : Actions, deadline : Time]]
          /\ times \in [Sets -> Nat]
          /\ callerPc \in [Callers -> {"out", "wake", "notify"}]
        BY DEF Init, Time
    <2>2. /\ 0 \in Time
          /\ 0 \in 0 .. MaxSets
        BY DEF Time
    <2> QED
        BY <2>1, <2>2 DEF Init, TypeOK
<1>2. Ghosts /\ Safety
    BY DEF Init, Ghosts, Safety, FutureSets, ActiveTimer, ArmedTimer, FiringTimer,
           ExecutionsCounted, ExecutedAsRequested, RevokedNeverFires, FiresAtMostOnce
<1> QED
    BY <1>1, <1>2 DEF IInv, Ghosts, Safety

LEMMA IInvAlways == Spec => []IInv
BY IInvInit, IInvStep, PTL DEF Spec

\* SleepTimer is type correct.
THEOREM TypeCorrect == Spec => []TypeOK
<1>1. IInv => TypeOK
    BY DEF IInv
<1> QED
    BY <1>1, IInvAlways, PTL

\* Only what was asked for is executed, and never early.
THEOREM AsRequested == Spec => []ExecutedAsRequested
<1>1. IInv => ExecutedAsRequested
    BY DEF IInv
<1> QED
    BY <1>1, IInvAlways, PTL

\* A timer cancelled, replaced or stopped while active never fires.
THEOREM NothingRevokedFires == Spec => []RevokedNeverFires
<1>1. IInv => RevokedNeverFires
    BY DEF IInv
<1> QED
    BY <1>1, IInvAlways, PTL

\* One Set, at most one execution.
THEOREM AtMostOnce == Spec => []FiresAtMostOnce
<1>1. IInv => FiresAtMostOnce
    BY DEF IInv
<1> QED
    BY <1>1, IInvAlways, PTL

\* FEvents is not reset before Stop has begun.
EventsUntilStop == (mainPc # "running" => FStopped) /\ (~FStopped => FEvents)

Announcing == TypeOK /\ EventsUntilStop /\ AnnouncedWhenQuiet

\* Whoever changes the timer is on its way to FEvents->Notify afterwards, and
\* reaches it with the timer as it is then.
LEMMA AnnouncingStep == Announcing /\ TypeOK' /\ [Next]_vars => Announcing'
<1> SUFFICES ASSUME Announcing, TypeOK', [Next]_vars
             PROVE  EventsUntilStop' /\ AnnouncedWhenQuiet'
    BY DEF Announcing
<1> USE DEF Announcing, EventsUntilStop, AnnouncedWhenQuiet, TimerState, timer
<1>1. CASE UNCHANGED vars
    BY <1>1 DEF vars, run
<1>2. CASE Tick
    BY <1>2 DEF Tick, run
<1>3. ASSUME NEW c \in Callers,
             (\E a \in Actions, d \in Delays : Set(c, a, d)) \/ Cancel(c)
      PROVE  EventsUntilStop' /\ AnnouncedWhenQuiet'
    <2>1. callerPc'[c] = "wake" /\ UNCHANGED <<mainPc, FStopped, FEvents>>
        BY <1>3 DEF Set, Cancel, TypeOK
    <2> QED
        BY <2>1
<1>4. ASSUME NEW c \in Callers, CallerWakes(c)
      PROVE  EventsUntilStop' /\ AnnouncedWhenQuiet'
    <2>1. callerPc'[c] = "notify" /\ UNCHANGED <<mainPc, FStopped, FEvents>>
        BY <1>4 DEF CallerWakes, TypeOK
    <2> QED
        BY <2>1
<1>5. ASSUME NEW c \in Callers, CallerNotifies(c)
      PROVE  EventsUntilStop' /\ AnnouncedWhenQuiet'
    BY <1>5 DEF CallerNotifies, Announce
<1>6. CASE Start \/ WakeIdle
    BY <1>6 DEF Start, WakeIdle, LoopTop
<1>7. CASE SpuriousWakeup
    BY <1>7 DEF SpuriousWakeup
<1>8. CASE WakeArmed
    BY <1>8 DEF WakeArmed, LoopTop, Fire
<1>9. CASE Execute
    BY <1>9 DEF Execute
<1>10. CASE RunNotifies
    BY <1>10 DEF RunNotifies, Announce
<1>11. CASE StopBegins \/ StopWakes \/ StopJoins
    BY <1>11 DEF StopBegins, StopWakes, StopJoins, run
<1> QED
    BY <1>1, <1>2, <1>3, <1>4, <1>5, <1>6, <1>7, <1>8, <1>9, <1>10, <1>11 DEF Next

\* Once no thread is on its way to FEvents->Notify, the pollers have been told
\* of the timer as it is.
THEOREM AnnouncedInTheEnd == Spec => []AnnouncedWhenQuiet
<1>1. Init => Announcing
    <2>1. Init => TypeOK
        BY IInvInit DEF IInv
    <2> QED
        BY <2>1 DEF Init, Announcing, EventsUntilStop, AnnouncedWhenQuiet, TimerState
<1>2. Announcing => AnnouncedWhenQuiet
    BY DEF Announcing
<1> QED
    BY <1>1, <1>2, AnnouncingStep, TypeCorrect, PTL DEF Spec

\* The timer as PluginLifecycle sees it: Run waits, is executing, or has ended.
\* What Finalize does before and after Stop is left out.
Lifecycle == INSTANCE PluginLifecycle WITH
    Requests <- {}, Addresses <- {}, Listeners <- {}, closing <- {},
    request <- [r \in {} |-> 0],
    FEventsStopped <- FALSE,
    mainPc <- CASE mainPc = "running" -> "running"
                [] mainPc = "stopped" -> "stopEvents"
                [] OTHER -> "joinTimer",
    FStopping <- mainPc # "running",
    watcherPc <- IF mainPc = "running" THEN "wait" ELSE "exited",
    FTimerStopped <- FStopped,
    timerPc <- IF runPc \in {"execute", "exited"} THEN runPc ELSE "wait"

\* The timer's steps of PluginLifecycle.  StopBegins is StopTimer, with the
\* steps that lead Finalize to it.
LifecycleStep ==
    \/ Lifecycle!TimerFires \/ Lifecycle!TimerExecutes \/ Lifecycle!TimerExits
    \/ Lifecycle!JoinTimer
    \/ StopBegins

\* Every step of the timer's thread and of Stop is a step that PluginLifecycle
\* allows, or is not seen there.
LEMMA EachStepIsReduced ==
    ASSUME TypeOK, [Next]_vars
    PROVE  LifecycleStep \/ UNCHANGED Lifecycle!vars
<1> USE DEF LifecycleStep, Lifecycle!vars, Lifecycle!watcher, Lifecycle!timer
<1>1. ASSUME UNCHANGED <<FStopped, runPc, mainPc>>
      PROVE  UNCHANGED Lifecycle!vars
    BY <1>1
<1>2. ASSUME LoopTop, UNCHANGED <<FStopped, mainPc>>, runPc \notin {"execute", "exited"}
      PROVE  Lifecycle!TimerExits \/ UNCHANGED Lifecycle!vars
    BY <1>2 DEF LoopTop, Lifecycle!TimerExits
<1>3. CASE Start
    BY <1>2, <1>3 DEF Start, timer
<1>4. CASE WakeIdle
    BY <1>2, <1>4 DEF WakeIdle, timer
<1>5. CASE RunNotifies
    BY <1>2, <1>5 DEF RunNotifies, timer
<1>6. CASE WakeArmed
    <2>1. CASE Changed \/ TooEarly
        BY <1>2, <1>6, <2>1 DEF WakeArmed
    <2>2. CASE ~(Changed \/ TooEarly)
        BY <1>6, <2>2 DEF WakeArmed, Fire, Changed, TypeOK, Lifecycle!TimerFires
    <2> QED BY <2>1, <2>2
<1>7. CASE Execute
    BY <1>7 DEF Execute, MainTakesTasks, TypeOK, timer,
                Lifecycle!TimerExecutes, Lifecycle!MainTakesTasks, Lifecycle!Joins
<1>8. CASE StopJoins
    BY <1>8 DEF StopJoins, timer, run, Lifecycle!JoinTimer
<1>9. CASE StopWakes
    BY <1>9 DEF StopWakes, timer
<1>10. ASSUME NEW c \in Callers,
              \/ \E a \in Actions, d \in Delays : Set(c, a, d)
              \/ Cancel(c) \/ CallerWakes(c) \/ CallerNotifies(c)
       PROVE  UNCHANGED <<FStopped, runPc, mainPc>>
    BY <1>10 DEF Set, Cancel, CallerWakes, CallerNotifies, timer, run
<1>11. CASE Tick \/ SpuriousWakeup \/ UNCHANGED vars
    BY <1>1, <1>11 DEF Tick, SpuriousWakeup, vars, timer, run
<1> QED BY <1>1, <1>3, <1>4, <1>5, <1>6, <1>7, <1>8, <1>9, <1>10, <1>11 DEF Next

\* What PluginLifecycle takes for granted of the timer is what it does: its
\* thread executes only while the main thread takes tasks, ends only when it was
\* told to, and Stop does not return before.
THEOREM TimerIsReduced == Spec => Lifecycle!Init /\ [][LifecycleStep]_Lifecycle!vars
<1>1. Init => Lifecycle!Init
    BY DEF Init, Lifecycle!Init
<1>2. TypeOK /\ [Next]_vars => [LifecycleStep]_Lifecycle!vars
    BY EachStepIsReduced
<1> QED
    BY <1>1, <1>2, TypeCorrect, PTL DEF Spec

-----------------------------------------------------------------------------
\* The player and its playlists.
AtMostOneOf(indices) == \A i, j \in indices : i = j
Positions(l) == 0 .. size[l] - 1

\* The playlists and the marks in them: a focus and a cursor are in the playlist.
MarksOK ==
    /\ size \in [Playlists -> Nat]
    /\ focus \in [Playlists -> SUBSET Nat]
    /\ cursor \in [Playlists -> SUBSET Nat]
    /\ \A l \in Playlists :
          /\ focus[l] \subseteq Positions(l) /\ AtMostOneOf(focus[l])
          /\ cursor[l] \subseteq Positions(l) /\ AtMostOneOf(cursor[l])

\* The player has a track of a playlist exactly while it is not stopped.
PlaybackOK ==
    /\ playback \in {"stopped", "playing", "paused"}
    /\ active \in Playlists
    /\ playing \in Playlists \cup {None}
    /\ item \subseteq Tracks
    /\ item = {} <=> playback = "stopped"

PlayerInv ==
    /\ topic \in {"playback", "properties"}
    /\ topic = "playback" => MarksOK /\ PlaybackOK
    /\ topic = "properties" => pressed = {}

LEMMA TracksMember ==
    \A t : t \in Tracks <=>
        \E l \in Playlists : \E i \in Positions(l) : t = [list |-> l, index |-> i]
BY DEF Tracks, Positions

\* The track that is shown is one of a playlist.
LEMMA CurrentIsATrack ==
    ASSUME MarksOK, PlaybackOK, NEW t \in CurrentItemOf
    PROVE  t \in Tracks
<1> DEFINE l == IF playing # None THEN playing ELSE active
<1>1. l \in Playlists
  BY DEF PlaybackOK
<1>2. l \in Playlists /\ size[l] \in Nat /\ focus[l] \subseteq Positions(l) /\ cursor[l] \subseteq Positions(l)
  BY <1>1 DEF MarksOK
<1>3. CASE item # {}
  BY <1>3 DEF CurrentItemOf, PlaybackOK
<1>4. CASE item = {}
  <2>1. \E i \in Positions(l) : t = [list |-> l, index |-> i]
    BY <1>2, <1>4 DEF CurrentItemOf, At, Positions
  <2> QED
    BY <1>2, <2>1, TracksMember
<1> QED
  BY <1>3, <1>4

\* While the player is stopped one track is shown at most.
LEMMA OneIsShown ==
    ASSUME MarksOK, PlaybackOK, playback = "stopped", NEW t \in CurrentItemOf, NEW u \in CurrentItemOf
    PROVE  t = u
<1> DEFINE l == IF playing # None THEN playing ELSE active
<1>1. l \in Playlists
  BY DEF PlaybackOK
<1>2. /\ \A i, j \in focus[l] : i = j
      /\ \A i, j \in cursor[l] : i = j
  BY <1>1 DEF MarksOK, AtMostOneOf
<1>3. item = {}
  BY DEF PlaybackOK
<1> HIDE DEF l
<1> QED
  BY <1>2, <1>3 DEF CurrentItemOf, At, l

\* Playing a track.
LEMMA PlayStep ==
    ASSUME MarksOK, PlaybackOK, NEW t \in Tracks, Play2(t)
    PROVE  MarksOK' /\ PlaybackOK'
<1> PICK l \in Playlists : \E i \in Positions(l) : t = [list |-> l, index |-> i]
  BY TracksMember
<1> PICK i \in Positions(l) : t = [list |-> l, index |-> i]
  OBVIOUS
<1>1. t.list = l /\ t.index = i /\ i \in Nat
  BY DEF MarksOK, Positions
<1>2. /\ size' = size /\ active' = active
      /\ playback' = "playing" /\ item' = {t} /\ playing' = l
      /\ cursor' = [cursor EXCEPT ![l] = {i}]
      /\ focus' = focus \/ focus' = [focus EXCEPT ![l] = {i}]
  BY <1>1 DEF Play2
<1>3. MarksOK'
  BY <1>1, <1>2 DEF MarksOK, Positions, AtMostOneOf
<1>4. Tracks' = Tracks
  BY <1>2 DEF Tracks
<1>5. PlaybackOK'
  BY <1>2, <1>4 DEF PlaybackOK
<1> QED
  BY <1>3, <1>5

\* The two remainders of MoveFocus wrap around both ends.
LEMMA WrapsAround ==
    ASSUME NEW n \in Nat \ {0}, NEW i \in 0 .. n - 1, NEW delta \in {-1, 1}
    PROVE  /\ Remainder(Remainder(i + delta, n) + n, n) = (i + delta + n) % n
           /\ (i + delta + n) % n \in 0 .. n - 1
<1>0. \A x \in 0 .. n - 1 : x % n = x /\ (x + n) % n = x
  OBVIOUS
<1>1. CASE i + delta \in 0 .. n - 1
  BY <1>0, <1>1 DEF Remainder
<1>2. CASE i + delta = n
  <2>1. n % n = 0 /\ (n + n) % n = 0
    OBVIOUS
  <2> QED
    BY <1>2, <2>1 DEF Remainder
<1>3. CASE i + delta = -1
  <2>1. n - 1 \in 0 .. n - 1 /\ (n - 1) % n = n - 1
    BY <1>0
  <2>2. CASE n = 1
    BY <1>3, <2>1, <2>2 DEF Remainder
  <2>3. CASE n > 1
    <3>1. 1 % n = 1
      BY <2>3
    <3>2. Remainder(i + delta, n) = -1
      BY <1>3, <3>1 DEF Remainder
    <3>3. Remainder(-1 + n, n) = n - 1
      BY <2>1, <2>3 DEF Remainder
    <3> QED
      BY <1>3, <2>1, <3>2, <3>3
  <2> QED
    BY <2>2, <2>3
<1> QED
  BY <1>1, <1>2, <1>3

\* A press of PlayNext or PlayPrevious of a stopped player.
LEMMA MoveStep ==
    ASSUME MarksOK, PlaybackOK, playback = "stopped", NEW delta \in {-1, 1},
           NEW t \in CurrentItemOf, MoveFocus(t, delta),
           UNCHANGED <<size, playback, item, playing, active, cursor>>
    PROVE  /\ MarksOK' /\ PlaybackOK'
           /\ CurrentItemOf' = {[t EXCEPT !.index = (@ + delta + size[t.list]) % size[t.list]]}
<1> PICK l \in Playlists : \E i \in Positions(l) : t = [list |-> l, index |-> i]
  BY CurrentIsATrack, TracksMember
<1> PICK i \in Positions(l) : t = [list |-> l, index |-> i]
  OBVIOUS
<1> PICK n, next : n = size[l] /\ next = (i + delta + n) % n
  OBVIOUS
<1>1. t.list = l /\ t.index = i /\ n \in Nat \ {0} /\ i \in 0 .. n - 1
  BY DEF MarksOK, Positions
<1>2. next \in 0 .. n - 1 /\ Remainder(Remainder(i + delta, n) + n, n) = next
  BY <1>1, WrapsAround
<1>3. focus' = [focus EXCEPT ![l] = {next}]
  <2>1. /\ t.list = l /\ size[t.list] = n /\ n > 0
        /\ Remainder(Remainder(t.index + delta, n) + n, n) = next
    BY <1>1, <1>2
  <2>2. focus' = IF n > 0 /\ next \in 0 .. n - 1 THEN [focus EXCEPT ![l] = {next}] ELSE focus
    BY <2>1 DEF MoveFocus
  <2> QED
    BY <1>2, <2>1, <2>2
<1>4. MarksOK'
  BY <1>1, <1>2, <1>3 DEF MarksOK, Positions, AtMostOneOf
<1>5. PlaybackOK'
  <2>1. Tracks' = Tracks
    BY DEF Tracks
  <2> QED
    BY <2>1 DEF PlaybackOK
<1>6. l = IF playing # None THEN playing ELSE active
  <2>1. item = {}
    BY DEF PlaybackOK
  <2> QED
    BY <1>1, <2>1 DEF CurrentItemOf, At
<1>7. CurrentItemOf' = {[list |-> l, index |-> next]}
  <2>1. item' = {} /\ focus'[l] = {next}
    BY <1>3 DEF PlaybackOK, MarksOK
  <2>2. CurrentItemOf' = At(l, {next})
    BY <1>6, <2>1 DEF CurrentItemOf
  <2> QED
    BY <2>2 DEF At
<1>8. [t EXCEPT !.index = (@ + delta + size[t.list]) % size[t.list]] = [list |-> l, index |-> next]
  BY <1>1
<1> QED
  BY <1>4, <1>5, <1>7, <1>8

\* The invariant holds initially.
LEMMA PlayerInvInit == PlayerInit => PlayerInv
<1> SUFFICES ASSUME PlayerInit PROVE PlayerInv
  OBVIOUS
<1>1. CASE topic = "playback"
  <2>1. size \in [Playlists -> Nat]
    BY <1>1, SizesAssumption DEF PlayerInit
  <2>2. MarksOK
    BY <2>1 DEF PlayerInit, MarksOK, AtMostOneOf
  <2>3. PlaybackOK
    BY <1>1 DEF PlayerInit, PlaybackOK
  <2> QED
    BY <1>1, <2>2, <2>3 DEF PlayerInv
<1>2. CASE topic = "properties"
  BY <1>2 DEF PlayerInit, PlayerInv
<1> QED
  BY <1>1, <1>2 DEF PlayerInit

\* GoToNext and GoToPrev play some track of the playlist.
LEMMA GoToStep ==
    ASSUME MarksOK, PlaybackOK, GoTo
    PROVE  MarksOK' /\ PlaybackOK'
BY PlayStep DEF GoTo

\* PlayNext and PlayPrevious.
LEMMA AdjacentStep ==
    ASSUME MarksOK, PlaybackOK, NEW delta \in {-1, 1}, PlayAdjacent(delta)
    PROVE  MarksOK' /\ PlaybackOK'
<1>1. CASE GoTo
  BY <1>1, GoToStep
<1>2. CASE /\ playback = "stopped"
           /\ \E t \in CurrentItemOf : MoveFocus(t, delta)
           /\ UNCHANGED <<size, playback, item, playing, active, cursor>>
  BY <1>2, MoveStep
<1> QED
  BY <1>1, <1>2 DEF PlayAdjacent

LEMMA ControlStep ==
    ASSUME MarksOK, PlaybackOK, ControlNext
    PROVE  MarksOK' /\ PlaybackOK'
<1>1. CASE PlayNext \/ PlayPrevious
  BY <1>1, AdjacentStep DEF PlayNext, PlayPrevious
<1>2. ASSUME NEW t \in Tracks, Play(t) PROVE MarksOK' /\ PlaybackOK'
  BY <1>2, PlayStep DEF Play
<1>3. CASE Pause
  <2>1. CASE \E t \in CurrentItemOf : Play2(t)
    BY <2>1, CurrentIsATrack, PlayStep
  <2>2. CASE /\ playback \in {"playing", "paused"}
             /\ playback' = IF playback = "playing" THEN "paused" ELSE "playing"
             /\ UNCHANGED <<size, item, playing, active, focus, cursor>>
    <3>1. MarksOK'
      BY <2>2 DEF MarksOK, Positions
    <3>2. Tracks' = Tracks
      BY <2>2 DEF Tracks
    <3> QED
      BY <2>2, <3>1, <3>2 DEF PlaybackOK
  <2> QED
    BY <1>3, <2>1, <2>2 DEF Pause
<1>4. CASE Stop
  <2>1. MarksOK'
    BY <1>4 DEF Stop, MarksOK, Positions
  <2> QED
    BY <1>4, <2>1 DEF Stop, PlaybackOK
<1>5. CASE UserActivates
  <2>1. MarksOK'
    BY <1>5 DEF UserActivates, MarksOK, Positions
  <2>2. Tracks' = Tracks
    BY <1>5 DEF UserActivates, Tracks
  <2> QED
    BY <1>5, <2>1, <2>2 DEF UserActivates, PlaybackOK
<1>6. CASE UserFocuses
  <2> PICK t \in Tracks : focus' = [focus EXCEPT ![t.list] = {t.index}]
    BY <1>6 DEF UserFocuses
  <2> PICK l \in Playlists : \E i \in Positions(l) : t = [list |-> l, index |-> i]
    BY TracksMember
  <2> PICK i \in Positions(l) : t = [list |-> l, index |-> i]
    OBVIOUS
  <2>1. focus' = [focus EXCEPT ![l] = {i}] /\ i \in Nat
    <3>1. t.list = l /\ t.index = i
      OBVIOUS
    <3> QED
      BY <3>1 DEF MarksOK, Positions
  <2>2. MarksOK'
    BY <1>6, <2>1 DEF UserFocuses, MarksOK, Positions, AtMostOneOf
  <2>3. Tracks' = Tracks
    BY <1>6 DEF UserFocuses, Tracks
  <2> QED
    BY <1>6, <2>2, <2>3 DEF UserFocuses, PlaybackOK
<1>7. CASE UserReplaces
  <2> PICK l \in Playlists, n \in Sizes :
          /\ \A t \in item : t.list # l
          /\ size' = [size EXCEPT ![l] = n]
          /\ focus' = [focus EXCEPT ![l] = {}]
          /\ cursor' = [cursor EXCEPT ![l] = {}]
    BY <1>7 DEF UserReplaces
  <2>0. n \in Nat
    BY SizesAssumption
  <2>1. MarksOK'
    <3>1. /\ size' \in [Playlists -> Nat]
          /\ focus' \in [Playlists -> SUBSET Nat]
          /\ cursor' \in [Playlists -> SUBSET Nat]
      BY <2>0 DEF MarksOK
    <3>2. ASSUME NEW m \in Playlists
          PROVE  /\ focus'[m] \subseteq Positions(m)' /\ AtMostOneOf(focus'[m])
                 /\ cursor'[m] \subseteq Positions(m)' /\ AtMostOneOf(cursor'[m])
      <4>1. CASE m = l
        BY <4>1 DEF MarksOK, AtMostOneOf
      <4>2. CASE m # l
        BY <4>2 DEF MarksOK, Positions
      <4> QED
        BY <4>1, <4>2
    <3> QED
      BY <3>1, <3>2 DEF MarksOK, AtMostOneOf
  <2>2. item \subseteq Tracks'
    <3> SUFFICES ASSUME NEW t \in item PROVE t \in Tracks'
      OBVIOUS
    <3> PICK m \in Playlists : \E i \in Positions(m) : t = [list |-> m, index |-> i]
      BY TracksMember DEF PlaybackOK
    <3>1. m # l
      OBVIOUS
    <3>2. size'[m] = size[m]
      BY <3>1 DEF MarksOK
    <3>3. t \in [list : {m}, index : 0 .. size'[m] - 1]
      BY <3>2 DEF Positions
    <3> QED
      BY <3>3 DEF Tracks
  <2> QED
    BY <1>7, <2>1, <2>2 DEF UserReplaces, PlaybackOK
<1> QED
  BY <1>1, <1>2, <1>3, <1>4, <1>5, <1>6, <1>7 DEF ControlNext

LEMMA PlayerInvStep == PlayerInv /\ [PlayerNext]_playerVars => PlayerInv'
<1> SUFFICES ASSUME PlayerInv, [PlayerNext]_playerVars PROVE PlayerInv'
  OBVIOUS
<1>1. CASE topic = "playback" /\ ControlNext /\ UNCHANGED topic
  BY <1>1, ControlStep DEF PlayerInv
<1>2. CASE UNCHANGED controlVars /\ UNCHANGED topic
  <2>1. MarksOK => MarksOK'
    BY <1>2 DEF controlVars, MarksOK, Positions
  <2>2. Tracks' = Tracks
    BY <1>2 DEF controlVars, Tracks
  <2>3. PlaybackOK => PlaybackOK'
    BY <1>2, <2>2 DEF controlVars, PlaybackOK
  <2> QED
    BY <1>2, <2>1, <2>3 DEF controlVars, PlayerInv
<1> QED
  BY <1>1, <1>2 DEF PlayerNext, playerVars

\* While the player is stopped, PlayNext and PlayPrevious move the track that
\* all clients are shown by one, around the ends, and nothing else they see.
THEOREM SelectionMoves == PlayerSpec => []SelectionMovesByOne
<1>1. PlayerInit => SelectionMovesByOne
  BY DEF PlayerInit, SelectionMovesByOne
<1>2. PlayerInv /\ SelectionMovesByOne /\ [PlayerNext]_playerVars => SelectionMovesByOne'
  <2> SUFFICES ASSUME PlayerInv, SelectionMovesByOne, [PlayerNext]_playerVars,
                      NEW press \in pressed', NEW track \in press.shown.current.track
               PROVE  BuildState' = [press.shown EXCEPT !.current.track =
                          {[track EXCEPT !.index = (@ + press.delta + size'[track.list]) % size'[track.list]]}]
    BY DEF SelectionMovesByOne
  <2>1. CASE topic = "playback" /\ ControlNext /\ UNCHANGED statusVars
    <3>1. PICK delta \in {-1, 1} : PlayAdjacent(delta) /\ pressed' = Press(delta)
      BY <2>1 DEF ControlNext, PlayNext, PlayPrevious
    <3>2. playback = "stopped" /\ press = [delta |-> delta, shown |-> BuildState]
      BY <3>1 DEF Press
    <3>3. /\ MarksOK /\ PlaybackOK
          /\ \E t \in CurrentItemOf : MoveFocus(t, delta)
          /\ UNCHANGED <<size, playback, item, playing, active, cursor>>
      BY <2>1, <3>1, <3>2 DEF PlayerInv, PlayAdjacent
    <3>4. PICK t \in CurrentItemOf : MoveFocus(t, delta)
      BY <3>3
    <3>5. track \in CurrentItemOf
      BY <3>2 DEF BuildState, AddCurrentTrack
    <3>6. track = t
      BY <3>2, <3>3, <3>5, OneIsShown
    <3>7. CurrentItemOf' = {[track EXCEPT !.index = (@ + delta + size'[track.list]) % size'[track.list]]}
      BY <3>2, <3>3, <3>4, <3>6, MoveStep
    <3>8. AddCurrentTrack' = [AddCurrentTrack EXCEPT !.track = CurrentItemOf']
      BY <3>2, <3>3 DEF AddCurrentTrack
    <3>9. BuildState' = [BuildState EXCEPT !.current = AddCurrentTrack']
      <4>1. value' = value /\ flag' = flag /\ playback' = playback
        BY <2>1, <3>3 DEF statusVars
      <4>2. PanelVolume' = PanelVolume
        BY <4>1 DEF PanelVolume
      <4>3. [id \in Modes' |-> flag'[id]] = [id \in Modes |-> flag[id]]
        BY <4>1 DEF Modes
      <4>4. BuildState' = [playback_state |-> playback, volume |-> PanelVolume,
                           modes |-> [id \in Modes |-> flag[id]], current |-> AddCurrentTrack']
        BY <4>1, <4>2, <4>3 DEF BuildState
      <4>5. BuildState = [playback_state |-> playback, volume |-> PanelVolume,
                          modes |-> [id \in Modes |-> flag[id]], current |-> AddCurrentTrack]
        BY DEF BuildState
      <4> QED
        BY <4>4, <4>5
    <3> QED
      BY <3>2, <3>7, <3>8, <3>9 DEF BuildState
  <2>2. CASE UNCHANGED <<controlVars, topic>> /\ (UNCHANGED statusVars \/ topic = "properties")
    <3>1. topic # "properties" /\ UNCHANGED statusVars
      BY <2>2 DEF PlayerInv, controlVars
    <3>2. BuildState' = BuildState
      BY <2>2, <3>1 DEF controlVars, statusVars, BuildState, AddCurrentTrack, CurrentItemOf, PanelVolume
    <3> QED
      BY <2>2, <3>2 DEF SelectionMovesByOne, controlVars
  <2> QED
    BY <2>1, <2>2 DEF PlayerNext, playerVars
<1> QED
  BY <1>1, <1>2, PlayerInvInit, PlayerInvStep, PTL DEF PlayerSpec
=============================================================================
