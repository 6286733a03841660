------------------------------- MODULE Float32 -------------------------------
(***************************************************************************)
(* The float arithmetic of src/remoteControlCommands/statusCommand.cpp and *)
(* src/helpers/equalizerBands.h: IEEE 754 single precision, rounded to     *)
(* nearest, ties to even.  A number is m * 2^e with |m| < 2^24 and m odd,  *)
(* or 0.  Exponents are not bounded: the code's numbers lie between 2^-30  *)
(* and 2^7.  No intermediate integer reaches 2^31.                         *)
(***************************************************************************)
EXTENDS Integers

\* The powers of two.
TwoTo[n \in Nat] == IF n = 0 THEN 1 ELSE 2 * TwoTo[n - 1]

Magnitude(i) == IF i < 0 THEN -i ELSE i
Signed(i, n) == IF i < 0 THEN -n ELSE n

\* The one way to write i * 2^e.
Canonical(i, e) ==
    IF i = 0 THEN [m |-> 0, e |-> 0]
    ELSE LET k == CHOOSE k \in 0 .. 30 : i % TwoTo[k] = 0 /\ (i \div TwoTo[k]) % 2 = 1
         IN  [m |-> i \div TwoTo[k], e |-> e + k]

FromInt(i) == Canonical(i, 0)

\* i * 2^e, rounded to 24 bits.
Round(i, e) ==
    LET a == Magnitude(i)
        k == CHOOSE k \in 0 .. 7 : a \div TwoTo[k] < 2^24 /\ (k = 0 \/ a \div TwoTo[k - 1] >= 2^24)
        q == a \div TwoTo[k]
        r == 2 * (a % TwoTo[k])
        up == k > 0 /\ (r > TwoTo[k] \/ (r = TwoTo[k] /\ q % 2 = 1))
    IN  Canonical(Signed(i, IF up THEN q + 1 ELSE q), e + k)

\* The integers i and j with x = i * 2^e and y = j * 2^e.
Aligned(x, y) ==
    LET e == IF x.e < y.e THEN x.e ELSE y.e
    IN  [i |-> x.m * TwoTo[x.e - e], j |-> y.m * TwoTo[y.e - e], e |-> e]

Add(x, y) == LET a == Aligned(x, y) IN Round(a.i + a.j, a.e)
Sub(x, y) == LET a == Aligned(x, y) IN Round(a.i - a.j, a.e)
Less(x, y) == LET a == Aligned(x, y) IN a.i < a.j
Mul(x, y) == Round(x.m * y.m, x.e + y.e)

\* The quotient has two bits more than a float, and a last one for the rest.
Div(x, y) ==
    IF x.m = 0 THEN x
    ELSE LET n == Magnitude(x.m)
             d == Magnitude(y.m)
             k == CHOOSE k \in 0 .. 30 :
                     /\ (n * TwoTo[k]) \div d >= 2^25
                     /\ k = 0 \/ (n * TwoTo[k - 1]) \div d < 2^25
             rest == IF (n * TwoTo[k]) % d = 0 THEN 0 ELSE 1
         IN  Round(Signed(x.m * y.m, 2 * ((n * TwoTo[k]) \div d) + rest), x.e - y.e - k - 1)

\* std::floor, and std::lround of a number that is not negative.
Floor(x) == IF x.e >= 0 THEN x.m * TwoTo[x.e] ELSE x.m \div TwoTo[-x.e]
LRound(x) == IF x.e >= 0 THEN x.m * TwoTo[x.e] ELSE (x.m + TwoTo[-x.e - 1]) \div TwoTo[-x.e]
==============================================================================
