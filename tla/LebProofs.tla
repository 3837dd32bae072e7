------------------------------ MODULE LebProofs ------------------------------
(***************************************************************************)
(* The integer decoder for every number of payload bits and every width    *)
(* above it, hence also for 7 bits and the types of 8, 16, 32, 33 and 64   *)
(* bits, and for slices of any length.                                     *)
(***************************************************************************)
EXTENDS Leb128, WellFoundedInduction, TLAPS

-----------------------------------------------------------------------------
\* Arithmetic.

\* A set of numbers that is not empty has a least element.
LEMMA LeastOf ==
    ASSUME NEW S, S \subseteq Nat, S # {}
    PROVE  \E x \in S : \A y \in S : x <= y
<1>1. PICK x \in S : \A y \in S : ~(<<y, x>> \in OpToRel(<, Nat))
    BY NatLessThanWellFounded, WFMin
<1>2. ASSUME NEW y \in S PROVE x <= y
    <2>1. x \in Nat /\ y \in Nat OBVIOUS
    <2>2. ~(y < x) BY <1>1, <2>1 DEF OpToRel
    <2>3. QED BY <2>1, <2>2
<1>3. QED BY <1>2

\* A set of numbers that holds 0 and, with every number below n, its successor,
\* holds all numbers up to n.
LEMMA UpTo ==
    ASSUME NEW n \in Nat, NEW T, 0 \in T,
           \A i \in 1 .. n : i - 1 \in T => i \in T
    PROVE  \A i \in 0 .. n : i \in T
<1>. DEFINE S == {i \in 0 .. n : i \notin T}
<1>1. ASSUME S # {} PROVE FALSE
    <2>1. S \subseteq Nat OBVIOUS
    <2>2. PICK x \in S : \A y \in S : x <= y BY <1>1, <2>1, LeastOf
    <2>3. x \in 1 .. n /\ x - 1 \in 0 .. n /\ ~(x <= x - 1) OBVIOUS
    <2>4. x - 1 \notin S BY <2>2, <2>3
    <2>5. QED BY <2>3, <2>4
<1>2. QED BY <1>1

\* Quotient and remainder, and what makes a number the one or the other.
LEMMA DivMod ==
    ASSUME NEW x \in Int, NEW m \in Nat \ {0}
    PROVE  /\ x \div m \in Int /\ x % m \in 0 .. m - 1
           /\ x = m * (x \div m) + (x % m)
<1>1. x \div m \in Int OBVIOUS
<1>2. x % m \in 0 .. m - 1 OBVIOUS
<1>3. x % m = x - m * (x \div m) OBVIOUS
<1>4. m * (x \div m) \in Int BY <1>1
<1>5. QED BY <1>1, <1>2, <1>3, <1>4

LEMMA DivModIs ==
    ASSUME NEW x \in Int, NEW m \in Nat \ {0}, NEW q \in Int, NEW r \in 0 .. m - 1, x = q * m + r
    PROVE  x % m = r /\ x \div m = q
  OBVIOUS

\* The products that the arguments below need.
LEMMA Distribute ==
    ASSUME NEW a \in Int, NEW b \in Int, NEW c \in Int
    PROVE  /\ a * b \in Int /\ a * b = b * a
           /\ (a + b) * c = a * c + b * c /\ (a - b) * c = a * c - b * c
           /\ a * (b * c) = (a * b) * c
  OBVIOUS

LEMMA TimesLe ==
    ASSUME NEW a \in Int, NEW b \in Int, NEW c \in Nat, a <= b
    PROVE  a * c \in Int /\ b * c \in Int /\ a * c <= b * c
  OBVIOUS

-----------------------------------------------------------------------------
\* Powers of two.
Doubles(g, n) == g \in [0 .. n -> Nat] /\ g[0] = 1 /\ \A i \in 1 .. n : g[i] = 2 * g[i - 1]

LEMMA DoublesExist == ASSUME NEW n \in Nat PROVE \E g : Doubles(g, n)
<1>. DEFINE T == {i \in Nat : \E g : Doubles(g, i)}
<1>1. 0 \in T
    <2>1. Doubles([i \in 0 .. 0 |-> 1], 0) BY DEF Doubles
    <2>2. QED BY <2>1
<1>2. ASSUME NEW i \in 1 .. n, i - 1 \in T PROVE i \in T
    <2>1. PICK g : Doubles(g, i - 1) BY <1>2
    <2>. DEFINE h == [k \in 0 .. i |-> IF k = i THEN 2 * g[i - 1] ELSE g[k]]
    <2>2. i - 1 \in 0 .. i - 1 /\ g \in [0 .. i - 1 -> Nat] /\ g[0] = 1 BY <2>1 DEF Doubles
    <2>3. g[i - 1] \in Nat BY <2>2
    <2>4. h \in [0 .. i -> Nat] /\ h[0] = 1 BY <2>2, <2>3
    <2>5. ASSUME NEW k \in 1 .. i PROVE h[k] = 2 * h[k - 1]
        <3>1. CASE k = i BY <3>1
        <3>2. CASE k # i
            <4>1. k \in 1 .. i - 1 BY <3>2
            <4>2. g[k] = 2 * g[k - 1] BY <2>1, <4>1 DEF Doubles
            <4>3. QED BY <4>1, <4>2
        <3>3. QED BY <3>1, <3>2
    <2>. HIDE DEF h
    <2>6. Doubles(h, i) BY <2>4, <2>5 DEF Doubles
    <2>7. QED BY <2>6
<1>. HIDE DEF T
<1>3. \A i \in 0 .. n : i \in T BY <1>1, <1>2, UpTo
<1>4. n \in T BY <1>3
<1>5. QED BY <1>4 DEF T

LEMMA DoublesAgree ==
    ASSUME NEW n \in Nat, NEW k \in Nat, n <= k, NEW g, NEW h, Doubles(g, n), Doubles(h, k)
    PROVE  g[n] = h[n]
<1>. DEFINE T == {i \in 0 .. n : g[i] = h[i]}
<1>1. 0 \in T BY DEF Doubles
<1>2. ASSUME NEW i \in 1 .. n, i - 1 \in T PROVE i \in T
    <2>1. i \in 1 .. k OBVIOUS
    <2>2. g[i] = 2 * g[i - 1] /\ h[i] = 2 * h[i - 1] BY <2>1 DEF Doubles
    <2>3. QED BY <1>2, <2>2
<1>. HIDE DEF T
<1>3. \A i \in 0 .. n : i \in T BY <1>1, <1>2, UpTo
<1>4. n \in T BY <1>3
<1>5. QED BY <1>4 DEF T

LEMMA PowUnfold == Pow = [n \in Nat |-> IF n = 0 THEN 1 ELSE 2 * Pow[n - 1]]
<1>. DEFINE D(n) == CHOOSE g : Doubles(g, n)
            p == [n \in Nat |-> D(n)[n]]
            E(f, n) == IF n = 0 THEN 1 ELSE 2 * f[n - 1]
            F == CHOOSE f : f = [n \in Nat |-> E(f, n)]
<1>1. \A n \in Nat : Doubles(D(n), n)
    <2>1. TAKE n \in Nat
    <2>2. PICK g : Doubles(g, n) BY DoublesExist
    <2>3. QED BY <2>2
<1>. HIDE DEF D
<1>2. ASSUME NEW n \in Nat PROVE p[n] = E(p, n)
    <2>1. CASE n = 0
        <3>1. Doubles(D(0), 0) BY <1>1
        <3>2. QED BY <2>1, <3>1 DEF Doubles
    <2>2. CASE n # 0
        <3>1. n - 1 \in Nat /\ n - 1 <= n /\ n \in 1 .. n BY <2>2
        <3>2. Doubles(D(n), n) /\ Doubles(D(n - 1), n - 1) BY <1>1, <3>1
        <3>3. D(n - 1)[n - 1] = D(n)[n - 1] BY <3>1, <3>2, DoublesAgree
        <3>4. D(n)[n] = 2 * D(n)[n - 1] BY <3>1, <3>2 DEF Doubles
        <3>5. QED BY <2>2, <3>1, <3>3, <3>4
    <2>3. QED BY <2>1, <2>2
<1>3. p = [n \in Nat |-> p[n]] OBVIOUS
<1>. HIDE DEF p
<1>4. p = [n \in Nat |-> E(p, n)] BY <1>2, <1>3
<1>5. F = [n \in Nat |-> E(F, n)]
    <2>. HIDE DEF E
    <2>. QED BY <1>4, Zenon
<1>6. Pow = F BY DEF Pow
<1>7. QED BY <1>5, <1>6

LEMMA PowIs ==
    /\ Pow[0] = 1
    /\ \A n \in Nat : Pow[n] \in Nat \ {0} /\ Pow[n + 1] = 2 * Pow[n]
<1>1. Pow[0] = 1 BY PowUnfold, Zenon
<1>2. ASSUME NEW n \in Nat PROVE Pow[n + 1] = 2 * Pow[n]
    <2>1. n + 1 \in Nat /\ n + 1 # 0 /\ (n + 1) - 1 = n OBVIOUS
    <2>2. Pow[n + 1] = 2 * Pow[(n + 1) - 1] BY <2>1, PowUnfold, Zenon
    <2>3. QED BY <2>1, <2>2
<1>3. ASSUME NEW n \in Nat PROVE Pow[n] \in Nat \ {0}
    <2>. DEFINE T == {i \in 0 .. n : Pow[i] \in Nat \ {0}}
    <2>1. 0 \in T BY <1>1
    <2>2. ASSUME NEW i \in 1 .. n, i - 1 \in T PROVE i \in T
        <3>1. i - 1 \in Nat /\ (i - 1) + 1 = i OBVIOUS
        <3>2. Pow[i] = 2 * Pow[i - 1] BY <1>2, <3>1
        <3>3. QED BY <2>2, <3>2
    <2>. HIDE DEF T
    <2>3. \A i \in 0 .. n : i \in T BY <2>1, <2>2, UpTo
    <2>4. n \in T BY <2>3
    <2>5. QED BY <2>4 DEF T
<1>4. QED BY <1>1, <1>2, <1>3

LEMMA PowSum == ASSUME NEW a \in Nat, NEW b \in Nat PROVE Pow[a + b] = Pow[a] * Pow[b]
<1>. DEFINE T == {i \in 0 .. b : Pow[a + i] = Pow[a] * Pow[i]}
<1>1. 0 \in T BY PowIs
<1>2. ASSUME NEW i \in 1 .. b, i - 1 \in T PROVE i \in T
    <2>1. i - 1 \in Nat /\ (i - 1) + 1 = i /\ a + (i - 1) \in Nat /\ (a + (i - 1)) + 1 = a + i OBVIOUS
    <2>2. Pow[a + i] = 2 * Pow[a + (i - 1)] /\ Pow[i] = 2 * Pow[i - 1] BY <2>1, PowIs
    <2>3. Pow[a] \in Nat /\ Pow[i - 1] \in Nat BY <2>1, PowIs
    <2>4. Pow[a + (i - 1)] = Pow[a] * Pow[i - 1] BY <1>2
    <2>5. Pow[a] * (2 * Pow[i - 1]) = 2 * (Pow[a] * Pow[i - 1]) BY <2>3
    <2>6. QED BY <2>2, <2>4, <2>5
<1>. HIDE DEF T
<1>3. \A i \in 0 .. b : i \in T BY <1>1, <1>2, UpTo
<1>4. b \in T BY <1>3
<1>5. QED BY <1>4 DEF T

LEMMA PowGrows == ASSUME NEW a \in Nat, NEW b \in Nat, a <= b
                  PROVE  /\ b - a \in Nat /\ Pow[b] = Pow[b - a] * Pow[a] /\ Pow[a] <= Pow[b]
<1>1. b - a \in Nat /\ a + (b - a) = b OBVIOUS
<1>2. Pow[b] = Pow[a] * Pow[b - a] BY <1>1, PowSum
<1>3. Pow[a] \in Nat \ {0} /\ Pow[b - a] \in Nat \ {0} BY <1>1, PowIs
<1>4. Pow[a] * Pow[b - a] = Pow[b - a] * Pow[a] /\ 1 * Pow[a] <= Pow[b - a] * Pow[a]
    BY <1>3, TimesLe, Distribute
<1>5. QED BY <1>1, <1>2, <1>3, <1>4

-----------------------------------------------------------------------------
\* Bits.

\* The remainder by the next power of two adds one bit.
LEMMA NextBit ==
    ASSUME NEW x \in Nat, NEW i \in Nat
    PROVE  /\ Bit(x, i) \in {0, 1}
           /\ x % Pow[i + 1] = (x % Pow[i]) + Bit(x, i) * Pow[i]
<1>. DEFINE P == Pow[i]
            q == x \div P
            r == x % P
            h == q \div 2
            b == q % 2
<1>1. P \in Nat \ {0} /\ Pow[i + 1] = 2 * P BY PowIs
<1>. HIDE DEF P
<1>2. q \in Int /\ r \in 0 .. P - 1 /\ x = P * q + r
    <2>1. x \in Int OBVIOUS
    <2>2. QED BY <1>1, <2>1, DivMod, Zenon
<1>. HIDE DEF q, r
<1>3. h \in Int /\ b \in 0 .. 1 /\ q = 2 * h + b BY <1>2, DivMod
<1>. HIDE DEF h, b
<1>4. P * q = h * (2 * P) + b * P BY <1>1, <1>2, <1>3
<1>5. b * P + r \in 0 .. 2 * P - 1
    <2>1. CASE b = 0 BY <1>1, <1>2, <2>1
    <2>2. CASE b = 1 BY <1>1, <1>2, <2>2
    <2>3. QED BY <1>3, <2>1, <2>2
<1>6. b * P \in Int /\ h * (2 * P) \in Int /\ 2 * P \in Nat \ {0} BY <1>1, <1>3
<1>7. x = h * (2 * P) + (b * P + r) BY <1>2, <1>4, <1>6
<1>8. x % (2 * P) = b * P + r BY <1>3, <1>5, <1>6, <1>7, DivModIs
<1>9. b = Bit(x, i) BY DEF b, q, P, Bit
<1>10. x % Pow[i + 1] = b * P + r BY <1>1, <1>8
<1>11. QED BY <1>2, <1>3, <1>6, <1>9, <1>10 DEF P, r

\* The bits of a small number, and those below a factor.
LEMMA HighBit == ASSUME NEW x \in Nat, NEW i \in Nat, x < Pow[i] PROVE Bit(x, i) = 0 /\ x % Pow[i] = x
<1>1. Pow[i] \in Nat \ {0} BY PowIs
<1>2. x = 0 * Pow[i] + x /\ x \in 0 .. Pow[i] - 1 BY <1>1
<1>3. x \div Pow[i] = 0 /\ x % Pow[i] = x BY <1>1, <1>2, DivModIs
<1>4. QED BY <1>3 DEF Bit

LEMMA LowBit ==
    ASSUME NEW z \in Nat, NEW k \in Nat, NEW i \in Nat, i < k
    PROVE  Bit(z * Pow[k], i) = 0
<1>. DEFINE Q == Pow[k - (i + 1)]
            P == Pow[i]
<1>1. k - (i + 1) \in Nat /\ i + 1 \in Nat /\ i + 1 <= k OBVIOUS
<1>2. Q \in Nat /\ P \in Nat \ {0} /\ Pow[k] = Q * (2 * P)
    <2>1. Pow[k] = Pow[k - (i + 1)] * Pow[i + 1] BY <1>1, PowGrows
    <2>2. Pow[i + 1] = 2 * Pow[i] BY PowIs
    <2>3. QED BY <1>1, <2>1, <2>2, PowIs
<1>3. z * Pow[k] = (2 * (z * Q)) * P + 0
    <2>. HIDE DEF P, Q
    <2>1. z * (Q * (2 * P)) = (2 * (z * Q)) * P BY <1>2
    <2>2. QED BY <1>2, <2>1
<1>4. z * Q \in Nat /\ 2 * (z * Q) \in Int /\ z * Pow[k] \in Int
    <2>. HIDE DEF P, Q
    <2>1. z * Q \in Nat BY <1>2
    <2>2. QED BY <1>2, <1>3, <2>1
<1>5. (z * Pow[k]) \div P = 2 * (z * Q)
    <2>. HIDE DEF P, Q
    <2>1. 0 \in 0 .. P - 1 BY <1>2
    <2>2. QED BY <1>2, <1>3, <1>4, <2>1, DivModIs
<1>6. (2 * (z * Q)) % 2 = 0
    <2>. HIDE DEF Q
    <2>1. 2 * (z * Q) = (z * Q) * 2 + 0 BY <1>4
    <2>2. 0 \in 0 .. 2 - 1 /\ 2 \in Nat \ {0} OBVIOUS
    <2>3. QED BY <1>4, <2>1, <2>2, DivModIs
<1>7. QED BY <1>5, <1>6 DEF Bit

\* What the loop over the bits computes.
Ors(g, x, y) ==
    /\ g[0] = 0
    /\ \A i \in 1 .. width :
           g[i] = g[i - 1] + (IF Bit(x, i - 1) = 1 \/ Bit(y, i - 1) = 1 THEN Pow[i - 1] ELSE 0)

LEMMA OrIs ==
    ASSUME width \in Nat, NEW x \in Nat, NEW y \in Nat, NEW g \in [0 .. width -> Nat], Ors(g, x, y)
    PROVE  Or(x, y) = g[width]
<1>. DEFINE B(i) == IF Bit(x, i - 1) = 1 \/ Bit(y, i - 1) = 1 THEN Pow[i - 1] ELSE 0
            E(f, i) == IF i = 0 THEN 0 ELSE f[i - 1] + B(i)
            F == CHOOSE f : f = [i \in 0 .. width |-> E(f, i)]
<1>1. \A i \in 0 .. width : g[i] = E(g, i) BY DEF Ors
<1>2. g = [i \in 0 .. width |-> g[i]] OBVIOUS
<1>3. g = [i \in 0 .. width |-> E(g, i)] BY <1>1, <1>2
<1>4. F = [i \in 0 .. width |-> E(F, i)]
    <2>. HIDE DEF E
    <2>. QED BY <1>3, Zenon
<1>5. Or(x, y) = F[width] BY DEF Or
<1>. HIDE DEF B, F
<1>6. \A i \in 0 .. width : F[i] = E(F, i) BY <1>4
<1>. DEFINE T == {i \in 0 .. width : F[i] = g[i]}
<1>7. 0 \in T BY <1>6, <1>1
<1>8. ASSUME NEW i \in 1 .. width, i - 1 \in T PROVE i \in T
    <2>1. i \in 0 .. width OBVIOUS
    <2>2. F[i] = F[i - 1] + B(i) /\ g[i] = g[i - 1] + B(i) BY <1>1, <1>6, <2>1
    <2>3. QED BY <1>8, <2>1, <2>2
<1>. HIDE DEF T
<1>9. \A i \in 0 .. width : i \in T BY <1>7, <1>8, UpTo
<1>10. width \in T BY <1>9
<1>11. QED BY <1>5, <1>10 DEF T

\* Or adds numbers that have no bit in common: x is below the unit of y.
LEMMA OrAdds ==
    ASSUME width \in Nat, NEW k \in Nat, NEW x \in Nat, x < Pow[k], NEW z \in Nat,
           x < Pow[width], z * Pow[k] < Pow[width]
    PROVE  Or(x, z * Pow[k]) = x + z * Pow[k]
<1>. DEFINE y == z * Pow[k]
            g == [i \in 0 .. width |-> (x % Pow[i]) + (y % Pow[i])]
<1>0. Pow[k] \in Nat \ {0} /\ y \in Nat BY PowIs
<1>1. ASSUME NEW i \in 0 .. width PROVE x % Pow[i] \in Nat /\ y % Pow[i] \in Nat
    <2>1. Pow[i] \in Nat \ {0} /\ x \in Int /\ y \in Int BY <1>0, PowIs
    <2>. HIDE DEF y
    <2>2. x % Pow[i] \in 0 .. Pow[i] - 1 /\ y % Pow[i] \in 0 .. Pow[i] - 1 BY <2>1, DivMod, Zenon
    <2>3. QED BY <2>1, <2>2
<1>2. g \in [0 .. width -> Nat]
    <2>. HIDE DEF y
    <2>. QED BY <1>1
<1>3. g[0] = 0
    <2>1. Pow[0] = 1 /\ 0 \in 0 .. width BY PowIs
    <2>2. x % 1 = 0 /\ y % 1 = 0
        <3>. HIDE DEF y
        <3>. QED BY <1>0
    <2>3. QED BY <2>1, <2>2
<1>4. ASSUME NEW i \in 1 .. width
      PROVE  g[i] = g[i - 1] + (IF Bit(x, i - 1) = 1 \/ Bit(y, i - 1) = 1 THEN Pow[i - 1] ELSE 0)
    <2>1. i - 1 \in Nat /\ i - 1 \in 0 .. width /\ i \in 0 .. width /\ (i - 1) + 1 = i OBVIOUS
    <2>2. /\ Bit(x, i - 1) \in {0, 1} /\ Bit(y, i - 1) \in {0, 1}
          /\ x % Pow[i] = (x % Pow[i - 1]) + Bit(x, i - 1) * Pow[i - 1]
          /\ y % Pow[i] = (y % Pow[i - 1]) + Bit(y, i - 1) * Pow[i - 1]
        <3>. HIDE DEF y
        <3>1. QED BY <1>0, <2>1, NextBit
    <2>3. Bit(x, i - 1) = 0 \/ Bit(y, i - 1) = 0
        <3>1. CASE i - 1 < k BY <2>1, <3>1, LowBit
        <3>2. CASE k <= i - 1
            <4>1. Pow[k] <= Pow[i - 1] /\ Pow[i - 1] \in Nat BY <2>1, <3>2, PowGrows, PowIs
            <4>2. x < Pow[i - 1] BY <1>0, <4>1
            <4>3. QED BY <2>1, <4>2, HighBit
        <3>3. QED BY <2>1, <3>1, <3>2
    <2>4. Pow[i - 1] \in Nat BY <2>1, PowIs
    <2>5. g[i] = (x % Pow[i]) + (y % Pow[i]) /\ g[i - 1] = (x % Pow[i - 1]) + (y % Pow[i - 1])
        BY <2>1
    <2>6. x % Pow[i - 1] \in Nat /\ y % Pow[i - 1] \in Nat BY <1>1, <2>1
    <2>. HIDE DEF g, y
    <2>7. QED BY <2>2, <2>3, <2>4, <2>5, <2>6
<1>5. Or(x, y) = g[width]
    <2>1. Ors(g, x, y)
        <3>. HIDE DEF g, y
        <3>. QED BY <1>3, <1>4 DEF Ors
    <2>. HIDE DEF g, y
    <2>2. QED BY <1>0, <1>2, <2>1, OrIs
<1>6. x % Pow[width] = x /\ y % Pow[width] = y
    <2>. HIDE DEF y
    <2>1. y < Pow[width] BY DEF y
    <2>2. QED BY <1>0, <2>1, HighBit
<1>7. QED BY <1>5, <1>6

-----------------------------------------------------------------------------
\* The last group of a signed integer, of which only some bits fit: M is the
\* value of the earlier groups, below the unit P, R2 * P the weight of the
\* sign bit of the type and S = R2 * E that of the group.

\* The quotient t and the remainder u of the group x decide everything: the
\* number fits if no bit from R2 on is set, or all are.
LEMMA GroupFits ==
    ASSUME NEW P \in Nat \ {0}, NEW R2 \in Nat \ {0}, NEW E \in Nat \ {0}, NEW M \in 0 .. P - 1,
           NEW x \in Nat, NEW t \in Nat, NEW u \in Nat, u < 2 * R2, x = (2 * R2) * t + u, t < E,
           NEW S \in Nat, S = R2 * E, NEW F \in Nat, F = 2 * S, NEW mean \in Int,
           mean = IF x >= S THEN (M + x * P) - F * P ELSE M + x * P
    PROVE  /\ (mean >= -(R2 * P) /\ mean < R2 * P) <=> (t = 0 /\ u < R2) \/ (t = E - 1 /\ u >= R2)
           /\ t = 0 /\ u < R2 => mean = M + u * P /\ M + u * P < R2 * P
           /\ t = E - 1 /\ u >= R2 => mean = (M + u * P) - (2 * R2) * P /\ M + u * P >= R2 * P
<1>1. S \in Nat /\ R2 <= S
    <2>1. 1 * R2 <= E * R2 /\ E * R2 = R2 * E BY TimesLe, Distribute
    <2>2. QED BY <2>1
<1>2. (2 * R2) * t \in Nat /\ (2 * R2) * E = 2 * S /\ (2 * R2) * (E - 1) = 2 * S - 2 * R2 OBVIOUS
<1>3. t = E - 1 => x = 2 * S - 2 * R2 + u BY <1>1, <1>2
<1>4. t # E - 1 => x + 2 * R2 < 2 * S
    <2>1. HAVE t # E - 1
    <2>2. t <= E - 2 /\ E - 2 \in Int BY <2>1
    <2>3. t * (2 * R2) <= (E - 2) * (2 * R2) BY <2>2, TimesLe
    <2>4. t * (2 * R2) = (2 * R2) * t /\ (E - 2) * (2 * R2) = 2 * S - 4 * R2 OBVIOUS
    <2>5. QED BY <1>1, <1>2, <2>3, <2>4
<1>5. t # 0 => x >= 2 * R2
    <2>1. HAVE t # 0
    <2>2. 1 * (2 * R2) <= t * (2 * R2) /\ t * (2 * R2) = (2 * R2) * t BY <2>1, TimesLe, Distribute
    <2>3. QED BY <1>2, <2>2
<1>6. t = 0 => x = u OBVIOUS
<1>7. CASE x < S
    <2>1. mean = M + x * P BY <1>1, <1>7
    <2>2. ASSUME x >= R2 PROVE mean >= R2 * P
        <3>1. x * P >= R2 * P /\ x * P \in Int /\ R2 * P \in Int BY <2>2, TimesLe
        <3>2. QED BY <2>1, <3>1
    <2>3. ASSUME x < R2 PROVE mean < R2 * P /\ mean >= -(R2 * P)
        <3>1. (x + 1) * P <= R2 * P /\ R2 * P \in Nat BY <2>3, TimesLe
        <3>2. (x + 1) * P = x * P + P /\ x * P \in Nat BY Distribute
        <3>3. QED BY <2>1, <3>1, <3>2
    <2>4. ~(t = E - 1 /\ u >= R2) BY <1>1, <1>3, <1>7
    <2>5. (t = 0 /\ u < R2) <=> x < R2 BY <1>5, <1>6
    <2>6. R2 * P \in Int OBVIOUS
    <2>7. t = 0 /\ u < R2 => mean = M + u * P /\ M + u * P < R2 * P BY <1>6, <2>1, <2>3, <2>5
    <2>8. QED BY <2>2, <2>3, <2>4, <2>5, <2>6, <2>7
<1>8. CASE x >= S
    <2>1. mean = M + x * P - (2 * S) * P BY <1>1, <1>8
    <2>2. x * P - (2 * S) * P = (x - 2 * S) * P /\ (x - 2 * S) * P \in Int BY <1>1
    <2>. DEFINE v == x - 2 * S
    <2>3. mean = M + v * P /\ v \in Int BY <1>1, <2>1, <2>2
    <2>4. v < 0
        <3>1. x < 2 * S BY <1>1, <1>3, <1>4
        <3>2. QED BY <1>1, <3>1
    <2>. HIDE DEF v
    <2>5. mean < 0
        <3>1. v <= -1 BY <2>3, <2>4
        <3>2. v * P <= (-1) * P /\ (-1) * P = -P BY <2>3, <3>1, TimesLe
        <3>3. QED BY <2>3, <3>2
    <2>6. ASSUME v >= -R2 PROVE mean >= -(R2 * P)
        <3>1. (-R2) * P <= v * P /\ (-R2) * P = -(R2 * P) /\ v * P \in Int /\ R2 * P \in Int
            BY <2>3, <2>6, TimesLe
        <3>2. QED BY <2>3, <3>1
    <2>7. ASSUME v < -R2 PROVE mean < -(R2 * P)
        <3>1. v + 1 <= -R2 BY <2>3, <2>7
        <3>2. (v + 1) * P <= (-R2) * P /\ (-R2) * P = -(R2 * P) BY <2>3, <3>1, TimesLe
        <3>3. (v + 1) * P = v * P + P /\ v * P \in Int /\ R2 * P \in Int BY <2>3, Distribute
        <3>4. QED BY <2>3, <3>2, <3>3
    <2>8. (t = E - 1 /\ u >= R2) <=> v >= -R2 BY <1>1, <1>3, <1>4, <1>8 DEF v
    <2>9. ~(t = 0 /\ u < R2) BY <1>1, <1>6, <1>8
    <2>10. R2 * P \in Nat OBVIOUS
    <2>11. t = E - 1 /\ u >= R2 => mean = (M + u * P) - (2 * R2) * P /\ M + u * P >= R2 * P
        <3>1. HAVE t = E - 1 /\ u >= R2
        <3>2. v = u - 2 * R2 BY <1>1, <1>3, <3>1 DEF v
        <3>3. v * P = u * P - (2 * R2) * P /\ u * P \in Int /\ (2 * R2) * P \in Int BY <3>2
        <3>4. u * P >= R2 * P BY <3>1, TimesLe
        <3>5. QED BY <2>3, <2>10, <3>3, <3>4
    <2>12. QED BY <2>3, <2>5, <2>6, <2>7, <2>8, <2>9, <2>10, <2>11
<1>9. QED BY <1>1, <1>7, <1>8

\* What the decoder computes from the same numbers: the overflow of the shift,
\* the shifted group, and the bits that are compared with the sign.
LEMMA GroupShifts ==
    ASSUME NEW P \in Nat \ {0}, NEW R \in Nat \ {0}, NEW E \in Nat \ {0}, NEW x \in Nat,
           NEW t \in Nat, NEW u \in Nat, u < R, x = R * t + u, NEW W, W = R * P, NEW F, F = R * E,
           NEW y, y = x * P, NEW z, z = u * P
    PROVE  /\ y >= W <=> t # 0
           /\ y = t * W + z /\ z < W
           /\ (x - F) \div R = t - E
<1>1. R * t \in Nat /\ R * P \in Nat \ {0} /\ u * P \in Nat /\ x * P \in Nat /\ R * E \in Nat OBVIOUS
<1>2. u * P < R * P
    <2>1. (u + 1) * P <= R * P BY TimesLe
    <2>2. (u + 1) * P = u * P + P BY Distribute
    <2>3. QED BY <1>1, <2>1, <2>2
<1>3. x * P = t * (R * P) + u * P
    <2>1. (R * t + u) * P = (R * t) * P + u * P BY <1>1, Distribute
    <2>2. (R * t) * P = t * (R * P) OBVIOUS
    <2>3. QED BY <2>1, <2>2
<1>4. x * P >= R * P <=> t # 0
    <2>1. CASE t = 0
        <3>1. x * P = u * P BY <1>3, <1>1, <2>1
        <3>2. QED BY <1>1, <1>2, <2>1, <3>1
    <2>2. CASE t # 0
        <3>1. 1 * (R * P) <= t * (R * P) /\ t * (R * P) \in Int BY <1>1, <2>2, TimesLe
        <3>2. QED BY <1>1, <1>3, <2>2, <3>1
    <2>3. QED BY <2>1, <2>2
<1>5. (x - R * E) \div R = t - E
    <2>1. (t - E) * R = R * t - R * E OBVIOUS
    <2>2. x - R * E = (t - E) * R + u BY <1>1, <2>1
    <2>3. x - R * E \in Int /\ t - E \in Int /\ u \in 0 .. R - 1 BY <1>1
    <2>4. QED BY <2>2, <2>3, DivModIs, Zenon
<1>6. QED BY <1>2, <1>3, <1>4, <1>5, Zenon

-----------------------------------------------------------------------------
\* The input and the numbers that belong to it.
InputOK ==
    /\ width \in Widths /\ signed \in BOOLEAN
    /\ bytes \in Seq(Byte)

LEMMA Sizes ==
    ASSUME InputOK
    PROVE  /\ G \in Nat \ {0} /\ width \in Nat /\ G < width
           /\ max_group \in Nat \ {0} /\ (max_group - 1) * G < width /\ width <= max_group * G
<1>1. G \in Nat \ {0} /\ width \in Nat /\ G < width BY LebAssumption DEF InputOK
<1>. DEFINE q == (width + G - 1) \div G
            r == (width + G - 1) % G
<1>2. width + G - 1 \in Int BY <1>1
<1>3. q \in Int /\ r \in 0 .. G - 1 /\ width + G - 1 = G * q + r BY <1>1, <1>2, DivMod, Zenon
<1>4. max_group = q BY DEF max_group
<1>. HIDE DEF q, r
<1>5. G * q = q * G /\ (q - 1) * G = q * G - G /\ q * G \in Int BY <1>1, <1>3
<1>6. q * G >= width /\ (q - 1) * G < width BY <1>1, <1>3, <1>5
<1>7. q > 0
    <2>1. ASSUME q <= 0 PROVE FALSE
        <3>1. q * G <= 0 * G BY <1>1, <1>3, <2>1, TimesLe
        <3>2. QED BY <1>1, <1>5, <1>6, <3>1
    <2>2. QED BY <1>3, <2>1
<1>8. QED BY <1>1, <1>3, <1>4, <1>6, <1>7

LEMMA ByteParts ==
    ASSUME InputOK, NEW i \in 1 .. Len(bytes)
    PROVE  /\ bytes[i] \in Nat /\ Payload(i) \in Nat /\ Payload(i) < More /\ More \in Nat \ {0}
           /\ SignBit \in Nat \ {0} /\ More = 2 * SignBit
           /\ Low(bytes[i]) = Payload(i)
           /\ Continues(bytes[i]) <=> ~Final(i)
           /\ Final(i) => bytes[i] = Payload(i) /\ (Negative(bytes[i]) <=> Payload(i) >= SignBit)
<1>. DEFINE b == bytes[i]
            S == SignBit
<1>1. G \in Nat \ {0} BY Sizes
<1>2. G - 1 \in Nat /\ (G - 1) + 1 = G BY <1>1
<1>3. S \in Nat \ {0} /\ More = 2 * S /\ Pow[G + 1] = 2 * More
    BY <1>1, <1>2, PowIs DEF More, SignBit
<1>4. b \in 0 .. Pow[G + 1] - 1
    <2>1. b \in Byte BY DEF InputOK
    <2>2. QED BY <2>1 DEF Byte
<1>5. b \in Nat /\ b < 4 * S /\ More \in Nat \ {0} BY <1>3, <1>4
<1>. HIDE DEF S, b
<1>6. Payload(i) \in 0 .. More - 1
    <2>1. b \in Int BY <1>5
    <2>2. b % More \in 0 .. More - 1 BY <1>5, <2>1, DivMod, Zenon
    <2>3. QED BY <2>2 DEF Payload, b
<1>7. Payload(i) = IF b < More THEN b ELSE b - More
    <2>1. CASE b < More
        <3>1. b = 0 * More + b /\ b \in 0 .. More - 1 /\ b \in Int /\ 0 \in Int BY <1>5, <2>1
        <3>2. b % More = b BY <1>5, <3>1, DivModIs, Zenon
        <3>3. QED BY <2>1, <3>2 DEF Payload, b
    <2>2. CASE ~(b < More)
        <3>1. b = 1 * More + (b - More) /\ b - More \in 0 .. More - 1 /\ b \in Int /\ 1 \in Int
            BY <1>3, <1>5, <2>2
        <3>2. b % More = b - More BY <1>5, <3>1, DivModIs, Zenon
        <3>3. QED BY <2>2, <3>2 DEF Payload, b
    <2>3. QED BY <2>1, <2>2
<1>8. Bit(b, G) = IF b < More THEN 0 ELSE 1
    <2>1. CASE b < More BY <1>1, <1>5, <2>1, HighBit DEF More
    <2>2. CASE ~(b < More)
        <3>1. b = 1 * More + (b - More) /\ b - More \in 0 .. More - 1 /\ b \in Int /\ 1 \in Int
            BY <1>3, <1>5, <2>2
        <3>2. b \div More = 1 BY <1>5, <3>1, DivModIs, Zenon
        <3>3. b \div Pow[G] = 1 BY <3>2 DEF More
        <3>4. QED BY <2>2, <3>3 DEF Bit
    <2>3. QED BY <2>1, <2>2
<1>9. ASSUME b < More PROVE Bit(b, G - 1) = IF b >= S THEN 1 ELSE 0
    <2>1. CASE b < S BY <1>2, <1>3, <1>5, <2>1, HighBit DEF S, SignBit
    <2>2. CASE ~(b < S)
        <3>1. b = 1 * S + (b - S) /\ b - S \in 0 .. S - 1 /\ b \in Int /\ 1 \in Int
            BY <1>3, <1>5, <1>9, <2>2
        <3>2. b \div S = 1 BY <1>3, <3>1, DivModIs, Zenon
        <3>3. b \div Pow[G - 1] = 1 BY <3>2 DEF S, SignBit
        <3>4. QED BY <1>3, <1>5, <2>2, <3>3 DEF Bit
    <2>3. QED BY <1>3, <1>5, <2>1, <2>2
<1>10. Continues(b) <=> ~(b < More) BY <1>8 DEF Continues
<1>11. b < More => (Negative(b) <=> b >= S) BY <1>9 DEF Negative
<1>12. Low(b) = Payload(i) BY DEF Low, Payload, b
<1>13. Final(i) <=> b < More BY DEF Final, b
<1>14. QED BY <1>3, <1>5, <1>6, <1>7, <1>10, <1>11, <1>12, <1>13 DEF b, S

\* The reference, unfolded.
Adds(g, n) ==
    /\ g \in [0 .. n -> Nat] /\ g[0] = 0
    /\ \A i \in 1 .. n : g[i] = g[i - 1] + Payload(i) * Pow[G * (i - 1)]

LEMMA Weighs ==
    ASSUME InputOK, NEW i \in 1 .. Len(bytes)
    PROVE  /\ G * (i - 1) \in Nat /\ G * i \in Nat /\ Pow[G * (i - 1)] \in Nat \ {0}
           /\ Pow[G * i] = More * Pow[G * (i - 1)]
           /\ Payload(i) * Pow[G * (i - 1)] \in Nat
<1>1. G \in Nat /\ i - 1 \in Nat BY Sizes DEF InputOK
<1>2. G * (i - 1) \in Nat /\ G * i = G + G * (i - 1) BY <1>1
<1>3. Pow[G * i] = Pow[G] * Pow[G * (i - 1)] BY <1>1, <1>2, PowSum
<1>4. Pow[G * (i - 1)] \in Nat \ {0} BY <1>2, PowIs
<1>5. Payload(i) \in Nat BY ByteParts
<1>6. Payload(i) * Pow[G * (i - 1)] \in Nat BY <1>4, <1>5
<1>7. QED BY <1>1, <1>2, <1>3, <1>4, <1>6 DEF More

LEMMA AddsExist == ASSUME InputOK PROVE \E g : Adds(g, Len(bytes))
<1>. DEFINE n == Len(bytes)
            A(i) == Payload(i) * Pow[G * (i - 1)]
            T == {m \in 0 .. n : \E g : Adds(g, m)}
<1>0. n \in Nat BY DEF InputOK
<1>1. 0 \in T
    <2>1. Adds([i \in 0 .. 0 |-> 0], 0) BY DEF Adds
    <2>2. QED BY <1>0, <2>1
<1>2. ASSUME NEW i \in 1 .. n, i - 1 \in T PROVE i \in T
    <2>0. A(i) \in Nat BY Weighs
    <2>1. PICK g : Adds(g, i - 1) BY <1>2
    <2>2. i - 1 \in 0 .. i - 1 /\ g \in [0 .. i - 1 -> Nat] /\ g[0] = 0 BY <1>0, <2>1 DEF Adds
    <2>3. \A k \in 1 .. i - 1 : g[k] = g[k - 1] + A(k) BY <2>1 DEF Adds
    <2>. DEFINE h == [k \in 0 .. i |-> IF k = i THEN g[i - 1] + A(i) ELSE g[k]]
    <2>. HIDE DEF A
    <2>4. h \in [0 .. i -> Nat] /\ h[0] = 0 BY <1>0, <2>0, <2>2
    <2>5. ASSUME NEW k \in 1 .. i PROVE h[k] = h[k - 1] + A(k)
        <3>1. CASE k = i BY <1>0, <3>1
        <3>2. CASE k # i
            <4>1. k \in 1 .. i - 1 BY <1>0, <3>2
            <4>2. QED BY <1>0, <2>3, <4>1
        <3>3. QED BY <3>1, <3>2
    <2>. HIDE DEF h
    <2>6. Adds(h, i) BY <2>4, <2>5 DEF Adds, A
    <2>7. QED BY <1>0, <2>6
<1>. HIDE DEF T
<1>3. \A i \in 0 .. n : i \in T BY <1>0, <1>1, <1>2, UpTo
<1>4. n \in T BY <1>0, <1>3
<1>5. QED BY <1>4 DEF T

LEMMA MagnitudeUnfold ==
    ASSUME InputOK
    PROVE  /\ Magnitude[0] = 0
           /\ \A i \in 1 .. Len(bytes) : Magnitude[i] = Magnitude[i - 1] + Payload(i) * Pow[G * (i - 1)]
<1>. DEFINE n == Len(bytes)
            A(i) == Payload(i) * Pow[G * (i - 1)]
            E(f, i) == IF i = 0 THEN 0 ELSE f[i - 1] + A(i)
            F == CHOOSE f : f = [i \in 0 .. n |-> E(f, i)]
<1>0. n \in Nat BY DEF InputOK
<1>1. PICK g : Adds(g, n) BY AddsExist
<1>2. g \in [0 .. n -> Nat] /\ \A i \in 0 .. n : g[i] = E(g, i) BY <1>0, <1>1 DEF Adds
<1>3. g = [i \in 0 .. n |-> g[i]] BY <1>2
<1>4. g = [i \in 0 .. n |-> E(g, i)] BY <1>2, <1>3
<1>5. F = [i \in 0 .. n |-> E(F, i)]
    <2>. HIDE DEF E
    <2>. QED BY <1>4, Zenon
<1>6. Magnitude = F BY DEF Magnitude
<1>. HIDE DEF A, F
<1>7. \A i \in 0 .. n : F[i] = E(F, i) BY <1>5
<1>8. F[0] = 0 /\ \A i \in 1 .. n : F[i] = F[i - 1] + A(i) BY <1>0, <1>7
<1>9. QED BY <1>6, <1>8 DEF A

\* The value of n groups is below the weight of the next one.
LEMMA MagnitudeBound ==
    ASSUME InputOK, NEW n \in 0 .. Len(bytes)
    PROVE  Magnitude[n] \in Nat /\ G * n \in Nat /\ Magnitude[n] < Pow[G * n]
<1>. DEFINE T == {i \in 0 .. n : Magnitude[i] \in Nat /\ Magnitude[i] < Pow[G * i]}
<1>0. G \in Nat /\ Len(bytes) \in Nat /\ n \in Nat BY Sizes DEF InputOK
<1>1. 0 \in T
    <2>1. G * 0 = 0 /\ Pow[0] = 1 BY <1>0, PowIs
    <2>2. QED BY <1>0, <2>1, MagnitudeUnfold
<1>2. ASSUME NEW i \in 1 .. n, i - 1 \in T PROVE i \in T
    <2>1. i \in 1 .. Len(bytes) BY <1>0
    <2>. DEFINE P == Pow[G * (i - 1)]
                x == Payload(i)
                M == Magnitude[i - 1]
    <2>2. P \in Nat \ {0} /\ Pow[G * i] = More * P /\ x * P \in Nat BY <2>1, Weighs
    <2>3. x \in Nat /\ More \in Nat /\ x < More BY <2>1, ByteParts
    <2>4. M \in Nat /\ M < P BY <1>2
    <2>5. Magnitude[i] = M + x * P BY <2>1, MagnitudeUnfold
    <2>. HIDE DEF P, x, M
    <2>6. (x + 1) * P <= More * P BY <2>2, <2>3, TimesLe
    <2>7. (x + 1) * P = x * P + P BY <2>2, <2>3, Distribute
    <2>8. Magnitude[i] \in Nat /\ Magnitude[i] < Pow[G * i] BY <2>2, <2>3, <2>4, <2>5, <2>6, <2>7
    <2>9. QED BY <2>8
<1>. HIDE DEF T
<1>3. \A i \in 0 .. n : i \in T BY <1>0, <1>1, <1>2, UpTo
<1>4. n \in T BY <1>0, <1>3
<1>5. Magnitude[n] \in Nat /\ Magnitude[n] < Pow[G * n] BY <1>4 DEF T
<1>6. QED BY <1>0, <1>5

-----------------------------------------------------------------------------
\* What DecodesExactly demands of an outcome out with p bytes read and the bits v.
Correct(out, p, v) ==
    IF \E n \in DOMAIN bytes : EndsAt(n)
    THEN LET n == CHOOSE m \in DOMAIN bytes : EndsAt(m)
         IN  IF Fits(Meaning(n))
             THEN /\ out = "value" /\ p = n
                  /\ (IF signed THEN AsSigned(v, width) ELSE v) = Meaning(n)
             ELSE out = "Overflow"
    ELSE out = IF Len(bytes) >= max_group THEN "Overflow" ELSE "EndOfStream"

\* The decoder is about to read the byte after n others, all of which continue.
Reads(n) ==
    /\ InputOK
    /\ n \in Nat /\ n < max_group /\ n + 1 \in 1 .. Len(bytes)
    /\ \A i \in 1 .. n : ~Final(i)

\* An encoding has one end.
LEMMA StopsHere ==
    ASSUME NEW n, Reads(n), Final(n + 1), NEW out, NEW p, NEW v,
           IF Fits(Meaning(n + 1))
           THEN out = "value" /\ p = n + 1 /\ (IF signed THEN AsSigned(v, width) ELSE v) = Meaning(n + 1)
           ELSE out = "Overflow"
    PROVE  Correct(out, p, v)
<1>. DEFINE e == n + 1
<1>1. DOMAIN bytes = 1 .. Len(bytes) /\ Len(bytes) \in Nat /\ max_group \in Nat /\ n \in Nat
    BY Sizes DEF Reads, InputOK
<1>2. e \in DOMAIN bytes /\ EndsAt(e) BY <1>1 DEF Reads, EndsAt
<1>3. ASSUME NEW m \in DOMAIN bytes, EndsAt(m) PROVE m = e
    <2>1. m \in Nat /\ m # 0 /\ Final(m) /\ \A i \in 1 .. m - 1 : ~Final(i) BY <1>1, <1>3 DEF EndsAt
    <2>2. ~(m < e) BY <1>1, <2>1 DEF Reads
    <2>3. ~(e < m) BY <1>1, <2>1
    <2>4. QED BY <1>1, <2>1, <2>2, <2>3
<1>. HIDE DEF e
<1>4. (CHOOSE m \in DOMAIN bytes : EndsAt(m)) = e BY <1>2, <1>3
<1>5. IF Fits(Meaning(e))
      THEN out = "value" /\ p = e /\ (IF signed THEN AsSigned(v, width) ELSE v) = Meaning(e)
      ELSE out = "Overflow"
    BY DEF e
<1>6. QED BY <1>2, <1>4, <1>5 DEF Correct

\* No byte within the length of the type ends the encoding.
LEMMA NeverStops ==
    ASSUME InputOK, NEW n \in Nat, n <= Len(bytes), n >= max_group \/ n = Len(bytes),
           \A i \in 1 .. n : ~Final(i), NEW p, NEW v
    PROVE  Correct(IF n >= max_group THEN "Overflow" ELSE "EndOfStream", p, v)
<1>1. DOMAIN bytes = 1 .. Len(bytes) /\ Len(bytes) \in Nat /\ max_group \in Nat
    BY Sizes DEF InputOK
<1>. DEFINE k == max_group
            l == Len(bytes)
<1>0. k \in Nat /\ l \in Nat /\ n <= l /\ (n >= k \/ n = l) BY <1>1
<1>2. ASSUME NEW m \in DOMAIN bytes, EndsAt(m) PROVE FALSE
    <2>1. m \in 1 .. l /\ m <= k /\ Final(m) BY <1>1, <1>2 DEF EndsAt
    <2>. HIDE DEF k, l
    <2>2. m \in 1 .. n BY <1>0, <2>1
    <2>3. QED BY <2>1, <2>2
<1>. HIDE DEF k, l
<1>3. n >= k <=> l >= k BY <1>0
<1>4. QED BY <1>2, <1>3 DEF Correct, k, l

\* The groups before the last fit whole.
LEMMA Weights ==
    ASSUME NEW n, Reads(n)
    PROVE  /\ G * n \in Nat /\ n * G = G * n /\ G * n < width
           /\ n + 1 < max_group => G * (n + 1) \in Nat /\ G * (n + 1) <= width - 1
           /\ n + 1 = max_group => width - G * n \in 1 .. G
<1>1. /\ G \in Nat \ {0} /\ width \in Nat /\ max_group \in Nat /\ n \in Nat /\ n < max_group
      /\ (max_group - 1) * G < width /\ width <= max_group * G
    BY Sizes DEF Reads
<1>. DEFINE k == max_group
<1>2. n * G = G * n /\ (n + 1) * G = G * (n + 1) /\ (n + 1) * G = n * G + G /\ n * G \in Nat
    BY <1>1
<1>3. n * G <= (k - 1) * G
    <2>1. n <= k - 1 /\ k - 1 \in Int BY <1>1
    <2>. HIDE DEF k
    <2>2. QED BY <1>1, <2>1, TimesLe
<1>4. (k - 1) * G \in Int BY <1>1
<1>5. ASSUME n + 1 < k PROVE (n + 1) * G <= width - 1
    <2>1. n + 1 <= k - 1 /\ k - 1 \in Int /\ n + 1 \in Int BY <1>1, <1>5
    <2>2. (n + 1) * G <= (k - 1) * G
        <3>. HIDE DEF k
        <3>. QED BY <1>1, <2>1, TimesLe
    <2>3. QED BY <1>1, <1>2, <1>4, <2>2
<1>6. ASSUME n + 1 = k PROVE width - G * n \in 1 .. G
    <2>1. k * G = n * G + G /\ (k - 1) * G = n * G BY <1>1, <1>2, <1>6
    <2>2. QED BY <1>1, <1>2, <2>1
<1>7. G * n < width BY <1>1, <1>2, <1>3, <1>4
<1>. HIDE DEF k
<1>8. QED BY <1>1, <1>2, <1>5, <1>6, <1>7 DEF k

\* A group whose shift does not overflow is added whole; otherwise the number
\* is too large.
LEMMA WholeGroup ==
    ASSUME NEW n, Reads(n)
    PROVE  LET x == Payload(n + 1)
               y == x * Pow[G * n]
           IN  /\ x \in Nat /\ y \in Nat /\ Magnitude[n] \in Nat /\ Magnitude[n] < Pow[G * n]
               /\ Magnitude[n + 1] = Magnitude[n] + y
               /\ Overflows(x, n * G) => Magnitude[n + 1] >= Pow[width]
               /\ ~Overflows(x, n * G) => /\ shl(x, n * G) = y
                                          /\ Or(Magnitude[n], y) = Magnitude[n + 1]
                                          /\ Magnitude[n + 1] < Pow[width]
<1>. DEFINE x == Payload(n + 1)
            P == Pow[G * n]
            W == Pow[width]
            Z == Pow[width - G * n]
            M == Magnitude[n]
<1>1. /\ InputOK /\ n \in Nat /\ n + 1 \in 1 .. Len(bytes) /\ (n + 1) - 1 = n /\ n \in 0 .. Len(bytes)
    BY DEF Reads, InputOK
<1>2. G * n \in Nat /\ n * G = G * n /\ G * n < width /\ width \in Nat BY <1>1, Weights, Sizes
<1>3. P \in Nat \ {0} /\ Z \in Nat \ {0} /\ W \in Nat \ {0} /\ W = Z * P
    <2>1. width - G * n \in Nat /\ W = Z * P BY <1>2, PowGrows
    <2>2. QED BY <1>2, <2>1, PowIs
<1>4. x \in Nat BY <1>1, ByteParts
<1>5. M \in Nat /\ M < P BY <1>1, MagnitudeBound
<1>6. Magnitude[n + 1] = M + x * P BY <1>1, MagnitudeUnfold
<1>7. x * P \in Nat BY <1>3, <1>4
<1>8. Overflows(x, n * G) <=> x * P >= W BY <1>2 DEF Overflows
<1>9. shl(x, n * G) = (x * P) % W BY <1>2 DEF shl
<1>. HIDE DEF x, P, W, Z, M
<1>10. ASSUME x * P < W PROVE (x * P) % W = x * P /\ M + x * P < W /\ M < W
    <2>1. x < Z
        <3>1. ASSUME Z <= x PROVE FALSE
            <4>1. Z * P <= x * P BY <1>3, <1>4, <3>1, TimesLe
            <4>2. QED BY <1>3, <1>7, <1>10, <4>1
        <3>2. QED BY <1>3, <1>4, <3>1
    <2>2. (x + 1) * P <= Z * P BY <1>3, <1>4, <2>1, TimesLe
    <2>3. (x + 1) * P = x * P + P BY <1>3, <1>4, Distribute
    <2>4. M + x * P < W /\ M < W BY <1>3, <1>5, <1>7, <2>2, <2>3
    <2>. DEFINE y == x * P
    <2>5. y = 0 * W + y /\ y \in 0 .. W - 1 /\ y \in Int /\ 0 \in Int BY <1>3, <1>7, <1>10
    <2>6. y % W = y
        <3>. HIDE DEF y
        <3>. QED BY <1>3, <2>5, DivModIs, Zenon
    <2>7. QED BY <2>4, <2>6
<1>11. ASSUME x * P < W PROVE Or(M, x * P) = M + x * P
    <2>1. M < Pow[G * n] /\ M < Pow[width] /\ x * Pow[G * n] < Pow[width] BY <1>5, <1>10, <1>11 DEF P, W
    <2>2. Or(M, x * Pow[G * n]) = M + x * Pow[G * n] BY <1>2, <1>4, <1>5, <2>1, OrAdds
    <2>3. QED BY <2>2 DEF P
<1>12. Overflows(x, n * G) => Magnitude[n + 1] >= W BY <1>3, <1>5, <1>6, <1>7, <1>8
<1>13. ~Overflows(x, n * G) => x * P < W BY <1>3, <1>7, <1>8
<1>14. ~Overflows(x, n * G) => /\ shl(x, n * G) = x * P
                               /\ Or(M, x * P) = Magnitude[n + 1]
                               /\ Magnitude[n + 1] < W
    BY <1>6, <1>9, <1>10, <1>11, <1>13
<1>15. QED BY <1>4, <1>5, <1>6, <1>7, <1>12, <1>14 DEF x, P, W, M

\* A signed integer that ends before its last group: nothing overflows, and
\* the sign fills the bits above.
LEMMA EarlyGroup ==
    ASSUME NEW n, Reads(n), n + 1 < max_group
    PROVE  LET x == Payload(n + 1)
               m == Magnitude[n + 1]
               ones == shl(Pow[width] - 1, n * G + G)
           IN  /\ ~Overflows(x, n * G) /\ ~(AsSigned(shl(x, n * G), width) < 0)
               /\ Or(m, 0) = m /\ m \in Nat /\ m < Pow[width - 1] /\ AsSigned(m, width) = m
               /\ AsSigned(Or(m, ones), width) = m - Pow[G * (n + 1)]
               /\ Pow[G * (n + 1)] <= Pow[width - 1]
<1>. DEFINE x == Payload(n + 1)
            m == Magnitude[n + 1]
            P == Pow[G * n]
            Q == Pow[G * (n + 1)]
            H == Pow[width - 1]
            W == Pow[width]
            Z == Pow[width - G * (n + 1)]
<1>1. InputOK /\ n \in Nat /\ n + 1 \in 1 .. Len(bytes) /\ (n + 1) - 1 = n /\ n + 1 \in 0 .. Len(bytes)
    BY DEF Reads, InputOK
<1>2. /\ G \in Nat /\ G * n \in Nat /\ n * G = G * n /\ width \in Nat \ {0}
      /\ G * (n + 1) \in Nat /\ G * (n + 1) <= width - 1 /\ n * G + G = G * (n + 1)
    <2>1. G \in Nat /\ width \in Nat /\ G < width BY <1>1, Sizes
    <2>2. n * G + G = G * (n + 1) BY <1>1, <2>1
    <2>3. QED BY <2>1, <2>2, Weights
<1>3. width - 1 \in Nat /\ (width - 1) + 1 = width BY <1>2
<1>4. /\ P \in Nat \ {0} /\ Q \in Nat \ {0} /\ H \in Nat \ {0} /\ W = 2 * H /\ Q <= H
      /\ Z \in Nat \ {0} /\ W = Z * Q
    <2>1. Q <= H BY <1>2, <1>3, PowGrows
    <2>2. W = 2 * H BY <1>3, PowIs
    <2>3. G * (n + 1) <= width BY <1>2
    <2>4. width - G * (n + 1) \in Nat /\ W = Z * Q BY <1>2, <2>3, PowGrows
    <2>5. QED BY <1>2, <1>3, <2>1, <2>2, <2>4, PowIs
<1>5. x * P \in Nat /\ m = Magnitude[n] + x * P /\ Magnitude[n] \in Nat BY WholeGroup
<1>6. m \in Nat /\ m < Q BY <1>1, MagnitudeBound
<1>7. Overflows(x, n * G) <=> x * P >= W BY <1>2 DEF Overflows
<1>8. ~Overflows(x, n * G) BY <1>4, <1>5, <1>6, <1>7
<1>9. shl(x, n * G) = x * P BY <1>8, WholeGroup
<1>10. \A v : AsSigned(v, width) = IF v >= H THEN v - W ELSE v BY DEF AsSigned
<1>11. shl(W - 1, n * G + G) = ((W - 1) * Q) % W BY <1>2 DEF shl
<1>12. m < Pow[G * (n + 1)] BY <1>6
<1>. HIDE DEF x, m, P, Q, H, W, Z
<1>13. ((W - 1) * Q) % W = (Z - 1) * Q /\ (Z - 1) * Q = W - Q
    <2>1. (W - 1) * Q = W * Q - Q /\ (Z - 1) * Q = Z * Q - Q /\ (Q - 1) * W = W * Q - W BY <1>4
    <2>2. (Z - 1) * Q = W - Q BY <1>4, <2>1
    <2>3. (W - 1) * Q = (Q - 1) * W + (W - Q) /\ (W - 1) * Q \in Int BY <1>4, <2>1
    <2>4. W - Q \in 0 .. W - 1 /\ Q - 1 \in Int /\ W \in Nat \ {0} BY <1>4
    <2>5. ((W - 1) * Q) % W = W - Q BY <2>3, <2>4, DivModIs, Zenon
    <2>6. QED BY <2>2, <2>5
<1>14. Or(m, W - Q) = m + (W - Q)
    <2>1. Z - 1 \in Nat /\ m < Pow[width] /\ (Z - 1) * Q < Pow[width] BY <1>4, <1>6, <1>13 DEF W
    <2>2. (Z - 1) * Pow[G * (n + 1)] < Pow[width] BY <2>1 DEF Q
    <2>3. Or(m, (Z - 1) * Pow[G * (n + 1)]) = m + (Z - 1) * Pow[G * (n + 1)]
        BY <1>2, <1>6, <1>12, <2>1, <2>2, OrAdds
    <2>4. QED BY <1>13, <2>3 DEF Q
<1>15. Or(m, 0) = m
    <2>1. m < Pow[width] /\ Pow[width] \in Nat \ {0} BY <1>4, <1>6 DEF W
    <2>2. 0 * Pow[G * (n + 1)] = 0 BY <1>4 DEF Q
    <2>3. 0 * Pow[G * (n + 1)] < Pow[width] BY <2>1, <2>2
    <2>4. Or(m, 0 * Pow[G * (n + 1)]) = m + 0 * Pow[G * (n + 1)]
        BY <1>2, <1>6, <1>12, <2>1, <2>3, OrAdds
    <2>5. QED BY <1>6, <2>2, <2>4
<1>16. AsSigned(m + (W - Q), width) = m - Q
    <2>1. m + (W - Q) >= H BY <1>4, <1>6
    <2>2. AsSigned(m + (W - Q), width) = (m + (W - Q)) - W BY <1>10, <2>1
    <2>3. QED BY <1>4, <1>6, <2>2
<1>17. AsSigned(m, width) = m /\ m < H
    <2>1. ~(m >= H) /\ m < H BY <1>4, <1>6
    <2>2. QED BY <1>10, <2>1
<1>18. ~(AsSigned(shl(x, n * G), width) < 0)
    <2>1. ~(x * P >= H) BY <1>4, <1>5, <1>6
    <2>2. AsSigned(x * P, width) = x * P BY <1>10, <2>1
    <2>3. QED BY <1>5, <1>9, <2>2
<1>19. AsSigned(Or(m, shl(W - 1, n * G + G)), width) = m - Q BY <1>11, <1>13, <1>14, <1>16
<1>20. QED BY <1>4, <1>6, <1>8, <1>15, <1>17, <1>18, <1>19 DEF x, m, P, Q, H, W

\* What reads the last group of a signed integer: the tests of readSigned.
Refused(byte, x, shift) ==
    LET negative == AsSigned(shl(x, shift), width) < 0
    IN  \/ Overflows(x, shift) /\ (~negative \/ RemainingBits(byte, shift) # -1)
        \/ ~Overflows(x, shift) /\ negative /\ RemainingBits(byte, shift) # -1

\* The last group of a signed integer is refused exactly when the number does
\* not fit.
LEMMA LastGroup ==
    ASSUME NEW n, Reads(n), n + 1 = max_group, Final(n + 1), signed
    PROVE  LET x == Payload(n + 1)
               ov == shl(x, n * G)
           IN  /\ Refused(bytes[n + 1], x, n * G) <=> ~Fits(Meaning(n + 1))
               /\ ~Refused(bytes[n + 1], x, n * G) =>
                      AsSigned(Or(Or(Magnitude[n], ov), 0), width) = Meaning(n + 1)
<1>. DEFINE x == Payload(n + 1)
            byte == bytes[n + 1]
            r == width - G * n
            P == Pow[G * n]
            R == Pow[r]
            R2 == Pow[r - 1]
            E == Pow[G - r]
            W == Pow[width]
            H == Pow[width - 1]
            M == Magnitude[n]
            t == x \div R
            u == x % R
            mean == Meaning(n + 1)
<1>1. InputOK /\ n \in Nat /\ n + 1 \in 1 .. Len(bytes) /\ (n + 1) - 1 = n BY DEF Reads
<1>2. /\ G \in Nat \ {0} /\ G * n \in Nat /\ n * G = G * n /\ width \in Nat \ {0}
      /\ r \in 1 .. G /\ G < width
    <2>1. G \in Nat \ {0} /\ width \in Nat /\ G < width BY <1>1, Sizes
    <2>2. QED BY <2>1, Weights
<1>3. /\ r \in Nat /\ r - 1 \in Nat /\ G - r \in Nat /\ (r - 1) + 1 = r /\ r <= G
      /\ r - 1 <= G - 1 /\ G - 1 \in Nat /\ (G - 1) - (r - 1) = G - r
      /\ G * n <= width /\ G * n <= width - 1 /\ width - 1 \in Nat /\ (width - 1) - G * n = r - 1
    BY <1>2
<1>4. /\ P \in Nat \ {0} /\ R2 \in Nat \ {0} /\ R = 2 * R2 /\ E \in Nat \ {0}
      /\ W = R * P /\ H = R2 * P /\ More = E * R /\ SignBit = E * R2
    <2>1. P \in Nat \ {0} /\ R2 \in Nat \ {0} /\ E \in Nat \ {0} /\ R = 2 * R2 BY <1>2, <1>3, PowIs
    <2>2. W = R * P BY <1>2, <1>3, PowGrows
    <2>3. H = R2 * P BY <1>2, <1>3, PowGrows
    <2>4. More = E * R BY <1>2, <1>3, PowGrows DEF More
    <2>5. SignBit = E * R2 BY <1>2, <1>3, PowGrows DEF SignBit
    <2>6. QED BY <2>1, <2>2, <2>3, <2>4, <2>5
<1>5. /\ x \in Nat /\ x < More /\ byte = x /\ More \in Nat \ {0} BY <1>1, ByteParts
<1>6. M \in Nat /\ M < P /\ Magnitude[n + 1] = M + x * P /\ x * P \in Nat BY WholeGroup
<1>7. mean = IF x >= SignBit THEN (M + x * P) - More * P ELSE M + x * P
    <2>1. Pow[G * (n + 1)] = More * P BY <1>1, Weighs
    <2>2. QED BY <1>6, <2>1 DEF Meaning
<1>8. Fits(mean) <=> mean >= -H /\ mean < H BY DEF Fits
<1>9. \A v : AsSigned(v, width) = IF v >= H THEN v - W ELSE v BY DEF AsSigned
<1>10. RemainingBits(byte, n * G) = (x - More) \div R
    <2>1. x < Pow[G] /\ Pow[G] < Pow[width] /\ x < Pow[width] /\ 1 * Pow[G] = Pow[G]
        <3>1. Pow[G] <= Pow[width - 1] /\ Pow[width] = 2 * Pow[width - 1] /\ Pow[width - 1] \in Nat \ {0}
            <4>1. G <= width - 1 /\ width - 1 \in Nat /\ (width - 1) + 1 = width BY <1>2
            <4>2. QED BY <1>2, <4>1, PowGrows, PowIs
        <3>2. Pow[G] \in Nat BY <1>2, PowIs
        <3>3. QED BY <1>5, <3>1, <3>2 DEF More
    <2>2. Or(x, 1 * Pow[G]) = x + 1 * Pow[G] BY <1>2, <1>5, <2>1, OrAdds
    <2>3. Or(byte, More) = x + More BY <1>5, <2>1, <2>2 DEF More
    <2>4. Pow[(G + 1) - 1] = More /\ Pow[G + 1] = 2 * More
        <3>1. (G + 1) - 1 = G BY <1>2
        <3>2. QED BY <1>2, <3>1, PowIs DEF More
    <2>5. AsSigned(x + More, G + 1) = (x + More) - 2 * More
        <3>1. x + More >= More BY <1>5
        <3>2. QED BY <2>4, <3>1 DEF AsSigned
    <2>6. (x + More) - 2 * More = x - More BY <1>5
    <2>7. QED BY <1>2, <2>3, <2>5, <2>6 DEF RemainingBits
<1>11. shl(x, n * G) = (x * P) % W /\ (Overflows(x, n * G) <=> x * P >= W)
    BY <1>2 DEF shl, Overflows
<1>. HIDE DEF x, byte, r, P, R, R2, E, W, H, M, mean
<1>12. t \in Int /\ u \in 0 .. R - 1 /\ x = R * t + u
    <2>1. x \in Int /\ R \in Nat \ {0} BY <1>4, <1>5
    <2>2. QED BY <2>1, DivMod, Zenon
<1>. HIDE DEF t, u
<1>13. t \in Nat /\ u \in Nat /\ u < R
    <2>1. ASSUME t < 0 PROVE FALSE
        <3>1. t <= -1 BY <1>12, <2>1
        <3>2. t * R <= (-1) * R /\ (-1) * R = -R /\ t * R = R * t BY <1>4, <1>12, <3>1, TimesLe
        <3>3. QED BY <1>4, <1>5, <1>12, <3>2
    <2>2. QED BY <1>4, <1>12, <2>1
<1>14. t < E
    <2>1. ASSUME E <= t PROVE FALSE
        <3>1. E * R <= t * R /\ t * R = R * t BY <1>4, <1>13, <2>1, TimesLe, Distribute
        <3>2. QED BY <1>4, <1>5, <1>12, <1>13, <3>1
    <2>2. QED BY <1>4, <1>13, <2>1
<1>15. /\ x * P >= W <=> t # 0
       /\ (x * P) % W = u * P /\ u * P < W
       /\ (x - More) \div R = t - E
    <2>1. /\ R * E = E * R /\ R \in Nat \ {0} /\ P \in Nat \ {0} /\ E \in Nat \ {0} /\ x \in Nat
          /\ t \in Nat /\ u \in Nat /\ u < R /\ x = R * t + u
        BY <1>4, <1>5, <1>12, <1>13
    <2>2. W = R * P /\ More = R * E BY <1>4, <2>1
    <2>. DEFINE y == x * P
                z == u * P
    <2>3. y = x * P /\ z = u * P OBVIOUS
    <2>. HIDE DEF y, z
    <2>4. y >= W <=> t # 0 BY <2>1, <2>2, <2>3, GroupShifts
    <2>5. y % W = z /\ z < W
        <3>1. z < W BY <2>1, <2>2, <2>3, GroupShifts
        <3>2. y = t * W + z BY <2>1, <2>2, <2>3, GroupShifts
        <3>3. y \in Int /\ z \in 0 .. W - 1 /\ W \in Nat \ {0} /\ t \in Int BY <2>1, <2>2, <2>3, <3>1
        <3>4. y % W = z BY <3>2, <3>3, DivModIs, Zenon
        <3>5. QED BY <3>1, <3>4
    <2>6. (x - More) \div R = t - E BY <2>1, <2>2, <2>3, GroupShifts
    <2>7. QED BY <2>4, <2>5, <2>6 DEF y, z
<1>16. u * P \in Nat /\ (u * P >= H <=> u >= R2)
    <2>1. u * P \in Nat BY <1>4, <1>13
    <2>2. ASSUME u >= R2 PROVE u * P >= R2 * P BY <1>4, <1>13, <2>2, TimesLe
    <2>3. ASSUME u < R2 PROVE u * P < R2 * P
        <3>1. (u + 1) * P <= R2 * P BY <1>4, <1>13, <2>3, TimesLe
        <3>2. (u + 1) * P = u * P + P /\ R2 * P \in Nat BY <1>4, <1>13, Distribute
        <3>3. QED BY <1>4, <2>1, <3>1, <3>2
    <2>4. R2 * P \in Nat BY <1>4
    <2>5. QED BY <1>4, <1>13, <2>1, <2>2, <2>3, <2>4
<1>17. AsSigned(shl(x, n * G), width) < 0 <=> u >= R2
    <2>1. AsSigned(u * P, width) = IF u * P >= H THEN u * P - W ELSE u * P BY <1>9
    <2>2. W \in Nat BY <1>4
    <2>3. QED BY <1>11, <1>15, <1>16, <2>1, <2>2
<1>18. Refused(byte, x, n * G) <=> ~((t = 0 /\ u < R2) \/ (t = E - 1 /\ u >= R2))
    <2>1. RemainingBits(byte, n * G) = -1 <=> t = E - 1 BY <1>4, <1>10, <1>13, <1>15
    <2>2. Overflows(x, n * G) <=> t # 0 BY <1>11, <1>15
    <2>3. u < R2 <=> ~(u >= R2) BY <1>4, <1>13
    <2>4. QED BY <1>17, <2>1, <2>2, <2>3 DEF Refused
<1>19. /\ (mean >= -H /\ mean < H) <=> (t = 0 /\ u < R2) \/ (t = E - 1 /\ u >= R2)
       /\ t = 0 /\ u < R2 => mean = M + u * P /\ M + u * P < H
       /\ t = E - 1 /\ u >= R2 => mean = (M + u * P) - W /\ M + u * P >= H
    <2>1. SignBit = R2 * E /\ More = 2 * SignBit /\ SignBit \in Nat /\ More \in Nat BY <1>4
    <2>2. M \in 0 .. P - 1 /\ u < 2 * R2 /\ x = (2 * R2) * t + u BY <1>4, <1>6, <1>12, <1>13
    <2>3. mean \in Int
        <3>1. More * P \in Int BY <1>4, <1>5
        <3>2. QED BY <1>6, <1>7, <3>1
    <2>4. P \in Nat \ {0} /\ R2 \in Nat \ {0} /\ E \in Nat \ {0} /\ x \in Nat BY <1>4, <1>5
    <2>5. /\ (mean >= -(R2 * P) /\ mean < R2 * P) <=> (t = 0 /\ u < R2) \/ (t = E - 1 /\ u >= R2)
          /\ t = 0 /\ u < R2 => mean = M + u * P /\ M + u * P < R2 * P
          /\ t = E - 1 /\ u >= R2 => mean = (M + u * P) - (2 * R2) * P /\ M + u * P >= R2 * P
        BY <1>7, <1>13, <1>14, <2>1, <2>2, <2>3, <2>4, GroupFits, SMTT(60)
    <2>6. H = R2 * P /\ W = (2 * R2) * P BY <1>4
    <2>7. QED BY <2>5, <2>6, Zenon
<1>20. Or(Or(M, u * P), 0) = M + u * P
    <2>1. M + u * P < W /\ M < W /\ W \in Nat
        <3>1. (u + 1) * P <= R * P BY <1>4, <1>13, TimesLe
        <3>2. (u + 1) * P = u * P + P /\ R * P \in Nat BY <1>4, <1>13, Distribute
        <3>3. QED BY <1>4, <1>6, <1>16, <3>1, <3>2
    <2>2. Or(M, u * Pow[G * n]) = M + u * Pow[G * n]
        <3>1. M < Pow[G * n] /\ M < Pow[width] /\ u * Pow[G * n] < Pow[width]
            BY <1>6, <1>15, <2>1 DEF P, W
        <3>2. QED BY <1>2, <1>6, <1>13, <3>1, OrAdds
    <2>3. Or(M, u * P) = M + u * P BY <2>2 DEF P
    <2>. DEFINE v == M + u * P
    <2>4. v \in Nat /\ v < Pow[width] /\ 0 * Pow[width] = 0 /\ 0 * Pow[width] < Pow[width]
        BY <1>6, <1>16, <2>1 DEF W
    <2>5. Or(v, 0 * Pow[width]) = v + 0 * Pow[width]
        <3>. HIDE DEF v
        <3>. QED BY <1>2, <2>4, OrAdds
    <2>6. Or(v, 0) = v
        <3>. HIDE DEF v
        <3>. QED BY <2>4, <2>5
    <2>7. QED BY <2>3, <2>6
<1>21. ASSUME ~Refused(byte, x, n * G)
       PROVE  AsSigned(Or(Or(M, shl(x, n * G)), 0), width) = mean
    <2>. DEFINE v == M + u * P
    <2>1. Or(Or(M, shl(x, n * G)), 0) = v BY <1>11, <1>15, <1>20
    <2>2. v \in Int /\ H \in Int BY <1>4, <1>6, <1>16
    <2>3. (v >= H /\ mean = v - W) \/ (v < H /\ mean = v)
        <3>1. (t = 0 /\ u < R2) \/ (t = E - 1 /\ u >= R2) BY <1>18, <1>21, Zenon
        <3>2. CASE t = 0 /\ u < R2 BY <1>19, <3>2
        <3>3. CASE t = E - 1 /\ u >= R2 BY <1>19, <3>3
        <3>4. QED BY <3>1, <3>2, <3>3
    <2>. HIDE DEF v
    <2>4. AsSigned(v, width) = IF v >= H THEN v - W ELSE v BY <1>9
    <2>5. QED BY <2>1, <2>2, <2>3, <2>4
<1>22. Refused(byte, x, n * G) <=> ~Fits(mean) BY <1>8, <1>18, <1>19
<1>23. QED BY <1>21, <1>22 DEF x, byte, M, mean

-----------------------------------------------------------------------------
\* While the decoder reads, it holds the value of the groups it has read; when
\* it has stopped, the outcome is correct.
LebInv ==
    /\ InputOK
    /\ outcome = "reading" =>
           /\ group \in Nat /\ group <= max_group /\ group <= Len(bytes) /\ pos = group
           /\ value = Magnitude[group]
           /\ \A i \in 1 .. group : ~Final(i)
    /\ outcome # "reading" => Correct(outcome, pos, value)

SameInput == bytes' = bytes /\ width' = width /\ signed' = signed

\* The reference depends on the input only.
LEMMA SameReference ==
    ASSUME SameInput
    PROVE  /\ InputOK' <=> InputOK
           /\ max_group' = max_group /\ Magnitude' = Magnitude
           /\ \A i : Final(i)' <=> Final(i)
           /\ Correct(outcome, pos, value)' <=> Correct(outcome', pos', value')
<1>1. InputOK' <=> InputOK BY DEF SameInput, InputOK, Byte
<1>2. max_group' = max_group BY DEF SameInput, max_group
<1>3. Magnitude' = Magnitude BY DEF SameInput, Magnitude, Payload, More
<1>4. \A i : Final(i)' <=> Final(i) BY DEF SameInput, Final, More
<1>5. \A i : Payload(i)' = Payload(i) BY DEF SameInput, Payload, More
<1>6. \A i : Meaning(i)' = Meaning(i) BY <1>3, <1>5 DEF SameInput, Meaning, SignBit
<1>7. \A v : Fits(v)' <=> Fits(v) BY DEF SameInput, Fits
<1>8. \A i : EndsAt(i)' <=> EndsAt(i) BY <1>2, <1>4 DEF SameInput, EndsAt
<1>9. Correct(outcome, pos, value)' <=> Correct(outcome', pos', value')
    BY <1>2, <1>6, <1>7, <1>8 DEF SameInput, Correct, AsSigned
<1>10. QED BY <1>1, <1>2, <1>3, <1>4, <1>9

LEMMA Reading ==
    ASSUME LebInv, ReadingByte
    PROVE  /\ Reads(group) /\ SameInput /\ outcome = "reading" /\ pos = group /\ value = Magnitude[group]
           /\ pos' = group + 1 /\ group + 1 \in 1 .. Len(bytes) /\ group \in Nat /\ bytes[pos + 1] = bytes[group + 1]
<1>1. Len(bytes) \in Nat /\ max_group \in Nat BY Sizes DEF LebInv, InputOK
<1>2. QED BY <1>1 DEF LebInv, ReadingByte, Reads, SameInput

\* The byte is taken.
LEMMA Taken ==
    ASSUME LebInv, ReadingByte, NEW v, Take(bytes[pos + 1], v),
           ~Final(group + 1) => v = Magnitude[group + 1],
           Final(group + 1) => /\ Fits(Meaning(group + 1))
                               /\ (IF signed THEN AsSigned(v, width) ELSE v) = Meaning(group + 1)
    PROVE  LebInv'
<1>1. /\ Reads(group) /\ SameInput /\ outcome = "reading" /\ pos = group /\ pos' = group + 1
      /\ group + 1 \in 1 .. Len(bytes) /\ group \in Nat /\ bytes[pos + 1] = bytes[group + 1]
    BY Reading
<1>2. InputOK /\ InputOK' /\ max_group \in Nat /\ Len(bytes) \in Nat
    BY <1>1, SameReference, Sizes DEF LebInv, InputOK
<1>3. /\ value' = v /\ group' = group + 1
      /\ outcome' = IF Final(group + 1) THEN "value" ELSE "reading"
    BY <1>1, <1>2, ByteParts DEF Take
<1>4. CASE Final(group + 1)
    <2>1. Correct(outcome', pos', value') BY <1>1, <1>3, <1>4, StopsHere
    <2>2. Correct(outcome, pos, value)' BY <1>1, <2>1, SameReference
    <2>3. outcome' # "reading" BY <1>3, <1>4
    <2>4. QED BY <1>2, <2>2, <2>3 DEF LebInv
<1>5. CASE ~Final(group + 1)
    <2>1. outcome' = "reading" /\ value' = Magnitude[group + 1] BY <1>3, <1>5
    <2>2. value' = Magnitude'[group'] /\ max_group' = max_group BY <1>1, <1>3, <2>1, SameReference
    <2>3. ASSUME NEW i \in 1 .. group + 1 PROVE ~Final(i)'
        <3>1. ~Final(i)
            <4>1. CASE i = group + 1 BY <1>5, <4>1
            <4>2. CASE i # group + 1
                <5>1. i \in 1 .. group BY <1>1, <4>2
                <5>2. QED BY <1>1, <5>1 DEF Reads
            <4>3. QED BY <4>1, <4>2
        <3>2. QED BY <1>1, <3>1, SameReference
    <2>4. group + 1 <= max_group /\ group + 1 <= Len(bytes) /\ group + 1 \in Nat
        BY <1>1, <1>2 DEF Reads
    <2>5. Len(bytes)' = Len(bytes) BY <1>1 DEF SameInput
    <2>6. (group <= max_group /\ group <= Len(bytes) /\ group \in Nat /\ pos = group)'
        BY <1>1, <1>3, <2>2, <2>4, <2>5
    <2>7. \A i \in 1 .. group' : ~Final(i)' BY <1>3, <2>3
    <2>8. QED BY <1>2, <2>1, <2>2, <2>6, <2>7 DEF LebInv
<1>6. QED BY <1>4, <1>5

\* The byte is refused.
LEMMA Failed ==
    ASSUME LebInv, ReadingByte, Fail("Overflow"),
           ~Final(group + 1) => group + 1 = max_group,
           Final(group + 1) => ~Fits(Meaning(group + 1))
    PROVE  LebInv'
<1>1. /\ Reads(group) /\ SameInput /\ group + 1 \in 1 .. Len(bytes) /\ group \in Nat
    BY Reading
<1>2. InputOK /\ InputOK' /\ outcome' = "Overflow" /\ max_group \in Nat /\ Len(bytes) \in Nat
    BY <1>1, SameReference, Sizes DEF LebInv, InputOK, Fail
<1>3. CASE Final(group + 1)
    <2>1. Correct(outcome', pos', value') BY <1>1, <1>2, <1>3, StopsHere
    <2>2. QED BY <1>1, <1>2, <2>1, SameReference DEF LebInv
<1>4. CASE ~Final(group + 1)
    <2>1. ASSUME NEW i \in 1 .. group + 1 PROVE ~Final(i)
        <3>1. CASE i = group + 1 BY <1>4, <3>1
        <3>2. CASE i # group + 1
            <4>1. i \in 1 .. group BY <1>1, <3>2
            <4>2. QED BY <1>1, <4>1 DEF Reads
        <3>3. QED BY <3>1, <3>2
    <2>2. group + 1 \in Nat /\ group + 1 <= Len(bytes) /\ group + 1 >= max_group BY <1>1, <1>2, <1>4
    <2>3. Correct(IF group + 1 >= max_group THEN "Overflow" ELSE "EndOfStream", pos', value')
        BY <1>2, <2>1, <2>2, NeverStops
    <2>4. Correct(outcome', pos', value') BY <1>2, <2>2, <2>3
    <2>5. QED BY <1>1, <1>2, <2>4, SameReference DEF LebInv
<1>5. QED BY <1>3, <1>4

LEMMA UnsignedStep == ASSUME LebInv, readUnsigned PROVE LebInv'
<1>. DEFINE n == group
            byte == bytes[n + 1]
            x == Payload(n + 1)
<1>1. ~signed /\ ReadingByte BY DEF readUnsigned
<1>2. /\ Reads(n) /\ InputOK /\ pos = n /\ value = Magnitude[n] /\ n + 1 \in 1 .. Len(bytes) /\ n \in Nat
    BY <1>1, Reading DEF LebInv
<1>3. Low(byte) = x BY <1>2, ByteParts
<1>4. Meaning(n + 1) = Magnitude[n + 1] BY <1>1 DEF Meaning
<1>5. Fits(Magnitude[n + 1]) <=> Magnitude[n + 1] < Pow[width] BY <1>1 DEF Fits
<1>6. Magnitude[n + 1] \in Nat /\ Pow[width] \in Nat
    <2>1. n + 1 \in 0 .. Len(bytes) /\ width \in Nat BY <1>2, Sizes
    <2>2. QED BY <1>2, <2>1, MagnitudeBound, PowIs
<1>7. CASE Overflows(x, n * G)
    <2>1. Fail("Overflow") BY <1>2, <1>3, <1>7 DEF readUnsigned
    <2>2. Magnitude[n + 1] >= Pow[width] BY <1>2, <1>7, WholeGroup
    <2>3. ~Fits(Meaning(n + 1)) BY <1>4, <1>5, <1>6, <2>2
    <2>4. n + 1 = max_group
        <3>1. ~(n + 1 < max_group) BY <1>2, <1>7, EarlyGroup
        <3>2. QED BY <1>2, <3>1, Sizes DEF Reads
    <2>5. QED BY <1>1, <2>1, <2>3, <2>4, Failed
<1>8. CASE ~Overflows(x, n * G)
    <2>. DEFINE v == Or(value, shl(x, n * G))
    <2>1. Take(bytes[pos + 1], v) BY <1>2, <1>3, <1>8 DEF readUnsigned
    <2>2. v = Magnitude[n + 1] /\ Magnitude[n + 1] < Pow[width] BY <1>2, <1>8, WholeGroup
    <2>3. Fits(Meaning(n + 1)) /\ (IF signed THEN AsSigned(v, width) ELSE v) = Meaning(n + 1)
        BY <1>1, <1>4, <1>5, <2>2
    <2>. HIDE DEF v
    <2>4. QED BY <1>1, <2>1, <2>2, <2>3, Taken
<1>9. QED BY <1>7, <1>8

LEMMA SignedStep == ASSUME LebInv, readSigned PROVE LebInv'
<1>. DEFINE n == group
            byte == bytes[n + 1]
            x == Payload(n + 1)
            ov == shl(x, n * G)
            last == ~Continues(byte)
            negative == AsSigned(ov, width) < 0
            rest == IF last /\ Negative(byte) /\ n + 1 < max_group
                    THEN shl(Pow[width] - 1, n * G + G) ELSE 0
            fails == \/ Overflows(x, n * G) /\ (~last \/ ~negative \/ RemainingBits(byte, n * G) # -1)
                     \/ ~Overflows(x, n * G) /\ last /\ negative /\ RemainingBits(byte, n * G) # -1
            v == Or(Or(value, ov), rest)
<1>1. signed /\ ReadingByte BY DEF readSigned
<1>2. /\ Reads(n) /\ InputOK /\ pos = n /\ value = Magnitude[n] /\ n + 1 \in 1 .. Len(bytes) /\ n \in Nat
    BY <1>1, Reading DEF LebInv
<1>3. Low(byte) = x /\ (last <=> Final(n + 1)) BY <1>2, ByteParts
<1>4. /\ fails => Fail("Overflow")
      /\ ~fails => Take(bytes[pos + 1], v)
    BY <1>2, <1>3 DEF readSigned
<1>5. CASE n + 1 < max_group
    <2>. DEFINE m == Magnitude[n + 1]
                Q == Pow[G * (n + 1)]
                H == Pow[width - 1]
    <2>1. ~fails
        <3>1. ~Overflows(x, n * G) /\ ~negative BY <1>2, <1>5, EarlyGroup
        <3>2. QED BY <3>1
    <2>2. Or(value, ov) = m BY <1>2, <1>5, EarlyGroup, WholeGroup
    <2>3. /\ Or(m, 0) = m /\ m \in Nat /\ m < H /\ AsSigned(m, width) = m
          /\ AsSigned(Or(m, shl(Pow[width] - 1, n * G + G)), width) = m - Q /\ Q <= H
        BY <1>2, <1>5, EarlyGroup
    <2>4. Q \in Nat /\ H \in Nat
        <3>1. G * (n + 1) \in Nat /\ width - 1 \in Nat
            <4>1. G \in Nat /\ width \in Nat /\ G < width BY <1>2, Sizes
            <4>2. QED BY <1>2, <4>1
        <3>2. QED BY <3>1, PowIs
    <2>5. Meaning(n + 1) = IF x >= SignBit THEN m - Q ELSE m BY <1>1 DEF Meaning
    <2>6. \A k : Fits(k) <=> k >= -H /\ k < H BY <1>1 DEF Fits
    <2>7. ASSUME Final(n + 1) PROVE Negative(byte) <=> x >= SignBit BY <1>2, <2>7, ByteParts
    <2>8. ASSUME ~Final(n + 1) PROVE v = m
        <3>1. rest = 0 BY <1>3, <2>8
        <3>2. QED BY <2>2, <2>3, <3>1
    <2>9. ASSUME Final(n + 1) PROVE AsSigned(v, width) = Meaning(n + 1)
        <3>1. CASE x >= SignBit
            <4>1. rest = shl(Pow[width] - 1, n * G + G) BY <1>3, <1>5, <2>7, <2>9, <3>1
            <4>2. QED BY <2>2, <2>3, <2>5, <3>1, <4>1
        <3>2. CASE ~(x >= SignBit)
            <4>1. rest = 0 BY <2>7, <2>9, <3>2
            <4>2. QED BY <2>2, <2>3, <2>5, <3>2, <4>1
        <3>3. QED BY <3>1, <3>2
    <2>. HIDE DEF m, Q, H
    <2>10. Fits(Meaning(n + 1))
        <3>1. m - Q >= -H /\ m - Q < H /\ m >= -H BY <2>3, <2>4
        <3>2. QED BY <2>3, <2>5, <2>6, <3>1
    <2>. HIDE DEF v, fails
    <2>11. QED BY <1>1, <1>4, <2>1, <2>8, <2>9, <2>10, Taken DEF m
<1>6. CASE n + 1 = max_group
    <2>1. rest = 0
        <3>1. ~(n + 1 < max_group) BY <1>2, <1>6
        <3>2. QED BY <3>1
    <2>2. CASE Final(n + 1)
        <3>1. fails <=> Refused(byte, x, n * G) BY <1>3, <2>2 DEF Refused
        <3>2. Refused(byte, x, n * G) <=> ~Fits(Meaning(n + 1)) BY <1>1, <1>2, <1>6, <2>2, LastGroup
        <3>3. ~Refused(byte, x, n * G) => AsSigned(v, width) = Meaning(n + 1)
            BY <1>1, <1>2, <1>6, <2>1, <2>2, LastGroup
        <3>. HIDE DEF v, fails
        <3>4. CASE fails BY <1>1, <1>4, <2>2, <3>1, <3>2, <3>4, Failed
        <3>5. CASE ~fails BY <1>1, <1>4, <2>2, <3>1, <3>2, <3>3, <3>5, Taken
        <3>6. QED BY <3>4, <3>5
    <2>3. CASE ~Final(n + 1)
        <3>1. fails <=> Overflows(x, n * G) BY <1>3, <2>3
        <3>2. ASSUME ~fails PROVE v = Magnitude[n + 1]
            <4>1. Or(value, ov) = Magnitude[n + 1] /\ Magnitude[n + 1] < Pow[width]
                BY <1>2, <3>1, <3>2, WholeGroup
            <4>2. width \in Nat /\ Pow[width] \in Nat /\ 0 * Pow[width] = 0 /\ Magnitude[n + 1] \in Nat
                <5>1. width \in Nat /\ n + 1 \in 0 .. Len(bytes) BY <1>2, Sizes
                <5>2. Pow[width] \in Nat BY <5>1, PowIs
                <5>3. Magnitude[n + 1] \in Nat BY <1>2, <5>1, MagnitudeBound
                <5>4. 0 * Pow[width] = 0 BY <5>2
                <5>5. QED BY <5>1, <5>2, <5>3, <5>4
            <4>. DEFINE m == Magnitude[n + 1]
            <4>3. Or(m, 0 * Pow[width]) = m + 0 * Pow[width]
                <5>1. m < Pow[width] /\ 0 * Pow[width] < Pow[width] /\ m \in Nat /\ 0 \in Nat BY <4>1, <4>2
                <5>. HIDE DEF m
                <5>2. QED BY <4>2, <5>1, OrAdds
            <4>4. Or(m, 0) = m
                <5>1. m \in Nat BY <4>2
                <5>. HIDE DEF m
                <5>2. QED BY <4>2, <4>3, <5>1
            <4>5. QED BY <2>1, <4>1, <4>4
        <3>. HIDE DEF v, fails
        <3>3. CASE fails BY <1>1, <1>4, <1>6, <2>3, <3>3, Failed
        <3>4. CASE ~fails BY <1>1, <1>4, <2>3, <3>2, <3>4, Taken
        <3>5. QED BY <3>3, <3>4
    <2>4. QED BY <2>2, <2>3
<1>7. n + 1 < max_group \/ n + 1 = max_group BY <1>2, Sizes DEF Reads
<1>8. QED BY <1>5, <1>6, <1>7

LEMMA EndsStep == ASSUME LebInv, Ends PROVE LebInv'
<1>1. /\ SameInput /\ outcome = "reading" /\ (group = max_group \/ pos >= Len(bytes))
      /\ outcome' = IF group = max_group THEN "Overflow" ELSE "EndOfStream"
    BY DEF Ends, SameInput, Fail
<1>2. /\ InputOK /\ InputOK' /\ max_group \in Nat /\ Len(bytes) \in Nat
    BY <1>1, SameReference, Sizes DEF LebInv, InputOK
<1>3. /\ group \in Nat /\ group <= max_group /\ group <= Len(bytes) /\ pos = group
      /\ \A i \in 1 .. group : ~Final(i)
    BY <1>1 DEF LebInv
<1>. DEFINE k == max_group
            l == Len(bytes)
<1>4. /\ k \in Nat /\ l \in Nat /\ group \in Nat /\ group <= k /\ group <= l
      /\ group = k \/ group >= l
    BY <1>1, <1>2, <1>3
<1>5. (group >= k <=> group = k) /\ (group >= k \/ group = l)
    <2>. HIDE DEF k, l
    <2>. QED BY <1>4
<1>6. Correct(IF group >= k THEN "Overflow" ELSE "EndOfStream", pos', value')
    BY <1>2, <1>3, <1>5, NeverStops
<1>7. outcome' = (IF group >= k THEN "Overflow" ELSE "EndOfStream") /\ outcome' # "reading"
    BY <1>1, <1>5
<1>8. QED BY <1>1, <1>2, <1>6, <1>7, SameReference DEF LebInv

LEMMA LebInvInit == LebInit => LebInv
<1>1. HAVE LebInit
<1>2. PICK n \in 0 .. MaxBytes : bytes \in [1 .. n -> Byte] BY <1>1 DEF LebInit
<1>3. n \in Nat /\ bytes \in Seq(Byte) BY <1>2, LebAssumption
<1>4. InputOK BY <1>1, <1>3 DEF LebInit, InputOK
<1>5. Magnitude[0] = 0 BY <1>4, MagnitudeUnfold
<1>6. max_group \in Nat /\ Len(bytes) \in Nat BY <1>4, Sizes DEF InputOK
<1>7. /\ group = 0 /\ pos = 0 /\ value = 0 /\ outcome = "reading" BY <1>1 DEF LebInit
<1>8. \A i \in 1 .. 0 : ~Final(i) OBVIOUS
<1>9. QED BY <1>4, <1>5, <1>6, <1>7, <1>8 DEF LebInv

LEMMA LebInvNext == LebInv /\ [LebNext]_lebVars => LebInv'
<1>1. HAVE LebInv /\ [LebNext]_lebVars
<1>2. CASE Ends BY <1>1, <1>2, EndsStep
<1>3. CASE readUnsigned BY <1>1, <1>3, UnsignedStep
<1>4. CASE readSigned BY <1>1, <1>4, SignedStep
<1>5. CASE UNCHANGED lebVars
    <2>1. SameInput /\ outcome' = outcome /\ pos' = pos /\ group' = group /\ value' = value
        BY <1>5 DEF lebVars, SameInput
    <2>2. Len(bytes)' = Len(bytes) BY <2>1 DEF SameInput
    <2>3. QED BY <1>1, <2>1, <2>2, SameReference DEF LebInv
<1>6. QED BY <1>1, <1>2, <1>3, <1>4, <1>5 DEF LebNext

\* readUnsigned and readSigned decode every slice of bytes of any length, for
\* any number of payload bits and any wider type: an encoding is accepted
\* exactly when it is no longer than the type allows and its value fits, the
\* bits it yields are those of its value, and exactly its bytes are read; a
\* slice that ends too early is told from an encoding that is too long.
THEOREM DecodingIsExact == LebSpec => []DecodesExactly
<1>1. LebInv => DecodesExactly BY DEF LebInv, DecodesExactly, Correct
<1>2. QED BY <1>1, LebInvInit, LebInvNext, PTL DEF LebSpec
=============================================================================
