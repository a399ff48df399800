---------------------------- MODULE LeastElement ----------------------------
(***************************************************************************)
(* What the proofs use of the natural numbers. They are well-founded: a    *)
(* CHOOSE of the least element finds it, induction holds, and a recursive  *)
(* definition has the values it says. Division gives one quotient and one  *)
(* remainder.                                                              *)
(***************************************************************************)
EXTENDS Recursions, WellFoundedInduction, TLAPS

\* Every nonempty set of natural numbers has a least element.
LEMMA LeastNatural ==
  ASSUME NEW T \in SUBSET Nat, T # {}
  PROVE  \E x \in T : \A y \in T : x <= y
<1>1. PICK x \in T : \A y \in T : <<y, x>> \notin OpToRel(<, Nat)
  BY NatLessThanWellFounded, WFMin
<1>2. ASSUME NEW y \in T PROVE x <= y
  <2>1. <<y, x>> \in Nat \X Nat /\ <<y, x>>[1] = y /\ <<y, x>>[2] = x
    OBVIOUS
  <2>2. y < x => <<y, x>> \in OpToRel(<, Nat)
    BY <2>1 DEF OpToRel
  <2>3. ~(y < x)
    BY <1>1, <2>2
  <2> QED BY <2>3
<1> QED BY <1>2

\* Induction: a set that has 0, and with a number the next one, has them all.
LEMMA AllNaturals ==
  ASSUME NEW S, 0 \in S, \A n \in Nat : n \in S => n + 1 \in S
  PROVE  \A n \in Nat : n \in S
<1> DEFINE T == {n \in Nat : n \notin S}
<1>1. SUFFICES ASSUME T # {} PROVE FALSE
  BY <1>1
<1>2. PICK x \in T : \A y \in T : x <= y
  BY <1>1, LeastNatural
<1>3. x - 1 \in Nat /\ x - 1 \in S
  BY <1>2
<1>4. (x - 1) + 1 \in S
  BY <1>3
<1> QED BY <1>2, <1>4

-----------------------------------------------------------------------------
(* Recursive functions on the natural numbers *)

\* The first n values of the function that starts with a and goes on with g.
FirstValues(V, a, g, n, s) ==
  /\ s \in [0 .. n -> V]
  /\ s[0] = a
  /\ \A m \in 1 .. n : s[m] = g[<<m, s[m - 1]>>]

LEMMA FirstValuesAgree ==
  ASSUME NEW V, NEW a, NEW g, NEW n \in Nat, NEW m \in Nat, NEW s, NEW t,
         FirstValues(V, a, g, n, s), FirstValues(V, a, g, m, t)
  PROVE  \A k \in Nat : k <= n /\ k <= m => s[k] = t[k]
<1> DEFINE S == {k \in Nat : k <= n /\ k <= m => s[k] = t[k]}
<1>1. 0 \in S BY DEF FirstValues
<1>2. ASSUME NEW k \in Nat, k \in S PROVE k + 1 \in S
  <2> SUFFICES ASSUME k + 1 <= n, k + 1 <= m PROVE s[k + 1] = t[k + 1]
    OBVIOUS
  <2>1. s[k] = t[k] BY <1>2
  <2>2. k + 1 \in 1 .. n /\ k + 1 \in 1 .. m /\ (k + 1) - 1 = k OBVIOUS
  <2> QED BY <2>1, <2>2 DEF FirstValues
<1> HIDE DEF S
<1>3. \A k \in Nat : k \in S BY <1>1, <1>2, AllNaturals
<1> QED BY <1>3 DEF S

LEMMA FirstValuesExist ==
  ASSUME NEW V, NEW a \in V, NEW g, \A m \in Nat, v \in V : g[<<m, v>>] \in V
  PROVE  \A n \in Nat : \E s : FirstValues(V, a, g, n, s)
<1> DEFINE S == {n \in Nat : \E s : FirstValues(V, a, g, n, s)}
<1>1. 0 \in S
  <2>1. FirstValues(V, a, g, 0, [k \in 0 .. 0 |-> a]) BY DEF FirstValues
  <2> QED BY <2>1
<1>2. ASSUME NEW n \in Nat, n \in S PROVE n + 1 \in S
  <2>1. PICK s : FirstValues(V, a, g, n, s) BY <1>2
  <2> DEFINE t == [k \in 0 .. n + 1 |-> IF k <= n THEN s[k] ELSE g[<<n + 1, s[n]>>]]
  <2>2. s[n] \in V BY <2>1 DEF FirstValues
  <2>3. g[<<n + 1, s[n]>>] \in V BY <2>2
  <2>4. t \in [0 .. n + 1 -> V] BY <2>1, <2>3 DEF FirstValues
  <2>5. t[0] = a BY <2>1 DEF FirstValues
  <2>6. ASSUME NEW m \in 1 .. n + 1 PROVE t[m] = g[<<m, t[m - 1]>>]
    <3>1. CASE m <= n BY <3>1, <2>1 DEF FirstValues
    <3>2. CASE m = n + 1
      <4>1. t[n + 1] = g[<<n + 1, s[n]>>] /\ t[n] = s[n] /\ m - 1 = n BY <3>2
      <4> HIDE DEF t
      <4> QED BY <3>2, <4>1
    <3> QED BY <3>1, <3>2
  <2> HIDE DEF t
  <2>7. FirstValues(V, a, g, n + 1, t) BY <2>4, <2>5, <2>6 DEF FirstValues
  <2> QED BY <2>7
<1> HIDE DEF S
<1>3. \A n \in Nat : n \in S BY <1>1, <1>2, AllNaturals
<1> QED BY <1>3 DEF S

\* A step of a recursion, and a function that starts with a and takes these steps.
IsStep(V, g) == \A m \in Nat, v \in V : g[<<m, v>>] \in V
Recurses(V, a, g, f) ==
  /\ f \in [Nat -> V]
  /\ f[0] = a
  /\ \A n \in Nat : f[n + 1] = g[<<n + 1, f[n]>>]

\* There is a function with a given first value and a given step.
LEMMA RecursionExists ==
  ASSUME NEW V, NEW a \in V, NEW g, IsStep(V, g)
  PROVE  \E f : Recurses(V, a, g, f)
<1> DEFINE f == [n \in Nat |-> (CHOOSE s : FirstValues(V, a, g, n, s))[n]]
<1>1. \A n \in Nat : FirstValues(V, a, g, n, CHOOSE s : FirstValues(V, a, g, n, s)) BY FirstValuesExist DEF IsStep
<1>2. f \in [Nat -> V]
  <2>1. ASSUME NEW n \in Nat PROVE f[n] \in V
    <3> DEFINE s == CHOOSE v : FirstValues(V, a, g, n, v)
    <3>1. FirstValues(V, a, g, n, s) BY <1>1
    <3> HIDE DEF s
    <3>2. s[n] \in V BY <3>1 DEF FirstValues
    <3> QED BY <3>2 DEF s
  <2> QED BY <2>1
<1>3. f[0] = a BY <1>1 DEF FirstValues
<1>4. ASSUME NEW n \in Nat PROVE f[n + 1] = g[<<n + 1, f[n]>>]
  <2> DEFINE s == CHOOSE v : FirstValues(V, a, g, n, v)
             t == CHOOSE v : FirstValues(V, a, g, n + 1, v)
  <2>1. FirstValues(V, a, g, n, s) BY <1>1
  <2>2. FirstValues(V, a, g, n + 1, t) BY <1>1
  <2>3. f[n] = s[n] /\ f[n + 1] = t[n + 1] OBVIOUS
  <2> HIDE DEF s, t, f
  <2>4. s[n] = t[n] BY <2>1, <2>2, FirstValuesAgree
  <2>5. n + 1 \in 1 .. n + 1 /\ (n + 1) - 1 = n OBVIOUS
  <2>6. t[n + 1] = g[<<n + 1, t[n]>>] BY <2>2, <2>5 DEF FirstValues
  <2> QED BY <2>3, <2>4, <2>6
<1> HIDE DEF f
<1> QED BY <1>2, <1>3, <1>4 DEF Recurses

\* A recursion on the first n numbers.
LEMMA BoundedRecursion ==
  ASSUME NEW V, NEW a \in V, NEW g, IsStep(V, g), NEW n \in Nat
  PROVE  \E s : FirstValues(V, a, g, n, s)
<1>1. \A m \in Nat, v \in V : g[<<m, v>>] \in V BY DEF IsStep
<1> QED BY <1>1, FirstValuesExist

-----------------------------------------------------------------------------
(* Division *)

LEMMA Quotient ==
  ASSUME NEW n \in Nat, NEW m \in Nat \ {0}
  PROVE  /\ n \div m \in Nat /\ n % m \in 0 .. m - 1
         /\ n = m * (n \div m) + (n % m)
OBVIOUS

\* A quotient is found by any division with a remainder.
LEMMA QuotientIs ==
  ASSUME NEW n \in Nat, NEW m \in Nat \ {0}, NEW q \in Nat, NEW r \in 0 .. m - 1, n = m * q + r
  PROVE  n \div m = q /\ n % m = r
<1> DEFINE p == n \div m
           s == n % m
<1>1. p \in Nat /\ s \in 0 .. m - 1 /\ n = m * p + s BY Quotient
<1> HIDE DEF p, s
<1>2. m * p - m * q = m * (p - q) BY <1>1
<1>3. m * (p - q) = r - s BY <1>1, <1>2
<1>4. ~(p - q >= 1)
  <2>1. SUFFICES ASSUME p - q >= 1 PROVE FALSE OBVIOUS
  <2>2. m * (p - q) >= m BY <2>1, <1>1
  <2> QED BY <2>2, <1>3, <1>1
<1>5. ~(p - q <= -1)
  <2>1. SUFFICES ASSUME p - q <= -1 PROVE FALSE OBVIOUS
  <2>2. m * (p - q) <= -m BY <2>1, <1>1
  <2> QED BY <2>2, <1>3, <1>1
<1>6. p = q BY <1>1, <1>4, <1>5
<1> QED BY <1>1, <1>6 DEF p, s

\* Divisions one after the other are one by the product.
LEMMA DivisionTwice ==
  ASSUME NEW n \in Nat, NEW a \in Nat \ {0}, NEW b \in Nat \ {0}
  PROVE  (n \div a) \div b = n \div (a * b)
<1> DEFINE q == n \div a
           r == n % a
           p == q \div b
           s == q % b
<1>1. q \in Nat /\ r \in 0 .. a - 1 /\ n = a * q + r BY Quotient
<1> HIDE DEF q, r
<1>2. p \in Nat /\ s \in 0 .. b - 1 /\ q = b * p + s BY <1>1, Quotient
<1> HIDE DEF p, s
<1>3. a * q = a * (b * p) + a * s BY <1>1, <1>2
<1>4. a * (b * p) = (a * b) * p BY <1>1, <1>2
<1>5. a * s <= a * (b - 1) /\ a * (b - 1) = a * b - a BY <1>1, <1>2
<1>6. a * b \in Nat \ {0} /\ a * s \in Nat BY <1>2
<1>7. a * s + r \in 0 .. a * b - 1 BY <1>1, <1>5, <1>6
<1>8. n = (a * b) * p + (a * s + r) BY <1>1, <1>2, <1>3, <1>4, <1>6
<1>9. n \div (a * b) = p BY <1>2, <1>6, <1>7, <1>8, QuotientIs
<1> QED BY <1>9 DEF p, q

LEMMA DivisionsCommute ==
  ASSUME NEW n \in Nat, NEW a \in Nat \ {0}, NEW b \in Nat \ {0}
  PROVE  (n \div a) \div b = (n \div b) \div a
<1>1. a * b = b * a OBVIOUS
<1>2. (n \div a) \div b = n \div (a * b) BY DivisionTwice
<1>3. (n \div b) \div a = n \div (b * a) BY DivisionTwice
<1> QED BY <1>1, <1>2, <1>3

-----------------------------------------------------------------------------
(* Powers of two *)

LEMMA TwoToDef ==
  /\ TwoTo[0] = 1
  /\ \A d \in Nat : TwoTo[d] \in Nat \ {0} /\ TwoTo[d + 1] = 2 * TwoTo[d]
<1> DEFINE V == Nat \ {0}
           g == [p \in Nat \X V |-> 2 * p[2]]
           D(f) == [d \in Nat |-> IF d = 0 THEN 1 ELSE 2 * f[d - 1]]
           P(h) == h = D(h)
<1>1. 1 \in V OBVIOUS
<1>2. \A m \in Nat, v \in V : g[<<m, v>>] = 2 * v OBVIOUS
<1>3. ASSUME NEW m \in Nat, NEW v \in V PROVE g[<<m, v>>] \in V
  <2>1. g[<<m, v>>] = 2 * v /\ 2 * v \in V BY <1>2
  <2> HIDE DEF g, V
  <2> QED BY <2>1
<1> HIDE DEF g
<1>4. PICK f \in [Nat -> V] : f[0] = 1 /\ \A n \in Nat : f[n + 1] = g[<<n + 1, f[n]>>]
  <2> HIDE DEF V
  <2>1. IsStep(V, g) BY <1>3 DEF IsStep
  <2>2. \E f : Recurses(V, 1, g, f) BY <1>1, <2>1, RecursionExists
  <2> QED BY <2>2 DEF Recurses
<1>5. ASSUME NEW n \in Nat PROVE f[n] \in V /\ f[n + 1] = 2 * f[n]
  <2>1. f[n] \in V BY <1>4
  <2>2. g[<<n + 1, f[n]>>] = 2 * f[n]
    <3> HIDE DEF V
    <3> QED BY <1>2, <2>1
  <2> QED BY <2>1, <2>2, <1>4
<1>6. ASSUME NEW n \in Nat PROVE f[n] = IF n = 0 THEN 1 ELSE 2 * f[n - 1]
  <2>1. CASE n = 0 BY <2>1, <1>4
  <2>2. CASE n # 0
    <3>1. n - 1 \in Nat /\ (n - 1) + 1 = n BY <2>2
    <3> QED BY <1>5, <2>2, <3>1
  <2> QED BY <2>1, <2>2
<1>7. P(f) BY <1>4, <1>6
<1>8. TwoTo = CHOOSE h : P(h) BY DEF TwoTo
<1>9. P(TwoTo)
  <2> HIDE DEF P
  <2> QED BY <1>7, <1>8, Zenon
<1>10. TwoTo[0] = 1 BY <1>9
<1>11. ASSUME NEW d \in Nat PROVE TwoTo[d + 1] = 2 * TwoTo[d]
  <2>1. d + 1 \in Nat /\ d + 1 # 0 /\ (d + 1) - 1 = d OBVIOUS
  <2>2. TwoTo[d + 1] = IF d + 1 = 0 THEN 1 ELSE 2 * TwoTo[(d + 1) - 1] BY <1>9, <2>1
  <2> QED BY <2>1, <2>2
<1> DEFINE S == {d \in Nat : TwoTo[d] \in V}
<1>12. 0 \in S BY <1>10
<1>13. ASSUME NEW d \in Nat, d \in S PROVE d + 1 \in S BY <1>11, <1>13
<1> HIDE DEF S
<1>14. \A d \in Nat : d \in S BY <1>12, <1>13, AllNaturals
<1> QED BY <1>10, <1>11, <1>14 DEF S

LEMMA TwoToSum ==
  ASSUME NEW m \in Nat
  PROVE  \A n \in Nat : TwoTo[m + n] = TwoTo[m] * TwoTo[n]
<1> DEFINE S == {n \in Nat : TwoTo[m + n] = TwoTo[m] * TwoTo[n]}
<1>1. TwoTo[m] \in Nat BY TwoToDef
<1>2. 0 \in S
  <2>1. TwoTo[m + 0] = TwoTo[m] * 1 BY <1>1
  <2> QED BY <2>1, TwoToDef
<1>3. ASSUME NEW n \in Nat, n \in S PROVE n + 1 \in S
  <2>1. TwoTo[m + n] = TwoTo[m] * TwoTo[n] BY <1>3
  <2>2. m + n \in Nat /\ m + (n + 1) = (m + n) + 1 OBVIOUS
  <2>3. TwoTo[m + (n + 1)] = 2 * TwoTo[m + n] BY <2>2, TwoToDef
  <2>4. TwoTo[n] \in Nat /\ TwoTo[n + 1] = 2 * TwoTo[n] BY TwoToDef
  <2>5. 2 * (TwoTo[m] * TwoTo[n]) = TwoTo[m] * (2 * TwoTo[n]) BY <1>1, <2>4
  <2>6. TwoTo[m + (n + 1)] = TwoTo[m] * TwoTo[n + 1] BY <2>1, <2>3, <2>4, <2>5
  <2> QED BY <2>6
<1> HIDE DEF S
<1>4. \A n \in Nat : n \in S BY <1>2, <1>3, AllNaturals
<1> QED BY <1>4 DEF S

-----------------------------------------------------------------------------
(* Sums and joined sequences *)

\* SumTo has the sums of the first elements.
LEMMA SumToDef ==
  ASSUME NEW s \in Seq(Nat)
  PROVE  /\ SumTo(s) \in [0 .. Len(s) -> Nat]
         /\ SumTo(s)[0] = 0
         /\ \A k \in 1 .. Len(s) : SumTo(s)[k] = SumTo(s)[k - 1] + s[k]
<1> DEFINE n == Len(s)
           T(m) == IF m \in 1 .. n THEN s[m] ELSE 0
           g == [p \in Nat \X Nat |-> p[2] + T(p[1])]
           D(f) == [k \in 0 .. n |-> IF k = 0 THEN 0 ELSE f[k - 1] + s[k]]
           P(h) == h = D(h)
<1>1. n \in Nat /\ \A m \in Nat : T(m) \in Nat OBVIOUS
<1>2. \A m \in Nat, v \in Nat : g[<<m, v>>] = v + T(m)
  <2> HIDE DEF T
  <2> QED OBVIOUS
<1>3. IsStep(Nat, g)
  <2>1. ASSUME NEW m \in Nat, NEW v \in Nat PROVE g[<<m, v>>] \in Nat
    <3>1. T(m) \in Nat /\ g[<<m, v>>] = v + T(m) BY <1>1, <1>2
    <3> HIDE DEF g, T
    <3> QED BY <3>1
  <2> HIDE DEF g, T
  <2> QED BY <2>1 DEF IsStep
<1> HIDE DEF g
<1>4. PICK f \in [0 .. n -> Nat] : f[0] = 0 /\ \A m \in 1 .. n : f[m] = g[<<m, f[m - 1]>>]
  <2>1. 0 \in Nat /\ n \in Nat BY <1>1
  <2> HIDE DEF n
  <2>2. \E f : FirstValues(Nat, 0, g, n, f) BY <2>1, <1>3, BoundedRecursion
  <2> QED BY <2>2 DEF FirstValues
<1>5. ASSUME NEW m \in 1 .. n PROVE f[m] = f[m - 1] + s[m]
  <2>1. m \in Nat /\ m - 1 \in 0 .. n /\ f[m - 1] \in Nat BY <1>1, <1>4
  <2>2. T(m) = s[m] OBVIOUS
  <2> HIDE DEF T, n
  <2> QED BY <2>1, <2>2, <1>2, <1>4
<1>6. P(f) BY <1>4, <1>5
<1>7. SumTo(s) = CHOOSE h : P(h) BY DEF SumTo
<1>8. P(SumTo(s))
  <2> HIDE DEF P
  <2> QED BY <1>6, <1>7, Zenon
<1> DEFINE h == SumTo(s)
<1> HIDE DEF h
<1>9. h = [k \in 0 .. n |-> IF k = 0 THEN 0 ELSE h[k - 1] + s[k]] BY <1>8 DEF h
<1>10. h[0] = 0 /\ \A k \in 1 .. n : h[k] = h[k - 1] + s[k] BY <1>9, <1>1
<1> DEFINE S == {k \in Nat : k <= n => h[k] \in Nat}
<1>11. 0 \in S BY <1>10
<1>12. ASSUME NEW k \in Nat, k \in S PROVE k + 1 \in S
  <2>1. SUFFICES ASSUME k + 1 <= n PROVE h[k + 1] \in Nat OBVIOUS
  <2>2. k + 1 \in 1 .. n /\ (k + 1) - 1 = k /\ s[k + 1] \in Nat BY <2>1
  <2>3. h[k] \in Nat BY <1>12, <2>1
  <2> QED BY <2>2, <2>3, <1>10
<1> HIDE DEF S
<1>13. \A k \in Nat : k \in S BY <1>11, <1>12, AllNaturals
<1>14. \A k \in 0 .. n : h[k] \in Nat BY <1>13 DEF S
<1>15. h \in [0 .. n -> Nat]
  <2> HIDE DEF n
  <2> QED BY <1>9, <1>14
<1> QED BY <1>10, <1>15 DEF h

\* The sums never fall.
LEMMA SumToGrows ==
  ASSUME NEW s \in Seq(Nat), NEW i \in 0 .. Len(s)
  PROVE  \A k \in Nat : k \in i .. Len(s) => SumTo(s)[i] <= SumTo(s)[k]
<1> DEFINE S == {k \in Nat : i + k <= Len(s) => SumTo(s)[i] <= SumTo(s)[i + k]}
<1>1. 0 \in S
  <2>1. SumTo(s)[i] \in Nat /\ i + 0 = i BY SumToDef
  <2> QED BY <2>1
<1>2. ASSUME NEW k \in Nat, k \in S PROVE k + 1 \in S
  <2>1. SUFFICES ASSUME i + (k + 1) <= Len(s) PROVE SumTo(s)[i] <= SumTo(s)[i + (k + 1)] OBVIOUS
  <2> DEFINE m == i + (k + 1)
  <2>2. m \in 1 .. Len(s) /\ m - 1 = i + k /\ m - 1 \in 0 .. Len(s) /\ s[m] \in Nat BY <2>1
  <2>3. SumTo(s)[m] = SumTo(s)[m - 1] + s[m] BY <2>2, SumToDef
  <2>4. SumTo(s)[i] <= SumTo(s)[m - 1] BY <1>2, <2>1, <2>2
  <2>5. SumTo(s)[i] \in Nat /\ SumTo(s)[m - 1] \in Nat BY <2>2, SumToDef
  <2> HIDE DEF m
  <2>6. SumTo(s)[i] <= SumTo(s)[m] BY <2>2, <2>3, <2>4, <2>5
  <2> QED BY <2>6 DEF m
<1> HIDE DEF S
<1>3. \A k \in Nat : k \in S BY <1>1, <1>2, AllNaturals
<1>4. ASSUME NEW k \in i .. Len(s) PROVE SumTo(s)[i] <= SumTo(s)[k]
  <2>1. k - i \in Nat /\ i + (k - i) = k /\ k <= Len(s) OBVIOUS
  <2>2. k - i \in S BY <1>3, <2>1
  <2> QED BY <2>1, <2>2 DEF S
<1> QED BY <1>4

\* The elements of two sequences, one after the other.
LEMMA ConcatAt ==
  ASSUME NEW U, NEW s \in Seq(U), NEW t \in Seq(U)
  PROVE  /\ s \o t \in Seq(U) /\ Len(s \o t) = Len(s) + Len(t)
         /\ \A i \in 1 .. Len(s) : (s \o t)[i] = s[i]
         /\ \A i \in 1 .. Len(t) : (s \o t)[Len(s) + i] = t[i]
OBVIOUS

\* JoinedTo joins one sequence after the other.
LEMMA JoinedDef ==
  ASSUME NEW U, NEW p \in Seq(Seq(U))
  PROVE  /\ JoinedTo(p) \in [0 .. Len(p) -> Seq(U)]
         /\ JoinedTo(p)[0] = <<>>
         /\ \A k \in 1 .. Len(p) : JoinedTo(p)[k] = JoinedTo(p)[k - 1] \o p[k]
<1> DEFINE n == Len(p)
           V == Seq(U)
           T(m) == IF m \in 1 .. n THEN p[m] ELSE <<>>
           g == [q \in Nat \X V |-> q[2] \o T(q[1])]
           D(f) == [k \in 0 .. n |-> IF k = 0 THEN <<>> ELSE f[k - 1] \o p[k]]
           P(h) == h = D(h)
<1>1. n \in Nat /\ <<>> \in V /\ \A m \in Nat : T(m) \in V OBVIOUS
<1>2. \A m \in Nat, v \in V : g[<<m, v>>] = v \o T(m)
  <2> HIDE DEF T, V
  <2> QED OBVIOUS
<1>3. IsStep(V, g)
  <2>1. ASSUME NEW m \in Nat, NEW v \in V PROVE g[<<m, v>>] \in V
    <3>1. T(m) \in V /\ g[<<m, v>>] = v \o T(m) BY <1>1, <1>2
    <3> HIDE DEF g, T
    <3>2. v \o T(m) \in V BY <3>1
    <3> QED BY <3>1, <3>2
  <2> HIDE DEF g, T, V
  <2> QED BY <2>1 DEF IsStep
<1> HIDE DEF g
<1>4. PICK f \in [0 .. n -> V] : f[0] = <<>> /\ \A m \in 1 .. n : f[m] = g[<<m, f[m - 1]>>]
  <2>1. <<>> \in V /\ n \in Nat BY <1>1
  <2> HIDE DEF n, V
  <2>2. \E f : FirstValues(V, <<>>, g, n, f) BY <2>1, <1>3, BoundedRecursion
  <2> QED BY <2>2 DEF FirstValues
<1>5. ASSUME NEW m \in 1 .. n PROVE f[m] = f[m - 1] \o p[m]
  <2>1. m \in Nat /\ m - 1 \in 0 .. n BY <1>1
  <2>2. T(m) = p[m] OBVIOUS
  <2> HIDE DEF T, n, V
  <2>3. f[m - 1] \in V BY <2>1, <1>4
  <2> QED BY <2>1, <2>2, <2>3, <1>2, <1>4
<1>6. P(f)
  <2>1. \A k \in 0 .. n : f[k] = IF k = 0 THEN <<>> ELSE f[k - 1] \o p[k]
    <3>1. \A k \in 0 .. n : k # 0 => k \in 1 .. n OBVIOUS
    <3> HIDE DEF n, V
    <3> QED BY <1>4, <1>5, <3>1
  <2> HIDE DEF n, V
  <2> QED BY <1>4, <2>1
<1>7. JoinedTo(p) = CHOOSE h : P(h) BY DEF JoinedTo
<1>8. P(JoinedTo(p))
  <2> HIDE DEF P
  <2> QED BY <1>6, <1>7, Zenon
<1> DEFINE h == JoinedTo(p)
<1> HIDE DEF h
<1>9. h = [k \in 0 .. n |-> IF k = 0 THEN <<>> ELSE h[k - 1] \o p[k]] BY <1>8 DEF h
<1>10. h[0] = <<>> /\ \A k \in 1 .. n : h[k] = h[k - 1] \o p[k]
  <2>1. 0 \in 0 .. n /\ \A k \in 1 .. n : k \in 0 .. n /\ k # 0 OBVIOUS
  <2> HIDE DEF n
  <2> QED BY <1>9, <2>1
<1> DEFINE S == {k \in Nat : k <= n => h[k] \in V}
<1>11. 0 \in S
  <2>1. h[0] \in V BY <1>1, <1>10
  <2> QED BY <2>1
<1>12. ASSUME NEW k \in Nat, k \in S PROVE k + 1 \in S
  <2>1. SUFFICES ASSUME k + 1 <= n PROVE h[k + 1] \in V OBVIOUS
  <2>2. k + 1 \in 1 .. n /\ (k + 1) - 1 = k /\ p[k + 1] \in V BY <2>1
  <2>3. h[k] \in V BY <1>12, <2>1, <1>1
  <2>4. h[k] \o p[k + 1] \in V BY <2>2, <2>3
  <2>5. h[k + 1] = h[k] \o p[k + 1]
    <3> HIDE DEF n
    <3> QED BY <2>2, <1>10
  <2> QED BY <2>4, <2>5
<1> HIDE DEF S
<1>13. \A k \in Nat : k \in S BY <1>11, <1>12, AllNaturals
<1>14. \A k \in 0 .. n : h[k] \in V BY <1>13 DEF S
<1>15. h \in [0 .. n -> V]
  <2> HIDE DEF n, V
  <2> QED BY <1>9, <1>14
<1> QED BY <1>10, <1>15 DEF h

LengthsOf(p) == [i \in 1 .. Len(p) |-> Len(p[i])]

LEMMA LengthsAreSizes ==
  ASSUME NEW U, NEW p \in Seq(Seq(U))
  PROVE  /\ LengthsOf(p) \in Seq(Nat) /\ Len(LengthsOf(p)) = Len(p)
         /\ \A i \in 1 .. Len(p) : LengthsOf(p)[i] = Len(p[i])
<1>1. \A i \in 1 .. Len(p) : Len(p[i]) \in Nat OBVIOUS
<1> QED BY <1>1 DEF LengthsOf

\* Where the elements of the joined sequences are.
JoinedUpTo(p, k) ==
  /\ Len(JoinedTo(p)[k]) = SumTo(LengthsOf(p))[k]
  /\ \A i \in 1 .. k : \A n \in 1 .. Len(p[i]) :
       JoinedTo(p)[k][SumTo(LengthsOf(p))[i - 1] + n] = p[i][n]

LEMMA JoinedAt ==
  ASSUME NEW U, NEW p \in Seq(Seq(U))
  PROVE  \A k \in Nat : k <= Len(p) => JoinedUpTo(p, k)
<1> DEFINE J == JoinedTo(p)
           L == SumTo(LengthsOf(p))
           A(k) == \A i \in 1 .. k : \A n \in 1 .. Len(p[i]) : J[k][L[i - 1] + n] = p[i][n]
           S == {k \in Nat : k <= Len(p) => Len(J[k]) = L[k] /\ A(k)}
<1>1. /\ J \in [0 .. Len(p) -> Seq(U)] /\ J[0] = <<>>
      /\ \A k \in 1 .. Len(p) : J[k] = J[k - 1] \o p[k] BY JoinedDef
<1>2. /\ L \in [0 .. Len(p) -> Nat] /\ L[0] = 0
      /\ \A k \in 1 .. Len(p) : L[k] = L[k - 1] + Len(p[k])
  BY LengthsAreSizes, SumToDef
<1>3. \A i \in 0 .. Len(p), k \in 0 .. Len(p) : i <= k => L[i] <= L[k]
  BY LengthsAreSizes, SumToGrows
<1> HIDE DEF J, L
<1>4. 0 \in S BY <1>1, <1>2
<1>5. ASSUME NEW k \in Nat, k \in S PROVE k + 1 \in S
  <2>1. SUFFICES ASSUME k + 1 <= Len(p) PROVE Len(J[k + 1]) = L[k + 1] /\ A(k + 1)
    <3> HIDE DEF A
    <3> QED BY <2>1
  <2>2. Len(J[k]) = L[k] /\ A(k)
    <3> HIDE DEF A
    <3> QED BY <1>5, <2>1
  <2>3. k + 1 \in 1 .. Len(p) /\ (k + 1) - 1 = k /\ k \in 0 .. Len(p) BY <2>1
  <2>4. J[k + 1] = J[k] \o p[k + 1] BY <1>1, <2>3
  <2>5. L[k + 1] = L[k] + Len(p[k + 1]) BY <1>2, <2>3
  <2>6. J[k] \in Seq(U) /\ p[k + 1] \in Seq(U)
    <3>1. J[k] \in Seq(U)
      <4> DEFINE Q == Seq(U)
      <4> HIDE DEF Q
      <4>1. J[k] \in Q BY <1>1, <2>3 DEF Q
      <4> QED BY <4>1 DEF Q
    <3> QED BY <2>3, <3>1
  <2> DEFINE a == J[k]
             b == p[k + 1]
  <2>c. /\ Len(a \o b) = Len(a) + Len(b)
        /\ \A i \in 1 .. Len(a) : (a \o b)[i] = a[i]
        /\ \A i \in 1 .. Len(b) : (a \o b)[Len(a) + i] = b[i]
    <3>1. a \in Seq(U) /\ b \in Seq(U) BY <2>6
    <3> HIDE DEF a, b
    <3> QED BY <3>1, ConcatAt
  <2>7. Len(J[k + 1]) = L[k + 1] BY <2>2, <2>4, <2>5, <2>c
  <2>8. ASSUME NEW i \in 1 .. k + 1, NEW n \in 1 .. Len(p[i]) PROVE J[k + 1][L[i - 1] + n] = p[i][n]
    <3>1. CASE i = k + 1
      <4>1. L[k] \in Nat /\ L[i - 1] = L[k] /\ n \in 1 .. Len(p[k + 1]) BY <3>1, <1>2, <2>3
      <4>2. (J[k] \o p[k + 1])[L[k] + n] = p[k + 1][n] BY <4>1, <2>c, <2>2
      <4> QED BY <4>1, <4>2, <2>4, <3>1
    <3>2. CASE i # k + 1
      <4>1. i \in 1 .. k /\ i \in 1 .. Len(p) /\ i - 1 \in 0 .. Len(p) /\ i \in 0 .. Len(p) BY <3>2, <2>1
      <4>2. J[k][L[i - 1] + n] = p[i][n] BY <4>1, <2>2
      <4>0. i <= k BY <4>1
      <4>a. L[i] <= L[k] BY <4>0, <4>1, <1>3, <2>3
      <4>b. L[i] = L[i - 1] + Len(p[i]) BY <4>1, <1>2
      <4>c. L[i - 1] \in Nat /\ L[k] \in Nat BY <4>1, <1>2, <2>3
      <4>3. L[i] = L[i - 1] + Len(p[i]) /\ L[i] <= L[k] /\ L[i - 1] \in Nat /\ L[k] \in Nat
        BY <4>a, <4>b, <4>c
      <4>4. p[i] \in Seq(U) /\ Len(p[i]) \in Nat BY <4>1
      <4>5. L[i - 1] + n \in 1 .. Len(J[k]) BY <4>3, <4>4, <2>2
      <4>6. (J[k] \o p[k + 1])[L[i - 1] + n] = J[k][L[i - 1] + n] BY <4>5, <2>c
      <4> QED BY <4>2, <4>6, <2>4
    <3> QED BY <3>1, <3>2
  <2> QED BY <2>7, <2>8
<1> HIDE DEF S
<1>6. \A k \in Nat : k \in S BY <1>4, <1>5, AllNaturals
<1> QED BY <1>6 DEF S, J, L, JoinedUpTo

LEMMA JoinedWhole ==
  ASSUME NEW U, NEW p \in Seq(Seq(U))
  PROVE  /\ Joined(p) \in Seq(U)
         /\ Len(Joined(p)) = SumTo(LengthsOf(p))[Len(p)]
         /\ \A i \in 1 .. Len(p) : \A n \in 1 .. Len(p[i]) : Joined(p)[SumTo(LengthsOf(p))[i - 1] + n] = p[i][n]
<1> DEFINE c == Len(p)
           J == JoinedTo(p)
           K == SumTo(LengthsOf(p))
<1>1. c \in Nat /\ c <= Len(p) OBVIOUS
<1>2. JoinedUpTo(p, c)
  <2> HIDE DEF c
  <2> QED BY <1>1, JoinedAt
<1>3. Len(J[c]) = K[c] /\ \A i \in 1 .. c : \A n \in 1 .. Len(p[i]) : J[c][K[i - 1] + n] = p[i][n]
  <2> HIDE DEF c
  <2> QED BY <1>2 DEF JoinedUpTo
<1>4. J[c] \in Seq(U)
  <2> DEFINE Q == Seq(U)
  <2>1. J \in [0 .. c -> Seq(U)] BY JoinedDef
  <2> HIDE DEF Q, J
  <2>2. J \in [0 .. c -> Q] BY <2>1 DEF Q
  <2>3. c \in 0 .. c BY <1>1
  <2> HIDE DEF c
  <2>4. J[c] \in Q BY <2>2, <2>3
  <2> QED BY <2>4 DEF Q
<1> QED BY <1>3, <1>4 DEF Joined
=============================================================================
