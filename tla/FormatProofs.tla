---------------------------- MODULE FormatProofs ----------------------------
(***************************************************************************)
(* What the components must agree on to the bit: the numbers that the      *)
(* expiry server, the storage nodes and disk_storage give to a metatile,   *)
(* proved equal or apart bit by bit, and the layout of a metatile file,    *)
(* proved over tables of any length from prefix sums.                      *)
(***************************************************************************)
EXTENDS TileIndex, MetaTile, LeastElement, TLAPS

-----------------------------------------------------------------------------
(* Numbers of tiles *)

IsTile(t) == t.z \in 3 .. 18 /\ t \in Level(t.z)

LEMMA TwoToGrows ==
  ASSUME NEW m \in Nat, NEW n \in Nat, m <= n
  PROVE  TwoTo[m] <= TwoTo[n]
<1>1. n - m \in Nat /\ m + (n - m) = n OBVIOUS
<1>2. TwoTo[n] = TwoTo[m] * TwoTo[n - m] BY <1>1, TwoToSum
<1> DEFINE a == TwoTo[m]
           b == TwoTo[n - m]
<1>3. a \in Nat \ {0} /\ b \in Nat \ {0} BY <1>1, TwoToDef
<1> HIDE DEF a, b
<1>4. a <= a * b BY <1>3
<1> QED BY <1>2, <1>4 DEF a, b

LEMMA TwoToSmall == TwoTo[0] = 1 /\ TwoTo[2] = 4 /\ TwoTo[3] = 8 /\ TwoTo[4] = 16
<1>1. TwoTo[0 + 1] = 2 * TwoTo[0] /\ TwoTo[1 + 1] = 2 * TwoTo[1] /\ TwoTo[2 + 1] = 2 * TwoTo[2]
      /\ TwoTo[3 + 1] = 2 * TwoTo[3]
  BY TwoToDef
<1> QED BY <1>1, TwoToDef

\* The coordinates of a metatile, of which a level has TwoTo[z - 3] in a row.
LEMMA MetaCoordinates ==
  ASSUME NEW t, IsTile(t)
  PROVE  /\ t.z - 3 \in 0 .. 15 /\ TwoTo[t.z - 3] \in Nat \ {0} /\ TwoTo[t.z] = 8 * TwoTo[t.z - 3]
         /\ t.x \in 0 .. TwoTo[t.z] - 1 /\ t.y \in 0 .. TwoTo[t.z] - 1
         /\ t.x \div 8 \in 0 .. TwoTo[t.z - 3] - 1
         /\ t.y \div 8 \in 0 .. TwoTo[t.z - 3] - 1
<1>1. t.z \in 3 .. 18 /\ t.x \in 0 .. TwoTo[t.z] - 1 /\ t.y \in 0 .. TwoTo[t.z] - 1
  BY DEF IsTile, Level
<1> DEFINE z == t.z
           x == t.x
           y == t.y
           T == TwoTo[z - 3]
<1>2. z \in 3 .. 18 BY <1>1
<1> HIDE DEF z
<1>3. z - 3 \in Nat /\ 3 + (z - 3) = z /\ z - 3 \in 0 .. 15 BY <1>2
<1>4. TwoTo[3 + (z - 3)] = TwoTo[3] * TwoTo[z - 3] BY <1>3, TwoToSum
<1>5. TwoTo[z] = 8 * T BY <1>3, <1>4, TwoToSmall
<1>6. T \in Nat \ {0} BY <1>3, TwoToDef
<1> HIDE DEF T
<1>7. x \in 0 .. 8 * T - 1 /\ y \in 0 .. 8 * T - 1 BY <1>1, <1>5 DEF z
<1> HIDE DEF x, y
<1>8. x \div 8 \in 0 .. T - 1 /\ y \div 8 \in 0 .. T - 1 BY <1>6, <1>7
<1> QED BY <1>1, <1>3, <1>5, <1>6, <1>8 DEF x, y, z, T

\* xy_frag has both coordinates and fits the bits it is given.
LEMMA XyFragIs ==
  ASSUME NEW t, IsTile(t)
  PROVE  /\ xy_frag(t) \in 0 .. TwoTo[2 * (t.z - 3)] - 1
         /\ xy_frag(t) \div TwoTo[t.z - 3] = t.x \div 8
         /\ xy_frag(t) % TwoTo[t.z - 3] = t.y \div 8
<1> DEFINE T == TwoTo[t.z - 3]
           x == t.x \div 8
           y == t.y \div 8
           v == xy_frag(t)
<1>1. T \in Nat \ {0} /\ x \in 0 .. T - 1 /\ y \in 0 .. T - 1 BY MetaCoordinates
<1>2. v = x * T + y BY DEF xy_frag
<1>3. TwoTo[2 * (t.z - 3)] = T * T
  <2> DEFINE n == t.z - 3
  <2>1. n \in Nat BY MetaCoordinates
  <2> HIDE DEF n
  <2>2. TwoTo[n + n] = TwoTo[n] * TwoTo[n] BY <2>1, TwoToSum
  <2>3. 2 * n = n + n BY <2>1
  <2>4. TwoTo[2 * n] = TwoTo[n] * TwoTo[n] BY <2>2, <2>3
  <2> QED BY <2>4 DEF n
<1> HIDE DEF T, x, y, v
<1>4. x * T = T * x /\ x * T \in Nat BY <1>1
<1>5. x * T <= (T - 1) * T /\ (T - 1) * T = T * T - T BY <1>1
<1>6. v \in 0 .. T * T - 1 BY <1>1, <1>2, <1>4, <1>5
<1>7. v \in Nat /\ v = T * x + y BY <1>1, <1>2, <1>4
<1>8. v \div T = x /\ v % T = y BY <1>1, <1>7, QuotientIs
<1> QED BY <1>3, <1>6, <1>8 DEF T, x, y, v

\* The three ranges of tile_to_frag: the number in its upper four bits tells
\* which of them a tile is in.
LEMMA FragIs ==
  ASSUME NEW t, IsTile(t)
  PROVE  /\ t.z = 18 => /\ tile_to_frag(t).high \in 0 .. 3
                        /\ xy_frag(t) = TwoTo[28] * tile_to_frag(t).high + tile_to_frag(t).low
         /\ t.z \in 14 .. 17 => tile_to_frag(t).high = 4 + (17 - t.z) /\ tile_to_frag(t).low = xy_frag(t)
         /\ t.z \in 3 .. 13 =>
              /\ tile_to_frag(t).high = 8 + (13 - t.z) \div 4
              /\ tile_to_frag(t).low = ((13 - t.z) % 4) * TwoTo[26] + xy_frag(t)
              /\ xy_frag(t) \in 0 .. TwoTo[26] - 1
<1> DEFINE z == t.z
           v == xy_frag(t)
           K == TwoTo[26]
           C == TwoTo[28]
<1>1. z \in 3 .. 18 /\ v \in 0 .. TwoTo[2 * (z - 3)] - 1 BY XyFragIs DEF IsTile
<1>2. K \in Nat \ {0} /\ C \in Nat \ {0} /\ C = 4 * K /\ TwoTo[30] = 4 * C
  <2>1. TwoTo[26 + 2] = TwoTo[26] * TwoTo[2] /\ TwoTo[28 + 2] = TwoTo[28] * TwoTo[2] BY TwoToSum
  <2>2. TwoTo[26] \in Nat \ {0} /\ TwoTo[28] \in Nat \ {0} BY TwoToDef
  <2> QED BY <2>1, <2>2, TwoToSmall
<1>3. tile_to_frag(t) = IF z = 18 THEN Word(0, v)
                        ELSE IF z > 13 THEN Word(4 + (17 - z), v)
                        ELSE Word(8 + (13 - z) \div 4, ((13 - z) % 4) * K + v)
  BY DEF tile_to_frag
<1>4. \A h, l : Word(h, l).high = h + l \div C /\ Word(h, l).low = l % C
  BY DEF Word
<1> HIDE DEF z, v, K, C
<1>5. CASE z = 18
  <2>1. v \in 0 .. 4 * C - 1
    <3>1. 2 * (z - 3) = 30 BY <1>5
    <3> QED BY <1>1, <1>2, <3>1
  <2> DEFINE q == v \div C
             r == v % C
  <2>2. q \in Nat /\ r \in 0 .. C - 1 /\ v = C * q + r
    <3>1. v \in Nat BY <1>2, <2>1
    <3> QED BY <1>2, <3>1, Quotient
  <2>3. tile_to_frag(t).high = 0 + q /\ tile_to_frag(t).low = r
    <3>1. tile_to_frag(t) = Word(0, v) BY <1>3, <1>5
    <3> QED BY <1>4, <3>1
  <2> HIDE DEF q, r
  <2>4. q <= 3
    <3>1. SUFFICES ASSUME q >= 4 PROVE FALSE BY <2>2
    <3>2. C * q >= C * 4 BY <3>1, <1>2, <2>2
    <3>3. v >= 4 * C BY <3>2, <1>2, <2>1, <2>2
    <3> QED BY <3>3, <1>2, <2>1
  <2>5. 0 + q = q BY <2>2
  <2> QED BY <1>5, <2>2, <2>3, <2>4, <2>5 DEF z, v, C
<1>6. CASE z \in 14 .. 17
  <2>1. 2 * (z - 3) \in Nat /\ 2 * (z - 3) <= 28 /\ z # 18 /\ z > 13 /\ ~(z \in 3 .. 13) BY <1>6
  <2>2. v \in 0 .. C - 1
    <3>1. TwoTo[2 * (z - 3)] <= TwoTo[28] /\ TwoTo[2 * (z - 3)] \in Nat BY <2>1, TwoToGrows, TwoToDef
    <3>2. TwoTo[2 * (z - 3)] <= C BY <3>1 DEF C
    <3> QED BY <1>1, <1>2, <3>1, <3>2
  <2>3. v \div C = 0 /\ v % C = v
    <3>1. v \in Nat /\ v = C * 0 + v BY <1>2, <2>2
    <3> QED BY <1>2, <2>2, <3>1, QuotientIs
  <2>4. tile_to_frag(t).high = (4 + (17 - z)) + v \div C /\ tile_to_frag(t).low = v % C
    <3>1. tile_to_frag(t) = Word(4 + (17 - z), v) BY <1>3, <2>1
    <3> QED BY <1>4, <3>1
  <2>5. tile_to_frag(t).high = 4 + (17 - z) /\ tile_to_frag(t).low = v BY <2>3, <2>4, <1>6
  <2> QED BY <2>1, <2>5 DEF z, v
<1>7. CASE z \in 3 .. 13
  <2>1. 2 * (z - 3) \in Nat /\ 2 * (z - 3) <= 26 /\ z # 18 /\ ~(z > 13) /\ ~(z \in 14 .. 17) BY <1>7
  <2>2. v \in 0 .. K - 1
    <3>1. TwoTo[2 * (z - 3)] <= TwoTo[26] /\ TwoTo[2 * (z - 3)] \in Nat BY <2>1, TwoToGrows, TwoToDef
    <3>2. TwoTo[2 * (z - 3)] <= K BY <3>1 DEF K
    <3> QED BY <1>1, <1>2, <3>1, <3>2
  <2> DEFINE r == (13 - z) % 4
             q == (13 - z) \div 4
             l == r * K + v
  <2>3. r \in 0 .. 3 /\ q \in Nat BY <1>7
  <2>4. tile_to_frag(t).high = (8 + q) + l \div C /\ tile_to_frag(t).low = l % C
    <3>1. tile_to_frag(t) = Word(8 + q, l) BY <1>3, <2>1
    <3> HIDE DEF q, l
    <3> QED BY <1>4, <3>1
  <2>5. l \in 0 .. C - 1
    <3> HIDE DEF r
    <3>1. r * K \in Nat /\ r * K <= 3 * K BY <1>2, <2>3
    <3> QED BY <2>2, <3>1, <1>2
  <2>6. l \div C = 0 /\ l % C = l
    <3> HIDE DEF l
    <3>1. l \in Nat /\ l = C * 0 + l BY <1>2, <2>5
    <3> QED BY <1>2, <2>5, <3>1, QuotientIs
  <2>7. (8 + q) + 0 = 8 + q
    <3> HIDE DEF q
    <3> QED BY <2>3
  <2>8. tile_to_frag(t).high = 8 + q /\ tile_to_frag(t).low = l
    <3> HIDE DEF q, l
    <3> QED BY <2>4, <2>6, <2>7
  <2> QED BY <2>1, <2>2, <2>8 DEF z, v, K
<1> QED BY <1>1, <1>5, <1>6, <1>7

\* No two metatiles have one fragment.
LEMMA FragsAreOwn ==
  ASSUME NEW t, NEW u, IsTile(t), IsTile(u), tile_to_frag(t) = tile_to_frag(u)
  PROVE  MetaOf(t) = MetaOf(u)
<1> DEFINE v == xy_frag(t)
           w == xy_frag(u)
           h == tile_to_frag(t).high
           l == tile_to_frag(t).low
           z == t.z
           c == u.z
           K == TwoTo[26]
<1>1. /\ z \in 3 .. 18
      /\ z = 18 => h \in 0 .. 3 /\ v = TwoTo[28] * h + l
      /\ z \in 14 .. 17 => h = 4 + (17 - z) /\ l = v
      /\ z \in 3 .. 13 => h = 8 + (13 - z) \div 4 /\ l = ((13 - z) % 4) * K + v /\ v \in 0 .. K - 1
  BY FragIs DEF IsTile
<1>2. /\ c \in 3 .. 18
      /\ c = 18 => h \in 0 .. 3 /\ w = TwoTo[28] * h + l
      /\ c \in 14 .. 17 => h = 4 + (17 - c) /\ l = w
      /\ c \in 3 .. 13 => h = 8 + (13 - c) \div 4 /\ l = ((13 - c) % 4) * K + w /\ w \in 0 .. K - 1
  BY FragIs DEF IsTile
<1>0. K \in Nat \ {0} BY TwoToDef
<1> HIDE DEF v, w, h, l, z, c, K
<1>3. z = c /\ v = w
  <2>1. CASE z = 18
    <3>1. c = 18 BY <2>1, <1>1, <1>2
    <3> QED BY <2>1, <3>1, <1>1, <1>2
  <2>2. CASE z \in 14 .. 17
    <3>1. c = z BY <2>2, <1>1, <1>2
    <3> QED BY <2>2, <3>1, <1>1, <1>2
  <2>3. CASE z \in 3 .. 13
    <3>1. c \in 3 .. 13 BY <2>3, <1>1, <1>2
    <3> DEFINE a == 13 - z
               b == 13 - c
               r == a % 4
               s == b % 4
    <3>2. a \in 0 .. 10 /\ b \in 0 .. 10 BY <2>3, <3>1
    <3>3. a \div 4 = b \div 4
      <4>1. a \div 4 \in Nat /\ b \div 4 \in Nat BY <3>2
      <4>2. 8 + a \div 4 = 8 + b \div 4 BY <2>3, <3>1, <1>1, <1>2
      <4> HIDE DEF a, b
      <4> QED BY <4>1, <4>2
    <3>4. l = r * K + v /\ l = s * K + w /\ v \in 0 .. K - 1 /\ w \in 0 .. K - 1
      BY <2>3, <3>1, <1>1, <1>2
    <3>5. r \in Nat /\ s \in Nat BY <3>2
    <3>6. r = s /\ v = w
      <4> HIDE DEF r, s
      <4>1. r * K = K * r /\ s * K = K * s BY <3>5, <1>0
      <4>2. l = K * r + v /\ l = K * s + w BY <4>1, <3>4
      <4>3. l \in Nat BY <4>2, <3>4, <3>5, <1>0
      <4>4. l \div K = r /\ l % K = v BY <4>2, <4>3, <3>4, <3>5, <1>0, QuotientIs
      <4>5. l \div K = s /\ l % K = w BY <4>2, <4>3, <3>4, <3>5, <1>0, QuotientIs
      <4> QED BY <4>4, <4>5
    <3>7. a = 4 * (a \div 4) + r /\ b = 4 * (b \div 4) + s BY <3>2
    <3>8. a = b BY <3>3, <3>6, <3>7
    <3> QED BY <3>6, <3>8, <1>1, <1>2 DEF a, b
  <2> QED BY <1>1, <2>1, <2>2, <2>3
<1>4. t.z = u.z /\ t.x \div 8 = u.x \div 8 /\ t.y \div 8 = u.y \div 8
  BY <1>3, XyFragIs DEF v, w, z, c
<1> QED BY <1>4 DEF MetaOf

\* The five nibbles of a path give the coordinate back.
LEMMA NibblesAreOwn ==
  ASSUME NEW m \in Nat, NEW n \in Nat, m < TwoTo[20], n < TwoTo[20],
         \A i \in 0 .. 4 : Nibble(m, i) = Nibble(n, i)
  PROVE  m = n
<1> DEFINE Q(k, i) == k \div TwoTo[4 * i]
<1>1. ASSUME NEW k \in Nat, NEW i \in 0 .. 4
      PROVE  Q(k, i) \in Nat /\ Q(k, i + 1) \in Nat /\ Q(k, i) = 16 * Q(k, i + 1) + Nibble(k, i)
  <2> DEFINE P == TwoTo[4 * i]
             R == TwoTo[4 * (i + 1)]
  <2>1. 4 * i \in Nat /\ 4 * (i + 1) = 4 * i + 4 OBVIOUS
  <2>2. P \in Nat \ {0} /\ R = P * 16
    <3> DEFINE j == 4 * i
    <3>1. j \in Nat /\ 4 * (i + 1) = j + 4 BY <2>1
    <3> HIDE DEF j
    <3>2. TwoTo[j + 4] = TwoTo[j] * TwoTo[4] /\ TwoTo[j] \in Nat \ {0} BY <3>1, TwoToSum, TwoToDef
    <3> QED BY <3>1, <3>2, TwoToSmall DEF j
  <2> HIDE DEF P, R
  <2>3. k \div P \in Nat BY <2>2, Quotient
  <2>4. (k \div P) \div 16 = k \div R BY <2>2, DivisionTwice
  <2> DEFINE q == k \div P
  <2> HIDE DEF q
  <2>5. q \div 16 \in Nat /\ q = 16 * (q \div 16) + (q % 16) BY <2>3 DEF q
  <2> QED BY <2>3, <2>4, <2>5 DEF q, P, R, Nibble
<1>2. ASSUME NEW k \in Nat, k < TwoTo[20] PROVE Q(k, 5) = 0
  <2>1. TwoTo[20] \in Nat \ {0} BY TwoToDef
  <2> DEFINE P == TwoTo[20]
  <2> HIDE DEF P
  <2>2. P \in Nat \ {0} /\ k \in 0 .. P - 1 /\ k = P * 0 + k BY <1>2, <2>1 DEF P
  <2>3. k \div P = 0 BY <2>2, QuotientIs
  <2>4. 4 * 5 = 20 OBVIOUS
  <2> QED BY <2>3, <2>4 DEF P
<1>3. ASSUME NEW k \in Nat PROVE Q(k, 0) = k
  <2>1. 4 * 0 = 0 /\ k \div 1 = k OBVIOUS
  <2> QED BY <2>1, TwoToSmall
<1>4. ASSUME NEW i \in 0 .. 4, Q(m, i + 1) = Q(n, i + 1) PROVE Q(m, i) = Q(n, i)
  <2>1. Q(m, i) = 16 * Q(m, i + 1) + Nibble(m, i) BY <1>1
  <2>2. Q(n, i) = 16 * Q(n, i + 1) + Nibble(n, i) BY <1>1
  <2>3. Nibble(m, i) = Nibble(n, i) OBVIOUS
  <2> HIDE DEF Q
  <2> QED BY <1>4, <2>1, <2>2, <2>3
<1>5. Q(m, 5) = Q(n, 5) BY <1>2
<1> HIDE DEF Q
<1>6. Q(m, 4) = Q(n, 4)
  <2>1. 4 + 1 = 5 /\ 4 \in 0 .. 4 OBVIOUS
  <2> QED BY <1>4, <1>5, <2>1
<1>7. Q(m, 3) = Q(n, 3)
  <2>1. 3 + 1 = 4 /\ 3 \in 0 .. 4 OBVIOUS
  <2> QED BY <1>4, <1>6, <2>1
<1>8. Q(m, 2) = Q(n, 2)
  <2>1. 2 + 1 = 3 /\ 2 \in 0 .. 4 OBVIOUS
  <2> QED BY <1>4, <1>7, <2>1
<1>9. Q(m, 1) = Q(n, 1)
  <2>1. 1 + 1 = 2 /\ 1 \in 0 .. 4 OBVIOUS
  <2> QED BY <1>4, <1>8, <2>1
<1>10. Q(m, 0) = Q(n, 0)
  <2>1. 0 + 1 = 1 /\ 0 \in 0 .. 4 OBVIOUS
  <2> QED BY <1>4, <1>9, <2>1
<1> QED BY <1>3, <1>10

\* No two metatiles have one path.
LEMMA PathsAreOwn ==
  ASSUME NEW t, NEW u, IsTile(t), IsTile(u), xyz_to_meta(t) = xyz_to_meta(u)
  PROVE  MetaOf(t) = MetaOf(u)
<1> DEFINE Cx(k) == k - (k % 8)
           x == Cx(t.x)
           y == Cx(t.y)
           v == Cx(u.x)
           w == Cx(u.y)
<1>1. ASSUME NEW k, NEW s, IsTile(s), k \in {s.x, s.y}
      PROVE  Cx(k) = 8 * (k \div 8) /\ k \div 8 \in Nat /\ Cx(k) \in Nat /\ Cx(k) < TwoTo[20]
  <2>1. k \in 0 .. TwoTo[s.z] - 1 /\ s.z \in Nat /\ s.z <= 20 /\ TwoTo[s.z] \in Nat
    BY <1>1, MetaCoordinates, TwoToDef DEF IsTile
  <2>2. TwoTo[s.z] <= TwoTo[20] /\ TwoTo[20] \in Nat BY <2>1, TwoToGrows, TwoToDef
  <2> DEFINE N == TwoTo[s.z]
             M == TwoTo[20]
  <2> HIDE DEF N, M
  <2>3. k \in 0 .. N - 1 /\ N \in Nat /\ M \in Nat /\ N <= M BY <2>1, <2>2 DEF N, M
  <2>4. k \in Nat /\ k < M BY <2>3
  <2>5. Cx(k) = 8 * (k \div 8) /\ k \div 8 \in Nat /\ Cx(k) \in Nat /\ Cx(k) <= k BY <2>4
  <2>6. Cx(k) < M
    <3> HIDE DEF Cx
    <3> QED BY <2>3, <2>4, <2>5
  <2> QED BY <2>5, <2>6 DEF M
<1>2. /\ x \in Nat /\ x < TwoTo[20] /\ x = 8 * (t.x \div 8) /\ t.x \div 8 \in Nat
      /\ y \in Nat /\ y < TwoTo[20] /\ y = 8 * (t.y \div 8) /\ t.y \div 8 \in Nat
      /\ v \in Nat /\ v < TwoTo[20] /\ v = 8 * (u.x \div 8) /\ u.x \div 8 \in Nat
      /\ w \in Nat /\ w < TwoTo[20] /\ w = 8 * (u.y \div 8) /\ u.y \div 8 \in Nat
  <2> HIDE DEF Cx
  <2> QED BY <1>1
<1>3. t.z = u.z /\ \A i \in 0 .. 4 : Nibble(x, i) * 16 + Nibble(y, i) = Nibble(v, i) * 16 + Nibble(w, i)
  <2> DEFINE H(a, b) == [i \in 0 .. 4 |-> Nibble(a, i) * 16 + Nibble(b, i)]
  <2>1. xyz_to_meta(t) = [z |-> t.z, hash |-> H(x, y)] /\ xyz_to_meta(u) = [z |-> u.z, hash |-> H(v, w)]
    BY DEF xyz_to_meta
  <2>2. t.z = u.z /\ H(x, y) = H(v, w)
    <3> DEFINE a == H(x, y)
               b == H(v, w)
               c == t.z
               d == u.z
    <3>1. [z |-> c, hash |-> a] = [z |-> d, hash |-> b] BY <2>1
    <3> HIDE DEF a, b, c, d
    <3>2. [z |-> c, hash |-> a].z = [z |-> d, hash |-> b].z
          /\ [z |-> c, hash |-> a].hash = [z |-> d, hash |-> b].hash BY <3>1
    <3>3. a = b /\ c = d BY <3>2
    <3> QED BY <3>3 DEF a, b, c, d
  <2> HIDE DEF x, y, v, w
  <2> QED BY <2>2
<1> HIDE DEF x, y, v, w
<1>4. ASSUME NEW k \in Nat, NEW i \in 0 .. 4 PROVE Nibble(k, i) \in 0 .. 15
  <2>1. 4 * i \in Nat OBVIOUS
  <2>2. TwoTo[4 * i] \in Nat \ {0} BY <2>1, TwoToDef
  <2> DEFINE q == k \div TwoTo[4 * i]
  <2>3. q \in Nat BY <2>2, Quotient
  <2> HIDE DEF q
  <2>4. q % 16 \in 0 .. 15 BY <2>3
  <2> QED BY <2>4 DEF q, Nibble
<1>5. ASSUME NEW i \in 0 .. 4 PROVE Nibble(x, i) = Nibble(v, i) /\ Nibble(y, i) = Nibble(w, i)
  <2>1. Nibble(x, i) \in 0 .. 15 /\ Nibble(y, i) \in 0 .. 15 /\ Nibble(v, i) \in 0 .. 15
        /\ Nibble(w, i) \in 0 .. 15
    BY <1>2, <1>4
  <2> DEFINE a == Nibble(x, i)
             b == Nibble(y, i)
             c == Nibble(v, i)
             d == Nibble(w, i)
  <2>2. a * 16 + b = c * 16 + d /\ a \in 0 .. 15 /\ b \in 0 .. 15 /\ c \in 0 .. 15 /\ d \in 0 .. 15
    BY <1>3, <2>1
  <2> HIDE DEF a, b, c, d
  <2>3. a = c /\ b = d BY <2>2
  <2> QED BY <2>3 DEF a, b, c, d
<1>6. x = v /\ y = w
  <2>1. x = v BY <1>2, <1>5, NibblesAreOwn
  <2>2. y = w BY <1>2, <1>5, NibblesAreOwn
  <2> QED BY <2>1, <2>2
<1>7. t.x \div 8 = u.x \div 8 /\ t.y \div 8 = u.y \div 8 BY <1>2, <1>6
<1> QED BY <1>3, <1>7 DEF MetaOf

\* One step of the spreading takes every bit that is in the way by d.
Moves(F, G, d) ==
  \A k \in 0 .. 31 :
    \/ F[k] \in Mask(d) /\ G[k] = F[k] /\ F[k] + d \notin Mask(d)
    \/ F[k] \notin Mask(d) /\ G[k] = F[k] + d /\ G[k] \in Mask(d)

ImageOf(F, S) == {F[k] : k \in S}

LEMMA SpreadOnce ==
  ASSUME NEW S, S \subseteq 0 .. 31, NEW d \in Nat \ {0}, NEW F, NEW G, Moves(F, G, d)
  PROVE  Spread(ImageOf(F, S), d) = ImageOf(G, S)
<1> DEFINE A == {F[k] : k \in S}
           B == {G[k] : k \in S}
<1>1. ASSUME NEW j \in B PROVE j \in Spread(A, d)
  <2>1. PICK k \in S : j = G[k] OBVIOUS
  <2>2. F[k] \in A /\ k \in 0 .. 31 OBVIOUS
  <2>3. F[k] + d \in ShiftLeft(A, d) BY <2>2 DEF ShiftLeft
  <2>4. G[k] \in Mask(d) /\ (G[k] = F[k] \/ G[k] = F[k] + d) BY <2>2 DEF Moves
  <2> HIDE DEF A
  <2> QED BY <2>1, <2>2, <2>3, <2>4 DEF Spread
<1>2. ASSUME NEW j \in Spread(A, d) PROVE j \in B
  <2>1. j \in Mask(d) /\ (j \in A \/ j \in ShiftLeft(A, d))
    <3> HIDE DEF A
    <3> QED BY DEF Spread
  <2>2. CASE j \in A
    <3>1. PICK k \in S : j = F[k] BY <2>2
    <3>2. k \in 0 .. 31 OBVIOUS
    <3> QED BY <2>1, <3>1, <3>2 DEF Moves
  <2>3. CASE j \in ShiftLeft(A, d)
    <3>1. PICK a \in A : j = a + d BY <2>3 DEF ShiftLeft
    <3>2. PICK k \in S : a = F[k] BY <3>1
    <3>3. k \in 0 .. 31 OBVIOUS
    <3> QED BY <2>1, <3>1, <3>2, <3>3 DEF Moves
  <2> QED BY <2>1, <2>2, <2>3
<1> HIDE DEF A, B
<1>3. Spread(A, d) = B BY <1>1, <1>2 DEF Spread
<1> QED BY <1>3 DEF A, B, ImageOf

\* Where bit k of the coordinate is when the groups of d bits are apart.
Apart(d) == [k \in 0 .. 31 |-> 2 * d * (k \div d) + (k % d)]

\* Interleaving takes bit k to bit 2 * k.
LEMMA InterleaveIs ==
  ASSUME NEW S, S \subseteq 0 .. 31
  PROVE  interleave(S) = {2 * k : k \in S}
<1> DEFINE E(F) == ImageOf(F, S)
<1>1. Moves(Apart(32), Apart(16), 16)
  <2> SUFFICES ASSUME NEW k \in 0 .. 31
               PROVE  \/ Apart(32)[k] \in Mask(16) /\ Apart(16)[k] = Apart(32)[k] /\ Apart(32)[k] + 16 \notin Mask(16)
                      \/ Apart(32)[k] \notin Mask(16) /\ Apart(16)[k] = Apart(32)[k] + 16 /\ Apart(16)[k] \in Mask(16)
    BY DEF Moves
  <2> DEFINE f == Apart(32)[k]
             h == Apart(16)[k]
  <2>1. f = 2 * 32 * (k \div 32) + (k % 32) /\ h = 2 * 16 * (k \div 16) + (k % 16) BY DEF Apart
  <2> HIDE DEF f, h
  <2>2. \/ f \in 0 .. 63 /\ (f \div 16) % 2 = 0 /\ h = f /\ ((f + 16) \div 16) % 2 # 0
        \/ (f \div 16) % 2 # 0 /\ h = f + 16 /\ h \in 0 .. 63 /\ (h \div 16) % 2 = 0
    BY <2>1
  <2> QED BY <2>2 DEF f, h, Mask
<1>2. Moves(Apart(16), Apart(8), 8)
  <2> SUFFICES ASSUME NEW k \in 0 .. 31
               PROVE  \/ Apart(16)[k] \in Mask(8) /\ Apart(8)[k] = Apart(16)[k] /\ Apart(16)[k] + 8 \notin Mask(8)
                      \/ Apart(16)[k] \notin Mask(8) /\ Apart(8)[k] = Apart(16)[k] + 8 /\ Apart(8)[k] \in Mask(8)
    BY DEF Moves
  <2> DEFINE f == Apart(16)[k]
             h == Apart(8)[k]
  <2>1. f = 2 * 16 * (k \div 16) + (k % 16) /\ h = 2 * 8 * (k \div 8) + (k % 8) BY DEF Apart
  <2> HIDE DEF f, h
  <2>2. \/ f \in 0 .. 63 /\ (f \div 8) % 2 = 0 /\ h = f /\ ((f + 8) \div 8) % 2 # 0
        \/ (f \div 8) % 2 # 0 /\ h = f + 8 /\ h \in 0 .. 63 /\ (h \div 8) % 2 = 0
    BY <2>1
  <2> QED BY <2>2 DEF f, h, Mask
<1>3. Moves(Apart(8), Apart(4), 4)
  <2> SUFFICES ASSUME NEW k \in 0 .. 31
               PROVE  \/ Apart(8)[k] \in Mask(4) /\ Apart(4)[k] = Apart(8)[k] /\ Apart(8)[k] + 4 \notin Mask(4)
                      \/ Apart(8)[k] \notin Mask(4) /\ Apart(4)[k] = Apart(8)[k] + 4 /\ Apart(4)[k] \in Mask(4)
    BY DEF Moves
  <2> DEFINE f == Apart(8)[k]
             h == Apart(4)[k]
  <2>1. f = 2 * 8 * (k \div 8) + (k % 8) /\ h = 2 * 4 * (k \div 4) + (k % 4) BY DEF Apart
  <2> HIDE DEF f, h
  <2>2. \/ f \in 0 .. 63 /\ (f \div 4) % 2 = 0 /\ h = f /\ ((f + 4) \div 4) % 2 # 0
        \/ (f \div 4) % 2 # 0 /\ h = f + 4 /\ h \in 0 .. 63 /\ (h \div 4) % 2 = 0
    BY <2>1
  <2> QED BY <2>2 DEF f, h, Mask
<1>4. Moves(Apart(4), Apart(2), 2)
  <2> SUFFICES ASSUME NEW k \in 0 .. 31
               PROVE  \/ Apart(4)[k] \in Mask(2) /\ Apart(2)[k] = Apart(4)[k] /\ Apart(4)[k] + 2 \notin Mask(2)
                      \/ Apart(4)[k] \notin Mask(2) /\ Apart(2)[k] = Apart(4)[k] + 2 /\ Apart(2)[k] \in Mask(2)
    BY DEF Moves
  <2> DEFINE f == Apart(4)[k]
             h == Apart(2)[k]
  <2>1. f = 2 * 4 * (k \div 4) + (k % 4) /\ h = 2 * 2 * (k \div 2) + (k % 2) BY DEF Apart
  <2> HIDE DEF f, h
  <2>2. \/ f \in 0 .. 63 /\ (f \div 2) % 2 = 0 /\ h = f /\ ((f + 2) \div 2) % 2 # 0
        \/ (f \div 2) % 2 # 0 /\ h = f + 2 /\ h \in 0 .. 63 /\ (h \div 2) % 2 = 0
    BY <2>1
  <2> QED BY <2>2 DEF f, h, Mask
<1>5. Moves(Apart(2), Apart(1), 1)
  <2> SUFFICES ASSUME NEW k \in 0 .. 31
               PROVE  \/ Apart(2)[k] \in Mask(1) /\ Apart(1)[k] = Apart(2)[k] /\ Apart(2)[k] + 1 \notin Mask(1)
                      \/ Apart(2)[k] \notin Mask(1) /\ Apart(1)[k] = Apart(2)[k] + 1 /\ Apart(1)[k] \in Mask(1)
    BY DEF Moves
  <2> DEFINE f == Apart(2)[k]
             h == Apart(1)[k]
  <2>1. f = 2 * 2 * (k \div 2) + (k % 2) /\ h = 2 * 1 * (k \div 1) + (k % 1) BY DEF Apart
  <2> HIDE DEF f, h
  <2>2. \/ f \in 0 .. 63 /\ (f \div 1) % 2 = 0 /\ h = f /\ ((f + 1) \div 1) % 2 # 0
        \/ (f \div 1) % 2 # 0 /\ h = f + 1 /\ h \in 0 .. 63 /\ (h \div 1) % 2 = 0
    BY <2>1
  <2> QED BY <2>2 DEF f, h, Mask
<1>6. S \cap 0 .. 31 = E(Apart(32)) /\ E(Apart(1)) = {2 * k : k \in S}
  <2>1. \A k \in 0 .. 31 : Apart(32)[k] = k /\ Apart(1)[k] = 2 * k
    <3>1. \A k \in 0 .. 31 : 2 * 32 * (k \div 32) + (k % 32) = k /\ 2 * 1 * (k \div 1) + (k % 1) = 2 * k
      OBVIOUS
    <3> QED BY <3>1 DEF Apart
  <2>2. \A k \in S : Apart(32)[k] = k /\ Apart(1)[k] = 2 * k BY <2>1
  <2> QED BY <2>2 DEF ImageOf
<1>7. ASSUME NEW F, NEW H, NEW d \in Nat \ {0}, Moves(F, H, d) PROVE Spread(E(F), d) = E(H)
  BY <1>7, SpreadOnce
<1> HIDE DEF E
<1>8. Spread(E(Apart(32)), 16) = E(Apart(16)) BY <1>1, <1>7
<1>9. Spread(E(Apart(16)), 8) = E(Apart(8)) BY <1>2, <1>7
<1>10. Spread(E(Apart(8)), 4) = E(Apart(4)) BY <1>3, <1>7
<1>11. Spread(E(Apart(4)), 2) = E(Apart(2)) BY <1>4, <1>7
<1>12. Spread(E(Apart(2)), 1) = E(Apart(1)) BY <1>5, <1>7
<1> QED BY <1>6, <1>8, <1>9, <1>10, <1>11, <1>12 DEF interleave

-----------------------------------------------------------------------------
(* Numbers and their bits *)

Weights(s) == [k \in 1 .. 64 |-> IF k - 1 \in s THEN TwoTo[k - 1] ELSE 0]

LEMMA WeightsAre ==
  ASSUME NEW s
  PROVE  /\ Weights(s) \in Seq(Nat) /\ Len(Weights(s)) = 64
         /\ NumberOf(s) = SumTo(Weights(s))[64]
         /\ SumTo(Weights(s))[0] = 0
         /\ \A k \in Nat : k < 64 => /\ SumTo(Weights(s))[k] \in Nat /\ SumTo(Weights(s))[k + 1] \in Nat
                                     /\ SumTo(Weights(s))[k + 1] = SumTo(Weights(s))[k]
                                          + (IF k \in s THEN TwoTo[k] ELSE 0)
<1>1. \A k \in 1 .. 64 : k - 1 \in Nat /\ TwoTo[k - 1] \in Nat BY TwoToDef
<1>2. Weights(s) \in Seq(Nat) /\ Len(Weights(s)) = 64
  <2>1. Weights(s) \in [1 .. 64 -> Nat] BY <1>1 DEF Weights
  <2> DEFINE n == 64
  <2>2. n \in Nat OBVIOUS
  <2>3. Weights(s) \in [1 .. n -> Nat] BY <2>1
  <2> HIDE DEF n
  <2>4. Weights(s) \in Seq(Nat) /\ Len(Weights(s)) = n BY <2>2, <2>3
  <2> QED BY <2>4 DEF n
<1>3. ASSUME NEW k \in Nat, k < 64
      PROVE  /\ SumTo(Weights(s))[k] \in Nat /\ SumTo(Weights(s))[k + 1] \in Nat
             /\ SumTo(Weights(s))[k + 1] = SumTo(Weights(s))[k] + (IF k \in s THEN TwoTo[k] ELSE 0)
  <2>1. k \in 0 .. 64 /\ k + 1 \in 0 .. 64 /\ k + 1 \in 1 .. 64 /\ (k + 1) - 1 = k BY <1>3
  <2>2. Weights(s)[k + 1] = IF k \in s THEN TwoTo[k] ELSE 0 BY <2>1 DEF Weights
  <2> HIDE DEF Weights
  <2>3. SumTo(Weights(s)) \in [0 .. 64 -> Nat] BY <1>2, SumToDef
  <2>4. SumTo(Weights(s))[k + 1] = SumTo(Weights(s))[k] + Weights(s)[k + 1]
    <3> DEFINE W == Weights(s)
               j == k + 1
    <3>1. W \in Seq(Nat) /\ j \in 1 .. Len(W) /\ j - 1 = k BY <1>2, <2>1
    <3> HIDE DEF W, j
    <3>2. SumTo(W)[j] = SumTo(W)[j - 1] + W[j] BY <3>1, SumToDef
    <3> QED BY <3>1, <3>2 DEF W, j
  <2> QED BY <2>1, <2>2, <2>3, <2>4
<1>4. SumTo(Weights(s))[0] = 0 BY <1>2, SumToDef
<1> QED BY <1>2, <1>3, <1>4 DEF NumberOf, Weights

\* The lower k bits of a number are less than TwoTo[k].
LEMMA LowerBits ==
  ASSUME NEW s
  PROVE  \A k \in Nat : k <= 64 => SumTo(Weights(s))[k] \in 0 .. TwoTo[k] - 1
<1> DEFINE W == SumTo(Weights(s))
           S == {k \in Nat : k <= 64 => W[k] \in 0 .. TwoTo[k] - 1}
<1>1. 0 \in S
  <2>1. W[0] = 0 /\ TwoTo[0] = 1 BY WeightsAre, TwoToDef
  <2> HIDE DEF W
  <2> QED BY <2>1
<1>2. ASSUME NEW k \in Nat, k \in S PROVE k + 1 \in S
  <2>1. SUFFICES ASSUME k + 1 <= 64 PROVE W[k + 1] \in 0 .. TwoTo[k + 1] - 1 OBVIOUS
  <2>2. W[k] \in 0 .. TwoTo[k] - 1 /\ k < 64 BY <1>2, <2>1
  <2>3. W[k + 1] = W[k] + (IF k \in s THEN TwoTo[k] ELSE 0) BY <2>2, WeightsAre
  <2>4. TwoTo[k] \in Nat /\ TwoTo[k + 1] = 2 * TwoTo[k] BY TwoToDef
  <2> DEFINE P == TwoTo[k]
  <2> HIDE DEF W, P
  <2>5. W[k + 1] \in 0 .. 2 * P - 1 BY <2>2, <2>3, <2>4 DEF P
  <2> QED BY <2>4, <2>5 DEF P
<1> HIDE DEF S
<1>3. \A k \in Nat : k \in S BY <1>1, <1>2, AllNaturals
<1> QED BY <1>3 DEF S

\* A number without bits from m on is less than TwoTo[m].
LEMMA NumberFits ==
  ASSUME NEW s, NEW m \in 0 .. 64, s \subseteq 0 .. m - 1
  PROVE  NumberOf(s) \in 0 .. TwoTo[m] - 1
<1> DEFINE W == SumTo(Weights(s))
           S == {k \in Nat : m + k <= 64 => W[m + k] = W[m]}
<1>0. m + 0 = m OBVIOUS
<1>1. 0 \in S BY <1>0
<1>2. ASSUME NEW k \in Nat, k \in S PROVE k + 1 \in S
  <2>1. SUFFICES ASSUME m + (k + 1) <= 64 PROVE W[m + (k + 1)] = W[m] OBVIOUS
  <2>2. W[m + k] = W[m] BY <1>2, <2>1
  <2>3. m + k \in Nat /\ m + k < 64 /\ m + k \notin s /\ m + (k + 1) = (m + k) + 1 BY <2>1
  <2>4. W[(m + k) + 1] = W[m + k] + 0 /\ W[m + k] \in Nat BY <2>3, WeightsAre
  <2> QED BY <2>2, <2>3, <2>4
<1> HIDE DEF S
<1>3. \A k \in Nat : k \in S BY <1>1, <1>2, AllNaturals
<1>4. 64 - m \in Nat /\ m + (64 - m) = 64 OBVIOUS
<1>5. 64 - m \in S BY <1>3, <1>4
<1>6. W[64] = W[m] BY <1>4, <1>5 DEF S
<1>7. W[m] \in 0 .. TwoTo[m] - 1 BY LowerBits
<1> QED BY <1>6, <1>7, WeightsAre

\* A number has one set of bits.
LEMMA NumbersAreOwn ==
  ASSUME NEW a, NEW b, a \subseteq 0 .. 63, b \subseteq 0 .. 63, NumberOf(a) = NumberOf(b)
  PROVE  a = b
<1> DEFINE V == SumTo(Weights(a))
           W == SumTo(Weights(b))
           S == {k \in Nat : k <= 64 /\ V[k] = W[k] => \A j \in 0 .. 63 : j < k => (j \in a <=> j \in b)}
<1>1. 0 \in S OBVIOUS
<1>2. ASSUME NEW k \in Nat, k \in S PROVE k + 1 \in S
  <2>1. SUFFICES ASSUME k + 1 <= 64, V[k + 1] = W[k + 1], NEW j \in 0 .. 63, j < k + 1
                 PROVE  j \in a <=> j \in b
    OBVIOUS
  <2>2. k < 64 /\ k <= 64 BY <2>1
  <2>3. V[k + 1] = V[k] + (IF k \in a THEN TwoTo[k] ELSE 0)
        /\ W[k + 1] = W[k] + (IF k \in b THEN TwoTo[k] ELSE 0)
    BY <2>2, WeightsAre
  <2>4. V[k] \in 0 .. TwoTo[k] - 1 /\ W[k] \in 0 .. TwoTo[k] - 1 /\ TwoTo[k] \in Nat
    BY <2>2, LowerBits, TwoToDef
  <2>5. V[k] = W[k] /\ (k \in a <=> k \in b)
    <3> DEFINE v == V[k]
               w == W[k]
               P == TwoTo[k]
    <3>1. v \in 0 .. P - 1 /\ w \in 0 .. P - 1 /\ P \in Nat BY <2>4
    <3>2. v + (IF k \in a THEN P ELSE 0) = w + (IF k \in b THEN P ELSE 0) BY <2>1, <2>3
    <3> HIDE DEF v, w, P
    <3>3. v = w /\ (k \in a <=> k \in b) BY <3>1, <3>2
    <3> QED BY <3>3 DEF v, w
  <2>6. CASE j = k BY <2>5, <2>6
  <2>7. CASE j < k BY <2>5, <2>7, <1>2, <2>2
  <2> QED BY <2>1, <2>6, <2>7
<1> HIDE DEF S
<1>3. \A k \in Nat : k \in S BY <1>1, <1>2, AllNaturals
<1>4. 64 \in S BY <1>3
<1>5. V[64] = W[64] BY WeightsAre
<1>6. \A j \in 0 .. 63 : j \in a <=> j \in b BY <1>4, <1>5 DEF S
<1> QED BY <1>6

\* Bits gives the bits of a number that fits, and no two such numbers the same.
LEMMA BitsFit ==
  ASSUME NEW n \in Nat, NEW m \in Nat, n < TwoTo[m]
  PROVE  Bits(n) \subseteq 0 .. m - 1
<1>1. SUFFICES ASSUME NEW k \in Bits(n) PROVE k < m
  BY DEF Bits
<1>2. k \in Nat /\ (n \div TwoTo[k]) % 2 = 1 BY DEF Bits
<1>3. SUFFICES ASSUME m <= k PROVE FALSE BY <1>2
<1> DEFINE P == TwoTo[k]
           Q == TwoTo[m]
<1>4. P \in Nat \ {0} /\ Q \in Nat /\ Q <= P BY <1>2, <1>3, TwoToDef, TwoToGrows
<1>5. n \div P = 0
  <2>1. n < Q OBVIOUS
  <2> HIDE DEF P, Q
  <2>2. n \in 0 .. P - 1 /\ n = P * 0 + n BY <1>4, <2>1
  <2> QED BY <1>4, <2>2, QuotientIs
<1> QED BY <1>2, <1>5

LEMMA BitsAreOwn ==
  ASSUME NEW m \in Nat, NEW n \in Nat, m < TwoTo[15], n < TwoTo[15], Bits(m) = Bits(n)
  PROVE  m = n
<1> DEFINE S == {k \in Nat : k <= 15 => m % TwoTo[k] = n % TwoTo[k]}
<1>1. 0 \in S
  <2>1. m % 1 = 0 /\ n % 1 = 0 OBVIOUS
  <2> QED BY <2>1, TwoToDef
<1>2. ASSUME NEW c \in Nat, NEW k \in Nat
      PROVE  /\ c % TwoTo[k + 1] = TwoTo[k] * ((c \div TwoTo[k]) % 2) + (c % TwoTo[k])
             /\ (c \div TwoTo[k]) % 2 \in 0 .. 1
  <2> DEFINE P == TwoTo[k]
             q == c \div P
             r == c % P
             h == q \div 2
             b == q % 2
  <2>1. P \in Nat \ {0} /\ TwoTo[k + 1] = 2 * P BY TwoToDef
  <2> HIDE DEF P
  <2>2. q \in Nat /\ r \in 0 .. P - 1 /\ c = P * q + r BY <2>1, Quotient
  <2> HIDE DEF q, r
  <2>3. h \in Nat /\ b \in 0 .. 1 /\ q = 2 * h + b BY <2>2
  <2> HIDE DEF h, b
  <2>4. P * q = (2 * P) * h + P * b /\ P * b \in Nat /\ P * b <= P BY <2>1, <2>3
  <2>5. P * b + r \in 0 .. 2 * P - 1 BY <2>1, <2>2, <2>4
  <2>6. c = (2 * P) * h + (P * b + r) BY <2>1, <2>2, <2>3, <2>4
  <2>7. 2 * P \in Nat \ {0} BY <2>1
  <2>8. c % (2 * P) = P * b + r
    <3> DEFINE D == 2 * P
               e == P * b + r
    <3>1. D \in Nat \ {0} /\ e \in 0 .. D - 1 /\ c = D * h + e BY <2>5, <2>6, <2>7
    <3> HIDE DEF D, e
    <3>2. c % D = e BY <3>1, <2>3, QuotientIs
    <3> QED BY <3>2 DEF D, e
  <2> QED BY <2>1, <2>3, <2>8 DEF P, q, r, b
<1>3. ASSUME NEW k \in Nat, k \in S PROVE k + 1 \in S
  <2>1. SUFFICES ASSUME k + 1 <= 15 PROVE m % TwoTo[k + 1] = n % TwoTo[k + 1] OBVIOUS
  <2>2. m % TwoTo[k] = n % TwoTo[k] BY <1>3, <2>1
  <2>3. k \in 0 .. 30 BY <2>1
  <2>4. (m \div TwoTo[k]) % 2 = 1 <=> (n \div TwoTo[k]) % 2 = 1 BY <2>3 DEF Bits
  <2>5. (m \div TwoTo[k]) % 2 \in 0 .. 1 /\ (n \div TwoTo[k]) % 2 \in 0 .. 1 BY <1>2
  <2>6. (m \div TwoTo[k]) % 2 = (n \div TwoTo[k]) % 2 BY <2>4, <2>5
  <2> QED BY <1>2, <2>2, <2>6
<1> HIDE DEF S
<1>4. \A k \in Nat : k \in S BY <1>1, <1>3, AllNaturals
<1>5. 15 \in S BY <1>4
<1>6. m % TwoTo[15] = n % TwoTo[15] BY <1>5 DEF S
<1>7. ASSUME NEW c \in Nat, c < TwoTo[15] PROVE c % TwoTo[15] = c
  <2> DEFINE P == TwoTo[15]
  <2>1. P \in Nat \ {0} /\ c < P BY <1>7, TwoToDef
  <2> HIDE DEF P
  <2>2. c \in 0 .. P - 1 /\ c = P * 0 + c BY <2>1
  <2>3. c % P = c BY <2>1, <2>2, QuotientIs
  <2> QED BY <2>3 DEF P
<1> QED BY <1>6, <1>7

MortonBits(x, y) == ShiftLeft(interleave(Bits(x)), 1) \cup interleave(Bits(y))

LEMMA MortonBitsAre ==
  ASSUME NEW x \in Nat, NEW y \in Nat, NEW m \in 0 .. 15, x < TwoTo[m], y < TwoTo[m]
  PROVE  /\ MortonBits(x, y) \subseteq 0 .. 2 * m - 1
         /\ \A k \in Nat : (2 * k + 1 \in MortonBits(x, y) <=> k \in Bits(x))
                          /\ (2 * k \in MortonBits(x, y) <=> k \in Bits(y))
<1> DEFINE X == Bits(x)
           Y == Bits(y)
<1>1. X \subseteq 0 .. m - 1 /\ Y \subseteq 0 .. m - 1 BY BitsFit
<1>2. X \subseteq 0 .. 31 /\ Y \subseteq 0 .. 31 BY <1>1
<1>3. interleave(X) = {2 * k : k \in X} /\ interleave(Y) = {2 * k : k \in Y} BY <1>2, InterleaveIs
<1>4. MortonBits(x, y) = {j + 1 : j \in {2 * k : k \in X}} \cup {2 * k : k \in Y}
  BY <1>3 DEF MortonBits, ShiftLeft
<1> HIDE DEF X, Y
<1>5. MortonBits(x, y) = {2 * k + 1 : k \in X} \cup {2 * k : k \in Y} BY <1>4
<1>6. MortonBits(x, y) \subseteq 0 .. 2 * m - 1 BY <1>1, <1>5
<1>7. ASSUME NEW k \in Nat
      PROVE  (2 * k + 1 \in MortonBits(x, y) <=> k \in X) /\ (2 * k \in MortonBits(x, y) <=> k \in Y)
  <2>1. \A j \in X : j \in Nat BY <1>1
  <2>2. \A j \in Y : j \in Nat BY <1>1
  <2>3. \A j \in Nat : (2 * k + 1 = 2 * j + 1 <=> k = j) /\ 2 * k + 1 # 2 * j /\ 2 * k # 2 * j + 1
                       /\ (2 * k = 2 * j <=> k = j)
    OBVIOUS
  <2> QED BY <1>5, <2>1, <2>2, <2>3
<1> QED BY <1>6, <1>7 DEF X, Y

\* Within a level no two metatiles have one Morton code, and it fits the level.
LEMMA MortonIsOwn ==
  ASSUME NEW m \in 0 .. 15, NEW x \in Nat, NEW y \in Nat, x < TwoTo[m], y < TwoTo[m],
         NEW v \in Nat, NEW w \in Nat, v < TwoTo[m], w < TwoTo[m]
  PROVE  /\ Morton(x, y) \in 0 .. TwoTo[2 * m] - 1
         /\ Morton(x, y) = Morton(v, w) => x = v /\ y = w
<1>1. MortonBits(x, y) \subseteq 0 .. 2 * m - 1 /\ MortonBits(v, w) \subseteq 0 .. 2 * m - 1
  BY MortonBitsAre
<1>2. 2 * m \in 0 .. 64 OBVIOUS
<1>3. NumberOf(MortonBits(x, y)) \in 0 .. TwoTo[2 * m] - 1 BY <1>1, <1>2, NumberFits
<1>4. ASSUME NumberOf(MortonBits(x, y)) = NumberOf(MortonBits(v, w)) PROVE x = v /\ y = w
  <2>1. MortonBits(x, y) \subseteq 0 .. 63 /\ MortonBits(v, w) \subseteq 0 .. 63 BY <1>1, <1>2
  <2>2. MortonBits(x, y) = MortonBits(v, w) BY <1>4, <2>1, NumbersAreOwn
  <2>3. \A k \in Nat : (k \in Bits(x) <=> k \in Bits(v)) /\ (k \in Bits(y) <=> k \in Bits(w))
    BY <2>2, MortonBitsAre
  <2>4. Bits(x) \subseteq Nat /\ Bits(v) \subseteq Nat /\ Bits(y) \subseteq Nat /\ Bits(w) \subseteq Nat
    BY DEF Bits
  <2>5. Bits(x) = Bits(v) BY <2>3, <2>4
  <2>6. Bits(y) = Bits(w) BY <2>3, <2>4
  <2>7. TwoTo[m] <= TwoTo[15] /\ TwoTo[m] \in Nat /\ TwoTo[15] \in Nat BY TwoToGrows, TwoToDef
  <2>8. x < TwoTo[15] /\ y < TwoTo[15] /\ v < TwoTo[15] /\ w < TwoTo[15] BY <2>7
  <2> QED BY <2>5, <2>6, <2>8, BitsAreOwn
<1> QED BY <1>3, <1>4 DEF Morton, MortonBits

LEMMA OffsetsDef ==
  /\ offsets[0] = 0
  /\ \A z \in Nat : LevelSize(z) \in Nat /\ offsets[z] \in Nat /\ offsets[z + 1] = offsets[z] + LevelSize(z)
<1> DEFINE g == [p \in Nat \X Nat |-> p[2] + LevelSize(p[1] - 1)]
           D(f) == [z \in Nat |-> IF z = 0 THEN 0 ELSE f[z - 1] + LevelSize(z - 1)]
           P(h) == h = D(h)
<1>1. ASSUME NEW z \in Int PROVE LevelSize(z) \in Nat
  <2>1. z > 3 => 2 * (z - 3) \in Nat OBVIOUS
  <2> QED BY <2>1, TwoToDef DEF LevelSize
<1>2. \A m \in Nat, v \in Nat : g[<<m, v>>] = v + LevelSize(m - 1) OBVIOUS
<1>3. IsStep(Nat, g)
  <2>1. ASSUME NEW m \in Nat, NEW v \in Nat PROVE g[<<m, v>>] \in Nat
    <3>1. LevelSize(m - 1) \in Nat BY <1>1
    <3>2. g[<<m, v>>] = v + LevelSize(m - 1) BY <1>2
    <3> HIDE DEF g
    <3> QED BY <3>1, <3>2
  <2> HIDE DEF g
  <2> QED BY <2>1 DEF IsStep
<1> HIDE DEF g
<1>4. PICK f \in [Nat -> Nat] : f[0] = 0 /\ \A n \in Nat : f[n + 1] = g[<<n + 1, f[n]>>]
  <2>1. 0 \in Nat OBVIOUS
  <2>2. \E f : Recurses(Nat, 0, g, f) BY <2>1, <1>3, RecursionExists
  <2> QED BY <2>2 DEF Recurses
<1>5. ASSUME NEW n \in Nat PROVE f[n + 1] = f[n] + LevelSize(n)
  <2>1. f[n] \in Nat /\ n + 1 \in Nat /\ (n + 1) - 1 = n BY <1>4
  <2> QED BY <2>1, <1>2, <1>4
<1>6. ASSUME NEW n \in Nat PROVE f[n] = IF n = 0 THEN 0 ELSE f[n - 1] + LevelSize(n - 1)
  <2>1. CASE n = 0 BY <2>1, <1>4
  <2>2. CASE n # 0
    <3>1. n - 1 \in Nat /\ (n - 1) + 1 = n BY <2>2
    <3> QED BY <1>5, <2>2, <3>1
  <2> QED BY <2>1, <2>2
<1>7. P(f) BY <1>4, <1>6
<1>8. offsets = CHOOSE h : P(h) BY DEF offsets
<1>9. P(offsets)
  <2> HIDE DEF P
  <2> QED BY <1>7, <1>8, Zenon
<1>10. offsets[0] = 0 BY <1>9
<1>11. ASSUME NEW z \in Nat PROVE offsets[z + 1] = offsets[z] + LevelSize(z)
  <2>1. z + 1 \in Nat /\ z + 1 # 0 /\ (z + 1) - 1 = z OBVIOUS
  <2>2. offsets[z + 1] = IF z + 1 = 0 THEN 0 ELSE offsets[(z + 1) - 1] + LevelSize((z + 1) - 1) BY <1>9, <2>1
  <2> QED BY <2>1, <2>2
<1> DEFINE S == {z \in Nat : offsets[z] \in Nat}
<1>12. 0 \in S BY <1>10
<1>13. ASSUME NEW z \in Nat, z \in S PROVE z + 1 \in S BY <1>1, <1>11, <1>13
<1> HIDE DEF S
<1>14. \A z \in Nat : z \in S BY <1>12, <1>13, AllNaturals
<1> QED BY <1>1, <1>10, <1>11, <1>14 DEF S

\* A level's bits end before those of a later level start.
LEMMA OffsetsGrow ==
  ASSUME NEW a \in Nat, NEW b \in Nat, a < b
  PROVE  offsets[a] + LevelSize(a) <= offsets[b]
<1> DEFINE S == {k \in Nat : offsets[a] + LevelSize(a) <= offsets[(a + 1) + k]}
<1>1. 0 \in S
  <2>1. (a + 1) + 0 = a + 1 OBVIOUS
  <2>2. offsets[a + 1] = offsets[a] + LevelSize(a) /\ offsets[a + 1] \in Nat BY OffsetsDef
  <2> QED BY <2>1, <2>2
<1>2. ASSUME NEW k \in Nat, k \in S PROVE k + 1 \in S
  <2> DEFINE c == (a + 1) + k
  <2>1. c \in Nat /\ (a + 1) + (k + 1) = c + 1 OBVIOUS
  <2>2. offsets[a] + LevelSize(a) <= offsets[c] BY <1>2
  <2> HIDE DEF c
  <2>3. offsets[c + 1] = offsets[c] + LevelSize(c) /\ offsets[c] \in Nat /\ LevelSize(c) \in Nat
        /\ offsets[a] \in Nat /\ LevelSize(a) \in Nat
    BY <2>1, OffsetsDef
  <2>4. offsets[a] + LevelSize(a) <= offsets[c + 1] BY <2>2, <2>3
  <2> QED BY <2>1, <2>4
<1> HIDE DEF S
<1>3. \A k \in Nat : k \in S BY <1>1, <1>2, AllNaturals
<1>4. b - (a + 1) \in Nat /\ (a + 1) + (b - (a + 1)) = b OBVIOUS
<1>5. b - (a + 1) \in S BY <1>3, <1>4
<1> QED BY <1>4, <1>5 DEF S

LEMMA IndexInLevel ==
  ASSUME NEW t, IsTile(t)
  PROVE  /\ t.z \in Nat /\ offsets[t.z] \in Nat /\ LevelSize(t.z) \in Nat
         /\ Morton(t.x \div 8, t.y \div 8) \in 0 .. LevelSize(t.z) - 1
         /\ tile_to_meta_idx(t) = offsets[t.z] + Morton(t.x \div 8, t.y \div 8)
<1> DEFINE z == t.z
           m == t.z - 3
           x == t.x \div 8
           y == t.y \div 8
<1>1. m \in 0 .. 15 /\ z \in 3 .. 18 /\ TwoTo[m] \in Nat /\ x \in 0 .. TwoTo[m] - 1 /\ y \in 0 .. TwoTo[m] - 1
  BY MetaCoordinates DEF IsTile
<1>2. LevelSize(z) = TwoTo[2 * m]
  <2>1. CASE z = 3
    <3>1. m = 0 /\ 2 * 0 = 0 BY <2>1
    <3> QED BY <2>1, <3>1, TwoToDef DEF LevelSize
  <2>2. CASE z # 3 BY <2>2, <1>1 DEF LevelSize
  <2> QED BY <2>1, <2>2
<1>3. z \in Nat /\ offsets[z] \in Nat /\ LevelSize(z) \in Nat
  <2>1. z \in Nat BY <1>1
  <2> HIDE DEF z
  <2> QED BY <2>1, OffsetsDef
<1>4. Morton(x, y) \in 0 .. TwoTo[2 * m] - 1
  <2> HIDE DEF m, x, y
  <2>1. x \in Nat /\ y \in Nat /\ x < TwoTo[m] /\ y < TwoTo[m] BY <1>1
  <2> QED BY <1>1, <2>1, MortonIsOwn
<1> QED BY <1>2, <1>3, <1>4 DEF tile_to_meta_idx

\* No two metatiles have one bit of the bitmap.
LEMMA BitsOfMetasAreOwn ==
  ASSUME NEW t, NEW u, IsTile(t), IsTile(u), tile_to_meta_idx(t) = tile_to_meta_idx(u)
  PROVE  MetaOf(t) = MetaOf(u)
<1> DEFINE a == t.z
           b == u.z
           M == Morton(t.x \div 8, t.y \div 8)
           N == Morton(u.x \div 8, u.y \div 8)
<1>1. /\ a \in Nat /\ offsets[a] \in Nat /\ LevelSize(a) \in Nat /\ M \in 0 .. LevelSize(a) - 1
      /\ b \in Nat /\ offsets[b] \in Nat /\ LevelSize(b) \in Nat /\ N \in 0 .. LevelSize(b) - 1
      /\ offsets[a] + M = offsets[b] + N
  BY IndexInLevel
<1>2. a = b
  <2> HIDE DEF a, b, M, N
  <2>1. ~(a < b)
    <3>1. SUFFICES ASSUME a < b PROVE FALSE OBVIOUS
    <3>2. offsets[a] + LevelSize(a) <= offsets[b] BY <1>1, <3>1, OffsetsGrow
    <3> QED BY <1>1, <3>2
  <2>2. ~(b < a)
    <3>1. SUFFICES ASSUME b < a PROVE FALSE OBVIOUS
    <3>2. offsets[b] + LevelSize(b) <= offsets[a] BY <1>1, <3>1, OffsetsGrow
    <3> QED BY <1>1, <3>2
  <2> QED BY <1>1, <2>1, <2>2
<1>3. M = N
  <2> HIDE DEF a, b, M, N
  <2> QED BY <1>1, <1>2
<1> DEFINE m == t.z - 3
           x == t.x \div 8
           y == t.y \div 8
           v == u.x \div 8
           w == u.y \div 8
<1>4. m \in 0 .. 15 /\ TwoTo[m] \in Nat /\ x \in 0 .. TwoTo[m] - 1 /\ y \in 0 .. TwoTo[m] - 1
  BY MetaCoordinates
<1>5. v \in 0 .. TwoTo[m] - 1 /\ w \in 0 .. TwoTo[m] - 1
  <2>1. m = u.z - 3 BY <1>2
  <2> QED BY <2>1, MetaCoordinates
<1>6. Morton(x, y) = Morton(v, w) BY <1>3
<1>7. x = v /\ y = w
  <2> HIDE DEF m, x, y, v, w
  <2>1. x \in Nat /\ y \in Nat /\ x < TwoTo[m] /\ y < TwoTo[m] /\ v \in Nat /\ w \in Nat /\ v < TwoTo[m]
        /\ w < TwoTo[m]
    BY <1>4, <1>5
  <2>2. m \in 0 .. 15 BY <1>4
  <2>3. Morton(x, y) = Morton(v, w) => x = v /\ y = w BY <2>1, <2>2, MortonIsOwn
  <2> QED BY <1>6, <2>3
<1> QED BY <1>2, <1>7 DEF MetaOf

\* The codes of a tile are those of its metatile.
LEMMA CodesOfMeta ==
  ASSUME NEW t, NEW u, IsTile(t), IsTile(u), MetaOf(t) = MetaOf(u)
  PROVE  /\ tile_to_frag(t) = tile_to_frag(u) /\ tile_to_meta_idx(t) = tile_to_meta_idx(u)
         /\ xyz_to_meta(t) = xyz_to_meta(u)
<1>1. t.z = u.z /\ t.x \div 8 = u.x \div 8 /\ t.y \div 8 = u.y \div 8
  <2>1. MetaOf(t).z = t.z /\ MetaOf(t).x = t.x \div 8 /\ MetaOf(t).y = t.y \div 8 BY DEF MetaOf
  <2>2. MetaOf(u).z = u.z /\ MetaOf(u).x = u.x \div 8 /\ MetaOf(u).y = u.y \div 8 BY DEF MetaOf
  <2> QED BY <2>1, <2>2
<1>2. xy_frag(t) = xy_frag(u) BY <1>1 DEF xy_frag
<1>3. tile_to_frag(t) = tile_to_frag(u) BY <1>1, <1>2 DEF tile_to_frag
<1>4. tile_to_meta_idx(t) = tile_to_meta_idx(u) BY <1>1 DEF tile_to_meta_idx
<1>5. ASSUME NEW k \in Nat PROVE k - (k % 8) = 8 * (k \div 8) OBVIOUS
<1>6. t.x \in Nat /\ t.y \in Nat /\ u.x \in Nat /\ u.y \in Nat BY MetaCoordinates
<1>7. t.x - (t.x % 8) = u.x - (u.x % 8) /\ t.y - (t.y % 8) = u.y - (u.y % 8) BY <1>1, <1>5, <1>6
<1>8. xyz_to_meta(t) = xyz_to_meta(u) BY <1>1, <1>7 DEF xyz_to_meta
<1> QED BY <1>3, <1>4, <1>8

-----------------------------------------------------------------------------
(* The three indexes *)

CodesAgree(c, F, B, P, M) ==
  (c.meta \in M <=> c.frag \in F) /\ (c.meta \in M <=> c.bit \in B) /\ (c.meta \in M <=> c.path \in P)

LEMMA AgreeIs == TileIndexesAgree <=> \A c \in Coded : CodesAgree(c, frags, bitmap, paths, metas)
BY DEF TileIndexesAgree, CodesAgree

LEMMA CodedIsOwn ==
  ASSUME NEW c \in Coded, NEW d \in Coded
  PROVE  /\ c.meta = d.meta <=> c.frag = d.frag
         /\ c.meta = d.meta <=> c.bit = d.bit
         /\ c.meta = d.meta <=> c.path = d.path
<1>1. PICK t \in IndexTiles : c = [meta |-> MetaOf(t), frag |-> tile_to_frag(t), bit |-> tile_to_meta_idx(t),
                                  path |-> xyz_to_meta(t)]
  BY DEF Coded
<1>2. PICK u \in IndexTiles : d = [meta |-> MetaOf(u), frag |-> tile_to_frag(u), bit |-> tile_to_meta_idx(u),
                                  path |-> xyz_to_meta(u)]
  BY DEF Coded
<1>3. IsTile(t) /\ IsTile(u) BY IndexAssumption DEF IsTile
<1>4. MetaOf(t) = MetaOf(u) <=> tile_to_frag(t) = tile_to_frag(u) BY <1>3, FragsAreOwn, CodesOfMeta
<1>5. MetaOf(t) = MetaOf(u) <=> tile_to_meta_idx(t) = tile_to_meta_idx(u)
  BY <1>3, BitsOfMetasAreOwn, CodesOfMeta
<1>6. MetaOf(t) = MetaOf(u) <=> xyz_to_meta(t) = xyz_to_meta(u) BY <1>3, PathsAreOwn, CodesOfMeta
<1> QED BY <1>1, <1>2, <1>4, <1>5, <1>6

LEMMA IndexStarts == IndexInit => TileIndexesAgree
BY DEF IndexInit, TileIndexesAgree

LEMMA IndexKept == TileIndexesAgree /\ [IndexNext]_indexVars => TileIndexesAgree'
<1> SUFFICES ASSUME TileIndexesAgree, [IndexNext]_indexVars PROVE TileIndexesAgree'
  OBVIOUS
<1>1. \A d \in Coded : CodesAgree(d, frags, bitmap, paths, metas) BY AgreeIs
<1>2. SUFFICES ASSUME NEW d \in Coded PROVE CodesAgree(d, frags', bitmap', paths', metas')
  BY DEF TileIndexesAgree, CodesAgree
<1>3. CASE UNCHANGED indexVars BY <1>1, <1>3 DEF indexVars
<1>4. ASSUME NEW c \in Coded, Mark(c) PROVE CodesAgree(d, frags', bitmap', paths', metas')
  BY <1>1, <1>4, CodedIsOwn DEF Mark, set_bit, CodesAgree
<1>5. ASSUME NEW c \in Coded, Clear(c) PROVE CodesAgree(d, frags', bitmap', paths', metas')
  BY <1>1, <1>5, CodedIsOwn DEF Clear, set_bit, CodesAgree
<1> QED BY <1>3, <1>4, <1>5 DEF IndexNext

\* The expiry server's fragments, the storage nodes' bitmap and the files of
\* disk_storage name the same metatiles, for any tiles of the zoom levels from 3
\* to 18 that are marked and cleared: no two metatiles share a code, at any
\* level and in any of the three.
THEOREM IndexesAgree == IndexSpec => []TileIndexesAgree
BY IndexStarts, IndexKept, PTL DEF IndexSpec

-----------------------------------------------------------------------------
(* The metatile format *)

MetaTypes == job \in [writer : Writers, z : Zooms, diagonal : BOOLEAN, size : SizeTables]
Dim == get_meta_dimensions(job.z)
FormatCount == Len(MetaFormats)
Bytes == [kind : {"byte"}, fmt : FormatSet, x : Nat, y : Nat, k : Nat, index : {<<>>}]

LEMMA MetaBasics ==
  ASSUME MetaTypes
  PROVE  /\ MetaSide \in Nat \ {0} /\ Dim \in 1 .. MetaSide /\ FormatCount \in Nat
         /\ MetaFormats \in Seq(FormatSet) /\ DOMAIN MetaFormats = 1 .. FormatCount
         /\ \A i \in 1 .. FormatCount : MetaFormats[i] \in FormatSet
         /\ \A f \in FormatSet, p \in Places : job.size[f][p] \in Nat
<1>1. MetaSide \in Nat \ {0} /\ MetaFormats \in Seq(FormatSet) /\ Zooms \subseteq Nat
      /\ SizeTables \subseteq [FormatSet -> [Places -> Nat]]
  BY MetaAssumption
<1>2. job.z \in Nat /\ job.size \in [FormatSet -> [Places -> Nat]] BY <1>1 DEF MetaTypes
<1>3. TwoTo[job.z] \in Nat \ {0} BY <1>2, TwoToDef
<1>4. Dim \in 1 .. MetaSide BY <1>1, <1>3 DEF Dim, get_meta_dimensions, MinOf
<1>5. FormatCount \in Nat /\ DOMAIN MetaFormats = 1 .. FormatCount
      /\ \A i \in 1 .. FormatCount : MetaFormats[i] \in FormatSet
  BY <1>1 DEF FormatCount
<1> QED BY <1>1, <1>2, <1>4, <1>5

\* The walk over the rows and columns.
LEMMA WalkIs ==
  ASSUME MetaTypes
  PROVE  /\ Dim * Dim \in Nat
         /\ DOMAIN RowsAndColumns(job.z) = 1 .. Dim * Dim
         /\ \A n \in 1 .. Dim * Dim :
              /\ RowsAndColumns(job.z)[n] \in Places
              /\ RowsAndColumns(job.z)[n][1] \in 0 .. Dim - 1
              /\ RowsAndColumns(job.z)[n][2] \in 0 .. Dim - 1
              /\ RowsAndColumns(job.z)[n] = <<RowsAndColumns(job.z)[n][1], RowsAndColumns(job.z)[n][2]>>
              /\ n = RowsAndColumns(job.z)[n][2] * Dim + RowsAndColumns(job.z)[n][1] + 1
         /\ \A x \in 0 .. Dim - 1, y \in 0 .. Dim - 1 :
              /\ y * Dim + x + 1 \in 1 .. Dim * Dim
              /\ RowsAndColumns(job.z)[y * Dim + x + 1] = <<x, y>>
<1> DEFINE D == Dim
           R == RowsAndColumns(job.z)
<1>1. D \in Nat \ {0} /\ D <= MetaSide /\ MetaSide \in Nat BY MetaBasics
<1>2. R = [i \in 1 .. D * D |-> <<(i - 1) % D, (i - 1) \div D>>] BY DEF RowsAndColumns, Dim
<1> HIDE DEF D, R
<1>3. D * D \in Nat BY <1>1
<1>4. ASSUME NEW n \in 1 .. D * D
      PROVE  /\ R[n] \in Places /\ R[n][1] \in 0 .. D - 1 /\ R[n][2] \in 0 .. D - 1
             /\ R[n] = <<R[n][1], R[n][2]>> /\ n = R[n][2] * D + R[n][1] + 1
  <2> DEFINE q == (n - 1) \div D
             r == (n - 1) % D
  <2>1. n - 1 \in Nat /\ n - 1 < D * D BY <1>3
  <2>2. q \in Nat /\ r \in 0 .. D - 1 /\ n - 1 = D * q + r BY <1>1, <2>1, Quotient
  <2>3. R[n] = <<r, q>> BY <1>2
  <2> HIDE DEF q, r
  <2>4. q < D
    <3>1. SUFFICES ASSUME q >= D PROVE FALSE BY <1>1, <2>2
    <3>2. D * q >= D * D BY <3>1, <1>1, <2>2
    <3>3. D * q \in Nat BY <1>1, <2>2
    <3> QED BY <3>2, <3>3, <2>1, <2>2, <1>3
  <2>5. D * q = q * D /\ q * D \in Nat BY <1>1, <2>2
  <2>6. n = q * D + r + 1 BY <2>2, <2>5
  <2>7. r \in 0 .. MetaSide - 1 /\ q \in 0 .. MetaSide - 1 BY <1>1, <2>2, <2>4
  <2> QED BY <1>1, <2>2, <2>3, <2>4, <2>6, <2>7 DEF Places
<1>5. ASSUME NEW x \in 0 .. D - 1, NEW y \in 0 .. D - 1
      PROVE  y * D + x + 1 \in 1 .. D * D /\ R[y * D + x + 1] = <<x, y>>
  <2>1. y * D \in Nat /\ y * D <= (D - 1) * D /\ (D - 1) * D = D * D - D /\ y * D = D * y BY <1>1
  <2> DEFINE m == y * D + x
  <2>2. m \in Nat /\ m + 1 \in 1 .. D * D /\ (m + 1) - 1 = m /\ m = D * y + x BY <1>1, <1>3, <2>1
  <2> HIDE DEF m
  <2>3. m \div D = y /\ m % D = x BY <1>1, <2>2, QuotientIs
  <2>4. R[m + 1] = <<x, y>> BY <1>2, <2>2, <2>3
  <2> QED BY <2>2, <2>4 DEF m
<1>6. DOMAIN R = 1 .. D * D BY <1>2
<1> QED BY <1>3, <1>4, <1>5, <1>6 DEF R, D

\* The sizes of the tiles of a format, in the order of the walk.
SizesOf(f) == [n \in DOMAIN RowsAndColumns(job.z) |-> job.size[f][RowsAndColumns(job.z)[n]]]

LEMMA TilesAre ==
  ASSUME MetaTypes, NEW f \in FormatSet
  PROVE  /\ TilesOf(f, job.z) \in Seq(Seq(Bytes)) /\ Len(TilesOf(f, job.z)) = Dim * Dim
         /\ LengthsOf(TilesOf(f, job.z)) = SizesOf(f)
         /\ SizesOf(f) \in Seq(Nat) /\ Len(SizesOf(f)) = Dim * Dim
         /\ \A x \in 0 .. Dim - 1, y \in 0 .. Dim - 1 :
              /\ SizesOf(f)[y * Dim + x + 1] = job.size[f][<<x, y>>]
              /\ TilesOf(f, job.z)[y * Dim + x + 1] = TileBytes(f, x, y)
<1> DEFINE R == RowsAndColumns(job.z)
           N == Dim * Dim
           T == TilesOf(f, job.z)
<1>1. N \in Nat /\ DOMAIN R = 1 .. N BY WalkIs
<1>2. ASSUME NEW p \in Places
      PROVE  TileBytes(f, p[1], p[2]) \in Seq(Bytes) /\ Len(TileBytes(f, p[1], p[2])) = job.size[f][p]
  <2> DEFINE b == job.size[f][p]
  <2>1. b \in Nat /\ p[1] \in Nat /\ p[2] \in Nat /\ <<p[1], p[2]>> = p BY MetaBasics DEF Places
  <2>2. TileBytes(f, p[1], p[2]) = [k \in 1 .. b |-> ByteOf(f, p[1], p[2], k)] BY <2>1 DEF TileBytes
  <2> HIDE DEF b
  <2>3. \A k \in 1 .. b : ByteOf(f, p[1], p[2], k) \in Bytes BY <2>1 DEF ByteOf, Bytes
  <2> HIDE DEF Bytes
  <2>4. TileBytes(f, p[1], p[2]) \in Seq(Bytes) /\ Len(TileBytes(f, p[1], p[2])) = b BY <2>1, <2>2, <2>3
  <2> QED BY <2>4 DEF b
<1>3. T = [n \in 1 .. N |-> TileBytes(f, R[n][1], R[n][2])] BY <1>1 DEF TilesOf
<1>4. SizesOf(f) = [n \in 1 .. N |-> job.size[f][R[n]]] BY <1>1 DEF SizesOf
<1>5. \A n \in 1 .. N : R[n] \in Places BY WalkIs
<1>6. \A x \in 0 .. Dim - 1, y \in 0 .. Dim - 1 : y * Dim + x + 1 \in 1 .. N /\ R[y * Dim + x + 1] = <<x, y>>
  BY WalkIs
<1>7. \A n \in 1 .. N : job.size[f][R[n]] \in Nat BY <1>5, MetaBasics
<1> HIDE DEF N, R, T
<1>8. \A n \in 1 .. N : T[n] \in Seq(Bytes) /\ Len(T[n]) = job.size[f][R[n]]
  BY <1>2, <1>3, <1>5
<1>9. T \in Seq(Seq(Bytes)) /\ Len(T) = N
  <2> DEFINE Q == Seq(Bytes)
  <2> HIDE DEF Q
  <2>1. T \in [1 .. N -> Q] BY <1>3, <1>8 DEF Q
  <2>2. T \in Seq(Q) /\ Len(T) = N BY <1>1, <2>1
  <2> QED BY <2>2 DEF Q
<1>10. SizesOf(f) \in Seq(Nat) /\ Len(SizesOf(f)) = N
  <2>1. SizesOf(f) \in [1 .. N -> Nat] BY <1>4, <1>7
  <2> QED BY <1>1, <2>1
<1>11. LengthsOf(T) = SizesOf(f) BY <1>4, <1>8, <1>9 DEF LengthsOf
<1>12. ASSUME NEW x \in 0 .. Dim - 1, NEW y \in 0 .. Dim - 1
       PROVE  /\ SizesOf(f)[y * Dim + x + 1] = job.size[f][<<x, y>>]
              /\ T[y * Dim + x + 1] = TileBytes(f, x, y)
  <2> DEFINE n == y * Dim + x + 1
  <2>1. n \in 1 .. N /\ R[n] = <<x, y>> BY <1>6
  <2> HIDE DEF n
  <2>2. R[n][1] = x /\ R[n][2] = y BY <2>1
  <2>3. SizesOf(f)[n] = job.size[f][<<x, y>>] BY <1>4, <2>1
  <2>4. T[n] = TileBytes(f, x, y) BY <1>3, <2>1, <2>2
  <2> QED BY <2>3, <2>4 DEF n
<1> QED BY <1>9, <1>10, <1>11, <1>12 DEF N, T

\* Where a tile is among the bytes of its format, and a format among all bytes.
BeforeTile(f, x, y) == SumTo(SizesOf(f))[y * Dim + x]
FormatSizes == [j \in DOMAIN MetaFormats |-> Len(Walk(MetaFormats[j], job.z))]
BeforeFormat(i) == SumTo(FormatSizes)[i - 1]

LEMMA WalkAt ==
  ASSUME MetaTypes, NEW f \in FormatSet
  PROVE  /\ Walk(f, job.z) \in Seq(Bytes) /\ Len(Walk(f, job.z)) = SumTo(SizesOf(f))[Dim * Dim]
         /\ \A x \in 0 .. Dim - 1, y \in 0 .. Dim - 1 :
              /\ BeforeTile(f, x, y) \in Nat
              /\ BeforeTile(f, x, y) + job.size[f][<<x, y>>] <= Len(Walk(f, job.z))
              /\ \A k \in 1 .. job.size[f][<<x, y>>] :
                   Walk(f, job.z)[BeforeTile(f, x, y) + k] = TileBytes(f, x, y)[k]
<1> DEFINE T == TilesOf(f, job.z)
           N == Dim * Dim
           L == SumTo(SizesOf(f))
           W == Walk(f, job.z)
<1>1. T \in Seq(Seq(Bytes)) /\ Len(T) = N /\ LengthsOf(T) = SizesOf(f) /\ N \in Nat
      /\ SizesOf(f) \in Seq(Nat) /\ Len(SizesOf(f)) = N
  BY TilesAre, WalkIs
<1>2. W = Joined(T) BY DEF Walk
<1>3. /\ Len(W) = L[N]
      /\ \A i \in 1 .. N : \A k \in 1 .. Len(T[i]) : W[L[i - 1] + k] = T[i][k]
  <2> HIDE DEF T, N, W
  <2>1. /\ Len(W) = SumTo(LengthsOf(T))[Len(T)]
        /\ \A i \in 1 .. Len(T) : \A k \in 1 .. Len(T[i]) : W[SumTo(LengthsOf(T))[i - 1] + k] = T[i][k]
    BY <1>1, <1>2, JoinedWhole
  <2> QED BY <1>1, <2>1
<1>4. W \in Seq(Bytes)
  <2> HIDE DEF T, W
  <2> QED BY <1>1, <1>2, JoinedWhole
<1>5. ASSUME NEW x \in 0 .. Dim - 1, NEW y \in 0 .. Dim - 1
      PROVE  /\ BeforeTile(f, x, y) \in Nat
             /\ BeforeTile(f, x, y) + job.size[f][<<x, y>>] <= Len(W)
             /\ \A k \in 1 .. job.size[f][<<x, y>>] : W[BeforeTile(f, x, y) + k] = TileBytes(f, x, y)[k]
  <2> DEFINE n == y * Dim + x
             m == n + 1
             b == job.size[f][<<x, y>>]
             B == L[n]
  <2>1. m \in 1 .. N BY WalkIs
  <2>2. Dim \in Nat /\ y * Dim \in Nat BY MetaBasics
  <2>3. n \in Nat /\ m - 1 = n BY <2>2
  <2>4. SizesOf(f)[m] = b /\ T[m] = TileBytes(f, x, y) BY TilesAre
  <2>5. Len(T[m]) = b
    <3>1. LengthsOf(T)[m] = Len(T[m]) BY <1>1, <2>1, LengthsAreSizes
    <3> QED BY <1>1, <2>4, <3>1
  <2>6. B = BeforeTile(f, x, y) BY DEF BeforeTile
  <2> HIDE DEF m, n, T, N, W, b
  <2>7. L \in [0 .. N -> Nat] /\ L[m] = L[m - 1] + SizesOf(f)[m] BY <1>1, <2>1, SumToDef
  <2>8. L[m] <= L[N]
    <3>1. m \in 0 .. Len(SizesOf(f)) /\ N \in m .. Len(SizesOf(f)) BY <1>1, <2>1
    <3> QED BY <1>1, <3>1, SumToGrows
  <2>9. n \in 0 .. N /\ m \in 0 .. N BY <1>1, <2>1, <2>3
  <2>10. L[n] \in Nat /\ L[m] \in Nat BY <2>7, <2>9
  <2> HIDE DEF L
  <2>11. B \in Nat /\ B + b <= Len(W) BY <1>3, <2>3, <2>4, <2>7, <2>8, <2>10
  <2>12. ASSUME NEW k \in 1 .. b PROVE W[B + k] = TileBytes(f, x, y)[k]
    BY <1>3, <2>1, <2>3, <2>4, <2>5
  <2> QED BY <2>6, <2>11, <2>12 DEF b
<1> QED BY <1>3, <1>4, <1>5 DEF W, L, N

LEMMA TileAt ==
  ASSUME MetaTypes
  PROVE  /\ AllBytes(job.z) \in Seq(Bytes)
         /\ FormatSizes \in Seq(Nat) /\ Len(FormatSizes) = FormatCount
         /\ \A i \in 1 .. FormatCount : FormatSizes[i] = SumTo(SizesOf(MetaFormats[i]))[Dim * Dim]
         /\ \A i \in 1 .. FormatCount, x \in 0 .. Dim - 1, y \in 0 .. Dim - 1 :
              /\ BeforeFormat(i) \in Nat /\ BeforeTile(MetaFormats[i], x, y) \in Nat
              /\ BeforeFormat(i) + BeforeTile(MetaFormats[i], x, y) + job.size[MetaFormats[i]][<<x, y>>]
                   <= Len(AllBytes(job.z))
              /\ \A k \in 1 .. job.size[MetaFormats[i]][<<x, y>>] :
                   AllBytes(job.z)[(BeforeFormat(i) + BeforeTile(MetaFormats[i], x, y)) + k]
                     = TileBytes(MetaFormats[i], x, y)[k]
<1> DEFINE N == FormatCount
           T == [i \in DOMAIN MetaFormats |-> Walk(MetaFormats[i], job.z)]
           L == SumTo(FormatSizes)
           W == AllBytes(job.z)
<1>1. N \in Nat /\ DOMAIN MetaFormats = 1 .. N /\ \A i \in 1 .. N : MetaFormats[i] \in FormatSet
  BY MetaBasics
<1>2. \A i \in 1 .. N : T[i] = Walk(MetaFormats[i], job.z) BY <1>1
<1>3. \A i \in 1 .. N : T[i] \in Seq(Bytes) /\ Len(T[i]) = SumTo(SizesOf(MetaFormats[i]))[Dim * Dim]
  BY <1>1, <1>2, WalkAt
<1>4. T \in Seq(Seq(Bytes)) /\ Len(T) = N
  <2>1. DOMAIN T = 1 .. N /\ T = [i \in 1 .. N |-> T[i]] BY <1>1
  <2> DEFINE Q == Seq(Bytes)
  <2> HIDE DEF T, N
  <2>2. \A i \in 1 .. N : T[i] \in Q BY <1>3
  <2> HIDE DEF Q
  <2>3. T \in [1 .. N -> Q] BY <2>1, <2>2
  <2>4. T \in Seq(Q) /\ Len(T) = N BY <1>1, <2>3
  <2> QED BY <2>4 DEF Q
<1>5. FormatSizes = LengthsOf(T)
  <2>1. FormatSizes = [j \in 1 .. N |-> Len(T[j])] BY <1>1, <1>2 DEF FormatSizes
  <2> HIDE DEF T, N
  <2> QED BY <1>4, <2>1 DEF LengthsOf
<1>6. W = Joined(T) BY DEF AllBytes
<1> HIDE DEF T, N, W
<1>7. FormatSizes \in Seq(Nat) /\ Len(FormatSizes) = N /\ \A i \in 1 .. N : FormatSizes[i] = Len(T[i])
  BY <1>4, <1>5, LengthsAreSizes
<1>8. Len(W) = L[N] /\ \A i \in 1 .. N : \A k \in 1 .. Len(T[i]) : W[L[i - 1] + k] = T[i][k]
  <2>1. T \in Seq(Seq(Bytes)) BY <1>4
  <2>2. /\ Len(Joined(T)) = SumTo(LengthsOf(T))[Len(T)]
        /\ \A i \in 1 .. Len(T) : \A k \in 1 .. Len(T[i]) :
             Joined(T)[SumTo(LengthsOf(T))[i - 1] + k] = T[i][k]
    BY <2>1, JoinedWhole
  <2>3. Len(T) = N BY <1>4
  <2> QED BY <1>5, <1>6, <2>2, <2>3
<1>9. W \in Seq(Bytes) BY <1>4, <1>6, JoinedWhole
<1>10. ASSUME NEW i \in 1 .. N, NEW x \in 0 .. Dim - 1, NEW y \in 0 .. Dim - 1
       PROVE  /\ BeforeFormat(i) \in Nat /\ BeforeTile(MetaFormats[i], x, y) \in Nat
              /\ BeforeFormat(i) + BeforeTile(MetaFormats[i], x, y) + job.size[MetaFormats[i]][<<x, y>>] <= Len(W)
              /\ \A k \in 1 .. job.size[MetaFormats[i]][<<x, y>>] :
                   W[(BeforeFormat(i) + BeforeTile(MetaFormats[i], x, y)) + k] = TileBytes(MetaFormats[i], x, y)[k]
  <2> DEFINE f == MetaFormats[i]
             b == job.size[f][<<x, y>>]
             B == BeforeTile(f, x, y)
             A == BeforeFormat(i)
  <2>1. f \in FormatSet /\ T[i] = Walk(f, job.z) BY <1>1, <1>2
  <2>2. b \in Nat
    <3>1. <<x, y>> \in Places BY MetaBasics DEF Places
    <3> QED BY <2>1, <3>1, MetaBasics
  <2>3. B \in Nat /\ B + b <= Len(T[i]) /\ \A k \in 1 .. b : T[i][B + k] = TileBytes(f, x, y)[k]
    <3> HIDE DEF f
    <3> QED BY <2>1, WalkAt
  <2>4. A = L[i - 1] BY DEF BeforeFormat
  <2>5. L \in [0 .. N -> Nat] /\ L[i] = L[i - 1] + FormatSizes[i] BY <1>7, SumToDef
  <2>6. L[i] <= L[N]
    <3>1. i \in 0 .. Len(FormatSizes) /\ N \in i .. Len(FormatSizes) BY <1>1, <1>7
    <3> QED BY <1>7, <3>1, SumToGrows
  <2>7. i - 1 \in 0 .. N /\ i \in 0 .. N BY <1>1
  <2>8. L[i - 1] \in Nat /\ L[i] \in Nat BY <2>5, <2>7
  <2>9. Len(T[i]) = FormatSizes[i] /\ FormatSizes[i] \in Nat BY <1>7
  <2> HIDE DEF f, b, B, A, L
  <2>10. A \in Nat /\ A + B + b <= Len(W)
    <3> DEFINE l == Len(T[i])
               e == Len(W)
    <3>1. A \in Nat /\ l \in Nat /\ e \in Nat /\ A + l <= e
      <4>1. e = L[N] /\ L[N] \in Nat BY <1>1, <1>8, <2>5
      <4> HIDE DEF e
      <4> QED BY <4>1, <2>4, <2>5, <2>6, <2>8, <2>9
    <3>2. B + b <= l BY <2>3
    <3> HIDE DEF l, e
    <3>3. A + B + b <= e BY <2>2, <2>3, <3>1, <3>2
    <3> QED BY <3>1, <3>3 DEF e
  <2>11. ASSUME NEW k \in 1 .. b PROVE W[(A + B) + k] = TileBytes(f, x, y)[k]
    <3>1. B + k \in 1 .. Len(T[i]) /\ (A + B) + k = A + (B + k) BY <2>2, <2>3, <2>9, <2>10
    <3>2. W[A + (B + k)] = T[i][B + k] BY <1>8, <2>4, <3>1
    <3> QED BY <2>3, <3>1, <3>2
  <2> QED BY <2>3, <2>10, <2>11 DEF f, b, B, A
<1> QED BY <1>2, <1>3, <1>7, <1>9, <1>10 DEF N, W

\* The sizes that make_metatile gives to write_headers, place by place.
At(i, y, x) == (i - 1) * (MetaSide * MetaSide) + y * MetaSide + x
SizeAt(f, x, y) == IF x < Dim /\ y < Dim THEN job.size[f][<<x, y>>] ELSE 0

LEMMA AtIs ==
  ASSUME MetaTypes, NEW i \in 1 .. FormatCount, NEW x \in 0 .. MetaSide - 1, NEW y \in 0 .. MetaSide - 1
  PROVE  /\ At(i, y, x) \in Nat /\ At(i, y, x) + 1 \in 1 .. FormatCount * (MetaSide * MetaSide)
         /\ At(i, y, x) \div (MetaSide * MetaSide) = i - 1
         /\ At(i, y, x) % (MetaSide * MetaSide) = y * MetaSide + x
         /\ (y * MetaSide + x) % MetaSide = x /\ (y * MetaSide + x) \div MetaSide = y
         /\ y * MetaSide + x \in 0 .. MetaSide * MetaSide - 1
<1> DEFINE M == MetaSide
           S == M * M
           N == FormatCount
           r == y * M + x
           q == i - 1
           a == At(i, y, x)
<1>1. M \in Nat \ {0} /\ N \in Nat BY MetaBasics
<1>2. a = q * S + y * M + x BY DEF At
<1>3. x \in 0 .. M - 1 /\ y \in 0 .. M - 1 /\ i \in 1 .. N OBVIOUS
<1> HIDE DEF M, N
<1>4. y * M \in Nat /\ y * M <= (M - 1) * M /\ (M - 1) * M = M * M - M /\ y * M = M * y BY <1>1, <1>3
<1>5. S \in Nat \ {0} BY <1>1
<1>6. r \in 0 .. S - 1 /\ r = M * y + x /\ r \in Nat BY <1>1, <1>3, <1>4
<1>7. r % M = x /\ r \div M = y
  <2> HIDE DEF r
  <2> QED BY <1>1, <1>3, <1>6, QuotientIs
<1>8. q \in Nat /\ q <= N - 1 BY <1>1, <1>3
<1> HIDE DEF S, q
<1>9. q * S \in Nat /\ q * S = S * q /\ q * S <= (N - 1) * S /\ (N - 1) * S = N * S - S BY <1>1, <1>5, <1>8
<1>10. a = q * S + r /\ a = S * q + r /\ a \in Nat
  <2> HIDE DEF a
  <2> QED BY <1>2, <1>3, <1>4, <1>9
<1> HIDE DEF r, a
<1>11. a + 1 \in 1 .. N * S
  <2>1. N * S \in Nat BY <1>1, <1>5
  <2> QED BY <2>1, <1>5, <1>6, <1>9, <1>10
<1>12. a \div S = q /\ a % S = r BY <1>5, <1>6, <1>8, <1>10, QuotientIs
<1> QED BY <1>6, <1>7, <1>10, <1>11, <1>12 DEF M, N, S, r, q, a

LEMMA GridIs ==
  ASSUME MetaTypes
  PROVE  /\ GridSizes(job.z) \in Seq(Nat)
         /\ Len(GridSizes(job.z)) = FormatCount * (MetaSide * MetaSide)
         /\ \A i \in 1 .. FormatCount, x \in 0 .. MetaSide - 1, y \in 0 .. MetaSide - 1 :
              GridSizes(job.z)[At(i, y, x) + 1] = SizeAt(MetaFormats[i], x, y)
<1> DEFINE M == MetaSide
           S == MetaSide * MetaSide
           N == FormatCount
           G == GridSizes(job.z)
           F(c) == MetaFormats[c \div S + 1]
           X(c) == (c % S) % M
           Y(c) == (c % S) \div M
<1>1. G = [at \in 1 .. N * S |-> SizeAt(F(at - 1), X(at - 1), Y(at - 1))]
  BY DEF GridSizes, SizeAt, Dim, FormatCount
<1>2. M \in Nat \ {0} /\ N \in Nat /\ S \in Nat \ {0} /\ N * S \in Nat BY MetaBasics
<1>3. ASSUME NEW at \in 1 .. N * S PROVE SizeAt(F(at - 1), X(at - 1), Y(at - 1)) \in Nat
  <2> DEFINE c == at - 1
             q == c \div S
             r == c % S
  <2>1. c \in Nat /\ c < N * S BY <1>2
  <2> HIDE DEF c, S, M, N
  <2>2. q \in Nat /\ r \in 0 .. S - 1 /\ c = S * q + r BY <1>2, <2>1, Quotient
  <2> HIDE DEF q, r
  <2>3. q < N
    <3>1. SUFFICES ASSUME q >= N PROVE FALSE BY <1>2, <2>2
    <3>2. S * q >= S * N /\ S * N = N * S /\ S * q \in Nat BY <3>1, <1>2, <2>2
    <3> QED BY <3>2, <2>1, <2>2, <1>2
  <2>4. q + 1 \in 1 .. N BY <1>2, <2>2, <2>3
  <2>5. MetaFormats[q + 1] \in FormatSet BY <2>4, MetaBasics DEF N
  <2>6. r % M \in 0 .. M - 1 /\ r \div M \in Nat
    <3>1. r \in Nat BY <2>2
    <3> QED BY <1>2, <3>1, Quotient
  <2>7. ASSUME NEW f \in FormatSet, NEW x \in 0 .. M - 1, NEW y \in Nat PROVE SizeAt(f, x, y) \in Nat
    <3>1. Dim \in Nat /\ Dim <= M /\ M \in Nat BY MetaBasics DEF M
    <3>2. x < Dim /\ y < Dim => <<x, y>> \in Places BY <3>1 DEF Places, M
    <3> QED BY <3>2, MetaBasics DEF SizeAt
  <2>8. SizeAt(MetaFormats[q + 1], r % M, r \div M) \in Nat BY <2>5, <2>6, <2>7
  <2> QED BY <2>8 DEF c, q, r
<1>4. G \in Seq(Nat) /\ Len(G) = N * S
  <2> HIDE DEF F, X, Y
  <2>1. G \in [1 .. N * S -> Nat] BY <1>1, <1>3
  <2> DEFINE b == N * S
  <2>2. b \in Nat /\ G \in [1 .. b -> Nat] BY <1>2, <2>1
  <2> HIDE DEF b, G
  <2>3. G \in Seq(Nat) /\ Len(G) = b BY <2>2
  <2> QED BY <2>3 DEF b
<1>5. ASSUME NEW i \in 1 .. N, NEW x \in 0 .. M - 1, NEW y \in 0 .. M - 1
      PROVE  G[At(i, y, x) + 1] = SizeAt(MetaFormats[i], x, y)
  <2> DEFINE a == At(i, y, x)
  <2>1. a \in Nat /\ a + 1 \in 1 .. N * S /\ a \div S = i - 1 /\ a % S = y * M + x
        /\ (y * M + x) % M = x /\ (y * M + x) \div M = y
    BY AtIs
  <2> HIDE DEF a, G
  <2>2. (a + 1) - 1 = a /\ (i - 1) + 1 = i BY <2>1
  <2>3. F(a) = MetaFormats[i] /\ X(a) = x /\ Y(a) = y
    <3> HIDE DEF S, M
    <3> QED BY <2>1, <2>2
  <2> HIDE DEF F, X, Y
  <2>4. G[a + 1] = SizeAt(F((a + 1) - 1), X((a + 1) - 1), Y((a + 1) - 1)) BY <1>1, <2>1
  <2> QED BY <2>2, <2>3, <2>4 DEF a
<1> QED BY <1>4, <1>5

\* The running offset of write_headers at a place is what was written before it:
\* places without a tile add nothing to either.
Passed(y, x) == IF y < Dim THEN y * Dim + MinOf(x, Dim) ELSE Dim * Dim
SumsAgree(i, y, x) ==
  SumTo(GridSizes(job.z))[At(i, y, x)] = BeforeFormat(i) + SumTo(SizesOf(MetaFormats[i]))[Passed(y, x)]

LEMMA SumsAlongRow ==
  ASSUME MetaTypes, NEW i \in 1 .. FormatCount, NEW y \in 0 .. MetaSide - 1, SumsAgree(i, y, 0)
  PROVE  \A x \in Nat : x <= MetaSide => SumsAgree(i, y, x)
<1> DEFINE S == {x \in Nat : x <= MetaSide => SumsAgree(i, y, x)}
           G == GridSizes(job.z)
           H == SumTo(G)
           f == MetaFormats[i]
           Z == SizesOf(f)
           L == SumTo(Z)
           D == Dim
<1>1. 0 \in S OBVIOUS
<1>2. ASSUME NEW x \in Nat, x \in S PROVE x + 1 \in S
  <2>1. SUFFICES ASSUME x + 1 <= MetaSide PROVE SumsAgree(i, y, x + 1) OBVIOUS
  <2>2. MetaSide \in Nat /\ x \in 0 .. MetaSide - 1 /\ D \in Nat \ {0} /\ f \in FormatSet
    BY <2>1, MetaBasics
  <2>3. SumsAgree(i, y, x) BY <1>2, <2>2
  <2> DEFINE a == At(i, y, x)
             p == Passed(y, x)
  <2>4. a \in Nat /\ a + 1 \in 1 .. Len(G) /\ G \in Seq(Nat) /\ G[a + 1] = SizeAt(f, x, y)
    BY <2>2, AtIs, GridIs
  <2>5. At(i, y, x + 1) = a + 1
    <3>1. (i - 1) * (MetaSide * MetaSide) \in Int /\ y * MetaSide \in Int BY <2>2
    <3> QED BY <3>1, <2>2 DEF At
  <2> HIDE DEF a
  <2>6. H[a + 1] = H[a] + SizeAt(f, x, y) /\ H[a] \in Nat
    <3> HIDE DEF G
    <3>1. H \in [0 .. Len(G) -> Nat] BY <2>4, SumToDef
    <3>2. (a + 1) - 1 = a /\ a \in 0 .. Len(G) BY <2>4
    <3>3. H[a + 1] = H[(a + 1) - 1] + G[a + 1] BY <2>4, SumToDef
    <3> QED BY <3>1, <3>2, <3>3, <2>4
  <2>7. BeforeFormat(i) \in Nat
    <3>1. 0 \in 0 .. Dim - 1 BY <2>2
    <3> QED BY <3>1, TileAt
  <2>8. L[Passed(y, x + 1)] = L[p] + SizeAt(f, x, y) /\ L[p] \in Nat
    <3>1. Z \in Seq(Nat) /\ Len(Z) = D * D /\ D * D \in Nat BY <2>2, TilesAre, WalkIs
    <3>2. L \in [0 .. D * D -> Nat]
      <4> HIDE DEF Z
      <4> QED BY <3>1, SumToDef
    <3>3. CASE x < D /\ y < D
      <4> DEFINE n == y * D + x
      <4>1. n + 1 \in 1 .. D * D /\ Z[n + 1] = job.size[f][<<x, y>>]
        <5>1. x \in 0 .. D - 1 /\ y \in 0 .. D - 1
          <6> HIDE DEF D
          <6> QED BY <2>2, <3>3
        <5>2. y * Dim + x + 1 \in 1 .. Dim * Dim BY <5>1, WalkIs
        <5>3. SizesOf(f)[y * Dim + x + 1] = job.size[f][<<x, y>>] BY <5>1, <2>2, TilesAre
        <5> QED BY <5>2, <5>3
      <4>2. n \in Nat /\ p = n /\ Passed(y, x + 1) = n + 1
        <5>1. y * D \in Nat BY <2>2
        <5>2. p = y * D + MinOf(x, D) /\ Passed(y, x + 1) = y * D + MinOf(x + 1, D) BY <3>3 DEF Passed
        <5>3. MinOf(x, D) = x /\ MinOf(x + 1, D) = x + 1
          <6> HIDE DEF D
          <6> QED BY <3>3, <2>2 DEF MinOf
        <5> HIDE DEF D, p
        <5> QED BY <5>1, <5>2, <5>3
      <4> HIDE DEF n, Z, D
      <4>3. L[n + 1] = L[(n + 1) - 1] + Z[n + 1] BY <3>1, <4>1, SumToDef
      <4>4. (n + 1) - 1 = n /\ n \in 0 .. D * D
        <5> DEFINE b == D * D
        <5>1. b \in Nat /\ n + 1 \in 1 .. b BY <3>1, <4>1
        <5> HIDE DEF b
        <5>2. n \in 0 .. b BY <5>1, <4>2
        <5> QED BY <4>2, <5>2 DEF b
      <4>5. SizeAt(f, x, y) = job.size[f][<<x, y>>] BY <3>3 DEF SizeAt, D
      <4>6. L[n] \in Nat BY <3>2, <4>4
      <4> HIDE DEF p, L
      <4> QED BY <4>1, <4>2, <4>3, <4>4, <4>5, <4>6
    <3>4. CASE ~(x < D /\ y < D)
      <4>1. SizeAt(f, x, y) = 0 BY <3>4 DEF SizeAt
      <4>2. Passed(y, x + 1) = p
        <5>1. CASE y < D
          <6>1. MinOf(x, D) = D /\ MinOf(x + 1, D) = D
            <7> HIDE DEF D
            <7> QED BY <3>4, <5>1, <2>2 DEF MinOf
          <6> QED BY <6>1, <5>1 DEF Passed
        <5>2. CASE ~(y < D) BY <5>2 DEF Passed
        <5> QED BY <5>1, <5>2
      <4>3. p \in 0 .. D * D
        <5>1. CASE y < D
          <6>1. p = y * D + D
            <7>1. MinOf(x, D) = D
              <8> HIDE DEF D
              <8> QED BY <3>4, <5>1, <2>2 DEF MinOf
            <7> QED BY <7>1, <5>1 DEF Passed
          <6>2. y * D \in Nat /\ y * D <= (D - 1) * D /\ (D - 1) * D = D * D - D
            <7> HIDE DEF D
            <7> QED BY <5>1, <2>2
          <6> HIDE DEF D, p
          <6> QED BY <6>1, <6>2, <2>2, <3>1
        <5>2. CASE ~(y < D)
          <6>1. p = D * D BY <5>2 DEF Passed
          <6> HIDE DEF D, p
          <6> QED BY <6>1, <3>1
        <5> QED BY <5>1, <5>2
      <4>4. L[p] \in Nat
        <5> HIDE DEF L, D, p
        <5> QED BY <3>2, <4>3
      <4> HIDE DEF L, D, p
      <4> QED BY <4>1, <4>2, <4>4
    <3> QED BY <3>3, <3>4
  <2>9. H[a] = BeforeFormat(i) + L[p] BY <2>3 DEF SumsAgree, a
  <2>10. SizeAt(f, x, y) \in Nat BY <2>4
  <2> DEFINE b == SizeAt(f, x, y)
             l == L[p]
             k == L[Passed(y, x + 1)]
             B == BeforeFormat(i)
             h == H[a]
             g == H[a + 1]
  <2>11. h = B + l /\ g = h + b /\ k = l + b /\ b \in Nat /\ l \in Nat /\ B \in Nat
    BY <2>6, <2>7, <2>8, <2>9, <2>10
  <2> HIDE DEF b, l, k, B, h, g
  <2>12. g = B + k BY <2>11
  <2> QED BY <2>5, <2>12 DEF g, B, k, SumsAgree
<1> HIDE DEF S
<1>3. \A x \in Nat : x \in S BY <1>1, <1>2, AllNaturals
<1> QED BY <1>3 DEF S

LEMMA SumsAlongColumn ==
  ASSUME MetaTypes, NEW i \in 1 .. FormatCount, SumsAgree(i, 0, 0)
  PROVE  \A y \in Nat : y <= MetaSide => SumsAgree(i, y, 0)
<1> DEFINE S == {y \in Nat : y <= MetaSide => SumsAgree(i, y, 0)}
           D == Dim
           M == MetaSide
<1>1. 0 \in S OBVIOUS
<1>2. ASSUME NEW y \in Nat, y \in S PROVE y + 1 \in S
  <2>1. SUFFICES ASSUME y + 1 <= M PROVE SumsAgree(i, y + 1, 0) OBVIOUS
  <2>2. M \in Nat /\ M <= M /\ y \in 0 .. M - 1 /\ D \in Nat \ {0} /\ D <= M BY <2>1, MetaBasics
  <2>3. SumsAgree(i, y, 0) BY <1>2, <2>2
  <2>4. SumsAgree(i, y, M)
    <3>1. \A x \in Nat : x <= MetaSide => SumsAgree(i, y, x) BY <2>2, <2>3, SumsAlongRow
    <3> QED BY <2>2, <3>1
  <2>5. At(i, y, M) = At(i, y + 1, 0)
    <3> DEFINE b == (i - 1) * (M * M)
    <3>1. b \in Int /\ (y + 1) * M = y * M + M /\ y * M \in Nat BY <2>2
    <3>2. At(i, y, M) = b + y * M + M /\ At(i, y + 1, 0) = b + (y + 1) * M + 0 BY DEF At
    <3> HIDE DEF b, M
    <3> QED BY <2>2, <3>1, <3>2
  <2>6. Passed(y, M) = Passed(y + 1, 0)
    <3>1. MinOf(M, D) = D /\ MinOf(0, D) = 0
      <4> HIDE DEF M, D
      <4> QED BY <2>2 DEF MinOf
    <3>2. Passed(y, M) = (IF y < D THEN y * D + D ELSE D * D)
          /\ Passed(y + 1, 0) = (IF y + 1 < D THEN (y + 1) * D + 0 ELSE D * D)
      BY <3>1 DEF Passed
    <3>3. (y + 1) * D = y * D + D /\ y * D \in Nat BY <2>2
    <3> HIDE DEF D
    <3>4. CASE y + 1 < D BY <3>2, <3>3, <3>4, <2>2
    <3>5. CASE y + 1 = D BY <3>2, <3>3, <3>5, <2>2
    <3>6. CASE ~(y < D) BY <3>2, <3>6, <2>2
    <3> QED BY <2>2, <3>4, <3>5, <3>6
  <2> QED BY <2>4, <2>5, <2>6 DEF SumsAgree
<1> HIDE DEF S
<1>3. \A y \in Nat : y \in S BY <1>1, <1>2, AllNaturals
<1> QED BY <1>3 DEF S

LEMMA SumsAlongFormats ==
  ASSUME MetaTypes
  PROVE  \A i \in Nat : i + 1 \in 1 .. FormatCount => SumsAgree(i + 1, 0, 0)
<1> DEFINE S == {i \in Nat : i + 1 \in 1 .. FormatCount => SumsAgree(i + 1, 0, 0)}
           M == MetaSide
           D == Dim
           H == SumTo(GridSizes(job.z))
           A == SumTo(FormatSizes)
<1>1. M \in Nat \ {0} /\ D \in Nat \ {0} /\ D <= M /\ FormatCount \in Nat BY MetaBasics
<1>2. A[0] = 0 /\ A \in [0 .. FormatCount -> Nat]
      /\ \A k \in 1 .. FormatCount : A[k] = A[k - 1] + FormatSizes[k]
  BY TileAt, SumToDef
<1>3. Passed(0, 0) = 0 /\ Passed(M, 0) = D * D
  <2>1. MinOf(0, D) = 0
    <3> HIDE DEF D
    <3> QED BY <1>1 DEF MinOf
  <2>2. Passed(0, 0) = IF 0 < D THEN 0 * D + 0 ELSE D * D BY <2>1 DEF Passed
  <2>3. Passed(M, 0) = IF M < D THEN M * D + 0 ELSE D * D BY <2>1 DEF Passed
  <2> HIDE DEF M, D
  <2> QED BY <1>1, <2>2, <2>3
<1>4. ASSUME NEW i \in 1 .. FormatCount PROVE SumTo(SizesOf(MetaFormats[i]))[0] = 0
  BY MetaBasics, TilesAre, SumToDef
<1>5. 0 \in S
  <2>1. SUFFICES ASSUME 0 + 1 \in 1 .. FormatCount PROVE SumsAgree(0 + 1, 0, 0) OBVIOUS
  <2>2. 1 \in 1 .. FormatCount /\ 0 + 1 = 1 BY <2>1
  <2>3. At(1, 0, 0) = 0
    <3>1. (1 - 1) * (M * M) = 0 /\ 0 * M = 0 BY <1>1
    <3> QED BY <3>1 DEF At
  <2>4. H[0] = 0 BY GridIs, SumToDef
  <2>5. BeforeFormat(1) = 0 BY <1>2 DEF BeforeFormat
  <2> QED BY <2>2, <2>3, <2>4, <2>5, <1>3, <1>4 DEF SumsAgree
<1>6. ASSUME NEW n \in Nat, n \in S PROVE n + 1 \in S
  <2>1. SUFFICES ASSUME (n + 1) + 1 \in 1 .. FormatCount PROVE SumsAgree((n + 1) + 1, 0, 0) OBVIOUS
  <2> DEFINE i == n + 1
  <2>2. i \in 1 .. FormatCount /\ i \in Nat /\ (i + 1) - 1 = i /\ i - 1 \in 0 .. FormatCount BY <2>1, <1>1
  <2>3. SumsAgree(i, 0, 0) BY <1>6, <2>2
  <2> HIDE DEF i
  <2>4. SumsAgree(i, M, 0)
    <3>1. \A y \in Nat : y <= MetaSide => SumsAgree(i, y, 0) BY <2>2, <2>3, SumsAlongColumn
    <3>2. M \in Nat /\ M <= MetaSide BY <1>1
    <3> QED BY <3>1, <3>2
  <2>5. At(i, M, 0) = At(i + 1, 0, 0)
    <3> DEFINE P == M * M
    <3>1. P \in Nat BY <1>1
    <3>2. At(i, M, 0) = (i - 1) * P + P + 0 /\ At(i + 1, 0, 0) = ((i + 1) - 1) * P + 0 * M + 0 BY DEF At
    <3> HIDE DEF P, M
    <3>3. (i - 1) * P = i * P - P /\ i * P \in Nat /\ ((i + 1) - 1) * P = i * P /\ 0 * M = 0
      BY <1>1, <2>2, <3>1
    <3> QED BY <3>1, <3>2, <3>3
  <2>6. FormatSizes[i] = SumTo(SizesOf(MetaFormats[i]))[D * D] BY <2>2, TileAt
  <2>7. A[i] = A[i - 1] + FormatSizes[i] BY <1>2, <2>2
  <2>8. BeforeFormat(i) = A[i - 1] /\ BeforeFormat(i + 1) = A[i] BY <2>2 DEF BeforeFormat
  <2>9. H[At(i + 1, 0, 0)] = BeforeFormat(i + 1)
    BY <2>4, <2>5, <2>6, <2>7, <2>8, <1>3 DEF SumsAgree
  <2>10. A[i] \in Nat
    <3>1. i \in 0 .. FormatCount BY <2>2
    <3> HIDE DEF A
    <3> QED BY <1>2, <3>1
  <2>11. BeforeFormat(i + 1) = BeforeFormat(i + 1) + 0
    <3> HIDE DEF A
    <3> QED BY <2>8, <2>10
  <2>12. SumTo(SizesOf(MetaFormats[i + 1]))[Passed(0, 0)] = 0 BY <1>3, <1>4, <2>1 DEF i
  <2>13. SumsAgree(i + 1, 0, 0) BY <2>9, <2>11, <2>12 DEF SumsAgree
  <2> QED BY <2>13 DEF i
<1> HIDE DEF S
<1>7. \A i \in Nat : i \in S BY <1>5, <1>6, AllNaturals
<1> QED BY <1>7 DEF S

LEMMA RunningOffset ==
  ASSUME MetaTypes, NEW i \in 1 .. FormatCount, NEW x \in 0 .. MetaSide - 1, NEW y \in 0 .. MetaSide - 1
  PROVE  /\ SumTo(GridSizes(job.z))[At(i, y, x)] \in Nat
         /\ x < Dim /\ y < Dim => SumTo(GridSizes(job.z))[At(i, y, x)]
                                   = BeforeFormat(i) + BeforeTile(MetaFormats[i], x, y)
<1>1. MetaSide \in Nat /\ Dim \in Nat BY MetaBasics
<1>2. SumsAgree(i, y, x)
  <2>1. SumsAgree((i - 1) + 1, 0, 0)
    <3>1. i - 1 \in Nat /\ (i - 1) + 1 = i OBVIOUS
    <3> QED BY <3>1, SumsAlongFormats
  <2>2. (i - 1) + 1 = i OBVIOUS
  <2>3. SumsAgree(i, 0, 0) BY <2>1, <2>2
  <2>4. y \in Nat /\ y <= MetaSide /\ x \in Nat /\ x <= MetaSide BY <1>1
  <2>5. SumsAgree(i, y, 0) BY <2>3, <2>4, SumsAlongColumn
  <2> QED BY <2>4, <2>5, SumsAlongRow
<1>3. SumTo(GridSizes(job.z))[At(i, y, x)] \in Nat
  <2> DEFINE G == GridSizes(job.z)
             a == At(i, y, x)
             b == FormatCount * (MetaSide * MetaSide)
  <2>0. a \in Nat /\ a + 1 \in 1 .. b BY AtIs
  <2>1. G \in Seq(Nat) /\ a \in 0 .. Len(G)
    <3>1. G \in Seq(Nat) /\ Len(G) = b BY GridIs
    <3> HIDE DEF G, a, b
    <3> QED BY <2>0, <3>1
  <2> HIDE DEF G, a, b
  <2>2. SumTo(G) \in [0 .. Len(G) -> Nat] BY <2>1, SumToDef
  <2>3. SumTo(G)[a] \in Nat BY <2>1, <2>2
  <2> QED BY <2>3 DEF G, a
<1>4. ASSUME x < Dim, y < Dim PROVE Passed(y, x) = y * Dim + x
  BY <1>1, <1>4 DEF Passed, MinOf
<1> QED BY <1>2, <1>3, <1>4 DEF SumsAgree, BeforeTile

-----------------------------------------------------------------------------
(* What a metatile is made of, and the readers *)

EntryRight(e, i, x, y) ==
  /\ e.offset \in Nat /\ e.size = SizeAt(MetaFormats[i], x, y)
  /\ x < Dim /\ y < Dim => e.offset = FormatCount + BeforeFormat(i) + BeforeTile(MetaFormats[i], x, y)

HeaderRight(h, i) ==
  /\ h.kind = "header" /\ h.fmt = MetaFormats[i]
  /\ \A x \in 0 .. MetaSide - 1, y \in 0 .. MetaSide - 1 : EntryRight(h.index[Offset(x, y) + 1], i, x, y)

\* A header for each format, in order, with the place and the size of every
\* tile, and then the bytes.
WellMade(m) ==
  /\ \E U : m \in Seq(U)
  /\ Len(m) = FormatCount + Len(AllBytes(job.z))
  /\ \A i \in 1 .. FormatCount : HeaderRight(m[i], i)
  /\ \A k \in 1 .. Len(AllBytes(job.z)) : m[FormatCount + k] = AllBytes(job.z)[k]

LEMMA FunctionIsSequence ==
  ASSUME NEW U, NEW n \in Nat, NEW h, h \in [1 .. n -> U]
  PROVE  h \in Seq(U) /\ Len(h) = n
OBVIOUS

LEMMA SameElements ==
  ASSUME NEW U, NEW V, NEW s \in Seq(U), NEW t \in Seq(V), Len(s) = Len(t), \A i \in 1 .. Len(s) : s[i] = t[i]
  PROVE  s = t
OBVIOUS

LEMMA PartOf ==
  ASSUME NEW U, NEW d \in Seq(U), NEW m \in 1 .. (Len(d) + 1), NEW n \in (m - 1) .. Len(d)
  PROVE  /\ SubSeq(d, m, n) \in Seq(U) /\ Len(SubSeq(d, m, n)) = n - m + 1
         /\ \A i \in 1 .. (n - m + 1) : SubSeq(d, m, n)[i] = d[m + i - 1]
OBVIOUS

\* Two sequences, one after the other.
IsJoin(m, h, b) ==
  /\ Len(m) = Len(h) + Len(b) /\ \A i \in 1 .. Len(h) : m[i] = h[i]
  /\ \A k \in 1 .. Len(b) : m[Len(h) + k] = b[k]

LEMMA TwoParts ==
  ASSUME NEW H, NEW B, NEW h \in Seq(H), NEW b \in Seq(B)
  PROVE  h \o b \in Seq(H \cup B) /\ IsJoin(h \o b, h, b)
<1> DEFINE U == H \cup B
<1>1. H \subseteq U /\ B \subseteq U OBVIOUS
<1> HIDE DEF U
<1>2. h \in Seq(U) /\ b \in Seq(U) BY <1>1
<1>3. h \o b \in Seq(U) /\ IsJoin(h \o b, h, b) BY <1>2, ConcatAt DEF IsJoin
<1> QED BY <1>3 DEF U

\* The sequence b after n units of m, and the sequence T after c elements of b.
Follows(m, n, b) == Len(m) = n + Len(b) /\ \A k \in 1 .. Len(b) : m[n + k] = b[k]
IsPart(b, c, T) == c + Len(T) <= Len(b) /\ \A k \in 1 .. Len(T) : b[c + k] = T[k]

CutsOut(m, g, o, T) == SubSeq(SubSeq(m, 1, g), o + 1, MinOf(o + Len(T), g)) = T

\* A part of the units, when it is all there.
LEMMA PartOfUnits ==
  ASSUME NEW U, NEW V, NEW m \in Seq(U), NEW g \in 0 .. Len(m), NEW n \in Nat, NEW b \in Seq(V),
         NEW c \in Nat, NEW T \in Seq(V), Follows(m, n, b), IsPart(b, c, T), (n + c) + Len(T) <= g
  PROVE  CutsOut(m, g, n + c, T)
<1> DEFINE s == Len(T)
<1>a. s \in Nat /\ Len(T) = s /\ (n + c) + s <= g OBVIOUS
<1>b. Len(m) = n + Len(b) /\ \A k \in 1 .. Len(b) : m[n + k] = b[k] BY DEF Follows
<1>c. c + s <= Len(b) /\ \A k \in 1 .. s : b[c + k] = T[k] BY DEF IsPart
<1> HIDE DEF s
<1> DEFINE d == SubSeq(m, 1, g)
           o == n + c
           w == SubSeq(d, o + 1, o + s)
<1>1. d \in Seq(U) /\ Len(d) = g /\ \A j \in 1 .. g : d[j] = m[j] OBVIOUS
<1>2. MinOf(o + s, g) = o + s BY <1>a DEF MinOf
<1>3. o \in Nat /\ o + s <= g /\ g \in Nat BY <1>a
<1> HIDE DEF d
<1>4. ASSUME NEW k \in 1 .. s PROVE d[o + k] = T[k]
  <2>1. o + k \in 1 .. g /\ o + k = n + (c + k) /\ c + k \in 1 .. Len(b) BY <1>a, <1>c
  <2>2. m[n + (c + k)] = b[c + k] BY <1>b, <2>1
  <2> QED BY <1>1, <1>c, <2>1, <2>2
<1> HIDE DEF o
<1>5. w \in Seq(U) /\ Len(w) = s /\ \A k \in 1 .. s : w[k] = d[o + k]
  <2>1. o + 1 \in 1 .. Len(d) + 1 /\ o + s \in (o + 1) - 1 .. Len(d) /\ (o + s) - (o + 1) + 1 = s
    BY <1>1, <1>3, <1>a
  <2>2. \A k \in 1 .. s : (o + 1) + k - 1 = o + k BY <1>3
  <2>3. w \in Seq(U) /\ Len(w) = s /\ \A k \in 1 .. s : w[k] = d[(o + 1) + k - 1]
    <3> DEFINE a == o + 1
               e == o + s
    <3>1. a \in 1 .. (Len(d) + 1) /\ e \in (a - 1) .. Len(d) /\ e - a + 1 = s BY <2>1
    <3> HIDE DEF a, e
    <3>2. /\ SubSeq(d, a, e) \in Seq(U) /\ Len(SubSeq(d, a, e)) = e - a + 1
          /\ \A k \in 1 .. (e - a + 1) : SubSeq(d, a, e)[k] = d[a + k - 1]
      BY <1>1, <3>1, PartOf
    <3>3. SubSeq(d, a, e) \in Seq(U) /\ Len(SubSeq(d, a, e)) = s
          /\ \A k \in 1 .. s : SubSeq(d, a, e)[k] = d[a + k - 1]
      BY <3>1, <3>2
    <3> QED BY <3>3 DEF a, e
  <2> HIDE DEF w
  <2> QED BY <2>2, <2>3
<1> HIDE DEF w
<1>6. w = T BY <1>4, <1>5, <1>a, SameElements
<1> QED BY <1>2, <1>6 DEF w, d, o, s, CutsOut

\* Headers before the bytes make a metatile.
LEMMA HeadersAndBytes ==
  ASSUME MetaTypes, NEW H, NEW h \in Seq(H), Len(h) = FormatCount,
         \A i \in 1 .. FormatCount : HeaderRight(h[i], i)
  PROVE  WellMade(h \o AllBytes(job.z))
<1> DEFINE A == AllBytes(job.z)
           N == FormatCount
           U == H \cup Bytes
<1>1. N \in Nat BY MetaBasics
<1>3. A \in Seq(Bytes) BY TileAt
<1> HIDE DEF A, U
<1>4. /\ Len(h \o A) = N + Len(A) /\ \A i \in 1 .. N : (h \o A)[i] = h[i]
      /\ \A k \in 1 .. Len(A) : (h \o A)[N + k] = A[k]
  <2>1. IsJoin(h \o A, h, A) BY <1>3, TwoParts
  <2> HIDE DEF N
  <2> QED BY <2>1 DEF IsJoin, N
<1>5. h \o A \in Seq(U) BY <1>3, TwoParts DEF U
<1>6. \A i \in 1 .. N : HeaderRight((h \o A)[i], i) BY <1>4
<1> QED BY <1>4, <1>5, <1>6 DEF WellMade, A

\* What the readers find of the first units of a metatile.
LEMMA HeadersFound ==
  ASSUME MetaTypes, WellMade(metatile), got \in 0 .. Len(metatile), NEW f \in FormatSet
  PROVE  /\ \A i \in HeadersOf(f) : i \in 1 .. FormatCount /\ MetaFormats[i] = f /\ i <= got /\ HeaderRight(data[i], i)
         /\ got = Len(metatile) => \A i \in 1 .. FormatCount : MetaFormats[i] = f => i \in HeadersOf(f)
<1> DEFINE N == FormatCount
           A == AllBytes(job.z)
<1>1. PICK U : metatile \in Seq(U) BY DEF WellMade
<1>2. N \in Nat /\ Len(A) \in Nat /\ A \in Seq(Bytes) BY MetaBasics, TileAt
<1>3. Len(metatile) = N + Len(A) /\ \A k \in 1 .. Len(A) : metatile[N + k] = A[k] BY DEF WellMade
<1>4. \A j \in 1 .. got : data[j] = metatile[j] BY <1>1 DEF data
<1>5. \A k \in 1 .. Len(A) : A[k].kind = "byte"
  <2> DEFINE B == Bytes
  <2>1. \A b \in B : b.kind = "byte" BY DEF Bytes
  <2> HIDE DEF B, A
  <2>2. \A k \in 1 .. Len(A) : A[k] \in B BY <1>2 DEF B
  <2> QED BY <2>1, <2>2
<1>6. \A i \in 1 .. N : HeaderRight(metatile[i], i) BY DEF WellMade
<1>7. \A i \in 1 .. N : metatile[i].kind = "header" /\ metatile[i].fmt = MetaFormats[i]
  BY <1>6 DEF HeaderRight
<1> HIDE DEF N, A
<1>8. ASSUME NEW i \in 1 .. got, metatile[i].kind = "header" PROVE i \in 1 .. N
  <2>1. SUFFICES ASSUME i > N PROVE FALSE BY <1>2
  <2>2. i - N \in 1 .. Len(A) /\ N + (i - N) = i BY <1>2, <1>3, <2>1
  <2>3. metatile[i].kind = "byte" BY <1>3, <1>5, <2>2
  <2> QED BY <1>8, <2>3
<1>9. ASSUME NEW i \in HeadersOf(f)
      PROVE  i \in 1 .. N /\ MetaFormats[i] = f /\ i <= got /\ HeaderRight(data[i], i)
  <2>1. i \in 1 .. got /\ (\A j \in 1 .. i : IsHeader(j)) /\ data[i].fmt = f BY DEF HeadersOf
  <2>2. i \in 1 .. i BY <2>1
  <2>3. data[i].kind = "header" BY <2>1, <2>2 DEF IsHeader
  <2>4. data[i] = metatile[i] BY <1>4, <2>1
  <2>5. i \in 1 .. N BY <1>8, <2>1, <2>3, <2>4
  <2>6. i <= got BY <2>1
  <2> QED BY <1>6, <1>7, <2>1, <2>4, <2>5, <2>6
<1>10. ASSUME got = Len(metatile), NEW i \in 1 .. N, MetaFormats[i] = f PROVE i \in HeadersOf(f)
  <2>1. i \in 1 .. got /\ \A j \in 1 .. i : j \in 1 .. N /\ j \in 1 .. got /\ j <= got BY <1>2, <1>3, <1>10
  <2>2. \A j \in 1 .. i : IsHeader(j) BY <1>4, <1>7, <2>1 DEF IsHeader
  <2>3. data[i].fmt = f BY <1>4, <1>7, <1>10, <2>1
  <2> QED BY <2>1, <2>2, <2>3 DEF HeadersOf
<1> QED BY <1>9, <1>10 DEF N

\* The units at the place in the table are the tile, when they are all there.
LEMMA CutoutIsTile ==
  ASSUME MetaTypes, WellMade(metatile), got \in 0 .. Len(metatile), NEW i \in 1 .. FormatCount, NEW e,
         NEW x \in 0 .. MetaSide - 1, NEW y \in 0 .. MetaSide - 1, EntryRight(e, i, x, y)
  PROVE  /\ e.offset \in Nat /\ e.size \in Nat
         /\ e.offset + e.size <= got => Cutout(e.offset, e.size) = ExpectedTile(MetaFormats[i], x, y)
         /\ got = Len(metatile) => Cutout(e.offset, e.size) = ExpectedTile(MetaFormats[i], x, y)
<1> DEFINE f == MetaFormats[i]
           o == e.offset
           s == e.size
           N == FormatCount
           A == AllBytes(job.z)
<1>1. PICK U : metatile \in Seq(U) BY DEF WellMade
<1>2. N \in Nat /\ Len(A) \in Nat /\ f \in FormatSet BY MetaBasics, TileAt
<1>3. Len(metatile) = N + Len(A) /\ \A k \in 1 .. Len(A) : metatile[N + k] = A[k] BY DEF WellMade
<1>4. data \in Seq(U) /\ Len(data) = got /\ \A j \in 1 .. got : data[j] = metatile[j] BY <1>1 DEF data
<1>5. o \in Nat /\ s = SizeAt(f, x, y) /\ got \in Nat BY <1>1 DEF EntryRight
<1>6. InLevel(x, y) <=> x < Dim /\ y < Dim BY DEF InLevel, Dim
<1>7. CASE ~InLevel(x, y)
  <2>1. s = 0 /\ ExpectedTile(f, x, y) = <<>> BY <1>5, <1>6, <1>7 DEF SizeAt, ExpectedTile
  <2>2. MinOf(o + s, got) \in Nat /\ MinOf(o + s, got) < o + 1
    <3> HIDE DEF o, s
    <3> QED BY <1>5, <2>1 DEF MinOf
  <2>3. Cutout(o, s) = SubSeq(data, o + 1, MinOf(o + s, got)) BY DEF Cutout
  <2> DEFINE n == MinOf(o + s, got)
  <2> HIDE DEF n, o, s
  <2>4. SubSeq(data, o + 1, n) = <<>> BY <1>4, <1>5, <2>2 DEF n
  <2>5. Cutout(o, s) = <<>> BY <2>3, <2>4 DEF n
  <2>6. o \in Nat /\ s \in Nat BY <1>5, <2>1
  <2> HIDE DEF f
  <2>7. o \in Nat /\ s \in Nat /\ Cutout(o, s) = ExpectedTile(f, x, y) BY <2>1, <2>5, <2>6
  <2> QED BY <2>7 DEF o, s, f
<1>8. CASE InLevel(x, y)
  <2> DEFINE B == BeforeFormat(i) + BeforeTile(f, x, y)
             T == TileBytes(f, x, y)
  <2>1. MetaSide \in Nat /\ Dim \in Nat /\ x \in 0 .. Dim - 1 /\ y \in 0 .. Dim - 1 /\ <<x, y>> \in Places
    BY <1>6, <1>8, MetaBasics DEF Places
  <2>2. s = job.size[f][<<x, y>>] /\ s \in Nat BY <1>2, <1>5, <1>6, <1>8, <2>1, MetaBasics DEF SizeAt
  <2>3. /\ BeforeFormat(i) \in Nat /\ BeforeTile(f, x, y) \in Nat
        /\ BeforeFormat(i) + BeforeTile(f, x, y) + job.size[f][<<x, y>>] <= Len(A)
        /\ \A k \in 1 .. job.size[f][<<x, y>>] :
             A[(BeforeFormat(i) + BeforeTile(f, x, y)) + k] = T[k]
    BY <2>1, TileAt
  <2>4. B \in Nat /\ B + s <= Len(A) /\ \A k \in 1 .. s : A[B + k] = T[k]
    <3> DEFINE p == BeforeFormat(i)
               q == BeforeTile(f, x, y)
    <3>1. /\ p \in Nat /\ q \in Nat /\ p + q + s <= Len(A) /\ \A k \in 1 .. s : A[(p + q) + k] = T[k]
          /\ B = p + q
      <4> HIDE DEF A, T
      <4> QED BY <2>2, <2>3
    <3> HIDE DEF A, T, B, s, p, q
    <3>2. B \in Nat /\ B + s <= Len(A) BY <3>1
    <3>3. \A k \in 1 .. s : A[B + k] = T[k] BY <3>1
    <3> QED BY <3>2, <3>3
  <2>5. o = N + BeforeFormat(i) + BeforeTile(f, x, y) BY <1>6, <1>8 DEF EntryRight
  <2>6. o = N + B
    <3> HIDE DEF o, N, f
    <3> QED BY <1>2, <2>3, <2>5
  <2>7. T = [k \in 1 .. s |-> ByteOf(f, x, y, k)] BY <2>2 DEF TileBytes
  <2>8. ExpectedTile(f, x, y) = T BY <1>8 DEF ExpectedTile
  <2>a. N \in Nat /\ B \in Nat /\ s \in Nat /\ o = N + B /\ B + s <= Len(A) BY <1>2, <2>2, <2>4, <2>6
  <2>9. T \in Seq(Bytes) /\ Len(T) = s
    <3> DEFINE V == Bytes
    <3>1. \A k \in 1 .. s : ByteOf(f, x, y, k) \in V
      <4>1. x \in Nat /\ y \in Nat /\ \A k \in 1 .. s : k \in Nat BY <2>1, <2>2
      <4> HIDE DEF s, f
      <4> QED BY <1>2, <4>1 DEF ByteOf, Bytes
    <3> HIDE DEF s, V
    <3>2. T \in [1 .. s -> V] BY <2>7, <3>1
    <3>3. T \in Seq(V) /\ Len(T) = s
      <4> HIDE DEF T
      <4> QED BY <2>a, <3>2, FunctionIsSequence
    <3> QED BY <3>3 DEF V
  <2>10. ASSUME o + s <= got PROVE Cutout(o, s) = T
    <3> DEFINE m == metatile
               g == got
    <3>1. m \in Seq(U) /\ g \in 0 .. Len(m) /\ A \in Seq(Bytes) BY <1>1, TileAt
    <3>2. Cutout(o, s) = SubSeq(SubSeq(m, 1, g), (N + B) + 1, MinOf((N + B) + s, g))
      BY <2>6 DEF Cutout, data
    <3>3. Follows(m, N, A) BY <1>3 DEF Follows
    <3> HIDE DEF A, B, T
    <3>4. IsPart(A, B, T)
      <4> HIDE DEF s
      <4> QED BY <2>4, <2>9 DEF IsPart
    <3> HIDE DEF m, g, N, s, o
    <3>5. (N + B) + s <= g BY <2>a, <2>10 DEF g
    <3>6. T \in Seq(Bytes) /\ Len(T) = s BY <2>9
    <3>7. N \in Nat /\ B \in Nat BY <2>a
    <3>8. (N + B) + Len(T) <= g BY <3>5, <3>6
    <3>9. CutsOut(m, g, N + B, T) BY <3>1, <3>3, <3>4, <3>6, <3>7, <3>8, PartOfUnits
    <3> QED BY <3>2, <3>6, <3>9 DEF CutsOut
  <2>11. got = Len(metatile) => o + s <= got
    <3> DEFINE g == Len(metatile)
               l == Len(A)
    <3>1. g = N + l /\ l \in Nat BY <1>2, <1>3
    <3>2. B + s <= l BY <2>a
    <3> HIDE DEF g, l, A, N, B, s, o
    <3>3. o + s <= g BY <2>a, <3>1, <3>2
    <3> QED BY <3>3 DEF g
  <2>12. o \in Nat /\ s \in Nat BY <1>5, <2>a
  <2> HIDE DEF T, B, A, N, o, s, f
  <2> QED BY <2>8, <2>10, <2>11, <2>12 DEF o, s, f
<1> QED BY <1>7, <1>8

-----------------------------------------------------------------------------
(* The writers *)

\* make_metatile's headers.
LEMMA WrittenHeadersRight ==
  ASSUME MetaTypes, NEW i \in 1 .. FormatCount
  PROVE  HeaderRight(write_headers(GridSizes(job.z))[i], i)
<1> DEFINE M == MetaSide
           N == FormatCount
           G == GridSizes(job.z)
           E(p) == LET at == (i - 1) * MetaSide * MetaSide + p
                   IN [offset |-> Len(MetaFormats) + SumTo(G)[at - 1], size |-> G[at]]
           X == [p \in 1 .. M * M |-> E(p)]
           h == write_headers(G)[i]
<1>1. M \in Nat \ {0} /\ N \in Nat /\ DOMAIN MetaFormats = 1 .. N /\ N = Len(MetaFormats)
  BY MetaBasics DEF FormatCount
<1>2. h = Header(MetaFormats[i], X)
  <2> HIDE DEF G
  <2> QED BY <1>1 DEF write_headers
<1> HIDE DEF X, h
<1>3. h.kind = "header" /\ h.fmt = MetaFormats[i] /\ h.index = X BY <1>2 DEF Header
<1>4. ASSUME NEW x \in 0 .. M - 1, NEW y \in 0 .. M - 1 PROVE EntryRight(X[Offset(x, y) + 1], i, x, y)
  <2> DEFINE a == At(i, y, x)
             p == Offset(x, y) + 1
             f == MetaFormats[i]
  <2>1. a \in Nat /\ y * M + x \in 0 .. M * M - 1 BY AtIs
  <2>2. p \in 1 .. M * M
    <3> DEFINE S == M * M
               r == y * M + x
    <3>1. S \in Nat /\ r \in 0 .. S - 1 BY <1>1, <2>1
    <3>2. p = r + 1 BY DEF Offset
    <3> HIDE DEF S, r, p
    <3>3. p \in 1 .. S BY <3>1, <3>2
    <3> QED BY <3>3 DEF S
  <2>3. (i - 1) * M * M + p = a + 1
    <3> DEFINE q == i - 1
               w == y * M
    <3>1. a = q * (M * M) + w + x /\ p = w + x + 1 BY DEF At, Offset
    <3>2. q \in Nat /\ w \in Nat BY <1>1
    <3> HIDE DEF q, w, a, p, M
    <3>3. q * (M * M) = q * M * M /\ q * M * M \in Nat BY <1>1, <3>2
    <3>4. q * M * M + p = a + 1 BY <3>1, <3>2, <3>3
    <3> QED BY <3>4 DEF q
  <2> HIDE DEF p, G, a
  <2>4. X[p] = [offset |-> N + SumTo(G)[(a + 1) - 1], size |-> G[a + 1]] BY <1>1, <2>2, <2>3 DEF X, FormatCount
  <2>5. (a + 1) - 1 = a BY <2>1
  <2> DEFINE o == SumTo(G)[a]
  <2>6. X[p].offset = N + o /\ X[p].size = G[a + 1] BY <2>4, <2>5
  <2>7. G[a + 1] = SizeAt(f, x, y) BY GridIs DEF G, a
  <2>8. o \in Nat /\ (x < Dim /\ y < Dim => o = BeforeFormat(i) + BeforeTile(f, x, y)) BY RunningOffset DEF G, a
  <2>9. x < Dim /\ y < Dim => N + o = N + BeforeFormat(i) + BeforeTile(f, x, y)
    <3>1. SUFFICES ASSUME x < Dim, y < Dim PROVE N + o = N + BeforeFormat(i) + BeforeTile(f, x, y) OBVIOUS
    <3>2. x \in 0 .. Dim - 1 /\ y \in 0 .. Dim - 1 BY <1>1, <3>1, MetaBasics
    <3>3. BeforeFormat(i) \in Nat /\ BeforeTile(f, x, y) \in Nat BY <3>2, TileAt
    <3>4. o = BeforeFormat(i) + BeforeTile(f, x, y) BY <2>8, <3>1
    <3> HIDE DEF o, f, N
    <3> QED BY <1>1, <3>3, <3>4
  <2> HIDE DEF o
  <2>10. N + o \in Nat BY <1>1, <2>8
  <2> QED BY <2>6, <2>7, <2>9, <2>10 DEF EntryRight, p
<1> QED BY <1>3, <1>4 DEF HeaderRight, h

\* make_meta's headers.
LEMMA OffsetsRight ==
  ASSUME MetaTypes, NEW i \in 1 .. FormatCount
  PROVE  HeaderRight(Header(MetaFormats[i], OffsetsOf(i, job.z)), i)
<1> DEFINE M == MetaSide
           N == FormatCount
           f == MetaFormats[i]
           R == RowsAndColumns(job.z)
           L == SumTo(SizesOf(f))
           F == N + BeforeFormat(i)
           nth(p) == {n \in DOMAIN R : Offset(R[n][1], R[n][2]) = p - 1}
           E(p) == IF nth(p) = {} THEN [offset |-> 0, size |-> 0]
                   ELSE LET n == CHOOSE n \in nth(p) : TRUE
                        IN [offset |-> F + L[n - 1], size |-> SizesOf(f)[n]]
           X == OffsetsOf(i, job.z)
           h == Header(f, X)
<1>1. M \in Nat \ {0} /\ N \in Nat /\ f \in FormatSet /\ Dim \in Nat /\ Dim <= M BY MetaBasics
<1>2. X = [p \in 1 .. M * M |-> E(p)]
  BY DEF OffsetsOf, SizesOf, BeforeFormat, FormatSizes, FormatCount
<1> HIDE DEF X, h
<1>3. h.kind = "header" /\ h.fmt = f /\ h.index = X BY DEF h, Header
<1>4. ASSUME NEW x \in 0 .. M - 1, NEW y \in 0 .. M - 1 PROVE EntryRight(X[Offset(x, y) + 1], i, x, y)
  <2> DEFINE r == y * M + x
             p == r + 1
  <2>1. p \in 1 .. M * M /\ p - 1 = r /\ Offset(x, y) + 1 = p
    <3> DEFINE S == M * M
    <3>1. S \in Nat /\ r \in 0 .. S - 1 BY <1>1, AtIs
    <3> HIDE DEF S, r
    <3>2. p \in 1 .. S /\ p - 1 = r BY <3>1
    <3> QED BY <3>2 DEF S, r, Offset
  <2>2. ASSUME NEW n \in nth(p) PROVE R[n] = <<x, y>> /\ x < Dim /\ y < Dim /\ n = y * Dim + x + 1
    <3> DEFINE v == R[n][1]
               w == R[n][2]
    <3>1. n \in 1 .. Dim * Dim /\ w * M + v = r BY <2>1, WalkIs DEF Offset
    <3>2. v \in 0 .. Dim - 1 /\ w \in 0 .. Dim - 1 /\ R[n] = <<v, w>> /\ n = w * Dim + v + 1 BY <3>1, WalkIs
    <3> HIDE DEF v, w
    <3>3. v \in 0 .. M - 1 /\ w \in 0 .. M - 1 BY <1>1, <3>2
    <3>4. (w * M + v) % M = v /\ (w * M + v) \div M = w BY <3>3, AtIs
    <3>5. (y * M + x) % M = x /\ (y * M + x) \div M = y BY AtIs
    <3>6. v = x /\ w = y BY <3>1, <3>4, <3>5
    <3>7. x < Dim /\ y < Dim BY <1>1, <3>2, <3>6
    <3> QED BY <3>2, <3>6, <3>7
  <2>3. X[p] = E(p) BY <1>2, <2>1
  <2>4. CASE ~(x < Dim /\ y < Dim)
    <3>1. nth(p) = {} BY <2>2, <2>4
    <3> HIDE DEF nth
    <3>2. X[p].offset = 0 /\ X[p].size = 0 BY <2>3, <3>1
    <3> QED BY <2>1, <2>4, <3>2 DEF EntryRight, SizeAt
  <2>5. CASE x < Dim /\ y < Dim
    <3> DEFINE m == y * Dim + x + 1
    <3>1. x \in 0 .. Dim - 1 /\ y \in 0 .. Dim - 1 BY <1>1, <2>5
    <3>2. m \in DOMAIN R /\ R[m] = <<x, y>> BY <3>1, WalkIs
    <3>3. m \in nth(p)
      <4>1. R[m][1] = x /\ R[m][2] = y BY <3>2
      <4> HIDE DEF m
      <4>2. Offset(R[m][1], R[m][2]) = p - 1 BY <2>1, <4>1 DEF Offset
      <4> QED BY <3>2, <4>2
    <3>4. \A n \in nth(p) : n = m BY <2>2
    <3> HIDE DEF nth, m
    <3>5. nth(p) # {} /\ (CHOOSE n \in nth(p) : TRUE) = m BY <3>3, <3>4, Zenon
    <3>6. E(p) = [offset |-> F + L[m - 1], size |-> SizesOf(f)[m]] BY <3>5, Zenon
    <3>7. m - 1 = y * Dim + x
      <4>1. y * Dim \in Nat BY <1>1, <3>1
      <4> QED BY <3>1, <4>1 DEF m
    <3>8. L[m - 1] = BeforeTile(f, x, y) BY <3>7 DEF BeforeTile
    <3>9. SizesOf(f)[m] = job.size[f][<<x, y>>] BY <1>1, <3>1, TilesAre DEF m
    <3>10. BeforeFormat(i) \in Nat /\ BeforeTile(f, x, y) \in Nat BY <3>1, TileAt
    <3>11. X[p].offset = F + BeforeTile(f, x, y) /\ X[p].size = job.size[f][<<x, y>>]
      <4> HIDE DEF F, L, f
      <4> QED BY <2>3, <3>6, <3>8, <3>9
    <3>12. X[p].offset \in Nat
      <4> HIDE DEF f
      <4>1. F + BeforeTile(f, x, y) \in Nat BY <1>1, <3>10
      <4> QED BY <3>11, <4>1
    <3> QED BY <2>1, <2>5, <3>11, <3>12 DEF EntryRight, SizeAt
  <2> QED BY <2>4, <2>5
<1> QED BY <1>3, <1>4 DEF HeaderRight, h, X

\* simple_http_storage's sizes, where the level fills the metatile.
LEMMA SimpleSizesAreGrid ==
  ASSUME MetaTypes, Dim = MetaSide
  PROVE  SimpleSizes(job.z) = GridSizes(job.z)
<1> DEFINE M == MetaSide
           S == M * M
           N == FormatCount
           R == RowsAndColumns(job.z)
           F(at) == MetaFormats[((at - 1) \div S) + 1]
           r(at) == (at - 1) % S
<1>1. M \in Nat \ {0} /\ N \in Nat /\ N = Len(MetaFormats) BY MetaBasics DEF FormatCount
<1>2. S \in Nat \ {0} /\ N * M * M = N * S /\ N * S \in Nat
  <2> HIDE DEF N, M
  <2> QED BY <1>1
<1>3. R = [k \in 1 .. S |-> <<(k - 1) % M, (k - 1) \div M>>] /\ Len(R) = S
  <2>1. R = [k \in 1 .. S |-> <<(k - 1) % M, (k - 1) \div M>>] BY DEF RowsAndColumns, Dim
  <2> HIDE DEF R, S, M
  <2> QED BY <1>2, <2>1
<1>4. SimpleSizes(job.z) = [at \in 1 .. N * S |-> IF at > N * S THEN 0 ELSE job.size[F(at)][R[r(at) + 1]]]
  <2> HIDE DEF R
  <2> QED BY <1>1, <1>2, <1>3 DEF SimpleSizes, R, FormatCount
<1>5. GridSizes(job.z) = [at \in 1 .. N * S |-> IF r(at) % M < M /\ r(at) \div M < M
                                                 THEN job.size[F(at)][<<r(at) % M, r(at) \div M>>] ELSE 0]
  BY DEF GridSizes, Dim, FormatCount
<1>6. ASSUME NEW at \in 1 .. N * S
      PROVE  /\ ~(at > N * S) /\ R[r(at) + 1] = <<r(at) % M, r(at) \div M>>
             /\ r(at) % M < M /\ r(at) \div M < M
  <2> DEFINE b == N * S
             c == r(at)
  <2>1. at - 1 \in Nat /\ ~(at > b)
    <3>1. b \in Nat /\ at \in 1 .. b BY <1>2
    <3> HIDE DEF b
    <3> QED BY <3>1
  <2>2. c \in 0 .. S - 1
    <3> HIDE DEF S
    <3> QED BY <1>2, <2>1, Quotient
  <2> HIDE DEF c
  <2>3. c + 1 \in 1 .. S /\ (c + 1) - 1 = c /\ c \in Nat
    <3> HIDE DEF S
    <3> QED BY <1>2, <2>2
  <2>4. R[c + 1] = <<c % M, c \div M>>
    <3> HIDE DEF S, R
    <3> QED BY <1>3, <2>3
  <2>5. c % M \in 0 .. M - 1 /\ c \div M \in Nat /\ c = M * (c \div M) + (c % M)
    <3> HIDE DEF M
    <3> QED BY <1>1, <2>3, Quotient
  <2>6. c \div M < M
    <3> DEFINE q == c \div M
               k == c % M
    <3>1. q \in Nat /\ k \in Nat /\ c = M * q + k /\ c < M * M BY <1>1, <2>2, <2>5
    <3> HIDE DEF q, k, M
    <3>2. SUFFICES ASSUME q >= M PROVE FALSE BY <1>1, <3>1 DEF q
    <3>3. M * q >= M * M /\ M * q \in Nat /\ M * M \in Nat BY <1>1, <3>1, <3>2
    <3> QED BY <3>1, <3>3
  <2> QED BY <1>1, <2>1, <2>4, <2>5, <2>6 DEF c
<1> HIDE DEF F, r, R, S, M, N
<1> QED BY <1>4, <1>5, <1>6

\* What is written is a sequence, and a metatile as the readers expect it
\* wherever simple_http_storage's is one.
LEMMA WrittenIsWellMade ==
  ASSUME MetaTypes
  PROVE  /\ \E U : MetaWritten \in Seq(U)
         /\ Trusted => WellMade(MetaWritten)
<1> DEFINE A == AllBytes(job.z)
           N == FormatCount
<1>1. N \in Nat /\ DOMAIN MetaFormats = 1 .. N /\ A \in Seq(Bytes) BY MetaBasics, TileAt
<1>2. ASSUME NEW H, NEW h \in Seq(H), NEW B, NEW b \in Seq(B) PROVE \E U : h \o b \in Seq(U)
  <2> DEFINE U == H \cup B
  <2>1. H \subseteq U /\ B \subseteq U OBVIOUS
  <2> HIDE DEF U
  <2>2. h \in Seq(U) /\ b \in Seq(U) BY <2>1
  <2>3. h \o b \in Seq(U) BY <2>2
  <2> QED BY <2>3
<1>4. CASE job.writer = "make_meta"
  <2> DEFINE F(i) == Header(MetaFormats[i], OffsetsOf(i, job.z))
             h == [i \in 1 .. N |-> F(i)]
             H == {F(i) : i \in 1 .. N}
  <2>1. MetaWritten = h \o A BY <1>1, <1>4 DEF MetaWritten, make_meta
  <2>2. \A i \in 1 .. N : h[i] = F(i) /\ HeaderRight(F(i), i) BY OffsetsRight
  <2>3. h \in Seq(H) /\ Len(h) = N
    <3>1. h \in [1 .. N -> H] OBVIOUS
    <3> HIDE DEF h, H, N
    <3> QED BY <1>1, <3>1, FunctionIsSequence
  <2> HIDE DEF h, H, F
  <2>4. \A i \in 1 .. N : HeaderRight(h[i], i) BY <2>2
  <2>5. WellMade(h \o A) BY <2>3, <2>4, HeadersAndBytes
  <2> QED BY <2>1, <2>5 DEF WellMade
<1>5. ASSUME NEW g PROVE \E H : write_headers(g) \in Seq(H) /\ Len(write_headers(g)) = N
  <2> DEFINE F(i) == Header(MetaFormats[i],
                            [p \in 1 .. (MetaSide * MetaSide) |->
                               LET at == (i - 1) * MetaSide * MetaSide + p
                               IN [offset |-> Len(MetaFormats) + SumTo(g)[at - 1], size |-> g[at]]])
             H == {F(i) : i \in 1 .. N}
  <2>1. write_headers(g) = [i \in 1 .. N |-> F(i)] BY <1>1 DEF write_headers
  <2> DEFINE h == write_headers(g)
  <2> HIDE DEF F, N, h
  <2>2. h \in [1 .. N -> H] BY <2>1 DEF h
  <2> HIDE DEF H
  <2>3. h \in Seq(H) /\ Len(h) = N BY <1>1, <2>2, FunctionIsSequence
  <2> QED BY <2>3 DEF h
<1>6. WellMade(write_headers(GridSizes(job.z)) \o A)
  <2> DEFINE h == write_headers(GridSizes(job.z))
  <2>1. PICK H : h \in Seq(H) /\ Len(h) = N BY <1>5
  <2>2. \A i \in 1 .. N : HeaderRight(h[i], i) BY WrittenHeadersRight
  <2> HIDE DEF h
  <2>3. WellMade(h \o A) BY <2>1, <2>2, HeadersAndBytes
  <2> QED BY <2>3 DEF h
<1>7. CASE job.writer = "make_metatile"
  <2>1. MetaWritten = write_headers(GridSizes(job.z)) \o A BY <1>7 DEF MetaWritten, make_metatile
  <2> QED BY <1>6, <2>1 DEF WellMade
<1>8. CASE job.writer = "simple_http"
  <2> DEFINE b == IF job.diagonal THEN A ELSE Foreign(A)
             h == write_headers(SimpleSizes(job.z))
  <2>1. MetaWritten = h \o b BY <1>8 DEF MetaWritten, simple_get_meta
  <2>2. \E B : b \in Seq(B)
    <3> DEFINE l == Len(A)
               F(k) == [A[k] EXCEPT !.fmt = "another metatile"]
    <3>1. l \in Nat /\ DOMAIN A = 1 .. l
      <4> HIDE DEF A
      <4> QED BY <1>1
    <3>2. Foreign(A) = [k \in 1 .. l |-> F(k)] BY <3>1 DEF Foreign
    <3> HIDE DEF l, F
    <3> DEFINE B == {F(k) : k \in 1 .. l}
               g == Foreign(A)
    <3> HIDE DEF g
    <3>3. g \in [1 .. l -> B] BY <3>2 DEF g
    <3> HIDE DEF B
    <3>4. g \in Seq(B) BY <3>1, <3>3, FunctionIsSequence
    <3> QED BY <1>1, <3>4 DEF g
  <2>3. \E H : h \in Seq(H) BY <1>5
  <2>4. \E U : h \o b \in Seq(U)
    <3> HIDE DEF h, b, A
    <3> QED BY <1>2, <2>2, <2>3
  <2>5. ASSUME Trusted PROVE WellMade(MetaWritten)
    <3>1. job.diagonal /\ Dim = MetaSide BY <1>8, <2>5 DEF Trusted, Dim
    <3>2. b = A /\ SimpleSizes(job.z) = GridSizes(job.z) BY <3>1, SimpleSizesAreGrid
    <3> QED BY <1>6, <2>1, <3>2
  <2> QED BY <2>1, <2>4, <2>5
<1> QED BY <1>4, <1>7, <1>8 DEF MetaTypes, Writers

-----------------------------------------------------------------------------
(* What the readers give out *)

\* A place of the first units' table, whichever of the format's headers a reader
\* comes upon.
LEMMA PlaceFound ==
  ASSUME MetaTypes, WellMade(metatile), got \in 0 .. Len(metatile), NEW f \in FormatSet, HeadersOf(f) # {},
         NEW x \in 0 .. MetaSide - 1, NEW y \in 0 .. MetaSide - 1,
         NEW e, e = Place(CHOOSE i \in HeadersOf(f) : TRUE, x, y)
  PROVE  /\ e.offset \in Nat /\ e.size \in Nat
         /\ e.offset + e.size <= got => Cutout(e.offset, e.size) = ExpectedTile(f, x, y)
         /\ got = Len(metatile) => Cutout(e.offset, e.size) = ExpectedTile(f, x, y)
<1> DEFINE i == CHOOSE i \in HeadersOf(f) : TRUE
<1>1. i \in HeadersOf(f) BY Zenon
<1>2. e = Place(i, x, y) OBVIOUS
<1> HIDE DEF i
<1>3. i \in 1 .. FormatCount /\ MetaFormats[i] = f /\ HeaderRight(data[i], i) BY <1>1, HeadersFound
<1>4. EntryRight(e, i, x, y) BY <1>2, <1>3 DEF HeaderRight, Place
<1> QED BY <1>3, <1>4, CutoutIsTile

\* A tile with bytes ends within the whole metatile.
LEMMA EntryWithin ==
  ASSUME MetaTypes, WellMade(metatile), NEW i \in 1 .. FormatCount, NEW e,
         NEW x \in 0 .. MetaSide - 1, NEW y \in 0 .. MetaSide - 1, EntryRight(e, i, x, y),
         ExpectedTile(MetaFormats[i], x, y) # <<>>
  PROVE  e.offset + e.size <= Len(metatile) /\ i < Len(metatile)
<1> DEFINE f == MetaFormats[i]
           s == job.size[f][<<x, y>>]
           p == BeforeFormat(i)
           q == BeforeTile(f, x, y)
           N == FormatCount
           l == Len(AllBytes(job.z))
           g == Len(metatile)
<1>1. x < Dim /\ y < Dim /\ ExpectedTile(f, x, y) = TileBytes(f, x, y) BY DEF ExpectedTile, InLevel, Dim
<1>2. x \in 0 .. Dim - 1 /\ y \in 0 .. Dim - 1 /\ <<x, y>> \in Places BY <1>1, MetaBasics DEF Places
<1>3. s \in Nat /\ f \in FormatSet BY <1>2, MetaBasics
<1>4. s # 0
  <2>1. SUFFICES ASSUME s = 0 PROVE FALSE OBVIOUS
  <2>2. TileBytes(f, x, y) = [k \in 1 .. s |-> ByteOf(f, x, y, k)] BY DEF TileBytes
  <2> HIDE DEF s
  <2>3. TileBytes(f, x, y) = <<>> BY <2>1, <2>2
  <2> QED BY <1>1, <2>3
<1>5. p \in Nat /\ q \in Nat /\ p + q + s <= l BY <1>2, TileAt
<1>6. e.offset = N + p + q /\ e.size = s BY <1>1 DEF EntryRight, SizeAt
<1>7. g = N + l BY DEF WellMade
<1>8. l \in Nat /\ N \in Nat /\ i \in 1 .. N BY MetaBasics, TileAt
<1> HIDE DEF s, p, q, l, g, N
<1>9. e.offset + e.size <= g /\ i < g BY <1>3, <1>4, <1>5, <1>6, <1>7, <1>8
<1> QED BY <1>9 DEF g

\* Every byte of a tile that has any is after the headers.
LEMMA LastHeader ==
  ASSUME MetaTypes, WellMade(metatile), got = Len(metatile), NEW f \in FormatSet
  PROVE  /\ HeadersOf(f) # {}
         /\ \A x \in 0 .. MetaSide - 1, y \in 0 .. MetaSide - 1 :
              ExpectedTile(f, x, y) # <<>> => {i \in HeadersOf(f) : i < got} # {}
<1>1. PICK U : metatile \in Seq(U) BY DEF WellMade
<1> DEFINE N == FormatCount
           A == AllBytes(job.z)
<1>2. PICK i \in 1 .. N : MetaFormats[i] = f BY MetaBasics DEF FormatSet
<1>3. got \in 0 .. Len(metatile) /\ got \in Nat BY <1>1
<1>4. i \in HeadersOf(f) BY <1>2, <1>3, HeadersFound
<1>5. ASSUME NEW x \in 0 .. MetaSide - 1, NEW y \in 0 .. MetaSide - 1, ExpectedTile(f, x, y) # <<>>
      PROVE  {j \in HeadersOf(f) : j < got} # {}
  <2>1. HeaderRight(data[i], i) BY <1>3, <1>4, HeadersFound
  <2> DEFINE e == data[i].index[Offset(x, y) + 1]
  <2>2. EntryRight(e, i, x, y) BY <2>1 DEF HeaderRight
  <2> HIDE DEF e
  <2>3. i < got BY <1>2, <1>5, <2>2, EntryWithin
  <2> QED BY <1>4, <2>3
<1> QED BY <1>4, <1>5

LEMMA ReadersAgree ==
  ASSUME MetaTypes, Trusted => WellMade(metatile), got \in 0 .. Len(metatile)
  PROVE  TileOrNothing /\ (metatile # <<>> => ReadBack)
<1>1. ASSUME got > 0, Trusted, NEW f \in FormatSet, NEW p \in Places
      PROVE  reader_get(f, p[1], p[2]) \in {<<>>, ExpectedTile(f, p[1], p[2])}
  <2> DEFINE x == p[1]
             y == p[2]
             e == Place(CHOOSE i \in HeadersOf(f) : TRUE, x, y)
  <2>1. x \in 0 .. MetaSide - 1 /\ y \in 0 .. MetaSide - 1 BY DEF Places
  <2>2. HeadersOf(f) # {} => (e.offset + e.size <= got => Cutout(e.offset, e.size) = ExpectedTile(f, x, y))
    <3> HIDE DEF x, y
    <3> QED BY <1>1, <2>1, PlaceFound
  <2>3. reader_get(f, x, y) = IF HeadersOf(f) = {} THEN <<>>
                              ELSE IF e.offset + e.size <= got THEN Cutout(e.offset, e.size) ELSE <<>>
    BY DEF reader_get
  <2> HIDE DEF e, x, y
  <2>4. reader_get(f, x, y) \in {<<>>, ExpectedTile(f, x, y)} BY <2>2, <2>3
  <2> QED BY <2>4 DEF x, y
<1>2. ASSUME metatile # <<>>, got = Len(metatile), Trusted, NEW f \in FormatSet, NEW p \in Places
      PROVE  LET tile == ExpectedTile(f, p[1], p[2])
             IN /\ reader_get(f, p[1], p[2]) = tile
                /\ read_from_meta(f, p[1], p[2]) = tile
                /\ py_reader(f, p[1], p[2]) = tile
  <2> DEFINE x == p[1]
             y == p[2]
             e == Place(CHOOSE i \in HeadersOf(f) : TRUE, x, y)
             c == Cutout(e.offset, e.size)
             tile == ExpectedTile(f, x, y)
  <2>1. x \in 0 .. MetaSide - 1 /\ y \in 0 .. MetaSide - 1 BY DEF Places
  <2>2. HeadersOf(f) # {} /\ (tile # <<>> => {i \in HeadersOf(f) : i < got} # {}) BY <1>2, <2>1, LastHeader
  <2>3. e.offset \in Nat /\ e.size \in Nat /\ c = tile
    <3> HIDE DEF x, y
    <3> QED BY <1>2, <2>1, <2>2, PlaceFound
  <2>4. reader_get(f, x, y) = IF e.offset + e.size <= got THEN c ELSE <<>> BY <2>2 DEF reader_get
  <2>5. read_from_meta(f, x, y) = c BY <2>2 DEF read_from_meta
  <2>6. py_reader(f, x, y) = tile
    <3>1. py_reader(f, x, y) = IF {i \in HeadersOf(f) : i < got} = {} THEN <<>> ELSE c BY DEF py_reader
    <3> HIDE DEF c, tile
    <3> QED BY <2>2, <2>3, <3>1
  <2>7. ~(e.offset + e.size <= got) => tile = <<>>
    <3>1. PICK U : metatile \in Seq(U) BY <1>2 DEF WellMade
    <3>2. SUFFICES ASSUME ~(e.offset + e.size <= got), tile # <<>> PROVE FALSE OBVIOUS
    <3> DEFINE i == CHOOSE i \in HeadersOf(f) : TRUE
    <3>3. i \in HeadersOf(f) BY <2>2, Zenon
    <3>4. e = Place(i, x, y) OBVIOUS
    <3> HIDE DEF i, e, x, y
    <3>5. got \in 0 .. Len(metatile) /\ got \in Nat BY <1>2, <3>1
    <3>6. i \in 1 .. FormatCount /\ MetaFormats[i] = f /\ HeaderRight(data[i], i)
      BY <1>2, <3>3, <3>5, HeadersFound
    <3>7. EntryRight(e, i, x, y) BY <2>1, <3>4, <3>6 DEF HeaderRight, Place
    <3>8. e.offset + e.size <= got BY <1>2, <2>1, <3>6, <3>7, <3>2, EntryWithin
    <3> QED BY <3>2, <3>8
  <2> HIDE DEF c, tile, e
  <2>8. reader_get(f, x, y) = tile /\ read_from_meta(f, x, y) = tile /\ py_reader(f, x, y) = tile
    BY <2>3, <2>4, <2>5, <2>6, <2>7
  <2> QED BY <2>8 DEF tile, x, y
<1> QED BY <1>1, <1>2 DEF TileOrNothing, ReadBack

-----------------------------------------------------------------------------
(* Metatiles are written once and read back, or cut short *)

LEMMA MetaStarts == MetaInit => MetaInv
<1> SUFFICES ASSUME MetaInit PROVE MetaInv OBVIOUS
<1>1. metatile = <<>> /\ got = 0 /\ got \in 0 .. Len(metatile) BY DEF MetaInit
<1>2. ~(got > 0) BY <1>1
<1> QED BY <1>1, <1>2 DEF MetaInit, MetaInv, TileOrNothing

\* The inductive invariant: what is written is what the job's writer writes.
MetaIsWritten == MetaTypes /\ metatile \in {<<>>, MetaWritten} /\ got \in 0 .. Len(metatile)

LEMMA MetaIsRead == MetaIsWritten => TileOrNothing /\ ReadBack /\ MetaInv
<1> SUFFICES ASSUME MetaIsWritten PROVE TileOrNothing /\ ReadBack /\ MetaInv OBVIOUS
<1>1. MetaTypes /\ metatile \in {<<>>, MetaWritten} /\ got \in 0 .. Len(metatile) BY DEF MetaIsWritten
<1>2. CASE metatile = <<>>
  <2>1. ~(got > 0) BY <1>1, <1>2
  <2> QED BY <1>1, <1>2, <2>1 DEF TileOrNothing, ReadBack, MetaInv, MetaTypes
<1>3. CASE metatile # <<>>
  <2>1. metatile = MetaWritten BY <1>1, <1>3
  <2>2. Trusted => WellMade(metatile) BY <1>1, <2>1, WrittenIsWellMade
  <2>3. TileOrNothing /\ ReadBack BY <1>1, <1>3, <2>2, ReadersAgree
  <2> QED BY <1>1, <2>3 DEF MetaInv, MetaTypes
<1> QED BY <1>2, <1>3

LEMMA MetaIsKept == MetaIsWritten /\ [MetaNext]_metaVars => MetaIsWritten'
<1> SUFFICES ASSUME MetaIsWritten, [MetaNext]_metaVars PROVE MetaIsWritten' OBVIOUS
<1>1. MetaTypes /\ metatile \in {<<>>, MetaWritten} /\ got \in 0 .. Len(metatile) BY DEF MetaIsWritten
<1>2. job' = job BY DEF MetaNext, WriteMeta, CutShort, metaVars
<1>3. MetaTypes' BY <1>1, <1>2 DEF MetaTypes
<1>4. MetaWritten' = MetaWritten
  <2>1. job.writer' = job.writer /\ job.z' = job.z /\ job.diagonal' = job.diagonal /\ job.size' = job.size BY <1>2
  <2>2. (\A f, x, y : TileBytes(f, x, y)' = TileBytes(f, x, y)) BY <2>1 DEF TileBytes
  <2> QED BY <1>2 DEF MetaWritten, make_meta, make_metatile, simple_get_meta, AllBytes, Walk, TilesOf, TileBytes,
       GridSizes, SimpleSizes, OffsetsOf
<1>5. \E U : MetaWritten \in Seq(U) BY <1>1, WrittenIsWellMade
<1>6. CASE WriteMeta
  <2>1. metatile' = MetaWritten /\ got' = Len(metatile') BY <1>6 DEF WriteMeta
  <2>2. Len(MetaWritten) \in Nat BY <1>5
  <2>3. got' \in 0 .. Len(metatile') BY <2>1, <2>2
  <2> QED BY <1>3, <1>4, <2>1, <2>3 DEF MetaIsWritten
<1>7. CASE CutShort
  <2>1. metatile' = metatile /\ got' = got - 1 /\ got > 0 BY <1>7 DEF CutShort
  <2>2. Len(metatile) \in Nat BY <1>1, <1>5
  <2>3. got' \in 0 .. Len(metatile') BY <1>1, <2>1, <2>2
  <2> QED BY <1>1, <1>3, <1>4, <2>1, <2>3 DEF MetaIsWritten
<1>8. CASE UNCHANGED metaVars
  <2>1. metatile' = metatile /\ got' = got BY <1>8 DEF metaVars
  <2> QED BY <1>1, <1>3, <1>4, <2>1 DEF MetaIsWritten
<1> QED BY <1>6, <1>7, <1>8 DEF MetaNext

LEMMA MetaIsInv == MetaInv => MetaIsWritten
BY DEF MetaInv, MetaIsWritten, MetaTypes

LEMMA MetaInvKept == MetaInv /\ [MetaNext]_metaVars => MetaInv'
<1>1. MetaInv /\ [MetaNext]_metaVars => MetaIsWritten' BY MetaIsInv, MetaIsKept
<1>2. MetaIsWritten' => MetaInv' BY MetaIsRead, PTL
<1> QED BY <1>1, <1>2

\* Every tile of every format comes back from a whole metatile as it went in, for
\* the C++ and the Python writer and the three readers, with any number of formats,
\* any METATILE, any zoom level and any sizes of the tiles; for simple_http_storage
\* as the writer only on the diagonal and at levels that fill a metatile (Trusted).
THEOREM MetatilesReadBack == MetaSpec => []ReadBack
<1>1. MetaInit => MetaIsWritten BY MetaStarts, MetaIsInv
<1> QED BY <1>1, MetaIsKept, MetaIsRead, PTL DEF MetaSpec

\* metatile_reader, which the broker cuts the clients' tiles out with, gives out a
\* whole tile or nothing from a metatile that was cut off anywhere.
THEOREM CutTilesAreWhole == MetaSpec => []TileOrNothing
<1>1. MetaInit => MetaIsWritten BY MetaStarts, MetaIsInv
<1> QED BY <1>1, MetaIsKept, MetaIsRead, PTL DEF MetaSpec
=============================================================================
