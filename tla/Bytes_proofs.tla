---------------------------- MODULE Bytes_proofs ----------------------------
(***************************************************************************)
(* For every base and number of bytes: the comparison of a hash with a     *)
(* target is that of the numbers they are.                                 *)
(*                                                                         *)
(* What a recursive function computes is proved by an induction whose      *)
(* predicate is a set of naturals, not an operator.                        *)
(***************************************************************************)
EXTENDS Bytes, WellFoundedInduction, TLAPS

-----------------------------------------------------------------------------
(* Induction and recursion over 0 .. N. *)

\* A set of naturals that is not empty has a least element.
LEMMA LeastNat ==
  ASSUME NEW T, T \subseteq Nat, T # {}
  PROVE  \E x \in T : \A y \in T : x <= y
<1> DEFINE R == OpToRel(<, Nat)
<1>1. IsWellFoundedOn(R, Nat)
  BY NatLessThanWellFounded
<1>2. \A x, y \in Nat : y < x => <<y, x>> \in R
  BY DEF OpToRel
<1> HIDE DEF R
<1>3. PICK x \in T : \A y \in T : ~(<<y, x>> \in R)
  BY <1>1, WFMin, ZenonT(60)
<1>4. ASSUME NEW y \in T PROVE x <= y
  <2>1. x \in Nat /\ y \in Nat
    OBVIOUS
  <2>2. ~(y < x)
    BY <1>2, <1>3, <2>1, Zenon
  <2> QED BY <2>1, <2>2
<1> QED BY <1>4

\* A set that holds 0 and is closed under + 1 up to N holds 0 .. N.
LEMMA Induction ==
  ASSUME NEW N \in Nat, NEW S, 0 \in S, \A n \in 0 .. N - 1 : n \in S => n + 1 \in S
  PROVE  0 .. N \subseteq S
<1> SUFFICES ASSUME ~(0 .. N \subseteq S) PROVE FALSE
  OBVIOUS
<1> DEFINE T == {n \in 0 .. N : n \notin S}
<1>1. PICK x \in T : \A y \in T : x <= y
  <2>1. T \subseteq Nat /\ T # {}
    OBVIOUS
  <2> HIDE DEF T
  <2> QED BY <2>1, LeastNat, ZenonT(60)
<1>2. x \in 0 .. N /\ x # 0 /\ x - 1 \in 0 .. N - 1 /\ (x - 1) + 1 = x
  BY <1>1
<1>3. x - 1 \notin T
  BY <1>1, <1>2
<1> QED BY <1>1, <1>2, <1>3

\* f is defined by its first value, a, and its steps, G.
Recursive(f, a, G, N) ==
  f = [n \in 0 .. N |-> IF n = 0 THEN a ELSE G[n - 1][f[n - 1]]]

\* Such a function exists, so a recursive definition of that form is one.
LEMMA RecursionExists ==
  ASSUME NEW N \in Nat, NEW V, NEW a \in V, NEW G \in [0 .. N - 1 -> [V -> V]]
  PROVE  \E f \in [0 .. N -> V] : Recursive(f, a, G, N)
<1> DEFINE P(n) == \E f \in [0 .. n -> V] :
                     f[0] = a /\ \A m \in 0 .. n - 1 : f[m + 1] = G[m][f[m]]
           S == {n \in 0 .. N : P(n)}
<1>1. 0 \in S
  <2> DEFINE f == [n \in 0 .. 0 |-> a]
  <2>1. f \in [0 .. 0 -> V] /\ f[0] = a /\ \A m \in 0 .. 0 - 1 : f[m + 1] = G[m][f[m]]
    OBVIOUS
  <2>2. P(0)
    BY <2>1
  <2> QED BY <2>2
<1>2. ASSUME NEW n \in 0 .. N - 1, n \in S PROVE n + 1 \in S
  <2>1. PICK f \in [0 .. n -> V] : f[0] = a /\ \A m \in 0 .. n - 1 : f[m + 1] = G[m][f[m]]
    BY <1>2
  <2> DEFINE g == [m \in 0 .. n + 1 |-> IF m = n + 1 THEN G[n][f[n]] ELSE f[m]]
  <2>2. G[n][f[n]] \in V
    OBVIOUS
  <2>3. g \in [0 .. n + 1 -> V] /\ g[0] = a
    BY <2>1, <2>2
  <2>4. \A m \in 0 .. n : g[m + 1] = G[m][g[m]]
    BY <2>1
  <2>5. P(n + 1)
    <3> HIDE DEF g
    <3>1. (n + 1) - 1 = n
      OBVIOUS
    <3> QED BY <2>3, <2>4, <3>1
  <2> HIDE DEF P
  <2> QED BY <2>5
<1>3. N \in S
  <2> HIDE DEF S
  <2>1. 0 .. N \subseteq S
    BY <1>1, <1>2, Induction
  <2> QED BY <2>1
<1>4. PICK f \in [0 .. N -> V] : f[0] = a /\ \A m \in 0 .. N - 1 : f[m + 1] = G[m][f[m]]
  BY <1>3
<1>5. ASSUME NEW n \in 0 .. N PROVE f[n] = IF n = 0 THEN a ELSE G[n - 1][f[n - 1]]
  <2>1. CASE n = 0
    BY <1>4, <2>1
  <2>2. CASE n # 0
    <3>1. n - 1 \in 0 .. N - 1 /\ (n - 1) + 1 = n
      BY <2>2
    <3> QED BY <1>4, <2>2, <3>1
  <2> QED BY <2>1, <2>2
<1> QED BY <1>5 DEF Recursive

-----------------------------------------------------------------------------
(* Numbers. *)

\* Numbers in base Base are ordered by their quotients, then by their last digit.
LEMMA Digit ==
  ASSUME NEW a \in Nat, NEW b \in Nat, NEW x \in 0 .. Base - 1, NEW y \in 0 .. Base - 1
  PROVE  /\ x + Base * a = y + Base * b <=> x = y /\ a = b
         /\ x + Base * a < y + Base * b <=> a < b \/ (a = b /\ x < y)
<1>1. Base \in Nat
  BY BytesAssumption DEF BytesAssumption
<1>2. ASSUME NEW c \in Nat, NEW d \in Nat, c < d PROVE Base * c + Base <= Base * d
  <2> DEFINE e == d - c - 1
  <2>1. e \in Nat /\ d = c + 1 + e
    BY <1>2
  <2> HIDE DEF e
  <2>2. Base * d = Base * c + Base + Base * e /\ Base * e \in Nat /\ Base * c \in Nat
    BY <1>1, <2>1
  <2> QED BY <1>1, <2>2
<1> DEFINE p == Base * a  q == Base * b
<1>3. p \in Nat /\ q \in Nat
  BY <1>1
<1>4. (a < b => p + Base <= q) /\ (b < a => q + Base <= p) /\ (a = b => p = q)
  BY <1>2
<1> HIDE DEF p, q
<1>5. /\ x + p = y + q <=> x = y /\ a = b
      /\ x + p < y + q <=> a < b \/ (a = b /\ x < y)
  BY <1>1, <1>3, <1>4
<1> QED BY <1>5 DEF p, q

\* LastBytes(h)[n] is the value of the last n bytes of h.
LEMMA LastBytesIs ==
  ASSUME NEW h \in Hash256
  PROVE  /\ LastBytes(h)[0] = 0
         /\ \A n \in 0 .. HashBytes : LastBytes(h)[n] \in Nat
         /\ \A n \in 0 .. HashBytes - 1 :
              LastBytes(h)[n + 1] = h[HashBytes - n] + Base * LastBytes(h)[n]
<1> DEFINE P(g) == g = [n \in 0 .. HashBytes |->
                          IF n = 0 THEN 0 ELSE h[HashBytes - n + 1] + Base * g[n - 1]]
           G == [n \in 0 .. HashBytes - 1 |-> [v \in Nat |-> h[HashBytes - n] + Base * v]]
<1>1. LastBytes(h) = CHOOSE g : P(g)
  BY DEF LastBytes
<1>2. HashBytes \in Nat /\ Base \in Nat /\ h \in [1 .. HashBytes -> 0 .. Base - 1]
  BY BytesAssumption DEF BytesAssumption, Hash256
<1>3. \E f : P(f)
  <2>1. ASSUME NEW n \in 0 .. HashBytes - 1, NEW v \in Nat
        PROVE  h[HashBytes - n] + Base * v \in Nat
    <3>1. HashBytes - n \in 1 .. HashBytes
      BY <1>2
    <3>2. h[HashBytes - n] \in Nat /\ Base * v \in Nat
      BY <1>2, <3>1
    <3> QED BY <3>2
  <2>2. G \in [0 .. HashBytes - 1 -> [Nat -> Nat]]
    BY <2>1
  <2>3. ASSUME NEW n \in 0 .. HashBytes - 1, NEW v \in Nat
        PROVE  G[n][v] = h[HashBytes - n] + Base * v
    OBVIOUS
  <2> HIDE DEF G
  <2>4. PICK f \in [0 .. HashBytes -> Nat] : Recursive(f, 0, G, HashBytes)
    BY <1>2, <2>2, RecursionExists
  <2>5. ASSUME NEW n \in 0 .. HashBytes
        PROVE  f[n] = IF n = 0 THEN 0 ELSE h[HashBytes - n + 1] + Base * f[n - 1]
    <3>1. f[n] = IF n = 0 THEN 0 ELSE G[n - 1][f[n - 1]]
      BY <2>4 DEF Recursive
    <3>2. CASE n # 0
      <4>1. n - 1 \in 0 .. HashBytes - 1 /\ f[n - 1] \in Nat
            /\ HashBytes - (n - 1) = HashBytes - n + 1
        BY <1>2, <2>4, <3>2
      <4> QED BY <2>3, <3>1, <3>2, <4>1
    <3> QED BY <3>1, <3>2
  <2> QED BY <2>4, <2>5
<1> HIDE DEF P
<1>4. P(LastBytes(h))
  BY <1>1, <1>3, Zenon
<1> DEFINE f == LastBytes(h)
<1>5. f = [n \in 0 .. HashBytes |-> IF n = 0 THEN 0 ELSE h[HashBytes - n + 1] + Base * f[n - 1]]
  BY <1>4 DEF P
<1> HIDE DEF f
<1>6. f[0] = 0
  BY <1>2, <1>5
<1>7. ASSUME NEW n \in 0 .. HashBytes - 1 PROVE f[n + 1] = h[HashBytes - n] + Base * f[n]
  <2>1. n + 1 \in 0 .. HashBytes /\ n + 1 # 0 /\ (n + 1) - 1 = n /\ HashBytes - (n + 1) + 1 = HashBytes - n
    BY <1>2
  <2>2. f[n + 1] = h[HashBytes - (n + 1) + 1] + Base * f[(n + 1) - 1]
    BY <1>5, <2>1
  <2> QED BY <2>1, <2>2
<1>8. \A n \in 0 .. HashBytes : f[n] \in Nat
  <2> DEFINE S == {n \in 0 .. HashBytes : f[n] \in Nat}
  <2>1. 0 \in S
    BY <1>2, <1>6
  <2>2. ASSUME NEW n \in 0 .. HashBytes - 1, n \in S PROVE n + 1 \in S
    <3>1. n + 1 \in 0 .. HashBytes /\ HashBytes - n \in 1 .. HashBytes /\ f[n] \in Nat
      BY <1>2, <2>2
    <3>2. h[HashBytes - n] \in Nat /\ Base * f[n] \in Nat
      BY <1>2, <3>1
    <3>3. f[n + 1] \in Nat
      BY <1>7, <3>2
    <3> QED BY <3>1, <3>3
  <2>3. 0 .. HashBytes \subseteq S
    <3> HIDE DEF S
    <3> QED BY <1>2, <2>1, <2>2, Induction
  <2> QED BY <2>3
<1> QED BY <1>6, <1>7, <1>8 DEF f

\* pow_hash_meets_target, which stops at the first byte from the end that
\* differs, compares the hash and the target as numbers, for every number of
\* bytes and every base.
THEOREM VerdictIsNumeric ==
  ASSUME NEW h \in Hash256, NEW t \in Hash256
  PROVE  MeetsTarget(h, t) <=> Value(h) < Value(t)
<1> DEFINE f == LastBytes(h)  g == LastBytes(t)
           Last(n) == HashBytes - n + 1 .. HashBytes
           Same(n) == f[n] = g[n] <=> \A j \in Last(n) : h[j] = t[j]
           Less(n) == f[n] < g[n] <=>
                        \E i \in Last(n) : h[i] < t[i] /\ \A j \in Last(n) : j > i => h[j] = t[j]
           S == {n \in 0 .. HashBytes : Same(n) /\ Less(n)}
<1>1. /\ HashBytes \in Nat /\ Base \in Nat
      /\ h \in [1 .. HashBytes -> 0 .. Base - 1] /\ t \in [1 .. HashBytes -> 0 .. Base - 1]
  BY BytesAssumption DEF BytesAssumption, Hash256
<1>2. /\ f[0] = 0 /\ g[0] = 0
      /\ \A n \in 0 .. HashBytes : f[n] \in Nat /\ g[n] \in Nat
      /\ \A n \in 0 .. HashBytes - 1 : /\ f[n + 1] = h[HashBytes - n] + Base * f[n]
                                       /\ g[n + 1] = t[HashBytes - n] + Base * g[n]
  BY LastBytesIs
<1> HIDE DEF f, g
<1>3. 0 \in S
  <2>1. Last(0) = {}
    BY <1>1
  <2> HIDE DEF Last
  <2> QED BY <1>1, <1>2, <2>1
<1>4. ASSUME NEW n \in 0 .. HashBytes - 1, n \in S PROVE n + 1 \in S
  <2> DEFINE m == HashBytes - n
  <2>1. m \in 1 .. HashBytes /\ n + 1 \in 0 .. HashBytes /\ n \in 0 .. HashBytes
    BY <1>1
  <2>2. Last(n + 1) = Last(n) \union {m} /\ \A j \in Last(n) : j \in Int /\ j > m
    BY <1>1
  <2>3. /\ f[n + 1] = g[n + 1] <=> h[m] = t[m] /\ f[n] = g[n]
        /\ f[n + 1] < g[n + 1] <=> f[n] < g[n] \/ (f[n] = g[n] /\ h[m] < t[m])
    <3>1. /\ f[n] \in Nat /\ g[n] \in Nat /\ h[m] \in 0 .. Base - 1 /\ t[m] \in 0 .. Base - 1
          /\ f[n + 1] = h[m] + Base * f[n] /\ g[n + 1] = t[m] + Base * g[n]
      BY <1>1, <1>2, <2>1
    <3> HIDE DEF m
    <3> QED BY <3>1, Digit
  <2>4. m \in Int /\ ~(m > m)
    BY <2>1
  <2>5. Same(n) /\ Less(n)
    BY <1>4
  <2> HIDE DEF m, Last
  <2>6. Same(n + 1)
    BY <2>2, <2>3, <2>5
  <2>7. ASSUME f[n + 1] < g[n + 1]
        PROVE  \E i \in Last(n + 1) : h[i] < t[i] /\ \A j \in Last(n + 1) : j > i => h[j] = t[j]
    <3>1. CASE f[n] < g[n]
      <4>1. PICK i \in Last(n) : h[i] < t[i] /\ \A j \in Last(n) : j > i => h[j] = t[j]
        BY <2>5, <3>1
      <4>2. i \in Last(n + 1) /\ \A j \in Last(n + 1) : j > i => h[j] = t[j]
        BY <2>2, <2>4, <4>1
      <4> QED BY <4>1, <4>2
    <3>2. CASE f[n] = g[n] /\ h[m] < t[m]
      <4>1. \A j \in Last(n) : h[j] = t[j]
        BY <2>5, <3>2
      <4>2. m \in Last(n + 1) /\ \A j \in Last(n + 1) : j > m => h[j] = t[j]
        BY <2>2, <2>4, <4>1
      <4> QED BY <3>2, <4>2
    <3> QED BY <2>3, <2>7, <3>1, <3>2
  <2>8. ASSUME NEW i \in Last(n + 1), h[i] < t[i], \A j \in Last(n + 1) : j > i => h[j] = t[j]
        PROVE  f[n + 1] < g[n + 1]
    <3>1. CASE i \in Last(n)
      <4>1. f[n] < g[n]
        BY <2>2, <2>5, <2>8, <3>1
      <4> QED BY <2>3, <4>1
    <3>2. CASE i = m
      <4>1. \A j \in Last(n) : h[j] = t[j]
        BY <2>2, <2>8, <3>2
      <4> QED BY <2>3, <2>5, <2>8, <3>2, <4>1
    <3> QED BY <2>2, <3>1, <3>2
  <2>9. Less(n + 1)
    BY <2>7, <2>8
  <2> HIDE DEF Same, Less
  <2> QED BY <2>1, <2>6, <2>9
<1>5. HashBytes \in S
  <2> HIDE DEF S
  <2>1. 0 .. HashBytes \subseteq S
    BY <1>1, <1>3, <1>4, Induction
  <2> QED BY <1>1, <2>1
<1>6. Last(HashBytes) = 1 .. HashBytes /\ DOMAIN h = 1 .. HashBytes
  BY <1>1
<1> HIDE DEF Last
<1>7. Value(h) = f[HashBytes] /\ Value(t) = g[HashBytes]
  BY DEF Value, f, g
<1> QED BY <1>5, <1>6, <1>7 DEF MeetsTarget

\* A number whose byte c is one more, and whose bytes below are zero where all
\* were the greatest, is one more.
LEMMA AddsOne ==
  ASSUME NEW h \in Hash256, NEW t \in Hash256, NEW c \in 1 .. HashBytes,
         \A j \in 1 .. c - 1 : h[j] = Base - 1 /\ t[j] = 0,
         t[c] = h[c] + 1,
         \A j \in c + 1 .. HashBytes : t[j] = h[j]
  PROVE  Value(t) = Value(h) + 1
<1> DEFINE f == LastBytes(h)  g == LastBytes(t)
           Carried(n) == g[n] = f[n] + (IF n > HashBytes - c THEN 1 ELSE 0)
           S == {n \in 0 .. HashBytes : Carried(n)}
<1>1. /\ HashBytes \in Nat /\ Base \in Nat
      /\ h \in [1 .. HashBytes -> 0 .. Base - 1] /\ t \in [1 .. HashBytes -> 0 .. Base - 1]
  BY BytesAssumption DEF BytesAssumption, Hash256
<1>2. /\ f[0] = 0 /\ g[0] = 0
      /\ \A n \in 0 .. HashBytes : f[n] \in Nat /\ g[n] \in Nat
      /\ \A n \in 0 .. HashBytes - 1 : /\ f[n + 1] = h[HashBytes - n] + Base * f[n]
                                       /\ g[n + 1] = t[HashBytes - n] + Base * g[n]
  BY LastBytesIs
<1>3. Value(h) = f[HashBytes] /\ Value(t) = g[HashBytes]
  BY DEF Value
<1> HIDE DEF f, g
<1>4. 0 \in S
  <2>1. ~(0 > HashBytes - c) /\ 0 \in 0 .. HashBytes
    BY <1>1
  <2> QED BY <1>2, <2>1
<1>5. ASSUME NEW n \in 0 .. HashBytes - 1, n \in S PROVE n + 1 \in S
  <2> DEFINE m == HashBytes - n  a == f[n]  b == g[n]
  <2>1. m \in 1 .. HashBytes /\ n + 1 \in 0 .. HashBytes /\ n \in 0 .. HashBytes
    BY <1>1
  <2>2. /\ a \in Nat /\ b \in Nat /\ h[m] \in 0 .. Base - 1 /\ t[m] \in 0 .. Base - 1
        /\ f[n + 1] = h[m] + Base * a /\ g[n + 1] = t[m] + Base * b
    BY <1>1, <1>2, <2>1
  <2>3. /\ n > HashBytes - c <=> m < c
        /\ n + 1 > HashBytes - c <=> m <= c
    BY <1>1
  <2>4. b = a + (IF m < c THEN 1 ELSE 0)
    BY <1>5, <2>3
  <2> HIDE DEF m, a, b
  <2>5. CASE m < c
    <3>1. h[m] = Base - 1 /\ t[m] = 0 /\ b = a + 1
      BY <2>1, <2>4, <2>5
    <3>2. Base * b = Base * a + Base
      BY <1>1, <2>2, <3>1
    <3>3. Base * a \in Nat
      BY <1>1, <2>2
    <3>4. g[n + 1] = f[n + 1] + 1
      BY <1>1, <2>2, <3>1, <3>2, <3>3
    <3> QED BY <2>1, <2>3, <2>5, <3>4
  <2>6. CASE m = c
    <3>1. t[m] = h[m] + 1 /\ b = a
      BY <2>2, <2>4, <2>6
    <3>2. Base * a \in Nat
      BY <1>1, <2>2
    <3>3. g[n + 1] = f[n + 1] + 1
      BY <1>1, <2>2, <3>1, <3>2
    <3> QED BY <2>1, <2>3, <2>6, <3>3
  <2>7. CASE m > c
    <3>1. t[m] = h[m] /\ b = a
      BY <2>1, <2>2, <2>4, <2>7
    <3>2. g[n + 1] = f[n + 1]
      BY <2>2, <3>1
    <3>3. f[n + 1] \in Nat
      BY <1>2, <2>1
    <3> QED BY <2>1, <2>3, <2>7, <3>2, <3>3
  <2> QED BY <2>1, <2>5, <2>6, <2>7
<1>6. HashBytes \in S
  <2> HIDE DEF S
  <2>1. 0 .. HashBytes \subseteq S
    BY <1>1, <1>4, <1>5, Induction
  <2> QED BY <1>1, <2>1
<1>7. HashBytes > HashBytes - c
  BY <1>1
<1> QED BY <1>3, <1>6, <1>7
=============================================================================
