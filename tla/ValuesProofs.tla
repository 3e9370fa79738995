---------------------------- MODULE ValuesProofs ----------------------------
(***************************************************************************)
(* Instants and values keep what they say on every way through the         *)
(* adapter.  The definitions recurse over digits, so that the first part   *)
(* is induction: the facts of the library about it take operators, those   *)
(* here take sets and functions instead.                                   *)
(***************************************************************************)
EXTENDS Values, WellFoundedInduction, TLAPS

-----------------------------------------------------------------------------
\* Induction and recursion.

\* Any nonempty set of naturals has a least element.
LEMMA NatMinimum ==
  ASSUME NEW T \in SUBSET Nat, T # {}
  PROVE  \E m \in T : \A t \in T : m <= t
<1> DEFINE R == OpToRel(<, Nat)
<1>1. IsWellFoundedOn(R, Nat)
  BY NatLessThanWellFounded
<1>2. PICK m \in T : \A t \in T : ~ (<<t, m>> \in R)
  <2> HIDE DEF R
  <2> QED BY <1>1, WFMin
<1>3. \A t \in T : t \in Nat /\ m \in Nat /\ ~ (t < m)
  BY <1>2 DEF OpToRel
<1> QED
  BY <1>3

\* Induction: a set that holds a number whenever it holds all smaller ones holds all.
LEMMA Induction ==
  ASSUME NEW P \in SUBSET Nat, \A n \in Nat : (\A k \in Nat : k < n => k \in P) => n \in P
  PROVE  P = Nat
<1> SUFFICES ASSUME Nat \ P # {} PROVE FALSE
  OBVIOUS
<1>1. PICK m \in Nat \ P : \A t \in Nat \ P : m <= t
  BY NatMinimum
<1> QED
  BY <1>1

\* Elements of lower rank of a set of finite things decide.
LEMMA RankInduction ==
  ASSUME NEW S, NEW rank \in [S -> Nat], NEW P \in SUBSET S,
         \A x \in S : (\A y \in S : rank[y] < rank[x] => y \in P) => x \in P
  PROVE  P = S
<1> DEFINE Q == {n \in Nat : \A x \in S : rank[x] = n => x \in P}
<1>1. \A n \in Nat : (\A k \in Nat : k < n => k \in Q) => n \in Q
  OBVIOUS
<1>2. Q = Nat
  <2> HIDE DEF Q
  <2>1. Q \in SUBSET Nat
    BY DEF Q
  <2> QED BY <1>1, <2>1, Induction
<1> QED
  BY <1>2

\* F computes what it computes for x from the values at elements of lower rank.
Contracts(S, V, rank, F) ==
  /\ V # {} /\ rank \in [S -> Nat] /\ F \in [[S -> V] -> [S -> V]]
  /\ \A f, g \in [S -> V] : \A x \in S :
       (\A y \in S : rank[y] < rank[x] => f[y] = g[y]) => F[f][x] = F[g][x]

\* The recursive definition f = F[f] has a solution.
Solvable(S, V, F) == \E f \in [S -> V] : f = F[f]

\* What contracts can be solved: the solution is put together from functions
\* that are right up to a rank.
LEMMA FixedPoint ==
  ASSUME NEW S, NEW V, NEW rank, NEW F, Contracts(S, V, rank, F)
  PROVE  Solvable(S, V, F)
<1>0. V # {} /\ rank \in [S -> Nat] /\ F \in [[S -> V] -> [S -> V]]
  BY DEF Contracts
<1> USE <1>0
<1> DEFINE Solves(f, n) == \A x \in S : rank[x] < n => F[f][x] = f[x]
           P == {n \in Nat : \E f \in [S -> V] : Solves(f, n)}
<1>1. ASSUME NEW n \in Nat, NEW f \in [S -> V], Solves(f, n)
      PROVE  F[f] \in [S -> V] /\ Solves(F[f], n + 1)
  <2>1. F[f] \in [S -> V]
    BY <1>0
  <2>2. ASSUME NEW x \in S, rank[x] < n + 1 PROVE F[F[f]][x] = F[f][x]
    <3>1. \A y \in S : rank[y] < rank[x] => F[f][y] = f[y]
      BY <1>1, <2>2
    <3> QED
      BY <2>1, <3>1 DEF Contracts
  <2> QED
    BY <2>1, <2>2
<1>2. ASSUME NEW n \in Nat, NEW m \in Nat, n <= m, NEW f \in [S -> V], NEW g \in [S -> V],
             Solves(f, n), Solves(g, m)
      PROVE  \A x \in S : rank[x] < n => f[x] = g[x]
  <2> DEFINE E == {x \in S : rank[x] < n => f[x] = g[x]}
  <2>1. ASSUME NEW x \in S, \A y \in S : rank[y] < rank[x] => y \in E PROVE x \in E
    <3>1. SUFFICES ASSUME rank[x] < n PROVE f[x] = g[x]
      OBVIOUS
    <3>2. \A y \in S : rank[y] < rank[x] => f[y] = g[y]
      BY <2>1, <3>1
    <3>3. F[f][x] = F[g][x]
      BY <3>2 DEF Contracts
    <3> QED
      BY <1>2, <3>1, <3>3
  <2>2. E = S
    <3> HIDE DEF E
    <3>1. E \in SUBSET S
      BY DEF E
    <3> QED
      BY <2>1, <3>1, RankInduction
  <2> QED
    BY <2>2
<1>3. P = Nat
  <2>1. ASSUME NEW n \in Nat, \A k \in Nat : k < n => k \in P PROVE n \in P
    <3>1. CASE n = 0
      <4>1. PICK v \in V : TRUE
        OBVIOUS
      <4>2. [x \in S |-> v] \in [S -> V]
        OBVIOUS
      <4>3. Solves([x \in S |-> v], 0)
        OBVIOUS
      <4> QED
        BY <3>1, <4>2, <4>3
    <3>2. CASE n # 0
      <4>1. n - 1 \in Nat /\ n - 1 \in P
        BY <2>1, <3>2
      <4>2. PICK f \in [S -> V] : Solves(f, n - 1)
        BY <4>1
      <4>3. F[f] \in [S -> V] /\ Solves(F[f], (n - 1) + 1)
        BY <1>1, <4>1, <4>2
      <4> QED
        BY <4>3
    <3> QED
      BY <3>1, <3>2
  <2> HIDE DEF P
  <2>2. P \in SUBSET Nat
    BY DEF P
  <2> QED
    BY <2>1, <2>2, Induction
<1> DEFINE best == [n \in Nat |-> CHOOSE f \in [S -> V] : Solves(f, n)]
           h == [x \in S |-> best[rank[x] + 1][x]]
<1>4. \A n \in Nat : best[n] \in [S -> V] /\ Solves(best[n], n)
  BY <1>3
<1> HIDE DEF best
<1>5. h \in [S -> V]
  BY <1>4
<1>6. ASSUME NEW x \in S PROVE F[h][x] = h[x]
  <2> DEFINE b == best[rank[x] + 1]
  <2>1. rank[x] + 1 \in Nat /\ b \in [S -> V] /\ Solves(b, rank[x] + 1)
    BY <1>4
  <2>2. ASSUME NEW y \in S, rank[y] < rank[x] PROVE h[y] = b[y]
    <3>1. rank[y] + 1 \in Nat /\ rank[y] + 1 <= rank[x] + 1
      BY <2>2
    <3>2. best[rank[y] + 1] \in [S -> V] /\ Solves(best[rank[y] + 1], rank[y] + 1)
      BY <1>4, <3>1
    <3> HIDE DEF Solves, b
    <3>3. best[rank[y] + 1][y] = b[y]
      BY <1>2, <2>1, <3>1, <3>2
    <3> QED
      BY <3>3
  <2>3. F[h][x] = F[b][x]
    BY <1>5, <2>1, <2>2 DEF Contracts
  <2>4. F[b][x] = b[x]
    BY <2>1
  <2> QED
    BY <2>3, <2>4
<1>7. h = F[h]
  BY <1>5, <1>6
<1> QED
  BY <1>5, <1>7 DEF Solvable

-----------------------------------------------------------------------------
\* Powers.

\* Power, defined by recursion, exists and obeys its equation.
LEMMA PowerKnown ==
  /\ Power[0] = 1
  /\ \A n \in Nat : Power[n + 1] = Base * Power[n] /\ Power[n] \in Nat \ {0}
<1> DEFINE F == [f \in [Nat -> Nat] |-> [n \in Nat |-> IF n = 0 THEN 1 ELSE Base * f[n - 1]]]
           rank == [n \in Nat |-> n]
<1>1. F \in [[Nat -> Nat] -> [Nat -> Nat]]
  BY TimestampsAssumption
<1>2. rank \in [Nat -> Nat]
  OBVIOUS
<1>3. \A f, g \in [Nat -> Nat] : \A n \in Nat :
        (\A k \in Nat : rank[k] < rank[n] => f[k] = g[k]) => F[f][n] = F[g][n]
  OBVIOUS
<1>4. \E f \in [Nat -> Nat] : f = F[f]
  <2> HIDE DEF F, rank
  <2>1. Contracts(Nat, Nat, rank, F)
    BY <1>1, <1>2, <1>3 DEF Contracts
  <2>2. Solvable(Nat, Nat, F)
    BY <2>1, FixedPoint
  <2> QED
    BY <2>2 DEF Solvable
<1>5. \E f : f = [n \in Nat |-> IF n = 0 THEN 1 ELSE Base * f[n - 1]]
  BY <1>4
<1>6. Power = [n \in Nat |-> IF n = 0 THEN 1 ELSE Base * Power[n - 1]]
  BY <1>5 DEF Power
<1>7. \A n \in Nat : Power[n] = IF n = 0 THEN 1 ELSE Base * Power[n - 1]
  BY <1>6
<1>8. {n \in Nat : Power[n] \in Nat \ {0}} = Nat
  <2> DEFINE P == {n \in Nat : Power[n] \in Nat \ {0}}
  <2>1. ASSUME NEW n \in Nat, \A k \in Nat : k < n => k \in P PROVE n \in P
    <3>1. CASE n = 0
      BY <3>1, <1>7
    <3>2. CASE n # 0
      <4>1. Power[n-1] \in Nat \ {0}
        BY <2>1, <3>2
      <4>2. Power[n] = Base * Power[n - 1]
        BY <1>7, <3>2
      <4> QED
        BY <4>1, <4>2, TimestampsAssumption
    <3> QED BY <3>1, <3>2
  <2> HIDE DEF P
  <2>2. P \in SUBSET Nat BY DEF P
  <2>3. P = Nat BY <2>1, <2>2, Induction
  <2> QED BY <2>3 DEF P
<1> QED
  BY <1>7, <1>8

\* Powers are positive.
LEMMA PowerPositive == ASSUME NEW n \in Nat PROVE Power[n] \in Nat \ {0}
BY PowerKnown

\* One digit less is a factor of Base less.
LEMMA PowerDown ==
  ASSUME NEW n \in Nat, NEW k \in 1..n
  PROVE  Power[n - (k - 1)] = Base * Power[n - k]
<1>1. n - k \in Nat /\ (n - k) + 1 = n - (k - 1)
  OBVIOUS
<1> QED
  BY <1>1, PowerKnown

-----------------------------------------------------------------------------
\* Digits.

\* The digits.
Alphabet == 0..(Base - 1)

\* A recursion along 1..n, whose step is the function g.
LEMMA Iterated ==
  ASSUME NEW n \in Nat, NEW g \in [1..n -> [Nat -> Nat]]
  PROVE  \E f \in [0..n -> Nat] : f = [k \in 0..n |-> IF k = 0 THEN 0 ELSE g[k][f[k - 1]]]
<1> DEFINE S == 0..n
           F == [f \in [S -> Nat] |-> [k \in S |-> IF k = 0 THEN 0 ELSE g[k][f[k - 1]]]]
           rank == [k \in S |-> k]
<1>1. F \in [[S -> Nat] -> [S -> Nat]]
  <2>1. ASSUME NEW f \in [S -> Nat], NEW k \in S, k # 0 PROVE g[k][f[k - 1]] \in Nat
    <3>1. k \in 1..n /\ k - 1 \in S
      BY <2>1
    <3>2. g[k] \in [Nat -> Nat] /\ f[k - 1] \in Nat
      BY <3>1
    <3> QED
      BY <3>2
  <2>2. \A f \in [S -> Nat] : [k \in S |-> IF k = 0 THEN 0 ELSE g[k][f[k - 1]]] \in [S -> Nat]
    BY <2>1
  <2> QED
    BY <2>2
<1>2. rank \in [S -> Nat]
  OBVIOUS
<1>3. \A p, q \in [S -> Nat] : \A x \in S :
        (\A y \in S : rank[y] < rank[x] => p[y] = q[y]) => F[p][x] = F[q][x]
  <2>1. ASSUME NEW p \in [S -> Nat], NEW q \in [S -> Nat], NEW x \in S, x # 0,
               \A y \in S : rank[y] < rank[x] => p[y] = q[y]
        PROVE  p[x - 1] = q[x - 1]
    <3>1. x - 1 \in S /\ x - 1 < x
      BY <2>1
    <3> QED
      BY <2>1, <3>1
  <2>2. \A p \in [S -> Nat] : \A x \in S : F[p][x] = IF x = 0 THEN 0 ELSE g[x][p[x - 1]]
    OBVIOUS
  <2>3. ASSUME NEW p \in [S -> Nat], NEW q \in [S -> Nat], NEW x \in S,
               \A y \in S : rank[y] < rank[x] => p[y] = q[y]
        PROVE  F[p][x] = F[q][x]
    <3>1. x # 0 => p[x - 1] = q[x - 1]
      BY <2>1, <2>3
    <3> HIDE DEF F, rank
    <3>2. F[p][x] = IF x = 0 THEN 0 ELSE g[x][p[x - 1]]
      BY <2>2
    <3>3. F[q][x] = IF x = 0 THEN 0 ELSE g[x][q[x - 1]]
      BY <2>2
    <3> HIDE DEF S
    <3> QED
      BY <3>1, <3>2, <3>3
  <2> QED
    BY <2>3
<1>4. \E f \in [S -> Nat] : f = F[f]
  <2>1. Nat # {}
    OBVIOUS
  <2> HIDE DEF F, rank, S
  <2>2. Contracts(S, Nat, rank, F)
    BY <1>1, <1>2, <1>3, <2>1 DEF Contracts
  <2>3. Solvable(S, Nat, F)
    BY <2>2, FixedPoint
  <2> QED
    BY <2>3 DEF Solvable
<1> QED
  BY <1>4

\* How Number reads digits: f[k] is what the first k of them spell.
LEMMA NumberKnown ==
  ASSUME NEW d \in Seq(Alphabet)
  PROVE  \E f \in [0..Len(d) -> Nat] :
           /\ f[0] = 0
           /\ \A k \in 1..Len(d) : f[k] = f[k - 1] * Base + d[k]
           /\ Number(d) = f[Len(d)]
<1> DEFINE n == Len(d)
           spelled[k \in 0..Len(d)] == IF k = 0 THEN 0 ELSE spelled[k - 1] * Base + d[k]
           g == [k \in 1..n |-> [x \in Nat |-> x * Base + d[k]]]
<1>0. \A x, y \in Nat : x * Base + y \in Nat
  BY TimestampsAssumption
<1>1. n \in Nat /\ \A k \in 1..n : d[k] \in Nat
  BY TimestampsAssumption DEF Alphabet
<1>2. Number(d) = spelled[n]
  BY DEF Number
<1>3. g \in [1..n -> [Nat -> Nat]]
  BY <1>1, TimestampsAssumption
<1>4. PICK f \in [0..n -> Nat] : f = [k \in 0..n |-> IF k = 0 THEN 0 ELSE g[k][f[k - 1]]]
  <2> HIDE DEF g, n
  <2> QED
    BY <1>1, <1>3, Iterated
<1>5. f = [k \in 0..Len(d) |-> IF k = 0 THEN 0 ELSE f[k - 1] * Base + d[k]]
  <2>1. ASSUME NEW k \in 0..n, k # 0 PROVE g[k][f[k - 1]] = f[k - 1] * Base + d[k]
    <3>1. k \in 1..n /\ k - 1 \in 0..n
      BY <1>1, <2>1
    <3>2. f[k - 1] \in Nat
      BY <3>1
    <3> QED
      BY <3>1, <3>2
  <2> HIDE DEF g
  <2> QED
    BY <1>4, <2>1
<1>6. spelled = [k \in 0..Len(d) |-> IF k = 0 THEN 0 ELSE spelled[k - 1] * Base + d[k]]
  BY <1>5
<1> HIDE DEF spelled
<1>7. /\ spelled[0] = 0
      /\ \A k \in 1..n : spelled[k] = spelled[k - 1] * Base + d[k]
  <2>1. 0 \in 0..n /\ \A k \in 1..n : k \in 0..n /\ k # 0
    BY <1>1
  <2> QED
    BY <1>6, <2>1
<1>8. spelled \in [0..n -> Nat]
  <2> DEFINE P == {k \in Nat : k <= n => spelled[k] \in Nat}
  <2>1. ASSUME NEW k \in Nat, \A j \in Nat : j < k => j \in P PROVE k \in P
    <3>1. CASE k = 0
      BY <1>7, <3>1
    <3>2. CASE k # 0 /\ k <= n
      <4>1. k - 1 \in Nat /\ k \in 1..n /\ spelled[k - 1] \in Nat
        BY <2>1, <3>2
      <4>2. spelled[k] = spelled[k - 1] * Base + d[k] /\ d[k] \in Nat
        BY <1>1, <1>7, <4>1, Zenon
      <4> QED
        BY <4>1, <4>2, <1>0, Zenon
    <3> QED
      BY <1>1, <3>1, <3>2
  <2>2. P \in SUBSET Nat
    OBVIOUS
  <2>3. P = Nat
    <3> HIDE DEF P
    <3> QED
      BY <2>1, <2>2, Induction
  <2>4. \A k \in 0..n : spelled[k] \in Nat
    BY <1>1, <2>3
  <2> QED
    BY <1>6, <2>4
<1> QED
  BY <1>2, <1>7, <1>8

\* The same of Part.
LEMMA PartKnown ==
  ASSUME NEW d \in Seq(Alphabet), Len(d) <= Digits
  PROVE  \E f \in [0..Len(d) -> Nat] :
           /\ f[0] = 0
           /\ \A k \in 1..Len(d) : f[k] = f[k - 1] + d[k] * Power[Digits - k]
           /\ Part(d) = f[Len(d)]
<1> DEFINE n == Len(d)
           sum[k \in 0..Len(d)] == IF k = 0 THEN 0 ELSE sum[k - 1] + d[k] * Power[Digits - k]
           g == [k \in 1..n |-> [x \in Nat |-> x + d[k] * Power[Digits - k]]]
<1>1. n \in Nat /\ \A k \in 1..n : d[k] \in Nat /\ d[k] * Power[Digits - k] \in Nat
  <2>1. n \in Nat /\ \A k \in 1..n : d[k] \in Nat /\ Digits - k \in Nat
    BY TimestampsAssumption DEF Alphabet
  <2>2. \A k \in 1..n : Power[Digits - k] \in Nat
    BY <2>1, PowerPositive
  <2> QED
    BY <2>1, <2>2
<1>2. Part(d) = sum[n]
  BY DEF Part
<1>3. g \in [1..n -> [Nat -> Nat]]
  BY <1>1
<1>4. PICK f \in [0..n -> Nat] : f = [k \in 0..n |-> IF k = 0 THEN 0 ELSE g[k][f[k - 1]]]
  <2> HIDE DEF g, n
  <2> QED
    BY <1>1, <1>3, Iterated
<1>5. f = [k \in 0..Len(d) |-> IF k = 0 THEN 0 ELSE f[k - 1] + d[k] * Power[Digits - k]]
  <2>1. ASSUME NEW k \in 0..n, k # 0 PROVE g[k][f[k - 1]] = f[k - 1] + d[k] * Power[Digits - k]
    <3>1. k \in 1..n /\ k - 1 \in 0..n
      BY <1>1, <2>1
    <3>2. f[k - 1] \in Nat
      BY <3>1
    <3> QED
      BY <3>1, <3>2
  <2> HIDE DEF g
  <2> QED
    BY <1>4, <2>1
<1>6. sum = [k \in 0..Len(d) |-> IF k = 0 THEN 0 ELSE sum[k - 1] + d[k] * Power[Digits - k]]
  BY <1>5
<1> HIDE DEF sum
<1>7. /\ sum[0] = 0
      /\ \A k \in 1..n : sum[k] = sum[k - 1] + d[k] * Power[Digits - k]
  <2>1. 0 \in 0..n /\ \A k \in 1..n : k \in 0..n /\ k # 0
    BY <1>1
  <2> QED
    BY <1>6, <2>1
<1>8. sum \in [0..n -> Nat]
  <2> DEFINE P == {k \in Nat : k <= n => sum[k] \in Nat}
  <2>1. ASSUME NEW k \in Nat, \A j \in Nat : j < k => j \in P PROVE k \in P
    <3>1. CASE k = 0
      BY <1>7, <3>1
    <3>2. CASE k # 0 /\ k <= n
      <4>1. k - 1 \in Nat /\ k \in 1..n /\ sum[k - 1] \in Nat
        BY <2>1, <3>2
      <4>2. sum[k] = sum[k - 1] + d[k] * Power[Digits - k] /\ d[k] * Power[Digits - k] \in Nat
        BY <1>1, <1>7, <4>1
      <4> QED
        BY <4>1, <4>2
    <3> QED
      BY <1>1, <3>1, <3>2
  <2>2. P \in SUBSET Nat
    OBVIOUS
  <2>3. P = Nat
    <3> HIDE DEF P
    <3> QED
      BY <2>1, <2>2, Induction
  <2>4. \A k \in 0..n : sum[k] \in Nat
    BY <1>1, <2>3
  <2> QED
    BY <1>6, <2>4
<1> QED
  BY <1>2, <1>7, <1>8

\* Multiplication distributes, for any numbers.
LEMMA Distribute ==
  ASSUME NEW a \in Int, NEW b \in Int, NEW c \in Int, NEW w \in Int
  PROVE  (a * b + c) * w = a * (b * w) + c * w
OBVIOUS

\* Filling up with zeros and reading the digits as one number is what they are
\* worth one by one.
LEMMA PaddedExact ==
  ASSUME NEW d \in Fractions
  PROVE  Number(Padded(d)) = Part(d)
<1> DEFINE n == Len(d)
           padded == Padded(d)
<1>1. d \in Seq(Alphabet) /\ n \in Nat /\ n <= Digits /\ Digits \in Nat
  BY TimestampsAssumption DEF Fractions, Alphabet
<1>2. Zeros(Digits - n) \in Seq(Alphabet) /\ Len(Zeros(Digits - n)) = Digits - n
  BY <1>1, TimestampsAssumption DEF Zeros, Alphabet
<1>3. padded \in Seq(Alphabet) /\ Len(padded) = Digits
  BY <1>1, <1>2 DEF Padded
<1>4. \A k \in 1..n : padded[k] = d[k]
  BY <1>1, <1>2 DEF Padded
<1>5. \A k \in (n + 1)..Digits : padded[k] = 0
  BY <1>1, <1>2 DEF Padded, Zeros
<1> HIDE DEF padded
<1>6. PICK s \in [0..Digits -> Nat] :
        /\ s[0] = 0
        /\ \A k \in 1..Digits : s[k] = s[k - 1] * Base + padded[k]
        /\ Number(padded) = s[Digits]
  BY <1>3, NumberKnown
<1>7. PICK p \in [0..n -> Nat] :
        /\ p[0] = 0
        /\ \A k \in 1..n : p[k] = p[k - 1] + d[k] * Power[Digits - k]
        /\ Part(d) = p[n]
  BY <1>1, PartKnown
<1> HIDE DEF n
<1> DEFINE P == {k \in Nat : k <= Digits =>
                   s[k] * Power[Digits - k] = IF k <= n THEN p[k] ELSE p[n]}
<1>8. ASSUME NEW k \in Nat, \A j \in Nat : j < k => j \in P PROVE k \in P
  <2>1. CASE k = 0
    <3>1. Power[Digits] \in Nat
      BY <1>1, PowerPositive
    <3> QED
      BY <1>1, <1>6, <1>7, <2>1, <3>1
  <2>2. CASE k # 0 /\ k <= Digits
    <3> DEFINE u == Power[Digits - k]
               A == s[k - 1] * Power[Digits - (k - 1)]
               B == padded[k] * u
               C == s[k] * u
    <3> HIDE DEF P
    <3>1. k \in 1..Digits /\ k - 1 \in 0..Digits /\ k - 1 \in Nat /\ k - 1 <= Digits
          /\ Digits - k \in Nat
      BY <1>1, <2>2
    <3>2. Power[Digits - (k - 1)] = Base * u /\ u \in Nat
      BY <1>1, <3>1, PowerDown, PowerPositive
    <3>3. s[k] = s[k - 1] * Base + padded[k] /\ s[k - 1] \in Nat
      BY <1>6, <3>1
    <3>4. padded[k] \in Nat
      <4>1. padded[k] \in Alphabet
        BY <1>3, <3>1
      <4> QED
        BY <4>1, TimestampsAssumption DEF Alphabet
    <3>5. A = IF k - 1 <= n THEN p[k - 1] ELSE p[n]
      <4>1. k - 1 \in P
        BY <1>8, <3>1
      <4> QED
        BY <3>1, <4>1 DEF P
    <3>6. A \in Nat
      <4>1. p[n] \in Nat /\ (k - 1 <= n => p[k - 1] \in Nat)
        BY <1>1, <1>7, <3>1
      <4> HIDE DEF A, n
      <4> QED
        BY <3>5, <4>1, Zenon
    <3> HIDE DEF u
    <3>7. C = A + B
      <4>1. s[k - 1] \in Int /\ Base \in Int /\ padded[k] \in Int /\ u \in Int
        BY <3>2, <3>3, <3>4, TimestampsAssumption
      <4>2. (s[k - 1] * Base + padded[k]) * u = s[k - 1] * (Base * u) + padded[k] * u
        BY <4>1, Distribute
      <4> QED
        BY <3>2, <3>3, <4>2, Zenon
    <3> HIDE DEF A, C
    <3>8. C = IF k <= n THEN p[k] ELSE p[n]
      <4>1. CASE k <= n
        <5>1. k \in 1..n /\ k - 1 <= n
          BY <1>1, <3>1, <4>1
        <5>2. padded[k] = d[k]
          BY <1>4, <5>1
        <5>3. p[k] = p[k - 1] + B
          BY <1>7, <5>1, <5>2 DEF u
        <5> QED
          BY <3>5, <3>7, <4>1, <5>1, <5>3
      <4>2. CASE ~ (k <= n)
        <5>1. k \in (n + 1)..Digits /\ (k - 1 = n \/ ~ (k - 1 <= n))
          BY <1>1, <3>1, <4>2
        <5>2. padded[k] = 0
          BY <1>5, <5>1
        <5>3. B = 0
          BY <3>2, <5>2
        <5>4. A = p[n]
          BY <3>5, <5>1
        <5> QED
          BY <3>6, <3>7, <4>2, <5>3, <5>4
      <4> QED
        BY <4>1, <4>2
    <3> QED
      BY <3>8 DEF P, C, u
  <2> QED
    BY <1>1, <2>1, <2>2
<1>9. P \in SUBSET Nat
  OBVIOUS
<1>10. P = Nat
  <2> HIDE DEF P
  <2> QED
    BY <1>8, <1>9, Induction
<1>11. s[Digits] * Power[0] = p[n]
  <2>1. Digits \in P
    BY <1>1, <1>10
  <2>2. Digits - Digits = 0
    BY <1>1
  <2>3. s[Digits] * Power[Digits - Digits] = IF Digits <= n THEN p[Digits] ELSE p[n]
    BY <1>1, <2>1
  <2> QED
    BY <1>1, <2>2, <2>3
<1>12. s[Digits] \in Nat
  BY <1>1, <1>6
<1> QED
  BY <1>6, <1>7, <1>11, <1>12, PowerKnown DEF padded

\* Division with a remainder, also of negative numbers (rounding down).
LEMMA Quotient ==
  ASSUME NEW a \in Int, NEW b \in Nat \ {0}
  PROVE  /\ a \div b \in Int /\ a % b \in 0..(b - 1)
         /\ a = (a \div b) * b + (a % b)
OBVIOUS

\* A positive factor cancels.
LEMMA Smaller ==
  ASSUME NEW a \in Int, NEW b \in Nat \ {0}, NEW x \in Int, NEW y \in Int, x * b < y * b
  PROVE  x < y
OBVIOUS

\* The quotient is the one number with its remainder.
LEMMA QuotientUnique ==
  ASSUME NEW a \in Int, NEW b \in Nat \ {0}, NEW q \in Int, q * b <= a, a < q * b + b
  PROVE  a \div b = q
<1>1. a \div b \in Int /\ a = (a \div b) * b + (a % b) /\ a % b \in 0..(b - 1)
  BY Quotient
<1>2. (a \div b) * b < (q + 1) * b /\ q * b < (a \div b + 1) * b
  BY <1>1
<1> QED
  BY <1>1, <1>2, Smaller

\* Dividing twice is dividing by the product.
LEMMA QuotientTwice ==
  ASSUME NEW a \in Nat, NEW b \in Nat \ {0}, NEW c \in Nat \ {0}
  PROVE  (a \div b) \div c = a \div (c * b)
<1> DEFINE m == a \div b
           q == m \div c
<1>1. m \in Int /\ q \in Int
  BY Quotient
<1>2. m * b <= a /\ a < m * b + b
  BY Quotient
<1>3. q * c <= m /\ m < q * c + c
  BY <1>1, Quotient
<1> HIDE DEF m, q
<1>4. c * b \in Nat \ {0}
  OBVIOUS
<1>5. q * (c * b) <= a
  <2>1. (q * c) * b <= m * b
    BY <1>1, <1>3
  <2> QED
    BY <1>1, <1>2, <1>4, <2>1
<1>6. a < q * (c * b) + c * b
  <2>1. m + 1 <= q * c + c
    BY <1>1, <1>3
  <2>2. (m + 1) * b <= (q * c + c) * b
    BY <1>1, <2>1
  <2>3. (m + 1) * b = m * b + b
    BY <1>1
  <2>4. (q * c + c) * b = q * (c * b) + c * b
    BY <1>1
  <2> QED
    BY <1>1, <1>2, <2>2, <2>3, <2>4
<1> QED
  BY <1>1, <1>4, <1>5, <1>6, QuotientUnique DEF m, q

\* The first digits of n are what n leaves when the others are cut off.
LEMMA DigitsExact ==
  ASSUME NEW c \in 0..Digits, NEW n \in 0..(Power[c] - 1)
  PROVE  DigitsOf(n, c) \in Fractions /\ Part(DigitsOf(n, c)) = n * Power[Digits - c]
<1> DEFINE d == DigitsOf(n, c)
<1>1. c \in Nat /\ c <= Digits /\ Digits \in Nat /\ Base \in Nat \ {0} /\ Power[c] \in Nat \ {0}
      /\ n \in Nat
  BY TimestampsAssumption, PowerPositive
<1>2. \A k \in 0..c : Power[c - k] \in Nat \ {0} /\ Power[Digits - k] \in Nat \ {0}
  <2>1. \A k \in 0..c : c - k \in Nat /\ Digits - k \in Nat
    BY <1>1
  <2> QED
    BY <2>1, PowerPositive
<1>3. \A k \in 1..c : /\ Power[c - (k - 1)] = Base * Power[c - k]
                     /\ Power[Digits - (k - 1)] = Base * Power[Digits - k]
  <2>1. \A k \in 1..c : k \in 1..Digits
    BY <1>1
  <2>2. \A k \in 1..c : Power[c - (k - 1)] = Base * Power[c - k]
    BY <1>1, PowerDown
  <2>3. \A k \in 1..c : Power[Digits - (k - 1)] = Base * Power[Digits - k]
    BY <1>1, <2>1, PowerDown
  <2> QED
    BY <2>2, <2>3
<1>4. \A k \in 0..c : n \div Power[c - k] \in Int
  <2>1. \A b \in Nat \ {0} : n \div b \in Int
    BY <1>1, Quotient
  <2> QED
    BY <1>2, <2>1
<1>5. \A k \in 1..c : d[k] = (n \div Power[c - k]) % Base /\ d[k] \in Alphabet
  <2> SUFFICES ASSUME NEW k \in 1..c
               PROVE  d[k] = (n \div Power[c - k]) % Base /\ d[k] \in Alphabet
    OBVIOUS
  <2>1. d[k] = (n \div Power[c - k]) % Base
    BY DEF DigitsOf
  <2>2. n \div Power[c - k] \in Int
    BY <1>1, <1>4
  <2> HIDE DEF d
  <2> QED
    BY <1>1, <2>1, <2>2, Quotient DEF Alphabet
<1>6. d \in Seq(Alphabet) /\ Len(d) = c
  <2>1. d = [k \in 1..c |-> d[k]]
    BY DEF DigitsOf
  <2> HIDE DEF d
  <2>2. d \in [1..c -> Alphabet]
    BY <1>5, <2>1, Zenon
  <2> QED
    BY <1>1, <2>2
<1>7. d \in Fractions
  BY <1>1, <1>6 DEF Fractions, Alphabet
<1> HIDE DEF d
<1>8. PICK p \in [0..c -> Nat] :
        /\ p[0] = 0
        /\ \A k \in 1..c : p[k] = p[k - 1] + d[k] * Power[Digits - k]
        /\ Part(d) = p[c]
  BY <1>1, <1>6, PartKnown
<1> DEFINE P == {k \in Nat : k <= c => p[k] = (n \div Power[c - k]) * Power[Digits - k]}
<1>9. ASSUME NEW k \in Nat, \A j \in Nat : j < k => j \in P PROVE k \in P
  <2>1. CASE k = 0
    <3>1. n \div Power[c] = 0
      BY <1>1, QuotientUnique
    <3>2. Power[Digits] \in Nat
      BY <1>1, PowerPositive
    <3>3. c - 0 = c /\ Digits - 0 = Digits
      BY <1>1
    <3> QED
      BY <1>8, <2>1, <3>1, <3>2, <3>3
  <2>2. CASE k # 0 /\ k <= c
    <3> DEFINE a == n \div Power[c - (k - 1)]
               b == n \div Power[c - k]
               w == Power[Digits - k]
    <3>1. k \in 1..c /\ k \in 0..c /\ k - 1 \in 0..c /\ k - 1 \in Nat /\ k - 1 <= c
      BY <1>1, <2>2
    <3>2. p[k - 1] = a * Power[Digits - (k - 1)]
      BY <1>9, <3>1
    <3>3. Power[c - (k - 1)] = Base * Power[c - k] /\ Power[c - k] \in Nat \ {0}
      BY <1>2, <1>3, <3>1
    <3>4. Power[Digits - (k - 1)] = Base * w
      BY <1>3, <3>1
    <3>5. a = b \div Base
      <4> DEFINE e == Power[c - k]
      <4>1. a = n \div (Base * e) /\ e \in Nat \ {0}
        BY <3>3, Zenon
      <4> HIDE DEF a, e, w, P
      <4>2. n \div (Base * e) = (n \div e) \div Base
        BY <1>1, <4>1, QuotientTwice
      <4> QED
        BY <4>1, <4>2 DEF e
    <3>6. a \in Int /\ b \in Int /\ w \in Int
      <4>1. a \in Int
        BY <1>4, <3>1, Zenon
      <4>2. b \in Int
        BY <1>4, <3>1, Zenon
      <4>3. w \in Int
        <5>1. w \in Nat \ {0}
          BY <1>2, <3>1, Zenon
        <5> HIDE DEF w
        <5> QED
          BY <5>1
      <4> QED
        BY <4>1, <4>2, <4>3, Zenon
    <3>7. d[k] = b % Base
      BY <1>5, <3>1
    <3>8. p[k] = p[k - 1] + d[k] * w
      BY <1>8, <3>1
    <3> HIDE DEF a, b, w
    <3>9. b = a * Base + d[k] /\ d[k] \in Int
      BY <1>1, <3>5, <3>6, <3>7, Quotient
    <3>10. b * w = a * (Base * w) + d[k] * w
      BY <1>1, <3>6, <3>9, Distribute
    <3>11. p[k] = b * w
      BY <3>2, <3>4, <3>8, <3>10
    <3> QED
      BY <3>11 DEF b, w
  <2> QED
    BY <1>1, <2>1, <2>2
<1>10. P \in SUBSET Nat
  OBVIOUS
<1>11. P = Nat
  <2> HIDE DEF P
  <2> QED
    BY <1>9, <1>10, Induction
<1>12. p[c] = (n \div Power[0]) * Power[Digits - c]
  <2>1. c \in P /\ c - c = 0
    BY <1>1, <1>11
  <2> QED
    BY <1>1, <2>1
<1>13. n \div Power[0] = n
  BY <1>1, PowerKnown, QuotientUnique
<1> QED
  BY <1>7, <1>8, <1>12, <1>13 DEF d

-----------------------------------------------------------------------------
\* Instants.

\* RFC 3339 texts, as records carry them.
Texts == [civil : Int, offset : Int, fraction : Fractions]

\* Every text is read as the instant it denotes.
LEMMA TicksExact ==
  ASSUME NEW text \in Texts
  PROVE  TicksOf(text) = Denoted(text)
<1>1. text.fraction \in Fractions
  BY DEF Texts
<1> QED
  BY <1>1, PaddedExact DEF TicksOf, Denoted

\* Powers multiply by adding their exponents.
LEMMA PowerSum ==
  ASSUME NEW m \in Nat, NEW n \in Nat
  PROVE  Power[m + n] = Power[m] * Power[n]
<1> DEFINE P == {k \in Nat : Power[m + k] = Power[m] * Power[k]}
<1>1. ASSUME NEW k \in Nat, \A j \in Nat : j < k => j \in P PROVE k \in P
  <2>1. CASE k = 0
    <3>1. m + 0 = m /\ Power[0] = 1 /\ Power[m] \in Nat
      BY PowerKnown
    <3> QED
      BY <2>1, <3>1
  <2>2. CASE k # 0
    <3> DEFINE j == k - 1
    <3>1. j \in Nat /\ j \in P /\ m + j \in Nat /\ (m + j) + 1 = m + k /\ j + 1 = k
      BY <1>1, <2>2
    <3>2. Power[m + j] = Power[m] * Power[j]
      BY <3>1
    <3> HIDE DEF P, j
    <3>3. Power[m + k] = Base * Power[m + j] /\ Power[k] = Base * Power[j]
      BY <3>1, PowerKnown
    <3>4. Power[m] \in Nat /\ Power[j] \in Nat /\ Base \in Nat
      BY <3>1, PowerPositive, TimestampsAssumption
    <3>5. Base * (Power[m] * Power[j]) = Power[m] * (Base * Power[j])
      BY <3>4
    <3> QED
      BY <3>2, <3>3, <3>5 DEF P
  <2> QED
    BY <2>1, <2>2
<1>2. P \in SUBSET Nat
  OBVIOUS
<1>3. P = Nat
  <2> HIDE DEF P
  <2> QED
    BY <1>1, <1>2, Induction
<1> QED
  BY <1>3

\* A second is a whole number of microseconds, and both are whole numbers of ticks.
LEMMA SecondKnown ==
  /\ TicksPerSecond \in Nat \ {0} /\ TicksPerMicro \in Nat \ {0}
  /\ Power[MicroDigits] \in Nat \ {0}
  /\ TicksPerSecond = TicksPerMicro * Power[MicroDigits]
<1>1. /\ Digits \in Nat /\ MicroDigits \in Nat /\ Digits - MicroDigits \in Nat
      /\ (Digits - MicroDigits) + MicroDigits = Digits
  BY TimestampsAssumption
<1> QED
  BY <1>1, PowerSum, PowerPositive DEF TicksPerSecond, TicksPerMicro

\* A parameter denotes the ticks it was made of.
LEMMA ParameterExact ==
  ASSUME NEW t \in Int
  PROVE  ParameterText(t) \in Texts /\ Denoted(ParameterText(t)) = t
<1>1. /\ Seconds(t) \in Int /\ Nanos(t) \in 0..(TicksPerSecond - 1)
      /\ t = Seconds(t) * TicksPerSecond + Nanos(t)
  BY SecondKnown, Quotient DEF Seconds, Nanos
<1> DEFINE f == DigitsOf(Nanos(t), Digits)
<1>2. f \in Fractions /\ Part(f) = Nanos(t) * Power[Digits - Digits]
  <2>1. Digits \in 0..Digits
    BY TimestampsAssumption
  <2> QED
    BY <1>1, <2>1, DigitsExact DEF TicksPerSecond
<1>3. Part(f) = Nanos(t)
  <2>1. Digits - Digits = 0 /\ Nanos(t) \in Int
    BY <1>1, SecondKnown, TimestampsAssumption
  <2> QED
    BY <1>2, <2>1, PowerKnown
<1> HIDE DEF f
<1>4. ParameterText(t) = [civil |-> Seconds(t), offset |-> 0, fraction |-> f]
  BY DEF ParameterText, Text, f
<1> QED
  BY <1>1, <1>2, <1>3, <1>4, SecondKnown DEF Texts, Denoted

\* A missing fraction is no part of a second.
LEMMA NothingSpelled == << >> \in Fractions /\ Part(<< >>) = 0
<1>1. << >> \in Seq(Alphabet) /\ Len(<< >>) = 0 /\ 0 <= Digits
  BY TimestampsAssumption
<1> QED
  BY <1>1, PartKnown DEF Fractions, Alphabet

\* A result denotes the ticks it was made of, whichever precision it is spelled with.
LEMMA ResultExact ==
  ASSUME NEW t \in Int
  PROVE  ResultText(t) \in Texts /\ Denoted(ResultText(t)) = t
<1>0. /\ Seconds(t) \in Int /\ Nanos(t) \in 0..(TicksPerSecond - 1)
      /\ t = Seconds(t) * TicksPerSecond + Nanos(t)
  BY SecondKnown, Quotient DEF Seconds, Nanos
<1>1. /\ Seconds(t) \in Int /\ Nanos(t) \in Nat /\ Nanos(t) < TicksPerSecond
      /\ t = Seconds(t) * TicksPerSecond + Nanos(t)
  BY <1>0, SecondKnown
<1>2. CASE Nanos(t) = 0
  <2>1. ResultText(t) = [civil |-> Seconds(t), offset |-> 0, fraction |-> << >>]
    BY <1>2 DEF ResultText, Text
  <2> QED
    BY <1>1, <1>2, <2>1, NothingSpelled, SecondKnown DEF Texts, Denoted
<1>3. CASE Nanos(t) # 0 /\ Nanos(t) % TicksPerMicro = 0
  <2> DEFINE m == Nanos(t) \div TicksPerMicro
             f == DigitsOf(m, MicroDigits)
  <2>1. m \in Int /\ Nanos(t) = m * TicksPerMicro
    <3>1. m \in Int /\ Nanos(t) = m * TicksPerMicro + (Nanos(t) % TicksPerMicro)
      <4>1. Nanos(t) \in Int /\ TicksPerMicro \in Nat \ {0}
        BY <1>1, SecondKnown
      <4> QED
        BY <4>1, Quotient
    <3> QED
      BY <1>3, <3>1, SecondKnown
  <2>2. m \in 0..(Power[MicroDigits] - 1)
    <3>1. m * TicksPerMicro < Power[MicroDigits] * TicksPerMicro
      BY <1>1, <2>1, SecondKnown
    <3>2. (-1) * TicksPerMicro < m * TicksPerMicro
      BY <1>1, <2>1, SecondKnown
    <3> HIDE DEF m
    <3>3. m < Power[MicroDigits] /\ -1 < m
      BY <2>1, <3>1, <3>2, SecondKnown, Smaller
    <3> QED
      BY <2>1, <3>3, SecondKnown
  <2>3. f \in Fractions /\ Part(f) = m * TicksPerMicro
    <3>1. MicroDigits \in 0..Digits
      BY TimestampsAssumption
    <3> HIDE DEF m
    <3> QED
      BY <2>2, <3>1, DigitsExact DEF TicksPerMicro
  <2>4. ResultText(t) = [civil |-> Seconds(t), offset |-> 0, fraction |-> f]
    BY <1>3 DEF ResultText, Text
  <2> HIDE DEF f, m
  <2> QED
    BY <1>1, <2>1, <2>3, <2>4, SecondKnown DEF Texts, Denoted
<1>4. CASE Nanos(t) # 0 /\ Nanos(t) % TicksPerMicro # 0
  <2>1. ResultText(t) = ParameterText(t)
    BY <1>4 DEF ResultText
  <2> QED
    BY <2>1, ParameterExact
<1> QED
  BY <1>2, <1>3, <1>4

-----------------------------------------------------------------------------
\* Values.

\* A JSON value is a tag and a content of that tag.
LEMMA JsonShape ==
  ASSUME NEW v \in JsonValues
  PROVE  /\ v = <<Tag(v), Content(v)>>
         /\ Tag(v) \in {"stamp", "int", "decimal", "float", "bool", "plain", "object", "jsontext", "base64"}
         /\ Tag(v) = "stamp" => Content(v) \in Texts
         /\ Tag(v) = "int" => Content(v) \in Int
         /\ Tag(v) = "decimal" => Content(v) \in Numerals
         /\ Tag(v) = "float" => Content(v) \in [spelled : Numerals, exact : Numerals]
         /\ Tag(v) = "object" => Content(v) \in [members : Nat, order : Nat]
BY DEF JsonValues, Tag, Content, Texts

\* A stored value that is the same when it is written back as delivered, that a
\* filter by what was written finds, and that a cursor finds again.
RoundTrip(kind, v) ==
  LET w == Stored(kind, v) IN
  /\ Stored(kind, Delivered(kind, w)) = w
  /\ kind \notin {"bytes", "json"} /\ (kind = "decimal" => AsSpelled(v)) => Equals(kind, w, v)
  /\ (kind = "bytes" => Printable(Content(w))) => Equals(kind, w, SortTuple(kind, w))

\* A boolean comes back from its column and is found there.
LEMMA BooleanTrip ==
  ASSUME NEW v \in JsonValues, Accepts("boolean", v)
  PROVE  Stored("boolean", v) = v /\ Delivered("boolean", v) = v /\ RoundTrip("boolean", v)
<1>1. v = <<"bool", Content(v)>>
  BY JsonShape DEF Accepts, Stored, Coerce, Column, Refused, Failed
<1>2. Tag(v) = "bool" /\ v # Refused /\ v # Failed
  BY <1>1 DEF Tag, Refused, Failed
<1>3. Stored("boolean", v) = v
  BY <1>2 DEF Stored, Coerce, Column
<1>4. \A format \in {"int", "bytes", "none"} : Fetched(v, format) = v
  BY <1>2 DEF Fetched
<1>5. Delivered("boolean", v) = v /\ SortTuple("boolean", v) = v
  BY <1>2, <1>4 DEF Delivered, SortTuple, JsonValue, ResultFormat, SortFormat
<1>6. Equals("boolean", v, v)
  BY DEF Equals, Operand, Parameter
<1> QED
  BY <1>3, <1>5, <1>6 DEF RoundTrip

\* So is a string, whatever it spells.
LEMMA StringTrip ==
  ASSUME NEW v \in JsonValues, Accepts("string", v)
  PROVE  Stored("string", v) = v /\ Delivered("string", v) = v /\ RoundTrip("string", v)
<1>1. Tag(v) \in Strings /\ v = <<Tag(v), Content(v)>>
  BY JsonShape DEF Accepts, Stored, Coerce, Column, Refused, Failed
<1>2. v # Refused /\ v # Failed
  BY <1>1 DEF Strings, Refused, Failed
<1>3. Tag(v) \notin {"ticks", "bytes", "datetime"}
  BY <1>1 DEF Strings
<1>4. Stored("string", v) = v
  BY <1>1, <1>2 DEF Stored, Coerce, Column
<1>5. \A format \in {"int", "bytes", "none"} : Fetched(v, format) = v
  BY <1>3 DEF Fetched
<1>6. Delivered("string", v) = v /\ SortTuple("string", v) = v
  BY <1>3, <1>5 DEF Delivered, SortTuple, JsonValue, ResultFormat, SortFormat, Documents
<1>7. Equals("string", v, v)
  BY DEF Equals, Operand, Parameter
<1> QED
  BY <1>4, <1>6, <1>7 DEF RoundTrip

\* The width of a column wraps nothing that is accepted.
LEMMA WidthExact ==
  ASSUME NEW n \in Int, InIntRange(n)
  PROVE  Wrapped(n) = n
<1>1. IntLimit \in Nat \ {0} /\ 2 * IntLimit \in Nat \ {0}
  BY ValuesAssumption
<1>2. n + IntLimit \in Int /\ 0 <= n + IntLimit /\ n + IntLimit < 2 * IntLimit
  BY <1>1 DEF InIntRange
<1>3. (n + IntLimit) \div (2 * IntLimit) = 0
  BY <1>1, <1>2, QuotientUnique
<1>4. (n + IntLimit) % (2 * IntLimit) = n + IntLimit
  <2> DEFINE a == n + IntLimit
             b == 2 * IntLimit
  <2>1. a = (a \div b) * b + (a % b) /\ a % b \in Int /\ b \in Int
    <3>1. a \in Int /\ b \in Nat \ {0}
      BY <1>1, <1>2
    <3> HIDE DEF a, b
    <3> QED
      BY <3>1, Quotient
  <2> QED
    BY <1>3, <2>1
<1> QED
  BY <1>1, <1>4 DEF Wrapped

\* So is an integer that is in range, hence not wrapped.
LEMMA IntTrip ==
  ASSUME NEW v \in JsonValues, Accepts("int", v)
  PROVE  Stored("int", v) = v /\ Delivered("int", v) = v /\ RoundTrip("int", v)
<1>1. Tag(v) = "int" /\ InIntRange(Content(v))
  BY DEF Accepts, Stored, Coerce, CoerceInt, Column, Refused, Failed
<1>2. v = <<"int", Content(v)>> /\ Content(v) \in Int
  BY <1>1, JsonShape
<1>3. v # Refused /\ v # Failed
  BY <1>2 DEF Refused, Failed
<1>4. Stored("int", v) = v
  BY <1>1, <1>2, <1>3, WidthExact DEF Stored, Coerce, CoerceInt, Column
<1>5. \A format \in {"int", "bytes", "none"} : Fetched(v, format) = v
  BY <1>1 DEF Fetched
<1>6. Delivered("int", v) = v /\ SortTuple("int", v) = v
  BY <1>1, <1>5 DEF Delivered, SortTuple, JsonValue, ResultFormat, SortFormat
<1>7. Equals("int", v, v)
  BY DEF Equals, Operand, Parameter
<1> QED
  BY <1>4, <1>6, <1>7 DEF RoundTrip

\* A timestamp comes back as another text of the same instant.
LEMMA TimestampTrip ==
  ASSUME NEW v \in JsonValues, Accepts("timestamp", v)
  PROVE  LET instant == Denoted(Content(v)) IN
         /\ Stored("timestamp", v) = <<"ticks", instant>>
         /\ Denoted(Content(Delivered("timestamp", Stored("timestamp", v)))) = instant
         /\ Denoted(Content(Parameter("timestamp", v))) = instant
         /\ RoundTrip("timestamp", v)
<1> DEFINE t == Denoted(Content(v))
           w == <<"ticks", t>>
<1>1. Tag(v) = "stamp" /\ TicksOf(Content(v)) \in Ticks
  BY DEF Accepts, Stored, Coerce, CoerceTimestamp, Column, Refused, Failed
<1>2. Content(v) \in Texts /\ TicksOf(Content(v)) = t
  BY <1>1, JsonShape, TicksExact
<1>3. t \in Int /\ t \in Ticks
  BY <1>1, <1>2, TimestampsAssumption DEF Ticks
<1> HIDE DEF t
<1>4. \A x \in Int : TicksOf(ResultText(x)) = x /\ TicksOf(ParameterText(x)) = x
  BY ResultExact, ParameterExact, TicksExact
<1>5. \A text : text \in Texts /\ TicksOf(text) = t => Stored("timestamp", <<"stamp", text>>) = w
  BY <1>3 DEF Stored, Coerce, CoerceTimestamp, Column, Tag, Content, Refused, Failed
<1>6. Stored("timestamp", v) = w
  BY <1>1, <1>2, <1>5, JsonShape
<1>7. Delivered("timestamp", w) = <<"stamp", ResultText(t)>>
  BY DEF Delivered, JsonValue, Fetched, ResultFormat, Tag, Content
<1>8. SortTuple("timestamp", w) = <<"stamp", ResultText(t)>>
  BY DEF SortTuple, JsonValue, Fetched, SortFormat, Tag, Content
<1>9. Parameter("timestamp", v) = <<"stamp", ParameterText(t)>>
  BY <1>1, <1>2 DEF Parameter
<1>10. Parameter("timestamp", <<"stamp", ResultText(t)>>) = <<"stamp", ParameterText(t)>>
  BY <1>3, <1>4 DEF Parameter, Tag, Content
<1>11. Operand("timestamp", <<"stamp", ParameterText(t)>>) = w
  BY <1>3, <1>4 DEF Operand, Content
<1>12. Stored("timestamp", Delivered("timestamp", w)) = w
  BY <1>3, <1>4, <1>5, <1>7, ResultExact
<1>13. Equals("timestamp", w, v) /\ Equals("timestamp", w, SortTuple("timestamp", w))
  BY <1>8, <1>9, <1>10, <1>11 DEF Equals
<1>14. RoundTrip("timestamp", v)
  BY <1>6, <1>12, <1>13 DEF RoundTrip
<1>15. /\ Denoted(Content(<<"stamp", ResultText(t)>>)) = t
       /\ Denoted(Content(<<"stamp", ParameterText(t)>>)) = t
  BY <1>3, ResultExact, ParameterExact DEF Content
<1> QED
  BY <1>6, <1>7, <1>9, <1>14, <1>15 DEF t

\* What is cut to the column's scale stays as it is when it is cut again.
LEMMA RescaledOnce ==
  ASSUME NEW d \in Numerals
  PROVE  /\ Rescaled(d) \in Numerals /\ Rescaled(d).scale = Scale
         /\ Rescaled(Rescaled(d)) = Rescaled(d)
<1> DEFINE Size(n) == IF n < 0 THEN -n ELSE n
           p == Power[Scale]
           size == (Size(d.units) * p) \div Power[d.scale]
           r == Rescaled(d)
<1>1. p \in Nat \ {0} /\ Power[d.scale] \in Nat \ {0} /\ d.units \in Int /\ Scale \in Nat
  BY PowerPositive, ValuesAssumption DEF Numerals
<1>2. \A n \in Int : Size(n) \in Nat
  OBVIOUS
<1>3. size \in Nat
  <2> DEFINE a == Size(d.units) * p
             b == Power[d.scale]
  <2>1. a \in Nat /\ b \in Nat \ {0}
    <3>1. Size(d.units) \in Nat
      BY <1>1, <1>2
    <3> HIDE DEF Size, p
    <3> QED
      BY <1>1, <3>1
  <2> HIDE DEF a, b
  <2>2. a \div b \in Int /\ a = (a \div b) * b + (a % b) /\ a % b \in 0..(b - 1)
    BY <2>1, Quotient
  <2>3. (-1) * b < (a \div b) * b
    BY <2>1, <2>2
  <2>4. -1 < a \div b
    BY <2>1, <2>2, <2>3, Smaller
  <2> QED
    BY <2>2, <2>4 DEF a, b
<1>4. r = [units |-> IF d.units < 0 THEN -size ELSE size, scale |-> Scale]
  BY DEF Rescaled
<1> HIDE DEF size
<1>5. r \in Numerals /\ r.scale = Scale /\ Size(r.units) = size
  <2>1. (IF d.units < 0 THEN -size ELSE size) \in Int
    BY <1>1, <1>3
  <2> QED
    BY <1>1, <1>3, <1>4, <2>1 DEF Numerals
<1>6. r.units < 0 => d.units < 0
  BY <1>1, <1>3, <1>4
<1>7. ~ (r.units < 0) /\ d.units < 0 => size = 0 /\ r.units = 0
  BY <1>1, <1>3, <1>4
<1> HIDE DEF r
<1>8. (size * p) \div p = size
  <2>1. size * p \in Int
    BY <1>1, <1>3
  <2> HIDE DEF p
  <2> QED
    BY <1>1, <1>3, <2>1, QuotientUnique
<1>9. Rescaled(r) = [units |-> IF r.units < 0 THEN -size ELSE size, scale |-> Scale]
  <2>1. Rescaled(r) = [units |-> IF r.units < 0 THEN -((Size(r.units) * p) \div Power[r.scale])
                                 ELSE (Size(r.units) * p) \div Power[r.scale], scale |-> Scale]
    BY DEF Rescaled
  <2> HIDE DEF Size
  <2> QED
    BY <1>5, <1>8, <2>1
<1>10. Rescaled(r).units = r.units
  <2>1. r.units = IF d.units < 0 THEN -size ELSE size
    BY <1>4 DEF r
  <2>2. Rescaled(r).units = IF r.units < 0 THEN -size ELSE size
    BY <1>9
  <2> HIDE DEF Size
  <2> QED
    BY <1>1, <1>3, <1>6, <1>7, <2>1, <2>2
<1>11. Rescaled(r) = r
  BY <1>4, <1>9, <1>10 DEF r
<1> QED
  BY <1>5, <1>11 DEF r

\* What is cut off is less than one unit.
LEMMA RescaledNear ==
  ASSUME NEW d \in Numerals
  PROVE  Near(Rescaled(d), d)
<1> DEFINE s == IF d.units < 0 THEN -d.units ELSE d.units
           p == Power[Scale]
           b == Power[d.scale]
           q == (s * p) \div b
<1>1. p \in Nat \ {0} /\ b \in Nat \ {0} /\ d.units \in Int /\ s \in Int
  BY PowerPositive, ValuesAssumption DEF Numerals
<1>2. Rescaled(d) = [units |-> IF d.units < 0 THEN -q ELSE q, scale |-> Scale]
  BY DEF Rescaled
<1>3. d.units = IF d.units < 0 THEN -s ELSE s
  BY <1>1
<1> HIDE DEF s, p, b
<1>4. s * p \in Int /\ (-s) * p = -(s * p)
  BY <1>1
<1>5. q \in Int /\ q * b <= s * p /\ s * p < q * b + b
  <2> DEFINE a == s * p
  <2> HIDE DEF a
  <2>1. a \in Int
    BY <1>4 DEF a
  <2>2. a \div b \in Int /\ (a \div b) * b <= a /\ a < (a \div b) * b + b
    BY <1>1, <2>1, Quotient
  <2> QED
    BY <2>2 DEF a
<1>6. Near(Rescaled(d), d) <=>
        LET off == Rescaled(d).units * b - d.units * p IN -b < off /\ off < b
  BY <1>2 DEF Near, b, p
<1>7. (-q) * b = -(q * b) /\ q * b \in Int
  BY <1>1, <1>5
<1>8. /\ Rescaled(d).units * b = IF d.units < 0 THEN -(q * b) ELSE q * b
      /\ d.units * p = IF d.units < 0 THEN -(s * p) ELSE s * p
  BY <1>2, <1>3, <1>4, <1>7
<1> DEFINE up == q * b
           given == s * p
<1>9. Rescaled(d).units * b - d.units * p = IF d.units < 0 THEN -up + given ELSE up - given
  BY <1>4, <1>7, <1>8
<1>10. up \in Int /\ given \in Int /\ up <= given /\ given < up + b
  BY <1>4, <1>5, <1>7
<1> HIDE DEF up, given
<1> QED
  BY <1>1, <1>6, <1>9, <1>10

\* A decimal comes back near the number given, and is not cut again.
LEMMA DecimalTrip ==
  ASSUME NEW v \in JsonValues, Accepts("decimal", v)
  PROVE  LET w == Stored("decimal", v) IN
         /\ Delivered("decimal", w) = w
         /\ Tag(w) = "decimal" /\ Content(w).scale = Scale
         /\ Near(Content(w), NumberOf(v))
         /\ RoundTrip("decimal", v)
<1> DEFINE c == CoerceDecimal(v)
           d == Rescaled(Content(c))
           w == <<"decimal", d>>
           Fits(x) == x.units \in -(Power[Precision] - 1)..(Power[Precision] - 1)
<1>1. Coerce("decimal", v) = c /\ c \notin {Refused, Failed} /\ Stored("decimal", v) = Column("decimal", c)
  BY DEF Accepts, Stored, Coerce, Column
<1>2. Content(c) \in Numerals /\ Content(c) = NumberOf(v)
  <2>1. Tag(v) = "int" \/ Tag(v) = "decimal" \/ Tag(v) = "float"
    BY <1>1 DEF CoerceDecimal
  <2>2. CASE Tag(v) = "int"
    <3>1. c = <<"decimal", [units |-> Content(v), scale |-> 0]>>
      <4>1. Tag(v) # "decimal" /\ Tag(v) \notin Strings \ {"decimal"}
        BY <2>2 DEF Strings
      <4> QED
        BY <2>2, <4>1 DEF CoerceDecimal
    <3>2. Content(c) = [units |-> Content(v), scale |-> 0] /\ Content(v) \in Int
      BY <2>2, <3>1, JsonShape DEF Content
    <3> QED
      BY <2>2, <3>2 DEF Numerals, NumberOf
  <2>3. CASE Tag(v) = "decimal"
    BY <2>3, JsonShape DEF CoerceDecimal, NumberOf
  <2>4. CASE Tag(v) = "float"
    <3>1. c = <<"decimal", Content(v).exact>>
      BY <2>4 DEF CoerceDecimal, Strings
    <3> QED
      BY <2>4, <3>1, JsonShape DEF Content, NumberOf
  <2> QED
    BY <2>1, <2>2, <2>3, <2>4
<1>3. d \in Numerals /\ d.scale = Scale /\ Rescaled(d) = d /\ Near(d, NumberOf(v))
  BY <1>2, RescaledOnce, RescaledNear
<1>4. AsSpelled(v) => Operand("decimal", v) = <<"decimal", d>>
  <2>1. CASE Tag(v) = "float"
    BY <1>2, <2>1 DEF AsSpelled, Operand, ParameterNumber, NumberOf
  <2>2. CASE Tag(v) # "float"
    BY <2>2 DEF Operand, ParameterNumber
  <2> QED
    BY <2>1, <2>2
<1> HIDE DEF c, d
<1>5. Stored("decimal", v) = w /\ Fits(d)
  <2>1. Column("decimal", c) = IF Fits(d) THEN w ELSE Failed
    BY <1>1 DEF Column, d
  <2>2. Stored("decimal", v) # Failed
    BY DEF Accepts
  <2> QED
    BY <1>1, <2>1, <2>2
<1>6. Tag(w) = "decimal" /\ Content(w) = d /\ w \notin {Refused, Failed}
  BY DEF Tag, Content, Refused, Failed
<1> HIDE DEF w
<1>7. CoerceDecimal(w) = w /\ Coerce("decimal", w) = w
  BY <1>6 DEF CoerceDecimal, Coerce
<1>8. Stored("decimal", w) = w
  BY <1>3, <1>5, <1>6, <1>7 DEF Stored, Column, w
<1>9. \A format \in {"int", "bytes", "none"} : Fetched(w, format) = w
  BY <1>6 DEF Fetched
<1>10. Delivered("decimal", w) = w /\ SortTuple("decimal", w) = w
  BY <1>6, <1>9 DEF Delivered, SortTuple, JsonValue, ResultFormat, SortFormat
<1>11. AsSpelled(v) => Equals("decimal", w, v)
  BY <1>4 DEF Equals, Parameter, w
<1>12. Equals("decimal", w, w)
  BY <1>3, <1>6, <1>7 DEF Equals, Operand, Parameter, ParameterNumber, w
<1> QED
  BY <1>3, <1>5, <1>6, <1>8, <1>10, <1>11, <1>12 DEF RoundTrip

\* Bytes come back, in either of the two ways the driver reads them.
LEMMA BytesTrip ==
  ASSUME NEW v \in JsonValues, Accepts("bytes", v)
  PROVE  Delivered("bytes", Stored("bytes", v)) = v /\ RoundTrip("bytes", v)
<1> DEFINE b == Content(v)
           w == <<"bytes", b>>
<1>1. Tag(v) = "base64"
  BY DEF Accepts, Stored, Coerce, Column, Refused, Failed
<1>2. v = <<"base64", b>>
  BY <1>1, JsonShape
<1> HIDE DEF b
<1>3. Stored("bytes", v) = w
  BY <1>1 DEF Stored, Coerce, Column, Refused, Failed, b
<1>4. Delivered("bytes", w) = v
  BY <1>2 DEF Delivered, JsonValue, Fetched, ResultFormat, Tag, Content
<1>5. Printable(b) => SortTuple("bytes", w) = <<"utf8", b>>
  BY DEF SortTuple, JsonValue, Fetched, SortFormat, Tag, Content
<1>6. Printable(b) => Equals("bytes", w, SortTuple("bytes", w))
  BY <1>5 DEF Equals, Operand, Parameter, Tag, Content
<1>7. Content(w) = b
  BY DEF Content
<1> QED
  BY <1>3, <1>4, <1>6, <1>7 DEF RoundTrip

\* The canonical form is its own.
LEMMA CanonicalTwice ==
  ASSUME NEW v \in JsonValues
  PROVE  Canonical(Canonical(v)) = Canonical(v)
<1>1. CASE Tag(v) = "object"
  <2>1. Content(v) \in [members : Nat, order : Nat]
    BY <1>1, JsonShape
  <2>2. Canonical(v) = <<"object", [Content(v) EXCEPT !.order = 0]>>
    BY <1>1 DEF Canonical
  <2>3. [[Content(v) EXCEPT !.order = 0] EXCEPT !.order = 0] = [Content(v) EXCEPT !.order = 0]
    BY <2>1
  <2> QED
    BY <2>2, <2>3 DEF Canonical, Tag, Content
<1>2. CASE Tag(v) # "object"
  BY <1>2 DEF Canonical
<1> QED
  BY <1>1, <1>2

\* A document comes back in canonical form.
LEMMA DocumentTrip ==
  ASSUME NEW v \in JsonValues
  PROVE  Delivered("json", Stored("json", v)) = Canonical(v) /\ RoundTrip("json", v)
<1> DEFINE c == Canonical(v)
           w == <<"jsontext", c>>
<1>1. Tag(w) = "jsontext" /\ Content(w) = c /\ w \notin {Refused, Failed}
  BY DEF Tag, Content, Refused, Failed
<1>2. Stored("json", v) = w
  BY <1>1 DEF Stored, Coerce, Column
<1>3. Stored("json", c) = w
  BY <1>1, CanonicalTwice DEF Stored, Coerce, Column
<1> HIDE DEF w, c
<1>4. \A format \in {"int", "bytes", "none"} : Fetched(w, format) = w
  BY <1>1 DEF Fetched
<1>5. Delivered("json", w) = c
  BY <1>1, <1>4 DEF Delivered, JsonValue, ResultFormat, Documents
<1>6. SortTuple("json", w) = w
  BY <1>1, <1>4 DEF SortTuple, JsonValue, SortFormat
<1>7. Equals("json", w, w)
  BY <1>1 DEF Equals, Operand, Parameter
<1> QED
  BY <1>2, <1>3, <1>5, <1>6, <1>7 DEF RoundTrip, c

=============================================================================
