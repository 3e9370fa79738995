--------------------------- MODULE MergeTreeProofs ---------------------------
(***************************************************************************)
(* What merging and inserting do to the rows a FINAL read returns.         *)
(***************************************************************************)
EXTENDS MergeTree, WellFoundedInduction, TLAPS

\* Rows whose version, block and position are numbers, hence comparable.
IsTable(R) == \A x \in R : x.ingested \in Nat /\ x.block \in Nat /\ x.pos \in Nat

-----------------------------------------------------------------------------
\* Bounded sets of numbers have a greatest element.

\* Any nonempty set of naturals has a least element.
LEMMA NatMinimum ==
  ASSUME NEW T \in SUBSET Nat, T # {}
  PROVE  \E m \in T : \A t \in T : m <= t
<1> DEFINE R == OpToRel(<, Nat)
<1>1. IsWellFoundedOn(R, Nat)
  BY NatLessThanWellFounded
<1>2. PICK m \in T : \A t \in T : ~ (<<t, m>> \in R)
  <2> HIDE DEF R
  <2> QED BY <1>1, WFMin
<1>3. \A t \in T : t \in Nat /\ m \in Nat /\ ~ (t < m)
  BY <1>2 DEF OpToRel
<1> QED
  BY <1>3

\* Any nonempty set of naturals with an upper bound has a greatest element.
LEMMA BoundedMaximum ==
  ASSUME NEW S \in SUBSET Nat, S # {}, NEW n \in Nat, \A s \in S : s <= n
  PROVE  \E m \in S : \A s \in S : s <= m
<1> DEFINE T == {n - s : s \in S}
<1>1. \A s \in S : n - s \in Nat
  OBVIOUS
<1>2. T \in SUBSET Nat
  BY <1>1
<1>3. PICK s0 \in S : TRUE
  OBVIOUS
<1>4. T # {}
  BY <1>3
<1>5. PICK k \in T : \A t \in T : k <= t
  BY <1>2, <1>4, NatMinimum
<1>6. PICK m \in S : k = n - m
  OBVIOUS
<1>7. ASSUME NEW s \in S PROVE s <= m
  <2>1. n - m <= n - s
    BY <1>5, <1>6
  <2> QED
    BY <2>1
<1> QED
  BY <1>7

-----------------------------------------------------------------------------
\* SameKey is an equivalence and Newer a strict order on rows.

\* Newer is transitive.
LEMMA NewerTransitive ==
  ASSUME NEW R, IsTable(R), NEW x \in R, NEW y \in R, NEW z \in R,
         Newer(z, y), Newer(y, x)
  PROVE  Newer(z, x)
  BY DEF IsTable, Newer

\* No row is newer than itself.
LEMMA NewerIrreflexive ==
  ASSUME NEW R, IsTable(R), NEW x \in R
  PROVE  ~ Newer(x, x)
  BY DEF IsTable, Newer

\* SameKey is an equivalence relation.
LEMMA SameKeyEquivalence ==
  ASSUME NEW x, NEW y, NEW z, SameKey(x, y)
  PROVE  /\ SameKey(x, x) /\ SameKey(y, x)
         /\ SameKey(y, z) <=> SameKey(x, z)
  BY AppendOnlyAssumption DEF SameKey

-----------------------------------------------------------------------------
\* Background merges are invisible: removing a superseded row of a
\* ReplacingMergeTree leaves what SELECT ... FINAL returns as it was.
THEOREM MergeInvisible ==
  ASSUME NEW R, IsTable(R), NEW x \in R, Superseded(x, R)
  PROVE  Final(R \ {x}) = Final(R)
<1>1. PICK y \in R : SameKey(x, y) /\ Newer(y, x)
  BY DEF Superseded
<1>2. y # x
  BY <1>1, NewerIrreflexive
<1>3. ASSUME NEW z \in R PROVE Superseded(z, R \ {x}) <=> Superseded(z, R)
  <2>1. SUFFICES ASSUME NEW w \in R, SameKey(z, w), Newer(w, z)
                 PROVE  Superseded(z, R \ {x})
    BY DEF Superseded
  <2>2. CASE w # x
    BY <2>1, <2>2 DEF Superseded
  <2>3. CASE w = x
    <3>1. SameKey(z, y)
      BY <1>1, <2>1, <2>3, SameKeyEquivalence
    <3>2. Newer(y, z)
      BY <1>1, <2>1, <2>3, NewerTransitive
    <3> QED
      BY <1>2, <3>1, <3>2 DEF Superseded
  <2> QED
    BY <2>2, <2>3
<1> QED
  BY <1>3 DEF Final

-----------------------------------------------------------------------------
\* B is one inserted block: one version, one number above those of R, rows
\* placed at most at n.
IsBlockAfter(B, R, n) ==
  /\ \A x, y \in B : x.ingested = y.ingested /\ x.block = y.block
  /\ \A x \in B, y \in R : y.block < x.block
  /\ \A x \in B : x.pos <= n

\* A block puts each of its keys in front of readers and takes no key away:
\* if the rows that share x's key were represented before, x's key is after.
LEMMA InsertRepresents ==
  ASSUME NEW R, NEW B, NEW n \in Nat, IsTable(R), IsTable(B), IsBlockAfter(B, R, n),
         NEW x \in R \cup B,
         (\E z \in R : SameKey(x, z)) => Represented(x, R)
  PROVE  Represented(x, R \cup B)
<1> DEFINE C == {z \in B : SameKey(x, z)}
           S == {z.pos : z \in C}
<1>1. IsTable(R \cup B)
  BY DEF IsTable
<1>2. CASE C = {}
  <2>1. x \in R /\ SameKey(x, x)
    BY <1>2, AppendOnlyAssumption DEF SameKey
  <2>2. PICK f \in Final(R) : SameKey(x, f)
    BY <2>1 DEF Represented
  <2>3. \A z \in B : ~ SameKey(f, z)
    BY <1>2, <2>2, SameKeyEquivalence
  <2>4. f \in Final(R \cup B)
    BY <2>2, <2>3 DEF Final, Superseded
  <2> QED
    BY <2>2, <2>4 DEF Represented
<1>3. CASE C # {}
  <2>1. S \in SUBSET Nat /\ S # {} /\ \A s \in S : s <= n
    BY <1>3 DEF IsTable, IsBlockAfter
  <2>2. PICK p \in S : \A s \in S : s <= p
    <3> HIDE DEF S
    <3> QED BY <2>1, BoundedMaximum
  <2>3. PICK m \in C : \A z \in C : z.pos <= m.pos
    BY <2>2
  <2>4. \A z \in C : ~ Newer(z, m)
    BY <2>3 DEF Newer, IsTable, IsBlockAfter
  <2>5. m \in B /\ SameKey(x, m) /\ \A z : SameKey(m, z) <=> SameKey(x, z)
    BY <2>3, SameKeyEquivalence
  <2>6. CASE \E f \in Final(R) : SameKey(x, f) /\ Newer(f, m)
    <3>1. PICK f \in Final(R) : SameKey(x, f) /\ Newer(f, m)
      BY <2>6
    <3>2. f \in R /\ \A z : SameKey(f, z) <=> SameKey(x, z)
      BY <3>1, SameKeyEquivalence DEF Final
    <3>3. \A z \in C : ~ Newer(z, f)
      BY <1>1, <2>4, <2>5, <3>1, <3>2, NewerTransitive
    <3>4. f \in Final(R \cup B)
      BY <3>1, <3>2, <3>3 DEF Final, Superseded
    <3> QED
      BY <3>1, <3>4 DEF Represented
  <2>7. CASE \A f \in Final(R) : SameKey(x, f) => ~ Newer(f, m)
    <3>1. ASSUME NEW z \in R, SameKey(x, z), Newer(z, m) PROVE FALSE
      <4>1. PICK f \in Final(R) : SameKey(x, f)
        BY <3>1 DEF Represented
      <4>2. f \in R /\ SameKey(f, z)
        BY <3>1, <4>1, SameKeyEquivalence DEF Final
      <4>3. ~ Newer(z, f) /\ ~ Newer(f, m)
        BY <2>7, <4>1, <4>2 DEF Final, Superseded
      <4> QED
        BY <2>5, <3>1, <4>2, <4>3 DEF Newer, IsTable, IsBlockAfter
    <3>2. m \in Final(R \cup B)
      BY <2>4, <2>5, <3>1 DEF Final, Superseded
    <3> QED
      BY <2>5, <3>2 DEF Represented
  <2> QED
    BY <2>6, <2>7
<1> QED
  BY <1>2, <1>3

=============================================================================
