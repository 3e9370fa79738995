-------------------------- MODULE PaginationProofs --------------------------
(***************************************************************************)
(* What a reader of a table that changes may rely on, for any plans, page  *)
(* sizes, records and interleavings of requests and changes.               *)
(***************************************************************************)
EXTENDS Pagination, MergeTreeProofs, SequenceTheorems, FiniteSetTheorems

-----------------------------------------------------------------------------
\* Lexicographic order of tuples of integers.

Lex(n, u, v) == \E j \in 1..n : (\A i \in 1..(j - 1) : u[i] = v[i]) /\ u[j] > v[j]

\* The lexicographic order of tuples is transitive.
LEMMA LexTransitive ==
  ASSUME NEW n \in Nat, NEW u \in [1..n -> Int], NEW v \in [1..n -> Int], NEW w \in [1..n -> Int],
         Lex(n, u, v), Lex(n, v, w)
  PROVE  Lex(n, u, w)
<1>1. PICK j \in 1..n : (\A i \in 1..(j - 1) : u[i] = v[i]) /\ u[j] > v[j]
  BY DEF Lex
<1>2. PICK k \in 1..n : (\A i \in 1..(k - 1) : v[i] = w[i]) /\ v[k] > w[k]
  BY DEF Lex
<1>3. CASE j < k
  <2>1. (\A i \in 1..(j - 1) : u[i] = w[i]) /\ u[j] > w[j]
    BY <1>1, <1>2, <1>3
  <2> QED
    BY <2>1 DEF Lex
<1>4. CASE j = k
  <2>1. (\A i \in 1..(j - 1) : u[i] = w[i]) /\ u[j] > w[j]
    BY <1>1, <1>2, <1>4
  <2> QED
    BY <2>1 DEF Lex
<1>5. CASE j > k
  <2>1. (\A i \in 1..(k - 1) : u[i] = w[i]) /\ u[k] > w[k]
    BY <1>1, <1>2, <1>5
  <2> QED
    BY <2>1 DEF Lex
<1> QED
  BY <1>3, <1>4, <1>5

\* It is asymmetric.
LEMMA LexAsymmetric ==
  ASSUME NEW n \in Nat, NEW u \in [1..n -> Int], NEW v \in [1..n -> Int], Lex(n, u, v)
  PROVE  ~Lex(n, v, u)
<1> SUFFICES ASSUME Lex(n, v, u) PROVE FALSE
  OBVIOUS
<1>1. Lex(n, u, u)
  BY LexTransitive
<1> QED
  BY <1>1 DEF Lex

\* Different tuples are ordered.
LEMMA LexTotal ==
  ASSUME NEW n \in Nat, NEW u \in [1..n -> Int], NEW v \in [1..n -> Int], u # v
  PROVE  Lex(n, u, v) \/ Lex(n, v, u)
<1> DEFINE T == {i \in 1..n : u[i] # v[i]}
<1>1. T \in SUBSET Nat /\ T # {}
  <2>1. \E i \in 1..n : u[i] # v[i]
    <3>1. u = [i \in 1..n |-> u[i]] /\ v = [i \in 1..n |-> v[i]]
      OBVIOUS
    <3> QED
      BY <3>1, Zenon
  <2>2. 1..n \subseteq Nat
    OBVIOUS
  <2> QED
    BY <2>1, <2>2
<1>2. PICK m \in T : \A t \in T : m <= t
  BY <1>1, NatMinimum
<1>3. m \in 1..n /\ u[m] \in Int /\ v[m] \in Int /\ u[m] # v[m]
  OBVIOUS
<1>4. \A i \in 1..(m - 1) : u[i] = v[i]
  BY <1>2, <1>3
<1>5. u[m] > v[m] \/ v[m] > u[m]
  BY <1>3
<1> HIDE DEF T
<1> QED
  BY <1>3, <1>4, <1>5 DEF Lex

-----------------------------------------------------------------------------
\* The order of a plan.

SortItem == [field : LogicalFields \cup {"row"}, direction : Directions]

\* A plan sorts by known fields, and by the row fingerprint at last.
LEMMA SortsKnown ==
  ASSUME NEW p \in Plans
  PROVE  /\ Sorts(p) \in Seq(SortItem) /\ Len(Sorts(p)) \in Nat
         /\ DOMAIN Sorts(p) = 1..Len(Sorts(p))
         /\ \A i \in 1..Len(Sorts(p)) : Sorts(p)[i] \in SortItem
         /\ \E i \in 1..Len(Sorts(p)) : Sorts(p)[i].field = "row"
<1>1. p.order \in Seq([field : LogicalFields, direction : Directions])
  BY PaginationAssumption
<1>2. Len(p.order) \in Nat /\ DOMAIN p.order = 1..Len(p.order)
      /\ \A i \in 1..Len(p.order) : p.order[i] \in [field : LogicalFields, direction : Directions]
  BY <1>1, LenProperties, ElementOfSeq
<1>3. \A i \in DOMAIN p.order : p.order[i] \in SortItem /\ p.order[i].field # "row"
  BY <1>2 DEF SortItem, LogicalFields
<1>4. p.order \in Seq(SortItem)
  BY <1>1, <1>2, <1>3
<1>5. \A k \in 1..3 : DefaultSorts[k] \in SortItem
  BY DEF DefaultSorts, SortItem, LogicalFields, Directions
<1>6. \A k \in 1..3 : Lacking(p, DefaultSorts[k]) \in Seq(SortItem)
  BY <1>5 DEF Lacking
<1>7. Lacking(p, DefaultSorts[3]) = <<DefaultSorts[3]>> /\ DefaultSorts[3].field = "row"
  BY <1>3 DEF Lacking, DefaultSorts
<1> DEFINE a == p.order \o Lacking(p, DefaultSorts[1]) \o Lacking(p, DefaultSorts[2])
           b == <<DefaultSorts[3]>>
<1>8. a \in Seq(SortItem)
  <2>1. p.order \o Lacking(p, DefaultSorts[1]) \in Seq(SortItem)
    BY <1>4, <1>6, ConcatProperties
  <2> QED
    BY <2>1, <1>6, ConcatProperties
<1>9. b \in Seq(SortItem) /\ Len(b) = 1 /\ b[1].field = "row"
  BY <1>5, <1>7
<1>10. Sorts(p) = a \o b
  BY <1>7 DEF Sorts
<1> HIDE DEF a, b
<1>11. /\ Sorts(p) \in Seq(SortItem) /\ Len(Sorts(p)) = Len(a) + 1 /\ Len(a) \in Nat
       /\ Sorts(p)[Len(a) + 1] = b[1]
  <2>1. Len(a) \in Nat
    BY <1>8, LenProperties
  <2>2. /\ Sorts(p) \in Seq(SortItem) /\ Len(Sorts(p)) = Len(a) + 1
        /\ \A i \in 1..(Len(a) + 1) :
             Sorts(p)[i] = IF i <= Len(a) THEN a[i] ELSE b[i - Len(a)]
    <3>1. /\ a \o b \in Seq(SortItem) /\ Len(a \o b) = Len(a) + Len(b)
          /\ \A i \in 1..(Len(a) + Len(b)) : (a \o b)[i] = IF i <= Len(a) THEN a[i] ELSE b[i - Len(a)]
      BY <1>8, <1>9, ConcatProperties
    <3> QED
      BY <1>9, <1>10, <3>1
  <2>3. Len(a) + 1 \in 1..(Len(a) + 1) /\ Len(a) + 1 - Len(a) = 1
    BY <2>1
  <2> QED
    BY <2>1, <2>2, <2>3
<1>12. DOMAIN Sorts(p) = 1..Len(Sorts(p))
       /\ \A i \in 1..Len(Sorts(p)) : Sorts(p)[i] \in SortItem
  BY <1>11, LenProperties, ElementOfSeq
<1> QED
  BY <1>9, <1>11, <1>12

\* Rows as far as a plan sorts them.
Sortable(x) == x.record \in Records

\* The place of a row in the order of a plan, as a tuple of integers.
Rank(x, p) ==
  [i \in 1..Len(Sorts(p)) |->
     LET v == Value(x, Sorts(p)[i].field) IN IF Sorts(p)[i].direction = "asc" THEN v ELSE -v]

\* Sortable records have numbers in their sort columns.
LEMMA ValueKnown ==
  ASSUME NEW x, Sortable(x), NEW f \in LogicalFields \cup {"row"}
  PROVE  Value(x, f) \in Int
<1>1. x.record.key \in Keys /\ x.record.body \in Bodies
  BY DEF Sortable, Records
<1>2. /\ TimeOf[x.record.key] \in Int /\ IdentityOf[x.record.key] \in Int
      /\ BodyRank[x.record.body] \in Int /\ Digest[x.record] \in Nat
  BY <1>1, PaginationAssumption DEF Sortable
<1> QED
  BY <1>2 DEF Value, LogicalFields

\* Hence the sort columns of a plan make a tuple of numbers.
LEMMA RankKnown ==
  ASSUME NEW p \in Plans, NEW x, Sortable(x)
  PROVE  Rank(x, p) \in [1..Len(Sorts(p)) -> Int]
<1>1. \A i \in 1..Len(Sorts(p)) : Value(x, Sorts(p)[i].field) \in Int
  BY SortsKnown, ValueKnown DEF SortItem
<1> QED
  BY <1>1 DEF Rank

\* "sorts behind" is the lexicographic order of these tuples.
LEMMA AfterIsLex ==
  ASSUME NEW p \in Plans, NEW x, NEW y, Sortable(x), Sortable(y)
  PROVE  After(y, x, p) <=> Lex(Len(Sorts(p)), Rank(y, p), Rank(x, p))
<1> DEFINE s == Sorts(p)
           n == Len(s)
<1>1. n \in Nat /\ DOMAIN s = 1..n /\ \A i \in 1..n : s[i].field \in LogicalFields \cup {"row"}
  BY SortsKnown DEF SortItem
<1>2. ASSUME NEW i \in 1..n
      PROVE  /\ Value(x, s[i].field) = Value(y, s[i].field) <=> Rank(y, p)[i] = Rank(x, p)[i]
             /\ Beyond(s[i], Value(y, s[i].field), Value(x, s[i].field)) <=> Rank(y, p)[i] > Rank(x, p)[i]
  <2>1. Value(x, s[i].field) \in Int /\ Value(y, s[i].field) \in Int
    BY <1>1, ValueKnown
  <2> QED
    BY <2>1 DEF Rank, Beyond
<1> HIDE DEF s, n
<1>3. After(y, x, p) <=>
        \E j \in 1..n : (\A i \in 1..(j - 1) : Value(x, s[i].field) = Value(y, s[i].field))
                        /\ Beyond(s[j], Value(y, s[j].field), Value(x, s[j].field))
  BY <1>1 DEF After, s
<1>4. \A j \in 1..n : \A i \in 1..(j - 1) : i \in 1..n
  BY <1>1
<1> QED
  BY <1>2, <1>3, <1>4 DEF Lex, n, s

\* Rows that tie on every field of a plan have the same record: the row
\* fingerprint is one of the fields, and it is injective.
LEMMA TiedSameRecord ==
  ASSUME NEW p \in Plans, NEW x, NEW y, Sortable(x), Sortable(y), ~After(x, y, p), ~After(y, x, p)
  PROVE  x.record = y.record
<1>1. Rank(x, p) = Rank(y, p)
  BY AfterIsLex, RankKnown, SortsKnown, LexTotal
<1>2. PICK i \in 1..Len(Sorts(p)) : Sorts(p)[i].field = "row"
  BY SortsKnown
<1>3. Rank(x, p)[i] = Rank(y, p)[i]
  BY <1>1
<1>4. Value(x, "row") \in Int /\ Value(y, "row") \in Int
  BY ValueKnown
<1>5. Value(x, "row") = Value(y, "row")
  BY <1>2, <1>3, <1>4 DEF Rank
<1> QED
  BY <1>5, PaginationAssumption DEF Value, Sortable

\* The order of a plan is strict, and rows that tie stand alike to all others.
LEMMA AfterOrder ==
  ASSUME NEW p \in Plans, NEW x, NEW y, NEW z, Sortable(x), Sortable(y), Sortable(z)
  PROVE  /\ After(x, y, p) => ~After(y, x, p)
         /\ After(x, y, p) /\ After(y, z, p) => After(x, z, p)
         /\ After(x, y, p) /\ ~After(z, y, p) => After(x, z, p)
<1> DEFINE n == Len(Sorts(p))
           u == Rank(x, p)
           v == Rank(y, p)
           w == Rank(z, p)
<1>1. n \in Nat /\ u \in [1..n -> Int] /\ v \in [1..n -> Int] /\ w \in [1..n -> Int]
  BY RankKnown, SortsKnown
<1>2. /\ After(x, y, p) <=> Lex(n, u, v)
      /\ After(y, x, p) <=> Lex(n, v, u)
      /\ After(y, z, p) <=> Lex(n, v, w)
      /\ After(z, y, p) <=> Lex(n, w, v)
      /\ After(x, z, p) <=> Lex(n, u, w)
  BY AfterIsLex
<1> HIDE DEF n, u, v, w
<1>3. Lex(n, u, v) => ~Lex(n, v, u)
  BY <1>1, LexAsymmetric
<1>4. Lex(n, u, v) /\ Lex(n, v, w) => Lex(n, u, w)
  BY <1>1, LexTransitive
<1>5. Lex(n, u, v) /\ ~Lex(n, w, v) => Lex(n, u, w)
  BY <1>1, <1>4, LexTotal
<1> QED
  BY <1>2, <1>3, <1>4, <1>5

\* After looks at nothing but the records.
LEMMA AfterOfRecords ==
  ASSUME NEW p, NEW x, NEW y
  PROVE  After(x, y, p) <=> After([record |-> x.record], [record |-> y.record], p)
<1>1. \A f : Value(x, f) = Value([record |-> x.record], f) /\ Value(y, f) = Value([record |-> y.record], f)
  BY DEF Value
<1> QED
  BY <1>1, Zenon DEF After

\* A sort tuple depends on the record alone.
LEMMA TupleOfRecord ==
  ASSUME NEW p, NEW x, NEW e
  PROVE  SortTuple(x, p, e) = SortTuple([record |-> x.record], p, e)
<1>1. \A f : Value([record |-> x.record], f) = Value(x, f)
  BY DEF Value
<1>2. ASSUME NEW f PROVE Encoded([record |-> x.record], f, e) = Encoded(x, f, e)
  BY <1>1, SMT DEF Encoded
<1> QED
  BY <1>2, Zenon DEF SortTuple

\* The keyset predicate of a cursor selects exactly the rows that sort behind
\* the row it was made of, whatever encoding the cursor came in.
LEMMA KeysetIsAfter ==
  ASSUME NEW p \in Plans, NEW x, NEW y, NEW e
  PROVE  Keyset(y, p, SortTuple(x, p, e)) <=> After(y, x, p)
<1> DEFINE s == Sorts(p)
<1>1. \A i \in DOMAIN s : Operand(s[i].field, SortTuple(x, p, e)[i]) = Value(x, s[i].field)
  BY DEF SortTuple, Encoded, Operand, PhysicalRowFingerprint
<1>2. \A j \in DOMAIN s : \A i \in 1..(j - 1) : i \in DOMAIN s
  BY SortsKnown
<1> HIDE DEF s
<1>3. Keyset(y, p, SortTuple(x, p, e)) <=>
        \E j \in DOMAIN s :
          /\ \A i \in 1..(j - 1) : Value(y, s[i].field) = Operand(s[i].field, SortTuple(x, p, e)[i])
          /\ Beyond(s[j], Value(y, s[j].field), Operand(s[j].field, SortTuple(x, p, e)[j]))
  BY DEF Keyset, s
<1>4. After(y, x, p) <=>
        \E j \in DOMAIN s :
          /\ \A i \in 1..(j - 1) : Value(x, s[i].field) = Value(y, s[i].field)
          /\ Beyond(s[j], Value(y, s[j].field), Value(x, s[j].field))
  BY DEF After, s
<1> QED
  BY <1>1, <1>2, <1>3, <1>4

-----------------------------------------------------------------------------
\* ORDER BY ... LIMIT over finitely many rows, each of a block of its own.

Numbered(R) ==
  /\ IsFiniteSet(R)
  /\ \A x \in R : Sortable(x) /\ x.block \in Nat
  /\ \A x, y \in R : x.block = y.block => x = y

\* A part of a numbered table is numbered.
LEMMA SubsetNumbered ==
  ASSUME NEW R, Numbered(R), NEW S \in SUBSET R
  PROVE  Numbered(S)
BY FS_Subset DEF Numbered

\* Precedes is a strict total order of such rows.
LEMMA PrecedesOrder ==
  ASSUME NEW p \in Plans, NEW R, Numbered(R), NEW x \in R, NEW y \in R, NEW z \in R
  PROVE  /\ ~Precedes(x, x, p)
         /\ Precedes(x, y, p) /\ Precedes(y, z, p) => Precedes(x, z, p)
         /\ x # y => Precedes(x, y, p) \/ Precedes(y, x, p)
<1>1. Sortable(x) /\ Sortable(y) /\ Sortable(z) /\ x.block \in Nat /\ y.block \in Nat /\ z.block \in Nat
  BY DEF Numbered
<1>2. ~After(x, x, p)
  BY <1>1, AfterOrder
<1>3. /\ After(y, x, p) => ~After(x, y, p)
      /\ After(z, y, p) => ~After(y, z, p)
      /\ After(z, x, p) => ~After(x, z, p)
  BY <1>1, AfterOrder
<1>4. /\ After(z, y, p) /\ After(y, x, p) => After(z, x, p)
      /\ After(z, y, p) /\ ~After(x, y, p) => After(z, x, p)
      /\ After(x, z, p) /\ ~After(y, z, p) => After(x, y, p)
      /\ After(y, x, p) /\ ~After(z, x, p) => After(y, z, p)
  BY <1>1, AfterOrder
<1>5. x # y => x.block # y.block
  BY DEF Numbered
<1>6. ASSUME Precedes(x, y, p), Precedes(y, z, p) PROVE Precedes(x, z, p)
  <2>1. CASE After(y, x, p)
    BY <1>1, <1>3, <1>4, <1>6, <2>1 DEF Precedes
  <2>2. CASE ~After(y, x, p)
    BY <1>1, <1>3, <1>4, <1>6, <2>2 DEF Precedes
  <2> QED
    BY <2>1, <2>2
<1>7. ASSUME x # y PROVE Precedes(x, y, p) \/ Precedes(y, x, p)
  BY <1>1, <1>3, <1>5, <1>7 DEF Precedes
<1> QED
  BY <1>1, <1>2, <1>6, <1>7 DEF Precedes

Before(x, R, p) == {y \in R : Precedes(y, x, p)}

\* Fewer rows come before an earlier row.
LEMMA BeforeCounts ==
  ASSUME NEW p \in Plans, NEW R, Numbered(R), NEW x \in R
  PROVE  /\ IsFiniteSet(Before(x, R, p)) /\ Cardinality(Before(x, R, p)) \in Nat
         /\ Cardinality(Before(x, R, p)) < Cardinality(R)
         /\ \A y \in Before(x, R, p) : Cardinality(Before(y, R, p)) < Cardinality(Before(x, R, p))
<1>1. ASSUME NEW S \in SUBSET R, NEW T \in SUBSET S, NEW w \in S \ T
      PROVE  IsFiniteSet(T) /\ Cardinality(T) \in Nat /\ Cardinality(T) < Cardinality(S)
  <2>1. IsFiniteSet(S) /\ IsFiniteSet(T) /\ Cardinality(T) <= Cardinality(S)
        /\ (Cardinality(T) = Cardinality(S) => T = S)
    BY FS_Subset DEF Numbered
  <2>2. Cardinality(S) \in Nat /\ Cardinality(T) \in Nat
    BY <2>1, FS_CardinalityType
  <2> QED
    BY <2>1, <2>2
<1>2. Before(x, R, p) \in SUBSET R /\ x \in R \ Before(x, R, p)
  BY PrecedesOrder DEF Before
<1>3. ASSUME NEW y \in Before(x, R, p)
      PROVE  Before(y, R, p) \in SUBSET Before(x, R, p) /\ y \in Before(x, R, p) \ Before(y, R, p)
  BY <1>3, PrecedesOrder DEF Before
<1> QED
  BY <1>1, <1>2, <1>3

\* A LIMIT keeps the rows that have fewer than that many before them.
LEMMA FirstKnown ==
  ASSUME NEW n, NEW R, NEW p
  PROVE  First(n, R, p) = {x \in R : Cardinality(Before(x, R, p)) < n}
BY DEF First, Before

\* LIMIT takes a beginning of the order,
LEMMA FirstClosed ==
  ASSUME NEW p \in Plans, NEW R, Numbered(R), NEW n \in Nat,
         NEW x \in First(n, R, p), NEW y \in R, Precedes(y, x, p)
  PROVE  y \in First(n, R, p)
<1>1. x \in R /\ Cardinality(Before(x, R, p)) < n
  BY FirstKnown
<1>2. y \in Before(x, R, p)
  BY DEF Before
<1>3. Cardinality(Before(y, R, p)) < Cardinality(Before(x, R, p))
      /\ Cardinality(Before(y, R, p)) \in Nat /\ Cardinality(Before(x, R, p)) \in Nat
  BY <1>1, <1>2, BeforeCounts
<1> QED
  BY <1>1, <1>3, FirstKnown

\* ... all rows where there are no more than that,
LEMMA FirstAll ==
  ASSUME NEW p \in Plans, NEW R, Numbered(R), NEW n \in Nat, Cardinality(R) <= n
  PROVE  First(n, R, p) = R
<1>1. Cardinality(R) \in Nat
  BY FS_CardinalityType DEF Numbered
<1>2. ASSUME NEW x \in R PROVE Cardinality(Before(x, R, p)) < n
  BY <1>1, BeforeCounts
<1> QED
  BY <1>2, FirstKnown

\* ... and not fewer where there are.
LEMMA FirstShort ==
  ASSUME NEW p \in Plans, NEW R, Numbered(R), NEW n \in Nat, Cardinality(First(n, R, p)) < n
  PROVE  First(n, R, p) = R
<1> DEFINE F == First(n, R, p)
           N == {Cardinality(Before(x, R, p)) : x \in R \ F}
<1>1. SUFFICES ASSUME R \ F # {} PROVE FALSE
  BY FirstKnown
<1>2. \A x \in R : Cardinality(Before(x, R, p)) \in Nat
  BY BeforeCounts
<1>3. N \in SUBSET Nat /\ N # {}
  BY <1>1, <1>2
<1>4. PICK m \in N : \A k \in N : m <= k
  BY <1>3, NatMinimum
<1>5. PICK x \in R \ F : m = Cardinality(Before(x, R, p))
  OBVIOUS
<1>6. ASSUME NEW y \in Before(x, R, p) PROVE y \in F
  <2>1. y \in R /\ Cardinality(Before(y, R, p)) < m /\ Cardinality(Before(y, R, p)) \in Nat /\ m \in Nat
    <3>1. y \in R
      BY DEF Before
    <3>2. Cardinality(Before(y, R, p)) < Cardinality(Before(x, R, p))
      BY BeforeCounts
    <3> QED
      BY <1>2, <1>5, <3>1, <3>2
  <2> QED
    BY <1>4, <2>1
<1>7. IsFiniteSet(F)
  BY FirstKnown, FS_Subset DEF Numbered
<1>8. Cardinality(Before(x, R, p)) <= Cardinality(F)
  BY <1>6, <1>7, FS_Subset
<1>9. ~(Cardinality(Before(x, R, p)) < n)
  BY <1>5, FirstKnown
<1>10. Cardinality(F) \in Nat
  BY <1>7, FS_CardinalityType
<1> QED
  BY <1>2, <1>5, <1>8, <1>9, <1>10

\* A LIMIT leaves something of what is selected.
LEMMA FirstNonempty ==
  ASSUME NEW p \in Plans, NEW R, Numbered(R), NEW n \in Nat \ {0}, R # {}
  PROVE  First(n, R, p) # {}
<1> SUFFICES ASSUME First(n, R, p) = {} PROVE FALSE
  OBVIOUS
<1>1. Cardinality(First(n, R, p)) < n
  BY FS_EmptySet
<1> QED
  BY <1>1, FirstShort

\* The last row of a page.
LEMMA LastKnown ==
  ASSUME NEW p \in Plans, NEW R, Numbered(R), R # {}
  PROVE  /\ LastOf(R, p) \in R
         /\ \A y \in R \ {LastOf(R, p)} : Precedes(y, LastOf(R, p), p)
<1> DEFINE N == {Cardinality(Before(x, R, p)) : x \in R}
<1>1. Cardinality(R) \in Nat
  BY FS_CardinalityType DEF Numbered
<1>2. \A x \in R : Cardinality(Before(x, R, p)) \in Nat /\ Cardinality(Before(x, R, p)) < Cardinality(R)
  BY BeforeCounts
<1>3. N \in SUBSET Nat /\ N # {} /\ \A k \in N : k <= Cardinality(R)
  BY <1>1, <1>2
<1>4. PICK m \in N : \A k \in N : k <= m
  BY <1>1, <1>3, BoundedMaximum
<1>5. PICK x \in R : m = Cardinality(Before(x, R, p))
  OBVIOUS
<1>6. ASSUME NEW y \in R \ {x} PROVE Precedes(y, x, p)
  <2>1. SUFFICES ASSUME Precedes(x, y, p) PROVE FALSE
    BY PrecedesOrder
  <2>2. x \in Before(y, R, p)
    BY <2>1 DEF Before
  <2>3. m < Cardinality(Before(y, R, p)) /\ Cardinality(Before(y, R, p)) \in Nat /\ m \in Nat
    BY <1>2, <1>5, <2>2, BeforeCounts
  <2>4. Cardinality(Before(y, R, p)) <= m
    BY <1>4
  <2> QED
    BY <2>3, <2>4
<1> QED
  BY <1>6 DEF LastOf

-----------------------------------------------------------------------------
\* One page.

RowInv ==
  /\ Numbered(rows) /\ inserted \in Nat
  /\ \A x \in rows : x.scope \in Scopes /\ x.block <= inserted

Entries == Scopes \X Records

Entry(x) == <<x.scope, x.record>>

\* An entry as far as a plan sorts it.
Place(d) == [record |-> d[2]]

\* What a plan selects is a part of the table, in the scope of the reader.
LEMMA MatchingKnown ==
  ASSUME RowInv, NEW p \in Plans, NEW s \in Scopes
  PROVE  /\ Matching(p, s) \in SUBSET rows /\ Numbered(Matching(p, s))
         /\ \A x \in Matching(p, s) : x.scope = s /\ Sortable(x) /\ Entry(x) \in Entries
         /\ Content(Matching(p, s)) = {Entry(x) : x \in Matching(p, s)}
<1>1. Matching(p, s) \in SUBSET rows
  BY DEF Matching, Read, Final
<1>2. \A x \in Matching(p, s) : x.scope = s
  BY DEF Matching
<1> QED
  BY <1>1, <1>2, SubsetNumbered DEF RowInv, Numbered, Sortable, Entries, Entry, Content

\* What a page holds of the rows it is selected from, and where it ends.
LEMMA PageKnown ==
  ASSUME NEW p \in Plans, NEW S, Numbered(S), NEW n \in Nat \ {0},
         \A x, y \in S : x.scope = y.scope
  PROVE  LET F == First(n + 1, S, p)
             P == First(n, F, p)
             b == Boundary(F, n, p)
         IN  /\ P \in SUBSET S
             /\ Cardinality(F) <= n => P = S
             /\ Cardinality(F) > n =>
                  /\ b \in P
                  /\ \A x \in P : ~After(x, b, p)
                  /\ \A x \in S : After(x, b, p) \/ Entry(x) \in {Entry(y) : y \in P}
<1> DEFINE F == First(n + 1, S, p)
           P == First(n, F, p)
           b == Boundary(F, n, p)
<1>1. F \in SUBSET S /\ P \in SUBSET F /\ Numbered(F) /\ Numbered(P)
  BY FirstKnown, SubsetNumbered
<1>2. Cardinality(F) \in Nat /\ n + 1 \in Nat /\ n \in Nat
  BY <1>1, FS_CardinalityType DEF Numbered
<1>3. ASSUME Cardinality(F) <= n PROVE P = S
  <2>1. F = S
    BY <1>2, <1>3, FirstShort
  <2>2. P = F
    BY <1>1, <1>2, <1>3, FirstAll
  <2> QED
    BY <2>1, <2>2
<1>4. ASSUME Cardinality(F) > n
      PROVE  /\ b \in P
             /\ \A x \in P : ~After(x, b, p)
             /\ \A x \in S : After(x, b, p) \/ Entry(x) \in {Entry(y) : y \in P}
  <2>1. F # {}
    BY <1>2, <1>4, FS_EmptySet
  <2>2. P # {}
    BY <1>1, <2>1, FirstNonempty
  <2>3. b \in P /\ \A y \in P \ {b} : Precedes(y, b, p)
    BY <1>1, <2>2, LastKnown DEF Boundary
  <2>4. \A x \in S : Sortable(x)
    BY DEF Numbered
  <2>5. b \in F /\ b \in S
    BY <1>1, <2>3
  <2>6. ASSUME NEW x \in P PROVE ~After(x, b, p)
    <3>1. Sortable(x) /\ Sortable(b)
      BY <1>1, <2>4, <2>5
    <3>2. CASE x = b
      BY <3>1, <3>2, AfterOrder
    <3>3. CASE x # b
      BY <2>3, <3>1, <3>3, AfterOrder DEF Precedes
    <3> QED
      BY <3>2, <3>3
  <2>7. ASSUME NEW x \in S, ~After(x, b, p) PROVE \E y \in P : Entry(x) = Entry(y)
    <3>1. CASE x = b
      BY <2>3, <3>1
    <3>2. CASE Precedes(x, b, p)
      <4>1. x \in F
        BY <1>2, <2>5, <3>2, FirstClosed
      <4>2. x \in P
        BY <1>1, <1>2, <2>3, <3>2, <4>1, FirstClosed
      <4> QED
        BY <4>2
    <3>3. CASE Precedes(b, x, p)
      <4>1. ~After(b, x, p) \/ After(x, b, p)
        BY <2>4, <2>5, <3>3, AfterOrder DEF Precedes
      <4>2. x.record = b.record
        BY <2>4, <2>5, <2>7, <4>1, TiedSameRecord
      <4> QED
        BY <2>3, <2>5, <4>2 DEF Entry
    <3> QED
      BY <2>5, <3>1, <3>2, <3>3, PrecedesOrder
  <2> QED
    BY <2>3, <2>6, <2>7
<1> QED
  BY <1>1, <1>3, <1>4

-----------------------------------------------------------------------------
\* Traversals.

Delivered(t) == UNION {t.pages[i] : i \in DOMAIN t.pages}

\* The pages q of a traversal, read in order.
Orderly(q, p, s) ==
  /\ q \in Seq(SUBSET Entries)
  /\ \A i \in DOMAIN q : \A d \in q[i] : d[1] = s
  /\ \A i, j \in DOMAIN q : i < j =>
       \A d \in q[i], e \in q[j] : After(Place(e), Place(d), p)

Tuples == {SortTuple([record |-> r], p, e) : r \in Records, p \in Plans, e \in Encodings}

CursorType ==
  [plan : Plans, scope : Scopes, size : PageSizes, tuple : Tuples,
   pages : Seq(SUBSET Entries), stable : SUBSET Entries]

\* A cursor marks the place of a record r: what was delivered is not behind
\* it, and what was there all along is delivered or behind it.
ResumesAt(c, r) ==
  /\ \E e \in Encodings : c.tuple = SortTuple([record |-> r], c.plan, e)
  /\ \A d \in Delivered(c) : ~After(Place(d), [record |-> r], c.plan)
  /\ \A d \in c.stable : After(Place(d), [record |-> r], c.plan) \/ d \in Delivered(c)

CursorInv ==
  \A c \in issued :
    /\ c \in CursorType
    /\ Orderly(c.pages, c.plan, c.scope)
    /\ c.stable \subseteq Content(Matching(c.plan, c.scope))
    /\ \E r \in Records : ResumesAt(c, r)

EndedInv ==
  \A t \in ended :
    t.plan \in Plans /\ Orderly(t.pages, t.plan, t.scope) /\ t.stable \subseteq Delivered(t)

IInv == RowInv /\ CursorInv /\ EndedInv

\* What the cursor of a request says of the rows that are selected by it: they
\* are behind all that has been delivered, and none is missing.
LEMMA CursorSelects ==
  ASSUME IInv, NEW p \in Plans, NEW s \in Scopes, NEW n \in PageSizes,
         NEW c \in issued \cup {NoCursor}, Accepts(c, p, s, n), NEW P
  PROVE  LET t == Traversal(p, s, c, P)
             q == IF c = NoCursor THEN << >> ELSE c.pages
         IN  /\ t.pages = Append(q, Content(P))
             /\ Orderly(q, p, s)
             /\ \A i \in DOMAIN q : \A d \in q[i], x \in Selected(p, s, c) : After(x, Place(d), p)
             /\ t.stable \subseteq Content(Matching(p, s))
             /\ \A x \in Matching(p, s) : Entry(x) \in t.stable =>
                  x \in Selected(p, s, c) \/ \E i \in DOMAIN q : Entry(x) \in q[i]
<1>1. CASE c = NoCursor
  <2>1. << >> \in Seq(SUBSET Entries) /\ DOMAIN << >> = {}
    OBVIOUS
  <2>2. Orderly(<< >>, p, s)
    BY <2>1 DEF Orderly
  <2>3. Selected(p, s, c) = Matching(p, s)
    BY <1>1 DEF Selected
  <2> QED
    BY <1>1, <2>1, <2>2, <2>3 DEF Traversal
<1>2. CASE c # NoCursor
  <2>1. c \in issued /\ c.plan = p /\ c.scope = s
    BY <1>2 DEF Accepts
  <2>2. /\ c \in CursorType /\ Orderly(c.pages, p, s)
        /\ c.stable \subseteq Content(Matching(p, s))
    BY <2>1 DEF IInv, CursorInv
  <2>3. PICK r \in Records : ResumesAt(c, r)
    BY <2>1 DEF IInv, CursorInv
  <2>4. PICK e \in Encodings : c.tuple = SortTuple([record |-> r], p, e)
    BY <2>1, <2>3 DEF ResumesAt
  <2>5. \A x : Keyset(x, p, c.tuple) <=> After(x, [record |-> r], p)
    BY <2>4, KeysetIsAfter
  <2>6. Sortable([record |-> r]) /\ \A x \in Matching(p, s) : Sortable(x)
    BY MatchingKnown DEF IInv, Sortable
  <2>7. ASSUME NEW i \in DOMAIN c.pages, NEW d \in c.pages[i], NEW x \in Selected(p, s, c)
        PROVE  After(x, Place(d), p)
    <3>1. x \in Matching(p, s) /\ After(x, [record |-> r], p)
      BY <1>2, <2>5 DEF Selected
    <3>2. ~After(Place(d), [record |-> r], p)
      BY <2>1, <2>3 DEF ResumesAt, Delivered
    <3>3. d \in Entries
      BY <2>2, LenProperties, ElementOfSeq DEF Orderly
    <3>4. Sortable(Place(d))
      BY <3>3 DEF Entries, Place, Sortable
    <3> QED
      BY <2>6, <3>1, <3>2, <3>4, AfterOrder
  <2>8. ASSUME NEW x \in Matching(p, s), Entry(x) \in c.stable
        PROVE  x \in Selected(p, s, c) \/ \E i \in DOMAIN c.pages : Entry(x) \in c.pages[i]
    <3>1. After(Place(Entry(x)), [record |-> r], p) \/ Entry(x) \in Delivered(c)
      BY <2>1, <2>3, <2>8 DEF ResumesAt
    <3>2. Place(Entry(x)) = [record |-> x.record] /\ [record |-> r].record = r
      BY DEF Place, Entry
    <3>3. After(Place(Entry(x)), [record |-> r], p) <=> After(x, [record |-> r], p)
      BY <3>2, AfterOfRecords
    <3> QED
      BY <1>2, <2>5, <3>1, <3>3 DEF Selected, Delivered
  <2> QED
    BY <1>2, <2>2, <2>7, <2>8 DEF Traversal
<1> QED
  BY <1>1, <1>2

\* One more page delivers its own records and those of the pages before.
LEMMA DeliveredAppend ==
  ASSUME NEW q \in Seq(SUBSET Entries), NEW D \in SUBSET Entries, NEW t, t.pages = Append(q, D)
  PROVE  /\ t.pages \in Seq(SUBSET Entries) /\ DOMAIN t.pages = 1..(Len(q) + 1) /\ Len(q) \in Nat
         /\ DOMAIN q = 1..Len(q) /\ \A i \in 1..Len(q) : t.pages[i] = q[i]
         /\ t.pages[Len(q) + 1] = D
         /\ \A d : d \in Delivered(t) <=> d \in D \/ \E i \in DOMAIN q : d \in q[i]
<1>1. /\ t.pages \in Seq(SUBSET Entries) /\ Len(t.pages) = Len(q) + 1
      /\ \A i \in 1..Len(q) : t.pages[i] = q[i]
      /\ t.pages[Len(q) + 1] = D
  BY AppendProperties
<1>2. Len(q) \in Nat /\ DOMAIN q = 1..Len(q) /\ DOMAIN t.pages = 1..(Len(q) + 1)
  BY <1>1, LenProperties
<1>3. \A i \in 1..(Len(q) + 1) : i \in 1..Len(q) \/ i = Len(q) + 1
  BY <1>2
<1> QED
  BY <1>1, <1>2, <1>3 DEF Delivered

\* A page that lies behind all that was delivered leaves a traversal in order.
LEMMA OrderlyAppend ==
  ASSUME NEW p \in Plans, NEW s \in Scopes, NEW q, Orderly(q, p, s),
         NEW D \in SUBSET Entries, \A d \in D : d[1] = s,
         \A i \in DOMAIN q : \A d \in q[i], e \in D : After(Place(e), Place(d), p)
  PROVE  Orderly(Append(q, D), p, s)
<1> DEFINE t == [pages |-> Append(q, D)]
           u == t.pages
           n == Len(q)
<1>1. /\ u \in Seq(SUBSET Entries) /\ DOMAIN u = 1..(n + 1) /\ n \in Nat /\ DOMAIN q = 1..n
      /\ (\A i \in 1..n : u[i] = q[i]) /\ u[n + 1] = D
  BY DeliveredAppend DEF Orderly
<1>2. \A i \in DOMAIN u : \A d \in u[i] : d[1] = s
  <2>1. \A i \in DOMAIN u : i \in 1..n \/ i = n + 1
    BY <1>1
  <2> QED
    BY <1>1, <2>1 DEF Orderly
<1>3. ASSUME NEW i \in DOMAIN u, NEW j \in DOMAIN u, i < j, NEW d \in u[i], NEW e \in u[j]
      PROVE  After(Place(e), Place(d), p)
  <2>1. i \in 1..n
    BY <1>1, <1>3
  <2>2. CASE j \in 1..n
    BY <1>1, <1>3, <2>1, <2>2 DEF Orderly
  <2>3. CASE j = n + 1
    BY <1>1, <1>3, <2>1, <2>3
  <2> QED
    BY <1>1, <2>2, <2>3
<1> HIDE DEF u
<1>4. Orderly(u, p, s)
  BY <1>1, <1>2, <1>3 DEF Orderly
<1> QED
  BY <1>4 DEF u

\* The traversal and the cursor that a request ends with.
LEMMA FetchKeeps ==
  ASSUME IInv, NEW p \in Plans, NEW s \in Scopes, NEW n \in PageSizes,
         NEW c \in issued \cup {NoCursor}, Accepts(c, p, s, n)
  PROVE  LET F == Fetched(p, s, n, c)
             P == First(n, F, p)
             t == Traversal(p, s, c, P)
             b == Boundary(F, n, p)
         IN  /\ Orderly(t.pages, p, s)
             /\ t.stable \subseteq Content(Matching(p, s))
             /\ ~(Cardinality(F) > n) => t.stable \subseteq Delivered(t)
             /\ Cardinality(F) > n => \A e \in Encodings :
                  /\ b.record \in Records
                  /\ ResumesAt(Cursor(t, n, SortTuple(b, p, e)), b.record)
<1> DEFINE S == Selected(p, s, c)
           F == Fetched(p, s, n, c)
           P == First(n, F, p)
           t == Traversal(p, s, c, P)
           b == Boundary(F, n, p)
           q == IF c = NoCursor THEN << >> ELSE c.pages
           D == Content(P)
           M == Matching(p, s)
<1>1. /\ Numbered(M) /\ Content(M) = {Entry(x) : x \in M}
      /\ \A x \in M : x.scope = s /\ Sortable(x) /\ Entry(x) \in Entries
  BY MatchingKnown DEF IInv
<1>2. S \in SUBSET M
  BY DEF Selected
<1>3. Numbered(S) /\ \A x, y \in S : x.scope = y.scope
  BY <1>1, <1>2, SubsetNumbered
<1>4. n \in Nat \ {0} /\ n \in Nat
  BY PaginationAssumption
<1>5. F = First(n + 1, S, p)
  BY DEF Fetched
<1>6. /\ P \in SUBSET S
      /\ Cardinality(F) <= n => P = S
      /\ Cardinality(F) > n =>
           /\ b \in P
           /\ \A x \in P : ~After(x, b, p)
           /\ \A x \in S : After(x, b, p) \/ Entry(x) \in {Entry(y) : y \in P}
  <2> HIDE DEF S
  <2> QED
    BY <1>3, <1>4, <1>5, PageKnown
<1>7. /\ t.pages = Append(q, D) /\ Orderly(q, p, s)
      /\ \A i \in DOMAIN q : \A d \in q[i], x \in S : After(x, Place(d), p)
      /\ t.stable \subseteq Content(M)
      /\ \A x \in M : Entry(x) \in t.stable => x \in S \/ \E i \in DOMAIN q : Entry(x) \in q[i]
  <2> HIDE DEF P
  <2> QED
    BY CursorSelects
<1>8. t.plan = p
  BY DEF Traversal
<1> HIDE DEF S, F, P, t, b, q, M
<1>9. D = {Entry(x) : x \in P}
  BY DEF Content, Entry
<1> HIDE DEF D
<1>10. D \in SUBSET Entries /\ \A d \in D : d[1] = s
  BY <1>1, <1>2, <1>6, <1>9 DEF Entry
<1>11. \A x \in M : Sortable(Place(Entry(x)))
  BY <1>1 DEF Place, Entry, Sortable
<1>12. \A x, y : After(Place(Entry(x)), y, p) <=> After(x, y, p)
  <2> SUFFICES ASSUME NEW x, NEW y PROVE After(Place(Entry(x)), y, p) <=> After(x, y, p)
    OBVIOUS
  <2> DEFINE z == Place(Entry(x))
  <2>1. z.record = x.record
    BY DEF Place, Entry
  <2> HIDE DEF z
  <2>2. After(x, y, p) <=> After([record |-> x.record], [record |-> y.record], p)
    BY AfterOfRecords
  <2>3. After(z, y, p) <=> After([record |-> z.record], [record |-> y.record], p)
    BY AfterOfRecords
  <2>4. After(z, y, p) <=> After(x, y, p)
    BY <2>1, <2>2, <2>3
  <2> QED
    BY <2>4 DEF z
<1>13. ASSUME NEW i \in DOMAIN q, NEW d \in q[i], NEW e \in D PROVE After(Place(e), Place(d), p)
  <2>1. PICK x \in P : e = Entry(x)
    BY <1>9
  <2>2. After(x, Place(d), p)
    BY <1>6, <1>7
  <2> QED
    BY <1>12, <2>1, <2>2
<1>14. Orderly(t.pages, p, s)
  BY <1>7, <1>10, <1>13, OrderlyAppend
<1>15. \A d : d \in Delivered(t) <=> d \in D \/ \E i \in DOMAIN q : d \in q[i]
  <2>1. q \in Seq(SUBSET Entries)
    BY <1>7 DEF Orderly
  <2>2. t.pages = Append(q, D)
    BY <1>7
  <2>3. D \in SUBSET Entries
    BY <1>10
  <2> QED
    BY <2>1, <2>2, <2>3, DeliveredAppend
<1>16. ASSUME ~(Cardinality(F) > n), NEW d \in t.stable PROVE d \in Delivered(t)
  <2>1. P = S
    <3>1. IsFiniteSet(F)
      BY <1>3, <1>5, FirstKnown, SubsetNumbered DEF Numbered
    <3>2. Cardinality(F) <= n
      BY <1>4, <1>16, <3>1, FS_CardinalityType
    <3> QED
      BY <1>6, <3>2
  <2>2. PICK x \in M : d = Entry(x)
    BY <1>1, <1>7
  <2> QED
    BY <1>7, <1>9, <1>15, <2>1, <2>2
<1>17. ASSUME Cardinality(F) > n, NEW e \in Encodings
       PROVE  b.record \in Records /\ ResumesAt(Cursor(t, n, SortTuple(b, p, e)), b.record)
  <2> DEFINE k == Cursor(t, n, SortTuple(b, p, e))
             r == [record |-> b.record]
  <2>1. /\ k.plan = p /\ k.pages = t.pages /\ k.stable = t.stable /\ k.tuple = SortTuple(b, p, e)
    BY <1>8 DEF Cursor
  <2>2. b \in P /\ b \in S /\ b \in M /\ Sortable(b)
    BY <1>1, <1>2, <1>6, <1>17
  <2>3. Delivered(k) = Delivered(t)
    BY <2>1 DEF Delivered
  <2>4. k.tuple = SortTuple(r, p, e)
    BY <2>1, TupleOfRecord
  <2>5. \A x : After(x, r, p) <=> After(x, b, p)
    <3>1. \A x : /\ After(x, r, p) <=> After([record |-> x.record], [record |-> r.record], p)
                 /\ After(x, b, p) <=> After([record |-> x.record], [record |-> b.record], p)
      BY AfterOfRecords
    <3> QED
      BY <3>1
  <2> HIDE DEF k, r
  <2>6. ASSUME NEW d \in Delivered(t) PROVE ~After(Place(d), b, p)
    <3>1. CASE d \in D
      <4>1. PICK x \in P : d = Entry(x)
        BY <1>9, <3>1
      <4> QED
        BY <1>6, <1>12, <1>17, <4>1
    <3>2. ASSUME NEW i \in DOMAIN q, d \in q[i] PROVE ~After(Place(d), b, p)
      <4>1. After(b, Place(d), p)
        BY <1>7, <2>2, <3>2
      <4>2. d \in Entries
        BY <1>7, <3>2, LenProperties, ElementOfSeq DEF Orderly
      <4>3. Sortable(Place(d))
        BY <4>2 DEF Entries, Place, Sortable
      <4> QED
        BY <2>2, <4>1, <4>3, AfterOrder
    <3> QED
      BY <1>15, <3>1, <3>2
  <2>7. ASSUME NEW d \in t.stable PROVE After(Place(d), b, p) \/ d \in Delivered(t)
    <3>1. PICK x \in M : d = Entry(x)
      BY <1>1, <1>7
    <3>2. CASE x \in S
      <4>1. After(x, b, p) \/ Entry(x) \in D
        BY <1>6, <1>9, <1>17, <3>2
      <4> QED
        BY <1>12, <1>15, <3>1, <4>1
    <3>3. CASE x \notin S
      BY <1>7, <1>15, <3>1, <3>3
    <3> QED
      BY <3>2, <3>3
  <2>8. ResumesAt(k, b.record)
    BY <2>1, <2>3, <2>4, <2>5, <2>6, <2>7 DEF ResumesAt, r
  <2> QED
    BY <2>2, <2>8 DEF k, Sortable
<1> QED
  BY <1>7, <1>14, <1>16, <1>17 DEF F, P, t, b, M

-----------------------------------------------------------------------------
\* Steps.

\* A request for a page keeps the invariant.
LEMMA FetchStep ==
  ASSUME IInv, NEW p \in Plans, NEW s \in Scopes, NEW n \in PageSizes,
         NEW c \in issued \cup {NoCursor}, Fetch(p, s, n, c)
  PROVE  IInv'
<1> DEFINE F == Fetched(p, s, n, c)
           P == First(n, F, p)
           t == Traversal(p, s, c, P)
           b == Boundary(F, n, p)
<1>1. Accepts(c, p, s, n) /\ UNCHANGED <<rows, inserted>>
  BY DEF Fetch, table
<1>2. /\ Orderly(t.pages, p, s)
      /\ t.stable \subseteq Content(Matching(p, s))
      /\ ~(Cardinality(F) > n) => t.stable \subseteq Delivered(t)
      /\ Cardinality(F) > n => \A e \in Encodings :
           /\ b.record \in Records
           /\ ResumesAt(Cursor(t, n, SortTuple(b, p, e)), b.record)
  BY <1>1, FetchKeeps
<1>3. t.plan = p /\ t.scope = s
  BY DEF Traversal
<1>4. IF Cardinality(F) > n
        THEN /\ \E e \in Encodings : issued' = issued \cup {Cursor(t, n, SortTuple(b, p, e))}
             /\ UNCHANGED ended
        ELSE ended' = ended \cup {t} /\ UNCHANGED issued
  BY DEF Fetch
<1> HIDE DEF F, P, t, b
<1>5. \A q, z : Content(Matching(q, z)') = Content(Matching(q, z))
  BY <1>1 DEF Matching, Read
<1>6. RowInv'
  BY <1>1 DEF IInv, RowInv
<1>7. ASSUME Cardinality(F) > n, NEW e \in Encodings
      PROVE  LET k == Cursor(t, n, SortTuple(b, p, e)) IN
             /\ k \in CursorType /\ Orderly(k.pages, k.plan, k.scope)
             /\ k.stable \subseteq Content(Matching(k.plan, k.scope))
             /\ \E r \in Records : ResumesAt(k, r)
  <2> DEFINE k == Cursor(t, n, SortTuple(b, p, e))
  <2>1. /\ k = [plan |-> p, scope |-> s, size |-> n, tuple |-> SortTuple(b, p, e),
                pages |-> t.pages, stable |-> t.stable]
    BY <1>3 DEF Cursor
  <2>2. SortTuple(b, p, e) = SortTuple([record |-> b.record], p, e)
    BY TupleOfRecord
  <2>3. SortTuple(b, p, e) \in Tuples
    BY <1>2, <1>7, <2>2 DEF Tuples
  <2>4. Content(Matching(p, s)) \subseteq Entries
    BY MatchingKnown DEF IInv
  <2>5. t.pages \in Seq(SUBSET Entries)
    BY <1>2 DEF Orderly
  <2>6. k \in CursorType
    BY <1>2, <2>1, <2>3, <2>4, <2>5 DEF CursorType
  <2>7. ResumesAt(k, b.record) /\ b.record \in Records
    BY <1>2, <1>7
  <2>8. k.pages = t.pages /\ k.plan = p /\ k.scope = s /\ k.stable = t.stable
    BY <2>1
  <2> HIDE DEF k
  <2> QED
    BY <1>2, <2>6, <2>7, <2>8 DEF k
<1>8. CursorInv'
  <2> SUFFICES ASSUME NEW k \in issued'
               PROVE  /\ k \in CursorType /\ Orderly(k.pages, k.plan, k.scope)
                      /\ k.stable \subseteq Content(Matching(k.plan, k.scope))
                      /\ \E r \in Records : ResumesAt(k, r)
    BY <1>5 DEF CursorInv, Content
  <2>1. CASE k \in issued
    BY <2>1 DEF IInv, CursorInv
  <2>2. CASE k \notin issued
    <3>1. Cardinality(F) > n /\ \E e \in Encodings : k = Cursor(t, n, SortTuple(b, p, e))
      BY <1>4, <2>2
    <3> QED
      BY <1>7, <3>1
  <2> QED
    BY <2>1, <2>2
<1>9. EndedInv'
  <2> SUFFICES ASSUME NEW u \in ended'
               PROVE  /\ u.plan \in Plans /\ Orderly(u.pages, u.plan, u.scope)
                      /\ u.stable \subseteq Delivered(u)
    BY DEF EndedInv
  <2> QED
    BY <1>2, <1>3, <1>4 DEF IInv, EndedInv
<1> QED
  BY <1>6, <1>8, <1>9 DEF IInv

\* A change of the table between pages keeps it.
LEMMA TableKeeps ==
  ASSUME IInv, TableStep
  PROVE  IInv'
<1>1. RowInv'
  <2>1. ASSUME NEW s \in Scopes, NEW r \in Records, NEW v \in Versions, Insert(s, r, v)
        PROVE  RowInv'
    <3> DEFINE x == [scope |-> s, record |-> r, ingested |-> v, block |-> inserted + 1, pos |-> 1]
    <3>1. rows' = rows \cup {x} /\ inserted' = inserted + 1
      BY <2>1 DEF Insert
    <3>2. IsFiniteSet(rows')
      BY <3>1, FS_AddElement DEF IInv, RowInv, Numbered
    <3>3. \A y \in rows : y.block < x.block
      BY DEF IInv, RowInv, Numbered
    <3>4. x.scope = s /\ x.record = r /\ x.block = inserted + 1 /\ x.block \in Nat
      BY DEF IInv, RowInv
    <3> HIDE DEF x
    <3> QED
      BY <3>1, <3>2, <3>3, <3>4 DEF IInv, RowInv, Numbered, Sortable
  <2>2. ASSUME rows' \in SUBSET rows, UNCHANGED inserted PROVE RowInv'
    BY <2>2, SubsetNumbered DEF IInv, RowInv
  <2> QED
    BY <2>1, <2>2 DEF TableStep, Merge, Purge
<1>2. ASSUME NEW k \in issued'
      PROVE  /\ k \in CursorType /\ Orderly(k.pages, k.plan, k.scope)
             /\ k.stable \subseteq Content(Matching(k.plan, k.scope)')
             /\ \E r \in Records : ResumesAt(k, r)
  <2>1. PICK c \in issued : k = Remaining(c)
    BY DEF TableStep
  <2>2. /\ c \in CursorType /\ Orderly(c.pages, c.plan, c.scope)
        /\ \E r \in Records : ResumesAt(c, r)
    BY DEF IInv, CursorInv
  <2> DEFINE M == Content(Matching(c.plan, c.scope)')
  <2>3. k = [c EXCEPT !.stable = c.stable \cap M]
    BY <2>1 DEF Remaining
  <2> HIDE DEF M
  <2>4. /\ k \in CursorType /\ k.plan = c.plan /\ k.scope = c.scope /\ k.tuple = c.tuple
        /\ k.pages = c.pages /\ k.stable = c.stable \cap M
    BY <2>2, <2>3 DEF CursorType
  <2>5. Delivered(k) = Delivered(c)
    BY <2>4 DEF Delivered
  <2>6. \E r \in Records : ResumesAt(k, r)
    BY <2>2, <2>4, <2>5 DEF ResumesAt
  <2> QED
    BY <2>2, <2>4, <2>6 DEF M
<1>3. CursorInv'
  BY <1>2 DEF CursorInv, Content
<1>4. EndedInv'
  BY DEF TableStep, IInv, EndedInv
<1> QED
  BY <1>1, <1>3, <1>4 DEF IInv

\* Every cursor in a reader's hand marks a place in the order of its plan: what
\* was delivered lies before it, and what must still come lies behind it.
THEOREM Invariance == Spec => []IInv
<1>1. Init => IInv
  BY FS_EmptySet DEF Init, IInv, RowInv, Numbered, CursorInv, EndedInv
<1>2. IInv /\ [Next]_vars => IInv'
  <2> SUFFICES ASSUME IInv, [Next]_vars PROVE IInv'
    OBVIOUS
  <2>1. CASE UNCHANGED vars
    <3>1. UNCHANGED <<rows, inserted, issued, ended>>
      BY <2>1 DEF vars, table
    <3>2. \A p, s : Content(Matching(p, s)') = Content(Matching(p, s))
      BY <3>1 DEF Matching, Read
    <3> QED
      BY <3>1, <3>2 DEF IInv, RowInv, CursorInv, EndedInv, Content
  <2> QED
    BY <2>1, FetchStep, TableKeeps DEF Next
<1> QED
  BY <1>1, <1>2, PTL DEF Spec

\* Rows of a later page sort behind those of earlier ones, for every plan, every
\* way the table changes and whichever cursors are resent (_SQLCompiler.keyset,
\* ClickHouseQueryTranslator.normalize_result).
THEOREM PagesInOrder == Spec => []PagesAdvance
<1>1. IInv => PagesAdvance
  BY DEF IInv, CursorInv, EndedInv, Orderly, PagesAdvance, Traversals, Place
<1> QED
  BY <1>1, Invariance, PTL

\* A traversal that was read to its end has delivered whatever was visible all
\* along (_record_sql fetches one row more than a page holds).
THEOREM NothingSkipped == Spec => []TraversalComplete
<1>1. IInv => TraversalComplete
  BY DEF IInv, EndedInv, Delivered, TraversalComplete
<1> QED
  BY <1>1, Invariance, PTL

\* No record is on two pages of one traversal.
LEMMA PagesApart ==
  ASSUME IInv, NEW t \in Traversals, NEW i \in DOMAIN t.pages, NEW j \in DOMAIN t.pages, i < j
  PROVE  t.pages[i] \cap t.pages[j] = {}
<1> SUFFICES ASSUME NEW d \in t.pages[i], d \in t.pages[j] PROVE FALSE
  OBVIOUS
<1>1. t.plan \in Plans /\ Orderly(t.pages, t.plan, t.scope)
  BY DEF IInv, CursorInv, EndedInv, CursorType, Traversals
<1>2. d \in Entries
  BY <1>1, ElementOfSeq DEF Orderly
<1>3. Sortable(Place(d))
  BY <1>2 DEF Entries, Place, Sortable
<1>4. After(Place(d), Place(d), t.plan)
  BY <1>1 DEF Orderly
<1> QED
  BY <1>1, <1>3, <1>4, AfterOrder

\* A traversal that was read to its end has shown a record that was visible all
\* along on one page and on no other, whatever happened to the table meanwhile.
THEOREM EachRecordOnce ==
  Spec => [](\A t \in ended : \A d \in t.stable :
               \E i \in DOMAIN t.pages : /\ d \in t.pages[i]
                                        /\ \A j \in DOMAIN t.pages : d \in t.pages[j] => j = i)
<1>1. ASSUME IInv, NEW t \in ended, NEW d \in t.stable
      PROVE  \E i \in DOMAIN t.pages : /\ d \in t.pages[i]
                                      /\ \A j \in DOMAIN t.pages : d \in t.pages[j] => j = i
  <2>1. PICK i \in DOMAIN t.pages : d \in t.pages[i]
    BY <1>1 DEF IInv, EndedInv, Delivered
  <2>2. DOMAIN t.pages \subseteq Nat
    <3>1. t.pages \in Seq(SUBSET Entries)
      BY <1>1 DEF IInv, EndedInv, Orderly
    <3> QED
      BY <3>1, LenProperties
  <2>3. ASSUME NEW j \in DOMAIN t.pages, d \in t.pages[j], j # i PROVE FALSE
    <3>1. t \in Traversals
      BY DEF Traversals
    <3>2. i < j \/ j < i
      BY <2>2, <2>3
    <3>3. t.pages[i] \cap t.pages[j] = {} \/ t.pages[j] \cap t.pages[i] = {}
      BY <1>1, <3>1, <3>2, PagesApart
    <3> QED
      BY <2>1, <2>3, <3>3
  <2> QED
    BY <2>1, <2>3
<1>2. IInv => \A t \in ended : \A d \in t.stable :
                 \E i \in DOMAIN t.pages : /\ d \in t.pages[i]
                                          /\ \A j \in DOMAIN t.pages : d \in t.pages[j] => j = i
  BY <1>1
<1> QED
  BY <1>2, Invariance, PTL

\* No traversal leaves the scope it began in (CursorSigner.verify and the scope
\* predicate of every query).
THEOREM ScopesKept == Spec => []ScopeKept
<1>1. ASSUME IInv PROVE ScopeKept
  <2> SUFFICES ASSUME NEW t \in Traversals, NEW i \in DOMAIN t.pages, NEW d \in t.pages[i]
               PROVE  d[1] = t.scope /\ (i > 1 => \A e \in t.pages[1] : e[1] = d[1])
    BY DEF ScopeKept
  <2>1. Orderly(t.pages, t.plan, t.scope)
    BY <1>1 DEF IInv, CursorInv, EndedInv, Traversals
  <2>2. i > 1 => 1 \in DOMAIN t.pages
    BY <2>1, LenProperties DEF Orderly
  <2> QED
    BY <2>1, <2>2 DEF Orderly
<1> QED
  BY <1>1, Invariance, PTL

=============================================================================
