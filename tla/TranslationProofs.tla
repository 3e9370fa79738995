-------------------------- MODULE TranslationProofs --------------------------
(***************************************************************************)
(* Whatever is translated - every filter, value, Schema and Binding, of    *)
(* any size - becomes what it says.                                        *)
(***************************************************************************)
EXTENDS Translation, ValuesProofs

-----------------------------------------------------------------------------
\* What the recursive operators of QueryBounds are, in terms of the arguments
\* of an expression.

\* What FiltersAssumption says of one expression.
LEMMA FilterShape ==
  ASSUME NEW e \in Filters
  PROVE  /\ e.kind \in {"range", "other", "not", "and", "or"}
         /\ e.start \in Maybe /\ e.end \in Maybe
         /\ e.args \in Seq(Filters)
         /\ \A i \in DOMAIN e.args : e.args[i] \in Filters /\ Height[e.args[i]] < Height[e]
         /\ e.kind = "not" => DOMAIN e.args = {1}
         /\ e.kind \in {"and", "or"} => DOMAIN e.args = {1, 2}
<1>1. /\ e.kind \in {"range", "other", "not", "and", "or"}
      /\ {e.start, e.end} \subseteq Maybe
      /\ e.args \in Seq(Filters)
      /\ Len(e.args) = CASE e.kind = "not" -> 1 [] e.kind \in {"and", "or"} -> 2 [] OTHER -> 0
      /\ \A i \in DOMAIN e.args : Height[e.args[i]] < Height[e]
  BY FiltersAssumption
<1>2. e.kind = "not" => Len(e.args) = 1
  BY <1>1
<1>3. e.kind \in {"and", "or"} => Len(e.args) = 2
  BY <1>1
<1>4. e.args \in Seq(Filters)
  BY <1>1
<1>5. DOMAIN e.args = 1..Len(e.args) /\ \A i \in DOMAIN e.args : e.args[i] \in Filters
  BY <1>4
<1>6. e.kind = "not" => DOMAIN e.args = {1}
  <2>1. 1..1 = {1}
    OBVIOUS
  <2> QED
    BY <1>2, <1>5, <2>1, Zenon
<1>7. e.kind \in {"and", "or"} => DOMAIN e.args = {1, 2}
  <2>1. 1..2 = {1, 2}
    OBVIOUS
  <2> QED
    BY <1>3, <1>5, <2>1, Zenon
<1>8. /\ e.kind \in {"range", "other", "not", "and", "or"}
      /\ e.start \in Maybe /\ e.end \in Maybe
  BY <1>1
<1>9. \A i \in DOMAIN e.args : e.args[i] \in Filters /\ Height[e.args[i]] < Height[e]
  BY <1>1, <1>5
<1> QED
  BY <1>4, <1>6, <1>7, <1>8, <1>9, Zenon

\* The ranges of an expression, when f gives those of its arguments.
RangesStep(f, e) ==
  IF e.kind = "range" /\ e.start # Null /\ e.end # Null THEN << <<e.start, e.end>> >>
  ELSE IF e.kind \in {"and", "or"} THEN f[e.args[1]] \o f[e.args[2]]
  ELSE << >>

\* A pair of ends, open ones among them.
Spans == Maybe \X Maybe

\* The function that TimestampRanges defines.
AllRanges == [e \in Filters |-> TimestampRanges(e)]

\* TimestampRanges, defined by recursion on expressions, exists and obeys its equation.
LEMMA RangesKnown ==
  /\ AllRanges \in [Filters -> Seq(Spans)]
  /\ \A e \in Filters : AllRanges[e] = RangesStep(AllRanges, e)
<1> DEFINE V == Seq(Spans)
           F == [f \in [Filters -> V] |-> [e \in Filters |-> RangesStep(f, e)]]
           ranges[e \in Filters] ==
        IF e.kind = "range" /\ e.start # Null /\ e.end # Null THEN << <<e.start, e.end>> >>
        ELSE IF e.kind \in {"and", "or"} THEN ranges[e.args[1]] \o ranges[e.args[2]]
        ELSE << >>
<1>1. \A e \in Filters : TimestampRanges(e) = ranges[e]
  BY DEF TimestampRanges
<1>2. \A f \in [Filters -> V], e \in Filters : RangesStep(f, e) \in V
  <2> SUFFICES ASSUME NEW f \in [Filters -> V], NEW e \in Filters PROVE RangesStep(f, e) \in V
    OBVIOUS
  <2>1. CASE e.kind \in {"and", "or"}
    <3>1. f[e.args[1]] \in V /\ f[e.args[2]] \in V
      BY <2>1, FilterShape
    <3> QED
      BY <2>1, <3>1 DEF RangesStep
  <2>2. CASE e.kind = "range" /\ e.start # Null /\ e.end # Null
    BY <2>2, FilterShape DEF RangesStep, Spans
  <2>3. CASE ~ (e.kind = "range" /\ e.start # Null /\ e.end # Null) /\ e.kind \notin {"and", "or"}
    BY <2>3 DEF RangesStep
  <2> QED
    BY <2>1, <2>2, <2>3
<1>3. \A f, g \in [Filters -> V] : \A e \in Filters :
        (\A x \in Filters : Height[x] < Height[e] => f[x] = g[x]) => F[f][e] = F[g][e]
  BY FilterShape DEF RangesStep
<1>4. \E f \in [Filters -> V] : f = F[f]
  <2>1. F \in [[Filters -> V] -> [Filters -> V]]
    BY <1>2
  <2>2. V # {}
    <3>1. << >> \in V
      OBVIOUS
    <3> QED
      BY <3>1
  <2>3. Height \in [Filters -> Nat]
    BY FiltersAssumption
  <2> HIDE DEF F, V
  <2>4. Contracts(Filters, V, Height, F)
    BY <1>3, <2>1, <2>2, <2>3, Zenon DEF Contracts
  <2>5. Solvable(Filters, V, F)
    BY <2>4, FixedPoint
  <2> QED
    BY <2>5 DEF Solvable
<1>5. \E f : f = [e \in Filters |->
        IF e.kind = "range" /\ e.start # Null /\ e.end # Null THEN << <<e.start, e.end>> >>
        ELSE IF e.kind \in {"and", "or"} THEN f[e.args[1]] \o f[e.args[2]]
        ELSE << >>]
  BY <1>4 DEF RangesStep
<1>6. ranges = [e \in Filters |->
        IF e.kind = "range" /\ e.start # Null /\ e.end # Null THEN << <<e.start, e.end>> >>
        ELSE IF e.kind \in {"and", "or"} THEN ranges[e.args[1]] \o ranges[e.args[2]]
        ELSE << >>]
  BY <1>5, Zenon
<1> HIDE DEF ranges
<1>7. \A e \in Filters : ranges[e] = RangesStep(ranges, e)
  BY <1>6, Zenon DEF RangesStep
<1> DEFINE P == {e \in Filters : ranges[e] \in V}
<1>8. ASSUME NEW e \in Filters, \A y \in Filters : Height[y] < Height[e] => y \in P
      PROVE  e \in P
  <2>1. ASSUME e.kind \in {"and", "or"} PROVE ranges[e] \in V
    <3>1. ranges[e.args[1]] \in V /\ ranges[e.args[2]] \in V
      BY <1>8, <2>1, FilterShape
    <3>2. ranges[e] = ranges[e.args[1]] \o ranges[e.args[2]]
      BY <2>1, <1>7 DEF RangesStep
    <3> QED
      BY <3>1, <3>2
  <2>2. ASSUME e.kind = "range", e.start # Null, e.end # Null PROVE ranges[e] \in V
    <3>1. ranges[e] = << <<e.start, e.end>> >>
      BY <2>2, <1>7 DEF RangesStep
    <3> QED
      BY <3>1, FilterShape DEF Spans
  <2>3. ASSUME ~ (e.kind = "range" /\ e.start # Null /\ e.end # Null), e.kind \notin {"and", "or"}
        PROVE  ranges[e] \in V
    <3>1. ranges[e] = << >>
      BY <2>3, <1>7 DEF RangesStep
    <3> QED
      BY <3>1
  <2> QED
    BY <2>1, <2>2, <2>3
<1>9. P \in SUBSET Filters /\ Height \in [Filters -> Nat]
  BY FiltersAssumption
<1>10. P = Filters
  <2> HIDE DEF P, F, V
  <2> QED
    BY <1>8, <1>9, RankInduction
<1>11. AllRanges = ranges
  BY <1>1, <1>6 DEF AllRanges
<1> QED
  BY <1>6, <1>7, <1>10, <1>11

\* Whether there is an OR, when f says so of the arguments.
DisjunctiveStep(f, e) == e.kind = "or" \/ \E i \in DOMAIN e.args : f[e.args[i]]

\* So does Disjunctive.
LEMMA DisjunctiveKnown ==
  ASSUME NEW e \in Filters
  PROVE  Disjunctive(e) <=> e.kind = "or" \/ \E i \in DOMAIN e.args : Disjunctive(e.args[i])
<1> DEFINE F == [f \in [Filters -> BOOLEAN] |-> [x \in Filters |-> DisjunctiveStep(f, x)]]
           disjunctive[x \in Filters] ==
             x.kind = "or" \/ \E i \in DOMAIN x.args : disjunctive[x.args[i]]
<1>1. \A x \in Filters : Disjunctive(x) <=> disjunctive[x]
  BY DEF Disjunctive
<1>2. \E f \in [Filters -> BOOLEAN] : f = F[f]
  <2>1. F \in [[Filters -> BOOLEAN] -> [Filters -> BOOLEAN]]
    BY DEF DisjunctiveStep
  <2>2. \A f, g \in [Filters -> BOOLEAN] : \A x \in Filters :
          (\A y \in Filters : Height[y] < Height[x] => f[y] = g[y]) => F[f][x] = F[g][x]
    BY FilterShape DEF DisjunctiveStep
  <2> HIDE DEF F
  <2>3. Contracts(Filters, BOOLEAN, Height, F)
    BY <2>1, <2>2, FiltersAssumption DEF Contracts
  <2>4. Solvable(Filters, BOOLEAN, F)
    BY <2>3, FixedPoint
  <2> QED
    BY <2>4 DEF Solvable
<1>3. \E f \in [Filters -> BOOLEAN] :
        f = [x \in Filters |-> x.kind = "or" \/ \E i \in DOMAIN x.args : f[x.args[i]]]
  BY <1>2 DEF DisjunctiveStep
<1>4. disjunctive =
        [x \in Filters |-> x.kind = "or" \/ \E i \in DOMAIN x.args : disjunctive[x.args[i]]]
  BY <1>3
<1> HIDE DEF disjunctive
<1>5. disjunctive[e] <=> e.kind = "or" \/ \E i \in DOMAIN e.args : disjunctive[e.args[i]]
  BY <1>4
<1> QED
  BY <1>1, <1>5, FilterShape

\* Whether an expression holds at t, when f says so of its arguments.
HoldsStep(f, e, t, o) ==
  CASE e.kind = "range" -> (e.start # Null => t >= e.start) /\ (e.end # Null => t <= e.end)
    [] e.kind = "other" -> o
    [] e.kind = "not"   -> ~f[e.args[1]]
    [] e.kind = "and"   -> f[e.args[1]] /\ f[e.args[2]]
    [] e.kind = "or"    -> f[e.args[1]] \/ f[e.args[2]]

\* Only what the bounds need: how ranges and conjunctions are read.
LEMMA HoldsKnown ==
  ASSUME NEW e \in Filters, NEW t \in Instants, NEW o \in BOOLEAN, Holds(e, t, o)
  PROVE  /\ e.kind = "range" /\ e.start # Null => t >= e.start
         /\ e.kind = "range" /\ e.end # Null => t <= e.end
         /\ e.kind = "and" => Holds(e.args[1], t, o) /\ Holds(e.args[2], t, o)
<1> DEFINE F == [f \in [Filters -> BOOLEAN] |-> [x \in Filters |-> HoldsStep(f, x, t, o)]]
           holds[x \in Filters] ==
             CASE x.kind = "range" -> (x.start # Null => t >= x.start) /\ (x.end # Null => t <= x.end)
               [] x.kind = "other" -> o
               [] x.kind = "not"   -> ~holds[x.args[1]]
               [] x.kind = "and"   -> holds[x.args[1]] /\ holds[x.args[2]]
               [] x.kind = "or"    -> holds[x.args[1]] \/ holds[x.args[2]]
<1>1. \A x \in Filters : Holds(x, t, o) <=> holds[x]
  BY DEF Holds
<1>2. \E f \in [Filters -> BOOLEAN] : f = F[f]
  <2>1. \A f \in [Filters -> BOOLEAN], x \in Filters : HoldsStep(f, x, t, o) \in BOOLEAN
    <3> SUFFICES ASSUME NEW f \in [Filters -> BOOLEAN], NEW x \in Filters
                 PROVE  HoldsStep(f, x, t, o) \in BOOLEAN
      OBVIOUS
    <3>1. x.kind = "not" => f[x.args[1]] \in BOOLEAN
      BY FilterShape
    <3>2. x.kind \in {"and", "or"} => f[x.args[1]] \in BOOLEAN /\ f[x.args[2]] \in BOOLEAN
      BY FilterShape
    <3> QED
      BY <3>1, <3>2, FilterShape DEF HoldsStep
  <2>2. F \in [[Filters -> BOOLEAN] -> [Filters -> BOOLEAN]]
    BY <2>1
  <2>3. ASSUME NEW f \in [Filters -> BOOLEAN], NEW g \in [Filters -> BOOLEAN], NEW x \in Filters,
               \A y \in Filters : Height[y] < Height[x] => f[y] = g[y]
        PROVE  HoldsStep(f, x, t, o) = HoldsStep(g, x, t, o)
    BY <2>3, FilterShape DEF HoldsStep
  <2>4. \A f, g \in [Filters -> BOOLEAN] : \A x \in Filters :
          (\A y \in Filters : Height[y] < Height[x] => f[y] = g[y]) => F[f][x] = F[g][x]
    BY <2>3
  <2> HIDE DEF F
  <2>5. Contracts(Filters, BOOLEAN, Height, F)
    BY <2>2, <2>4, FiltersAssumption DEF Contracts
  <2>6. Solvable(Filters, BOOLEAN, F)
    BY <2>5, FixedPoint
  <2> QED
    BY <2>6 DEF Solvable
<1>3. PICK f \in [Filters -> BOOLEAN] : f = [x \in Filters |-> HoldsStep(f, x, t, o)]
  BY <1>2
<1>4. holds = [x \in Filters |->
             CASE x.kind = "range" -> (x.start # Null => t >= x.start) /\ (x.end # Null => t <= x.end)
               [] x.kind = "other" -> o
               [] x.kind = "not"   -> ~holds[x.args[1]]
               [] x.kind = "and"   -> holds[x.args[1]] /\ holds[x.args[2]]
               [] x.kind = "or"    -> holds[x.args[1]] \/ holds[x.args[2]]]
  BY <1>3 DEF HoldsStep
<1> HIDE DEF holds
<1>5. holds[e]
  BY <1>1
<1>6. /\ e.kind = "range" => holds[e] = ((e.start # Null => t >= e.start) /\ (e.end # Null => t <= e.end))
      /\ e.kind = "and" => holds[e] = (holds[e.args[1]] /\ holds[e.args[2]])
  BY <1>4
<1> QED
  BY <1>1, <1>5, <1>6, FilterShape

-----------------------------------------------------------------------------
\* Scans.

\* An element of a concatenation is one of its parts.
LEMMA ConcatElement ==
  ASSUME NEW S, NEW p \in Seq(S), NEW q \in Seq(S), NEW c, c = p \o q, NEW i \in DOMAIN c
  PROVE  \/ i \in DOMAIN p /\ c[i] = p[i]
         \/ \E j \in DOMAIN q : c[i] = q[j]
<1>1. Len(p) \in Nat /\ Len(q) \in Nat /\ DOMAIN p = 1..Len(p) /\ DOMAIN q = 1..Len(q)
  OBVIOUS
<1>2. DOMAIN c = 1..(Len(p) + Len(q))
  OBVIOUS
<1>3. CASE i <= Len(p)
  BY <1>1, <1>2, <1>3
<1>4. CASE i > Len(p)
  <2>1. i - Len(p) \in DOMAIN q
    BY <1>1, <1>2, <1>4
  <2>2. c[i] = q[i - Len(p)]
    BY <1>1, <1>2, <1>4
  <2> QED
    BY <2>1, <2>2
<1> QED
  BY <1>1, <1>2, <1>3, <1>4

\* Every range that is collected from an expression without OR bounds it.
LEMMA RangesBound ==
  ASSUME NEW t \in Instants, NEW o \in BOOLEAN, NEW e \in Filters,
         ~ Disjunctive(e), Holds(e, t, o)
  PROVE  \A i \in DOMAIN TimestampRanges(e) :
           TimestampRanges(e)[i][1] <= t /\ t <= TimestampRanges(e)[i][2]
<1> DEFINE Within(r) == \A i \in DOMAIN r : r[i][1] <= t /\ t <= r[i][2]
           r == AllRanges
           P == {x \in Filters : ~ Disjunctive(x) /\ Holds(x, t, o) => Within(r[x])}
<1>1. /\ r \in [Filters -> Seq(Spans)]
      /\ \A x \in Filters : r[x] = RangesStep(r, x)
  BY RangesKnown
<1>2. \A x \in Filters : r[x] = TimestampRanges(x)
  BY DEF AllRanges
<1> HIDE DEF r
<1>3. ASSUME NEW x \in Filters, \A y \in Filters : Height[y] < Height[x] => y \in P
      PROVE  x \in P
  <2>1. SUFFICES ASSUME ~ Disjunctive(x), Holds(x, t, o) PROVE Within(r[x])
    OBVIOUS
  <2>2. CASE x.kind = "range" /\ x.start # Null /\ x.end # Null
    <3>1. r[x] = << <<x.start, x.end>> >>
      BY <1>1, <2>2 DEF RangesStep
    <3>2. x.start <= t /\ t <= x.end
      BY <2>1, <2>2, HoldsKnown, FilterShape DEF Instants, Maybe
    <3> QED
      BY <3>1, <3>2
  <2>3. CASE x.kind = "and"
    <3> DEFINE a == x.args[1]
               b == x.args[2]
    <3>1. a \in Filters /\ b \in Filters /\ Height[a] < Height[x] /\ Height[b] < Height[x]
      BY <2>3, FilterShape
    <3>2. ~ Disjunctive(a) /\ ~ Disjunctive(b)
      BY <2>1, <2>3, DisjunctiveKnown, FilterShape
    <3>3. Holds(a, t, o) /\ Holds(b, t, o)
      BY <2>1, <2>3, HoldsKnown
    <3> HIDE DEF a, b
    <3>4. Within(r[a]) /\ Within(r[b])
      BY <1>3, <3>1, <3>2, <3>3
    <3>5. r[x] = r[a] \o r[b]
      BY <1>1, <2>3 DEF RangesStep, a, b
    <3>6. PICK p \in Seq(Spans), q \in Seq(Spans) : p = r[a] /\ q = r[b]
      BY <1>1, <3>1
    <3>7. PICK c : c = r[x] /\ c = p \o q
      BY <3>5, <3>6
    <3>8. \A i \in DOMAIN c : (i \in DOMAIN p /\ c[i] = p[i]) \/ \E j \in DOMAIN q : c[i] = q[j]
      BY <3>7, ConcatElement
    <3>9. /\ \A i \in DOMAIN p : p[i][1] <= t /\ t <= p[i][2]
          /\ \A i \in DOMAIN q : q[i][1] <= t /\ t <= q[i][2]
      BY <3>4, <3>6
    <3>10. \A i \in DOMAIN c : c[i][1] <= t /\ t <= c[i][2]
      BY <3>8, <3>9
    <3> QED
      BY <3>7, <3>10
  <2>4. CASE x.kind = "or"
    BY <2>1, <2>4, DisjunctiveKnown
  <2>5. CASE ~ (x.kind = "range" /\ x.start # Null /\ x.end # Null) /\ x.kind \notin {"and", "or"}
    <3>1. r[x] = << >>
      BY <1>1, <2>5 DEF RangesStep
    <3> QED
      BY <3>1
  <2> QED
    BY <2>2, <2>3, <2>4, <2>5
<1>4. P \in SUBSET Filters /\ Height \in [Filters -> Nat]
  BY FiltersAssumption
<1>5. P = Filters
  <2> HIDE DEF P
  <2> QED
    BY <1>3, <1>4, RankInduction
<1>6. e \in P
  BY <1>5
<1> QED
  BY <1>2, <1>6

\* The longest span is a number.
LEMMA SpanKnown == MaxSeconds * Second \in Nat
  BY QueryBoundsAssumption

\* An accepted wire plan without OR has a range that confines its rows: NOT counts no
\* range, and the rows of AND satisfy either argument.
LEMMA WireConfined ==
  ASSUME NEW operation, operation # "get", NEW e \in Filters,
         AcceptsWire(operation, e), ~ Disjunctive(e)
  PROVE  Confined({t \in Instants : \E o \in BOOLEAN : Holds(e, t, o)})
<1> DEFINE r == TimestampRanges(e)
<1>1. r \in Seq(Spans)
  BY RangesKnown DEF AllRanges
<1>2. Len(r) = 1 /\ InRange(r[1][1], r[1][2])
  BY DEF AcceptsWire
<1>3. \A t \in Instants, o \in BOOLEAN :
        Holds(e, t, o) => \A i \in DOMAIN r : r[i][1] <= t /\ t <= r[i][2]
  BY RangesBound
<1> HIDE DEF r
<1>4. r[1][1] \in Int /\ r[1][2] \in Int /\ 1 \in DOMAIN r
  <2>1. Maybe \subseteq Int
    BY QueryBoundsAssumption DEF Maybe, Instants, Null
  <2>2. Len(r) = 1
    BY <1>2
  <2>3. 1 \in DOMAIN r /\ r[1] \in Spans
    BY <1>1, <2>2
  <2> QED
    BY <2>1, <2>3 DEF Spans
<1>5. ASSUME NEW s \in Instants, NEW t \in Instants, NEW o \in BOOLEAN, NEW p \in BOOLEAN,
             Holds(e, s, o), Holds(e, t, p)
      PROVE  t - s <= MaxSeconds * Second
  <2>1. r[1][1] <= s /\ t <= r[1][2]
    BY <1>3, <1>4, <1>5
  <2> QED
    BY <1>2, <1>4, <2>1, SpanKnown, QueryBoundsAssumption DEF InRange, Instants
<1> QED
  BY <1>5 DEF Confined

\* The bounds of an accepted mapping-first filter confine its rows, whichever operators it has.
LEMMA SimpleConfined ==
  ASSUME NEW operation, operation # "get",
         NEW w \in UNION {[D -> Maybe] : D \in SUBSET Operators}, AcceptsSimple(operation, w)
  PROVE  Confined({t \in Instants : Selects(w, t)})
<1>1. LowerOf(w) \in Int /\ UpperOf(w) \in Int
  BY QueryBoundsAssumption DEF LowerOf, UpperOf, Maybe, Instants, Null, Operators
<1>2. ASSUME NEW t \in Instants, Selects(w, t) PROVE LowerOf(w) <= t /\ t <= UpperOf(w)
  <2>1. LowerOf(w) # Null /\ UpperOf(w) # Null
    BY DEF AcceptsSimple
  <2>2. \A p \in DOMAIN w : w[p] \in Int
    BY QueryBoundsAssumption DEF Maybe, Instants, Null
  <2>3. /\ "gte" \in DOMAIN w => t >= w["gte"]
        /\ "gt" \in DOMAIN w => t > w["gt"]
        /\ "lte" \in DOMAIN w => t <= w["lte"]
        /\ "lt" \in DOMAIN w => t < w["lt"]
    BY <1>2 DEF Selects
  <2>4. t \in Int
    BY QueryBoundsAssumption DEF Instants
  <2>5. LowerOf(w) <= t
    BY <2>1, <2>2, <2>3, <2>4 DEF LowerOf
  <2>6. t <= UpperOf(w)
    BY <2>1, <2>2, <2>3, <2>4 DEF UpperOf
  <2> QED
    BY <2>5, <2>6
<1>3. InRange(LowerOf(w), UpperOf(w))
  BY DEF AcceptsSimple
<1> HIDE DEF LowerOf, UpperOf, Selects
<1> QED
  BY <1>1, <1>2, <1>3, SpanKnown, QueryBoundsAssumption DEF Confined, InRange, Instants

\* A window that is refused was no window within the limit.
LEMMA WindowRefused ==
  ASSUME NEW operation, NEW w, ~ AcceptsSimple(operation, w),
         NEW l \in {"gt", "gte"}, NEW u \in {"lt", "lte"}, DOMAIN w \in {{l, u}, {l, u, "eq"}},
         w[l] # Null, w[u] # Null, w[l] \in Maybe, w[u] \in Maybe
  PROVE  w[l] >= w[u] \/ w[u] - w[l] > MaxSeconds * Second
<1>1. LowerOf(w) = w[l] /\ UpperOf(w) = w[u]
  BY DEF LowerOf, UpperOf
<1>2. ~ InRange(w[l], w[u])
  BY <1>1 DEF AcceptsSimple
<1>3. w[l] \in Int /\ w[u] \in Int
  BY QueryBoundsAssumption DEF Maybe, Instants, Null
<1> QED
  BY <1>2, <1>3, SpanKnown DEF InRange

-----------------------------------------------------------------------------
\* Layouts.

\* A table keeps rows of different content where its layout is append-only.
LEMMA OrderKnown ==
  ASSUME NEW layout, IsLayout(layout)
  PROVE  KeepsRows(CreateTable(layout)) <=> layout.appendOnly
<1> DEFINE ids == layout.identities
           last == IF layout.appendOnly THEN <<HiddenRow>> ELSE << >>
           order == <<HiddenScope, layout.timestamp>> \o ids \o last
<1>1. /\ layout.columns \subseteq Fields /\ layout.timestamp \in Fields
      /\ ids \in Seq(layout.columns)
  BY DEF IsLayout
<1>2. HiddenScope # HiddenRow /\ HiddenRow \notin Fields
  BY LayoutsAssumption
<1>3. /\ ids \in Seq(Fields) /\ Len(ids) \in Nat
      /\ \A i \in 1..Len(ids) : ids[i] \in Fields
  BY <1>1
<1>4. CreateTable(layout).order = order
  BY DEF CreateTable
<1> HIDE DEF ids
<1>5. KeepsRows(CreateTable(layout)) <=> \E i \in DOMAIN order : order[i] = HiddenRow
  BY <1>4 DEF KeepsRows, Elements
<1>6. CASE layout.appendOnly
  <2>1. order = <<HiddenScope, layout.timestamp>> \o ids \o <<HiddenRow>>
    BY <1>6
  <2>2. Len(ids) + 3 \in DOMAIN order /\ order[Len(ids) + 3] = HiddenRow
    BY <1>3, <2>1
  <2> QED
    BY <1>5, <1>6, <2>2
<1>7. CASE ~ layout.appendOnly
  <2>1. order = <<HiddenScope, layout.timestamp>> \o ids \o << >>
    BY <1>7
  <2>2. ASSUME NEW i \in DOMAIN order PROVE order[i] # HiddenRow
    <3>1. i \in 1..(Len(ids) + 2)
      BY <1>3, <2>1
    <3>2. CASE i <= 2
      BY <1>1, <1>2, <1>3, <2>1, <3>1, <3>2
    <3>3. CASE i > 2
      <4>1. order[i] = ids[i - 2] /\ i - 2 \in 1..Len(ids)
        BY <1>3, <2>1, <3>1, <3>3
      <4> QED
        BY <1>2, <1>3, <4>1
    <3> QED
      BY <1>3, <3>1, <3>2, <3>3
  <2> QED
    BY <1>5, <1>7, <2>2
<1> QED
  BY <1>6, <1>7

\* The keys and values of a document that was declared.
LEMMA DeclaredKnown ==
  ASSUME NEW layout
  PROVE  /\ DOMAIN Declared(layout) \ {"appendOnly"} = Required \ {"layoutFingerprint"}
         /\ "appendOnly" \in DOMAIN Declared(layout) <=> layout.appendOnly
         /\ layout.appendOnly => Declared(layout)["appendOnly"] = TRUE
         /\ \A k \in Required \ {"layoutFingerprint"} : Declared(layout)[k] = Body(layout)[k]
<1>1. DOMAIN Body(layout) = Required \ {"layoutFingerprint"}
  BY DEF Body, Required
<1>2. "appendOnly" \notin Required
  BY DEF Required
<1> HIDE DEF Body, Required
<1> QED
  BY <1>1, <1>2 DEF Declared, With

\* The members of a layout's document.
LEMMA DocumentKnown ==
  ASSUME NEW layout
  PROVE  /\ DOMAIN ToDocument(layout) \ {"appendOnly"} = Required
         /\ "appendOnly" \in DOMAIN ToDocument(layout) <=> layout.appendOnly
         /\ layout.appendOnly => ToDocument(layout)["appendOnly"] = TRUE
         /\ \A k \in Required \ {"layoutFingerprint"} : ToDocument(layout)[k] = Body(layout)[k]
         /\ ToDocument(layout)["layoutFingerprint"] = LayoutFingerprint(layout)
<1>1. "layoutFingerprint" \in Required /\ "appendOnly" \notin Required
  BY DEF Required
<1>2. "appendOnly" # "layoutFingerprint"
  OBVIOUS
<1> DEFINE declared == Declared(layout)
           document == ToDocument(layout)
<1>3. /\ DOMAIN declared \ {"appendOnly"} = Required \ {"layoutFingerprint"}
      /\ "appendOnly" \in DOMAIN declared <=> layout.appendOnly
      /\ layout.appendOnly => declared["appendOnly"] = TRUE
      /\ \A k \in Required \ {"layoutFingerprint"} : declared[k] = Body(layout)[k]
  BY DeclaredKnown
<1>4. /\ DOMAIN document = DOMAIN declared \cup {"layoutFingerprint"}
      /\ document["layoutFingerprint"] = LayoutFingerprint(layout)
      /\ \A k \in DOMAIN declared \ {"layoutFingerprint"} : document[k] = declared[k]
  BY DEF ToDocument, With
<1> HIDE DEF declared, document
<1>5. DOMAIN document \ {"appendOnly"} = Required
  BY <1>1, <1>2, <1>3, <1>4
<1>6. "appendOnly" \in DOMAIN document <=> layout.appendOnly
  BY <1>2, <1>3, <1>4
<1>7. layout.appendOnly => document["appendOnly"] = TRUE
  BY <1>2, <1>3, <1>4
<1>8. \A k \in Required \ {"layoutFingerprint"} : document[k] = Body(layout)[k]
  BY <1>3, <1>4
<1> QED
  BY <1>4, <1>5, <1>6, <1>7, <1>8 DEF document

\* Reading a compiled layout's document back.
LEMMA ReadBack ==
  ASSUME NEW schema, NEW args
  PROVE  FromFields(ToDocument(LayoutOf(schema, args))) = LayoutOf(schema, args)
<1> DEFINE layout == LayoutOf(schema, args)
           document == ToDocument(layout)
<1>1. layout.appendOnly \in BOOLEAN
  BY DEF LayoutOf, Marked
<1>2. /\ "appendOnly" \in DOMAIN document <=> layout.appendOnly
      /\ \A k \in Required \ {"layoutFingerprint"} : document[k] = Body(layout)[k]
  BY DocumentKnown
<1>3. /\ document["catalog"] = layout.catalog /\ document["name"] = layout.name
      /\ document["table"] = layout.table /\ document["columns"] = layout.columns
      /\ document["timestampField"] = layout.timestamp
      /\ document["identityFields"] = layout.identities
      /\ document["dimensionFields"] = layout.dimensions
      /\ document["retentionSeconds"] = layout.retention
      /\ document["partitionInterval"] = layout.interval
      /\ document["topology"] = layout.topology /\ document["queryFinal"] = layout.final
  <2> HIDE DEF document, layout
  <2> QED
    BY <1>2 DEF Body, Required
<1> HIDE DEF document
<1>4. FromFields(document) =
        [catalog |-> layout.catalog, name |-> layout.name, table |-> layout.table,
         columns |-> layout.columns, timestamp |-> layout.timestamp,
         identities |-> layout.identities, dimensions |-> layout.dimensions,
         retention |-> layout.retention, interval |-> layout.interval,
         topology |-> layout.topology, final |-> layout.final,
         appendOnly |-> layout.appendOnly]
  <2> HIDE DEF layout
  <2> QED
    BY <1>1, <1>2, <1>3 DEF FromFields
<1>5. layout = [catalog |-> layout.catalog, name |-> layout.name, table |-> layout.table,
         columns |-> layout.columns, timestamp |-> layout.timestamp,
         identities |-> layout.identities, dimensions |-> layout.dimensions,
         retention |-> layout.retention, interval |-> layout.interval,
         topology |-> layout.topology, final |-> layout.final,
         appendOnly |-> layout.appendOnly]
  BY DEF LayoutOf
<1> QED
  BY <1>4, <1>5 DEF document

\* The document of a layout that compiles is accepted, and read back as that layout.
LEMMA CompiledWorks ==
  ASSUME NEW schema, NEW args, Compiles(schema, args)
  PROVE  LET layout == LayoutOf(schema, args)
             document == ToDocument(layout)
         IN  /\ BindingAccepts(args.topology, <<document>>)
             /\ FromFields(document) = layout
             /\ CreateTable(layout).order = OrderFields(layout)
             /\ KeepsRows(CreateTable(layout)) <=> schema.catalog = "evidence"
<1> DEFINE layout == LayoutOf(schema, args)
           document == ToDocument(layout)
<1>1. IsLayout(layout)
  BY DEF Compiles
<1>2. /\ layout.appendOnly \in BOOLEAN /\ layout.topology = args.topology
      /\ layout.appendOnly <=> schema.catalog = "evidence"
  BY DEF LayoutOf, Marked
<1>3. FromFields(document) = layout
  BY ReadBack
<1>4. CreateTable(layout).order = OrderFields(layout)
  BY DEF CreateTable, OrderFields
<1> HIDE DEF layout
<1>5. KeepsRows(CreateTable(layout)) <=> schema.catalog = "evidence"
  BY <1>1, <1>2, OrderKnown
<1>6. /\ DOMAIN document \ {"appendOnly"} = Required
      /\ "appendOnly" \in DOMAIN document <=> layout.appendOnly
      /\ layout.appendOnly => document["appendOnly"] = TRUE
      /\ \A k \in Required \ {"layoutFingerprint"} : document[k] = Body(layout)[k]
      /\ document["layoutFingerprint"] = LayoutFingerprint(layout)
  BY DocumentKnown
<1> HIDE DEF document
<1>7. Parses(document)
  <2>1. "appendOnly" \in DOMAIN document => document["appendOnly"] = TRUE
    BY <1>6
  <2> QED
    BY <1>1, <1>3, <1>6, <2>1 DEF Parses
<1>8. document.topology = args.topology
  <2>1. document["topology"] = Body(layout)["topology"]
    BY <1>6 DEF Required
  <2> QED
    BY <1>2, <2>1 DEF Body
<1>9. BindingAccepts(args.topology, <<document>>)
  BY <1>7, <1>8 DEF BindingAccepts
<1> QED
  BY <1>3, <1>4, <1>5, <1>9 DEF document, layout

\* Equal declarations are of layouts that agree on all that shapes a table.
LEMMA FingerprintsDecide ==
  ASSUME NEW d, NEW e, Parses(d), Parses(e), d.layoutFingerprint = e.layoutFingerprint
  PROVE  CreateTable(FromFields(d)) = CreateTable(FromFields(e))
<1> DEFINE k == FromFields(d)
           l == FromFields(e)
<1>1. k.appendOnly \in BOOLEAN /\ l.appendOnly \in BOOLEAN
  BY DEF FromFields
<1>2. Declared(k) = Declared(l)
  BY DEF Parses, LayoutFingerprint
<1> HIDE DEF k, l
<1>3. k.appendOnly = l.appendOnly
  <2>1. /\ k.appendOnly <=> "appendOnly" \in DOMAIN Declared(k)
        /\ l.appendOnly <=> "appendOnly" \in DOMAIN Declared(l)
    BY DeclaredKnown
  <2> QED
    BY <1>1, <1>2, <2>1
<1>4. \A x \in Required \ {"layoutFingerprint"} : Body(k)[x] = Body(l)[x]
  <2>1. /\ \A x \in Required \ {"layoutFingerprint"} : Declared(k)[x] = Body(k)[x]
        /\ \A x \in Required \ {"layoutFingerprint"} : Declared(l)[x] = Body(l)[x]
    BY DeclaredKnown
  <2> QED
    BY <1>2, <2>1
<1>5. /\ k.table = l.table /\ k.columns = l.columns /\ k.topology = l.topology
      /\ k.interval = l.interval /\ k.timestamp = l.timestamp
      /\ k.identities = l.identities /\ k.retention = l.retention
  BY <1>4 DEF Body, Required
<1> QED
  BY <1>3, <1>5 DEF CreateTable, k, l

-----------------------------------------------------------------------------
\* Verdicts.

\* The invariant: the verdict is what the code that was asked says of the
\* input, which is never changed.
Decided ==
  /\ \E i \in DOMAIN Inputs : input \in Inputs[i]
  /\ Accepted("wire") => AcceptsWire(input.operation, input.filter)
  /\ Accepted("simple") => AcceptsSimple(input.operation, input.filter)
  /\ Accepted("value") => Accepts(input.kind, input.value)
  /\ Accepted("schema") => Compiles(input.schema, input.args)
  /\ Accepted("binding") => BindingAccepts(input.topology, input.documents)
  /\ verdict = "refused" /\ input.path = "simple" => ~ AcceptsSimple(input.operation, input.filter)

\* Every verdict is the one of the operation that the input was given to.
THEOREM VerdictsDecided == Spec => []Decided
<1>1. Init => Decided
  BY DEF Init, Decided, Accepted
<1>2. Decided /\ [Next]_vars => Decided'
  <2>1. SUFFICES ASSUME Decided, [Next]_vars PROVE Decided'
    OBVIOUS
  <2> USE <2>1 DEF Decided, Accepted, Pending, Decide
  <2>2. CASE CompileWire
    BY <2>2 DEF CompileWire
  <2>3. CASE CompileSimple
    BY <2>3 DEF CompileSimple
  <2>4. CASE StoreValue
    BY <2>4 DEF StoreValue
  <2>5. CASE CompileSchema
    BY <2>5 DEF CompileSchema
  <2>6. CASE ReadBinding
    BY <2>6 DEF ReadBinding
  <2>7. CASE UNCHANGED vars
    BY <2>7 DEF vars
  <2> QED
    BY <2>1, <2>2, <2>3, <2>4, <2>5, <2>6, <2>7 DEF Next
<1> QED
  BY <1>1, <1>2, PTL DEF Spec

\* A mapping-first scan that is accepted touches no rows further apart than
\* maxTimeRangeSeconds, whatever its operators, the horizon and the limit.
THEOREM SimpleScansAreBounded == Spec => []SimpleScansBounded
<1>1. Decided => SimpleScansBounded
  <2>1. SUFFICES ASSUME Decided, Scan("simple") PROVE Confined(Matched)
    BY DEF SimpleScansBounded
  <2>2. input.filter \in UNION {[D -> Maybe] : D \in SUBSET Operators}
    BY <2>1, InputsAssumption DEF Decided, Scan, Accepted
  <2>3. AcceptsSimple(input.operation, input.filter) /\ input.operation # "get"
    BY <2>1 DEF Decided, Scan
  <2>4. Matched = {t \in Instants : Selects(input.filter, t)}
    BY <2>1 DEF Matched, Scan, Accepted
  <2> QED
    BY <2>2, <2>3, <2>4, SimpleConfined
<1> QED
  BY <1>1, VerdictsDecided, PTL

\* The same of wire plans without OR, of any size and nesting.
THEOREM ConjunctiveScansAreBounded == Spec => []ConjunctiveScansBounded
<1>1. Decided => ConjunctiveScansBounded
  <2>1. SUFFICES ASSUME Decided, Scan("wire"), ~ Disjunctive(input.filter)
                 PROVE  Confined(Matched)
    BY DEF ConjunctiveScansBounded
  <2>2. input.filter \in Filters
    BY <2>1, InputsAssumption DEF Decided, Scan, Accepted
  <2>3. AcceptsWire(input.operation, input.filter) /\ input.operation # "get"
    BY <2>1 DEF Decided, Scan
  <2>4. Matched = {t \in Instants : \E o \in BOOLEAN : Holds(input.filter, t, o)}
    BY <2>1 DEF Matched, Scan, Accepted
  <2> QED
    BY <2>1, <2>2, <2>3, <2>4, WireConfined
<1> QED
  BY <1>1, VerdictsDecided, PTL

\* No mapping-first window within the limit is refused.
THEOREM WindowsAreAccepted == Spec => []WindowsAccepted
<1>1. Decided => WindowsAccepted
  <2>1. SUFFICES ASSUME Decided, input.path = "simple", verdict = "refused",
                        NEW l \in {"gt", "gte"}, NEW u \in {"lt", "lte"},
                        DOMAIN input.filter \in {{l, u}, {l, u, "eq"}},
                        input.filter[l] # Null, input.filter[u] # Null
                 PROVE  \/ input.filter[l] >= input.filter[u]
                        \/ input.filter[u] - input.filter[l] > MaxSeconds * Second
    BY DEF WindowsAccepted
  <2>2. input.filter \in UNION {[D -> Maybe] : D \in SUBSET Operators}
    BY <2>1, InputsAssumption DEF Decided
  <2>3. input.filter[l] \in Maybe /\ input.filter[u] \in Maybe
    BY <2>1, <2>2
  <2>4. ~ AcceptsSimple(input.operation, input.filter)
    BY <2>1 DEF Decided
  <2> QED
    BY <2>1, <2>3, <2>4, WindowRefused
<1> QED
  BY <1>1, VerdictsDecided, PTL

\* Every layout that compiles can be declared, read back, created and
\* verified, and keeps the evidence of an evidence Resource.
THEOREM LayoutsWork == Spec => []CompiledLayoutsWork
<1>1. Decided => CompiledLayoutsWork
  BY CompiledWorks DEF Decided, CompiledLayoutsWork
<1> QED
  BY <1>1, VerdictsDecided, PTL

\* Documents with one fingerprint create one table, however they were edited.
THEOREM FingerprintsAreSound == Spec => []OneTablePerFingerprint
<1>1. OneTablePerFingerprint
  BY FingerprintsDecide DEF OneTablePerFingerprint
<1> QED
  BY <1>1, PTL

\* "append-only" is advertised only where every evidence table keeps its rows.
THEOREM PromisesAreKept == Spec => []PromiseKept
<1>1. Decided => PromiseKept
  <2>1. SUFFICES ASSUME Decided, Accepted("binding"),
                        NEW layouts, layouts = {FromFields(d) : d \in Elements(input.documents)},
                        PromisesAppendOnly(layouts), NEW l \in EvidenceOf(layouts)
                 PROVE  KeepsRows(CreateTable(l))
    BY DEF PromiseKept
  <2>2. PICK i \in DOMAIN input.documents : l = FromFields(input.documents[i])
    BY <2>1 DEF EvidenceOf, Elements
  <2>3. IsLayout(l)
    BY <2>1, <2>2 DEF Decided, BindingAccepts, Parses
  <2>4. l.appendOnly
    BY <2>1 DEF PromisesAppendOnly
  <2> QED
    BY <2>3, <2>4, OrderKnown
<1> QED
  BY <1>1, VerdictsDecided, PTL

\* An accepted timestamp of any number of digits, offset and sign is the
\* instant it denotes, in the column, in a result and as a parameter.
THEOREM TimestampsAreExact == Spec => []TimestampsExact
<1>1. Decided => TimestampsExact
  <2>1. SUFFICES ASSUME Decided, Accepted("value"), input.kind = "timestamp"
                 PROVE  TimestampsExact
    BY DEF TimestampsExact
  <2>2. input.value \in JsonValues /\ Accepts("timestamp", input.value)
    BY <2>1, InputsAssumption DEF Decided, Accepted
  <2> QED
    BY <2>1, <2>2, TimestampTrip DEF TimestampsExact, InColumn
<1> QED
  BY <1>1, VerdictsDecided, PTL

\* Values of all other kinds are delivered as they were given, decimals less
\* than one unit of the column's scale off the number they are.
THEOREM ValuesDoSurvive == Spec => []ValuesSurvive
<1>1. Decided => ValuesSurvive
  <2>1. SUFFICES ASSUME Decided, Accepted("value"), input.kind # "timestamp"
                 PROVE  ValuesSurvive
    BY DEF ValuesSurvive
  <2> DEFINE v == input.value
  <2>2. v \in JsonValues /\ Accepts(input.kind, v) /\ input.kind \in Kinds
    BY <2>1, InputsAssumption DEF Decided, Accepted
  <2>3. CASE input.kind \in {"boolean", "int", "string", "bytes"}
    <3>1. Delivered(input.kind, Stored(input.kind, v)) = v
      BY <2>2, <2>3, BooleanTrip, IntTrip, StringTrip, BytesTrip
    <3> QED
      BY <2>3, <3>1 DEF ValuesSurvive, InColumn
  <2>4. CASE input.kind = "decimal"
    BY <2>2, <2>4, DecimalTrip DEF ValuesSurvive, InColumn
  <2>5. CASE input.kind = "json"
    BY <2>2, <2>5, DocumentTrip DEF ValuesSurvive, InColumn
  <2> QED
    BY <2>1, <2>2, <2>3, <2>4, <2>5 DEF Kinds
<1> QED
  BY <1>1, VerdictsDecided, PTL

\* Every accepted value makes the round trip through its column.
LEMMA TripsEverywhere ==
  ASSUME Decided, Accepted("value")
  PROVE  RoundTrip(input.kind, input.value)
<1>1. input.value \in JsonValues /\ Accepts(input.kind, input.value) /\ input.kind \in Kinds
  BY InputsAssumption DEF Decided, Accepted
<1> QED
  BY <1>1, BooleanTrip, IntTrip, StringTrip, TimestampTrip, DecimalTrip, BytesTrip, DocumentTrip
     DEF Kinds

\* A delivered value of any kind is accepted again and becomes the same column.
THEOREM RewritesAreStable == Spec => []RewriteStable
<1>1. Decided => RewriteStable
  BY TripsEverywhere DEF RewriteStable, RoundTrip, InColumn
<1> QED
  BY <1>1, VerdictsDecided, PTL

\* A filter by the value that was written finds it, unless it is bytes, a
\* document, or a number for a decimal column that goes beyond its scale or is a
\* float other than what it is spelled as.
THEOREM FiltersFind == Spec => []FilterFinds
<1>1. Decided => FilterFinds
  BY TripsEverywhere DEF FilterFinds, RoundTrip, InColumn
<1> QED
  BY <1>1, VerdictsDecided, PTL

\* The value in a cursor is the one in the column it was taken from.
THEOREM CursorsResume == Spec => []CursorResumes
<1>1. Decided => CursorResumes
  BY TripsEverywhere DEF CursorResumes, RoundTrip, InColumn
<1> QED
  BY <1>1, VerdictsDecided, PTL

=============================================================================
