----------------------------- MODULE QueryBounds -----------------------------
(***************************************************************************)
(* Which scans the query compiler accepts, and which rows an accepted scan *)
(* can match: _require_bounded_time_range for Query wire plans, simple_-   *)
(* where and _validate_simple_bounds for mapping-first queries.  An        *)
(* instant is a number of nanosecond ticks.                                *)
(***************************************************************************)
EXTENDS Integers, Sequences, FiniteSets

CONSTANTS
  Horizon,     \* instants are 0..Horizon
  Second,      \* ticks in a second
  MaxSeconds,  \* ClickHouseSettings.max_time_range_seconds
  Filters,     \* the expressions of wire plans, with all their parts
  Height       \* [Filters -> Nat]: expressions are finite

ASSUME QueryBoundsAssumption ==
  /\ {Horizon, Second, MaxSeconds} \subseteq Nat \ {0}
  /\ MaxSeconds * Second < Horizon

Instants == 0..Horizon
Null == -1
Maybe == Instants \cup {Null}

-----------------------------------------------------------------------------
\* Rejecting spans.

\* Plausible mistake: the span is measured in whole seconds.
InRangeOfSeconds(start, end) == (end - start) \div Second \in 1..MaxSeconds

\* _validate_range
InRange(start, end) == end - start > 0 /\ end - start <= MaxSeconds * Second

-----------------------------------------------------------------------------
\* Query wire plans: expressions over the timestamp and over other fields.

\* What compile_wire gets from the parser of the Query package.
ASSUME FiltersAssumption ==
  /\ Height \in [Filters -> Nat]
  /\ \A e \in Filters :
       /\ e.kind \in {"range", "other", "not", "and", "or"}
       /\ {e.start, e.end} \subseteq Maybe
       /\ e.args \in Seq(Filters)
       /\ Len(e.args) = CASE e.kind = "not" -> 1 [] e.kind \in {"and", "or"} -> 2 [] OTHER -> 0
       /\ \A i \in DOMAIN e.args : Height[e.args[i]] < Height[e]

TimeRange(start, end) == [kind |-> "range", start |-> start, end |-> end, args |-> << >>]
Other == [kind |-> "other", start |-> Null, end |-> Null, args |-> << >>]
Composite(kind, args) == [kind |-> kind, start |-> Null, end |-> Null, args |-> args]

\* Plausible mistake: a negated range counts as the bound of the scan.
TimestampRangesUnderNot(expression) ==
  LET ranges[e \in Filters] ==
        IF e.kind = "range" /\ e.start # Null /\ e.end # Null THEN << <<e.start, e.end>> >>
        ELSE IF e.kind = "not" THEN ranges[e.args[1]]
        ELSE IF e.kind \in {"and", "or"} THEN ranges[e.args[1]] \o ranges[e.args[2]]
        ELSE << >>
  IN  ranges[expression]

\* Ranges that are open at an end, and whatever a NOT holds, do not count.
TimestampRanges(expression) ==
  LET ranges[e \in Filters] ==
        IF e.kind = "range" /\ e.start # Null /\ e.end # Null THEN << <<e.start, e.end>> >>
        ELSE IF e.kind \in {"and", "or"} THEN ranges[e.args[1]] \o ranges[e.args[2]]
        ELSE << >>
  IN  ranges[expression]

\* "get" is compiled without a bound.
AcceptsWire(operation, e) ==
  operation # "get" =>
    LET ranges == TimestampRanges(e) IN
    Len(ranges) = 1 /\ InRange(ranges[1][1], ranges[1][2])

\* The predicate that expression renders, on a row at instant t for which the
\* other fields decide o; a range includes both its ends, the widest reading.
Holds(expression, t, o) ==
  LET holds[e \in Filters] ==
        CASE e.kind = "range" -> (e.start # Null => t >= e.start) /\ (e.end # Null => t <= e.end)
          [] e.kind = "other" -> o
          [] e.kind = "not"   -> ~holds[e.args[1]]
          [] e.kind = "and"   -> holds[e.args[1]] /\ holds[e.args[2]]
          [] e.kind = "or"    -> holds[e.args[1]] \/ holds[e.args[2]]
  IN  holds[expression]

-----------------------------------------------------------------------------
\* Mapping-first queries: operators on the timestamp field, each with an
\* instant or null.

Operators == {"eq", "gt", "gte", "lt", "lte"}

\* The operators are visited in alphabetical order and the last one stays.
LowerOf(w) ==
  IF "gte" \in DOMAIN w THEN w["gte"] ELSE IF "gt" \in DOMAIN w THEN w["gt"] ELSE Null

\* Plausible mistake: an open end is given a default that the SQL does not carry.
UpperOrDefault(w) ==
  IF "lte" \in DOMAIN w THEN w["lte"]
  ELSE IF "lt" \in DOMAIN w THEN w["lt"] ELSE LowerOf(w) + MaxSeconds * Second

UpperOf(w) ==
  IF "lte" \in DOMAIN w THEN w["lte"] ELSE IF "lt" \in DOMAIN w THEN w["lt"] ELSE Null

AcceptsSimple(operation, w) ==
  operation # "get" =>
    LowerOf(w) # Null /\ UpperOf(w) # Null /\ InRange(LowerOf(w), UpperOf(w))

\* The engine compares with every operand; nothing compares with a null.
Selects(w, t) ==
  \A p \in DOMAIN w :
    /\ w[p] # Null
    /\ CASE p = "eq"  -> t = w[p]
         [] p = "gt"  -> t > w[p]
         [] p = "gte" -> t >= w[p]
         [] p = "lt"  -> t < w[p]
         [] p = "lte" -> t <= w[p]

=============================================================================
