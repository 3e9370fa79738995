----------------------------- MODULE Translation -----------------------------
(***************************************************************************)
(* What is translated without any state of the adapter: filters of both    *)
(* dialects (QueryBounds), values on their way into and out of a column    *)
(* (Values), and layouts (Layouts).  An input is drawn at the start and    *)
(* translated in one step; the properties compare what becomes of it with  *)
(* what it says.                                                           *)
(***************************************************************************)
EXTENDS QueryBounds, Values, Layouts

CONSTANT Inputs  \* a sequence of sets of inputs

ASSUME InputsAssumption ==
  \A i \in DOMAIN Inputs : \A x \in Inputs[i] :
    /\ x.path = "wire" => x.filter \in Filters
    /\ x.path = "simple" => x.filter \in UNION {[D -> Maybe] : D \in SUBSET Operators}
    /\ x.path = "value" => x.kind \in Kinds /\ x.value \in JsonValues

VARIABLES
  input,   \* what is to be translated
  verdict  \* "pending", "accepted" or "refused"

vars == <<input, verdict>>

Init == (\E i \in DOMAIN Inputs : input \in Inputs[i]) /\ verdict = "pending"

Decide(accepts) ==
  /\ verdict' = IF accepts THEN "accepted" ELSE "refused"
  /\ UNCHANGED input

Pending(path) == verdict = "pending" /\ input.path = path

CompileWire == Pending("wire") /\ Decide(AcceptsWire(input.operation, input.filter))

CompileSimple == Pending("simple") /\ Decide(AcceptsSimple(input.operation, input.filter))

StoreValue == Pending("value") /\ Decide(Accepts(input.kind, input.value))

CompileSchema == Pending("schema") /\ Decide(Compiles(input.schema, input.args))

ReadBinding == Pending("binding") /\ Decide(BindingAccepts(input.topology, input.documents))

Next == CompileWire \/ CompileSimple \/ StoreValue \/ CompileSchema \/ ReadBinding

Spec == Init /\ [][Next]_vars

Accepted(path) == verdict = "accepted" /\ input.path = path

-----------------------------------------------------------------------------
\* Scans.

\* The instants a filter can match, whatever the other fields decide.
Matched ==
  {t \in Instants :
     IF input.path = "wire" THEN \E o \in BOOLEAN : Holds(input.filter, t, o)
     ELSE Selects(input.filter, t)}

Scan(path) == Accepted(path) /\ input.operation # "get"

\* No two instants of T are further apart than the limit.
Confined(T) == \A s, t \in T : t - s <= MaxSeconds * Second

\* A mapping-first scan that is accepted, with whatever combination of
\* operators, cannot touch rows further apart than maxTimeRangeSeconds.
SimpleScansBounded == Scan("simple") => Confined(Matched)

\* An OR anywhere in the expression.
Disjunctive(expression) ==
  LET disjunctive[e \in Filters] ==
        e.kind = "or" \/ \E i \in DOMAIN e.args : disjunctive[e.args[i]]
  IN  disjunctive[expression]

\* The same of a wire plan without OR, with whatever NOTs and open ranges.
ConjunctiveScansBounded == Scan("wire") /\ ~Disjunctive(input.filter) => Confined(Matched)

\* Every scan and aggregate requires a bounded UTC time range within the
\* Binding limit (README.md:64).
WireScansBounded == Scan("wire") => Confined(Matched)

\* A window within the limit is never refused, down to a single tick and up to
\* the limit exactly, alone or together with an equality.
WindowsAccepted ==
  input.path = "simple" /\ verdict = "refused" =>
    LET w == input.filter IN
    \A l \in {"gt", "gte"}, u \in {"lt", "lte"} :
      DOMAIN w \in {{l, u}, {l, u, "eq"}} /\ w[l] # Null /\ w[u] # Null =>
        w[l] >= w[u] \/ w[u] - w[l] > MaxSeconds * Second

-----------------------------------------------------------------------------
\* Values.

InColumn == Stored(input.kind, input.value)

\* An accepted timestamp is the instant its text denotes, whatever its offset
\* and however many digits it has, and the text it is delivered as and the
\* parameter it is compared by denote the same instant.
TimestampsExact ==
  Accepted("value") /\ input.kind = "timestamp" =>
    LET instant == Denoted(Content(input.value)) IN
    /\ InColumn = <<"ticks", instant>>
    /\ Denoted(Content(Delivered("timestamp", InColumn))) = instant
    /\ Denoted(Content(Parameter("timestamp", input.value))) = instant

\* Any other value is delivered as it was given: objects in canonical order, and
\* decimals as numerals of the column's scale that are nearer than one unit to
\* the number given.  For a float that number is its binary expansion: 0.29 may
\* be delivered as 0.28.
ValuesSurvive ==
  Accepted("value") /\ input.kind # "timestamp" =>
    LET delivered == Delivered(input.kind, InColumn) IN
    CASE input.kind = "decimal" ->
           /\ Tag(delivered) = "decimal" /\ Content(delivered).scale = Scale
           /\ Near(Content(delivered), NumberOf(input.value))
      [] input.kind = "json" -> delivered = Canonical(input.value)
      [] OTHER -> delivered = input.value

\* A delivered value is accepted when it is written again, and ends up the
\* same in the column.
RewriteStable == Accepted("value") => Stored(input.kind, Delivered(input.kind, InColumn)) = InColumn

\* A filter by equality finds the row whose value it repeats, with exceptions.
\* Columns of bytes and documents hold no such text.  A decimal given as a float
\* is stored by its binary expansion but compared by its spelling, so that only
\* floats that are what they spell are sure to be found; and what goes beyond
\* the scale is cut by the driver there and by the server here.
FilterFinds ==
  Accepted("value") =>
    \/ input.kind \in {"bytes", "json"}
    \/ input.kind = "decimal" /\ ~(AsSpelled(input.value) /\ NumberOf(input.value).scale <= Scale)
    \/ Equals(input.kind, InColumn, input.value)

\* A page resumes at the row it stopped at: the value in the cursor is equal
\* to the one in the column.  Bytes that spell no text are the exception.
CursorResumes ==
  Accepted("value") /\ (input.kind = "bytes" => Printable(Content(InColumn))) =>
    Equals(input.kind, InColumn, SortTuple(input.kind, InColumn))

-----------------------------------------------------------------------------
\* Layouts.

KeepsRows(table) == HiddenRow \in Elements(table.order)

\* A layout that compiles is a layout that works: its document is accepted by
\* a Binding of its topology and read back as it was, the table created for it
\* has the sorting key that migration and probe verify, and evidence gets a
\* table that keeps rows of different content.
CompiledLayoutsWork ==
  Accepted("schema") =>
    LET layout == LayoutOf(input.schema, input.args)
        document == ToDocument(layout)
    IN  /\ BindingAccepts(input.args.topology, <<document>>)
        /\ FromFields(document) = layout
        /\ CreateTable(layout).order = OrderFields(layout)
        /\ KeepsRows(CreateTable(layout)) <=> input.schema.catalog = "evidence"

\* Two documents that are accepted under one fingerprint create one table,
\* whichever of their fields were edited and whether or not they are marked
\* append-only.
OneTablePerFingerprint ==
  input.path = "binding" =>
    \A d, e \in Elements(input.documents) :
      Parses(d) /\ Parses(e) /\ d.layoutFingerprint = e.layoutFingerprint =>
        CreateTable(FromFields(d)) = CreateTable(FromFields(e))

\* A Binding that advertises "append-only" has a table that keeps rows of
\* different content for every evidence Resource it selects.
PromiseKept ==
  Accepted("binding") =>
    LET layouts == {FromFields(d) : d \in Elements(input.documents)} IN
    PromisesAppendOnly(layouts) =>
      \A l \in EvidenceOf(layouts) : KeepsRows(CreateTable(l))

=============================================================================
