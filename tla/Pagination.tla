----------------------------- MODULE Pagination -----------------------------
(***************************************************************************)
(* Record reads over one table: compile_simple_query and _compile_operation *)
(* for records, and normalize_result.  A request names a plan, a scope and *)
(* a page size, and carries no cursor or one that some earlier request was *)
(* answered with: readers may resend a cursor, swap cursors or present one *)
(* with another plan.  Nothing is kept between requests, and the table     *)
(* changes under the reader: inserts, retries, merges and retention.       *)
(*                                                                         *)
(* A cursor expires and is refused once the registry, the Schema or the    *)
(* signing key has changed.  A refused request changes nothing, so these   *)
(* refusals are not actions.                                               *)
(***************************************************************************)
EXTENDS MergeTree, Sequences

CONSTANTS
  Scopes,       \* scope digests
  Plans,        \* requests without cursor and page: [order, from, to]
  PageSizes,
  QueryFinal,   \* ResourceLayout.query_final
  TimeOf,       \* [Keys -> Int]: the timestamp field
  IdentityOf,   \* [Keys -> Int]: the identity fields
  BodyRank,     \* [Bodies -> Int]: another non-nullable field
  Digest,       \* [Records -> Nat]: the row fingerprint, as it sorts in the table
  TextRank,     \* where Base64 text sorts among the digests
  Versions,     \* ingestion times, as the adapters' clocks stamp them
  MaxRows,      \* bound on the rows ever inserted
  MaxFetches    \* bound on the number of requests

\* The fields a request may order by: none of them is nullable.
LogicalFields == {"timestamp", "identity", "body"}

Directions == {"asc", "desc"}

ASSUME PaginationAssumption ==
  /\ QueryFinal \in BOOLEAN
  /\ {TextRank, MaxRows, MaxFetches} \subseteq Nat
  /\ PageSizes \subseteq 1..500 /\ Versions \subseteq Nat
  /\ \A p \in Plans : p.order \in Seq([field : LogicalFields, direction : Directions])
  /\ TimeOf \in [Keys -> Int] /\ IdentityOf \in [Keys -> Int] /\ BodyRank \in [Bodies -> Int]
  /\ \A j, k \in Keys : TimeOf[j] = TimeOf[k] /\ IdentityOf[j] = IdentityOf[k] => j = k
  /\ Digest \in [Records -> Nat]
  /\ \A r, s \in Records : Digest[r] = Digest[s] => r = s

VARIABLES
  rows,      \* rows in the parts of the table
  inserted,  \* rows inserted so far; numbers the blocks
  fetches,   \* requests answered so far
  issued,    \* cursors in the hands of readers, with the traversal they belong to
  ended      \* traversals whose last page came without a cursor

table == <<rows, inserted>>
vars == <<table, fetches, issued, ended>>

-----------------------------------------------------------------------------
\* The order of a plan.

DefaultSorts ==
  << [field |-> "timestamp", direction |-> "desc"],
     [field |-> "identity",  direction |-> "asc"],
     [field |-> "row",       direction |-> "asc"] >>

Lacking(plan, s) ==
  IF \A i \in DOMAIN plan.order : plan.order[i].field # s.field THEN <<s>> ELSE << >>

\* The requested order, made deterministic by the default fields it lacks.
Sorts(plan) ==
  plan.order \o Lacking(plan, DefaultSorts[1]) \o Lacking(plan, DefaultSorts[2])
    \o Lacking(plan, DefaultSorts[3])

Value(x, field) ==
  CASE field = "timestamp" -> TimeOf[x.record.key]
    [] field = "identity"  -> IdentityOf[x.record.key]
    [] field = "body"      -> BodyRank[x.record.body]
    [] field = "row"       -> Digest[x.record]

Beyond(s, v, w) == IF s.direction = "asc" THEN v > w ELSE v < w

-----------------------------------------------------------------------------
\* Sort tuples of cursors.

\* The row fingerprint leaves the driver as bytes, and the cursor carries
\* their Base64, or as text; every other value is carried as it is.
Encodings == {"base64", "hex"}

Encoded(x, field, encoding) ==
  IF field = "row" THEN [encoding |-> encoding, digest |-> Value(x, field)] ELSE Value(x, field)

SortTuple(x, plan, encoding) ==
  [i \in DOMAIN Sorts(plan) |-> Encoded(x, Sorts(plan)[i].field, encoding)]

\* Plausible mistake, made by release 1.1.0: Base64 text compared with digests.
PhysicalRowFingerprintAsText(v) == IF v.encoding = "base64" THEN TextRank ELSE v.digest

\* Either encoding is turned back into the stored digest.
PhysicalRowFingerprint(v) == v.digest

Operand(field, v) == IF field = "row" THEN PhysicalRowFingerprint(v) ELSE v

\* keyset: strictly behind the tuple in the plan's order.
Keyset(x, plan, tuple) ==
  LET s == Sorts(plan) IN
  \E j \in DOMAIN s :
    /\ \A i \in 1..(j - 1) : Value(x, s[i].field) = Operand(s[i].field, tuple[i])
    /\ Beyond(s[j], Value(x, s[j].field), Operand(s[j].field, tuple[j]))

-----------------------------------------------------------------------------
\* One request.

NoCursor == [none |-> TRUE]

\* y sorts behind x.
After(y, x, plan) ==
  LET s == Sorts(plan)
      Tied(i) == Value(x, s[i].field) = Value(y, s[i].field)
  IN \E j \in DOMAIN s :
       (\A i \in 1..(j - 1) : Tied(i)) /\ Beyond(s[j], Value(y, s[j].field), Value(x, s[j].field))

\* ORDER BY: rows of equal tuples have equal records, so that the engine's
\* choice between them shows nowhere; they are taken in the order of insertion.
Precedes(x, y, plan) ==
  After(y, x, plan) \/ (~After(x, y, plan) /\ x.block < y.block)

\* LIMIT n
First(n, R, plan) == {x \in R : Cardinality({y \in R : Precedes(y, x, plan)}) < n}

Read == IF QueryFinal THEN Final(rows) ELSE rows

Matching(plan, scope) ==
  {x \in Read : x.scope = scope /\ TimeOf[x.record.key] \in plan.from..plan.to}

Content(R) == {<<x.scope, x.record>> : x \in R}

\* Plausible mistake: the cursor is not checked against the plan it is used with.
AcceptsAnyPlan(c, plan, scope, size) ==
  c # NoCursor => c.scope = scope /\ c.size = size

\* Plausible mistake: the cursor is not checked against the caller's scope.
AcceptsAnyScope(c, plan, scope, size) ==
  c # NoCursor => c.plan = plan /\ c.size = size

\* CursorSigner.verify with the expectations of this request.
Accepts(c, plan, scope, size) ==
  c # NoCursor => c.plan = plan /\ c.scope = scope /\ c.size = size

Selected(plan, scope, c) ==
  {x \in Matching(plan, scope) : c # NoCursor => Keyset(x, plan, c.tuple)}

\* The traversal so far: its pages, and what was there to be read all along.
Traversal(plan, scope, c, page) ==
  [plan   |-> plan,
   scope  |-> scope,
   pages  |-> Append(IF c = NoCursor THEN << >> ELSE c.pages, Content(page)),
   stable |-> IF c = NoCursor THEN Content(Matching(plan, scope)) ELSE c.stable]

Cursor(t, size, tuple) ==
  [plan |-> t.plan, scope |-> t.scope, size |-> size, tuple |-> tuple,
   pages |-> t.pages, stable |-> t.stable]

LastOf(page, plan) == CHOOSE x \in page : \A y \in page \ {x} : Precedes(y, x, plan)

\* Plausible mistake: the boundary is the extra row that was fetched.
BoundaryAtExtra(fetched, size, plan) == LastOf(fetched, plan)

\* The last visible row of a page bounds the next one.
Boundary(fetched, size, plan) == LastOf(First(size, fetched, plan), plan)

\* Plausible mistake: no extra row is fetched, so no page ever has a successor.
FetchedExactly(plan, scope, size, c) == First(size, Selected(plan, scope, c), plan)

Fetched(plan, scope, size, c) == First(size + 1, Selected(plan, scope, c), plan)

Fetch(plan, scope, size, c) ==
  LET fetched == Fetched(plan, scope, size, c)
      t == Traversal(plan, scope, c, First(size, fetched, plan))
  IN
  /\ fetches < MaxFetches
  /\ fetches' = fetches + 1
  /\ Accepts(c, plan, scope, size)
  /\ IF Cardinality(fetched) > size
       THEN /\ \E e \in Encodings :
                 issued' = issued \cup
                   {Cursor(t, size, SortTuple(Boundary(fetched, size, plan), plan, e))}
            /\ UNCHANGED ended
       ELSE /\ ended' = ended \cup {t}
            /\ UNCHANGED issued
  /\ UNCHANGED table

-----------------------------------------------------------------------------
\* The table changes; what a traversal could have read all along shrinks.

Remaining(c) == [c EXCEPT !.stable = @ \cap Content(Matching(c.plan, c.scope)')]

Insert(scope, record, version) ==
  /\ inserted < MaxRows
  /\ inserted' = inserted + 1
  /\ rows' = rows \cup
       {[scope |-> scope, record |-> record, ingested |-> version, block |-> inserted', pos |-> 1]}

Merge(x) == Superseded(x, rows) /\ rows' = rows \ {x} /\ UNCHANGED inserted

\* The table TTL.
Purge(x) == rows' = rows \ {x} /\ UNCHANGED inserted

TableStep ==
  /\ \/ \E s \in Scopes, r \in Records : \E v \in Versions : Insert(s, r, v)
     \/ \E x \in rows : Merge(x) \/ Purge(x)
  /\ issued' = {Remaining(c) : c \in issued}
  /\ UNCHANGED <<fetches, ended>>

Init == rows = {} /\ inserted = 0 /\ fetches = 0 /\ issued = {} /\ ended = {}

Next ==
  \/ \E p \in Plans, s \in Scopes, n \in PageSizes : \E c \in issued \cup {NoCursor} :
       Fetch(p, s, n, c)
  \/ TableStep

Spec == Init /\ [][Next]_vars

-----------------------------------------------------------------------------
\* Properties.

Traversals == issued \cup ended

\* Pages follow one another: whatever is inserted, replaced, merged or expired
\* between two requests, and whichever cursors are resent, every row of a later
\* page of a traversal sorts behind every row of the earlier ones.  No record
\* is delivered on two pages.
PagesAdvance ==
  \A t \in Traversals : \A i, j \in DOMAIN t.pages : i < j =>
    \A d \in t.pages[i], e \in t.pages[j] : After([record |-> e[2]], [record |-> d[2]], t.plan)

\* A traversal read to its end has delivered every record that was visible
\* from its first request to its last: nothing falls between two pages.
TraversalComplete ==
  \A t \in ended : t.stable \subseteq UNION {t.pages[i] : i \in DOMAIN t.pages}

\* Every page of a traversal stays in the scope of its first request, also
\* when cursors are taken from another caller.
ScopeKept ==
  \A t \in Traversals : \A i \in DOMAIN t.pages : \A d \in t.pages[i] :
    d[1] = t.scope /\ (i > 1 => \A e \in t.pages[1] : e[1] = d[1])

=============================================================================
