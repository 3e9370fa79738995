------------------------------ MODULE Migration ------------------------------
(***************************************************************************)
(* Deployment against one database: ClickHouseMigrator.apply run by jobs   *)
(* that may overlap, crash and be run again, and the startup of runtimes   *)
(* that must find the database as their Binding pins it: probe_adapter and *)
(* verify_physical.  A table never changes once it exists: no statement of *)
(* the adapter alters or drops one.                                        *)
(*                                                                         *)
(* The metadata table is a ReplacingMergeTree(updated_at) ordered by       *)
(* resource_ref, hence the versioned variant of MergeTree.                 *)
(***************************************************************************)
EXTENDS Integers, Sequences, FiniteSets

CONSTANTS
  Jobs,          \* deployment jobs
  Runtimes,      \* runtimes that start up
  Bundles,       \* MigrationBundle: [id, layouts]; also what a Binding pins
  Layouts,
  NoLayout,
  ResourceOf,    \* [Layouts -> ...], as are the next five
  TableOf,
  ColumnsOf,
  OrderOf,       \* sorting key
  RetentionOf,   \* table TTL
  IsAppendOnly,
  EngineWindow,  \* deduplication tokens the metadata table remembers
  MaxApplies     \* bound on the number of calls of apply

Resources == {ResourceOf[l] : l \in Layouts}
Tables == {TableOf[l] : l \in Layouts}

LayoutsOf(b) == {b.layouts[i] : i \in DOMAIN b.layouts}

ASSUME MigrationAssumption ==
  /\ NoLayout \notin Layouts
  /\ DOMAIN ResourceOf = Layouts /\ DOMAIN TableOf = Layouts /\ DOMAIN ColumnsOf = Layouts
  /\ DOMAIN OrderOf = Layouts /\ DOMAIN RetentionOf = Layouts
  /\ IsAppendOnly \in [Layouts -> BOOLEAN]
  /\ {EngineWindow, MaxApplies} \subseteq Nat
  /\ \A b \in Bundles :
       /\ b.layouts \in Seq(Layouts) /\ b.layouts # << >>
       /\ \A i, j \in DOMAIN b.layouts :
            i # j => ResourceOf[b.layouts[i]] # ResourceOf[b.layouts[j]]

VARIABLES
  tables,    \* [Tables -> the layout whose DDL created it, or NoLayout]
  metadata,  \* rows of _meridian_resources; empty also before it exists
  tokens,    \* deduplication tokens of the metadata blocks, in order
  wire,      \* metadata inserts that have been sent and not arrived
  clock,     \* real time: the calls of apply so far
  job,       \* what each job is doing
  runtime,   \* what each runtime is doing
  current    \* history: the bundle applied last, unless a job has begun since

database == <<tables, metadata, tokens, wire>>
vars == <<database, clock, job, runtime, current>>

MT == INSTANCE MergeTree WITH Keys <- Resources, Bodies <- Layouts, AppendOnly <- FALSE

NoBundle == [id |-> "none", layouts |-> << >>]

Idle == [stage |-> "idle", bundle |-> NoBundle, at |-> 0, alone |-> FALSE]
Down == [stage |-> "down", binding |-> NoBundle, seen |-> {}]

Init ==
  /\ tables = [t \in Tables |-> NoLayout]
  /\ metadata = {} /\ tokens = << >> /\ wire = {} /\ clock = 0
  /\ job = [j \in Jobs |-> Idle]
  /\ runtime = [r \in Runtimes |-> Down]
  /\ current = NoBundle

-----------------------------------------------------------------------------
\* ClickHouseMigrator.apply.

\* The bundle is checked against the Binding of the job before anything is
\* executed; a job is only described for a bundle that agrees with it.
BeginApply(j, b) ==
  /\ job[j].stage = "idle"
  /\ clock < MaxApplies
  /\ clock' = clock + 1
  /\ job' = [k \in Jobs |->
       IF k = j
         THEN [stage |-> "ddl", bundle |-> b, at |-> 1,
               alone |-> \A i \in Jobs : job[i].stage = "idle"]
         ELSE [job[k] EXCEPT !.alone = FALSE]]
  /\ current' = NoBundle
  /\ UNCHANGED <<database, runtime>>

Layout(j) == job[j].bundle.layouts[job[j].at]

Advance(j, stage) ==
  LET p == job[j]  last == p.at = Len(p.bundle.layouts) IN
  job' = [job EXCEPT ![j] =
    [p EXCEPT !.at = IF last THEN 1 ELSE p.at + 1, !.stage = IF last THEN stage ELSE p.stage]]

\* CREATE TABLE IF NOT EXISTS, for one layout after the other.
CreateTable(j) ==
  /\ job[j].stage = "ddl"
  /\ tables' = [tables EXCEPT ![TableOf[Layout(j)]] = IF @ = NoLayout THEN Layout(j) ELSE @]
  /\ Advance(j, "check")
  /\ UNCHANGED <<metadata, tokens, wire, clock, runtime, current>>

\* Plausible mistake: the order is compared among the layouts, not with the table.
OrderMatchesItself(l) == IsAppendOnly[l] => tables[TableOf[l]] # NoLayout

\* _verify_append_order, which only append-only layouts ask for.
OrderMatches(l) ==
  IsAppendOnly[l] => tables[TableOf[l]] # NoLayout /\ OrderOf[tables[TableOf[l]]] = OrderOf[l]

CheckOrder(j) ==
  /\ job[j].stage = "check"
  /\ OrderMatches(Layout(j))
  /\ Advance(j, "insert")
  /\ UNCHANGED <<database, clock, runtime, current>>

\* Plausible mistake: the time is a default argument, evaluated on import.
StampOfImport(j) == 0

\* updated_at
Stamp(j) == clock

SendMetadata(j) ==
  /\ job[j].stage = "insert"
  /\ wire' = wire \cup {[job |-> j, bundle |-> job[j].bundle, updated |-> Stamp(j), awaited |-> TRUE]}
  /\ job' = [job EXCEPT ![j].stage = "sent"]
  /\ UNCHANGED <<tables, metadata, tokens, clock, runtime, current>>

\* The insert returns, and OPTIMIZE TABLE ... FINAL merges the table.
FinishApply(j) ==
  /\ job[j].stage = "sent"
  /\ \A m \in wire : m.job = j => ~m.awaited
  /\ metadata' = MT!Final(metadata)
  /\ current' = IF job[j].alone THEN job[j].bundle ELSE current
  /\ job' = [job EXCEPT ![j] = Idle]
  /\ UNCHANGED <<tables, tokens, wire, clock, runtime>>

\* A statement or the order check fails, or the job dies: nothing is undone,
\* and an insert that was sent may still arrive.
AbortApply(j) ==
  /\ job[j].stage # "idle"
  /\ job' = [job EXCEPT ![j] = Idle]
  /\ wire' = {[m EXCEPT !.awaited = @ /\ m.job # j] : m \in wire}
  /\ UNCHANGED <<tables, metadata, tokens, clock, runtime, current>>

-----------------------------------------------------------------------------
\* The engine.

Remembered == LET n == Len(tokens) IN
  {tokens[i] : i \in {k \in 1..n : k > n - EngineWindow}}

MetadataRow(m, i) ==
  [scope |-> "database",
   record |-> [key |-> ResourceOf[m.bundle.layouts[i]], body |-> m.bundle.layouts[i]],
   ingested |-> m.updated, block |-> Len(tokens) + 1, pos |-> i]

\* The insert carries the migration id as its deduplication token.
StoreMetadata(m) ==
  /\ wire' = wire \ {m}
  /\ IF m.bundle.id \in Remembered
       THEN UNCHANGED <<metadata, tokens>>
       ELSE /\ metadata' = metadata \cup {MetadataRow(m, i) : i \in DOMAIN m.bundle.layouts}
            /\ tokens' = Append(tokens, m.bundle.id)
  /\ UNCHANGED <<tables, clock, job, runtime, current>>

-----------------------------------------------------------------------------
\* Startup of a runtime.

Refuse(r) == runtime' = [runtime EXCEPT ![r] = Down]

\* probe_adapter: tables and engines, then the order of append-only tables.
Probe(r, b) ==
  /\ runtime[r].stage = "down"
  /\ \A l \in LayoutsOf(b) : tables[TableOf[l]] # NoLayout /\ OrderMatches(l)
  /\ runtime' = [runtime EXCEPT ![r] = [stage |-> "probed", binding |-> b, seen |-> {}]]
  /\ UNCHANGED <<database, clock, job, current>>

\* verify_physical reads the metadata first ...
ReadMetadata(r) ==
  /\ runtime[r].stage = "probed"
  /\ runtime' = [runtime EXCEPT
       ![r].stage = "verifying", ![r].seen = {x.record.body : x \in MT!Final(metadata)}]
  /\ UNCHANGED <<database, clock, job, current>>

\* Plausible mistake: the columns are taken from the metadata, not from the table.
VerifiedByMetadata(seen, l) == l \in seen /\ OrderMatches(l)

Verified(seen, l) ==
  /\ l \in seen
  /\ tables[TableOf[l]] # NoLayout /\ ColumnsOf[tables[TableOf[l]]] = ColumnsOf[l]
  /\ OrderMatches(l)

\* ... and compares it and the tables with every layout of the Binding.
VerifyTables(r) ==
  /\ runtime[r].stage = "verifying"
  /\ IF \A l \in LayoutsOf(runtime[r].binding) : Verified(runtime[r].seen, l)
       THEN runtime' = [runtime EXCEPT ![r].stage = "ready", ![r].seen = {}]
       ELSE Refuse(r)
  /\ UNCHANGED <<database, clock, job, current>>

Stop(r) ==
  /\ runtime[r].stage # "down"
  /\ Refuse(r)
  /\ UNCHANGED <<database, clock, job, current>>

-----------------------------------------------------------------------------
Next ==
  \/ \E j \in Jobs :
       \/ \E b \in Bundles : BeginApply(j, b)
       \/ CreateTable(j) \/ CheckOrder(j) \/ SendMetadata(j) \/ FinishApply(j) \/ AbortApply(j)
  \/ \E m \in wire : StoreMetadata(m)
  \/ \E r \in Runtimes :
       \/ \E b \in Bundles : Probe(r, b)
       \/ ReadMetadata(r) \/ VerifyTables(r) \/ Stop(r)

Spec == Init /\ [][Next]_vars

-----------------------------------------------------------------------------
\* Properties.

\* What a FINAL read of the metadata says of a Resource.
Selected(resource) == {x.record.body : x \in {y \in MT!Final(metadata) : y.record.key = resource}}

\* Metadata never runs ahead of the database: every row names a table that
\* exists, and one that an append-only layout names has that layout's sorting
\* key, although jobs for other layouts of the same table overlap, crash
\* between DDL and metadata, and leave inserts that arrive late.
MetadataBacked ==
  \A x \in metadata : LET l == x.record.body IN
    /\ tables[TableOf[l]] # NoLayout
    /\ IsAppendOnly[l] => OrderOf[tables[TableOf[l]]] = OrderOf[l]

\* After an apply that no other job overlapped, verification sees the selected
\* rows (docs/migrations.md:13-14), and goes on seeing them until another job
\* begins, whatever earlier jobs left behind.
AppliedIsSelected == \A l \in LayoutsOf(current) : Selected(ResourceOf[l]) = {l}

\* A runtime that serves has tables with the columns it reads and writes, and
\* under an append-only layout the sorting key that keeps every content.
ReadyIsPhysical ==
  \A r \in Runtimes : runtime[r].stage = "ready" =>
    \A l \in LayoutsOf(runtime[r].binding) : LET t == tables[TableOf[l]] IN
      /\ t # NoLayout /\ ColumnsOf[t] = ColumnsOf[l]
      /\ IsAppendOnly[l] => OrderOf[t] = OrderOf[l]

\* "IF NOT EXISTS cannot upgrade an old table.  Never relabel its metadata."
\* (migrations.py:65): a row names the table its own layout describes.
NeverRelabelled ==
  \A x \in metadata : LET l == x.record.body  t == tables[TableOf[l]] IN
    t # NoLayout => OrderOf[t] = OrderOf[l] /\ RetentionOf[t] = RetentionOf[l]

=============================================================================
