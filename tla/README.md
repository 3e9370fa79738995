# Formal model of the Meridian ClickHouse adapter

TLA+ modules, TLC runs and TLAPS proofs about `meridian-storage-clickhouse`: the Meridian storage
adapter that turns mapping-first Operations into ClickHouse inserts and queries. Paths below are
relative to the package, `src/meridian_storage/adapters/clickhouse/`, unless they start with
`docs/` or are in the root of the repository. `PROJECT.json` maps every definition to its lines.

## 1. The system

| Component | State it keeps | Operations | Talks to | What makes it correct |
| --- | --- | --- | --- | --- |
| Runtime (`runtime.py`) | lock, lease, cached probe | `open`, `probe`, `verify_physical`, `open_session`, `close` | connector, probe | a lease in use was authenticated and matches the pin; no client is lost or doubled, and an interrupt costs one connection at most; the lock is always released |
| Client lease (`client.py`) | driver client, temporary TLS files | `connect`, `close` | file system, server | files and client live and die together, whichever step fails |
| Session (`runtime.py`) | client, closed flag | `execute`, `close` | query compiler, write path | guards before effects; a refusal is final, only a transient failure leaves a write open; time limits follow the deadline; a page is whole |
| Write path (`ingestion/batch.py`) | none; the token and rows of one insert | `prepare_batch`, `BatchExecutor.execute` | server | a receipt means stored; retries are harmless |
| Query compiler (`query/compiler.py`) | none; everything a page needs is in its cursor | `compile_wire`, `compile_simple_query`, `normalize_result` | cursor signer, server | scans are bounded; pages neither lose nor repeat rows; scope is kept |
| Tables (`schema/compiler.py`, `schema/layout.py`) | in the server: parts, deduplication tokens, partitions | DDL | server | the sort key keeps what must be kept; a layout survives its document; one fingerprint, one table |
| Migrations (`migrations.py`) | in the server: tables, metadata | `plan_initial_migration`, `apply` | server | metadata never claims what the tables are not |
| Probe and verification (`probe/health.py`) | none | `probe_adapter`, `verify_physical` | server | fails closed on any drift |
| Configuration (`configuration.py`), descriptor (`descriptor/`) | none | `from_binding`, `adapter_descriptor` | layouts | closed documents; what is advertised for a Binding holds for each of its tables |
| Canonical JSON and timestamps (`_canonical.py`, `_timestamps.py`) | none | parsing, rendering | - | exact ticks; values that are written, read, compared and written again stay what they are |

Core calls the runtime and its sessions, possibly from several threads. A session owns nothing but
its client; the durable state is ClickHouse's, and every guarantee rests on how the adapter uses a
`ReplacingMergeTree`, its deduplication tokens and its `FINAL` reads. Deployment jobs run the
migrator against the same database before, between and during runtimes.

What is hard here:

- **Lost answers and late inserts.** `client.insert` may time out while the server goes on; callers
  retry; the server drops a block whose token it remembers and forgets tokens after a while.
- **Partial inserts.** A batch over several partitions becomes visible partition by partition.
- **Merges and versions.** Which of two rows survives depends on clocks of different hosts and the
  order of insertion, and must not depend on when the engine merges.
- **Live pagination.** The table changes between pages, cursors can be resent, swapped between
  requests and come in two encodings.
- **Unlocked reads of the lease.** `open_session` takes no lock although `open` publishes the lease
  before it probes.
- **Failures halfway.** Through `connect`, through `apply`, and between DDL and metadata; and
  interrupts, which `open` does not handle as it handles an `Exception`.
- **The clock moves during a call.** The deadline is read up to three times in a query, once in a
  write, and never again once an insert has been sent; the time limit of a query is computed some
  time before it is sent and rounded up to a millisecond.
- **Values in several spellings.** One value is a JSON value, a driver value, a column, a result, a
  cursor and a parameter; every conversion of it can lose or change something.
- **Layout documents.** A Binding carries layouts as documents with a fingerprint, legacy ones
  without `appendOnly`; what shapes the table must be what is hashed.
- **Boundaries.** Of time windows, page sizes, result limits, integer widths and batch sizes.

`PROJECT.json` lists the hazards at their lines, with the properties that cover them or the reason
why none does yet.

## 2. Modules

| Module | Models | State |
| --- | --- | --- |
| `MergeTree` | what the DDL makes of a table: equal under `ORDER BY` (`SameKey`), the surviving row (`Newer`), the `FINAL` read (`Final`) | operators only; used by the three modules that have tables |
| `EvidenceLog` | abstract: visible evidence grows, partitions retire, a receipt covers what is visible | `visible`, `acknowledged`, `retired` |
| `Ingestion` | the write path with the engine below it | calls in progress, inserts on the wire, blocks and tokens, rows, expired partitions |
| `Lifecycle` | one runtime shared by threads, with interrupts | lock, lease, probe, per-thread program counter, open clients, files, sessions |
| `Dispatch` | one call of a session: guards, deadline, both branches, result limits, outcome | clock, session, stage of the call, time limit, where the insert is, outcome |
| `Pagination` | record reads page by page over a table that changes | rows, cursors in readers' hands, finished traversals |
| `QueryBounds` | the time-range checks of both compilers, and the rows their predicates select | operators only |
| `Timestamps` | RFC 3339 texts and ticks of a `DateTime64(9)` | operators only |
| `Values` | a value on its way into a column, out of it, into a cursor and into a parameter | operators only; extends `Timestamps` |
| `Layouts` | compilation of a Schema, layout documents, what a Binding accepts, the table of a layout, the append-only promise | operators only |
| `Translation` | all of these, one input at a time | the input and the verdict on it |
| `Migration` | `apply` by deployment jobs and startup of runtimes | tables, metadata rows and tokens, inserts on the wire, stage of each job and runtime |
| `MC...` | the instances for TLC | - |
| `MergeTreeProofs`, `IngestionProofs`, `LifecycleProofs`, `DispatchProofs`, `MigrationProofs`, `PaginationProofs` | theorems about the module they extend | - |
| `ValuesProofs` | lemmas about `Timestamps` and `Values`: induction, powers, digits, instants, the round trip of a value of each type | - |
| `TranslationProofs` | theorems about `Translation`, on these lemmas and its own about filters and layouts | - |

`Ingestion` and `Pagination` extend `MergeTree`, `Translation` extends `QueryBounds`, `Values` and
`Layouts`; `Migration` instantiates it for its metadata table,
whose version is `updated_at`. `Ingestion` instantiates `EvidenceLog` under a refinement mapping.

### Ingestion

A write Operation is a constant: its scope digest (`ScopeOf`), stable key (`StableKeyOf`: the
idempotency key, else the request id) and records (`DataOf`). `Acceptable` is the set of Operations
that pass the checks on their contents; empty and oversized batches are refused by `Admitted`.

| Action | Code |
| --- | --- |
| `Write` | `_execute` up to `client.insert`: the batch is admitted, stamped with the host's clock and sent |
| `Receipt` | `client.insert` returned and the caller gets a `BatchReceipt` |
| `GiveUp` | `client.insert` raised, or the process died: the insert stays where it is |
| `StoreBlock` | engine: one partition of an insert is stored, or dropped because its token is remembered |
| `Merge`, `Expire`, `Purge`, `Tick` | engine and time: background merges, table TTL, clocks |

A retry is another `Write` of the same Operation. An insert that is never taken further is a lost
one. A record is a key (timestamp and identity fields) and a body (all the rest, including the
spelling of a value, over which the row fingerprint is taken); fingerprints are taken as injective.
What the variable `ordered` records, which put was issued after whose receipt, is history that
`NoResurrection` needs and no action reads.

### Lifecycle

`pc` names the step a thread is at inside `open` (`ca`, `cert`, `client`, `probe`), `close`
(`closing`) and `open_session` (`assert`, `take`). `probe()` is the action `Reprobe` where it finds
no cached result, which only an interrupted `open` leaves; it does not compare the pin. The lock is
held for the whole of `open` and `close`; the reads of `open_session` are three actions (its two
calls of `_require_open` are one). `server` says whether the manifest and the version would match
the pin; it can change at any time. An interrupt is a `BaseException` at any step of `open` or
`close` (`InterruptConnect`, `InterruptProbe`, `InterruptBeforeClose`, `InterruptClose`): the `with`
block releases the lock, but the handlers of `Exception` do not run, so that files, a client or a
published lease may stay. `checked` and `interrupted` are history.

### Pagination

A plan is an order, over fields that are not nullable, and a time window. `Fetch` is one request:
cursor check (`Accepts`), scope and window (`Matching`), keyset predicate (`Keyset`), `LIMIT size +
1` (`Fetched`), and the cursor made of the last visible row (`Boundary`, `SortTuple`). A cursor
record also carries what the traversal has delivered and what has been there all along; both are
history for the properties, no guard reads them. The row fingerprint travels as Base64 or as text,
and `PhysicalRowFingerprint` turns both back. The digests of `MCDigest` straddle the place where
Base64 text would sort (`TextRank`), so that a wrong comparison shows.

### Dispatch

The stages follow `_execute`: `idle`, `checked` (the guards up to the split), `compiled` (a query is
ready), `timed` (its time limit has been taken from the clock), `sent`, `done`. A request is what
Core routed, the operation of its wire plan, its page, its deadline, how many rows it matches and
the set of its flaws; the first guard that fails names the class (`Guards`). `Adapter` are the steps
of the process, `Engine` those of the driver and the server, which may answer, overflow, refuse,
stay silent, or store an insert its caller has given up on. `Tick` may come between any two steps,
also between the reading of the clock (`ReadTimeLeft`) and the sending of the query (`SendQuery`). A
tick is a fraction of a millisecond (`Millisecond` has several), so that less than a millisecond can
be left and the floor of `_timeout_seconds` matters: the engine then gets more time than the caller
has. `TimeLimitFits` states what remains true: a limit is never missing, never above the configured
one, and lies within the deadline as of the reading or is that one millisecond. `readAt` is history.
Whether a limit of bytes or of the plan's budget is exceeded is a free outcome (`RefuseAnswer`); the
row limit is computed.

### Translation

The compilers, codecs and layouts keep no state, so that a behaviour is one input, translated in one
step; what becomes of it is compared with what it says.

- *Filters.* Wire filters are expressions over time ranges (open at either end), other predicates,
  `NOT`, `AND` and `OR`: a set `Filters` that holds the arguments of its members, with a `Height`
  that makes each of them finite; mapping-first filters are functions from operators to instants or
  null. `Matched` is what the compiled predicate can select.
- *Values.* A value is a pair of a tag (what Python type, or what a string spells) and a content.
  `Coerce` is `_coerce`, `Column` what driver and engine make of it (widths and scales), `Fetched`
  what the driver returns under a column format, `JsonValue` is `_logical_json_value`, `Parameter`
  and `Operand` the way of a filter's operand. `Denoted` is the reference: the instant a text
  denotes, digit by digit. Column types are those whose conversion does something: booleans,
  integers, strings, timestamps, decimals, bytes and documents. What records and filters carry is
  `JsonValues`; widths are the constants `TickLimit` and `IntLimit`, 2^63 in the code. A JSON float
  is a pair of the numeral it is spelled as and the number it exactly is: a decimal column gets the
  latter (`Decimal(value)`), a parameter carries the former. The number a decimal says
  (`NumberOf`) and how far from it a delivered one may be (`Near`) are defined apart from `Coerce`
  and from the cutting at the scale.
- *Layouts.* A Schema and the caller's choice of roles become a layout (`LayoutOf`, `Compiles`), a
  layout becomes a document and is read back (`ToDocument`, `Parses`), documents become a Binding
  (`BindingAccepts`), a layout a table (`CreateTable`). A physical name is its logical name and a
  fingerprint is the document it is taken of, hence injective.

### Migration

`BeginApply` ... `FinishApply` follow `apply` statement by statement; `AbortApply` is an error or a
crash at any of them, after which an insert already sent may still arrive (`StoreMetadata`). The
metadata of a layout stands for its fingerprints. `Probe`, `ReadMetadata` and `VerifyTables` are the
startup of a runtime, with jobs free to run between them. `current` is history: the bundle of the
last job that ran alone, until another one begins.

## 3. Runs

| Run | Instance | States | Shows |
| --- | --- | --- | --- |
| `dispatch` | every form of request; pages of 1 and 2 rows, 2 ticks to a millisecond, 3 of timeout, 4 of clock | 103,000 | a refused write is never stored; time limits follow the deadline; pages are whole; lost groups are counted; every call ends |
| `ingest_append` | 2 sessions, 4 Operations in 2 scopes (two share key and scope but not content, two share content and key but not scope, one is too large), 2 calls, 2 partitions, TTL, clocks one tick apart, 1 token remembered | 38,000 | evidence is neither lost, doubled nor invented; implements `EvidenceLog` |
| `ingest_put` | 3 puts of one key, 3 calls, all tokens remembered | 673,000 | an older put never hides an acknowledged newer one |
| `lifecycle` | 3 threads, 3 connections, 2 files, 1 interrupt | 313,000 | fails closed, never answers with an old probe, loses nothing but what an interrupt hit, releases the lock |
| `page_append` | 4 possible records with ties, 3 rows inserted, 3 pages of 1 row, 2 plans | 143,000 | order and completeness of traversals |
| `page_live` | 2 scopes, 2 versions, no `FINAL`, pages of 1 and 2 rows, 2 plans | 149,000 | the same with live replacement and swapped cursors |
| `bounds` | module `MCTranslation`: filters, values, Schemas and Bindings (below) | 160,000 | scans are bounded, values survive, layouts work |
| `migrate` | 2 jobs, 3 bundles, 2 Resources, 3 calls of `apply`, 1 runtime | 343,000 | metadata is backed by tables, verification by what serves |

`bounds` enumerates 80,000 inputs, two states for each: filters of up to 3 operators or 2 leaves
over 7 instants, 2 ticks a second and a limit of 2 seconds; values of every tag for every column
type, with digits of base 3, 3 of them in a tick and 2 in a microsecond, integers of 3 bits
(`IntLimit = 4`), decimals of 2 digits and floats that are what they spell or one unit of a further
digit off it; Schemas of three fields with and without a profile,
under every choice of roles that a caller can override; Bindings of one or two documents, original,
legacy and edited.

Why the bounds are enough. Three calls (`ingest_put`) allow a call, its retry and a third one
between or after them, which is every pattern in which a token can be confused or forgotten.
`ingest_append` makes two: a batch over two partitions already makes the engine forget the token of
its first block before the retry, and the safety properties it checks are proved for any number. Two
partitions make a batch partial; two sessions make calls overlap. Three threads give one in `open`,
one in `close` and one in `open_session`; one interrupt leaves a connection that two further ones
find. Three rows and pages of one row give a first page, a middle page and a last one with a change
between any two; that the properties hold for any number of rows, pages and plans is proved. A page
limit of 2 has a smaller page, a full one, one row too many and two too many; with three ticks of
timeout and a millisecond of two, a deadline leaves the limit alone, cuts it, cuts it to exactly a
millisecond, or leaves a single tick, less than the limit that is given. A span that is one tick
over the limit and one below it both fall on the grid of `bounds`; a fraction can be shorter than a
microsecond, as long as one and longer, and instants lie on both sides of 1970; that the same holds
of any filter, number of digits and width is proved. Three calls of `apply` allow an old bundle, a
newer one and either of them again. The constants that only bound the search are `MaxWrites`,
`MaxClock`, `MaxLeases`, `MaxInterrupts`, `MaxRows`, `MaxFetches` and `MaxApplies`; the proofs do
not depend on their values.

`CHECK_DEADLOCK FALSE` is set in every run: each model stops when its bound is used up,
`Translation` after one input and `Dispatch` after one call; nothing else stops for ever
(`LockReleased`, `CallsEnd`). Session and job symmetry is used where no liveness
property is checked.

### Fairness

- `CallsEnd`: weak fairness of the steps of the adapter, which are local code, and of `GiveUp`:
  `connect` gives every connection a `send_receive_timeout` (`client.py:85`), so the driver ends a
  call the engine never answers. Nothing is assumed of the engine.
- `LockReleased`: weak fairness of the steps of a thread inside `open` or `close`. They are local,
  or calls under the same timeouts. Nothing is assumed of threads outside the lock.

### Runs that end in a violation

Each checks one statement of the repository that the code does not keep; `findings` in
`PROJECT.json` quotes the line.

- `ingest_put_window`: retries are idempotent within the advertised window (`README.md:62`). The
  window is advertised, but nothing configures the engine to remember tokens for it, and with one
  token remembered a repeated put brings its old version back. In `ingest_put`, where the engine
  remembers all tokens, the same property holds; append-only evidence (`ingest_append`) keeps it
  with any window.
- `lifecycle_pin`: startup verifies the pin (`docs/architecture.md:31`). A session taken while
  another thread is inside `open` gets an unverified client.
- `bounds_or`: every scan has a bounded range (`README.md:64`). A range under `OR` is counted.
- `migrate_relabel`: "Never relabel its metadata" (`migrations.py:65`). Only append-only sorting
  keys are compared, so that a changed retention is relabelled.

Consequences of the code that no run is spent on, but that the models have:

- `close` can run between `_require_open` and the assertion of `_client` (`AssertLease` without a
  lease).
- The CA file stays when the certificate after it cannot be written (`WriteFails` removes nothing).
- An interrupt in the probe leaves a lease that was never verified. The next `open` returns early
  because of it and `probe()` then caches a manifest without comparing the pin, so that sessions
  are handed out over it: `ProbedWhenFree` has to except interrupted connections.
- With `EngineWindow = 2` in `migrate.cfg` a bundle applied again after another one is dropped as a
  duplicate while `apply` returns normally, so that `AppliedIsSelected` fails.
- A mapping-first aggregate of exactly 501 groups loses one without an error; a wire plan loses all
  beyond its page. `GroupsLost` states how many can be lost, not that none is.
- `Decimal("abc")` raises `InvalidOperation`, which is no `ValueError`, so that a record that can
  never be stored is reported as a transient failure and invites retries.
- A delivered bytes value used as a filter finds no row, and a cursor over bytes that spell no text
  does not find its own row; `FilterFinds` and `CursorResumes` except them.
- A JSON float given for a decimal column is stored by its binary expansion (`batch.py:217`) and cut
  at the scale, but a filter with the same float passes its spelling (`query/compiler.py:843`): 0.29
  is stored and delivered as 0.28 at scale 2, and asked for as 0.29. `ValuesSurvive` measures from
  the number the float is, `FilterFinds` excepts floats that are not what they spell.
- With less than a millisecond left the engine is given a whole one (`runtime.py:405`), and every
  query runs against a limit that was taken before it was sent: it may outlive the deadline by that
  much (`TimeLimitFits`).
- Puts of hosts whose clocks differ (`Skew` above 0) can resurrect an older version;
  `NoResurrection` holds for one clock.

## 4. Proofs

TLC checks the instances above; these hold for all constants that satisfy the modules'
assumptions (`MergeTree!AppendOnlyAssumption`, `IngestionAssumption`, `LifecycleAssumption`,
`DispatchAssumption`, `MigrationAssumption`, `PaginationAssumption`; for `Translation`
`QueryBoundsAssumption`, `FiltersAssumption`, `TimestampsAssumption`, `ValuesAssumption`,
`LayoutsAssumption`, `InputsAssumption`). The last six say that the limit is shorter than the range
of a `DateTime64`, that expressions are finite and have the arguments of their kind, that a base,
widths and scales are what their names say, that hidden columns have names no Schema may use
(`schema/layout.py:81`), and that inputs are filters and values of the JSON type.

| Theorem | Says |
| --- | --- |
| `MergeTreeProofs!MergeInvisible` | merging a superseded row away changes no `FINAL` read |
| `IngestionProofs!TypeCorrect` | `Spec => []TypeOK` |
| `IngestionProofs!Invariance`, `ReceiptMeansVisible` | `Spec => []IInv`, `Spec => []AcknowledgedVisible` |
| `IngestionProofs!AppendImplementsLog` | for append-only layouts `Spec => ImplementsEvidenceLog` |
| `IngestionProofs!RetriesHarmless` | for append-only layouts `RetryIdempotent` holds, with any deduplication window |
| `IngestionProofs!RetriesRemembered` | for layouts of either kind `RetryIdempotent` holds as long as the engine remembers the tokens of all blocks (`WindowSuffices`) |
| `IngestionProofs!NothingResurrected` | for versioned layouts, with `Skew = 0` and distinct batches, `NoResurrection` holds as long as the engine remembers the tokens of all blocks |
| `LifecycleProofs!TypeCorrect`, `Invariance` | `Spec => []TypeOK`, `Spec => []IInv` |
| `LifecycleProofs!StartupFailsClosed`, `ProbesAreFresh`, `NoClientLost`, `CertificateRemoved` | `ProbedWhenFree`, `ProbeFollowsLease`, `ClientsOwned`, `CertificateFollowsClient` always hold |
| `DispatchProofs!TypeCorrect` | `Spec => []TypeOK` |
| `DispatchProofs!RefusalsAreFinal`, `LimitsFit`, `AnswersWhole`, `GroupsCounted` | `RefusedMeansUnstored`, `TimeLimitFits`, `PagesWhole`, `GroupsLost` always hold |
| `MigrationProofs!MetadataIsBacked`, `ReadinessLasts` | `MetadataBacked`, `ReadyIsPhysical` always hold |
| `MigrationProofs!ApplySettles` | where the engine deduplicates no inserts (`EngineWindow = 0`), `AppliedIsSelected` always holds |
| `PaginationProofs!PagesInOrder`, `NothingSkipped`, `ScopesKept` | `PagesAdvance`, `TraversalComplete`, `ScopeKept` always hold |
| `PaginationProofs!EachRecordOnce` | an ended traversal has each record that was visible all along on exactly one page |
| `TranslationProofs!VerdictsDecided` | `Spec => []Decided`: a verdict is what the code that was asked says of the input |
| `TranslationProofs!SimpleScansAreBounded`, `ConjunctiveScansAreBounded`, `WindowsAreAccepted` | `SimpleScansBounded`, `ConjunctiveScansBounded`, `WindowsAccepted` always hold |
| `TranslationProofs!TimestampsAreExact`, `ValuesDoSurvive`, `RewritesAreStable`, `FiltersFind`, `CursorsResume` | `TimestampsExact`, `ValuesSurvive`, `RewriteStable`, `FilterFinds`, `CursorResumes` always hold |
| `TranslationProofs!LayoutsWork`, `FingerprintsAreSound`, `PromisesAreKept` | `CompiledLayoutsWork`, `OneTablePerFingerprint`, `PromiseKept` always hold |

**Ingestion.** `AcknowledgedVisible` is not inductive: a receipt is given for an insert whose
blocks were stored, dropped or merged away long before. `IInv` follows the evidence through these
steps. A token in `blocks` stands for records that are stored (`TokensStored`), so that dropping a
block because of its token loses nothing, as far back as the engine may remember; a partition an
insert is done with is stored (`InsertsStored`); hence what a receipt covers is stored
(`ReceiptsStored`). Stored rows may be hidden, but only by a row a `FINAL` read returns
(`LiveRepresented`), which takes that newer rows are comparable and bounded: `RowsNumbered`, and
the lemmas of `MergeTreeProofs` about greatest elements. That a deduplication window of any size
will do is part of the result. The proof that the table implements `EvidenceLog` maps
`StoreBlock` to `Reveal` or a stutter, `Receipt` to `Acknowledge`, `Expire` to `Retire`, and
everything else, merges among them, to a stutter. `RetriesHarmless` follows from it: what an
acknowledged operation reveals is there already, and as rows are finitely many and told apart by
block and place, a `FINAL` read of an append-only table has one row for each record.

Of a versioned table the same is true only while no token is forgotten, and `RetriesRemembered`
says so: a receipt is given when nothing of an insert is left to store, so that the tokens of all
its partitions are on record (`NotedInv`); with `WindowSuffices` what is on record is remembered,
and an operation that is sent again stores nothing (`RetryStoresNothing`). The run
`ingest_put_window` is the other half: without the hypothesis the property fails.

`NoResurrection` needs more, and the theorem names it. Each token a block left is represented by a
row that outranks the rows of operations that had their receipt when its own operation was first
issued (`RankInv`): an insert carries a stamp that is not older than theirs (`Skew = 0`) and a
later block number, and such an operation stores nothing any more, since all its tokens are
remembered (`NotedInv`, `WindowSuffices`). Without the window the run `ingest_put_window` shows
what happens; with skew a later put loses to an earlier one. Two operations with one batch
would be one operation to the engine, hence `DistinctBatches`.

**Lifecycle.** `LockInv` says that the one thread inside `open` or `close` is the holder of the
lock, `HolderInv` what it knows of the runtime meanwhile (no lease while it connects, its own lease
while it probes, none while it closes), `FreshInv` that a connection number not yet taken has
neither certificate nor client. The unlocked steps of `open_session` leave all of this alone,
which is why they disturb only properties of sessions. An interrupt only
moves what the properties except: the connection it hits is in `interrupted`, and `HolderInv` of no
other thread speaks of it. `ProbeFollowsLease` excepts no interrupt: `close` drops the probe before
the lease and `open` sets it last, so that wherever either of them stops no probe of an earlier
connection is left. Its proof takes from `HolderInv` that there is no probe while a lease is
published or taken back.

**Dispatch.** The invariant relates the stage to everything else: nothing has been sent before
`sent`, an insert exists only for a write whose contents were accepted, and an outcome other than
success or a transient failure is given only where no insert exists or the engine has refused it.
The time limit is settled by arithmetic at the one step that reads it (`TimeoutFits`): the deadline
has not elapsed there, so that the floor adds less than a millisecond to what is left. `Produced` is
bounded by the page plus one because the largest page is `PageLimit` and the engine's limit is one
more.

**Migration.** Three invariants, one per theorem. `BackInv`: tables are only ever created, so what a
job has seen stays (`BackedStable`); how far a job has come is how far its layouts exist and have
been compared (`OnCourse`), what it sends is backed, and so is what is stored of it. `ReadyInv`
carries the same fact to a runtime between its probe and its service. `SettleInv` orders the
stamps: those on the wire and in the metadata are not later than the clock, a job that is alone
has a later stamp than all others, hence its rows are what `FINAL` returns whatever arrives
afterwards. It needs that the insert is not dropped, which is the assumption on the window.

**Pagination.** A cursor marks the place of some record in the order of its plan (`ResumesAt`):
what the traversal has delivered is not behind that place, and what has been there all along is
delivered or behind it. One page keeps this. The keyset predicate is the lexicographic order of the
sort columns (`KeysetIsAfter`, `AfterIsLex`), which is total on records because the fingerprint is
the last of them (`TiedSameRecord`); rows of one record are put in order by their block, so that
`Precedes` is a strict total order on finitely many rows (`RowInv`). A `LIMIT` then takes a
beginning of what is selected (`FirstClosed`), all of it if that is short (`FirstAll`,
`FirstShort`), and the last row taken is the next place. Changes of the table between pages touch
only what has been there all along, which shrinks. `Accepts` ties a cursor to its plan and scope,
whoever presents it. No place is behind itself, hence two pages of one traversal share no record
(`PagesApart`, `EachRecordOnce`).

**Translation.** A behaviour is one input and one verdict, so that the only invariant is `Decided`.
Everything else is about operators, and for all inputs it takes induction. The library's theorems
about induction and recursive definitions take operators as parameters, which no prover here can
instantiate; `ValuesProofs` states them for sets and functions instead, from the least element of a
set of numbers (`NatMinimum`, by `WFMin`). `Induction` and `RankInduction` conclude that a set which
holds an element whenever it holds those of lower rank is everything; `FixedPoint`, that `f = F[f]`
has a solution when `F[f][x]` depends on `f` at elements of lower rank only (`Contracts`), which is
what a recursive function needs to exist (`PowerKnown`, `NumberKnown`, `PartKnown`, `RangesKnown`,
`DisjunctiveKnown`).

- *Scans.* By induction on `Height`: where an expression without `OR` holds, the instant lies in
  each of the ranges `TimestampRanges` collects (`RangesBound`). It collects none below `NOT`, and
  an accepted plan has exactly one. For mapping-first filters the bounds are those the operators
  give (`SimpleConfined`).
- *Instants.* `PaddedExact`: digits filled up with zeros and read as one number are what they are
  worth one by one, by induction on their number. Hence `TicksOf` is `Denoted` (`TicksExact`). The
  way back cuts digits off one by one; `DigitsExact` says that this loses none, by induction, and
  `ResultExact` that a text of no, six or nine digits is chosen only where the rest is zero.
  Quotients of negative numbers are settled by `QuotientUnique`, on both sides of 1970.
- *Values.* Each column type has a lemma (`IntTrip`, `DecimalTrip`, ...) which follows a value
  through its column and back, into a cursor and into a parameter (`RoundTrip`). An accepted
  integer is not wrapped; rescaling a decimal takes off less than one unit (`RescaledNear`), and
  rescaling it again changes nothing (`RescaledOnce`).
- *Layouts.* A table keeps rows exactly where its layout is append-only, because no logical field
  has the name of the hidden column (`OrderKnown`); members of a document determine the table
  (`DeclaredKnown`, `FingerprintsDecide`), and what `LayoutOf` makes passes the checks of a Binding
  (`CompiledWorks`).

Only model-checked: the liveness properties `LockReleased` and `CallsEnd`, because liveness under
fairness is out of the prover's reach. The properties of the four violation runs are false and have
no theorem. Every other property of a run has one, `RetryIdempotent` and `NoResurrection` under the
hypotheses they name.

## 5. What is not modelled

- Aggregate functions, projections, aliases and totals: an aggregate is the number of its groups.
- The sizes of values, results and batches in bytes; that a limit was exceeded is a free outcome.
- Signatures and expiry of cursors; fingerprints are injective and refusals change nothing.
- Several replicas: `insertQuorum`, replica lag, and the readiness checks of `system.replicas`.
- Two Resources on one physical table (see the hazard at `schema/compiler.py:95`).
- The endpoint and the numeric settings of a Binding, column types and the text of the DDL, the
  32-bit `toDateTime` of the TTL, elements of arrays; values of columns of floats, dates, UUIDs and
  points, which are handed to the driver as they are parsed (floats given for a decimal column are
  modelled).
- How the driver rounds: `Rescaled` cuts exactly at the scale. A driver that first rounds the
  product to the column's precision may store the nearer unit of a number with more digits than the
  precision; `ValuesSurvive` allows either, and `FilterFinds` promises nothing beyond the scale.
- The capability descriptor apart from the append-only promise: it is a constant document.
- What the driver does on a closed client beyond raising, which `GiveUp` and `RefuseInsert` cover.
- The signer, the query AST and the budgets of Core and Query, which are not in the repository and
  appear only as what the adapter asks of them.
- Conformance suites, evidence and release scripts: no part of the adapter's behaviour.
- `ColumnsOf` of a table is compared as the code does, but all ways in which columns can differ are
  one value; the Resources given to `verify_physical` are those of the Binding's layouts, and the
  pin on the physical fingerprint is the conjunction of the checks that make it up.

## 6. Plan

1. `Ingestion` with replicas, a quorum and reads of a lagging replica; with two Resources on a
table. 2. `Aggregates`: functions and grouping over a table that changes. 3. `Lifecycle` composed
with `Dispatch`: calls on a client that another thread closes.
