------------------------------ MODULE Ingestion ------------------------------
(***************************************************************************)
(* The write path of the adapter against one table: ClickHouseAdapter-     *)
(* Session._execute (the write branch), prepare_batch and                  *)
(* BatchExecutor.execute, and the part of the ClickHouse engine they rely  *)
(* on.  Sessions write concurrently.  A call puts one insert on the wire   *)
(* and waits; the engine stores the insert partition by partition, may     *)
(* stop at any point, and may still go on after the caller has given up.   *)
(* Callers retry an Operation whenever they like.                          *)
(***************************************************************************)
EXTENDS MergeTree, Sequences

CONSTANTS
  Sessions,       \* open adapter sessions
  Operations,     \* write Operations that callers issue, and issue again
  Scopes,         \* scope digests
  ScopeOf,        \* [Operations -> Scopes]: scope digest of the context
  StableKeyOf,    \* [Operations -> ...]: idempotency key, else request id
  DataOf,         \* [Operations -> Seq(Records)]: the submitted records
  Acceptable,     \* Operations that pass every check on their contents
  MaxBatchRows,   \* ClickHouseSettings.max_batch_rows
  Buckets,        \* partitions
  BucketOfKey,    \* [Keys -> Buckets]: PARTITION BY a function of the timestamp
  HasRetention,   \* whether the layout renders a table TTL
  EngineWindow,   \* deduplication tokens the engine remembers
  Skew,           \* how far the adapters' clocks differ
  MaxClock,       \* bound on time
  MaxWrites       \* bound on the number of calls

ASSUME IngestionAssumption ==
  /\ ScopeOf \in [Operations -> Scopes]
  /\ DOMAIN StableKeyOf = Operations
  /\ DataOf \in [Operations -> Seq(Records)]
  /\ Acceptable \subseteq Operations
  /\ BucketOfKey \in [Keys -> Buckets]
  /\ HasRetention \in BOOLEAN
  /\ {EngineWindow, Skew, MaxClock, MaxWrites, MaxBatchRows} \subseteq Nat

VARIABLES
  clock,         \* real time
  writes,        \* calls made so far; numbers the inserts
  awaiting,      \* the insert each session is waiting for, 0 when it is idle
  inserts,       \* inserts on the wire or in the engine
  blocks,        \* tokens of all blocks ever stored, in order
  rows,          \* rows in the parts of the table
  expired,       \* partitions past the table TTL
  acknowledged,  \* operations for which a caller got a receipt
  issued,        \* history: operations issued at least once
  ordered        \* history: <<a, b>> if b was first issued after a's receipt

table == <<blocks, rows, expired>>
history == <<acknowledged, issued, ordered>>
vars == <<clock, writes, awaiting, inserts, table, history>>

-----------------------------------------------------------------------------
\* What a batch is made of.

\* Plausible mistake: the identity leaves the scope out.
BatchIdWithoutScope(o) == [scope |-> "any", data |-> DataOf[o], key |-> StableKeyOf[o]]

BatchId(o) == [scope |-> ScopeOf[o], data |-> DataOf[o], key |-> StableKeyOf[o]]

Admitted(o) == o \in Acceptable /\ Len(DataOf[o]) \in 1..MaxBatchRows

BucketAt(o, i) == BucketOfKey[DataOf[o][i].key]

Partitions(o) == {BucketAt(o, i) : i \in DOMAIN DataOf[o]}

\* Plausible mistake: the row's batch column and the token are derived apart,
\* and the column's derivation leaves the scope out.
RowWithOtherBatch(m, n, i) ==
  [scope |-> ScopeOf[m.op], record |-> DataOf[m.op][i], batch |-> BatchIdWithoutScope(m.op),
   ingested |-> m.ingested, block |-> n, pos |-> i]

Row(m, n, i) ==
  [scope    |-> ScopeOf[m.op],
   record   |-> DataOf[m.op][i],
   batch    |-> BatchId(m.op),
   ingested |-> m.ingested,
   block    |-> n,
   pos      |-> i]

Block(m, b, n) ==
  {Row(m, n, i) : i \in {j \in DOMAIN DataOf[m.op] : BucketAt(m.op, j) = b}}

-----------------------------------------------------------------------------
\* The adapter.

Init ==
  /\ clock = 0
  /\ writes = 0
  /\ awaiting = [s \in Sessions |-> 0]
  /\ inserts = {}
  /\ blocks = << >> /\ rows = {} /\ expired = {}
  /\ acknowledged = {} /\ issued = {} /\ ordered = {}

\* execute admits the operation, prepare_batch stamps it with this host's
\* clock and BatchExecutor.execute puts the insert on the wire.
Write(s, o) ==
  /\ awaiting[s] = 0
  /\ Admitted(o)
  /\ writes < MaxWrites
  /\ writes' = writes + 1
  /\ awaiting' = [awaiting EXCEPT ![s] = writes + 1]
  /\ \E d \in 0..Skew :
       inserts' = inserts \cup
         {[id |-> writes + 1, op |-> o, ingested |-> clock + d, todo |-> Partitions(o)]}
  /\ issued' = issued \cup {o}
  /\ ordered' = IF o \in issued THEN ordered ELSE ordered \cup (acknowledged \X {o})
  /\ UNCHANGED <<clock, table, acknowledged>>

\* Plausible mistake: fire and forget, a receipt before the engine has answered.
EarlyReceipt(s) ==
  /\ awaiting[s] # 0
  /\ \E m \in inserts :
       /\ m.id = awaiting[s]
       /\ acknowledged' = acknowledged \cup {m.op}
  /\ awaiting' = [awaiting EXCEPT ![s] = 0]
  /\ UNCHANGED <<clock, writes, inserts, table, issued, ordered>>

\* client.insert returned: the caller gets a BatchReceipt.
Receipt(s) ==
  /\ awaiting[s] # 0
  /\ \E m \in inserts :
       /\ m.id = awaiting[s] /\ m.todo = {}
       /\ inserts' = inserts \ {m}
       /\ acknowledged' = acknowledged \cup {m.op}
  /\ awaiting' = [awaiting EXCEPT ![s] = 0]
  /\ UNCHANGED <<clock, writes, table, issued, ordered>>

\* client.insert raised (send_receive_timeout, a broken connection, an engine
\* error) or the process died: the call ends with a TransientError or not at
\* all, and nobody recalls what is still on the wire.
GiveUp(s) ==
  /\ awaiting[s] # 0
  /\ awaiting' = [awaiting EXCEPT ![s] = 0]
  /\ UNCHANGED <<clock, writes, inserts, table, history>>

-----------------------------------------------------------------------------
\* The engine and the network.

Remembered == LET n == Len(blocks) IN
  {blocks[i] : i \in {j \in 1..n : j > n - EngineWindow}}

\* Plausible mistake: the insert carries no deduplication token.
StoreBlockWithoutToken(m, b) ==
  /\ b \in m.todo
  /\ inserts' = (inserts \ {m}) \cup {[m EXCEPT !.todo = @ \ {b}]}
  /\ blocks' = Append(blocks, <<BatchId(m.op), b>>)
  /\ rows' = rows \cup Block(m, b, Len(blocks) + 1)
  /\ UNCHANGED <<clock, writes, awaiting, expired, history>>

\* One partition of an insert: its own part and its own deduplication entry.
\* An insert that is lost, or whose rest is, is one that is not taken further.
StoreBlock(m, b) ==
  /\ b \in m.todo
  /\ inserts' = (inserts \ {m}) \cup {[m EXCEPT !.todo = @ \ {b}]}
  /\ IF <<BatchId(m.op), b>> \in Remembered
       THEN UNCHANGED <<blocks, rows>>
       ELSE /\ blocks' = Append(blocks, <<BatchId(m.op), b>>)
            /\ rows' = rows \cup Block(m, b, Len(blocks) + 1)
  /\ UNCHANGED <<clock, writes, awaiting, expired, history>>

Merge(x) ==
  /\ Superseded(x, rows)
  /\ rows' = rows \ {x}
  /\ UNCHANGED <<clock, writes, awaiting, inserts, blocks, expired, history>>

Expire(b) ==
  /\ HasRetention /\ b \notin expired
  /\ expired' = expired \cup {b}
  /\ UNCHANGED <<clock, writes, awaiting, inserts, blocks, rows, history>>

BucketOfRow(x) == BucketOfKey[x.record.key]

Purge(x) ==
  /\ BucketOfRow(x) \in expired
  /\ rows' = rows \ {x}
  /\ UNCHANGED <<clock, writes, awaiting, inserts, blocks, expired, history>>

Tick ==
  /\ clock < MaxClock
  /\ clock' = clock + 1
  /\ UNCHANGED <<writes, awaiting, inserts, table, history>>

Next ==
  \/ \E s \in Sessions, o \in Operations : Write(s, o)
  \/ \E s \in Sessions : Receipt(s) \/ GiveUp(s)
  \/ \E m \in inserts : \E b \in m.todo : StoreBlock(m, b)
  \/ \E x \in rows : Merge(x) \/ Purge(x)
  \/ \E b \in Buckets : Expire(b)
  \/ Tick

Spec == Init /\ [][Next]_vars

-----------------------------------------------------------------------------
\* What a reader sees, leaving aside partitions past their retention.

Live(x) == BucketOfRow(x) \notin expired

Visible(R) == {x \in Final(R) : Live(x)}

Content(R) == {<<x.scope, x.record>> : x \in Visible(R)}

\* x stands for record i of operation o.
Holds(x, o, i) ==
  /\ x.scope = ScopeOf[o]
  /\ x.record.key = DataOf[o][i].key
  /\ AppendOnly => x.record = DataOf[o][i]

Covered(o, i) ==
  BucketAt(o, i) \in expired \/ \E x \in Final(rows) : Holds(x, o, i)

-----------------------------------------------------------------------------
\* Properties.

Inserts == [id : 1..MaxWrites, op : Operations, ingested : Nat, todo : SUBSET Buckets]

\* Every variable stays in its set: rows carry a scope, record and batch of a
\* submitted operation, and every call number is one that was handed out.
TypeOK ==
  /\ clock \in 0..MaxClock
  /\ writes \in 0..MaxWrites
  /\ awaiting \in [Sessions -> 0..writes]
  /\ inserts \subseteq Inserts
  /\ blocks \in Seq({BatchId(o) : o \in Operations} \X Buckets)
  /\ rows \subseteq [scope : Scopes, record : Records, batch : {BatchId(o) : o \in Operations},
                     ingested : Nat, block : Nat, pos : Nat]
  /\ expired \subseteq Buckets
  /\ acknowledged \subseteq Operations /\ issued \subseteq Operations
  /\ ordered \subseteq Operations \X Operations

\* A receipt means stored: whatever was lost, merged, deduplicated or retried,
\* a FINAL read finds every record of an acknowledged operation (its content
\* in an append-only table, its key in a versioned one) until the partition
\* passes its retention.  A token shared by two different batches, or a sort
\* key that drops content, would break it.
AcknowledgedVisible ==
  \A o \in acknowledged : \A i \in DOMAIN DataOf[o] : Covered(o, i)

\* Retrying is idempotent: an insert of an operation that already has its
\* receipt changes no record a reader can see and shows none of them twice,
\* however the first attempt ended.
RetryIdempotent ==
  [][\A m \in inserts : \A b \in m.todo :
       StoreBlock(m, b) /\ m.op \in acknowledged =>
         /\ Content(rows') = Content(rows)
         /\ Cardinality(Visible(rows')) = Cardinality(Visible(rows))]_vars

\* A put that was first issued after the receipt of another put of the same
\* key, and that has its own receipt, is never hidden by the older one: no
\* delayed insert, retry or merge brings the superseded version back.
NoResurrection ==
  \A x \in Visible(rows) :
    \A p \in ordered :
      ~ /\ p[2] \in acknowledged
        /\ x.batch = BatchId(p[1])
        /\ BatchId(p[1]) # BatchId(p[2])
        /\ ScopeOf[p[2]] = x.scope
        /\ \E i \in DOMAIN DataOf[p[2]] : DataOf[p[2]][i].key = x.record.key

-----------------------------------------------------------------------------
\* The inductive invariant behind AcknowledgedVisible.

Stored(o, i) == BucketAt(o, i) \in expired \/ \E x \in rows : Holds(x, o, i)

\* The next block gets a number no row has.
RowsNumbered == \A x \in rows : x.block <= Len(blocks)

\* A row may be hidden only by a row a FINAL read returns.
LiveRepresented == \A x \in rows : Live(x) => Represented(x, rows)

\* A deduplication token stands for records that are stored, so dropping a
\* block because of it loses nothing.
TokensStored ==
  \A n \in DOMAIN blocks : \A o \in Operations : \A i \in DOMAIN DataOf[o] :
    blocks[n] = <<BatchId(o), BucketAt(o, i)>> => Stored(o, i)

\* The partitions an insert is done with are stored.
InsertsStored ==
  \A m \in inserts : \A i \in DOMAIN DataOf[m.op] :
    BucketAt(m.op, i) \notin m.todo => Stored(m.op, i)

ReceiptsStored == \A o \in acknowledged : \A i \in DOMAIN DataOf[o] : Stored(o, i)

IInv ==
  /\ RowsNumbered /\ LiveRepresented
  /\ TokensStored /\ InsertsStored /\ ReceiptsStored

-----------------------------------------------------------------------------
\* The abstract specification an append-only table implements.

ScopedRecords == Scopes \X Records

Log == INSTANCE EvidenceLog WITH
  Evidence <- ScopedRecords,
  Submitted <- [o \in Operations |-> {<<ScopeOf[o], DataOf[o][i]>> : i \in DOMAIN DataOf[o]}],
  BucketOf <- [e \in ScopedRecords |-> BucketOfKey[e[2].key]],
  visible <- Content(rows),
  retired <- expired

\* Read through FINAL, an append-only table with its parts, tokens, retries,
\* lost answers and merges is an EvidenceLog: evidence becomes visible once,
\* stays until its partition retires, and a receipt covers what is visible.
ImplementsEvidenceLog == Log!Spec

=============================================================================
