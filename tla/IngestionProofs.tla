--------------------------- MODULE IngestionProofs ---------------------------
(***************************************************************************)
(* What holds of the write path for any number of sessions, operations,    *)
(* retries, partitions and any deduplication window: a receipt means the   *)
(* records are there to be read.                                           *)
(***************************************************************************)
EXTENDS Ingestion, MergeTreeProofs, FiniteSetTheorems, FunctionTheorems

BatchIds == {BatchId(o) : o \in Operations}

-----------------------------------------------------------------------------
\* Type correctness.

\* The records of an operation and their partitions are in their sets.
LEMMA RecordsTyped ==
  ASSUME NEW o \in Operations, NEW i \in DOMAIN DataOf[o]
  PROVE  /\ DataOf[o] \in Seq(Records) /\ i \in Nat
         /\ DataOf[o][i] \in Records
         /\ DataOf[o][i].key \in Keys
         /\ BucketAt(o, i) \in Buckets
<1>1. DataOf[o] \in Seq(Records)
  BY IngestionAssumption
<1>2. i \in Nat /\ DataOf[o][i] \in Records
  BY <1>1
<1>3. DataOf[o][i].key \in Keys
  BY <1>2 DEF Records
<1> QED
  BY <1>1, <1>2, <1>3, IngestionAssumption DEF BucketAt

\* Appending an element of S to a sequence over S; its length and elements.
LEMMA AppendTyped ==
  ASSUME NEW S, NEW q \in Seq(S), NEW e \in S
  PROVE  /\ Append(q, e) \in Seq(S)
         /\ Len(Append(q, e)) = Len(q) + 1
         /\ \A n \in DOMAIN Append(q, e) :
              (n \in DOMAIN q /\ Append(q, e)[n] = q[n]) \/ Append(q, e)[n] = e
  OBVIOUS

RowType == [scope : Scopes, record : Records, batch : BatchIds,
            ingested : Nat, block : Nat, pos : Nat]

\* Every row an insert stores is well typed.
LEMMA BlockTyped ==
  ASSUME NEW m \in Inserts, NEW b, NEW n \in Nat
  PROVE  Block(m, b, n) \subseteq RowType
<1> SUFFICES ASSUME NEW i \in DOMAIN DataOf[m.op]
             PROVE  Row(m, n, i) \in RowType
  BY DEF Block
<1>1. m.op \in Operations /\ m.ingested \in Nat
  BY DEF Inserts
<1>2. ScopeOf[m.op] \in Scopes
  BY <1>1, IngestionAssumption
<1>3. DataOf[m.op][i] \in Records /\ i \in Nat
  BY <1>1, RecordsTyped
<1>4. BatchId(m.op) \in BatchIds
  BY <1>1 DEF BatchIds
<1> QED
  BY <1>1, <1>2, <1>3, <1>4 DEF Row, RowType

\* Every variable stays in its set, in every behaviour of the write path.
THEOREM TypeCorrect == Spec => []TypeOK
<1>1. Init => TypeOK
  BY IngestionAssumption DEF Init, TypeOK
<1>2. TypeOK /\ [Next]_vars => TypeOK'
  <2> SUFFICES ASSUME TypeOK, [Next]_vars PROVE TypeOK'
    OBVIOUS
  <2> USE IngestionAssumption
  <2>1. ASSUME NEW s \in Sessions, NEW o \in Operations, Write(s, o)
        PROVE  TypeOK'
    <3>1. /\ writes < MaxWrites /\ writes' = writes + 1
          /\ awaiting' = [awaiting EXCEPT ![s] = writes + 1]
          /\ issued' = issued \cup {o}
          /\ ordered' = IF o \in issued THEN ordered ELSE ordered \cup (acknowledged \X {o})
          /\ clock' = clock /\ blocks' = blocks /\ rows' = rows /\ expired' = expired
          /\ acknowledged' = acknowledged
      BY <2>1 DEF Write, table
    <3>2. writes' \in 1..MaxWrites /\ writes' \in 0..MaxWrites /\ 0..writes \subseteq 0..writes'
      <4>1. writes \in Nat
        BY DEF TypeOK
      <4> QED
        BY <3>1, <4>1
    <3>3. Partitions(o) \subseteq Buckets
      BY RecordsTyped DEF Partitions
    <3>4. inserts' \subseteq Inserts
      <4>1. PICK d \in 0..Skew :
              inserts' = inserts \cup
                {[id |-> writes + 1, op |-> o, ingested |-> clock + d, todo |-> Partitions(o)]}
        BY <2>1 DEF Write
      <4>2. clock + d \in Nat
        BY DEF TypeOK
      <4>3. writes + 1 \in 1..MaxWrites
        BY <3>1, <3>2
      <4>4. [id |-> writes + 1, op |-> o, ingested |-> clock + d, todo |-> Partitions(o)] \in Inserts
        BY <3>3, <4>2, <4>3 DEF Inserts
      <4>5. inserts \subseteq Inserts
        BY DEF TypeOK
      <4> QED
        BY <4>1, <4>4, <4>5, Zenon
    <3>5. awaiting' \in [Sessions -> 0..writes']
      <4>1. awaiting \in [Sessions -> 0..writes]
        BY DEF TypeOK
      <4>2. writes + 1 \in 0..writes'
        BY <3>1, <3>2
      <4> QED
        BY <3>1, <3>2, <4>1, <4>2
    <3>6. ordered' \subseteq Operations \X Operations /\ issued' \subseteq Operations
      <4>1. /\ ordered \subseteq Operations \X Operations /\ issued \subseteq Operations
            /\ acknowledged \subseteq Operations
        BY DEF TypeOK
      <4> QED
        BY <3>1, <4>1
    <3> QED
      BY <3>1, <3>2, <3>4, <3>5, <3>6, Zenon DEF TypeOK
  <2>2. ASSUME NEW s \in Sessions, Receipt(s)
        PROVE  TypeOK'
    <3>1. PICK m \in inserts :
             /\ inserts' = inserts \ {m}
             /\ acknowledged' = acknowledged \cup {m.op}
      BY <2>2 DEF Receipt
    <3>2. m.op \in Operations
      BY DEF TypeOK, Inserts
    <3> QED
      BY <2>2, <3>1, <3>2 DEF Receipt, TypeOK, table
  <2>3. ASSUME NEW s \in Sessions, GiveUp(s)
        PROVE  TypeOK'
    BY <2>3 DEF GiveUp, TypeOK, table, history
  <2>4. ASSUME NEW m \in inserts, NEW b \in m.todo, StoreBlock(m, b)
        PROVE  TypeOK'
    <3>1. m \in Inserts
      BY DEF TypeOK
    <3>2. [m EXCEPT !.todo = @ \ {b}] \in Inserts /\ b \in Buckets
      BY <3>1 DEF Inserts
    <3>3. inserts' \subseteq Inserts
      BY <2>4, <3>2 DEF StoreBlock, TypeOK
    <3>4. Len(blocks) + 1 \in Nat
      BY DEF TypeOK
    <3>5. BatchId(m.op) \in BatchIds
      BY <3>1 DEF BatchIds, Inserts
    <3>6. blocks' \in Seq(BatchIds \X Buckets)
      <4> DEFINE token == <<BatchId(m.op), b>>
                 Tokens == BatchIds \X Buckets
      <4>1. token \in Tokens
        BY <3>2, <3>5
      <4>2. blocks \in Seq(Tokens)
        BY DEF TypeOK, BatchIds
      <4>3. blocks' = blocks \/ blocks' = Append(blocks, token)
        BY <2>4 DEF StoreBlock
      <4> HIDE DEF token, Tokens
      <4> SUFFICES blocks' \in Seq(Tokens)
        BY DEF Tokens
      <4>4. Append(blocks, token) \in Seq(Tokens)
        BY <4>1, <4>2, AppendTyped
      <4> QED
        BY <4>2, <4>3, <4>4, Zenon
    <3>7. rows' \subseteq RowType
      BY <2>4, <3>1, <3>4, BlockTyped DEF StoreBlock, TypeOK, RowType, BatchIds
    <3> QED
      BY <2>4, <3>3, <3>6, <3>7 DEF StoreBlock, TypeOK, history, RowType, BatchIds
  <2>5. ASSUME NEW x \in rows, Merge(x) \/ Purge(x)
        PROVE  TypeOK'
    <3>1. rows' \subseteq rows /\ clock' = clock /\ writes' = writes /\ awaiting' = awaiting
          /\ inserts' = inserts /\ blocks' = blocks /\ expired' = expired
          /\ acknowledged' = acknowledged /\ issued' = issued /\ ordered' = ordered
      BY <2>5 DEF Merge, Purge, history
    <3> QED
      BY <3>1 DEF TypeOK
  <2>6. ASSUME NEW b \in Buckets, Expire(b)
        PROVE  TypeOK'
    BY <2>6 DEF Expire, TypeOK, history
  <2>7. CASE Tick
    BY <2>7 DEF Tick, TypeOK, table, history
  <2>8. CASE UNCHANGED vars
    BY <2>8 DEF TypeOK, vars, table, history
  <2> QED
    BY <2>1, <2>2, <2>3, <2>4, <2>5, <2>6, <2>7, <2>8 DEF Next
<1> QED
  BY <1>1, <1>2, PTL DEF Spec

-----------------------------------------------------------------------------
\* Facts about rows and the records they stand for.

\* Rows with one sort key stand for the same records and share a partition.
LEMMA SameKeyHolds ==
  ASSUME NEW x, NEW y, SameKey(x, y)
  PROVE  /\ BucketOfRow(x) = BucketOfRow(y)
         /\ \A o, i : Holds(x, o, i) => Holds(y, o, i)
  BY DEF SameKey, Holds, BucketOfRow

\* What stands for a record lies in the record's partition.
LEMMA HoldsBucket ==
  ASSUME NEW x, NEW o, NEW i, Holds(x, o, i)
  PROVE  BucketOfRow(x) = BucketAt(o, i)
  BY DEF Holds, BucketOfRow, BucketAt

\* Typed rows form a table in the sense of the merge lemmas.
LEMMA RowsTable == TypeOK => IsTable(rows)
  BY DEF TypeOK, IsTable

\* A step that takes no live sort key away takes no stored record away.
KeepsRows ==
  /\ expired \subseteq expired'
  /\ \A x \in rows : Live(x) => \E y \in rows' : SameKey(x, y)

\* What is stored stays stored where steps keep rows.
LEMMA StoredKept ==
  ASSUME KeepsRows, NEW o, NEW i, Stored(o, i)
  PROVE  Stored(o, i)'
<1>1. CASE BucketAt(o, i) \in expired
  BY <1>1 DEF KeepsRows, Stored, BucketAt
<1>2. CASE BucketAt(o, i) \notin expired
  <2>1. PICK x \in rows : Holds(x, o, i)
    BY <1>2 DEF Stored
  <2>2. Live(x)
    BY <1>2, <2>1, HoldsBucket DEF Live
  <2>3. PICK y \in rows' : SameKey(x, y)
    BY <2>2 DEF KeepsRows
  <2>4. Holds(y, o, i)
    BY <2>1, <2>3, SameKeyHolds
  <2> QED
    BY <2>4 DEF Stored, Holds
<1> QED
  BY <1>1, <1>2

\* Sort keys are kept by every step that leaves rows alone.
LEMMA UnchangedKeepsRows ==
  ASSUME expired \subseteq expired', UNCHANGED rows
  PROVE  KeepsRows
  BY AppendOnlyAssumption DEF KeepsRows, SameKey

-----------------------------------------------------------------------------
\* The rows: each kind of step keeps live keys represented and numbered.

RowsInv == RowsNumbered /\ LiveRepresented

\* A merge hides nothing.
LEMMA MergeRows ==
  ASSUME TypeOK, RowsInv, NEW x \in rows, Merge(x)
  PROVE  RowsInv' /\ KeepsRows
<1> USE AppendOnlyAssumption
<1>1. rows' = rows \ {x} /\ expired' = expired /\ blocks' = blocks /\ Superseded(x, rows)
  BY DEF Merge
<1>2. Final(rows') = Final(rows)
  BY <1>1, RowsTable, MergeInvisible
<1>3. LiveRepresented'
  BY <1>1, <1>2 DEF RowsInv, LiveRepresented, Represented, Live
<1>4. KeepsRows
  <2>1. ASSUME NEW z \in rows, Live(z) PROVE \E y \in rows' : SameKey(z, y)
    BY <1>2, <2>1 DEF RowsInv, LiveRepresented, Represented, Final
  <2> QED
    BY <1>1, <2>1 DEF KeepsRows
<1> QED
  BY <1>1, <1>3, <1>4 DEF RowsInv, RowsNumbered

\* Purging a row of an expired partition leaves live keys as they were.
LEMMA PurgeRows ==
  ASSUME TypeOK, RowsInv, NEW x \in rows, Purge(x)
  PROVE  RowsInv' /\ KeepsRows
<1>1. rows' = rows \ {x} /\ expired' = expired /\ blocks' = blocks /\ ~ Live(x)
  BY DEF Purge, Live
<1>2. ASSUME NEW z \in rows, Live(z) PROVE z # x /\ SameKey(z, z) /\ Represented(z, rows')
  <2>1. PICK y \in Final(rows) : SameKey(z, y)
    BY <1>2 DEF RowsInv, LiveRepresented, Represented
  <2>2. Live(y)
    BY <1>2, <2>1, SameKeyHolds DEF Live
  <2>3. y \in Final(rows')
    BY <1>1, <2>1, <2>2 DEF Final, Superseded
  <2> QED
    BY <1>1, <1>2, <2>1, <2>3, SameKeyEquivalence DEF Represented
<1>3. LiveRepresented'
  BY <1>1, <1>2 DEF LiveRepresented, Live
<1> QED
  BY <1>1, <1>2, <1>3 DEF RowsInv, RowsNumbered, KeepsRows

\* Storing a block keeps live keys and makes its own records stored.
LEMMA StoreRows ==
  ASSUME TypeOK, RowsInv, TokensStored, NEW m \in inserts, NEW b \in m.todo, StoreBlock(m, b)
  PROVE  /\ RowsInv' /\ KeepsRows
         /\ \A o \in Operations : \A i \in DOMAIN DataOf[o] :
              BatchId(o) = BatchId(m.op) /\ BucketAt(o, i) = b => Stored(o, i)'
<1> USE AppendOnlyAssumption
<1> DEFINE n == Len(blocks) + 1
           B == Block(m, b, n)
<1>1. m \in Inserts /\ m.op \in Operations /\ DataOf[m.op] \in Seq(Records) /\ n \in Nat
  BY IngestionAssumption DEF TypeOK, Inserts
<1>2. CASE <<BatchId(m.op), b>> \in Remembered
  <2>1. UNCHANGED <<blocks, rows, expired>>
    BY <1>2 DEF StoreBlock
  <2>2. RowsInv' /\ KeepsRows
    BY <2>1, UnchangedKeepsRows DEF RowsInv, RowsNumbered, LiveRepresented, Live
  <2>3. PICK k \in DOMAIN blocks : blocks[k] = <<BatchId(m.op), b>>
    BY <1>2 DEF Remembered, TypeOK
  <2>4. ASSUME NEW o \in Operations, NEW i \in DOMAIN DataOf[o],
               BatchId(o) = BatchId(m.op), BucketAt(o, i) = b
        PROVE  Stored(o, i)'
    <3>1. Stored(o, i)
      BY <2>3, <2>4 DEF TokensStored
    <3> QED
      BY <2>2, <3>1, StoredKept
  <2> QED
    BY <2>2, <2>4
<1>3. CASE <<BatchId(m.op), b>> \notin Remembered
  <2>1. /\ blocks' = Append(blocks, <<BatchId(m.op), b>>)
        /\ rows' = rows \cup B /\ expired' = expired
    BY <1>3 DEF StoreBlock
  <2>2. Len(blocks') = n /\ \A x \in rows : x.block \in Nat /\ x.block < n
    BY <1>1, <2>1, AppendTyped DEF RowsInv, RowsNumbered, TypeOK
  <2>3. IsTable(rows) /\ IsTable(B)
    BY <1>1, RowsTable, BlockTyped DEF IsTable, RowType
  <2>4. IsBlockAfter(B, rows, Len(DataOf[m.op])) /\ Len(DataOf[m.op]) \in Nat
    BY <1>1, <2>2 DEF IsBlockAfter, Block, Row
  <2>5. ASSUME NEW x \in rows', Live(x) PROVE Represented(x, rows')
    <3>1. ASSUME NEW z \in rows, SameKey(x, z) PROVE Represented(x, rows)
      <4>1. Live(z)
        BY <2>5, <3>1, SameKeyHolds DEF Live
      <4>2. PICK y \in Final(rows) : SameKey(z, y)
        BY <4>1 DEF RowsInv, LiveRepresented, Represented
      <4> QED
        BY <3>1, <4>2, SameKeyEquivalence DEF Represented
    <3> HIDE DEF B
    <3> QED
      BY <2>1, <2>3, <2>4, <3>1, InsertRepresents
  <2>6. LiveRepresented'
    BY <2>1, <2>5 DEF LiveRepresented, Live
  <2>7. RowsNumbered'
    BY <1>1, <2>1, <2>2 DEF RowsNumbered, Block, Row
  <2>8. KeepsRows
    BY <2>1 DEF KeepsRows, SameKey
  <2>9. ASSUME NEW o \in Operations, NEW i \in DOMAIN DataOf[o],
               BatchId(o) = BatchId(m.op), BucketAt(o, i) = b
        PROVE  Stored(o, i)'
    <3>1. ScopeOf[o] = ScopeOf[m.op] /\ DataOf[o] = DataOf[m.op]
      BY <2>9 DEF BatchId
    <3>2. Row(m, n, i) \in rows'
      BY <2>1, <2>9, <3>1 DEF Block, BucketAt
    <3>3. Holds(Row(m, n, i), o, i)
      BY <3>1 DEF Holds, Row
    <3> QED
      BY <3>2, <3>3 DEF Stored, Holds
  <2> QED
    BY <2>6, <2>7, <2>8, <2>9 DEF RowsInv
<1> QED
  BY <1>2, <1>3

-----------------------------------------------------------------------------
\* The inductive invariant.

\* Every step keeps the rows and, with them, every stored record.
LEMMA StepRows ==
  ASSUME TypeOK, RowsInv, TokensStored, [Next]_vars
  PROVE  RowsInv' /\ KeepsRows
<1>1. ASSUME NEW m \in inserts, NEW b \in m.todo, StoreBlock(m, b)
      PROVE  RowsInv' /\ KeepsRows
  BY <1>1, StoreRows
<1>2. ASSUME NEW x \in rows, Merge(x) \/ Purge(x)
      PROVE  RowsInv' /\ KeepsRows
  BY <1>2, MergeRows, PurgeRows
<1>3. ASSUME UNCHANGED <<blocks, rows>>, expired \subseteq expired'
      PROVE  RowsInv' /\ KeepsRows
  BY <1>3, UnchangedKeepsRows DEF RowsInv, RowsNumbered, LiveRepresented, Live
<1>4. CASE \/ \E s \in Sessions, o \in Operations : Write(s, o)
           \/ \E s \in Sessions : Receipt(s) \/ GiveUp(s)
           \/ \E b \in Buckets : Expire(b)
           \/ Tick \/ UNCHANGED vars
  BY <1>3, <1>4 DEF Write, Receipt, GiveUp, Expire, Tick, vars, table
<1> QED
  BY <1>1, <1>2, <1>4 DEF Next

\* IInv holds initially and is preserved by every step.
THEOREM Invariance == Spec => []IInv
<1>1. Init => IInv
  BY DEF Init, IInv, RowsNumbered, LiveRepresented, TokensStored, InsertsStored, ReceiptsStored
<1>2. TypeOK /\ IInv /\ [Next]_vars => IInv'
  <2> SUFFICES ASSUME TypeOK, IInv, [Next]_vars PROVE IInv'
    OBVIOUS
  <2>1. RowsInv /\ TokensStored /\ InsertsStored /\ ReceiptsStored
    BY DEF IInv, RowsInv
  <2>2. RowsInv' /\ KeepsRows
    BY <2>1, StepRows
  <2>3. \A o, i : Stored(o, i) => Stored(o, i)'
    BY <2>2, StoredKept
  <2>4. ASSUME NEW s \in Sessions, NEW o \in Operations, Write(s, o)
        PROVE  TokensStored' /\ InsertsStored' /\ ReceiptsStored'
    <3>1. UNCHANGED <<blocks, acknowledged>>
      BY <2>4 DEF Write, table
    <3>2. PICK d \in 0..Skew : inserts' = inserts \cup
            {[id |-> writes + 1, op |-> o, ingested |-> clock + d, todo |-> Partitions(o)]}
      BY <2>4 DEF Write
    <3>3. \A i \in DOMAIN DataOf[o] : BucketAt(o, i) \in Partitions(o)
      BY DEF Partitions
    <3>4. InsertsStored'
      BY <2>1, <2>3, <3>2, <3>3 DEF InsertsStored, BucketAt
    <3> QED
      BY <2>1, <2>3, <3>1, <3>4 DEF TokensStored, ReceiptsStored, BatchId, BucketAt
  <2>5. ASSUME NEW s \in Sessions, Receipt(s)
        PROVE  TokensStored' /\ InsertsStored' /\ ReceiptsStored'
    <3>1. PICK m \in inserts :
             /\ m.todo = {} /\ inserts' = inserts \ {m}
             /\ acknowledged' = acknowledged \cup {m.op} /\ blocks' = blocks
      BY <2>5 DEF Receipt, table
    <3>2. \A i \in DOMAIN DataOf[m.op] : Stored(m.op, i)
      BY <2>1, <3>1 DEF InsertsStored
    <3> QED
      BY <2>1, <2>3, <3>1, <3>2
      DEF TokensStored, InsertsStored, ReceiptsStored, BatchId, BucketAt
  <2>6. ASSUME NEW m \in inserts, NEW b \in m.todo, StoreBlock(m, b)
        PROVE  TokensStored' /\ InsertsStored' /\ ReceiptsStored'
    <3>1. /\ inserts' = (inserts \ {m}) \cup {[m EXCEPT !.todo = @ \ {b}]}
          /\ acknowledged' = acknowledged
      BY <2>6 DEF StoreBlock, history
    <3>2. m \in Inserts /\ m.op \in Operations
      BY DEF TypeOK, Inserts
    <3>3. \A o \in Operations : \A i \in DOMAIN DataOf[o] :
            BatchId(o) = BatchId(m.op) /\ BucketAt(o, i) = b => Stored(o, i)'
      BY <2>1, <2>6, StoreRows
    <3>4. \A i \in DOMAIN DataOf[m.op] : BucketAt(m.op, i) \notin m.todo \ {b} => Stored(m.op, i)'
      BY <2>1, <2>3, <3>2, <3>3 DEF InsertsStored
    <3>5. InsertsStored'
      <4> SUFFICES ASSUME NEW w \in inserts', NEW i \in DOMAIN DataOf[w.op],
                          BucketAt(w.op, i) \notin w.todo
                   PROVE  Stored(w.op, i)'
        BY DEF InsertsStored, BucketAt
      <4>1. CASE w \in inserts
        BY <2>1, <2>3, <4>1 DEF InsertsStored
      <4>2. CASE w = [m EXCEPT !.todo = @ \ {b}]
        <5>1. w.op = m.op /\ w.todo = m.todo \ {b}
          BY <3>2, <4>2 DEF Inserts
        <5> QED
          BY <3>4, <5>1
      <4> QED
        BY <3>1, <4>1, <4>2
    <3>6. TokensStored'
      <4> SUFFICES ASSUME NEW n \in DOMAIN blocks', NEW o \in Operations,
                          NEW i \in DOMAIN DataOf[o],
                          blocks'[n] = <<BatchId(o), BucketAt(o, i)>>
                   PROVE  Stored(o, i)'
        BY DEF TokensStored, BatchId, BucketAt
      <4>1. \/ n \in DOMAIN blocks /\ blocks'[n] = blocks[n]
            \/ blocks'[n] = <<BatchId(m.op), b>>
        <5>1. blocks \in Seq(BatchIds \X Buckets) /\ b \in Buckets
          BY <3>2 DEF TypeOK, BatchIds, Inserts
        <5>2. <<BatchId(m.op), b>> \in BatchIds \X Buckets
          BY <3>2, <5>1 DEF BatchIds
        <5>3. CASE blocks' = blocks
          BY <5>3
        <5>4. CASE blocks' = Append(blocks, <<BatchId(m.op), b>>)
          BY <5>1, <5>2, <5>4, AppendTyped
        <5> QED
          BY <2>6, <5>3, <5>4 DEF StoreBlock
      <4>2. CASE n \in DOMAIN blocks /\ blocks'[n] = blocks[n]
        BY <2>1, <2>3, <4>2 DEF TokensStored
      <4>3. CASE blocks'[n] = <<BatchId(m.op), b>>
        BY <3>3, <4>3
      <4> QED
        BY <4>1, <4>2, <4>3
    <3> QED
      BY <2>1, <2>3, <3>1, <3>5, <3>6 DEF ReceiptsStored
  <2>7. ASSUME UNCHANGED <<inserts, blocks, acknowledged>>
        PROVE  TokensStored' /\ InsertsStored' /\ ReceiptsStored'
    BY <2>1, <2>3, <2>7 DEF TokensStored, InsertsStored, ReceiptsStored, BatchId, BucketAt
  <2>8. ASSUME \/ \E s \in Sessions : GiveUp(s)
               \/ \E x \in rows : Merge(x) \/ Purge(x)
               \/ \E b \in Buckets : Expire(b)
               \/ Tick \/ UNCHANGED vars
        PROVE  UNCHANGED <<inserts, blocks, acknowledged>>
    BY <2>8 DEF GiveUp, Merge, Purge, Expire, Tick, vars, table, history
  <2>9. TokensStored' /\ InsertsStored' /\ ReceiptsStored'
    BY <2>4, <2>5, <2>6, <2>7, <2>8 DEF Next
  <2> QED
    BY <2>2, <2>9 DEF IInv, RowsInv
<1> QED
  BY <1>1, <1>2, TypeCorrect, PTL DEF Spec

\* A receipt means the records can be read: for every set of sessions and
\* operations, every interleaving of retries, delayed and half-done inserts,
\* merges and purges, and every deduplication window, also none.
THEOREM ReceiptMeansVisible == Spec => []AcknowledgedVisible
<1>1. IInv => AcknowledgedVisible
  <2> SUFFICES ASSUME IInv, NEW o \in acknowledged, NEW i \in DOMAIN DataOf[o],
                      BucketAt(o, i) \notin expired
               PROVE  \E y \in Final(rows) : Holds(y, o, i)
    BY DEF AcknowledgedVisible, Covered
  <2>1. PICK x \in rows : Holds(x, o, i)
    BY DEF IInv, ReceiptsStored, Stored
  <2>2. PICK y \in Final(rows) : SameKey(x, y)
    BY <2>1, HoldsBucket DEF IInv, LiveRepresented, Live, Represented
  <2> QED
    BY <2>1, <2>2, SameKeyHolds
<1> QED
  BY <1>1, Invariance, PTL

-----------------------------------------------------------------------------
\* Refinement: an append-only table is an EvidenceLog.

Entry(x) == <<x.scope, x.record>>

\* In an append-only table readers see exactly the records of live rows:
\* rows hide one another only when they carry the same record.
LEMMA ContentIsLiveRows ==
  ASSUME AppendOnly, TypeOK, IInv
  PROVE  Content(rows) = {Entry(x) : x \in {z \in rows : Live(z)}}
<1>1. ASSUME NEW x \in rows, Live(x) PROVE Entry(x) \in Content(rows)
  <2>1. PICK y \in Final(rows) : SameKey(x, y)
    BY <1>1 DEF IInv, LiveRepresented, Represented
  <2>2. Live(y) /\ Entry(y) = Entry(x)
    BY <1>1, <2>1, SameKeyHolds DEF SameKey, Entry, Live
  <2>3. Entry(y) \in Content(rows)
    BY <2>1, <2>2 DEF Content, Visible, Entry
  <2> QED
    BY <2>2, <2>3
<1>2. ASSUME NEW e \in Content(rows)
      PROVE  \E x \in {z \in rows : Live(z)} : e = Entry(x)
  BY DEF Content, Visible, Final, Entry
<1>3. Content(rows) \subseteq {Entry(x) : x \in {z \in rows : Live(z)}}
  BY <1>2
<1> QED
  BY <1>1, <1>3

\* The same of the state a step leads to.
LEMMA NextContentIsLiveRows ==
  ASSUME AppendOnly, TypeOK', IInv'
  PROVE  Content(rows)' = {Entry(x) : x \in {z \in rows' : Live(z)'}}
<1>1. (AppendOnly /\ TypeOK /\ IInv =>
        Content(rows) = {Entry(x) : x \in {z \in rows : Live(z)}})'
  BY ContentIsLiveRows, PTL
<1> QED
  BY <1>1 DEF Entry

\* A live row's entry is a scoped record of the row's partition.
LEMMA EntryTyped ==
  ASSUME TypeOK, NEW x \in rows
  PROVE  /\ Entry(x) \in ScopedRecords
         /\ BucketOfKey[Entry(x)[2].key] = BucketOfRow(x)
  BY DEF TypeOK, Entry, ScopedRecords, BucketOfRow

\* What an operation submits, as the abstract log sees it.
Entries(o) == {<<ScopeOf[o], DataOf[o][i]>> : i \in DOMAIN DataOf[o]}

\* The entries of an operation are scoped records, each in its partition.
LEMMA EntriesTyped ==
  ASSUME NEW o \in Operations, NEW i \in DOMAIN DataOf[o]
  PROVE  /\ <<ScopeOf[o], DataOf[o][i]>> \in ScopedRecords
         /\ BucketOfKey[<<ScopeOf[o], DataOf[o][i]>>[2].key] = BucketAt(o, i)
<1>1. DataOf[o][i] \in Records
  BY RecordsTyped
<1>2. ScopeOf[o] \in Scopes
  BY IngestionAssumption
<1> QED
  BY <1>1, <1>2 DEF ScopedRecords, BucketAt

\* Storing a block is Reveal for a live partition and nothing otherwise.
LEMMA StoreReveals ==
  ASSUME AppendOnly, TypeOK, IInv, TypeOK', IInv',
         NEW m \in inserts, NEW b \in m.todo, StoreBlock(m, b)
  PROVE  \/ UNCHANGED <<Content(rows), acknowledged, expired>>
         \/ Log!Reveal(m.op, b)
<1>1. m.op \in Operations /\ b \in Buckets
  BY DEF TypeOK, Inserts
<1>2. UNCHANGED <<acknowledged, expired>>
  BY DEF StoreBlock, history
<1>3. CASE rows' = rows
  BY <1>2, <1>3 DEF Content, Visible, Live
<1>4. CASE rows' = rows \cup Block(m, b, Len(blocks) + 1)
  <2> DEFINE B == Block(m, b, Len(blocks) + 1)
  <2>1. \A x \in B : BucketOfRow(x) = b
    BY DEF Block, Row, BucketOfRow, BucketAt
  <2>2. Content(rows)' = {Entry(x) : x \in {z \in rows' : Live(z)'}}
    BY NextContentIsLiveRows
  <2>3. \A x : Live(x)' <=> Live(x)
    BY <1>2 DEF Live, BucketOfRow
  <2>4. Content(rows) = {Entry(x) : x \in {z \in rows : Live(z)}}
    BY ContentIsLiveRows
  <2>5. CASE b \in expired
    <3>1. {z \in rows' : Live(z)'} = {z \in rows : Live(z)}
      BY <1>4, <2>1, <2>3, <2>5 DEF Live
    <3> QED
      BY <1>2, <2>2, <2>4, <3>1
  <2>6. CASE b \notin expired
    <3>1. {z \in rows' : Live(z)'} = {z \in rows : Live(z)} \cup B
      BY <1>4, <2>1, <2>3, <2>6 DEF Live
    <3>2. Content(rows)' = Content(rows) \cup {Entry(x) : x \in B}
      BY <2>2, <2>4, <3>1
    <3>3. {Entry(x) : x \in B} = Log!InBucket(Entries(m.op), b)
      <4>1. ASSUME NEW x \in B PROVE Entry(x) \in Log!InBucket(Entries(m.op), b)
        BY <1>1, EntriesTyped DEF Entry, Block, Row, Entries, Log!InBucket
      <4>2. ASSUME NEW e \in Log!InBucket(Entries(m.op), b) PROVE \E x \in B : e = Entry(x)
        <5>1. PICK i \in DOMAIN DataOf[m.op] : e = <<ScopeOf[m.op], DataOf[m.op][i]>>
          BY DEF Log!InBucket, Entries
        <5>2. BucketAt(m.op, i) = b
          BY <1>1, <5>1, EntriesTyped DEF Log!InBucket
        <5>3. Row(m, Len(blocks) + 1, i) \in B
          BY <5>2 DEF Block
        <5>4. Entry(Row(m, Len(blocks) + 1, i)) = e
          BY <5>1 DEF Row, Entry
        <5> QED
          BY <5>3, <5>4
      <4> QED
        BY <4>1, <4>2
    <3> QED
      BY <1>1, <1>2, <2>6, <3>2, <3>3 DEF Log!Reveal, Entries
  <2> QED
    BY <2>5, <2>6
<1> QED
  BY <1>3, <1>4 DEF StoreBlock

\* A partition that expires retires from the log, with its evidence.
LEMMA ExpireRetires ==
  ASSUME AppendOnly, TypeOK, IInv, TypeOK', IInv', NEW b \in Buckets, Expire(b)
  PROVE  Log!Retire(b)
<1>1. rows' = rows /\ expired' = expired \cup {b} /\ acknowledged' = acknowledged
  BY DEF Expire, history
<1>2. Content(rows) = {Entry(x) : x \in {z \in rows : Live(z)}}
  BY ContentIsLiveRows
<1>3. Content(rows)' = {Entry(x) : x \in {z \in rows' : Live(z)'}}
  BY NextContentIsLiveRows
<1>4. \A x \in rows : Live(x)' <=> Live(x) /\ BucketOfRow(x) # b
  BY <1>1 DEF Live, BucketOfRow
<1>5. Content(rows)' = Content(rows) \ Log!InBucket(Content(rows), b)
  <2>1. ASSUME NEW e \in Content(rows)'
        PROVE  e \in Content(rows) \ Log!InBucket(Content(rows), b)
    <3>1. PICK x \in rows : Live(x)' /\ e = Entry(x)
      BY <1>1, <1>3, <2>1
    <3> QED
      BY <1>2, <1>4, <3>1, EntryTyped DEF Log!InBucket
  <2>2. ASSUME NEW e \in Content(rows) \ Log!InBucket(Content(rows), b)
        PROVE  e \in Content(rows)'
    <3>1. PICK x \in rows : Live(x) /\ e = Entry(x)
      BY <1>2, <2>2
    <3> QED
      BY <1>1, <1>3, <1>4, <2>2, <3>1, EntryTyped DEF Log!InBucket
  <2> QED
    BY <2>1, <2>2
<1> QED
  BY <1>1, <1>5 DEF Log!Retire

\* A receipt acknowledges evidence that is visible or retired.
LEMMA ReceiptAcknowledges ==
  ASSUME AppendOnly, TypeOK, IInv, NEW s \in Sessions, Receipt(s)
  PROVE  \E o \in Operations : Log!Acknowledge(o)
<1>1. PICK m \in inserts : m.todo = {} /\ acknowledged' = acknowledged \cup {m.op}
  BY DEF Receipt
<1>2. m.op \in Operations
  BY DEF TypeOK, Inserts
<1>3. UNCHANGED <<Content(rows), expired>>
  BY DEF Receipt, table, Content, Visible, Live
<1>4. ASSUME NEW i \in DOMAIN DataOf[m.op]
      PROVE  LET e == <<ScopeOf[m.op], DataOf[m.op][i]>>
             IN  e \in Content(rows) \/ BucketOfKey[e[2].key] \in expired
  <2> DEFINE e == <<ScopeOf[m.op], DataOf[m.op][i]>>
  <2>1. Stored(m.op, i)
    BY <1>1 DEF IInv, InsertsStored
  <2>2. BucketOfKey[e[2].key] = BucketAt(m.op, i)
    BY <1>2, EntriesTyped
  <2>3. CASE BucketAt(m.op, i) \notin expired
    <3>1. PICK x \in rows : Holds(x, m.op, i)
      BY <2>1, <2>3 DEF Stored
    <3>2. Live(x) /\ Entry(x) = e
      BY <2>3, <3>1, HoldsBucket DEF Live, Holds, Entry
    <3> QED
      BY <3>2, ContentIsLiveRows
  <2> QED
    BY <2>2, <2>3
<1>5. \A e \in Entries(m.op) :
        e \in Content(rows) \/ [z \in ScopedRecords |-> BucketOfKey[z[2].key]][e] \in expired
  BY <1>2, <1>4, EntriesTyped DEF Entries
<1> QED
  BY <1>1, <1>2, <1>3, <1>5 DEF Log!Acknowledge, Entries

\* Read through FINAL, an append-only table implements EvidenceLog: evidence
\* only ever becomes visible because an operation submitted it, stays visible
\* until its partition retires, and receipts cover what is visible.
THEOREM AppendImplementsLog ==
  ASSUME AppendOnly
  PROVE  Spec => ImplementsEvidenceLog
<1>1. Init => Log!Init
  BY DEF Init, Log!Init, Content, Visible, Final
<1>2. TypeOK /\ IInv /\ TypeOK' /\ IInv' /\ [Next]_vars => [Log!Next]_(Log!logVars)
  <2> SUFFICES ASSUME TypeOK, IInv, TypeOK', IInv', [Next]_vars
               PROVE  Log!Next \/ UNCHANGED <<Content(rows), acknowledged, expired>>
    BY DEF Log!logVars
  <2>1. ASSUME NEW m \in inserts, NEW b \in m.todo, StoreBlock(m, b)
        PROVE  Log!Next \/ UNCHANGED <<Content(rows), acknowledged, expired>>
    <3>1. m.op \in Operations /\ b \in Buckets
      BY DEF TypeOK, Inserts
    <3> QED
      BY <2>1, <3>1, StoreReveals DEF Log!Next
  <2>2. ASSUME NEW s \in Sessions, Receipt(s)
        PROVE  Log!Next
    BY <2>2, ReceiptAcknowledges DEF Log!Next
  <2>3. ASSUME NEW b \in Buckets, Expire(b)
        PROVE  Log!Next
    BY <2>3, ExpireRetires DEF Log!Next
  <2>4. ASSUME NEW x \in rows, Merge(x)
        PROVE  UNCHANGED <<Content(rows), acknowledged, expired>>
    <3>1. Final(rows') = Final(rows)
      BY <2>4, RowsTable, MergeInvisible DEF Merge
    <3> QED
      BY <2>4, <3>1 DEF Merge, history, Content, Visible, Live
  <2>5. ASSUME NEW x \in rows, Purge(x)
        PROVE  UNCHANGED <<Content(rows), acknowledged, expired>>
    <3>1. rows' = rows \ {x} /\ ~ Live(x) /\ UNCHANGED <<acknowledged, expired>>
      BY <2>5 DEF Purge, history, Live
    <3>2. Content(rows)' = {Entry(z) : z \in {y \in rows' : Live(y)'}}
      BY NextContentIsLiveRows
    <3>3. {y \in rows' : Live(y)'} = {y \in rows : Live(y)}
      BY <3>1 DEF Live, BucketOfRow
    <3> QED
      BY <3>1, <3>2, <3>3, ContentIsLiveRows
  <2>6. ASSUME \/ \E s \in Sessions, o \in Operations : Write(s, o)
               \/ \E s \in Sessions : GiveUp(s)
               \/ Tick \/ UNCHANGED vars
        PROVE  UNCHANGED <<Content(rows), acknowledged, expired>>
    <3>1. UNCHANGED <<rows, acknowledged, expired>>
      BY <2>6 DEF Write, GiveUp, Tick, vars, table, history
    <3> QED
      BY <3>1 DEF Content, Visible, Live
  <2> QED
    BY <2>1, <2>2, <2>3, <2>4, <2>5, <2>6 DEF Next
<1> QED
  BY <1>1, <1>2, TypeCorrect, Invariance, PTL DEF Spec, ImplementsEvidenceLog, Log!Spec

-----------------------------------------------------------------------------
\* Retries of what has a receipt.

\* Rows are finitely many, and their block and place tell them apart.
RowsDistinct ==
  /\ IsFiniteSet(rows)
  /\ \A x, y \in rows : x.block = y.block /\ x.pos = y.pos => x = y

\* Finitely many rows make a block, and its numbers are new.
LEMMA StoreDistinct ==
  ASSUME TypeOK, RowsNumbered, RowsDistinct,
         NEW m \in inserts, NEW b \in m.todo, StoreBlock(m, b)
  PROVE  RowsDistinct'
<1> DEFINE n == Len(blocks) + 1
           I == {i \in DOMAIN DataOf[m.op] : BucketAt(m.op, i) = b}
           f == [i \in I |-> Row(m, n, i)]
           B == Block(m, b, n)
<1>1. m.op \in Operations /\ DataOf[m.op] \in Seq(Records)
  BY IngestionAssumption DEF TypeOK, Inserts
<1>2. n \in Nat /\ \A x \in rows : x.block \in Nat /\ x.block < n
  BY DEF TypeOK, RowsNumbered
<1>3. B = {Row(m, n, i) : i \in I}
  BY DEF Block
<1>4. \A i \in I : Row(m, n, i).block = n /\ Row(m, n, i).pos = i
  BY DEF Row
<1>5. IsFiniteSet(I)
  <2>1. I \in SUBSET (1..Len(DataOf[m.op])) /\ Len(DataOf[m.op]) \in Int
    BY <1>1
  <2>2. IsFiniteSet(1..Len(DataOf[m.op]))
    BY <2>1, FS_Interval
  <2> HIDE DEF I
  <2> QED
    BY <2>1, <2>2, FS_Subset
<1> HIDE DEF n, I, B
<1>6. IsFiniteSet(B)
  <2>1. f \in [I -> B] /\ \A x \in B : \E i \in I : f[i] = x
    BY <1>3
  <2>2. f \in Surjection(I, B)
    BY <2>1, Fun_IsSurj
  <2> QED
    BY <1>5, <2>2, FS_Surjection
<1>7. \A x, y \in rows \cup B : x.block = y.block /\ x.pos = y.pos => x = y
  BY <1>2, <1>3, <1>4 DEF RowsDistinct
<1>8. IsFiniteSet(rows \cup B)
  BY <1>6, FS_Union DEF RowsDistinct
<1>9. rows' = rows \/ rows' = rows \cup B
  BY DEF StoreBlock, B, n
<1> QED
  BY <1>7, <1>8, <1>9 DEF RowsDistinct

\* Every step keeps the rows finitely many and apart.
LEMMA DistinctStep ==
  ASSUME TypeOK, RowsNumbered, RowsDistinct, [Next]_vars
  PROVE  RowsDistinct'
<1>1. ASSUME NEW m \in inserts, NEW b \in m.todo, StoreBlock(m, b) PROVE RowsDistinct'
  BY <1>1, StoreDistinct
<1>2. ASSUME rows' \in SUBSET rows PROVE RowsDistinct'
  BY <1>2, FS_Subset DEF RowsDistinct
<1>3. CASE \/ \E s \in Sessions, o \in Operations : Write(s, o)
           \/ \E s \in Sessions : Receipt(s) \/ GiveUp(s)
           \/ \E x \in rows : Merge(x) \/ Purge(x)
           \/ \E b \in Buckets : Expire(b)
           \/ Tick \/ UNCHANGED vars
  BY <1>2, <1>3 DEF Write, Receipt, GiveUp, Merge, Purge, Expire, Tick, vars, table
<1> QED
  BY <1>1, <1>3 DEF Next

\* A reader of an append-only table finds each record once.
LEMMA VisibleOnce ==
  ASSUME AppendOnly, TypeOK, RowsDistinct
  PROVE  Cardinality(Visible(rows)) = Cardinality(Content(rows))
<1> DEFINE V == Visible(rows)
           f == [x \in V |-> Entry(x)]
<1>1. V \in SUBSET Final(rows) /\ Final(rows) \in SUBSET rows
  BY DEF Visible, Final
<1>2. Content(rows) = {Entry(x) : x \in V}
  BY DEF Content, Entry
<1>3. ASSUME NEW x \in V, NEW y \in V, Entry(x) = Entry(y) PROVE x = y
  <2>1. SameKey(x, y) /\ SameKey(y, x)
    BY <1>3 DEF SameKey, Entry
  <2>2. ~ Newer(x, y) /\ ~ Newer(y, x)
    BY <1>1, <2>1 DEF Final, Superseded
  <2>3. x.block = y.block /\ x.pos = y.pos
    BY <1>1, <2>2, RowsTable DEF IsTable, Newer
  <2> QED
    BY <1>1, <2>3 DEF RowsDistinct
<1>4. IsFiniteSet(V)
  BY <1>1, FS_Subset DEF RowsDistinct
<1> HIDE DEF V
<1>5. f \in [V -> Content(rows)] /\ \A e \in Content(rows) : \E x \in V : f[x] = e
  BY <1>2
<1>6. f \in Bijection(V, Content(rows))
  BY <1>3, <1>5, Fun_IsBij
<1>7. ExistsBijection(V, Content(rows))
  BY <1>6 DEF ExistsBijection
<1> QED
  BY <1>4, <1>7, FS_Bijection DEF V

\* An insert of an operation with a receipt reveals nothing.
LEMMA RetryRevealsNothing ==
  ASSUME AppendOnly, TypeOK, IInv, TypeOK', IInv',
         NEW m \in inserts, NEW b \in m.todo, StoreBlock(m, b), m.op \in acknowledged
  PROVE  Content(rows)' = Content(rows)
<1> DEFINE E == Log!InBucket(Entries(m.op), b)
<1>1. m.op \in Operations
  BY DEF TypeOK, Inserts
<1>2. ASSUME NEW e \in E, b \notin expired PROVE e \in Content(rows)
  <2>1. PICK i \in DOMAIN DataOf[m.op] : e = <<ScopeOf[m.op], DataOf[m.op][i]>>
    BY DEF Log!InBucket, Entries
  <2>2. BucketAt(m.op, i) = b
    BY <1>1, <2>1, EntriesTyped DEF Log!InBucket
  <2>3. PICK x \in rows : Holds(x, m.op, i)
    BY <1>2, <2>2 DEF IInv, ReceiptsStored, Stored
  <2>4. Live(x) /\ Entry(x) = e
    BY <1>2, <2>1, <2>2, <2>3, HoldsBucket DEF Live, Holds, Entry
  <2> QED
    BY <2>4, ContentIsLiveRows
<1>3. CASE Log!Reveal(m.op, b)
  BY <1>1, <1>2, <1>3 DEF Log!Reveal, Entries
<1>4. CASE UNCHANGED <<Content(rows), acknowledged, expired>>
  BY <1>4
<1> QED
  BY <1>3, <1>4, StoreReveals

\* Retrying evidence is idempotent: in an append-only table an insert of an
\* operation that has its receipt changes nothing a reader sees and shows no
\* record twice, with any deduplication window, and with none.
THEOREM RetriesHarmless ==
  ASSUME AppendOnly
  PROVE  Spec => RetryIdempotent
<1>1. Init => RowsDistinct
  BY FS_EmptySet DEF Init, RowsDistinct
<1>2. TypeOK /\ IInv /\ RowsDistinct /\ [Next]_vars => RowsDistinct'
  BY DistinctStep DEF IInv
<1>3. Spec => []RowsDistinct
  BY <1>1, <1>2, TypeCorrect, Invariance, PTL DEF Spec
<1>4. TypeOK /\ RowsDistinct => Cardinality(Visible(rows)) = Cardinality(Content(rows))
  BY VisibleOnce
<1>5. (TypeOK /\ RowsDistinct => Cardinality(Visible(rows)) = Cardinality(Content(rows)))'
  BY <1>4, PTL
<1>6. ASSUME TypeOK, IInv, RowsDistinct, TypeOK', IInv', RowsDistinct',
             NEW m \in inserts, NEW b \in m.todo, StoreBlock(m, b), m.op \in acknowledged
      PROVE  /\ Content(rows') = Content(rows)
             /\ Cardinality(Visible(rows')) = Cardinality(Visible(rows))
  <2>1. Content(rows)' = Content(rows)
    BY <1>6, RetryRevealsNothing
  <2>2. expired' = expired
    BY <1>6 DEF StoreBlock
  <2>3. Visible(rows') = Visible(rows)' /\ Content(rows') = Content(rows)'
    BY <2>2 DEF Visible, Content, Live
  <2> QED
    BY <1>4, <1>5, <1>6, <2>1, <2>3
<1>7. TypeOK /\ IInv /\ RowsDistinct /\ TypeOK' /\ IInv' /\ RowsDistinct' =>
        [\A m \in inserts : \A b \in m.todo :
           StoreBlock(m, b) /\ m.op \in acknowledged =>
             /\ Content(rows') = Content(rows)
             /\ Cardinality(Visible(rows')) = Cardinality(Visible(rows))]_vars
  BY <1>6
<1> QED
  BY <1>3, <1>7, TypeCorrect, Invariance, PTL DEF RetryIdempotent

-----------------------------------------------------------------------------
\* Versioned puts: the older version stays hidden.

\* No two operations make the same batch.
DistinctBatches == \A o1, o2 \in Operations : BatchId(o1) = BatchId(o2) => o1 = o2

\* The engine has not yet forgotten a token.
WindowSuffices == Len(blocks) <= EngineWindow

\* The token of record i of operation o is on record.
Noted(o, i) == \E n \in DOMAIN blocks : blocks[n] = <<BatchId(o), BucketAt(o, i)>>

\* Rows of operations that had their receipt when o was first issued.
OlderRows(o) == {x \in rows : \E a \in Operations : <<a, o>> \in ordered /\ x.batch = BatchId(a)}

Outranks(z, o) == \A x \in OlderRows(o) : Newer(z, x)

\* Whatever exists was issued, not in the future.
KnownInv ==
  /\ \A m \in inserts : m.op \in issued /\ m.ingested <= clock
  /\ \A x \in rows : x.ingested <= clock
  /\ \A n \in DOMAIN blocks : \E o \in issued : blocks[n][1] = BatchId(o)
  /\ acknowledged \subseteq issued
  /\ \A p \in ordered : p[1] \in acknowledged

\* What an insert is done with, and what a receipt covers, left its token.
NotedInv ==
  /\ \A m \in inserts : \A i \in DOMAIN DataOf[m.op] :
       BucketAt(m.op, i) \notin m.todo => Noted(m.op, i)
  /\ \A o \in acknowledged : \A i \in DOMAIN DataOf[o] : Noted(o, i)

\* Inserts are stamped no earlier than the older rows they compete with, and
\* what left a token is represented by a row that outranks those.
RankInv ==
  /\ \A m \in inserts : \A x \in OlderRows(m.op) : x.ingested <= m.ingested
  /\ \A o \in Operations : \A i \in DOMAIN DataOf[o] :
       Noted(o, i) => \/ BucketAt(o, i) \in expired
                      \/ \E z \in rows : Holds(z, o, i) /\ Outranks(z, o)

OrderInv == KnownInv /\ NotedInv /\ RankInv

\* An engine that has forgotten no token remembers them all.
LEMMA AllRemembered ==
  ASSUME TypeOK, WindowSuffices
  PROVE  \A k \in DOMAIN blocks : blocks[k] \in Remembered
<1>1. DOMAIN blocks = 1..Len(blocks) /\ Len(blocks) \in Nat /\ EngineWindow \in Nat
  BY IngestionAssumption DEF TypeOK
<1>2. \A k \in 1..Len(blocks) : k > Len(blocks) - EngineWindow
  BY <1>1 DEF WindowSuffices
<1> QED
  BY <1>1, <1>2 DEF Remembered

\* Storing a block leaves its token on record and takes none away.
LEMMA TokenLeft ==
  ASSUME TypeOK, NEW m \in inserts, NEW b \in m.todo, StoreBlock(m, b)
  PROVE  LET t == <<BatchId(m.op), b>> IN
         /\ \A k \in DOMAIN blocks : k \in DOMAIN blocks' /\ blocks'[k] = blocks[k]
         /\ \A k \in DOMAIN blocks' :
              (k \in DOMAIN blocks /\ blocks'[k] = blocks[k]) \/ blocks'[k] = t
         /\ \E k \in DOMAIN blocks' : blocks'[k] = t
<1> DEFINE t == <<BatchId(m.op), b>>
<1>1. m.op \in Operations /\ b \in Buckets
  BY DEF TypeOK, Inserts
<1>2. CASE t \in Remembered
  <2>1. \E k \in DOMAIN blocks : blocks[k] = t
    BY <1>2 DEF Remembered, TypeOK
  <2>2. blocks' = blocks
    BY <1>2 DEF StoreBlock
  <2> QED
    BY <2>1, <2>2
<1>3. CASE t \notin Remembered
  <2>1. blocks' = Append(blocks, t)
    BY <1>3 DEF StoreBlock
  <2>2. blocks \in Seq(BatchIds \X Buckets) /\ t \in BatchIds \X Buckets
    BY <1>1 DEF TypeOK, BatchIds
  <2> HIDE DEF t
  <2>3. /\ \A k \in DOMAIN blocks : k \in DOMAIN blocks' /\ blocks'[k] = blocks[k]
        /\ \A k \in DOMAIN blocks' :
             (k \in DOMAIN blocks /\ blocks'[k] = blocks[k]) \/ blocks'[k] = t
        /\ \E k \in DOMAIN blocks' : blocks'[k] = t
    BY <2>1, <2>2, AppendTyped
  <2> QED
    BY <2>3 DEF t
<1> QED
  BY <1>2, <1>3

\* What an insert is done with, and what a receipt covers, stays on record.
LEMMA NotedStep ==
  ASSUME TypeOK, NotedInv, [Next]_vars
  PROVE  NotedInv'
<1>1. ASSUME NEW m \in inserts, NEW b \in m.todo, StoreBlock(m, b) PROVE NotedInv'
  <2> DEFINE m2 == [m EXCEPT !.todo = @ \ {b}]
  <2>1. inserts' = (inserts \ {m}) \cup {m2} /\ acknowledged' = acknowledged
    BY <1>1 DEF StoreBlock, history
  <2>2. m2.op = m.op /\ m2.todo = m.todo \ {b}
    BY <1>1 DEF TypeOK, Inserts
  <2> HIDE DEF m2
  <2>3. /\ \A k \in DOMAIN blocks : k \in DOMAIN blocks' /\ blocks'[k] = blocks[k]
        /\ \E k \in DOMAIN blocks' : blocks'[k] = <<BatchId(m.op), b>>
    BY <1>1, TokenLeft
  <2>4. \A o, i : Noted(o, i) => Noted(o, i)'
    BY <2>3 DEF Noted
  <2>5. \A i \in DOMAIN DataOf[m.op] : BucketAt(m.op, i) = b => Noted(m.op, i)'
    BY <2>3 DEF Noted
  <2> QED
    BY <2>1, <2>2, <2>4, <2>5 DEF NotedInv
<1>2. ASSUME NEW s \in Sessions, NEW o \in Operations, Write(s, o) PROVE NotedInv'
  <2>1. PICK d \in 0..Skew : inserts' = inserts \cup
          {[id |-> writes + 1, op |-> o, ingested |-> clock + d, todo |-> Partitions(o)]}
    BY <1>2 DEF Write
  <2>2. \A m \in inserts' : m \in inserts \/ (m.op = o /\ m.todo = Partitions(o))
    BY <2>1
  <2>3. \A i \in DOMAIN DataOf[o] : BucketAt(o, i) \in Partitions(o)
    BY DEF Partitions
  <2>4. UNCHANGED <<blocks, acknowledged>>
    BY <1>2 DEF Write, table
  <2> QED
    BY <2>2, <2>3, <2>4 DEF NotedInv, Noted
<1>3. ASSUME NEW s \in Sessions, Receipt(s) PROVE NotedInv'
  <2>1. PICK m \in inserts : m.todo = {} /\ inserts' = inserts \ {m}
                             /\ acknowledged' = acknowledged \cup {m.op}
    BY <1>3 DEF Receipt
  <2>2. blocks' = blocks
    BY <1>3 DEF Receipt, table
  <2> QED
    BY <2>1, <2>2 DEF NotedInv, Noted
<1>4. CASE \/ \E s \in Sessions : GiveUp(s)
           \/ \E x \in rows : Merge(x) \/ Purge(x)
           \/ \E b \in Buckets : Expire(b)
           \/ Tick \/ UNCHANGED vars
  <2>1. UNCHANGED <<inserts, blocks, acknowledged>>
    BY <1>4 DEF GiveUp, Merge, Purge, Expire, Tick, vars, table, history
  <2> QED
    BY <2>1 DEF NotedInv, Noted
<1> QED
  BY <1>1, <1>2, <1>3, <1>4 DEF Next

\* While its token is remembered, an operation with a receipt stores nothing.
LEMMA RetryStoresNothing ==
  ASSUME TypeOK, NotedInv, WindowSuffices,
         NEW m \in inserts, NEW b \in m.todo, StoreBlock(m, b), m.op \in acknowledged
  PROVE  rows' = rows
<1> DEFINE t == <<BatchId(m.op), b>>
<1>1. CASE t \in Remembered
  BY <1>1 DEF StoreBlock
<1>2. CASE t \notin Remembered
  <2>1. \A k \in DOMAIN blocks : blocks[k] # t
    BY <1>2, AllRemembered
  <2>2. \A i \in DOMAIN DataOf[m.op] : BucketAt(m.op, i) # b
    BY <2>1 DEF NotedInv, Noted
  <2>3. Block(m, b, Len(blocks) + 1) = {}
    BY <2>2 DEF Block
  <2> QED
    BY <1>2, <2>3 DEF StoreBlock
<1> QED
  BY <1>1, <1>2

\* Retrying is idempotent in tables of either kind, whatever is submitted and
\* whenever, as long as the engine forgets no token: the window that the
\* adapter advertises but never sets.
THEOREM RetriesRemembered ==
  Spec /\ []WindowSuffices => RetryIdempotent
<1>1. Init => NotedInv
  BY DEF Init, NotedInv
<1>2. TypeOK /\ NotedInv /\ [Next]_vars => NotedInv'
  BY NotedStep
<1>3. ASSUME TypeOK, NotedInv, WindowSuffices,
             NEW m \in inserts, NEW b \in m.todo, StoreBlock(m, b), m.op \in acknowledged
      PROVE  /\ Content(rows') = Content(rows)
             /\ Cardinality(Visible(rows')) = Cardinality(Visible(rows))
  <2>1. rows' = rows
    BY <1>3, RetryStoresNothing
  <2> QED
    BY <2>1
<1>4. TypeOK /\ NotedInv /\ WindowSuffices =>
        [\A m \in inserts : \A b \in m.todo :
           StoreBlock(m, b) /\ m.op \in acknowledged =>
             /\ Content(rows') = Content(rows)
             /\ Cardinality(Visible(rows')) = Cardinality(Visible(rows))]_vars
  BY <1>3
<1> QED
  BY <1>1, <1>2, <1>4, TypeCorrect, PTL DEF Spec, RetryIdempotent

\* A token on record belongs to an operation that was issued.
LEMMA NotedIssued ==
  ASSUME DistinctBatches, TypeOK, KnownInv, NEW o \in Operations, NEW i, Noted(o, i)
  PROVE  o \in issued
<1>1. PICK n \in DOMAIN blocks : blocks[n] = <<BatchId(o), BucketAt(o, i)>>
  BY DEF Noted
<1>2. PICK a \in issued : blocks[n][1] = BatchId(a)
  BY DEF KnownInv
<1> QED
  BY <1>1, <1>2 DEF DistinctBatches, TypeOK

\* Issuing an operation opens no competition between what exists.
LEMMA WriteOrder ==
  ASSUME DistinctBatches, Skew = 0, TypeOK, OrderInv,
         NEW s \in Sessions, NEW o \in Operations, Write(s, o)
  PROVE  OrderInv'
<1>1. PICK d \in 0..0 : inserts' = inserts \cup
        {[id |-> writes + 1, op |-> o, ingested |-> clock + d, todo |-> Partitions(o)]}
  BY DEF Write
<1>2. /\ UNCHANGED <<clock, blocks, rows, expired, acknowledged>>
      /\ issued' = issued \cup {o}
      /\ ordered' = IF o \in issued THEN ordered ELSE ordered \cup (acknowledged \X {o})
  BY DEF Write, table
<1> DEFINE new == [id |-> writes + 1, op |-> o, ingested |-> clock + d, todo |-> Partitions(o)]
<1>3. new.op = o /\ new.ingested = clock /\ new.todo = Partitions(o)
  BY DEF TypeOK
<1>4. \A m \in inserts' : m \in inserts \/ m = new
  BY <1>1
<1> HIDE DEF new
<1>5. KnownInv'
  BY <1>2, <1>3, <1>4 DEF OrderInv, KnownInv, TypeOK
<1>6. \A a, i : Noted(a, i)' <=> Noted(a, i)
  BY <1>2 DEF Noted
<1>7. NotedInv'
  <2>1. \A i \in DOMAIN DataOf[o] : BucketAt(o, i) \in Partitions(o)
    BY DEF Partitions
  <2> QED
    BY <1>2, <1>3, <1>4, <1>6, <2>1 DEF OrderInv, NotedInv
<1>8. ASSUME NEW a \in issued PROVE OlderRows(a)' = OlderRows(a)
  BY <1>2 DEF OlderRows
<1>9. ASSUME NEW m \in inserts', NEW x \in OlderRows(m.op)' PROVE x.ingested <= m.ingested
  <2>1. CASE m \in inserts
    BY <1>8, <1>9, <2>1 DEF OrderInv, KnownInv, RankInv
  <2>2. CASE m = new
    BY <1>2, <1>3, <1>9, <2>2 DEF OlderRows, OrderInv, KnownInv
  <2> QED
    BY <1>4, <2>1, <2>2
<1>10. ASSUME NEW a \in Operations, NEW i \in DOMAIN DataOf[a], Noted(a, i)',
              BucketAt(a, i) \notin expired
       PROVE  \E z \in rows : Holds(z, a, i) /\ Outranks(z, a)'
  <2>1. Noted(a, i) /\ a \in issued
    BY <1>6, <1>10, NotedIssued DEF OrderInv
  <2>2. PICK z \in rows : Holds(z, a, i) /\ Outranks(z, a)
    BY <1>10, <2>1 DEF OrderInv, RankInv
  <2> QED
    BY <1>8, <2>1, <2>2 DEF Outranks
<1>11. RankInv'
  BY <1>2, <1>9, <1>10 DEF RankInv
<1> QED
  BY <1>5, <1>7, <1>11 DEF OrderInv

\* Storing a block puts a row in front of every older row of its keys, and an
\* operation with a receipt stores nothing any more.
LEMMA StoreOrder ==
  ASSUME ~ AppendOnly, DistinctBatches, WindowSuffices, TypeOK, RowsNumbered, OrderInv,
         NEW m \in inserts, NEW b \in m.todo, StoreBlock(m, b)
  PROVE  OrderInv'
<1> DEFINE n == Len(blocks) + 1
           B == Block(m, b, n)
           t == <<BatchId(m.op), b>>
           m2 == [m EXCEPT !.todo = @ \ {b}]
<1>1. m \in Inserts /\ m.op \in Operations /\ n \in Nat /\ b \in Buckets
  BY DEF TypeOK, Inserts
<1>2. /\ inserts' = (inserts \ {m}) \cup {m2}
      /\ UNCHANGED <<clock, expired, acknowledged, issued, ordered>>
  BY DEF StoreBlock, history
<1>3. m2.op = m.op /\ m2.ingested = m.ingested /\ m2.todo = m.todo \ {b}
  BY <1>1 DEF Inserts
<1>4. \A k \in inserts' : k \in inserts \/ k = m2
  BY <1>2
<1>5. \A k \in DOMAIN blocks : blocks[k] \in Remembered
  BY AllRemembered
<1>6. /\ \A k \in DOMAIN blocks : k \in DOMAIN blocks' /\ blocks'[k] = blocks[k]
      /\ \A k \in DOMAIN blocks' :
           (k \in DOMAIN blocks /\ blocks'[k] = blocks[k]) \/ blocks'[k] = t
      /\ \E k \in DOMAIN blocks' : blocks'[k] = t
  BY TokenLeft
<1>7. \/ rows' = rows
      \/ t \notin Remembered /\ rows' = rows \cup B
  BY DEF StoreBlock
<1>8. \A x \in B : \E i \in DOMAIN DataOf[m.op] : BucketAt(m.op, i) = b /\ x = Row(m, n, i)
  BY DEF Block
<1>9. \A x \in B : x.ingested = m.ingested /\ x.batch = BatchId(m.op) /\ x.block = n
  BY <1>8 DEF Row
<1> HIDE DEF t, m2, B, n
<1>10. KnownInv'
  BY <1>1, <1>2, <1>3, <1>4, <1>6, <1>7, <1>9 DEF OrderInv, KnownInv, t
<1>11. \A a, i : Noted(a, i) => Noted(a, i)'
  BY <1>6 DEF Noted
<1>12. \A i : BucketAt(m.op, i) = b => Noted(m.op, i)'
  BY <1>6 DEF Noted, t
<1>13. NotedInv'
  BY <1>2, <1>3, <1>4, <1>11, <1>12 DEF OrderInv, NotedInv
<1>14. ASSUME NEW a \in Operations PROVE OlderRows(a)' = OlderRows(a)
  <2>1. ASSUME NEW x \in B, t \notin Remembered, NEW c \in Operations,
               <<c, a>> \in ordered, x.batch = BatchId(c)
        PROVE  FALSE
    <3>1. c = m.op
      BY <1>1, <1>9, <2>1 DEF DistinctBatches
    <3>2. c \in acknowledged
      BY <2>1 DEF OrderInv, KnownInv
    <3>3. PICK i \in DOMAIN DataOf[m.op] : BucketAt(m.op, i) = b
      BY <1>8
    <3>4. Noted(m.op, i)
      BY <3>1, <3>2 DEF OrderInv, NotedInv
    <3> QED
      BY <1>5, <2>1, <3>3, <3>4 DEF Noted, t
  <2> QED
    BY <1>2, <1>7, <2>1 DEF OlderRows
<1>15. ASSUME NEW k \in inserts', NEW x \in OlderRows(k.op)' PROVE x.ingested <= k.ingested
  BY <1>1, <1>3, <1>4, <1>14, <1>15 DEF OrderInv, RankInv, TypeOK, Inserts
<1>16. ASSUME NEW a \in Operations, NEW i \in DOMAIN DataOf[a], Noted(a, i)',
              BucketAt(a, i) \notin expired
       PROVE  \E z \in rows' : Holds(z, a, i) /\ Outranks(z, a)'
  <2>1. CASE Noted(a, i)
    <3>1. PICK z \in rows : Holds(z, a, i) /\ Outranks(z, a)
      BY <1>16, <2>1 DEF OrderInv, RankInv
    <3> QED
      BY <1>7, <1>14, <3>1 DEF Outranks
  <2>2. CASE ~ Noted(a, i)
    <3>1. a = m.op /\ BucketAt(a, i) = b /\ t \notin Remembered
      <4>1. t = <<BatchId(a), BucketAt(a, i)>>
        BY <1>6, <1>16, <2>2 DEF Noted
      <4>2. t \notin Remembered
        BY <2>2, <4>1 DEF Remembered, Noted, TypeOK
      <4> QED
        BY <1>1, <4>1, <4>2 DEF t, DistinctBatches
    <3>2. rows' = rows \cup B
      BY <3>1 DEF StoreBlock, B, n, t
    <3> DEFINE z == Row(m, n, i)
    <3>3. z \in B /\ Holds(z, a, i)
      BY <3>1 DEF B, Block, Row, Holds
    <3>4. ASSUME NEW x \in OlderRows(a) PROVE Newer(z, x)
      <4>1. x \in rows /\ x.ingested <= m.ingested
        BY <3>1, <3>4 DEF OrderInv, RankInv, OlderRows
      <4>2. x.ingested \in Nat /\ x.block \in Nat /\ x.block < n
        BY <4>1 DEF TypeOK, RowsNumbered, n
      <4>3. z.ingested = m.ingested /\ z.block = n /\ m.ingested \in Nat
        BY <1>1, <1>9, <3>3 DEF Inserts
      <4> HIDE DEF z
      <4> QED
        BY <1>1, <4>1, <4>2, <4>3 DEF Newer
    <3> QED
      BY <1>14, <3>2, <3>3, <3>4 DEF Outranks
  <2> QED
    BY <2>1, <2>2
<1>17. RankInv'
  BY <1>2, <1>15, <1>16 DEF RankInv
<1> QED
  BY <1>10, <1>13, <1>17 DEF OrderInv

\* What takes rows away leaves a row that outranks as much, or an expired
\* partition.
LEMMA RemoveOrder ==
  ASSUME ~ AppendOnly, TypeOK, OrderInv, NEW y \in rows, Merge(y) \/ Purge(y)
  PROVE  OrderInv'
<1>1. /\ rows' = rows \ {y}
      /\ UNCHANGED <<clock, inserts, blocks, expired, acknowledged, issued, ordered>>
  BY DEF Merge, Purge, history
<1>2. KnownInv' /\ NotedInv'
  BY <1>1 DEF OrderInv, KnownInv, NotedInv, Noted
<1>3. \A o : OlderRows(o)' \in SUBSET OlderRows(o)
  BY <1>1 DEF OlderRows
<1>4. ASSUME NEW o \in Operations, NEW i \in DOMAIN DataOf[o], Noted(o, i)',
             BucketAt(o, i) \notin expired
      PROVE  \E z \in rows' : Holds(z, o, i) /\ Outranks(z, o)'
  <2>1. PICK z \in rows : Holds(z, o, i) /\ Outranks(z, o)
    BY <1>1, <1>4 DEF OrderInv, RankInv, Noted
  <2>2. CASE z # y
    BY <1>1, <1>3, <2>1, <2>2 DEF Outranks
  <2>3. CASE z = y /\ Merge(y)
    <3>1. PICK w \in rows : SameKey(y, w) /\ Newer(w, y)
      BY <2>3 DEF Merge, Superseded
    <3>2. w # y
      BY <3>1, RowsTable, NewerIrreflexive
    <3>3. Holds(w, o, i)
      BY <2>1, <2>3, <3>1, SameKeyHolds
    <3>4. Outranks(w, o)
      BY <2>1, <2>3, <3>1, RowsTable, NewerTransitive DEF Outranks, OlderRows
    <3> QED
      BY <1>1, <1>3, <3>2, <3>3, <3>4 DEF Outranks
  <2>4. CASE z = y /\ Purge(y)
    BY <1>4, <2>1, <2>4, HoldsBucket DEF Purge
  <2> QED
    BY <2>2, <2>3, <2>4
<1>5. RankInv'
  BY <1>1, <1>3, <1>4 DEF OrderInv, RankInv
<1> QED
  BY <1>2, <1>5 DEF OrderInv

\* Steps of callers and of time leave the order of versions alone.
LEMMA QuietOrder ==
  ASSUME TypeOK, OrderInv,
         UNCHANGED <<blocks, rows, issued, ordered>>,
         inserts' \subseteq inserts, clock <= clock', clock' \in Nat,
         expired \subseteq expired', acknowledged \subseteq acknowledged',
         \A o \in acknowledged' :
           \/ o \in acknowledged
           \/ o \in issued /\ \A i \in DOMAIN DataOf[o] : Noted(o, i)
  PROVE  OrderInv'
<1>1. KnownInv'
  BY DEF OrderInv, KnownInv, TypeOK, Inserts
<1>2. \A o, i : Noted(o, i)' <=> Noted(o, i)
  BY DEF Noted
<1>3. NotedInv'
  BY <1>2 DEF OrderInv, NotedInv
<1>4. \A o : OlderRows(o)' = OlderRows(o)
  BY DEF OlderRows
<1>5. RankInv'
  BY <1>2, <1>4 DEF OrderInv, RankInv, Outranks
<1> QED
  BY <1>1, <1>3, <1>5 DEF OrderInv

\* Every step keeps the order of versions while the window suffices.
LEMMA OrderStep ==
  ASSUME ~ AppendOnly, DistinctBatches, Skew = 0, WindowSuffices,
         TypeOK, TypeOK', RowsNumbered, OrderInv, [Next]_vars
  PROVE  OrderInv'
<1>1. ASSUME NEW s \in Sessions, NEW o \in Operations, Write(s, o) PROVE OrderInv'
  BY <1>1, WriteOrder
<1>2. ASSUME NEW m \in inserts, NEW b \in m.todo, StoreBlock(m, b) PROVE OrderInv'
  BY <1>2, StoreOrder
<1>3. ASSUME NEW x \in rows, Merge(x) \/ Purge(x) PROVE OrderInv'
  BY <1>3, RemoveOrder
<1>4. clock \in Nat /\ clock' \in Nat
  BY IngestionAssumption DEF TypeOK
<1>5. ASSUME NEW s \in Sessions, Receipt(s) PROVE OrderInv'
  <2>1. PICK m \in inserts : /\ m.todo = {} /\ inserts' = inserts \ {m}
                             /\ acknowledged' = acknowledged \cup {m.op}
    BY <1>5 DEF Receipt
  <2>2. m.op \in issued /\ \A i \in DOMAIN DataOf[m.op] : Noted(m.op, i)
    BY <2>1 DEF OrderInv, KnownInv, NotedInv
  <2>3. UNCHANGED <<clock, blocks, rows, expired, issued, ordered>>
    BY <1>5 DEF Receipt, table
  <2> QED
    BY <1>4, <2>1, <2>2, <2>3, QuietOrder
<1>6. CASE \/ \E s \in Sessions : GiveUp(s)
           \/ \E b \in Buckets : Expire(b)
           \/ Tick \/ UNCHANGED vars
  <2>1. /\ UNCHANGED <<blocks, rows, issued, ordered, inserts, acknowledged>>
        /\ clock <= clock' /\ expired \subseteq expired'
    BY <1>4, <1>6 DEF GiveUp, Expire, Tick, vars, table, history
  <2> QED
    BY <1>4, <2>1, QuietOrder
<1> QED
  BY <1>1, <1>2, <1>3, <1>5, <1>6 DEF Next

\* A put never comes back once a later put of its key has been acknowledged:
\* among hosts with one clock, for distinct operations, as long as the engine
\* remembers the tokens of what was stored, whatever is retried or delayed.
THEOREM NothingResurrected ==
  ASSUME ~ AppendOnly, Skew = 0, DistinctBatches
  PROVE  Spec /\ []WindowSuffices => []NoResurrection
<1>1. Init => OrderInv
  BY DEF Init, OrderInv, KnownInv, NotedInv, RankInv, Noted
<1>2. TypeOK /\ TypeOK' /\ IInv /\ WindowSuffices /\ OrderInv /\ [Next]_vars => OrderInv'
  BY OrderStep DEF IInv
<1>3. TypeOK /\ OrderInv => NoResurrection
  <2> SUFFICES ASSUME TypeOK, OrderInv, NEW x \in Visible(rows), NEW p \in ordered,
                      p[2] \in acknowledged, x.batch = BatchId(p[1]), ScopeOf[p[2]] = x.scope,
                      NEW i \in DOMAIN DataOf[p[2]], DataOf[p[2]][i].key = x.record.key
               PROVE  FALSE
    BY DEF NoResurrection
  <2>1. p[1] \in Operations /\ p[2] \in Operations /\ p = <<p[1], p[2]>>
    BY DEF TypeOK
  <2>2. x \in rows /\ ~ Superseded(x, rows) /\ BucketAt(p[2], i) \notin expired
    BY DEF Visible, Final, Live, BucketOfRow, BucketAt
  <2>3. Noted(p[2], i)
    BY DEF OrderInv, NotedInv
  <2>4. PICK z \in rows : Holds(z, p[2], i) /\ Outranks(z, p[2])
    BY <2>1, <2>2, <2>3 DEF OrderInv, RankInv
  <2>5. x \in OlderRows(p[2])
    BY <2>1, <2>2 DEF OlderRows
  <2>6. SameKey(x, z) /\ Newer(z, x)
    BY <2>4, <2>5 DEF SameKey, Holds, Outranks
  <2> QED
    BY <2>2, <2>6 DEF Superseded
<1> QED
  BY <1>1, <1>2, <1>3, TypeCorrect, Invariance, PTL DEF Spec

=============================================================================
