------------------------------ MODULE MergeTree ------------------------------
(***************************************************************************)
(* The table behind one Resource layout, as create_table_ddl declares it:  *)
(* a ReplacingMergeTree whose version column is the hidden ingestion time, *)
(* ordered by scope, timestamp and identities and, for an append-only      *)
(* layout, by the fingerprint of the whole record as well.                 *)
(*                                                                         *)
(* A row carries at least                                                  *)
(*   scope     the scope digest,                                           *)
(*   record    the submitted record: its timestamp and identity fields are *)
(*             its key, every other field is its body, and the record      *)
(*             stands for its own fingerprint (the hash is injective),     *)
(*   ingested  the hidden ingestion time, and                              *)
(*   block, pos  the engine's number of the inserted block and the row's   *)
(*             place in it, which order rows of equal version.             *)
(***************************************************************************)
EXTENDS Integers, FiniteSets

CONSTANTS
  Keys,        \* values of the timestamp and identity fields
  Bodies,      \* values of the remaining fields
  AppendOnly   \* ResourceLayout.append_only

ASSUME AppendOnlyAssumption == AppendOnly \in BOOLEAN

Records == [key : Keys, body : Bodies]

\* Plausible mistake: an append-only layout ordered without the row fingerprint.
SameKeyWithoutFingerprint(x, y) == x.scope = y.scope /\ x.record.key = y.record.key

\* Plausible mistake: the hidden ingestion time is hashed with the record.
SameKeyWithIngestion(x, y) ==
  /\ x.scope = y.scope
  /\ x.record.key = y.record.key
  /\ AppendOnly => x.record = y.record /\ x.ingested = y.ingested

\* Equal under ORDER BY: the engine keeps one row of each such class.
SameKey(x, y) ==
  /\ x.scope = y.scope
  /\ x.record.key = y.record.key
  /\ AppendOnly => x.record = y.record

\* The row ReplacingMergeTree keeps: the greater version, and of equal
\* versions the one inserted last.
Newer(y, x) ==
  \/ y.ingested > x.ingested
  \/ y.ingested = x.ingested /\ y.block > x.block
  \/ y.ingested = x.ingested /\ y.block = x.block /\ y.pos > x.pos

Superseded(x, rows) == \E y \in rows : SameKey(x, y) /\ Newer(y, x)

\* What SELECT ... FINAL returns, whatever has been merged so far.
Final(rows) == {x \in rows : ~Superseded(x, rows)}

\* Some row that a FINAL read returns stands for x.
Represented(x, rows) == \E y \in Final(rows) : SameKey(x, y)

=============================================================================
