----------------------------- MODULE MCMigration -----------------------------
(***************************************************************************)
(* Instances of Migration for TLC.  Resource "a" is evidence, with a       *)
(* legacy layout and two append-only ones that differ in their retention;  *)
(* Resource "b" is structured, with two layouts of different columns.      *)
(***************************************************************************)
EXTENDS Migration, TLC

CONSTANTS legacy, month, year, narrow, wide

JobSymmetry == Permutations(Jobs)

MCLayouts == {legacy, month, year, narrow, wide}
MCEvidence == {legacy, month, year}
MCResourceOf == [l \in MCLayouts |-> IF l \in MCEvidence THEN "a" ELSE "b"]
MCTableOf == [l \in MCLayouts |-> IF l \in MCEvidence THEN "m_a" ELSE "m_b"]
MCColumnsOf == [l \in MCLayouts |-> IF l = wide THEN 3 ELSE 2]
MCOrderOf == [l \in MCLayouts |-> IF l \in {month, year} THEN "key+row" ELSE "key"]
MCRetentionOf == [l \in MCLayouts |-> IF l = month THEN 30 ELSE 365]
MCIsAppendOnly == [l \in MCLayouts |-> l \in {month, year}]

MCBundles ==
  {[id |-> "m0", layouts |-> <<legacy>>],
   [id |-> "m1", layouts |-> <<month, narrow>>],
   [id |-> "m2", layouts |-> <<year, wide>>]}

=============================================================================
