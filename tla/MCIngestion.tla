----------------------------- MODULE MCIngestion -----------------------------
(***************************************************************************)
(* Instances of Ingestion for TLC: appended evidence and versioned puts.   *)
(***************************************************************************)
EXTENDS Ingestion, TLC

CONSTANTS k1, k2, v1, v2, sa, sb, p1, p2, op1, op2, op3, op4

SessionSymmetry == Permutations(Sessions)

MCKeys == {k1, k2}
MCBodies == {v1, v2}
MCScopes == {sa, sb}
MCBuckets == {p1, p2}
MCBucketOfKey == (k1 :> p1) @@ (k2 :> p2)

Rec(k, v) == [key |-> k, body |-> v]

\* op1 covers two partitions; op2 has op1's stable key and scope but other
\* content under the same identity; op3 is op2 in another scope, with the same
\* stable key; op4 has more rows than a batch may carry.
MCAppendOperations == {op1, op2, op3, op4}
MCAppendData ==
  (op1 :> <<Rec(k1, v1), Rec(k2, v2)>>) @@ (op2 :> <<Rec(k1, v2)>>)
  @@ (op3 :> <<Rec(k1, v2)>>)
  @@ (op4 :> <<Rec(k1, v1), Rec(k1, v2), Rec(k2, v2)>>)
MCAppendScope == (op1 :> sa) @@ (op2 :> sa) @@ (op3 :> sb) @@ (op4 :> sa)
MCAppendKey == [o \in MCAppendOperations |-> "order-7"]

\* Three puts of the same record: two versions, and the first one again by a
\* caller without an idempotency key, whose request id differs.
MCPutOperations == {op1, op2, op3}
MCPutData ==
  (op1 :> <<Rec(k1, v1)>>) @@ (op2 :> <<Rec(k1, v2), Rec(k2, v2)>>) @@ (op3 :> <<Rec(k1, v1)>>)
MCPutScope == [o \in MCPutOperations |-> sa]
MCPutKey == (op1 :> "a") @@ (op2 :> "b") @@ (op3 :> "c")

=============================================================================
