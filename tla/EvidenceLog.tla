----------------------------- MODULE EvidenceLog -----------------------------
(***************************************************************************)
(* What the adapter promises of an append-only Resource, without batches,  *)
(* tokens, retries, row versions or merges: a set of visible evidence that *)
(* only grows until retention takes a whole partition, and an              *)
(* acknowledgement that is given only once everything it covers is         *)
(* visible.  Partitions of one operation may become visible one by one     *)
(* (the adapter does not advertise atomic-evidence), in any order, and     *)
(* also when the caller has been told nothing, or that the call failed.    *)
(***************************************************************************)
CONSTANTS
  Operations,   \* the append operations callers issue
  Evidence,     \* scoped records
  Submitted,    \* [Operations -> SUBSET Evidence]
  Buckets,      \* partitions
  BucketOf      \* [Evidence -> Buckets]

VARIABLES
  visible,       \* evidence a reader sees
  acknowledged,  \* operations whose caller holds a receipt
  retired        \* partitions past their retention

logVars == <<visible, acknowledged, retired>>

InBucket(E, b) == {e \in E : BucketOf[e] = b}

Init == visible = {} /\ acknowledged = {} /\ retired = {}

Reveal(o, b) ==
  /\ b \notin retired
  /\ visible' = visible \cup InBucket(Submitted[o], b)
  /\ UNCHANGED <<acknowledged, retired>>

Acknowledge(o) ==
  /\ \A e \in Submitted[o] : e \in visible \/ BucketOf[e] \in retired
  /\ acknowledged' = acknowledged \cup {o}
  /\ UNCHANGED <<visible, retired>>

Retire(b) ==
  /\ retired' = retired \cup {b}
  /\ visible' = visible \ InBucket(visible, b)
  /\ UNCHANGED acknowledged

Next ==
  \/ \E o \in Operations, b \in Buckets : Reveal(o, b)
  \/ \E o \in Operations : Acknowledge(o)
  \/ \E b \in Buckets : Retire(b)

Spec == Init /\ [][Next]_logVars

=============================================================================
