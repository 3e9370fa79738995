---------------------------- MODULE MCPagination ----------------------------
(***************************************************************************)
(* Instances of Pagination for TLC.                                        *)
(***************************************************************************)
EXTENDS Pagination, TLC

CONSTANTS k1, k2, v1, v2, sa, sb

MCBodies == {v1, v2}
MCKeys == {k1, k2}
MCScopes == {sa, sb}

Rec(k, v) == [key |-> k, body |-> v]

\* Both records of k1 tie but for their digests, one of which begins with a
\* digit and sorts before Base64 text, the other with a letter and sorts behind.
MCTimeOf == [k \in Keys |-> 1]
MCIdentityOf == [k \in Keys |-> IF k = k1 THEN 1 ELSE 2]
MCBodyRank == [v \in Bodies |-> IF v = v1 THEN 1 ELSE 2]
MCDigest ==
  [r \in Records |->
     IF r.key = k1 THEN (IF r.body = v1 THEN 3 ELSE 12) ELSE IF r.body = v1 THEN 7 ELSE 14]

ByDefault == [order |-> << >>, from |-> 0, to |-> 9]
ByBody == [order |-> <<[field |-> "body", direction |-> "desc"]>>, from |-> 0, to |-> 9]
MCPlans == {ByDefault, ByBody}

\* Two plans whose cursors carry tuples of the same shape.
ByBodyUp == [ByBody EXCEPT !.order = <<[field |-> "body", direction |-> "asc"]>>]
MCBodyPlans == {ByBody, ByBodyUp}

=============================================================================
