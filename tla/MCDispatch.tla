----------------------------- MODULE MCDispatch -----------------------------
(***************************************************************************)
(* Requests for Dispatch: sound ones of every form around the page limit,  *)
(* with a deadline or without one, and requests with one or two flaws.     *)
(***************************************************************************)
EXTENDS Dispatch

Request(contract, plan, metrics, page, matches, deadline, flaws) ==
  [contract |-> contract, plan |-> plan, metrics |-> metrics, page |-> page,
   matches |-> matches, deadline |-> deadline, flaws |-> flaws]

MCDeadlines == {Never, 0, 2, 4}

MCWrites == {Request(c, "none", FALSE, 1, 0, d, { }) : c \in Writes, d \in MCDeadlines}

MCWireReads ==
  {Request(c, p, FALSE, n, k, d, { }) :
     c \in Reads, p \in {"get", "scan", "aggregate"}, n \in 1..PageLimit,
     k \in 0..(PageLimit + 2), d \in MCDeadlines}

MCSimpleReads ==
  {Request(c, "none", m, n, k, d, { }) :
     c \in Reads, m \in BOOLEAN, n \in 1..PageLimit, k \in 0..(PageLimit + 2), d \in MCDeadlines}

MCFlawed ==
  {Request(c, "none", FALSE, 1, 1, d, {f, g}) :
     c \in {"append", "query"}, d \in MCDeadlines,
     f \in GuardFlaws \cup ContentFlaws, g \in GuardFlaws \cup ContentFlaws}

MCRequests == MCWrites \cup MCWireReads \cup MCSimpleReads \cup MCFlawed

=============================================================================
