------------------------------ MODULE Dispatch ------------------------------
(***************************************************************************)
(* One call of a session: the guards of _execute in their order, what is   *)
(* handed to the driver, the engine's limits, and the class of the outcome *)
(* the caller sees.  The clock runs between any two steps, the session may *)
(* be closed, and an insert the driver gave up on may still be stored.     *)
(*                                                                         *)
(* A tick is a fraction of a millisecond.                                  *)
(***************************************************************************)
EXTENDS Integers, Sequences, FiniteSets

CONSTANTS
  Requests,          \* the requests that may be made
  PageLimit,         \* the largest page, 500
  Millisecond,       \* the shortest limit a query can be given, in ticks
  OperationTimeout,  \* settings.operation_timeout_ms, in ticks
  MaxClock           \* bound of the search: the last instant

Never == -1
Classes == {"validation", "deadline", "limit", "configuration", "compatibility",
            "unavailable", "transient"}

\* contract  what Core routed here
\* plan      the operation of the Query wire plan, or "none"
\* metrics   the mapping-first input has "metrics"
\* page      rows per page
\* matches   rows the predicate selects, or groups they fall into
\* deadline  an instant, or Never
\* flaws     what is wrong with the request
Writes == {"append", "put"}
Reads == {"evidence.query", "aggregate", "get", "query"}
GuardFlaws == {"binding", "resources", "layout", "contract", "version", "atomic"}
ContentFlaws == {"invalid", "arithmetic"}

RequestType ==
  [contract : Writes \cup Reads, plan : {"none", "get", "scan", "aggregate"},
   metrics : BOOLEAN, page : 1..PageLimit, matches : Nat, deadline : Nat \cup {Never},
   flaws : SUBSET (GuardFlaws \cup ContentFlaws)]

ASSUME DispatchAssumption ==
  /\ PageLimit \in Nat \ {0} /\ Millisecond \in Nat \ {0}
  /\ OperationTimeout \in Nat /\ MaxClock \in Nat
  /\ Requests \subseteq RequestType

VARIABLES
  now,      \* the clock
  session,  \* "open" or "closed"
  request,  \* the request of the call
  stage,    \* "idle", "checked", "compiled", "timed", "sent" or "done"
  limit,    \* max_execution_time of the query
  readAt,   \* when the time left for the query was read (history)
  insert,   \* "none", "travelling", "stored" or "refused"
  outcome   \* what the caller got

vars == <<now, session, request, stage, limit, readAt, insert, outcome>>

Empty(class) == [class |-> class, delivered |-> 0, more |-> FALSE]
Pending == Empty("none")

-----------------------------------------------------------------------------
\* Requests.

IsWrite(r) == r.contract \in Writes
IsWire(r) == r.plan # "none"

\* What is compiled: the wire plan decides, or the contract's last word unless
\* the input asks for metrics.
Method(r) ==
  CASE IsWire(r) -> r.plan
    [] ~IsWire(r) /\ r.metrics -> "aggregate"
    [] OTHER -> r.contract

IsAggregate(r) == Method(r) = "aggregate"

\* Rows per page of an answer; a mapping-first aggregate has no page of its own.
PageSize(r) == IF IsAggregate(r) /\ ~IsWire(r) THEN PageLimit ELSE r.page

-----------------------------------------------------------------------------
\* Time limits.

Elapsed(r) == r.deadline # Never /\ r.deadline <= now

Least(a, b) == IF a <= b THEN a ELSE b
Most(a, b) == IF a <= b THEN b ELSE a

\* Plausible mistake: the time left is taken once, when the request arrives.
TimeoutAtStart(r) ==
  Most(Millisecond,
       IF r.deadline = Never THEN OperationTimeout ELSE Least(OperationTimeout, r.deadline))

\* _timeout_seconds, where the deadline has not elapsed: what is left of it, but
\* never less than a millisecond, which may be more than is left
Timeout(r) ==
  Most(Millisecond,
       IF r.deadline = Never THEN OperationTimeout ELSE Least(OperationTimeout, r.deadline - now))

-----------------------------------------------------------------------------
\* Refusals: the first guard that fails names the class.

Guards == <<"binding", "resources", "deadline", "layout", "contract", "version", "atomic",
            "invalid", "arithmetic">>

ClassOf(flaw) ==
  CASE flaw \in {"binding", "resources", "invalid"} -> "validation"
    [] flaw = "deadline"                            -> "deadline"
    [] flaw = "layout"                              -> "configuration"
    [] flaw \in {"contract", "version", "atomic"}   -> "compatibility"
    [] flaw = "arithmetic"                          -> "transient"

Unmeasured(r) == r.contract = "aggregate" /\ ~IsWire(r) /\ ~r.metrics

FlawsNow(r) ==
  (IF r.contract = "append" THEN r.flaws ELSE r.flaws \ {"atomic"})
    \cup {f \in {"deadline"} : Elapsed(r)} \cup {f \in {"invalid"} : Unmeasured(r)}

First(F) == CHOOSE f \in F :
  \E i \in DOMAIN Guards : Guards[i] = f /\ \A j \in 1..(i - 1) : Guards[j] \notin F

End(class) ==
  /\ stage' = "done"
  /\ outcome' = Empty(class)

Init ==
  /\ now = 0 /\ session = "open"
  /\ request \in Requests
  /\ stage = "idle" /\ limit = 0 /\ readAt = Never /\ insert = "none" /\ outcome = Pending

-----------------------------------------------------------------------------
\* The adapter.

Refuse(flaws) ==
  /\ End(ClassOf(First(flaws)))
  /\ UNCHANGED <<now, session, request, limit, readAt, insert>>

RefuseClosed ==
  /\ stage = "idle" /\ session = "closed"
  /\ End("unavailable")
  /\ UNCHANGED <<now, session, request, limit, readAt, insert>>

\* Everything up to the split into writes and reads.
GuardsFailing(r) == FlawsNow(r) \cap (GuardFlaws \cup {"deadline"})

RefuseGuards ==
  /\ stage = "idle" /\ session = "open"
  /\ GuardsFailing(request) # {}
  /\ Refuse(GuardsFailing(request))

PassGuards ==
  /\ stage = "idle" /\ session = "open"
  /\ GuardsFailing(request) = {}
  /\ stage' = "checked"
  /\ UNCHANGED <<now, session, request, limit, readAt, insert, outcome>>

\* prepare_batch refuses; the deadline is not looked at again.
RefuseWrite ==
  /\ stage = "checked" /\ IsWrite(request)
  /\ request.flaws \cap ContentFlaws # {}
  /\ Refuse(request.flaws \cap ContentFlaws)

SendInsert ==
  /\ stage = "checked" /\ IsWrite(request)
  /\ request.flaws \cap ContentFlaws = {}
  /\ stage' = "sent" /\ insert' = "travelling"
  /\ UNCHANGED <<now, session, request, limit, readAt, outcome>>

\* The translation context and the compilers; then the command is ready.
TranslationFailing(r) == FlawsNow(r) \cap (ContentFlaws \cup {"deadline"})

RefuseQuery ==
  /\ stage = "checked" /\ ~IsWrite(request)
  /\ TranslationFailing(request) # {}
  /\ Refuse(TranslationFailing(request))

Compile ==
  /\ stage = "checked" /\ ~IsWrite(request)
  /\ TranslationFailing(request) = {}
  /\ stage' = "compiled"
  /\ UNCHANGED <<now, session, request, limit, readAt, insert, outcome>>

RefuseLate ==
  /\ stage = "compiled" /\ Elapsed(request)
  /\ Refuse({"deadline"})

ReadTimeLeft ==
  /\ stage = "compiled" /\ ~Elapsed(request)
  /\ stage' = "timed" /\ readAt' = now /\ limit' = Timeout(request)
  /\ UNCHANGED <<now, session, request, insert, outcome>>

\* The clock is not looked at again, however late the driver gets the query.
SendQuery ==
  /\ stage = "timed" /\ stage' = "sent"
  /\ UNCHANGED <<now, session, request, limit, readAt, insert, outcome>>

\* Plausible mistake: the time left is first looked at when the rows are stored.
ReceiptInTime ==
  /\ stage = "sent" /\ insert = "stored"
  /\ stage' = "done"
  /\ outcome' = Empty(IF Elapsed(request) THEN "deadline" ELSE "ok")
  /\ UNCHANGED <<now, session, request, limit, readAt, insert>>

Receipt ==
  /\ stage = "sent" /\ insert = "stored"
  /\ End("ok")
  /\ UNCHANGED <<now, session, request, limit, readAt, insert>>

\* Plausible mistake: the engine may return no more rows than a page has.
ResultRowsOfPage == PageLimit

\* max_result_rows
MaxResultRows == PageLimit + 1

\* Plausible mistake: one LIMIT for every query.
ProducedWithLimit(r) == Least(r.matches, PageSize(r) + 1)

\* Rows of the engine's result: records have a LIMIT, aggregates have none.
Produced(r) == IF IsAggregate(r) THEN r.matches ELSE Least(r.matches, PageSize(r) + 1)

\* Plausible mistake: the row that only tells of a next page is delivered too.
AnswerUncut ==
  /\ stage = "sent" /\ ~IsWrite(request)
  /\ Produced(request) <= MaxResultRows
  /\ stage' = "done"
  /\ outcome' =
       [class |-> "ok",
        delivered |-> Produced(request),
        more |-> ~IsAggregate(request) /\ Produced(request) > PageSize(request)]
  /\ UNCHANGED <<now, session, request, limit, readAt, insert>>

\* normalize_result
Answer ==
  /\ stage = "sent" /\ ~IsWrite(request)
  /\ Produced(request) <= MaxResultRows
  /\ stage' = "done"
  /\ outcome' =
       [class |-> "ok",
        delivered |-> Least(Produced(request), PageSize(request)),
        more |-> ~IsAggregate(request) /\ Produced(request) > PageSize(request)]
  /\ UNCHANGED <<now, session, request, limit, readAt, insert>>

\* The budget of a wire plan, or max_result_bytes, refuses an answer that came.
RefuseAnswer ==
  /\ stage = "sent" /\ ~IsWrite(request)
  /\ Produced(request) \in 1..MaxResultRows
  /\ End("limit")
  /\ UNCHANGED <<now, session, request, limit, readAt, insert>>

-----------------------------------------------------------------------------
\* The driver and the engine.

\* result_overflow_mode is throw
Overflow ==
  /\ stage = "sent" /\ ~IsWrite(request)
  /\ Produced(request) > MaxResultRows
  /\ End("transient")
  /\ UNCHANGED <<now, session, request, limit, readAt, insert>>

\* Plausible mistake: no send_receive_timeout, so that only max_execution_time
\* ends a call.
GiveUpQuery ==
  /\ stage = "sent" /\ ~IsWrite(request)
  /\ End("transient")
  /\ UNCHANGED <<now, session, request, limit, readAt, insert>>

\* A query past its limit, a connection that breaks or was closed with the
\* runtime, an answer that does not come: the driver raises.
GiveUp ==
  /\ stage = "sent"
  /\ End("transient")
  /\ UNCHANGED <<now, session, request, limit, readAt, insert>>

\* The driver cannot write a value in the column's type, the engine refuses the
\* block, or the client is closed: the insert goes no further.
RefuseInsert ==
  /\ stage = "sent" /\ insert = "travelling"
  /\ insert' = "refused"
  /\ \E class \in {"validation", "transient"} : End(class)
  /\ UNCHANGED <<now, session, request, limit, readAt>>

\* Also after the driver gave up.
Store ==
  /\ insert = "travelling"
  /\ insert' = "stored"
  /\ UNCHANGED <<now, session, request, stage, limit, readAt, outcome>>

Lose ==
  /\ insert = "travelling" /\ stage = "done"
  /\ insert' = "refused"
  /\ UNCHANGED <<now, session, request, stage, limit, readAt, outcome>>

-----------------------------------------------------------------------------
\* Time and the other threads.

Tick ==
  /\ now < MaxClock
  /\ now' = now + 1
  /\ UNCHANGED <<session, request, stage, limit, readAt, insert, outcome>>

CloseSession ==
  /\ session = "open" /\ session' = "closed"
  /\ UNCHANGED <<now, request, stage, limit, readAt, insert, outcome>>

Adapter ==
  \/ RefuseClosed \/ RefuseGuards \/ PassGuards
  \/ RefuseWrite \/ SendInsert
  \/ RefuseQuery \/ Compile \/ RefuseLate \/ ReadTimeLeft \/ SendQuery

Engine == Receipt \/ Answer \/ RefuseAnswer \/ Overflow \/ GiveUp \/ RefuseInsert \/ Store \/ Lose

Next == Adapter \/ Engine \/ Tick \/ CloseSession

Spec == Init /\ [][Next]_vars
FairSpec == Spec /\ WF_vars(Adapter) /\ WF_vars(GiveUp)

-----------------------------------------------------------------------------
\* Properties.

TypeOK ==
  /\ now \in 0..MaxClock /\ session \in {"open", "closed"} /\ request \in RequestType
  /\ stage \in {"idle", "checked", "compiled", "timed", "sent", "done"}
  /\ limit \in Nat /\ readAt \in Nat \cup {Never}
  /\ insert \in {"none", "travelling", "stored", "refused"}
  /\ outcome \in [class : Classes \cup {"none", "ok"}, delivered : 0..PageLimit, more : BOOLEAN]

\* A caller that is told anything but ok or transient may forget the write: it
\* is not stored and never will be.  Only a transient failure leaves it open.
RefusedMeansUnstored ==
  IsWrite(request) /\ outcome.class \in Classes \ {"transient"} =>
    insert \notin {"travelling", "stored"}

\* No query goes without a time limit, and however long the checks and the
\* compilation took, the limit is no more than the caller has left when the
\* clock is read for it; only where that is less than a millisecond the engine
\* gets the whole one.  So it may run past the deadline by less than a
\* millisecond, and by as long as the query takes from there to the driver.
TimeLimitFits ==
  readAt # Never =>
    /\ limit \in Millisecond..Most(Millisecond, OperationTimeout)
    /\ request.deadline # Never =>
         LET overrun == readAt + limit - request.deadline IN
         overrun < Millisecond /\ (overrun > 0 => limit = Millisecond)

Answered == outcome.class = "ok" /\ ~IsWrite(request)

\* A page of records is all there is or a full page with a cursor, also where
\* the page is the largest and one more row is read to see whether it is last.
PagesWhole ==
  ~IsWrite(request) /\ ~IsAggregate(request) =>
    /\ Answered => /\ outcome.delivered = Least(request.matches, request.page)
                   /\ outcome.more <=> request.matches > request.page
    /\ stage = "sent" => Produced(request) <= MaxResultRows

\* An aggregate has no cursor.  A mapping-first one is refused when it has too
\* many groups, except that exactly one too many is dropped; a wire plan drops
\* what its page does not hold, but never delivers more than it has.
GroupsLost ==
  Answered /\ IsAggregate(request) =>
    LET lost == request.matches - outcome.delivered IN
    /\ lost >= 0 /\ ~outcome.more
    /\ ~IsWire(request) => lost \in {0, 1} /\ (lost = 1 => request.matches = PageLimit + 1)

\* Every call comes to an end.
CallsEnd == (stage # "idle") ~> (stage = "done")

=============================================================================
