--------------------------- MODULE DispatchProofs ---------------------------
(***************************************************************************)
(* What the caller of a session may conclude from an outcome, for all      *)
(* requests, page limits and timeouts.                                     *)
(***************************************************************************)
EXTENDS Dispatch, TLAPS

\* Nothing leaves the adapter, and nothing is decided, before the call is sent.
Unsent ==
  stage \in {"idle", "checked", "compiled", "timed"} => insert = "none" /\ outcome = Pending

\* An insert that can still be stored has only been given up on.
Undecided == insert \in {"travelling", "stored"} => outcome.class \in {"none", "ok", "transient"}

OnlyWritesInsert == ~IsWrite(request) => insert = "none"

\* What an answered read delivers.
AnswerInv ==
  Answered =>
    /\ Produced(request) <= MaxResultRows
    /\ outcome.delivered = Least(Produced(request), PageSize(request))
    /\ outcome.more <=> ~IsAggregate(request) /\ Produced(request) > PageSize(request)

IInv == TypeOK /\ Unsent /\ Undecided /\ OnlyWritesInsert /\ TimeLimitFits /\ AnswerInv

-----------------------------------------------------------------------------
\* Classes of refusals.

\* A refusal never says ok, and a class is found for whatever is wrong: the
\* flaws of a request are among the guards.
LEMMA RefusalClass ==
  ASSUME NEW F, F # {}, F \subseteq GuardFlaws \cup ContentFlaws \cup {"deadline"}
  PROVE  ClassOf(First(F)) \in Classes
<1>1. First(F) \in F
  <2> DEFINE Named == {i \in 1..9 : Guards[i] \in F}
  <2>1. PICK f : f \in F
    OBVIOUS
  <2>2. \E i \in 1..9 : Guards[i] = f
    BY <2>1 DEF Guards, GuardFlaws, ContentFlaws
  <2>3. \E i \in 1..9 : Guards[i] \in F /\ \A j \in 1..(i - 1) : Guards[j] \notin F
    BY <2>1, <2>2, SMTT(30) DEF Guards
  <2>4. PICK i \in 1..9 : Guards[i] \in F /\ \A j \in 1..(i - 1) : Guards[j] \notin F
    BY <2>3
  <2>5. DOMAIN Guards = 1..9
    BY DEF Guards
  <2> QED
    BY <2>4, <2>5 DEF First
<1>2. \A f \in GuardFlaws \cup ContentFlaws \cup {"deadline"} : ClassOf(f) \in Classes
  BY DEF ClassOf, GuardFlaws, ContentFlaws, Classes
<1> QED
  BY <1>1, <1>2

\* Every flaw a request shows at some time is one of those Guards names.
LEMMA FlawsKnown ==
  ASSUME NEW r \in RequestType
  PROVE  FlawsNow(r) \subseteq GuardFlaws \cup ContentFlaws \cup {"deadline"}
BY DEF FlawsNow, RequestType, ContentFlaws

\* The limit read before a deadline that has not elapsed: at least a millisecond,
\* and no more than is left unless it is exactly that.
LEMMA TimeoutFits ==
  ASSUME NEW r \in RequestType, now \in Nat, ~Elapsed(r)
  PROVE  /\ Timeout(r) \in Nat
         /\ Timeout(r) \in Millisecond..Most(Millisecond, OperationTimeout)
         /\ r.deadline # Never =>
              /\ r.deadline \in Nat
              /\ now + Timeout(r) - r.deadline < Millisecond
              /\ now + Timeout(r) - r.deadline > 0 => Timeout(r) = Millisecond
<1>1. /\ r.deadline \in Nat \cup {Never} /\ OperationTimeout \in Nat
      /\ Millisecond \in Nat \ {0}
  BY DispatchAssumption DEF RequestType
<1>2. CASE r.deadline = Never
  BY <1>1, <1>2 DEF Timeout, Most
<1>3. CASE r.deadline # Never
  <2>1. r.deadline \in Nat /\ r.deadline > now
    BY <1>1, <1>3 DEF Elapsed
  <2> DEFINE left == Least(OperationTimeout, r.deadline - now)
  <2>2. left \in Nat /\ left <= OperationTimeout /\ now + left <= r.deadline
    BY <1>1, <2>1 DEF Least
  <2>3. Timeout(r) = Most(Millisecond, left)
    BY <1>3 DEF Timeout
  <2> HIDE DEF left
  <2> QED
    BY <1>1, <2>1, <2>2, <2>3 DEF Most
<1> QED
  BY <1>2, <1>3

\* Row counts are numbers; what is delivered fits a page.
LEMMA PageTyped ==
  ASSUME NEW r \in RequestType
  PROVE  /\ PageSize(r) \in 1..PageLimit
         /\ Produced(r) \in Nat
         /\ Least(Produced(r), PageSize(r)) \in 0..PageLimit
<1>1. r.page \in 1..PageLimit /\ r.matches \in Nat /\ PageLimit \in Nat \ {0}
  BY DispatchAssumption DEF RequestType
<1>2. PageSize(r) \in 1..PageLimit
  BY <1>1 DEF PageSize
<1>3. Produced(r) \in Nat
  BY <1>1, <1>2 DEF Produced, Least
<1> QED
  BY <1>1, <1>2, <1>3 DEF Least

\* Every outcome without rows has the type of an outcome.
LEMMA EmptyOutcomeTyped ==
  ASSUME NEW class \in Classes \cup {"ok"}
  PROVE  Empty(class)
           \in [class : Classes \cup {"none", "ok"}, delivered : 0..PageLimit, more : BOOLEAN]
BY DispatchAssumption DEF Empty

-----------------------------------------------------------------------------
\* The invariant holds before the call.
LEMMA InitInv == Init => IInv
<1> SUFFICES ASSUME Init PROVE IInv
  OBVIOUS
<1>1. request \in RequestType
  BY DispatchAssumption DEF Init
<1>2. TypeOK
  BY <1>1, DispatchAssumption DEF Init, TypeOK, Pending, Empty, Never
<1> QED
  BY <1>2 DEF Init, IInv, Unsent, Undecided, OnlyWritesInsert, TimeLimitFits, AnswerInv, Answered,
              Pending, Empty

\* A refusal before anything is sent.
LEMMA RefuseStep ==
  ASSUME IInv, NEW F, F # {}, F \subseteq GuardFlaws \cup ContentFlaws \cup {"deadline"},
         stage \in {"idle", "checked", "compiled", "timed"}, Refuse(F)
  PROVE  IInv'
<1>1. ClassOf(First(F)) \in Classes
  BY RefusalClass
<1>2. outcome' = Empty(ClassOf(First(F)))
  BY DEF Refuse, End
<1>3. outcome'.class \notin {"none", "ok"}
  BY <1>1, <1>2 DEF Classes, Empty
<1>4. TypeOK'
  BY <1>1, <1>2, EmptyOutcomeTyped DEF IInv, TypeOK, Refuse, End
<1> QED
  BY <1>3, <1>4 DEF IInv, Refuse, End, Unsent, Undecided, OnlyWritesInsert, TimeLimitFits, AnswerInv,
                    Answered

\* Every step of the call, the engine and the clock keeps it.
LEMMA StepInv == IInv /\ [Next]_vars => IInv'
<1> SUFFICES ASSUME IInv, [Next]_vars PROVE IInv'
  OBVIOUS
<1> USE DEF IInv
<1>a. request \in RequestType /\ request' = request
  BY DEF TypeOK, Next, Adapter, Engine, vars, RefuseClosed, RefuseGuards, Refuse, PassGuards,
         RefuseWrite, SendInsert, RefuseQuery, Compile, RefuseLate, ReadTimeLeft, SendQuery,
         Receipt, Answer, RefuseAnswer, Overflow, GiveUp, RefuseInsert, Store, Lose, Tick, CloseSession
<1>1. CASE RefuseClosed
  <2>1. outcome' = Empty("unavailable")
    BY <1>1 DEF RefuseClosed, End
  <2>2. TypeOK'
    BY <1>1, <2>1, EmptyOutcomeTyped DEF RefuseClosed, End, TypeOK, Classes
  <2> QED
    BY <1>1, <2>1, <2>2
       DEF RefuseClosed, End, Empty, Unsent, Undecided, OnlyWritesInsert, TimeLimitFits, AnswerInv,
           Answered
<1>2. CASE RefuseGuards
  BY <1>2, <1>a, RefuseStep, FlawsKnown DEF RefuseGuards, GuardsFailing
<1>3. CASE PassGuards
  BY <1>3 DEF PassGuards, TypeOK, Unsent, Undecided, OnlyWritesInsert, TimeLimitFits, AnswerInv,
              Answered
<1>4. CASE RefuseWrite
  BY <1>4, RefuseStep DEF RefuseWrite
<1>5. CASE SendInsert
  BY <1>5 DEF SendInsert, TypeOK, Unsent, Undecided, OnlyWritesInsert, TimeLimitFits, AnswerInv,
              Answered, Pending, Empty
<1>6. CASE RefuseQuery
  BY <1>6, <1>a, RefuseStep, FlawsKnown DEF RefuseQuery, TranslationFailing
<1>7. CASE Compile
  BY <1>7 DEF Compile, TypeOK, Unsent, Undecided, OnlyWritesInsert, TimeLimitFits, AnswerInv,
              Answered
<1>8. CASE RefuseLate
  BY <1>8, RefuseStep DEF RefuseLate
<1>9. CASE ReadTimeLeft
  <2>1. now \in Nat
    BY DispatchAssumption DEF TypeOK
  <2>2. readAt' = now /\ limit' = Timeout(request)
    BY <1>9 DEF ReadTimeLeft
  <2>3. TimeLimitFits'
    BY <1>9, <1>a, <2>1, <2>2, TimeoutFits DEF ReadTimeLeft, TimeLimitFits
  <2>4. TypeOK'
    BY <1>9, <1>a, <2>1, <2>2, TimeoutFits DEF ReadTimeLeft, TypeOK
  <2> QED
    BY <1>9, <2>3, <2>4
       DEF ReadTimeLeft, Unsent, Undecided, OnlyWritesInsert, AnswerInv, Answered, Pending, Empty
<1>10. CASE SendQuery
  BY <1>10 DEF SendQuery, TypeOK, Unsent, Undecided, OnlyWritesInsert, TimeLimitFits, AnswerInv,
               Answered
<1>11. CASE Receipt
  <2>1. IsWrite(request)
    BY <1>11 DEF Receipt, OnlyWritesInsert
  <2>2. outcome' = Empty("ok")
    BY <1>11 DEF Receipt, End
  <2> QED
    BY <1>11, <1>a, <2>1, <2>2, EmptyOutcomeTyped
       DEF Receipt, End, Empty, TypeOK, Unsent, Undecided, OnlyWritesInsert, TimeLimitFits, AnswerInv,
           Answered
<1>12. CASE Answer
  <2>1. outcome' \in [class : Classes \cup {"none", "ok"}, delivered : 0..PageLimit, more : BOOLEAN]
    BY <1>12, <1>a, PageTyped DEF Answer
  <2>2. TypeOK'
    BY <1>12, <2>1 DEF Answer, TypeOK
  <2>3. AnswerInv'
    BY <1>12, <1>a
       DEF Answer, AnswerInv, Produced, PageSize, MaxResultRows, IsAggregate, Method, IsWire
  <2> QED
    BY <1>12, <2>2, <2>3 DEF Answer, Unsent, Undecided, OnlyWritesInsert, TimeLimitFits
<1>13. CASE RefuseAnswer \/ Overflow \/ GiveUp
  <2>1. PICK class \in {"limit", "transient"} :
          /\ outcome' = Empty(class)
          /\ IsWrite(request) => class = "transient"
    BY <1>13 DEF RefuseAnswer, Overflow, GiveUp, End
  <2> QED
    BY <1>13, <2>1, EmptyOutcomeTyped
       DEF RefuseAnswer, Overflow, GiveUp, End, Empty, TypeOK, Classes, Unsent, Undecided,
           OnlyWritesInsert, TimeLimitFits, AnswerInv, Answered
<1>14. CASE RefuseInsert
  <2>1. PICK class \in {"validation", "transient"} :
          outcome' = Empty(class)
    BY <1>14 DEF RefuseInsert, End
  <2> QED
    BY <1>14, <2>1, EmptyOutcomeTyped
       DEF RefuseInsert, End, Empty, TypeOK, Classes, Unsent, Undecided, OnlyWritesInsert, TimeLimitFits,
           AnswerInv, Answered
<1>15. CASE Store \/ Lose
  BY <1>15 DEF Store, Lose, TypeOK, Unsent, Undecided, OnlyWritesInsert, TimeLimitFits, AnswerInv,
               Answered
<1>16. CASE Tick
  BY <1>16, DispatchAssumption
     DEF Tick, TypeOK, Unsent, Undecided, OnlyWritesInsert, TimeLimitFits, AnswerInv, Answered
<1>17. CASE CloseSession
  BY <1>17 DEF CloseSession, TypeOK, Unsent, Undecided, OnlyWritesInsert, TimeLimitFits, AnswerInv,
               Answered
<1>18. CASE UNCHANGED vars
  BY <1>18 DEF vars, TypeOK, Unsent, Undecided, OnlyWritesInsert, TimeLimitFits, AnswerInv, Answered,
               Produced, PageSize, MaxResultRows, IsAggregate, Method, IsWire, IsWrite
<1> QED
  BY <1>1, <1>2, <1>3, <1>4, <1>5, <1>6, <1>7, <1>8, <1>9, <1>10, <1>11, <1>12, <1>13, <1>14, <1>15, <1>16,
     <1>17, <1>18 DEF Next, Adapter, Engine

-----------------------------------------------------------------------------
\* The facts about single states.
LEMMA Consequences ==
  IInv => TypeOK /\ RefusedMeansUnstored /\ TimeLimitFits /\ PagesWhole /\ GroupsLost
<1> SUFFICES ASSUME IInv
             PROVE  TypeOK /\ RefusedMeansUnstored /\ TimeLimitFits /\ PagesWhole /\ GroupsLost
  OBVIOUS
<1>1. request \in RequestType
  BY DEF IInv, TypeOK
<1>2. RefusedMeansUnstored
  BY DEF IInv, Undecided, RefusedMeansUnstored, Classes
<1>3. /\ request.page \in 1..PageLimit /\ request.matches \in Nat /\ PageLimit \in Nat \ {0}
      /\ PageSize(request) \in 1..PageLimit
  BY <1>1, PageTyped, DispatchAssumption DEF RequestType
<1>4. PagesWhole
  BY <1>3 DEF IInv, AnswerInv, Answered, PagesWhole, Produced, PageSize, Least, MaxResultRows
<1>5. GroupsLost
  BY <1>3 DEF IInv, AnswerInv, Answered, GroupsLost, Produced, PageSize, Least, MaxResultRows
<1> QED
  BY <1>2, <1>4, <1>5 DEF IInv

\* It always holds.
LEMMA Invariance == Spec => []IInv
BY InitInv, StepInv, PTL DEF Spec

\* Types, at every step of a call.
THEOREM TypeCorrect == Spec => []TypeOK
BY Invariance, Consequences, PTL

\* Only a transient failure leaves open what became of a write: any other
\* refusal came before the insert was sent, or from a driver that dropped it.
THEOREM RefusalsAreFinal == Spec => []RefusedMeansUnstored
BY Invariance, Consequences, PTL

\* However short a millisecond is, a query has a time limit, and the limit ends
\* by the caller's deadline, counted from the reading of the clock, or is the
\* one millisecond that is given where less is left.
THEOREM LimitsFit == Spec => []TimeLimitFits
BY Invariance, Consequences, PTL

\* Whatever the page limit is, one more result row than that lets every page of
\* records through: what a caller is told about more pages is so.
THEOREM AnswersWhole == Spec => []PagesWhole
BY Invariance, Consequences, PTL

\* An aggregate has no cursor to fetch what its answer leaves out: a mapping-first
\* one loses one group at most, and only with exactly one group too many; no
\* aggregate delivers more groups than there are.
THEOREM GroupsCounted == Spec => []GroupsLost
BY Invariance, Consequences, PTL

=============================================================================
