--------------------------- MODULE LifecycleProofs ---------------------------
(***************************************************************************)
(* The runtime's startup fails closed and loses no connection, for any     *)
(* number of threads.                                                      *)
(***************************************************************************)
EXTENDS Lifecycle, TLAPS

\* What an interrupt does wherever it hits; the bound on interrupts is left out.
LEMMA InterruptEffect ==
  ASSUME NEW n, Interrupting(n)
  PROVE  /\ interrupted' = interrupted \cup {n}
         /\ used' = used /\ session' = session /\ server' = server /\ checked' = checked
  BY DEF Interrupting

\* A call that ends by an interrupt of its connection leaves both in their sets.
LEMMA InterruptTypes ==
  ASSUME TypeOK, NEW t \in Threads,
         mine' = [mine EXCEPT ![t] = 0], interrupted' = interrupted \cup {mine[t]}
  PROVE  mine' \in [Threads -> 0..used] /\ interrupted' \subseteq 0..used
<1>1. mine[t] \in 0..used /\ 0 \in 0..used
  BY LifecycleAssumption DEF TypeOK, Connections
<1>2. interrupted' \subseteq 0..used
  BY <1>1 DEF TypeOK
<1>3. mine' \in [Threads -> 0..used]
  BY <1>1 DEF TypeOK
<1> QED
  BY <1>2, <1>3

\* Every variable of the runtime stays in its set.
THEOREM TypeCorrect == Spec => []TypeOK
<1> USE LifecycleAssumption
    DEF TypeOK, None, Idle, Connecting, Opening, Taking, Connections, history
<1>1. Init => TypeOK
  BY DEF Init
<1>2. TypeOK /\ [Next]_vars => TypeOK'
  <2> SUFFICES ASSUME TypeOK, [Next]_vars PROVE TypeOK'
    OBVIOUS
  <2> USE DEF Goto, Return, runtime
  <2>1. ASSUME NEW t \in Threads, BeginOpen(t) PROVE TypeOK'
    BY <2>1 DEF BeginOpen
  <2>2. ASSUME NEW t \in Threads, BeginClose(t) PROVE TypeOK'
    BY <2>2 DEF BeginClose
  <2>3. ASSUME NEW t \in Threads, HoldingStep(t) PROVE TypeOK'
    <3>1. CASE WriteFile(t, "ca", "cert")
      BY <3>1 DEF WriteFile
    <3>2. CASE WriteFile(t, "cert", "client")
      BY <3>2 DEF WriteFile
    <3>3. CASE WriteFails(t)
      BY <3>3 DEF WriteFails
    <3>4. CASE GetClient(t)
      BY <3>4 DEF GetClient
    <3>5. CASE GetClientFails(t)
      BY <3>5 DEF GetClientFails
    <3>6. CASE ProbeAccepts(t)
      BY <3>6 DEF ProbeAccepts
    <3>7. CASE ProbeRejects(t)
      BY <3>7 DEF ProbeRejects
    <3>8. CASE CloseLease(t)
      <4>1. clients' \subseteq clients /\ files' \subseteq files
        BY <3>8 DEF CloseLease
      <4>2. pc' \in [Threads -> {Idle, "closing"} \cup Opening \cup Taking]
        BY <3>8 DEF CloseLease
      <4>3. mine' \in [Threads -> 0..used']
        BY <3>8 DEF CloseLease
      <4> QED
        BY <3>8, <4>1, <4>2, <4>3 DEF CloseLease
    <3> QED
      BY <2>3, <3>1, <3>2, <3>3, <3>4, <3>5, <3>6, <3>7, <3>8 DEF HoldingStep
  <2>4. ASSUME NEW t \in Threads,
               CheckOpen(t) \/ AssertLease(t) \/ TakeClient(t) \/ CloseSession(t)
        PROVE  TypeOK'
    <3>1. CASE CheckOpen(t)
      BY <3>1 DEF CheckOpen
    <3>2. CASE AssertLease(t)
      BY <3>2 DEF AssertLease
    <3>3. CASE TakeClient(t)
      BY <3>3 DEF TakeClient
    <3>4. CASE CloseSession(t)
      BY <3>4 DEF CloseSession
    <3> QED
      BY <2>4, <3>1, <3>2, <3>3, <3>4
  <2>5. ASSUME NEW t \in Threads, Interrupt(t) PROVE TypeOK'
    <3>1. CASE InterruptConnect(t)
      <4>0. /\ interrupted' = interrupted \cup {mine[t]}
            /\ used' = used /\ session' = session /\ server' = server /\ checked' = checked
        BY <3>1, InterruptEffect DEF InterruptConnect
      <4>1. mine[t] \in 0..used /\ (pc[t] \in TlsFiles => pc[t] \in {"ca", "cert"})
        OBVIOUS
      <4>5. files' \subseteq (0..used) \X {"ca", "cert"}
        BY <3>1, <4>1 DEF InterruptConnect
      <4>6. clients' \subseteq 0..used
        BY <3>1, <4>1 DEF InterruptConnect
      <4>3. pc' \in [Threads -> {Idle, "closing"} \cup Opening \cup Taking]
        BY <3>1, <4>0 DEF InterruptConnect
      <4>7. mine' = [mine EXCEPT ![t] = 0]
        BY <3>1 DEF InterruptConnect
      <4>4. mine' \in [Threads -> 0..used] /\ interrupted' \subseteq 0..used
        BY <4>0, <4>7, InterruptTypes
      <4> QED
        BY <3>1, <4>0, <4>3, <4>4, <4>5, <4>6 DEF InterruptConnect
    <3>2. CASE InterruptProbe(t)
      <4>0. /\ interrupted' = interrupted \cup {mine[t]}
            /\ used' = used /\ session' = session /\ server' = server /\ checked' = checked
        BY <3>2, InterruptEffect DEF InterruptProbe
      <4>1. mine' = [mine EXCEPT ![t] = 0]
        BY <3>2 DEF InterruptProbe
      <4>2. mine' \in [Threads -> 0..used] /\ interrupted' \subseteq 0..used
        BY <4>0, <4>1, InterruptTypes
      <4>3. pc' \in [Threads -> {Idle, "closing"} \cup Opening \cup Taking]
        BY <3>2 DEF InterruptProbe
      <4> QED
        BY <3>2, <4>0, <4>2, <4>3 DEF InterruptProbe
    <3>3. CASE InterruptBeforeClose(t)
      <4>0. /\ interrupted' = interrupted \cup {lease}
            /\ used' = used /\ session' = session /\ server' = server /\ checked' = checked
        BY <3>3, InterruptEffect DEF InterruptBeforeClose
      <4> QED
        BY <3>3, <4>0 DEF InterruptBeforeClose
    <3>4. CASE InterruptClose(t)
      <4>0. /\ interrupted' = interrupted \cup {mine[t]}
            /\ used' = used /\ session' = session /\ server' = server /\ checked' = checked
        BY <3>4, InterruptEffect DEF InterruptClose
      <4>1. files' \subseteq files /\ clients' \subseteq clients
        BY <3>4, <4>0 DEF InterruptClose
      <4>2. pc' \in [Threads -> {Idle, "closing"} \cup Opening \cup Taking]
        BY <3>4, <4>0 DEF InterruptClose
      <4>7. mine' = [mine EXCEPT ![t] = 0]
        BY <3>4 DEF InterruptClose
      <4>3. mine' \in [Threads -> 0..used] /\ interrupted' \subseteq 0..used
        BY <4>0, <4>7, InterruptTypes
      <4> QED
        BY <3>4, <4>0, <4>1, <4>2, <4>3 DEF InterruptClose
    <3> QED
      BY <2>5, <3>1, <3>2, <3>3, <3>4 DEF Interrupt
  <2>6. CASE Reprobe \/ ServerChanges
    BY <2>6 DEF Reprobe, ServerChanges
  <2>7. CASE UNCHANGED vars
    BY <2>7 DEF vars
  <2> QED
    BY <2>1, <2>2, <2>3, <2>4, <2>5, <2>6, <2>7 DEF Next
<1> QED
  BY <1>1, <1>2, PTL DEF Spec

-----------------------------------------------------------------------------
\* The inductive invariant.

\* A step of a thread that leaves the runtime, the connections and the files
\* alone, and moves it only outside open and close, preserves IInv.
LEMMA OutsideStep ==
  ASSUME TypeOK, IInv, NEW t \in Threads, NEW l \in {Idle} \cup Taking,
         pc[t] \notin Opening \cup {"closing"}, Goto(t, l),
         UNCHANGED <<runtime, mine, clients, files, history>>
  PROVE  IInv'
<1> USE DEF Goto, Idle, Connecting, Opening, Taking, runtime, history
<1>1. pc' \in [Threads -> {Idle, "closing"} \cup Opening \cup Taking]
  BY DEF TypeOK
<1>2. \A r \in Threads : pc'[r] # pc[r] =>
         pc'[r] \notin Opening \cup {"closing"} /\ pc[r] \notin Opening \cup {"closing"}
  BY DEF TypeOK
<1>3. LockInv' /\ HolderInv' /\ FreshInv'
  BY <1>2 DEF IInv, LockInv, HolderInv, FreshInv
<1>4. ProbedWhenFree'
  BY DEF IInv, ProbedWhenFree
<1>5. ClientsOwned' /\ CertificateFollowsClient'
  BY <1>2 DEF IInv, ClientsOwned, CertificateFollowsClient
<1> QED
  BY <1>3, <1>4, <1>5 DEF IInv

\* IInv holds initially and is preserved by every step.
THEOREM Invariance == Spec => []IInv
<1> USE DEF Idle, Connecting, Opening, Taking
<1>1. Init => IInv
  BY LifecycleAssumption
  DEF Init, IInv, None, LockInv, HolderInv, FreshInv, ProbedWhenFree, ClientsOwned, CertificateFollowsClient
<1>2. TypeOK /\ IInv /\ [Next]_vars => IInv'
  <2> SUFFICES ASSUME TypeOK, IInv, [Next]_vars PROVE IInv'
    OBVIOUS
  <2> USE LifecycleAssumption DEF Goto, Return, runtime, history
  <2>1. ASSUME NEW t \in Threads, BeginOpen(t) PROVE IInv'
    <3>1. used + 1 # None /\ \A f \in files : f[1] # used + 1
      BY DEF TypeOK, None, Connections
    <3>2. LockInv' /\ HolderInv'
      BY <2>1, <3>1 DEF BeginOpen, TypeOK, IInv, LockInv, HolderInv, FreshInv, ProbedWhenFree, None
    <3>3. FreshInv'
      BY <2>1, <3>1 DEF BeginOpen, TypeOK, IInv, FreshInv, LockInv
    <3>4. ClientsOwned' /\ CertificateFollowsClient'
      BY <2>1 DEF BeginOpen, TypeOK, IInv, LockInv, ClientsOwned, CertificateFollowsClient
    <3>5. ProbedWhenFree'
      BY <2>1 DEF BeginOpen, ProbedWhenFree
    <3> QED
      BY <3>2, <3>3, <3>4, <3>5 DEF IInv
  <2>2. ASSUME NEW t \in Threads, BeginClose(t) PROVE IInv'
    <3>1. LockInv' /\ HolderInv' /\ FreshInv'
      BY <2>2 DEF BeginClose, TypeOK, IInv, LockInv, HolderInv, FreshInv
    <3>2. ClientsOwned' /\ CertificateFollowsClient'
      BY <2>2 DEF BeginClose, TypeOK, IInv, LockInv, ClientsOwned, CertificateFollowsClient
    <3>3. ProbedWhenFree'
      BY <2>2 DEF BeginClose, ProbedWhenFree
    <3> QED
      BY <3>1, <3>2, <3>3 DEF IInv
  <2>3. ASSUME NEW t \in Threads, HoldingStep(t) PROVE IInv'
    <3>1. lock = t /\ \A r \in Threads \ {t} : pc[r] \notin Opening \cup {"closing"}
      BY <2>3 DEF HoldingStep, WriteFile, WriteFails, GetClient, GetClientFails,
        ProbeAccepts, ProbeRejects, CloseLease, IInv, LockInv, LifecycleAssumption
    <3>2. CASE WriteFile(t, "ca", "cert") \/ WriteFile(t, "cert", "client")
      <4>1. LockInv' /\ HolderInv'
        BY <3>1, <3>2 DEF WriteFile, TypeOK, IInv, LockInv, HolderInv
      <4>2. FreshInv'
        BY <3>1, <3>2 DEF WriteFile, TypeOK, IInv, FreshInv
      <4>3. ClientsOwned' /\ ProbedWhenFree'
        BY <3>1, <3>2 DEF WriteFile, TypeOK, IInv, ClientsOwned, ProbedWhenFree
      <4>4. CertificateFollowsClient'
        BY <3>1, <3>2 DEF WriteFile, TypeOK, IInv, CertificateFollowsClient
      <4> QED
        BY <4>1, <4>2, <4>3, <4>4 DEF IInv
    <3>3. CASE WriteFails(t)
      <4>1. LockInv' /\ HolderInv' /\ FreshInv'
        BY <3>1, <3>3 DEF WriteFails, TypeOK, IInv, LockInv, HolderInv, FreshInv
      <4>2. ClientsOwned' /\ ProbedWhenFree'
        BY <3>1, <3>3 DEF WriteFails, TypeOK, IInv, HolderInv, ClientsOwned, ProbedWhenFree
      <4>3. CertificateFollowsClient'
        BY <3>1, <3>3 DEF WriteFails, TypeOK, IInv, FreshInv, CertificateFollowsClient
      <4> QED
        BY <4>1, <4>2, <4>3 DEF IInv
    <3>4. CASE GetClient(t)
      <4>1. LockInv' /\ HolderInv' /\ FreshInv'
        BY <3>1, <3>4 DEF GetClient, TypeOK, IInv, LockInv, HolderInv, FreshInv
      <4>2. ClientsOwned' /\ ProbedWhenFree'
        BY <3>1, <3>4 DEF GetClient, TypeOK, IInv, ClientsOwned, HolderInv, FreshInv, ProbedWhenFree
      <4>3. CertificateFollowsClient'
        BY <3>1, <3>4 DEF GetClient, TypeOK, IInv, CertificateFollowsClient
      <4> QED
        BY <4>1, <4>2, <4>3 DEF IInv
    <3>5. CASE GetClientFails(t)
      <4>1. LockInv' /\ HolderInv' /\ FreshInv'
        BY <3>1, <3>5 DEF GetClientFails, TypeOK, IInv, LockInv, HolderInv, FreshInv
      <4>2. ClientsOwned' /\ ProbedWhenFree'
        BY <3>1, <3>5 DEF GetClientFails, TypeOK, IInv, HolderInv, ClientsOwned, ProbedWhenFree
      <4>3. CertificateFollowsClient'
        BY <3>1, <3>5 DEF GetClientFails, TypeOK, IInv, CertificateFollowsClient
      <4> QED
        BY <4>1, <4>2, <4>3 DEF IInv
    <3>6. CASE ProbeAccepts(t)
      <4>1. LockInv' /\ HolderInv' /\ FreshInv'
        BY <3>1, <3>6 DEF ProbeAccepts, TypeOK, IInv, LockInv, HolderInv, FreshInv
      <4>2. ClientsOwned' /\ ProbedWhenFree' /\ CertificateFollowsClient'
        BY <3>1, <3>6 DEF ProbeAccepts, TypeOK, IInv, ClientsOwned, ProbedWhenFree, CertificateFollowsClient
      <4> QED
        BY <4>1, <4>2 DEF IInv
    <3>7. CASE ProbeRejects(t)
      <4>1. LockInv' /\ HolderInv' /\ FreshInv'
        BY <3>1, <3>7 DEF ProbeRejects, TypeOK, IInv, LockInv, HolderInv, FreshInv
      <4>2. ClientsOwned' /\ ProbedWhenFree' /\ CertificateFollowsClient'
        BY <3>1, <3>7 DEF ProbeRejects, TypeOK, IInv, HolderInv, ClientsOwned, ProbedWhenFree, CertificateFollowsClient
      <4> QED
        BY <4>1, <4>2 DEF IInv
    <3>8. CASE CloseLease(t)
      <4>1. LockInv' /\ HolderInv' /\ FreshInv'
        BY <3>1, <3>8 DEF CloseLease, TypeOK, IInv, LockInv, HolderInv, FreshInv
      <4>2. ClientsOwned' /\ ProbedWhenFree'
        BY <3>1, <3>8 DEF CloseLease, TypeOK, IInv, HolderInv, ClientsOwned, ProbedWhenFree
      <4>3. CertificateFollowsClient'
        BY <3>1, <3>8 DEF CloseLease, TypeOK, IInv, CertificateFollowsClient
      <4> QED
        BY <4>1, <4>2, <4>3 DEF IInv
    <3> QED
      BY <2>3, <3>2, <3>3, <3>4, <3>5, <3>6, <3>7, <3>8 DEF HoldingStep
  <2>4. ASSUME NEW t \in Threads, CheckOpen(t) \/ AssertLease(t) \/ TakeClient(t)
        PROVE  IInv'
    <3>1. \E l \in {Idle} \cup Taking : Goto(t, l)
      BY <2>4 DEF CheckOpen, AssertLease, TakeClient
    <3> QED
      BY <2>4, <3>1, OutsideStep DEF CheckOpen, AssertLease, TakeClient
  <2>5. ASSUME NEW t \in Threads, Interrupt(t) PROVE IInv'
    <3>1. CASE InterruptConnect(t)
      <4>0. /\ interrupted' = interrupted \cup {mine[t]}
            /\ used' = used /\ session' = session /\ server' = server /\ checked' = checked
        BY <3>1, InterruptEffect DEF InterruptConnect
      <4>1. lock = t /\ \A r \in Threads \ {t} : pc[r] \notin Opening \cup {"closing"}
        BY <3>1, <4>0 DEF InterruptConnect, IInv, LockInv
      <4>2. LockInv' /\ HolderInv'
        BY <3>1, <4>0, <4>1 DEF InterruptConnect, TypeOK, IInv, LockInv, HolderInv
      <4>3. FreshInv'
        BY <3>1, <4>0, <4>1 DEF InterruptConnect, TypeOK, IInv, HolderInv, FreshInv
      <4>4. ClientsOwned' /\ ProbedWhenFree'
        BY <3>1, <4>0, <4>1 DEF InterruptConnect, TypeOK, IInv, HolderInv, ClientsOwned, ProbedWhenFree
      <4>5. CertificateFollowsClient'
        BY <3>1, <4>0, <4>1 DEF InterruptConnect, TypeOK, IInv, CertificateFollowsClient
      <4> QED
        BY <4>2, <4>3, <4>4, <4>5 DEF IInv
    <3>2. CASE InterruptProbe(t)
      <4>0. /\ interrupted' = interrupted \cup {mine[t]}
            /\ used' = used /\ session' = session /\ server' = server /\ checked' = checked
        BY <3>2, InterruptEffect DEF InterruptProbe
      <4>1. lock = t /\ \A r \in Threads \ {t} : pc[r] \notin Opening \cup {"closing"}
        BY <3>2, <4>0 DEF InterruptProbe, IInv, LockInv
      <4>2. LockInv' /\ HolderInv' /\ FreshInv'
        BY <3>2, <4>0, <4>1 DEF InterruptProbe, TypeOK, IInv, LockInv, HolderInv, FreshInv
      <4>3. ClientsOwned' /\ ProbedWhenFree' /\ CertificateFollowsClient'
        BY <3>2, <4>0, <4>1 DEF InterruptProbe, TypeOK, IInv, HolderInv, ClientsOwned, ProbedWhenFree,
           CertificateFollowsClient
      <4> QED
        BY <4>2, <4>3 DEF IInv
    <3>3. CASE InterruptBeforeClose(t)
      <4>0. /\ interrupted' = interrupted \cup {lease}
            /\ used' = used /\ session' = session /\ server' = server /\ checked' = checked
        BY <3>3, InterruptEffect DEF InterruptBeforeClose
      <4> QED
        BY <3>3, <4>0 DEF InterruptBeforeClose, TypeOK, IInv, LockInv, HolderInv, FreshInv, ProbedWhenFree,
         ClientsOwned, CertificateFollowsClient
    <3>4. CASE InterruptClose(t)
      <4>0. /\ interrupted' = interrupted \cup {mine[t]}
            /\ used' = used /\ session' = session /\ server' = server /\ checked' = checked
        BY <3>4, InterruptEffect DEF InterruptClose
      <4>1. lock = t /\ \A r \in Threads \ {t} : pc[r] \notin Opening \cup {"closing"}
        BY <3>4, <4>0 DEF InterruptClose, IInv, LockInv
      <4>2. LockInv' /\ HolderInv' /\ FreshInv'
        BY <3>4, <4>0, <4>1 DEF InterruptClose, TypeOK, IInv, LockInv, HolderInv, FreshInv
      <4>3. ClientsOwned' /\ ProbedWhenFree'
        BY <3>4, <4>0, <4>1 DEF InterruptClose, TypeOK, IInv, HolderInv, ClientsOwned, ProbedWhenFree
      <4>4. CertificateFollowsClient'
        BY <3>4, <4>0, <4>1 DEF InterruptClose, TypeOK, IInv, CertificateFollowsClient
      <4> QED
        BY <4>2, <4>3, <4>4 DEF IInv
    <3> QED
      BY <2>5, <3>1, <3>2, <3>3, <3>4 DEF Interrupt
  <2>6. CASE Reprobe
    <3>1. \A t \in Threads : pc[t] \notin Opening \cup {"closing"}
      BY <2>6 DEF Reprobe, IInv, LockInv
    <3>2. LockInv' /\ HolderInv' /\ FreshInv'
      BY <2>6, <3>1 DEF Reprobe, IInv, LockInv, HolderInv, FreshInv
    <3>3. ClientsOwned' /\ ProbedWhenFree' /\ CertificateFollowsClient'
      BY <2>6 DEF Reprobe, IInv, ProbedWhenFree, ClientsOwned, CertificateFollowsClient
    <3> QED
      BY <3>2, <3>3 DEF IInv
  <2>7. CASE \/ \E t \in Threads : CloseSession(t)
             \/ ServerChanges \/ UNCHANGED vars
    BY <2>7 DEF CloseSession, ServerChanges, vars, IInv, LockInv, HolderInv, FreshInv,
       ProbedWhenFree, ClientsOwned, CertificateFollowsClient
  <2> QED
    BY <2>1, <2>2, <2>3, <2>4, <2>5, <2>6, <2>7 DEF Next
<1> QED
  BY <1>1, <1>2, TypeCorrect, PTL DEF Spec

\* Startup fails closed: outside open and close the runtime offers only a
\* lease that passed the capability pin, with the probe made over it, or a
\* connection whose open or close was interrupted.
THEOREM StartupFailsClosed == Spec => []ProbedWhenFree
  BY Invariance, PTL DEF IInv

\* The cached probe is the lease's own in every state, interrupted calls included
\* (ClickHouseAdapterRuntime.close drops it before the lease, open sets it last).
THEOREM ProbesAreFresh == Spec => []ProbeFollowsLease
<1> USE DEF Idle, Connecting, Opening, Taking
<1>1. Init => ProbeFollowsLease
  BY DEF Init, ProbeFollowsLease
<1>2. TypeOK /\ IInv /\ ProbeFollowsLease /\ [Next]_vars => ProbeFollowsLease'
  <2> SUFFICES ASSUME TypeOK, IInv, ProbeFollowsLease, [Next]_vars PROVE ProbeFollowsLease'
    OBVIOUS
  <2> USE DEF ProbeFollowsLease, Return, runtime
  <2>1. ASSUME NEW t \in Threads, HoldingStep(t) PROVE ProbeFollowsLease'
    <3>1. pc[t] = "probe" => probe = None
      BY DEF IInv, HolderInv
    <3>2. pc[t] = "client" => probe = None
      BY DEF IInv, HolderInv
    <3> QED
      BY <2>1, <3>1, <3>2
      DEF HoldingStep, WriteFile, WriteFails, GetClient, GetClientFails, ProbeAccepts, ProbeRejects, CloseLease
  <2>2. ASSUME NEW t \in Threads, BeginOpen(t) \/ BeginClose(t) PROVE ProbeFollowsLease'
    BY <2>2 DEF BeginOpen, BeginClose
  <2>3. ASSUME NEW t \in Threads, CheckOpen(t) \/ AssertLease(t) \/ TakeClient(t) \/ CloseSession(t)
        PROVE  ProbeFollowsLease'
    BY <2>3 DEF CheckOpen, AssertLease, TakeClient, CloseSession
  <2>4. ASSUME NEW t \in Threads, Interrupt(t) PROVE ProbeFollowsLease'
    BY <2>4 DEF Interrupt, InterruptConnect, InterruptProbe, InterruptBeforeClose, InterruptClose
  <2>5. CASE Reprobe \/ ServerChanges \/ UNCHANGED vars
    BY <2>5 DEF Reprobe, ServerChanges, vars
  <2> QED
    BY <2>1, <2>2, <2>3, <2>4, <2>5 DEF Next
<1> QED
  BY <1>1, <1>2, TypeCorrect, Invariance, PTL DEF Spec

\* No driver client is left open that nobody will close, unless its open or
\* close was interrupted.
THEOREM NoClientLost == Spec => []ClientsOwned
  BY Invariance, PTL DEF IInv

\* The client certificate never outlives its client, whichever step failed; only
\* an interrupted open or close may leave it.
THEOREM CertificateRemoved == Spec => []CertificateFollowsClient
  BY Invariance, PTL DEF IInv

=============================================================================
