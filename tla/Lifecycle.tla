------------------------------ MODULE Lifecycle ------------------------------
(***************************************************************************)
(* One ClickHouseAdapterRuntime shared by the threads of a process: open,  *)
(* close and open_session, and the client lease with the TLS files that    *)
(* connect creates.  open and close hold the runtime's lock for the whole  *)
(* call; open_session takes no lock and reads the lease step by step.      *)
(*                                                                         *)
(* verify_physical holds the lock, reads the engine and leaves the runtime *)
(* as it was, so it is not an action; probe is one where it finds no       *)
(* cached result, which takes an interrupted call (ProbedWhenFree).        *)
(***************************************************************************)
EXTENDS Naturals, FiniteSets

CONSTANTS
  Threads,
  NoThread,
  TlsFiles,    \* TLS secrets of the Binding, in the order connect writes them
  MaxLeases,     \* bound on the number of connections made
  MaxInterrupts  \* bound on the number of interrupts

ASSUME LifecycleAssumption ==
  /\ NoThread \notin Threads
  /\ TlsFiles \subseteq {"ca", "cert"}
  /\ MaxLeases \in Nat /\ MaxInterrupts \in Nat

None == 0

VARIABLES
  lock,      \* holder of the runtime's RLock
  lease,     \* runtime._lease: the number of a connection, or None
  probe,     \* runtime._probe: the connection it was made over, or None
  pc,        \* where each thread is
  mine,      \* the connection a thread is making or closing, or None
  used,      \* connections made or begun so far
  clients,   \* connections whose driver client is open
  files,     \* <<connection, kind>> of the TLS files on disk
  session,   \* the connection of the session each thread holds, or None
  server,    \* what the engine's capability manifest compares to the pin
  checked,      \* history: connections over which the pin was verified
  interrupted   \* history: connections whose open or close was interrupted

runtime == <<lock, lease, probe>>
history == <<checked, interrupted>>
vars == <<runtime, pc, mine, used, clients, files, session, server, history>>

Idle == "idle"
Connecting == {"ca", "cert", "client"}
Opening == Connecting \cup {"probe"}
Taking == {"assert", "take"}

Init ==
  /\ lock = NoThread /\ lease = None /\ probe = None
  /\ pc = [t \in Threads |-> Idle]
  /\ mine = [t \in Threads |-> None]
  /\ used = 0
  /\ clients = {} /\ files = {}
  /\ session = [t \in Threads |-> None]
  /\ server \in {"pinned", "other"}
  /\ checked = {} /\ interrupted = {}

Goto(t, l) == pc' = [pc EXCEPT ![t] = l]

\* The call ends and releases the lock.
Return(t) ==
  /\ lock' = NoThread
  /\ mine' = [mine EXCEPT ![t] = None]
  /\ Goto(t, Idle)

-----------------------------------------------------------------------------
\* open().

\* Plausible mistake: an open runtime is opened again.
BeginOpenAgain(t) ==
  /\ pc[t] = Idle /\ lock = NoThread
  /\ used < MaxLeases
  /\ lock' = t
  /\ used' = used + 1
  /\ mine' = [mine EXCEPT ![t] = used + 1]
  /\ Goto(t, "ca")
  /\ UNCHANGED <<lease, probe, clients, files, session, server, history>>

\* Plausible mistake: the files are written under a number not yet taken.
BeginOpenUncounted(t) ==
  /\ pc[t] = Idle /\ lock = NoThread /\ lease = None
  /\ used < MaxLeases
  /\ lock' = t
  /\ mine' = [mine EXCEPT ![t] = used + 1]
  /\ Goto(t, "ca")
  /\ UNCHANGED <<lease, probe, used, clients, files, session, server, history>>

\* The early return of an open runtime changes nothing and is left out.
BeginOpen(t) ==
  /\ pc[t] = Idle /\ lock = NoThread /\ lease = None
  /\ used < MaxLeases
  /\ lock' = t
  /\ used' = used + 1
  /\ mine' = [mine EXCEPT ![t] = used + 1]
  /\ Goto(t, "ca")
  /\ UNCHANGED <<lease, probe, clients, files, session, server, history>>

\* _secret_file, for the CA and then for the client certificate.
WriteFile(t, kind, next) ==
  /\ pc[t] = kind
  /\ files' = IF kind \in TlsFiles THEN files \cup {<<mine[t], kind>>} ELSE files
  /\ Goto(t, next)
  /\ UNCHANGED <<runtime, mine, used, clients, session, server, history>>

\* _decode_secret refuses a secret, or _secret_file raises (no space, no
\* permission) after removing its own file: connect has no handler there, and
\* open has no lease to close yet.
WriteFails(t) ==
  /\ pc[t] \in {"ca"} \cup TlsFiles
  /\ Return(t)
  /\ UNCHANGED <<lease, probe, used, clients, files, session, server, history>>

\* get_client succeeds: open publishes the lease, before the probe.
GetClient(t) ==
  /\ pc[t] = "client"
  /\ clients' = clients \cup {mine[t]}
  /\ lease' = mine[t]
  /\ Goto(t, "probe")
  /\ UNCHANGED <<lock, probe, mine, used, files, session, server, history>>

\* get_client raises: connect unlinks the files it wrote.
GetClientFails(t) ==
  /\ pc[t] = "client"
  /\ files' = {f \in files : f[1] # mine[t]}
  /\ Return(t)
  /\ UNCHANGED <<lease, probe, used, clients, session, server, history>>

\* The probe answers and the manifest is the one the Binding pins.
ProbeAccepts(t) ==
  /\ pc[t] = "probe" /\ server = "pinned"
  /\ probe' = lease
  /\ checked' = checked \cup {lease}
  /\ lock' = NoThread
  /\ mine' = [mine EXCEPT ![t] = None]
  /\ Goto(t, Idle)
  /\ UNCHANGED <<lease, used, clients, files, session, server, interrupted>>

\* Plausible mistake: the lease is kept when the probe refuses the engine.
ProbeRejectsKeepsLease(t) ==
  /\ pc[t] = "probe"
  /\ Return(t)
  /\ UNCHANGED <<lease, probe, used, clients, files, session, server, history>>

\* Plausible mistake: an early return without the with-block's release.
ProbeRejectsKeepsLock(t) ==
  /\ pc[t] = "probe"
  /\ lease' = None
  /\ clients' = clients \ {mine[t]}
  /\ files' = {f \in files : f[1] # mine[t]}
  /\ mine' = [mine EXCEPT ![t] = None]
  /\ Goto(t, Idle)
  /\ UNCHANGED <<lock, probe, used, session, server, history>>

\* The probe fails, or the manifest differs from the pin: _close_lease.
ProbeRejects(t) ==
  /\ pc[t] = "probe"
  /\ lease' = None
  /\ Goto(t, "closing")
  /\ UNCHANGED <<lock, probe, mine, used, clients, files, session, server, history>>

-----------------------------------------------------------------------------
\* close().

\* The runtime forgets its lease first; a runtime without one stays as it is.
BeginClose(t) ==
  /\ pc[t] = Idle /\ lock = NoThread /\ lease # None
  /\ lock' = t
  /\ probe' = None
  /\ lease' = None
  /\ mine' = [mine EXCEPT ![t] = lease]
  /\ Goto(t, "closing")
  /\ UNCHANGED <<used, clients, files, session, server, history>>

\* Plausible mistake: no finally, so a close that raises leaves the files.
CloseLeaseLeavesFiles(t) ==
  /\ pc[t] = "closing"
  /\ clients' = clients \ {mine[t]}
  /\ Return(t)
  /\ UNCHANGED <<lease, probe, used, files, session, server, history>>

\* ClientLease.close: the files go also when the driver's close raises.
CloseLease(t) ==
  /\ pc[t] = "closing"
  /\ clients' = clients \ {mine[t]}
  /\ files' = {f \in files : f[1] # mine[t]}
  /\ Return(t)
  /\ UNCHANGED <<lease, probe, used, session, server, history>>

-----------------------------------------------------------------------------
\* A BaseException (KeyboardInterrupt, SystemExit) inside open or close: the
\* handlers of Exception let it pass, with-blocks and finally do not.

Interrupting(n) ==
  /\ Cardinality(interrupted) < MaxInterrupts
  /\ interrupted' = interrupted \cup {n}
  /\ UNCHANGED <<used, session, server, checked>>

\* In connect: what was written stays, and so may a client that nobody holds.
InterruptConnect(t) ==
  /\ pc[t] \in Connecting
  /\ Interrupting(mine[t])
  /\ \/ UNCHANGED files
     \/ pc[t] \in TlsFiles /\ files' = files \cup {<<mine[t], pc[t]>>}
  /\ \/ UNCHANGED clients
     \/ pc[t] = "client" /\ clients' = clients \cup {mine[t]}
  /\ Return(t)
  /\ UNCHANGED <<lease, probe>>

\* In the probe: the lease stays published, neither probed nor compared.
InterruptProbe(t) ==
  /\ pc[t] = "probe"
  /\ Interrupting(mine[t])
  /\ Return(t)
  /\ UNCHANGED <<lease, probe, clients, files>>

\* Plausible mistake: close forgets its lease before its probe.
InterruptAfterClose(t) ==
  /\ pc[t] = Idle /\ lock = NoThread /\ lease # None
  /\ Interrupting(lease)
  /\ lease' = None
  /\ UNCHANGED <<lock, probe, pc, mine, clients, files>>

\* Between the two assignments of close.
InterruptBeforeClose(t) ==
  /\ pc[t] = Idle /\ lock = NoThread /\ lease # None
  /\ Interrupting(lease)
  /\ probe' = None
  /\ UNCHANGED <<lock, lease, pc, mine, clients, files>>

\* In _close_lease, before or in the driver's close: the runtime has forgotten
\* the lease.
InterruptClose(t) ==
  /\ pc[t] = "closing"
  /\ Interrupting(mine[t])
  /\ clients' \in {clients, clients \ {mine[t]}}
  /\ files' \in {files, {f \in files : f[1] # mine[t]}}
  /\ Return(t)
  /\ UNCHANGED <<lease, probe>>

Interrupt(t) ==
  InterruptConnect(t) \/ InterruptProbe(t) \/ InterruptBeforeClose(t) \/ InterruptClose(t)

\* probe() without a cached result: the pin is not compared.
Reprobe ==
  /\ lock = NoThread /\ lease # None /\ probe = None
  /\ probe' = lease
  /\ UNCHANGED <<lock, lease, pc, mine, used, clients, files, session, server, history>>

-----------------------------------------------------------------------------
\* open_session(transactional=False), without the lock.

\* _require_open, by open_session and again by _client: one step, for the second
\* read fails as the first one does and changes nothing.
CheckOpen(t) ==
  /\ pc[t] = Idle /\ session[t] = None
  /\ lease # None
  /\ Goto(t, "assert")
  /\ UNCHANGED <<runtime, mine, used, clients, files, session, server, history>>

\* assert self._lease is not None
AssertLease(t) ==
  /\ pc[t] = "assert"
  /\ Goto(t, IF lease # None THEN "take" ELSE Idle)
  /\ UNCHANGED <<runtime, mine, used, clients, files, session, server, history>>

\* return self._lease.client, an AttributeError if the lease is gone by now.
TakeClient(t) ==
  /\ pc[t] = "take"
  /\ session' = [session EXCEPT ![t] = lease]
  /\ Goto(t, Idle)
  /\ UNCHANGED <<runtime, mine, used, clients, files, server, history>>

CloseSession(t) ==
  /\ pc[t] = Idle /\ session[t] # None
  /\ session' = [session EXCEPT ![t] = None]
  /\ UNCHANGED <<runtime, pc, mine, used, clients, files, server, history>>

\* The engine is upgraded, or its functions or time zone change.
ServerChanges ==
  /\ server' \in {"pinned", "other"} \ {server}
  /\ UNCHANGED <<runtime, pc, mine, used, clients, files, session, history>>

-----------------------------------------------------------------------------
HoldingStep(t) ==
  \/ WriteFile(t, "ca", "cert") \/ WriteFile(t, "cert", "client") \/ WriteFails(t)
  \/ GetClient(t) \/ GetClientFails(t)
  \/ ProbeAccepts(t) \/ ProbeRejects(t)
  \/ CloseLease(t)

Next ==
  \/ \E t \in Threads :
       \/ BeginOpen(t) \/ BeginClose(t) \/ HoldingStep(t)
       \/ CheckOpen(t) \/ AssertLease(t) \/ TakeClient(t) \/ CloseSession(t)
       \/ Interrupt(t)
  \/ Reprobe \/ ServerChanges

Spec == Init /\ [][Next]_vars

\* A thread inside open or close goes on: every engine call it makes there
\* ends within connect_timeout or send_receive_timeout.
FairSpec == Spec /\ \A t \in Threads : WF_vars(HoldingStep(t))

-----------------------------------------------------------------------------
\* Properties.

Connections == 0..MaxLeases

\* Every variable stays in its set.
TypeOK ==
  /\ lock \in Threads \cup {NoThread}
  /\ lease \in 0..used /\ probe \in 0..used /\ used \in Connections
  /\ pc \in [Threads -> {Idle, "closing"} \cup Opening \cup Taking]
  /\ mine \in [Threads -> 0..used]
  /\ clients \subseteq 0..used
  /\ files \subseteq (0..used) \X {"ca", "cert"}
  /\ session \in [Threads -> 0..used]
  /\ server \in {"pinned", "other"}
  /\ checked \subseteq 0..used /\ interrupted \subseteq 0..used

\* Startup fails closed: whenever no open or close is in progress, a lease the
\* runtime offers has passed the capability pin, and the cached probe is the
\* one made over that very lease.  Only an interrupted call can leave another.
ProbedWhenFree ==
  lock = NoThread /\ lease \notin interrupted =>
    probe = lease /\ (lease # None => lease \in checked)

\* No connection is lost or doubled: every open driver client is the lease or
\* is about to be closed by the thread that took it out of the runtime, unless
\* an interrupt hit its open or close; and the lease always has an open client.
ClientsOwned ==
  /\ \A c \in clients :
       \/ c = lease \/ c \in interrupted
       \/ \E t \in Threads : pc[t] = "closing" /\ mine[t] = c
  /\ lease # None => lease \in clients

\* A cached probe is never one of an earlier connection: wherever open, close
\* and probe stop, also when an interrupt cuts them short, what probe() answers
\* was measured over the connection that the runtime offers.
ProbeFollowsLease == probe \in {None, lease}

\* The client certificate, with its private key, is on disk only for a client
\* that is open or being made, whichever step failed; an interrupt may leave it.
CertificateFollowsClient ==
  \A f \in files : f[2] = "cert" =>
    \/ f[1] \in clients \/ f[1] \in interrupted
    \/ \E t \in Threads : pc[t] \in Connecting /\ mine[t] = f[1]

\* A session is only ever handed out over a connection that was authenticated,
\* probed and found to match the capability pin.
SessionsArePinned == \A t \in Threads : session[t] # None => session[t] \in checked

\* open and close always give the lock back, however they end.
LockReleased == lock # NoThread ~> lock = NoThread

-----------------------------------------------------------------------------
\* The inductive invariant behind ProbedWhenFree, ClientsOwned and
\* CertificateFollowsClient.

\* The holder of the lock is the one thread inside open or close.
LockInv ==
  \A t \in Threads : pc[t] \in Opening \cup {"closing"} <=> lock = t

\* What open and close know of the runtime while they hold the lock.
HolderInv ==
  \A t \in Threads :
    /\ pc[t] \in Connecting => lease = None /\ probe = None /\ mine[t] # None
    /\ pc[t] = "probe" => lease = mine[t] /\ probe = None /\ mine[t] # None
    /\ pc[t] = "closing" => lease = None /\ probe = None /\ mine[t] # None

\* A connection in the making has no certificate before its turn, and every
\* client and every interrupted connection has a number.
FreshInv ==
  /\ \A t \in Threads : pc[t] \in {"ca", "cert"} => <<mine[t], "cert">> \notin files
  /\ None \notin clients /\ None \notin interrupted

IInv ==
  /\ LockInv /\ HolderInv /\ FreshInv
  /\ ProbedWhenFree /\ ClientsOwned /\ CertificateFollowsClient

=============================================================================
