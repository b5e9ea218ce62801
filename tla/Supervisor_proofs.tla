--------------------------- MODULE Supervisor_proofs ---------------------------
(***************************************************************************)
(* Theorems about the two parts of CfrSupervisor.  The first is Supervisor, *)
(* for every number of runtimes and pairings: its invariant ties the       *)
(* operation that has the lock to what it works on, a transport to the     *)
(* runtime or pairing that was made for it, and both to the row of the     *)
(* lease.  The second is BrowserLogin, for all backends, monitors,         *)
(* adapters and operations: automation that nobody uses any more ends, and *)
(* a login window is the human's.  The two share no variable.              *)
(***************************************************************************)
EXTENDS Supervisor, BrowserLogin, TLAPS

(* ------------------ Connections of the supervisor ---------------------- *)

RuntimeSteps == {"daemon_start", "daemon_stop", "transport_stop", "lease_release"}
PairingSteps == {"pairing_start", "close_transport", "close_lease"}
ConnectSteps == {"connect", "wait_ready"}
NoConnSteps  == {"idle", "start", "handoff"}

\* What the operation with the lock works on, and whether a runtime is there.
OperationInv ==
  /\ at \in RuntimeSteps => conn \in Runtimes
  /\ at \in PairingSteps => conn \in Pairings
  /\ at \in ConnectSteps => conn \in Conns
  /\ at \notin NoConnSteps /\ conn \in Runtimes => daemon = conn
  /\ at \in {"start", "handoff"} => daemon = Nobody
  /\ at \notin NoConnSteps /\ conn \in Pairings => daemon = Nobody
  /\ at = "idle" /\ daemon # Nobody => state # "stopped"
  /\ at = "connect" /\ conn \in Runtimes => started[conn]

\* What is not made yet has no transport and no cleanup, nor has a pairing
\* whose operation has not connected it yet.
FreshInv ==
  /\ {daemon, pairing, conn} \subseteq used \cup {Nobody}
  /\ \A c \in Conns : c \notin used => link[c] = "none"
  /\ \A p \in Pairings : p \notin used => cleanup[p] = "none"
  /\ at \in {"pairing_start", "connect"} /\ conn \in Pairings =>
       link[conn] = "none" /\ cleanup[conn] = "none"

\* A connected runtime is the supervisor's, and started; whoever is about to
\* delete a row has stopped the transport.
LinkInv ==
  /\ \A r \in Runtimes : Connected(r) => daemon = r /\ started[r]
  /\ at \in {"lease_release", "close_lease"} => ~ Connected(conn)
  /\ \A p \in Pairings : cleanup[p] = "lease" => ~ Connected(p)

\* Who connects, or is about to, has the lease.
LeaseInv ==
  \A c \in Conns : Connected(c) \/ (at = "connect" /\ conn = c) => row = c \/ c \in lapsed

SupervisorInv ==
  /\ TypeOK /\ OperationInv /\ FreshInv /\ LinkInv /\ LeaseInv
  /\ PairingExcludesRuntime

-----------------------------------------------------------------------------
(* The invariant holds at the start.                                       *)

\* Nothing runs and nothing is held when the supervisor is made.
LEMMA InitInv == Init => SupervisorInv
<1> SUFFICES ASSUME Init PROVE SupervisorInv
  OBVIOUS
<1> USE SupervisorAssumption DEF SupervisorAssumption, Init
<1>1. TypeOK
  <2>1. row \in Conns \cup {Other, Nobody} /\ faults \in 0..MaxFaults
    OBVIOUS
  <2>2. at \in OpSteps /\ conn \in Conns \cup {Nobody}
    BY DEF OpSteps
  <2> QED BY <2>1, <2>2 DEF TypeOK
<1>2. OperationInv
  BY DEF OperationInv, RuntimeSteps, PairingSteps, ConnectSteps, NoConnSteps
<1>3. FreshInv
  BY DEF FreshInv
<1>4. LinkInv /\ LeaseInv /\ PairingExcludesRuntime
  BY DEF LinkInv, LeaseInv, PairingExcludesRuntime, PairingActive, Connected, Conns
<1> QED BY <1>1, <1>2, <1>3, <1>4 DEF SupervisorInv

\* Stopping a transport keeps the type of link (transport.py:812).
LEMMA StopLinkType ==
  ASSUME TypeOK, NEW c, StopLink(c)
  PROVE  link' \in [Conns -> {"none", "connecting", "up", "lingering", "down"}]
<1>1. PICK l \in {"lingering", "down"} :
        link' = [link EXCEPT ![c] = IF @ \in {"none", "down"} THEN @ ELSE l]
  BY DEF StopLink
<1> QED BY <1>1 DEF TypeOK

\* start_feishu keeps the invariant (supervisor.py:1044).
LEMMA StartPreserves ==
  ASSUME SupervisorInv, StartStep
  PROVE  SupervisorInv'
<1> USE SupervisorAssumption DEF SupervisorAssumption, SupervisorInv, pairs, operation, lease
<1>1. ASSUME Refuse,
            UNCHANGED <<started, link, lease, used, faults, pairs, done, cleanup>>
     PROVE  SupervisorInv'
  <2>1. TypeOK'
    BY <1>1 DEF Refuse, Return, StartRefused, TypeOK, OpSteps
  <2>2. OperationInv'
    BY <1>1 DEF Refuse, Return, StartRefused, OperationInv, TypeOK, RuntimeSteps,
     PairingSteps, ConnectSteps
  <2>3. FreshInv'
    BY <1>1 DEF Refuse, Return, StartRefused, FreshInv, TypeOK
  <2>4. LinkInv'
    BY <1>1 DEF Refuse, Return, StartRefused, LinkInv, Connected, TypeOK
  <2>5. LeaseInv'
    BY <1>1 DEF Refuse, Return, StartRefused, LeaseInv, Connected, TypeOK
  <2>6. PairingExcludesRuntime'
    BY <1>1 DEF Refuse, PairingExcludesRuntime, PairingActive
  <2> QED BY ONLY <2>1, <2>2, <2>3, <2>4, <2>5, <2>6 DEF SupervisorInv
<1>2. ASSUME FailEarly,
            UNCHANGED <<started, link, lease, used, faults, pairs, done, cleanup>>
     PROVE  SupervisorInv'
  <2>1. TypeOK'
    BY <1>2 DEF FailEarly, Return, StartRefused, TypeOK, OpSteps
  <2>2. OperationInv'
    BY <1>2 DEF FailEarly, Return, StartRefused, OperationInv, TypeOK, RuntimeSteps,
     PairingSteps, ConnectSteps
  <2>3. FreshInv'
    BY <1>2 DEF FailEarly, Return, StartRefused, FreshInv, TypeOK
  <2>4. LinkInv'
    BY <1>2 DEF FailEarly, Return, StartRefused, LinkInv, Connected, TypeOK
  <2>5. LeaseInv'
    BY <1>2 DEF FailEarly, Return, StartRefused, LeaseInv, Connected, TypeOK
  <2>6. PairingExcludesRuntime'
    BY <1>2 DEF FailEarly, StartRefused, PairingExcludesRuntime
  <2> QED BY ONLY <2>1, <2>2, <2>3, <2>4, <2>5, <2>6 DEF SupervisorInv
<1>3. ASSUME NEW r \in Runtimes, Claim(r),
            UNCHANGED <<started, link, lease, faults, pairs, done, cleanup>>
     PROVE  SupervisorInv'
  <2>1. TypeOK'
    BY <1>3 DEF Claim, Make, StartRefused, TypeOK, Conns, OpSteps
  <2>2. OperationInv'
    BY <1>3 DEF Claim, Make, StartRefused, OperationInv, Conns, TypeOK, PairingSteps
  <2>3. FreshInv'
    BY <1>3 DEF Claim, Make, StartRefused, FreshInv, TypeOK
  <2>4. LinkInv'
    BY <1>3 DEF Claim, Make, StartRefused, LinkInv, Conns, Connected, TypeOK
  <2>5. LeaseInv'
    BY <1>3 DEF Claim, Make, StartRefused, LeaseInv, Connected, TypeOK
  <2>6. PairingExcludesRuntime'
    BY <1>3 DEF Claim, StartRefused, PairingExcludesRuntime, PairingActive
  <2> QED BY ONLY <2>1, <2>2, <2>3, <2>4, <2>5, <2>6 DEF SupervisorInv
<1>4. ASSUME StartDaemon,
            UNCHANGED <<daemon, link, used, pairs, done, cleanup>>
     PROVE  SupervisorInv'
  <2>1. TypeOK'
    BY <1>4 DEF StartDaemon, Acquirable, Acquire, GoOn, TypeOK, Conns, OpSteps,
     RuntimeSteps, OperationInv
  <2>2. OperationInv'
    BY <1>4 DEF StartDaemon, Acquire, GoOn, OperationInv, Conns, TypeOK, RuntimeSteps,
     PairingSteps, NoConnSteps
  <2>3. FreshInv'
    BY <1>4 DEF StartDaemon, Acquirable, Acquire, GoOn, FreshInv, TypeOK, OperationInv,
     RuntimeSteps
  <2>4. LinkInv'
    BY <1>4 DEF StartDaemon, Acquirable, Acquire, GoOn, LinkInv, Connected, TypeOK
  <2>5. LeaseInv'
    BY <1>4 DEF StartDaemon, Acquirable, Acquire, GoOn, LeaseInv, Connected, TypeOK
  <2>6. PairingExcludesRuntime'
    BY <1>4 DEF StartDaemon, Acquirable, Acquire, GoOn, PairingExcludesRuntime,
     PairingActive
  <2> QED BY ONLY <2>1, <2>2, <2>3, <2>4, <2>5, <2>6 DEF SupervisorInv
<1>5. ASSUME StartDaemonFails,
            UNCHANGED <<daemon, link, used, pairs, done, cleanup>>
     PROVE  SupervisorInv'
  <2>1. TypeOK'
    BY <1>5 DEF StartDaemonFails, Acquirable, Acquire, GoOn, Fault, TypeOK, Conns,
     OpSteps
  <2>2. OperationInv'
    BY <1>5 DEF StartDaemonFails, Acquirable, Acquire, GoOn, Fault, OperationInv, Conns,
     TypeOK, RuntimeSteps, PairingSteps, NoConnSteps
  <2>3. FreshInv'
    BY <1>5 DEF StartDaemonFails, Acquirable, Acquire, GoOn, Fault, FreshInv, TypeOK
  <2>4. LinkInv'
    BY <1>5 DEF StartDaemonFails, Acquirable, Acquire, GoOn, Fault, LinkInv, Connected,
     TypeOK
  <2>5. LeaseInv'
    BY <1>5 DEF StartDaemonFails, Acquirable, Acquire, GoOn, Fault, LeaseInv, Connected,
     TypeOK
  <2>6. PairingExcludesRuntime'
    BY <1>5 DEF StartDaemonFails, Acquirable, Acquire, PairingExcludesRuntime,
     PairingActive
  <2> QED BY ONLY <2>1, <2>2, <2>3, <2>4, <2>5, <2>6 DEF SupervisorInv
<1>6. ASSUME Ready,
            UNCHANGED <<daemon, started, link, lease, used, faults, pairs, done, cleanup>>
     PROVE  SupervisorInv'
  <2>1. TypeOK'
    BY <1>6 DEF Ready, Return, TypeOK, OpSteps
  <2>2. OperationInv'
    BY <1>6 DEF Ready, Return, OperationInv, Conns, TypeOK, RuntimeSteps, PairingSteps,
     ConnectSteps
  <2>3. FreshInv'
    BY <1>6 DEF Ready, Return, FreshInv, TypeOK
  <2>4. LinkInv'
    BY <1>6 DEF Ready, Return, LinkInv, Connected, TypeOK
  <2>5. LeaseInv'
    BY <1>6 DEF Ready, Return, LeaseInv, Connected, TypeOK
  <2>6. PairingExcludesRuntime'
    BY <1>6 DEF Ready, PairingExcludesRuntime, PairingActive
  <2> QED BY ONLY <2>1, <2>2, <2>3, <2>4, <2>5, <2>6 DEF SupervisorInv
<1>7. ASSUME NotReady,
            UNCHANGED <<daemon, started, link, lease, used, faults, pairs, done, cleanup>>
     PROVE  SupervisorInv'
  <2>1. TypeOK'
    BY <1>7 DEF NotReady, GoOn, TypeOK, OpSteps
  <2>2. OperationInv'
    BY <1>7 DEF NotReady, GoOn, OperationInv, Conns, TypeOK, PairingSteps, NoConnSteps
  <2>3. FreshInv'
    BY <1>7 DEF NotReady, GoOn, FreshInv, TypeOK
  <2>4. LinkInv'
    BY <1>7 DEF NotReady, GoOn, LinkInv, Connected, TypeOK
  <2>5. LeaseInv'
    BY <1>7 DEF NotReady, GoOn, LeaseInv, Connected, TypeOK
  <2>6. PairingExcludesRuntime'
    BY <1>7 DEF NotReady, GoOn, PairingExcludesRuntime, PairingActive
  <2> QED BY ONLY <2>1, <2>2, <2>3, <2>4, <2>5, <2>6 DEF SupervisorInv
<1> QED BY <1>1, <1>2, <1>3, <1>4, <1>5, <1>6, <1>7 DEF StartStep

\* stop_feishu and FeishuDaemon.stop keep it (supervisor.py:1019, daemon.py:1815).
LEMMA StopPreserves ==
  ASSUME SupervisorInv, StopStep
  PROVE  SupervisorInv'
<1> USE SupervisorAssumption DEF SupervisorAssumption, SupervisorInv, pairs, operation, lease
<1>1. ASSUME NEW next \in {"return", "start"}, Stop(next),
            UNCHANGED <<daemon, started, link, lease, faults, pairs, done, cleanup, used>>
     PROVE  SupervisorInv'
  <2>1. TypeOK'
    BY <1>1 DEF Stop, TypeOK, Conns, OpSteps
  <2>2. OperationInv'
    BY <1>1 DEF Stop, OperationInv, TypeOK, RuntimeSteps, PairingSteps, ConnectSteps,
     NoConnSteps
  <2>3. FreshInv'
    BY <1>1 DEF Stop, FreshInv
  <2>4. LinkInv'
    BY <1>1 DEF Stop, LinkInv, Connected, TypeOK
  <2>5. LeaseInv'
    BY <1>1 DEF Stop, LeaseInv, Connected, TypeOK
  <2>6. PairingExcludesRuntime'
    BY <1>1 DEF Stop, PairingExcludesRuntime, PairingActive
  <2> QED BY ONLY <2>1, <2>2, <2>3, <2>4, <2>5, <2>6 DEF SupervisorInv
<1>2. ASSUME StopUnstarted,
            UNCHANGED <<started, link, row, lapsed, faults, pairs, done, cleanup, used>>
     PROVE  SupervisorInv'
  <2>1. TypeOK'
    BY <1>2 DEF StopUnstarted, LetGo, Proceed, TypeOK, OpSteps
  <2>2. OperationInv'
    BY <1>2 DEF StopUnstarted, LetGo, Proceed, OperationInv, TypeOK, RuntimeSteps,
     PairingSteps, ConnectSteps
  <2>3. FreshInv'
    BY <1>2 DEF StopUnstarted, LetGo, Proceed, FreshInv
  <2>4. LinkInv'
    BY <1>2 DEF StopUnstarted, LetGo, Proceed, LinkInv, Connected, OperationInv,
     RuntimeSteps, NoConnSteps
  <2>5. LeaseInv'
    BY <1>2 DEF StopUnstarted, LetGo, Proceed, LeaseInv, Connected, TypeOK
  <2>6. PairingExcludesRuntime'
    BY <1>2 DEF StopUnstarted, LetGo, Proceed, PairingExcludesRuntime, TypeOK
  <2> QED BY ONLY <2>1, <2>2, <2>3, <2>4, <2>5, <2>6 DEF SupervisorInv
<1>3. ASSUME StopDaemon,
            UNCHANGED <<started, link, row, lapsed, faults, pairs, done, cleanup, used>>
     PROVE  SupervisorInv'
  <2>1. TypeOK'
    BY <1>3 DEF StopDaemon, GoOn, GiveUp, Return, TypeOK, OpSteps
  <2>2. OperationInv'
    BY <1>3 DEF StopDaemon, GoOn, GiveUp, Return, OperationInv, TypeOK, RuntimeSteps,
     PairingSteps, ConnectSteps, NoConnSteps
  <2>3. FreshInv'
    BY <1>3 DEF StopDaemon, GoOn, GiveUp, Return, FreshInv, TypeOK
  <2>4. LinkInv'
    BY <1>3 DEF StopDaemon, GoOn, GiveUp, Return, LinkInv, Connected, TypeOK
  <2>5. LeaseInv'
    BY <1>3 DEF StopDaemon, GoOn, GiveUp, Return, LeaseInv, Connected, TypeOK
  <2>6. PairingExcludesRuntime'
    BY <1>3 DEF StopDaemon, GoOn, GiveUp, PairingExcludesRuntime, PairingActive
  <2> QED BY ONLY <2>1, <2>2, <2>3, <2>4, <2>5, <2>6 DEF SupervisorInv
<1>4. ASSUME StopTransport,
            UNCHANGED <<state, daemon, started, lease, pairs, done, cleanup, used>>
     PROVE  SupervisorInv'
  <2>1. TypeOK'
    BY <1>4 DEF StopTransport, StopLink, Fault, TypeOK, OpSteps
  <2>2. OperationInv'
    BY <1>4 DEF StopTransport, StopLink, Fault, OperationInv, Conns, TypeOK,
     RuntimeSteps, PairingSteps, NoConnSteps
  <2>3. FreshInv'
    BY <1>4 DEF StopTransport, StopLink, Fault, FreshInv, TypeOK
  <2>4. LinkInv'
    BY <1>4 DEF StopTransport, StopLink, Fault, LinkInv, Conns, Connected, TypeOK,
     OperationInv, RuntimeSteps
  <2>5. LeaseInv'
    BY <1>4 DEF StopTransport, StopLink, Fault, LeaseInv, Connected, TypeOK
  <2>6. PairingExcludesRuntime'
    BY <1>4 DEF StopTransport, StopLink, Fault, PairingExcludesRuntime, PairingActive,
     TypeOK
  <2> QED BY ONLY <2>1, <2>2, <2>3, <2>4, <2>5, <2>6 DEF SupervisorInv
<1>5. ASSUME ReleaseDaemonLease,
            UNCHANGED <<link, pairs, done, cleanup, used>>
     PROVE  SupervisorInv'
  <2>1. TypeOK'
    <3> USE DEF ReleaseDaemonLease, TypeOK
    <3>1. /\ state' \in {"stopped", "degraded"} /\ daemon' \in {daemon, Nobody}
          /\ at' \in {"idle", "start"} /\ conn' = Nobody /\ then' = "return"
      BY <1>5 DEF LetGo, Proceed, GiveUp, Return
    <3>2. row' \in {row, Nobody}
      BY <1>5 DEF Delete
    <3>3. faults' \in 0..MaxFaults
      BY <1>5 DEF Fault
    <3>4. started' \in [Runtimes -> BOOLEAN]
      BY <1>5
    <3> QED BY <1>5, <3>1, <3>2, <3>3, <3>4 DEF OpSteps
  <2>2. OperationInv'
    BY <1>5 DEF ReleaseDaemonLease, Delete, LetGo, Proceed, GiveUp, Return, Fault,
     OperationInv, Conns, TypeOK, RuntimeSteps, PairingSteps, ConnectSteps
  <2>3. FreshInv'
    BY <1>5 DEF ReleaseDaemonLease, Delete, LetGo, Proceed, GiveUp, Return, Fault,
     FreshInv, TypeOK
  <2>4. LinkInv'
    BY <1>5 DEF ReleaseDaemonLease, Delete, LetGo, Proceed, GiveUp, Return, Fault,
     LinkInv, Connected, TypeOK, OperationInv, RuntimeSteps, NoConnSteps
  <2>5. LeaseInv'
    BY <1>5 DEF ReleaseDaemonLease, Delete, LetGo, Proceed, GiveUp, Return, Fault,
     LeaseInv, Connected, TypeOK, LinkInv
  <2>6. PairingExcludesRuntime'
    BY <1>5 DEF ReleaseDaemonLease, Delete, LetGo, Proceed, GiveUp,
     PairingExcludesRuntime, PairingActive
  <2> QED BY ONLY <2>1, <2>2, <2>3, <2>4, <2>5, <2>6 DEF SupervisorInv
<1> QED BY <1>1, <1>2, <1>3, <1>4, <1>5 DEF StopStep

\* The operations of a pairing keep it (supervisor.py:844, 901, 911).
LEMMA PairingPreserves ==
  ASSUME SupervisorInv, PairingStep
  PROVE  SupervisorInv'
<1> USE SupervisorAssumption DEF SupervisorAssumption, SupervisorInv, pairs, operation, lease
<1>1. ASSUME NEW p \in Pairings, StartPairing(p),
            UNCHANGED <<link, lease, faults, state, daemon, started, cleanup>>
     PROVE  SupervisorInv'
  <2>1. TypeOK'
    BY <1>1 DEF StartPairing, PairingRefused, Make, TypeOK, Conns, OpSteps
  <2>2. OperationInv'
    BY <1>1 DEF StartPairing, PairingRefused, Make, OperationInv, Conns, TypeOK,
     RuntimeSteps
  <2>3. FreshInv'
    BY <1>1 DEF StartPairing, PairingRefused, Make, FreshInv, Conns, TypeOK
  <2>4. LinkInv'
    BY <1>1 DEF StartPairing, PairingRefused, Make, LinkInv, Connected, TypeOK
  <2>5. LeaseInv'
    BY <1>1 DEF StartPairing, PairingRefused, Make, LeaseInv, Connected, TypeOK
  <2>6. PairingExcludesRuntime'
    BY <1>1 DEF StartPairing, PairingRefused, PairingExcludesRuntime
  <2> QED BY ONLY <2>1, <2>2, <2>3, <2>4, <2>5, <2>6 DEF SupervisorInv
<1>2. ASSUME LeasePairing,
            UNCHANGED <<done, link, used, faults, state, daemon, started, cleanup>>
     PROVE  SupervisorInv'
  <2>1. TypeOK'
    BY <1>2 DEF LeasePairing, Acquirable, Acquire, GoOn, TypeOK, Conns, OpSteps,
     PairingSteps, OperationInv
  <2>2. OperationInv'
    BY <1>2 DEF LeasePairing, Acquire, GoOn, OperationInv, Conns, RuntimeSteps,
     PairingSteps, NoConnSteps
  <2>3. FreshInv'
    BY <1>2 DEF LeasePairing, Acquirable, Acquire, GoOn, FreshInv, TypeOK
  <2>4. LinkInv'
    BY <1>2 DEF LeasePairing, Acquirable, Acquire, GoOn, LinkInv, Connected, TypeOK
  <2>5. LeaseInv'
    BY <1>2 DEF LeasePairing, Acquirable, Acquire, GoOn, LeaseInv, Connected, TypeOK
  <2>6. PairingExcludesRuntime'
    BY <1>2 DEF LeasePairing, Acquirable, Acquire, GoOn, PairingExcludesRuntime,
     PairingActive
  <2> QED BY ONLY <2>1, <2>2, <2>3, <2>4, <2>5, <2>6 DEF SupervisorInv
<1>3. ASSUME PairingFails,
            UNCHANGED <<link, lease, used, faults, state, daemon, started, cleanup>>
     PROVE  SupervisorInv'
  <2>1. TypeOK'
    BY <1>3 DEF PairingFails, Detach, Return, TypeOK, OpSteps
  <2>2. OperationInv'
    BY <1>3 DEF PairingFails, Detach, Return, OperationInv, TypeOK, RuntimeSteps,
     PairingSteps, ConnectSteps, NoConnSteps
  <2>3. FreshInv'
    BY <1>3 DEF PairingFails, Detach, Return, FreshInv, TypeOK
  <2>4. LinkInv'
    BY <1>3 DEF PairingFails, Detach, Return, LinkInv, Connected, TypeOK
  <2>5. LeaseInv'
    BY <1>3 DEF PairingFails, Detach, Return, LeaseInv, Connected, TypeOK
  <2>6. PairingExcludesRuntime'
    BY <1>3 DEF PairingFails, Detach, PairingExcludesRuntime, PairingActive
  <2> QED BY ONLY <2>1, <2>2, <2>3, <2>4, <2>5, <2>6 DEF SupervisorInv
<1>4. ASSUME PairingReady,
            UNCHANGED <<done, link, lease, used, faults, state, daemon, started, cleanup>>
     PROVE  SupervisorInv'
  <2>1. TypeOK'
    BY <1>4 DEF PairingReady, Return, TypeOK, OpSteps
  <2>2. OperationInv'
    BY <1>4 DEF PairingReady, Return, OperationInv, TypeOK, RuntimeSteps, PairingSteps,
     ConnectSteps, PairingExcludesRuntime, PairingActive
  <2>3. FreshInv'
    BY <1>4 DEF PairingReady, Return, FreshInv, TypeOK
  <2>4. LinkInv'
    BY <1>4 DEF PairingReady, Return, LinkInv, Connected, TypeOK
  <2>5. LeaseInv'
    BY <1>4 DEF PairingReady, Return, LeaseInv, Connected, TypeOK
  <2>6. PairingExcludesRuntime'
    BY <1>4 DEF PairingReady, PairingExcludesRuntime, PairingActive
  <2> QED BY ONLY <2>1, <2>2, <2>3, <2>4, <2>5, <2>6 DEF SupervisorInv
<1>5. ASSUME PairingNotReady,
            UNCHANGED <<done, link, lease, used, faults, state, daemon, started, cleanup>>
     PROVE  SupervisorInv'
  <2>1. TypeOK'
    BY <1>5 DEF PairingNotReady, Detach, GoOn, TypeOK, OpSteps
  <2>2. OperationInv'
    BY <1>5 DEF PairingNotReady, Detach, GoOn, OperationInv, Conns, TypeOK,
     RuntimeSteps, NoConnSteps
  <2>3. FreshInv'
    BY <1>5 DEF PairingNotReady, Detach, GoOn, FreshInv, TypeOK
  <2>4. LinkInv'
    BY <1>5 DEF PairingNotReady, Detach, GoOn, LinkInv, Connected, TypeOK
  <2>5. LeaseInv'
    BY <1>5 DEF PairingNotReady, Detach, GoOn, LeaseInv, Connected, TypeOK
  <2>6. PairingExcludesRuntime'
    BY <1>5 DEF PairingNotReady, Detach, GoOn, PairingExcludesRuntime, PairingActive
  <2> QED BY ONLY <2>1, <2>2, <2>3, <2>4, <2>5, <2>6 DEF SupervisorInv
<1>6. ASSUME Confirm,
            UNCHANGED <<done, link, lease, used, faults, state, daemon, started, cleanup>>
     PROVE  SupervisorInv'
  <2>1. TypeOK'
    BY <1>6 DEF Confirm, Detach, GoOn, TypeOK, OpSteps
  <2>2. OperationInv'
    BY <1>6 DEF Confirm, Detach, GoOn, OperationInv, TypeOK, RuntimeSteps, PairingSteps,
     ConnectSteps, NoConnSteps, PairingExcludesRuntime, PairingActive
  <2>3. FreshInv'
    BY <1>6 DEF Confirm, Detach, GoOn, FreshInv, TypeOK
  <2>4. LinkInv'
    BY <1>6 DEF Confirm, Detach, GoOn, LinkInv, Connected, TypeOK
  <2>5. LeaseInv'
    BY <1>6 DEF Confirm, Detach, GoOn, LeaseInv, Connected, TypeOK
  <2>6. PairingExcludesRuntime'
    BY <1>6 DEF Confirm, Detach, GoOn, PairingExcludesRuntime, PairingActive
  <2> QED BY ONLY <2>1, <2>2, <2>3, <2>4, <2>5, <2>6 DEF SupervisorInv
<1>7. ASSUME Cancel,
            UNCHANGED <<link, lease, used, faults, state, daemon, started, cleanup>>
     PROVE  SupervisorInv'
  <2>1. TypeOK'
    BY <1>7, ZenonT(60) DEF Cancel, Detach, TypeOK, Conns, OpSteps
  <2>2. OperationInv'
    BY <1>7 DEF Cancel, Detach, OperationInv, Conns, TypeOK, RuntimeSteps,
     PairingExcludesRuntime
  <2>3. FreshInv'
    BY <1>7 DEF Cancel, Detach, FreshInv, TypeOK
  <2>4. LinkInv'
    BY <1>7 DEF Cancel, Detach, LinkInv, Connected, TypeOK
  <2>5. LeaseInv'
    BY <1>7 DEF Cancel, Detach, LeaseInv, Connected, TypeOK
  <2>6. PairingExcludesRuntime'
    BY <1>7 DEF Cancel, Detach, PairingExcludesRuntime
  <2> QED BY ONLY <2>1, <2>2, <2>3, <2>4, <2>5, <2>6 DEF SupervisorInv
<1>8. ASSUME Handoff,
            UNCHANGED <<pairs, done, link, lease, used, faults, state, daemon, started, cleanup>>
     PROVE  SupervisorInv'
  <2>1. TypeOK'
    BY <1>8 DEF Handoff, GoOn, Return, TypeOK, OpSteps
  <2>2. OperationInv'
    BY <1>8 DEF Handoff, GoOn, Return, OperationInv, TypeOK, RuntimeSteps, PairingSteps,
     ConnectSteps, NoConnSteps
  <2>3. FreshInv'
    BY <1>8 DEF Handoff, GoOn, Return, FreshInv, TypeOK
  <2>4. LinkInv'
    BY <1>8 DEF Handoff, GoOn, Return, LinkInv, Connected, TypeOK
  <2>5. LeaseInv'
    BY <1>8 DEF Handoff, GoOn, Return, LeaseInv, Connected, TypeOK
  <2>6. PairingExcludesRuntime'
    BY <1>8 DEF Handoff, GoOn, PairingExcludesRuntime, PairingActive
  <2> QED BY ONLY <2>1, <2>2, <2>3, <2>4, <2>5, <2>6 DEF SupervisorInv
<1>9. ASSUME CloseTransport,
            UNCHANGED <<pairs, done, lease, used, faults, state, daemon, started, cleanup>>
     PROVE  SupervisorInv'
  <2>1. TypeOK'
    <3>1. link' \in [Conns -> {"none", "connecting", "up", "lingering", "down"}]
      BY <1>9, StopLinkType DEF CloseTransport
    <3>2. at' = "close_lease" /\ UNCHANGED <<conn, then>>
      BY <1>9 DEF CloseTransport, GoOn
    <3>3. QED BY <1>9, <3>1, <3>2 DEF TypeOK, OpSteps
  <2>2. OperationInv'
    BY <1>9 DEF CloseTransport, StopLink, GoOn, OperationInv, Conns, RuntimeSteps,
     PairingSteps, NoConnSteps
  <2>3. FreshInv'
    BY <1>9 DEF CloseTransport, StopLink, GoOn, FreshInv, TypeOK
  <2>4. LinkInv'
    BY <1>9 DEF CloseTransport, StopLink, GoOn, LinkInv, Conns, Connected, TypeOK,
     OperationInv, PairingSteps
  <2>5. LeaseInv'
    BY <1>9 DEF CloseTransport, StopLink, GoOn, LeaseInv, Connected, TypeOK
  <2>6. PairingExcludesRuntime'
    BY <1>9 DEF CloseTransport, StopLink, GoOn, PairingExcludesRuntime, PairingActive,
     TypeOK
  <2> QED BY ONLY <2>1, <2>2, <2>3, <2>4, <2>5, <2>6 DEF SupervisorInv
<1>10. ASSUME CloseLease,
            UNCHANGED <<pairs, link, used, state, daemon, started, cleanup>>
     PROVE  SupervisorInv'
  <2>1. TypeOK'
    BY <1>10 DEF CloseLease, ReleaseLease, Delete, Fault, Return, TypeOK, OpSteps
  <2>2. OperationInv'
    BY <1>10 DEF CloseLease, ReleaseLease, Delete, Fault, Return, OperationInv, TypeOK,
     RuntimeSteps, PairingSteps, ConnectSteps, NoConnSteps
  <2>3. FreshInv'
    BY <1>10 DEF CloseLease, ReleaseLease, Delete, Fault, Return, FreshInv, TypeOK
  <2>4. LinkInv'
    BY <1>10 DEF CloseLease, ReleaseLease, Delete, Fault, Return, LinkInv, Connected,
     TypeOK
  <2>5. LeaseInv'
    BY <1>10 DEF CloseLease, ReleaseLease, Delete, Fault, Return, LeaseInv, Connected,
     TypeOK, LinkInv
  <2>6. PairingExcludesRuntime'
    BY <1>10 DEF CloseLease, ReleaseLease, Delete, PairingExcludesRuntime, PairingActive
  <2> QED BY ONLY <2>1, <2>2, <2>3, <2>4, <2>5, <2>6 DEF SupervisorInv
<1> QED BY <1>1, <1>2, <1>3, <1>4, <1>5, <1>6, <1>7, <1>8, <1>9, <1>10 DEF PairingStep

\* connect_until_ready keeps it (transport.py:662).
LEMMA ConnectPreserves ==
  ASSUME SupervisorInv, ConnectStep
  PROVE  SupervisorInv'
<1> USE SupervisorAssumption DEF SupervisorAssumption, SupervisorInv, pairs, operation, lease
<1>1. ASSUME Connect,
            UNCHANGED <<state, daemon, pairs, done, cleanup, started, lease, used, faults>>
     PROVE  SupervisorInv'
  <2>1. TypeOK'
    BY <1>1 DEF Connect, GoOn, TypeOK, OpSteps, ConnectSteps, OperationInv
  <2>2. OperationInv'
    BY <1>1 DEF Connect, GoOn, OperationInv, TypeOK, RuntimeSteps, PairingSteps,
     ConnectSteps, NoConnSteps
  <2>3. FreshInv'
    BY <1>1 DEF Connect, GoOn, FreshInv, TypeOK
  <2>4. LinkInv'
    BY <1>1 DEF Connect, GoOn, LinkInv, Connected, TypeOK, OperationInv, FreshInv,
     NoConnSteps
  <2>5. LeaseInv'
    BY <1>1 DEF Connect, GoOn, LeaseInv, Connected, TypeOK
  <2>6. PairingExcludesRuntime'
    BY <1>1 DEF Connect, GoOn, PairingExcludesRuntime, PairingActive
  <2> QED BY ONLY <2>1, <2>2, <2>3, <2>4, <2>5, <2>6 DEF SupervisorInv
<1> QED BY <1>1 DEF ConnectStep

\* A pairing message and a timer keep it, whatever operation they meet (supervisor.py:791, 805).
LEMMA CallbackPreserves ==
  ASSUME SupervisorInv, Callback
  PROVE  SupervisorInv'
<1> USE SupervisorAssumption DEF SupervisorAssumption, SupervisorInv, pairs, operation, lease
<1>1. ASSUME PairingMessage,
            UNCHANGED <<state, daemon, done, operation, started, link, lease, used, faults>>
     PROVE  SupervisorInv'
  <2>1. TypeOK'
    BY <1>1 DEF PairingMessage, Detach, TypeOK
  <2>2. OperationInv'
    BY <1>1 DEF PairingMessage, Detach, OperationInv
  <2>3. FreshInv'
    BY <1>1 DEF PairingMessage, Detach, FreshInv, TypeOK
  <2>4. LinkInv'
    BY <1>1 DEF PairingMessage, Detach, LinkInv, Connected, TypeOK
  <2>5. LeaseInv'
    BY <1>1 DEF PairingMessage, Detach, LeaseInv, Connected, TypeOK
  <2>6. PairingExcludesRuntime'
    BY <1>1 DEF PairingMessage, Detach, PairingExcludesRuntime, PairingActive
  <2> QED BY ONLY <2>1, <2>2, <2>3, <2>4, <2>5, <2>6 DEF SupervisorInv
<1>2. ASSUME NEW p \in Pairings, TimerFires(p),
            UNCHANGED <<state, daemon, done, operation, started, link, lease, used, faults>>
     PROVE  SupervisorInv'
  <2>1. TypeOK'
    BY <1>2 DEF TimerFires, TypeOK
  <2>2. OperationInv'
    BY <1>2 DEF TimerFires, OperationInv
  <2>3. FreshInv'
    BY <1>2 DEF TimerFires, FreshInv
  <2>4. LinkInv'
    BY <1>2 DEF TimerFires, LinkInv, Connected, TypeOK
  <2>5. LeaseInv'
    BY <1>2 DEF TimerFires, LeaseInv, Connected, TypeOK
  <2>6. PairingExcludesRuntime'
    BY <1>2 DEF TimerFires, PairingExcludesRuntime, PairingActive
  <2> QED BY ONLY <2>1, <2>2, <2>3, <2>4, <2>5, <2>6 DEF SupervisorInv
<1>3. ASSUME NEW p \in Pairings, Expire(p),
            UNCHANGED <<state, daemon, done, operation, started, link, lease, used, faults>>
     PROVE  SupervisorInv'
  <2>1. TypeOK'
    BY <1>3 DEF Expire, TypeOK
  <2>2. OperationInv'
    BY <1>3 DEF Expire, OperationInv
  <2>3. FreshInv'
    BY <1>3 DEF Expire, FreshInv, Conns, TypeOK
  <2>4. LinkInv'
    BY <1>3 DEF Expire, LinkInv, Connected, TypeOK
  <2>5. LeaseInv'
    BY <1>3 DEF Expire, LeaseInv, Connected, TypeOK
  <2>6. PairingExcludesRuntime'
    BY <1>3 DEF Expire, PairingExcludesRuntime, PairingActive
  <2> QED BY ONLY <2>1, <2>2, <2>3, <2>4, <2>5, <2>6 DEF SupervisorInv
<1> QED BY <1>1, <1>2, <1>3 DEF Callback

\* A cleanup thread keeps it (supervisor.py:767).
LEMMA CleanupPreserves ==
  ASSUME SupervisorInv, NEW p \in Pairings, Cleanup(p)
  PROVE  SupervisorInv'
<1> USE SupervisorAssumption DEF SupervisorAssumption, SupervisorInv, pairs, operation, lease
<1>1. ASSUME CleanTransport(p),
            UNCHANGED <<done, lapsed, beats, faults, state, daemon, pairs, operation, started, used>>
     PROVE  SupervisorInv'
  <2>1. TypeOK'
    <3>1. link' \in [Conns -> {"none", "connecting", "up", "lingering", "down"}]
      BY <1>1, StopLinkType DEF CleanTransport
    <3>2. /\ cleanup' = [cleanup EXCEPT ![p] = "lease"]
          /\ UNCHANGED row
      BY <1>1 DEF CleanTransport
    <3>3. QED BY <1>1, <3>1, <3>2 DEF TypeOK
  <2>2. OperationInv'
    BY <1>1 DEF CleanTransport, StopLink, OperationInv
  <2>3. FreshInv'
    BY <1>1 DEF CleanTransport, StopLink, FreshInv
  <2>4. LinkInv'
    BY <1>1 DEF CleanTransport, StopLink, LinkInv, Conns, Connected, TypeOK
  <2>5. LeaseInv'
    BY <1>1 DEF CleanTransport, StopLink, LeaseInv, Connected, TypeOK
  <2>6. PairingExcludesRuntime'
    BY <1>1 DEF CleanTransport, StopLink, PairingExcludesRuntime, PairingActive
  <2> QED BY ONLY <2>1, <2>2, <2>3, <2>4, <2>5, <2>6 DEF SupervisorInv
<1>2. ASSUME CleanLease(p),
            UNCHANGED <<link, state, daemon, pairs, operation, started, used>>
     PROVE  SupervisorInv'
  <2>1. TypeOK'
    BY <1>2 DEF CleanLease, ReleaseLease, Delete, Fault, TypeOK, Conns, OpSteps
  <2>2. OperationInv'
    BY <1>2 DEF CleanLease, ReleaseLease, Delete, Fault, OperationInv, TypeOK
  <2>3. FreshInv'
    <3>1. UNCHANGED <<daemon, pairing, conn, used, link, at>>
      BY <1>2
    <3>2. \A q \in Pairings : cleanup[q] = "none" => cleanup'[q] = "none"
      BY <1>2 DEF CleanLease, TypeOK
    <3>3. QED BY ONLY SupervisorInv, <3>1, <3>2 DEF SupervisorInv, FreshInv
  <2>4. LinkInv'
    BY <1>2 DEF CleanLease, ReleaseLease, Delete, Fault, LinkInv, Connected, TypeOK
  <2>5. LeaseInv'
    BY <1>2 DEF CleanLease, ReleaseLease, Delete, Fault, LeaseInv, Connected, TypeOK,
     FreshInv, LinkInv
  <2>6. PairingExcludesRuntime'
    BY <1>2 DEF CleanLease, ReleaseLease, Delete, PairingExcludesRuntime, PairingActive
  <2> QED BY ONLY <2>1, <2>2, <2>3, <2>4, <2>5, <2>6 DEF SupervisorInv
<1> QED BY <1>1, <1>2 DEF Cleanup

\* Time, heartbeats, transports and the other process keep it (connection.py:43).
LEMMA EnvironmentPreserves ==
  ASSUME SupervisorInv, Environment \/ \E c \in Conns : Clock(c)
  PROVE  SupervisorInv'
<1> USE SupervisorAssumption DEF SupervisorAssumption, SupervisorInv, pairs, operation, lease
<1>1. ASSUME OtherProcess,
            UNCHANGED <<state, daemon, pairs, done, cleanup, operation, started, link, used>>
     PROVE  SupervisorInv'
  <2>1. TypeOK'
    BY <1>1 DEF OtherProcess, TypeOK
  <2>2. OperationInv'
    BY <1>1 DEF OtherProcess, OperationInv
  <2>3. FreshInv'
    BY <1>1 DEF OtherProcess, FreshInv
  <2>4. LinkInv'
    BY <1>1 DEF OtherProcess, LinkInv, Connected, TypeOK
  <2>5. LeaseInv'
    BY <1>1 DEF OtherProcess, LeaseInv, Connected, TypeOK
  <2>6. PairingExcludesRuntime'
    BY <1>1 DEF OtherProcess, PairingExcludesRuntime, PairingActive
  <2> QED BY ONLY <2>1, <2>2, <2>3, <2>4, <2>5, <2>6 DEF SupervisorInv
<1>2. ASSUME NEW c \in Conns, Heartbeat(c),
            UNCHANGED <<state, daemon, pairs, done, cleanup, operation, started, link, used>>
     PROVE  SupervisorInv'
  <2>1. TypeOK'
    BY <1>2 DEF Heartbeat, Fault, TypeOK, Conns, OpSteps
  <2>2. OperationInv'
    BY <1>2 DEF Heartbeat, Fault, OperationInv, TypeOK
  <2>3. FreshInv'
    BY <1>2 DEF Heartbeat, FreshInv
  <2>4. LinkInv'
    BY <1>2 DEF Heartbeat, Fault, LinkInv, Connected, TypeOK
  <2>5. LeaseInv'
    BY <1>2 DEF Heartbeat, Fault, LeaseInv, Connected, TypeOK
  <2>6. PairingExcludesRuntime'
    BY <1>2 DEF Heartbeat, PairingExcludesRuntime, PairingActive
  <2> QED BY ONLY <2>1, <2>2, <2>3, <2>4, <2>5, <2>6 DEF SupervisorInv
<1>3. ASSUME NEW c \in Conns, Transport(c),
            UNCHANGED <<state, daemon, pairs, done, cleanup, operation, started, lease, used, faults>>
     PROVE  SupervisorInv'
  <2>1. TypeOK'
    BY <1>3 DEF Transport, TypeOK
  <2>2. OperationInv'
    BY <1>3 DEF Transport, OperationInv
  <2>3. FreshInv'
    BY <1>3 DEF Transport, FreshInv, Conns, TypeOK
  <2>4. LinkInv'
    BY <1>3 DEF Transport, LinkInv, Conns, Connected, TypeOK, OperationInv,
     RuntimeSteps, PairingSteps
  <2>5. LeaseInv'
    BY <1>3 DEF Transport, LeaseInv, Connected, TypeOK
  <2>6. PairingExcludesRuntime'
    BY <1>3 DEF Transport, PairingExcludesRuntime, PairingActive, TypeOK
  <2> QED BY ONLY <2>1, <2>2, <2>3, <2>4, <2>5, <2>6 DEF SupervisorInv
<1>4. ASSUME NEW c \in Conns, Lapse(c),
            UNCHANGED <<state, daemon, pairs, done, cleanup, operation, started, link, used>>
     PROVE  SupervisorInv'
  <2>1. TypeOK'
    BY <1>4 DEF Lapse, Fault, TypeOK, OpSteps
  <2>2. OperationInv'
    BY <1>4 DEF Lapse, Fault, OperationInv
  <2>3. FreshInv'
    BY <1>4 DEF Lapse, FreshInv
  <2>4. LinkInv'
    BY <1>4 DEF Lapse, Fault, LinkInv, Connected, TypeOK
  <2>5. LeaseInv'
    BY <1>4 DEF Lapse, Fault, LeaseInv, Connected, TypeOK
  <2>6. PairingExcludesRuntime'
    BY <1>4 DEF Lapse, PairingExcludesRuntime, PairingActive
  <2> QED BY ONLY <2>1, <2>2, <2>3, <2>4, <2>5, <2>6 DEF SupervisorInv
<1> QED BY <1>1, <1>2, <1>3, <1>4 DEF Environment, Clock

\* A step that changes nothing keeps it.
LEMMA StutterPreserves == ASSUME SupervisorInv, UNCHANGED vars PROVE SupervisorInv'
  BY DEF SupervisorInv, TypeOK, OperationInv, FreshInv, LinkInv, LeaseInv, Connected,
         PairingExcludesRuntime, PairingActive, vars, pairs, operation, lease

-----------------------------------------------------------------------------
\* The invariant of the supervisor: what the operation with the lock, the
\* transports, the cleanup threads and the row know of each other.
THEOREM SupervisorInvariant == Spec => []SupervisorInv
<1>1. ASSUME SupervisorInv, [Next]_vars PROVE SupervisorInv'
  <2>1. CASE UNCHANGED vars
    BY <1>1, <2>1, StutterPreserves
  <2>2. CASE Next
    BY <1>1, <2>2, StartPreserves, StopPreserves, PairingPreserves, ConnectPreserves,
       CallbackPreserves, CleanupPreserves, EnvironmentPreserves DEF Next, Operation
  <2> QED BY <1>1, <2>1, <2>2
<1> QED BY InitInv, <1>1, PTL DEF Spec

\* Every variable of the supervisor keeps its type.
THEOREM TypeCorrect == Spec => []TypeOK
<1>1. SupervisorInv => TypeOK
  BY DEF SupervisorInv
<1> QED BY SupervisorInvariant, <1>1, PTL

\* No connection to Feishu is without the lease unless its time ran out
\* (supervisor.py:767, daemon.py:1866: transports stop before leases are released).
THEOREM ConnectionsAreLeased == Spec => []ConnectionIsLeased
<1>1. SupervisorInv => ConnectionIsLeased
  BY DEF SupervisorInv, LeaseInv, ConnectionIsLeased
<1> QED BY SupervisorInvariant, <1>1, PTL

\* The runtime that is connected is the supervisor's, which does not call it
\* stopped (supervisor.py:1019).
THEOREM ConnectedAreOwned == Spec => []ConnectedIsOwned
<1>1. SupervisorInv => ConnectedIsOwned
  BY SupervisorAssumption
  DEF SupervisorAssumption, SupervisorInv, LinkInv, OperationInv, ConnectedIsOwned, Conns
<1> QED BY SupervisorInvariant, <1>1, PTL

\* Pairing and the runtime exclude each other (supervisor.py:847, 1047).
THEOREM PairingAndRuntimeExclude == Spec => []PairingExcludesRuntime
<1>1. SupervisorInv => PairingExcludesRuntime
  BY DEF SupervisorInv
<1> QED BY SupervisorInvariant, <1>1, PTL

(* ------------------- The browser and its login ------------------------- *)

Positions == {"idle", "wait", "done", "close"} \cup CheckSteps \cup ManualSteps

Alone(x)     == Busy(x) /\ stands[x] # "close" /\ x \notin overlapped
Dedicated(x) == Kind(x) = "dedicated"

OwnedTypes ==
  /\ pref \in Kinds /\ saving \in {"no", "stop", "close", "done"}
  /\ made \in Seq(Kinds) /\ Len(made) <= MaxAdapters
  /\ {adapter, runtime} \subseteq Made \cup {0} /\ claimed \in BOOLEAN
  /\ on \in [Actors -> Made \cup {0}]
BrowserTypes ==
  /\ mcp \subseteq Made /\ inUse \subseteq Made
  /\ holder \in Made \cup {NoOwner, Human}
  /\ shown \in BOOLEAN /\ signedIn \subseteq Marked
  /\ auth \subseteq Marked /\ pending \subseteq Marked
WatchTypes ==
  /\ setup \in BOOLEAN
  /\ current \in Monitors \cup {NoMonitor} /\ stopped \subseteq Monitors
  /\ crossed \in BOOLEAN /\ disturbed \in BOOLEAN /\ overlapped \subseteq Actors
  /\ ops \in 0..MaxOps /\ mishaps \in 0..MaxMishaps
AllTypes ==
  /\ stands \in [Actors -> Positions] /\ got \in [Actors -> Statuses]
  /\ OwnedTypes /\ BrowserTypes /\ WatchTypes

\* An adapter that a thread works with, or that the runtime has, is the
\* supervisor's, or was dropped in use; the op's own is there while it works.
OwnInv ==
  /\ runtime \in {0, adapter} \cup inUse /\ (claimed => runtime # 0)
  /\ \A x \in Actors :
       /\ Busy(x) /\ stands[x] # "close" => on[x] # 0 /\ on[x] \in {adapter} \cup inUse
       /\ stands[x] = "wait" => on[x] # 0 /\ x \in Monitors
       /\ stands[x] \in {"close", "manual", "forget", "verify"} => x = "op"
  /\ Busy("op") /\ stands["op"] # "close" => adapter # 0
  /\ OnlyTheBridgeRuns

\* Who is not marked as overlapping works alone; a bridge that is closed then
\* was the one it works with.
AloneInv ==
  \A x \in Actors : Alone(x) =>
    /\ \A y \in Actors \ {x} : Busy(y) => stands[y] = "close"
    /\ stands["op"] = "close" => on[x] \in inUse

\* The backends whose checks come to each step.
KindInv ==
  \A x \in Actors :
    /\ stands[x] = "open" => ~Dedicated(x)
    /\ stands[x] \in {"clear", "launch", "popen", "forget"} => Dedicated(x)
    /\ stands[x] \in {"blocked", "mark"} => Kind(x) \in Marked

\* A thread alone that opens the window has ended its automation and left the
\* marker of a login under way.
OpeningInv ==
  \A x \in Actors : Alone(x) =>
    /\ stands[x] \in {"launch", "popen"} => "dedicated" \notin auth
    /\ stands[x] = "popen" =>
         "dedicated" \in pending /\ (on[x] \in mcp => disturbed \/ on[x] \in inUse)

\* A window that no other check crossed is known to be one, so no later check
\* gets past it.
WindowInv ==
  holder = Human /\ ~crossed =>
    /\ Waits("dedicated")
    /\ \A x \in Actors : Busy(x) /\ on[x] # 0 /\ Dedicated(x) =>
         /\ stands[x] \notin {"clear", "attach", "launch", "popen", "blocked", "mark", "forget"}
         /\ stands[x] = "pages" => disturbed \/ on[x] \in inUse

LoginInv ==
  LoginTypeOK /\ OwnInv /\ AloneInv /\ KindInv /\ OpeningInv /\ WindowInv /\ LoginIsPlain

-----------------------------------------------------------------------------
(* Actors and adapters *)

\* Three sorts of threads.
LEMMA ActorIs ==
  /\ "op" \in Actors /\ "chat" \in Actors /\ Monitors \subseteq Actors
  /\ "op" \notin Monitors /\ "chat" \notin Monitors
  BY LoginAssumption DEF Actors

\* An adapter is neither nobody nor the human, and has a kind.
LEMMA AdapterIs ==
  ASSUME LoginTypeOK
  PROVE  /\ Made = 1..Len(made) /\ Len(made) \in Nat /\ Len(made) <= MaxAdapters
         /\ 0 \notin Made /\ Human \notin Made /\ Human # NoOwner
         /\ \A a \in Made : a \in Nat /\ made[a] \in Kinds
<1> USE LoginAssumption DEF LoginTypeOK, Made, Human, NoOwner
<1>1. made \in Seq(Kinds) /\ Len(made) <= MaxAdapters
  OBVIOUS
<1>2. Made = 1..Len(made) /\ Len(made) \in Nat
  OBVIOUS
<1>3. \A a \in Made : made[a] \in Kinds
  OBVIOUS
<1> QED BY <1>1, <1>2, <1>3

\* Faults and operations are counted.
LEMMA CountIs ==
  ASSUME LoginTypeOK
  PROVE  /\ Mishap => mishaps' \in 0..MaxMishaps
         /\ NoMishap => mishaps' \in 0..MaxMishaps
         /\ ops < MaxOps /\ ops' = ops + 1 => ops' \in 0..MaxOps
  BY LoginAssumption DEF LoginTypeOK, Mishap, NoMishap

\* What a thread's step makes of its place and its status.
LEMMA StepIs ==
  ASSUME LoginTypeOK, NEW x \in Actors
  PROVE  /\ \A step \in Positions : Go(x, step) =>
              stands' \in [Actors -> Positions] /\ got' \in [Actors -> Statuses]
         /\ \A s \in Statuses : Finds(x, s) =>
              stands' \in [Actors -> Positions] /\ got' \in [Actors -> Statuses]
         /\ Rests(x) =>
              /\ stands' \in [Actors -> Positions] /\ got' \in [Actors -> Statuses]
              /\ on' \in [Actors -> Made \cup {0}] /\ overlapped' \subseteq Actors
<1> USE DEF LoginTypeOK, Positions
<1>1. \A step \in Positions : Go(x, step) =>
        stands' \in [Actors -> Positions] /\ got' \in [Actors -> Statuses]
  BY DEF Go
<1>2. "done" \in Positions /\ "idle" \in Positions /\ "none" \in Statuses
  BY DEF Statuses
<1>3. \A s \in Statuses : Finds(x, s) =>
        stands' \in [Actors -> Positions] /\ got' \in [Actors -> Statuses]
  BY DEF Finds
<1>4. Rests(x) =>
        /\ stands' \in [Actors -> Positions] /\ got' \in [Actors -> Statuses]
        /\ on' \in [Actors -> Made \cup {0}] /\ overlapped' \subseteq Actors
  BY <1>2 DEF Rests
<1> QED BY <1>1, <1>3, <1>4

\* The types, by what steps change.
LEMMA TypesAre == LoginTypeOK <=> AllTypes
  BY DEF LoginTypeOK, AllTypes, Positions, OwnedTypes, BrowserTypes, WatchTypes

\* And in the next state.
LEMMA NextTypesAre == AllTypes' => LoginTypeOK'
  BY TypesAre, PTL

\* _shared_chat_adapter keeps the adapters made so far and gives one of the
\* preferred kind; one it drops has no child.
LEMMA ObtainIs ==
  ASSUME LoginTypeOK, Obtain, pref' = pref
  PROVE  /\ made' \in Seq(Kinds) /\ Len(made') <= MaxAdapters /\ Made \subseteq DOMAIN made'
         /\ \A a \in Made : made'[a] = made[a]
         /\ adapter' \in DOMAIN made' /\ adapter' # 0 /\ made'[adapter'] = pref
         /\ mcp' \subseteq mcp /\ inUse \subseteq inUse' /\ inUse' \subseteq Made
         /\ holder' = holder \/ holder' = NoOwner
         /\ holder' # holder /\ holder \notin mcp =>
              OwnsProfile(adapter) /\ adapter' \notin {0, adapter}
         /\ adapter' = adapter \/
              (adapter \notin mcp' /\ (adapter # 0 /\ Using(adapter) => adapter \in inUse'))
<1>1. CASE Reuse /\ UNCHANGED <<made, adapter, mcp, holder, inUse>>
  BY <1>1, AdapterIs DEF LoginTypeOK, Reuse
<1>2. CASE Replace
  <2>1. made' = Append(made, pref) /\ pref \in Kinds /\ made \in Seq(Kinds)
    BY <1>2 DEF Replace, LoginTypeOK
  <2>2. made' \in Seq(Kinds) /\ Len(made') = Len(made) + 1
    BY <2>1
  <2>3. DOMAIN made' = 1..(Len(made) + 1)
    BY <2>2
  <2>4. \A a \in Made : made'[a] = made[a]
    BY <2>1, AdapterIs
  <2>5. made'[Len(made) + 1] = pref
    BY <2>1
  <2> QED
    <3>1. \/ OwnsProfile(adapter) /\ mcp' = mcp \ {adapter} /\ holder' = NoOwner
          \/ Ends({adapter})
      BY <1>2 DEF Replace, CloseAdapter
    <3>2. mcp' \subseteq mcp /\ adapter \notin mcp' /\ (holder' = holder \/ holder' = NoOwner)
      BY <3>1 DEF Ends
    <3>3. adapter' \in DOMAIN made' /\ adapter' \notin {0, adapter}
      BY <1>2, <2>3, AdapterIs DEF Replace, LoginTypeOK
    <3>4. holder' # holder /\ holder \notin mcp => OwnsProfile(adapter)
      BY <3>1 DEF Ends
    <3>5. inUse \subseteq inUse' /\ inUse' \subseteq Made
      BY <1>2, AdapterIs DEF Replace, Drop, LoginTypeOK
    <3>6. adapter # 0 /\ Using(adapter) => adapter \in inUse'
      BY <1>2 DEF Replace, Drop
    <3>7. made'[adapter'] = pref /\ adapter' # 0
      BY <1>2, <2>5, <3>3 DEF Replace
    <3>8. Len(made') <= MaxAdapters /\ Made \subseteq DOMAIN made'
      BY <1>2, <2>2, <2>3, AdapterIs, LoginAssumption DEF Replace
    <3> QED
      BY <2>2, <2>4, <3>2, <3>3, <3>4, <3>5, <3>6, <3>7, <3>8
<1> QED BY <1>1, <1>2 DEF Obtain

-----------------------------------------------------------------------------
(* The steps *)

\* The adapter is started, or its start fails.
LEMMA OpenKeeps ==
  ASSUME LoginInv, NEW x \in Actors, Open(x)
  PROVE  LoginInv'
<1>1. LoginTypeOK'
  <2>1. stands' \in [Actors -> Positions] /\ got' \in [Actors -> Statuses]
    BY StepIs DEF LoginInv, Positions, CheckSteps, Statuses, Open
  <2>2. OwnedTypes'
    BY DEF LoginInv, LoginTypeOK, OwnedTypes, OwnInv, Made, Busy, Open, StandsAt, Go,
        Finds, owned
  <2>3. BrowserTypes'
    BY DEF LoginInv, LoginTypeOK, BrowserTypes, OwnInv, KindInv, Dedicated, Kind, Made,
        Busy, Open, StandsAt, Run, owned, markers, history
  <2>4. WatchTypes'
    BY StepIs, ActorIs, CountIs DEF LoginInv, LoginTypeOK, WatchTypes, Made, Open,
        StandsAt, watch, history
  <2> QED BY <2>1, <2>2, <2>3, <2>4, NextTypesAre DEF AllTypes
<1>2. OwnInv'
  BY ActorIs DEF LoginInv, LoginTypeOK, OwnInv, OnlyTheBridgeRuns, Busy, Open, StandsAt,
      Go, Finds, Reads, Run, Reaches, owned, history
<1>3. AloneInv'
  BY ActorIs, AdapterIs DEF LoginInv, LoginTypeOK, OwnInv, AloneInv, Alone, Busy, Open,
      StandsAt, Go, Finds, Reads, Run, Reaches, owned, history
<1>4. KindInv'
  BY AdapterIs DEF LoginInv, LoginTypeOK, OwnInv, KindInv, Dedicated, Kind, Busy, Open,
      StandsAt, Go, Finds, owned
<1>5. OpeningInv'
  BY DEF LoginInv, LoginTypeOK, AloneInv, KindInv, OpeningInv, Alone, Busy, Dedicated,
      Open, StandsAt, Go, Finds, owned, history
<1>6. WindowInv'
  BY <1>1, ActorIs, AdapterIs DEF LoginInv, LoginTypeOK, OwnInv, AloneInv, KindInv,
      OpeningInv, WindowInv, LoginIsPlain, Alone, Busy, Dedicated, Kind, Waits, Open,
      StandsAt, Go, Finds, Reads, Run, Mishap, NoMishap, Reaches, owned, browser, markers,
      threads, watch, history
<1>7. LoginIsPlain'
  BY DEF LoginInv, KindInv, LoginIsPlain, Dedicated, Kind, Open, StandsAt, Run, owned,
      history
<1> QED
  BY <1>1, <1>2, <1>3, <1>4, <1>5, <1>6, <1>7 DEF LoginInv

\* A check finds out whether to attach or to open a window.
LEMMA CheckKeeps ==
  ASSUME LoginInv, NEW x \in Actors, Check(x)
  PROVE  LoginInv'
<1>1. LoginTypeOK'
  <2>1. stands' \in [Actors -> Positions] /\ got' \in [Actors -> Statuses]
    BY StepIs DEF LoginInv, Positions, CheckSteps, Statuses, Check, Known
  <2>2. OwnedTypes'
    BY DEF LoginInv, LoginTypeOK, OwnedTypes, OwnInv, Made, Busy, Check, StandsAt, Go,
        Finds, Known, owned
  <2>3. BrowserTypes'
    BY DEF LoginInv, LoginTypeOK, BrowserTypes, KindInv, Dedicated, Kind, Made, Check,
        StandsAt, owned, browser, markers, history
  <2>4. WatchTypes'
    BY StepIs DEF LoginInv, LoginTypeOK, WatchTypes, Check, StandsAt, watch, history
  <2> QED BY <2>1, <2>2, <2>3, <2>4, NextTypesAre DEF AllTypes
<1>2. OwnInv'
  BY ActorIs DEF LoginInv, LoginTypeOK, OwnInv, OnlyTheBridgeRuns, Busy, Check, StandsAt,
      Go, Finds, Known, owned, browser, history
<1>3. AloneInv'
  BY ActorIs, AdapterIs DEF LoginInv, LoginTypeOK, OwnInv, AloneInv, Alone, Busy, Check,
      StandsAt, Go, Finds, Known, owned, browser, history
<1>4. KindInv'
  BY AdapterIs DEF LoginInv, LoginTypeOK, OwnInv, KindInv, Dedicated, Kind, Busy, Check,
      StandsAt, Go, Finds, Known, owned
<1>5. OpeningInv'
  BY DEF LoginInv, LoginTypeOK, OwnInv, AloneInv, KindInv, OpeningInv, Alone, Busy,
      Dedicated, Check, StandsAt, Go, Finds, Known, owned, markers, history
<1>6. WindowInv'
  BY AdapterIs DEF LoginInv, LoginTypeOK, OwnInv, AloneInv, KindInv, OpeningInv,
      WindowInv, LoginIsPlain, Busy, Dedicated, Kind, Waits, Check, StandsAt, Go, Finds,
      owned, browser, markers, history
<1>7. LoginIsPlain'
  BY DEF LoginInv, LoginIsPlain, Check, owned, browser, history
<1> QED
  BY <1>1, <1>2, <1>3, <1>4, <1>5, <1>6, <1>7 DEF LoginInv

\* What a crash left on the profile is ended.
LEMMA ClearKeeps ==
  ASSUME LoginInv, NEW x \in Actors, Clear(x)
  PROVE  LoginInv'
<1>1. LoginTypeOK'
  <2>1. stands' \in [Actors -> Positions] /\ got' \in [Actors -> Statuses]
    BY StepIs DEF LoginInv, Positions, CheckSteps, Clear, Known
  <2>2. OwnedTypes'
    BY CountIs DEF LoginInv, LoginTypeOK, OwnedTypes, OwnInv, Made, Clear, StandsAt,
        Known, owned
  <2>3. BrowserTypes'
    BY DEF LoginInv, LoginTypeOK, BrowserTypes, KindInv, Dedicated, Kind, Made, Clear,
        StandsAt, ProfileEnds, owned, markers, history
  <2>4. WatchTypes'
    BY StepIs DEF LoginInv, LoginTypeOK, WatchTypes, Clear, StandsAt, ProfileEnds, watch,
        history
  <2> QED BY <2>1, <2>2, <2>3, <2>4, NextTypesAre DEF AllTypes
<1>2. OwnInv'
  BY DEF LoginInv, OwnInv, OnlyTheBridgeRuns, Busy, Clear, StandsAt, Go, Known,
      ProfileEnds, owned, history
<1>3. AloneInv'
  BY DEF LoginInv, LoginTypeOK, AloneInv, Alone, Busy, Clear, StandsAt, Go, Known,
      ProfileEnds, owned, history
<1>4. KindInv'
  BY DEF LoginInv, LoginTypeOK, KindInv, Dedicated, Kind, Busy, Clear, StandsAt, Go,
      Known, ProfileEnds, owned, history
<1>5. OpeningInv'
  BY DEF LoginInv, AloneInv, OpeningInv, Alone, Busy, Dedicated, Clear, StandsAt, Go,
      Known, ProfileEnds, owned, markers, history
<1>6. WindowInv'
  BY AdapterIs DEF LoginInv, AloneInv, WindowInv, Alone, Clear, ProfileEnds
<1>7. LoginIsPlain'
  BY AdapterIs DEF LoginInv, OpeningInv, LoginIsPlain, Clear, ProfileEnds
<1> QED
  BY <1>1, <1>2, <1>3, <1>4, <1>5, <1>6, <1>7 DEF LoginInv

\* Automation attaches to the profile, or gives up.
LEMMA AttachKeeps ==
  ASSUME LoginInv, NEW x \in Actors, Attach(x)
  PROVE  LoginInv'
<1>1. LoginTypeOK'
  <2>1. stands' \in [Actors -> Positions] /\ got' \in [Actors -> Statuses]
    BY StepIs DEF LoginInv, Positions, CheckSteps, Statuses, Attach
  <2>2. OwnedTypes'
    BY DEF LoginInv, LoginTypeOK, OwnedTypes, OwnInv, Made, Busy, Attach, StandsAt, Go,
        Finds, owned
  <2>3. BrowserTypes'
    BY DEF LoginInv, LoginTypeOK, BrowserTypes, OwnInv, KindInv, Dedicated, Kind, Made,
        Busy, Attach, StandsAt, Run, Ends, owned, markers, history
  <2>4. WatchTypes'
    BY StepIs, ActorIs, CountIs DEF LoginInv, LoginTypeOK, WatchTypes, Attach, StandsAt,
        watch, history
  <2> QED BY <2>1, <2>2, <2>3, <2>4, NextTypesAre DEF AllTypes
<1>2. OwnInv'
  BY ActorIs DEF LoginInv, LoginTypeOK, OwnInv, OnlyTheBridgeRuns, Busy, Attach, StandsAt,
      Go, Finds, Run, Ends, owned, history
<1>3. AloneInv'
  BY ActorIs, AdapterIs DEF LoginInv, LoginTypeOK, OwnInv, AloneInv, Alone, Busy, Attach,
      StandsAt, Go, Finds, Run, Ends, Reaches, owned, history
<1>4. KindInv'
  BY AdapterIs DEF LoginInv, LoginTypeOK, OwnInv, KindInv, Dedicated, Kind, Busy, Attach,
      StandsAt, Go, Finds, Reaches, owned
<1>5. OpeningInv'
  BY DEF LoginInv, LoginTypeOK, OwnInv, AloneInv, KindInv, OpeningInv, Alone, Busy,
      Dedicated, Attach, StandsAt, Go, Finds, owned, markers, history
<1>6. WindowInv'
  BY ActorIs, AdapterIs DEF LoginInv, LoginTypeOK, OwnInv, AloneInv, KindInv, OpeningInv,
      WindowInv, Alone, Busy, Dedicated, Kind, Waits, Attach, StandsAt, Go, Finds, Run,
      Ends, Mishap, NoMishap, owned, markers, history
<1>7. LoginIsPlain'
  BY AdapterIs DEF LoginInv, LoginTypeOK, OwnInv, LoginIsPlain, Busy, Kind, Attach,
      StandsAt, Run, Ends, owned, history
<1> QED
  BY <1>1, <1>2, <1>3, <1>4, <1>5, <1>6, <1>7 DEF LoginInv

\* The automation makes room for a login window.
LEMMA LaunchKeeps ==
  ASSUME LoginInv, NEW x \in Actors, Launch(x)
  PROVE  LoginInv'
<1>1. LoginTypeOK'
  <2>1. stands' \in [Actors -> Positions] /\ got' \in [Actors -> Statuses]
    BY StepIs DEF LoginInv, Positions, CheckSteps, Launch, Bootstrap
  <2>2. OwnedTypes'
    BY CountIs DEF LoginInv, LoginTypeOK, OwnedTypes, OwnInv, Made, Launch, StandsAt,
        Bootstrap, owned
  <2>3. BrowserTypes'
    BY DEF LoginInv, LoginTypeOK, BrowserTypes, KindInv, Dedicated, Kind, Marked, Made,
        Launch, StandsAt, Bootstrap, Ends, owned
  <2>4. WatchTypes'
    BY StepIs DEF LoginInv, LoginTypeOK, WatchTypes, Launch, StandsAt, Bootstrap, Ends,
        owned, watch
  <2> QED BY <2>1, <2>2, <2>3, <2>4, NextTypesAre DEF AllTypes
<1>2. OwnInv'
  BY DEF LoginInv, OwnInv, OnlyTheBridgeRuns, Busy, Launch, StandsAt, Go, Bootstrap, Ends,
      owned
<1>3. AloneInv'
  BY DEF LoginInv, LoginTypeOK, AloneInv, Alone, Busy, Launch, StandsAt, Go, Bootstrap,
      Ends, owned
<1>4. KindInv'
  BY DEF LoginInv, LoginTypeOK, KindInv, Dedicated, Kind, Busy, Launch, StandsAt, Go,
      Bootstrap, owned
<1>5. OpeningInv'
  BY DEF LoginInv, AloneInv, OpeningInv, Alone, Busy, Dedicated, Launch, StandsAt, Go,
      Bootstrap, Ends, owned
<1>6. WindowInv'
  BY AdapterIs DEF LoginInv, OwnInv, AloneInv, KindInv, WindowInv, Alone, Busy, Dedicated,
      Launch, StandsAt, Go, Bootstrap, Ends
<1>7. LoginIsPlain'
  BY AdapterIs DEF LoginInv, OwnInv, AloneInv, KindInv, OpeningInv, WindowInv,
      LoginIsPlain, Busy, Launch, StandsAt, Bootstrap, Ends
<1> QED
  BY <1>1, <1>2, <1>3, <1>4, <1>5, <1>6, <1>7 DEF LoginInv

\* The window opens, or Chrome refuses.
LEMMA PopenKeeps ==
  ASSUME LoginInv, NEW x \in Actors, Popen(x)
  PROVE  LoginInv'
<1>1. LoginTypeOK'
  <2>1. stands' \in [Actors -> Positions] /\ got' \in [Actors -> Statuses]
    BY StepIs DEF LoginInv, Statuses, Popen
  <2>2. OwnedTypes'
    BY DEF LoginInv, LoginTypeOK, OwnedTypes, Made, Popen, StandsAt, Finds, owned
  <2>3. BrowserTypes'
    BY DEF LoginInv, LoginTypeOK, BrowserTypes, KindInv, Dedicated, Kind, Made, Popen,
        StandsAt, owned, markers
  <2>4. WatchTypes'
    BY StepIs, CountIs DEF LoginInv, LoginTypeOK, WatchTypes, Popen, StandsAt, watch
  <2> QED BY <2>1, <2>2, <2>3, <2>4, NextTypesAre DEF AllTypes
<1>2. OwnInv'
  BY ActorIs DEF LoginInv, LoginTypeOK, OwnInv, OnlyTheBridgeRuns, Busy, Popen, StandsAt,
      Finds, owned
<1>3. AloneInv'
  BY ActorIs, AdapterIs DEF LoginInv, LoginTypeOK, OwnInv, AloneInv, Alone, Busy, Popen,
      StandsAt, Finds, owned
<1>4. KindInv'
  BY AdapterIs DEF LoginInv, LoginTypeOK, OwnInv, KindInv, Dedicated, Kind, Busy, Popen,
      StandsAt, Finds, owned
<1>5. OpeningInv'
  BY DEF LoginInv, LoginTypeOK, AloneInv, KindInv, OpeningInv, Alone, Busy, Dedicated,
      Popen, StandsAt, Finds, owned
<1>6. WindowInv'
  BY <1>1 DEF LoginInv, LoginTypeOK, OwnInv, AloneInv, KindInv, OpeningInv, WindowInv,
      Alone, Busy, Dedicated, Waits, Popen, StandsAt, Finds, Reads, Mishap, owned, markers
<1>7. LoginIsPlain'
  BY <1>1, AdapterIs DEF LoginInv, LoginTypeOK, OwnInv, OnlyTheBridgeRuns, AloneInv,
      KindInv, OpeningInv, WindowInv, LoginIsPlain, Alone, Busy, Popen, StandsAt
<1> QED
  BY <1>1, <1>2, <1>3, <1>4, <1>5, <1>6, <1>7 DEF LoginInv

\* The page is read.
LEMMA PagesKeeps ==
  ASSUME LoginInv, NEW x \in Actors, Pages(x)
  PROVE  LoginInv'
<1>1. LoginTypeOK'
  <2>1. stands' \in [Actors -> Positions] /\ got' \in [Actors -> Statuses]
    BY StepIs DEF LoginInv, Positions, CheckSteps, Statuses, Pages
  <2>2. OwnedTypes'
    BY DEF LoginInv, LoginTypeOK, OwnedTypes, OwnInv, Made, Busy, Pages, StandsAt, Go,
        Finds, owned
  <2>3. BrowserTypes'
    BY DEF LoginInv, LoginTypeOK, BrowserTypes, OwnInv, KindInv, Dedicated, Kind, Made,
        Busy, Pages, StandsAt, Run, owned, markers, history
  <2>4. WatchTypes'
    BY StepIs, ActorIs, CountIs DEF LoginInv, LoginTypeOK, WatchTypes, Made, Pages,
        StandsAt, watch, history
  <2> QED BY <2>1, <2>2, <2>3, <2>4, NextTypesAre DEF AllTypes
<1>2. OwnInv'
  BY ActorIs DEF LoginInv, LoginTypeOK, OwnInv, OnlyTheBridgeRuns, Busy, Pages, StandsAt,
      Go, Finds, Run, Reaches, owned, watch, history
<1>3. AloneInv'
  BY <1>1, ActorIs, AdapterIs DEF LoginInv, LoginTypeOK, OwnInv, AloneInv, Alone, Busy,
      Pages, StandsAt, Go, Finds, Reads, Run, Reaches, Mishap, NoMishap, owned, browser,
      markers, threads, watch, history
<1>4. KindInv'
  BY DEF LoginInv, LoginTypeOK, KindInv, Dedicated, Kind, Pages, StandsAt, Go, Finds,
      owned
<1>5. OpeningInv'
  BY <1>1, ActorIs, AdapterIs DEF LoginInv, LoginTypeOK, OwnInv, AloneInv, KindInv,
      OpeningInv, Alone, Busy, Dedicated, Kind, Pages, StandsAt, Go, Finds, Reads, Run,
      Reaches, Mishap, NoMishap, owned, browser, markers, threads, watch, history
<1>6. WindowInv'
  <2>1. holder' = Human => holder = Human
    BY AdapterIs DEF LoginInv, LoginTypeOK, OwnInv, Pages, Run, StandsAt, Busy
  <2>2. holder = Human /\ Dedicated(x) => ~ Reaches(on[x])
    BY AdapterIs DEF LoginInv, LoginTypeOK, Dedicated, Kind, Reaches
  <2>3. holder' = Human /\ Dedicated(x) => stands'[x] \notin
           {"clear", "attach", "launch", "popen", "blocked", "mark", "forget", "pages"}
    BY <2>1, <2>2 DEF LoginInv, LoginTypeOK, Pages, Go, Finds, Dedicated, Kind
  <2>4. \A y \in Actors \ {x} : stands'[y] = stands[y]
    BY DEF LoginInv, LoginTypeOK, Pages, Go, Finds
  <2> QED
    BY <2>1, <2>3, <2>4 DEF LoginInv, WindowInv, Pages, StandsAt, Waits, Busy, Dedicated,
        Kind, owned, markers, history
<1>7. LoginIsPlain'
  BY AdapterIs DEF LoginInv, LoginTypeOK, OwnInv, WindowInv, LoginIsPlain, Busy,
      Dedicated, Kind, Pages, StandsAt, Go, Finds, Reads, Run, Reaches, Mishap, NoMishap,
      owned, browser, markers, threads, watch, history
<1> QED
  BY <1>1, <1>2, <1>3, <1>4, <1>5, <1>6, <1>7 DEF LoginInv

\* The page asks for a login.
LEMMA BlockedKeeps ==
  ASSUME LoginInv, NEW x \in Actors, Blocked(x)
  PROVE  LoginInv'
<1>1. LoginTypeOK'
  <2>1. stands' \in [Actors -> Positions] /\ got' \in [Actors -> Statuses]
    BY StepIs DEF LoginInv, Positions, CheckSteps, Statuses, Blocked, Bootstrap
  <2>2. OwnedTypes'
    BY DEF LoginInv, LoginTypeOK, OwnedTypes, OwnInv, Made, Busy, Blocked, StandsAt, Go,
        Finds, Bootstrap, owned
  <2>3. BrowserTypes'
    BY DEF LoginInv, LoginTypeOK, BrowserTypes, KindInv, Dedicated, Kind, Marked, Made,
        Blocked, StandsAt, Bootstrap, Ends, owned
  <2>4. WatchTypes'
    BY StepIs DEF LoginInv, LoginTypeOK, WatchTypes, Blocked, StandsAt, Bootstrap, watch
  <2> QED BY <2>1, <2>2, <2>3, <2>4, NextTypesAre DEF AllTypes
<1>2. OwnInv'
  BY ActorIs DEF LoginInv, LoginTypeOK, OwnInv, OnlyTheBridgeRuns, Busy, Blocked,
      StandsAt, Go, Finds, Bootstrap, Ends, owned
<1>3. AloneInv'
  BY ActorIs, AdapterIs DEF LoginInv, LoginTypeOK, OwnInv, AloneInv, Alone, Busy, Blocked,
      StandsAt, Go, Finds, Bootstrap, Ends, owned
<1>4. KindInv'
  BY AdapterIs DEF LoginInv, LoginTypeOK, OwnInv, KindInv, Dedicated, Kind, Busy, Blocked,
      StandsAt, Go, Finds, Bootstrap, owned
<1>5. OpeningInv'
  BY DEF LoginInv, LoginTypeOK, AloneInv, KindInv, OpeningInv, Alone, Busy, Dedicated,
      Blocked, StandsAt, Go, Finds, Bootstrap, Ends, owned
<1>6. WindowInv'
  BY <1>1, ActorIs, AdapterIs DEF LoginInv, LoginTypeOK, OwnInv, AloneInv, KindInv,
      OpeningInv, WindowInv, LoginIsPlain, Alone, Busy, Dedicated, Kind, Waits, Blocked,
      StandsAt, Finds, Bootstrap, Ends, owned
<1>7. LoginIsPlain'
  BY AdapterIs DEF LoginInv, OwnInv, WindowInv, LoginIsPlain, Busy, Dedicated, Blocked,
      StandsAt, Bootstrap, Ends, owned
<1> QED
  BY <1>1, <1>2, <1>3, <1>4, <1>5, <1>6, <1>7 DEF LoginInv

\* The page is signed in.
LEMMA MarkKeeps ==
  ASSUME LoginInv, NEW x \in Actors, Mark(x)
  PROVE  LoginInv'
<1>1. LoginTypeOK'
  <2>1. stands' \in [Actors -> Positions] /\ got' \in [Actors -> Statuses]
    BY StepIs DEF LoginInv, Statuses, Mark
  <2>2. OwnedTypes'
    BY DEF LoginInv, LoginTypeOK, OwnedTypes, Made, Mark, StandsAt, Finds, owned
  <2>3. BrowserTypes'
    BY DEF LoginInv, LoginTypeOK, BrowserTypes, KindInv, Dedicated, Kind, Made, Mark,
        StandsAt, owned, browser, history
  <2>4. WatchTypes'
    BY StepIs, AdapterIs, CountIs DEF LoginInv, LoginTypeOK, WatchTypes, Mark, StandsAt,
        watch, history
  <2> QED BY <2>1, <2>2, <2>3, <2>4, NextTypesAre DEF AllTypes
<1>2. OwnInv'
  BY ActorIs DEF LoginInv, LoginTypeOK, OwnInv, OnlyTheBridgeRuns, Busy, Mark, StandsAt,
      Finds, owned, browser, history
<1>3. AloneInv'
  BY ActorIs, AdapterIs DEF LoginInv, LoginTypeOK, OwnInv, AloneInv, Alone, Busy, Mark,
      StandsAt, Finds, owned, browser, history
<1>4. KindInv'
  BY AdapterIs DEF LoginInv, LoginTypeOK, OwnInv, KindInv, Dedicated, Kind, Busy, Mark,
      StandsAt, Finds, owned
<1>5. OpeningInv'
  BY DEF LoginInv, LoginTypeOK, AloneInv, KindInv, OpeningInv, Alone, Busy, Dedicated,
      Mark, StandsAt, Finds, owned, history
<1>6. WindowInv'
  BY <1>1, ActorIs, AdapterIs DEF LoginInv, LoginTypeOK, OwnInv, AloneInv, KindInv,
      OpeningInv, WindowInv, LoginIsPlain, Alone, Busy, Dedicated, Kind, Waits, Mark,
      StandsAt, Finds, Reads, Mishap, NoMishap, owned, browser, markers, threads, watch,
      history
<1>7. LoginIsPlain'
  BY DEF LoginInv, LoginIsPlain, Mark, owned, browser, history
<1> QED
  BY <1>1, <1>2, <1>3, <1>4, <1>5, <1>6, <1>7 DEF LoginInv

\* The browser is closed for a manual login.
LEMMA ManualCloseKeeps ==
  ASSUME LoginInv, ManualClose
  PROVE  LoginInv'
<1>1. LoginTypeOK'
  <2>1. stands' \in [Actors -> Positions] /\ got' \in [Actors -> Statuses]
    BY StepIs, ActorIs DEF LoginInv, Positions, ManualSteps, Statuses, ManualClose
  <2>2. OwnedTypes'
    BY DEF LoginInv, LoginTypeOK, OwnedTypes, OwnInv, Made, Busy, ManualClose, StandsAt,
        Go, Finds, owned
  <2>3. BrowserTypes'
    BY DEF LoginInv, LoginTypeOK, BrowserTypes, KindInv, Dedicated, Kind, Made,
        ManualClose, StandsAt, ProfileEnds, owned, markers, history
  <2>4. WatchTypes'
    BY StepIs DEF LoginInv, LoginTypeOK, WatchTypes, ManualClose, StandsAt, ProfileEnds,
        watch, history
  <2> QED BY <2>1, <2>2, <2>3, <2>4, NextTypesAre DEF AllTypes
<1>2. OwnInv'
  BY DEF LoginInv, LoginTypeOK, OwnInv, OnlyTheBridgeRuns, Busy, ManualClose, StandsAt,
      Go, Finds, ProfileEnds, owned, history
<1>3. AloneInv'
  BY DEF LoginInv, LoginTypeOK, OwnInv, AloneInv, Alone, Busy, ManualClose, StandsAt, Go,
      Finds, ProfileEnds, owned, history
<1>4. KindInv'
  BY DEF LoginInv, LoginTypeOK, OwnInv, KindInv, Dedicated, Kind, Busy, ManualClose,
      StandsAt, Go, Finds, ProfileEnds, owned
<1>5. OpeningInv'
  BY ActorIs DEF LoginInv, LoginTypeOK, AloneInv, KindInv, OpeningInv, Alone, Busy,
      Dedicated, ManualClose, StandsAt, Go, Finds, ProfileEnds, owned, history
<1>6. WindowInv'
  BY AdapterIs DEF LoginInv, LoginTypeOK, AloneInv, KindInv, WindowInv, Alone, Busy,
      Dedicated, Kind, Waits, ManualClose, StandsAt, Finds, ProfileEnds, owned, markers,
      watch, history
<1>7. LoginIsPlain'
  BY AdapterIs DEF LoginInv, LoginIsPlain, ManualClose, ProfileEnds, owned, history
<1> QED
  BY <1>1, <1>2, <1>3, <1>4, <1>5, <1>6, <1>7 DEF LoginInv

\* The markers say that a login is under way.
LEMMA ManualForgetKeeps ==
  ASSUME LoginInv, ManualForget
  PROVE  LoginInv'
<1>1. LoginTypeOK'
  <2>1. stands' \in [Actors -> Positions] /\ got' \in [Actors -> Statuses]
    BY StepIs, ActorIs DEF LoginInv, Positions, CheckSteps, ManualForget, Bootstrap
  <2>2. OwnedTypes'
    BY CountIs DEF LoginInv, LoginTypeOK, OwnedTypes, OwnInv, Made, ManualForget,
        StandsAt, Bootstrap, owned
  <2>3. BrowserTypes'
    BY DEF LoginInv, LoginTypeOK, BrowserTypes, KindInv, Dedicated, Kind, Marked, Made,
        ManualForget, StandsAt, Bootstrap, Ends, owned
  <2>4. WatchTypes'
    BY StepIs DEF LoginInv, LoginTypeOK, WatchTypes, ManualForget, StandsAt, Bootstrap,
        Ends, owned, watch
  <2> QED BY <2>1, <2>2, <2>3, <2>4, NextTypesAre DEF AllTypes
<1>2. OwnInv'
  BY DEF LoginInv, OwnInv, OnlyTheBridgeRuns, Busy, ManualForget, StandsAt, Go, Bootstrap,
      Ends, owned
<1>3. AloneInv'
  BY DEF LoginInv, LoginTypeOK, AloneInv, Alone, Busy, ManualForget, StandsAt, Go,
      Bootstrap, Ends, owned
<1>4. KindInv'
  BY DEF LoginInv, LoginTypeOK, KindInv, Dedicated, Kind, Busy, ManualForget, StandsAt,
      Go, Bootstrap, owned
<1>5. OpeningInv'
  BY ActorIs DEF LoginInv, AloneInv, OpeningInv, Alone, Busy, Dedicated, ManualForget,
      StandsAt, Go, Bootstrap, Ends, owned
<1>6. WindowInv'
  BY ActorIs, AdapterIs DEF LoginInv, LoginTypeOK, OwnInv, AloneInv, KindInv, WindowInv,
      Alone, Busy, Dedicated, ManualForget, StandsAt, Bootstrap, Ends
<1>7. LoginIsPlain'
  BY ActorIs, AdapterIs DEF LoginInv, OwnInv, AloneInv, KindInv, OpeningInv, WindowInv,
      LoginIsPlain, Busy, ManualForget, StandsAt, Bootstrap, Ends
<1> QED
  BY <1>1, <1>2, <1>3, <1>4, <1>5, <1>6, <1>7 DEF LoginInv

\* The window is looked for.
LEMMA VerifyKeeps ==
  ASSUME LoginInv, Verify
  PROVE  LoginInv'
<1>1. LoginTypeOK'
  <2>1. stands' \in [Actors -> Positions] /\ got' \in [Actors -> Statuses]
    BY StepIs, ActorIs DEF LoginInv, Positions, CheckSteps, Statuses, Verify
  <2>2. OwnedTypes'
    BY DEF LoginInv, LoginTypeOK, OwnedTypes, OwnInv, Made, Busy, Verify, StandsAt, Go,
        Finds, owned
  <2>3. BrowserTypes'
    BY DEF LoginInv, LoginTypeOK, BrowserTypes, KindInv, Dedicated, Kind, Made, Verify,
        StandsAt, owned, browser, markers, history
  <2>4. WatchTypes'
    BY StepIs DEF LoginInv, LoginTypeOK, WatchTypes, Verify, StandsAt, watch, history
  <2> QED BY <2>1, <2>2, <2>3, <2>4, NextTypesAre DEF AllTypes
<1>2. OwnInv'
  BY DEF LoginInv, LoginTypeOK, OwnInv, OnlyTheBridgeRuns, Busy, Verify, StandsAt, Go,
      Finds, owned, browser, history
<1>3. AloneInv'
  <2>1. stands["op"] = "verify" /\ stands'["op"] \in {"health", "done"}
    BY ActorIs DEF LoginInv, LoginTypeOK, Verify, StandsAt, Go, Finds
  <2>2. \A y \in Actors \ {"op"} : stands'[y] = stands[y]
    BY DEF LoginInv, LoginTypeOK, Verify, StandsAt, Go, Finds
  <2>3. UNCHANGED <<overlapped, on, inUse>>
    BY DEF Verify, StandsAt, history
  <2> QED
    BY <2>1, <2>2, <2>3 DEF LoginInv, AloneInv, Alone, Busy
<1>4. KindInv'
  BY DEF LoginInv, LoginTypeOK, KindInv, Dedicated, Kind, Verify, StandsAt, Go, Finds,
      Reads, owned, markers, threads, watch, history
<1>5. OpeningInv'
  BY ActorIs DEF LoginInv, LoginTypeOK, AloneInv, KindInv, OpeningInv, Alone, Busy,
      Dedicated, Verify, StandsAt, Go, Finds, owned, history
<1>6. WindowInv'
  BY DEF LoginInv, LoginTypeOK, AloneInv, KindInv, WindowInv, Alone, Busy, Dedicated,
      Kind, Waits, Verify, StandsAt, Go, Finds, owned, browser, markers, history
<1>7. LoginIsPlain'
  BY DEF LoginInv, LoginIsPlain, Verify, owned, browser, history
<1> QED
  BY <1>1, <1>2, <1>3, <1>4, <1>5, <1>6, <1>7 DEF LoginInv

\* An operation begins, with the shared adapter.
LEMMA BeginKeeps ==
  ASSUME LoginInv, NEW steps, steps[pref] \in {"health", "open", "manual", "verify"},
         steps[pref] = "open" => pref # "dedicated",
         Begin(steps), setup' \in BOOLEAN
  PROVE  LoginInv'
<1>1. LoginTypeOK'
  <2>1. stands' \in [Actors -> Positions] /\ got' \in [Actors -> Statuses]
    BY StepIs, ActorIs DEF LoginInv, Positions, CheckSteps, ManualSteps, Begin
  <2>2. OwnedTypes'
    BY ObtainIs, CountIs DEF LoginInv, LoginTypeOK, OwnedTypes, OwnInv, Made, Busy, Begin,
        Go
  <2>3. BrowserTypes'
    BY ObtainIs DEF LoginInv, LoginTypeOK, BrowserTypes, KindInv, Dedicated, Kind, Made,
        Begin, markers
  <2>4. WatchTypes'
    BY StepIs, ActorIs, CountIs DEF LoginInv, LoginTypeOK, WatchTypes, Begin, Starts,
        watch
  <2> QED BY <2>1, <2>2, <2>3, <2>4, NextTypesAre DEF AllTypes
<1>2. OwnInv'
  BY <1>1, ActorIs, AdapterIs, ObtainIs DEF LoginInv, LoginTypeOK, OwnInv,
      OnlyTheBridgeRuns, Busy, Begin, Go, Starts, Using, owned, browser, markers, threads,
      watch, history
<1>3. AloneInv'
  BY DEF AloneInv, Alone, Busy, Begin, Go, Starts
<1>4. KindInv'
  <2>1. on'["op"] = adapter' /\ made'[adapter'] = pref /\ stands'["op"] = steps[pref]
    BY ActorIs, ObtainIs DEF LoginInv, LoginTypeOK, Begin, Go
  <2>2. \A y \in Actors \ {"op"} : stands'[y] = stands[y] /\ on'[y] = on[y]
    BY DEF LoginInv, LoginTypeOK, Begin, Go
  <2>3. \A y \in Actors : on[y] \in Made => made'[on[y]] = made[on[y]]
    BY ObtainIs DEF LoginInv, Begin
  <2>4. \A y \in Actors :
          Busy(y) /\ stands[y] # "close" => on[y] \in Made
    BY DEF LoginInv, LoginTypeOK, OwnInv
  <2> QED
    BY <2>1, <2>2, <2>3, <2>4 DEF LoginInv, KindInv, Dedicated, Kind, Busy, Marked
<1>5. OpeningInv'
  BY DEF OpeningInv, Alone, Busy, Begin, Go, Starts, Using, owned, browser, markers,
      threads, watch
<1>6. WindowInv'
  BY AdapterIs, ObtainIs DEF LoginInv, LoginTypeOK, WindowInv, Busy, Dedicated, Kind,
      Waits, Begin, Go, markers, watch
<1>7. LoginIsPlain'
  BY AdapterIs, ObtainIs DEF LoginInv, LoginTypeOK, OpeningInv, LoginIsPlain, Begin
<1> QED
  BY <1>1, <1>2, <1>3, <1>4, <1>5, <1>6, <1>7 DEF LoginInv

\* An operation returns, and a monitor may start.
LEMMA OpDoneKeeps ==
  ASSUME LoginInv, OpDone
  PROVE  LoginInv'
<1>1. LoginTypeOK'
  <2>1. stands' \in [Actors -> Positions] /\ got' \in [Actors -> Statuses]
    BY StepIs, ActorIs DEF LoginInv, LoginTypeOK, Positions, Statuses, OpDone
  <2>2. OwnedTypes'
    BY CountIs DEF LoginInv, LoginTypeOK, OwnedTypes, OwnInv, Made, OpDone, Rests, owned
  <2>3. BrowserTypes'
    BY DEF LoginInv, LoginTypeOK, BrowserTypes, KindInv, Dedicated, Kind, Made, OpDone,
        owned, browser, markers
  <2>4. WatchTypes'
    <3>1. CASE setup /\ got["op"] = "waiting_user" /\ ~Alive(current)
      BY <3>1 DEF LoginInv, LoginTypeOK, WatchTypes, OpDone
    <3>2. CASE ~setup \/ got["op"] # "waiting_user" \/ Alive(current)
      BY StepIs, ActorIs DEF LoginInv, LoginTypeOK, WatchTypes, OpDone, watch
    <3> QED BY <3>1, <3>2
  <2> QED BY <2>1, <2>2, <2>3, <2>4, NextTypesAre DEF AllTypes
<1>2. OwnInv'
  BY DEF LoginInv, LoginTypeOK, OwnInv, OnlyTheBridgeRuns, Busy, OpDone, Rests, owned,
      browser
<1>3. AloneInv'
  BY <1>1 DEF LoginInv, LoginTypeOK, OwnInv, AloneInv, Alone, Busy, OpDone, Rests, owned,
      browser
<1>4. KindInv'
  BY ActorIs DEF LoginInv, LoginTypeOK, OwnInv, KindInv, Dedicated, Kind, Busy, OpDone,
      Rests, owned
<1>5. OpeningInv'
  BY <1>1 DEF LoginInv, LoginTypeOK, AloneInv, KindInv, OpeningInv, Alone, Busy,
      Dedicated, Kind, OpDone, Rests, owned
<1>6. WindowInv'
  BY DEF LoginInv, LoginTypeOK, AloneInv, KindInv, WindowInv, LoginIsPlain, Alone, Busy,
      Dedicated, Kind, Waits, OpDone, Rests, owned, browser, markers
<1>7. LoginIsPlain'
  BY DEF LoginInv, LoginTypeOK, LoginIsPlain, OpDone, owned, browser
<1> QED
  BY <1>1, <1>2, <1>3, <1>4, <1>5, <1>6, <1>7 DEF LoginInv

\* The bridge is taken away.
LEMMA BeginCloseKeeps ==
  ASSUME LoginInv, BeginClose
  PROVE  LoginInv'
<1>1. LoginTypeOK'
  <2>1. stands' \in [Actors -> Positions] /\ got' \in [Actors -> Statuses]
    BY StepIs, ActorIs DEF LoginInv, Positions, BeginClose
  <2>2. OwnedTypes'
    BY CountIs DEF LoginInv, LoginTypeOK, OwnedTypes, OwnInv, Made, BeginClose, Go
  <2>3. BrowserTypes'
    BY DEF LoginInv, LoginTypeOK, BrowserTypes, KindInv, Dedicated, Kind, Made,
        BeginClose, Drop, browser, markers
  <2>4. WatchTypes'
    BY StepIs, CountIs DEF LoginInv, LoginTypeOK, WatchTypes, BeginClose, Drop, browser,
        markers
  <2> QED BY <2>1, <2>2, <2>3, <2>4, NextTypesAre DEF AllTypes
<1>2. OwnInv'
  BY <1>1 DEF LoginInv, LoginTypeOK, OwnInv, OnlyTheBridgeRuns, Busy, BeginClose, Go,
      Drop, Using, browser
<1>3. AloneInv'
  BY ActorIs DEF LoginInv, LoginTypeOK, OwnInv, AloneInv, Alone, Busy, BeginClose, Go,
      Drop, Using, browser
<1>4. KindInv'
  BY DEF LoginInv, LoginTypeOK, KindInv, Dedicated, Kind, Busy, BeginClose, Go, Drop,
      Using
<1>5. OpeningInv'
  BY DEF LoginInv, OwnInv, AloneInv, OpeningInv, Alone, Busy, Dedicated, BeginClose, Go,
      Drop, Using, markers
<1>6. WindowInv'
  BY DEF LoginInv, AloneInv, OpeningInv, WindowInv, Alone, Busy, Dedicated, Kind, Waits,
      BeginClose, Go, Drop, Using, browser, markers
<1>7. LoginIsPlain'
  BY DEF LoginInv, LoginIsPlain, BeginClose, Drop, browser
<1> QED
  BY <1>1, <1>2, <1>3, <1>4, <1>5, <1>6, <1>7 DEF LoginInv

\* The bridge is closed.
LEMMA CloseKeeps ==
  ASSUME LoginInv, Close
  PROVE  LoginInv'
<1>1. LoginTypeOK'
  <2>1. stands' \in [Actors -> Positions] /\ got' \in [Actors -> Statuses]
    BY StepIs, ActorIs DEF LoginInv, Close
  <2>2. OwnedTypes'
    BY CountIs DEF LoginInv, LoginTypeOK, OwnedTypes, Made, Close, Rests, owned
  <2>3. BrowserTypes'
    BY DEF LoginInv, LoginTypeOK, BrowserTypes, KindInv, Dedicated, Kind, Made, Close,
        CloseAdapter, Ends, owned, markers
  <2>4. WatchTypes'
    BY StepIs, ActorIs DEF LoginInv, LoginTypeOK, WatchTypes, Close, CloseAdapter, Ends,
        owned, markers
  <2> QED BY <2>1, <2>2, <2>3, <2>4, NextTypesAre DEF AllTypes
<1>2. OwnInv'
  BY <1>1, ActorIs DEF LoginInv, OwnInv, OnlyTheBridgeRuns, Busy, Close, Rests,
      CloseAdapter, Ends, owned
<1>3. AloneInv'
  BY DEF LoginInv, LoginTypeOK, AloneInv, Alone, Busy, Close, Rests, CloseAdapter, Ends,
      owned
<1>4. KindInv'
  BY DEF LoginInv, LoginTypeOK, KindInv, Dedicated, Kind, Busy, Close, Rests, owned
<1>5. OpeningInv'
  BY DEF LoginInv, AloneInv, OpeningInv, Alone, Busy, Dedicated, Close, Rests, owned,
      markers
<1>6. WindowInv'
  BY AdapterIs DEF LoginInv, AloneInv, WindowInv, Alone, Busy, Dedicated, Kind, Waits,
      Close, Rests, CloseAdapter, Ends, owned, markers
<1>7. LoginIsPlain'
  BY AdapterIs DEF LoginInv, OpeningInv, LoginIsPlain, Close, CloseAdapter, Ends, owned
<1> QED
  BY <1>1, <1>2, <1>3, <1>4, <1>5, <1>6, <1>7 DEF LoginInv

\* Another backend is preferred.
LEMMA SavePreferenceKeeps ==
  ASSUME LoginInv, SavePreference
  PROVE  LoginInv'
<1>1. LoginTypeOK'
  <2>1. stands' \in [Actors -> Positions] /\ got' \in [Actors -> Statuses]
    BY DEF LoginInv, LoginTypeOK, Positions, SavePreference, threads
  <2>2. OwnedTypes'
    BY DEF LoginInv, LoginTypeOK, OwnedTypes, Made, SavePreference, threads
  <2>3. BrowserTypes'
    BY DEF LoginInv, LoginTypeOK, BrowserTypes, KindInv, Dedicated, Kind, Made,
        SavePreference, browser, markers, threads, history
  <2>4. WatchTypes'
    BY StepIs DEF LoginInv, LoginTypeOK, WatchTypes, SavePreference, threads, watch,
        history
  <2> QED BY <2>1, <2>2, <2>3, <2>4, NextTypesAre DEF AllTypes
<1>2. OwnInv'
  BY DEF LoginInv, OwnInv, OnlyTheBridgeRuns, Busy, SavePreference, browser, threads,
      history
<1>3. AloneInv'
  BY DEF LoginInv, LoginTypeOK, AloneInv, Alone, Busy, SavePreference, browser, threads,
      history
<1>4. KindInv'
  BY DEF LoginInv, LoginTypeOK, KindInv, Dedicated, Kind, Busy, SavePreference, threads,
      history
<1>5. OpeningInv'
  BY DEF LoginInv, AloneInv, OpeningInv, Alone, Busy, Dedicated, SavePreference, browser,
      markers, threads, history
<1>6. WindowInv'
  BY DEF LoginInv, AloneInv, WindowInv, Alone, Busy, Dedicated, Kind, Waits,
      SavePreference, browser, markers, threads, history
<1>7. LoginIsPlain'
  BY DEF LoginInv, LoginIsPlain, SavePreference, browser, history
<1> QED
  BY <1>1, <1>2, <1>3, <1>4, <1>5, <1>6, <1>7 DEF LoginInv

\* A runtime is built with the shared adapter.
LEMMA BuildRuntimeKeeps ==
  ASSUME LoginInv, BuildRuntime
  PROVE  LoginInv'
<1>1. LoginTypeOK'
  <2>1. stands' \in [Actors -> Positions] /\ got' \in [Actors -> Statuses]
    BY DEF LoginInv, LoginTypeOK, Positions, BuildRuntime, threads
  <2>2. OwnedTypes'
    BY ObtainIs DEF LoginInv, LoginTypeOK, OwnedTypes, Made, BuildRuntime, threads
  <2>3. BrowserTypes'
    BY ObtainIs DEF LoginInv, LoginTypeOK, BrowserTypes, KindInv, Dedicated, Kind, Made,
        BuildRuntime, markers, threads
  <2>4. WatchTypes'
    BY StepIs, ActorIs, CountIs DEF LoginInv, LoginTypeOK, WatchTypes, BuildRuntime,
        threads, watch
  <2> QED BY <2>1, <2>2, <2>3, <2>4, NextTypesAre DEF AllTypes
<1>2. OwnInv'
  BY ObtainIs DEF LoginInv, LoginTypeOK, OwnInv, OnlyTheBridgeRuns, Busy, BuildRuntime,
      Using, threads
<1>3. AloneInv'
  BY ObtainIs DEF LoginInv, LoginTypeOK, OwnInv, AloneInv, Alone, Busy, BuildRuntime,
      Using, threads
<1>4. KindInv'
  BY ObtainIs DEF LoginInv, LoginTypeOK, OwnInv, KindInv, Dedicated, Kind, Busy,
      BuildRuntime, threads
<1>5. OpeningInv'
  BY ObtainIs DEF LoginInv, OwnInv, AloneInv, KindInv, OpeningInv, Alone, Busy, Dedicated,
      Kind, BuildRuntime, markers, threads
<1>6. WindowInv'
  BY AdapterIs, ObtainIs DEF LoginInv, LoginTypeOK, OwnInv, AloneInv, WindowInv, Alone,
      Busy, Dedicated, Kind, Waits, BuildRuntime, markers, threads
<1>7. LoginIsPlain'
  BY AdapterIs, ObtainIs DEF LoginInv, LoginTypeOK, LoginIsPlain, BuildRuntime
<1> QED
  BY <1>1, <1>2, <1>3, <1>4, <1>5, <1>6, <1>7 DEF LoginInv

\* The runtime is the supervisor's.
LEMMA ClaimRuntimeKeeps ==
  ASSUME LoginInv, ClaimRuntime
  PROVE  LoginInv'
<1>1. LoginTypeOK'
  <2>1. stands' \in [Actors -> Positions] /\ got' \in [Actors -> Statuses]
    BY DEF LoginInv, LoginTypeOK, Positions, ClaimRuntime, threads
  <2>2. OwnedTypes'
    BY DEF LoginInv, LoginTypeOK, OwnedTypes, Made, ClaimRuntime, threads
  <2>3. BrowserTypes'
    BY DEF LoginInv, LoginTypeOK, BrowserTypes, KindInv, Dedicated, Kind, Made,
        ClaimRuntime, browser, markers, threads, history
  <2>4. WatchTypes'
    BY StepIs DEF LoginInv, LoginTypeOK, WatchTypes, ClaimRuntime, threads, watch, history
  <2> QED BY <2>1, <2>2, <2>3, <2>4, NextTypesAre DEF AllTypes
<1>2. OwnInv'
  BY DEF LoginInv, OwnInv, OnlyTheBridgeRuns, Busy, ClaimRuntime, browser, threads,
      history
<1>3. AloneInv'
  BY DEF LoginInv, LoginTypeOK, AloneInv, Alone, Busy, ClaimRuntime, browser, threads,
      history
<1>4. KindInv'
  BY DEF LoginInv, LoginTypeOK, KindInv, Dedicated, Kind, Busy, ClaimRuntime, threads,
      history
<1>5. OpeningInv'
  BY DEF LoginInv, AloneInv, OpeningInv, Alone, Busy, Dedicated, ClaimRuntime, browser,
      markers, threads, history
<1>6. WindowInv'
  BY DEF LoginInv, AloneInv, WindowInv, Alone, Busy, Dedicated, Kind, Waits, ClaimRuntime,
      browser, markers, threads, history
<1>7. LoginIsPlain'
  BY DEF LoginInv, LoginIsPlain, ClaimRuntime, browser, history
<1> QED
  BY <1>1, <1>2, <1>3, <1>4, <1>5, <1>6, <1>7 DEF LoginInv

\* The runtime is stopped.
LEMMA StopRuntimeKeeps ==
  ASSUME LoginInv, StopRuntime
  PROVE  LoginInv'
<1>1. LoginTypeOK'
  <2>1. stands' \in [Actors -> Positions] /\ got' \in [Actors -> Statuses]
    BY DEF LoginInv, LoginTypeOK, Positions, StopRuntime, threads
  <2>2. OwnedTypes'
    BY DEF LoginInv, LoginTypeOK, OwnedTypes, Made, StopRuntime, threads
  <2>3. BrowserTypes'
    BY DEF LoginInv, LoginTypeOK, BrowserTypes, KindInv, Dedicated, Kind, Made,
        StopRuntime, browser, markers, threads, history
  <2>4. WatchTypes'
    BY StepIs DEF LoginInv, LoginTypeOK, WatchTypes, StopRuntime, browser, markers,
        threads, watch, history
  <2> QED BY <2>1, <2>2, <2>3, <2>4, NextTypesAre DEF AllTypes
<1>2. OwnInv'
  BY DEF LoginInv, OwnInv, OnlyTheBridgeRuns, Busy, StopRuntime, browser, threads, history
<1>3. AloneInv'
  BY DEF LoginInv, LoginTypeOK, AloneInv, Alone, Busy, StopRuntime, browser, threads,
      history
<1>4. KindInv'
  BY DEF LoginInv, LoginTypeOK, KindInv, Dedicated, Kind, Busy, StopRuntime, threads,
      history
<1>5. OpeningInv'
  BY DEF LoginInv, AloneInv, OpeningInv, Alone, Busy, Dedicated, StopRuntime, browser,
      markers, threads, history
<1>6. WindowInv'
  BY DEF LoginInv, AloneInv, WindowInv, Alone, Busy, Dedicated, Kind, Waits, StopRuntime,
      browser, markers, threads, history
<1>7. LoginIsPlain'
  BY DEF LoginInv, LoginIsPlain, StopRuntime, browser, history
<1> QED
  BY <1>1, <1>2, <1>3, <1>4, <1>5, <1>6, <1>7 DEF LoginInv

\* A prompt uses the browser.
LEMMA ChatUsesKeeps ==
  ASSUME LoginInv, ChatUses
  PROVE  LoginInv'
<1>1. LoginTypeOK'
  <2>1. stands' \in [Actors -> Positions] /\ got' \in [Actors -> Statuses]
    BY DEF LoginInv, LoginTypeOK, Positions, ChatUses, threads
  <2>2. OwnedTypes'
    BY DEF LoginInv, LoginTypeOK, OwnedTypes, Made, ChatUses, owned, threads
  <2>3. BrowserTypes'
    BY DEF LoginInv, LoginTypeOK, BrowserTypes, OwnInv, KindInv, Dedicated, Kind, Made,
        ChatUses, Run, owned, markers, threads
  <2>4. WatchTypes'
    BY StepIs, ActorIs DEF LoginInv, LoginTypeOK, WatchTypes, ChatUses, Run, owned,
        threads, watch
  <2> QED BY <2>1, <2>2, <2>3, <2>4, NextTypesAre DEF AllTypes
<1>2. OwnInv'
  BY DEF LoginInv, OwnInv, OnlyTheBridgeRuns, Busy, ChatUses, Run, owned, threads
<1>3. AloneInv'
  BY DEF LoginInv, LoginTypeOK, AloneInv, Alone, Busy, ChatUses, Run, owned, threads
<1>4. KindInv'
  BY DEF LoginInv, LoginTypeOK, KindInv, Dedicated, Kind, Busy, ChatUses, owned, threads
<1>5. OpeningInv'
  BY DEF LoginInv, AloneInv, OpeningInv, Alone, Busy, Dedicated, ChatUses, Opening, owned,
      markers, threads
<1>6. WindowInv'
  BY AdapterIs DEF LoginInv, LoginTypeOK, OwnInv, AloneInv, WindowInv, Alone, Busy,
      Dedicated, Kind, Waits, ChatUses, Run, Opening, owned, markers, threads
<1>7. LoginIsPlain'
  <2>1. holder' = Human => disturbed' \/ holder # Human
    BY DEF ChatUses
  <2>2. holder' = Human => holder = Human
    BY AdapterIs DEF LoginInv, LoginTypeOK, OwnInv, ChatUses, Run
  <2> QED
    BY <2>1, <2>2 DEF LoginIsPlain
<1> QED
  BY <1>1, <1>2, <1>3, <1>4, <1>5, <1>6, <1>7 DEF LoginInv

\* A command of a chat checks the browser.
LEMMA ChatChecksKeeps ==
  ASSUME LoginInv, ChatChecks
  PROVE  LoginInv'
<1>1. LoginTypeOK'
  <2>1. stands' \in [Actors -> Positions] /\ got' \in [Actors -> Statuses]
    BY StepIs, ActorIs DEF LoginInv, Positions, CheckSteps, ChatChecks
  <2>2. OwnedTypes'
    BY CountIs DEF LoginInv, LoginTypeOK, OwnedTypes, OwnInv, Made, ChatChecks, Go, owned
  <2>3. BrowserTypes'
    BY DEF LoginInv, LoginTypeOK, BrowserTypes, KindInv, Dedicated, Kind, Made,
        ChatChecks, owned, browser, markers
  <2>4. WatchTypes'
    BY StepIs, ActorIs DEF LoginInv, LoginTypeOK, WatchTypes, ChatChecks, Starts, owned,
        browser, markers, watch
  <2> QED BY <2>1, <2>2, <2>3, <2>4, NextTypesAre DEF AllTypes
<1>2. OwnInv'
  BY DEF LoginInv, LoginTypeOK, OwnInv, OnlyTheBridgeRuns, Busy, ChatChecks, Go, owned,
      browser
<1>3. AloneInv'
  BY ActorIs DEF LoginTypeOK, OwnInv, AloneInv, Alone, Busy, ChatChecks, Go, Starts,
      owned, browser
<1>4. KindInv'
  BY AdapterIs DEF LoginInv, KindInv, Dedicated, Kind, Busy, ChatChecks, Go, Starts, owned
<1>5. OpeningInv'
  BY DEF AloneInv, OpeningInv, Alone, Busy, Dedicated, ChatChecks, Go, Starts, owned
<1>6. WindowInv'
  BY DEF LoginInv, WindowInv, Alone, Busy, Dedicated, Kind, Waits, ChatChecks, Go, Starts,
      owned, browser, markers
<1>7. LoginIsPlain'
  BY DEF LoginInv, LoginIsPlain, ChatChecks, owned, browser
<1> QED
  BY <1>1, <1>2, <1>3, <1>4, <1>5, <1>6, <1>7 DEF LoginInv

\* The command returns.
LEMMA ChatDoneKeeps ==
  ASSUME LoginInv, ChatDone
  PROVE  LoginInv'
<1>1. LoginTypeOK'
  <2>1. stands' \in [Actors -> Positions] /\ got' \in [Actors -> Statuses]
    BY StepIs, ActorIs DEF LoginInv, ChatDone
  <2>2. OwnedTypes'
    BY CountIs DEF LoginInv, LoginTypeOK, OwnedTypes, Made, ChatDone, Rests, owned
  <2>3. BrowserTypes'
    BY DEF LoginInv, LoginTypeOK, BrowserTypes, KindInv, Dedicated, Kind, Made, ChatDone,
        owned, browser, markers
  <2>4. WatchTypes'
    BY StepIs, ActorIs DEF LoginInv, LoginTypeOK, WatchTypes, ChatDone, owned, browser,
        markers, watch
  <2> QED BY <2>1, <2>2, <2>3, <2>4, NextTypesAre DEF AllTypes
<1>2. OwnInv'
  BY DEF LoginInv, LoginTypeOK, OwnInv, OnlyTheBridgeRuns, Busy, ChatDone, Rests, owned,
      browser
<1>3. AloneInv'
  BY DEF LoginInv, LoginTypeOK, OwnInv, AloneInv, Alone, Busy, ChatDone, Rests, owned,
      browser
<1>4. KindInv'
  BY DEF LoginInv, LoginTypeOK, OwnInv, KindInv, Dedicated, Kind, Busy, ChatDone, Rests,
      owned
<1>5. OpeningInv'
  BY ActorIs DEF LoginInv, AloneInv, OpeningInv, Alone, Busy, Dedicated, ChatDone, Rests,
      owned
<1>6. WindowInv'
  BY DEF LoginInv, LoginTypeOK, AloneInv, WindowInv, Alone, Busy, Dedicated, Kind, Waits,
      ChatDone, Rests, owned, browser, markers
<1>7. LoginIsPlain'
  BY DEF LoginInv, LoginIsPlain, ChatDone, owned, browser
<1> QED
  BY <1>1, <1>2, <1>3, <1>4, <1>5, <1>6, <1>7 DEF LoginInv

\* A monitor wakes.
LEMMA MonitorWakesKeeps ==
  ASSUME LoginInv, NEW m \in Monitors, MonitorWakes(m)
  PROVE  LoginInv'
<1>1. LoginTypeOK'
  <2>1. stands' \in [Actors -> Positions] /\ got' \in [Actors -> Statuses]
    BY StepIs, ActorIs DEF LoginInv, Positions, CheckSteps, MonitorWakes
  <2>2. OwnedTypes'
    BY DEF LoginInv, LoginTypeOK, OwnedTypes, Made, Busy, MonitorWakes, Rests, owned
  <2>3. BrowserTypes'
    BY DEF LoginInv, LoginTypeOK, BrowserTypes, KindInv, Dedicated, Kind, Made,
        MonitorWakes, owned, browser, markers
  <2>4. WatchTypes'
    BY StepIs, ActorIs DEF LoginInv, LoginTypeOK, WatchTypes, MonitorWakes, Starts, watch
  <2> QED BY <2>1, <2>2, <2>3, <2>4, NextTypesAre DEF AllTypes
<1>2. OwnInv'
  BY <1>1, ActorIs DEF LoginInv, LoginTypeOK, OwnInv, OnlyTheBridgeRuns, Busy,
      MonitorWakes, Go, Rests, owned, browser
<1>3. AloneInv'
  BY ActorIs, AdapterIs DEF LoginInv, LoginTypeOK, OwnInv, AloneInv, Alone, Busy,
      MonitorWakes, Go, Rests, Starts, owned, browser, watch
<1>4. KindInv'
  BY AdapterIs DEF LoginInv, LoginTypeOK, OwnInv, KindInv, Dedicated, Kind, Busy,
      MonitorWakes, Go, Rests, Starts, owned, browser, watch
<1>5. OpeningInv'
  BY DEF LoginInv, LoginTypeOK, AloneInv, KindInv, OpeningInv, Alone, Busy, Dedicated,
      MonitorWakes, Go, Rests, Starts, owned, browser, markers
<1>6. WindowInv'
  BY DEF LoginInv, LoginTypeOK, AloneInv, KindInv, WindowInv, Alone, Busy, Dedicated,
      Kind, Waits, MonitorWakes, Go, Rests, owned, browser, markers
<1>7. LoginIsPlain'
  BY DEF LoginInv, LoginTypeOK, LoginIsPlain, MonitorWakes, owned, browser
<1> QED
  BY <1>1, <1>2, <1>3, <1>4, <1>5, <1>6, <1>7 DEF LoginInv

\* A monitor gives up.
LEMMA MonitorTimesUpKeeps ==
  ASSUME LoginInv, NEW m \in Monitors, MonitorTimesUp(m)
  PROVE  LoginInv'
<1>1. LoginTypeOK'
  <2>1. stands' \in [Actors -> Positions] /\ got' \in [Actors -> Statuses]
    BY StepIs, ActorIs DEF LoginInv, MonitorTimesUp
  <2>2. OwnedTypes'
    BY CountIs DEF LoginInv, LoginTypeOK, OwnedTypes, Made, MonitorTimesUp, Rests, owned
  <2>3. BrowserTypes'
    BY DEF LoginInv, LoginTypeOK, BrowserTypes, KindInv, Dedicated, Kind, Made,
        MonitorTimesUp, owned, browser, markers
  <2>4. WatchTypes'
    BY StepIs, ActorIs, CountIs DEF LoginInv, LoginTypeOK, WatchTypes, MonitorTimesUp,
        browser, markers, watch
  <2> QED BY <2>1, <2>2, <2>3, <2>4, NextTypesAre DEF AllTypes
<1>2. OwnInv'
  BY DEF LoginInv, LoginTypeOK, OwnInv, OnlyTheBridgeRuns, Busy, MonitorTimesUp, Rests,
      owned, browser
<1>3. AloneInv'
  BY DEF LoginInv, LoginTypeOK, OwnInv, AloneInv, Alone, Busy, MonitorTimesUp, Rests,
      owned, browser
<1>4. KindInv'
  BY DEF LoginInv, LoginTypeOK, KindInv, Dedicated, Kind, Busy, MonitorTimesUp, Rests,
      owned
<1>5. OpeningInv'
  BY DEF LoginInv, AloneInv, OpeningInv, Alone, Busy, Dedicated, MonitorTimesUp, Rests,
      owned, browser, markers
<1>6. WindowInv'
  BY DEF LoginInv, AloneInv, WindowInv, Alone, Busy, Dedicated, Kind, Waits,
      MonitorTimesUp, Rests, owned, browser, markers
<1>7. LoginIsPlain'
  BY DEF LoginInv, LoginIsPlain, MonitorTimesUp, owned, browser
<1> QED
  BY <1>1, <1>2, <1>3, <1>4, <1>5, <1>6, <1>7 DEF LoginInv

\* A check of a monitor returns.
LEMMA MonitorDoneKeeps ==
  ASSUME LoginInv, NEW m \in Monitors, MonitorDone(m)
  PROVE  LoginInv'
<1>1. LoginTypeOK'
  <2>1. stands' \in [Actors -> Positions] /\ got' \in [Actors -> Statuses]
    BY StepIs, ActorIs DEF LoginInv, LoginTypeOK, Positions, Statuses, MonitorDone
  <2>2. OwnedTypes'
    BY CountIs DEF LoginInv, LoginTypeOK, OwnedTypes, OwnInv, Made, MonitorDone, Rests,
        owned
  <2>3. BrowserTypes'
    BY DEF LoginInv, LoginTypeOK, BrowserTypes, KindInv, Dedicated, Kind, Made,
        MonitorDone, owned, markers
  <2>4. WatchTypes'
    BY StepIs, ActorIs DEF LoginInv, LoginTypeOK, WatchTypes, MonitorDone, owned, markers,
        watch
  <2> QED BY <2>1, <2>2, <2>3, <2>4, NextTypesAre DEF AllTypes
<1>2. OwnInv'
  BY <1>1, ActorIs DEF LoginInv, LoginTypeOK, OwnInv, OnlyTheBridgeRuns, Busy,
      MonitorDone, Rests, owned, watch
<1>3. AloneInv'
  BY <1>1, ActorIs, AdapterIs DEF LoginInv, LoginTypeOK, OwnInv, AloneInv, Alone, Busy,
      MonitorDone, Rests, GoesOn, owned, browser, markers, threads, watch, history
<1>4. KindInv'
  BY <1>1, ActorIs, AdapterIs DEF LoginInv, LoginTypeOK, OwnInv, KindInv, Dedicated, Kind,
      Busy, MonitorDone, Rests, GoesOn, owned, browser, markers, threads, watch, history
<1>5. OpeningInv'
  BY ActorIs DEF LoginInv, LoginTypeOK, AloneInv, OpeningInv, Alone, Busy, Dedicated,
      MonitorDone, Rests, owned
<1>6. WindowInv'
  BY DEF LoginInv, LoginTypeOK, AloneInv, KindInv, WindowInv, Alone, Busy, Dedicated,
      Kind, Waits, MonitorDone, Rests, owned, markers
<1>7. LoginIsPlain'
  BY DEF LoginInv, LoginTypeOK, OpeningInv, LoginIsPlain, MonitorDone, owned
<1> QED
  BY <1>1, <1>2, <1>3, <1>4, <1>5, <1>6, <1>7 DEF LoginInv

\* The human signs in.
LEMMA SignInKeeps ==
  ASSUME LoginInv, NEW k \in Marked, SignIn(k)
  PROVE  LoginInv'
<1>1. LoginTypeOK'
  <2>1. stands' \in [Actors -> Positions] /\ got' \in [Actors -> Statuses]
    BY DEF LoginInv, LoginTypeOK, Positions, SignIn, threads
  <2>2. OwnedTypes'
    BY DEF LoginInv, LoginTypeOK, OwnedTypes, Made, SignIn, owned, threads
  <2>3. BrowserTypes'
    BY DEF LoginInv, LoginTypeOK, BrowserTypes, KindInv, Dedicated, Kind, Made, SignIn,
        owned, markers, threads, history
  <2>4. WatchTypes'
    BY StepIs DEF LoginInv, LoginTypeOK, WatchTypes, SignIn, owned, threads, watch,
        history
  <2> QED BY <2>1, <2>2, <2>3, <2>4, NextTypesAre DEF AllTypes
<1>2. OwnInv'
  BY DEF LoginInv, OwnInv, OnlyTheBridgeRuns, Busy, SignIn, owned, threads, history
<1>3. AloneInv'
  BY DEF LoginInv, LoginTypeOK, AloneInv, Alone, Busy, SignIn, owned, threads, history
<1>4. KindInv'
  BY DEF LoginInv, LoginTypeOK, KindInv, Dedicated, Kind, Busy, SignIn, owned, threads,
      history
<1>5. OpeningInv'
  BY DEF LoginInv, AloneInv, OpeningInv, Alone, Busy, Dedicated, SignIn, owned, markers,
      threads, history
<1>6. WindowInv'
  BY DEF LoginInv, AloneInv, WindowInv, Alone, Busy, Dedicated, Kind, Waits, SignIn,
      owned, markers, threads, history
<1>7. LoginIsPlain'
  BY DEF LoginInv, LoginIsPlain, SignIn, owned, history
<1> QED
  BY <1>1, <1>2, <1>3, <1>4, <1>5, <1>6, <1>7 DEF LoginInv

\* A session expires.
LEMMA SessionExpiresKeeps ==
  ASSUME LoginInv, NEW k \in Marked, SessionExpires(k)
  PROVE  LoginInv'
<1>1. LoginTypeOK'
  <2>1. stands' \in [Actors -> Positions] /\ got' \in [Actors -> Statuses]
    BY DEF LoginInv, LoginTypeOK, Positions, SessionExpires, threads
  <2>2. OwnedTypes'
    BY DEF LoginInv, LoginTypeOK, OwnedTypes, Made, SessionExpires, owned, threads
  <2>3. BrowserTypes'
    BY DEF LoginInv, LoginTypeOK, BrowserTypes, KindInv, Dedicated, Kind, Made,
        SessionExpires, owned, markers, threads, history
  <2>4. WatchTypes'
    BY StepIs, CountIs DEF LoginInv, LoginTypeOK, WatchTypes, SessionExpires, threads,
        watch, history
  <2> QED BY <2>1, <2>2, <2>3, <2>4, NextTypesAre DEF AllTypes
<1>2. OwnInv'
  BY DEF LoginInv, OwnInv, OnlyTheBridgeRuns, Busy, SessionExpires, owned, threads,
      history
<1>3. AloneInv'
  BY DEF LoginInv, LoginTypeOK, AloneInv, Alone, Busy, SessionExpires, owned, threads,
      history
<1>4. KindInv'
  BY DEF LoginInv, LoginTypeOK, KindInv, Dedicated, Kind, Busy, SessionExpires, owned,
      threads, history
<1>5. OpeningInv'
  BY DEF LoginInv, AloneInv, OpeningInv, Alone, Busy, Dedicated, SessionExpires, owned,
      markers, threads, history
<1>6. WindowInv'
  BY DEF LoginInv, AloneInv, WindowInv, Alone, Busy, Dedicated, Kind, Waits,
      SessionExpires, owned, markers, threads, history
<1>7. LoginIsPlain'
  BY DEF LoginInv, LoginIsPlain, SessionExpires, owned, history
<1> QED
  BY <1>1, <1>2, <1>3, <1>4, <1>5, <1>6, <1>7 DEF LoginInv

\* The human closes the window.
LEMMA CloseWindowKeeps ==
  ASSUME LoginInv, CloseWindow
  PROVE  LoginInv'
<1>1. LoginTypeOK'
  <2>1. stands' \in [Actors -> Positions] /\ got' \in [Actors -> Statuses]
    BY DEF LoginInv, LoginTypeOK, Positions, CloseWindow, threads
  <2>2. OwnedTypes'
    BY DEF LoginInv, LoginTypeOK, OwnedTypes, Made, CloseWindow, owned, threads
  <2>3. BrowserTypes'
    BY DEF LoginInv, LoginTypeOK, BrowserTypes, KindInv, Dedicated, Kind, Made,
        CloseWindow, ProfileEnds, owned, markers, threads, history
  <2>4. WatchTypes'
    BY StepIs DEF LoginInv, LoginTypeOK, WatchTypes, CloseWindow, ProfileEnds, threads,
        watch, history
  <2> QED BY <2>1, <2>2, <2>3, <2>4, NextTypesAre DEF AllTypes
<1>2. OwnInv'
  BY DEF LoginInv, OwnInv, OnlyTheBridgeRuns, Busy, CloseWindow, ProfileEnds, owned,
      threads, history
<1>3. AloneInv'
  BY DEF LoginInv, LoginTypeOK, AloneInv, Alone, Busy, CloseWindow, ProfileEnds, owned,
      threads, history
<1>4. KindInv'
  BY DEF LoginInv, LoginTypeOK, KindInv, Dedicated, Kind, Busy, CloseWindow, ProfileEnds,
      owned, threads, history
<1>5. OpeningInv'
  BY DEF LoginInv, AloneInv, OpeningInv, Alone, Busy, Dedicated, CloseWindow, ProfileEnds,
      owned, markers, threads, history
<1>6. WindowInv'
  BY AdapterIs DEF LoginInv, AloneInv, WindowInv, Alone, CloseWindow, ProfileEnds
<1>7. LoginIsPlain'
  BY AdapterIs DEF LoginInv, OpeningInv, LoginIsPlain, CloseWindow, ProfileEnds
<1> QED
  BY <1>1, <1>2, <1>3, <1>4, <1>5, <1>6, <1>7 DEF LoginInv

\* An automation child dies.
LEMMA ChildDiesKeeps ==
  ASSUME LoginInv, ChildDies
  PROVE  LoginInv'
<1>1. LoginTypeOK'
  <2>1. stands' \in [Actors -> Positions] /\ got' \in [Actors -> Statuses]
    BY DEF LoginInv, LoginTypeOK, Positions, ChildDies, threads
  <2>2. OwnedTypes'
    BY DEF LoginInv, LoginTypeOK, OwnedTypes, Made, ChildDies, owned, threads
  <2>3. BrowserTypes'
    BY DEF LoginInv, LoginTypeOK, BrowserTypes, KindInv, Dedicated, Kind, Made, ChildDies,
        Ends, owned, markers, threads, history
  <2>4. WatchTypes'
    BY StepIs, CountIs DEF LoginInv, LoginTypeOK, WatchTypes, ChildDies, Ends, threads,
        watch, history
  <2> QED BY <2>1, <2>2, <2>3, <2>4, NextTypesAre DEF AllTypes
<1>2. OwnInv'
  BY DEF LoginInv, OwnInv, OnlyTheBridgeRuns, Busy, ChildDies, Ends, owned, threads,
      history
<1>3. AloneInv'
  BY DEF LoginInv, LoginTypeOK, AloneInv, Alone, Busy, ChildDies, Ends, owned, threads,
      history
<1>4. KindInv'
  BY DEF LoginInv, LoginTypeOK, KindInv, Dedicated, Kind, Busy, ChildDies, owned, threads,
      history
<1>5. OpeningInv'
  BY DEF LoginInv, AloneInv, OpeningInv, Alone, Busy, Dedicated, ChildDies, Ends, owned,
      markers, threads, history
<1>6. WindowInv'
  BY AdapterIs DEF LoginInv, AloneInv, WindowInv, Alone, Busy, Dedicated, Kind, Waits,
      ChildDies, Ends, owned, markers, threads, history
<1>7. LoginIsPlain'
  BY AdapterIs DEF LoginInv, LoginIsPlain, ChildDies, Ends, owned, history
<1> QED
  BY <1>1, <1>2, <1>3, <1>4, <1>5, <1>6, <1>7 DEF LoginInv

\* The process ends.
LEMMA CrashKeeps ==
  ASSUME LoginInv, Crash
  PROVE  LoginInv'
<1>1. LoginTypeOK'
  <2>1. stands' \in [Actors -> Positions] /\ got' \in [Actors -> Statuses]
    BY DEF Positions, Statuses, Crash
  <2>2. OwnedTypes'
    BY DEF LoginInv, LoginTypeOK, OwnedTypes, Busy, Crash
  <2>3. BrowserTypes'
    BY DEF LoginInv, LoginTypeOK, BrowserTypes, KindInv, Dedicated, Kind, Made, Crash,
        Ends, markers
  <2>4. WatchTypes'
    BY StepIs, CountIs DEF LoginInv, LoginTypeOK, WatchTypes, Crash, Ends, markers
  <2> QED BY <2>1, <2>2, <2>3, <2>4, NextTypesAre DEF AllTypes
<1>2. OwnInv'
  BY ActorIs DEF OwnInv, OnlyTheBridgeRuns, Busy, Crash, Ends
<1>3. AloneInv'
  BY AdapterIs DEF AloneInv, Alone, Busy, Crash, Ends
<1>4. KindInv'
  BY DEF KindInv, Dedicated, Busy, Crash
<1>5. OpeningInv'
  BY DEF OpeningInv, Alone, Crash
<1>6. WindowInv'
  BY AdapterIs DEF LoginInv, WindowInv, Alone, Waits, Crash, Ends, markers
<1>7. LoginIsPlain'
  BY AdapterIs DEF LoginInv, OpeningInv, LoginIsPlain, Crash, Ends
<1> QED
  BY <1>1, <1>2, <1>3, <1>4, <1>5, <1>6, <1>7 DEF LoginInv

-----------------------------------------------------------------------------
(* The invariant *)

\* It holds of a profile of an earlier life of the program.
LEMMA InitHolds == LoginInit => LoginInv
<1> SUFFICES ASSUME LoginInit PROVE LoginInv
  OBVIOUS
<1>1. LoginTypeOK
  <2>1. made \in Seq(Kinds) /\ Len(made) = 0 /\ pref \in Kinds
    BY DEF LoginInit
  <2>2. stands \in [Actors -> Positions] /\ got \in [Actors -> Statuses]
    BY DEF LoginInit, Positions, Statuses
  <2>3. OwnedTypes
    <3>1. on \in [Actors -> Made \cup {0}] /\ {adapter, runtime} \subseteq Made \cup {0}
      BY DEF LoginInit
    <3>2. saving \in {"no", "stop", "close", "done"} /\ claimed \in BOOLEAN
      BY DEF LoginInit
    <3>3. Len(made) <= MaxAdapters
      BY <2>1, LoginAssumption
    <3> QED BY <2>1, <3>1, <3>2, <3>3 DEF OwnedTypes
  <2>4. BrowserTypes /\ WatchTypes
    <3>1. signedIn \subseteq Marked /\ auth \subseteq Marked
      BY DEF LoginInit
    <3>2. ops \in 0..MaxOps /\ mishaps \in 0..MaxMishaps
      BY LoginAssumption DEF LoginInit
    <3> QED BY <3>1, <3>2 DEF LoginInit, BrowserTypes, WatchTypes
  <2> QED
    BY <2>2, <2>3, <2>4, TypesAre DEF AllTypes
<1>2. OwnInv /\ AloneInv /\ KindInv /\ OpeningInv /\ WindowInv /\ LoginIsPlain
  BY ActorIs, AdapterIs, <1>1 DEF LoginInit, OwnInv, AloneInv, KindInv, OpeningInv,
      WindowInv, LoginIsPlain, OnlyTheBridgeRuns, Alone, Busy, NoOwner
<1> QED BY <1>1, <1>2 DEF LoginInv

\* No step leaves it.
LEMMA NextKeeps == LoginInv /\ [LoginNext]_loginVars => LoginInv'
<1> SUFFICES ASSUME LoginInv, [LoginNext]_loginVars PROVE LoginInv'
  OBVIOUS
<1>1. CASE UNCHANGED loginVars
  BY <1>1 DEF loginVars, owned, browser, markers, threads, watch, history, LoginInv,
      LoginTypeOK, OwnInv, AloneInv, KindInv, OpeningInv, WindowInv, LoginIsPlain,
      OnlyTheBridgeRuns, Alone, Busy, Dedicated, Kind, Waits, Made
<1>2. ASSUME NEW b \in BOOLEAN, StartBridge(b) PROVE LoginInv'
  <2> DEFINE steps == [dedicated |-> "health", embedded |-> "open", shared |-> "open"]
  <2>1. pref \in {"dedicated", "embedded", "shared"}
    BY LoginAssumption DEF LoginInv, LoginTypeOK
  <2>2. steps[pref] \in {"health", "open"} /\ (steps[pref] = "open" => pref # "dedicated")
    BY <2>1
  <2>3. Begin(steps) /\ setup' \in BOOLEAN
    BY <1>2 DEF StartBridge
  <2> HIDE DEF steps
  <2> QED BY <2>2, <2>3, BeginKeeps
<1>3. CASE StartManualLogin
  <2> DEFINE steps == [dedicated |-> "manual", shared |-> "manual"]
  <2>1. pref \in {"dedicated", "shared"}
    BY <1>3, LoginAssumption DEF LoginInv, LoginTypeOK, StartManualLogin
  <2>2. steps[pref] = "manual"
    BY <2>1
  <2>3. Begin(steps) /\ setup' \in BOOLEAN
    BY <1>3 DEF StartManualLogin
  <2> HIDE DEF steps
  <2> QED BY <2>2, <2>3, BeginKeeps
<1>4. CASE FinishManualLogin
  <2> DEFINE steps == [dedicated |-> "verify", shared |-> "open"]
  <2>1. pref \in {"dedicated", "shared"}
    BY <1>4, LoginAssumption DEF LoginInv, LoginTypeOK, FinishManualLogin
  <2>2. steps[pref] \in {"verify", "open"} /\ (steps[pref] = "open" => pref # "dedicated")
    BY <2>1
  <2>3. Begin(steps) /\ setup' \in BOOLEAN
    BY <1>4 DEF FinishManualLogin
  <2> HIDE DEF steps
  <2> QED BY <2>2, <2>3, BeginKeeps
<1>5. ASSUME NEW x \in Actors, CheckStep(x) PROVE LoginInv'
  BY <1>5, OpenKeeps, CheckKeeps, ClearKeeps, AttachKeeps, LaunchKeeps, PopenKeeps,
      PagesKeeps, BlockedKeeps, MarkKeeps DEF CheckStep
<1>6. ASSUME NEW m \in Monitors, MonitorWakes(m) \/ MonitorTimesUp(m) \/ MonitorDone(m)
      PROVE  LoginInv'
  BY <1>6, MonitorWakesKeeps, MonitorTimesUpKeeps, MonitorDoneKeeps
<1>7. ASSUME NEW k \in Marked, SignIn(k) \/ SessionExpires(k) PROVE LoginInv'
  BY <1>7, SignInKeeps, SessionExpiresKeeps
<1> QED
  BY <1>1, <1>2, <1>3, <1>4, <1>5, <1>6, <1>7, ManualCloseKeeps, ManualForgetKeeps,
      VerifyKeeps, OpDoneKeeps, BeginCloseKeeps, CloseKeeps, SavePreferenceKeeps,
      BuildRuntimeKeeps, ClaimRuntimeKeeps, StopRuntimeKeeps, ChatUsesKeeps,
      ChatChecksKeeps, ChatDoneKeeps, CloseWindowKeeps, ChildDiesKeeps, CrashKeeps DEF
      LoginNext

-----------------------------------------------------------------------------
(* Theorems *)

\* Every reachable state satisfies the invariant.
THEOREM LoginInvariant == LoginSpec => []LoginInv
  BY InitHolds, NextKeeps, PTL DEF LoginSpec

\* No automation runs that neither the supervisor nor the runtime can end, but
\* for one that was dropped while it was used (close_browser_bridge,
\* _shared_chat_adapter).
THEOREM NoStrayAutomation == LoginSpec => []OnlyTheBridgeRuns
<1>1. LoginInv => OnlyTheBridgeRuns
  BY DEF LoginInv, OwnInv
<1> QED BY <1>1, LoginInvariant, PTL

\* While a human signs in no automation is attached to the profile, unless a
\* prompt asked for it.
THEOREM LoginsArePlain == LoginSpec => []LoginIsPlain
<1>1. LoginInv => LoginIsPlain
  BY DEF LoginInv
<1> QED BY <1>1, LoginInvariant, PTL

\* A step that takes the profile from the human.
LEMMA WindowStep ==
  ASSUME LoginInv, LoginNext, holder = Human, holder' # Human
  PROVE  CloseWindow \/ ManualClose \/ Retired \/ crossed
<1> USE ActorIs, AdapterIs DEF LoginInv, LoginTypeOK
<1>1. ASSUME NEW x \in Actors, CheckStep(x) PROVE crossed
  <2>1. stands[x] = "clear" => Busy(x) /\ Dedicated(x) /\ on[x] # 0
    BY DEF KindInv, OwnInv, Busy
  <2>2. Clear(x) => crossed
    BY <2>1 DEF WindowInv, Clear, StandsAt
  <2> QED
    BY <1>1, <2>2 DEF CheckStep, Open, Check, Attach, Launch, Popen, Pages, Blocked, Mark,
        Run, Ends, Reaches, Bootstrap, browser, NoOwner
<1>2. ASSUME NEW steps, Begin(steps) PROVE Retired
  BY <1>2, ObtainIs DEF Begin, Retired
<1>3. CASE BuildRuntime
  BY <1>3, ObtainIs DEF BuildRuntime, Retired
<1>4. CASE Close
  BY <1>4 DEF Close, CloseAdapter, Ends, Retired, NoOwner
<1> QED
  BY <1>1, <1>2, <1>3, <1>4 DEF LoginNext, StartBridge, StartManualLogin, FinishManualLogin,
      ManualForget, Verify, OpDone, BeginClose, SavePreference, ClaimRuntime, StopRuntime,
      ChatUses, ChatChecks, ChatDone, MonitorWakes, MonitorTimesUp,
      MonitorDone, SignIn, SessionExpires, ChildDies, Crash, Run, Ends, Reaches,
      Bootstrap, browser, NoOwner

\* A login window that no other check crossed (_prepare_dedicated_runtime) is
\* closed by the human, by a new manual login, or with the dedicated adapter the
\* supervisor gives up (ChromeChatAdapter.close), and by nothing else.
THEOREM LoginWindowsAreLeft == LoginSpec => LoginWindowIsLeft
<1>1. LoginInv /\ [LoginNext]_loginVars =>
        [holder = Human /\ holder' # Human =>
           CloseWindow \/ ManualClose \/ Retired \/ crossed]_loginVars
  BY WindowStep
<1> QED BY <1>1, LoginInvariant, PTL DEF LoginSpec, LoginWindowIsLeft
=============================================================================
