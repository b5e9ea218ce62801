------------------------------ MODULE Supervisor ------------------------------
(***************************************************************************)
(* CfrSupervisor: it starts, stops and reconnects the Feishu runtime, and  *)
(* pairs an account over a connection of its own.  Its operations run one  *)
(* at a time, under _lifecycle_lock; the callback of a pairing message,    *)
(* the timers, the cleanup threads, the threads of the transports and the  *)
(* heartbeats do not wait for them.  Whatever connects to Feishu holds the *)
(* row of feishu_daemon_lease, which other processes want, too.            *)
(***************************************************************************)
EXTENDS Naturals

CONSTANTS
  Runtimes,   \* daemons that start_feishu makes, each with its transport
  Pairings,   \* pairings that are started, each with its lease and transport
  Other,      \* another process that connects
  Nobody,
  Slow,       \* transports whose thread may outlast the wait of stop
  MaxFaults   \* bound on heartbeats and releases that fail in SQLite

Conns == Runtimes \cup Pairings

ASSUME SupervisorAssumption ==
  /\ Runtimes \cap Pairings = {}
  /\ Conns \subseteq Nat   \* in the order in which they are made
  /\ Other \notin Conns /\ Nobody \notin Conns \cup {Other}
  /\ MaxFaults \in Nat

VARIABLES
  state,     \* _feishu_state
  daemon,    \* _daemon, with its _transport and _gateway
  pairState, \* _pairing_state
  pairing,   \* whose _pairing_transport, _pairing_lease and code are set
  done,      \* _pairing_cleanup_done
  timer,     \* the timer of a pairing; "fired" waits for _lifecycle_lock
  cleanup,   \* the cleanup thread of a pairing
  at,        \* where the operation that has _lifecycle_lock stands
  conn,      \* the runtime or pairing it works on
  then,      \* how it ends: it returns, goes on to start_feishu, or fails
  started,   \* FeishuDaemon._started
  link,      \* a transport
  row,       \* the owner of the row
  lapsed,    \* owners whose time ran out
  beats,     \* owners with a heartbeat thread
  used,      \* runtimes and pairings made so far
  faults

pairs     == <<pairState, pairing, timer>>
operation == <<at, conn, then>>
lease     == <<row, lapsed, beats>>
vars == <<state, daemon, pairs, done, cleanup, operation, started, link, lease, used, faults>>

OpSteps == {"idle", "start", "daemon_start", "pairing_start", "connect", "wait_ready",
            "daemon_stop", "transport_stop", "lease_release", "close_transport",
            "close_lease", "handoff"}

TypeOK ==
  /\ state \in {"stopped", "starting", "running", "stopping", "degraded"}
  /\ daemon \in Runtimes \cup {Nobody}
  /\ pairState \in {"idle", "starting", "waiting", "pending_confirmation", "expired"}
  /\ pairing \in Pairings \cup {Nobody}
  /\ done \in BOOLEAN
  /\ timer \in [Pairings -> {"none", "set", "fired"}]
  /\ cleanup \in [Pairings -> {"none", "transport", "lease"}]
  /\ at \in OpSteps /\ conn \in Conns \cup {Nobody}
  /\ then \in {"start", "return", "fail"}
  /\ started \in [Runtimes -> BOOLEAN]
  /\ link \in [Conns -> {"none", "connecting", "up", "lingering", "down"}]
  /\ row \in Conns \cup {Other, Nobody}
  /\ lapsed \subseteq Conns /\ beats \subseteq Conns /\ used \subseteq Conns
  /\ faults \in 0..MaxFaults

PairingActive == pairState \in {"starting", "waiting", "pending_confirmation"}

Fault == faults < MaxFaults /\ faults' = faults + 1
GoOn(step) == at' = step /\ UNCHANGED <<conn, then>>
Return == at' = "idle" /\ conn' = Nobody /\ then' = "return"
\* stop_feishu returns to its caller, which may be reconnect_feishu.
Proceed ==
  /\ at' = IF then = "start" THEN "start" ELSE "idle"
  /\ conn' = Nobody /\ then' = "return"

Make(c, kind) ==
  /\ c \notin used /\ \A d \in kind : d < c => d \in used
  /\ used' = used \cup {c}

-----------------------------------------------------------------------------
(* The row of the lease, its owners' heartbeats, and the transports.       *)

Acquirable(c) == row \in {Nobody, c} \/ row \in lapsed

Acquire(c) ==
  /\ row' = c
  /\ lapsed' = lapsed \ {c}

\* delete ... where owner_instance_id = c
Delete(c) == row' = IF row = c THEN Nobody ELSE row

\* FeishuConnectionLease.release ends the heartbeat before it deletes the row,
\* which may fail.
ReleaseLease_BeatsOn(c) ==   \* mutant: a failed delete leaves the heartbeat on
  /\ \/ Delete(c) /\ beats' = beats \ {c} /\ UNCHANGED faults
     \/ UNCHANGED <<row, beats>> /\ Fault
  /\ UNCHANGED lapsed
ReleaseLease(c) ==
  /\ beats' = beats \ {c}
  /\ \/ Delete(c) /\ UNCHANGED faults
     \/ UNCHANGED row /\ Fault
  /\ UNCHANGED lapsed

\* Time runs out for an owner whom no thread renews, or whose renewals fail.
Lapse(c) ==
  /\ row = c /\ c \notin lapsed
  /\ \/ c \in beats /\ Fault
     \/ c \notin beats /\ UNCHANGED faults
  /\ lapsed' = lapsed \cup {c}
  /\ UNCHANGED <<row, beats>>

\* A heartbeat renews the row even after its time ran out; an owner who has no
\* row any more, or whose renewals failed for too long, ends his thread.
Heartbeat(c) ==
  /\ c \in beats
  /\ \/ row = c /\ lapsed' = lapsed \ {c} /\ UNCHANGED <<beats, faults>>
     \/ row # c /\ beats' = beats \ {c} /\ UNCHANGED <<lapsed, faults>>
     \/ Fault /\ beats' = beats \ {c} /\ UNCHANGED lapsed
  /\ UNCHANGED row

OtherProcess ==
  /\ \/ (row = Nobody \/ row \in lapsed) /\ row' = Other
     \/ row = Other /\ row' = Nobody
  /\ UNCHANGED <<lapsed, beats, faults>>

\* The thread of a transport connects, and it may end at any time.
Transport(c) ==
  \/ link[c] = "connecting" /\ \E l \in {"up", "down"} : link' = [link EXCEPT ![c] = l]
  \/ link[c] \in {"up", "lingering"} /\ link' = [link EXCEPT ![c] = "down"]

\* stop waits for the thread to end, and returns all the same when it has not:
\* that connection lingers, and nobody looks after it any more.
StopLink(c) ==
  \E l \in {"down"} \cup {"lingering" : s \in Slow \cap {c}} :
    link' = [link EXCEPT ![c] = IF @ \in {"none", "down"} THEN @ ELSE l]

-----------------------------------------------------------------------------
(* start_feishu, from the lock it takes to what it does when a step fails. *)

StartRefused == PairingActive \/ daemon # Nobody

Refuse ==
  /\ at = "start" /\ StartRefused
  /\ Return
  /\ UNCHANGED <<state, daemon>>

\* Its settings, transport, daemon or browser cannot be had: nothing is owned.
FailEarly ==
  /\ at \in {"idle", "start"} /\ ~ StartRefused
  /\ Return
  /\ state' = "stopped"
  /\ UNCHANGED daemon

\* It claims ownership before any step that can succeed in part.
Claim(r) ==
  /\ at \in {"idle", "start"} /\ ~ StartRefused
  /\ Make(r, Runtimes)
  /\ state' = "starting" /\ daemon' = r
  /\ at' = "daemon_start" /\ conn' = r /\ then' = "return"

StartDaemon ==
  /\ at = "daemon_start"
  /\ Acquirable(conn) /\ Acquire(conn)
  /\ started' = [started EXCEPT ![conn] = TRUE]
  /\ beats' = beats \cup {conn}
  /\ GoOn("connect")
  /\ UNCHANGED <<state, faults>>

\* The lease is refused, or the recovery after it fails with the lease held.
StartDaemonFails ==
  /\ at = "daemon_start"
  /\ \/ ~ Acquirable(conn) /\ UNCHANGED <<row, lapsed, faults>>
     \/ Acquirable(conn) /\ Acquire(conn) /\ Fault
  /\ state' = "stopping"
  /\ GoOn("daemon_stop")
  /\ UNCHANGED <<started, beats>>

\* connect_until_ready, of a runtime and of a pairing: starts the thread ...
Connect ==
  /\ at = "connect"
  /\ link' = [link EXCEPT ![conn] = "connecting"]
  /\ GoOn("wait_ready")

\* ... and waits for it.
Ready ==
  /\ at = "wait_ready" /\ conn \in Runtimes /\ link[conn] = "up"
  /\ state' = "running"
  /\ Return

NotReady ==
  /\ at \in {"connect", "wait_ready"} /\ conn \in Runtimes
  /\ state' = "stopping"
  /\ GoOn("daemon_stop")

-----------------------------------------------------------------------------
(* stop_feishu and _stop_owned_runtime.                                    *)

\* reconnect_feishu is stop_feishu and start_feishu under one lock.
Stop(next) ==
  /\ at = "idle" /\ then' = next
  /\ \/ daemon # Nobody /\ state' = "stopping" /\ at' = "daemon_stop" /\ conn' = daemon
     \/ daemon = Nobody /\ ~ PairingActive /\ state' = "stopped"
        /\ at' = (IF next = "start" THEN "start" ELSE "idle") /\ UNCHANGED conn

GiveUp ==
  /\ state' = "degraded"
  /\ UNCHANGED daemon

LetGo ==
  /\ state' = "stopped" /\ daemon' = Nobody
  /\ Proceed

\* daemon.stop of a daemon that did not start does nothing.
StopUnstarted ==
  /\ at = "daemon_stop" /\ ~ started[conn]
  /\ LetGo
  /\ UNCHANGED beats

\* It ends the heartbeat and waits for the workers, 20 seconds at most.
StopDaemon ==
  /\ at = "daemon_stop" /\ started[conn]
  /\ beats' = beats \ {conn}
  /\ \/ GoOn("transport_stop") /\ UNCHANGED <<state, daemon>>
     \/ GiveUp /\ Return

\* A transport whose loop its own thread just closed raises.
StopTransport ==
  /\ at = "transport_stop"
  /\ at' = "lease_release" /\ UNCHANGED conn
  /\ \/ StopLink(conn) /\ UNCHANGED <<then, faults>>
     \/ link[conn] \in {"connecting", "up", "lingering"} /\ link' = [link EXCEPT ![conn] = "down"]
        /\ then' = "fail" /\ Fault

\* The lease is released whether or not the transport stopped.
ReleaseDaemonLease ==
  /\ at = "lease_release"
  /\ \/ then # "fail" /\ Delete(conn) /\ UNCHANGED faults
        /\ started' = [started EXCEPT ![conn] = FALSE] /\ LetGo
     \/ then = "fail" /\ Delete(conn) /\ UNCHANGED faults
        /\ GiveUp /\ Return /\ UNCHANGED started
     \/ Fault /\ GiveUp /\ Return /\ UNCHANGED <<row, started>>
  /\ UNCHANGED <<lapsed, beats>>

-----------------------------------------------------------------------------
(* Pairing an account.                                                     *)

\* _detach_pairing_locked; it cannot cancel a timer that has fired.
Detach(s) ==
  /\ pairState' = s
  /\ pairing' = Nobody
  /\ timer' = [p \in Pairings |-> IF p = pairing /\ timer[p] = "set" THEN "none" ELSE timer[p]]

PairingRefused == daemon # Nobody \/ PairingActive

StartPairing(p) ==
  /\ at = "idle" /\ ~ PairingRefused
  /\ Make(p, Pairings)
  /\ pairState' = "starting" /\ done' = FALSE
  /\ at' = "pairing_start" /\ conn' = p
  /\ UNCHANGED <<pairing, timer, then>>

LeasePairing ==
  /\ at = "pairing_start"
  /\ Acquirable(conn) /\ Acquire(conn)
  /\ beats' = beats \cup {conn}
  /\ pairing' = conn
  /\ GoOn("connect")
  /\ UNCHANGED <<pairState, timer>>

\* The settings are refused, or the lease is.
PairingFails ==
  /\ at = "pairing_start"
  /\ Detach("idle")
  /\ done' = TRUE
  /\ Return

\* The message may have come before the transport was seen to be ready.
PairingReady ==
  /\ at = "wait_ready" /\ conn \in Pairings /\ link[conn] = "up"
  /\ \/ pairState = "starting" /\ pairState' = "waiting" /\ timer' = [timer EXCEPT ![conn] = "set"]
     \/ pairState = "pending_confirmation" /\ UNCHANGED <<pairState, timer>>
  /\ Return
  /\ UNCHANGED pairing

PairingNotReady ==
  /\ at \in {"connect", "wait_ready"} /\ conn \in Pairings
  /\ Detach("idle")
  /\ GoOn("close_transport")

\* _handle_pairing_message waits for no operation.
PairingMessage ==
  /\ pairState \in {"starting", "waiting"} /\ pairing # Nobody /\ link[pairing] = "up"
  /\ Detach("pending_confirmation")
  /\ cleanup' = [cleanup EXCEPT ![pairing] = "transport"]

TimerFires(p) ==
  /\ timer[p] = "set"
  /\ timer' = [timer EXCEPT ![p] = "fired"]
  /\ UNCHANGED <<pairState, pairing, cleanup>>

\* _expire_feishu_pairing expires the pairing it finds, if it finds one.
Expire(p) ==
  /\ at = "idle" /\ timer[p] = "fired"
  /\ timer' = [q \in Pairings |->
                 IF q = p \/ (q = pairing /\ timer[q] = "set") THEN "none" ELSE timer[q]]
  /\ \/ pairState \in {"starting", "waiting"} /\ pairState' = "expired"
        /\ pairing' = Nobody /\ cleanup' = [cleanup EXCEPT ![pairing] = "transport"]
     \/ pairState \notin {"starting", "waiting"} /\ UNCHANGED <<pairState, pairing, cleanup>>

\* Also what stop_feishu does when only a pairing is active.
Cancel ==
  /\ at = "idle" /\ PairingActive
  /\ Detach("idle")
  /\ \/ pairing # Nobody /\ at' = "close_transport" /\ conn' = pairing /\ UNCHANGED <<then, done>>
     \/ pairing = Nobody /\ done' = TRUE /\ UNCHANGED operation

\* The policy is saved before; it is kept when the connection does not end in time.
Confirm ==
  /\ at = "idle" /\ pairState = "pending_confirmation"
  /\ Detach("idle")
  /\ GoOn("handoff")

Handoff ==
  /\ at = "handoff"
  /\ \/ done /\ GoOn("start")
     \/ ~ done /\ Return

\* _close_pairing_connection, of an operation and of a cleanup thread.  A
\* release that fails does not set the event.
CloseTransport ==
  /\ at = "close_transport"
  /\ StopLink(conn)
  /\ GoOn("close_lease")

CloseLease ==
  /\ at = "close_lease"
  /\ ReleaseLease(conn)
  /\ done' = (done \/ faults' = faults)
  /\ Return

CleanTransport_LeaseFirst(p) ==   \* mutant: the row is deleted before the transport stops
  /\ cleanup[p] = "transport"
  /\ Delete(p) /\ UNCHANGED link
  /\ cleanup' = [cleanup EXCEPT ![p] = "lease"]
CleanTransport(p) ==
  /\ cleanup[p] = "transport"
  /\ StopLink(p) /\ UNCHANGED row
  /\ cleanup' = [cleanup EXCEPT ![p] = "lease"]

CleanLease(p) ==
  /\ cleanup[p] = "lease"
  /\ ReleaseLease(p)
  /\ done' = (done \/ faults' = faults)
  /\ cleanup' = [cleanup EXCEPT ![p] = "none"]

-----------------------------------------------------------------------------
StartStep ==
  /\ \/ (Refuse \/ FailEarly) /\ UNCHANGED <<started, link, lease, used, faults>>
     \/ \E r \in Runtimes : Claim(r) /\ UNCHANGED <<started, link, lease, faults>>
     \/ (StartDaemon \/ StartDaemonFails) /\ UNCHANGED <<daemon, link, used>>
     \/ (Ready \/ NotReady) /\ UNCHANGED <<daemon, started, link, lease, used, faults>>
  /\ UNCHANGED <<pairs, done, cleanup>>

StopStep ==
  /\ \/ \E next \in {"return", "start"} : Stop(next)
        /\ UNCHANGED <<daemon, started, link, lease, faults>>
     \/ (StopUnstarted \/ StopDaemon) /\ UNCHANGED <<started, link, row, lapsed, faults>>
     \/ StopTransport /\ UNCHANGED <<state, daemon, started, lease>>
     \/ ReleaseDaemonLease /\ UNCHANGED link
  /\ UNCHANGED <<pairs, done, cleanup, used>>

PairingStep ==
  /\ \/ \E p \in Pairings : StartPairing(p) /\ UNCHANGED <<link, lease, faults>>
     \/ LeasePairing /\ UNCHANGED <<done, link, used, faults>>
     \/ PairingFails /\ UNCHANGED <<link, lease, used, faults>>
     \/ (PairingReady \/ PairingNotReady \/ Confirm) /\ UNCHANGED <<done, link, lease, used, faults>>
     \/ Cancel /\ UNCHANGED <<link, lease, used, faults>>
     \/ Handoff /\ UNCHANGED <<pairs, done, link, lease, used, faults>>
     \/ CloseTransport /\ UNCHANGED <<pairs, done, lease, used, faults>>
     \/ CloseLease /\ UNCHANGED <<pairs, link, used>>
  /\ UNCHANGED <<state, daemon, started, cleanup>>

ConnectStep == Connect /\ UNCHANGED <<state, daemon, pairs, done, cleanup, started, lease, used, faults>>

Callback ==
  /\ \/ PairingMessage
     \/ \E p \in Pairings : TimerFires(p) \/ Expire(p)
  /\ UNCHANGED <<state, daemon, done, operation, started, link, lease, used, faults>>

Cleanup(p) ==
  /\ \/ CleanTransport(p) /\ UNCHANGED <<done, lapsed, beats, faults>>
     \/ CleanLease(p) /\ UNCHANGED link
  /\ UNCHANGED <<state, daemon, pairs, operation, started, used>>

Clock(c) == Lapse(c) /\ UNCHANGED <<state, daemon, pairs, done, cleanup, operation, started, link, used>>

Environment ==
  \/ /\ OtherProcess \/ \E c \in Conns : Heartbeat(c)
     /\ UNCHANGED <<state, daemon, pairs, done, cleanup, operation, started, link, used>>
  \/ /\ \E c \in Conns : Transport(c)
     /\ UNCHANGED <<state, daemon, pairs, done, cleanup, operation, started, lease, used, faults>>

Init ==
  /\ state = "stopped" /\ daemon = Nobody
  /\ pairState = "idle" /\ pairing = Nobody /\ done = FALSE
  /\ timer = [p \in Pairings |-> "none"] /\ cleanup = [p \in Pairings |-> "none"]
  /\ at = "idle" /\ conn = Nobody /\ then = "return"
  /\ started = [r \in Runtimes |-> FALSE]
  /\ link = [c \in Conns |-> "none"]
  /\ row \in {Nobody, Other} /\ lapsed = {} /\ beats = {}
  /\ used = {} /\ faults = 0

Operation == StartStep \/ StopStep \/ PairingStep \/ ConnectStep

Next ==
  \/ Operation \/ Callback \/ Environment
  \/ \E p \in Pairings : Cleanup(p)
  \/ \E c \in Conns : Clock(c)

Spec == Init /\ [][Next]_vars

\* An operation and a cleanup thread go on to their end, and time passes.  No
\* operator, Feishu message, transport or other process is obliged.
FairSpec ==
  /\ Spec
  /\ WF_vars(at # "idle" /\ Operation)
  /\ \A p \in Pairings : WF_vars(Cleanup(p))
  /\ \A c \in Conns : WF_vars(Clock(c))

-----------------------------------------------------------------------------
Connected(c) == link[c] \in {"connecting", "up"}

\* Nothing connects to Feishu without the lease, or after the lease has gone to
\* somebody else, unless its own time ran out (M2_FEISHU_SECURITY_MODEL.md:31)
\* or it lingers after a stop that did not wait for its end:
\* not a pairing whose cleanup thread is late, not the runtime that follows it.
ConnectionIsLeased ==
  \A c \in Conns : Connected(c) => row = c \/ c \in lapsed

\* The runtime that is connected is the one the supervisor has, and it never
\* says "stopped" of it once the operation is over; so a stop that fails can be
\* repeated, and no second runtime is started beside the first.
ConnectedIsOwned ==
  \A r \in Runtimes : Connected(r) => daemon = r /\ (at = "idle" => state # "stopped")

\* Pairing and the runtime exclude each other (M3_CONTROL_CENTER_SECURITY.md:46),
\* whatever message, timer or cleanup comes between two steps.
PairingExcludesRuntime == PairingActive => daemon = Nobody

\* The row of a pairing that is over, or of a runtime the supervisor let go, is
\* deleted or runs out, also when its release failed: the next start gets it.
LeaseGetsFree ==
  \A c \in Conns :
    (row = c /\ c \notin {daemon, pairing}) ~> (row # c \/ c \in lapsed \/ c \in {daemon, pairing})
=============================================================================
