---------------------------- MODULE RuntimeLease ----------------------------
(***************************************************************************)
(* The durable writer lease of one native Codex thread, shared by every    *)
(* CFR process through two SQLite tables (CfrThreadRuntimeLeaseManager).   *)
(* Rows of different threads never meet, so one thread is modelled.        *)
(*                                                                         *)
(* A call is one acquire and what becomes of its lease.  acquire and       *)
(* heartbeat read the clock before they open their transaction, and may    *)
(* wait for it, so the time they work with may be old.                     *)
(***************************************************************************)
EXTENDS Naturals

CONSTANTS
  Calls,       \* calls of acquire
  Instances,   \* lease managers, each in a process of its own
  InstanceOf,  \* the manager a call is made on
  NoCall,
  TTL,         \* ttl, in ticks of the clock
  MaxTime,     \* bound on the clock
  MaxFaults    \* bound on SQLite errors and threads that cannot be started

ASSUME LeaseAssumption ==
  /\ InstanceOf \in [Calls -> Instances]
  /\ NoCall \notin Calls
  /\ TTL \in Nat \ {0}
  /\ MaxTime \in Nat /\ MaxFaults \in Nat

VARIABLES
  holder,      \* the call whose lease_id the row carries, NoCall when no row
  rowExpires,  \* expires_at of the row
  generation,  \* cfr_thread_runtime_lease_generations, never deleted
  stage,       \* where each call stands
  now,         \* the clock value a call, or its heartbeat, read last
  gen,         \* lease.generation, 0 before the grant
  expires,     \* lease.expires_at, the last expiry this process confirmed
  lost,        \* lease.lease_lost
  beat,        \* the heartbeat thread of a lease
  alive,       \* the process of an instance exists
  clock,
  faults

row   == <<holder, rowExpires, generation>>
lease == <<gen, expires, lost>>
vars  == <<holder, rowExpires, generation, stage, now, gen, expires, lost,
           beat, alive, clock, faults>>

Stages == {"new", "timed",       \* acquire has read the clock
           "held", "releasing",  \* stop_heartbeat done, row not deleted yet
           "over"}               \* refused, released, or given up
Beats  == {"off", "waiting", "timed", "stopping"}  \* stopping: told to, in flight

TypeOK ==
  /\ holder \in Calls \cup {NoCall}
  /\ rowExpires \in Nat /\ generation \in Nat
  /\ stage \in [Calls -> Stages]
  /\ now \in [Calls -> Nat]
  /\ gen \in [Calls -> Nat]
  /\ expires \in [Calls -> Nat]
  /\ lost \in [Calls -> BOOLEAN]
  /\ beat \in [Calls -> Beats]
  /\ alive \in [Instances -> BOOLEAN]
  /\ clock \in Nat /\ faults \in 0..MaxFaults

Alive(c) == alive[InstanceOf[c]]
Goto(c, s) == stage' = [stage EXCEPT ![c] = s]
Fault   == faults < MaxFaults /\ faults' = faults + 1

-----------------------------------------------------------------------------
\* acquire: now = clock(), before the transaction.
ReadClock(c) ==
  /\ Alive(c) /\ stage[c] = "new"
  /\ now' = [now EXCEPT ![c] = clock]
  /\ Goto(c, "timed")
  /\ UNCHANGED <<row, lease, beat, alive, clock, faults>>

\* An unexpired row of a process that exists refuses the caller.
Blocked_ByAnyPid(t) == holder # NoCall /\ t < rowExpires /\ ~ Alive(holder) \* mutant
Blocked(t) == holder # NoCall /\ t < rowExpires /\ Alive(holder)

\* The generation outlives the row, so that it is never given twice.
NextGeneration == generation + 1

Grant(c) ==
  /\ Alive(c) /\ stage[c] = "timed"
  /\ ~ Blocked(now[c])
  /\ generation' = NextGeneration
  /\ holder' = c
  /\ rowExpires' = now[c] + TTL
  /\ gen' = [gen EXCEPT ![c] = NextGeneration]
  /\ expires' = [expires EXCEPT ![c] = now[c] + TTL]
  /\ Goto(c, "held")
  /\ UNCHANGED <<now, lost, beat, alive, clock, faults>>

\* CFR_RUNTIME_WRITER_ACTIVE, or CFR_RUNTIME_LEASE_BUSY after a SQLite error.
Refuse(c) ==
  /\ Alive(c) /\ stage[c] = "timed"
  /\ \/ Blocked(now[c]) /\ UNCHANGED faults
     \/ Fault
  /\ Goto(c, "over")
  /\ UNCHANGED <<row, lease, now, beat, alive, clock>>

StartHeartbeat(c) ==
  /\ Alive(c) /\ stage[c] = "held" /\ beat[c] = "off" /\ ~ lost[c]
  /\ beat' = [beat EXCEPT ![c] = "waiting"]
  /\ UNCHANGED <<row, lease, stage, now, alive, clock, faults>>

\* The thread cannot be started, and the release that is to follow raises when it
\* joins it: the row is left to its expiry.
StartFails(c) ==
  /\ Alive(c) /\ stage[c] = "held" /\ beat[c] = "off" /\ Fault
  /\ Goto(c, "over")
  /\ UNCHANGED <<row, lease, now, beat, alive, clock>>

\* heartbeat: now = clock(), before the transaction.
BeatReadClock(c) ==
  /\ Alive(c) /\ beat[c] = "waiting"
  /\ now' = [now EXCEPT ![c] = clock]
  /\ beat' = [beat EXCEPT ![c] = "timed"]
  /\ UNCHANGED <<row, lease, stage, alive, clock, faults>>

InBeat(c) == Alive(c) /\ beat[c] \in {"timed", "stopping"}
Rest(c) == beat' = [beat EXCEPT ![c] = IF @ = "timed" THEN "waiting" ELSE "off"]

\* where thread_id=? and lease_id=? and generation=? and owner_instance_id=?
Matches_Owner(c) == holder # NoCall /\ InstanceOf[holder] = InstanceOf[c]  \* mutant
Matches(c) == holder = c

RenewRow(c) ==
  /\ rowExpires' = now[c] + TTL
  /\ expires' = [expires EXCEPT ![c] = now[c] + TTL]

Renew(c) ==
  /\ InBeat(c) /\ Matches(c)
  /\ RenewRow(c)
  /\ Rest(c)
  /\ UNCHANGED <<holder, generation, stage, now, gen, lost, alive, clock, faults>>

Lose(c) ==
  /\ lost' = [lost EXCEPT ![c] = TRUE]
  /\ beat' = [beat EXCEPT ![c] = "off"]
  /\ UNCHANGED <<row, gen, expires, stage, now, alive, clock>>

\* The row is another call's, or gone: ownership is lost.
FindLost(c) == InBeat(c) /\ ~ Matches(c) /\ Lose(c) /\ UNCHANGED faults

\* A SQLite error is survived until the last confirmed expiry.
BeatFails(c) ==
  /\ InBeat(c) /\ Fault
  /\ IF clock < expires[c]
     THEN Rest(c) /\ UNCHANGED <<row, lease, stage, now, alive, clock>>
     ELSE Lose(c)

\* release: stop_heartbeat joins the thread for two seconds; a beat that waits
\* for its transaction may outlive the join.
StopHeartbeat(c) ==
  beat' = [beat EXCEPT ![c] = IF @ \in {"timed", "stopping"} THEN "stopping" ELSE "off"]
Release(c) ==
  /\ Alive(c) /\ stage[c] = "held"
  /\ StopHeartbeat(c)
  /\ Goto(c, "releasing")
  /\ UNCHANGED <<row, lease, now, alive, clock, faults>>

\* The delete has the condition of the heartbeat; three SQLite errors in a row,
\* counted as one fault, leave the row to its expiry.
Delete(c) ==
  /\ Alive(c) /\ stage[c] = "releasing"
  /\ \/ /\ holder' = IF Matches(c) THEN NoCall ELSE holder
        /\ UNCHANGED faults
     \/ Fault /\ UNCHANGED holder
  /\ Goto(c, "over")
  /\ UNCHANGED <<rowExpires, generation, lease, now, beat, alive, clock>>

\* close: the manager stops its heartbeats and deletes no row.
Close(i) ==
  /\ alive[i]
  /\ beat' = [c \in Calls |->
       IF InstanceOf[c] # i THEN beat[c]
       ELSE IF beat[c] \in {"timed", "stopping"} THEN "stopping" ELSE "off"]
  /\ UNCHANGED <<row, lease, stage, now, alive, clock, faults>>

Crash(i) ==
  /\ alive[i]
  /\ alive' = [alive EXCEPT ![i] = FALSE]
  /\ UNCHANGED <<row, lease, stage, now, beat, clock, faults>>

Tick ==
  /\ clock < MaxTime
  /\ clock' = clock + 1
  /\ UNCHANGED <<row, lease, stage, now, beat, alive, faults>>

-----------------------------------------------------------------------------
Init ==
  /\ holder = NoCall /\ rowExpires = 0 /\ generation = 0
  /\ stage = [c \in Calls |-> "new"]
  /\ now = [c \in Calls |-> 0]
  /\ gen = [c \in Calls |-> 0]
  /\ expires = [c \in Calls |-> 0]
  /\ lost = [c \in Calls |-> FALSE]
  /\ beat = [c \in Calls |-> "off"]
  /\ alive = [i \in Instances |-> TRUE]
  /\ clock = 0 /\ faults = 0

Beat(c) == BeatReadClock(c) \/ Renew(c) \/ FindLost(c) \/ BeatFails(c)

Next ==
  \/ \E c \in Calls :
       \/ ReadClock(c) \/ Grant(c) \/ Refuse(c)
       \/ StartHeartbeat(c) \/ StartFails(c) \/ Beat(c)
       \/ Release(c) \/ Delete(c)
  \/ \E i \in Instances : Close(i) \/ Crash(i)
  \/ Tick

Spec == Init /\ [][Next]_vars

-----------------------------------------------------------------------------
\* The lease a call may still write under: granted, not released, not lost,
\* and not past the expiry its process confirmed last.
Confirmed(c) ==
  Alive(c) /\ stage[c] = "held" /\ ~ lost[c] /\ clock < expires[c]

\* The row and the lease its holder keeps agree, generations are not shared,
\* and no call works with a time yet to come.
RowAgrees ==
  /\ holder # NoCall =>
       /\ stage[holder] \in {"held", "releasing", "over"}
       /\ gen[holder] = generation /\ generation > 0
       /\ rowExpires = expires[holder]
  /\ \A c \in Calls :
       /\ now[c] <= clock
       /\ gen[c] <= generation
       /\ stage[c] \in {"new", "timed"} => gen[c] = 0

\* A confirmed lease is the one in the table, whatever old clock values,
\* overtaken heartbeats and failed deletes there are about; so two processes
\* never hold confirmed leases of one thread.
ConfirmedHolds == \A c \in Calls : Confirmed(c) => holder = c

\* The inductive invariant of the lease.
LeaseInv == TypeOK /\ RowAgrees /\ ConfirmedHolds

\* A call whose row went to another call never gets it back: what it still
\* sends, a heartbeat or a delete, is fenced off.
OvertakenStaysOut ==
  [][\A c \in Calls : gen[c] # 0 /\ holder # c => holder' # c]_vars

\* Every grant has a generation larger than any before it, though the row that
\* carried the last one may be gone.
FreshGeneration ==
  [][\A c \in Calls : gen'[c] # gen[c] => \A d \in Calls : gen[d] < gen'[c]]_vars

EntitledCall ==
  IF holder # NoCall /\ Confirmed(holder) THEN holder ELSE NoCall

Lock == INSTANCE FencedLock WITH
          entitled <- EntitledCall, epoch <- generation, epochOf <- gen

\* The lease is a fenced lock: the confirmed call is the entitled one.
ImplementsLock == Lock!Spec
=============================================================================
