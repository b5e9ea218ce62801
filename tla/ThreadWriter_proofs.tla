------------------------- MODULE ThreadWriter_proofs -------------------------
(***************************************************************************)
(* Proofs about the durable thread lease and its writers.  Of the lease:   *)
(* its inductive invariant, that a confirmed lease is the row, that an     *)
(* overtaken call stays out, that generations are never reused, and that   *)
(* it implements the fenced lock of FencedLock.  Of the writers: that they *)
(* make no step the lease does not have, so that all of this holds of      *)
(* them, and that two of one process never write at once.                  *)
(***************************************************************************)
EXTENDS ThreadWriter, TLAPS

USE DEF Alive, Goto, Fault, row, lease

\* The initial tables and leases satisfy the invariant.
LEMMA InitInv == Init => LeaseInv
BY LeaseAssumption DEF Init, LeaseInv, TypeOK, RowAgrees, ConfirmedHolds,
   Confirmed, Stages, Beats

\* Every step keeps the types: each variable gets a value of the kind the code
\* writes to it.
LEMMA TypeStep == TypeOK /\ [Next]_vars => TypeOK'
<1> SUFFICES ASSUME TypeOK, [Next]_vars PROVE TypeOK'
  OBVIOUS
<1> USE LeaseAssumption DEF TypeOK, Stages, Beats
<1>1. ASSUME NEW c \in Calls, ReadClock(c) PROVE TypeOK'
  BY <1>1 DEF ReadClock
<1>2. ASSUME NEW c \in Calls, Grant(c) PROVE TypeOK'
  BY <1>2 DEF Grant, NextGeneration
<1>3. ASSUME NEW c \in Calls, Refuse(c) PROVE TypeOK'
  BY <1>3 DEF Refuse
<1>4. ASSUME NEW c \in Calls, StartHeartbeat(c) \/ StartFails(c) PROVE TypeOK'
  BY <1>4 DEF StartHeartbeat, StartFails
<1>5. ASSUME NEW c \in Calls, BeatReadClock(c) PROVE TypeOK'
  BY <1>5 DEF BeatReadClock
<1>6. ASSUME NEW c \in Calls, Renew(c) PROVE TypeOK'
  BY <1>6 DEF Renew, RenewRow, Rest
<1>7. ASSUME NEW c \in Calls, FindLost(c) PROVE TypeOK'
  BY <1>7 DEF FindLost, Lose
<1>8. ASSUME NEW c \in Calls, BeatFails(c) PROVE TypeOK'
  <2>1. CASE clock < expires[c]
    BY <1>8, <2>1 DEF BeatFails, Rest
  <2>2. CASE ~ (clock < expires[c])
    <3>1. Lose(c) /\ faults < MaxFaults /\ faults' = faults + 1
      BY <1>8, <2>2 DEF BeatFails
    <3> QED BY <3>1 DEF Lose
  <2> QED BY <2>1, <2>2
<1>9. ASSUME NEW c \in Calls, Release(c) PROVE TypeOK'
  BY <1>9 DEF Release, StopHeartbeat
<1>10. ASSUME NEW c \in Calls, Delete(c) PROVE TypeOK'
  BY <1>10 DEF Delete
<1>11. ASSUME NEW i \in Instances, Close(i) PROVE TypeOK'
  BY <1>11 DEF Close
<1>12. ASSUME NEW i \in Instances, Crash(i) PROVE TypeOK'
  BY <1>12 DEF Crash
<1>13. CASE Tick
  BY <1>13 DEF Tick
<1>14. CASE UNCHANGED vars
  BY <1>14 DEF vars
<1> QED
  BY <1>1, <1>2, <1>3, <1>4, <1>5, <1>6, <1>7, <1>8, <1>9, <1>10, <1>11,
     <1>12, <1>13, <1>14 DEF Next, Beat

\* Every step keeps row, leases and clock values in agreement.
LEMMA RowStep == LeaseInv /\ [Next]_vars => RowAgrees'
<1> SUFFICES ASSUME LeaseInv, [Next]_vars PROVE RowAgrees'
  OBVIOUS
<1> USE LeaseAssumption DEF LeaseInv, TypeOK, RowAgrees, Stages, Beats
<1>1. ASSUME NEW c \in Calls, ReadClock(c) PROVE RowAgrees'
  BY <1>1 DEF ReadClock
<1>2. ASSUME NEW c \in Calls, Grant(c) PROVE RowAgrees'
  BY <1>2 DEF Grant, NextGeneration
<1>3. ASSUME NEW c \in Calls, Refuse(c) PROVE RowAgrees'
  BY <1>3 DEF Refuse
<1>4. ASSUME NEW c \in Calls, StartHeartbeat(c) \/ StartFails(c) PROVE RowAgrees'
  BY <1>4 DEF StartHeartbeat, StartFails
<1>5. ASSUME NEW c \in Calls, BeatReadClock(c) PROVE RowAgrees'
  BY <1>5 DEF BeatReadClock
<1>6. ASSUME NEW c \in Calls, Renew(c) PROVE RowAgrees'
  BY <1>6 DEF Renew, RenewRow, Matches
<1>7. ASSUME NEW c \in Calls, FindLost(c) PROVE RowAgrees'
  BY <1>7 DEF FindLost, Lose
<1>8. ASSUME NEW c \in Calls, BeatFails(c) PROVE RowAgrees'
  BY <1>8 DEF BeatFails, Rest, Lose
<1>9. ASSUME NEW c \in Calls, Release(c) PROVE RowAgrees'
  BY <1>9 DEF Release
<1>10. ASSUME NEW c \in Calls, Delete(c) PROVE RowAgrees'
  BY <1>10 DEF Delete, Matches
<1>11. ASSUME NEW i \in Instances, Close(i) PROVE RowAgrees'
  BY <1>11 DEF Close
<1>12. ASSUME NEW i \in Instances, Crash(i) PROVE RowAgrees'
  BY <1>12 DEF Crash
<1>13. CASE Tick
  BY <1>13 DEF Tick
<1>14. CASE UNCHANGED vars
  BY <1>14 DEF vars
<1> QED
  BY <1>1, <1>2, <1>3, <1>4, <1>5, <1>6, <1>7, <1>8, <1>9, <1>10, <1>11,
     <1>12, <1>13, <1>14 DEF Next, Beat

\* Every step keeps confirmed leases in the table: a grant that takes the row
\* away has read a clock past the holder's expiry, or found its process gone.
LEMMA ConfirmedStep == LeaseInv /\ [Next]_vars => ConfirmedHolds'
<1> SUFFICES ASSUME LeaseInv, [Next]_vars PROVE ConfirmedHolds'
  OBVIOUS
<1> USE LeaseAssumption
    DEF LeaseInv, TypeOK, RowAgrees, ConfirmedHolds, Confirmed, Stages, Beats
<1>1. ASSUME NEW c \in Calls, ReadClock(c) PROVE ConfirmedHolds'
  BY <1>1 DEF ReadClock
<1>2. ASSUME NEW c \in Calls, Grant(c) PROVE ConfirmedHolds'
  <2> SUFFICES ASSUME NEW d \in Calls, Confirmed(d)', d # c PROVE FALSE
    BY <1>2 DEF Grant
  <2>1. Confirmed(d) /\ holder = d
    BY <1>2 DEF Grant
  <2>2. now[c] >= rowExpires
    BY <1>2, <2>1 DEF Grant, Blocked
  <2> QED BY <2>1, <2>2
<1>3. ASSUME NEW c \in Calls, Refuse(c) PROVE ConfirmedHolds'
  BY <1>3 DEF Refuse
<1>4. ASSUME NEW c \in Calls, StartHeartbeat(c) \/ StartFails(c) PROVE ConfirmedHolds'
  BY <1>4 DEF StartHeartbeat, StartFails
<1>5. ASSUME NEW c \in Calls, BeatReadClock(c) PROVE ConfirmedHolds'
  BY <1>5 DEF BeatReadClock
<1>6. ASSUME NEW c \in Calls, Renew(c) PROVE ConfirmedHolds'
  BY <1>6 DEF Renew, RenewRow, Matches
<1>7. ASSUME NEW c \in Calls, FindLost(c) PROVE ConfirmedHolds'
  BY <1>7 DEF FindLost, Lose
<1>8. ASSUME NEW c \in Calls, BeatFails(c) PROVE ConfirmedHolds'
  BY <1>8 DEF BeatFails, Rest, Lose
<1>9. ASSUME NEW c \in Calls, Release(c) PROVE ConfirmedHolds'
  BY <1>9 DEF Release
<1>10. ASSUME NEW c \in Calls, Delete(c) PROVE ConfirmedHolds'
  BY <1>10 DEF Delete, Matches
<1>11. ASSUME NEW i \in Instances, Close(i) PROVE ConfirmedHolds'
  BY <1>11 DEF Close
<1>12. ASSUME NEW i \in Instances, Crash(i) PROVE ConfirmedHolds'
  BY <1>12 DEF Crash
<1>13. CASE Tick
  BY <1>13 DEF Tick
<1>14. CASE UNCHANGED vars
  BY <1>14 DEF vars
<1> QED
  BY <1>1, <1>2, <1>3, <1>4, <1>5, <1>6, <1>7, <1>8, <1>9, <1>10, <1>11,
     <1>12, <1>13, <1>14 DEF Next, Beat

\* The invariant of the lease is inductive.
THEOREM LeaseInvariant == Spec => []LeaseInv
<1>1. LeaseInv /\ [Next]_vars => LeaseInv'
  BY TypeStep, RowStep, ConfirmedStep DEF LeaseInv
<1> QED BY InitInv, <1>1, PTL DEF Spec

\* A call that may still believe in its lease has the row; two processes never
\* write under confirmed leases of one thread (acquire, heartbeat, release).
THEOREM ConfirmedLeaseIsTheRow == Spec => []ConfirmedHolds
<1>1. LeaseInv => ConfirmedHolds
  BY DEF LeaseInv
<1> QED BY LeaseInvariant, <1>1, PTL

\* The row and the holder's own record of it agree in every state.
THEOREM RowAgreesAlways == Spec => []RowAgrees
<1>1. LeaseInv => RowAgrees
  BY DEF LeaseInv
<1> QED BY LeaseInvariant, <1>1, PTL

-----------------------------------------------------------------------------
\* What a step can do to row and generations: nothing, empty the row, or grant.
LEMMA StepCases ==
  ASSUME LeaseInv, [Next]_vars
  PROVE  \/ \E c \in Calls : Grant(c)
         \/ holder' \in {holder, NoCall} /\ UNCHANGED <<generation, gen>>
<1>1. ASSUME NEW c \in Calls, BeatFails(c)
      PROVE holder' \in {holder, NoCall} /\ UNCHANGED <<generation, gen>>
  BY <1>1 DEF BeatFails, Lose
<1>2. ASSUME NEW c \in Calls, Delete(c)
      PROVE holder' \in {holder, NoCall} /\ UNCHANGED <<generation, gen>>
  BY <1>2 DEF Delete
<1>3. ASSUME NEW c \in Calls,
             ReadClock(c) \/ Refuse(c) \/ StartHeartbeat(c) \/ StartFails(c)
               \/ BeatReadClock(c) \/ Renew(c) \/ FindLost(c) \/ Release(c)
      PROVE holder' \in {holder, NoCall} /\ UNCHANGED <<generation, gen>>
  BY <1>3 DEF ReadClock, Refuse, StartHeartbeat, StartFails, BeatReadClock, Renew,
     FindLost, Lose, Release
<1>4. CASE (\E i \in Instances : Close(i) \/ Crash(i)) \/ Tick \/ UNCHANGED vars
  BY <1>4 DEF Close, Crash, Tick, vars
<1> QED BY <1>1, <1>2, <1>3, <1>4 DEF Next, Beat

\* A call whose row was taken or deleted never has it again: late heartbeats
\* and deletes are fenced off by lease_id and generation.
THEOREM OvertakenCallsStayOut == Spec => OvertakenStaysOut
<1>1. LeaseInv /\ [Next]_vars
        => [\A c \in Calls : gen[c] # 0 /\ holder # c => holder' # c]_vars
  <2> SUFFICES ASSUME LeaseInv, [Next]_vars, NEW c \in Calls,
                      gen[c] # 0, holder # c
               PROVE  holder' # c
    OBVIOUS
  <2>1. ASSUME NEW d \in Calls, Grant(d) PROVE holder' # c
    BY <2>1 DEF Grant, LeaseInv, RowAgrees
  <2>2. CASE holder' \in {holder, NoCall}
    BY <2>2, LeaseAssumption
  <2> QED BY <2>1, <2>2, StepCases
<1> QED BY LeaseInvariant, <1>1, PTL DEF Spec, OvertakenStaysOut

\* No generation is given twice, though the row that carried it is deleted.
THEOREM GenerationsAreFresh == Spec => FreshGeneration
<1>1. LeaseInv /\ [Next]_vars
        => [\A c \in Calls : gen'[c] # gen[c] =>
              \A d \in Calls : gen[d] < gen'[c]]_vars
  <2> SUFFICES ASSUME LeaseInv, [Next]_vars, NEW c \in Calls, gen'[c] # gen[c],
                      NEW d \in Calls
               PROVE  gen[d] < gen'[c]
    OBVIOUS
  <2>1. ASSUME NEW g \in Calls, Grant(g) PROVE gen[d] < gen'[c]
    BY <2>1 DEF Grant, NextGeneration, LeaseInv, RowAgrees, TypeOK
  <2>2. CASE UNCHANGED gen
    BY <2>2
  <2> QED BY <2>1, <2>2, StepCases
<1> QED BY LeaseInvariant, <1>1, PTL DEF Spec, FreshGeneration

-----------------------------------------------------------------------------
\* A grant is a grant of the lock: nobody is entitled before it.
LEMMA GrantMaps ==
  ASSUME LeaseInv, LeaseInv', NEW c \in Calls, Grant(c)
  PROVE  Lock!Grant(c)
<1>1. EntitledCall = NoCall
  <2> SUFFICES ASSUME holder # NoCall, Confirmed(holder) PROVE FALSE
    BY DEF EntitledCall
  <2>1. holder \in Calls
    BY DEF LeaseInv, TypeOK
  <2>2. now[c] >= rowExpires
    BY <2>1 DEF Grant, Blocked, Confirmed, LeaseInv, TypeOK
  <2> QED BY <2>1, <2>2 DEF Confirmed, LeaseInv, TypeOK, RowAgrees
<1>2. EntitledCall' \in {c, NoCall}
  BY DEF Grant, EntitledCall
<1>3. gen[c] = 0 /\ generation' = generation + 1
      /\ gen' = [gen EXCEPT ![c] = generation']
  BY DEF Grant, NextGeneration, LeaseInv, RowAgrees
<1> QED BY <1>1, <1>2, <1>3 DEF Lock!Grant

\* Any other step lets an entitlement lapse, brings back the one of the last
\* epoch, or changes nothing the lock shows.
LEMMA OtherMaps ==
  ASSUME LeaseInv, LeaseInv', holder' \in {holder, NoCall},
         UNCHANGED <<generation, gen>>
  PROVE  [Lock!Next]_(Lock!vars)
<1>1. CASE EntitledCall' = EntitledCall
  BY <1>1 DEF Lock!vars
<1>2. CASE EntitledCall' = NoCall /\ EntitledCall # NoCall
  BY <1>2 DEF Lock!Next, Lock!Lapse
<1>3. CASE EntitledCall' # NoCall /\ EntitledCall' # EntitledCall
  <2>1. EntitledCall' = holder /\ holder \in Calls
    BY <1>3 DEF EntitledCall, LeaseInv, TypeOK
  <2>2. EntitledCall = NoCall
    BY <1>3, <2>1 DEF EntitledCall
  <2>3. gen[holder] = generation /\ generation > 0
    BY <2>1, LeaseAssumption DEF LeaseInv, RowAgrees
  <2>4. Lock!Renew(holder)
    BY <2>1, <2>2, <2>3 DEF Lock!Renew
  <2> QED BY <2>1, <2>4 DEF Lock!Next
<1> QED BY <1>1, <1>2, <1>3

\* The table, its clocks and its heartbeats implement the fenced lock.
THEOREM LeaseImplementsLock == Spec => ImplementsLock
<1>1. Init => Lock!Init
  BY DEF Init, Lock!Init, EntitledCall
<1>2. LeaseInv /\ LeaseInv' /\ [Next]_vars => [Lock!Next]_(Lock!vars)
  <2> SUFFICES ASSUME LeaseInv, LeaseInv', [Next]_vars
               PROVE  [Lock!Next]_(Lock!vars)
    OBVIOUS
  <2>1. ASSUME NEW c \in Calls, Grant(c) PROVE [Lock!Next]_(Lock!vars)
    BY <2>1, GrantMaps DEF Lock!Next
  <2> QED BY <2>1, StepCases, OtherMaps
<1> QED BY LeaseInvariant, <1>1, <1>2, PTL DEF Spec, Lock!Spec, ImplementsLock

-----------------------------------------------------------------------------
(* The writers.                                                            *)

\* An operation that has marked the writer state of its process and will unmark it.
Marks(c) == at[c] \in {"resuming", "writing", "cleanup", "closing"}

\* Without Codex Desktop the writer state of a process is the mark of one
\* operation, from its acquire to its release.
MarkInv ==
  ~ desktop =>
    /\ \A i \in Instances : mode[i] # "external_active"
    /\ \A c \in Calls : Marks(c) => Mode(c) = "cfr_active"
    /\ \A c \in Calls, d \in Calls :
         Marks(c) /\ Marks(d) /\ InstanceOf[c] = InstanceOf[d] => c = d

WriterTypeOK ==
  /\ mode \in [Instances -> Modes]
  /\ at \in [Calls -> Steps]

WriterInv == WriterTypeOK /\ MarkInv

\* A step of an operation is a step of the lease, or none (CodexAdapter calls
\* acquire, start_heartbeat and release, and nothing else of the manager).
LEMMA WriterStepIsLeaseStep == WriterNext => [Next]_vars
<1>1. ASSUME NEW c \in Calls, Operation(c) PROVE [Next]_vars
  <2>1. \/ ReadClock(c) \/ Grant(c) \/ Refuse(c) \/ StartHeartbeat(c)
        \/ StartFails(c) \/ Release(c) \/ Delete(c) \/ UNCHANGED vars
    BY <1>1 DEF Operation, Begin, Lease, Join, Look, Mark, Resume, Write, ReadMode,
                Unmark, Free, Forget
  <2> QED BY <2>1 DEF Next
<1>2. ASSUME NEW c \in Calls, Beat(c) PROVE [Next]_vars
  BY <1>2 DEF Next
<1>3. ASSUME NEW i \in Instances, Close(i) \/ Crash(i) PROVE [Next]_vars
  BY <1>3 DEF Next
<1>4. CASE Tick
  BY <1>4 DEF Next
<1> QED BY <1>1, <1>2, <1>3, <1>4 DEF WriterNext

\* The writers and their heartbeats use the lease as RuntimeLease says: every
\* theorem about it is one about them.
THEOREM WritersKeepTheLease == WriterSpec => Spec
<1>1. WriterInit => Init
  BY DEF WriterInit
<1>2. [WriterNext]_allVars => [Next]_vars
  BY WriterStepIsLeaseStep DEF allVars
<1> QED BY <1>1, <1>2, PTL DEF WriterSpec, Spec

\* No writer process works under a confirmed lease that is not the row.
COROLLARY WritersHoldConfirmedLeases == WriterSpec => []ConfirmedHolds
BY WritersKeepTheLease, ConfirmedLeaseIsTheRow, PTL

\* send_message and update_thread_settings, their heartbeats, crashes and clocks
\* implement the fenced lock.
COROLLARY WritersImplementLock == WriterSpec => ImplementsLock
BY WritersKeepTheLease, LeaseImplementsLock, PTL

\* What a step does to the mark of its process, and to the marks it counts.
LEMMA MarkStep ==
  ASSUME WriterInv, NEW c \in Calls, Operation(c)
  PROVE  WriterInv'
<1> USE WriterAssumption, LeaseAssumption
    DEF WriterInv, WriterTypeOK, MarkInv, Marks, Mode, Modes, Steps, Running, To, SetMode
<1>0. UNCHANGED desktop
  BY DEF Operation
<1>1. CASE Begin(c)
  BY <1>0, <1>1 DEF Begin
<1>2. CASE Lease(c)
  BY <1>0, <1>2 DEF Lease
<1>3. CASE Join(c)
  BY <1>0, <1>3 DEF Join
<1>4. CASE Look(c)
  BY <1>0, <1>4 DEF Look
<1>5. CASE Mark(c)
  BY <1>0, <1>5 DEF Mark, Markable, AfterConflict
<1>6. CASE Resume(c)
  BY <1>0, <1>6 DEF Resume, RecoveredMode
<1>7. CASE Write(c)
  BY <1>0, <1>7 DEF Write
<1>8. CASE ReadMode(c)
  BY <1>0, <1>8 DEF ReadMode
<1>9. CASE Unmark(c)
  BY <1>0, <1>9 DEF Unmark, ReleaseMode
<1>10. CASE Free(c)
  BY <1>0, <1>10 DEF Free
<1>11. CASE Forget(c)
  BY <1>0, <1>11 DEF Forget
<1> QED
  BY <1>1, <1>2, <1>3, <1>4, <1>5, <1>6, <1>7, <1>8, <1>9, <1>10, <1>11 DEF Operation

\* Two operations of one process never write at once while Codex Desktop is
\* away, whatever the lease table lets in (WriterLeaseManager).
THEOREM ProcessHasOneWriter == WriterSpec => []OneWriterInProcess
<1>1. WriterInit => WriterInv
  BY LeaseAssumption DEF WriterInit, WriterInv, WriterTypeOK, MarkInv, Marks, Modes, Steps
<1>2. WriterInv /\ [WriterNext]_allVars => WriterInv'
  <2> SUFFICES ASSUME WriterInv, [WriterNext]_allVars PROVE WriterInv'
    OBVIOUS
  <2>1. CASE \E c \in Calls : Operation(c)
    BY <2>1, MarkStep
  <2>2. CASE UNCHANGED writer
    BY <2>2 DEF writer, WriterInv, WriterTypeOK, MarkInv, Marks, Mode
  <2> QED BY <2>1, <2>2 DEF WriterNext, allVars
<1>3. WriterInv => OneWriterInProcess
  BY DEF WriterInv, MarkInv, Marks, OneWriterInProcess
<1> QED BY <1>1, <1>2, <1>3, PTL DEF WriterSpec
=============================================================================
