---------------------------- MODULE ThreadWriter ----------------------------
(***************************************************************************)
(* The writers of one native Codex thread: CodexAdapter.send_message and   *)
(* update_thread_settings.  Each takes the durable lease (RuntimeLease),   *)
(* then the writer state its process keeps (WriterLeaseManager), resumes   *)
(* the thread in an app-server of its own, writes, and cleans up.          *)
(*                                                                         *)
(* The steps of an operation conjoin the lease steps they make; heartbeats,*)
(* crashes and time are the lease's own.  Codex Desktop is external: it    *)
(* uses the thread as well or does not, and if it does, any resume may be  *)
(* refused because of an active writer.                                    *)
(***************************************************************************)
EXTENDS RuntimeLease

CONSTANT
  IsSend   \* a call is send_message, not update_thread_settings

ASSUME WriterAssumption == IsSend \in [Calls -> BOOLEAN]

VARIABLES
  desktop,  \* Codex Desktop, an external writer, uses the thread; never changes
  mode,     \* WriterLeaseManager._states of an instance
  at,       \* where each operation stands
  seen,     \* the mode its finally block read
  result    \* what its caller gets

writer == <<desktop, mode, at, seen, result>>
allVars == <<vars, writer>>

Modes == {"idle", "cfr_active", "external_active"}
Steps == {"start",     \* before the durable acquire
          "leasing",   \* in the durable acquire
          "leased",    \* has the durable lease
          "joining",   \* heartbeat started
          "marking",   \* about to acquire the writer state
          "resuming",  \* in thread/resume
          "writing",   \* in run_turn, or thread/settings/update
          "cleanup",   \* entered the finally block
          "closing",   \* read the writer state; in client.close
          "freeing",   \* about to release the durable lease
          "deleting",  \* in the durable release
          "done"}

Mode(c) == mode[InstanceOf[c]]
SetMode(c, m) == mode' = [mode EXCEPT ![InstanceOf[c]] = m]
To(c, s) == at' = [at EXCEPT ![c] = s]
Raise(c) == result' = [result EXCEPT ![c] = "error"]
Running(c, s) == Alive(c) /\ at[c] = s

-----------------------------------------------------------------------------
\* update_thread_settings refuses a thread it knows to have an external writer;
\* send_message goes on, the resume will tell.
Begin(c) ==
  /\ Running(c, "start")
  /\ \/ /\ ~ IsSend[c] /\ Mode(c) = "external_active"
        /\ To(c, "done") /\ Raise(c) /\ UNCHANGED vars
     \/ /\ IsSend[c] \/ Mode(c) # "external_active"
        /\ To(c, "leasing") /\ ReadClock(c) /\ UNCHANGED result
  /\ UNCHANGED <<mode, seen>>

Lease(c) ==
  /\ Running(c, "leasing")
  /\ \/ Grant(c) /\ To(c, "leased") /\ UNCHANGED result
     \/ Refuse(c) /\ To(c, "done") /\ Raise(c)
  /\ UNCHANGED <<mode, seen>>

Join(c) ==
  /\ Running(c, "leased")
  /\ \/ StartHeartbeat(c) /\ To(c, "joining") /\ UNCHANGED result
     \/ StartFails(c) /\ To(c, "done") /\ Raise(c)
  /\ UNCHANGED <<mode, seen>>

\* send_message looks at the writer state, then acquires it unless external.
Look(c) ==
  /\ Running(c, "joining")
  /\ To(c, IF IsSend[c] /\ Mode(c) = "external_active" THEN "resuming" ELSE "marking")
  /\ UNCHANGED <<vars, mode, seen, result>>

\* WriterLeaseManager.acquire raises unless idle.  Only send_message gives the
\* durable lease back then.
Markable_Anyhow(m) == m # "external_active"                      \* mutant
Markable(m) == m = "idle"
AfterConflict(c) == IF IsSend[c] THEN "freeing" ELSE "done"
Mark(c) ==
  /\ Running(c, "marking")
  /\ IF Markable(Mode(c))
     THEN SetMode(c, "cfr_active") /\ To(c, "resuming") /\ UNCHANGED result
     ELSE To(c, AfterConflict(c)) /\ Raise(c) /\ UNCHANGED mode
  /\ UNCHANGED <<vars, seen>>

\* thread/resume: refused by an active writer, failed, or answered; an answer
\* turns an external state back, and a lost lease stops the operation.
RecoveredMode(m) == IF m = "external_active" THEN "cfr_active" ELSE m
Resume(c) ==
  /\ Running(c, "resuming")
  /\ \/ desktop /\ SetMode(c, "external_active") /\ To(c, "cleanup") /\ Raise(c)
     \/ To(c, "cleanup") /\ Raise(c) /\ UNCHANGED mode
     \/ /\ SetMode(c, RecoveredMode(Mode(c)))
        /\ IF lost[c] THEN To(c, "cleanup") /\ Raise(c)
                            ELSE To(c, "writing") /\ UNCHANGED result
  /\ UNCHANGED <<vars, seen>>

\* The turn, or the update, ends; its result is good only under a lease that
\* is not known to be lost.
Write(c) ==
  /\ Running(c, "writing")
  /\ \E r \in {"ok", "error"} :
       result' = [result EXCEPT ![c] = IF lost[c] THEN "error" ELSE r]
  /\ To(c, "cleanup")
  /\ UNCHANGED <<vars, mode, seen>>

\* The finally block reads the writer state before it closes the client.
ReadMode(c) ==
  /\ Running(c, "cleanup")
  /\ seen' = [seen EXCEPT ![c] = Mode(c)]
  /\ To(c, "closing")
  /\ UNCHANGED <<vars, mode, result>>

\* leases.release pops the state, whosever it is by now.
ReleaseMode(m) == m = "cfr_active"
Unmark(c) ==
  /\ Running(c, "closing")
  /\ IF ReleaseMode(seen[c]) THEN SetMode(c, "idle") ELSE UNCHANGED mode
  /\ To(c, "freeing")
  /\ UNCHANGED <<vars, seen, result>>

Free(c) ==
  /\ Running(c, "freeing")
  /\ Release(c)
  /\ To(c, "deleting")
  /\ UNCHANGED <<mode, seen, result>>

\* A release that deletes no row raises CFR_RUNTIME_LEASE_RELEASE_FAILED.
Forget_Retrying(c) ==   \* mutant: waits for a row to delete
  /\ Running(c, "deleting")
  /\ Matches(c) /\ Delete(c)
  /\ To(c, "done")
  /\ UNCHANGED <<mode, seen, result>>
Forget(c) ==
  /\ Running(c, "deleting")
  /\ Delete(c)
  /\ IF Matches(c) /\ UNCHANGED faults THEN UNCHANGED result ELSE Raise(c)
  /\ To(c, "done")
  /\ UNCHANGED <<mode, seen>>

Operation(c) ==
  /\ \/ Begin(c) \/ Lease(c) \/ Join(c) \/ Look(c) \/ Mark(c) \/ Resume(c)
     \/ Write(c) \/ ReadMode(c) \/ Unmark(c) \/ Free(c) \/ Forget(c)
  /\ UNCHANGED desktop

WriterInit ==
  /\ Init
  /\ desktop \in BOOLEAN
  /\ mode = [i \in Instances |-> "idle"]
  /\ at = [c \in Calls |-> "start"]
  /\ seen = [c \in Calls |-> "idle"]
  /\ result = [c \in Calls |-> "none"]

WriterNext ==
  \/ \E c \in Calls : Operation(c)
  \/ /\ \/ \E c \in Calls : Beat(c)
        \/ \E i \in Instances : Crash(i) \/ Close(i)
        \/ Tick
     /\ UNCHANGED writer

WriterSpec == WriterInit /\ [][WriterNext]_allVars

\* Operations and heartbeats run on; the app-server answers or times out.
\* Neither Desktop, crashes, SQLite errors nor time are obliged.
FairWriterSpec ==
  /\ WriterSpec
  /\ \A c \in Calls : WF_allVars(Operation(c))

-----------------------------------------------------------------------------
\* Two operations of one process never write at once, not even when the lease
\* of the first has expired and the table lets the second in.  It needs Codex
\* Desktop away: an external state makes send_message skip the process lease.
OneWriterInProcess ==
  \A c, d \in Calls :
    /\ ~ desktop
    /\ InstanceOf[c] = InstanceOf[d] /\ Alive(c)
    /\ at[c] = "writing" /\ at[d] = "writing"
    => c = d

\* Every operation of a process that stays up ends.
OperationsEnd ==
  \A c \in Calls : at[c] # "start" ~> (at[c] = "done" \/ ~ Alive(c))

-----------------------------------------------------------------------------
=============================================================================
