------------------------------ MODULE CodexTurns ------------------------------
(***************************************************************************)
(* The turns of one native thread, one after another, each run by          *)
(* TurnManager.run_turn over an app-server client of its own, while other  *)
(* threads of the process stop the turn that ActiveTurnRegistry shows.     *)
(* A turn is named by its client.  That the turns of a thread do not       *)
(* overlap is what the leases of ThreadWriter are for.                     *)
(***************************************************************************)
EXTENDS AppServerRpc

CONSTANTS
  Stops,        \* calls of CodexAdapter.stop
  StartOf,      \* the turn/start request of a turn
  InterruptOf,  \* the turn/interrupt request a turn makes when it times out
  StopOf        \* the turn/interrupt request of a stop

ASSUME TurnsAssumption ==
  /\ StartOf \in [Clients -> Starts]
  /\ InterruptOf \in [Clients -> Calls \ Starts]
  /\ StopOf \in [Stops -> Calls \ Starts]
  /\ \A t, u \in Clients : t # u => StartOf[t] # StartOf[u]
                                    /\ InterruptOf[t] # InterruptOf[u]
  /\ \A r, s \in Stops : r # s => StopOf[r] # StopOf[s]
  /\ \A t \in Clients, s \in Stops : InterruptOf[t] # StopOf[s]

VARIABLES
  run,       \* where run_turn stands
  active,    \* registry._active of the thread
  result,    \* registry._results of the thread, as the turn it is about
  stop,      \* where a stop stands
  target,    \* the turn it found active
  terminal   \* the result it reports

registry == <<active, result>>
stops    == <<stop, target, terminal>>
vars     == <<rpcVars, registry, run, stops>>

NoTurn == NoClient
RunSteps == {"new", "begun", "subscribed", "starting", "started", "waiting",
             "interrupting", "closing", "over"}

TypeOK ==
  /\ RpcTypeOK
  /\ run \in [Clients -> RunSteps]
  /\ active \in Clients \cup {NoTurn}
  /\ result \in Clients \cup {NoTurn}
  /\ stop \in [Stops -> {"new", "found", "interrupting", "waiting", "over"}]
  /\ target \in [Stops -> Clients \cup {NoTurn}]
  /\ terminal \in [Stops -> Clients \cup {NoTurn}]

Go(t, s) == run' = [run EXCEPT ![t] = s]

-----------------------------------------------------------------------------
(* ActiveTurnRegistry                                                      *)

\* register: the result of the turn before is forgotten.
RegisterTurn(t) == active' = t /\ result' = NoTurn

Publish_Active(t) == result' = t /\ UNCHANGED active           \* mutant
Publish(t) == result' = t /\ active' = NoTurn

\* finish of turns of many other threads pushes this thread's result out.
Evict ==
  /\ result # NoTurn
  /\ result' = NoTurn
  /\ UNCHANGED <<rpcVars, active, run, stops>>

-----------------------------------------------------------------------------
(* run_turn, between the start of its client and the close of it.          *)

\* start, initialize and thread/resume succeed, or the client closes at once.
Begin(t) ==
  /\ run[t] = "new"
  /\ \A u \in Clients : run[u] \in {"new", "over"}
  /\ proc' = [proc EXCEPT ![t] = "up"]
  /\ reader' = [reader EXCEPT ![t] = "reading"]
  /\ \E s \in {"begun", "closing"} : Go(t, s)
  /\ UNCHANGED <<serving, unanswered, stdout, refusing, closer, subs, calls, asks,
                 registry, stops>>

Subscribe(t) ==
  /\ run[t] = "begun"
  /\ sub' = [sub EXCEPT ![t] = "open"]
  /\ Go(t, "subscribed")
  /\ UNCHANGED <<server, reads, closer, inbox, calls, asks, registry, stops>>

RequestStart(t) ==
  /\ run[t] = "subscribed"
  /\ Check(StartOf[t], t)
  /\ Go(t, "starting")
  /\ UNCHANGED <<registry, stops>>

Unsubscribe(t) ==
  sub' = [sub EXCEPT ![t] = "closed"] /\ inbox' = [inbox EXCEPT ![t] = FALSE]

\* The start was answered; or it raised, or names no turn: then no result is
\* published.
Started(t) ==
  /\ run[t] = "starting" /\ at[StartOf[t]] = "over"
  /\ \/ out[StartOf[t]] = "result" /\ Go(t, "started") /\ UNCHANGED subs
     \/ Go(t, "closing") /\ Unsubscribe(t)
  /\ UNCHANGED <<server, reads, closer, calls, asks, registry, stops>>

RegisterActive(t) ==
  /\ run[t] = "started"
  /\ RegisterTurn(t)
  /\ Go(t, "waiting")
  /\ UNCHANGED <<rpcVars, stops>>

\* finish, and the end of run_turn; its caller goes on to close the client.
Finish(t) ==
  /\ Publish(t)
  /\ Unsubscribe(t)
  /\ Go(t, "closing")
  /\ UNCHANGED <<server, reads, closer, calls, asks, stops>>

Receive(t) == run[t] = "waiting" /\ inbox[t] /\ Finish(t)

\* A notification run_turn cannot make sense of raises.
Garbled(t) == run[t] = "waiting" /\ active # NoTurn /\ Finish(t)

\* The deadline is tested before the queue: a completion that is in it by then
\* is not looked at.
Deadline_OnSilence(t) == serving[t] = "ended"   \* mutant: no deadline of its own
Deadline(t) == run[t] = "waiting"
TimeOut(t) ==
  /\ Deadline(t) /\ run[t] = "waiting"
  /\ Check(InterruptOf[t], t)
  /\ Go(t, "interrupting")
  /\ UNCHANGED <<registry, stops>>

TimedOut(t) ==
  /\ run[t] = "interrupting" /\ at[InterruptOf[t]] = "over"
  /\ Finish(t)

\* The finally block of the caller: client.close.
Close(t) ==
  /\ run[t] = "closing"
  /\ \/ (MarkClosing(t) \/ FailWaiters(t)) /\ UNCHANGED run
     \/ Kill(t) /\ Go(t, "over")
  /\ UNCHANGED <<registry, stops>>

Runner(t) ==
  \/ Subscribe(t) \/ RequestStart(t) \/ Started(t) \/ RegisterActive(t)
  \/ Receive(t) \/ TimeOut(t) \/ TimedOut(t) \/ Close(t)

-----------------------------------------------------------------------------
(* CodexAdapter.stop                                                       *)

To(s, p) == stop' = [stop EXCEPT ![s] = p]

\* registry.get; without an active turn the stop is over.
Find(s) ==
  /\ stop[s] = "new" /\ active # NoTurn
  /\ target' = [target EXCEPT ![s] = active]
  /\ To(s, "found")
  /\ UNCHANGED <<rpcVars, registry, run, terminal>>

InterruptTurn(s) ==
  /\ stop[s] = "found"
  /\ Check(StopOf[s], target[s])
  /\ To(s, "interrupting")
  /\ UNCHANGED <<registry, run, target, terminal>>

Interrupted(s) ==
  /\ stop[s] = "interrupting" /\ at[StopOf[s]] = "over"
  /\ To(s, IF out[StopOf[s]] = "result" THEN "waiting" ELSE "over")
  /\ UNCHANGED <<rpcVars, registry, run, target, terminal>>

\* wait ends with the event of a turn of the thread or with its timeout, so at
\* any time, and takes the result there is then.
Report(s) ==
  /\ stop[s] = "waiting"
  /\ terminal' = [terminal EXCEPT ![s] = result]
  /\ To(s, "over")
  /\ UNCHANGED <<rpcVars, registry, run, target>>

Stop(s) == Find(s) \/ InterruptTurn(s) \/ Interrupted(s) \/ Report(s)

-----------------------------------------------------------------------------
Init ==
  /\ RpcInit
  /\ run = [t \in Clients |-> "new"]
  /\ active = NoTurn /\ result = NoTurn
  /\ stop = [s \in Stops |-> "new"]
  /\ target = [s \in Stops |-> NoTurn]
  /\ terminal = [s \in Stops |-> NoTurn]

Next ==
  \/ RpcNext /\ UNCHANGED <<registry, run, stops>>
  \/ \E t \in Clients : Begin(t) \/ Runner(t) \/ Garbled(t)
  \/ \E s \in Stops : Stop(s)
  \/ Evict

Spec == Init /\ [][Next]_vars

\* As long as one of them can, some thread runs on; requests and waits time out, and
\* each has only so many steps.  The app-server owes nothing, not even to read: while a write hangs nothing is owed on its client, whose close on
\* POSIX begins with the pipe (app_server.py:474).  Nobody is obliged to begin or to
\* stop a turn.
Unread(q) == at[q] = "stuck" /\ proc[client[q]] = "up"
FairSpec ==
  /\ Spec
  /\ WF_vars(\/ \E q \in Calls : Request(q) /\ ~ Unread(q) /\ UNCHANGED <<registry, run, stops>>
             \/ \E t \in Clients : Runner(t) /\ ~ Stuck(t)
             \/ \E s \in Stops : Stop(s))

-----------------------------------------------------------------------------
\* Once close has failed the waiters, no request on the client waits in vain,
\* also not one that a stopping thread began while the client was closing: it
\* has its error, or is about to find the client closed.
ClosedReleasesWaiters ==
  \A q \in Calls :
    at[q] = "waiting" /\ closer[client[q]] \in {"failed", "closed"} => box[q] # "empty"

\* The app-server gets one response at most to a request id, however often it
\* sends the id and whichever threads answer (app_server.py:379, "exactly-once").
AnsweredOnce == \A i \in Ids : told[i] <= 1

\* A completion waits for run_turn, in the pipe or in the turn's queue: also one
\* that comes before run_turn has so much as seen the answer to its start, and
\* one whose app-server dies right after it.
CompletionIsKept ==
  \A t \in Clients :
    serving[t] = "ended" /\ run[t] \in {"starting", "started", "waiting"} =>
      \/ inbox[t]
      \/ \E i \in DOMAIN stdout[t] : stdout[t][i].type = "completed"

\* The registry shows as active only a turn that run_turn still follows, with
\* its client open and its result not yet published: stop and steer use them.
ActiveIsFollowed ==
  active # NoTurn =>
    run[active] \in {"waiting", "interrupting"} /\ closer[active] = "open"

\* A stop never reports the result of a turn that was over before the one it
\* stopped began (turns.py:60, "Do not let wait() observe the previous turn's
\* terminal result"), whatever turns begin and end while it waits.
Earlier(t, u) == run[t] = "over" /\ run[u] # "over"
StopReportsNoOlderTurn ==
  \A s \in Stops :
    /\ target[s] # NoTurn /\ terminal[s] # NoTurn => ~ Earlier(terminal[s], target[s])
    /\ stop[s] \in {"found", "interrupting", "waiting"} /\ result # NoTurn
         => ~ Earlier(result, target[s])

\* Whatever the app-server answers, asks or leaves undone, a turn that was begun ends,
\* with its client closed: the deadline is run_turn's own, and every request times
\* out.  Only a write that the app-server never reads holds it for ever.  (What is
\* over is not begun again.)
TurnsEnd == \A t \in Clients : []<>(run[t] \in {"new", "over"} \/ Stuck(t))
=============================================================================
