--------------------------- MODULE FeishuTransport ---------------------------
(***************************************************************************)
(* FeishuChannelTransport: a thread with an event loop of its own brings   *)
(* the Channel SDK up, waits for the request to stop, and takes the SDK    *)
(* down (ChannelShutdown); connect_until_ready, stop and the outbound      *)
(* calls come from other threads and meet it over flags, a wake-up of the  *)
(* loop and bounded waits.  A transport is started once: who reconnects    *)
(* builds a new one.  Outbound calls wait for a coroutine on its loop, for *)
(* so long, and change nothing here; ReplyLedger and ProgressCard say what *)
(* becomes of them.                                                        *)
(***************************************************************************)
EXTENDS ChannelShutdown

ASSUME TransportAssumption == MaxFaults \in Nat

VARIABLES
  connection,  \* _connection_state
  stopping,    \* _stopping and _stop_requested
  wake,        \* _shutdown_requested: "none" before it exists, "clear" or "set"
  stopper      \* the caller of stop

callVars == <<stopping, wake, stopper>>
downVars == <<sdkVars, reportVars, faults>>
vars     == <<at, downVars, callVars, connection>>

TypeOK ==
  /\ ShutdownTypeOK
  /\ connection \in {"new", "starting", "ready", "failed", "stopped"}
  /\ stopping \in BOOLEAN
  /\ wake \in {"none", "clear", "set"}
  /\ stopper \in {"idle", "called", "waking", "joining", "returned", "raised"}

Init ==
  /\ ShutdownInit
  /\ connection = "new"
  /\ stopping = FALSE /\ wake = "none" /\ stopper = "idle"

\* connect_until_ready starts the thread; its bounded wait for what comes of
\* it changes nothing.
Start ==
  /\ at = "off" /\ Goto("load")
  /\ connection' = "starting"
  /\ UNCHANGED <<downVars, callVars>>

-----------------------------------------------------------------------------
(* _run_loop, the thread of the transport                                  *)

\* Imports and the constructor, before there is a loop; without one there is
\* nothing to take down.
Load ==
  /\ at = "load"
  /\ \/ /\ Goto("event") /\ wake' = "clear" /\ NoFault
        /\ UNCHANGED connection
     \/ /\ Fault /\ Goto("over") /\ UNCHANGED wake
        /\ connection' = IF stopping THEN "stopped" ELSE "failed"
  /\ UNCHANGED <<sdkVars, reportVars, stopping, stopper>>

\* A stop that came before the event existed could not set it; _run_channel
\* looks at the flag once more.
WakeOfStop == IF stopping THEN "set" ELSE wake
CheckStop ==
  /\ at = "event" /\ Goto("run")
  /\ wake' = WakeOfStop
  /\ UNCHANGED <<downVars, connection, stopping, stopper>>

RunChannel ==
  /\ at = "run" /\ connection' = "starting"
  /\ \/ stopping /\ Goto("capture") /\ UNCHANGED sdkVars
     \/ ~stopping /\ Goto("connecting") /\ SdkStart
  /\ UNCHANGED <<reportVars, faults, callVars>>

\* The SDK's own connect_until_ready is bounded; when it fails it may have
\* cancelled the wrapper of its worker.
Connected ==
  /\ at = "connecting"
  /\ \/ /\ Goto("serving")
        /\ connection' = "ready"
        /\ UNCHANGED wrapper
     \/ /\ Goto("capture")
        /\ connection' = IF stopping THEN connection ELSE "failed"
        /\ wrapper' \in {wrapper, IF wrapper = "pending" THEN "cancelled" ELSE wrapper}
  /\ UNCHANGED <<worker, told, shut, attached, bg, tasks, side, left, reportVars, faults,
                 callVars>>

Woken ==
  /\ at = "serving" /\ wake = "set" /\ Goto("capture")
  /\ UNCHANGED <<downVars, callVars, connection>>

\* The handlers of RECONNECTING and RECONNECTED look at nothing else; what they
\* note is either way a transport that is running.
Reconnect ==
  /\ worker = "running"
  /\ connection' = "ready"
  /\ UNCHANGED <<at, downVars, callVars>>

Down ==
  Shutdown /\ UNCHANGED <<callVars, connection>>

\* The loop is closed whatever the way down was.
Over ==
  /\ at = "close" /\ Goto("over")
  /\ connection' = IF connection = "failed" THEN connection ELSE "stopped"
  /\ UNCHANGED <<downVars, callVars>>

Thread == Load \/ CheckStop \/ RunChannel \/ Connected \/ Woken \/ Down \/ Over

\* No timeout of the transport bounds what runs in the SDK: its constructor, its
\* connect, its synchronous stop(), the locks of the channel that the handover takes,
\* and the stop of the web socket client.
InSdk == at \in {"load", "connecting", "public", "dispose", "handoff", "stop_ws"}
Hang ==
  /\ InSdk /\ Fault /\ Goto("hung")
  /\ UNCHANGED <<sdkVars, reportVars, callVars, connection>>

-----------------------------------------------------------------------------
(* stop                                                                    *)

Stop ==
  /\ stopper = "idle" /\ at # "off"
  /\ stopping' = TRUE /\ stopper' = "called"
  /\ UNCHANGED <<at, downVars, connection, wake>>

\* The loop may close between the look at it and the call on it, which raises.
LoopIsThere_Ready == connection = "ready"   \* mutant: only what is connected is woken
LoopIsThere       == wake # "none" /\ at # "over"

LookAtLoop ==
  /\ stopper = "called"
  /\ stopper' = IF LoopIsThere THEN "waking" ELSE "joining"
  /\ UNCHANGED <<at, downVars, connection, stopping, wake>>

Wake ==
  /\ stopper = "waking"
  /\ IF at = "over" THEN stopper' = "raised" /\ UNCHANGED wake
     ELSE stopper' = "joining" /\ wake' = "set"
  /\ UNCHANGED <<at, downVars, connection, stopping>>

\* The join is bounded; a thread that is late is left behind.
StopReturns ==
  /\ stopper = "joining" /\ stopper' = "returned"
  /\ connection' = IF at = "over" /\ connection # "failed" THEN "stopped" ELSE "failed"
  /\ UNCHANGED <<at, downVars, stopping, wake>>

Stopper == LookAtLoop \/ Wake \/ StopReturns

-----------------------------------------------------------------------------
SdkStep == (Sdk \/ LoseThread) /\ UNCHANGED <<callVars, connection>>

Next ==
  \/ Start \/ Thread \/ Hang
  \/ Stop \/ Stopper
  \/ SdkStep \/ Reconnect

Spec == Init /\ [][Next]_vars

\* Threads run.  The SDK owes nothing: its own threads need not go on, and a call
\* of the transport's thread into it may hang.
FairSpec ==
  /\ Spec
  /\ WF_vars(Thread) /\ WF_vars(Stopper)

-----------------------------------------------------------------------------
(* Properties                                                              *)

\* A shutdown reported without a blocking issue left nothing of the SDK behind:
\* no worker, no background loop or thread, no task on a side loop.  Three ways to a
\* false report are known.  The capture itself failed.  The SDK's own stop cancelled
\* the wrapper of a worker that still runs, and closes its loop under the drain.
\* The SDK had forgotten its background loop before the capture: that one was told
\* to stop, but nobody looks whether it ended.
Mistaken == ~hand.taken /\ wrapper = "cancelled"
NoSilentLeak ==
  at = "over" /\ clean /\ cap.ok =>
    /\ worker \in {"running", "leaving"} => Mistaken
    /\ bg # "closed" => cap.bg = "none" /\ bg # "running"
    /\ left \cap Swept # {} => Mistaken /\ side["ws"] = "closed"

\* A background loop that was running when it was taken over is stopped only
\* when its producer is gone and no task is pending.
HandedLoopClosesEmpty ==
  hand.running /\ (bg = "stopped" \/ LoopClosed) =>
    tasks = {} /\ worker \in {"none", "exited"}

\* Whoever asks the transport to stop, at any moment of its start, gets its
\* thread to end; one that hangs in a call of the SDK does not hold the caller.
ThreadEnds ==
  stopping ~> at = "over" \/ (at = "hung" /\ stopper = "returned")
=============================================================================
