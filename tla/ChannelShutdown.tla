--------------------------- MODULE ChannelShutdown ---------------------------
(***************************************************************************)
(* feishu/sdk_compat.py: how the transport's thread takes the Channel SDK  *)
(* down.  The SDK (external, lark-channel-sdk 1.2) runs                    *)
(*  - a start worker: channel.start in an executor thread, which returns   *)
(*    when the web socket client was told to stop or gave up, and on its   *)
(*    way out cancels the background tasks and stops the background loop,  *)
(*    as long as the channel still refers to it;                           *)
(*  - a background loop with a thread of its own, which closes the loop    *)
(*    after run_forever returns;                                           *)
(*  - side loops: the loop of the web socket client, run by the worker,    *)
(*    and one that only holds the cron task of the cache, if that is not   *)
(*    on the first.                                                        *)
(* The thread of the transport (at) runs on a loop of its own.  What it    *)
(* waits for there is bounded: a guard says what it waits for, an          *)
(* alternative without it is the timeout.  What it calls in the SDK is     *)
(* not: at "hung" such a call never returns.                               *)
(***************************************************************************)
EXTENDS Naturals, FiniteSets

CONSTANT MaxFaults   \* bound: exceptions in the SDK, calls that hang, deaths of its thread

VARIABLES
  at,        \* where the transport's thread stands
  worker,    \* the start worker
  wrapper,   \* the asyncio.Future around it, channel._start_future
  told,      \* the web socket client was told to stop
  shut,      \* channel._shutdown is set
  attached,  \* channel._bg_loop and _bg_thread refer to the loop
  bg,        \* the background loop and its thread
  tasks,     \* its tasks that are not done
  side,      \* the side loops
  left,      \* the side loops with SDK tasks that are not done
  cap,       \* ChannelSdkShutdownCapture
  pre,       \* DeviceFlowPreCloseResult
  hand,      \* ChannelBgOwnershipHandoff
  drain,     \* BgPreStopDrainResult.error_code, "none" without one
  clean,     \* SdkShutdownDiagnostic.blocking_issues is empty
  faults

sdkVars    == <<worker, wrapper, told, shut, attached, bg, tasks, side, left>>
reportVars == <<cap, pre, hand, drain, clean>>

Sides    == {"ws", "cache"}
\* "close" is DeviceFlow.close(), "bot" all else the SDK runs on its loop.
BgTasks  == {"bot", "close"}
BgStates == {"none", "running", "stopped", "closing", "closed", "orphan"}
\* "stopped": run_forever has returned; "closing": the loop is closed and its
\* thread still alive; "orphan": the thread is gone and the loop open.
LoopClosed  == bg \in {"closing", "closed"}
ThreadAlive(b) == b \in {"running", "stopped", "closing"}

Captures == [ok : BOOLEAN, bg : BgStates, start : BOOLEAN, flow : BOOLEAN, lost : SUBSET Sides]
NoCapture == [ok |-> FALSE, bg |-> "none", start |-> FALSE, flow |-> FALSE, lost |-> {}]
Precloses == {"none", "not_required", "completed", "unavailable", "timeout", "failed"}
Handoffs  == [taken : BOOLEAN, loop : BOOLEAN, running : BOOLEAN, exited : BOOLEAN]
NoHandoff == [taken |-> FALSE, loop |-> FALSE, running |-> FALSE, exited |-> FALSE]

Steps == {"off", "load", "event", "run", "connecting", "serving", "capture", "preclose",
          "preclosing", "public", "dispose", "handoff", "stop_ws", "await", "drain",
          "stop_loop", "join", "sweep", "sides", "draining", "close", "over", "hung"}

ShutdownTypeOK ==
  /\ at \in Steps
  /\ worker \in {"none", "running", "leaving", "exited"}
  /\ wrapper \in {"none", "pending", "done", "cancelled"}
  /\ told \in BOOLEAN /\ shut \in BOOLEAN /\ attached \in BOOLEAN
  /\ bg \in BgStates /\ tasks \in SUBSET BgTasks
  /\ side \in [Sides -> {"none", "idle", "running", "closed"}]
  /\ left \in SUBSET Sides
  /\ cap \in Captures /\ pre \in Precloses /\ hand \in Handoffs
  /\ clean \in BOOLEAN
  /\ drain \in {"none", "shape", "closed", "not_terminal"}
  /\ faults \in 0..MaxFaults

ShutdownInit ==
  /\ at = "off"
  /\ worker = "none" /\ wrapper = "none" /\ told = FALSE /\ shut = FALSE
  /\ attached = FALSE /\ bg = "none" /\ tasks = {}
  /\ side \in {[s \in Sides |-> "none"], [ws |-> "idle", cache |-> "none"],
               [s \in Sides |-> "idle"]}
  /\ left = {}
  /\ cap = NoCapture /\ pre = "none" /\ hand = NoHandoff /\ drain = "none"
  /\ clean = TRUE /\ faults = 0

Goto(s) == at' = s
Fault   == faults < MaxFaults /\ faults' = faults + 1
NoFault == UNCHANGED faults

-----------------------------------------------------------------------------
(* The SDK                                                                 *)

\* connect_until_ready starts the worker and the background loop.
SdkStart ==
  /\ worker' = "running" /\ wrapper' = "pending"
  /\ bg' = "running" /\ attached' = TRUE
  /\ tasks' \in SUBSET {"bot"}
  /\ side' \in IF side["ws"] = "none" THEN {side}
              ELSE {[ws |-> "running", cache |-> s] :
                      s \in IF side["cache"] = "none" THEN {"none"} ELSE {"idle", "closed"}}
  /\ left' \in {{}, {s \in Sides : side[s] # "none"}}
  /\ UNCHANGED <<told, shut>>

\* The worker puts a task on the loop of the channel; once _shutdown is set
\* and the loop detached, its scheduling path raises.
Schedule ==
  /\ worker = "running" /\ attached /\ bg \in {"running", "stopped"}
  /\ tasks' = tasks \cup {"bot"}
  /\ UNCHANGED <<at, worker, wrapper, told, shut, attached, bg, side, left, reportVars, faults>>

\* The worker leaves channel.start, because it was told to or because the
\* connection is lost; the SDK may have shut itself down by then.
Leave ==
  /\ worker = "running" /\ (told \/ at = "serving")
  /\ worker' = "leaving"
  /\ shut' \in {shut, TRUE}
  /\ tasks' \in {tasks, IF attached THEN tasks \cup {"bot"} ELSE tasks}
  /\ UNCHANGED <<at, wrapper, told, attached, bg, side, left, reportVars, faults>>

\* _cleanup_failed_start ends by stopping the loop it finds on the channel and
\* forgetting it.
StopOwnLoop ==
  /\ bg' = IF attached /\ bg = "running" THEN "stopped" ELSE bg
  /\ attached' = FALSE

Exit ==
  /\ worker = "leaving" /\ worker' = "exited"
  /\ \/ UNCHANGED <<bg, attached>> \/ StopOwnLoop
  /\ side' \in {[side EXCEPT !["ws"] = IF @ = "running" THEN s ELSE @] : s \in {"idle", "closed"}}
  /\ UNCHANGED <<at, wrapper, told, shut, tasks, left, reportVars, faults>>

\* The future of the executor is completed by a callback of the transport's
\* loop: not while the transport's thread is busy.
LoopIsFree == at \in {"connecting", "serving", "public", "dispose", "await"}
Complete ==
  /\ worker = "exited" /\ wrapper = "pending" /\ LoopIsFree
  /\ wrapper' = "done"
  /\ UNCHANGED <<at, worker, told, shut, attached, bg, tasks, side, left, reportVars, faults>>

\* The background thread: a task is done, or heeds its cancellation.
EndTask(t) ==
  /\ bg = "running" /\ t \in tasks
  /\ tasks' = tasks \ {t}
  /\ UNCHANGED <<at, worker, wrapper, told, shut, attached, bg, side, left, reportVars, faults>>

CloseLoop ==
  /\ \/ bg = "stopped" /\ bg' = "closing"
     \/ bg = "closing" /\ bg' = "closed"
  /\ UNCHANGED <<at, worker, wrapper, told, shut, attached, tasks, side, left, reportVars, faults>>

LoseThread ==
  /\ bg \in {"running", "stopped"} /\ Fault
  /\ bg' = "orphan"
  /\ UNCHANGED <<at, worker, wrapper, told, shut, attached, tasks, side, left, reportVars>>

Sdk ==
  \/ Schedule \/ Leave \/ Exit \/ Complete
  \/ \E t \in BgTasks : EndTask(t)
  \/ CloseLoop

-----------------------------------------------------------------------------
(* The transport's thread, when the channel has run or was never connected *)

\* capture_channel_sdk_shutdown_targets, or an exception in it.
Lost == {s \in {"cache"} \cap left : side[s] = "closed"}

Capture ==
  /\ at = "capture" /\ Goto("preclose")
  /\ \/ /\ \E flow \in BOOLEAN :
             cap' = [ok |-> TRUE, bg |-> IF attached THEN bg ELSE "none",
                     start |-> wrapper # "none", flow |-> flow, lost |-> Lost]
        /\ NoFault
     \/ Fault /\ cap' = NoCapture
  /\ UNCHANGED <<sdkVars, pre, hand, drain, clean>>

\* preclose_device_flow_before_public_shutdown: DeviceFlow.close() runs on the
\* background loop.  A loop without a thread would be driven from here, which
\* asyncio refuses while the transport's own loop runs.
Unusable == cap.bg = "none" \/ LoopClosed \/ (bg # "running" /\ ThreadAlive(cap.bg))

Preclose ==
  /\ at = "preclose"
  /\ \/ /\ ~cap.flow \/ bg # "running" \/ cap.bg = "none"
        /\ pre' = CASE ~cap.flow -> "not_required" [] Unusable -> "unavailable" [] OTHER -> "failed"
        /\ Goto("public") /\ UNCHANGED tasks
     \/ /\ cap.flow /\ bg = "running" /\ cap.bg # "none"
        /\ tasks' = tasks \cup {"close"}
        /\ Goto("preclosing") /\ UNCHANGED pre
  /\ UNCHANGED <<worker, wrapper, told, shut, attached, bg, side, left, cap, hand, drain, clean, faults>>

\* The bounded wait for it.  It is cancelled when the time is up.
PrecloseEnds ==
  /\ at = "preclosing"
  /\ \/ /\ "close" \notin tasks /\ UNCHANGED tasks
        /\ \/ pre' = "completed" /\ Goto("dispose")
           \/ pre' = "failed" /\ Goto("public")
     \/ /\ "close" \in tasks /\ tasks' \in {tasks, tasks \ {"close"}}
        /\ pre' = "timeout" /\ Goto("public")
  /\ UNCHANGED <<worker, wrapper, told, shut, attached, bg, side, left, cap, hand, drain, clean, faults>>

\* disconnect(), the SDK's own stop, which creates a second DeviceFlow.close()
\* and cancels what it has running; it may raise or exceed the timeout.
PublicDisconnect ==
  /\ at = "public" /\ Goto("sweep")
  /\ \/ Fault /\ UNCHANGED <<told, shut, attached, wrapper, bg, tasks>>
     \/ /\ NoFault /\ StopOwnLoop
        /\ told' = TRUE /\ shut' = TRUE
        /\ wrapper' \in {wrapper, IF wrapper = "pending" THEN "cancelled" ELSE wrapper}
        /\ tasks' \in {tasks, {}, IF bg = "running" THEN tasks \cup {"close"} ELSE tasks}
  /\ UNCHANGED <<worker, side, left, reportVars>>

\* The safety pipeline is disposed first; an exception or the timeout there
\* skips the rest.
Dispose ==
  /\ at = "dispose"
  /\ \/ Goto("handoff") /\ NoFault
     \/ Goto("sweep") /\ Fault
  /\ UNCHANGED <<sdkVars, reportVars>>

\* handoff_channel_bg_ownership, under the locks of the channel: nothing new is
\* scheduled, and the clean-up of the worker finds no loop to stop.
Detach_Not == UNCHANGED attached   \* mutant
Detach     == attached' = FALSE
Handoff ==
  /\ at = "handoff"
  /\ \/ /\ shut /\ NoFault                        \* ALREADY_TERMINAL
        /\ Goto("sweep") /\ UNCHANGED <<shut, attached, hand, drain>>
     \/ /\ ~shut /\ Fault /\ drain' = "shape"
        /\ Goto("sweep") /\ UNCHANGED <<shut, attached, hand>>
     \/ /\ ~shut /\ NoFault /\ shut' = TRUE /\ Detach
        /\ hand' = [taken |-> TRUE, loop |-> attached, exited |-> FALSE,
                    running |-> attached /\ bg = "running"]
        /\ Goto("stop_ws") /\ UNCHANGED drain
  /\ UNCHANGED <<worker, wrapper, told, bg, tasks, side, left, cap, pre, clean>>

\* _stop_ws_client_after_bg_handoff; an exception is swallowed.
StopWs ==
  /\ at = "stop_ws" /\ Goto("await")
  /\ \/ told' = TRUE /\ NoFault
     \/ UNCHANGED told /\ Fault
  /\ UNCHANGED <<worker, wrapper, shut, attached, bg, tasks, side, left, reportVars>>

\* _await_start_worker_terminal: only the natural end of the wrapper proves
\* that the worker returned.
WorkerProven == wrapper \in {"none", "done"}
AwaitWorker ==
  /\ at = "await"
  /\ hand' = [hand EXCEPT !.exited = WorkerProven]
  /\ Goto(IF WorkerProven THEN "drain" ELSE "sweep")   \* else TERMINAL_NOT_PROVEN
  /\ UNCHANGED <<sdkVars, cap, pre, drain, clean, faults>>

\* drain_captured_bg_loop_after_worker.  A running loop is drained by callbacks
\* that cancel and look again until no task is pending or the time is up; a
\* stopped one would have to be run from here, which asyncio refuses.
Drained == tasks = {}
Drain ==
  /\ at = "drain"
  /\ \/ /\ ~hand.loop \/ (bg = "running" /\ Drained)
        /\ Goto("stop_loop") /\ UNCHANGED drain
     \/ /\ hand.loop /\ Goto("sweep")
        /\ drain' = IF LoopClosed THEN "closed" ELSE "not_terminal"
  /\ UNCHANGED <<sdkVars, cap, pre, hand, clean, faults>>

\* stop_captured_bg_loop, and its bounded join.
StopLoop ==
  /\ at = "stop_loop" /\ Goto("join")
  /\ bg' = IF hand.loop /\ bg = "running" THEN "stopped" ELSE bg
  /\ UNCHANGED <<worker, wrapper, told, shut, attached, tasks, side, left, reportVars, faults>>

\* Success leaves the channel as if it was never started.
Join ==
  /\ at = "join" /\ Goto("sweep")
  /\ shut' = IF ~hand.loop \/ bg = "closed" THEN FALSE ELSE shut
  /\ UNCHANGED <<worker, wrapper, told, attached, bg, tasks, side, left, reportVars, faults>>

-----------------------------------------------------------------------------
(* drain_sdk_tasks, which runs whatever happened before                    *)

\* After a handoff its evidence counts; without one a wrapper that is done is
\* taken for the worker's exit, and so is a cancelled one.
WorkerSeen == IF hand.taken THEN hand.exited ELSE wrapper \in {"done", "cancelled"}

BgIssues_Trusting ==   \* mutant: the join is not looked at
  IF cap.bg \in {"none", "running", "stopped"} THEN {} ELSE {"CLOSED_BEFORE_PUBLIC_STOP"}
BgIssues ==
  CASE cap.bg = "none"                 -> {}
    [] cap.bg \in {"closing", "closed"} -> {"CLOSED_BEFORE_PUBLIC_STOP"}
    [] bg = "closing"                  -> {"CLOSED_WITH_LIVE_THREAD"}
    [] ThreadAlive(bg) /\ bg # "closing" -> {"OWNER_NOT_PROVEN"}
    [] bg = "closed"                   -> {}
    [] OTHER                           -> {"DRAIN_ERROR"}

DrainIssues    == {drain} \ {"none"}
PrecloseIssues == {pre} \cap {"unavailable", "timeout", "failed"}
WorkerIssues   == IF cap.start /\ ~WorkerSeen THEN {"START_FUTURE_STILL_RUNNING"} ELSE {}
LostIssues     == IF cap.lost # {} THEN {"CLOSED_WITH_PENDING_TASK"} ELSE {}

Sweep ==
  /\ at = "sweep" /\ Goto("sides")
  /\ clean' = (DrainIssues \cup PrecloseIssues \cup WorkerIssues \cup LostIssues \cup BgIssues = {})
  /\ UNCHANGED <<sdkVars, cap, pre, hand, drain, faults>>

\* _loop_tasks for each side loop: the one of the web socket client is found
\* without a capture.  A closed one is an issue, and so is an open idle one: it is
\* driven with run_until_complete, which the running loop of the transport makes
\* fail each time.
Swept == {s \in Sides : side[s] # "none" /\ (cap.ok \/ s = "ws")}
SideIssue(s) ==
  CASE side[s] = "closed" -> {"ALREADY_CLOSED"}
    [] side[s] = "idle"   -> {"DRAIN_ERROR"}
    [] OTHER              -> {}

SweepSides ==
  /\ at = "sides"
  /\ Goto(IF side["ws"] = "running" THEN "draining" ELSE "close")
  /\ clean' = (clean /\ \A s \in Swept : SideIssue(s) = {})
  /\ UNCHANGED <<sdkVars, cap, pre, hand, drain, faults>>

\* The running one is drained or the wait times out.  When the worker closes it
\* meanwhile, only tasks that were captured are asked for.
DrainSide ==
  /\ at = "draining" /\ Goto("close")
  /\ \/ left' = left \ {"ws"} /\ UNCHANGED clean
     \/ UNCHANGED left /\ clean' = FALSE
     \/ side["ws"] = "closed" /\ UNCHANGED <<left, clean>>
  /\ UNCHANGED <<worker, wrapper, told, shut, attached, bg, tasks, side, cap, pre, hand, drain, faults>>

Shutdown ==
  \/ Capture \/ Preclose \/ PrecloseEnds \/ PublicDisconnect
  \/ Dispose \/ Handoff \/ StopWs \/ AwaitWorker \/ Drain \/ StopLoop \/ Join
  \/ Sweep \/ SweepSides \/ DrainSide
=============================================================================
