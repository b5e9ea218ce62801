------------------------ MODULE FeishuTransport_proofs ------------------------
(***************************************************************************)
(* A transport that reports a clean shutdown has left nothing of the SDK   *)
(* behind, and the background loop it took over is stopped only when it is *)
(* empty: for any number of failures, and however the SDK's own threads    *)
(* interleave with the way down.                                           *)
(***************************************************************************)
EXTENDS FeishuTransport, TLAPS

\* The type of the SDK's owners and tasks, and of what the transport's thread notes of it.
OwnerTypes ==
  /\ worker \in {"none", "running", "leaving", "exited"}
  /\ wrapper \in {"none", "pending", "done", "cancelled"}
  /\ told \in BOOLEAN /\ shut \in BOOLEAN /\ attached \in BOOLEAN
  /\ bg \in BgStates
TaskTypes ==
  /\ tasks \in SUBSET BgTasks
  /\ side \in [Sides -> {"none", "idle", "running", "closed"}]
  /\ left \in SUBSET Sides
ReportTypes ==
  /\ cap \in Captures /\ pre \in Precloses /\ hand \in Handoffs
  /\ clean \in BOOLEAN
  /\ drain \in {"none", "shape", "closed", "not_terminal"}

BeforeCapture == {"off", "load", "event", "run", "connecting", "serving", "capture"}
AfterHandoff  == {"stop_ws", "await", "drain", "stop_loop", "join", "sweep", "sides", "draining",
                  "close", "over", "hung"}
WorkerGone    == worker \in {"none", "exited"}

\* What the wrapper of the start worker, the capture and the handoff say of the
\* worker; without a start there is none of them.
WorkerInv ==
  /\ wrapper = "done" => worker = "exited"
  /\ wrapper = "none" => worker = "none"
  /\ at \in BeforeCapture => cap = NoCapture /\ hand = NoHandoff
  /\ at \in {"off", "load", "event", "run"} => wrapper = "none"
  /\ cap.ok /\ ~cap.start => wrapper = "none"
  /\ hand.exited => WorkerGone
  /\ side["ws"] = "running" => worker \in {"running", "leaving"}
  /\ side["cache"] # "running"

\* A loop that was taken over running is out of the reach of the SDK, and stopped
\* only after a drain; one that the SDK forgot itself was told to stop.
LoopInv ==
  /\ ~hand.taken /\ ~attached => bg # "running"
  /\ cap.ok /\ cap.bg = "none" => bg # "running"
  /\ hand.running => hand.loop /\ ~attached /\ at \in AfterHandoff
  /\ at \in {"drain", "stop_loop"} => WorkerGone
  /\ at = "stop_loop" /\ hand.running => tasks = {}
  /\ HandedLoopClosesEmpty

\* A report without an issue: once the worker and the loop are looked at, and
\* once the side loops are, too.
CleanInv ==
  /\ at \in {"sides", "draining", "close", "over"} /\ clean /\ cap.ok =>
       /\ worker \in {"running", "leaving"} => Mistaken
       /\ bg # "closed" => cap.bg = "none"
  /\ at \in {"draining", "close", "over"} /\ clean /\ cap.ok /\ left \cap Swept # {} =>
       Mistaken /\ "cache" \notin Swept
  /\ at \in {"close", "over"} /\ clean /\ cap.ok /\ left \cap Swept # {} =>
       side["ws"] = "closed"

TransportInv == TypeOK /\ WorkerInv /\ LoopInv /\ CleanInv

-----------------------------------------------------------------------------
(* One lemma per action: it preserves each part of the invariant *)

\* connect_until_ready starts the thread.
LEMMA StartKeeps ==
  ASSUME TransportInv, Start
  PROVE  TransportInv'
<1>1. TypeOK'
  BY DEF TransportInv, TypeOK, ShutdownTypeOK, Steps, Start, Goto, downVars, sdkVars,
      reportVars, callVars
<1>2. WorkerInv'
  BY DEF TransportInv, ShutdownTypeOK, WorkerInv, BeforeCapture, WorkerGone, Start, Goto,
      downVars, sdkVars, reportVars, callVars
<1>3. LoopInv'
  BY DEF TransportInv, WorkerInv, LoopInv, HandedLoopClosesEmpty, AfterHandoff,
      WorkerGone, LoopClosed, Start, downVars, sdkVars, reportVars
<1>4. CleanInv'
  BY DEF CleanInv, Start, Goto
<1> QED
  BY <1>1, <1>2, <1>3, <1>4 DEF TransportInv

\* Imports and the constructor.
LEMMA LoadKeeps ==
  ASSUME TransportInv, Load
  PROVE  TransportInv'
<1>1. TypeOK'
  BY TransportAssumption DEF TransportInv, TypeOK, ShutdownTypeOK, Steps, Load, Goto,
      Fault, NoFault, sdkVars, reportVars
<1>2. WorkerInv'
  BY DEF TransportInv, TypeOK, ShutdownTypeOK, WorkerInv, BeforeCapture, WorkerGone, Load,
      Goto, Fault, NoFault, sdkVars, reportVars
<1>3. LoopInv'
  BY DEF TransportInv, WorkerInv, LoopInv, HandedLoopClosesEmpty, AfterHandoff,
      WorkerGone, LoopClosed, Load, sdkVars, reportVars
<1>4. CleanInv'
  BY DEF TransportInv, ShutdownTypeOK, WorkerInv, LoopInv, CleanInv, Mistaken, WorkerGone, Swept,
      Load, Goto, reportVars, NoCapture, BeforeCapture
<1> QED
  BY <1>1, <1>2, <1>3, <1>4 DEF TransportInv

\* The event exists.
LEMMA CheckStopKeeps ==
  ASSUME TransportInv, CheckStop
  PROVE  TransportInv'
<1>1. TypeOK'
  BY DEF TransportInv, TypeOK, ShutdownTypeOK, Steps, CheckStop, Goto, downVars, sdkVars,
      reportVars, WakeOfStop
<1>2. WorkerInv'
  BY DEF TransportInv, ShutdownTypeOK, WorkerInv, BeforeCapture, WorkerGone, CheckStop,
      Goto, downVars, sdkVars, reportVars, WakeOfStop
<1>3. LoopInv'
  BY DEF TransportInv, WorkerInv, LoopInv, HandedLoopClosesEmpty, AfterHandoff,
      WorkerGone, LoopClosed, CheckStop, downVars, sdkVars, reportVars
<1>4. CleanInv'
  BY DEF CleanInv, CheckStop, Goto
<1> QED
  BY <1>1, <1>2, <1>3, <1>4 DEF TransportInv

\* The SDK is started, or a stop came first.
LEMMA RunChannelKeeps ==
  ASSUME TransportInv, RunChannel
  PROVE  TransportInv'
<1>1. TypeOK'
  <2>1. OwnerTypes'
    BY DEF TransportInv, TypeOK, ShutdownTypeOK, OwnerTypes, RunChannel, sdkVars,
        SdkStart, BgStates
  <2>2. TaskTypes'
    <3>1. side' \in [Sides -> {"none", "idle", "running", "closed"}]
      BY DEF TransportInv, TypeOK, ShutdownTypeOK, RunChannel, sdkVars, SdkStart, Sides
    <3>2. tasks' \in SUBSET BgTasks
      BY DEF TransportInv, TypeOK, ShutdownTypeOK, RunChannel, sdkVars, SdkStart, BgTasks
    <3>3. left' \in SUBSET Sides
      BY SMTT(30) DEF TransportInv, TypeOK, ShutdownTypeOK, RunChannel, sdkVars, SdkStart
    <3> QED
      BY <3>1, <3>2, <3>3 DEF TaskTypes
  <2>3. ReportTypes'
    BY DEF TransportInv, TypeOK, ShutdownTypeOK, ReportTypes, RunChannel, reportVars,
        NoHandoff, Precloses, BgStates, Sides
  <2>4. at' \in Steps /\ faults' \in 0..MaxFaults
    BY DEF TransportInv, TypeOK, ShutdownTypeOK, Steps, RunChannel, Goto
  <2> QED
    BY <2>1, <2>2, <2>4 DEF TransportInv, TypeOK, ShutdownTypeOK, OwnerTypes, RunChannel,
        Goto, sdkVars, reportVars, callVars, TaskTypes
<1>2. WorkerInv'
  BY DEF TransportInv, WorkerInv, BeforeCapture, WorkerGone, RunChannel, Goto, sdkVars,
      reportVars, callVars, SdkStart, Captures, NoCapture, NoHandoff, Precloses, BgTasks
<1>3. LoopInv'
  BY DEF TransportInv, WorkerInv, LoopInv, HandedLoopClosesEmpty, BeforeCapture, AfterHandoff,
      NoCapture, NoHandoff, RunChannel, Goto, sdkVars, SdkStart, reportVars
<1>4. CleanInv'
  BY DEF CleanInv, RunChannel, Goto
<1> QED
  BY <1>1, <1>2, <1>3, <1>4 DEF TransportInv

\* The SDK is connected, or not.
LEMMA ConnectedKeeps ==
  ASSUME TransportInv, Connected
  PROVE  TransportInv'
<1>1. TypeOK'
  BY DEF TransportInv, TypeOK, ShutdownTypeOK, Steps, Connected, Goto, reportVars,
      callVars
<1>2. WorkerInv'
  BY DEF TransportInv, ShutdownTypeOK, WorkerInv, BeforeCapture, WorkerGone, Connected,
      Goto, reportVars, callVars
<1>3. LoopInv'
  BY DEF TransportInv, LoopInv, HandedLoopClosesEmpty, AfterHandoff, WorkerGone,
      LoopClosed, Connected, Goto, reportVars
<1>4. CleanInv'
  BY DEF CleanInv, Connected, Goto
<1> QED
  BY <1>1, <1>2, <1>3, <1>4 DEF TransportInv

\* The request to stop is seen.
LEMMA WokenKeeps ==
  ASSUME TransportInv, Woken
  PROVE  TransportInv'
<1>1. TypeOK'
  BY DEF TransportInv, TypeOK, ShutdownTypeOK, Steps, Woken, Goto, downVars, sdkVars,
      reportVars, callVars
<1>2. WorkerInv'
  BY DEF TransportInv, ShutdownTypeOK, WorkerInv, BeforeCapture, WorkerGone, Woken, Goto,
      downVars, sdkVars, reportVars, callVars
<1>3. LoopInv'
  BY DEF TransportInv, LoopInv, HandedLoopClosesEmpty, AfterHandoff, WorkerGone,
      LoopClosed, Woken, Goto, downVars, sdkVars, reportVars
<1>4. CleanInv'
  BY DEF CleanInv, Woken, Goto
<1> QED
  BY <1>1, <1>2, <1>3, <1>4 DEF TransportInv

\* The SDK reconnects.
LEMMA ReconnectKeeps ==
  ASSUME TransportInv, Reconnect
  PROVE  TransportInv'
<1>1. TypeOK'
  BY DEF TransportInv, TypeOK, ShutdownTypeOK, Reconnect, downVars, sdkVars, reportVars,
      callVars
<1>2. WorkerInv'
  BY DEF TransportInv, ShutdownTypeOK, WorkerInv, BeforeCapture, WorkerGone, Reconnect,
      downVars, sdkVars, reportVars, callVars
<1>3. LoopInv'
  BY DEF TransportInv, LoopInv, HandedLoopClosesEmpty, AfterHandoff, WorkerGone,
      LoopClosed, Reconnect, downVars, sdkVars, reportVars
<1>4. CleanInv'
  BY DEF TransportInv, ShutdownTypeOK, WorkerInv, CleanInv, Mistaken, WorkerGone, Swept, Reconnect,
      downVars, sdkVars, reportVars
<1> QED
  BY <1>1, <1>2, <1>3, <1>4 DEF TransportInv

\* The transport's loop is closed.
LEMMA OverKeeps ==
  ASSUME TransportInv, Over
  PROVE  TransportInv'
<1>1. TypeOK'
  BY DEF TransportInv, TypeOK, ShutdownTypeOK, Steps, Over, Goto, downVars, sdkVars,
      reportVars, callVars
<1>2. WorkerInv'
  BY DEF TransportInv, ShutdownTypeOK, WorkerInv, BeforeCapture, WorkerGone, Over, Goto,
      downVars, sdkVars, reportVars, callVars
<1>3. LoopInv'
  BY DEF TransportInv, LoopInv, HandedLoopClosesEmpty, AfterHandoff, WorkerGone,
      LoopClosed, Over, Goto, downVars, sdkVars, reportVars
<1>4. CleanInv'
  BY DEF TransportInv, ShutdownTypeOK, WorkerInv, CleanInv, Mistaken, Swept, Over, downVars,
      sdkVars, reportVars
<1> QED
  BY <1>1, <1>2, <1>3, <1>4 DEF TransportInv

\* A call of the SDK does not return.
LEMMA HangKeeps ==
  ASSUME TransportInv, Hang
  PROVE  TransportInv'
<1>1. TypeOK'
  BY TransportAssumption DEF TransportInv, TypeOK, ShutdownTypeOK, Steps, Hang, InSdk, Goto,
      Fault, sdkVars, reportVars, callVars
<1>2. WorkerInv'
  BY DEF TransportInv, WorkerInv, BeforeCapture, WorkerGone, Hang, InSdk, Goto, sdkVars,
      reportVars
<1>3. LoopInv'
  BY DEF TransportInv, LoopInv, HandedLoopClosesEmpty, AfterHandoff, WorkerGone,
      LoopClosed, Hang, InSdk, Goto, sdkVars, reportVars
<1>4. CleanInv'
  BY DEF CleanInv, Hang, Goto
<1> QED
  BY <1>1, <1>2, <1>3, <1>4 DEF TransportInv

\* A stop is called.
LEMMA StopKeeps ==
  ASSUME TransportInv, Stop
  PROVE  TransportInv'
<1>1. TypeOK'
  BY DEF TransportInv, TypeOK, ShutdownTypeOK, Stop, downVars, sdkVars, reportVars
<1>2. WorkerInv'
  BY DEF TransportInv, ShutdownTypeOK, WorkerInv, BeforeCapture, WorkerGone, Stop,
      downVars, sdkVars, reportVars
<1>3. LoopInv'
  BY DEF TransportInv, LoopInv, HandedLoopClosesEmpty, AfterHandoff, WorkerGone,
      LoopClosed, Stop, downVars, sdkVars, reportVars
<1>4. CleanInv'
  BY DEF TransportInv, ShutdownTypeOK, WorkerInv, CleanInv, Mistaken, WorkerGone, Swept, Stop,
      downVars, sdkVars, reportVars
<1> QED
  BY <1>1, <1>2, <1>3, <1>4 DEF TransportInv

\* The caller of stop.
LEMMA StopperKeeps ==
  ASSUME TransportInv, Stopper
  PROVE  TransportInv'
<1>1. TypeOK'
  <2>1. UNCHANGED <<at, downVars>>
    BY DEF Stopper, LookAtLoop, Wake, StopReturns
  <2>2. ShutdownTypeOK'
    BY <2>1 DEF TransportInv, TypeOK, ShutdownTypeOK, downVars, sdkVars, reportVars
  <2> QED
    BY <2>2 DEF TransportInv, TypeOK, Stopper, LookAtLoop, Wake, StopReturns
<1>2. WorkerInv'
  <2>1. UNCHANGED <<at, downVars>>
    BY DEF Stopper, LookAtLoop, Wake, StopReturns
  <2> QED
    BY <2>1 DEF TransportInv, WorkerInv, WorkerGone, downVars, sdkVars, reportVars
<1>3. LoopInv'
  <2>1. UNCHANGED <<at, downVars>>
    BY DEF Stopper, LookAtLoop, Wake, StopReturns
  <2> QED
    BY <2>1 DEF TransportInv, LoopInv, HandedLoopClosesEmpty, WorkerGone, LoopClosed,
        downVars, sdkVars, reportVars
<1>4. CleanInv'
  <2>1. UNCHANGED <<at, downVars>>
    BY DEF Stopper, LookAtLoop, Wake, StopReturns
  <2> QED
    BY <2>1 DEF TransportInv, CleanInv, Mistaken, Swept, downVars, sdkVars, reportVars
<1> QED
  BY <1>1, <1>2, <1>3, <1>4 DEF TransportInv

\* The worker schedules a task.
LEMMA ScheduleKeeps ==
  ASSUME TransportInv, Schedule, UNCHANGED <<callVars, connection>>
  PROVE  TransportInv'
<1>1. TypeOK'
  BY DEF TransportInv, TypeOK, ShutdownTypeOK, Schedule, reportVars, callVars, BgTasks
<1>2. WorkerInv'
  BY DEF TransportInv, ShutdownTypeOK, WorkerInv, BeforeCapture, WorkerGone, Schedule,
      reportVars, callVars, BgTasks
<1>3. LoopInv'
  BY DEF TransportInv, LoopInv, HandedLoopClosesEmpty, AfterHandoff, WorkerGone,
      LoopClosed, Schedule, reportVars
<1>4. CleanInv'
  BY DEF TransportInv, ShutdownTypeOK, WorkerInv, CleanInv, Mistaken, WorkerGone, Swept, Schedule,
      reportVars
<1> QED
  BY <1>1, <1>2, <1>3, <1>4 DEF TransportInv

\* The worker leaves channel.start.
LEMMA LeaveKeeps ==
  ASSUME TransportInv, Leave, UNCHANGED <<callVars, connection>>
  PROVE  TransportInv'
<1>1. TypeOK'
  <2>1. OwnerTypes'
    BY DEF TransportInv, TypeOK, ShutdownTypeOK, OwnerTypes, Leave
  <2>2. TaskTypes'
    BY DEF TransportInv, TypeOK, ShutdownTypeOK, TaskTypes, Leave, reportVars, BgTasks
  <2>3. ReportTypes'
    BY DEF TransportInv, TypeOK, ShutdownTypeOK, ReportTypes, Leave, reportVars, Captures,
        NoCapture, Handoffs, NoHandoff, BgStates
  <2>4. at' \in Steps /\ faults' \in 0..MaxFaults
    BY DEF TransportInv, TypeOK, ShutdownTypeOK, Leave
  <2> QED
    BY <2>1, <2>2 DEF TransportInv, TypeOK, ShutdownTypeOK, OwnerTypes, Leave, reportVars,
        TaskTypes, ReportTypes, callVars
<1>2. WorkerInv'
  BY DEF TransportInv, WorkerInv, BeforeCapture, WorkerGone, Leave, reportVars, callVars,
      Captures, NoCapture, Handoffs, BgStates, Sides
<1>3. LoopInv'
  BY DEF TransportInv, LoopInv, HandedLoopClosesEmpty, AfterHandoff, WorkerGone,
      LoopClosed, Leave, reportVars
<1>4. CleanInv'
  BY DEF TransportInv, ShutdownTypeOK, WorkerInv, CleanInv, Mistaken, WorkerGone, Swept, Leave,
      reportVars
<1> QED
  BY <1>1, <1>2, <1>3, <1>4 DEF TransportInv

\* The worker returns, and stops the loop it finds.
LEMMA ExitKeeps ==
  ASSUME TransportInv, Exit, UNCHANGED <<callVars, connection>>
  PROVE  TransportInv'
<1>1. TypeOK'
  <2>1. OwnerTypes'
    BY DEF TransportInv, TypeOK, ShutdownTypeOK, OwnerTypes, Exit, StopOwnLoop, BgStates
  <2>2. TaskTypes'
    BY DEF TransportInv, TypeOK, ShutdownTypeOK, TaskTypes, Exit, reportVars, BgTasks,
        Sides
  <2>3. ReportTypes'
    BY DEF TransportInv, TypeOK, ShutdownTypeOK, ReportTypes, Exit, reportVars,
        StopOwnLoop, Captures, NoCapture, Handoffs
  <2>4. at' \in Steps /\ faults' \in 0..MaxFaults
    BY DEF TransportInv, TypeOK, ShutdownTypeOK, Exit
  <2> QED
    BY <2>1 DEF TransportInv, TypeOK, ShutdownTypeOK, OwnerTypes, Exit, reportVars,
        TaskTypes, callVars
<1>2. WorkerInv'
  <2>1. side'["ws"] # "running"
    BY DEF TransportInv, TypeOK, ShutdownTypeOK, Sides, Exit
  <2>2. side'["cache"] = side["cache"]
    BY DEF TransportInv, TypeOK, ShutdownTypeOK, Sides, Exit
  <2> QED
    BY <2>1, <2>2 DEF TransportInv, WorkerInv, BeforeCapture, WorkerGone, Exit, reportVars,
        callVars
<1>3. LoopInv'
  BY DEF TransportInv, LoopInv, HandedLoopClosesEmpty, AfterHandoff, WorkerGone,
      LoopClosed, Exit, reportVars, StopOwnLoop
<1>4. CleanInv'
  BY DEF TransportInv, TypeOK, ShutdownTypeOK, WorkerInv, CleanInv, Mistaken, WorkerGone, Swept,
      Exit, reportVars, StopOwnLoop
<1> QED
  BY <1>1, <1>2, <1>3, <1>4 DEF TransportInv

\* The wrapper of the worker is completed.
LEMMA CompleteKeeps ==
  ASSUME TransportInv, Complete, UNCHANGED <<callVars, connection>>
  PROVE  TransportInv'
<1>1. TypeOK'
  BY DEF TransportInv, TypeOK, ShutdownTypeOK, Complete, reportVars, callVars
<1>2. WorkerInv'
  BY DEF TransportInv, ShutdownTypeOK, WorkerInv, BeforeCapture, WorkerGone, Complete,
      reportVars, callVars
<1>3. LoopInv'
  BY DEF TransportInv, LoopInv, HandedLoopClosesEmpty, AfterHandoff, WorkerGone,
      LoopClosed, Complete, reportVars
<1>4. CleanInv'
  BY DEF TransportInv, ShutdownTypeOK, WorkerInv, CleanInv, Mistaken, WorkerGone, Swept, Complete,
      reportVars
<1> QED
  BY <1>1, <1>2, <1>3, <1>4 DEF TransportInv

\* A background task ends.
LEMMA EndTaskKeeps ==
  ASSUME TransportInv, NEW t \in BgTasks, EndTask(t), UNCHANGED <<callVars, connection>>
  PROVE  TransportInv'
<1>1. TypeOK'
  BY DEF TransportInv, TypeOK, ShutdownTypeOK, EndTask, reportVars, callVars
<1>2. WorkerInv'
  BY DEF TransportInv, ShutdownTypeOK, WorkerInv, BeforeCapture, WorkerGone, EndTask,
      reportVars, callVars
<1>3. LoopInv'
  BY DEF TransportInv, LoopInv, HandedLoopClosesEmpty, AfterHandoff, WorkerGone,
      LoopClosed, EndTask, reportVars
<1>4. CleanInv'
  BY DEF TransportInv, ShutdownTypeOK, WorkerInv, CleanInv, Mistaken, WorkerGone, Swept, EndTask,
      reportVars
<1> QED
  BY <1>1, <1>2, <1>3, <1>4 DEF TransportInv

\* The background thread closes its loop.
LEMMA CloseLoopKeeps ==
  ASSUME TransportInv, CloseLoop, UNCHANGED <<callVars, connection>>
  PROVE  TransportInv'
<1>1. TypeOK'
  BY DEF TransportInv, TypeOK, ShutdownTypeOK, CloseLoop, reportVars, callVars, BgStates
<1>2. WorkerInv'
  BY DEF TransportInv, ShutdownTypeOK, WorkerInv, BeforeCapture, WorkerGone, CloseLoop,
      reportVars, callVars, BgStates
<1>3. LoopInv'
  BY DEF TransportInv, LoopInv, HandedLoopClosesEmpty, AfterHandoff, WorkerGone,
      LoopClosed, CloseLoop, reportVars
<1>4. CleanInv'
  BY DEF TransportInv, ShutdownTypeOK, WorkerInv, CleanInv, Mistaken, WorkerGone, Swept, CloseLoop,
      reportVars
<1> QED
  BY <1>1, <1>2, <1>3, <1>4 DEF TransportInv

\* The background thread dies.
LEMMA LoseThreadKeeps ==
  ASSUME TransportInv, LoseThread, UNCHANGED <<callVars, connection>>
  PROVE  TransportInv'
<1>1. TypeOK'
  BY TransportAssumption DEF TransportInv, TypeOK, ShutdownTypeOK, LoseThread, reportVars,
      Fault, callVars, BgStates
<1>2. WorkerInv'
  BY DEF TransportInv, TypeOK, ShutdownTypeOK, WorkerInv, BeforeCapture, WorkerGone,
      LoseThread, reportVars, Fault, callVars, BgStates
<1>3. LoopInv'
  BY DEF TransportInv, LoopInv, HandedLoopClosesEmpty, AfterHandoff, WorkerGone,
      LoopClosed, LoseThread, reportVars
<1>4. CleanInv'
  BY DEF TransportInv, ShutdownTypeOK, WorkerInv, CleanInv, Mistaken, WorkerGone, Swept, LoseThread,
      reportVars
<1> QED
  BY <1>1, <1>2, <1>3, <1>4 DEF TransportInv

\* The SDK is captured.
LEMMA CaptureKeeps ==
  ASSUME TransportInv, Capture, UNCHANGED <<callVars, connection>>
  PROVE  TransportInv'
<1>1. TypeOK'
  <2>1. OwnerTypes'
    BY DEF TransportInv, TypeOK, ShutdownTypeOK, OwnerTypes, Capture, sdkVars
  <2>2. TaskTypes'
    BY DEF TransportInv, TypeOK, ShutdownTypeOK, TaskTypes, Capture, Goto, sdkVars,
        BgTasks
  <2>3. ReportTypes'
    <3> DEFINE Seen(b, start, flow, lost) ==
                 [ok |-> TRUE, bg |-> b, start |-> start, flow |-> flow, lost |-> lost]
    <3>1. \A b \in BgStates, start \in BOOLEAN, flow \in BOOLEAN, lost \in SUBSET Sides :
            Seen(b, start, flow, lost) \in Captures
      BY DEF Captures
    <3>2. NoCapture \in Captures
      BY DEF Captures, NoCapture, BgStates
    <3>3. Lost \in SUBSET Sides /\ (wrapper # "none") \in BOOLEAN
      BY DEF Lost, Sides
    <3>4. (IF attached THEN bg ELSE "none") \in BgStates
      BY DEF TransportInv, TypeOK, ShutdownTypeOK, BgStates
    <3>5. \/ cap' = NoCapture
          \/ \E flow \in BOOLEAN :
               cap' = Seen(IF attached THEN bg ELSE "none", wrapper # "none", flow, Lost)
      BY Zenon DEF Capture
    <3> HIDE DEF Seen
    <3>6. cap' \in Captures
      BY <3>1, <3>2, <3>3, <3>4, <3>5, Zenon
    <3> QED
      BY <3>6 DEF TransportInv, TypeOK, ShutdownTypeOK, ReportTypes, Capture
  <2>4. at' \in Steps /\ faults' \in 0..MaxFaults
    BY TransportAssumption DEF TransportInv, TypeOK, ShutdownTypeOK, Steps, Capture, Goto,
        Fault, NoFault, sdkVars
  <2> QED
    BY <2>3, <2>4 DEF TransportInv, TypeOK, ShutdownTypeOK, OwnerTypes, Capture, Goto,
        Fault, NoFault, sdkVars, TaskTypes, ReportTypes, callVars
<1>2. WorkerInv'
  <2>1. cap'.ok /\ ~cap'.start => wrapper' = "none"
    <3>1. \/ ~cap'.ok
          \/ cap'.start = (wrapper # "none")
      BY DEF Capture, NoCapture
    <3> QED
      BY <3>1 DEF Capture, sdkVars
  <2> QED
    BY <2>1 DEF TransportInv, WorkerInv, BeforeCapture, Capture, Goto, sdkVars, NoHandoff
<1>3. LoopInv'
  <2>1. hand = NoHandoff
    BY DEF TransportInv, WorkerInv, BeforeCapture, Capture
  <2>2. cap'.ok /\ cap'.bg = "none" => bg # "running"
    <3>1. \/ ~cap'.ok
          \/ cap'.bg = (IF attached THEN bg ELSE "none")
      BY DEF Capture, NoCapture
    <3> QED
      BY <2>1, <3>1 DEF TransportInv, LoopInv, NoHandoff
  <2> QED
    BY <2>1, <2>2 DEF TransportInv, LoopInv, HandedLoopClosesEmpty, NoHandoff, Capture, Goto,
        sdkVars
<1>4. CleanInv'
  BY DEF CleanInv, Capture, Goto
<1> QED
  BY <1>1, <1>2, <1>3, <1>4 DEF TransportInv

\* DeviceFlow.close() is scheduled, if it can be.
LEMMA PrecloseKeeps ==
  ASSUME TransportInv, Preclose, UNCHANGED <<callVars, connection>>
  PROVE  TransportInv'
<1>1. TypeOK'
  BY DEF TransportInv, TypeOK, ShutdownTypeOK, Steps, Preclose, Goto, callVars, Precloses,
      BgTasks
<1>2. WorkerInv'
  BY DEF TransportInv, ShutdownTypeOK, WorkerInv, BeforeCapture, WorkerGone, Preclose,
      Goto, callVars
<1>3. LoopInv'
  BY DEF TransportInv, WorkerInv, LoopInv, HandedLoopClosesEmpty, BeforeCapture,
      AfterHandoff, WorkerGone, LoopClosed, Preclose, Goto
<1>4. CleanInv'
  BY DEF CleanInv, Preclose, Goto
<1> QED
  BY <1>1, <1>2, <1>3, <1>4 DEF TransportInv

\* DeviceFlow.close() ends, or its time does.
LEMMA PrecloseEndsKeeps ==
  ASSUME TransportInv, PrecloseEnds, UNCHANGED <<callVars, connection>>
  PROVE  TransportInv'
<1>1. TypeOK'
  <2>1. OwnerTypes'
    BY DEF TransportInv, TypeOK, ShutdownTypeOK, OwnerTypes, PrecloseEnds
  <2>2. TaskTypes'
    BY DEF TransportInv, TypeOK, ShutdownTypeOK, TaskTypes, PrecloseEnds, Goto
  <2>3. ReportTypes'
    BY DEF TransportInv, TypeOK, ShutdownTypeOK, ReportTypes, PrecloseEnds, Goto,
        Captures, NoCapture, Handoffs, NoHandoff, Precloses
  <2>4. at' \in Steps /\ faults' \in 0..MaxFaults
    BY DEF TransportInv, TypeOK, ShutdownTypeOK, Steps, PrecloseEnds, Goto
  <2> QED
    BY <2>3, <2>4 DEF TransportInv, TypeOK, ShutdownTypeOK, OwnerTypes, PrecloseEnds,
        Goto, TaskTypes, ReportTypes, callVars
<1>2. WorkerInv'
  BY DEF TransportInv, WorkerInv, BeforeCapture, WorkerGone, PrecloseEnds, Goto, callVars,
      Captures, NoCapture, BgTasks, Sides
<1>3. LoopInv'
  BY DEF TransportInv, LoopInv, HandedLoopClosesEmpty, AfterHandoff, WorkerGone,
      LoopClosed, PrecloseEnds, Goto
<1>4. CleanInv'
  BY DEF CleanInv, PrecloseEnds, Goto
<1> QED
  BY <1>1, <1>2, <1>3, <1>4 DEF TransportInv

\* The SDK's own stop.
LEMMA PublicDisconnectKeeps ==
  ASSUME TransportInv, PublicDisconnect, UNCHANGED <<callVars, connection>>
  PROVE  TransportInv'
<1>1. TypeOK'
  <2>1. OwnerTypes'
    BY DEF TransportInv, TypeOK, ShutdownTypeOK, OwnerTypes, PublicDisconnect,
        StopOwnLoop, BgStates
  <2>2. TaskTypes'
    BY DEF TransportInv, TypeOK, ShutdownTypeOK, TaskTypes, PublicDisconnect, Goto,
        reportVars, BgTasks, Sides
  <2>3. ReportTypes'
    BY DEF TransportInv, TypeOK, ShutdownTypeOK, ReportTypes, PublicDisconnect, Goto,
        Fault, NoFault, StopOwnLoop, reportVars, BgStates
  <2>4. at' \in Steps /\ faults' \in 0..MaxFaults
    BY TransportAssumption DEF TransportInv, TypeOK, ShutdownTypeOK, Steps,
        PublicDisconnect, Goto, Fault, NoFault
  <2> QED
    BY <2>1, <2>2, <2>4 DEF TransportInv, TypeOK, ShutdownTypeOK, OwnerTypes,
        PublicDisconnect, Goto, Fault, NoFault, StopOwnLoop, reportVars, TaskTypes,
        callVars
<1>2. WorkerInv'
  BY DEF TransportInv, WorkerInv, BeforeCapture, WorkerGone, PublicDisconnect, Goto,
      Fault, StopOwnLoop, reportVars, callVars, Precloses, BgStates
<1>3. LoopInv'
  BY DEF TransportInv, LoopInv, HandedLoopClosesEmpty, AfterHandoff, WorkerGone,
      LoopClosed, PublicDisconnect, StopOwnLoop, Goto, reportVars
<1>4. CleanInv'
  BY DEF CleanInv, PublicDisconnect, Goto
<1> QED
  BY <1>1, <1>2, <1>3, <1>4 DEF TransportInv

\* The safety pipeline is disposed.
LEMMA DisposeKeeps ==
  ASSUME TransportInv, Dispose, UNCHANGED <<callVars, connection>>
  PROVE  TransportInv'
<1>1. TypeOK'
  BY TransportAssumption DEF TransportInv, TypeOK, ShutdownTypeOK, Steps, Dispose, Goto,
      Fault, NoFault, sdkVars, reportVars, callVars
<1>2. WorkerInv'
  BY DEF TransportInv, TypeOK, ShutdownTypeOK, WorkerInv, BeforeCapture, WorkerGone,
      Dispose, Goto, Fault, NoFault, sdkVars, reportVars, callVars
<1>3. LoopInv'
  BY DEF TransportInv, LoopInv, HandedLoopClosesEmpty, AfterHandoff, WorkerGone,
      LoopClosed, Dispose, Goto, sdkVars, reportVars
<1>4. CleanInv'
  BY DEF CleanInv, Dispose, Goto
<1> QED
  BY <1>1, <1>2, <1>3, <1>4 DEF TransportInv

\* The background loop is taken over.
LEMMA HandoffKeeps ==
  ASSUME TransportInv, Handoff, UNCHANGED <<callVars, connection>>
  PROVE  TransportInv'
<1>1. TypeOK'
  <2>1. OwnerTypes'
    BY DEF TransportInv, TypeOK, ShutdownTypeOK, OwnerTypes, Handoff, Detach
  <2>2. TaskTypes'
    BY DEF TransportInv, TypeOK, ShutdownTypeOK, TaskTypes, Handoff, Goto, BgTasks
  <2>3. ReportTypes'
    <3> DEFINE Taken(loop, running) ==
                 [taken |-> TRUE, loop |-> loop, running |-> running, exited |-> FALSE]
    <3>1. \A loop \in BOOLEAN, running \in BOOLEAN : Taken(loop, running) \in Handoffs
      BY DEF Handoffs
    <3>2. attached \in BOOLEAN /\ (attached /\ bg = "running") \in BOOLEAN
      BY Zenon DEF TransportInv, TypeOK, ShutdownTypeOK
    <3>3. hand' = hand \/ hand' = Taken(attached, attached /\ bg = "running")
      BY DEF Handoff
    <3> HIDE DEF Taken
    <3>4. hand' \in Handoffs
      BY <3>1, <3>3, Zenon DEF TransportInv, TypeOK, ShutdownTypeOK
    <3> QED
      BY <3>4 DEF TransportInv, TypeOK, ShutdownTypeOK, ReportTypes, Handoff
  <2>4. at' \in Steps /\ faults' \in 0..MaxFaults
    BY TransportAssumption DEF TransportInv, TypeOK, ShutdownTypeOK, Steps, Handoff, Goto,
        Fault, NoFault, Detach
  <2> QED
    BY <2>1, <2>3, <2>4 DEF TransportInv, TypeOK, ShutdownTypeOK, OwnerTypes, Handoff,
        Goto, Fault, NoFault, Detach, TaskTypes, ReportTypes, callVars
<1>2. WorkerInv'
  BY DEF TransportInv, WorkerInv, BeforeCapture, WorkerGone, Handoff, Goto, Fault,
      NoFault, Detach, callVars, BgTasks, Sides
<1>3. LoopInv'
  BY DEF TransportInv, TypeOK, ShutdownTypeOK, LoopInv, HandedLoopClosesEmpty,
      AfterHandoff, WorkerGone, LoopClosed, Handoff, Goto, Detach
<1>4. CleanInv'
  BY DEF CleanInv, Handoff, Goto
<1> QED
  BY <1>1, <1>2, <1>3, <1>4 DEF TransportInv

\* The web socket client is told to stop.
LEMMA StopWsKeeps ==
  ASSUME TransportInv, StopWs, UNCHANGED <<callVars, connection>>
  PROVE  TransportInv'
<1>1. TypeOK'
  <2>1. OwnerTypes'
    BY DEF TransportInv, TypeOK, ShutdownTypeOK, OwnerTypes, StopWs
  <2>2. TaskTypes'
    BY DEF TransportInv, TypeOK, ShutdownTypeOK, TaskTypes, StopWs, Goto
  <2>3. ReportTypes'
    BY DEF TransportInv, TypeOK, ShutdownTypeOK, ReportTypes, StopWs, Goto, Fault,
        NoFault, reportVars, Captures
  <2>4. at' \in Steps /\ faults' \in 0..MaxFaults
    BY TransportAssumption DEF TransportInv, TypeOK, ShutdownTypeOK, Steps, StopWs, Goto,
        Fault, NoFault
  <2> QED
    BY <2>1, <2>4 DEF TransportInv, TypeOK, ShutdownTypeOK, OwnerTypes, StopWs, Goto,
        Fault, NoFault, reportVars, TaskTypes, ReportTypes, callVars
<1>2. WorkerInv'
  BY DEF TransportInv, WorkerInv, BeforeCapture, WorkerGone, StopWs, Goto, Fault, NoFault,
      reportVars, callVars, Sides
<1>3. LoopInv'
  BY DEF TransportInv, LoopInv, HandedLoopClosesEmpty, AfterHandoff, WorkerGone,
      LoopClosed, StopWs, Goto, reportVars
<1>4. CleanInv'
  BY DEF CleanInv, StopWs, Goto
<1> QED
  BY <1>1, <1>2, <1>3, <1>4 DEF TransportInv

\* The worker has returned, or that is not proven.
LEMMA AwaitWorkerKeeps ==
  ASSUME TransportInv, AwaitWorker, UNCHANGED <<callVars, connection>>
  PROVE  TransportInv'
<1>1. TypeOK'
  <2>1. OwnerTypes'
    BY DEF TransportInv, TypeOK, ShutdownTypeOK, OwnerTypes, AwaitWorker, sdkVars
  <2>2. TaskTypes'
    BY DEF TransportInv, TypeOK, ShutdownTypeOK, TaskTypes, AwaitWorker, Goto, sdkVars,
        WorkerProven
  <2>3. ReportTypes'
    <3>1. WorkerProven \in BOOLEAN
      BY DEF WorkerProven
    <3>2. hand' \in Handoffs
      BY <3>1 DEF TransportInv, TypeOK, ShutdownTypeOK, AwaitWorker, Handoffs
    <3> QED
      BY <3>2 DEF TransportInv, TypeOK, ShutdownTypeOK, ReportTypes, AwaitWorker
  <2>4. at' \in Steps /\ faults' \in 0..MaxFaults
    BY DEF TransportInv, TypeOK, ShutdownTypeOK, Steps, AwaitWorker, Goto, sdkVars,
        WorkerProven
  <2> QED
    BY <2>3, <2>4 DEF TransportInv, TypeOK, ShutdownTypeOK, OwnerTypes, AwaitWorker, Goto,
        sdkVars, WorkerProven, TaskTypes, ReportTypes, callVars
<1>2. WorkerInv'
  BY DEF TransportInv, TypeOK, ShutdownTypeOK, WorkerInv, BeforeCapture, WorkerGone,
      AwaitWorker, Goto, sdkVars, WorkerProven, callVars, Handoffs, BgTasks, Sides
<1>3. LoopInv'
  BY DEF TransportInv, WorkerInv, LoopInv, HandedLoopClosesEmpty, BeforeCapture,
      AfterHandoff, WorkerGone, LoopClosed, AwaitWorker, Goto, sdkVars, WorkerProven
<1>4. CleanInv'
  BY DEF CleanInv, AwaitWorker, Goto
<1> QED
  BY <1>1, <1>2, <1>3, <1>4 DEF TransportInv

\* The loop that was taken over is drained.
LEMMA DrainKeeps ==
  ASSUME TransportInv, Drain, UNCHANGED <<callVars, connection>>
  PROVE  TransportInv'
<1>1. TypeOK'
  BY DEF TransportInv, TypeOK, ShutdownTypeOK, Steps, Drain, Goto, sdkVars, callVars
<1>2. WorkerInv'
  BY DEF TransportInv, ShutdownTypeOK, WorkerInv, BeforeCapture, WorkerGone, Drain, Goto,
      sdkVars, callVars
<1>3. LoopInv'
  BY DEF TransportInv, WorkerInv, LoopInv, HandedLoopClosesEmpty, BeforeCapture,
      AfterHandoff, WorkerGone, LoopClosed, Drain, Goto, sdkVars, Drained
<1>4. CleanInv'
  BY DEF CleanInv, Drain, Goto
<1> QED
  BY <1>1, <1>2, <1>3, <1>4 DEF TransportInv

\* The loop that was taken over is stopped.
LEMMA StopLoopKeeps ==
  ASSUME TransportInv, StopLoop, UNCHANGED <<callVars, connection>>
  PROVE  TransportInv'
<1>1. TypeOK'
  BY DEF TransportInv, TypeOK, ShutdownTypeOK, Steps, StopLoop, Goto, reportVars,
      callVars, BgStates
<1>2. WorkerInv'
  BY DEF TransportInv, ShutdownTypeOK, WorkerInv, BeforeCapture, WorkerGone, StopLoop,
      Goto, reportVars, callVars, BgStates
<1>3. LoopInv'
  BY DEF TransportInv, LoopInv, HandedLoopClosesEmpty, AfterHandoff, WorkerGone,
      LoopClosed, StopLoop, Goto, reportVars
<1>4. CleanInv'
  BY DEF CleanInv, StopLoop, Goto
<1> QED
  BY <1>1, <1>2, <1>3, <1>4 DEF TransportInv

\* Its thread is joined.
LEMMA JoinKeeps ==
  ASSUME TransportInv, Join, UNCHANGED <<callVars, connection>>
  PROVE  TransportInv'
<1>1. TypeOK'
  <2>1. OwnerTypes'
    BY DEF TransportInv, TypeOK, ShutdownTypeOK, OwnerTypes, Join
  <2>2. TaskTypes'
    BY DEF TransportInv, TypeOK, ShutdownTypeOK, TaskTypes, Join, Goto
  <2>3. ReportTypes'
    BY DEF TransportInv, TypeOK, ShutdownTypeOK, ReportTypes, Join, Goto, reportVars,
        Captures, NoCapture, Handoffs
  <2>4. at' \in Steps /\ faults' \in 0..MaxFaults
    BY TransportAssumption DEF TransportInv, TypeOK, ShutdownTypeOK, Steps, Join, Goto
  <2> QED
    BY <2>1, <2>3, <2>4 DEF TransportInv, TypeOK, ShutdownTypeOK, OwnerTypes, Join, Goto,
        reportVars, TaskTypes, ReportTypes, callVars
<1>2. WorkerInv'
  BY DEF TransportInv, WorkerInv, BeforeCapture, WorkerGone, Join, Goto, reportVars,
      callVars, Captures, NoCapture, Sides
<1>3. LoopInv'
  BY DEF TransportInv, LoopInv, HandedLoopClosesEmpty, AfterHandoff, WorkerGone,
      LoopClosed, Join, Goto, reportVars
<1>4. CleanInv'
  BY DEF CleanInv, Join, Goto
<1> QED
  BY <1>1, <1>2, <1>3, <1>4 DEF TransportInv

\* The worker and the loops are looked at.
LEMMA SweepKeeps ==
  ASSUME TransportInv, Sweep, UNCHANGED <<callVars, connection>>
  PROVE  TransportInv'
<1>1. TypeOK'
  BY DEF TransportInv, TypeOK, ShutdownTypeOK, Steps, Sweep, Goto, sdkVars, callVars
<1>2. WorkerInv'
  BY DEF TransportInv, ShutdownTypeOK, WorkerInv, BeforeCapture, WorkerGone, Sweep, Goto,
      sdkVars, callVars
<1>3. LoopInv'
  BY DEF TransportInv, LoopInv, HandedLoopClosesEmpty, AfterHandoff, WorkerGone,
      LoopClosed, Sweep, Goto, sdkVars
<1>4. CleanInv'
  BY DEF TransportInv, WorkerInv, CleanInv, Mistaken, Swept, WorkerGone, Sweep, Goto, sdkVars, Captures,
      Handoffs, NoHandoff, Precloses, BgStates, WorkerIssues, BgIssues, WorkerSeen
<1> QED
  BY <1>1, <1>2, <1>3, <1>4 DEF TransportInv

\* The side loops are drained.
LEMMA SweepSidesKeeps ==
  ASSUME TransportInv, SweepSides, UNCHANGED <<callVars, connection>>
  PROVE  TransportInv'
<1>1. TypeOK'
  <2>1. at' \in Steps /\ clean' \in BOOLEAN
    BY DEF TransportInv, TypeOK, ShutdownTypeOK, Steps, SweepSides, Goto
  <2> QED
    BY <2>1 DEF TransportInv, TypeOK, ShutdownTypeOK, SweepSides, sdkVars, callVars
<1>2. WorkerInv'
  BY DEF TransportInv, WorkerInv, BeforeCapture, WorkerGone, SweepSides, Goto, sdkVars
<1>3. LoopInv'
  BY DEF TransportInv, LoopInv, HandedLoopClosesEmpty, AfterHandoff, WorkerGone,
      LoopClosed, SweepSides, Goto, sdkVars
<1>4. CleanInv'
  <2> SUFFICES ASSUME clean', cap.ok, at' \in {"draining", "close"}
               PROVE  /\ worker \in {"running", "leaving"} => Mistaken
                      /\ bg # "closed" => cap.bg = "none"
                      /\ left \cap Swept # {} =>
                           at' = "draining" /\ Mistaken /\ "cache" \notin Swept
    BY DEF CleanInv, Mistaken, Swept, SweepSides, Goto, sdkVars
  <2>1. \A s \in Swept : side[s] = "running"
    BY DEF TransportInv, TypeOK, ShutdownTypeOK, Swept, Sides, SweepSides, SideIssue
  <2>2. side["cache"] # "running"
    BY DEF TransportInv, WorkerInv
  <2>3. Swept \subseteq {"ws"}
    BY <2>1, <2>2 DEF Swept, Sides
  <2> QED
    BY <2>1, <2>3 DEF TransportInv, WorkerInv, CleanInv, SweepSides, Goto
<1> QED
  BY <1>1, <1>2, <1>3, <1>4 DEF TransportInv

\* The running side loop is drained.
LEMMA DrainSideKeeps ==
  ASSUME TransportInv, DrainSide, UNCHANGED <<callVars, connection>>
  PROVE  TransportInv'
<1>1. TypeOK'
  <2>1. OwnerTypes'
    BY DEF TransportInv, TypeOK, ShutdownTypeOK, OwnerTypes, DrainSide
  <2>2. TaskTypes'
    BY DEF TransportInv, TypeOK, ShutdownTypeOK, TaskTypes, DrainSide, Goto
  <2>3. ReportTypes'
    BY DEF TransportInv, TypeOK, ShutdownTypeOK, ReportTypes, DrainSide, Goto
  <2>4. at' \in Steps /\ faults' \in 0..MaxFaults
    BY DEF TransportInv, TypeOK, ShutdownTypeOK, Steps, DrainSide, Goto
  <2> QED
    BY <2>1, <2>2, <2>3, <2>4 DEF TransportInv, TypeOK, ShutdownTypeOK, OwnerTypes, TaskTypes,
        ReportTypes, DrainSide, callVars
<1>2. WorkerInv'
  BY DEF TransportInv, WorkerInv, BeforeCapture, WorkerGone, DrainSide, Goto
<1>3. LoopInv'
  BY DEF TransportInv, LoopInv, HandedLoopClosesEmpty, AfterHandoff, WorkerGone,
      LoopClosed, DrainSide, Goto
<1>4. CleanInv'
  BY DEF TransportInv, CleanInv, Mistaken, Swept, Sides, DrainSide, Goto
<1> QED
  BY <1>1, <1>2, <1>3, <1>4 DEF TransportInv

-----------------------------------------------------------------------------
(* The invariant, and the theorems                                         *)

\* Nothing runs and nothing was reported at the start.
LEMMA InitHolds == Init => TransportInv
<1> SUFFICES ASSUME Init PROVE TransportInv
  OBVIOUS
<1>1. NoCapture \in Captures /\ NoHandoff \in Handoffs
  BY DEF NoCapture, Captures, NoHandoff, Handoffs, BgStates
<1>2. side \in [Sides -> {"none", "idle", "running", "closed"}]
  <2>1. [ws |-> "idle", cache |-> "none"] \in [Sides -> {"none", "idle", "running", "closed"}]
    BY DEF Sides
  <2> QED
    BY <2>1 DEF Init, ShutdownInit
<1>3. OwnerTypes /\ TaskTypes /\ at \in Steps
  BY <1>2 DEF Init, ShutdownInit, OwnerTypes, TaskTypes, Steps, BgStates
<1>4. ReportTypes /\ faults \in 0..MaxFaults
  BY <1>1, TransportAssumption DEF Init, ShutdownInit, ReportTypes, Precloses
<1>5. TypeOK
  BY <1>3, <1>4 DEF Init, TypeOK, ShutdownTypeOK, OwnerTypes, TaskTypes, ReportTypes
<1>6. WorkerInv /\ LoopInv /\ CleanInv
  <2>1. side["ws"] # "running" /\ side["cache"] # "running"
    BY DEF Init, ShutdownInit, Sides
  <2> QED
    BY <2>1 DEF Init, ShutdownInit, WorkerInv, LoopInv, CleanInv, HandedLoopClosesEmpty,
        WorkerGone, NoCapture, NoHandoff, LoopClosed
<1> QED
  BY <1>5, <1>6 DEF TransportInv

\* Every step keeps the invariant.
LEMMA NextKeeps == TransportInv /\ [Next]_vars => TransportInv'
<1> SUFFICES ASSUME TransportInv, [Next]_vars PROVE TransportInv'
  OBVIOUS
<1>1. CASE Start
  BY <1>1, StartKeeps
<1>2. CASE Load \/ CheckStop \/ RunChannel \/ Connected \/ Woken \/ Over
  BY <1>2, LoadKeeps, CheckStopKeeps, RunChannelKeeps, ConnectedKeeps, WokenKeeps,
      OverKeeps
<1>3. CASE Down
  <2> USE <1>3 DEF Down
  <2>1. CASE Capture \/ Preclose \/ PrecloseEnds \/ PublicDisconnect
    BY <2>1, CaptureKeeps, PrecloseKeeps, PrecloseEndsKeeps, PublicDisconnectKeeps
  <2>2. CASE Dispose \/ Handoff \/ StopWs \/ AwaitWorker
    BY <2>2, DisposeKeeps, HandoffKeeps, StopWsKeeps, AwaitWorkerKeeps
  <2>3. CASE Drain \/ StopLoop \/ Join \/ Sweep \/ SweepSides \/ DrainSide
    BY <2>3, DrainKeeps, StopLoopKeeps, JoinKeeps, SweepKeeps, SweepSidesKeeps,
        DrainSideKeeps
  <2> QED
    BY <2>1, <2>2, <2>3 DEF Shutdown
<1>4. CASE Stop \/ Stopper
  BY <1>4, StopKeeps, StopperKeeps
<1>5. CASE SdkStep
  <2> USE <1>5 DEF SdkStep
  <2>1. CASE Schedule \/ Leave \/ Exit \/ Complete
    BY <2>1, ScheduleKeeps, LeaveKeeps, ExitKeeps, CompleteKeeps
  <2>2. CASE \E t \in BgTasks : EndTask(t)
    BY <2>2, EndTaskKeeps
  <2>3. CASE CloseLoop \/ LoseThread
    BY <2>3, CloseLoopKeeps, LoseThreadKeeps
  <2> QED
    BY <2>1, <2>2, <2>3 DEF Sdk
<1>6. CASE Reconnect \/ Hang
  BY <1>6, ReconnectKeeps, HangKeeps
<1>7. CASE UNCHANGED vars
  BY <1>7 DEF vars, downVars, sdkVars, reportVars, callVars, TransportInv, TypeOK,
      ShutdownTypeOK, WorkerInv, LoopInv, CleanInv, Mistaken, HandedLoopClosesEmpty, WorkerGone,
      LoopClosed, Swept
<1> QED
  BY <1>1, <1>2, <1>3, <1>4, <1>5, <1>6, <1>7 DEF Next, Thread

\* Every state of the transport satisfies the invariant.
THEOREM TransportInvariant == Spec => []TransportInv
<1> QED
  BY InitHolds, NextKeeps, PTL DEF Spec

\* A shutdown reported without a blocking issue, after a capture that succeeded,
\* left no worker, background loop or side task behind, but for the worker whose
\* wrapper the SDK's own stop cancelled, with the loop it closed, and for a
\* background loop that the SDK had forgotten and told to stop (drain_sdk_tasks).
THEOREM CleanMeansGone == Spec => []NoSilentLeak
<1>1. TransportInv => NoSilentLeak
  BY DEF TransportInv, LoopInv, CleanInv, Mistaken, Swept, NoSilentLeak
<1> QED
  BY <1>1, TransportInvariant, PTL

\* The background loop that handoff_channel_bg_ownership took over running is
\* stopped only when the worker is gone and no task is pending.
THEOREM TakenOverIsDrained == Spec => []HandedLoopClosesEmpty
<1>1. TransportInv => HandedLoopClosesEmpty
  BY DEF TransportInv, LoopInv
<1> QED
  BY <1>1, TransportInvariant, PTL
=============================================================================
