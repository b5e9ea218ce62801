---------------------------- MODULE BrowserLogin ----------------------------
(***************************************************************************)
(* Who owns the ChatGPT browser and how a human signs in to it: the        *)
(* adapters CfrSupervisor makes and drops (ChromeChatAdapter over          *)
(* ChromeDevToolsMcp or ChromeUseBridge), the automation child of each,    *)
(* the one Chrome that may hold the dedicated profile, the two marker      *)
(* files, and the health checks that decide between attaching automation   *)
(* and opening a plain window for the human.                               *)
(*                                                                         *)
(* Operations of the Control Center take _browser_lifecycle_lock; the      *)
(* login monitor and the commands of the Feishu runtime check and use the  *)
(* adapter without it.  Chrome and ChatGPT are external: one process holds *)
(* a profile, a page asks for a login or not.                              *)
(***************************************************************************)
EXTENDS Integers, Sequences

CONSTANTS
  Kinds,        \* browser backends a preference may name
  Monitors,     \* threads of _start_chat_login_monitor
  NoMonitor,
  MaxAdapters,  \* bound on the adapters made
  MaxOps,       \* bound on operations of the Control Center
  MaxMishaps    \* bound on failing calls, late logins, expired sessions and crashes

ASSUME LoginAssumption ==
  /\ Kinds \subseteq {"dedicated", "embedded", "shared"} /\ Kinds # {}
  /\ Monitors \cap {"op", "chat"} = {} /\ NoMonitor \notin Monitors
  /\ MaxAdapters \in Nat /\ MaxOps \in Nat /\ MaxMishaps \in Nat

VARIABLES
  pref,      \* the backend the preference comes to (_desired_chat_backend)
  saving,    \* save_setup_preferences, at most once: "stop" the runtime, "close" the
             \* bridge
  made,      \* the kinds of the adapters made so far
  adapter,   \* _chat_adapter; 0 is none
  runtime,   \* the adapter a Feishu runtime was built with
  claimed,   \* whether that runtime is _daemon
  mcp,       \* adapters whose automation child runs
  holder,    \* of the dedicated profile: nobody, the human (a plain login
             \* window), or the adapter whose Chrome it is
  shown,     \* the embedded page is shown to the human
  signedIn,  \* CFR's own backends whose profile ChatGPT knows
  auth,      \* backends with a chatgpt-authenticated file
  pending,   \* backends with a chatgpt-login-bootstrap.pending file
  stands,    \* where each thread stands
  on,        \* the adapter it works with
  got,       \* the status its check came to
  setup,     \* the operation is start_chat_setup
  current,   \* _chat_login_monitor
  stopped,   \* monitors whose stop event is set
  overlapped,\* history: threads at work at the same time as another
  crossed,   \* history: the window was opened by one of them, or for a dropped adapter
  disturbed, \* history: a prompt used the browser beside the window
  inUse,     \* history: adapters dropped while somebody was using them
  ops, mishaps

owned   == <<pref, saving, made, adapter, runtime, claimed>>
browser == <<mcp, holder, shown, signedIn>>
markers == <<auth, pending>>
threads == <<stands, on, got, setup>>
watch   == <<current, stopped>>
history == <<overlapped, crossed, disturbed, inUse>>
loginVars == <<owned, browser, markers, threads, watch, history, ops, mishaps>>

Actors      == {"op", "chat"} \cup Monitors
Marked      == {"dedicated", "embedded"}
CheckSteps  == {"open", "health", "clear", "attach", "launch", "popen", "pages",
                "blocked", "mark"}
ManualSteps == {"manual", "forget", "verify"}
Statuses    == {"none", "ready", "page_not_ready", "rate_limited", "waiting_user",
                "not_connected", "raised"}
Made        == DOMAIN made
NoOwner     == 0
Human       == MaxAdapters + 1

LoginTypeOK ==
  /\ pref \in Kinds /\ saving \in {"no", "stop", "close", "done"}
  /\ made \in Seq(Kinds) /\ Len(made) <= MaxAdapters
  /\ {adapter, runtime} \subseteq Made \cup {0} /\ claimed \in BOOLEAN
  /\ mcp \subseteq Made /\ inUse \subseteq Made
  /\ holder \in Made \cup {NoOwner, Human}
  /\ shown \in BOOLEAN /\ signedIn \subseteq Marked
  /\ auth \subseteq Marked /\ pending \subseteq Marked
  /\ stands \in [Actors -> {"idle", "wait", "done", "close"}
                           \cup CheckSteps \cup ManualSteps]
  /\ on \in [Actors -> Made \cup {0}]
  /\ got \in [Actors -> Statuses]
  /\ setup \in BOOLEAN
  /\ current \in Monitors \cup {NoMonitor} /\ stopped \subseteq Monitors
  /\ crossed \in BOOLEAN /\ disturbed \in BOOLEAN /\ overlapped \subseteq Actors
  /\ ops \in 0..MaxOps /\ mishaps \in 0..MaxMishaps

\* A profile and its markers may be of an earlier life of the program.
LoginInit ==
  /\ pref \in Kinds /\ saving = "no"
  /\ made = <<>> /\ adapter = 0 /\ runtime = 0 /\ claimed = FALSE
  /\ mcp = {} /\ holder = NoOwner /\ shown = FALSE
  /\ signedIn \in {{}, Marked \cap Kinds} /\ auth = signedIn
  /\ pending = {}
  /\ stands = [x \in Actors |-> "idle"] /\ on = [x \in Actors |-> 0]
  /\ got = [x \in Actors |-> "none"] /\ setup = FALSE
  /\ current = NoMonitor /\ stopped = {}
  /\ overlapped = {} /\ crossed = FALSE /\ disturbed = FALSE /\ inUse = {}
  /\ ops = 0 /\ mishaps = 0

Mishap   == mishaps < MaxMishaps /\ mishaps' = mishaps + 1
NoMishap == UNCHANGED mishaps

Go(x, step) == stands' = [stands EXCEPT ![x] = step] /\ UNCHANGED got
\* Only a monitor and start_chat_setup look at what the check came to.
Reads(x) == x \in Monitors \/ (x = "op" /\ setup)
Finds(x, status) ==
  /\ stands' = [stands EXCEPT ![x] = "done"]
  /\ got' = IF Reads(x) THEN [got EXCEPT ![x] = status] ELSE got
StandsAt(x, step) == stands[x] = step /\ UNCHANGED <<on, setup>>
Rests(x) ==
  /\ stands' = [stands EXCEPT ![x] = "idle"] /\ on' = [on EXCEPT ![x] = 0]
  /\ got' = [got EXCEPT ![x] = "none"]
  /\ overlapped' = overlapped \ {x}

Kind(x)    == made[on[x]]
Busy(x)    == stands[x] \notin {"idle", "wait"}
Using(a)   == a = runtime \/ \E x \in Actors : on[x] = a /\ Busy(x)

\* Who works at the same time as another.
Starts(x) ==
  LET others == {y \in Actors \ {x} : Busy(y)} IN
  overlapped' = IF others = {} THEN overlapped \ {x} ELSE overlapped \cup others \cup {x}
Opening    == \E x \in Actors : stands[x] = "popen"

-----------------------------------------------------------------------------
(* The automation child and the profile                                    *)

\* Chrome refuses a second process on a profile.
Reaches(a) == made[a] = "dedicated" => holder = NoOwner \/ (holder = a /\ a \in mcp)

\* The child starts with any request that finds it gone; its Chrome comes with
\* the first tool.
Run(a) ==
  /\ mcp' = mcp \cup {a}
  /\ holder' = IF made[a] = "dedicated" /\ Reaches(a) THEN a ELSE holder

\* Chrome may outlive the child.
Ends(S) ==
  /\ mcp' = mcp \ S
  /\ \/ UNCHANGED holder
     \/ holder \in S \cap mcp /\ holder' = NoOwner

\* ChromeChatAdapter.close: the child, and for the dedicated backend whatever runs
\* on the profile, the login window of a human too.
OwnsProfile(a) == a # 0 /\ made[a] = "dedicated"
CloseAdapter(a) ==
  IF OwnsProfile(a) THEN mcp' = mcp \ {a} /\ holder' = NoOwner ELSE Ends({a})

-----------------------------------------------------------------------------
(* health, by the operation, a monitor or a command of a chat              *)

\* adapter.start() and the shared half of finish_manual_login.
Open(x) ==
  /\ StandsAt(x, "open")
  /\ \/ Go(x, "health") /\ Run(on[x]) /\ NoMishap
     \/ Mishap /\ Finds(x, "not_connected") /\ (Run(on[x]) \/ UNCHANGED <<mcp, holder>>)
  /\ UNCHANGED <<owned, shown, signedIn, markers, watch, history, ops>>

\* _prepare_dedicated_runtime: a login under way is left alone.
Known == IF "dedicated" \in auth \cup pending THEN "attach" ELSE "launch"
Waits_Never(k) == FALSE   \* mutant: does not look for a login under way
Waits(k) == k \in pending /\ k \notin auth
Check(x) ==
  /\ StandsAt(x, "health")
  /\ \/ /\ Kind(x) = "dedicated" /\ on[x] \notin mcp
        /\ \/ holder # NoOwner /\ Waits("dedicated") /\ Finds(x, "waiting_user")
           \/ holder # NoOwner /\ ~Waits("dedicated") /\ Go(x, "clear")
           \/ holder = NoOwner /\ Go(x, Known)
     \/ Kind(x) = "embedded" /\ on[x] \notin mcp /\ Go(x, "attach")
     \/ (Kind(x) = "shared" \/ on[x] \in mcp) /\ Go(x, "pages")
  /\ UNCHANGED <<owned, browser, markers, watch, history, ops, mishaps>>

\* _stop_profile_browser: whatever runs on the profile by now is killed.
ProfileEnds == holder' = NoOwner /\ UNCHANGED history
Clear(x) ==
  /\ StandsAt(x, "clear") /\ Go(x, Known) /\ ProfileEnds
  /\ UNCHANGED <<owned, mcp, shown, signedIn, markers, watch, ops, mishaps>>

Attach(x) ==
  /\ StandsAt(x, "attach")
  /\ \/ Reaches(on[x]) /\ NoMishap /\ Run(on[x]) /\ Go(x, "pages")
     \/ /\ (Reaches(on[x]) /\ Mishap) \/ (~Reaches(on[x]) /\ NoMishap)
        /\ \/ /\ Kind(x) = "dedicated" /\ Ends({on[x]})
              /\ IF "dedicated" \in auth THEN Finds(x, "raised") ELSE Go(x, "launch")
           \/ /\ Kind(x) = "embedded" /\ Finds(x, "not_connected")
              /\ Run(on[x]) \/ UNCHANGED <<mcp, holder>>
  /\ UNCHANGED <<owned, shown, signedIn, markers, watch, history, ops>>

\* _launch_login_bootstrap, with no automation attached.
Bootstrap_Attached(x) ==   \* mutant: leaves the child running
  /\ Go(x, "popen") /\ UNCHANGED <<mcp, holder>>
  /\ pending' = pending \cup {"dedicated"} /\ disturbed' = FALSE
Bootstrap(x) ==
  /\ Go(x, "popen") /\ Ends({on[x]})
  /\ pending' = pending \cup {"dedicated"} /\ disturbed' = FALSE
Launch(x) ==
  /\ StandsAt(x, "launch") /\ Bootstrap(x)
  /\ UNCHANGED <<owned, shown, signedIn, auth, watch, overlapped, crossed, inUse, ops,
                 mishaps>>

Popen(x) ==
  /\ StandsAt(x, "popen")
  /\ \/ /\ holder = NoOwner /\ NoMishap /\ Finds(x, "waiting_user")
        /\ holder' = Human /\ crossed' = (x \in overlapped \/ on[x] \in inUse)
     \/ /\ holder = NoOwner /\ Mishap /\ Finds(x, "raised")
        /\ UNCHANGED <<holder, crossed>>
     \/ /\ holder # NoOwner /\ NoMishap /\ Finds(x, "waiting_user")
        /\ UNCHANGED <<holder, crossed>>
  /\ UNCHANGED <<owned, mcp, shown, signedIn, markers, watch, disturbed, overlapped, inUse,
                 ops>>

\* What the page says: signed in, asking for a login, or one of the rest.
Pages(x) ==
  /\ StandsAt(x, "pages") /\ Run(on[x])
  /\ \/ /\ Mishap
        /\ \E s \in {"not_connected", "page_not_ready", "rate_limited", "waiting_user"} :
             Finds(x, s)
     \/ NoMishap /\ ~Reaches(on[x]) /\ Finds(x, "not_connected")
     \/ /\ NoMishap /\ Reaches(on[x]) /\ Kind(x) \in Marked
        /\ Go(x, IF Kind(x) \in signedIn THEN "mark" ELSE "blocked")
     \/ /\ NoMishap /\ Kind(x) = "shared"
        /\ \E s \in {"ready", "waiting_user"} : Finds(x, s)
  /\ UNCHANGED <<owned, shown, signedIn, markers, watch, history, ops>>

Blocked(x) ==
  /\ StandsAt(x, "blocked")
  /\ auth' = auth \ {Kind(x)}
  /\ \/ Kind(x) = "dedicated" /\ Bootstrap(x) /\ UNCHANGED shown
     \/ /\ Kind(x) = "embedded" /\ Finds(x, "waiting_user")
        /\ shown' = TRUE /\ pending' = pending \cup {"embedded"}
        /\ UNCHANGED <<mcp, holder, disturbed>>
  /\ UNCHANGED <<owned, signedIn, watch, overlapped, crossed, inUse, ops, mishaps>>

Mark(x) ==
  /\ StandsAt(x, "mark")
  /\ auth' = auth \cup {Kind(x)} /\ pending' = pending \ {Kind(x)}
  /\ \/ Finds(x, "ready") /\ NoMishap
     \/ Finds(x, "page_not_ready") /\ Mishap
  /\ UNCHANGED <<owned, browser, watch, history, ops>>

CheckStep(x) ==
  \/ Open(x) \/ Check(x) \/ Clear(x) \/ Attach(x) \/ Launch(x) \/ Popen(x)
  \/ Pages(x) \/ Blocked(x) \/ Mark(x)

-----------------------------------------------------------------------------
(* _shared_chat_adapter                                                    *)

Drop(a) == inUse' = IF a # 0 /\ Using(a) THEN inUse \cup {a} ELSE inUse

Reuse == adapter # 0 /\ made[adapter] = pref
Replace_Left ==   \* mutant: the old adapter is forgotten, not closed
  /\ Len(made) < MaxAdapters
  /\ Drop(adapter)
  /\ made' = Append(made, pref) /\ adapter' = Len(made) + 1
  /\ UNCHANGED <<mcp, holder>>
Replace ==
  /\ Len(made) < MaxAdapters
  /\ Drop(adapter) /\ CloseAdapter(adapter)
  /\ made' = Append(made, pref) /\ adapter' = Len(made) + 1

\* Another backend is refused while a runtime uses the old one.
Obtain ==
  \/ Reuse /\ UNCHANGED <<made, adapter, mcp, holder, inUse>>
  \/ ~Reuse /\ (adapter = 0 \/ ~claimed) /\ Replace

-----------------------------------------------------------------------------
(* Operations of the Control Center, one at a time                         *)

Begin(steps) ==
  /\ stands["op"] = "idle" /\ ops < MaxOps /\ ops' = ops + 1
  /\ Obtain /\ on' = [on EXCEPT !["op"] = adapter']
  /\ Go("op", steps[pref])
  /\ Starts("op")
  /\ UNCHANGED <<pref, saving, runtime, claimed, shown, signedIn, markers, watch,
                 crossed, disturbed, mishaps>>

\* start_chat_setup watches the login; start_browser_bridge alone does not.
StartBridge(watched) ==
  /\ Begin([dedicated |-> "health", embedded |-> "open", shared |-> "open"])
  /\ setup' = watched
StartManualLogin ==
  /\ pref # "embedded" /\ Begin([dedicated |-> "manual", shared |-> "manual"])
  /\ setup' = FALSE
FinishManualLogin ==
  /\ pref # "embedded" /\ Begin([dedicated |-> "verify", shared |-> "open"])
  /\ setup' = FALSE

\* start_manual_login: automation ends, and whatever else runs on the profile.
ManualClose ==
  /\ StandsAt("op", "manual")
  /\ \/ /\ Kind("op") = "dedicated" /\ Go("op", "forget")
        /\ mcp' = mcp \ {on["op"]} /\ ProfileEnds
     \/ /\ Kind("op") = "shared" /\ Finds("op", "waiting_user")
        /\ mcp' = mcp \ {on["op"]} /\ UNCHANGED <<holder, history>>
  /\ UNCHANGED <<owned, shown, signedIn, markers, watch, ops, mishaps>>
ManualForget ==
  /\ StandsAt("op", "forget") /\ Bootstrap("op")
  /\ auth' = auth \ {"dedicated"}
  /\ UNCHANGED <<owned, shown, signedIn, watch, overlapped, crossed, inUse, ops, mishaps>>

\* finish_manual_login looks for the window first.
Verify ==
  /\ StandsAt("op", "verify")
  /\ IF holder = NoOwner THEN Go("op", "health") ELSE Finds("op", "waiting_user")
  /\ UNCHANGED <<owned, browser, markers, watch, history, ops, mishaps>>

\* _start_chat_login_monitor: one that lives is enough.
Alive(m) == m \in Monitors /\ stands[m] # "idle"
OpDone ==
  /\ stands["op"] = "done" /\ setup' = FALSE /\ got' = [got EXCEPT !["op"] = "none"]
  /\ \/ /\ setup /\ got["op"] = "waiting_user" /\ ~Alive(current)
        /\ \E m \in Monitors :
             /\ ~Alive(m) /\ current' = m
             /\ stands' = [stands EXCEPT !["op"] = "idle", ![m] = "wait"]
             /\ on' = [on EXCEPT !["op"] = 0, ![m] = adapter]
             /\ stopped' = stopped \ {m} /\ overlapped' = overlapped \ {"op"}
     \/ /\ ~setup \/ got["op"] # "waiting_user" \/ Alive(current)
        /\ Rests("op") /\ UNCHANGED watch
  /\ UNCHANGED <<owned, browser, markers, crossed, disturbed, inUse, ops, mishaps>>

\* close_browser_bridge, by a shutdown once it tried to stop the runtime or by a
\* changed preference; its wait for the monitor is bounded and the monitor forgotten.
BeginClose ==
  /\ stands["op"] = "idle"
  /\ \/ /\ ops < MaxOps /\ ops' = ops + 1 /\ UNCHANGED saving
        /\ IF runtime = 0 THEN NoMishap ELSE Mishap
     \/ saving = "close" /\ saving' = "done" /\ UNCHANGED <<ops, mishaps>>
  /\ stopped' = stopped \cup (Monitors \cap {current})
  /\ adapter' = 0 /\ Drop(adapter)
  /\ on' = [on EXCEPT !["op"] = adapter] /\ Go("op", "close")
  /\ UNCHANGED <<pref, made, runtime, claimed, browser, markers, setup, current,
                 overlapped, crossed, disturbed>>
Close ==
  /\ stands["op"] = "close" /\ Rests("op")
  /\ CloseAdapter(on["op"]) /\ current' = NoMonitor
  /\ UNCHANGED <<owned, setup, shown, signedIn, markers, stopped, crossed, disturbed,
                 inUse, ops, mishaps>>

SavePreference ==
  /\ saving = "no"
  /\ pref' \in Kinds \ {pref}
  /\ saving' = IF claimed THEN "stop" ELSE "close"
  /\ UNCHANGED <<made, adapter, runtime, claimed, browser, markers, threads, watch,
                 history, ops, mishaps>>

-----------------------------------------------------------------------------
(* The Feishu runtime                                                      *)

\* It is built with the shared adapter first and becomes _daemon later.
BuildRuntime ==
  /\ runtime = 0 /\ ops < MaxOps /\ ops' = ops + 1
  /\ Obtain /\ runtime' = adapter'
  /\ UNCHANGED <<pref, saving, claimed, shown, signedIn, markers, threads, watch,
                 overlapped, crossed, disturbed, mishaps>>
ClaimRuntime ==
  /\ runtime # 0 /\ ~claimed /\ claimed' = TRUE
  /\ UNCHANGED <<pref, saving, made, adapter, runtime, browser, markers, threads,
                 watch, history, ops, mishaps>>
StopRuntime ==
  /\ claimed /\ claimed' = FALSE /\ runtime' = 0
  /\ saving' = IF saving = "stop" THEN "close" ELSE saving
  /\ UNCHANGED <<pref, made, adapter, browser, markers, threads, watch, history,
                 ops, mishaps>>

\* Any tool call of a prompt or a command.
ChatUses ==
  /\ claimed /\ Run(runtime)
  /\ disturbed' = (disturbed \/ holder = Human \/ Opening)
  /\ UNCHANGED <<owned, shown, signedIn, markers, threads, watch, overlapped,
                 crossed, inUse, ops, mishaps>>

\* /status and /surface.
ChatChecks ==
  /\ claimed /\ stands["chat"] = "idle" /\ Go("chat", "health")
  /\ on' = [on EXCEPT !["chat"] = runtime]
  /\ Starts("chat")
  /\ UNCHANGED <<owned, browser, markers, setup, watch, crossed, disturbed, inUse, ops,
                 mishaps>>
ChatDone ==
  /\ stands["chat"] = "done" /\ Rests("chat")
  /\ UNCHANGED <<owned, browser, markers, setup, watch, crossed, disturbed, inUse, ops,
                 mishaps>>

-----------------------------------------------------------------------------
(* The login monitor, every 1.5 s for up to ten minutes                    *)

MonitorWakes(m) ==
  /\ stands[m] = "wait"
  /\ \/ /\ m \notin stopped /\ adapter = on[m] /\ Go(m, "health") /\ UNCHANGED on
        /\ Starts(m)
     \/ /\ m \in stopped \/ adapter # on[m]
        /\ Rests(m)
  /\ UNCHANGED <<owned, browser, markers, setup, watch, crossed, disturbed, inUse, ops,
                 mishaps>>
MonitorTimesUp(m) ==
  /\ stands[m] = "wait" /\ Mishap /\ Rests(m)
  /\ UNCHANGED <<owned, browser, markers, setup, watch, crossed, disturbed, inUse, ops>>

GoesOn == {"waiting_user", "page_not_ready", "raised"}
MonitorDone(m) ==
  /\ stands[m] = "done"
  /\ \/ /\ got[m] \in GoesOn /\ UNCHANGED <<on, overlapped, shown>>
        /\ stands' = [stands EXCEPT ![m] = "wait"] /\ got' = [got EXCEPT ![m] = "none"]
     \/ /\ got[m] \notin GoesOn /\ Rests(m)
        /\ shown' = (shown /\ ~(got[m] = "ready" /\ adapter # 0 /\ made[adapter] = "embedded"))
  /\ UNCHANGED <<owned, mcp, holder, signedIn, markers, setup, watch, crossed, disturbed,
                 inUse, ops, mishaps>>

-----------------------------------------------------------------------------
(* The human, the browser and the process                                  *)

\* The login window, or a Chrome that outlived its automation.
OnScreen == holder # NoOwner /\ holder \notin mcp

SignIn(k) ==
  /\ k \notin signedIn /\ signedIn' = signedIn \cup {k}
  /\ k = "dedicated" => OnScreen
  /\ k = "embedded" => shown
  /\ UNCHANGED <<owned, mcp, holder, shown, markers, threads, watch, history, ops,
                 mishaps>>
CloseWindow ==
  /\ OnScreen /\ ProfileEnds
  /\ UNCHANGED <<owned, mcp, shown, signedIn, markers, threads, watch, ops, mishaps>>
SessionExpires(k) ==
  /\ Mishap /\ k \in signedIn /\ signedIn' = signedIn \ {k}
  /\ UNCHANGED <<owned, mcp, holder, shown, markers, threads, watch, history, ops>>
ChildDies ==
  /\ Mishap /\ \E a \in mcp : Ends({a})
  /\ UNCHANGED <<owned, shown, signedIn, markers, threads, watch, history, ops>>

\* The markers and what runs on the profile stay.
Crash ==
  /\ Mishap /\ Ends(mcp) /\ shown' = FALSE
  /\ adapter' = 0 /\ runtime' = 0 /\ claimed' = FALSE
  /\ saving' = IF saving = "no" THEN "no" ELSE "done"
  /\ stands' = [x \in Actors |-> "idle"] /\ on' = [x \in Actors |-> 0]
  /\ got' = [x \in Actors |-> "none"] /\ setup' = FALSE
  /\ current' = NoMonitor /\ stopped' = {}
  /\ overlapped' = {} /\ inUse' = {}
  /\ UNCHANGED <<pref, made, signedIn, markers, crossed, disturbed, ops>>

-----------------------------------------------------------------------------
LoginNext ==
  \/ \E watched \in BOOLEAN : StartBridge(watched)
  \/ StartManualLogin \/ FinishManualLogin \/ ManualClose \/ ManualForget \/ Verify
  \/ OpDone \/ BeginClose \/ Close \/ SavePreference
  \/ BuildRuntime \/ ClaimRuntime \/ StopRuntime
  \/ ChatUses \/ ChatChecks \/ ChatDone
  \/ \E m \in Monitors : MonitorWakes(m) \/ MonitorTimesUp(m) \/ MonitorDone(m)
  \/ \E x \in Actors : CheckStep(x)
  \/ \E k \in Marked : SignIn(k) \/ SessionExpires(k)
  \/ CloseWindow \/ ChildDies \/ Crash

LoginSpec == LoginInit /\ [][LoginNext]_loginVars

-----------------------------------------------------------------------------
(* Properties                                                              *)

\* The dedicated adapter is given up: closed with the bridge, or replaced.
Retired ==
  \/ Close /\ OwnsProfile(on["op"])
  \/ OwnsProfile(adapter) /\ adapter' \notin {0, adapter}

\* While a human signs in, no check takes the window: only the human, an explicit
\* new manual login and the supervisor giving up its dedicated adapter close it,
\* unless another check was under way when it opened (_prepare_dedicated_runtime
\* kills what runs on the profile).
LoginWindowIsLeft ==
  [][holder = Human /\ holder' # Human =>
       CloseWindow \/ ManualClose \/ Retired \/ crossed]_loginVars

\* ... and no automation runs for the dedicated profile, unless a prompt asked for
\* it ("CFR does not connect DevTools/MCP during the login").
LoginIsPlain ==
  holder = Human /\ ~crossed /\ ~disturbed =>
    \A a \in mcp : made[a] = "dedicated" => a \in inUse

\* An automation child belongs to the adapter of the supervisor or of the runtime,
\* or its adapter was dropped while somebody was using it.
OnlyTheBridgeRuns ==
  \A a \in mcp :
    a \in {adapter, runtime} \cup inUse \/ (stands["op"] = "close" /\ a = on["op"])

=============================================================================
