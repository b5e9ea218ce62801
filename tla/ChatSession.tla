----------------------------- MODULE ChatSession -----------------------------
(***************************************************************************)
(* The Code session of a Feishu chat: which native Codex thread, workspace, *)
(* approval mode and presets the chat's next prompt runs with.             *)
(*                                                                         *)
(* The row of table feishu_sessions is read and written by                 *)
(*  - the commands and the prompts of the chat itself (daemon.py,          *)
(*    code_runtime.py), one at a time under the chat's lock: step[c] is     *)
(*    "idle" when the lock is free;                                        *)
(*  - the Control API (control/api.py), which takes no lock: it reads the  *)
(*    session, reads the jobs, then acts;                                  *)
(*  - the other chats, which may bind the same thread.                     *)
(* A store method is one action, unless what it selects before its first   *)
(* write matters after it: sqlite3 opens the transaction at that write.    *)
(* A command that calls two of them takes two actions, and a crash may     *)
(* come in between.                                                        *)
(* What a bound thread's own settings become is Codex's: a command that    *)
(* changes them leaves this state alone (ThreadWriter models its lease).   *)
(***************************************************************************)
EXTENDS Naturals, FiniteSets

CONSTANTS Chats, Threads, Workspaces,
          Models, Options,   \* models of the catalog; efforts and tiers
          Supported,         \* Supported[kind][m]: what model m offers of a kind
          Modes,             \* the approval modes, "ask" the default one
          NoRow, NoThread, NoWorkspace, NoValue,
          MaxOps, MaxFaults  \* bounds: commands, prompts and requests; crashes

Kinds == {"reasoning_effort", "service_tier"}

\* What thread/start is told: unset values are left to Codex's defaults.
Presets == [model : Models \cup {NoValue}, reasoning_effort : Options \cup {NoValue},
            service_tier : Options \cup {NoValue}]
NoPreset == [model |-> NoValue, reasoning_effort |-> NoValue, service_tier |-> NoValue]

\* state = 'pending_initial' iff thread_id is null; binding clears the rest.
Rows == [thread : Threads \cup {NoThread}, cwd : Workspaces \cup {NoWorkspace},
         mode : Modes, preset : Presets]

ASSUME SessionAssumption ==
  /\ Supported \in [Kinds -> [Models -> SUBSET Options]]
  /\ "ask" \in Modes
  /\ NoRow \notin Rows
  /\ NoThread \notin Threads /\ NoWorkspace \notin Workspaces
  /\ NoValue \notin Models \cup Options
  /\ MaxOps \in Nat /\ MaxFaults \in Nat

Steps == {"idle", "prepare", "switch", "use", "used", "preset", "mode", "presets", "turn", "bind"}
Locals == [row : Rows \cup {NoRow}, cwd : Workspaces \cup {NoWorkspace},
           thread : Threads \cup {NoThread}, mode : Modes, preset : Presets]
NoLocals == [row |-> NoRow, cwd |-> NoWorkspace, thread |-> NoThread,
             mode |-> "ask", preset |-> NoPreset]

VARIABLES
  row,       \* chat -> its row of feishu_sessions, or NoRow
  surface,   \* chat -> the execution surface selected for it
  cwdOf,     \* thread -> its workspace in the binding store
  step,      \* chat -> where the command or prompt holding its lock is
  held,      \* chat -> what that command or prompt has read
  ctl,       \* the Control API request being served
  ops,       \* commands, prompts and requests so far
  faults,    \* crashes so far
  selected,  \* chat -> the workspace its user selected last (history)
  granted    \* chat -> the approval mode set last, see ModeIsKept (history)

vars == <<row, surface, cwdOf, step, held, ctl, ops, faults, selected, granted>>

NoRequest == [op |-> "none"]
Requests == {NoRequest}
            \cup [op : {"unbind"}, at : {"jobs", "act"}, chat : Chats, row : Rows \cup {NoRow}]
            \cup [op : {"code", "chat"}, at : {"jobs", "act"}, chat : Chats,
                  row : Rows \cup {NoRow}]

TypeOK ==
  /\ row \in [Chats -> Rows \cup {NoRow}]
  /\ surface \in [Chats -> {"code", "chat"}]
  /\ cwdOf \in [Threads -> Workspaces \cup {NoWorkspace}]
  /\ step \in [Chats -> Steps]
  /\ held \in [Chats -> Locals]
  /\ ctl \in Requests
  /\ ops \in 0..MaxOps
  /\ faults \in 0..MaxFaults
  /\ selected \in [Chats -> Workspaces \cup {NoWorkspace}]
  /\ granted \in [Chats -> SUBSET Modes]

SessionInit ==
  /\ row = [c \in Chats |-> NoRow]
  /\ surface = [c \in Chats |-> "code"]
  /\ cwdOf = [t \in Threads |-> NoWorkspace]
  /\ step = [c \in Chats |-> "idle"]
  /\ held = [c \in Chats |-> NoLocals]
  /\ ctl = NoRequest
  /\ ops = 0
  /\ faults = 0
  /\ selected = [c \in Chats |-> NoWorkspace]
  /\ granted = [c \in Chats |-> {"ask"}]

-----------------------------------------------------------------------------
(* The store's transactions *)

Exists(c) == row[c] # NoRow
Pending(c) == Exists(c) /\ row[c].thread = NoThread

Fresh(w, mode) == [thread |-> NoThread, cwd |-> w, mode |-> mode, preset |-> NoPreset]
ModeOf(c) == IF Exists(c) THEN row[c].mode ELSE "ask"

\* What is granted by a change of the mode (history).
Grant(c, mode) ==
  granted' = [granted EXCEPT ![c] = {mode} \cup
                (IF step[c] = "switch" THEN {held[c].mode} ELSE {})]

\* create_pending_session refuses a chat that has a row.
CreatePending(c, w) ==
  IF Exists(c) THEN UNCHANGED <<row, selected, granted>>
  ELSE /\ row' = [row EXCEPT ![c] = Fresh(w, "ask")]
       /\ selected' = [selected EXCEPT ![c] = w]
       /\ Grant(c, "ask")

TakenByOther(c, t) == \E d \in Chats \ {c} : Exists(d) /\ row[d].thread = t

\* Mutant: bind_session inserts the row it does not find.
Bind_Upserts(c, t) ==
  IF TakenByOther(c, t) THEN UNCHANGED row
  ELSE row' = [row EXCEPT ![c] = [thread |-> t, cwd |-> NoWorkspace,
                                  mode |-> ModeOf(c), preset |-> NoPreset]]

\* bind_session looks for another chat with the thread; the UPDATE, which
\* finds no row when the chat was unbound, is refused by the unique column if
\* one came in between.
Bind(c, t) ==
  IF TakenByOther(c, t) \/ ~Exists(c) THEN UNCHANGED row
  ELSE row' = [row EXCEPT ![c] = [thread |-> t, cwd |-> NoWorkspace,
                                  mode |-> @.mode, preset |-> NoPreset]]

DeleteRow(c) ==
  /\ row' = [row EXCEPT ![c] = NoRow]
  /\ Grant(c, "ask")

\* update_pending_thread_settings: the UPDATE finds no row, or the row it read.
SavePresetRow(c, preset) ==
  IF Pending(c) THEN row' = [row EXCEPT ![c].preset = preset] ELSE UNCHANGED row

-----------------------------------------------------------------------------
(* Commands of the chat, under its lock. The surface gate refuses Code       *)
(* commands on the Chat surface.                                           *)

Another == ops < MaxOps /\ ops' = ops + 1

LockFree(c) == step[c] = "idle" /\ Another
Accepts(c) == LockFree(c) /\ surface[c] = "code"

Goto(c, s, locals) ==
  /\ step' = [step EXCEPT ![c] = s]
  /\ held' = [held EXCEPT ![c] = locals]
Done(c) == Goto(c, "idle", NoLocals)

Frame == UNCHANGED <<surface, cwdOf, ctl, faults>>
Under == Frame /\ UNCHANGED ops   \* a later step of a command

\* /workspace <w>, /new <w> and /new (the workspace of the current session).
ReadForNew(c, w) ==
  /\ Accepts(c)
  /\ Goto(c, "prepare", [NoLocals EXCEPT !.row = row[c], !.cwd = w])
  /\ UNCHANGED <<row, selected, granted>> /\ Frame

\* Mutant: the approval mode comes from the session /new read before.
PrepareSession_ReadEarlier(c) ==
  /\ step[c] = "prepare"
  /\ \/ /\ held[c].row = NoRow
        /\ CreatePending(c, held[c].cwd)
        /\ Done(c)
     \/ /\ held[c].row # NoRow
        /\ Goto(c, "switch", [held[c] EXCEPT !.mode = held[c].row.mode])
        /\ UNCHANGED <<row, selected, granted>>
  /\ Under

\* switch_to_pending_session selects the approval mode, then deletes and
\* inserts the row.
PrepareSession(c) ==
  /\ step[c] = "prepare"
  /\ \/ /\ held[c].row = NoRow
        /\ CreatePending(c, held[c].cwd)
        /\ Done(c)
     \/ /\ held[c].row # NoRow
        /\ Goto(c, "switch", [held[c] EXCEPT !.mode = ModeOf(c)])
        /\ UNCHANGED <<row, selected, granted>>
  /\ Under

\* Mutant: the row that is there is updated and keeps its thread.
SwitchSession_KeepsThread(c) ==
  /\ step[c] = "switch"
  /\ row' = [row EXCEPT ![c] = [Fresh(held[c].cwd, held[c].mode) EXCEPT
               !.thread = IF Exists(c) THEN row[c].thread ELSE NoThread]]
  /\ selected' = [selected EXCEPT ![c] = held[c].cwd]
  /\ UNCHANGED granted
  /\ Done(c) /\ Under

SwitchSession(c) ==
  /\ step[c] = "switch"
  /\ row' = [row EXCEPT ![c] = Fresh(held[c].cwd, held[c].mode)]
  /\ selected' = [selected EXCEPT ![c] = held[c].cwd]
  /\ UNCHANGED granted
  /\ Done(c) /\ Under

\* /session <t>: only a chat without a session gets past the status and the
\* FEISHU_SESSION_ALREADY_EXISTS replies, which change nothing.
ReadForUse(c, t) ==
  /\ Accepts(c) /\ ~Exists(c)
  /\ cwdOf[t] # NoWorkspace
  /\ Goto(c, "use", [NoLocals EXCEPT !.thread = t, !.cwd = cwdOf[t]])
  /\ UNCHANGED <<row, selected, granted>> /\ Frame

UseCreate(c) ==
  /\ step[c] = "use"
  /\ CreatePending(c, held[c].cwd)
  /\ IF Exists(c) THEN Done(c) ELSE Goto(c, "used", held[c])
  /\ Under

\* A refused bind leaves the chat pending in the thread's workspace.
UseBind(c) ==
  /\ step[c] = "used"
  /\ Bind(c, held[c].thread)
  /\ Done(c) /\ UNCHANGED <<selected, granted>> /\ Under

Unbind(c) ==
  /\ Accepts(c)
  /\ DeleteRow(c)
  /\ UNCHANGED <<step, held, selected>> /\ Frame

\* /approval: an UPDATE that must find the row.
SetApproval(c, mode) ==
  /\ Accepts(c) /\ Exists(c)
  /\ row' = [row EXCEPT ![c].mode = mode]
  /\ Grant(c, mode)
  /\ UNCHANGED <<step, held, selected>> /\ Frame

\* Mutant: the effort and the tier of the former model stay.
ChooseModel_KeepsOthers(c, m) ==
  /\ Accepts(c) /\ Pending(c)
  /\ Goto(c, "preset", [NoLocals EXCEPT !.preset = [row[c].preset EXCEPT !.model = m]])
  /\ UNCHANGED <<row, selected, granted>> /\ Frame

\* /model on a pending session: the new model drops the other presets.
ChooseModel(c, m) ==
  /\ Accepts(c) /\ Pending(c)
  /\ Goto(c, "preset", [NoLocals EXCEPT !.preset = [NoPreset EXCEPT !.model = m]])
  /\ UNCHANGED <<row, selected, granted>> /\ Frame

\* /reasoning and /tier on a pending session: the choice is checked against
\* the model read now and merged into the row later.
ChooseOption(c, kind, o) ==
  /\ Accepts(c) /\ Pending(c)
  /\ row[c].preset.model # NoValue
  /\ \/ o \in Supported[kind][row[c].preset.model]
     \/ kind = "service_tier" /\ o = NoValue
  /\ Goto(c, "preset", [NoLocals EXCEPT !.preset = [row[c].preset EXCEPT ![kind] = o]])
  /\ UNCHANGED <<row, selected, granted>> /\ Frame

SavePreset(c) ==
  /\ step[c] = "preset"
  /\ SavePresetRow(c, held[c].preset)
  /\ Done(c) /\ UNCHANGED <<selected, granted>> /\ Under

\* /surface changes the selection of the chat whatever its session is.
ChooseSurface(c, s) ==
  /\ LockFree(c)
  /\ surface' = [surface EXCEPT ![c] = s]
  /\ UNCHANGED <<row, cwdOf, step, held, ctl, faults, selected, granted>>

-----------------------------------------------------------------------------
(* A prompt (CodeSurfaceRuntime.handle_prompt), under the chat's lock too.   *)

IsFirst(c) == held[c].row.thread = NoThread

\* get_session; a prompt without session, or whose binding is gone, only
\* gets a reply.
ReadSession(c) ==
  /\ Accepts(c) /\ Exists(c)
  /\ row[c].thread # NoThread => cwdOf[row[c].thread] # NoWorkspace
  /\ Goto(c, "mode", [NoLocals EXCEPT !.row = row[c]])
  /\ UNCHANGED <<row, selected, granted>> /\ Frame

\* get_approval_mode is a read of its own: a row deleted meanwhile is 'ask'.
ReadMode(c) ==
  /\ step[c] = "mode"
  /\ Goto(c, IF IsFirst(c) THEN "presets" ELSE "turn", [held[c] EXCEPT !.mode = ModeOf(c)])
  /\ UNCHANGED <<row, selected, granted>> /\ Under

\* get_pending_thread_settings is the third read of the row.
ReadPresets(c) ==
  /\ step[c] = "presets"
  /\ Goto(c, "turn", [held[c] EXCEPT !.preset = IF Pending(c) THEN row[c].preset ELSE NoPreset])
  /\ UNCHANGED <<row, selected, granted>> /\ Under

\* create_conversation ran its first turn to completion: the thread is in
\* the binding store, where every chat can see it, before the chat is bound.
FirstTurnCompleted(c, t) ==
  /\ step[c] = "turn" /\ IsFirst(c)
  /\ cwdOf[t] = NoWorkspace
  /\ cwdOf' = [cwdOf EXCEPT ![t] = held[c].row.cwd]
  /\ Goto(c, "bind", [held[c] EXCEPT !.thread = t])
  /\ UNCHANGED <<row, surface, ctl, ops, faults, selected, granted>>

\* A refused bind is the error reply of the prompt.
BindFirst(c) ==
  /\ step[c] = "bind"
  /\ Bind(c, held[c].thread)
  /\ Done(c) /\ UNCHANGED <<selected, granted>> /\ Under

\* A turn of a bound thread ended, or a first one failed: no row changes.
TurnEnded(c) ==
  /\ step[c] = "turn"
  /\ Done(c)
  /\ UNCHANGED <<row, selected, granted>> /\ Under

-----------------------------------------------------------------------------
(* The Control API, one request at a time, without the chat's lock           *)

\* jobs(): a job knows its thread, and not its chat; the first turn of a
\* pending session has no thread its chat could be found by.
Active(t) == \E d \in Chats : step[d] = "turn" /\ held[d].row.thread = t
Busy(r) == r # NoRow /\ r.thread # NoThread /\ Active(r.thread)

ControlFrame == UNCHANGED <<cwdOf, step, held, faults, selected>>

ControlRead(c, op) ==
  /\ ctl = NoRequest /\ Another
  /\ ctl' = [op |-> op, at |-> "jobs", chat |-> c, row |-> row[c]]
  /\ UNCHANGED <<row, surface, granted>> /\ ControlFrame

ControlJobs ==
  /\ ctl # NoRequest /\ ctl.at = "jobs"
  /\ ctl' = IF Busy(ctl.row) THEN NoRequest ELSE [ctl EXCEPT !.at = "act"]
  /\ UNCHANGED <<row, surface, granted>> /\ UNCHANGED ops /\ ControlFrame

ControlUnbind ==
  /\ ctl # NoRequest /\ ctl.at = "act" /\ ctl.op = "unbind"
  /\ DeleteRow(ctl.chat)
  /\ ctl' = NoRequest
  /\ UNCHANGED surface /\ UNCHANGED ops /\ ControlFrame

ControlSelect ==
  /\ ctl # NoRequest /\ ctl.at = "act" /\ ctl.op # "unbind"
  /\ surface' = [surface EXCEPT ![ctl.chat] = ctl.op]
  /\ ctl' = NoRequest
  /\ UNCHANGED <<row, granted>> /\ UNCHANGED ops /\ ControlFrame

\* approval-mode: one UPDATE, whatever the chat is doing.
ControlMode(c, mode) ==
  /\ Exists(c) /\ Another
  /\ row' = [row EXCEPT ![c].mode = mode]
  /\ Grant(c, mode)
  /\ UNCHANGED <<surface, ctl>> /\ ControlFrame

\* The process dies and is restarted: only the database is left.
Restart ==
  /\ faults < MaxFaults
  /\ faults' = faults + 1
  /\ step' = [c \in Chats |-> "idle"]
  /\ held' = [c \in Chats |-> NoLocals]
  /\ ctl' = NoRequest
  /\ UNCHANGED <<row, surface, cwdOf, ops, selected, granted>>

CommandStep(c) ==
  \/ \E w \in Workspaces : ReadForNew(c, w)
  \/ PrepareSession(c) \/ SwitchSession(c)
  \/ \E t \in Threads : ReadForUse(c, t)
  \/ UseCreate(c) \/ UseBind(c) \/ Unbind(c)
  \/ \E mode \in Modes : SetApproval(c, mode)
  \/ \E m \in Models : ChooseModel(c, m)
  \/ \E kind \in Kinds, o \in Options \cup {NoValue} : ChooseOption(c, kind, o)
  \/ SavePreset(c)
  \/ \E s \in {"code", "chat"} : ChooseSurface(c, s)

PromptStep(c) ==
  \/ ReadSession(c) \/ ReadMode(c) \/ ReadPresets(c)
  \/ \E t \in Threads : FirstTurnCompleted(c, t)
  \/ BindFirst(c) \/ TurnEnded(c)

ControlStep ==
  \/ \E c \in Chats, op \in {"unbind", "code", "chat"} : ControlRead(c, op)
  \/ ControlJobs \/ ControlUnbind \/ ControlSelect
  \/ \E c \in Chats, mode \in Modes : ControlMode(c, mode)

SessionNext ==
  \/ \E c \in Chats : CommandStep(c) \/ PromptStep(c)
  \/ ControlStep
  \/ Restart

SessionSpec == SessionInit /\ [][SessionNext]_vars

-----------------------------------------------------------------------------
(* Properties *)

\* A session is started with an effort and a tier its model offers.  /reasoning and
\* /tier check against the model of the session as they read it and save in a later
\* transaction, /model replaces the model, and the first prompt reads the presets
\* apart from the session, which the Control API may have unbound since.
Fits(p) ==
  \A kind \in Kinds :
    p[kind] # NoValue => p.model # NoValue /\ p[kind] \in Supported[kind][p.model]
PresetsFit ==
  \A c \in Chats :
    /\ Pending(c) => Fits(row[c].preset)
    /\ step[c] = "turn" => Fits(held[c].preset)

\* A bound chat works in the workspace its user selected last: a first prompt
\* that was running while the session was unbound never binds its thread
\* to the session the user made afterwards.
BoundWhereSelected ==
  \A c \in Chats :
    Exists(c) /\ row[c].thread # NoThread => cwdOf[row[c].thread] = selected[c]

\* A session runs with the approval mode that was set for it last, by the user
\* or in the Control Center: full access that was revoked does not come back,
\* and a session made after an unbind asks again. The exception is a change
\* the Control Center makes while /new is between its select and its delete,
\* where granted holds the two modes: that change is lost.
ModeIsKept == \A c \in Chats : Exists(c) => row[c].mode \in granted[c]

\* A session that was unbound comes back only by a command of its user: the
\* bind that ends a first prompt does not bring it back.
UnbindIsFinal ==
  [][\A c \in Chats : ~Exists(c) /\ Exists(c)' => step[c] \in {"prepare", "switch", "use"}]_vars

=============================================================================
