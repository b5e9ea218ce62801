-------------------------- MODULE ChatSession_proofs --------------------------
(***************************************************************************)
(* What a chat keeps on either surface, for all chats.                     *)
(*                                                                         *)
(* Codex: the session of a chat keeps its type, it starts with presets its *)
(* model offers, it works where and with the rights its user chose last,   *)
(* and an unbind is final, for all threads, workspaces, modes and presets. *)
(*                                                                         *)
(* ChatGPT: a prompt is sent into its chat's conversation with its own     *)
(* files, is shown its own answer and sent files of it, and the user's tab *)
(* is left alone, for all prompts, conversations, tabs and failures.       *)
(***************************************************************************)
EXTENDS ChatSession, ChatBrowser, WellFoundedInduction, TLAPS

\* What the row of a chat says of the choices that were made for it: of the
\* mode, of the workspace of a session that waits for its first prompt, and of
\* that of a bound one.
RowOf(c) ==
  /\ Exists(c) => row[c].mode \in granted[c] /\ selected[c] \in Workspaces
  /\ ~Exists(c) => "ask" \in granted[c]
  /\ Pending(c) => row[c].cwd = selected[c]
  /\ Exists(c) /\ row[c].thread # NoThread => cwdOf[row[c].thread] = selected[c]

\* What a command or a prompt has read holds while it has the chat's lock,
\* although the Control API changes the row meanwhile.
ReadOf(c) ==
  /\ step[c] \in {"prepare", "switch"} => held[c].cwd \in Workspaces
  /\ step[c] = "switch" => held[c].mode \in granted[c]
  /\ step[c] \in {"use", "used", "bind"} =>
       held[c].thread \in Threads /\ cwdOf[held[c].thread] \in Workspaces
  /\ step[c] = "use" => held[c].cwd = cwdOf[held[c].thread]
  /\ step[c] \in {"used", "bind"} => selected[c] = cwdOf[held[c].thread]
  /\ step[c] \in {"mode", "presets", "turn"} =>
       /\ held[c].row \in Rows
       /\ IsFirst(c) => held[c].row.cwd = selected[c] /\ selected[c] \in Workspaces

RowInv == \A c \in Chats : RowOf(c)
ReadInv == \A c \in Chats : ReadOf(c)

\* The presets of a row, and those a command or a prompt holds.
FitInv == \A c \in Chats : (Exists(c) => Fits(row[c].preset)) /\ Fits(held[c].preset)

SessionInv == TypeOK /\ RowInv /\ ReadInv /\ FitInv

-----------------------------------------------------------------------------
(* Values *)

\* A row that is there is a record with the fields of feishu_sessions.
LEMMA RowType ==
  ASSUME TypeOK, NEW c \in Chats, Exists(c)
  PROVE  row[c] \in Rows
  BY DEF TypeOK, Exists

\* A new session waits for its first prompt (create_pending_session).
LEMMA FreshType ==
  ASSUME NEW w \in Workspaces, NEW m \in Modes
  PROVE  /\ Fresh(w, m) \in Rows /\ Fresh(w, m) # NoRow
         /\ Fresh(w, m).thread = NoThread /\ Fresh(w, m).cwd = w
         /\ Fresh(w, m).mode = m /\ Fresh(w, m).preset = NoPreset
  BY SessionAssumption DEF Fresh, Rows, NoPreset, Presets

\* A command has nothing in its hands before it reads.
LEMMA LocalsType == NoLocals \in Locals /\ NoPreset \in Presets /\ "ask" \in Modes
  BY SessionAssumption DEF NoLocals, Locals, NoPreset, Presets

\* What is left to the defaults fits any model.
LEMMA NothingFits == Fits(NoPreset) /\ Fits(NoLocals.preset)
  BY DEF Fits, NoPreset, NoLocals, Kinds

\* The mode of a row, or the default one (get_approval_mode).
LEMMA ModeType ==
  ASSUME TypeOK, NEW c \in Chats
  PROVE  ModeOf(c) \in Modes
  BY RowType, LocalsType DEF ModeOf, Rows

\* The history of modes: the new one, and that of a /new under way.
LEMMA GrantChanges ==
  ASSUME TypeOK, NEW c \in Chats, NEW m \in Modes, Grant(c, m)
  PROVE  /\ granted' \in [Chats -> SUBSET Modes]
         /\ \A d \in Chats \ {c} : granted'[d] = granted[d]
         /\ m \in granted'[c]
         /\ step[c] = "switch" => held[c].mode \in granted'[c]
  BY DEF Grant, TypeOK, Locals

\* A step of a command changes what that command holds, and nothing else.
LEMMA GotoChanges ==
  ASSUME TypeOK, NEW c \in Chats, NEW s \in Steps, NEW l \in Locals, Goto(c, s, l)
  PROVE  /\ step' \in [Chats -> Steps] /\ held' \in [Chats -> Locals]
         /\ step'[c] = s /\ held'[c] = l
         /\ \A d \in Chats \ {c} : step'[d] = step[d] /\ held'[d] = held[d]
  BY DEF Goto, TypeOK

\* A command that is over holds nothing.
LEMMA DoneChanges ==
  ASSUME TypeOK, NEW c \in Chats, Done(c)
  PROVE  /\ step' \in [Chats -> Steps] /\ held' \in [Chats -> Locals]
         /\ step'[c] = "idle" /\ Fits(held'[c].preset)
         /\ \A d \in Chats \ {c} : step'[d] = step[d] /\ held'[d] = held[d]
<1>1. "idle" \in Steps
  BY DEF Steps
<1> QED
  BY <1>1, LocalsType, GotoChanges, NothingFits DEF Done

\* create_pending_session makes a session of a chat that has none.
LEMMA CreateChanges ==
  ASSUME TypeOK, RowInv, NEW c \in Chats, NEW w \in Workspaces,
         CreatePending(c, w), UNCHANGED cwdOf
  PROVE  /\ row' \in [Chats -> Rows \cup {NoRow}]
         /\ selected' \in [Chats -> Workspaces \cup {NoWorkspace}]
         /\ granted' \in [Chats -> SUBSET Modes]
         /\ \A d \in Chats \ {c} :
              row'[d] = row[d] /\ selected'[d] = selected[d] /\ granted'[d] = granted[d]
         /\ RowOf(c)'
         /\ Exists(c) => row'[c] = row[c]
         /\ ~Exists(c) => row'[c].thread = NoThread /\ selected'[c] = w
         /\ row'[c] = row[c] \/ row'[c].preset = NoPreset
<1>1. CASE Exists(c)
  <2>1. UNCHANGED <<row, selected, granted>>
    BY <1>1 DEF CreatePending
  <2>2. RowOf(c)
    BY DEF RowInv
  <2>3. RowOf(c)'
    BY <2>1, <2>2 DEF RowOf, Exists, Pending
  <2> QED
    BY <1>1, <2>1, <2>3 DEF TypeOK
<1>2. CASE ~Exists(c)
  <2> DEFINE r == Fresh(w, "ask")
  <2>1. row' = [row EXCEPT ![c] = r] /\ selected' = [selected EXCEPT ![c] = w] /\ Grant(c, "ask")
    BY <1>2 DEF CreatePending
  <2>2. r \in Rows /\ r # NoRow /\ r.thread = NoThread /\ r.cwd = w /\ r.mode = "ask"
        /\ r.preset = NoPreset
    BY FreshType, LocalsType
  <2> HIDE DEF r
  <2>3. row'[c] = r /\ selected'[c] = w
    BY <2>1 DEF TypeOK
  <2>4. granted' \in [Chats -> SUBSET Modes] /\ "ask" \in granted'[c]
        /\ \A d \in Chats \ {c} : granted'[d] = granted[d]
    BY <2>1, LocalsType, GrantChanges
  <2>5. RowOf(c)'
    BY <2>2, <2>3, <2>4 DEF RowOf, Exists, Pending
  <2> QED
    BY <1>2, <2>1, <2>2, <2>3, <2>4, <2>5 DEF TypeOK
<1> QED
  BY <1>1, <1>2

\* bind_session changes no row but the one it finds, and clears its presets.
LEMMA BindChanges ==
  ASSUME TypeOK, RowInv, NEW c \in Chats, NEW t \in Threads, Bind(c, t),
         UNCHANGED <<cwdOf, selected, granted>>, selected[c] = cwdOf[t]
  PROVE  /\ row' \in [Chats -> Rows \cup {NoRow}]
         /\ \A d \in Chats \ {c} : row'[d] = row[d]
         /\ RowOf(c)'
         /\ row'[c] = row[c] \/ row'[c].preset = NoPreset
<1>1. CASE TakenByOther(c, t) \/ ~Exists(c)
  <2>1. UNCHANGED row
    BY <1>1 DEF Bind
  <2>2. RowOf(c)'
    BY <2>1 DEF RowInv, RowOf, Exists, Pending
  <2> QED
    BY <2>1, <2>2 DEF TypeOK
<1>2. CASE ~TakenByOther(c, t) /\ Exists(c)
  <2> DEFINE r == [thread |-> t, cwd |-> NoWorkspace, mode |-> row[c].mode, preset |-> NoPreset]
  <2>1. row' = [row EXCEPT ![c] = r]
    BY <1>2 DEF Bind
  <2>2. r \in Rows
    BY <1>2, RowType, LocalsType DEF Rows
  <2>3. r.thread = t /\ r.mode = row[c].mode /\ r.preset = NoPreset
    OBVIOUS
  <2>4. r # NoRow /\ t # NoThread
    BY <2>2, SessionAssumption
  <2> HIDE DEF r
  <2>5. row'[c] = r
    BY <2>1 DEF TypeOK
  <2>6. RowOf(c)
    BY DEF RowInv
  <2>7. RowOf(c)'
    BY <1>2, <2>3, <2>4, <2>5, <2>6 DEF RowOf, Exists, Pending
  <2> QED
    BY <1>2, <2>1, <2>2, <2>3, <2>5, <2>7 DEF TypeOK
<1> QED
  BY <1>1, <1>2

-----------------------------------------------------------------------------
(* What a step leaves alone *)

\* Every step but the end of a first turn and a restart is about one chat.
LEMMA OneChatChanges ==
  ASSUME SessionInv, TypeOK', UNCHANGED cwdOf, NEW c \in Chats,
         \A d \in Chats \ {c} :
           /\ row'[d] = row[d] /\ selected'[d] = selected[d] /\ granted'[d] = granted[d]
           /\ step'[d] = step[d] /\ held'[d] = held[d],
         RowOf(c)', ReadOf(c)', Exists(c)' => Fits(row'[c].preset), Fits(held'[c].preset)
  PROVE  SessionInv'
<1>1. RowInv'
  <2> SUFFICES ASSUME NEW d \in Chats, d # c  PROVE RowOf(d)'
    BY DEF RowInv
  <2>1. RowOf(d)
    BY DEF SessionInv, RowInv
  <2> QED
    BY <2>1 DEF RowOf, Exists, Pending
<1>2. ReadInv'
  <2> SUFFICES ASSUME NEW d \in Chats, d # c  PROVE ReadOf(d)'
    BY DEF ReadInv
  <2>1. ReadOf(d)
    BY DEF SessionInv, ReadInv
  <2> QED
    BY <2>1 DEF ReadOf, IsFirst
<1>3. FitInv'
  <2> SUFFICES ASSUME NEW d \in Chats, d # c
               PROVE  (Exists(d)' => Fits(row'[d].preset)) /\ Fits(held'[d].preset)
    BY DEF FitInv, Fits
  <2>1. (Exists(d) => Fits(row[d].preset)) /\ Fits(held[d].preset)
    BY DEF SessionInv, FitInv
  <2> QED
    BY <2>1 DEF Exists
<1> QED
  BY <1>1, <1>2, <1>3 DEF SessionInv

\* A step of a command that only reads changes what the command holds.
LEMMA ReadStep ==
  ASSUME SessionInv, NEW c \in Chats, NEW s \in Steps, NEW l \in Locals, Goto(c, s, l),
         UNCHANGED <<row, selected, granted, surface, cwdOf, ctl, faults>>,
         ops' \in 0..MaxOps, Fits(l.preset),
         step'[c] = s /\ held'[c] = l => ReadOf(c)'
  PROVE  SessionInv'
<1>1. /\ step' \in [Chats -> Steps] /\ held' \in [Chats -> Locals]
      /\ step'[c] = s /\ held'[c] = l
      /\ \A d \in Chats \ {c} : step'[d] = step[d] /\ held'[d] = held[d]
  BY GotoChanges DEF SessionInv
<1>2. TypeOK'
  BY <1>1 DEF SessionInv, TypeOK
<1>3. RowOf(c)'
  BY DEF SessionInv, RowInv, RowOf, Exists, Pending
<1>4. ReadOf(c)'
  BY <1>1
<1>5. Exists(c)' => Fits(row'[c].preset)
  BY DEF Exists, SessionInv, FitInv
<1> QED
  BY <1>1, <1>2, <1>3, <1>4, <1>5, OneChatChanges

\* The bound on commands and requests.
LEMMA OpsType ==
  ASSUME TypeOK, Another
  PROVE  ops' \in 0..MaxOps
  BY SessionAssumption DEF TypeOK, Another

-----------------------------------------------------------------------------
(* Commands *)

\* /new reads the session of the chat.
LEMMA ReadForNewKeeps ==
  ASSUME SessionInv, NEW c \in Chats, NEW w \in Workspaces, ReadForNew(c, w)
  PROVE  SessionInv'
<1> DEFINE l == [NoLocals EXCEPT !.row = row[c], !.cwd = w]
<1>1. l \in Locals /\ l.cwd = w /\ l.preset = NoPreset
  BY LocalsType DEF SessionInv, TypeOK, Locals, NoLocals
<1>2. "prepare" \in Steps
  BY DEF Steps
<1>3. ops' \in 0..MaxOps
  BY OpsType DEF SessionInv, ReadForNew, Accepts, LockFree
<1>4. Goto(c, "prepare", l) /\ UNCHANGED <<row, selected, granted, surface, cwdOf, ctl, faults>>
  BY DEF ReadForNew, Frame
<1> HIDE DEF l
<1>5. step'[c] = "prepare" /\ held'[c] = l => ReadOf(c)'
  BY <1>1 DEF ReadOf
<1> QED
  BY <1>1, <1>2, <1>3, <1>4, <1>5, NothingFits, ReadStep

\* /new makes a session where there was none, or reads the mode of the one there is.
LEMMA PrepareSessionKeeps ==
  ASSUME SessionInv, NEW c \in Chats, PrepareSession(c)
  PROVE  SessionInv'
<1>1. ReadOf(c) /\ RowOf(c)
  BY DEF SessionInv, ReadInv, RowInv
<1>2. held[c] \in Locals /\ held[c].cwd \in Workspaces
  BY <1>1 DEF PrepareSession, ReadOf, SessionInv, TypeOK
<1>3. CASE held[c].row = NoRow
  <2>1. CreatePending(c, held[c].cwd) /\ Done(c) /\ Under
    BY <1>3 DEF PrepareSession
  <2>2. UNCHANGED <<surface, cwdOf, ctl, faults, ops>>
    BY <2>1 DEF Under, Frame
  <2>3. /\ row' \in [Chats -> Rows \cup {NoRow}]
        /\ selected' \in [Chats -> Workspaces \cup {NoWorkspace}]
        /\ granted' \in [Chats -> SUBSET Modes]
        /\ \A d \in Chats \ {c} :
             row'[d] = row[d] /\ selected'[d] = selected[d] /\ granted'[d] = granted[d]
        /\ RowOf(c)'
        /\ Exists(c) => row'[c] = row[c]
        /\ row'[c] = row[c] \/ row'[c].preset = NoPreset
    BY <1>2, <2>1, <2>2, CreateChanges DEF SessionInv
  <2>4. /\ step' \in [Chats -> Steps] /\ held' \in [Chats -> Locals]
        /\ step'[c] = "idle" /\ Fits(held'[c].preset)
        /\ \A d \in Chats \ {c} : step'[d] = step[d] /\ held'[d] = held[d]
    BY <2>1, DoneChanges DEF SessionInv
  <2>5. TypeOK'
    BY <2>2, <2>3, <2>4 DEF SessionInv, TypeOK
  <2>6. ReadOf(c)'
    BY <2>4 DEF ReadOf
  <2>7. Exists(c)' => Fits(row'[c].preset)
    BY <2>3, NothingFits DEF SessionInv, FitInv, Exists
  <2> QED
    BY <2>2, <2>3, <2>4, <2>5, <2>6, <2>7, OneChatChanges
<1>4. CASE held[c].row # NoRow
  <2> DEFINE l == [held[c] EXCEPT !.mode = ModeOf(c)]
  <2>1. /\ l \in Locals /\ l.cwd = held[c].cwd /\ l.mode = ModeOf(c)
        /\ Fits(l.preset)
    <3>1. l.preset = held[c].preset
      BY <1>2 DEF Locals
    <3> QED
      BY <1>2, <3>1, ModeType DEF SessionInv, FitInv, Locals
  <2>2. ModeOf(c) \in granted[c]
    BY <1>1 DEF RowOf, ModeOf
  <2>3. Goto(c, "switch", l) /\ UNCHANGED <<row, selected, granted, surface, cwdOf, ctl, faults, ops>>
    BY <1>4 DEF PrepareSession, Under, Frame
  <2>4. "switch" \in Steps /\ ops' \in 0..MaxOps
    BY <2>3 DEF Steps, SessionInv, TypeOK
  <2> HIDE DEF l
  <2>5. step'[c] = "switch" /\ held'[c] = l => ReadOf(c)'
    BY <1>2, <2>1, <2>2, <2>3 DEF ReadOf
  <2> QED
    BY <2>1, <2>3, <2>4, <2>5, ReadStep
<1> QED
  BY <1>3, <1>4

\* switch_to_pending_session replaces the row, with the mode it has read.
LEMMA SwitchSessionKeeps ==
  ASSUME SessionInv, NEW c \in Chats, SwitchSession(c)
  PROVE  SessionInv'
<1> DEFINE r == Fresh(held[c].cwd, held[c].mode)
<1>1. ReadOf(c)
  BY DEF SessionInv, ReadInv
<1>2. held[c].cwd \in Workspaces /\ held[c].mode \in Modes /\ held[c].mode \in granted[c]
  BY <1>1 DEF SwitchSession, ReadOf, SessionInv, TypeOK, Locals
<1>3. r \in Rows /\ r # NoRow /\ r.thread = NoThread /\ r.cwd = held[c].cwd /\ r.mode = held[c].mode
      /\ r.preset = NoPreset
  BY <1>2, FreshType
<1>4. /\ row' = [row EXCEPT ![c] = r] /\ selected' = [selected EXCEPT ![c] = held[c].cwd]
      /\ Done(c) /\ UNCHANGED <<granted, surface, cwdOf, ctl, faults, ops>>
  BY DEF SwitchSession, Under, Frame
<1> HIDE DEF r
<1>5. /\ step' \in [Chats -> Steps] /\ held' \in [Chats -> Locals]
      /\ step'[c] = "idle" /\ Fits(held'[c].preset)
      /\ \A d \in Chats \ {c} : step'[d] = step[d] /\ held'[d] = held[d]
  BY <1>4, DoneChanges DEF SessionInv
<1>6. TypeOK'
  BY <1>2, <1>3, <1>4, <1>5 DEF SessionInv, TypeOK
<1>7. row'[c] = r /\ selected'[c] = held[c].cwd
      /\ \A d \in Chats \ {c} : row'[d] = row[d] /\ selected'[d] = selected[d]
  BY <1>4 DEF SessionInv, TypeOK
<1>8. RowOf(c)'
  BY <1>2, <1>3, <1>4, <1>7 DEF RowOf, Exists, Pending
<1>9. ReadOf(c)'
  BY <1>5 DEF ReadOf
<1> QED
  BY <1>3, <1>4, <1>5, <1>6, <1>7, <1>8, <1>9, NothingFits, OneChatChanges

\* /session reads the workspace of the thread.
LEMMA ReadForUseKeeps ==
  ASSUME SessionInv, NEW c \in Chats, NEW t \in Threads, ReadForUse(c, t)
  PROVE  SessionInv'
<1> DEFINE l == [NoLocals EXCEPT !.thread = t, !.cwd = cwdOf[t]]
<1>1. cwdOf[t] \in Workspaces
  BY DEF ReadForUse, SessionInv, TypeOK
<1>2. l \in Locals /\ l.cwd = cwdOf[t] /\ l.thread = t /\ l.preset = NoPreset
  BY <1>1, LocalsType DEF Locals, NoLocals
<1>3. "use" \in Steps
  BY DEF Steps
<1>4. ops' \in 0..MaxOps
  BY OpsType DEF SessionInv, ReadForUse, Accepts, LockFree
<1>5. Goto(c, "use", l) /\ UNCHANGED <<row, selected, granted, surface, cwdOf, ctl, faults>>
  BY DEF ReadForUse, Frame
<1> HIDE DEF l
<1>6. step'[c] = "use" /\ held'[c] = l => ReadOf(c)'
  BY <1>1, <1>2, <1>5 DEF ReadOf
<1> QED
  BY <1>2, <1>3, <1>4, <1>5, <1>6, NothingFits, ReadStep

\* /session makes the session it will bind.
LEMMA UseCreateKeeps ==
  ASSUME SessionInv, NEW c \in Chats, UseCreate(c)
  PROVE  SessionInv'
<1> DEFINE s == IF Exists(c) THEN "idle" ELSE "used"
           l == IF Exists(c) THEN NoLocals ELSE held[c]
<1>1. ReadOf(c)
  BY DEF SessionInv, ReadInv
<1>2. /\ held[c] \in Locals /\ held[c].thread \in Threads
      /\ held[c].cwd \in Workspaces /\ held[c].cwd = cwdOf[held[c].thread]
  BY <1>1 DEF UseCreate, ReadOf, SessionInv, TypeOK
<1>3. CreatePending(c, held[c].cwd) /\ UNCHANGED <<surface, cwdOf, ctl, faults, ops>>
  BY DEF UseCreate, Under, Frame
<1>4. s \in Steps /\ l \in Locals /\ Goto(c, s, l)
  BY <1>2, LocalsType DEF UseCreate, Steps, Done
<1>5. /\ row' \in [Chats -> Rows \cup {NoRow}]
      /\ selected' \in [Chats -> Workspaces \cup {NoWorkspace}]
      /\ granted' \in [Chats -> SUBSET Modes]
      /\ \A d \in Chats \ {c} :
           row'[d] = row[d] /\ selected'[d] = selected[d] /\ granted'[d] = granted[d]
      /\ RowOf(c)'
      /\ Exists(c) => row'[c] = row[c]
      /\ ~Exists(c) => row'[c].thread = NoThread /\ selected'[c] = held[c].cwd
      /\ row'[c] = row[c] \/ row'[c].preset = NoPreset
  BY <1>2, <1>3, CreateChanges DEF SessionInv
<1>6. /\ step' \in [Chats -> Steps] /\ held' \in [Chats -> Locals]
      /\ step'[c] = s /\ held'[c] = l
      /\ \A d \in Chats \ {c} : step'[d] = step[d] /\ held'[d] = held[d]
  BY <1>4, GotoChanges DEF SessionInv
<1>7. TypeOK'
  BY <1>3, <1>5, <1>6 DEF SessionInv, TypeOK
<1>8. ReadOf(c)'
  BY <1>2, <1>3, <1>5, <1>6 DEF ReadOf
<1>9. (Exists(c)' => Fits(row'[c].preset)) /\ Fits(l.preset)
  BY <1>5, NothingFits DEF SessionInv, FitInv, Exists
<1> QED
  BY <1>3, <1>5, <1>6, <1>7, <1>8, <1>9, OneChatChanges

\* The end of /session, and of a first prompt: bind_session.
LEMMA BindKeeps ==
  ASSUME SessionInv, NEW c \in Chats, step[c] \in {"used", "bind"},
         Bind(c, held[c].thread), Done(c), UNCHANGED <<selected, granted>>, Under
  PROVE  SessionInv'
<1>1. ReadOf(c)
  BY DEF SessionInv, ReadInv
<1>2. held[c].thread \in Threads /\ selected[c] = cwdOf[held[c].thread]
  BY <1>1 DEF ReadOf
<1>3. UNCHANGED <<surface, cwdOf, ctl, faults, ops>>
  BY DEF Under, Frame
<1>4. /\ row' \in [Chats -> Rows \cup {NoRow}]
      /\ \A d \in Chats \ {c} : row'[d] = row[d]
      /\ RowOf(c)'
      /\ row'[c] = row[c] \/ row'[c].preset = NoPreset
  BY <1>2, <1>3, BindChanges DEF SessionInv
<1>5. /\ step' \in [Chats -> Steps] /\ held' \in [Chats -> Locals]
      /\ step'[c] = "idle" /\ Fits(held'[c].preset)
      /\ \A d \in Chats \ {c} : step'[d] = step[d] /\ held'[d] = held[d]
  BY DoneChanges DEF SessionInv
<1>6. TypeOK'
  BY <1>3, <1>4, <1>5 DEF SessionInv, TypeOK
<1>7. ReadOf(c)'
  BY <1>5 DEF ReadOf
<1>8. Exists(c)' => Fits(row'[c].preset)
  BY <1>4, NothingFits DEF Exists, SessionInv, FitInv
<1> QED
  BY <1>3, <1>4, <1>5, <1>6, <1>7, <1>8, OneChatChanges

\* A row goes: /unbind, and the Control API's unbind.
LEMMA DeleteKeeps ==
  ASSUME SessionInv, NEW c \in Chats, DeleteRow(c),
         UNCHANGED <<surface, cwdOf, step, held, faults, selected>>,
         ops' \in 0..MaxOps, ctl' \in Requests
  PROVE  SessionInv'
<1>1. row' = [row EXCEPT ![c] = NoRow] /\ Grant(c, "ask")
  BY DEF DeleteRow
<1>2. /\ granted' \in [Chats -> SUBSET Modes] /\ "ask" \in granted'[c]
      /\ \A d \in Chats \ {c} : granted'[d] = granted[d]
      /\ step[c] = "switch" => held[c].mode \in granted'[c]
  BY <1>1, LocalsType, GrantChanges DEF SessionInv
<1>3. row'[c] = NoRow /\ \A d \in Chats \ {c} : row'[d] = row[d]
  BY <1>1 DEF SessionInv, TypeOK
<1>4. TypeOK'
  BY <1>1, <1>2 DEF SessionInv, TypeOK
<1>5. RowOf(c)'
  BY <1>2, <1>3 DEF RowOf, Exists, Pending
<1>6. ReadOf(c)
  BY DEF SessionInv, ReadInv
<1>7. ReadOf(c)'
  BY <1>2, <1>6 DEF ReadOf, IsFirst
<1>8. ~Exists(c)' /\ Fits(held'[c].preset)
  BY <1>3 DEF Exists, SessionInv, FitInv
<1> QED
  BY <1>2, <1>3, <1>4, <1>5, <1>7, <1>8, OneChatChanges

\* A mode is set: /approval, and the Control Center.
LEMMA ModeKeeps ==
  ASSUME SessionInv, NEW c \in Chats, NEW m \in Modes, Exists(c),
         row' = [row EXCEPT ![c].mode = m], Grant(c, m),
         UNCHANGED <<surface, cwdOf, step, held, ctl, faults, selected>>,
         ops' \in 0..MaxOps
  PROVE  SessionInv'
<1> DEFINE r == [row[c] EXCEPT !.mode = m]
<1>1. /\ granted' \in [Chats -> SUBSET Modes] /\ m \in granted'[c]
      /\ \A d \in Chats \ {c} : granted'[d] = granted[d]
      /\ step[c] = "switch" => held[c].mode \in granted'[c]
  BY GrantChanges DEF SessionInv
<1>2. r \in Rows /\ r.thread = row[c].thread /\ r.cwd = row[c].cwd /\ r.mode = m
      /\ r.preset = row[c].preset
  BY RowType DEF SessionInv, Rows
<1>3. r # NoRow
  BY <1>2, SessionAssumption
<1>4. row' = [row EXCEPT ![c] = r]
  OBVIOUS
<1> HIDE DEF r
<1>5. row'[c] = r /\ \A d \in Chats \ {c} : row'[d] = row[d]
  BY <1>4 DEF SessionInv, TypeOK
<1>6. TypeOK'
  BY <1>1, <1>2, <1>4, ZenonT(60) DEF SessionInv, TypeOK
<1>7. RowOf(c) /\ ReadOf(c)
  BY DEF SessionInv, RowInv, ReadInv
<1>8. RowOf(c)'
  BY <1>1, <1>2, <1>3, <1>5, <1>7 DEF RowOf, Exists, Pending
<1>9. ReadOf(c)'
  BY <1>1, <1>7 DEF ReadOf, IsFirst
<1>10. Fits(row'[c].preset) /\ Fits(held'[c].preset)
  BY <1>2, <1>5 DEF SessionInv, FitInv
<1> QED
  BY <1>1, <1>5, <1>6, <1>8, <1>9, <1>10, OneChatChanges

\* /model keeps nothing; the presets of the former model go.
LEMMA ChooseModelKeeps ==
  ASSUME SessionInv, NEW c \in Chats, NEW m \in Models, ChooseModel(c, m)
  PROVE  SessionInv'
<1> DEFINE l == [NoLocals EXCEPT !.preset = [NoPreset EXCEPT !.model = m]]
<1>1. [NoPreset EXCEPT !.model = m] \in Presets /\ Fits([NoPreset EXCEPT !.model = m])
  BY DEF NoPreset, Presets, Fits, Kinds
<1>2. l \in Locals /\ Fits(l.preset)
  BY <1>1, LocalsType DEF Locals, NoLocals
<1>3. "preset" \in Steps
  BY DEF Steps
<1>4. ops' \in 0..MaxOps
  BY OpsType DEF SessionInv, ChooseModel, Accepts, LockFree
<1>5. Goto(c, "preset", l) /\ UNCHANGED <<row, selected, granted, surface, cwdOf, ctl, faults>>
  BY DEF ChooseModel, Frame
<1> HIDE DEF l
<1>6. step'[c] = "preset" /\ held'[c] = l => ReadOf(c)'
  BY DEF ReadOf
<1> QED
  BY <1>2, <1>3, <1>4, <1>5, <1>6, ReadStep

\* /reasoning and /tier merge their choice into the presets they read.
LEMMA ChooseOptionKeeps ==
  ASSUME SessionInv, NEW c \in Chats, NEW kind \in Kinds, NEW o \in Options \cup {NoValue},
         ChooseOption(c, kind, o)
  PROVE  SessionInv'
<1> DEFINE p == [row[c].preset EXCEPT ![kind] = o]
           l == [NoLocals EXCEPT !.preset = p]
<1>1. row[c].preset \in Presets
  BY RowType DEF ChooseOption, Pending, SessionInv, Rows
<1>2. p \in Presets
  <2>1. CASE kind = "reasoning_effort"
    BY <1>1, <2>1 DEF Presets
  <2>2. CASE kind = "service_tier"
    BY <1>1, <2>2 DEF Presets
  <2> QED
    BY <2>1, <2>2 DEF Kinds
<1>8. Fits(p)
  <2>1. /\ Fits(row[c].preset) /\ row[c].preset.model # NoValue
        /\ o \in Supported[kind][row[c].preset.model] \/ o = NoValue
    BY DEF ChooseOption, Pending, SessionInv, FitInv
  <2>2. CASE kind = "reasoning_effort"
    BY <1>1, <2>1, <2>2 DEF Presets, Fits, Kinds
  <2>3. CASE kind = "service_tier"
    BY <1>1, <2>1, <2>3 DEF Presets, Fits, Kinds
  <2> QED
    BY <2>2, <2>3 DEF Kinds
<1> HIDE DEF p
<1>3. l \in Locals /\ l.preset = p
  BY <1>2, LocalsType DEF Locals, NoLocals
<1>4. "preset" \in Steps
  BY DEF Steps
<1>5. ops' \in 0..MaxOps
  BY OpsType DEF SessionInv, ChooseOption, Accepts, LockFree
<1>6. Goto(c, "preset", l) /\ UNCHANGED <<row, selected, granted, surface, cwdOf, ctl, faults>>
  BY DEF ChooseOption, Frame, p
<1> HIDE DEF l
<1>7. step'[c] = "preset" /\ held'[c] = l => ReadOf(c)'
  BY DEF ReadOf
<1> QED
  BY <1>3, <1>4, <1>5, <1>6, <1>7, <1>8, ReadStep

\* update_pending_thread_settings changes the presets of a pending session.
LEMMA SavePresetKeeps ==
  ASSUME SessionInv, NEW c \in Chats, SavePreset(c)
  PROVE  SessionInv'
<1>1. /\ SavePresetRow(c, held[c].preset) /\ Done(c)
      /\ UNCHANGED <<selected, granted, surface, cwdOf, ctl, faults, ops>>
  BY DEF SavePreset, Under, Frame
<1>2. /\ step' \in [Chats -> Steps] /\ held' \in [Chats -> Locals]
      /\ step'[c] = "idle" /\ Fits(held'[c].preset)
      /\ \A d \in Chats \ {c} : step'[d] = step[d] /\ held'[d] = held[d]
  BY <1>1, DoneChanges DEF SessionInv
<1>3. RowOf(c)
  BY DEF SessionInv, RowInv
<1>4. ReadOf(c)'
  BY <1>2 DEF ReadOf
<1>5. /\ row' \in [Chats -> Rows \cup {NoRow}]
      /\ \A d \in Chats \ {c} : row'[d] = row[d]
      /\ RowOf(c)'
      /\ Exists(c)' => Fits(row'[c].preset)
  <2>1. CASE Pending(c)
    <3> DEFINE r == [row[c] EXCEPT !.preset = held[c].preset]
    <3>1. held[c].preset \in Presets
      BY DEF SessionInv, TypeOK, Locals
    <3>2. /\ r \in Rows /\ r.thread = row[c].thread /\ r.cwd = row[c].cwd
          /\ r.mode = row[c].mode /\ r.preset = held[c].preset
      BY <2>1, <3>1, RowType DEF Pending, SessionInv, Rows
    <3>3. r # NoRow
      BY <3>2, SessionAssumption
    <3>4. row' = [row EXCEPT ![c] = r]
      BY <1>1, <2>1 DEF SavePresetRow
    <3> HIDE DEF r
    <3>5. row'[c] = r /\ row' \in [Chats -> Rows \cup {NoRow}]
          /\ \A d \in Chats \ {c} : row'[d] = row[d]
      BY <3>2, <3>4 DEF SessionInv, TypeOK
    <3>6. RowOf(c)'
      BY <1>1, <1>3, <2>1, <3>2, <3>3, <3>5 DEF RowOf, Exists, Pending
    <3> QED
      BY <2>1, <3>2, <3>5, <3>6 DEF SessionInv, FitInv
  <2>2. CASE ~Pending(c)
    <3>1. UNCHANGED row
      BY <1>1, <2>2 DEF SavePresetRow
    <3>2. RowOf(c)'
      BY <1>1, <1>3, <3>1 DEF RowOf, Exists, Pending
    <3> QED
      BY <3>1, <3>2 DEF SessionInv, TypeOK, FitInv, Exists
  <2> QED
    BY <2>1, <2>2
<1>6. TypeOK'
  BY <1>1, <1>2, <1>5 DEF SessionInv, TypeOK
<1> QED
  BY <1>1, <1>2, <1>4, <1>5, <1>6, OneChatChanges

\* Only the selected surface, the requests under way or the counters change.
LEMMA RowsStay ==
  ASSUME SessionInv, TypeOK', UNCHANGED <<row, cwdOf, step, held, selected, granted>>
  PROVE  SessionInv'
<1>1. RowInv'
  BY DEF SessionInv, RowInv, RowOf, Exists, Pending
<1>2. ReadInv'
  BY DEF SessionInv, ReadInv, ReadOf, IsFirst
<1>3. FitInv'
  BY DEF SessionInv, FitInv, Fits, Exists
<1> QED
  BY <1>1, <1>2, <1>3 DEF SessionInv

\* The commands of a chat, one case per action.
LEMMA CommandKeeps ==
  ASSUME SessionInv, NEW c \in Chats, CommandStep(c)
  PROVE  SessionInv'
<1>1. CASE \E w \in Workspaces : ReadForNew(c, w)
  BY <1>1, ReadForNewKeeps
<1>2. CASE PrepareSession(c)
  BY <1>2, PrepareSessionKeeps
<1>3. CASE SwitchSession(c)
  BY <1>3, SwitchSessionKeeps
<1>4. CASE \E t \in Threads : ReadForUse(c, t)
  BY <1>4, ReadForUseKeeps
<1>5. CASE UseCreate(c)
  BY <1>5, UseCreateKeeps
<1>6. CASE UseBind(c)
  BY <1>6, BindKeeps DEF UseBind
<1>7. CASE Unbind(c)
  <2>1. ops' \in 0..MaxOps
    BY <1>7, OpsType DEF SessionInv, Unbind, Accepts, LockFree
  <2>2. ctl' \in Requests
    BY <1>7 DEF SessionInv, TypeOK, Unbind, Frame
  <2> QED
    BY <1>7, <2>1, <2>2, DeleteKeeps DEF Unbind, Frame
<1>8. CASE \E m \in Modes : SetApproval(c, m)
  <2>1. PICK m \in Modes : SetApproval(c, m)
    BY <1>8
  <2>2. ops' \in 0..MaxOps
    BY <2>1, OpsType DEF SessionInv, SetApproval, Accepts, LockFree
  <2> QED
    BY <2>1, <2>2, ModeKeeps DEF SetApproval, Frame
<1>9. CASE \E m \in Models : ChooseModel(c, m)
  BY <1>9, ChooseModelKeeps
<1>10. CASE \E kind \in Kinds, o \in Options \cup {NoValue} : ChooseOption(c, kind, o)
  BY <1>10, ChooseOptionKeeps
<1>11. CASE SavePreset(c)
  BY <1>11, SavePresetKeeps
<1>12. CASE \E s \in {"code", "chat"} : ChooseSurface(c, s)
  <2>1. ops' \in 0..MaxOps
    BY <1>12, OpsType DEF SessionInv, ChooseSurface, LockFree
  <2>2. TypeOK' /\ UNCHANGED <<row, cwdOf, step, held, selected, granted>>
    BY <1>12, <2>1 DEF SessionInv, TypeOK, ChooseSurface
  <2> QED
    BY <2>2, RowsStay
<1> QED
  BY <1>1, <1>2, <1>3, <1>4, <1>5, <1>6, <1>7, <1>8, <1>9, <1>10, <1>11, <1>12
  DEF CommandStep

-----------------------------------------------------------------------------
(* Prompts *)

\* A prompt reads the session of its chat.
LEMMA ReadSessionKeeps ==
  ASSUME SessionInv, NEW c \in Chats, ReadSession(c)
  PROVE  SessionInv'
<1> DEFINE l == [NoLocals EXCEPT !.row = row[c]]
<1>1. RowOf(c) /\ Exists(c) /\ row[c] \in Rows
  BY RowType DEF ReadSession, SessionInv, RowInv
<1>2. l \in Locals /\ l.row = row[c] /\ l.preset = NoPreset
  BY <1>1, LocalsType DEF Locals, NoLocals
<1>3. "mode" \in Steps
  BY DEF Steps
<1>4. ops' \in 0..MaxOps
  BY OpsType DEF SessionInv, ReadSession, Accepts, LockFree
<1>5. Goto(c, "mode", l) /\ UNCHANGED <<row, selected, granted, surface, cwdOf, ctl, faults>>
  BY DEF ReadSession, Frame
<1> HIDE DEF l
<1>6. step'[c] = "mode" /\ held'[c] = l => ReadOf(c)'
  BY <1>1, <1>2, <1>5 DEF ReadOf, RowOf, Pending, IsFirst
<1> QED
  BY <1>2, <1>3, <1>4, <1>5, <1>6, NothingFits, ReadStep

\* A prompt reads the approval mode.
LEMMA ReadModeKeeps ==
  ASSUME SessionInv, NEW c \in Chats, ReadMode(c)
  PROVE  SessionInv'
<1> DEFINE s == IF IsFirst(c) THEN "presets" ELSE "turn"
           l == [held[c] EXCEPT !.mode = ModeOf(c)]
<1>1. ReadOf(c) /\ held[c] \in Locals
  BY DEF SessionInv, ReadInv, TypeOK
<1>2. l \in Locals /\ l.row = held[c].row /\ l.preset = held[c].preset
  BY <1>1, ModeType DEF SessionInv, Locals
<1>7. Fits(l.preset)
  BY <1>2 DEF SessionInv, FitInv
<1>3. s \in {"presets", "turn"}
  OBVIOUS
<1>4. Goto(c, s, l) /\ UNCHANGED <<row, selected, granted, surface, cwdOf, ctl, faults, ops>>
      /\ step[c] = "mode"
  BY DEF ReadMode, Under, Frame
<1> HIDE DEF s, l
<1>5. s \in Steps /\ ops' \in 0..MaxOps
  BY <1>3, <1>4 DEF Steps, SessionInv, TypeOK
<1>6. step'[c] = s /\ held'[c] = l => ReadOf(c)'
  BY <1>1, <1>2, <1>3, <1>4 DEF ReadOf, IsFirst
<1> QED
  BY <1>2, <1>4, <1>5, <1>6, <1>7, ReadStep

\* A first prompt reads the presets.
LEMMA ReadPresetsKeeps ==
  ASSUME SessionInv, NEW c \in Chats, ReadPresets(c)
  PROVE  SessionInv'
<1> DEFINE p == IF Pending(c) THEN row[c].preset ELSE NoPreset
           l == [held[c] EXCEPT !.preset = p]
<1>1. ReadOf(c) /\ held[c] \in Locals
  BY DEF SessionInv, ReadInv, TypeOK
<1>2. p \in Presets /\ Fits(p)
  BY LocalsType, RowType, NothingFits DEF SessionInv, FitInv, Pending, Rows
<1>3. Goto(c, "turn", l) /\ UNCHANGED <<row, selected, granted, surface, cwdOf, ctl, faults, ops>>
      /\ step[c] = "presets"
  BY DEF ReadPresets, Under, Frame
<1> HIDE DEF p
<1>4. l \in Locals /\ l.row = held[c].row /\ l.preset = p
  BY <1>1, <1>2 DEF Locals
<1> HIDE DEF l
<1>5. "turn" \in Steps /\ ops' \in 0..MaxOps
  BY <1>3 DEF Steps, SessionInv, TypeOK
<1>6. step'[c] = "turn" /\ held'[c] = l => ReadOf(c)'
  BY <1>1, <1>3, <1>4 DEF ReadOf, IsFirst
<1> QED
  BY <1>2, <1>3, <1>4, <1>5, <1>6, ReadStep

\* The thread of a first turn is new: no row and no command has it yet, for
\* those have threads with a workspace.
LEMMA FirstTurnKeeps ==
  ASSUME SessionInv, NEW c \in Chats, NEW t \in Threads, FirstTurnCompleted(c, t)
  PROVE  SessionInv'
<1> DEFINE l == [held[c] EXCEPT !.thread = t]
<1>1. ReadOf(c) /\ held[c] \in Locals
  BY DEF SessionInv, ReadInv, TypeOK
<1>2. held[c].row.cwd = selected[c] /\ selected[c] \in Workspaces
  BY <1>1 DEF FirstTurnCompleted, ReadOf
<1>3. l \in Locals /\ l.thread = t /\ l.preset = held[c].preset
  BY <1>1 DEF Locals
<1>4. /\ cwdOf[t] = NoWorkspace
      /\ cwdOf' = [cwdOf EXCEPT ![t] = held[c].row.cwd]
      /\ Goto(c, "bind", l)
      /\ UNCHANGED <<row, surface, ctl, ops, faults, selected, granted>>
  BY DEF FirstTurnCompleted
<1>5. "bind" \in Steps
  BY DEF Steps
<1> HIDE DEF l
<1>6. /\ step' \in [Chats -> Steps] /\ held' \in [Chats -> Locals]
      /\ step'[c] = "bind" /\ held'[c] = l
      /\ \A d \in Chats \ {c} : step'[d] = step[d] /\ held'[d] = held[d]
  BY <1>3, <1>4, <1>5, GotoChanges DEF SessionInv
<1>7. /\ cwdOf' \in [Threads -> Workspaces \cup {NoWorkspace}]
      /\ cwdOf'[t] = selected[c]
      /\ \A u \in Threads : cwdOf[u] \in Workspaces => cwdOf'[u] = cwdOf[u]
  BY <1>2, <1>4, SessionAssumption DEF SessionInv, TypeOK
<1>8. TypeOK'
  BY <1>4, <1>6, <1>7 DEF SessionInv, TypeOK
<1>9. RowInv'
  <2> SUFFICES ASSUME NEW d \in Chats  PROVE RowOf(d)'
    BY DEF RowInv
  <2>1. RowOf(d)
    BY DEF SessionInv, RowInv
  <2>2. Exists(d) /\ row[d].thread # NoThread => row[d].thread \in Threads
    BY RowType DEF SessionInv, Rows
  <2> QED
    BY <1>4, <1>7, <2>1, <2>2 DEF RowOf, Exists, Pending
<1>10. ReadInv'
  <2> SUFFICES ASSUME NEW d \in Chats  PROVE ReadOf(d)'
    BY DEF ReadInv
  <2>1. CASE d = c
    BY <1>2, <1>3, <1>4, <1>6, <1>7, <2>1 DEF ReadOf
  <2>2. CASE d # c
    <3>1. ReadOf(d)
      BY DEF SessionInv, ReadInv
    <3> QED
      BY <1>4, <1>6, <1>7, <2>2, <3>1 DEF ReadOf, IsFirst
  <2> QED
    BY <2>1, <2>2
<1>11. FitInv'
  <2>1. ASSUME NEW d \in Chats
        PROVE  (Exists(d)' => Fits(row'[d].preset)) /\ Fits(held'[d].preset)
    BY <1>3, <1>4, <1>6 DEF SessionInv, FitInv, Exists
  <2> QED
    BY <2>1 DEF FitInv, Fits
<1> QED
  BY <1>8, <1>9, <1>10, <1>11 DEF SessionInv

\* A turn that binds nothing.
LEMMA TurnEndedKeeps ==
  ASSUME SessionInv, NEW c \in Chats, TurnEnded(c)
  PROVE  SessionInv'
<1>1. Goto(c, "idle", NoLocals)
      /\ UNCHANGED <<row, selected, granted, surface, cwdOf, ctl, faults, ops>>
  BY DEF TurnEnded, Done, Under, Frame
<1>2. "idle" \in Steps /\ ops' \in 0..MaxOps
  BY <1>1 DEF Steps, SessionInv, TypeOK
<1>3. step'[c] = "idle" => ReadOf(c)'
  BY DEF ReadOf
<1> QED
  BY <1>1, <1>2, <1>3, LocalsType, NothingFits, ReadStep

\* The prompts of a chat, one case per action.
LEMMA PromptKeeps ==
  ASSUME SessionInv, NEW c \in Chats, PromptStep(c)
  PROVE  SessionInv'
<1>1. CASE BindFirst(c)
  BY <1>1, BindKeeps DEF BindFirst
<1> QED
  BY <1>1, ReadSessionKeeps, ReadModeKeeps, ReadPresetsKeeps, FirstTurnKeeps, TurnEndedKeeps
  DEF PromptStep

-----------------------------------------------------------------------------
(* The Control API and a restart *)

\* A request of the Control API knows its chat.
LEMMA RequestType ==
  ASSUME TypeOK, ctl # NoRequest
  PROVE  /\ ctl.chat \in Chats /\ ctl.op \in {"unbind", "code", "chat"}
         /\ [ctl EXCEPT !.at = "act"] \in Requests
<1>1. ctl \in [op : {"unbind"}, at : {"jobs", "act"}, chat : Chats, row : Rows \cup {NoRow}]
      \/ ctl \in [op : {"code", "chat"}, at : {"jobs", "act"}, chat : Chats, row : Rows \cup {NoRow}]
  BY DEF TypeOK, Requests
<1> QED
  BY <1>1 DEF Requests

\* A request that is over.
LEMMA NoRequestType == NoRequest \in Requests
  BY DEF Requests

\* The Control API's steps, one case per action.
LEMMA ControlKeeps ==
  ASSUME SessionInv, ControlStep
  PROVE  SessionInv'
<1>1. ASSUME NEW c \in Chats, NEW op \in {"unbind", "code", "chat"}, ControlRead(c, op)
      PROVE  SessionInv'
  <2>1. ops' \in 0..MaxOps
    BY <1>1, OpsType DEF SessionInv, ControlRead
  <2>2. row[c] \in Rows \cup {NoRow}
    BY DEF SessionInv, TypeOK
  <2>3. ctl' \in Requests
    BY <1>1, <2>2 DEF ControlRead, Requests
  <2>4. UNCHANGED <<row, cwdOf, step, held, selected, granted>> /\ TypeOK'
    BY <1>1, <2>1, <2>3 DEF SessionInv, TypeOK, ControlRead, ControlFrame
  <2> QED
    BY <2>4, RowsStay
<1>2. CASE ControlJobs
  <2>1. ctl' \in Requests
    BY <1>2, RequestType, NoRequestType DEF SessionInv, ControlJobs
  <2>2. UNCHANGED <<row, cwdOf, step, held, selected, granted>> /\ TypeOK'
    BY <1>2, <2>1 DEF SessionInv, TypeOK, ControlJobs, ControlFrame
  <2> QED
    BY <2>2, RowsStay
<1>3. CASE ControlUnbind
  <2>1. ctl.chat \in Chats /\ ctl' \in Requests /\ ops' \in 0..MaxOps
    BY <1>3, RequestType, NoRequestType DEF SessionInv, TypeOK, ControlUnbind
  <2> QED
    BY <1>3, <2>1, DeleteKeeps DEF ControlUnbind, ControlFrame
<1>4. CASE ControlSelect
  <2>1. ctl.chat \in Chats /\ ctl.op \in {"code", "chat"} /\ ctl' \in Requests
    BY <1>4, RequestType, NoRequestType DEF SessionInv, ControlSelect
  <2>2. UNCHANGED <<row, cwdOf, step, held, selected, granted>> /\ TypeOK'
    BY <1>4, <2>1 DEF SessionInv, TypeOK, ControlSelect, ControlFrame
  <2> QED
    BY <2>2, RowsStay
<1>5. ASSUME NEW c \in Chats, NEW m \in Modes, ControlMode(c, m)
      PROVE  SessionInv'
  <2>1. ops' \in 0..MaxOps
    BY <1>5, OpsType DEF SessionInv, ControlMode
  <2> QED
    BY <1>5, <2>1, ModeKeeps DEF ControlMode, ControlFrame
<1> QED
  BY <1>1, <1>2, <1>3, <1>4, <1>5 DEF ControlStep

\* A restart forgets commands, prompts and requests, and no row.
LEMMA RestartKeeps ==
  ASSUME SessionInv, Restart
  PROVE  SessionInv'
<1>1. TypeOK'
  BY LocalsType, NoRequestType, SessionAssumption
  DEF SessionInv, TypeOK, Restart, Steps
<1>2. RowInv'
  BY DEF SessionInv, RowInv, RowOf, Exists, Pending, Restart
<1>3. ReadInv'
  BY DEF ReadInv, ReadOf, Restart
<1>4. FitInv'
  <2>1. ASSUME NEW d \in Chats
        PROVE  (Exists(d)' => Fits(row'[d].preset)) /\ Fits(held'[d].preset)
    BY NothingFits DEF SessionInv, FitInv, Exists, Restart
  <2> QED
    BY <2>1 DEF FitInv, Fits
<1> QED
  BY <1>1, <1>2, <1>3, <1>4 DEF SessionInv

-----------------------------------------------------------------------------
(* Theorems *)

\* A database without sessions, and a process that does nothing yet.
LEMMA InitHolds == SessionInit => SessionInv
<1> SUFFICES ASSUME SessionInit  PROVE SessionInv
  OBVIOUS
<1>1. TypeOK
  BY LocalsType, NoRequestType, SessionAssumption DEF SessionInit, TypeOK, Steps
<1>2. RowInv /\ ReadInv /\ FitInv
  BY NothingFits DEF SessionInit, RowInv, RowOf, ReadInv, ReadOf, FitInv, Exists, Pending
<1> QED
  BY <1>1, <1>2 DEF SessionInv

\* Each step of commands, prompts, the Control API and the process.
LEMMA NextKeeps == SessionInv /\ [SessionNext]_vars => SessionInv'
<1> SUFFICES ASSUME SessionInv, [SessionNext]_vars  PROVE SessionInv'
  OBVIOUS
<1>1. CASE UNCHANGED vars
  <2>1. TypeOK' /\ UNCHANGED <<row, cwdOf, step, held, selected, granted>>
    BY <1>1 DEF SessionInv, TypeOK, vars
  <2> QED
    BY <2>1, RowsStay
<1>2. CASE SessionNext
  BY <1>2, CommandKeeps, PromptKeeps, ControlKeeps, RestartKeeps DEF SessionNext
<1> QED
  BY <1>1, <1>2

\* The inductive invariant holds of every behaviour.
LEMMA InvHolds == SessionSpec => []SessionInv
  BY InitHolds, NextKeeps, PTL DEF SessionSpec

\* Rows, commands and requests have their types (store.py, table feishu_sessions).
THEOREM SessionTypes == SessionSpec => []TypeOK
<1>1. SessionInv => TypeOK
  BY DEF SessionInv
<1> QED
  BY <1>1, InvHolds, PTL

\* A session waits, and is started, with an effort and a tier its model offers
\* (update_pending_thread_settings, get_pending_thread_settings).
THEOREM SessionsStartWithFittingPresets == SessionSpec => []PresetsFit
<1>1. SessionInv => PresetsFit
  BY DEF SessionInv, FitInv, PresetsFit, Pending
<1> QED
  BY <1>1, InvHolds, PTL

\* A bound chat works where its user said last (switch_to_pending_session,
\* create_pending_session, bind_session).
THEOREM WorksWhereSelected == SessionSpec => []BoundWhereSelected
<1>1. SessionInv => BoundWhereSelected
  BY DEF SessionInv, RowInv, RowOf, BoundWhereSelected
<1> QED
  BY <1>1, InvHolds, PTL

\* A session has the approval mode that was set last, but for the one change
\* that /new may lose (store.py:753).
THEOREM ModesAreKept == SessionSpec => []ModeIsKept
<1>1. SessionInv => ModeIsKept
  BY DEF SessionInv, RowInv, RowOf, ModeIsKept
<1> QED
  BY <1>1, InvHolds, PTL

\* A step that writes one row brings no other session back.
LEMMA OtherRowStays ==
  ASSUME TypeOK, NEW c \in Chats, ~Exists(c), NEW d \in Chats, NEW r,
         row' = [row EXCEPT ![d] = r], c # d \/ r = NoRow
  PROVE  ~Exists(c)'
  BY DEF Exists, TypeOK

\* A row that is not there is not written by the transactions that update one.
LEMMA UpdateFindsNothing ==
  ASSUME TypeOK, NEW c \in Chats, ~Exists(c), NEW d \in Chats,
         \/ UNCHANGED row
         \/ \E t \in Threads : Bind(d, t)
         \/ \E p \in Presets : SavePresetRow(d, p)
         \/ \E m \in Modes : Exists(d) /\ row' = [row EXCEPT ![d].mode = m]
         \/ DeleteRow(d)
  PROVE  ~Exists(c)'
<1>1. CASE UNCHANGED row
  BY <1>1 DEF Exists
<1>2. CASE \E t \in Threads : Bind(d, t)
  BY <1>1, <1>2, OtherRowStays DEF Bind
<1>3. CASE \E p \in Presets : SavePresetRow(d, p)
  BY <1>1, <1>3, OtherRowStays DEF SavePresetRow, Pending
<1>4. CASE \E m \in Modes : Exists(d) /\ row' = [row EXCEPT ![d].mode = m]
  BY <1>4, OtherRowStays
<1>5. CASE DeleteRow(d)
  BY <1>5, OtherRowStays DEF DeleteRow
<1> QED
  BY <1>1, <1>2, <1>3, <1>4, <1>5

\* create_pending_session and switch_to_pending_session are the two that insert.
LEMMA InsertIsACommand ==
  ASSUME TypeOK, NEW c \in Chats, ~Exists(c), NEW d \in Chats,
         PrepareSession(d) \/ SwitchSession(d) \/ UseCreate(d)
  PROVE  ~Exists(c)' \/ step[c] \in {"prepare", "switch", "use"}
<1>1. CASE c = d
  BY <1>1 DEF PrepareSession, SwitchSession, UseCreate
<1>2. CASE c # d
  <2>1. UNCHANGED row \/ \E r : row' = [row EXCEPT ![d] = r]
    BY DEF PrepareSession, SwitchSession, UseCreate, CreatePending
  <2> QED
    BY <1>2, <2>1, OtherRowStays DEF Exists
<1> QED
  BY <1>1, <1>2

\* bind_session and the settings never bring an unbound session back.
THEOREM UnbindsAreFinal == SessionSpec => UnbindIsFinal
<1> DEFINE Final(c) == ~Exists(c) /\ Exists(c)' => step[c] \in {"prepare", "switch", "use"}
<1>1. ASSUME SessionInv, [SessionNext]_vars, NEW c \in Chats
      PROVE  Final(c)
  <2> SUFFICES ASSUME ~Exists(c)
               PROVE  ~Exists(c)' \/ step[c] \in {"prepare", "switch", "use"}
    OBVIOUS
  <2>1. TypeOK
    BY <1>1 DEF SessionInv
  <2>2. CASE UNCHANGED row
    BY <2>2 DEF Exists
  <2>3. ASSUME NEW d \in Chats, CommandStep(d)
        PROVE  ~Exists(c)' \/ step[c] \in {"prepare", "switch", "use"}
    <3>1. CASE PrepareSession(d) \/ SwitchSession(d) \/ UseCreate(d)
      BY <2>1, <3>1, InsertIsACommand
    <3>2. CASE UseBind(d)
      <4>1. held[d].thread \in Threads /\ Bind(d, held[d].thread)
        BY <1>1, <3>2 DEF SessionInv, ReadInv, ReadOf, UseBind
      <4> QED
        BY <2>1, <4>1, UpdateFindsNothing
    <3>3. CASE SavePreset(d)
      <4>1. held[d].preset \in Presets /\ SavePresetRow(d, held[d].preset)
        BY <2>1, <3>3 DEF TypeOK, Locals, SavePreset
      <4> QED
        BY <2>1, <4>1, UpdateFindsNothing
    <3>4. CASE Unbind(d)
      BY <2>1, <3>4, UpdateFindsNothing DEF Unbind
    <3>5. CASE \E m \in Modes : SetApproval(d, m)
      BY <2>1, <3>5, UpdateFindsNothing DEF SetApproval
    <3>6. ~(PrepareSession(d) \/ SwitchSession(d) \/ UseCreate(d) \/ UseBind(d)
            \/ SavePreset(d) \/ Unbind(d) \/ \E m \in Modes : SetApproval(d, m))
          => UNCHANGED row
      BY <2>3 DEF CommandStep, ReadForNew, ReadForUse, ChooseModel, ChooseOption, ChooseSurface
    <3> QED
      BY <2>2, <3>1, <3>2, <3>3, <3>4, <3>5, <3>6
  <2>4. ASSUME NEW d \in Chats, PromptStep(d)
        PROVE  ~Exists(c)'
    <3>1. CASE BindFirst(d)
      <4>1. held[d].thread \in Threads /\ Bind(d, held[d].thread)
        BY <1>1, <3>1 DEF SessionInv, ReadInv, ReadOf, BindFirst
      <4> QED
        BY <2>1, <4>1, UpdateFindsNothing
    <3>2. ~BindFirst(d) => UNCHANGED row
      BY <2>4 DEF PromptStep, ReadSession, ReadMode, ReadPresets, FirstTurnCompleted, TurnEnded
    <3> QED
      BY <3>1, <3>2 DEF Exists
  <2>5. CASE ControlStep
    <3>1. CASE ControlUnbind
      <4>1. ctl.chat \in Chats
        BY <2>1, <3>1, RequestType DEF ControlUnbind
      <4> QED
        BY <2>1, <3>1, <4>1, UpdateFindsNothing DEF ControlUnbind
    <3>2. CASE \E d \in Chats, m \in Modes : ControlMode(d, m)
      BY <2>1, <3>2, UpdateFindsNothing DEF ControlMode
    <3>3. ~ControlUnbind /\ ~(\E d \in Chats, m \in Modes : ControlMode(d, m))
          => UNCHANGED row
      BY <2>5 DEF ControlStep, ControlRead, ControlJobs, ControlSelect
    <3> QED
      BY <2>2, <3>1, <3>2, <3>3
  <2> QED
    BY <1>1, <2>2, <2>3, <2>4, <2>5 DEF SessionNext, Restart, vars
<1>2. SessionInv /\ [SessionNext]_vars => \A c \in Chats : Final(c)
  BY <1>1
<1> QED
  BY <1>2, InvHolds, PTL DEF SessionSpec, UnbindIsFinal

-----------------------------------------------------------------------------
(***************************************************************************)
(* The browser of the Chat surface                                         *)
(***************************************************************************)

Bindings  == [tab : Tabs \cup {0}, url : Places \cup {Unset}]
Composing == {"files", "fill", "send"}
Working   == {"restore", "ready", "wait"} \cup Composing  \* has a tab

PageTypes ==
  /\ mode \in BrowserModes /\ users \subseteq Tabs
  /\ place \in [Tabs -> Places \cup {"closed"}]
  /\ text \in [Tabs -> Prompts \cup {NoPrompt, Task}]
  /\ chips \in [Tabs -> SUBSET (Prompts \cup {Upload})]
  /\ marked \subseteq Tabs /\ astray \subseteq Tabs
ThreadTypes ==
  /\ thread \in [Conversations -> Seq(Prompts)]
  /\ known \subseteq Conversations /\ busy \subseteq known
  /\ files \in [Prompts -> SUBSET (Prompts \cup {Upload})]
HoldTypes ==
  /\ binding \in [BrowserChats -> Bindings]
  /\ owner \in BrowserChats \cup {NoChat} /\ outer \subseteq BrowserChats
  /\ commands \in 0..MaxCommands /\ failures \in 0..MaxFailures
LocalTypes ==
  /\ job \in [BrowserChats -> Prompts \cup {NoPrompt}]
  /\ at \in [BrowserChats -> PromptSteps]
  /\ mine \in [BrowserChats -> Bindings]
  /\ tab \in [BrowserChats -> Tabs \cup {0}]
  /\ seen \in [BrowserChats -> Nat \X {"grows", "still"}]
  /\ found \in [BrowserChats -> Makes \cup {NoPrompt}]
OutcomeTypes ==
  /\ fetched \in [Prompts -> Makes \cup {NoPrompt}]
  /\ answer \in [Prompts -> Prompts \cup {NoPrompt}]
  /\ shaken \subseteq Prompts
  /\ ended \in [Prompts -> {"no", "answered", "failed", "started"}]
Types == PageTypes /\ ThreadTypes /\ HoldTypes /\ LocalTypes /\ OutcomeTypes

\* A binding without a tab has no page either; the embedded page is tab 1.
Sound(b) == (b.tab = 0 <=> b.url = Unset) /\ (mode = "embedded" => b.tab \in {0, 1})

\* The human's tab is open and never CFR's; the embedded page is there.
OwnPages ==
  /\ users # {} => mode = "shared"
  /\ users \cap marked = {}
  /\ \A t \in users : place[t] # "closed"
  /\ mode = "embedded" => OpenTabs = {1}
BoundOf(c) ==
  /\ Sound(binding[c]) /\ Sound(mine[c])
  /\ at[c] \in Working =>
       /\ tab[c] \in Tabs /\ (job[c] \notin shaken => tab[c] \notin users)
       /\ mode = "embedded" => tab[c] = 1
PageInv == OwnPages /\ \A c \in BrowserChats : BoundOf(c)

\* Who works in the browser has the lock.
LockInv ==
  \A c \in BrowserChats :
    /\ at[c] \in Holding => owner = c
    /\ c \in outer => owner = c /\ at[c] \notin {"idle", "lock"}

\* What a prompt under way is, and the binding it goes by.
JobInv ==
  \A c \in BrowserChats :
    /\ at[c] = "idle" <=> job[c] = NoPrompt
    /\ job[c] # NoPrompt => ChatOf[job[c]] = c /\ ended[job[c]] = "no"
    /\ at[c] \in Holding \cup {"lock", "identity"} => mine[c] = binding[c]

\* Until the browser is lost, the tab is open and shows the chat's conversation.
TabOf(c) ==
  at[c] \in Working /\ job[c] \notin shaken =>
    /\ tab[c] \in OpenTabs
    /\ at[c] \in Composing \cup {"ready"} /\ mine[c].url \in Conversations =>
         place[tab[c]] = mine[c].url

\* The composer about to be sent; when the browser was lost meanwhile, what that of
\* another tab may hold is of the prompts the loss met.
ComposerOf(c) ==
  /\ job[c] \notin shaken =>
       /\ at[c] \in {"fill", "send"} /\ job[c] \in WithFiles => chips[tab[c]] = {job[c]}
       /\ at[c] = "send" => text[tab[c]] = job[c]
  /\ at[c] \in Holding /\ job[c] \in shaken =>
       \A t \in Tabs : text[t] \in shaken \cup {NoPrompt, Task}

Sent == {p \in Prompts : \E k \in Conversations : \E i \in DOMAIN thread[k] : thread[k][i] = p}

\* A prompt is sent once, and then ended or on its way to.
SentInv ==
  /\ \A k, l \in Conversations : \A i \in DOMAIN thread[k], j \in DOMAIN thread[l] :
       thread[k][i] = thread[l][j] => k = l /\ i = j
  /\ \A p \in Sent : ended[p] = "no" =>
       job[ChatOf[p]] = p /\ at[ChatOf[p]] \in Delivering \cup {"wait", "identity"}
  /\ \A p \in Prompts : answer[p] # NoPrompt => answer[p] \in Sent

\* A prompt that was typed and not sent was given up, or is about to be sent, or
\* another was sent in its place.
Begun(p) ==
  /\ job[ChatOf[p]] = p
  /\ \/ at[ChatOf[p]] \in {"send", "identity"}
     \/ p \in shaken /\ at[ChatOf[p]] \in Delivering \cup {"wait"}
Typed(p) ==
  /\ p \notin Sent /\ (p \notin shaken => ended[p] # "answered")
  /\ ended[p] = "no" => Begun(p)
TextInv ==
  \A t \in Tabs : text[t] \in Prompts =>
    Typed(text[t]) /\ \A u \in Tabs \ {t} : text[u] # text[t]

\* The prompt q got an answer; and nobody was shown the one to q.
Taken(q) == ended[q] = "answered" \/ (job[ChatOf[q]] = q /\ at[ChatOf[q]] \in Delivering)
Unshown(q) == (\A r \in Prompts \ shaken : answer[r] # q) /\ (q \notin shaken => ~ Taken(q))
FreshLast(k) == thread[k] # <<>> /\ Unshown(Last(thread[k]))

\* ... while it is under way, and until the chat that saw it under way is done.
FreshInv == \A k \in busy : FreshLast(k)
SeenOf(c) ==
  /\ at[c] \in Composing \/ (at[c] = "wait" /\ job[c] \notin Sent)
  /\ job[c] \notin shaken /\ place[tab[c]] \in Conversations
  => /\ seen[c][1] = Len(thread[place[tab[c]]])
     /\ seen[c][2] = "grows" => FreshLast(place[tab[c]])

\* A prompt that was sent is the last of the conversation its tab shows.
WaitOf(c) ==
  at[c] = "wait" /\ job[c] \in Sent \ shaken =>
    /\ place[tab[c]] \in Conversations /\ thread[place[tab[c]]] # <<>>
    /\ Last(thread[place[tab[c]]]) = job[c]

\* Who is shown another's answer is shown one that its prompt gave up, or left;
\* and no two prompts are shown the same.
AnswerInv ==
  /\ \A p \in Prompts \ shaken : answer[p] \notin shaken \cup {p, NoPrompt} =>
       \/ ended[answer[p]] \in {"failed", "started"}
       \/ job[ChatOf[answer[p]]] = answer[p] /\ at[ChatOf[answer[p]]] = "identity"
  /\ \A p, q \in Prompts \ shaken : p # q /\ answer[p] # NoPrompt => answer[p] # answer[q]

\* A prompt that the loss of the browser met has begun, and whoever had an answer
\* then was met, too.
ShakenInv ==
  /\ \A p \in shaken : ended[p] = "no" => job[ChatOf[p]] = p
  /\ \A c \in BrowserChats : at[c] = "lock" => job[c] \notin shaken
  /\ mode = "dedicated" => \A c, d \in BrowserChats :
       at[c] \in Delivering /\ at[d] \in Holding /\ job[d] \in shaken => job[c] \in shaken

\* In a dedicated Chrome a prompt is in the tab of its chat, or in one that shows
\* what its binding says.
OwnTabOf(c) ==
  mode = "dedicated" /\ at[c] \in Composing \cup {"restore", "ready"} /\ job[c] \notin shaken =>
    /\ tab[c] = mine[c].tab \/ place[tab[c]] = Wanted(mine[c])
    /\ at[c] \in Composing => place[tab[c]] # "aside"

\* What the chat that has the browser may rely on.
WorkInv ==
  \A c \in BrowserChats : TabOf(c) /\ ComposerOf(c) /\ SeenOf(c) /\ WaitOf(c) /\ OwnTabOf(c)

\* d works in t, or is about to be bound to it again.
Shares(d, t) == binding[d].tab = t /\ (at[d] = "bind" => mine[d].tab = t)

\* The tab of an answer shows its conversation, unless another chat has the tab.
FileOf(c) ==
  mode = "dedicated" /\ at[c] \in Delivering /\ job[c] \notin shaken =>
    /\ mine[c].tab \in OpenTabs /\ mine[c].url \in Conversations
    /\ answer[job[c]] \in Range(thread[mine[c].url])
    /\ found[c] \in Range(thread[mine[c].url]) \cup {NoPrompt}
    /\ at[c] = "file" => found[c] # NoPrompt
    /\ \/ place[mine[c].tab] \in {mine[c].url, "aside"}
       \/ mine[c].tab \in astray
       \/ \E d \in BrowserChats \ {c} : Shares(d, mine[c].tab)
    /\ \A d \in BrowserChats : at[d] \in Working /\ binding[d].tab = mine[c].tab =>
         tab[d] = mine[c].tab
FileInv == \A c \in BrowserChats : FileOf(c)

BrowserInv ==
  /\ Types /\ PageInv /\ LockInv /\ JobInv /\ WorkInv /\ SentInv /\ TextInv /\ FreshInv
  /\ AnswerInv /\ ShakenInv /\ FileInv /\ SentWithItsFiles

-----------------------------------------------------------------------------
(* Tabs                                                                    *)

\* The types as the module states them.
LEMMA TypesAre == Types => BrowserTypeOK
  BY DEF Types, PageTypes, ThreadTypes, HoldTypes, LocalTypes, OutcomeTypes, BrowserTypeOK,
      Bindings

\* Some numbers have a least.
LEMMA LeastIs ==
  ASSUME NEW S, S \subseteq Nat, S # {}
  PROVE  \E x \in S : \A y \in S : x =< y
<1>1. \E x \in S : \A y \in S : ~ (<<y, x>> \in OpToRel(<, Nat))
  BY NatLessThanWellFounded, WFMin, Zenon
<1>2. PICK x \in S : \A y \in S : ~ (<<y, x>> \in OpToRel(<, Nat))
  BY <1>1
<1>3. ASSUME NEW y \in S PROVE ~ (y < x)
  <2>1. y \in Nat /\ x \in Nat
    OBVIOUS
  <2> QED BY <1>2, <2>1, Zenon DEF OpToRel
<1> QED BY <1>3

\* The first of some tabs is one of them, and is 0 when there are none.
LEMMA FirstOfIs ==
  ASSUME NEW S, S \subseteq Tabs
  PROVE  (S = {} => FirstOf(S) = 0) /\ (S # {} => FirstOf(S) \in S) /\ 0 \notin Tabs
<1>1. Tabs \subseteq Nat /\ 0 \notin Tabs
  BY BrowserAssumption
<1>2. ASSUME S # {} PROVE Min(S) \in S
  <2>1. \E x \in S : \A y \in S : x =< y
    BY <1>1, <1>2, LeastIs
  <2> QED BY <2>1 DEF Min
<1> QED BY <1>1, <1>2 DEF FirstOf

\* The last prompt of a conversation that makes a file is in it.
LEMMA GeneratedIs ==
  ASSUME Types, NEW k \in Conversations
  PROVE  Generated(k) \in {NoPrompt} \cup (Makes \cap Range(thread[k]))
<1> DEFINE made == {i \in DOMAIN thread[k] : thread[k][i] \in Makes}
           rest == {Len(thread[k]) - i : i \in made}
<1>1. thread[k] \in Seq(Prompts)
  BY DEF Types, ThreadTypes
<1>2. made \subseteq 1..Len(thread[k]) /\ Len(thread[k]) \in Nat
  BY <1>1
<1>3. ASSUME made # {} PROVE Max(made) \in made
  <2>1. rest \subseteq Nat /\ rest # {}
    <3>1. \A i \in made : i \in Nat /\ i <= Len(thread[k])
      BY <1>2
    <3>2. rest # {}
      BY <1>3
    <3>3. \A i \in made : Len(thread[k]) - i \in Nat
      BY <1>2, <3>1
    <3> QED BY <3>2, <3>3
  <2>2. PICK x \in rest : \A y \in rest : x =< y
    BY <2>1, LeastIs
  <2>4. PICK i \in made : x = Len(thread[k]) - i
    OBVIOUS
  <2>5. \A j \in made : Len(thread[k]) - i =< Len(thread[k]) - j
    BY <2>2, <2>4
  <2>6. \A j \in made : i >= j
    BY <1>2, <2>5
  <2> HIDE DEF made
  <2> QED BY <2>6 DEF Max
<1>4. made # {} => thread[k][Max(made)] \in Makes \cap Range(thread[k])
  BY <1>3 DEF Range
<1> QED BY <1>4 DEF Generated

\* What a binding leads to.
LEMMA PlacesAre ==
  /\ "closed" \notin Places /\ Unset \notin Places /\ Unset # "closed"
  /\ "landing" \in Places /\ "aside" \in Places /\ "landing" # "aside"
  /\ "landing" \notin Conversations /\ "aside" \notin Conversations
  /\ "scheduled" \in Places \ (Conversations \cup {"landing", "aside", "closed"})
  /\ Lists = {"aside", "scheduled"}
  /\ Conversations \subseteq Places /\ "closed" \notin Conversations
  BY BrowserAssumption DEF Places, Pages, Lists, Unset

\* _find_page and _new_page: an open tab is CFR's own and is not navigated, but for
\* the embedded page of a chat that has none.
LEMMA PageForIs ==
  ASSUME Types, PageInv, NEW b \in Bindings, Sound(b), NEW t \in PageFor(b)
  PROVE  /\ t \in Tabs \ users /\ (mode = "embedded" => t = 1)
         /\ Opened(b, t) \in Places
         /\ t \in OpenTabs /\ b.url # Unset => Opened(b, t) = place[t]
         /\ mode = "dedicated" /\ t \in OpenTabs =>
              (b.tab = t \/ place[t] = b.url) /\ Opened(b, t) = place[t]
         /\ mode = "dedicated" /\ b.tab \in OpenTabs => t = b.tab
<1>1. OpenTabs \subseteq Tabs /\ \A u \in OpenTabs : place[u] \in Places
  BY DEF OpenTabs, Types, PageTypes
<1>2. t # 0 /\ t = IF FoundPage(b) # 0 THEN FoundPage(b) ELSE FreeTab
  BY DEF PageFor
<1>3. b.url \in Places \cup {Unset} /\ b.tab \in Tabs \cup {0}
  BY DEF Bindings
<1>4. Wanted(b) \in Places
  BY <1>3, PlacesAre DEF Wanted
<1>5. users \cap OpenTabs = users
  BY DEF PageInv, OwnPages, OpenTabs, Types, PageTypes
<1>6. CASE mode = "shared"
  <2>1. FoundPage(b) = FirstOf(marked \cap OpenTabs)
    BY <1>6 DEF FoundPage, OwnerPage
  <2>2. FoundPage(b) # 0 => FoundPage(b) \in marked \cap OpenTabs
    BY <1>1, <2>1, FirstOfIs
  <2>3. FoundPage(b) = 0 => t \in Tabs \ OpenTabs
    BY <1>2, <1>6, FirstOfIs DEF FreeTab
  <2> QED
    BY <1>1, <1>2, <1>4, <1>5, <1>6, <2>2, <2>3 DEF Opened, PageInv, OwnPages
<1>7. CASE mode = "embedded"
  <2>1. OpenTabs = {1} /\ b.tab \in {0, 1} /\ users = {} /\ 1 \in Tabs
    BY <1>7, BrowserAssumption DEF PageInv, OwnPages, Sound
  <2>2. FoundPage(b) # 0 => FoundPage(b) = 1
    <3> DEFINE S == {u \in OpenTabs : place[u] = b.url}
    <3>1. b.tab \notin OpenTabs => FoundPage(b) = FirstOf(S)
      BY <1>7 DEF FoundPage
    <3>2. S \subseteq {1} /\ S \subseteq Tabs
      BY <2>1
    <3>3. FirstOf(S) # 0 => FirstOf(S) = 1
      BY <3>2, FirstOfIs
    <3>4. b.tab \in OpenTabs => FoundPage(b) = b.tab
      BY <1>7 DEF FoundPage
    <3> QED BY <2>1, <3>1, <3>3, <3>4
  <2>3. t = 1
    BY <1>2, <1>7, <2>2 DEF FreeTab
  <2>4. b.url # Unset => FoundPage(b) = 1
    BY <1>7, <2>1 DEF FoundPage, Sound
  <2> QED
    BY <1>1, <1>4, <1>7, <2>1, <2>3, <2>4 DEF Opened
<1>8. CASE mode = "dedicated"
  <2> DEFINE S == {u \in OpenTabs : place[u] = b.url}
  <2>1. S \subseteq Tabs
    BY <1>1
  <2>2. b.tab \in OpenTabs => FoundPage(b) = b.tab
    BY <1>8 DEF FoundPage
  <2>3. b.tab \notin OpenTabs => FoundPage(b) = FirstOf(S)
    BY <1>8 DEF FoundPage
  <2>4. b.tab \notin OpenTabs /\ FoundPage(b) # 0 => FoundPage(b) \in S
    BY <2>1, <2>3, FirstOfIs
  <2>5. FoundPage(b) = 0 => t \in Tabs \ OpenTabs
    BY <1>2, <1>8, FirstOfIs DEF FreeTab
  <2>6. users = {} /\ 0 \notin OpenTabs
    BY <1>1, <1>8, FirstOfIs DEF PageInv, OwnPages
  <2> HIDE DEF S
  <2>7. FoundPage(b) # 0 => t = FoundPage(b) /\ t \in OpenTabs /\ Opened(b, t) = place[t]
    BY <1>2, <2>2, <2>4 DEF Opened, S
  <2>8. t \in OpenTabs => FoundPage(b) # 0
    BY <2>5
  <2>9. t \in OpenTabs => b.tab = t \/ place[t] = b.url
    BY <2>2, <2>4, <2>7, <2>8 DEF S
  <2>10. FoundPage(b) = 0 => t # 0 /\ Opened(b, t) = Wanted(b)
    BY <1>2 DEF Opened
  <2> QED
    BY <1>1, <1>2, <1>4, <1>8, <2>2, <2>5, <2>6, <2>7, <2>8, <2>9, <2>10
<1> QED BY <1>6, <1>7, <1>8, BrowserAssumption DEF Types, PageTypes

\* _page that creates nothing gives an open tab of CFR.
LEMMA ExistingIs ==
  ASSUME Types, PageInv, NEW b \in Bindings, Sound(b), NEW t \in Existing(b)
  PROVE  /\ t \in OpenTabs /\ t \in Tabs \ users /\ (mode = "embedded" => t = 1)
         /\ mode = "dedicated" /\ b.tab \in OpenTabs => t = b.tab
<1>1. OpenTabs \subseteq Tabs
  BY DEF OpenTabs
<1>2. CASE mode = "shared"
  <2>1. FoundPage(b) = FirstOf(marked \cap OpenTabs)
    BY <1>2 DEF FoundPage, OwnerPage
  <2>2. FoundPage(b) # 0 /\ t = FoundPage(b)
    BY <1>2 DEF Existing
  <2>3. t \in marked \cap OpenTabs
    BY <1>1, <2>1, <2>2, FirstOfIs
  <2> QED BY <1>1, <1>2, <2>3 DEF PageInv, OwnPages
<1>3. CASE mode # "shared"
  <2>1. users = {}
    BY <1>3 DEF PageInv, OwnPages
  <2>2. b.tab \in OpenTabs => FoundPage(b) = b.tab
    BY <1>3 DEF FoundPage
  <2>3. FoundPage(b) # 0 => FoundPage(b) \in OpenTabs
    <3> DEFINE S == {u \in OpenTabs : place[u] = b.url}
    <3>1. b.tab \notin OpenTabs => FoundPage(b) = FirstOf(S)
      BY <1>3 DEF FoundPage
    <3>2. S \subseteq Tabs
      BY <1>1
    <3>3. FirstOf(S) # 0 => FirstOf(S) \in S
      BY <3>2, FirstOfIs
    <3> QED BY <2>2, <3>1, <3>3
  <2>4. b.tab \in OpenTabs => FoundPage(b) # 0
    BY <1>1, <2>2, FirstOfIs
  <2>5. t \in OpenTabs /\ (FoundPage(b) # 0 => t = FoundPage(b))
    BY <1>3, <2>3 DEF Existing
  <2> QED BY <1>1, <2>1, <2>2, <2>4, <2>5 DEF PageInv, OwnPages
<1> QED BY <1>2, <1>3

\* Looking for the tab of a binding navigates no tab that is there.
LEMMA LookedIs ==
  ASSUME Types, PageInv, NEW b \in Bindings, Sound(b), NEW t \in Looked(b)
  PROVE  /\ t \in Tabs \ users /\ (mode = "embedded" => t = 1)
         /\ LookedAt(b, t) \in Places
         /\ t \in OpenTabs => LookedAt(b, t) = place[t]
         /\ mode = "dedicated" /\ t \in OpenTabs /\ b.url # Unset => b.tab = t \/ place[t] = b.url
         /\ mode = "dedicated" /\ b.tab \in OpenTabs => t = b.tab
<1>1. CASE b.url = Unset
  <2>1. t \in Existing(b) /\ LookedAt(b, t) = place[t]
    BY <1>1 DEF Looked, LookedAt
  <2> QED BY <1>1, <2>1, ExistingIs DEF OpenTabs, Types, PageTypes
<1>2. CASE b.url # Unset
  <2>1. t \in PageFor(b) /\ LookedAt(b, t) = Opened(b, t)
    BY <1>2 DEF Looked, LookedAt
  <2> QED BY <1>2, <2>1, PageForIs
<1> QED BY <1>1, <1>2

\* A tab shows another page.
LEMMA ShowIs ==
  ASSUME Types, NEW t \in Tabs, NEW u \in Places, Show(t, u)
  PROVE  /\ place' = [place EXCEPT ![t] = u]
         /\ place' \in [Tabs -> Places \cup {"closed"}]
         /\ text' \in [Tabs -> Prompts \cup {NoPrompt, Task}]
         /\ chips' \in [Tabs -> SUBSET (Prompts \cup {Upload})]
         /\ place[t] = u => place' = place /\ text' = text /\ chips' = chips
         /\ \A v \in Tabs \ {t} :
              place'[v] = place[v] /\ text'[v] = text[v] /\ chips'[v] = chips[v]
         /\ place[t] # u => text' = [text EXCEPT ![t] = NoPrompt] /\ chips' = [chips EXCEPT ![t] = {}]
         /\ \A v \in Tabs : text'[v] \in {text[v], NoPrompt}
  BY DEF Types, PageTypes, Show

\* _restore_bound_url.
LEMMA RestoredToIs ==
  ASSUME NEW b \in Bindings, NEW u \in Places
  PROVE  /\ RestoredTo(b, u) \in Places
         /\ b.url \in Conversations => RestoredTo(b, u) = b.url
         /\ u = Wanted(b) => RestoredTo(b, u) = u
         /\ u = b.url => RestoredTo(b, u) = u
  BY PlacesAre DEF RestoredTo, Bindings, Wanted, Places, Pages, Lists

\* A binding that is read or set is one.
LEMMA BoundIs ==
  ASSUME Types, PageInv, NEW c \in BrowserChats
  PROVE  /\ binding[c] \in Bindings /\ Sound(binding[c])
         /\ mine[c] \in Bindings /\ Sound(mine[c])
         /\ \A t \in Tabs, u \in Places : [tab |-> t, url |-> u] \in Bindings
         /\ \A t \in OpenTabs : t \in Tabs /\ place[t] \in Places
  BY DEF Types, HoldTypes, LocalTypes, PageTypes, PageInv, BoundOf, Bindings, OpenTabs

\* Counters stay within their bounds.
LEMMA CountIs ==
  ASSUME Types
  PROVE  /\ Failure => failures' \in 0..MaxFailures
         /\ NoFailure => failures' \in 0..MaxFailures
         /\ commands < MaxCommands /\ commands' = commands + 1 => commands' \in 0..MaxCommands
  BY BrowserAssumption DEF Types, HoldTypes, Failure, NoFailure

-----------------------------------------------------------------------------
(* Commands                                                                *)

\* What a command that sends nothing does: it works in one tab, to which it binds
\* its chat, or which goes astray, or shows no conversation then.
Visit(c) ==
  /\ at[c] = "idle" /\ owner = NoChat
  /\ UNCHANGED <<fixed, chatgpt, owner, outer, prompt, answer, fetched, ended, shaken>>
  /\ PageTypes' /\ HoldTypes' /\ Sound(binding[c])'
  /\ users \cap marked' = {} /\ astray \subseteq astray'
  /\ \A t \in users : chips'[t] = chips[t] /\ (place[t] # "scheduled" => text'[t] = text[t])
  /\ \A t \in Tabs : text'[t] \in {text[t], NoPrompt, Task}
  /\ \A d \in BrowserChats \ {c} : binding'[d] = binding[d]
  /\ \A t \in Tabs :
       place'[t] # place[t] =>
         t \notin users /\ (mode = "embedded" => t = 1) /\ place'[t] \in Places
  /\ mode = "dedicated" =>
       /\ \A t \in OpenTabs :
            place'[t] \in {place[t], "aside"} \/ t \in astray' \/ binding'[c].tab = t
       /\ binding[c].tab \in OpenTabs => binding'[c].tab = binding[c].tab

\* A command that ends with update_chat_binding.
LEMMA RebindVisits ==
  ASSUME BrowserInv, NEW c \in BrowserChats, Command(c), UNCHANGED <<chatgpt, ended>>,
         NEW t \in Tabs \ users, mode = "embedded" => t = 1,
         mode = "dedicated" /\ binding[c].tab \in OpenTabs => t = binding[c].tab,
         NEW u \in Places, place' = [place EXCEPT ![t] = u],
         text' \in [Tabs -> Prompts \cup {NoPrompt, Task}],
         chips' \in [Tabs -> SUBSET (Prompts \cup {Upload})],
         \A v \in Tabs \ {t} : text'[v] = text[v] /\ chips'[v] = chips[v],
         text'[t] \in {text[t], NoPrompt, Task},
         Mark(t), Rebind(c, t, u)
  PROVE  Visit(c)
<1> DEFINE b == [tab |-> t, url |-> u]
<1> USE DEF BrowserInv
<1>1. /\ at[c] = "idle" /\ owner = NoChat /\ commands' \in 0..MaxCommands
      /\ UNCHANGED <<fixed, chatgpt, owner, outer, prompt, answer, fetched, ended, shaken>>
  BY CountIs DEF Command
<1>2. failures' \in 0..MaxFailures
  BY CountIs DEF Rebind
<1>3. b \in Bindings /\ b.tab = t /\ b.url = u
  BY BoundIs
<1>4. \/ binding' = [binding EXCEPT ![c] = b] /\ astray' = astray
      \/ binding' = binding /\ astray' = astray \cup {t}
  BY DEF Rebind
<1> HIDE DEF b
<1>5. HoldTypes'
  BY <1>1, <1>2, <1>3, <1>4 DEF Types, HoldTypes
<1>6. PageTypes' /\ users \cap marked' = {} /\ astray \subseteq astray'
  BY <1>1, <1>4 DEF Types, PageTypes, Mark, PageInv, OwnPages, fixed
<1>7. Sound(binding[c])'
  <2>1. t # 0 /\ u # Unset
    BY BrowserAssumption, PlacesAre
  <2>2. binding'[c] \in {b, binding[c]} /\ mode' = mode
    BY <1>1, <1>4 DEF Types, HoldTypes, fixed
  <2> QED BY <1>3, <2>1, <2>2 DEF Sound, PageInv, BoundOf
<1>8. \A d \in BrowserChats \ {c} : binding'[d] = binding[d]
  BY <1>4 DEF Types, HoldTypes
<1>9. \A v \in Tabs \ {t} : place'[v] = place[v]
  BY DEF Types, PageTypes
<1>10. place'[t] = u
  BY DEF Types, PageTypes
<1>11. t \in astray' \/ binding'[c].tab = t
  BY <1>3, <1>4 DEF Types, HoldTypes
<1>12. mode = "dedicated" /\ binding[c].tab \in OpenTabs => binding'[c].tab = binding[c].tab
  BY <1>3, <1>4 DEF Types, HoldTypes
<1>13. /\ \A v \in users : text'[v] = text[v] /\ chips'[v] = chips[v]
       /\ \A v \in Tabs : text'[v] \in {text[v], NoPrompt, Task}
  BY DEF Types, PageTypes
<1> QED
  BY <1>1, <1>5, <1>6, <1>7, <1>8, <1>9, <1>10, <1>11, <1>12, <1>13 DEF Visit, OpenTabs

\* navigate (/new, /chat, /project).
LEMMA NavigateVisits ==
  ASSUME BrowserInv, NEW c \in BrowserChats, Command(c), UNCHANGED <<chatgpt, ended>>,
         NEW u \in Places, Navigate(c, u)
  PROVE  Visit(c)
<1>1. PICK t \in PageFor(binding[c]) : Show(t, u) /\ Mark(t) /\ Rebind(c, t, u)
  BY DEF Navigate
<1> QED BY <1>1, BoundIs, PageForIs, ShowIs, RebindVisits DEF BrowserInv

\* A command that leaves its chat's binding as it is, and navigates no tab but to
\* a page without a conversation.
LEMMA LookVisits ==
  ASSUME BrowserInv, NEW c \in BrowserChats, Command(c),
         UNCHANGED <<chatgpt, binding, ended, astray>>, failures' \in 0..MaxFailures,
         NEW t \in Tabs \ users, mode = "embedded" => t = 1,
         NEW u \in Places, place' = [place EXCEPT ![t] = u],
         mode = "dedicated" /\ t \in OpenTabs => u \in {place[t], "aside"},
         text' \in [Tabs -> Prompts \cup {NoPrompt, Task}],
         chips' \in [Tabs -> SUBSET (Prompts \cup {Upload})],
         \A v \in Tabs \ {t} : text'[v] = text[v] /\ chips'[v] = chips[v],
         text'[t] \in {text[t], NoPrompt, Task},
         marked' \subseteq marked \cup {t}
  PROVE  Visit(c)
<1> USE DEF BrowserInv
<1>1. /\ at[c] = "idle" /\ owner = NoChat /\ commands' \in 0..MaxCommands
      /\ UNCHANGED <<fixed, chatgpt, owner, outer, prompt, answer, fetched, ended, shaken>>
  BY CountIs DEF Command
<1>2. HoldTypes' /\ Sound(binding[c])'
  BY <1>1 DEF Types, HoldTypes, PageInv, BoundOf, Sound, fixed
<1>3. PageTypes' /\ users \cap marked' = {}
  BY <1>1 DEF Types, PageTypes, PageInv, OwnPages, fixed
<1>4. \A v \in Tabs : place'[v] = IF v = t THEN u ELSE place[v]
  BY DEF Types, PageTypes
<1>5. /\ \A v \in users : text'[v] = text[v] /\ chips'[v] = chips[v]
      /\ \A v \in Tabs : text'[v] \in {text[v], NoPrompt, Task}
  BY DEF Types, PageTypes
<1> QED BY <1>1, <1>2, <1>3, <1>4, <1>5 DEF Visit, OpenTabs

\* /models, /model, /reasoning read or set a menu in the chat's conversation.
LEMMA InspectVisits ==
  ASSUME BrowserInv, NEW c \in BrowserChats, Inspect(c)
  PROVE  Visit(c)
<1>1. PICK t \in PageFor(binding[c]) :
        LET u == Restored(binding[c], t) IN Show(t, u) /\ Mark(t) /\ Rebind(c, t, u)
  BY DEF Inspect
<1>2. Restored(binding[c], t) \in Places
  BY BoundIs, PageForIs, RestoredToIs DEF Restored, BrowserInv
<1> QED
  BY <1>1, <1>2, BoundIs, PageForIs, ShowIs, RebindVisits DEF BrowserInv, Inspect

\* /history binds its chat to the tab it reads.
LEMMA HistoryVisits ==
  ASSUME BrowserInv, NEW c \in BrowserChats, History(c)
  PROVE  Visit(c)
<1>1. PICK t \in Looked(binding[c]) :
        LET u == RestoredTo(binding[c], LookedAt(binding[c], t)) IN
          Show(t, u) /\ Mark(t) /\ Rebind(c, t, u)
  BY DEF History, ReadHistory
<1>2. RestoredTo(binding[c], LookedAt(binding[c], t)) \in Places
  BY BoundIs, LookedIs, RestoredToIs DEF BrowserInv
<1> QED
  BY <1>1, <1>2, BoundIs, LookedIs, ShowIs, RebindVisits DEF BrowserInv, History

\* /upload adds to what the composer holds.
LEMMA UploadVisits ==
  ASSUME BrowserInv, NEW c \in BrowserChats, UploadOnly(c)
  PROVE  Visit(c)
<1>1. PICK t \in PageFor(binding[c]) :
        LET u == Restored(binding[c], t) IN Added(t, u) /\ Mark(t) /\ Rebind(c, t, u)
  BY DEF UploadOnly
<1> DEFINE u == Restored(binding[c], t)
<1>2. u \in Places
  BY BoundIs, PageForIs, RestoredToIs DEF Restored, BrowserInv
<1>3. Added(t, u) /\ Mark(t) /\ Rebind(c, t, u)
  BY <1>1
<1>4. /\ t \in Tabs \ users /\ (mode = "embedded" => t = 1)
      /\ mode = "dedicated" /\ binding[c].tab \in OpenTabs => t = binding[c].tab
  BY BoundIs, PageForIs DEF BrowserInv
<1> HIDE DEF u
<1>5. /\ text' \in [Tabs -> Prompts \cup {NoPrompt, Task}]
      /\ chips' \in [Tabs -> SUBSET (Prompts \cup {Upload})]
      /\ text'[t] \in {text[t], NoPrompt}
  BY <1>3, <1>4 DEF Added, BrowserInv, Types, PageTypes
<1>6. \A v \in Tabs \ {t} : text'[v] = text[v] /\ chips'[v] = chips[v]
  BY <1>3, <1>4 DEF Added, BrowserInv, Types, PageTypes
<1> QED
  BY <1>2, <1>3, <1>4, <1>5, <1>6, RebindVisits DEF Added, UploadOnly

\* /project, by way of a list that may not have it.
LEMMA ProjectVisits ==
  ASSUME BrowserInv, NEW c \in BrowserChats, OpenProject(c)
  PROVE  Visit(c)
<1>1. CASE Navigate(c, "landing")
  BY <1>1, PlacesAre, NavigateVisits DEF OpenProject
<1>2. CASE /\ \E t \in PageFor(binding[c]) : Show(t, "aside") /\ Mark(t)
           /\ NoFailure /\ UNCHANGED <<binding, astray>>
  <2>1. PICK t \in PageFor(binding[c]) : Show(t, "aside") /\ Mark(t)
    BY <1>2
  <2>2. t \in Tabs \ users /\ (mode = "embedded" => t = 1)
    BY BoundIs, PageForIs DEF BrowserInv
  <2>3. failures' \in 0..MaxFailures
    BY <1>2, CountIs DEF BrowserInv
  <2> QED
    BY <1>2, <2>1, <2>2, <2>3, PlacesAre, ShowIs, LookVisits
    DEF OpenProject, Mark, BrowserInv
<1> QED BY <1>1, <1>2 DEF OpenProject, ThroughList

\* /chats and the like look for the tab.
LEMMA LooksVisit ==
  ASSUME BrowserInv, NEW c \in BrowserChats, Look(c)
  PROVE  Visit(c)
<1>1. PICK t \in Looked(binding[c]) : Show(t, LookedAt(binding[c], t)) /\ Mark(t)
  BY DEF Look, LookAt
<1>2. /\ t \in Tabs \ users /\ (mode = "embedded" => t = 1)
      /\ LookedAt(binding[c], t) \in Places
      /\ t \in OpenTabs => LookedAt(binding[c], t) = place[t]
  BY BoundIs, LookedIs DEF BrowserInv
<1>3. failures' \in 0..MaxFailures
  BY DEF Look, BrowserInv, Types, HoldTypes
<1> QED BY <1>1, <1>2, <1>3, ShowIs, LookVisits DEF Look, Mark, BrowserInv

\* A new tab is none that is there, but for the embedded page.
LEMMA FreeTabIs ==
  ASSUME BrowserInv, FreeTab # 0
  PROVE  /\ FreeTab \in Tabs \ users /\ (mode = "embedded" => FreeTab = 1)
         /\ FreeTab \in OpenTabs => mode = "embedded"
<1>1. CASE mode = "embedded"
  BY <1>1, BrowserAssumption DEF FreeTab, BrowserInv, PageInv, OwnPages
<1>2. CASE mode # "embedded"
  <2>1. FreeTab \in Tabs \ OpenTabs
    BY <1>2, FirstOfIs DEF FreeTab
  <2> QED BY <1>2, <2>1 DEF OpenTabs, BrowserInv, PageInv, OwnPages
<1> QED BY <1>1, <1>2

\* /projects goes to the list in a tab of its own, or in the embedded page.
LEMMA ListVisits ==
  ASSUME BrowserInv, NEW c \in BrowserChats, ListProjects(c)
  PROVE  Visit(c)
<1>1. FreeTab \in Tabs \ users /\ (mode = "embedded" => FreeTab = 1)
  BY FreeTabIs DEF ListProjects, VisitList
<1>2. marked' \subseteq marked \cup {FreeTab} /\ failures' \in 0..MaxFailures
  BY DEF ListProjects, VisitList, Mark, BrowserInv, Types, HoldTypes
<1>3. CASE Show(FreeTab, "aside")
  BY <1>1, <1>2, <1>3, PlacesAre, ShowIs, LookVisits DEF ListProjects, BrowserInv
<1>4. CASE mode = "embedded" /\ Show(1, place[1])
  <2>1. 1 \in OpenTabs /\ place[1] \in Places /\ FreeTab = 1
    BY <1>1, <1>4, BoundIs DEF BrowserInv, PageInv, OwnPages
  <2> QED
    BY <1>1, <1>2, <1>4, <2>1, ShowIs, LookVisits DEF ListProjects, BrowserInv
<1>5. CASE mode # "embedded" /\ UNCHANGED <<place, text, chips>>
  <2>1. marked' = marked
    BY <1>5 DEF ListProjects, VisitList
  <2> QED
    BY <1>5, <2>1, CountIs
    DEF BrowserInv, ListProjects, Command, Visit, Types, PageTypes, HoldTypes, PageInv, OwnPages, BoundOf, Sound,
        fixed
<1> QED BY <1>3, <1>4, <1>5 DEF ListProjects, VisitList

\* /scheduled types into the tab that shows the tasks, whosever it is, or a new one.
LEMMA ScheduledVisits ==
  ASSUME BrowserInv, NEW c \in BrowserChats, Scheduled(c)
  PROVE  Visit(c)
<1>1. PICK t \in ScheduledPage :
        /\ place' = [place EXCEPT ![t] = "scheduled"]
        /\ chips' = IF t \in OnScheduled THEN chips ELSE [chips EXCEPT ![t] = {}]
        /\ IF t \in OnScheduled THEN UNCHANGED marked ELSE Mark(t)
        /\ \/ text' = [text EXCEPT ![t] = NoPrompt] /\ NoFailure
           \/ text' = [text EXCEPT ![t] = Task] /\ Failure
           \/ t \in OnScheduled /\ UNCHANGED text /\ NoFailure
  BY DEF Scheduled
<1>2. OnScheduled \subseteq Tabs
  BY DEF OnScheduled, OpenTabs
<1>3. failures' \in 0..MaxFailures
  BY <1>1, CountIs DEF BrowserInv
<1>4. t \in OnScheduled \/ (t = FreeTab /\ FreeTab # 0 /\ t \notin OnScheduled)
  BY <1>2, FirstOfIs DEF ScheduledPage
<1>5. t \in Tabs
  BY <1>2, <1>4, FreeTabIs
<1>6. /\ text' \in [Tabs -> Prompts \cup {NoPrompt, Task}]
      /\ chips' \in [Tabs -> SUBSET (Prompts \cup {Upload})]
      /\ \A v \in Tabs \ {t} : text'[v] = text[v] /\ chips'[v] = chips[v]
      /\ text'[t] \in {text[t], NoPrompt, Task}
  BY <1>1, <1>5 DEF BrowserInv, Types, PageTypes
<1>7. CASE t \in OnScheduled
  <2>1. place[t] = "scheduled" /\ place' = place /\ chips' = chips /\ marked' = marked
    BY <1>1, <1>7 DEF OnScheduled, BrowserInv, Types, PageTypes
  <2>2. /\ at[c] = "idle" /\ owner = NoChat /\ commands' \in 0..MaxCommands
        /\ UNCHANGED <<fixed, chatgpt, owner, outer, prompt, answer, fetched, ended, shaken>>
        /\ UNCHANGED <<binding, astray>>
    BY CountIs DEF Scheduled, Command, BrowserInv
  <2>3. HoldTypes' /\ Sound(binding[c])'
    BY <1>3, <2>2 DEF BrowserInv, Types, HoldTypes, PageInv, BoundOf, Sound, fixed
  <2>4. PageTypes' /\ users \cap marked' = {}
    BY <1>6, <2>1, <2>2 DEF BrowserInv, Types, PageTypes, PageInv, OwnPages, fixed
  <2>5. /\ \A v \in Tabs : text'[v] \in {text[v], NoPrompt, Task}
        /\ \A v \in users : v \in Tabs /\ (place[v] # "scheduled" => text'[v] = text[v])
    BY <1>6, <2>1 DEF BrowserInv, Types, PageTypes
  <2> QED BY <2>1, <2>2, <2>3, <2>4, <2>5 DEF Visit
<1>8. CASE t = FreeTab /\ t \notin OnScheduled
  <2>1. /\ t \in Tabs \ users /\ (mode = "embedded" => t = 1)
        /\ mode = "dedicated" => t \notin OpenTabs
    BY <1>4, <1>8, FreeTabIs
  <2>2. marked' \subseteq marked \cup {t}
    BY <1>1, <1>8 DEF Mark
  <2> QED
    BY <1>1, <1>3, <1>6, <2>1, <2>2, PlacesAre, LookVisits DEF Scheduled, BrowserInv
<1> QED BY <1>4, <1>7, <1>8

\* So does every command that sends nothing.
LEMMA CommandsVisit ==
  ASSUME BrowserInv, NEW c \in BrowserChats,
         \/ OpenLanding(c) \/ OpenProject(c) \/ ReadModels(c) \/ Reasoning(c) \/ History(c)
         \/ Look(c) \/ UploadOnly(c) \/ ListProjects(c) \/ Scheduled(c)
         \/ \E k \in Conversations : OpenConversation(c, k)
  PROVE  Visit(c)
<1>1. OpenLanding(c) => Visit(c)
  BY PlacesAre, NavigateVisits DEF OpenLanding
<1>2. \A k \in Conversations : OpenConversation(c, k) => Visit(c)
  BY PlacesAre, NavigateVisits DEF OpenConversation
<1>3. ReadModels(c) \/ Reasoning(c) => Visit(c)
  BY InspectVisits DEF ReadModels, Reasoning
<1> QED
  BY <1>1, <1>2, <1>3, ProjectVisits, HistoryVisits, LooksVisit, UploadVisits, ListVisits,
      ScheduledVisits

\* What is typed goes on to be, for a prompt that goes on or ends without an answer.
LEMMA TextStays ==
  ASSUME BrowserInv, Sent' = Sent, shaken \subseteq shaken',
         \A t \in Tabs : text'[t] \in {text[t], NoPrompt, Task},
         \A p \in Prompts : Typed(p) =>
           \/ ended'[p] = ended[p] /\ (Begun(p) => Begun(p)')
           \/ ended'[p] # "no" /\ (ended'[p] = "answered" => p \in shaken')
  PROVE  TextInv'
<1>1. \A t \in Tabs : text'[t] \in Prompts => text'[t] = text[t]
  BY BrowserAssumption
<1>2. ASSUME NEW p \in Prompts, Typed(p) PROVE Typed(p)'
  BY <1>2 DEF Typed
<1> QED BY <1>1, <1>2 DEF BrowserInv, TextInv

\* Nobody works in the browser meanwhile.
LEMMA VisitKeeps ==
  ASSUME BrowserInv, NEW c \in BrowserChats, Visit(c)
  PROVE  BrowserInv'
<1> USE DEF Visit, fixed, chatgpt, prompt
<1>1. \A d \in BrowserChats : at[d] \notin Holding
  BY BrowserAssumption DEF BrowserInv, LockInv
<1>2. Working \subseteq Holding /\ Composing \subseteq Holding /\ {"fill", "send", "wait", "ready", "restore"} \subseteq Holding
  BY DEF Working, Composing, Holding
<1>3. Types'
  BY DEF BrowserInv, Types, ThreadTypes, LocalTypes, OutcomeTypes
<1>4. PageInv'
  <2>1. \A t \in users : t \in Tabs /\ place'[t] = place[t]
    BY DEF BrowserInv, Types, PageTypes
  <2>2. \A t \in users' : place'[t] # "closed"
    BY <2>1 DEF BrowserInv, PageInv, OwnPages
  <2>3. ASSUME mode' = "embedded" PROVE OpenTabs' = {1}
    <3>1. OpenTabs = {1} /\ \A t \in Tabs : t # 1 => place'[t] = place[t]
      BY <2>3 DEF BrowserInv, PageInv, OwnPages
    <3>2. place'[1] = place[1] \/ place'[1] \in Places
      BY BrowserAssumption
    <3> QED BY <3>1, <3>2, PlacesAre DEF OpenTabs
  <2>4. \A d \in BrowserChats : Sound(binding[d])' /\ Sound(mine[d])'
    BY DEF BrowserInv, PageInv, BoundOf, Sound
  <2>5. \A d \in BrowserChats : at'[d] \notin Working
    BY <1>1, <1>2
  <2> QED BY <2>2, <2>3, <2>4, <2>5 DEF BrowserInv, PageInv, OwnPages, BoundOf
<1>5. LockInv' /\ JobInv'
  BY <1>1, <1>2 DEF BrowserInv, LockInv, JobInv
<1>6. WorkInv'
  BY <1>1, <1>2 DEF WorkInv, TabOf, ComposerOf, SeenOf, WaitOf, OwnTabOf
<1>7. SentInv' /\ FreshInv' /\ AnswerInv' /\ ShakenInv'
  BY DEF BrowserInv, SentInv, Sent, FreshInv, FreshLast, Unshown, Taken,
      AnswerInv, ShakenInv
<1>8. FileInv'
  BY <1>1, <1>2, PlacesAre DEF BrowserInv, Types, PageTypes, FileInv, FileOf, Shares, OpenTabs, Delivering
<1>9. SentWithItsFiles'
  BY DEF BrowserInv, SentWithItsFiles
<1>10. TextInv'
  BY TextStays DEF Sent, Begun
<1> QED BY <1>3, <1>4, <1>5, <1>6, <1>7, <1>8, <1>9, <1>10 DEF BrowserInv

\* One chat at a time has the browser.
LEMMA HolderIs ==
  ASSUME BrowserInv, NEW c \in BrowserChats, at[c] \in Holding
  PROVE  owner = c /\ \A d \in BrowserChats \ {c} : at[d] \notin Holding
  BY BrowserAssumption DEF BrowserInv, LockInv

\* A prompt in a conversation is one.
LEMMA LastIs ==
  ASSUME Types, NEW k \in Conversations
  PROVE  /\ thread[k] \in Seq(Prompts)
         /\ thread[k] # <<>> =>
              /\ Last(thread[k]) \in Prompts /\ Last(thread[k]) \in Range(thread[k])
              /\ Len(thread[k]) \in DOMAIN thread[k] /\ Last(thread[k]) = thread[k][Len(thread[k])]
<1>1. thread[k] \in Seq(Prompts)
  BY DEF Types, ThreadTypes
<1>2. thread[k] # <<>> => Len(thread[k]) \in DOMAIN thread[k]
  BY <1>1
<1> QED BY <1>1, <1>2 DEF Last, Range

\* An answer that was fresh is, when nobody takes one.
LEMMA FreshStays ==
  ASSUME answer' = answer, shaken \subseteq shaken', \A q \in Prompts : Taken(q)' => Taken(q),
         NEW q \in Prompts, Unshown(q)
  PROVE  Unshown(q)'
  BY DEF Unshown

\* A step that sends nothing and takes no answer.
LEMMA SteadyIs ==
  ASSUME Types, thread' = thread, answer' = answer, shaken \subseteq shaken',
         \A q \in Prompts : Taken(q)' => Taken(q)
  PROVE  Sent' = Sent /\ \A k \in Conversations : FreshLast(k) => FreshLast(k)'
<1>1. ASSUME NEW k \in Conversations, FreshLast(k) PROVE FreshLast(k)'
  <2>1. thread[k] # <<>> /\ Unshown(Last(thread[k]))
    BY <1>1 DEF FreshLast
  <2>2. Last(thread[k]) \in Prompts
    BY <2>1, LastIs
  <2>3. ASSUME NEW q \in Prompts, q = Last(thread[k]) PROVE Unshown(q)'
    BY <2>1, <2>3, FreshStays
  <2>4. Last(thread'[k]) = Last(thread[k])
    OBVIOUS
  <2> QED BY <2>1, <2>2, <2>3, <2>4 DEF FreshLast
<1> QED BY <1>1 DEF Sent

\* A poll reads a number and whether an answer grows.
LEMMA AnswersIs ==
  ASSUME Types, NEW u \in Places
  PROVE  Answers(u) \in Nat \X {"grows", "still"}
  BY LastIs DEF Answers

\* A chat at work has a prompt, and from its second step on a tab.
LEMMA WorkIs ==
  ASSUME BrowserInv, NEW c \in BrowserChats, at[c] # "idle"
  PROVE  /\ job[c] \in Prompts /\ ChatOf[job[c]] = c /\ ended[job[c]] = "no"
         /\ at[c] \in Working => tab[c] \in Tabs /\ (job[c] \notin shaken => tab[c] \notin users)
         /\ mine[c] \in Bindings /\ Sound(mine[c])
  BY BoundIs DEF BrowserInv, Types, LocalTypes, JobInv, PageInv, BoundOf

\* CFR works in a tab of its own, or leaves the marks.
LEMMA PagesStay ==
  ASSUME BrowserInv, NEW t \in Tabs, t \in users => marked' = marked, mode = "embedded" => t = 1,
         NEW u \in Places, Show(t, u), marked' \subseteq marked \cup {t},
         UNCHANGED fixed, astray' = astray
  PROVE  PageTypes' /\ OwnPages'
<1>1. place' = [place EXCEPT ![t] = u] /\ PageTypes'
  BY ShowIs DEF BrowserInv, Types, PageTypes, fixed
<1>2. \A v \in Tabs : place'[v] = IF v = t THEN u ELSE place[v]
  BY <1>1 DEF BrowserInv, Types, PageTypes
<1>3. \A v \in users : v \in Tabs /\ place'[v] # "closed"
  BY <1>2, PlacesAre DEF BrowserInv, Types, PageTypes, PageInv, OwnPages
<1>4. mode = "embedded" => OpenTabs' = {1}
  BY <1>2, PlacesAre DEF BrowserInv, PageInv, OwnPages, OpenTabs
<1> QED BY <1>1, <1>3, <1>4 DEF BrowserInv, PageInv, OwnPages, fixed

\* Who does not hold the browser relies on nothing.
LEMMA WorkKept ==
  ASSUME NEW c \in BrowserChats, \A d \in BrowserChats \ {c} : at'[d] \notin Holding,
         TabOf(c)', ComposerOf(c)', SeenOf(c)', WaitOf(c)', OwnTabOf(c)'
  PROVE  WorkInv'
<1>1. ASSUME NEW d \in BrowserChats \ {c}
      PROVE  TabOf(d)' /\ ComposerOf(d)' /\ SeenOf(d)' /\ WaitOf(d)' /\ OwnTabOf(d)'
  BY DEF TabOf, ComposerOf, SeenOf, WaitOf, OwnTabOf, Working, Composing, Holding
<1> QED BY <1>1 DEF WorkInv

-----------------------------------------------------------------------------
(* Inside the transaction                                                  *)

\* A step before the prompt is sent takes no answer.
LEMMA InsideIsSteady ==
  ASSUME BrowserInv, NEW c \in BrowserChats, at[c] \in Holding, NEW s \in Holding, To(c, s),
         Inside, UNCHANGED chatgpt
  PROVE  Sent' = Sent /\ \A k \in Conversations : FreshLast(k) => FreshLast(k)'
<1>1. thread' = thread /\ answer' = answer /\ shaken \subseteq shaken'
  BY DEF Inside, outcome, chatgpt
<1>2. \A q \in Prompts : Taken(q)' => Taken(q)
  BY DEF BrowserInv, Types, LocalTypes, Taken, To, Inside, outcome, Holding, Delivering
<1> QED BY <1>1, <1>2, SteadyIs DEF BrowserInv

\* What is typed is of no prompt that is about to be.
LEMMA InsideTyped ==
  ASSUME BrowserInv, NEW c \in BrowserChats, at[c] \in Holding \ {"wait", "send"}, NEW s \in Holding,
         To(c, s), Inside, UNCHANGED chatgpt
  PROVE  /\ Sent' = Sent /\ job[c] \in Prompts \ Sent
         /\ \A p \in Prompts : Typed(p) => p # job[c] /\ Typed(p)'
<1>1. Sent' = Sent /\ ended' = ended /\ job' = job /\ shaken' = shaken
  BY DEF Sent, Inside, outcome, chatgpt
<1>2. at[c] # "idle" /\ at[c] \notin Delivering \cup {"wait", "send", "identity"}
  BY DEF Holding, Delivering
<1>3. job[c] \in Prompts /\ ChatOf[job[c]] = c /\ ended[job[c]] = "no"
  BY <1>2, WorkIs
<1>4. job[c] \notin Sent
  BY <1>2, <1>3 DEF BrowserInv, SentInv
<1>5. \A d \in BrowserChats \ {c} : at'[d] = at[d]
  BY DEF BrowserInv, Types, LocalTypes, To
<1>6. ASSUME NEW p \in Prompts, Typed(p) PROVE p # job[c] /\ Typed(p)'
  <2>1. p # job[c]
    BY <1>2, <1>3, <1>6 DEF Typed, Begun
  <2>2. Begun(p) => Begun(p)'
    BY <1>1, <1>2, <1>5, <2>1, BrowserAssumption DEF Begun
  <2> QED BY <1>1, <1>6, <2>1, <2>2 DEF Typed
<1> QED BY <1>1, <1>3, <1>4, <1>6

\* A step that types nothing.
LEMMA InsideText ==
  ASSUME BrowserInv, NEW c \in BrowserChats, at[c] \in Holding \ {"wait", "send"}, NEW s \in Holding,
         To(c, s), Inside, UNCHANGED chatgpt, \A t \in Tabs : text'[t] \in {text[t], NoPrompt}
  PROVE  TextInv'
<1>1. \A t \in Tabs : text'[t] \in Prompts => text'[t] = text[t]
  BY BrowserAssumption
<1> QED BY <1>1, InsideTyped DEF BrowserInv, TextInv

\* What such a step has to show for the rest of the invariant.
LEMMA InsideKeeps ==
  ASSUME BrowserInv, NEW c \in BrowserChats, at[c] \in Holding \ {"wait"}, NEW s \in Holding,
         To(c, s), Inside, UNCHANGED chatgpt,
         PageTypes', OwnPages', tab' \in [BrowserChats -> Tabs \cup {0}],
         seen' \in [BrowserChats -> Nat \X {"grows", "still"}],
         \A d \in BrowserChats \ {c} : tab'[d] = tab[d],
         tab'[c] \in Tabs, job[c] \notin shaken => tab'[c] \notin users,
         mode = "embedded" => tab'[c] = 1, TextInv',
         TabOf(c)', ComposerOf(c)', SeenOf(c)', WaitOf(c)', OwnTabOf(c)',
         mode = "dedicated" /\ job[c] \notin shaken =>
           /\ \A t \in OpenTabs :
                place'[t] = place[t] \/ (place'[t] # "closed" /\ binding[c].tab = t)
           /\ at[c] \in Working => tab'[c] = tab[c]
           /\ at[c] = "page" /\ binding[c].tab \in OpenTabs => tab'[c] = binding[c].tab
  PROVE  BrowserInv'
<1>1. owner = c /\ \A d \in BrowserChats \ {c} : at[d] \notin Holding
  BY HolderIs
<1>2. /\ at' \in [BrowserChats -> PromptSteps] /\ at'[c] = s
      /\ \A d \in BrowserChats \ {c} : at'[d] = at[d]
  BY DEF BrowserInv, Types, LocalTypes, To, Holding, PromptSteps
<1>3. Types'
  BY <1>2
  DEF BrowserInv, Types, ThreadTypes, HoldTypes, LocalTypes, OutcomeTypes, Inside, fixed, outcome,
      chatgpt
<1>4. Sent' = Sent /\ \A k \in Conversations : FreshLast(k) => FreshLast(k)'
  BY InsideIsSteady
<1>5. PageInv'
  BY <1>2 DEF BrowserInv, PageInv, BoundOf, Sound, Inside, fixed, outcome
<1>6. LockInv' /\ JobInv'
  <2>1. s \notin {"idle", "lock"} /\ at[c] \notin {"idle", "lock"} /\ s \in Holding
    BY DEF Holding
  <2>2. ended' = ended /\ job' = job /\ mine' = mine /\ binding' = binding /\ owner' = owner
        /\ outer' = outer
    BY DEF Inside, outcome
  <2> QED BY <1>1, <1>2, <2>1, <2>2 DEF BrowserInv, LockInv, JobInv
<1>7. WorkInv'
  BY <1>1, <1>2, WorkKept
<1>8. SentInv'
  <2>1. /\ \A k, l \in Conversations : \A i \in DOMAIN thread[k], j \in DOMAIN thread[l] :
              thread[k][i] = thread[l][j] => k = l /\ i = j
        /\ \A p \in Prompts : answer[p] # NoPrompt => answer[p] \in Sent
    BY DEF BrowserInv, SentInv
  <2>2. ASSUME NEW p \in Sent, ended[p] = "no"
        PROVE  job[ChatOf[p]] = p /\ at'[ChatOf[p]] \in Delivering \cup {"wait", "identity"}
    <3>1. job[ChatOf[p]] = p /\ at[ChatOf[p]] \in Delivering \cup {"wait", "identity"}
      BY <2>2 DEF BrowserInv, SentInv
    <3>2. p \in Prompts /\ ChatOf[p] \in BrowserChats
      BY BrowserAssumption DEF Sent
    <3>3. ChatOf[p] # c
      BY <3>1 DEF Holding, Delivering
    <3> QED BY <1>2, <3>1, <3>2, <3>3
  <2>3. thread' = thread /\ answer' = answer /\ ended' = ended /\ job' = job
    BY DEF Inside, outcome, chatgpt
  <2> QED BY <1>4, <2>1, <2>2, <2>3 DEF SentInv
<1>9. FreshInv'
  BY <1>4 DEF BrowserInv, FreshInv, Types, ThreadTypes, chatgpt
<1>10. AnswerInv'
  <2>1. \A q \in Prompts : job[ChatOf[q]] = q /\ at[ChatOf[q]] = "identity" =>
          job'[ChatOf[q]] = q /\ at'[ChatOf[q]] = "identity"
    BY <1>2, BrowserAssumption DEF Inside, Holding
  <2> QED
    BY <2>1 DEF BrowserInv, Types, OutcomeTypes, AnswerInv, Inside, outcome
<1>11. ShakenInv'
  <2>1. at'[c] \notin Delivering /\ at'[c] # "lock"
    BY <1>2 DEF Holding, Delivering
  <2> QED BY <1>2, <2>1 DEF BrowserInv, ShakenInv, Inside, fixed, outcome
<1>12. FileInv'
  <2>1. ASSUME NEW e \in BrowserChats, mode' = "dedicated", at'[e] \in Delivering,
              job'[e] \notin shaken'
        PROVE  FileOf(e)'
    <3>1. e # c /\ at'[e] = at[e] /\ at[c] \notin Delivering
      BY <1>2, <2>1 DEF Holding, Delivering
    <3>2. FileOf(e) /\ at[e] \in Delivering /\ job[e] \notin shaken /\ mode = "dedicated"
      BY <2>1, <3>1 DEF BrowserInv, FileInv, Inside, fixed, outcome
    <3>3. mine[e].tab \in OpenTabs /\ mine'[e] = mine[e] /\ job[c] \notin shaken
      BY <3>1, <3>2 DEF FileOf, Inside, BrowserInv, ShakenInv
    <3>4. mine[e].tab \in OpenTabs' /\ mine[e].tab \in Tabs
      BY <3>2, <3>3 DEF OpenTabs
    <3>5. \A d \in BrowserChats \ {c} : Shares(d, mine[e].tab) => Shares(d, mine[e].tab)'
      BY <1>2, <3>3 DEF Shares, Inside
    <3>6. binding[c].tab = mine[e].tab => Shares(c, mine[e].tab)'
      BY <1>2, <3>3 DEF Shares, Inside, Holding
    <3>7. Shares(c, mine[e].tab) => binding[c].tab = mine[e].tab
      BY DEF Shares
    <3>8. \/ place'[mine[e].tab] \in {mine[e].url, "aside"}
          \/ mine[e].tab \in astray'
          \/ \E d \in BrowserChats \ {e} : Shares(d, mine[e].tab)'
      BY <3>1, <3>2, <3>3, <3>5, <3>6, <3>7 DEF FileOf, Inside, outcome
    <3>9. at[c] \in Working \/ at[c] = "page"
      BY DEF Holding, Working, Composing
    <3>10. binding[c].tab = mine[e].tab => tab'[c] = mine[e].tab
      BY <3>2, <3>3, <3>9 DEF FileOf
    <3>11. \A d \in BrowserChats : at'[d] \in Working /\ binding[d].tab = mine[e].tab =>
             tab'[d] = mine[e].tab
      BY <1>2, <3>2, <3>10 DEF FileOf
    <3> QED
      BY <3>1, <3>2, <3>3, <3>4, <3>8, <3>11 DEF FileOf, Inside, outcome, chatgpt
  <2> QED BY <2>1 DEF FileInv, FileOf
<1>13. SentWithItsFiles'
  BY DEF BrowserInv, SentWithItsFiles, Inside, outcome, chatgpt
<1> QED
  BY <1>3, <1>5, <1>6, <1>7, <1>8, <1>9, <1>10, <1>11, <1>12, <1>13 DEF BrowserInv

\* What a chat that holds the browser has read.
LEMMA HeldIs ==
  ASSUME BrowserInv, NEW c \in BrowserChats, at[c] \in Holding
  PROVE  /\ job[c] \in Prompts /\ ChatOf[job[c]] = c /\ ended[job[c]] = "no"
         /\ mine[c] = binding[c] /\ mine[c] \in Bindings /\ Sound(mine[c])
         /\ TabOf(c) /\ ComposerOf(c) /\ SeenOf(c) /\ WaitOf(c) /\ OwnTabOf(c)
         /\ at[c] # "page" =>
              /\ tab[c] \in Tabs /\ (job[c] \notin shaken => tab[c] \notin users)
              /\ mode = "embedded" => tab[c] = 1
<1>1. at[c] # "idle" /\ (at[c] # "page" => at[c] \in Working)
  BY DEF Holding, Working, Composing
<1> QED BY <1>1, WorkIs DEF BrowserInv, JobInv, WorkInv, PageInv, BoundOf

\* A tab is found or made for the binding.
LEMMA ResolveKeeps ==
  ASSUME BrowserInv, NEW c \in BrowserChats, Resolve(c)
  PROVE  BrowserInv'
<1>1. PICK t \in PageFor(mine[c]) :
        tab' = [tab EXCEPT ![c] = t] /\ Show(t, Opened(mine[c], t)) /\ Mark(t)
  BY DEF Resolve
<1> DEFINE u == Opened(mine[c], t)
<1>2. /\ at[c] = "page" /\ To(c, "restore") /\ Inside /\ UNCHANGED chatgpt /\ seen' = seen
      /\ Show(t, u) /\ marked' \subseteq marked \cup {t}
  BY <1>1 DEF Resolve, Mark
<1>3. at[c] \in Holding /\ "restore" \in Holding
  BY <1>2 DEF Holding
<1>4. mine[c] \in Bindings /\ Sound(mine[c]) /\ mine[c] = binding[c] /\ mine'[c] = mine[c]
  BY <1>2, <1>3, HeldIs DEF Inside
<1>5. /\ t \in Tabs \ users /\ (mode = "embedded" => t = 1) /\ u \in Places
      /\ mode = "dedicated" /\ t \in OpenTabs =>
           (mine[c].tab = t \/ place[t] = mine[c].url) /\ u = place[t]
      /\ mode = "dedicated" /\ mine[c].tab \in OpenTabs => t = mine[c].tab
  BY <1>4, PageForIs DEF BrowserInv
<1>6. u \in {place[t], Wanted(mine[c])}
  BY DEF Opened
<1> HIDE DEF u
<1>7. /\ at'[c] = "restore" /\ tab'[c] = t /\ tab' \in [BrowserChats -> Tabs \cup {0}]
      /\ \A d \in BrowserChats \ {c} : tab'[d] = tab[d]
  BY <1>1, <1>2, <1>5 DEF BrowserInv, Types, LocalTypes, To
<1>8. \A v \in Tabs : place'[v] = IF v = t THEN u ELSE place[v]
  BY <1>2, <1>5, ShowIs DEF BrowserInv, Types, PageTypes
<1>9. PageTypes' /\ OwnPages'
  BY <1>2, <1>5, PagesStay DEF Inside, outcome
<1>10. TabOf(c)' /\ SeenOf(c)' /\ WaitOf(c)'
  BY <1>5, <1>7, <1>8, PlacesAre
  DEF TabOf, SeenOf, WaitOf, Composing, OpenTabs
<1>14. \A v \in Tabs : text'[v] \in {text[v], NoPrompt}
  BY <1>2, <1>5, ShowIs DEF BrowserInv
<1>15. ComposerOf(c)'
  BY <1>3, <1>2, <1>7, <1>14, HeldIs DEF ComposerOf, Inside, outcome
<1>16. TextInv'
  BY <1>2, <1>3, <1>14, InsideText
<1>11. OwnTabOf(c)'
  <2>1. ASSUME mode = "dedicated" PROVE t = mine[c].tab \/ u = Wanted(mine[c])
    <3>1. place[t] = mine[c].url /\ u = place[t] => Wanted(mine[c]) = u
      BY <1>5, PlacesAre DEF Wanted
    <3>2. t \notin OpenTabs => u = Wanted(mine[c])
      BY <1>5, <1>6, PlacesAre DEF OpenTabs
    <3> QED BY <1>5, <2>1, <3>1, <3>2
  <2> QED
    BY <1>2, <1>4, <1>5, <1>7, <1>8, <2>1 DEF OwnTabOf, Composing, Wanted, Inside, fixed
<1>12. mode = "dedicated" /\ job[c] \notin shaken =>
         /\ \A v \in OpenTabs :
              place'[v] = place[v] \/ (place'[v] # "closed" /\ binding[c].tab = v)
         /\ at[c] \in Working => tab'[c] = tab[c]
         /\ at[c] = "page" /\ binding[c].tab \in OpenTabs => tab'[c] = binding[c].tab
  BY <1>2, <1>4, <1>5, <1>7, <1>8 DEF OpenTabs, Working, Composing
<1>13. seen' \in [BrowserChats -> Nat \X {"grows", "still"}] /\ at[c] \in Holding \ {"wait"}
  BY <1>2, <1>3 DEF BrowserInv, Types, LocalTypes
<1> QED
  BY <1>2, <1>3, <1>5, <1>7, <1>9, <1>10, <1>11, <1>12, <1>13, <1>15, <1>16, InsideKeeps

\* It is brought to the conversation of the binding.
LEMMA RestoreKeeps ==
  ASSUME BrowserInv, NEW c \in BrowserChats, Restore(c)
  PROVE  BrowserInv'
<1> DEFINE t == tab[c]
           u == RestoredTo(mine[c], place[t])
<1>1. /\ at[c] = "restore" /\ To(c, "ready") /\ Inside /\ UNCHANGED chatgpt
      /\ seen' = seen /\ tab' = tab /\ t \in OpenTabs /\ Show(t, u) /\ marked' = marked
  BY DEF Restore, Shown
<1>2. at[c] \in Holding /\ "ready" \in Holding
  BY <1>1 DEF Holding
<1>3. /\ mine[c] \in Bindings /\ mine[c] = binding[c] /\ mine'[c] = mine[c] /\ OwnTabOf(c)
      /\ t \in Tabs /\ (job[c] \notin shaken => t \notin users) /\ (mode = "embedded" => t = 1)
      /\ job' = job /\ shaken' = shaken /\ mode' = mode
  BY <1>1, <1>2, HeldIs DEF Inside, outcome, fixed
<1>4. place[t] \in Places
  BY <1>1, BoundIs DEF BrowserInv
<1>5. /\ u \in Places /\ (mine[c].url \in Conversations => u = mine[c].url)
      /\ place[t] = Wanted(mine[c]) => u = place[t]
  BY <1>3, <1>4, RestoredToIs
<1> HIDE DEF u
<1>6. /\ at'[c] = "ready" /\ tab' \in [BrowserChats -> Tabs \cup {0}]
      /\ seen' \in [BrowserChats -> Nat \X {"grows", "still"}]
  BY <1>1 DEF BrowserInv, Types, LocalTypes, To
<1>7. \A v \in Tabs : place'[v] = IF v = t THEN u ELSE place[v]
  BY <1>1, <1>3, <1>5, ShowIs DEF BrowserInv, Types, PageTypes
<1>8. PageTypes' /\ OwnPages'
  BY <1>1, <1>3, <1>5, PagesStay DEF Inside, outcome
<1>9. TabOf(c)' /\ SeenOf(c)' /\ WaitOf(c)'
  BY <1>1, <1>3, <1>5, <1>6, <1>7, PlacesAre
  DEF TabOf, SeenOf, WaitOf, Composing, OpenTabs
<1>15. \A v \in Tabs : text'[v] \in {text[v], NoPrompt}
  BY <1>1, <1>3, <1>5, ShowIs DEF BrowserInv
<1>16. ComposerOf(c)'
  BY <1>2, <1>3, <1>6, <1>15, HeldIs DEF ComposerOf
<1>17. TextInv'
  BY <1>1, <1>2, <1>15, InsideText
<1>10. mode = "dedicated" /\ job[c] \notin shaken => t = mine[c].tab \/ place[t] = Wanted(mine[c])
  BY <1>1, <1>3 DEF OwnTabOf
<1>11. OwnTabOf(c)'
  BY <1>1, <1>3, <1>5, <1>6, <1>7, <1>10 DEF OwnTabOf, Composing, Wanted
<1>12. mode = "dedicated" /\ job[c] \notin shaken =>
         /\ \A v \in OpenTabs :
              place'[v] = place[v] \/ (place'[v] # "closed" /\ binding[c].tab = v)
         /\ at[c] \in Working => tab'[c] = tab[c]
         /\ at[c] = "page" /\ binding[c].tab \in OpenTabs => tab'[c] = binding[c].tab
  BY <1>1, <1>3, <1>5, <1>7, <1>10, PlacesAre DEF OpenTabs
<1>13. \A d \in BrowserChats \ {c} : tab'[d] = tab[d]
  BY <1>1
<1>14. at[c] \in Holding \ {"wait"}
  BY <1>1, <1>2
<1> QED
  BY <1>1, <1>2, <1>3, <1>6, <1>8, <1>9, <1>11, <1>12, <1>13, <1>14, <1>16, <1>17, InsideKeeps

\* A step in the composer or that only reads navigates nothing.
LEMMA StillKeeps ==
  ASSUME BrowserInv, NEW c \in BrowserChats, at[c] \in Holding \ {"wait", "page"},
         NEW s \in Composing, To(c, s), Inside, UNCHANGED <<chatgpt, place, tab, marked>>,
         at[c] \in Composing \/ (seen'[c] = Answers(place[tab[c]]) /\ place[tab[c]] # "aside"),
         at[c] \in Composing => seen'[c] = seen[c],
         seen' \in [BrowserChats -> Nat \X {"grows", "still"}],
         at[c] \in Composing \cup {"ready"},
         text' \in [Tabs -> Prompts \cup {NoPrompt, Task}],
         chips' \in [Tabs -> SUBSET (Prompts \cup {Upload})],
         ComposerOf(c)', TextInv'
  PROVE  BrowserInv'
<1>1. at[c] \in Holding /\ s \in Holding
  BY DEF Composing, Holding
<1>2. /\ TabOf(c) /\ SeenOf(c) /\ OwnTabOf(c)
      /\ tab[c] \in Tabs /\ (job[c] \notin shaken => tab[c] \notin users)
      /\ mode = "embedded" => tab[c] = 1
      /\ job' = job /\ shaken' = shaken /\ mode' = mode /\ thread' = thread /\ mine' = mine
      /\ astray' = astray /\ users' = users /\ marked' = marked /\ place' = place /\ tab' = tab
  BY <1>1, HeldIs DEF Inside, outcome, fixed, chatgpt
<1>3. at'[c] = s /\ tab' \in [BrowserChats -> Tabs \cup {0}]
  BY <1>2 DEF BrowserInv, Types, LocalTypes, To
<1>4. PageTypes' /\ OwnPages'
  BY <1>2 DEF BrowserInv, Types, PageTypes, PageInv, OwnPages, OpenTabs
<1>5. TabOf(c)'
  BY <1>2, <1>3 DEF TabOf, Working, Composing, OpenTabs
<1>6. \A k \in Conversations : FreshLast(k) => FreshLast(k)'
  BY <1>1, InsideIsSteady
<1>7. SeenOf(c)'
  <2>1. ASSUME job[c] \notin shaken, place[tab[c]] \in Conversations
        PROVE  /\ seen'[c][1] = Len(thread[place[tab[c]]])
               /\ seen'[c][2] = "grows" => FreshLast(place[tab[c]])
    <3>1. CASE at[c] \in Composing
      BY <1>2, <2>1, <3>1 DEF SeenOf
    <3>2. CASE seen'[c] = Answers(place[tab[c]])
      <4>1. seen'[c][1] = Len(thread[place[tab[c]]])
        BY <2>1, <3>2 DEF Answers
      <4>2. seen'[c][2] = "grows" => place[tab[c]] \in busy
        BY <2>1, <3>2 DEF Answers
      <4> QED BY <4>1, <4>2 DEF BrowserInv, FreshInv
    <3> QED BY <3>1, <3>2
  <2>2. place[tab[c]] \in Conversations => (FreshLast(place[tab[c]]) => FreshLast(place[tab[c]])')
    <3>1. ASSUME NEW k \in Conversations, k = place[tab[c]] PROVE FreshLast(k) => FreshLast(k)'
      BY <1>6
    <3>2. place'[tab'[c]] = place[tab[c]]
      BY <1>2
    <3> QED BY <1>6, <3>2 DEF FreshLast
  <2> QED BY <1>2, <2>1, <2>2 DEF SeenOf
<1>8. WaitOf(c)'
  BY <1>3 DEF WaitOf, Composing
<1>9. OwnTabOf(c)'
  BY <1>2, <1>3 DEF OwnTabOf, Composing, Wanted
<1>10. mode = "dedicated" /\ job[c] \notin shaken =>
         /\ \A v \in OpenTabs :
              place'[v] = place[v] \/ (place'[v] # "closed" /\ binding[c].tab = v)
         /\ at[c] \in Working => tab'[c] = tab[c]
         /\ at[c] = "page" /\ binding[c].tab \in OpenTabs => tab'[c] = binding[c].tab
  BY <1>2
<1>11. (\A d \in BrowserChats \ {c} : tab'[d] = tab[d]) /\ at[c] \in Holding \ {"wait"}
  BY <1>2
<1> QED
  BY <1>1, <1>2, <1>3, <1>4, <1>5, <1>7, <1>8, <1>9, <1>10, <1>11, InsideKeeps

\* The page is read before sending.
LEMMA SnapshotKeeps ==
  ASSUME BrowserInv, NEW c \in BrowserChats, Snapshot(c)
  PROVE  BrowserInv'
<1>1. /\ at[c] = "ready" /\ tab[c] \in OpenTabs /\ place[tab[c]] # "aside" /\ Inside
      /\ seen' = [seen EXCEPT ![c] = Answers(place[tab[c]])]
      /\ UNCHANGED <<chatgpt, place, text, chips, marked, tab>>
  BY PlacesAre DEF Snapshot, Shown, browser
<1>2. PICK s \in {"files", "fill"} : To(c, s) /\ (s = "fill" => job[c] \notin WithFiles)
  BY DEF Snapshot
<1>3. at[c] \in Holding \ {"wait", "page"} /\ s \in Composing
  BY <1>1 DEF Holding, Composing
<1>4. place[tab[c]] \in Places
  BY <1>1, BoundIs DEF BrowserInv
<1>5. seen' \in [BrowserChats -> Nat \X {"grows", "still"}] /\ seen'[c] = Answers(place[tab[c]])
  BY <1>1, <1>4, AnswersIs DEF BrowserInv, Types, LocalTypes
<1>6. ComposerOf(c)'
  <2>1. at'[c] = s /\ job' = job /\ shaken' = shaken /\ text' = text
    BY <1>1, <1>2 DEF BrowserInv, Types, LocalTypes, To, Inside, outcome
  <2> QED BY <1>2, <1>3, <2>1, HeldIs DEF ComposerOf
<1>8. TextInv'
  BY <1>1, <1>2, <1>3, InsideText DEF Composing, Holding
<1>7. /\ text' \in [Tabs -> Prompts \cup {NoPrompt, Task}]
      /\ chips' \in [Tabs -> SUBSET (Prompts \cup {Upload})]
  BY <1>1 DEF BrowserInv, Types, PageTypes
<1> QED BY <1>1, <1>2, <1>3, <1>5, <1>6, <1>7, <1>8, StillKeeps DEF Composing

\* The files of the prompt replace what is attached.
LEMMA AttachKeeps ==
  ASSUME BrowserInv, NEW c \in BrowserChats, Attach(c)
  PROVE  BrowserInv'
<1>1. /\ at[c] = "files" /\ Inside /\ To(c, "fill")
      /\ chips' = [chips EXCEPT ![tab[c]] = {job[c]}]
      /\ UNCHANGED <<chatgpt, place, text, marked, tab, seen>>
  BY DEF Attach, Attached
<1>2. at[c] \in Holding /\ at[c] \in Holding \ {"wait", "page"} /\ {"files", "fill"} \subseteq Composing
  BY <1>1 DEF Holding, Composing
<1>3. job[c] \in Prompts /\ tab[c] \in Tabs
  BY <1>1, <1>2, HeldIs
<1>4. {job[c]} \in SUBSET (Prompts \cup {Upload})
  BY <1>3
<1>5. /\ seen' \in [BrowserChats -> Nat \X {"grows", "still"}]
      /\ text' \in [Tabs -> Prompts \cup {NoPrompt, Task}]
      /\ chips' \in [Tabs -> SUBSET (Prompts \cup {Upload})]
  BY <1>1, <1>4 DEF BrowserInv, Types, PageTypes, LocalTypes
<1>6. ComposerOf(c)'
  <2>1. /\ at'[c] = "fill" /\ job' = job /\ tab' = tab /\ chips'[tab[c]] = {job[c]}
        /\ shaken' = shaken /\ text' = text
    BY <1>1, <1>3 DEF BrowserInv, Types, PageTypes, LocalTypes, To, Inside, outcome
  <2> QED BY <1>2, <2>1, HeldIs DEF ComposerOf
<1>7. TextInv'
  BY <1>1, <1>2, InsideText DEF Holding
<1> QED BY <1>1, <1>2, <1>5, <1>6, <1>7, StillKeeps

\* The prompt is typed.
LEMMA FillKeeps ==
  ASSUME BrowserInv, NEW c \in BrowserChats, Fill(c)
  PROVE  BrowserInv'
<1>1. /\ at[c] = "fill" /\ Inside /\ To(c, "send")
      /\ text' = [text EXCEPT ![tab[c]] = job[c]]
      /\ UNCHANGED <<chatgpt, place, chips, marked, tab, seen>>
  BY DEF Fill
<1>2. at[c] \in Holding /\ at[c] \in Holding \ {"wait", "page"} /\ {"fill", "send"} \subseteq Composing
  BY <1>1 DEF Holding, Composing
<1>3. job[c] \in Prompts /\ tab[c] \in Tabs /\ ComposerOf(c)
  BY <1>1, <1>2, HeldIs
<1>4. /\ seen' \in [BrowserChats -> Nat \X {"grows", "still"}]
      /\ text' \in [Tabs -> Prompts \cup {NoPrompt, Task}]
      /\ chips' \in [Tabs -> SUBSET (Prompts \cup {Upload})]
  BY <1>1, <1>3 DEF BrowserInv, Types, PageTypes, LocalTypes
<1>5. ComposerOf(c)'
  <2>1. /\ at'[c] = "send" /\ job' = job /\ tab' = tab /\ text'[tab[c]] = job[c] /\ chips' = chips
        /\ shaken' = shaken /\ \A t \in Tabs : text'[t] \in {text[t], job[c]}
    BY <1>1, <1>3 DEF BrowserInv, Types, PageTypes, LocalTypes, To, Inside, outcome
  <2> QED BY <1>1, <1>2, <1>3, <2>1 DEF ComposerOf
<1>6. TextInv'
  <2>1. Sent' = Sent /\ job[c] \notin Sent /\ \A p \in Prompts : Typed(p) => p # job[c] /\ Typed(p)'
    BY <1>1, <1>2, InsideTyped DEF Holding
  <2>2. \A t \in Tabs : text'[t] = IF t = tab[c] THEN job[c] ELSE text[t]
    BY <1>1, <1>3 DEF BrowserInv, Types, PageTypes
  <2>3. ASSUME NEW p \in Prompts, p = job[c] PROVE Typed(p)'
    <3>1. ended[job[c]] = "no" /\ ChatOf[job[c]] = c
      BY <1>2, HeldIs
    <3>2. at'[c] = "send" /\ job' = job /\ ended' = ended
      BY <1>1 DEF BrowserInv, Types, LocalTypes, To, Inside, outcome
    <3> QED BY <2>1, <2>3, <3>1, <3>2 DEF Typed, Begun
  <2>5. ASSUME NEW t \in Tabs, text'[t] \in Prompts
        PROVE  Typed(text[t])' /\ \A u \in Tabs \ {t} : text'[u] # text'[t]
    <3>1. CASE t = tab[c]
      <4>1. text'[t] = job[c] /\ \A u \in Tabs \ {t} : text'[u] = text[u]
        BY <2>2, <3>1
      <4>2. \A u \in Tabs : text[u] \in Prompts => text[u] # job[c]
        BY <2>1 DEF BrowserInv, TextInv
      <4> QED BY <2>3, <2>5, <4>1, <4>2
    <3>2. CASE t # tab[c]
      BY <2>1, <2>2, <2>5, <3>2 DEF BrowserInv, TextInv
    <3> QED BY <3>1, <3>2
  <2> QED BY <2>5 DEF TextInv
<1> QED BY <1>1, <1>2, <1>4, <1>5, <1>6, StillKeeps

-----------------------------------------------------------------------------
(* Outside the transaction                                                 *)

\* Any step that sends nothing and takes no answer.
LEMMA QuietKeeps ==
  ASSUME BrowserInv, UNCHANGED <<thread, answer, files>>, busy' \subseteq busy,
         shaken \subseteq shaken',
         \A q \in Prompts : Taken(q)' => Taken(q),
         \A q \in Prompts : ended'[q] = "no" => ended[q] = "no",
         \A q \in Prompts :
           /\ ended'[q] = "no" /\ job[ChatOf[q]] = q
           /\ at[ChatOf[q]] \in Delivering \cup {"wait", "identity"}
           => job'[ChatOf[q]] = q /\ at'[ChatOf[q]] \in Delivering \cup {"wait", "identity"},
         \A q \in Prompts :
           \/ ended[q] \in {"failed", "started"}
           \/ job[ChatOf[q]] = q /\ at[ChatOf[q]] = "identity"
           => \/ ended'[q] \in {"failed", "started"}
              \/ job'[ChatOf[q]] = q /\ at'[ChatOf[q]] = "identity"
  PROVE  /\ SentInv' /\ FreshInv' /\ AnswerInv' /\ SentWithItsFiles'
         /\ Sent' = Sent /\ \A k \in Conversations : FreshLast(k) => FreshLast(k)'
<1>1. Sent' = Sent /\ \A k \in Conversations : FreshLast(k) => FreshLast(k)'
  BY SteadyIs DEF BrowserInv
<1>2. SentInv'
  <2>1. /\ \A k, l \in Conversations : \A i \in DOMAIN thread[k], j \in DOMAIN thread[l] :
              thread[k][i] = thread[l][j] => k = l /\ i = j
        /\ \A p \in Prompts : answer[p] # NoPrompt => answer[p] \in Sent
    BY DEF BrowserInv, SentInv
  <2>2. ASSUME NEW p \in Sent, ended'[p] = "no"
        PROVE  /\ job'[ChatOf[p]] = p
               /\ at'[ChatOf[p]] \in Delivering \cup {"wait", "identity"}
    <3>1. p \in Prompts
      BY DEF Sent
    <3>2. job[ChatOf[p]] = p /\ at[ChatOf[p]] \in Delivering \cup {"wait", "identity"}
      BY <2>2, <3>1 DEF BrowserInv, SentInv
    <3> QED BY <2>2, <3>1, <3>2
  <2> QED BY <1>1, <2>1, <2>2 DEF SentInv
<1>3. FreshInv'
  BY <1>1 DEF BrowserInv, FreshInv, Types, ThreadTypes
<1>4. AnswerInv'
  <2>1. ASSUME NEW p \in Prompts \ shaken', answer[p] \notin shaken' \cup {p, NoPrompt}
        PROVE  \/ ended'[answer[p]] \in {"failed", "started"}
               \/ /\ job'[ChatOf[answer[p]]] = answer[p]
                  /\ at'[ChatOf[answer[p]]] = "identity"
    <3>1. p \in Prompts \ shaken /\ answer[p] \notin shaken \cup {p, NoPrompt}
      BY <2>1
    <3>2. answer[p] \in Prompts
      BY <3>1 DEF BrowserInv, Types, OutcomeTypes
    <3>3. \/ ended[answer[p]] \in {"failed", "started"}
          \/ job[ChatOf[answer[p]]] = answer[p] /\ at[ChatOf[answer[p]]] = "identity"
      BY <3>1 DEF BrowserInv, AnswerInv
    <3> QED BY <3>2, <3>3
  <2>2. \A p, q \in Prompts \ shaken' : p # q /\ answer[p] # NoPrompt => answer[p] # answer[q]
    BY DEF BrowserInv, AnswerInv
  <2> QED BY <2>1, <2>2 DEF AnswerInv
<1>5. SentWithItsFiles'
  BY DEF BrowserInv, SentWithItsFiles
<1> QED BY <1>1, <1>2, <1>3, <1>4, <1>5

\* A chat that works on is not disturbed.
LEMMA WorkStays ==
  ASSUME BrowserInv, NEW d \in BrowserChats, mode' = mode, thread' = thread,
         at'[d] = at[d], job'[d] = job[d], mine'[d] = mine[d], tab'[d] = tab[d],
         seen'[d] = seen[d], shaken' = shaken, Sent' = Sent,
         \A k \in Conversations : FreshLast(k) => FreshLast(k)',
         at[d] \in Working /\ job[d] \notin shaken =>
           /\ place'[tab[d]] = place[tab[d]] /\ chips'[tab[d]] = chips[tab[d]]
           /\ text'[tab[d]] = text[tab[d]],
         at[d] \in Holding => \A t \in Tabs : text'[t] \in {text[t], NoPrompt, Task}
  PROVE  TabOf(d)' /\ ComposerOf(d)' /\ SeenOf(d)' /\ WaitOf(d)' /\ OwnTabOf(d)'
<1>1. TabOf(d) /\ ComposerOf(d) /\ SeenOf(d) /\ WaitOf(d) /\ OwnTabOf(d)
  BY DEF BrowserInv, WorkInv
<1>2. TabOf(d)'
  BY <1>1 DEF TabOf, OpenTabs
<1>3. ComposerOf(d)'
  BY <1>1 DEF ComposerOf, Working, Composing
<1>4. SeenOf(d)'
  <2>1. ASSUME NEW k \in Conversations, k = place'[tab[d]], job[d] \notin shaken',
               at[d] \in Composing \/ (at[d] = "wait" /\ job[d] \notin Sent)
        PROVE  seen[d][1] = Len(thread[k]) /\ (seen[d][2] = "grows" => FreshLast(k)')
    <3>1. place[tab[d]] = k
      BY <2>1 DEF Working
    <3>2. seen[d][1] = Len(thread[k]) /\ (seen[d][2] = "grows" => FreshLast(k))
      BY <1>1, <2>1, <3>1 DEF SeenOf
    <3> QED BY <2>1, <3>2
  <2>2. /\ at[d] \in Composing \/ (at[d] = "wait" /\ job[d] \notin Sent)
        /\ job[d] \notin shaken' /\ place'[tab[d]] \in Conversations
        => /\ seen[d][1] = Len(thread[place'[tab[d]]])
           /\ seen[d][2] = "grows" =>
                thread'[place'[tab[d]]] # <<>> /\ Unshown(Last(thread[place[tab[d]]]))'
    BY <2>1 DEF FreshLast
  <2> QED BY <2>2 DEF SeenOf, FreshLast
<1>5. WaitOf(d)'
  BY <1>1 DEF WaitOf, Working
<1>6. OwnTabOf(d)'
  BY <1>1 DEF OwnTabOf, Working, Wanted
<1> QED BY <1>2, <1>3, <1>4, <1>5, <1>6

\* What a step of c has to show for the answers of others.
LEMMA FilesStay ==
  ASSUME BrowserInv, NEW c \in BrowserChats, mode' = mode,
         shaken \subseteq shaken', astray \subseteq astray',
         \A k \in Conversations : Range(thread[k]) \subseteq Range(thread'[k]),
         \A d \in BrowserChats \ {c} :
           /\ at'[d] = at[d] /\ job'[d] = job[d] /\ mine'[d] = mine[d] /\ tab'[d] = tab[d]
           /\ found'[d] = found[d] /\ binding'[d] = binding[d]
           /\ answer'[job[d]] = answer[job[d]],
         FileOf(c)',
         \A e \in BrowserChats \ {c} :
           mode = "dedicated" /\ at[e] \in Delivering /\ job[e] \notin shaken =>
             /\ place'[mine[e].tab] # "closed"
             /\ \/ place'[mine[e].tab] = place[mine[e].tab]
                \/ place[mine[e].tab] \notin Conversations \cup {"aside"}
                \/ mine[e].tab \in astray' \/ Shares(c, mine[e].tab)'
             /\ Shares(c, mine[e].tab) => Shares(c, mine[e].tab)'
             /\ at'[c] \in Working /\ binding'[c].tab = mine[e].tab => tab'[c] = mine[e].tab
  PROVE  FileInv'
<1>1. ASSUME NEW e \in BrowserChats \ {c}, mode' = "dedicated", at'[e] \in Delivering,
             job'[e] \notin shaken'
      PROVE  FileOf(e)'
  <2> PICK t : t = mine[e].tab
    OBVIOUS
  <2>1. mode = "dedicated" /\ at[e] \in Delivering /\ job[e] \notin shaken
    BY <1>1
  <2>2. /\ t \in OpenTabs /\ mine[e].url \in Conversations
        /\ answer[job[e]] \in Range(thread[mine[e].url])
        /\ found[e] \in Range(thread[mine[e].url]) \cup {NoPrompt}
        /\ at[e] = "file" => found[e] # NoPrompt
        /\ \/ place[t] \in {mine[e].url, "aside"}
           \/ t \in astray
           \/ \E d \in BrowserChats \ {e} : Shares(d, t)
        /\ \A d \in BrowserChats : at[d] \in Working /\ binding[d].tab = t => tab[d] = t
    BY <2>1 DEF BrowserInv, FileInv, FileOf
  <2>3. /\ place'[t] # "closed"
        /\ place'[t] = place[t] \/ place[t] \notin Conversations \cup {"aside"}
           \/ t \in astray' \/ Shares(c, t)'
        /\ Shares(c, t) => Shares(c, t)'
        /\ at'[c] \in Working /\ binding'[c].tab = t => tab'[c] = t
    BY <2>1
  <2>4. mine'[e].tab = t /\ mine'[e].url = mine[e].url
    OBVIOUS
  <2>5. t \in OpenTabs'
    BY <2>2, <2>3 DEF OpenTabs
  <2>6. \A d \in BrowserChats \ {c} : Shares(d, t) => Shares(d, t)'
    BY DEF Shares
  <2>7. \/ place'[t] \in {mine[e].url, "aside"}
        \/ t \in astray'
        \/ \E d \in BrowserChats \ {e} : Shares(d, t)'
    BY <2>2, <2>3, <2>6
  <2>8. \A d \in BrowserChats : at'[d] \in Working /\ binding'[d].tab = t => tab'[d] = t
    BY <2>2, <2>3
  <2>9. /\ answer'[job'[e]] \in Range(thread'[mine[e].url])
        /\ found'[e] \in Range(thread'[mine[e].url]) \cup {NoPrompt}
        /\ at'[e] = "file" => found'[e] # NoPrompt
    BY <2>2
  <2> QED BY <2>2, <2>4, <2>5, <2>7, <2>8, <2>9 DEF FileOf
<1> QED BY <1>1 DEF FileInv, FileOf

\* Nobody holds the browser when the lock is free.
LEMMA NobodyHolds ==
  ASSUME BrowserInv, owner = NoChat
  PROVE  (\A d \in BrowserChats : at[d] \notin Holding) /\ outer = {}
  BY BrowserAssumption DEF BrowserInv, LockInv, Types, HoldTypes

\* Who does not work in the browser relies on nothing in it.
LEMMA AloneWorks ==
  ASSUME \A d \in BrowserChats : at'[d] \in Holding => at'[d] = "page" /\ job'[d] \notin shaken'
  PROVE  WorkInv'
  BY DEF WorkInv, TabOf, ComposerOf, SeenOf, WaitOf, OwnTabOf, Working, Composing, Holding

\* The lock is taken.
LEMMA LockKeeps ==
  ASSUME BrowserInv, NEW c \in BrowserChats, Lock(c)
  PROVE  BrowserInv'
<1>1. /\ at[c] = "lock" /\ owner = NoChat /\ owner' = c /\ at' = [at EXCEPT ![c] = "page"]
      /\ UNCHANGED <<fixed, browser, chatgpt, binding, outer, job, mine, tab, seen, found,
                     outcome, commands, failures>>
  BY DEF Lock, LockIsFree, To
<1> USE <1>1 DEF fixed, browser, chatgpt, outcome
<1>2. (\A d \in BrowserChats : at[d] \notin Holding) /\ outer = {}
  BY NobodyHolds
<1>3. at'[c] = "page" /\ \A d \in BrowserChats \ {c} : at'[d] = at[d]
  BY DEF BrowserInv, Types, LocalTypes
<1>4. Types'
  BY DEF BrowserInv, Types, PageTypes, ThreadTypes, HoldTypes, LocalTypes, OutcomeTypes,
      PromptSteps
<1>5. PageInv'
  BY <1>3 DEF BrowserInv, PageInv, OwnPages, BoundOf, Sound, OpenTabs, Working, Composing
<1>6. LockInv' /\ JobInv'
  BY <1>2, <1>3 DEF BrowserInv, LockInv, JobInv, Holding
<1>7. WorkInv'
  BY <1>2, <1>3, AloneWorks DEF BrowserInv, ShakenInv
<1>11. TextInv'
  BY <1>3, TextStays, BrowserAssumption DEF Sent, Begun, Delivering
<1>8. SentInv' /\ FreshInv' /\ AnswerInv' /\ SentWithItsFiles'
  <2>1. \A q \in Prompts : Taken(q)' => Taken(q)
    BY <1>3, BrowserAssumption DEF Taken, Delivering
  <2>2. \A q \in Prompts : job[ChatOf[q]] = q /\ at[ChatOf[q]] \in Delivering \cup {"wait", "identity"}
          => at'[ChatOf[q]] = at[ChatOf[q]]
    BY <1>3, BrowserAssumption DEF Delivering
  <2> QED BY <2>1, <2>2, QuietKeeps
<1>9. ShakenInv'
  BY <1>2, <1>3 DEF BrowserInv, ShakenInv, Delivering, Holding
<1>10. FileInv'
  <2>1. FileOf(c)'
    BY <1>3 DEF FileOf, Delivering
  <2>2. \A t : Shares(c, t) => Shares(c, t)'
    BY <1>3 DEF Shares
  <2>3. at'[c] \notin Working
    BY <1>3 DEF Working, Composing
  <2>4. \A e \in BrowserChats : FileOf(e)
    BY DEF BrowserInv, FileInv
  <2> QED BY <1>3, <2>1, <2>2, <2>3, <2>4, FilesStay DEF FileOf, OpenTabs
<1> QED BY <1>4, <1>5, <1>6, <1>7, <1>8, <1>9, <1>10, <1>11 DEF BrowserInv

\* A chat without a prompt takes one.
LEMMA BeginIs ==
  ASSUME BrowserInv, NEW c \in BrowserChats, NEW p \in Prompts, Begin(c, p)
  PROVE  /\ at[c] = "idle" /\ job[c] = NoPrompt /\ ended[p] = "no" /\ ChatOf[p] = c
         /\ job'[c] = p /\ \A d \in BrowserChats \ {c} : job'[d] = job[d]
         /\ job' \in [BrowserChats -> Prompts \cup {NoPrompt}]
         /\ p \notin Sent /\ p \notin shaken /\ p # NoPrompt
         /\ \A q \in Prompts : job[ChatOf[q]] = q => job'[ChatOf[q]] = q /\ ChatOf[q] # c
         /\ \A q \in Prompts \ {p} : job'[ChatOf[q]] = q => job[ChatOf[q]] = q
<1>1. at[c] = "idle" /\ ended[p] = "no" /\ ChatOf[p] = c /\ job' = [job EXCEPT ![c] = p]
  BY DEF Begin
<1>2. job[c] = NoPrompt /\ p # NoPrompt /\ NoPrompt \notin Prompts
  BY <1>1, BrowserAssumption DEF BrowserInv, JobInv
<1>3. p \notin Sent /\ p \notin shaken
  BY <1>1, <1>2 DEF BrowserInv, SentInv, ShakenInv
<1>4. \A q \in Prompts : ChatOf[q] \in BrowserChats
  BY BrowserAssumption
<1> QED BY <1>1, <1>2, <1>3, <1>4 DEF BrowserInv, Types, LocalTypes

\* A chat takes a prompt.
LEMMA TakeKeeps ==
  ASSUME BrowserInv, NEW c \in BrowserChats, NEW p \in Prompts, Take(c, p)
  PROVE  BrowserInv'
<1>1. /\ Begin(c, p) /\ mine' = [mine EXCEPT ![c] = binding[c]]
      /\ at' = [at EXCEPT ![c] = "lock"]
      /\ UNCHANGED <<fixed, browser, chatgpt, binding, owner, outer, tab, seen,
                     found, outcome, commands, failures>>
  BY DEF Take, To
<1> USE <1>1 DEF fixed, browser, chatgpt, outcome
<1>2. /\ at[c] = "idle" /\ job[c] = NoPrompt /\ ended[p] = "no" /\ ChatOf[p] = c
      /\ job'[c] = p /\ \A d \in BrowserChats \ {c} : job'[d] = job[d]
      /\ job' \in [BrowserChats -> Prompts \cup {NoPrompt}]
      /\ p \notin Sent /\ p \notin shaken /\ p # NoPrompt
      /\ \A q \in Prompts : job[ChatOf[q]] = q => job'[ChatOf[q]] = q /\ ChatOf[q] # c
      /\ \A q \in Prompts \ {p} : job'[ChatOf[q]] = q => job[ChatOf[q]] = q
  BY BeginIs
<1>3. /\ at'[c] = "lock" /\ \A d \in BrowserChats \ {c} : at'[d] = at[d]
      /\ mine'[c] = binding[c] /\ \A d \in BrowserChats \ {c} : mine'[d] = mine[d]
  BY DEF BrowserInv, Types, LocalTypes
<1>4. Types'
  BY <1>2 DEF BrowserInv, Types, PageTypes, ThreadTypes, HoldTypes, LocalTypes, OutcomeTypes,
      PromptSteps
<1>5. PageInv'
  <2>1. OwnPages'
    BY DEF BrowserInv, PageInv, OwnPages, OpenTabs
  <2>2. ASSUME NEW d \in BrowserChats \ {c} PROVE BoundOf(d)'
    BY <1>2, <1>3 DEF BrowserInv, PageInv, BoundOf, Sound
  <2>3. BoundOf(c)'
    BY <1>3 DEF BrowserInv, PageInv, BoundOf, Sound, Working, Composing
  <2> QED BY <2>1, <2>2, <2>3 DEF PageInv
<1>6. LockInv' /\ JobInv'
  BY <1>2, <1>3 DEF BrowserInv, LockInv, JobInv, Holding
<1>7. /\ SentInv' /\ FreshInv' /\ AnswerInv' /\ SentWithItsFiles'
      /\ Sent' = Sent /\ \A k \in Conversations : FreshLast(k) => FreshLast(k)'
  <2>1. \A q \in Prompts : Taken(q)' => Taken(q)
    BY <1>2, <1>3, BrowserAssumption DEF Taken, Delivering
  <2>2. \A q \in Prompts : job[ChatOf[q]] = q => at'[ChatOf[q]] = at[ChatOf[q]]
    BY <1>2, <1>3, BrowserAssumption
  <2> QED BY <1>2, <2>1, <2>2, QuietKeeps
<1>8. WorkInv'
  <2>1. ASSUME NEW d \in BrowserChats \ {c}
        PROVE  TabOf(d)' /\ ComposerOf(d)' /\ SeenOf(d)' /\ WaitOf(d)' /\ OwnTabOf(d)'
    BY <1>2, <1>3, <1>7, WorkStays
  <2>2. TabOf(c)' /\ ComposerOf(c)' /\ SeenOf(c)' /\ WaitOf(c)' /\ OwnTabOf(c)'
    BY <1>3 DEF TabOf, ComposerOf, SeenOf, WaitOf, OwnTabOf, Working, Composing, Holding
  <2> QED BY <2>1, <2>2 DEF WorkInv
<1>9. ShakenInv'
  <2>1. shaken' = shaken /\ ended' = ended
    OBVIOUS
  <2>2. \A q \in shaken' : ended'[q] = "no" => job'[ChatOf[q]] = q
    BY <1>2, <2>1 DEF BrowserInv, ShakenInv, Types, OutcomeTypes
  <2>3. \A d \in BrowserChats : at'[d] = "lock" => job'[d] \notin shaken'
    BY <1>2, <1>3, <2>1 DEF BrowserInv, ShakenInv
  <2>4. ASSUME NEW d \in BrowserChats, NEW e \in BrowserChats, at'[d] \in Delivering,
               at'[e] \in Holding, job'[e] \in shaken', mode' = "dedicated"
        PROVE  job'[d] \in shaken'
    <3>1. d # c /\ e # c
      BY <1>2, <1>3, <2>1, <2>4 DEF Delivering
    <3> QED BY <1>2, <1>3, <2>1, <2>4, <3>1 DEF BrowserInv, ShakenInv, fixed
  <2> QED BY <2>2, <2>3, <2>4 DEF ShakenInv
<1>10. FileInv'
  <2>1. FileOf(c)'
    BY <1>3 DEF FileOf, Delivering
  <2>2. \A t : Shares(c, t) => Shares(c, t)'
    BY <1>3 DEF Shares
  <2>3. at'[c] \notin Working
    BY <1>3 DEF Working, Composing
  <2>4. \A e \in BrowserChats : FileOf(e)
    BY DEF BrowserInv, FileInv
  <2> QED BY <1>2, <1>3, <2>1, <2>2, <2>3, <2>4, FilesStay DEF FileOf, OpenTabs
<1>11. TextInv'
  BY <1>2, <1>3, <1>7, TextStays, BrowserAssumption DEF Begun
<1> QED BY <1>4, <1>5, <1>6, <1>7, <1>8, <1>9, <1>10, <1>11 DEF BrowserInv

\* /new with a message takes the lock and the landing page.
LEMMA TakeNewKeeps ==
  ASSUME BrowserInv, NEW c \in BrowserChats, NEW p \in Prompts, TakeNew(c, p)
  PROVE  BrowserInv'
<1>1. PICK t \in PageFor(binding[c]) :
        /\ Show(t, "landing") /\ Mark(t)
        /\ binding' = [binding EXCEPT ![c] = [tab |-> t, url |-> "landing"]]
        /\ mine' = [mine EXCEPT ![c] = [tab |-> t, url |-> "landing"]]
  BY DEF TakeNew
<1> DEFINE b == [tab |-> t, url |-> "landing"]
<1>2. /\ Begin(c, p) /\ owner = NoChat /\ owner' = c /\ outer' = outer \cup {c}
      /\ at' = [at EXCEPT ![c] = "page"] /\ commands < MaxCommands /\ commands' = commands + 1
      /\ UNCHANGED <<fixed, chatgpt, tab, seen, found, outcome, failures>>
  BY DEF TakeNew, To
<1>3. /\ at[c] = "idle" /\ job[c] = NoPrompt /\ ended[p] = "no" /\ ChatOf[p] = c
      /\ job'[c] = p /\ \A d \in BrowserChats \ {c} : job'[d] = job[d]
      /\ job' \in [BrowserChats -> Prompts \cup {NoPrompt}]
      /\ p \notin Sent /\ p \notin shaken /\ p # NoPrompt
      /\ \A q \in Prompts : job[ChatOf[q]] = q => job'[ChatOf[q]] = q /\ ChatOf[q] # c
      /\ \A q \in Prompts \ {p} : job'[ChatOf[q]] = q => job[ChatOf[q]] = q
  BY <1>2, BeginIs
<1>4. (\A d \in BrowserChats : at[d] \notin Holding) /\ outer = {}
  BY <1>2, NobodyHolds
<1>5. /\ t \in Tabs \ users /\ (mode = "embedded" => t = 1)
      /\ mode = "dedicated" /\ binding[c].tab \in OpenTabs => t = binding[c].tab
  BY BoundIs, PageForIs DEF BrowserInv
<1>6. b \in Bindings /\ b.tab = t /\ b.url = "landing" /\ t # 0
  BY <1>5, PlacesAre, BoundIs, FirstOfIs DEF BrowserInv
<1> HIDE DEF b
<1>7. /\ at'[c] = "page" /\ \A d \in BrowserChats \ {c} : at'[d] = at[d]
      /\ mine'[c] = b /\ \A d \in BrowserChats \ {c} : mine'[d] = mine[d]
      /\ binding'[c] = b /\ \A d \in BrowserChats \ {c} : binding'[d] = binding[d]
  BY <1>1, <1>2 DEF BrowserInv, Types, LocalTypes, HoldTypes, b
<1>8. PageTypes' /\ OwnPages'
  BY <1>1, <1>2, <1>5, PlacesAre, PagesStay DEF Mark, outcome
<1>9. Types'
  <2>1. HoldTypes'
    BY <1>1, <1>2, <1>6, CountIs DEF BrowserInv, Types, HoldTypes, b
  <2>2. LocalTypes'
    BY <1>1, <1>2, <1>3, <1>6 DEF BrowserInv, Types, LocalTypes, PromptSteps, b
  <2> QED
    BY <1>2, <1>8, <2>1, <2>2
    DEF BrowserInv, Types, ThreadTypes, OutcomeTypes, chatgpt, outcome
<1>10. PageInv'
  <2>1. Sound(b)'
    BY <1>2, <1>5, <1>6, PlacesAre DEF Sound, fixed
  <2> QED
    BY <1>2, <1>4, <1>6, <1>7, <1>8, <2>1, PlacesAre
    DEF BrowserInv, PageInv, BoundOf, Sound, Working, Composing, Holding, fixed
<1>11. LockInv' /\ JobInv'
  BY <1>2, <1>3, <1>4, <1>7 DEF BrowserInv, LockInv, JobInv, Holding, outcome
<1>12. WorkInv'
  BY <1>2, <1>3, <1>4, <1>7, AloneWorks DEF outcome
<1>17. TextInv'
  <2>1. \A v \in Tabs : text'[v] \in {text[v], NoPrompt}
    BY <1>1, <1>5, PlacesAre, ShowIs DEF BrowserInv
  <2>2. Sent' = Sent /\ ended' = ended /\ shaken' = shaken
    BY <1>2 DEF Sent, chatgpt, outcome
  <2>3. \A q \in Prompts : Begun(q) => Begun(q)'
    BY <1>3, <1>7, <2>2, BrowserAssumption DEF Begun
  <2> QED BY <2>1, <2>2, <2>3, TextStays
<1>13. SentInv' /\ FreshInv' /\ AnswerInv' /\ SentWithItsFiles'
  <2>1. \A q \in Prompts : Taken(q)' => Taken(q)
    BY <1>2, <1>3, <1>7, BrowserAssumption DEF Taken, Delivering, outcome
  <2>2. \A q \in Prompts : job[ChatOf[q]] = q => at'[ChatOf[q]] = at[ChatOf[q]]
    BY <1>3, <1>7, BrowserAssumption
  <2> QED BY <1>2, <1>3, <2>1, <2>2, QuietKeeps DEF chatgpt, outcome
<1>14. ShakenInv'
  <2>1. shaken' = shaken /\ ended' = ended
    BY <1>2 DEF outcome
  <2>2. \A q \in shaken' : ended'[q] = "no" => job'[ChatOf[q]] = q
    BY <1>3, <2>1 DEF BrowserInv, ShakenInv, Types, OutcomeTypes
  <2>3. \A d \in BrowserChats : at'[d] = "lock" => job'[d] \notin shaken'
    BY <1>3, <1>7, <2>1 DEF BrowserInv, ShakenInv
  <2>4. ASSUME NEW d \in BrowserChats, NEW e \in BrowserChats, at'[d] \in Delivering,
               at'[e] \in Holding, job'[e] \in shaken', mode' = "dedicated"
        PROVE  job'[d] \in shaken'
    <3>1. d # c /\ e # c
      BY <1>3, <1>7, <2>1, <2>4 DEF Delivering
    <3> QED BY <1>2, <1>3, <1>7, <2>1, <2>4, <3>1 DEF BrowserInv, ShakenInv, fixed
  <2> QED BY <2>2, <2>3, <2>4 DEF ShakenInv
<1>15. FileInv'
  <2>1. FileOf(c)'
    BY <1>7 DEF FileOf, Delivering
  <2>2. \A v \in Tabs : place'[v] = IF v = t THEN "landing" ELSE place[v]
    BY <1>1, <1>5, PlacesAre, ShowIs DEF BrowserInv, Types, PageTypes
  <2>3. ASSUME NEW e \in BrowserChats \ {c}, mode = "dedicated", at[e] \in Delivering,
               job[e] \notin shaken
        PROVE  /\ place'[mine[e].tab] # "closed"
               /\ place'[mine[e].tab] = place[mine[e].tab] \/ Shares(c, mine[e].tab)'
               /\ Shares(c, mine[e].tab) => Shares(c, mine[e].tab)'
    <3>1. mine[e].tab \in OpenTabs /\ mine[e].tab \in Tabs
      BY <2>3 DEF BrowserInv, FileInv, FileOf, OpenTabs
    <3>2. mine[e].tab = t => Shares(c, mine[e].tab)'
      BY <1>6, <1>7 DEF Shares
    <3>3. Shares(c, mine[e].tab) => mine[e].tab = t
      BY <1>5, <2>3, <3>1 DEF Shares
    <3> QED BY <2>2, <3>1, <3>2, <3>3, PlacesAre DEF OpenTabs
  <2>4. at'[c] \notin Working
    BY <1>7 DEF Working, Composing
  <2> QED BY <1>2, <1>3, <1>7, <2>1, <2>3, <2>4, FilesStay DEF fixed, chatgpt, outcome
<1> QED
  BY <1>9, <1>10, <1>11, <1>12, <1>13, <1>14, <1>15, <1>17 DEF BrowserInv

\* ChatGPT finishes an answer.
LEMMA ReplyKeeps ==
  ASSUME BrowserInv, NEW k \in Conversations, Reply(k)
  PROVE  BrowserInv'
<1>1. /\ busy' = busy \ {k}
      /\ UNCHANGED <<fixed, browser, thread, known, files, binding, owner, outer,
                     prompt, outcome, commands, failures>>
  BY DEF Reply
<1> USE <1>1 DEF fixed, browser, prompt, outcome
<1>2. Types'
  BY DEF BrowserInv, Types, PageTypes, ThreadTypes, HoldTypes, LocalTypes, OutcomeTypes
<1>3. PageInv' /\ LockInv' /\ JobInv' /\ ShakenInv'
  BY DEF BrowserInv, PageInv, OwnPages, BoundOf, Sound, OpenTabs, LockInv, JobInv, ShakenInv
<1>4. /\ SentInv' /\ FreshInv' /\ AnswerInv' /\ SentWithItsFiles'
      /\ Sent' = Sent /\ \A l \in Conversations : FreshLast(l) => FreshLast(l)'
  <2>1. \A q \in Prompts : Taken(q)' => Taken(q)
    BY DEF Taken
  <2> QED BY <2>1, QuietKeeps
<1>5. WorkInv'
  <2>1. ASSUME NEW d \in BrowserChats
        PROVE  TabOf(d)' /\ ComposerOf(d)' /\ SeenOf(d)' /\ WaitOf(d)' /\ OwnTabOf(d)'
    BY <1>4, WorkStays
  <2> QED BY <2>1 DEF WorkInv
<1>6. FileInv'
  BY DEF BrowserInv, FileInv, FileOf, Shares, OpenTabs
<1>7. TextInv'
  BY <1>4, TextStays DEF Begun
<1> QED BY <1>2, <1>3, <1>4, <1>5, <1>6, <1>7 DEF BrowserInv

\* The dedicated Chrome is lost, or the tabs of the user's are numbered anew.
LEMMA LoseBrowserKeeps ==
  ASSUME BrowserInv, LoseBrowser
  PROVE  BrowserInv'
<1> DEFINE met == shaken' \ shaken
<1>1. /\ Failure /\ shaken \subseteq shaken'
      /\ UNCHANGED <<fixed, marked, chatgpt, binding, owner, outer, job, at, mine, seen, found,
                     answer, fetched, ended, astray, commands>>
  BY DEF LoseBrowser, LoseTabs, LoseNumbers
<1> USE DEF fixed, chatgpt
<1>2. \A c \in BrowserChats : at[c] \in Holding \cup Delivering => job[c] \in Prompts
  BY WorkIs DEF Holding, Delivering
<1>3. \/ /\ mode = "dedicated" /\ tab' = tab /\ place' = [t \in Tabs |-> "closed"]
         /\ text' = [t \in Tabs |-> NoPrompt] /\ chips' = [t \in Tabs |-> {}]
         /\ \A c \in BrowserChats : at[c] \in Holding \cup Delivering => job[c] \in shaken'
         /\ \A p \in met : \E c \in BrowserChats : at[c] \in Holding \cup Delivering /\ p = job[c]
      \/ /\ mode = "shared" /\ UNCHANGED <<place, text, chips>>
         /\ tab' \in [BrowserChats -> Tabs \cup {0}]
         /\ \A c \in BrowserChats : at[c] \in Working => job[c] \in shaken' /\ tab'[c] \in Tabs
         /\ \A t \in Tabs : text[t] \in Prompts => text[t] \in shaken'
         /\ \A p \in met : \/ \E c \in BrowserChats : at[c] \in Holding /\ p = job[c]
                           \/ \E t \in Tabs : text[t] \in Prompts /\ p = text[t]
  <2>1. CASE LoseTabs
    BY <2>1 DEF LoseTabs
  <2>2. CASE LoseNumbers
    <3>1. Working = Holding \ {"page"}
      BY DEF Working, Composing, Holding
    <3>2. Range(text) = {text[t] : t \in Tabs}
      BY DEF BrowserInv, Types, PageTypes, Range
    <3>3. PICK t \in Tabs : tab' = [c \in BrowserChats |-> IF c \in AtWork THEN t ELSE tab[c]]
      BY <2>2 DEF LoseNumbers
    <3>4. tab' \in [BrowserChats -> Tabs \cup {0}]
      BY <3>3 DEF BrowserInv, Types, LocalTypes
    <3>5. \A c \in BrowserChats : at[c] \in Working <=> c \in AtWork
      BY <3>1 DEF AtWork
    <3>6. shaken' = shaken \cup {job[c] : c \in AtWork} \cup (Range(text) \cap Prompts)
      BY <2>2 DEF LoseNumbers
    <3>7. AtWork \subseteq {c \in BrowserChats : at[c] \in Holding}
      BY DEF AtWork
    <3> QED BY <2>2, <3>2, <3>3, <3>4, <3>5, <3>6, <3>7 DEF LoseNumbers
  <2> QED BY <2>1, <2>2 DEF LoseBrowser
<1>4. ASSUME NEW p \in met
      PROVE  /\ p \in Prompts
             /\ ended[p] = "no" => job[ChatOf[p]] = p
             /\ ended[p] = "no" => at[ChatOf[p]] # "lock"
  <2>1. ASSUME NEW c \in BrowserChats, at[c] \in Holding \cup Delivering, p = job[c]
        PROVE  p \in Prompts /\ ChatOf[p] = c /\ job[c] = p /\ at[c] # "lock"
    BY <2>1, WorkIs DEF Holding, Delivering
  <2>2. ASSUME NEW t \in Tabs, text[t] \in Prompts, p = text[t]
        PROVE  p \in Prompts /\ (ended[p] = "no" => Begun(p))
    BY <2>2 DEF BrowserInv, TextInv, Typed
  <2>3. Begun(p) => job[ChatOf[p]] = p /\ at[ChatOf[p]] # "lock"
    BY DEF Begun, Delivering
  <2> QED BY <1>3, <2>1, <2>2, <2>3
<1>5. shaken' \subseteq Prompts
  BY <1>3, <1>4, WorkIs DEF BrowserInv, Types, OutcomeTypes, Holding, Delivering
<1>6. Types'
  <2>1. OutcomeTypes'
    BY <1>1, <1>5 DEF BrowserInv, Types, OutcomeTypes
  <2>2. failures' \in 0..MaxFailures
    BY <1>1, CountIs DEF BrowserInv
  <2>3. PageTypes' /\ LocalTypes'
    BY <1>1, <1>3 DEF BrowserInv, Types, PageTypes, LocalTypes
  <2> QED
    BY <1>1, <2>1, <2>2, <2>3 DEF BrowserInv, Types, ThreadTypes, HoldTypes
<1>7. PageInv'
  <2>1. OwnPages'
    BY <1>1, <1>3 DEF BrowserInv, PageInv, OwnPages, OpenTabs
  <2>2. ASSUME NEW c \in BrowserChats PROVE BoundOf(c)'
    BY <1>1, <1>3 DEF BrowserInv, PageInv, BoundOf, Sound
  <2> QED BY <2>1, <2>2 DEF PageInv
<1>8. LockInv' /\ JobInv'
  BY <1>1 DEF BrowserInv, LockInv, JobInv
<1>9. /\ SentInv' /\ FreshInv' /\ AnswerInv' /\ SentWithItsFiles'
      /\ Sent' = Sent /\ \A l \in Conversations : FreshLast(l) => FreshLast(l)'
  <2>1. \A q \in Prompts : Taken(q)' => Taken(q)
    BY <1>1 DEF Taken
  <2> QED BY <1>1, <2>1, QuietKeeps
<1>10. WorkInv'
  <2>1. \A c \in BrowserChats : at[c] \in Working => job[c] \in shaken'
    BY <1>3 DEF Working, Composing, Holding
  <2>2. \A t \in Tabs : text'[t] \in shaken' \cup {NoPrompt, Task}
    BY <1>3 DEF BrowserInv, Types, PageTypes
  <2>3. ASSUME NEW c \in BrowserChats PROVE ComposerOf(c)'
    BY <1>1, <2>1, <2>2 DEF ComposerOf, Working, Composing
  <2> QED
    BY <1>1, <2>1, <2>3 DEF WorkInv, TabOf, SeenOf, WaitOf, OwnTabOf, Working, Composing
<1>11. ShakenInv'
  <2>1. \A p \in shaken' : ended'[p] = "no" => job'[ChatOf[p]] = p
    BY <1>1, <1>4 DEF BrowserInv, ShakenInv
  <2>2. ASSUME NEW c \in BrowserChats, at[c] = "lock" PROVE job[c] \notin shaken'
    <3>1. ChatOf[job[c]] = c /\ ended[job[c]] = "no"
      BY <2>2, WorkIs
    <3> QED BY <1>4, <2>2, <3>1 DEF BrowserInv, ShakenInv
  <2>3. mode' = "dedicated" => \A c \in BrowserChats : at[c] \in Delivering => job[c] \in shaken'
    BY <1>1, <1>3
  <2> QED BY <1>1, <2>1, <2>2, <2>3 DEF ShakenInv
<1>12. FileInv'
  BY <1>1, <1>3 DEF FileInv, FileOf
<1>13. TextInv'
  <2>1. \A t \in Tabs : text'[t] \in {text[t], NoPrompt}
    BY <1>3
  <2>2. \A p \in Prompts : Begun(p) => Begun(p)'
    BY <1>1 DEF Begun
  <2> QED BY <1>1, <1>9, <2>1, <2>2, TextStays
<1> QED BY <1>6, <1>7, <1>8, <1>9, <1>10, <1>11, <1>12, <1>13 DEF BrowserInv

\* /stop looks for the tab, and stops what it shows.
LEMMA StopKeeps ==
  ASSUME BrowserInv, NEW c \in BrowserChats, Stop(c)
  PROVE  BrowserInv'
<1>1. PICK t \in Looked(binding[c]) :
        Show(t, LookedAt(binding[c], t)) /\ Mark(t) /\ busy' = busy \ {LookedAt(binding[c], t)}
  BY DEF Stop
<1> PICK u : u = LookedAt(binding[c], t)
  OBVIOUS
<1>2. /\ commands < MaxCommands /\ commands' = commands + 1
      /\ UNCHANGED <<fixed, thread, known, files, binding, owner, outer, prompt, outcome, failures>>
  BY DEF Stop
<1> USE DEF fixed, prompt, outcome
<1>3. /\ t \in Tabs \ users /\ (mode = "embedded" => t = 1) /\ u \in Places
      /\ t \in OpenTabs => u = place[t]
  BY BoundIs, LookedIs DEF BrowserInv
<1>4. \A v \in OpenTabs : place'[v] = place[v]
  BY <1>1, <1>3, ShowIs DEF BrowserInv, Types, PageTypes, OpenTabs
<1>5. /\ \A v \in Tabs : text'[v] \in {text[v], NoPrompt}
      /\ \A v \in OpenTabs : chips'[v] = chips[v] /\ text'[v] = text[v]
  BY <1>1, <1>3, ShowIs DEF BrowserInv, OpenTabs
<1>6. PageTypes' /\ OwnPages'
  BY <1>1, <1>2, <1>3, PagesStay DEF Mark
<1>7. Types'
  <2>1. commands' \in 0..MaxCommands
    BY <1>2, CountIs DEF BrowserInv
  <2> QED
    BY <1>1, <1>2, <1>6, <2>1
    DEF BrowserInv, Types, ThreadTypes, HoldTypes, LocalTypes, OutcomeTypes
<1>8. PageInv' /\ LockInv' /\ JobInv' /\ ShakenInv'
  BY <1>2, <1>6 DEF BrowserInv, PageInv, BoundOf, Sound, LockInv, JobInv, ShakenInv
<1>9. /\ SentInv' /\ FreshInv' /\ AnswerInv' /\ SentWithItsFiles'
      /\ Sent' = Sent /\ \A l \in Conversations : FreshLast(l) => FreshLast(l)'
  <2>1. \A q \in Prompts : Taken(q)' => Taken(q)
    BY <1>2 DEF Taken
  <2> QED BY <1>1, <1>2, <2>1, QuietKeeps
<1>10. WorkInv'
  <2>1. ASSUME NEW d \in BrowserChats
        PROVE  TabOf(d)' /\ ComposerOf(d)' /\ SeenOf(d)' /\ WaitOf(d)' /\ OwnTabOf(d)'
    <3>1. at[d] \in Working /\ job[d] \notin shaken => tab[d] \in OpenTabs
      BY DEF BrowserInv, WorkInv, TabOf
    <3>2. at[d] \in Working => tab[d] \in Tabs
      BY DEF BrowserInv, PageInv, BoundOf
    <3> QED BY <1>2, <1>4, <1>5, <1>9, <3>1, <3>2, WorkStays
  <2> QED BY <2>1 DEF WorkInv
<1>11. FileInv'
  <2>1. \A v \in OpenTabs : v \in OpenTabs'
    BY <1>4 DEF OpenTabs
  <2> QED BY <1>2, <1>4, <2>1 DEF BrowserInv, FileInv, FileOf, Shares
<1>12. TextInv'
  BY <1>2, <1>5, <1>9, TextStays DEF Begun
<1> QED BY <1>7, <1>8, <1>9, <1>10, <1>11, <1>12 DEF BrowserInv

\* What a chat that has given the browser up does next: it goes on with its answer,
\* or is done.
GoesOn(c) ==
  \/ \E s \in {"image", "file"} :
       at[c] \in Delivering /\ To(c, s) /\ Fetches(c) /\ (s = "file" => found[c] # NoPrompt)
  \/ at[c] \in Delivering /\ Finished(c, "answered")
  \/ at[c] = "identity" /\ Finished(c, "failed")

\* The prompt of a chat that is done has ended; others' prompts are as they were.
LEMMA GoesOnIs ==
  ASSUME BrowserInv, NEW c \in BrowserChats, at[c] \in Delivering \cup {"identity"}, GoesOn(c)
  PROVE  /\ job[c] \in Prompts /\ ChatOf[job[c]] = c /\ ended[job[c]] = "no"
         /\ \A d \in BrowserChats \ {c} :
              /\ at'[d] = at[d] /\ job'[d] = job[d] /\ found'[d] = found[d]
              /\ job[d] # job[c]
         /\ \A q \in Prompts \ {job[c]} : ended'[q] = ended[q]
         /\ \/ /\ at[c] \in Delivering /\ at'[c] \in {"image", "file"} /\ job'[c] = job[c]
               /\ ended' = ended /\ found' = found /\ (at'[c] = "file" => found[c] # NoPrompt)
               /\ owner' = owner /\ outer' = outer
            \/ /\ at'[c] = "idle" /\ job'[c] = NoPrompt
               /\ ended'[job[c]] = IF at[c] = "identity" THEN "failed" ELSE "answered"
               /\ owner' = (IF owner = c THEN NoChat ELSE owner) /\ outer' = outer \ {c}
         /\ at' \in [BrowserChats -> PromptSteps] /\ ended' \in [Prompts -> {"no", "answered", "failed", "started"}]
         /\ job' \in [BrowserChats -> Prompts \cup {NoPrompt}]
         /\ found' \in [BrowserChats -> Makes \cup {NoPrompt}]
<1>1. at[c] # "idle"
  BY DEF Delivering
<1>2. job[c] \in Prompts /\ ChatOf[job[c]] = c /\ ended[job[c]] = "no"
  BY <1>1, WorkIs
<1>3. \A d \in BrowserChats \ {c} : job[d] # job[c]
  BY <1>2, BrowserAssumption DEF BrowserInv, JobInv
<1>4. /\ at \in [BrowserChats -> PromptSteps] /\ job \in [BrowserChats -> Prompts \cup {NoPrompt}]
      /\ found \in [BrowserChats -> Makes \cup {NoPrompt}]
      /\ ended \in [Prompts -> {"no", "answered", "failed", "started"}]
  BY DEF BrowserInv, Types, LocalTypes, OutcomeTypes
<1>5. CASE \E s \in {"image", "file"} :
             /\ at[c] \in Delivering /\ To(c, s) /\ Fetches(c)
             /\ s = "file" => found[c] # NoPrompt
  BY <1>2, <1>3, <1>4, <1>5 DEF To, Fetches, PromptSteps
<1>6. CASE at[c] \in Delivering /\ Finished(c, "answered")
  BY <1>2, <1>3, <1>4, <1>6 DEF To, Finished, PromptSteps, Delivering
<1>7. CASE at[c] = "identity" /\ Finished(c, "failed")
  BY <1>2, <1>3, <1>4, <1>7 DEF To, Finished, PromptSteps
<1> QED BY <1>5, <1>6, <1>7 DEF GoesOn

\* What such a step has to show.
LEMMA AfterKeeps ==
  ASSUME BrowserInv, NEW c \in BrowserChats, at[c] \in Delivering \cup {"identity"}, GoesOn(c),
         UNCHANGED <<fixed, chatgpt, mine, tab, seen, answer, shaken, astray, commands>>,
         PageTypes', OwnPages', fetched' \in [Prompts -> Makes \cup {NoPrompt}],
         failures' \in 0..MaxFailures,
         binding' \in [BrowserChats -> Bindings], Sound(binding[c])',
         \A d \in BrowserChats \ {c} : binding'[d] = binding[d],
         UNCHANGED browser \/ \A d \in BrowserChats : at[d] \notin Holding,
         \A v \in Tabs : text'[v] \in {text[v], NoPrompt},
         mode = "dedicated" =>
           \A v \in OpenTabs : place'[v] = place[v] /\ (Shares(c, v) => binding'[c].tab = v)
  PROVE  BrowserInv'
<1> USE DEF fixed, chatgpt
<1> PICK p : p = job[c]
  OBVIOUS
<1>1. /\ p \in Prompts /\ ChatOf[p] = c /\ ended[p] = "no"
      /\ \A d \in BrowserChats \ {c} :
           at'[d] = at[d] /\ job'[d] = job[d] /\ found'[d] = found[d] /\ job[d] # p
      /\ \A q \in Prompts \ {p} : ended'[q] = ended[q]
  BY GoesOnIs
<1>2. \/ /\ at[c] \in Delivering /\ at'[c] \in {"image", "file"} /\ job'[c] = p
         /\ ended' = ended /\ found' = found /\ (at'[c] = "file" => found[c] # NoPrompt)
         /\ owner' = owner /\ outer' = outer
      \/ /\ at'[c] = "idle" /\ job'[c] = NoPrompt
         /\ ended'[p] = IF at[c] = "identity" THEN "failed" ELSE "answered"
         /\ owner' = (IF owner = c THEN NoChat ELSE owner) /\ outer' = outer \ {c}
  BY GoesOnIs
<1>3. /\ at'[c] \in {"idle", "image", "file"}
      /\ at'[c] \in Delivering => at[c] \in Delivering /\ job'[c] = p /\ ended' = ended
  BY <1>2 DEF Delivering
<1>4. Types'
  <2>1. owner' \in BrowserChats \cup {NoChat} /\ outer' \subseteq BrowserChats
    BY <1>2 DEF BrowserInv, Types, HoldTypes
  <2>2. HoldTypes'
    BY <2>1 DEF BrowserInv, Types, HoldTypes
  <2>3. LocalTypes'
    BY GoesOnIs DEF BrowserInv, Types, LocalTypes
  <2>4. OutcomeTypes'
    BY GoesOnIs DEF BrowserInv, Types, OutcomeTypes
  <2>5. ThreadTypes'
    BY DEF BrowserInv, Types, ThreadTypes
  <2> QED BY <2>2, <2>3, <2>4, <2>5 DEF Types
<1>5. PageInv'
  BY <1>1, <1>3 DEF BrowserInv, PageInv, BoundOf, Sound, Working, Composing
<1>6. LockInv'
  <2>1. ASSUME NEW d \in BrowserChats, at'[d] \in Holding PROVE owner' = d
    <3>1. d # c
      BY <1>3, <2>1 DEF Holding
    <3>2. at[d] \in Holding
      BY <1>1, <2>1, <3>1
    <3>3. owner = d
      BY <3>2 DEF BrowserInv, LockInv
    <3> QED BY <1>2, <3>1, <3>3
  <2>2. ASSUME NEW d \in BrowserChats, d \in outer'
        PROVE  owner' = d /\ at'[d] \notin {"idle", "lock"}
    <3>1. d \in outer /\ owner = d /\ at[d] \notin {"idle", "lock"}
      BY <1>2, <2>2 DEF BrowserInv, LockInv
    <3>2. CASE d = c
      BY <1>2, <2>2, <3>1, <3>2
    <3>3. CASE d # c
      BY <1>1, <1>2, <3>1, <3>3
    <3> QED BY <3>2, <3>3
  <2> QED BY <2>1, <2>2 DEF LockInv
<1>7. JobInv'
  <2>1. ASSUME NEW d \in BrowserChats
        PROVE  /\ at'[d] = "idle" <=> job'[d] = NoPrompt
               /\ job'[d] # NoPrompt => ChatOf[job'[d]] = d /\ ended'[job'[d]] = "no"
               /\ at'[d] \in Holding \cup {"lock", "identity"} => mine'[d] = binding'[d]
    <3>1. CASE d = c
      BY <1>1, <1>2, <3>1, BrowserAssumption DEF Holding
    <3>2. CASE d # c
      BY <1>1, <3>2 DEF BrowserInv, JobInv, Types, LocalTypes
    <3> QED BY <3>1, <3>2
  <2> QED BY <2>1 DEF JobInv
<1>8. /\ SentInv' /\ FreshInv' /\ AnswerInv' /\ SentWithItsFiles'
      /\ Sent' = Sent /\ \A k \in Conversations : FreshLast(k) => FreshLast(k)'
  <2>1. ASSUME NEW q \in Prompts, Taken(q)' PROVE Taken(q)
    <3>1. CASE q = p
      <4>1. at[c] \in Delivering
        BY <1>1, <1>2, <1>3, <2>1, <3>1 DEF Taken
      <4> QED BY <1>1, <3>1, <4>1 DEF Taken
    <3>2. CASE q # p
      <4>1. ended'[q] = ended[q] /\ job'[c] # q
        BY <1>1, <1>2, <3>2, BrowserAssumption
      <4>2. ChatOf[q] \in BrowserChats
        BY BrowserAssumption
      <4> QED BY <1>1, <2>1, <4>1, <4>2 DEF Taken
    <3> QED BY <3>1, <3>2
  <2>2. \A q \in Prompts : ended'[q] = "no" => ended[q] = "no"
    BY <1>1
  <2>3. ASSUME NEW q \in Prompts, ended'[q] = "no", job[ChatOf[q]] = q,
               at[ChatOf[q]] \in Delivering \cup {"wait", "identity"}
        PROVE  /\ job'[ChatOf[q]] = q
               /\ at'[ChatOf[q]] \in Delivering \cup {"wait", "identity"}
    <3>1. CASE q = p
      BY <1>1, <1>2, <2>3, <3>1 DEF Delivering
    <3>2. CASE q # p
      BY <1>1, <2>3, <3>2, BrowserAssumption
    <3> QED BY <3>1, <3>2
  <2>4. ASSUME NEW q \in Prompts,
               \/ ended[q] \in {"failed", "started"}
               \/ job[ChatOf[q]] = q /\ at[ChatOf[q]] = "identity"
        PROVE  \/ ended'[q] \in {"failed", "started"}
               \/ job'[ChatOf[q]] = q /\ at'[ChatOf[q]] = "identity"
    <3>1. CASE q = p
      BY <1>1, <1>2, <2>4, <3>1 DEF Delivering
    <3>2. CASE q # p
      BY <1>1, <2>4, <3>2, BrowserAssumption
    <3> QED BY <3>1, <3>2
  <2> QED BY <2>1, <2>2, <2>3, <2>4, QuietKeeps
<1>9. WorkInv'
  <2>1. CASE \A d \in BrowserChats : at[d] \notin Holding
    <3>1. \A d \in BrowserChats : at'[d] \notin Holding
      BY <1>1, <1>3, <2>1 DEF Holding
    <3> QED BY <3>1, AloneWorks
  <2>2. CASE UNCHANGED browser
    <3>1. ASSUME NEW d \in BrowserChats \ {c}
          PROVE  TabOf(d)' /\ ComposerOf(d)' /\ SeenOf(d)' /\ WaitOf(d)' /\ OwnTabOf(d)'
      BY <1>1, <1>8, <2>2, WorkStays DEF browser
    <3>2. TabOf(c)' /\ ComposerOf(c)' /\ SeenOf(c)' /\ WaitOf(c)' /\ OwnTabOf(c)'
      BY <1>3 DEF TabOf, ComposerOf, SeenOf, WaitOf, OwnTabOf, Working, Composing, Holding
    <3> QED BY <3>1, <3>2 DEF WorkInv
  <2> QED BY <2>1, <2>2
<1>10. ShakenInv'
  <2>1. ASSUME NEW q \in shaken', ended'[q] = "no" PROVE job'[ChatOf[q]] = q
    <3>1. q \in Prompts /\ ended[q] = "no" /\ job[ChatOf[q]] = q
      BY <1>1, <2>1 DEF BrowserInv, ShakenInv, Types, OutcomeTypes
    <3>2. CASE q = p
      BY <1>1, <1>2, <2>1, <3>2
    <3>3. CASE q # p
      BY <1>1, <3>1, <3>3, BrowserAssumption
    <3> QED BY <3>2, <3>3
  <2>2. \A d \in BrowserChats : at'[d] = "lock" => job'[d] \notin shaken'
    BY <1>1, <1>3 DEF BrowserInv, ShakenInv
  <2>3. ASSUME NEW d \in BrowserChats, NEW e \in BrowserChats, at'[d] \in Delivering,
               at'[e] \in Holding, job'[e] \in shaken', mode' = "dedicated"
        PROVE  job'[d] \in shaken'
    <3>1. e # c
      BY <1>3, <2>3 DEF Holding
    <3>2. at[d] \in Delivering /\ job'[d] = job[d]
      BY <1>1, <1>3, <2>3
    <3> QED BY <1>1, <2>3, <3>1, <3>2 DEF BrowserInv, ShakenInv
  <2> QED BY <2>1, <2>2, <2>3 DEF ShakenInv
<1>11. FileInv'
  <2>1. FileOf(c)'
    <3> SUFFICES ASSUME mode = "dedicated", at'[c] \in Delivering, p \notin shaken
                 PROVE  FileOf(c)'
      BY <1>3 DEF FileOf
    <3>1. at[c] \in Delivering /\ job'[c] = p /\ at'[c] \in {"image", "file"}
          /\ found' = found /\ (at'[c] = "file" => found[c] # NoPrompt)
      BY <1>2 DEF Delivering
    <3> PICK t : t = mine[c].tab
      OBVIOUS
    <3>2. /\ t \in OpenTabs /\ mine[c].url \in Conversations
          /\ answer[p] \in Range(thread[mine[c].url])
          /\ found[c] \in Range(thread[mine[c].url]) \cup {NoPrompt}
          /\ \/ place[t] \in {mine[c].url, "aside"}
             \/ t \in astray
             \/ \E d \in BrowserChats \ {c} : Shares(d, t)
          /\ \A d \in BrowserChats : at[d] \in Working /\ binding[d].tab = t => tab[d] = t
      BY <3>1 DEF BrowserInv, FileInv, FileOf
    <3>3. place'[t] = place[t] /\ t \in OpenTabs'
      BY <3>2 DEF OpenTabs
    <3>4. \A d \in BrowserChats \ {c} : Shares(d, t) => Shares(d, t)'
      BY <1>1 DEF Shares
    <3>5. \A d \in BrowserChats : at'[d] \in Working /\ binding'[d].tab = t => tab'[d] = t
      BY <1>1, <1>3, <3>2 DEF Working, Composing
    <3> QED BY <3>1, <3>2, <3>3, <3>4, <3>5 DEF FileOf
  <2>2. ASSUME NEW e \in BrowserChats \ {c}, mode = "dedicated", at[e] \in Delivering,
               job[e] \notin shaken
        PROVE  /\ place'[mine[e].tab] # "closed" /\ place'[mine[e].tab] = place[mine[e].tab]
               /\ Shares(c, mine[e].tab) => Shares(c, mine[e].tab)'
    <3>1. mine[e].tab \in OpenTabs
      BY <2>2 DEF BrowserInv, FileInv, FileOf
    <3>2. at'[c] # "bind"
      BY <1>3
    <3> QED BY <2>2, <3>1, <3>2 DEF Shares, OpenTabs
  <2>3. at'[c] \notin Working
    BY <1>3 DEF Working, Composing
  <2> QED BY <1>1, <2>1, <2>2, <2>3, FilesStay
<1>12. TextInv'
  <2>1. ASSUME NEW q \in Prompts, Typed(q)
        PROVE  \/ ended'[q] = ended[q] /\ (Begun(q) => Begun(q)')
               \/ ended'[q] # "no" /\ (ended'[q] = "answered" => q \in shaken')
    <3>1. CASE q = p
      <4>1. Begun(p) /\ (p \in shaken \/ at[c] = "identity")
        BY <1>1, <2>1, <3>1 DEF Typed, Begun, Delivering
      <4> QED BY <1>1, <1>2, <3>1, <4>1 DEF Begun, Delivering
    <3>2. CASE q # p
      BY <1>1, <3>2, BrowserAssumption DEF Begun
    <3> QED BY <3>1, <3>2
  <2>2. \A v \in Tabs : text'[v] \in {text[v], NoPrompt, Task}
    OBVIOUS
  <2> QED BY <1>8, <2>1, <2>2, TextStays
<1> QED BY <1>4, <1>5, <1>6, <1>7, <1>8, <1>9, <1>10, <1>11, <1>12 DEF BrowserInv

\* The binding of the answer is saved, or not.
LEMMA SaveBindingKeeps ==
  ASSUME BrowserInv, NEW c \in BrowserChats, SaveBinding(c)
  PROVE  BrowserInv'
<1>1. /\ at[c] = "bind"
      /\ \/ binding' = [binding EXCEPT ![c] = mine[c]] /\ NoFailure
         \/ Failure /\ binding' = binding
      /\ UNCHANGED <<fixed, browser, chatgpt, mine, tab, seen, answer, fetched, shaken,
                     astray, commands>>
  BY DEF SaveBinding
<1>2. at[c] \in Delivering /\ GoesOn(c)
  BY <1>1 DEF SaveBinding, GoesOn, Delivering
<1>3. /\ binding' \in [BrowserChats -> Bindings] /\ Sound(binding[c])'
      /\ \A d \in BrowserChats \ {c} : binding'[d] = binding[d]
      /\ binding'[c] \in {binding[c], mine[c]}
  BY <1>1, BoundIs DEF BrowserInv, Types, HoldTypes, Sound, fixed
<1>4. failures' \in 0..MaxFailures
  BY <1>1, CountIs DEF BrowserInv
<1>5. PageTypes' /\ OwnPages' /\ fetched' \in [Prompts -> Makes \cup {NoPrompt}]
  BY <1>1 DEF BrowserInv, Types, PageTypes, OutcomeTypes, PageInv, OwnPages, OpenTabs, fixed, browser
<1>6. /\ \A v \in OpenTabs : place'[v] = place[v] /\ (Shares(c, v) => binding'[c].tab = v)
      /\ \A v \in Tabs : text'[v] \in {text[v], NoPrompt}
  BY <1>1, <1>3 DEF Shares, browser
<1> QED BY <1>1, <1>2, <1>3, <1>4, <1>5, <1>6, AfterKeeps

\* A download looks the tab of the answer up, and navigates none that is there.
LEMMA RevisitKeeps ==
  ASSUME BrowserInv, NEW c \in BrowserChats, at[c] \in {"image", "file"},
         Fetched(c, at[c]), GoesOn(c), fetched' \in [Prompts -> Makes \cup {NoPrompt}],
         Missed(c) \/ \E t \in PageFor(mine[c]) : Revisit(c, t)
  PROVE  BrowserInv'
<1>1. /\ owner \in {NoChat, c}
      /\ UNCHANGED <<fixed, chatgpt, binding, mine, tab, seen, answer, shaken, astray, commands>>
  BY DEF Fetched
<1>2. at[c] \in Delivering /\ \A d \in BrowserChats : at[d] \notin Holding
  BY <1>1, BrowserAssumption DEF BrowserInv, LockInv, Delivering, Holding
<1>3. failures' \in 0..MaxFailures
  BY CountIs DEF BrowserInv, Missed, Revisit
<1>4. /\ PageTypes' /\ OwnPages' /\ \A v \in Tabs : text'[v] \in {text[v], NoPrompt}
      /\ mode = "dedicated" => \A v \in OpenTabs : place'[v] = place[v]
  <2>1. CASE Missed(c)
    BY <1>1, <2>1
    DEF BrowserInv, Types, PageTypes, PageInv, OwnPages, OpenTabs, Missed, fixed, browser
  <2>2. ASSUME NEW t \in PageFor(mine[c]), Revisit(c, t)
        PROVE  /\ PageTypes' /\ OwnPages' /\ \A v \in Tabs : text'[v] \in {text[v], NoPrompt}
               /\ mode = "dedicated" => \A v \in OpenTabs : place'[v] = place[v]
    <3> PICK u : u = Opened(mine[c], t)
      OBVIOUS
    <3>1. /\ t \in Tabs \ users /\ (mode = "embedded" => t = 1) /\ u \in Places
          /\ mode = "dedicated" /\ t \in OpenTabs => u = place[t]
      BY BoundIs, PageForIs DEF BrowserInv
    <3>2. Show(t, u) /\ marked' \subseteq marked \cup {t}
      BY <2>2 DEF Revisit, Mark
    <3>3. PageTypes' /\ OwnPages'
      BY <1>1, <3>1, <3>2, PagesStay
    <3>4. place' = [place EXCEPT ![t] = u] /\ \A v \in Tabs : text'[v] \in {text[v], NoPrompt}
      BY <3>1, <3>2, ShowIs DEF BrowserInv
    <3> QED BY <3>1, <3>3, <3>4 DEF BrowserInv, Types, PageTypes, OpenTabs
  <2> QED BY <2>1, <2>2
<1>5. binding' \in [BrowserChats -> Bindings] /\ Sound(binding[c])'
  BY <1>1, BoundIs DEF BrowserInv, Types, HoldTypes, Sound, fixed
<1>6. \A v \in OpenTabs : Shares(c, v) => binding'[c].tab = v
  BY <1>1 DEF Shares
<1> QED BY <1>1, <1>2, <1>3, <1>4, <1>5, <1>6, AfterKeeps

\* An image is fetched.
LEMMA FetchImageKeeps ==
  ASSUME BrowserInv, NEW c \in BrowserChats, FetchImage(c)
  PROVE  BrowserInv'
<1>1. at[c] = "image" /\ Fetched(c, at[c]) /\ fetched' = fetched
  BY DEF FetchImage, Fetched
<1>2. GoesOn(c)
  BY <1>1 DEF FetchImage, GoesOn, Delivering
<1>3. fetched' \in [Prompts -> Makes \cup {NoPrompt}]
  BY <1>1 DEF BrowserInv, Types, OutcomeTypes
<1> QED BY <1>1, <1>2, <1>3, RevisitKeeps DEF FetchImage

\* A file is fetched.
LEMMA FetchFileKeeps ==
  ASSUME BrowserInv, NEW c \in BrowserChats, FetchFile(c)
  PROVE  BrowserInv'
<1>1. at[c] = "file" /\ Fetched(c, at[c])
  BY DEF FetchFile, Fetched
<1>2. GoesOn(c)
  BY <1>1 DEF FetchFile, GoesOn, Delivering
<1>3. fetched' \in [Prompts -> Makes \cup {NoPrompt}]
  <2>1. fetched \in [Prompts -> Makes \cup {NoPrompt}] /\ found[c] \in Makes \cup {NoPrompt}
    BY DEF BrowserInv, Types, LocalTypes, OutcomeTypes
  <2>2. \A u : Cards(u) \subseteq Makes
    BY DEF Cards
  <2> QED BY <2>1, <2>2 DEF FetchFile, Streamed
<1> QED BY <1>1, <1>2, <1>3, RevisitKeeps DEF FetchFile

\* A prompt that failed binds its chat to the tab as it is.
LEMMA IdentityKeeps ==
  ASSUME BrowserInv, NEW c \in BrowserChats, Identity(c)
  PROVE  BrowserInv'
<1>1. /\ at[c] = "identity" /\ owner \in {NoChat, c} /\ GoesOn(c)
      /\ UNCHANGED <<fixed, browser, chatgpt, mine, tab, seen, answer, fetched, shaken,
                     astray, commands, failures>>
  BY DEF Identity, GoesOn
<1>2. mine[c] = binding[c]
  BY <1>1 DEF BrowserInv, JobInv
<1>3. /\ binding' \in [BrowserChats -> Bindings] /\ Sound(binding[c])'
      /\ \A d \in BrowserChats \ {c} : binding'[d] = binding[d]
      /\ mode = "dedicated" /\ binding[c].tab \in OpenTabs => binding'[c].tab = binding[c].tab
  <2>1. CASE binding' = binding
    BY <1>1, <2>1, BoundIs DEF BrowserInv, Types, HoldTypes, Sound, fixed
  <2>2. ASSUME NEW t \in Existing(mine[c]),
               binding' = [binding EXCEPT ![c] = [tab |-> t, url |-> place[t]]]
        PROVE  /\ binding' \in [BrowserChats -> Bindings] /\ Sound(binding[c])'
               /\ \A d \in BrowserChats \ {c} : binding'[d] = binding[d]
               /\ mode = "dedicated" /\ binding[c].tab \in OpenTabs =>
                    binding'[c].tab = binding[c].tab
    <3> PICK b : b = [tab |-> t, url |-> place[t]]
      OBVIOUS
    <3>1. /\ t \in OpenTabs /\ (mode = "embedded" => t = 1)
          /\ mode = "dedicated" /\ mine[c].tab \in OpenTabs => t = mine[c].tab
      BY BoundIs, ExistingIs DEF BrowserInv
    <3>2. b \in Bindings /\ b.tab = t /\ b.url = place[t] /\ place[t] \in Places
      BY <3>1, BoundIs DEF BrowserInv
    <3>3. t # 0 /\ place[t] # Unset
      BY <3>1, <3>2, PlacesAre, FirstOfIs DEF OpenTabs
    <3>4. binding'[c] = b /\ \A d \in BrowserChats \ {c} : binding'[d] = binding[d]
      BY <2>2 DEF BrowserInv, Types, HoldTypes
    <3>5. Sound(binding[c])'
      BY <1>1, <3>1, <3>2, <3>3, <3>4 DEF Sound, fixed
    <3>6. binding' \in [BrowserChats -> Bindings]
      BY <2>2, <3>2 DEF BrowserInv, Types, HoldTypes
    <3> QED BY <1>2, <3>1, <3>2, <3>4, <3>5, <3>6
  <2> QED BY <2>1, <2>2 DEF Identity
<1>4. PageTypes' /\ OwnPages' /\ fetched' \in [Prompts -> Makes \cup {NoPrompt}]
      /\ failures' \in 0..MaxFailures
  BY <1>1 DEF BrowserInv, Types, PageTypes, HoldTypes, OutcomeTypes, PageInv, OwnPages, OpenTabs, fixed,
      browser
<1>5. /\ mode = "dedicated" =>
           \A v \in OpenTabs : place'[v] = place[v] /\ (Shares(c, v) => binding'[c].tab = v)
      /\ \A v \in Tabs : text'[v] \in {text[v], NoPrompt}
  BY <1>1, <1>3 DEF Shares, browser
<1> QED BY <1>1, <1>3, <1>4, <1>5, AfterKeeps

-----------------------------------------------------------------------------
(* Prompts and answers                                                     *)

\* ChatGPT takes a prompt that was not sent before.
LEMMA AppendIs ==
  ASSUME BrowserInv, NEW p \in Prompts, p \notin Sent, NEW k \in Conversations,
         thread' = [thread EXCEPT ![k] = Append(@, p)]
  PROVE  /\ thread' \in [Conversations -> Seq(Prompts)]
         /\ thread'[k] # <<>> /\ Last(thread'[k]) = p
         /\ \A l \in Conversations \ {k} : thread'[l] = thread[l]
         /\ \A l \in Conversations : /\ Range(thread[l]) \subseteq Range(thread'[l])
                                     /\ Range(thread'[l]) \subseteq Range(thread[l]) \cup {p}
         /\ Sent' = Sent \cup {p}
         /\ \A l, m \in Conversations : \A i \in DOMAIN thread'[l], j \in DOMAIN thread'[m] :
              thread'[l][i] = thread'[m][j] => l = m /\ i = j
<1> USE DEF BrowserInv, Types, ThreadTypes
<1>1. \A l \in Conversations : thread[l] \in Seq(Prompts)
  OBVIOUS
<1>2. thread'[k] = Append(thread[k], p) /\ \A l \in Conversations \ {k} : thread'[l] = thread[l]
  OBVIOUS
<1>3. /\ Len(thread'[k]) = Len(thread[k]) + 1 /\ Len(thread[k]) \in Nat
      /\ thread'[k][Len(thread[k]) + 1] = p
      /\ \A i \in DOMAIN thread[k] : i \in DOMAIN thread'[k] /\ thread'[k][i] = thread[k][i]
      /\ DOMAIN thread'[k] = DOMAIN thread[k] \cup {Len(thread[k]) + 1}
      /\ Len(thread[k]) + 1 \notin DOMAIN thread[k]
      /\ thread'[k] \in Seq(Prompts)
  BY <1>1, <1>2
<1>4. thread' \in [Conversations -> Seq(Prompts)]
  BY <1>3
<1>5. thread'[k] # <<>> /\ Last(thread'[k]) = p
  BY <1>3 DEF Last
<1>6. \A l \in Conversations : Range(thread[l]) \subseteq Range(thread'[l])
  BY <1>2, <1>3 DEF Range
<1>7. \A l \in Conversations : \A i \in DOMAIN thread'[l] :
        \/ l = k /\ i = Len(thread[k]) + 1 /\ thread'[l][i] = p
        \/ i \in DOMAIN thread[l] /\ thread'[l][i] = thread[l][i] /\ thread[l][i] \in Sent
  <2>1. \A l \in Conversations : \A i \in DOMAIN thread[l] : thread[l][i] \in Sent
    BY <1>1 DEF Sent
  <2> QED BY <1>2, <1>3, <2>1
<1>10. \A l \in Conversations : Range(thread'[l]) \subseteq Range(thread[l]) \cup {p}
  BY <1>7 DEF Range
<1>8. Sent' = Sent \cup {p}
  <2>1. Sent' \subseteq Sent \cup {p}
    BY <1>7 DEF Sent
  <2>2. p \in Sent'
    BY <1>3 DEF Sent
  <2>3. ASSUME NEW q \in Sent PROVE q \in Sent'
    <3>1. PICK l \in Conversations : \E i \in DOMAIN thread[l] : thread[l][i] = q
      BY DEF Sent
    <3>2. \E i \in DOMAIN thread'[l] : thread'[l][i] = q
      BY <1>2, <1>3, <3>1
    <3> QED BY <3>2 DEF Sent
  <2> QED BY <2>1, <2>2, <2>3
<1>9. \A l, m \in Conversations : \A i \in DOMAIN thread'[l], j \in DOMAIN thread'[m] :
        thread'[l][i] = thread'[m][j] => l = m /\ i = j
  <2>1. \A l, m \in Conversations : \A i \in DOMAIN thread[l], j \in DOMAIN thread[m] :
          thread[l][i] = thread[m][j] => l = m /\ i = j
    BY DEF SentInv
  <2> QED BY <1>7, <2>1
<1> QED BY <1>2, <1>4, <1>5, <1>6, <1>8, <1>9, <1>10

\* It then answers this one, and nobody has the answer.
LEMMA AppendKeeps ==
  ASSUME BrowserInv, NEW c \in BrowserChats, NEW p \in Prompts, p \notin Sent,
         NEW k \in Conversations, thread' = [thread EXCEPT ![k] = Append(@, p)],
         busy' = busy \cup {k}, UNCHANGED <<answer, job, shaken>>,
         at[c] \in {"idle", "send"}, at'[c] \in {"idle", "wait", "identity"},
         \A d \in BrowserChats \ {c} : at'[d] = at[d],
         \A q \in Prompts \ {p} : ended'[q] = ended[q],
         ended'[p] \in {"started", ended[p]}, p \notin shaken => ~ Taken(p)',
         ended'[p] = "no" =>
           job[ChatOf[p]] = p /\ at'[ChatOf[p]] \in Delivering \cup {"wait", "identity"}
  PROVE  /\ SentInv' /\ FreshInv' /\ AnswerInv'
         /\ \A l \in Conversations : FreshLast(l) => l = k \/ FreshLast(l)'
<1>1. /\ thread'[k] # <<>> /\ Last(thread'[k]) = p /\ Sent' = Sent \cup {p}
      /\ \A l \in Conversations \ {k} : thread'[l] = thread[l]
      /\ \A l, m \in Conversations : \A i \in DOMAIN thread'[l], j \in DOMAIN thread'[m] :
           thread'[l][i] = thread'[m][j] => l = m /\ i = j
  BY AppendIs
<1>2. \A q \in Prompts : ChatOf[q] \in BrowserChats
  BY BrowserAssumption
<1>3. \A q \in Prompts : Taken(q)' => Taken(q)
  <2>1. \A q \in Prompts : ended'[q] = "answered" => ended[q] = "answered"
    OBVIOUS
  <2>2. \A q \in Prompts : at'[ChatOf[q]] \in Delivering => at[ChatOf[q]] \in Delivering
    BY <1>2 DEF Delivering
  <2> QED BY <2>1, <2>2 DEF Taken
<1>4. SentInv'
  <2>1. ASSUME NEW q \in Sent', ended'[q] = "no"
        PROVE  /\ job'[ChatOf[q]] = q
               /\ at'[ChatOf[q]] \in Delivering \cup {"wait", "identity"}
    <3>1. CASE q = p
      BY <2>1, <3>1
    <3>2. CASE q # p
      <4>1. q \in Sent /\ q \in Prompts /\ ended[q] = "no"
        BY <1>1, <2>1, <3>2 DEF Sent
      <4>2. job[ChatOf[q]] = q /\ at[ChatOf[q]] \in Delivering \cup {"wait", "identity"}
        BY <4>1 DEF BrowserInv, SentInv
      <4>3. ChatOf[q] # c
        BY <4>2 DEF Delivering
      <4> QED BY <1>2, <4>1, <4>2, <4>3
    <3> QED BY <3>1, <3>2
  <2>2. \A q \in Prompts : answer'[q] # NoPrompt => answer'[q] \in Sent'
    BY <1>1 DEF BrowserInv, SentInv
  <2> QED BY <1>1, <2>1, <2>2 DEF SentInv
<1>5. ASSUME NEW l \in Conversations \ {k}, FreshLast(l) PROVE FreshLast(l)'
  <2>1. PICK q : q = Last(thread[l])
    OBVIOUS
  <2>2. thread[l] # <<>> /\ Unshown(q) /\ q \in Prompts
    BY <1>5, <2>1, LastIs DEF BrowserInv, FreshLast
  <2>3. Unshown(q)'
    BY <1>3, <2>2, FreshStays
  <2> QED BY <1>1, <2>1, <2>2, <2>3 DEF FreshLast
<1>6. FreshInv'
  <2>1. Unshown(p)'
    <3>1. \A r \in Prompts : answer[r] # p
      BY BrowserAssumption DEF BrowserInv, SentInv
    <3> QED BY <3>1 DEF Unshown
  <2>2. FreshLast(k)'
    BY <1>1, <2>1 DEF FreshLast
  <2>3. \A l \in busy \ {k} : FreshLast(l)'
    BY <1>5 DEF BrowserInv, FreshInv, Types, ThreadTypes
  <2> QED BY <2>2, <2>3 DEF FreshInv
<1>7. AnswerInv'
  <2>1. ASSUME NEW r \in Prompts \ shaken, answer[r] \notin shaken \cup {r, NoPrompt}
        PROVE  \/ ended'[answer[r]] \in {"failed", "started"}
               \/ job[ChatOf[answer[r]]] = answer[r] /\ at'[ChatOf[answer[r]]] = "identity"
    <3> PICK q : q = answer[r]
      OBVIOUS
    <3>1. q \in Sent /\ q \in Prompts /\ q # p
      BY <2>1 DEF BrowserInv, SentInv, Types, OutcomeTypes
    <3>2. \/ ended[q] \in {"failed", "started"}
          \/ job[ChatOf[q]] = q /\ at[ChatOf[q]] = "identity"
      BY <2>1 DEF BrowserInv, AnswerInv
    <3>3. at[ChatOf[q]] = "identity" => at'[ChatOf[q]] = "identity"
      BY <1>2, <3>1
    <3> QED BY <3>1, <3>2, <3>3
  <2>2. \A q, r \in Prompts \ shaken : q # r /\ answer[q] # NoPrompt => answer[q] # answer[r]
    BY DEF BrowserInv, AnswerInv
  <2> QED BY <2>1, <2>2 DEF AnswerInv
<1> QED BY <1>4, <1>5, <1>6, <1>7

\* What is about to be sent has not been: the prompt itself, until the browser is
\* lost, and else one that the loss met.
LEMMA NotSentIs ==
  ASSUME BrowserInv, NEW c \in BrowserChats, at[c] = "send", CanSend(c)
  PROVE  /\ job[c] \in Prompts /\ ChatOf[job[c]] = c /\ ended[job[c]] = "no" /\ job[c] \notin Sent
         /\ tab[c] \in Tabs /\ (job[c] \notin shaken => tab[c] \notin users)
         /\ mode = "embedded" => tab[c] = 1
         /\ text[tab[c]] \in Prompts /\ Typed(text[tab[c]])
         /\ IF job[c] \in shaken THEN text[tab[c]] \in shaken ELSE text[tab[c]] = job[c]
         /\ text[tab[c]] \in WithFiles \ shaken => chips[tab[c]] = {text[tab[c]]}
         /\ \A v \in Tabs \ {tab[c]} :
              text[v] # text[tab[c]] /\ (text[v] = job[c] => job[c] \in shaken)
<1>1. at[c] \in Holding /\ at[c] # "page"
  BY DEF Holding
<1>2. /\ job[c] \in Prompts /\ ChatOf[job[c]] = c /\ ended[job[c]] = "no" /\ ComposerOf(c)
      /\ tab[c] \in Tabs /\ (job[c] \notin shaken => tab[c] \notin users)
      /\ mode = "embedded" => tab[c] = 1
  BY <1>1, HeldIs
<1>3. job[c] \notin Sent
  BY <1>2 DEF BrowserInv, SentInv, Delivering
<1>4. text[tab[c]] \in Prompts
  BY DEF CanSend
<1>5. Typed(text[tab[c]]) /\ \A v \in Tabs \ {tab[c]} : text[v] # text[tab[c]]
  BY <1>2, <1>4 DEF BrowserInv, TextInv
<1>6. IF job[c] \in shaken THEN text[tab[c]] \in shaken ELSE text[tab[c]] = job[c]
  BY <1>1, <1>2, <1>4, BrowserAssumption DEF ComposerOf
<1>7. text[tab[c]] \in WithFiles \ shaken => chips[tab[c]] = {text[tab[c]]}
  BY <1>2, <1>6 DEF ComposerOf
<1> QED BY <1>2, <1>3, <1>4, <1>5, <1>6, <1>7

\* What is typed when a prompt is sent or given up.
LEMMA HeldText ==
  ASSUME BrowserInv, NEW c \in BrowserChats, at[c] \in Holding, at'[c] \in {"wait", "identity"},
         \A d \in BrowserChats \ {c} : at'[d] = at[d], UNCHANGED <<job, ended, shaken>>,
         \A v \in Tabs : text'[v] \in {text[v], NoPrompt},
         \A v \in Tabs : text'[v] \in Prompts =>
           /\ text'[v] \notin Sent'
           /\ text'[v] = job[c] /\ at'[c] = "wait" => job[c] \in shaken
  PROVE  TextInv'
<1>1. ASSUME NEW p \in Prompts, Typed(p), p \notin Sent',
             p = job[c] /\ at'[c] = "wait" => job[c] \in shaken
      PROVE  Typed(p)'
  <2>1. Begun(p) => Begun(p)'
    BY <1>1, BrowserAssumption DEF Begun
  <2> QED BY <1>1, <2>1 DEF Typed
<1>2. \A v \in Tabs : text'[v] \in Prompts => text'[v] = text[v]
  BY BrowserAssumption
<1> QED BY <1>1, <1>2 DEF BrowserInv, TextInv

\* The prompt is sent, whether the call that does so returns or fails.
LEMMA SubmitKeeps ==
  ASSUME BrowserInv, NEW c \in BrowserChats, at[c] = "send", tab[c] \in OpenTabs, CanSend(c),
         Submit(tab[c]), NEW s \in {"wait", "identity"}, To(c, s),
         UNCHANGED <<fixed, marked, binding, outer, job, mine, tab, seen, found, outcome,
                     commands>>,
         failures' \in 0..MaxFailures,
         owner' \in BrowserChats \cup {NoChat}, s = "wait" => owner' = owner,
         s = "identity" => owner' = Released(c)
  PROVE  BrowserInv'
<1> USE DEF fixed, outcome
<1> PICK p : p = job[c]
  OBVIOUS
<1> PICK t : t = tab[c]
  OBVIOUS
<1> PICK q : q = text[t]
  OBVIOUS
<1>1. /\ p \in Prompts /\ ChatOf[p] = c /\ ended[p] = "no"
      /\ t \in Tabs /\ (mode = "embedded" => t = 1) /\ t \in OpenTabs
      /\ q \in Prompts /\ Typed(q) /\ q \notin Sent
      /\ IF p \in shaken THEN q \in shaken ELSE q = p
      /\ q \in WithFiles \ shaken => chips[t] = {q}
      /\ \A v \in Tabs \ {t} : text[v] # q /\ (text[v] = p => p \in shaken)
  BY NotSentIs DEF Typed
<1>2. PICK k \in Target(place[t]) :
        /\ thread' = [thread EXCEPT ![k] = Append(@, q)]
        /\ known' = known \cup {k} /\ busy' = busy \cup {k}
        /\ files' = [files EXCEPT ![q] = chips[t]]
        /\ place' = [place EXCEPT ![t] = k]
        /\ text' = [text EXCEPT ![t] = NoPrompt] /\ chips' = [chips EXCEPT ![t] = {}]
  BY <1>1 DEF Submit
<1>3. k \in Conversations /\ (place[t] \in Conversations => k = place[t])
  BY DEF Target
<1>4. /\ at' \in [BrowserChats -> PromptSteps] /\ at'[c] = s
      /\ \A d \in BrowserChats \ {c} : at'[d] = at[d]
  BY DEF BrowserInv, Types, LocalTypes, To, PromptSteps
<1>5. owner = c /\ \A d \in BrowserChats \ {c} : at[d] \notin Holding
  BY HolderIs DEF Holding
<1>6. /\ thread' \in [Conversations -> Seq(Prompts)]
      /\ thread'[k] # <<>> /\ Last(thread'[k]) = q /\ Sent' = Sent \cup {q}
      /\ \A l \in Conversations : /\ Range(thread[l]) \subseteq Range(thread'[l])
                                  /\ Range(thread'[l]) \subseteq Range(thread[l]) \cup {q}
  BY <1>1, <1>2, <1>3, AppendIs
<1>7. \A v \in Tabs : place'[v] = IF v = t THEN k ELSE place[v]
  BY <1>2 DEF BrowserInv, Types, PageTypes
<1>8. Types'
  <2>1. chips[t] \in SUBSET (Prompts \cup {Upload})
    BY <1>1 DEF BrowserInv, Types, PageTypes
  <2>2. PageTypes'
    BY <1>2, <1>3, PlacesAre DEF BrowserInv, Types, PageTypes
  <2>3. ThreadTypes'
    BY <1>2, <1>3, <1>6, <2>1 DEF BrowserInv, Types, ThreadTypes
  <2> QED
    BY <1>4, <2>2, <2>3 DEF BrowserInv, Types, HoldTypes, LocalTypes, OutcomeTypes
<1>9. PageInv'
  <2>1. \A v \in users : v \in Tabs /\ place'[v] # "closed"
    BY <1>1, <1>3, <1>7, PlacesAre DEF BrowserInv, Types, PageTypes, PageInv, OwnPages
  <2>2. mode = "embedded" => OpenTabs' = {1}
    BY <1>1, <1>3, <1>7, PlacesAre DEF BrowserInv, PageInv, OwnPages, OpenTabs
  <2>3. OwnPages'
    BY <2>1, <2>2 DEF BrowserInv, PageInv, OwnPages
  <2>4. \A d \in BrowserChats : at'[d] \in Working => at[d] \in Working
    BY <1>4 DEF Working, Composing
  <2> QED BY <2>3, <2>4 DEF BrowserInv, PageInv, BoundOf, Sound
<1>10. LockInv'
  BY <1>4, <1>5 DEF BrowserInv, LockInv, Holding, Released
<1>11. JobInv'
  BY <1>4 DEF BrowserInv, JobInv, Holding
<1>12. WorkInv'
  <2>1. TabOf(c)'
    BY <1>3, <1>4, <1>7, <1>1, PlacesAre DEF TabOf, OpenTabs, Working, Composing
  <2>2. OwnTabOf(c)'
    BY <1>4 DEF OwnTabOf, Composing
  <2>5. ComposerOf(c)'
    <3>1. p \in shaken => \A v \in Tabs : text[v] \in shaken \cup {NoPrompt, Task}
      BY HeldIs DEF ComposerOf, Holding
    <3>2. \A v \in Tabs : text'[v] \in {text[v], NoPrompt}
      BY <1>2 DEF BrowserInv, Types, PageTypes
    <3> QED BY <1>4, <3>1, <3>2 DEF ComposerOf
  <2>3. SeenOf(c)'
    BY <1>1, <1>4, <1>6 DEF SeenOf, Composing
  <2>4. WaitOf(c)'
    BY <1>1, <1>3, <1>6, <1>7 DEF WaitOf
  <2> QED BY <1>4, <1>5, <2>1, <2>2, <2>3, <2>4, <2>5, WorkKept
<1>13. SentInv' /\ FreshInv' /\ AnswerInv'
  <2>1. q \notin shaken => ~ Taken(q)'
    BY <1>1, <1>4 DEF Taken, Delivering
  <2>2. ended[q] = "no" => job[ChatOf[q]] = q /\ at'[ChatOf[q]] \in Delivering \cup {"wait", "identity"}
    <3>1. ended[q] = "no" => Begun(q) /\ ChatOf[q] \in BrowserChats
      BY <1>1, BrowserAssumption DEF Typed
    <3>2. Begun(q) /\ ChatOf[q] # c => at[ChatOf[q]] # "send"
      BY <1>1, <1>5, BrowserAssumption DEF Begun, Holding
    <3> QED BY <1>4, <3>1, <3>2 DEF Begun
  <2> QED BY <1>1, <1>2, <1>3, <1>4, <2>1, <2>2, AppendKeeps
<1>17. TextInv'
  <2>1. \A v \in Tabs : text'[v] = IF v = t THEN NoPrompt ELSE text[v]
    BY <1>2 DEF BrowserInv, Types, PageTypes
  <2>2. \A v \in Tabs : text[v] \in Prompts => text[v] \notin Sent
    BY DEF BrowserInv, TextInv, Typed
  <2>3. \A v \in Tabs : text'[v] \in Prompts =>
          /\ text'[v] \notin Sent'
          /\ text'[v] = job[c] /\ at'[c] = "wait" => job[c] \in shaken
    BY <1>1, <1>6, <2>1, <2>2, BrowserAssumption
  <2>4. at[c] \in Holding /\ at'[c] \in {"wait", "identity"}
    BY <1>4 DEF Holding
  <2>5. \A v \in Tabs : text'[v] \in {text[v], NoPrompt}
    BY <2>1
  <2> QED BY <1>4, <2>3, <2>4, <2>5, HeldText
<1>14. ShakenInv'
  <2>1. at'[c] \notin Delivering \cup {"lock"}
    BY <1>4 DEF Delivering
  <2>2. at'[c] \in Holding => at[c] \in Holding
    BY DEF Holding
  <2> QED BY <1>4, <2>1, <2>2 DEF BrowserInv, ShakenInv
<1>15. FileInv'
  <2>1. FileOf(c)'
    BY <1>4 DEF FileOf, Delivering
  <2>2. ASSUME NEW e \in BrowserChats \ {c}, mode = "dedicated", at[e] \in Delivering,
               job[e] \notin shaken
        PROVE  /\ place'[mine[e].tab] # "closed"
               /\ \/ place'[mine[e].tab] = place[mine[e].tab]
                  \/ place[mine[e].tab] \notin Conversations \cup {"aside"}
                  \/ Shares(c, mine[e].tab)'
               /\ Shares(c, mine[e].tab) => Shares(c, mine[e].tab)'
               /\ at'[c] \in Working /\ binding'[c].tab = mine[e].tab => tab'[c] = mine[e].tab
    <3> PICK u : u = mine[e].tab
      OBVIOUS
    <3>1. u \in OpenTabs /\ \A d \in BrowserChats : at[d] \in Working /\ binding[d].tab = u => tab[d] = u
      BY <2>2 DEF BrowserInv, FileInv, FileOf
    <3>2. p \notin shaken
      BY <2>2 DEF BrowserInv, ShakenInv, Holding
    <3>3. place[t] # "aside" /\ (t = mine[c].tab \/ place[t] = Wanted(mine[c]))
      BY <2>2, <3>2 DEF BrowserInv, WorkInv, OwnTabOf, Composing
    <3>4. mine[c] = binding[c]
      BY DEF BrowserInv, JobInv, Holding
    <3>5. place'[u] = place[u] \/ place[u] \notin Conversations \cup {"aside"}
      BY <1>3, <1>7, <3>1, <3>3 DEF OpenTabs
    <3>6. Shares(c, u) => Shares(c, u)'
      BY <1>4 DEF Shares
    <3>7. place'[u] # "closed"
      BY <1>3, <1>7, <3>1, PlacesAre DEF OpenTabs
    <3>8. at[c] \in Working
      BY DEF Working, Composing
    <3> QED BY <3>1, <3>5, <3>6, <3>7, <3>8 DEF Shares
  <2> QED BY <1>4, <1>6, <2>1, <2>2, FilesStay
<1>16. SentWithItsFiles'
  <2>1. files'[q] = chips[t] /\ \A r \in Prompts \ {q} : files'[r] = files[r]
    BY <1>1, <1>2 DEF BrowserInv, Types, ThreadTypes
  <2> QED BY <1>1, <1>6, <2>1, BrowserAssumption DEF BrowserInv, SentWithItsFiles
<1> QED
  BY <1>8, <1>9, <1>10, <1>11, <1>12, <1>13, <1>14, <1>15, <1>16, <1>17 DEF BrowserInv

\* A chat waits for an answer to nothing, or gives its prompt up.
LEMMA LeaveKeeps ==
  ASSUME BrowserInv, NEW c \in BrowserChats, at[c] \in Holding,
         NEW s \in {"wait", "identity"}, To(c, s),
         UNCHANGED <<fixed, chatgpt, binding, outer, job, mine, tab, seen, found, outcome,
                     commands>>,
         PageTypes', OwnPages', failures' \in 0..MaxFailures,
         owner' \in BrowserChats \cup {NoChat},
         s = "identity" => owner' = Released(c),
         s = "wait" =>
           at[c] = "send" /\ owner' = owner /\ place' = place /\ job[c] \notin Sent,
         \A t \in Tabs : text'[t] \in {text[t], NoPrompt},
         s = "wait" => \A t \in Tabs : text'[t] = job[c] => job[c] \in shaken,
         mode = "dedicated" /\ job[c] \notin shaken =>
           \A t \in OpenTabs :
             place'[t] = place[t] \/ (place'[t] # "closed" /\ binding[c].tab = t)
  PROVE  BrowserInv'
<1> USE DEF fixed, outcome, chatgpt
<1>1. /\ at' \in [BrowserChats -> PromptSteps] /\ at'[c] = s
      /\ \A d \in BrowserChats \ {c} : at'[d] = at[d]
  BY DEF BrowserInv, Types, LocalTypes, To, PromptSteps
<1>2. owner = c /\ \A d \in BrowserChats \ {c} : at[d] \notin Holding
  BY HolderIs
<1>3. Types'
  BY <1>1 DEF BrowserInv, Types, ThreadTypes, HoldTypes, LocalTypes, OutcomeTypes
<1>4. at'[c] \in Working => at[c] \in Working
  BY <1>1 DEF Working, Composing
<1>5. PageInv'
  BY <1>1, <1>4 DEF BrowserInv, PageInv, BoundOf, Sound
<1>6. LockInv'
  BY <1>1, <1>2 DEF BrowserInv, LockInv, Holding, Released
<1>7. JobInv'
  BY <1>1 DEF BrowserInv, JobInv, Holding
<1>8. /\ SentInv' /\ FreshInv' /\ AnswerInv' /\ SentWithItsFiles'
      /\ Sent' = Sent /\ \A k \in Conversations : FreshLast(k) => FreshLast(k)'
  <2>1. \A q \in Prompts : Taken(q)' => Taken(q)
    BY <1>1, BrowserAssumption DEF Taken, Delivering
  <2>2. ASSUME NEW q \in Prompts, at[ChatOf[q]] \in Delivering \cup {"wait", "identity"}
        PROVE  /\ at'[ChatOf[q]] \in Delivering \cup {"wait", "identity"}
               /\ at[ChatOf[q]] = "identity" => at'[ChatOf[q]] = "identity"
    <3>1. CASE ChatOf[q] = c
      BY <1>1, <2>2, <3>1 DEF Holding
    <3>2. CASE ChatOf[q] # c
      BY <1>1, <2>2, <3>2, BrowserAssumption
    <3> QED BY <3>1, <3>2
  <2> QED BY <2>1, <2>2, QuietKeeps
<1>9. WorkInv'
  <2>1. TabOf(c) /\ SeenOf(c)
    BY DEF BrowserInv, WorkInv
  <2>2. TabOf(c)'
    BY <1>1, <2>1 DEF TabOf, OpenTabs, Working, Composing
  <2>3. OwnTabOf(c)'
    BY <1>1 DEF OwnTabOf, Composing
  <2>6. ComposerOf(c)'
    <3>1. job[c] \in shaken => \A v \in Tabs : text[v] \in shaken \cup {NoPrompt, Task}
      BY HeldIs DEF ComposerOf
    <3> QED BY <1>1, <3>1 DEF ComposerOf
  <2>4. WaitOf(c)'
    BY <1>1, <1>8 DEF WaitOf
  <2>5. SeenOf(c)'
    <3>1. CASE s = "identity"
      BY <1>1, <3>1 DEF SeenOf, Composing
    <3>2. CASE s = "wait"
      <4>1. ASSUME NEW k \in Conversations, k = place[tab[c]], job[c] \notin shaken
            PROVE  seen[c][1] = Len(thread[k]) /\ (seen[c][2] = "grows" => FreshLast(k)')
        <5>1. seen[c][1] = Len(thread[k]) /\ (seen[c][2] = "grows" => FreshLast(k))
          BY <2>1, <3>2, <4>1 DEF SeenOf, Composing
        <5> QED BY <1>8, <5>1
      <4>2. job[c] \notin shaken /\ place[tab[c]] \in Conversations
            => /\ seen[c][1] = Len(thread[place[tab[c]]])
               /\ seen[c][2] = "grows" =>
                    thread'[place[tab[c]]] # <<>> /\ Unshown(Last(thread[place[tab[c]]]))'
        BY <3>2, <4>1 DEF FreshLast
      <4> QED BY <3>2, <4>2 DEF SeenOf, FreshLast
    <3> QED BY <3>1, <3>2
  <2> QED BY <1>1, <1>2, <2>2, <2>3, <2>4, <2>5, <2>6, WorkKept
<1>12. TextInv'
  <2>1. \A v \in Tabs : text[v] \in Prompts => text[v] \notin Sent'
    BY <1>8 DEF BrowserInv, TextInv, Typed
  <2> QED BY <1>1, <2>1, HeldText, BrowserAssumption
<1>10. ShakenInv'
  <2>1. at'[c] \notin Delivering \cup {"lock"}
    BY <1>1 DEF Delivering
  <2> QED BY <1>1, <2>1 DEF BrowserInv, ShakenInv
<1>11. FileInv'
  <2>1. FileOf(c)'
    BY <1>1 DEF FileOf, Delivering
  <2>2. ASSUME NEW e \in BrowserChats \ {c}, mode = "dedicated", at[e] \in Delivering,
               job[e] \notin shaken
        PROVE  /\ place'[mine[e].tab] # "closed"
               /\ \/ place'[mine[e].tab] = place[mine[e].tab]
                  \/ Shares(c, mine[e].tab)'
               /\ Shares(c, mine[e].tab) => Shares(c, mine[e].tab)'
               /\ at'[c] \in Working /\ binding'[c].tab = mine[e].tab => tab'[c] = mine[e].tab
    <3> PICK u : u = mine[e].tab
      OBVIOUS
    <3>1. u \in OpenTabs /\ \A d \in BrowserChats : at[d] \in Working /\ binding[d].tab = u => tab[d] = u
      BY <2>2 DEF BrowserInv, FileInv, FileOf
    <3>2. job[c] \notin shaken
      BY <2>2 DEF BrowserInv, ShakenInv
    <3>3. place'[u] = place[u] \/ (place'[u] # "closed" /\ binding[c].tab = u)
      BY <2>2, <3>1, <3>2
    <3>4. binding[c].tab = u => Shares(c, u)'
      BY <1>1 DEF Shares
    <3>5. Shares(c, u) => binding[c].tab = u
      BY DEF Shares
    <3>6. place[u] # "closed"
      BY <3>1 DEF OpenTabs
    <3> QED BY <1>4, <3>1, <3>3, <3>4, <3>5, <3>6 DEF Shares
  <2> QED BY <1>1, <2>1, <2>2, FilesStay
<1> QED
  BY <1>3, <1>5, <1>6, <1>7, <1>8, <1>9, <1>10, <1>11, <1>12 DEF BrowserInv

\* The prompt is sent, or refused.
LEMMA SendKeeps ==
  ASSUME BrowserInv, NEW c \in BrowserChats, Send(c)
  PROVE  BrowserInv'
<1>1. /\ at[c] = "send" /\ tab[c] \in OpenTabs /\ CanSend(c) /\ To(c, "wait")
      /\ UNCHANGED <<fixed, marked, binding, owner, outer, job, mine, tab, seen, found,
                     outcome, commands>>
  BY DEF Send
<1>2. failures' \in 0..MaxFailures
  BY CountIs DEF BrowserInv, Send
<1>3. owner' \in BrowserChats \cup {NoChat}
  BY <1>1 DEF BrowserInv, Types, HoldTypes
<1>4. CASE Submit(tab[c])
  BY <1>1, <1>2, <1>3, <1>4, SubmitKeeps
<1>5. CASE /\ text' = [text EXCEPT ![tab[c]] = NoPrompt] /\ chips' = [chips EXCEPT ![tab[c]] = {}]
           /\ UNCHANGED <<place, chatgpt>>
  <2>1. job[c] \notin Sent /\ at[c] \in Holding
    BY <1>1, NotSentIs DEF Holding
  <2>3. \A v \in Tabs : text'[v] = IF v = tab[c] THEN NoPrompt ELSE text[v]
    BY <1>5 DEF BrowserInv, Types, PageTypes
  <2>4. \A v \in Tabs : text'[v] = job[c] => job[c] \in shaken
    BY <1>1, <2>3, NotSentIs, BrowserAssumption
  <2>2. PageTypes' /\ OwnPages'
    BY <1>1, <1>5 DEF BrowserInv, Types, PageTypes, PageInv, OwnPages, OpenTabs, fixed, outcome
  <2> QED BY <1>1, <1>2, <1>3, <1>5, <2>1, <2>2, <2>3, <2>4, LeaveKeeps
<1> QED BY <1>4, <1>5 DEF Send

\* The prompt fails, and leaves what it did.
LEMMA FailKeeps ==
  ASSUME BrowserInv, NEW c \in BrowserChats, Fail(c)
  PROVE  BrowserInv'
<1>1. /\ owner = c /\ at[c] \in Holding /\ owner' = Released(c) /\ To(c, "identity")
      /\ UNCHANGED <<fixed, binding, outer, job, mine, tab, seen, found, outcome, commands>>
  BY DEF Fail
<1>2. failures' \in 0..MaxFailures
  BY CountIs DEF BrowserInv, Fail
<1>3. owner' \in BrowserChats \cup {NoChat}
  BY <1>1 DEF Released
<1>4. /\ mine[c] = binding[c] /\ mine[c] \in Bindings /\ OwnTabOf(c) /\ job[c] \in Prompts
      /\ at[c] # "page" => tab[c] \in Tabs /\ (mode = "embedded" => tab[c] = 1)
  BY <1>1, HeldIs
<1>5. CASE /\ UNCHANGED chatgpt /\ PageTypes' /\ OwnPages'
           /\ \A v \in Tabs : text'[v] \in {text[v], NoPrompt}
           /\ mode = "dedicated" /\ job[c] \notin shaken =>
                \A t \in OpenTabs :
                  place'[t] = place[t] \/ (place'[t] # "closed" /\ binding[c].tab = t)
  BY <1>1, <1>2, <1>3, <1>5, LeaveKeeps
<1>6. CASE UNCHANGED <<browser, chatgpt>>
  <2>1. PageTypes' /\ OwnPages'
    BY <1>1, <1>6
    DEF BrowserInv, Types, PageTypes, PageInv, OwnPages, OpenTabs, fixed, outcome, browser
  <2> QED BY <1>5, <1>6, <2>1 DEF browser
<1>7. ASSUME mode = "shared", UNCHANGED <<marked, chatgpt>>,
             NEW t \in PageFor(mine[c]), Show(t, Wanted(mine[c]))
      PROVE  BrowserInv'
  <2>1. t \in Tabs \ users /\ (mode = "embedded" => t = 1)
    BY BoundIs, PageForIs DEF BrowserInv
  <2>2. Wanted(mine[c]) \in Places
    BY <1>4, PlacesAre DEF Wanted, Bindings
  <2>3. PageTypes' /\ OwnPages'
    BY <1>1, <1>7, <2>1, <2>2, PagesStay DEF outcome
  <2>4. \A v \in Tabs : text'[v] \in {text[v], NoPrompt}
    BY <1>7, <2>1, <2>2, ShowIs DEF BrowserInv
  <2> QED BY <1>5, <1>7, <2>3, <2>4
<1>8. ASSUME at[c] = "restore", tab[c] \in OpenTabs, Show(tab[c], RestoredTo(mine[c], place[tab[c]])),
             UNCHANGED <<marked, chatgpt>>
      PROVE  BrowserInv'
  <2> PICK t : t = tab[c]
    OBVIOUS
  <2> PICK u : u = RestoredTo(mine[c], place[t])
    OBVIOUS
  <2>1. /\ place[t] \in Places /\ u \in Places /\ t \in Tabs
        /\ mode = "embedded" => t = 1
        /\ place[t] = Wanted(mine[c]) => u = place[t]
    BY <1>4, <1>8, BoundIs, RestoredToIs DEF BrowserInv
  <2>2. PageTypes' /\ OwnPages'
    BY <1>1, <1>8, <2>1, PagesStay DEF outcome
  <2>3. /\ \A v \in Tabs : place'[v] = IF v = t THEN u ELSE place[v]
        /\ \A v \in Tabs : text'[v] \in {text[v], NoPrompt}
    BY <1>8, <2>1, ShowIs DEF BrowserInv, Types, PageTypes
  <2>4. mode = "dedicated" /\ job[c] \notin shaken => t = mine[c].tab \/ place[t] = Wanted(mine[c])
    BY <1>4, <1>8 DEF OwnTabOf
  <2> QED BY <1>4, <1>5, <1>8, <2>1, <2>2, <2>3, <2>4, PlacesAre DEF OpenTabs
<1>9. ASSUME at[c] = "files", NEW s \in {{}, {job[c]}}, chips' = [chips EXCEPT ![tab[c]] = s],
             UNCHANGED <<place, text, marked, chatgpt>>
      PROVE  BrowserInv'
  <2>1. s \in SUBSET (Prompts \cup {Upload})
    BY <1>4
  <2>2. PageTypes' /\ OwnPages'
    BY <1>1, <1>9, <2>1
    DEF BrowserInv, Types, PageTypes, PageInv, OwnPages, OpenTabs, fixed, outcome
  <2> QED BY <1>5, <1>9, <2>2
<1>10. CASE at[c] = "send" /\ tab[c] \in OpenTabs /\ CanSend(c) /\ Submit(tab[c]) /\ UNCHANGED marked
  BY <1>1, <1>2, <1>3, <1>10, SubmitKeeps
<1> QED BY <1>6, <1>7, <1>8, <1>9, <1>10 DEF Fail, LeftOver, Shown

\* A command sends a prompt and does not wait.
LEMMA StartToolKeeps ==
  ASSUME BrowserInv, NEW c \in BrowserChats, NEW p \in Prompts, StartTool(c, p)
  PROVE  BrowserInv'
<1> USE DEF fixed, prompt
<1>1. /\ at[c] = "idle" /\ owner = NoChat /\ commands < MaxCommands /\ commands' = commands + 1
      /\ UNCHANGED <<fixed, owner, outer, prompt, answer, fetched, shaken, files>>
      /\ ChatOf[p] = c /\ p \notin WithFiles /\ ended[p] = "no"
      /\ ended' = [ended EXCEPT ![p] = "started"]
  BY DEF StartTool, Command
<1>2. PICK t \in PageFor(binding[c]), k \in Conversations :
        /\ thread' = [thread EXCEPT ![k] = Append(@, p)]
        /\ known' = known \cup {k} /\ busy' = busy \cup {k}
        /\ place' = [place EXCEPT ![t] = k]
        /\ Rebind(c, t, k)
        /\ text' = [text EXCEPT ![t] = NoPrompt] /\ chips' = [chips EXCEPT ![t] = {}]
        /\ Mark(t)
  BY DEF StartTool, Target
<1>3. k \in Conversations /\ k \in Places
  BY PlacesAre
<1>4. /\ t \in Tabs \ users /\ (mode = "embedded" => t = 1)
      /\ mode = "dedicated" /\ binding[c].tab \in OpenTabs => t = binding[c].tab
  BY BoundIs, PageForIs DEF BrowserInv
<1>5. (\A d \in BrowserChats : at[d] \notin Holding) /\ outer = {}
  BY <1>1, NobodyHolds
<1>6. job[c] = NoPrompt /\ p # NoPrompt /\ NoPrompt \notin Prompts
  BY <1>1, BrowserAssumption DEF BrowserInv, JobInv
<1>7. p \notin Sent /\ p \notin shaken
  BY <1>1, <1>6 DEF BrowserInv, SentInv, ShakenInv
<1>8. /\ thread' \in [Conversations -> Seq(Prompts)] /\ Sent' = Sent \cup {p}
      /\ \A l \in Conversations : /\ Range(thread[l]) \subseteq Range(thread'[l])
                                  /\ Range(thread'[l]) \subseteq Range(thread[l]) \cup {p}
  BY <1>2, <1>3, <1>7, AppendIs
<1> PICK b : b = [tab |-> t, url |-> k]
  OBVIOUS
<1>9. b \in Bindings /\ b.tab = t /\ b.url = k /\ t # 0 /\ k # Unset
  BY <1>3, <1>4, BoundIs, PlacesAre, FirstOfIs DEF BrowserInv
<1>10. \/ binding' = [binding EXCEPT ![c] = b] /\ astray' = astray
       \/ binding' = binding /\ astray' = astray \cup {t}
  BY <1>2 DEF Rebind
<1>11. /\ binding' \in [BrowserChats -> Bindings] /\ binding'[c] \in {b, binding[c]}
       /\ \A d \in BrowserChats \ {c} : binding'[d] = binding[d]
       /\ t \in astray' \/ binding'[c] = b
  BY <1>9, <1>10 DEF BrowserInv, Types, HoldTypes
<1>12. \A v \in Tabs : place'[v] = IF v = t THEN k ELSE place[v]
  BY <1>2 DEF BrowserInv, Types, PageTypes
<1>13. Types'
  <2>1. PageTypes'
    BY <1>1, <1>2, <1>3, <1>4, <1>10 DEF BrowserInv, Types, PageTypes, Mark
  <2>2. ThreadTypes'
    BY <1>1, <1>2, <1>3, <1>8 DEF BrowserInv, Types, ThreadTypes
  <2>3. HoldTypes'
    BY <1>1, <1>2, <1>11, CountIs DEF BrowserInv, Types, HoldTypes, Rebind
  <2>4. LocalTypes' /\ OutcomeTypes'
    BY <1>1 DEF BrowserInv, Types, LocalTypes, OutcomeTypes
  <2> QED BY <2>1, <2>2, <2>3, <2>4 DEF Types
<1>14. PageInv'
  <2>1. \A v \in users : v \in Tabs /\ place'[v] = place[v]
    BY <1>4, <1>12 DEF BrowserInv, Types, PageTypes
  <2>2. mode = "embedded" => OpenTabs' = {1}
    BY <1>3, <1>4, <1>12, PlacesAre DEF BrowserInv, PageInv, OwnPages, OpenTabs
  <2>3. users \cap marked' = {}
    BY <1>2, <1>4 DEF Mark, BrowserInv, PageInv, OwnPages
  <2>4. OwnPages'
    BY <1>1, <2>1, <2>2, <2>3 DEF BrowserInv, PageInv, OwnPages
  <2>5. Sound(b)'
    BY <1>1, <1>4, <1>9 DEF Sound
  <2>6. \A d \in BrowserChats : Sound(binding[d])' /\ Sound(mine[d])'
    BY <1>1, <1>11, <2>5 DEF BrowserInv, PageInv, BoundOf, Sound
  <2> QED BY <1>1, <2>4, <2>6 DEF BrowserInv, PageInv, BoundOf
<1>15. LockInv'
  BY <1>1 DEF BrowserInv, LockInv
<1>16. JobInv'
  <2>1. \A d \in BrowserChats : job[d] # p
    BY <1>1, <1>6 DEF BrowserInv, JobInv
  <2>2. \A d \in BrowserChats : job[d] # NoPrompt => ended'[job[d]] = ended[job[d]]
    BY <1>1, <2>1 DEF BrowserInv, Types, LocalTypes, OutcomeTypes
  <2>3. at[c] \notin Holding \cup {"lock", "identity"}
    BY <1>1 DEF Holding
  <2> QED BY <1>1, <1>11, <2>2, <2>3 DEF BrowserInv, JobInv
<1>17. WorkInv'
  BY <1>1, <1>5, AloneWorks
<1>18. /\ ended'[p] = "started" /\ \A q \in Prompts \ {p} : ended'[q] = ended[q]
  BY <1>1 DEF BrowserInv, Types, OutcomeTypes
<1>19. SentInv' /\ FreshInv' /\ AnswerInv'
  <2>1. ~ Taken(p)'
    BY <1>1, <1>6, <1>18 DEF Taken
  <2> QED BY <1>1, <1>2, <1>3, <1>7, <1>18, <2>1, AppendKeeps
<1>23. TextInv'
  <2>1. \A v \in Tabs : text'[v] \in {text[v], NoPrompt}
    BY <1>2 DEF BrowserInv, Types, PageTypes
  <2>2. ~ Typed(p)
    BY <1>1, <1>6 DEF Typed, Begun
  <2>3. ASSUME NEW x \in Prompts, Typed(x) PROVE Typed(x)'
    <3>1. x # p
      BY <2>2, <2>3
    <3>2. Begun(x) => Begun(x)'
      BY <1>1 DEF Begun
    <3> QED BY <1>1, <1>8, <1>18, <2>3, <3>1, <3>2 DEF Typed
  <2> QED BY <1>6, <2>1, <2>3 DEF BrowserInv, TextInv
<1>20. ShakenInv'
  BY <1>1, <1>7, <1>18 DEF BrowserInv, ShakenInv, Types, OutcomeTypes
<1>21. FileInv'
  <2>1. FileOf(c)'
    BY <1>1 DEF FileOf, Delivering
  <2>2. ASSUME NEW e \in BrowserChats \ {c}, mode = "dedicated", at[e] \in Delivering,
               job[e] \notin shaken
        PROVE  /\ place'[mine[e].tab] # "closed"
               /\ \/ place'[mine[e].tab] = place[mine[e].tab]
                  \/ mine[e].tab \in astray' \/ Shares(c, mine[e].tab)'
               /\ Shares(c, mine[e].tab) => Shares(c, mine[e].tab)'
    <3> PICK u : u = mine[e].tab
      OBVIOUS
    <3>1. u \in OpenTabs
      BY <2>2 DEF BrowserInv, FileInv, FileOf
    <3>2. Shares(c, u)' <=> binding'[c].tab = u
      BY <1>1 DEF Shares
    <3>3. Shares(c, u) => u = t
      BY <1>4, <2>2, <3>1 DEF Shares
    <3>4. binding[c].tab = u => binding'[c].tab = u
      BY <1>4, <1>9, <1>11, <2>2, <3>1
    <3>5. Shares(c, u) => binding[c].tab = u
      BY DEF Shares
    <3>6. u = t => u \in astray' \/ binding'[c].tab = u
      BY <1>9, <1>11
    <3>7. place'[u] # "closed" /\ (u # t => place'[u] = place[u])
      BY <1>3, <1>12, <3>1, PlacesAre DEF OpenTabs
    <3>8. Shares(c, mine[e].tab)' <=> Shares(c, u)'
      BY <1>1 DEF Shares
    <3> QED BY <3>2, <3>4, <3>5, <3>6, <3>7, <3>8
  <2>3. at'[c] \notin Working /\ astray \subseteq astray'
    BY <1>1, <1>10 DEF Working, Composing
  <2> QED BY <1>1, <1>8, <1>11, <2>1, <2>2, <2>3, FilesStay
<1>22. SentWithItsFiles'
  BY <1>1, <1>8 DEF BrowserInv, SentWithItsFiles
<1> QED
  BY <1>13, <1>14, <1>15, <1>16, <1>17, <1>19, <1>20, <1>21, <1>22, <1>23 DEF BrowserInv

\* An answer is taken from the page: the prompt's own, or one nobody had.
LEMMA AnswerKeeps ==
  ASSUME BrowserInv, NEW c \in BrowserChats, Answer(c)
  PROVE  BrowserInv'
<1> PICK p : p = job[c]
  OBVIOUS
<1> PICK t : t = tab[c]
  OBVIOUS
<1> PICK k : k = place[t]
  OBVIOUS
<1> PICK q : q = Last(thread[k])
  OBVIOUS
<1> PICK b : b = [tab |-> t, url |-> k]
  OBVIOUS
<1> USE DEF fixed, browser, chatgpt
<1>1. /\ at[c] = "wait" /\ at' = [at EXCEPT ![c] = "bind"] /\ owner' = Released(c)
      /\ answer' = [answer EXCEPT ![p] = q] /\ mine' = [mine EXCEPT ![c] = b]
      /\ \E r \in Listed(k) : found' = [found EXCEPT ![c] = r]
      /\ UNCHANGED <<fixed, browser, chatgpt, binding, outer, job, tab, seen,
                     fetched, ended, shaken, astray, commands, failures>>
  BY DEF Answer, Shown, To
<1>2. /\ t \in OpenTabs /\ k \in Conversations \ busy /\ thread[k] # <<>>
      /\ <<Len(thread[k]), "still">> # seen[c]
  BY DEF Answer, HasAnswer, IsNew, Shown, Answers
<1>3. /\ p \in Prompts /\ ChatOf[p] = c /\ ended[p] = "no" /\ SeenOf(c) /\ WaitOf(c)
      /\ t \in Tabs /\ (mode = "embedded" => t = 1)
  BY <1>1, HeldIs DEF Holding
<1>4. owner = c /\ \A d \in BrowserChats \ {c} : at[d] \notin Holding
  BY <1>1, HolderIs DEF Holding
<1>5. /\ at' \in [BrowserChats -> PromptSteps] /\ at'[c] = "bind"
      /\ \A d \in BrowserChats \ {c} : at'[d] = at[d]
      /\ mine'[c] = b /\ \A d \in BrowserChats \ {c} : mine'[d] = mine[d]
      /\ answer'[p] = q /\ \A r \in Prompts \ {p} : answer'[r] = answer[r]
  BY <1>1, <1>3 DEF BrowserInv, Types, LocalTypes, OutcomeTypes, PromptSteps
<1>6. /\ q \in Prompts /\ q \in Range(thread[k]) /\ Len(thread[k]) \in DOMAIN thread[k]
      /\ q = thread[k][Len(thread[k])] /\ q \in Sent
  BY <1>2, LastIs DEF BrowserInv, Sent
<1>7. b \in Bindings /\ b.tab = t /\ b.url = k /\ t # 0 /\ k # Unset
  BY <1>2, <1>3, BoundIs, PlacesAre, FirstOfIs DEF BrowserInv
<1>8. \A l \in Conversations \ {k} : thread[l] # <<>> => Last(thread[l]) # q
  <2>1. ASSUME NEW l \in Conversations \ {k}, thread[l] # <<>> PROVE Last(thread[l]) # q
    <3>1. Len(thread[l]) \in DOMAIN thread[l] /\ Last(thread[l]) = thread[l][Len(thread[l])]
      BY <2>1, LastIs DEF BrowserInv
    <3> QED BY <1>2, <1>6, <2>1, <3>1 DEF BrowserInv, SentInv
  <2> QED BY <2>1
<1>9. p \in Sent \ shaken => q = p
  BY <1>1, <1>2 DEF BrowserInv, WorkInv, WaitOf
<1>10. p \notin Sent /\ p \notin shaken => Unshown(q)
  <2> SUFFICES ASSUME p \notin Sent, p \notin shaken PROVE Unshown(q)
    OBVIOUS
  <2>1. seen[c][1] = Len(thread[k]) /\ (seen[c][2] = "grows" => FreshLast(k))
    BY <1>1, <1>2, <1>3 DEF SeenOf
  <2>2. seen[c] \in Nat \X {"grows", "still"}
    BY DEF BrowserInv, Types, LocalTypes
  <2>3. seen[c][2] = "grows"
    BY <1>2, <2>1, <2>2
  <2> QED BY <2>1, <2>3 DEF FreshLast
<1>11. found' \in [BrowserChats -> Makes \cup {NoPrompt}]
       /\ found'[c] \in Range(thread[k]) \cup {NoPrompt}
       /\ \A d \in BrowserChats \ {c} : found'[d] = found[d]
  <2>1. PICK r \in Listed(k) : found' = [found EXCEPT ![c] = r]
    BY <1>1
  <2>2. r \in {NoPrompt} \cup (Makes \cap Range(thread[k]))
    BY <1>2, GeneratedIs DEF Listed, BrowserInv
  <2> QED BY <2>1, <2>2 DEF BrowserInv, Types, LocalTypes
<1>12. Types'
  <2>1. owner' \in BrowserChats \cup {NoChat}
    BY <1>1 DEF Released
  <2>2. LocalTypes'
    BY <1>1, <1>5, <1>7, <1>11 DEF BrowserInv, Types, LocalTypes
  <2>3. OutcomeTypes'
    BY <1>1, <1>6 DEF BrowserInv, Types, OutcomeTypes
  <2> QED
    BY <1>1, <2>1, <2>2, <2>3 DEF BrowserInv, Types, PageTypes, ThreadTypes, HoldTypes
<1>13. PageInv'
  <2>1. Sound(b)'
    BY <1>1, <1>3, <1>7 DEF Sound
  <2>2. at'[c] \notin Working
    BY <1>5 DEF Working, Composing
  <2> QED
    BY <1>1, <1>5, <2>1, <2>2 DEF BrowserInv, PageInv, OwnPages, BoundOf, Sound, OpenTabs
<1>14. LockInv'
  BY <1>1, <1>4, <1>5 DEF BrowserInv, LockInv, Holding, Released
<1>15. JobInv'
  BY <1>1, <1>5 DEF BrowserInv, JobInv, Holding
<1>16. WorkInv'
  <2>1. at'[c] \notin Holding
    BY <1>5 DEF Holding
  <2> QED BY <1>4, <1>5, <2>1, AloneWorks
<1>17. Sent' = Sent /\ \A r \in Prompts : ChatOf[r] \in BrowserChats
  BY <1>1, BrowserAssumption DEF Sent
<1>18. SentInv'
  <2>1. ASSUME NEW r \in Sent, ended[r] = "no"
        PROVE  job[ChatOf[r]] = r /\ at'[ChatOf[r]] \in Delivering \cup {"wait", "identity"}
    <3>1. job[ChatOf[r]] = r /\ at[ChatOf[r]] \in Delivering \cup {"wait", "identity"}
      BY <2>1 DEF BrowserInv, SentInv
    <3>2. r \in Prompts
      BY DEF Sent
    <3> QED BY <1>5, <1>17, <3>1, <3>2 DEF Delivering
  <2>2. \A r \in Prompts : answer'[r] # NoPrompt => answer'[r] \in Sent
    BY <1>5, <1>6 DEF BrowserInv, SentInv
  <2>3. \A l, m \in Conversations : \A i \in DOMAIN thread[l], j \in DOMAIN thread[m] :
          thread[l][i] = thread[m][j] => l = m /\ i = j
    BY DEF BrowserInv, SentInv
  <2> QED BY <1>1, <1>17, <2>1, <2>2, <2>3 DEF SentInv
<1>19. FreshInv'
  <2>1. ASSUME NEW l \in busy PROVE FreshLast(l)'
    <3> PICK r : r = Last(thread[l])
      OBVIOUS
    <3>1. l \in Conversations \ {k}
      BY <1>2 DEF BrowserInv, Types, ThreadTypes
    <3>2. thread[l] # <<>> /\ Unshown(r) /\ r \in Prompts /\ r # q /\ r \in Sent
      BY <1>8, <3>1, LastIs DEF BrowserInv, FreshInv, FreshLast, Sent
    <3>3. \A x \in Prompts \ shaken : answer'[x] # r
      BY <1>5, <3>2 DEF Unshown
    <3>4. r \notin shaken => ~ Taken(r)'
      <4>1. ASSUME r \notin shaken, Taken(r)' PROVE FALSE
        <5>1. ~ Taken(r)
          BY <3>2, <4>1 DEF Unshown
        <5>2. job[ChatOf[r]] = r /\ at'[ChatOf[r]] \in Delivering /\ at[ChatOf[r]] \notin Delivering
          BY <1>1, <4>1, <5>1 DEF Taken
        <5>3. r = p
          BY <1>5, <1>17, <3>2, <5>2
        <5> QED BY <1>9, <3>2, <4>1, <5>3
      <4> QED BY <4>1
    <3>5. Unshown(r)'
      BY <1>1, <3>3, <3>4 DEF Unshown
    <3> QED BY <1>1, <3>2, <3>5 DEF FreshLast
  <2> QED BY <1>1, <2>1 DEF FreshInv
<1>20. AnswerInv'
  <2>1. p \notin shaken /\ q \notin shaken \cup {p} =>
          \/ ended[q] \in {"failed", "started"}
          \/ job[ChatOf[q]] = q /\ at[ChatOf[q]] = "identity"
    <3> SUFFICES ASSUME p \notin shaken, q \notin shaken, q # p,
                        ended[q] \notin {"failed", "started"}
                 PROVE  job[ChatOf[q]] = q /\ at[ChatOf[q]] = "identity"
      OBVIOUS
    <3>1. ~ Taken(q)
      BY <1>9, <1>10 DEF Unshown
    <3>2. ended[q] = "no"
      BY <1>6, <3>1 DEF Taken, BrowserInv, Types, OutcomeTypes
    <3>3. job[ChatOf[q]] = q /\ at[ChatOf[q]] \in Delivering \cup {"wait", "identity"}
      BY <1>6, <3>2 DEF BrowserInv, SentInv
    <3>4. at[ChatOf[q]] # "wait"
      BY <1>4, <1>6, <1>17, <3>3 DEF Holding
    <3> QED BY <3>1, <3>3, <3>4 DEF Taken
  <2>2. ASSUME NEW r \in Prompts \ shaken, answer'[r] \notin shaken \cup {r, NoPrompt}
        PROVE  \/ ended[answer'[r]] \in {"failed", "started"}
               \/ job[ChatOf[answer'[r]]] = answer'[r] /\ at'[ChatOf[answer'[r]]] = "identity"
    <3> PICK x : x = answer'[r]
      OBVIOUS
    <3>1. x \in Prompts
      BY <1>5, <1>6, <2>2 DEF BrowserInv, Types, OutcomeTypes
    <3>2. \/ ended[x] \in {"failed", "started"}
          \/ job[ChatOf[x]] = x /\ at[ChatOf[x]] = "identity"
      <4>1. CASE r = p
        BY <1>5, <2>1, <2>2, <4>1
      <4>2. CASE r # p
        BY <1>5, <2>2, <4>2 DEF BrowserInv, AnswerInv
      <4> QED BY <4>1, <4>2
    <3>3. at[ChatOf[x]] = "identity" => at'[ChatOf[x]] = "identity"
      BY <1>1, <1>5, <1>17, <3>1
    <3> QED BY <3>2, <3>3
  <2>3. \A r \in Prompts \ shaken : p \notin shaken /\ r # p => answer[r] # q
    <3> SUFFICES ASSUME NEW r \in Prompts \ shaken, p \notin shaken, r # p, answer[r] = q
                 PROVE  FALSE
      OBVIOUS
    <3>1. CASE p \in Sent
      <4>1. answer[r] = p /\ p # NoPrompt
        BY <1>3, <1>9, <3>1, BrowserAssumption
      <4>2. \/ ended[p] \in {"failed", "started"}
            \/ at[ChatOf[p]] = "identity"
        BY <1>3, <4>1 DEF BrowserInv, AnswerInv
      <4> QED BY <1>1, <1>3, <4>2
    <3>2. CASE p \notin Sent
      BY <1>10, <3>2 DEF Unshown
    <3> QED BY <3>1, <3>2
  <2>4. ASSUME NEW r \in Prompts \ shaken, NEW x \in Prompts \ shaken, r # x,
               answer'[r] # NoPrompt
        PROVE  answer'[r] # answer'[x]
    <3>1. CASE r = p
      BY <1>5, <2>3, <2>4, <3>1
    <3>2. CASE x = p
      BY <1>5, <2>3, <2>4, <3>2
    <3>3. CASE r # p /\ x # p
      BY <1>5, <2>4, <3>3 DEF BrowserInv, AnswerInv
    <3> QED BY <3>1, <3>2, <3>3
  <2> QED BY <1>1, <2>2, <2>4 DEF AnswerInv
<1>21. ShakenInv'
  <2>1. \A d \in BrowserChats : at'[d] \notin Holding
    BY <1>4, <1>5 DEF Holding
  <2> QED BY <1>1, <1>5, <2>1 DEF BrowserInv, ShakenInv
<1>22. FileInv'
  <2>1. \A d \in BrowserChats : at'[d] \notin Working
    BY <1>4, <1>5 DEF Working, Composing, Holding
  <2>2. FileOf(c)'
    BY <1>1, <1>2, <1>5, <1>6, <1>7, <1>11, <2>1 DEF FileOf, OpenTabs
  <2>3. ASSUME NEW e \in BrowserChats \ {c}, mode = "dedicated", at[e] \in Delivering,
               job[e] \notin shaken
        PROVE  /\ place'[mine[e].tab] # "closed" /\ place'[mine[e].tab] = place[mine[e].tab]
               /\ Shares(c, mine[e].tab) => Shares(c, mine[e].tab)'
    <3>1. mine[e].tab \in OpenTabs
          /\ \A d \in BrowserChats : at[d] \in Working /\ binding[d].tab = mine[e].tab =>
               tab[d] = mine[e].tab
      BY <2>3 DEF BrowserInv, FileInv, FileOf
    <3>2. at[c] \in Working
      BY <1>1 DEF Working
    <3>3. binding[c].tab = mine[e].tab => mine'[c].tab = mine[e].tab
      BY <1>5, <1>7, <3>1, <3>2
    <3> QED BY <1>1, <1>5, <3>1, <3>3 DEF Shares, OpenTabs
  <2>4. \A d \in BrowserChats \ {c} : job[d] # p
    BY <1>3, BrowserAssumption DEF BrowserInv, JobInv
  <2>5. \A d \in BrowserChats \ {c} : answer'[job[d]] = answer[job[d]]
    BY <1>1, <2>4 DEF BrowserInv, Types, OutcomeTypes, LocalTypes
  <2> QED BY <1>1, <1>5, <1>11, <2>1, <2>2, <2>3, <2>5, FilesStay
<1>23. SentWithItsFiles'
  BY <1>1 DEF BrowserInv, SentWithItsFiles
<1>24. TextInv'
  <2>1. \A x \in Prompts : Begun(x) => Begun(x)'
    BY <1>1, <1>5, <1>17 DEF Begun, Delivering
  <2> QED BY <1>1, <1>17, <2>1, TextStays
<1> QED
  BY <1>12, <1>13, <1>14, <1>15, <1>16, <1>18, <1>19, <1>20, <1>21, <1>22, <1>23, <1>24
  DEF BrowserInv

-----------------------------------------------------------------------------
(* The invariant                                                           *)

\* Nothing is under way at the start.
LEMMA BrowserInitHolds == BrowserInit => BrowserInv
<1> SUFFICES ASSUME BrowserInit PROVE BrowserInv
  OBVIOUS
<1> USE DEF BrowserInit
<1>1. PageTypes
  BY BrowserAssumption, PlacesAre DEF PageTypes, Places
<1>2. ThreadTypes /\ HoldTypes /\ LocalTypes /\ OutcomeTypes
  BY BrowserAssumption
  DEF ThreadTypes, HoldTypes, LocalTypes, OutcomeTypes, Bindings, NoBinding, PromptSteps
<1>3. PageInv
  <2>1. OwnPages
    BY BrowserAssumption, PlacesAre DEF OwnPages, OpenTabs, Places
  <2> QED BY <2>1 DEF PageInv, BoundOf, Sound, NoBinding, Working, Composing
<1>4. LockInv /\ JobInv
  BY DEF LockInv, JobInv, Holding
<1>5. WorkInv
  BY DEF WorkInv, TabOf, ComposerOf, SeenOf, WaitOf, OwnTabOf, Working, Composing
<1>6. Sent = {}
  BY DEF Sent
<1>7. SentInv /\ FreshInv /\ AnswerInv
  BY <1>6 DEF SentInv, FreshInv, AnswerInv
<1>10. TextInv
  BY BrowserAssumption DEF TextInv
<1>8. ShakenInv /\ FileInv
  BY DEF ShakenInv, FileInv, FileOf, Delivering, Holding
<1>9. SentWithItsFiles
  BY DEF SentWithItsFiles, Range
<1> QED BY <1>1, <1>2, <1>3, <1>4, <1>5, <1>7, <1>8, <1>9, <1>10 DEF BrowserInv, Types

\* Every step keeps it.
LEMMA BrowserNextKeeps == BrowserInv /\ [BrowserNext]_browserVars => BrowserInv'
<1> SUFFICES ASSUME BrowserInv, [BrowserNext]_browserVars PROVE BrowserInv'
  OBVIOUS
<1>1. ASSUME NEW c \in BrowserChats, NEW p \in Prompts,
             Take(c, p) \/ TakeNew(c, p) \/ StartResearch(c, p) \/ StartImage(c, p)
      PROVE  BrowserInv'
  BY <1>1, TakeKeeps, TakeNewKeeps, StartToolKeeps DEF StartResearch, StartImage
<1>2. ASSUME NEW c \in BrowserChats, BrowserStep(c) PROVE BrowserInv'
  BY <1>2, LockKeeps, ResolveKeeps, RestoreKeeps, SnapshotKeeps, AttachKeeps, FillKeeps,
      SendKeeps, AnswerKeeps, SaveBindingKeeps, FetchImageKeeps, FetchFileKeeps, FailKeeps,
      IdentityKeeps
  DEF BrowserStep
<1>3. ASSUME NEW c \in BrowserChats,
             \/ OpenLanding(c) \/ OpenProject(c) \/ ReadModels(c) \/ Reasoning(c) \/ History(c)
             \/ Look(c) \/ UploadOnly(c) \/ ListProjects(c) \/ Scheduled(c)
             \/ \E k \in Conversations : OpenConversation(c, k)
      PROVE  BrowserInv'
  BY <1>3, CommandsVisit, VisitKeeps
<1>4. ASSUME NEW c \in BrowserChats, Stop(c) PROVE BrowserInv'
  BY <1>4, StopKeeps
<1>5. CASE LoseBrowser
  BY <1>5, LoseBrowserKeeps
<1>6. ASSUME NEW k \in Conversations, Reply(k) PROVE BrowserInv'
  BY <1>6, ReplyKeeps
<1>7. CASE UNCHANGED browserVars
  <2> USE <1>7 DEF browserVars, fixed, browser, chatgpt, prompt, outcome
  <2>1. Types'
    BY DEF BrowserInv, Types, PageTypes, ThreadTypes, HoldTypes, LocalTypes, OutcomeTypes
  <2>2. PageInv' /\ LockInv' /\ JobInv' /\ ShakenInv' /\ SentWithItsFiles'
    BY DEF BrowserInv, PageInv, OwnPages, BoundOf, Sound, OpenTabs, LockInv, JobInv, ShakenInv,
        SentWithItsFiles
  <2>3. Sent' = Sent /\ \A k : FreshLast(k) <=> FreshLast(k)'
    BY DEF Sent, FreshLast, Unshown, Taken
  <2>4. SentInv' /\ FreshInv' /\ AnswerInv' /\ FileInv' /\ TextInv'
    BY <2>3
    DEF BrowserInv, SentInv, FreshInv, AnswerInv, FileInv, FileOf, Shares, OpenTabs,
        TextInv, Typed, Begun
  <2>5. WorkInv'
    <3>1. ASSUME NEW d \in BrowserChats
          PROVE  TabOf(d)' /\ ComposerOf(d)' /\ SeenOf(d)' /\ WaitOf(d)' /\ OwnTabOf(d)'
      BY <2>3, WorkStays
    <3> QED BY <3>1 DEF WorkInv
  <2> QED BY <2>1, <2>2, <2>4, <2>5 DEF BrowserInv
<1> QED BY <1>1, <1>2, <1>3, <1>4, <1>5, <1>6, <1>7 DEF BrowserNext

\* In every state of the browser and of the chats that share it.
THEOREM BrowserInvariant == BrowserSpec => []BrowserInv
  BY BrowserInitHolds, BrowserNextKeeps, PTL DEF BrowserSpec

-----------------------------------------------------------------------------
(* What it says                                                            *)

\* Every variable keeps its type.
THEOREM BrowserTypeCorrect == BrowserSpec => []BrowserTypeOK
<1>1. BrowserInv => BrowserTypeOK
  BY TypesAre DEF BrowserInv
<1> QED BY <1>1, BrowserInvariant, PTL

\* A prompt is shown its own answer, or one of a prompt that gave up or that nobody
\* waits for, which nobody else is shown (_wait_answer on a page all chats use);
\* but for prompts that were under way when the browser was lost.
THEOREM BrowserAnswersAreOwn == BrowserSpec => []AnswerIsItsOwn
<1>1. BrowserInv => AnswerIsItsOwn
  <2> SUFFICES ASSUME BrowserInv, NEW p \in Prompts \ shaken, answer[p] # NoPrompt
               PROVE  /\ answer[p] \in shaken \cup {p} \/ ended[answer[p]] # "answered"
                      /\ \A q \in Prompts \ (shaken \cup {p}) : answer[q] # answer[p]
    BY DEF AnswerIsItsOwn
  <2> PICK q : q = answer[p]
    OBVIOUS
  <2>1. q \in Prompts
    BY DEF BrowserInv, Types, OutcomeTypes
  <2>2. q \notin shaken \cup {p} => ended[q] # "answered"
    <3>1. q \notin shaken \cup {p} =>
            \/ ended[q] \in {"failed", "started"}
            \/ job[ChatOf[q]] = q /\ at[ChatOf[q]] = "identity"
      BY DEF BrowserInv, AnswerInv
    <3>2. job[ChatOf[q]] = q => ended[q] = "no"
      BY <2>1, BrowserAssumption DEF BrowserInv, JobInv
    <3> QED BY <3>1, <3>2
  <2> QED BY <2>2 DEF BrowserInv, AnswerInv
<1> QED BY <1>1, BrowserInvariant, PTL

\* A prompt that comes with files is sent with its own, all of them, and no others
\* (_clear_stale_composer_attachments and the upload); but for prompts the loss of
\* the browser met.
THEOREM BrowserFilesAreOwn == BrowserSpec => []SentWithItsFiles
<1>1. BrowserInv => SentWithItsFiles
  BY DEF BrowserInv
<1> QED BY <1>1, BrowserInvariant, PTL

\* What the sending steps do to the conversations.
LEMMA SendingIs ==
  ASSUME BrowserInv, BrowserNext, thread' # thread
  PROVE  \E p \in Prompts, k \in Conversations :
           /\ thread' = [thread EXCEPT ![k] = Append(@, p)]
           /\ binding[ChatOf[p]].url \in Conversations /\ p \notin shaken
              => k = binding[ChatOf[p]].url
<1>1. ASSUME NEW c \in BrowserChats, at[c] = "send", CanSend(c), tab[c] \in OpenTabs, Submit(tab[c])
      PROVE  \E p \in Prompts, k \in Conversations :
               /\ thread' = [thread EXCEPT ![k] = Append(@, p)]
               /\ binding[ChatOf[p]].url \in Conversations /\ p \notin shaken
                  => k = binding[ChatOf[p]].url
  <2> PICK p : p = text[tab[c]]
    OBVIOUS
  <2>1. PICK k \in Target(place[tab[c]]) : thread' = [thread EXCEPT ![k] = Append(@, p)]
    BY <1>1 DEF Submit
  <2>2. TabOf(c) /\ mine[c] = binding[c]
    BY <1>1, HeldIs DEF Holding
  <2>3. p \in Prompts /\ (p \notin shaken => p = job[c] /\ ChatOf[p] = c)
    BY <1>1, NotSentIs
  <2> QED BY <1>1, <2>1, <2>2, <2>3 DEF TabOf, Target, Working, Composing
<1>2. ASSUME NEW c \in BrowserChats, Send(c) \/ Fail(c)
      PROVE  at[c] = "send" /\ CanSend(c) /\ tab[c] \in OpenTabs /\ Submit(tab[c])
  BY <1>2 DEF Send, Fail, LeftOver, chatgpt
<1>3. ASSUME NEW c \in BrowserChats, NEW p \in Prompts, StartTool(c, p)
      PROVE  /\ ChatOf[p] = c
             /\ \E k \in Conversations :
                  /\ thread' = [thread EXCEPT ![k] = Append(@, p)]
                  /\ binding[c].url \in Conversations => k = binding[c].url
  <2>1. PICK t \in PageFor(binding[c]) :
          \E k \in Target(Restored(binding[c], t)) : thread' = [thread EXCEPT ![k] = Append(@, p)]
    BY <1>3 DEF StartTool
  <2>2. binding[c].url \in Conversations => Restored(binding[c], t) = binding[c].url
    BY BoundIs, PageForIs, RestoredToIs DEF Restored, BrowserInv
  <2> QED BY <1>3, <2>1, <2>2 DEF StartTool, Target
<1>4. ASSUME NEW c \in BrowserChats, BrowserStep(c) PROVE Send(c) \/ Fail(c)
  BY <1>4
  DEF BrowserStep, Lock, Resolve, Restore, Snapshot, Attach, Fill, Answer, SaveBinding,
      FetchImage, FetchFile, Fetched, Identity, chatgpt
<1>5. ASSUME NEW c \in BrowserChats, Visit(c) PROVE FALSE
  BY <1>5 DEF Visit, chatgpt
<1>6. ASSUME NEW c \in BrowserChats, NEW p \in Prompts,
             Take(c, p) \/ TakeNew(c, p) \/ Stop(c) \/ LoseBrowser \/ \E k \in Conversations : Reply(k)
      PROVE  FALSE
  BY <1>6 DEF Take, TakeNew, Stop, LoseBrowser, Reply, chatgpt
<1>7. ~ LoseBrowser /\ ~ \E k \in Conversations : Reply(k)
  BY DEF LoseBrowser, Reply, chatgpt
<1>8. ASSUME NEW c \in BrowserChats PROVE ~ Stop(c)
  BY DEF Stop
<1>9. \/ \E c \in BrowserChats, p \in Prompts : StartTool(c, p)
      \/ \E c \in BrowserChats : Send(c) \/ Fail(c)
  BY <1>4, <1>5, <1>6, <1>7, <1>8, CommandsVisit DEF BrowserNext, StartResearch, StartImage
<1> QED BY <1>1, <1>2, <1>3, <1>9

\* A prompt of a chat that has a conversation is sent into that one
\* (_restore_bound_url), whatever was done to the tabs; but for prompts that were
\* under way when the browser was lost.
THEOREM BrowserSendsWhereBound == BrowserSpec => SentWhereBound
<1>1. ASSUME BrowserInv, [BrowserNext]_browserVars,
             NEW k \in Conversations, NEW p \in Prompts, thread'[k] = Append(thread[k], p),
             binding[ChatOf[p]].url \in Conversations, p \notin shaken
      PROVE  k = binding[ChatOf[p]].url
  <2>1. thread \in [Conversations -> Seq(Prompts)]
    BY <1>1 DEF BrowserInv, Types, ThreadTypes
  <2>2. thread'[k] # thread[k]
    BY <1>1, <2>1
  <2>3. BrowserNext /\ thread' # thread
    BY <1>1, <2>2 DEF browserVars, chatgpt
  <2>4. PICK q \in Prompts, l \in Conversations :
          /\ thread' = [thread EXCEPT ![l] = Append(@, q)]
          /\ binding[ChatOf[q]].url \in Conversations /\ q \notin shaken
             => l = binding[ChatOf[q]].url
    BY <1>1, <2>3, SendingIs
  <2>5. l = k /\ thread'[k] = Append(thread[k], q)
    BY <2>1, <2>2, <2>4
  <2>6. p = q
    <3>1. thread[k] \in Seq(Prompts)
      BY <2>1
    <3>2. \A x \in Prompts : Append(thread[k], x)[Len(thread[k]) + 1] = x
      BY <3>1
    <3> QED BY <1>1, <2>5, <3>2
  <2> QED BY <1>1, <2>4, <2>5, <2>6
<1>2. BrowserInv /\ [BrowserNext]_browserVars
      => [\A k \in Conversations, p \in Prompts :
            /\ thread'[k] = Append(thread[k], p)
            /\ binding[ChatOf[p]].url \in Conversations /\ p \notin shaken
            => k = binding[ChatOf[p]].url]_browserVars
  BY <1>1
<1> QED BY <1>2, BrowserInvariant, PTL DEF BrowserSpec, SentWhereBound

\* In a dedicated Chrome a chat whose tab no other is bound to is sent files of the
\* conversation of its answer (download_generated_file).
THEOREM BrowserFilesAreOfTheConversation == BrowserSpec => FileIsOfItsConversation
<1>1. ASSUME BrowserInv, [BrowserNext]_browserVars,
             NEW c \in BrowserChats, NEW p \in Prompts \ shaken,
             job[c] = p, fetched'[p] # fetched[p], mode = "dedicated",
             \A d \in BrowserChats \ {c} : binding[d].tab # mine[c].tab,
             mine[c].tab \notin astray
      PROVE  \E k \in Conversations : {answer[p], fetched'[p]} \subseteq Range(thread[k])
  <2>1. PICK d \in BrowserChats : FetchFile(d)
    <3>1. BrowserNext /\ fetched' # fetched
      BY <1>1 DEF browserVars, outcome
    <3>2. \A e \in BrowserChats : ~ Visit(e)
      BY <3>1 DEF Visit
    <3>3. \A e \in BrowserChats, q \in Prompts :
            ~ (Take(e, q) \/ TakeNew(e, q) \/ StartResearch(e, q) \/ StartImage(e, q))
      BY <3>1 DEF Take, TakeNew, StartResearch, StartImage, StartTool, Command, outcome
    <3>4. ~ LoseBrowser /\ (\A l \in Conversations : ~ Reply(l)) /\ \A e \in BrowserChats : ~ Stop(e)
      BY <3>1 DEF LoseBrowser, Reply, Stop, outcome
    <3>5. \A e \in BrowserChats : BrowserStep(e) => FetchFile(e)
      BY <3>1
      DEF BrowserStep, Lock, Resolve, Restore, Snapshot, Attach, Fill, Send, Answer, SaveBinding,
          FetchImage, Fail, Identity, Inside, outcome
    <3> QED BY <1>1, <3>1, <3>2, <3>3, <3>4, <3>5, CommandsVisit DEF BrowserNext
  <2>2. at[d] = "file" /\ job[d] \in Prompts /\ ChatOf[job[d]] = d
    BY <1>1, <2>1, WorkIs DEF FetchFile, Fetched
  <2>3. PICK t \in PageFor(mine[d]) : Streamed(d, Opened(mine[d], t))
    BY <1>1, <2>1 DEF FetchFile
  <2>4. PICK q \in {found[d]} \cup Cards(Opened(mine[d], t)) : fetched' = [fetched EXCEPT ![job[d]] = q]
    BY <2>3 DEF Streamed
  <2>5. d = c
    <3>1. job[d] = p
      BY <1>1, <2>2, <2>4 DEF BrowserInv, Types, OutcomeTypes
    <3>2. ChatOf[p] = c
      BY <1>1, BrowserAssumption DEF BrowserInv, JobInv
    <3> QED BY <2>2, <3>1, <3>2
  <2>6. fetched'[p] = q
    BY <1>1, <2>4, <2>5 DEF BrowserInv, Types, OutcomeTypes
  <2> PICK k : k = mine[c].url
    OBVIOUS
  <2>7. /\ mine[c].tab \in OpenTabs /\ k \in Conversations
        /\ answer[p] \in Range(thread[k]) /\ found[c] \in Range(thread[k])
        /\ place[mine[c].tab] \in {k, "aside"}
    BY <1>1, <2>2, <2>5 DEF BrowserInv, FileInv, FileOf, Shares, Delivering
  <2>8. t = mine[c].tab /\ Opened(mine[c], t) = place[t]
    BY <1>1, <2>3, <2>5, <2>7, BoundIs, PageForIs DEF BrowserInv
  <2>9. q \in Range(thread[k])
    BY <2>4, <2>5, <2>7, <2>8, PlacesAre DEF Cards
  <2> QED BY <2>6, <2>7, <2>9
<1>2. BrowserInv /\ [BrowserNext]_browserVars
      => [\A c \in BrowserChats, p \in Prompts \ shaken :
            /\ job[c] = p /\ fetched'[p] # fetched[p]
            /\ mode = "dedicated"
            /\ \A d \in BrowserChats \ {c} : binding[d].tab # mine[c].tab
            /\ mine[c].tab \notin astray
            => \E k \in Conversations :
                 {answer[p], fetched'[p]} \subseteq Range(thread[k])]_browserVars
  BY <1>1
<1> QED BY <1>2, BrowserInvariant, PTL DEF BrowserSpec, FileIsOfItsConversation

\* What is done in a tab is done in it alone.
LEMMA OneTab ==
  ASSUME BrowserInv, NEW t \in Tabs,
         \/ \E u \in Places : Show(t, u)
         \/ /\ \E k : place' = [place EXCEPT ![t] = k]
            /\ \E x : text' = [text EXCEPT ![t] = x]
            /\ \E x : chips' = [chips EXCEPT ![t] = x]
         \/ /\ place' = place
            /\ text' = text \/ \E x : text' = [text EXCEPT ![t] = x]
            /\ chips' = chips \/ \E x : chips' = [chips EXCEPT ![t] = x]
  PROVE  \A v \in users \ {t} :
           place'[v] = place[v] /\ text'[v] = text[v] /\ chips'[v] = chips[v]
<1>1. \A v \in users \ {t} : v \in Tabs
  BY DEF BrowserInv, Types, PageTypes
<1>2. CASE \E u \in Places : Show(t, u)
  BY <1>1, <1>2, ShowIs DEF BrowserInv
<1> QED BY <1>1, <1>2 DEF BrowserInv, Types, PageTypes

\* In the user's Chrome their own tab is never navigated, typed into or filled
\* (_find_page, _new_page), but by /scheduled when it shows the scheduled tasks, and
\* by a prompt that was at work when the DevTools child was restarted.
THEOREM BrowserLeavesUserTab == BrowserSpec => UserTabIsLeft
<1> DEFINE Same(t) == place'[t] = place[t] /\ text'[t] = text[t] /\ chips'[t] = chips[t]
           Left == \A t \in users : Same(t)
           Spared == \A t \in users :
                       \/ \E c \in AtWork : tab[c] = t /\ job[c] \in shaken
                       \/ /\ place'[t] = place[t] /\ chips'[t] = chips[t]
                          /\ text'[t] = text[t] \/ place[t] = "scheduled"
<1>1. ASSUME BrowserInv, BrowserNext PROVE Spared
  <2> USE <1>1
  <2>1. UNCHANGED browser => Left
    BY DEF browser
  <2>2. ASSUME NEW c \in BrowserChats, NEW t \in PageFor(mine[c])
        PROVE  /\ t \in Tabs \ users /\ Opened(mine[c], t) \in Places
               /\ Wanted(mine[c]) \in Places
    BY <2>2, BoundIs, PageForIs, PlacesAre DEF BrowserInv, Wanted, Bindings
  <2>3. ASSUME NEW c \in BrowserChats, at[c] \in Holding \ {"page"}
        PROVE  tab[c] \in Tabs /\ ((\A t \in users \ {tab[c]} : Same(t)) => Spared)
    BY <2>3, HeldIs DEF AtWork
  <2>19. Left => Spared
    OBVIOUS
  <2>4. ASSUME NEW c \in BrowserChats, tab[c] \in OpenTabs
        PROVE  RestoredTo(mine[c], place[tab[c]]) \in Places
    BY <2>4, BoundIs, RestoredToIs DEF BrowserInv
  <2>5. ASSUME NEW c \in BrowserChats, Resolve(c) PROVE Spared
    <3>1. PICK t \in PageFor(mine[c]) : Show(t, Opened(mine[c], t))
      BY <2>5 DEF Resolve
    <3> QED BY <2>2, <2>19, <3>1, OneTab
  <2>6. ASSUME NEW c \in BrowserChats, Restore(c) PROVE Spared
    BY <2>3, <2>4, <2>6, OneTab DEF Restore, Shown, Holding
  <2>7. ASSUME NEW c \in BrowserChats, Attach(c) \/ Fill(c) PROVE Spared
    <3>1. at[c] \in Holding \ {"page"}
      BY <2>7 DEF Attach, Fill, Holding
    <3> QED BY <2>3, <2>7, <3>1, OneTab DEF Attach, Fill
  <2>8. ASSUME NEW c \in BrowserChats, at[c] \in Holding \ {"page"}, Submit(tab[c]) PROVE Spared
    BY <2>3, <2>8, OneTab DEF Submit
  <2>9. ASSUME NEW c \in BrowserChats, Send(c) PROVE Spared
    <3>1. at[c] \in Holding \ {"page"}
      BY <2>9 DEF Send, Holding
    <3>2. CASE /\ text' = [text EXCEPT ![tab[c]] = NoPrompt]
               /\ chips' = [chips EXCEPT ![tab[c]] = {}]
               /\ UNCHANGED <<place, chatgpt>>
      BY <2>3, <3>1, <3>2, OneTab
    <3> QED BY <2>8, <2>9, <3>1, <3>2 DEF Send
  <2>10. ASSUME NEW c \in BrowserChats, FetchImage(c) \/ FetchFile(c) PROVE Spared
    <3>1. CASE Missed(c)
      BY <2>1, <2>19, <3>1 DEF Missed
    <3>2. ASSUME NEW t \in PageFor(mine[c]), Revisit(c, t) PROVE Spared
      BY <2>2, <2>19, <3>2, OneTab DEF Revisit
    <3> QED BY <2>10, <3>1, <3>2 DEF FetchImage, FetchFile
  <2>11. ASSUME NEW c \in BrowserChats, Fail(c) PROVE Spared
    <3>1. at[c] \in Holding /\ (UNCHANGED browser \/ LeftOver(c))
      BY <2>11 DEF Fail
    <3>2. ASSUME NEW t \in PageFor(mine[c]), Show(t, Wanted(mine[c])) PROVE Spared
      BY <2>2, <2>19, <3>2, OneTab
    <3>3. CASE at[c] # "page" /\ tab[c] \in OpenTabs /\ Show(tab[c], RestoredTo(mine[c], Shown(c)))
      BY <2>3, <2>4, <3>1, <3>3, OneTab DEF Shown
    <3>4. ASSUME at[c] # "page", NEW s, chips' = [chips EXCEPT ![tab[c]] = s], UNCHANGED <<place, text>>
          PROVE  Spared
      BY <2>3, <3>1, <3>4, OneTab
    <3>5. CASE at[c] # "page" /\ Submit(tab[c])
      BY <2>8, <3>1, <3>5
    <3> QED BY <2>1, <2>19, <3>1, <3>2, <3>3, <3>4, <3>5 DEF LeftOver
  <2>12. ASSUME NEW c \in BrowserChats, BrowserStep(c) PROVE Spared
    <3>1. Lock(c) \/ Snapshot(c) \/ Answer(c) \/ SaveBinding(c) \/ Identity(c) => UNCHANGED browser
      BY DEF Lock, Snapshot, Answer, SaveBinding, Identity, browser
    <3> QED
      BY <2>1, <2>5, <2>6, <2>7, <2>9, <2>10, <2>11, <2>12, <2>19, <3>1 DEF BrowserStep
  <2>13. ASSUME NEW c \in BrowserChats, Visit(c) PROVE Spared
    BY <2>13 DEF Visit, BrowserInv, Types, PageTypes
  <2>14. ASSUME NEW c \in BrowserChats, NEW p \in Prompts,
                Take(c, p) \/ TakeNew(c, p) \/ StartTool(c, p)
         PROVE  Spared
    <3>1. ASSUME NEW t \in PageFor(binding[c])
          PROVE  t \in Tabs \ users /\ Opened(binding[c], t) \in Places
      BY <3>1, BoundIs, PageForIs DEF BrowserInv
    <3>2. CASE Take(c, p)
      BY <2>1, <2>19, <3>2 DEF Take
    <3>3. CASE TakeNew(c, p)
      BY <2>19, <3>1, <3>3, PlacesAre, OneTab DEF TakeNew
    <3>4. CASE StartTool(c, p)
      BY <2>19, <3>1, <3>4, OneTab DEF StartTool
    <3> QED BY <2>14, <3>2, <3>3, <3>4
  <2>15. ASSUME NEW c \in BrowserChats, Stop(c) PROVE Spared
    <3>1. PICK t \in Looked(binding[c]) : Show(t, LookedAt(binding[c], t))
      BY <2>15 DEF Stop
    <3> QED BY <2>19, <3>1, BoundIs, LookedIs, OneTab DEF BrowserInv
  <2>16. LoseBrowser => users = {} \/ UNCHANGED <<place, text, chips>>
    BY DEF LoseBrowser, LoseTabs, LoseNumbers, BrowserInv, PageInv, OwnPages
  <2>17. \A k \in Conversations : Reply(k) => UNCHANGED browser
    BY DEF Reply
  <2>18. LoseBrowser => Left
    BY <2>16
  <2> HIDE DEF Left, Spared
  <2> QED
    BY <2>1, <2>12, <2>13, <2>14, <2>15, <2>17, <2>18, <2>19, CommandsVisit
    DEF BrowserNext, StartResearch, StartImage
<1>2. BrowserInv /\ [BrowserNext]_browserVars => [Spared]_browserVars
  BY <1>1
<1> QED BY <1>2, BrowserInvariant, PTL DEF BrowserSpec, UserTabIsLeft

=============================================================================
