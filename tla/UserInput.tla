------------------------------ MODULE UserInput ------------------------------
(***************************************************************************)
(* Questions of Codex (item/tool/requestUserInput): the other kind of      *)
(* request ApprovalBridge keeps waiting.  Its handler thread takes the one  *)
(* slot of the chat, asks, and waits; the next text of the asking user is  *)
(* taken as the answer by the callback that receives it, outside the queue *)
(* of the chat, though it passes through the inbox, where the executor of  *)
(* the chat looks for its next task.  The end of the turn, the stop of the *)
(* daemon and the timeout withdraw the question at any of these steps.     *)
(***************************************************************************)
EXTENDS Approvals

CONSTANTS
  Questions, NoQuestion,
  AskedBy,      \* the turn that asks them all: a chat runs one at a time
  Texts, NoText,\* text messages of its user in its chat
  MaxArrivals,  \* bound on deliveries of texts
  Mixed         \* bound: if FALSE, approval requests and questions never meet

ASSUME UserInputAssumption ==
  /\ NoQuestion \notin Questions /\ NoText \notin Texts
  /\ AskedBy \in Turns
  /\ MaxArrivals \in Nat /\ Mixed \in BOOLEAN

VARIABLES
  slot,      \* _pending_user_inputs of the chat
  ask,       \* where handle_user_input_request stands
  event,     \* _PendingUserInput.event is set
  withdrawn, \* _PendingUserInput.cancelled
  answers,   \* _PendingUserInput.answers
  result,    \* the text whose answers the app-server was given
  listed,    \* questions a notification or the stop is withdrawing
  callback,  \* where consume_user_input_message stands
  heard,     \* the question it read from the slot
  row,       \* feishu_inbox.status
  arrivals,
  task,      \* the text the executor of the chat runs
  tasks,     \* history: texts it has run
  moot       \* history: questions given up, or answered twice

asked    == <<slot, ask, event, withdrawn, answers, result, listed, moot>>
messages == <<callback, heard, row, arrivals>>
executor == <<task, tasks>>
inputs   == <<asked, messages, executor>>
bridge   == <<vars, inputs>>

InputTypeOK ==
  /\ slot \in Questions \cup {NoQuestion}
  /\ ask \in [Questions -> {"none", "registered", "waiting", "woken", "left",
                            "answered", "refused", "lost"}]
  /\ event \in [Questions -> BOOLEAN] /\ withdrawn \in [Questions -> BOOLEAN]
  /\ answers \in [Questions -> Texts \cup {NoText}]
  /\ result \in [Questions -> Texts \cup {NoText}]
  /\ listed \subseteq Questions /\ moot \subseteq Questions
  /\ callback \in [Texts -> {"none", "heard", "inserted", "matched", "marked"}]
  /\ heard \in [Texts -> Questions \cup {NoQuestion}]
  /\ row \in [Texts -> {"absent", "queued", "running", "completed", "ignored",
                        "interrupted_on_restart"}]
  /\ arrivals \in 0..MaxArrivals
  /\ task \in Texts \cup {NoText} /\ tasks \subseteq Texts

InputInit ==
  /\ slot = NoQuestion /\ ask = [q \in Questions |-> "none"]
  /\ event = [q \in Questions |-> FALSE] /\ withdrawn = [q \in Questions |-> FALSE]
  /\ answers = [q \in Questions |-> NoText] /\ result = [q \in Questions |-> NoText]
  /\ listed = {} /\ moot = {}
  /\ callback = [m \in Texts |-> "none"] /\ heard = [m \in Texts |-> NoQuestion]
  /\ row = [m \in Texts |-> "absent"] /\ arrivals = 0
  /\ task = NoText /\ tasks = {}

NoApprovals == Mixed \/ \A a \in Requests : handler[a] = "none"
NoInputs    == Mixed \/ (arrivals = 0 /\ \A q \in Questions : ask[q] = "none")

-----------------------------------------------------------------------------
(* handle_user_input_request: one thread per question.                     *)

Step(q, from, to) == ask[q] = from /\ ask' = Set(ask, q, to)
Thread == UNCHANGED <<answers, listed, messages, executor>>

\* The chat has one slot; a second question is refused.
Register(q) ==
  /\ daemon # "down" /\ turn[AskedBy] # "lost"
  /\ NoApprovals
  /\ IF slot = NoQuestion THEN Step(q, "none", "registered") /\ slot' = q
                          ELSE Step(q, "none", "refused") /\ UNCHANGED slot
  /\ UNCHANGED <<event, withdrawn, result, moot>> /\ Thread

\* reply_text with the question, which may fail.
Prompt(q) ==
  /\ \/ Step(q, "registered", "waiting") /\ UNCHANGED slot
     \/ Step(q, "registered", "refused") /\ slot' = NoQuestion
  /\ UNCHANGED <<event, withdrawn, result, moot>> /\ Thread

WakeUp(q) ==
  /\ Step(q, "waiting", "woken")
  /\ event[q] \/ Timeouts
  /\ moot' = IF event[q] THEN moot ELSE moot \cup {q} \* timed out
  /\ UNCHANGED <<slot, event, withdrawn, result>> /\ Thread

Leave(q) ==
  /\ Step(q, "woken", "left")
  /\ slot' = NoQuestion
  /\ UNCHANGED <<event, withdrawn, result, moot>> /\ Thread

\* What was withdrawn is refused, whatever was answered.
Give(q) ==
  /\ Step(q, "left", "answered")
  /\ result' = IF withdrawn[q] THEN result ELSE Set(result, q, answers[q])
  /\ moot' = IF turn[AskedBy] = "running" THEN moot ELSE moot \cup {q}
  /\ UNCHANGED <<slot, event, withdrawn>> /\ Thread

Question(q) == Prompt(q) \/ WakeUp(q) \/ Leave(q) \/ Give(q)

\* The question of a turn that ended, or of a stopping daemon.
Withdraw(q) ==
  /\ q \in listed /\ listed' = listed \ {q}
  /\ withdrawn' = Set(withdrawn, q, TRUE) /\ event' = Set(event, q, TRUE)
  /\ UNCHANGED <<slot, ask, answers, result, moot, messages, executor>>

-----------------------------------------------------------------------------
(* consume_user_input_message: the thread of the callback.                 *)

Goto(m, s) == callback' = Set(callback, m, s)
Done(m)    == Goto(m, "none") /\ heard' = Set(heard, m, NoQuestion)
Receiving  == UNCHANGED <<slot, ask, withdrawn, result, listed, arrivals, executor>>

\* Without a question the text goes the way of every message.
Arrive(m) ==
  /\ daemon # "down" /\ callback[m] = "none" /\ NoApprovals
  /\ arrivals < MaxArrivals /\ arrivals' = arrivals + 1
  /\ IF slot = NoQuestion
     THEN /\ row' = Set(row, m, IF row[m] = "absent" THEN "queued" ELSE row[m])
          /\ UNCHANGED <<callback, heard>>
     ELSE Goto(m, "heard") /\ heard' = Set(heard, m, slot) /\ UNCHANGED row
  /\ UNCHANGED <<asked, executor>>

\* A text that was delivered before is dropped.
Insert(m) ==
  /\ callback[m] = "heard"
  /\ IF row[m] = "absent" THEN row' = Set(row, m, "queued") /\ Goto(m, "inserted") /\ UNCHANGED heard
                          ELSE Done(m) /\ UNCHANGED row
  /\ UNCHANGED <<event, answers, moot>> /\ Receiving

Answered(m) ==
  /\ answers' = Set(answers, heard[m], m)
  /\ moot' = IF answers[heard[m]] = NoText THEN moot ELSE moot \cup {heard[m]}
Match_Tells(m) ==   \* mutant: the handler is woken before the row is closed
  /\ callback[m] = "inserted" /\ Goto(m, "matched")
  /\ Answered(m) /\ event' = Set(event, heard[m], TRUE)
  /\ UNCHANGED <<heard, row>> /\ Receiving
Match(m) ==
  /\ callback[m] = "inserted" /\ Goto(m, "matched")
  /\ Answered(m) /\ UNCHANGED <<event, heard, row>> /\ Receiving

\* It does not fit the questions.  Neither mark has a condition on the status.
Mismatch(m) ==
  /\ callback[m] = "inserted" /\ Done(m)
  /\ row' = Set(row, m, "ignored")
  /\ UNCHANGED <<event, answers, moot>> /\ Receiving
Complete(m) ==
  /\ callback[m] = "matched" /\ Goto(m, "marked")
  /\ row' = Set(row, m, "completed")
  /\ UNCHANGED <<event, answers, heard, moot>> /\ Receiving

Tell(m) ==
  /\ callback[m] = "marked" /\ Done(m)
  /\ event' = Set(event, heard[m], TRUE)
  /\ UNCHANGED <<answers, row, moot>> /\ Receiving

Receive(m) == Insert(m) \/ Match(m) \/ Mismatch(m) \/ Complete(m) \/ Tell(m)

-----------------------------------------------------------------------------
(* The executor of the chat (ChatScheduler): the next queued row, as soon  *)
(* as the turn that asks is over.                                          *)

RunTask(m) ==
  /\ daemon = "up" /\ turn[AskedBy] # "running" /\ task = NoText
  /\ row[m] = "queued" /\ row' = Set(row, m, "running")
  /\ task' = m /\ tasks' = tasks \cup {m}
  /\ UNCHANGED <<asked, callback, heard, arrivals>>

EndTask ==
  /\ task # NoText /\ task' = NoText
  /\ row' = Set(row, task, "completed")
  /\ UNCHANGED <<asked, callback, heard, arrivals, tasks>>

-----------------------------------------------------------------------------
(* With the approvals                                                      *)

Listed == listed' = listed \cup ({slot} \ {NoQuestion})
Others == UNCHANGED <<slot, ask, event, withdrawn, answers, result, moot,
                      messages, executor>>

AskingTurnEnds ==
  /\ TurnEnds(AskedBy) /\ Listed /\ Others
StopInputs == CancelAll /\ Listed /\ Others

Ended == {"none", "answered", "refused"}
Crash ==
  /\ Down
  /\ slot' = NoQuestion /\ listed' = {} /\ task' = NoText
  /\ ask' = [q \in Questions |-> IF ask[q] \in Ended THEN ask[q] ELSE "lost"]
  /\ callback' = [m \in Texts |-> "none"] /\ heard' = [m \in Texts |-> NoQuestion]
  /\ UNCHANGED <<event, withdrawn, answers, result, moot, row, arrivals, tasks>>
Restart ==
  /\ Recover
  /\ row' = [m \in Texts |->
               IF row[m] = "running" THEN "interrupted_on_restart" ELSE row[m]]
  /\ UNCHANGED <<asked, callback, heard, arrivals, executor>>

FinalizeBeside(a) == NoInputs /\ Finalize(a)
BridgeNext ==
  \/ \E a \in Requests : NoInputs /\ Create(a) /\ UNCHANGED inputs
  \/ \E a \in Requests : /\ Handle(a) \/ Resolved(a) \/ FinalizeBeside(a)
                            \/ CancelRow(a) \/ CancelWaiter(a)
                         /\ UNCHANGED inputs
  \/ \E k \in Clicks : (Click(k) \/ Callback(k)) /\ UNCHANGED inputs
  \/ \E t \in Turns, a \in Requests : (CloseRow(t, a) \/ CloseWaiter(t, a)) /\ UNCHANGED inputs
  \/ \E j \in Jobs : (MoveFeedback(j) \/ UpdateCard(j)) /\ UNCHANGED inputs
  \/ \E t \in Turns \ {AskedBy} : TurnEnds(t) /\ UNCHANGED inputs
  \/ AskingTurnEnds \/ StopInputs \/ Crash \/ Restart
  \/ \E q \in Questions : (Register(q) \/ Question(q) \/ Withdraw(q)) /\ UNCHANGED vars
  \/ \E m \in Texts : (Arrive(m) \/ Receive(m) \/ RunTask(m)) /\ UNCHANGED vars
  \/ EndTask /\ UNCHANGED vars

BridgeInit == Init /\ InputInit
BridgeSpec == BridgeInit /\ [][BridgeNext]_bridge

\* As in Approvals: threads run on.  Nobody owes an answer.
FairBridge ==
  /\ BridgeSpec
  /\ \A a \in Requests : WF_vars(Handle(a)) /\ WF_vars(CancelRow(a) \/ CancelWaiter(a))
  /\ \A k \in Clicks : WF_vars(Callback(k))
  /\ \A t \in Turns, a \in Requests : WF_vars(CloseRow(t, a) \/ CloseWaiter(t, a))
  /\ \A j \in Jobs : WF_vars(MoveFeedback(j) \/ UpdateCard(j))

-----------------------------------------------------------------------------
\* A text that answers a question of a running turn is not run as a task of its own
\* as well ("不会创建新任务", approvals.py:331), not even after a crash, though the
\* executor may look at its row as soon as Codex goes on.  Left aside are questions
\* whose wait timed out while the answer was taken, whose turn ended, or that got a
\* second text before they left the slot: there the row may still be queued when
\* the answer is given.
AnswerIsNoTask ==
  \A q \in Questions \ moot : result[q] # NoText => result[q] \notin tasks
=============================================================================
