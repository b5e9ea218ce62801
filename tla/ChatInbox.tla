----------------------------- MODULE ChatInbox -----------------------------
(***************************************************************************)
(* What the Feishu runtime promises of a chat's messages, with no tokens,  *)
(* no worker threads and no locks: every message becomes one durable row;  *)
(* a chat executes one row at a time and none before a prompt that was     *)
(* stored when the row's message came; a row that was begun is never begun *)
(* again, but for a new direction, whatever happens to the process.        *)
(* ChatScheduler is shown to implement it.                                 *)
(***************************************************************************)
CONSTANTS Chats, Messages, ChatOf, Kind, NoMessage

VARIABLES
  status,    \* the row of each message
  ahead,     \* the prompts of its chat that were stored when it came
  arriving,  \* messages that have come and are not stored yet
  turn,      \* the message each chat is executing, or NoMessage
  live       \* the process exists

vars == <<status, ahead, arriving, turn, live>>

Init ==
  /\ status = [m \in Messages |-> "absent"]
  /\ ahead = [m \in Messages |-> {}]
  /\ arriving = {}
  /\ turn = [c \in Chats |-> NoMessage]
  /\ live = FALSE

SetStatus(m, s) == status' = [status EXCEPT ![m] = s]

\* A message comes, behind the prompts of its chat that are stored.
Come(m) ==
  /\ live /\ status[m] = "absent" /\ m \notin arriving
  /\ arriving' = arriving \cup {m}
  /\ ahead' = [ahead EXCEPT ![m] = {n \in Messages :
       ChatOf[n] = ChatOf[m] /\ Kind[n] = "prompt" /\ status[n] # "absent"}]
  /\ UNCHANGED <<status, turn, live>>

\* It is stored, in any order, or lost and as if it had not come.
Accept(m) ==
  /\ m \in arriving
  /\ SetStatus(m, "queued")
  /\ arriving' = arriving \ {m}
  /\ UNCHANGED <<ahead, turn, live>>

Lose(m) ==
  /\ m \in arriving
  /\ arriving' = arriving \ {m}
  /\ ahead' = [ahead EXCEPT ![m] = {}]
  /\ UNCHANGED <<status, turn, live>>

\* A free chat begins a queued row once no prompt ahead of it is waiting.
Begin(m) ==
  /\ live /\ status[m] = "queued"
  /\ turn[ChatOf[m]] = NoMessage
  /\ \A n \in ahead[m] : status[n] # "queued"
  /\ SetStatus(m, "running")
  /\ turn' = [turn EXCEPT ![ChatOf[m]] = m]
  /\ UNCHANGED <<ahead, arriving, live>>

\* The chat's turn ends: with an outcome, or with none when it cannot be written.
End(c) ==
  /\ turn[c] # NoMessage
  /\ turn' = [turn EXCEPT ![c] = NoMessage]
  /\ \/ \E s \in {"completed", "failed"} : SetStatus(turn[c], s)
     \/ UNCHANGED status
  /\ UNCHANGED <<ahead, arriving, live>>

\* The gateway runs an immediate command, and closes it or gives it back to the
\* queue as a new direction.
BeginCommand(m) ==
  /\ live /\ Kind[m] \in {"control", "redirect"} /\ status[m] = "queued"
  /\ SetStatus(m, "running")
  /\ UNCHANGED <<ahead, arriving, turn, live>>

EndCommand(m) ==
  /\ live /\ Kind[m] \in {"control", "redirect"} /\ status[m] = "running"
  /\ turn[ChatOf[m]] # m
  /\ \/ \E s \in {"completed", "failed"} : SetStatus(m, s)
     \/ Kind[m] = "redirect" /\ SetStatus(m, "queued")
  /\ UNCHANGED <<ahead, arriving, turn, live>>

\* The gateway closes a row it does not execute, or a redirect, without looking
\* at who holds the row by then; a new direction whose reply failed is withdrawn
\* even from the queue.
Close(m) ==
  /\ live /\ status[m] # "absent"
  /\ \/ Kind[m] = "ignored" /\ SetStatus(m, "ignored")
     \/ Kind[m] = "redirect" /\ status[m] # "queued" /\ SetStatus(m, "completed")
     \/ Kind[m] = "redirect" /\ SetStatus(m, "failed")
  /\ UNCHANGED <<ahead, arriving, turn, live>>

\* The process ends; a turn it was executing ends with it, its row still
\* running, and what was arriving is lost.
Die ==
  /\ live /\ live' = FALSE
  /\ turn' = [c \in Chats |-> NoMessage]
  /\ arriving' = {}
  /\ ahead' = [m \in Messages |-> IF status[m] = "absent" THEN {} ELSE ahead[m]]
  /\ UNCHANGED status

\* A new process gives up what was running and keeps what was queued.
Recover ==
  /\ ~live /\ live' = TRUE
  /\ status' = [m \in Messages |-> IF status[m] = "running"
                                   THEN "interrupted_on_restart" ELSE status[m]]
  /\ UNCHANGED <<ahead, arriving, turn>>

Next ==
  \/ \E m \in Messages :
       \/ Come(m) \/ Accept(m) \/ Lose(m) \/ Begin(m)
       \/ BeginCommand(m) \/ EndCommand(m) \/ Close(m)
  \/ \E c \in Chats : End(c)
  \/ Die \/ Recover

Spec == Init /\ [][Next]_vars
=============================================================================
