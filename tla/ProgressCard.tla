----------------------------- MODULE ProgressCard -----------------------------
(***************************************************************************)
(* FeishuTurnProgress (FeishuChatProgress differs in wording only): a card *)
(* for each turn, kept current by a thread of its own that polls the       *)
(* latest state, so that native events cost no API calls.  The worker that *)
(* runs the turn starts and finishes the card and never waits for it.      *)
(***************************************************************************)
CONSTANT Turns   \* the turns whose card is followed

VARIABLES
  card,      \* the card thread: "none", "polling", "updating", "over", "disabled"
  state,     \* _state['state']
  terminal,  \* _terminal
  drawn,     \* the state and _terminal the thread read under _lock
  shown      \* the state the user sees

cardVars == <<card, state, terminal, drawn, shown>>

CardStates == {"accepted", "running", "completed", "timed_out", "stopped", "failed"}

CardTypeOK ==
  /\ card \in [Turns -> {"none", "polling", "updating", "over", "disabled"}]
  /\ state \in [Turns -> CardStates]
  /\ terminal \in [Turns -> BOOLEAN]
  /\ drawn \in [Turns -> [state : CardStates, terminal : BOOLEAN]]
  /\ shown \in [Turns -> CardStates]

Undrawn == [state |-> "accepted", terminal |-> FALSE]

CardInit ==
  /\ card = [t \in Turns |-> "none"]
  /\ state = [t \in Turns |-> "accepted"]
  /\ terminal = [t \in Turns |-> FALSE]
  /\ drawn = [t \in Turns |-> Undrawn]
  /\ shown = [t \in Turns |-> "accepted"]

Card(t, s) == card' = [card EXCEPT ![t] = s]

\* start: the thread runs only when the card was sent.
StartCard(t, sent) ==
  /\ Card(t, IF sent THEN "polling" ELSE "disabled")
  /\ UNCHANGED <<state, terminal, drawn, shown>>

\* on_progress, from the thread that reads the app-server's output.
OnProgress(t, s) ==
  /\ state' = IF card[t] = "disabled" THEN state ELSE [state EXCEPT ![t] = s]
  /\ UNCHANGED <<card, terminal, drawn, shown>>

CardState(status) ==
  CASE status = "completed"   -> "completed"
    [] status = "timeout"     -> "timed_out"
    [] status = "interrupted" -> "stopped"
    [] OTHER                  -> "failed"

\* finish takes _lock twice: for the state first, then for _terminal.
FinishState(t, status) == OnProgress(t, CardState(status))

FinishTerminal(t) ==
  /\ terminal' = [terminal EXCEPT ![t] = TRUE]
  /\ UNCHANGED <<card, state, drawn, shown>>

\* _run: the wait ends by itself after the interval, so that a missed wake-up
\* costs time only.  An update with nothing new is skipped or is a heartbeat.
Draw(t) ==
  /\ card[t] = "polling"
  /\ drawn' = [drawn EXCEPT ![t] = [state |-> state[t], terminal |-> terminal[t]]]
  /\ Card(t, "updating")
  /\ UNCHANGED <<state, terminal, shown>>

\* The thread ends after the update that was drawn as the last one.
AfterUpdate_Reread(t) == IF terminal[t] THEN "over" ELSE "polling"   \* mutant
AfterUpdate_Forever(t) == "polling"                                   \* mutant
AfterUpdate(t) == IF drawn[t].terminal THEN "over" ELSE "polling"

\* _update_card, outside the lock.  A failure ends the thread for good, and
\* leaves open whether Feishu carries the update out.
Update(t) ==
  /\ card[t] = "updating"
  /\ \/ /\ shown' = [shown EXCEPT ![t] = drawn[t].state]
        /\ Card(t, AfterUpdate(t))
     \/ /\ shown' \in {shown, [shown EXCEPT ![t] = drawn[t].state]}
        /\ Card(t, "disabled")
  /\ drawn' = [drawn EXCEPT ![t] = Undrawn]
  /\ UNCHANGED <<state, terminal>>

CardStep(t) == Draw(t) \/ Update(t)

\* The process ends: the threads and what they held are gone, the cards stay.
ForgetCards ==
  /\ card' = [t \in Turns |-> IF card[t] = "none" THEN "none" ELSE "disabled"]
  /\ state' = [t \in Turns |-> "accepted"]
  /\ terminal' = [t \in Turns |-> FALSE]
  /\ drawn' = [t \in Turns |-> Undrawn]
  /\ UNCHANGED shown
=============================================================================
