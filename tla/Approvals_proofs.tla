-------------------------- MODULE Approvals_proofs --------------------------
(* Proofs about Approvals and UserInput, for any number of requests, turns,  *)
(* clicks, questions and texts.                                              *)
EXTENDS UserInput, TLAPS

-----------------------------------------------------------------------------
(* The inductive invariant.                                                  *)

\* A memo or an answer "accept" follows an approved row.
Accepted(a) == state[a] = "approved" /\ decision[a] = "accept"
AcceptsRecorded ==
  \A a \in Requests : memo[a] = "accept" \/ answer[a] = "accept" => Accepted(a)

\* A callback that won the update finds its decision in the row.
WinnersRecorded ==
  \A k \in Clicks : click[k] \in {"won", "acked"} =>
    /\ state[ClickOn[k]] = StateFor(Choice[k])
    /\ decision[ClickOn[k]] = Choice[k]

\* Before its thread runs, a request has no row and no card, and only the card of
\* a bound request is updated.
NotYetThere ==
  /\ \A a \in Requests : handler[a] = "none" =>
       state[a] = "absent" /\ shown[a] = "none" /\ ~ bound[a]
  /\ \A j \in Jobs : job[j] = "moved" => bound[About(j)]

\* Whoever has told the waiter, or is about to, has settled the row; entries and
\* lists are about requests that have a row.
Settled(a) == state[a] \notin {"absent", "pending"}
ToldIsSettled ==
  /\ \A a \in Requests :
       /\ memo[a] # "none" \/ cancelling[a] = "written" => Settled(a)
       /\ pending[a] \/ cancelling[a] # "no" => state[a] # "absent"
  /\ \A t \in Turns, a \in Requests :
       /\ closing[t][a] = "won" => Settled(a)
       /\ closing[t][a] # "no" => state[a] # "absent"

\* A handler that can still wait has its entry, and a callback that came to an
\* end has told it.
Waits(a) == handler[a] \in {"created", "sent", "waiting"}
WaitersAreTold ==
  /\ \A a \in Requests : Waits(a) => pending[a]
  /\ \A k \in Clicks : click[k] = "resolved" /\ Waits(ClickOn[k]) =>
                         memo[ClickOn[k]] # "none"

\* Nobody clicks on a card that was not sent.
UnsentUnclicked ==
  \A k \in Clicks : shown[ClickOn[k]] = "none" => click[k] \in {"none", "late"}

Inv ==
  /\ TypeOK /\ AcceptsRecorded /\ WinnersRecorded /\ NotYetThere /\ ToldIsSettled
  /\ WaitersAreTold /\ UnsentUnclicked /\ PendingIsHandled

-----------------------------------------------------------------------------
USE ApprovalsAssumption
USE DEF Set, At, Go, rows, waiting, cards, appserver

\* The empty tables satisfy the invariant.
LEMMA InitInv == Init => Inv
BY DEF Init, Inv, TypeOK, AcceptsRecorded, WinnersRecorded, NotYetThere,
   ToldIsSettled, WaitersAreTold, Waits, UnsentUnclicked, PendingIsHandled, Settled, Jobs,
   Feedbacks, States, Decisions

RowTypes == /\ state \in [Requests -> States \cup {"absent"}]
            /\ decision \in [Requests -> Decisions \cup {"none"}]

\* The conditional update of a row, as one update of both columns.
LEMMA TryResolved ==
  ASSUME RowTypes, NEW a \in Requests, NEW d \in Decisions, NEW s \in States,
         TryResolve(a, d, s)
  PROVE  /\ state' = [state EXCEPT ![a] = IF state[a] = "pending" THEN s ELSE state[a]]
         /\ decision' = [decision EXCEPT ![a] = IF state[a] = "pending"
                                                THEN d ELSE decision[a]]
         /\ RowTypes'
<1>1. CASE Resolvable(a)
  BY <1>1 DEF TryResolve, Resolve, Resolvable, RowTypes
<1>2. CASE ~ Resolvable(a)
  BY <1>2 DEF TryResolve, Resolvable, RowTypes
<1> QED BY <1>1, <1>2

\* Requests and clicks have updates, and an update is about a request.
LEMMA JobsAre ==
  /\ \A a \in Requests : a \in Jobs
  /\ \A k \in Clicks : k \in Jobs
  /\ \A j \in Jobs : About(j) \in Requests
BY DEF Jobs, About, ApprovalsAssumption

UpdateTypes == /\ job \in [Jobs -> {"none", "queued", "moved"}]
               /\ jobState \in [Jobs -> Feedbacks]

\* An update of a card is queued.
LEMMA Enqueued ==
  ASSUME UpdateTypes, NEW j \in Jobs, NEW s \in Feedbacks, Enqueue(j, s)
  PROVE  UpdateTypes'
BY DEF Enqueue, UpdateTypes

\* A click that comes late ends, with an update of the card or without.
LEMMA Repeated ==
  ASSUME UpdateTypes, feedback \in [Requests -> Feedbacks], NEW k \in Clicks, Repeat(k)
  PROVE  UpdateTypes' /\ click' = Set(click, k, "late")
<1>1. ClickOn[k] \in Requests
  BY DEF ApprovalsAssumption
<1>2. CASE decision[ClickOn[k]] \in {"accept", "decline"}
  <2>1. Enqueue(k, feedback[ClickOn[k]])
    BY <1>2 DEF Repeat
  <2> QED BY <1>1, <2>1, Enqueued, JobsAre DEF Repeat
<1>3. CASE ~ (decision[ClickOn[k]] \in {"accept", "decline"})
  BY <1>3 DEF Repeat, UpdateTypes
<1> QED BY <1>2, <1>3

\* Every step keeps the types.
LEMMA TypeStep == TypeOK /\ [Next]_vars => TypeOK'
<1> SUFFICES ASSUME TypeOK, [Next]_vars PROVE TypeOK'
  OBVIOUS
<1> USE DEF TypeOK
<1>0. RowTypes /\ UpdateTypes
  BY DEF RowTypes, UpdateTypes
<1>1. ASSUME NEW a \in Requests, Create(a) PROVE TypeOK'
  BY <1>1 DEF Create, States
<1>2. ASSUME NEW a \in Requests, SendCard(a) PROVE TypeOK'
  BY <1>2 DEF SendCard, Feedbacks
<1>3. ASSUME NEW a \in Requests, BindCard(a) PROVE TypeOK'
  BY <1>3 DEF BindCard
<1>4. ASSUME NEW a \in Requests, SendFails(a) PROVE TypeOK'
  BY <1>4 DEF SendFails
<1>5. ASSUME NEW a \in Requests, FailClosed(a) PROVE TypeOK'
  <2>1. RowTypes'
    BY <1>0, <1>5, TryResolved DEF FailClosed, States, Decisions
  <2> QED BY <1>5, <2>1 DEF FailClosed, RowTypes, Decisions
<1>6. ASSUME NEW a \in Requests, Wake(a) PROVE TypeOK'
  BY <1>6 DEF Wake
<1>7. ASSUME NEW a \in Requests, Pop(a) PROVE TypeOK'
  BY <1>7 DEF Pop
<1>8. ASSUME NEW a \in Requests, Answer(a) PROVE TypeOK'
  <2>1. RowTypes' /\ answer' \in [Requests -> Decisions \cup {"none"}]
    <3>1. CASE memo[a] = "none"
      <4>1. TryResolve(a, "decline", "expired") /\ answer' = Set(answer, a, OnTimeout)
        BY <1>8, <3>1 DEF Answer
      <4> QED BY <1>0, <4>1, TryResolved DEF OnTimeout, States, Decisions
    <3>2. CASE memo[a] # "none"
      <4>1. UNCHANGED <<state, decision>> /\ answer' = Set(answer, a, memo[a])
        BY <1>8, <3>2 DEF Answer
      <4> QED BY <1>0, <4>1 DEF RowTypes
    <3> QED BY <3>1, <3>2
  <2> QED BY <1>8, <2>1 DEF Answer, RowTypes
<1>9. ASSUME NEW a \in Requests, Resolved(a) PROVE TypeOK'
  BY <1>9 DEF Resolved, List, ApprovalsAssumption
<1>10. ASSUME NEW a \in Requests, Finalize(a) PROVE TypeOK'
  <2>1. job' \in [Jobs -> {"none", "queued", "moved"}] /\ jobState' \in [Jobs -> Feedbacks]
    <3>1. CASE Finalizable(a)
      <4>1. PICK s \in {"DECLINED", "APPROVED", "EXECUTION_FAILED"} : Enqueue(a, s)
        BY <1>10, <3>1 DEF Finalize
      <4> QED BY <4>1, JobsAre DEF Enqueue, Feedbacks
    <3>2. CASE ~ Finalizable(a)
      BY <1>10, <3>2 DEF Finalize
    <3> QED BY <3>1, <3>2
  <2>2. rounds' \in [Requests -> 0..2]
    <3>1. rounds[a] < 2 /\ rounds' = Set(rounds, a, rounds[a] + 1)
      BY <1>10 DEF Finalize
    <3>2. rounds[a] \in 0..2
      OBVIOUS
    <3>3. rounds[a] + 1 \in 0..2
      BY <3>1, <3>2
    <3> QED BY <3>1, <3>3
  <2>3. passed' \subseteq Requests
    BY <1>10 DEF Finalize
  <2> QED BY <1>10, <2>1, <2>2, <2>3 DEF Finalize
<1>11. ASSUME NEW a \in Requests, CancelRow(a) PROVE TypeOK'
  <2>1. RowTypes'
    BY <1>0, <1>11, TryResolved DEF CancelRow, States, Decisions
  <2> QED BY <1>11, <2>1 DEF CancelRow, RowTypes
<1>12. ASSUME NEW a \in Requests, CancelWaiter(a) PROVE TypeOK'
  BY <1>12 DEF CancelWaiter, Decisions
<1>13. ASSUME NEW k \in Clicks, Click(k) PROVE TypeOK'
  <2>1. CASE state[ClickOn[k]] # "pending"
    <3>1. Repeat(k)
      BY <1>13, <2>1 DEF Click
    <3>2. UpdateTypes' /\ click' = Set(click, k, "late")
      BY <1>0, <3>1, Repeated
    <3> QED BY <1>13, <3>2 DEF Click, UpdateTypes
  <2>2. CASE state[ClickOn[k]] = "pending"
    <3>1. click' = Set(click, k, "read") /\ UNCHANGED <<job, jobState>>
      BY <1>13, <2>2 DEF Click
    <3> QED BY <1>13, <3>1 DEF Click
  <2> QED BY <2>1, <2>2
<1>14. ASSUME NEW k \in Clicks, Decide(k) PROVE TypeOK'
  <2>1. CASE Resolvable(ClickOn[k])
    <3>1. /\ Resolve(ClickOn[k], Choice[k], StateFor(Choice[k]))
          /\ click' = Set(click, k, "won")
          /\ UNCHANGED <<job, jobState>>
      BY <1>14, <2>1 DEF Decide
    <3>2. Choice[k] \in Decisions /\ StateFor(Choice[k]) \in States
      BY DEF StateFor, States, Decisions, ApprovalsAssumption
    <3>3. RowTypes'
      BY <1>0, <3>1, <3>2 DEF Resolve, RowTypes
    <3> QED BY <1>14, <3>1, <3>3 DEF Decide, RowTypes
  <2>2. CASE ~ Resolvable(ClickOn[k])
    <3>1. Repeat(k) /\ UNCHANGED <<state, decision>>
      BY <1>14, <2>2 DEF Decide
    <3>2. UpdateTypes' /\ click' = Set(click, k, "late")
      BY <1>0, <3>1, Repeated
    <3> QED BY <1>14, <3>1, <3>2 DEF Decide, UpdateTypes
  <2> QED BY <2>1, <2>2
<1>15. ASSUME NEW k \in Clicks, Acknowledge(k) PROVE TypeOK'
  <2>1. UpdateTypes'
    <3>1. CASE Choice[k] = "cancel"
      BY <1>15, <3>1 DEF Acknowledge, UpdateTypes
    <3>2. CASE Choice[k] # "cancel"
      <4>1. Enqueue(k, "ACKNOWLEDGED_PROCESSING")
        BY <1>15, <3>2 DEF Acknowledge
      <4> QED BY <4>1, Enqueued, JobsAre DEF UpdateTypes, Feedbacks
    <3> QED BY <3>1, <3>2
  <2> QED BY <1>15, <2>1 DEF Acknowledge, UpdateTypes
<1>16. ASSUME NEW k \in Clicks, Deliver(k) PROVE TypeOK'
  BY <1>16 DEF Deliver, Decisions, ApprovalsAssumption
<1>17. ASSUME NEW t \in Turns, TurnEnds(t) PROVE TypeOK'
  BY <1>17 DEF TurnEnds, List
<1>18. ASSUME NEW t \in Turns, NEW a \in Requests, CloseRow(t, a) PROVE TypeOK'
  <2>1. RowTypes'
    BY <1>0, <1>18, TryResolved DEF CloseRow, States, Decisions
  <2> QED BY <1>18, <2>1 DEF CloseRow, SetClosing, RowTypes
<1>19. ASSUME NEW t \in Turns, NEW a \in Requests, CloseWaiter(t, a) PROVE TypeOK'
  BY <1>19 DEF CloseWaiter, SetClosing, Decisions
<1>20. ASSUME NEW j \in Jobs, MoveFeedback(j) PROVE TypeOK'
  <2>1. About(j) \in Requests
    BY JobsAre
  <2>2. CASE bound[About(j)] /\ Advances(feedback[About(j)], jobState[j])
    <3>1. /\ feedback' = Set(feedback, About(j), jobState[j])
          /\ job' = Set(job, j, "moved")
      BY <1>20, <2>2 DEF MoveFeedback
    <3> QED BY <1>20, <2>1, <3>1 DEF MoveFeedback
  <2>3. CASE ~ (bound[About(j)] /\ Advances(feedback[About(j)], jobState[j]))
    <3>1. UNCHANGED feedback /\ job' = Set(job, j, "none")
      BY <1>20, <2>3 DEF MoveFeedback
    <3> QED BY <1>20, <3>1 DEF MoveFeedback
  <2> QED BY <2>2, <2>3
<1>21. ASSUME NEW j \in Jobs, UpdateCard(j) PROVE TypeOK'
  <2>1. shown' \in [Requests -> Feedbacks \cup {"none"}]
    <3>1. CASE shown' = Set(shown, About(j), jobState[j])
      BY <3>1, JobsAre
    <3>2. CASE UNCHANGED shown
      BY <3>2
    <3> QED BY <1>21, <3>1, <3>2 DEF UpdateCard
  <2>2. job' \in [Jobs -> {"none", "queued", "moved"}]
    BY <1>21 DEF UpdateCard
  <2> QED BY <1>21, <2>1, <2>2 DEF UpdateCard
<1>22. CASE CancelAll
  BY <1>22 DEF CancelAll
<1>23. CASE Down
  BY <1>23 DEF Down, Feedbacks
<1>24. CASE Recover
  BY <1>24 DEF Recover, Orphaned, States
<1>25. CASE UNCHANGED vars
  BY <1>25 DEF vars
<1> QED
  BY <1>1, <1>2, <1>3, <1>4, <1>5, <1>6, <1>7, <1>8, <1>9, <1>10, <1>11, <1>12,
     <1>13, <1>14, <1>15, <1>16, <1>17, <1>18, <1>19, <1>20, <1>21, <1>22, <1>23,
     <1>24, <1>25 DEF Next, Handle, Callback

-----------------------------------------------------------------------------
(* Which steps touch what.                                                   *)

\* The columns state and decision are written by these steps only.
LEMMA RowSteps ==
  ASSUME [Next]_vars
  PROVE  \/ UNCHANGED <<state, decision>>
         \/ Recover
         \/ \E a \in Requests : Create(a) \/ FailClosed(a) \/ Answer(a) \/ CancelRow(a)
         \/ \E k \in Clicks : Decide(k)
         \/ \E t \in Turns, a \in Requests : CloseRow(t, a)
BY DEF Next, vars, Handle, Callback, SendCard, BindCard, SendFails, Wake, Pop, Click,
   Acknowledge, Deliver, Resolved, TurnEnds, CloseWaiter, Finalize, MoveFeedback,
   UpdateCard, CancelAll, CancelWaiter, Down

\* Handlers, entries, memos and answers are written by these steps only.
LEMMA WaiterSteps ==
  ASSUME [Next]_vars
  PROVE  \/ UNCHANGED waiting
         \/ Down
         \/ \E a \in Requests : Create(a) \/ Handle(a) \/ CancelWaiter(a)
         \/ \E k \in Clicks : Deliver(k)
         \/ \E t \in Turns, a \in Requests : CloseWaiter(t, a)
BY DEF Next, vars, Callback, Click, Decide, Acknowledge, Resolved, TurnEnds, CloseRow,
   Finalize, MoveFeedback, UpdateCard, CancelAll, CancelRow, Recover

\* Callbacks are written by these steps only.
LEMMA ClickSteps ==
  ASSUME [Next]_vars
  PROVE  \/ UNCHANGED click
         \/ Down
         \/ \E k \in Clicks : Click(k) \/ Callback(k)
BY DEF Next, vars, Handle, Create, SendCard, BindCard, SendFails, FailClosed, Wake, Pop,
   Answer, Resolved, TurnEnds, CloseRow, CloseWaiter, Finalize, MoveFeedback, UpdateCard,
   CancelAll, CancelRow, CancelWaiter, Recover

\* Cards, their binding and their updates are written by these steps only.
LEMMA CardSteps ==
  ASSUME [Next]_vars
  PROVE  \/ UNCHANGED <<shown, bound, job, jobState>>
         \/ Down
         \/ \E a \in Requests : SendCard(a) \/ BindCard(a) \/ Finalize(a)
         \/ \E k \in Clicks : Click(k) \/ Decide(k) \/ Acknowledge(k)
         \/ \E j \in Jobs : MoveFeedback(j) \/ UpdateCard(j)
BY ZenonT(60) DEF Next, vars, Handle, Callback, Create, SendFails, FailClosed, Wake, Pop, Answer,
   Deliver, Resolved, TurnEnds, CloseRow, CloseWaiter, CancelAll, CancelRow,
   CancelWaiter, Recover

\* The lists of cancel_all_pending and of the notifications are written by these
\* steps only.
LEMMA ClosingSteps ==
  ASSUME [Next]_vars
  PROVE  \/ UNCHANGED <<closing, cancelling>>
         \/ CancelAll \/ Down
         \/ \E a \in Requests : Resolved(a) \/ CancelRow(a) \/ CancelWaiter(a)
         \/ \E t \in Turns : TurnEnds(t)
         \/ \E t \in Turns, a \in Requests : CloseRow(t, a) \/ CloseWaiter(t, a)
BY DEF Next, vars, Handle, Callback, Create, SendCard, BindCard, SendFails, FailClosed,
   Wake, Pop, Answer, Click, Decide, Acknowledge, Deliver, Finalize, MoveFeedback,
   UpdateCard, Recover

-----------------------------------------------------------------------------
(* Rows.                                                                     *)

\* The update of the row of one request leaves settled rows alone.
LEMMA OneRow ==
  ASSUME RowTypes, NEW a \in Requests, NEW d \in Decisions, NEW s \in States,
         TryResolve(a, d, s)
  PROVE  \A b \in Requests :
           /\ Settled(b) => state'[b] = state[b] /\ decision'[b] = decision[b]
           /\ state[b] = "absent" <=> state'[b] = "absent"
           /\ state'[b] = "pending" => state[b] = "pending"
           /\ s # "pending" => state'[a] # "pending"
BY TryResolved DEF RowTypes, Settled, States

\* What a step does to rows: a settled row stays, and only Create writes the row
\* of a request that has none.
LEMMA RowsStep ==
  ASSUME Inv, [Next]_vars, NEW b \in Requests
  PROVE  /\ Settled(b) => state'[b] = state[b] /\ decision'[b] = decision[b]
         /\ state[b] = "absent" /\ state'[b] # "absent" => Create(b)
         /\ state'[b] = "pending" => state[b] = "pending" \/ Create(b)
         /\ state'[b] = "absent" => state[b] = "absent"
<1>0. RowTypes
  BY DEF Inv, TypeOK, RowTypes
<1> USE DEF Settled
<1>1. CASE UNCHANGED <<state, decision>>
  BY <1>1
<1>2. CASE Recover
  BY <1>2 DEF Recover, Orphaned
<1>3. ASSUME NEW a \in Requests, Create(a) PROVE b # a => UNCHANGED <<state[b], decision[b]>>
  BY <1>0, <1>3 DEF Create, RowTypes
<1>4. ASSUME NEW a \in Requests, Create(a) PROVE state[a] = "absent"
  BY <1>4 DEF Create, Inv, NotYetThere
<1>5. ASSUME NEW a \in Requests, FailClosed(a) \/ CancelRow(a)
      PROVE  \E d \in Decisions, s \in States : TryResolve(a, d, s)
  BY <1>5 DEF FailClosed, CancelRow, Decisions, States
<1>6. ASSUME NEW a \in Requests, Answer(a)
      PROVE  \/ UNCHANGED <<state, decision>>
             \/ \E d \in Decisions, s \in States : TryResolve(a, d, s)
  <2>1. CASE memo[a] = "none"
    <3>1. TryResolve(a, "decline", "expired")
      BY <1>6, <2>1 DEF Answer
    <3> QED BY <3>1 DEF Decisions, States
  <2>2. CASE memo[a] # "none"
    BY <1>6, <2>2 DEF Answer
  <2> QED BY <2>1, <2>2
<1>7. ASSUME NEW k \in Clicks, Decide(k)
      PROVE  \/ UNCHANGED <<state, decision>>
             \/ \E d \in Decisions, s \in States : TryResolve(ClickOn[k], d, s)
  <2>1. CASE Resolvable(ClickOn[k])
    <3>1. Resolve(ClickOn[k], Choice[k], StateFor(Choice[k]))
      BY <1>7, <2>1 DEF Decide
    <3>2. Choice[k] \in Decisions /\ StateFor(Choice[k]) \in States
      BY DEF StateFor, States, Decisions, ApprovalsAssumption
    <3> QED BY <2>1, <3>1, <3>2 DEF TryResolve
  <2>2. CASE ~ Resolvable(ClickOn[k])
    BY <1>7, <2>2 DEF Decide
  <2> QED BY <2>1, <2>2
<1>8. ASSUME NEW t \in Turns, NEW a \in Requests, CloseRow(t, a)
      PROVE  \E d \in Decisions, s \in States : TryResolve(a, d, s)
  BY <1>8 DEF CloseRow, Decisions, States
<1>9. \A k \in Clicks : ClickOn[k] \in Requests
  BY DEF ApprovalsAssumption
<1>10. CASE \E a \in Requests, d \in Decisions, s \in States : TryResolve(a, d, s)
  BY <1>0, <1>10, OneRow
<1>11. CASE \E a \in Requests : Create(a)
  BY <1>3, <1>4, <1>11
<1> QED
  BY <1>1, <1>2, <1>5, <1>6, <1>7, <1>8, <1>9, <1>10, <1>11, RowSteps

-----------------------------------------------------------------------------
(* The parts of the invariant, step by step.                                 *)

\* A row that a step settles, or that was settled, is settled by that decision.
LEMMA DecideWrites ==
  ASSUME Inv, NEW k \in Clicks, Decide(k), click'[k] = "won"
  PROVE  /\ state'[ClickOn[k]] = StateFor(Choice[k])
         /\ decision'[ClickOn[k]] = Choice[k]
<1>1. ClickOn[k] \in Requests
  BY DEF ApprovalsAssumption
<1>2. CASE Resolvable(ClickOn[k])
  <2>1. Resolve(ClickOn[k], Choice[k], StateFor(Choice[k]))
    BY <1>2 DEF Decide
  <2> QED BY <1>1, <2>1 DEF Resolve, Inv, TypeOK
<1>3. CASE ~ Resolvable(ClickOn[k])
  <2>1. Repeat(k)
    BY <1>3 DEF Decide
  <2> QED BY <2>1 DEF Repeat, Inv, TypeOK
<1> QED BY <1>2, <1>3

\* StateFor never gives back a row that can be resolved again.
LEMMA StateForSettles ==
  \A k \in Clicks : StateFor(Choice[k]) \notin {"absent", "pending"}
BY DEF StateFor, ApprovalsAssumption

\* A callback that has won, or that goes on, finds its decision in the row.
LEMMA WinnersStep == Inv /\ [Next]_vars => WinnersRecorded'
<1> SUFFICES ASSUME Inv, [Next]_vars, NEW k \in Clicks, click'[k] \in {"won", "acked"}
             PROVE  /\ state'[ClickOn[k]] = StateFor(Choice[k])
                    /\ decision'[ClickOn[k]] = Choice[k]
  BY DEF WinnersRecorded
<1>1. ClickOn[k] \in Requests
  BY DEF ApprovalsAssumption
<1>2. CASE click[k] \in {"won", "acked"}
  BY <1>1, <1>2, RowsStep, StateForSettles DEF Inv, WinnersRecorded, Settled
<1>3. CASE click[k] \notin {"won", "acked"}
  <2>1. PICK m \in Clicks : Click(m) \/ Callback(m)
    <3>1. ~ Down
      BY <1>3 DEF Down
    <3>2. ~ UNCHANGED click
      BY <1>3
    <3> QED BY <3>1, <3>2, ClickSteps
  <2>2. ~ Click(m)
    BY <1>3 DEF Click, Repeat, Inv, TypeOK
  <2>3. m = k /\ Decide(k)
    BY <1>3, <2>1, <2>2 DEF Callback, Decide, Repeat, Acknowledge, Deliver, Inv, TypeOK,
       WinnersRecorded
  <2>4. click'[k] = "won"
    BY <1>3, <2>3 DEF Decide, Repeat, Inv, TypeOK
  <2> QED BY <2>3, <2>4, DecideWrites
<1> QED BY <1>2, <1>3

\* A memo or an answer "accept" comes from a callback that has won, or was there.
LEMMA AcceptsStep == Inv /\ [Next]_vars => AcceptsRecorded'
<1> SUFFICES ASSUME Inv, [Next]_vars, NEW a \in Requests,
                    memo'[a] = "accept" \/ answer'[a] = "accept"
             PROVE  Accepted(a)'
  BY DEF AcceptsRecorded
<1>1. Accepted(a) => Accepted(a)'
  BY RowsStep DEF Accepted, Settled
<1>2. ASSUME NEW k \in Clicks, Deliver(k), ClickOn[k] = a, Choice[k] = "accept"
      PROVE  Accepted(a)
  BY <1>2 DEF Deliver, Inv, WinnersRecorded, StateFor, Accepted
<1>3. CASE memo[a] = "accept" \/ answer[a] = "accept"
  BY <1>1, <1>3 DEF Inv, AcceptsRecorded
<1>4. CASE ~ (memo[a] = "accept" \/ answer[a] = "accept")
  <2>1. ~ Down /\ ~ UNCHANGED waiting
    BY <1>4 DEF Down, Inv, TypeOK
  <2>2. ASSUME NEW b \in Requests, Create(b) \/ Handle(b) \/ CancelWaiter(b) PROVE FALSE
    <3>1. ~ Answer(b)
      <4>1. CASE memo[b] = "none"
        BY <1>4, <4>1 DEF Answer, OnTimeout, Inv, TypeOK
      <4>2. CASE memo[b] # "none"
        BY <1>4, <4>2 DEF Answer, Inv, TypeOK
      <4> QED BY <4>1, <4>2
    <3> QED
      BY <1>4, <2>2, <3>1 DEF Handle, Create, SendCard, BindCard, SendFails, FailClosed,
         Wake, Pop, CancelWaiter, Inv, TypeOK
  <2>3. ASSUME NEW t \in Turns, NEW b \in Requests, CloseWaiter(t, b) PROVE FALSE
    BY <1>4, <2>3 DEF CloseWaiter, Inv, TypeOK
  <2>4. PICK k \in Clicks : Deliver(k)
    BY <2>1, <2>2, <2>3, WaiterSteps
  <2>5. ClickOn[k] = a /\ Choice[k] = "accept"
    BY <1>4, <2>4 DEF Deliver, Inv, TypeOK
  <2> QED BY <1>1, <1>2, <2>4, <2>5
<1> QED BY <1>3, <1>4

\* Where a handler can come to stand in a step: a new request's thread begins, one
\* that began is anywhere but at its beginning, and only BindCard, SendCard and
\* Create bring it where it can still wait.
LEMMA HandlerSteps ==
  ASSUME Inv, [Next]_vars, NEW a \in Requests
  PROVE  /\ handler'[a] = "none" => handler[a] = "none"
         /\ Create(a) => handler[a] = "none" /\ handler'[a] = "created"
         /\ handler[a] = "none" => Create(a) \/ handler'[a] = "none"
         /\ SendCard(a) \/ BindCard(a) => handler[a] \in {"created", "sent"}
         /\ Waits(a)' => Waits(a) \/ Create(a)
<1> USE DEF Inv, TypeOK, Waits
<1>1. CASE UNCHANGED waiting
  BY <1>1 DEF Create, SendCard, BindCard
<1>2. CASE Down
  BY <1>2 DEF Down, Create, SendCard, BindCard
<1>3. ASSUME NEW b \in Requests, Create(b) \/ Handle(b) \/ CancelWaiter(b)
      PROVE  /\ b # a => handler'[a] = handler[a]
             /\ Handle(b) => handler[b] # "none" /\ handler'[b] # "none"
             /\ CancelWaiter(b) => handler' = handler
             /\ Create(b) => handler[b] = "none" /\ handler'[b] = "created"
             /\ handler'[b] \in {"created", "sent", "waiting"} => Waits(b) \/ Create(b)
  BY <1>3 DEF Handle, Create, SendCard, BindCard, SendFails, FailClosed, Wake, Pop,
     Answer, CancelWaiter
<1>4. ASSUME NEW k \in Clicks, Deliver(k) PROVE handler' = handler
  BY <1>4 DEF Deliver
<1>5. ASSUME NEW t \in Turns, NEW b \in Requests, CloseWaiter(t, b) PROVE handler' = handler
  BY <1>5 DEF CloseWaiter
<1>6. /\ Create(a) => handler[a] = "none" /\ handler'[a] = "created"
      /\ SendCard(a) \/ BindCard(a) => handler[a] \in {"created", "sent"}
  BY DEF Create, SendCard, BindCard
<1> QED
  BY <1>1, <1>2, <1>3, <1>4, <1>5, <1>6, WaiterSteps

\* A card that was sent or bound stays so; an update moves only bound cards.
LEMMA CardsStep ==
  ASSUME Inv, [Next]_vars, NEW a \in Requests
  PROVE  /\ shown[a] # "none" => shown'[a] # "none"
         /\ bound[a] => bound'[a]
         /\ shown[a] = "none" /\ shown'[a] # "none" =>
              SendCard(a) \/ bound[a]
         /\ ~ bound[a] /\ bound'[a] => BindCard(a)
<1> USE DEF Inv, TypeOK
<1>1. CASE UNCHANGED <<shown, bound, job, jobState>>
  BY <1>1
<1>2. CASE Down
  BY <1>2 DEF Down
<1>3. ASSUME NEW b \in Requests, SendCard(b) \/ BindCard(b) \/ Finalize(b)
      PROVE  /\ b # a => shown'[a] = shown[a] /\ bound'[a] = bound[a]
             /\ SendCard(b) => shown'[b] = "PENDING" /\ bound' = bound
             /\ BindCard(b) => shown' = shown /\ bound'[b]
             /\ Finalize(b) => shown' = shown /\ bound' = bound
  BY <1>3 DEF SendCard, BindCard, Finalize
<1>4. ASSUME NEW k \in Clicks, Click(k) \/ Decide(k) \/ Acknowledge(k)
      PROVE  shown' = shown /\ bound' = bound
  BY <1>4 DEF Click, Decide, Acknowledge
<1>5. ASSUME NEW j \in Jobs, MoveFeedback(j) PROVE shown' = shown /\ bound' = bound
  BY <1>5 DEF MoveFeedback
<1>6. ASSUME NEW j \in Jobs, UpdateCard(j)
      PROVE  /\ bound' = bound
             /\ About(j) # a => shown'[a] = shown[a]
             /\ About(j) = a => bound[a] /\ (shown'[a] = shown[a] \/ shown'[a] \in Feedbacks)
  BY <1>6, JobsAre DEF UpdateCard, NotYetThere
<1>7. "none" \notin Feedbacks
  BY DEF Feedbacks
<1>8. CASE \E b \in Requests : SendCard(b) \/ BindCard(b) \/ Finalize(b)
  BY <1>3, <1>8
<1>9. CASE \E j \in Jobs : UpdateCard(j)
  BY <1>6, <1>7, <1>9
<1> QED
  BY <1>1, <1>2, <1>4, <1>5, <1>8, <1>9, CardSteps

\* Requests whose thread has not begun stay untouched.
LEMMA NotYetStep == Inv /\ [Next]_vars => NotYetThere'
<1> SUFFICES ASSUME Inv, [Next]_vars PROVE NotYetThere'
  OBVIOUS
<1>1. ASSUME NEW a \in Requests, handler'[a] = "none"
      PROVE  state'[a] = "absent" /\ shown'[a] = "none" /\ ~ bound'[a]
  <2>1. handler[a] = "none" /\ ~ Create(a)
    BY <1>1, HandlerSteps
  <2>2. state'[a] = "absent"
    BY <2>1, RowsStep DEF Inv, NotYetThere
  <2> QED BY <2>1, <2>2, HandlerSteps, CardsStep DEF Inv, NotYetThere
<1>2. ASSUME NEW j \in Jobs, job'[j] = "moved" PROVE bound'[About(j)]
  <2>1. About(j) \in Requests
    BY JobsAre
  <2>2. CASE job[j] = "moved"
    BY <2>1, <2>2, CardsStep DEF Inv, NotYetThere
  <2>3. CASE job[j] # "moved"
    <3>1. MoveFeedback(j) /\ bound[About(j)]
      <4>1. ~ Down /\ ~ UNCHANGED <<shown, bound, job, jobState>>
        BY <1>2, <2>3 DEF Down
      <4>2. ASSUME NEW b \in Requests, SendCard(b) \/ BindCard(b) \/ Finalize(b)
            PROVE  FALSE
        BY <1>2, <2>3, <4>2, JobsAre DEF SendCard, BindCard, Finalize, Enqueue, Inv, TypeOK
      <4>3. ASSUME NEW k \in Clicks, Click(k) \/ Decide(k) \/ Acknowledge(k)
            PROVE  FALSE
        <5>1. job' = job \/ \E s : Enqueue(k, s)
          BY <4>3 DEF Click, Decide, Acknowledge, Repeat
        <5> QED BY <1>2, <2>3, <5>1, JobsAre DEF Enqueue, Inv, TypeOK
      <4>4. PICK i \in Jobs : MoveFeedback(i) \/ UpdateCard(i)
        BY <4>1, <4>2, <4>3, CardSteps
      <4>5. i = j /\ ~ UpdateCard(i)
        BY <1>2, <2>3, <4>4 DEF MoveFeedback, UpdateCard, Inv, TypeOK
      <4> QED BY <1>2, <2>3, <4>4, <4>5 DEF MoveFeedback, Inv, TypeOK
    <3> QED BY <2>1, <3>1, CardsStep
  <2> QED BY <2>2, <2>3
<1> QED BY <1>1, <1>2 DEF NotYetThere

\* Nobody clicks on a card that was not sent.
LEMMA UnsentStep == Inv /\ [Next]_vars => UnsentUnclicked'
<1> SUFFICES ASSUME Inv, [Next]_vars, NEW k \in Clicks, shown'[ClickOn[k]] = "none"
             PROVE  click'[k] \in {"none", "late"}
  BY DEF UnsentUnclicked
<1>1. shown[ClickOn[k]] = "none"
  BY CardsStep DEF ApprovalsAssumption
<1>2. click[k] \in {"none", "late"}
  BY <1>1 DEF Inv, UnsentUnclicked
<1>3. ASSUME NEW m \in Clicks, Click(m) \/ Callback(m) PROVE click'[k] = click[k]
  <2>1. click[m] \in {"read", "won", "acked"} \/ shown[ClickOn[m]] # "none"
    BY <1>3 DEF Click, Callback, Decide, Acknowledge, Deliver
  <2>2. m # k
    BY <1>1, <1>2, <2>1
  <2>3. click' \in {[click EXCEPT ![m] = s] : s \in {"read", "won", "acked", "resolved", "late"}}
    BY <1>3 DEF Click, Callback, Decide, Acknowledge, Deliver, Repeat
  <2> QED BY <2>2, <2>3 DEF Inv, TypeOK
<1>4. CASE Down
  BY <1>2, <1>4 DEF Down
<1> QED BY <1>2, <1>3, <1>4, ClickSteps

\* A request that has a row keeps one, and a settled row stays settled.
LEMMA RowsLast ==
  ASSUME Inv, [Next]_vars, NEW a \in Requests
  PROVE  /\ state[a] # "absent" => state'[a] # "absent"
         /\ Settled(a) => Settled(a)'
BY RowsStep DEF Settled, Create, Inv, NotYetThere

\* An update that is tried on a row that exists settles it.
LEMMA TriedIsSettled ==
  ASSUME Inv, NEW a \in Requests, state[a] # "absent", NEW d \in Decisions,
         NEW s \in States \ {"pending"}, TryResolve(a, d, s)
  PROVE  Settled(a)'
<1>1. RowTypes
  BY DEF Inv, TypeOK, RowTypes
<1> QED BY <1>1, TryResolved DEF Settled, RowTypes, States

\* Waiters are told only about settled rows.
LEMMA MemoStep ==
  ASSUME Inv, [Next]_vars, NEW a \in Requests, memo[a] = "none", memo'[a] # "none"
  PROVE  Settled(a)
<1> USE DEF Inv, TypeOK
<1>1. ~ UNCHANGED waiting /\ ~ Down
  BY DEF Down
<1>2. ASSUME NEW b \in Requests, Create(b) \/ Handle(b) PROVE FALSE
  BY <1>2 DEF Create, Handle, SendCard, BindCard, SendFails, FailClosed, Wake, Pop, Answer
<1>3. ASSUME NEW b \in Requests, CancelWaiter(b) PROVE Settled(a)
  BY <1>3 DEF CancelWaiter, ToldIsSettled
<1>4. ASSUME NEW t \in Turns, NEW b \in Requests, CloseWaiter(t, b) PROVE Settled(a)
  BY <1>4 DEF CloseWaiter, ToldIsSettled
<1>5. ASSUME NEW k \in Clicks, Deliver(k) PROVE Settled(a)
  <2>1. a = ClickOn[k] /\ click[k] = "acked"
    BY <1>5 DEF Deliver
  <2> QED BY <2>1, StateForSettles DEF WinnersRecorded, Settled
<1> QED BY <1>1, <1>2, <1>3, <1>4, <1>5, WaiterSteps

\* cancel_all_pending and the notifications try the row before they tell anybody.
LEMMA ListsStep ==
  ASSUME Inv, [Next]_vars, NEW a \in Requests, NEW t \in Turns
  PROVE  /\ cancelling[a] = "no" /\ cancelling'[a] # "no" => pending[a]
         /\ cancelling[a] # "written" /\ cancelling'[a] = "written" => Settled(a)'
         /\ closing[t][a] = "no" /\ closing'[t][a] # "no" => pending[a]
         /\ closing[t][a] # "won" /\ closing'[t][a] = "won" => Settled(a)'
<1> DEFINE Goal == /\ cancelling[a] = "no" /\ cancelling'[a] # "no" => pending[a]
                   /\ cancelling[a] # "written" /\ cancelling'[a] = "written" => Settled(a)'
                   /\ closing[t][a] = "no" /\ closing'[t][a] # "no" => pending[a]
                   /\ closing[t][a] # "won" /\ closing'[t][a] = "won" => Settled(a)'
<1> USE DEF Inv, TypeOK
<1>1. CASE UNCHANGED <<closing, cancelling>>
  BY <1>1
<1>2. CASE CancelAll
  BY <1>2 DEF CancelAll
<1>3. CASE Down
  BY <1>3 DEF Down
<1>4. ASSUME NEW b \in Requests, Resolved(b) PROVE Goal
  BY <1>4 DEF Resolved, List, ApprovalsAssumption
<1>5. ASSUME NEW b \in Requests, CancelRow(b) PROVE Goal
  <2>1. b = a => Settled(a)'
    BY <1>5, TriedIsSettled, SMTT(30) DEF CancelRow, ToldIsSettled, Decisions, States
  <2> QED BY <1>5, <2>1 DEF CancelRow
<1>6. ASSUME NEW b \in Requests, CancelWaiter(b) PROVE Goal
  BY <1>6 DEF CancelWaiter
<1>7. ASSUME NEW u \in Turns, TurnEnds(u) PROVE Goal
  BY <1>7 DEF TurnEnds, List
<1>8. ASSUME NEW u \in Turns, NEW b \in Requests, CloseRow(u, b) PROVE Goal
  <2>1. state[b] # "absent" /\ TryResolve(b, "cancel", "resolved")
    BY <1>8 DEF CloseRow, ToldIsSettled
  <2>2. b = a => Settled(a)'
    BY <2>1, TriedIsSettled DEF Decisions, States
  <2> QED BY <1>8, <2>2 DEF CloseRow, SetClosing
<1>9. ASSUME NEW u \in Turns, NEW b \in Requests, CloseWaiter(u, b) PROVE Goal
  BY <1>9 DEF CloseWaiter, SetClosing
<1> QED BY <1>1, <1>2, <1>3, <1>4, <1>5, <1>6, <1>7, <1>8, <1>9, ClosingSteps

\* An entry is made with its row.
LEMMA EntryStep ==
  ASSUME Inv, [Next]_vars, NEW a \in Requests, pending'[a]
  PROVE  pending[a] \/ Create(a)
<1> USE DEF Inv, TypeOK
<1>1. ASSUME NEW b \in Requests, Create(b) \/ Handle(b) \/ CancelWaiter(b)
      PROVE  pending[a] \/ Create(a)
  BY <1>1 DEF Create, Handle, SendCard, BindCard, SendFails, FailClosed, Wake, Pop,
     Answer, CancelWaiter
<1>2. ASSUME NEW k \in Clicks, Deliver(k) PROVE pending' = pending
  BY <1>2 DEF Deliver
<1>3. ASSUME NEW t \in Turns, NEW b \in Requests, CloseWaiter(t, b) PROVE pending' = pending
  BY <1>3 DEF CloseWaiter
<1>4. ~ Down
  BY DEF Down
<1> QED BY <1>1, <1>2, <1>3, <1>4, WaiterSteps

\* Rows are settled before anybody is told, and stay settled.
LEMMA ToldStep == Inv /\ [Next]_vars => ToldIsSettled'
<1> SUFFICES ASSUME Inv, [Next]_vars PROVE ToldIsSettled'
  OBVIOUS
<1>1. ASSUME NEW a \in Requests
      PROVE  /\ memo'[a] # "none" => Settled(a)'
             /\ pending'[a] => state'[a] # "absent"
  <2>1. memo'[a] # "none" => Settled(a)'
    BY MemoStep, RowsLast DEF Inv, ToldIsSettled
  <2>2. Create(a) => state'[a] = "pending"
    BY DEF Create, Inv, TypeOK
  <2> QED BY <2>1, <2>2, EntryStep, RowsLast DEF Inv, ToldIsSettled
<1>2. ASSUME NEW t \in Turns, NEW a \in Requests
      PROVE  /\ cancelling'[a] = "written" => Settled(a)'
             /\ cancelling'[a] # "no" => state'[a] # "absent"
             /\ closing'[t][a] = "won" => Settled(a)'
             /\ closing'[t][a] # "no" => state'[a] # "absent"
  BY <1>2, ListsStep, RowsLast DEF Inv, ToldIsSettled
<1>3. \A a \in Requests : TurnOf[a] \in Turns
  BY DEF ApprovalsAssumption
<1> QED BY <1>1, <1>2, <1>3 DEF ToldIsSettled

\* A handler that can wait keeps its entry, and its decision once it has one.
LEMMA WaitersStep == Inv /\ [Next]_vars => WaitersAreTold'
<1> SUFFICES ASSUME Inv, [Next]_vars PROVE WaitersAreTold'
  OBVIOUS
<1>1. ASSUME NEW a \in Requests, Waits(a)'
      PROVE  /\ pending'[a]
             /\ Waits(a) /\ memo[a] # "none" => memo'[a] # "none"
  <2> DEFINE Goal == /\ pending'[a]
                     /\ Waits(a) /\ memo[a] # "none" => memo'[a] # "none"
  <2> USE DEF Inv, TypeOK, Waits
  <2>1. Waits(a) \/ Create(a)
    BY <1>1, HandlerSteps
  <2>2. Waits(a) => pending[a]
    BY DEF WaitersAreTold
  <2>3. CASE UNCHANGED waiting
    BY <1>1, <2>2, <2>3
  <2>4. ~ Down
    BY <1>1 DEF Down
  <2>5. ASSUME NEW b \in Requests, Create(b) PROVE Goal
    BY <2>1, <2>2, <2>5 DEF Create
  <2>6. ASSUME NEW b \in Requests, Handle(b) PROVE Goal
    <3>1. Waits(a)
      BY <2>1, <2>6 DEF Create, Handle, SendCard, BindCard, SendFails, FailClosed, Wake,
         Pop, Answer
    <3> QED
      BY <1>1, <2>2, <2>6, <3>1 DEF Handle, SendCard, BindCard, SendFails, FailClosed,
         Wake, Pop, Answer
  <2>7. ASSUME NEW b \in Requests, CancelWaiter(b) PROVE Goal
    BY <1>1, <2>2, <2>7 DEF CancelWaiter
  <2>8. ASSUME NEW k \in Clicks, Deliver(k) PROVE Goal
    <3>1. memo' = memo \/ memo' = Set(memo, ClickOn[k], Choice[k])
      BY <2>8 DEF Deliver
    <3>2. Choice[k] # "none" /\ ClickOn[k] \in Requests
      BY DEF ApprovalsAssumption
    <3>3. UNCHANGED <<handler, pending>>
      BY <2>8 DEF Deliver
    <3> QED BY <1>1, <2>2, <3>1, <3>2, <3>3
  <2>9. ASSUME NEW t \in Turns, NEW b \in Requests, CloseWaiter(t, b) PROVE Goal
    BY <1>1, <2>2, <2>9 DEF CloseWaiter
  <2> QED BY <2>3, <2>4, <2>5, <2>6, <2>7, <2>8, <2>9, WaiterSteps
<1>2. ASSUME NEW k \in Clicks, click'[k] = "resolved", Waits(ClickOn[k])'
      PROVE  memo'[ClickOn[k]] # "none"
  <2> USE DEF Inv, TypeOK
  <2>1. ClickOn[k] \in Requests
    BY DEF ApprovalsAssumption
  <2>2. CASE click[k] = "resolved"
    <3>1. ~ Create(ClickOn[k])
      BY <2>1, <2>2 DEF Create, NotYetThere, UnsentUnclicked
    <3>2. Waits(ClickOn[k])
      BY <1>2, <2>1, <3>1, HandlerSteps
    <3> QED BY <1>1, <1>2, <2>1, <2>2, <3>2 DEF WaitersAreTold
  <2>3. CASE click[k] # "resolved"
    <3>1. ~ Down
      <4>1. Down => click'[k] \in {"none", "late"}
        BY DEF Down
      <4> QED BY <1>2, <4>1
    <3>2. PICK m \in Clicks : Click(m) \/ Callback(m)
      BY <1>2, <2>3, <3>1, ClickSteps
    <3>3. Deliver(k)
      BY <1>2, <2>3, <3>2 DEF Click, Callback, Decide, Acknowledge, Deliver, Repeat
    <3>4. pending[ClickOn[k]]
      BY <1>2, <2>1, <3>3 DEF Deliver, WaitersAreTold, Waits
    <3>5. memo' = Set(memo, ClickOn[k], Choice[k])
      BY <3>3, <3>4 DEF Deliver
    <3>6. Choice[k] # "none"
      BY DEF ApprovalsAssumption
    <3> QED BY <2>1, <3>5, <3>6
  <2> QED BY <2>2, <2>3
<1> QED BY <1>1, <1>2 DEF WaitersAreTold, Waits

\* The process comes up by Recover only, and goes down by Down only.
LEMMA DaemonSteps ==
  ASSUME [Next]_vars
  PROVE  UNCHANGED daemon \/ CancelAll \/ Down \/ Recover
BY DEF Next, vars, Handle, Callback, Create, SendCard, BindCard, SendFails, FailClosed,
   Wake, Pop, Answer, Click, Decide, Acknowledge, Deliver, Resolved, TurnEnds, CloseRow,
   CloseWaiter, Finalize, MoveFeedback, UpdateCard, CancelRow, CancelWaiter

\* A pending row keeps its handler: it is settled before the handler answers.
LEMMA PendingStep == Inv /\ [Next]_vars => PendingIsHandled'
<1> SUFFICES ASSUME Inv, [Next]_vars, NEW a \in Requests, state'[a] = "pending",
                    daemon' # "down"
             PROVE  handler'[a] \notin {"none", "answered", "lost"}
  BY DEF PendingIsHandled
<1> USE DEF Inv, TypeOK
<1>1. CASE Create(a)
  BY <1>1 DEF Create
<1>2. CASE ~ Create(a)
  <2>1. state[a] = "pending"
    BY <1>2, RowsStep
  <2>2. ~ Recover /\ ~ Down
    BY <2>1 DEF Recover, Orphaned, Down
  <2>3. daemon # "down"
    BY <2>2, DaemonSteps DEF CancelAll
  <2>4. handler[a] \notin {"none", "answered", "lost"} /\ memo[a] = "none"
    BY <2>1, <2>3 DEF PendingIsHandled, ToldIsSettled, Settled
  <2>5. ~ FailClosed(a) /\ ~ Answer(a)
    <3>1. ASSUME FailClosed(a) PROVE TryResolve(a, "decline", "cancelled")
      BY <3>1 DEF FailClosed
    <3>2. ASSUME Answer(a) PROVE TryResolve(a, "decline", "expired")
      BY <2>4, <3>2 DEF Answer
    <3>3. state[a] # "absent" /\ ~ Settled(a)'
      BY <2>1 DEF Settled
    <3> HIDE DEF Inv
    <3> QED BY <3>1, <3>2, <3>3, TriedIsSettled DEF Decisions, States
  <2>6. handler'[a] \in {handler[a], "sent", "waiting", "failed", "woken", "popped"}
    <3>1. ASSUME NEW b \in Requests, Create(b) \/ Handle(b) \/ CancelWaiter(b)
          PROVE  handler'[a] \in {handler[a], "sent", "waiting", "failed", "woken", "popped"}
      BY <1>2, <2>5, <3>1 DEF Create, Handle, SendCard, BindCard, SendFails, FailClosed,
         Wake, Pop, Answer, CancelWaiter
    <3>2. ASSUME NEW k \in Clicks, Deliver(k) PROVE handler' = handler
      BY <3>2 DEF Deliver
    <3>3. ASSUME NEW t \in Turns, NEW b \in Requests, CloseWaiter(t, b)
          PROVE  handler' = handler
      BY <3>3 DEF CloseWaiter
    <3> QED BY <2>2, <3>1, <3>2, <3>3, WaiterSteps
  <2> QED BY <2>4, <2>6
<1> QED BY <1>1, <1>2

\* Every step keeps the invariant.
LEMMA InvStep == Inv /\ [Next]_vars => Inv'
BY TypeStep, AcceptsStep, WinnersStep, NotYetStep, ToldStep, WaitersStep, UnsentStep,
   PendingStep DEF Inv

\* The invariant holds in every reachable state.
THEOREM ApprovalsInvariant == Spec => []Inv
<1> QED
  BY InitInv, InvStep, PTL DEF Spec

\* The variables keep their types, whatever the requests, turns and clicks.
THEOREM TypeCorrect == Spec => []TypeOK
<1>1. Inv => TypeOK
  BY DEF Inv
<1> QED BY <1>1, ApprovalsInvariant, PTL

\* Codex is told "accept" for an approved row only, however many requests, clicks,
\* timeouts, notifications and restarts there are.
THEOREM AcceptsAreDurable == Spec => []AcceptIsDurable
<1>1. Inv => AcceptIsDurable
  BY DEF Inv, AcceptsRecorded, Accepted, AcceptIsDurable
<1> QED BY <1>1, ApprovalsInvariant, PTL

\* A callback that reported RESOLVED reached the handler that still waits.
THEOREM DecisionsReachWaiters == Spec => []DecisionReachesWaiter
<1>1. Inv => DecisionReachesWaiter
  BY DEF Inv, WaitersAreTold, Waits, DecisionReachesWaiter
<1> QED BY <1>1, ApprovalsInvariant, PTL

\* A pending row has a live handler.
THEOREM PendingRowsAreHandled == Spec => []PendingIsHandled
<1>1. Inv => PendingIsHandled
  BY DEF Inv
<1> QED BY <1>1, ApprovalsInvariant, PTL

\* The outcome of a request is written once.
THEOREM OutcomesStay == Spec => OutcomeStays
<1>1. Inv /\ [Next]_vars =>
        \A a \in Requests : state[a] \notin {"absent", "pending"} =>
          state'[a] = state[a] /\ decision'[a] = decision[a]
  BY RowsStep DEF Settled
<1>2. Inv /\ [Next]_vars =>
        [\A a \in Requests : state[a] \notin {"absent", "pending"} =>
           state'[a] = state[a] /\ decision'[a] = decision[a]]_vars
  BY <1>1
<1> QED BY <1>2, ApprovalsInvariant, PTL DEF OutcomeStays, Spec

\* Feedback states only advance.
LEMMA FeedbackStep ==
  ASSUME Inv, [Next]_vars, NEW a \in Requests
  PROVE  feedback'[a] = feedback[a] \/ Advances(feedback[a], feedback'[a])
<1> USE DEF Inv, TypeOK
<1>1. ASSUME NEW j \in Jobs, MoveFeedback(j)
      PROVE  feedback'[a] = feedback[a] \/ Advances(feedback[a], feedback'[a])
  <2>1. About(j) \in Requests
    BY JobsAre
  <2>2. CASE bound[About(j)] /\ Advances(feedback[About(j)], jobState[j])
    <3>1. feedback' = Set(feedback, About(j), jobState[j])
      BY <1>1, <2>2 DEF MoveFeedback
    <3> QED BY <2>1, <2>2, <3>1
  <2>3. CASE ~ (bound[About(j)] /\ Advances(feedback[About(j)], jobState[j]))
    <3>1. UNCHANGED feedback
      BY <1>1, <2>3 DEF MoveFeedback
    <3> QED BY <3>1
  <2> QED BY <2>2, <2>3
<1>2. CASE ~ \E j \in Jobs : MoveFeedback(j)
  BY <1>2 DEF Next, vars, Handle, Callback, Create, SendCard, BindCard, SendFails,
     FailClosed, Wake, Pop, Answer, Click, Decide, Acknowledge, Deliver, Resolved,
     TurnEnds, CloseRow, CloseWaiter, Finalize, UpdateCard, CancelAll, CancelRow,
     CancelWaiter, Down, Recover
<1> QED BY <1>1, <1>2

\* The durable feedback state never falls back and an outcome is never replaced.
THEOREM FeedbackOnlyAdvances == Spec => FeedbackAdvances
<1> DEFINE A == \A a \in Requests : /\ Rank(feedback[a]) <= Rank(feedback'[a])
                                    /\ feedback[a] \in Final => feedback'[a] = feedback[a]
<1>1. Inv /\ [Next]_vars => A
  BY FeedbackStep DEF Advances, Rank
<1>2. Inv /\ [Next]_vars => [A]_vars
  BY <1>1
<1> QED BY <1>2, ApprovalsInvariant, PTL DEF FeedbackAdvances, Spec

-----------------------------------------------------------------------------
(* Questions beside the approvals.                                           *)

\* A text whose row is settled is not the executor's any more.
ClosedRow(m) == row[m] \notin {"absent", "queued"}

\* The executor of the chat waits for the turn that asks.
NoTaskYet == turn[AskedBy] = "running" => tasks = {}

\* A callback works for the question it read; once it took the answer it is the
\* answer, unless another text replaced it, and it tells after closing the row.
CallbacksOK ==
  \A m \in Texts :
    /\ callback[m] # "none" => heard[m] \in Questions
    /\ callback[m] = "marked" => ClosedRow(m)
    /\ callback[m] \in {"matched", "marked"} /\ heard[m] \notin moot =>
         answers[heard[m]] = m

\* A question that is told its answer, and not withdrawn, has one whose row is
\* closed; it goes on when it is told; and what Codex was given has not been run.
QuestionsOK ==
  \A q \in Questions \ moot :
    /\ event[q] /\ ~ withdrawn[q] => answers[q] # NoText /\ ClosedRow(answers[q])
    /\ ask[q] \in {"woken", "left"} => event[q]
    /\ result[q] # NoText => ClosedRow(result[q]) /\ result[q] \notin tasks

InputInv == InputTypeOK /\ NoTaskYet /\ CallbacksOK /\ QuestionsOK

\* Questions and texts make no step of the approvals, and the rest is theirs.
LEMMA BridgeSteps == [BridgeNext]_bridge => [Next]_vars
<1> SUFFICES ASSUME BridgeNext PROVE [Next]_vars
  BY DEF bridge
<1>1. CASE UNCHANGED vars
  BY <1>1
<1>2. CASE \E a \in Requests : Create(a) \/ Handle(a) \/ Resolved(a) \/ Finalize(a)
                               \/ CancelRow(a) \/ CancelWaiter(a)
  BY <1>2 DEF Next
<1>3. CASE \E k \in Clicks : Click(k) \/ Callback(k)
  BY <1>3 DEF Next
<1>4. CASE \E t \in Turns, a \in Requests : CloseRow(t, a) \/ CloseWaiter(t, a)
  BY <1>4 DEF Next
<1>5. CASE \E j \in Jobs : MoveFeedback(j) \/ UpdateCard(j)
  BY <1>5 DEF Next
<1>6. CASE \E t \in Turns : TurnEnds(t)
  BY <1>6 DEF Next
<1>7. CASE CancelAll \/ Down \/ Recover
  BY <1>7 DEF Next
<1> QED
  BY <1>1, <1>2, <1>3, <1>4, <1>5, <1>6, <1>7, UserInputAssumption
     DEF BridgeNext, FinalizeBeside, AskingTurnEnds, StopInputs, Crash, Restart

\* A turn that is over stays over.
LEMMA TurnsEnd ==
  ASSUME TypeOK, [Next]_vars, NEW t \in Turns, turn'[t] = "running"
  PROVE  turn[t] = "running"
<1>1. ASSUME NEW u \in Turns, TurnEnds(u) PROVE turn[t] = "running"
  BY <1>1 DEF TurnEnds, TypeOK
<1>2. ~ Down
  BY DEF Down
<1>3. CASE /\ ~ Down
           /\ \A u \in Turns : ~ TurnEnds(u)
  BY <1>3 DEF Next, vars, Handle, Callback, Create, SendCard, BindCard, SendFails,
     FailClosed, Wake, Pop, Answer, Click, Decide, Acknowledge, Deliver, Resolved,
     CloseRow, CloseWaiter, Finalize, MoveFeedback, UpdateCard, CancelAll, CancelRow,
     CancelWaiter, Recover
<1> QED BY <1>1, <1>2, <1>3

\* The steps of the bridge that touch questions, texts or the executor.
LEMMA InputSteps ==
  ASSUME [BridgeNext]_bridge
  PROVE  \/ UNCHANGED inputs
         \/ AskingTurnEnds \/ StopInputs \/ Crash \/ Restart
         \/ /\ UNCHANGED vars
            /\ \/ \E q \in Questions : Register(q) \/ Question(q) \/ Withdraw(q)
               \/ \E m \in Texts : Arrive(m) \/ Receive(m) \/ RunTask(m)
               \/ EndTask
  BY DEF BridgeNext, bridge

\* Nothing of the questions changes: what they promise holds on.
LEMMA InputsStutter ==
  ASSUME InputInv, UNCHANGED inputs, turn'[AskedBy] = "running" => turn[AskedBy] = "running"
  PROVE  InputInv'
<1> USE DEF inputs, asked, messages, executor, InputInv
<1>1. InputTypeOK'
  BY DEF InputTypeOK
<1>2. NoTaskYet'
  BY DEF NoTaskYet
<1>3. CallbacksOK' /\ QuestionsOK'
  BY DEF CallbacksOK, QuestionsOK, ClosedRow
<1> QED BY <1>1, <1>2, <1>3

\* The bridge starts with no question and no text.
LEMMA InputInitInv == InputInit => InputInv
  BY UserInputAssumption
     DEF InputInit, InputInv, InputTypeOK, NoTaskYet, CallbacksOK, QuestionsOK

\* The handler thread of a question gives what it was told, and nothing that was
\* withdrawn.
LEMMA QuestionStep ==
  ASSUME InputInv, UNCHANGED vars, NEW q \in Questions,
         Register(q) \/ Question(q) \/ Withdraw(q)
  PROVE  InputInv'
<1> USE DEF InputInv, Thread, messages, executor, Step
<1>1. UNCHANGED <<callback, heard, row, arrivals, task, tasks, answers, turn>>
  BY DEF Register, Question, Prompt, WakeUp, Leave, Give, Withdraw, vars
<1>2. moot \subseteq moot'
  BY DEF Register, Question, Prompt, WakeUp, Leave, Give, Withdraw
<1>3. InputTypeOK'
  <2>1. CASE Register(q)
    BY <2>1 DEF Register, InputTypeOK
  <2>2. CASE Prompt(q)
    BY <2>2 DEF Prompt, InputTypeOK
  <2>3. CASE WakeUp(q)
    BY <2>3 DEF WakeUp, InputTypeOK
  <2>4. CASE Leave(q)
    BY <2>4 DEF Leave, InputTypeOK
  <2>5. CASE Give(q)
    BY <2>5 DEF Give, InputTypeOK
  <2>6. CASE Withdraw(q)
    BY <2>6 DEF Withdraw, InputTypeOK
  <2> QED BY <2>1, <2>2, <2>3, <2>4, <2>5, <2>6 DEF Question
<1>4. NoTaskYet'
  BY <1>1 DEF NoTaskYet
<1>5. CallbacksOK'
  BY <1>1, <1>2 DEF CallbacksOK, ClosedRow
<1>6. QuestionsOK'
  <2> USE DEF QuestionsOK, ClosedRow, InputTypeOK
  <2>1. CASE Register(q)
    BY <1>1, <2>1 DEF Register
  <2>2. CASE Prompt(q)
    BY <1>1, <2>2 DEF Prompt
  <2>3. CASE WakeUp(q)
    BY <1>1, <2>3 DEF WakeUp
  <2>4. CASE Leave(q)
    BY <1>1, <2>4 DEF Leave
  <2>5. CASE Give(q)
    <3>1. q \notin moot' => q \notin moot /\ tasks = {}
      BY <2>5 DEF Give, NoTaskYet
    <3>2. q \notin moot /\ ~ withdrawn[q] => ClosedRow(answers[q])
      BY <2>5 DEF Give
    <3> QED BY <1>1, <1>2, <2>5, <3>1, <3>2 DEF Give
  <2>6. CASE Withdraw(q)
    BY <1>1, <2>6 DEF Withdraw
  <2> QED BY <2>1, <2>2, <2>3, <2>4, <2>5, <2>6 DEF Question
<1> QED BY <1>3, <1>4, <1>5, <1>6

\* The callback of a text closes its row before it tells the handler.
LEMMA TextStep ==
  ASSUME InputInv, UNCHANGED vars, NEW m \in Texts, Arrive(m) \/ Receive(m)
  PROVE  InputInv'
<1> USE DEF InputInv, Receiving, Goto, Done, asked, executor
<1>1. UNCHANGED <<slot, ask, withdrawn, result, listed, task, tasks, turn>>
  BY DEF Arrive, Receive, Insert, Match, Mismatch, Complete, Tell, vars
<1>2. \A n \in Texts : ClosedRow(n) => ClosedRow(n)'
  BY UserInputAssumption
     DEF Arrive, Receive, Insert, Match, Mismatch, Complete, Tell, ClosedRow, InputTypeOK
<1>3. InputTypeOK'
  <2> USE DEF InputTypeOK
  <2>1. CASE Arrive(m)
    BY <2>1, UserInputAssumption DEF Arrive
  <2>2. CASE Insert(m)
    BY <1>1, <2>2 DEF Insert
  <2>3. CASE Match(m)
    BY <1>1, <2>3 DEF Match, Answered, CallbacksOK
  <2>4. CASE Mismatch(m)
    BY <1>1, <2>4 DEF Mismatch
  <2>5. CASE Complete(m)
    BY <1>1, <2>5 DEF Complete
  <2>6. CASE Tell(m)
    BY <1>1, <2>6 DEF Tell
  <2> QED BY <2>1, <2>2, <2>3, <2>4, <2>5, <2>6 DEF Receive
<1>4. NoTaskYet'
  BY <1>1 DEF NoTaskYet
<1>5. CallbacksOK' /\ QuestionsOK'
  <2> USE DEF InputTypeOK
  <2>1. CASE Arrive(m) \/ Insert(m) \/ Mismatch(m)
    <3>1. UNCHANGED <<event, answers, moot>>
      BY <2>1 DEF Arrive, Insert, Mismatch
    <3>2. CallbacksOK'
      BY <1>2, <2>1, <3>1 DEF Arrive, Insert, Mismatch, CallbacksOK
    <3>3. QuestionsOK'
      BY <1>1, <1>2, <3>1 DEF QuestionsOK
    <3> QED BY <3>2, <3>3
  <2>2. CASE Match(m)
    <3>1. /\ callback[m] = "inserted" /\ callback' = Set(callback, m, "matched")
          /\ answers' = Set(answers, heard[m], m)
          /\ moot' = IF answers[heard[m]] = NoText THEN moot ELSE moot \cup {heard[m]}
          /\ UNCHANGED <<event, heard, row>>
      BY <2>2 DEF Match, Answered
    <3>2. heard[m] \in Questions
      BY <3>1 DEF CallbacksOK
    <3>3. CallbacksOK'
      BY <1>2, <3>1, <3>2, UserInputAssumption DEF CallbacksOK, ClosedRow
    <3>4. QuestionsOK'
      BY <1>1, <1>2, <3>1, <3>2 DEF QuestionsOK, ClosedRow
    <3> QED BY <3>3, <3>4
  <2>3. CASE Complete(m)
    <3>1. /\ callback[m] = "matched" /\ callback' = Set(callback, m, "marked")
          /\ row' = Set(row, m, "completed")
          /\ UNCHANGED <<event, answers, heard, moot>>
      BY <2>3 DEF Complete
    <3>2. CallbacksOK'
      BY <1>2, <3>1 DEF CallbacksOK, ClosedRow
    <3>3. QuestionsOK'
      BY <1>1, <1>2, <3>1 DEF QuestionsOK
    <3> QED BY <3>2, <3>3
  <2>4. CASE Tell(m)
    <3>1. /\ callback[m] = "marked" /\ callback' = Set(callback, m, "none")
          /\ heard' = Set(heard, m, NoQuestion) /\ event' = Set(event, heard[m], TRUE)
          /\ UNCHANGED <<answers, row, moot>>
      BY <2>4 DEF Tell
    <3>2. /\ heard[m] \in Questions /\ ClosedRow(m)
          /\ heard[m] \notin moot => answers[heard[m]] = m
      BY <3>1 DEF CallbacksOK
    <3>3. CallbacksOK'
      BY <3>1 DEF CallbacksOK, ClosedRow
    <3>4. QuestionsOK'
      BY <1>1, <3>1, <3>2, UserInputAssumption DEF QuestionsOK, ClosedRow
    <3> QED BY <3>3, <3>4
  <2> QED BY <2>1, <2>2, <2>3, <2>4 DEF Receive
<1> QED BY <1>3, <1>4, <1>5

\* The executor takes queued rows, and no answer that was given is one.
LEMMA TaskStep ==
  ASSUME InputInv, UNCHANGED vars, (\E m \in Texts : RunTask(m)) \/ EndTask
  PROVE  InputInv'
<1> USE DEF InputInv, asked, InputTypeOK
<1>1. PICK m \in Texts :
        \/ /\ row[m] = "queued" /\ row' = Set(row, m, "running")
           /\ task' = m /\ tasks' = tasks \cup {m} /\ turn[AskedBy] # "running"
        \/ /\ row' = Set(row, m, "completed") /\ task' = NoText /\ UNCHANGED tasks
  BY DEF RunTask, EndTask
<1>2. UNCHANGED <<slot, ask, event, withdrawn, answers, result, listed, moot,
                  callback, heard, arrivals, turn>>
  BY DEF RunTask, EndTask, vars
<1>3. \A n \in Texts : ClosedRow(n) => ClosedRow(n)' /\ (n \notin tasks => n \notin tasks')
  BY <1>1 DEF ClosedRow
<1>4. InputTypeOK'
  BY <1>1, <1>2
<1>5. NoTaskYet'
  BY <1>1, <1>2 DEF NoTaskYet
<1>6. CallbacksOK'
  BY <1>2, <1>3 DEF CallbacksOK
<1>7. QuestionsOK'
  BY <1>2, <1>3 DEF QuestionsOK
<1> QED BY <1>4, <1>5, <1>6, <1>7

\* The end of the asking turn and of the process.
LEMMA ProcessStep ==
  ASSUME Inv, InputInv, AskingTurnEnds \/ StopInputs \/ Crash \/ Restart
  PROVE  InputInv'
<1> USE DEF InputInv, asked, messages, executor
<1>1. turn'[AskedBy] = "running" => turn[AskedBy] = "running"
  BY TurnsEnd, UserInputAssumption
     DEF Inv, Next, AskingTurnEnds, StopInputs, Crash, Restart
<1>2. CASE AskingTurnEnds \/ StopInputs
  <2>1. Listed /\ Others
    BY <1>2 DEF AskingTurnEnds, StopInputs
  <2>2. InputTypeOK'
    BY <2>1 DEF Listed, Others, InputTypeOK
  <2>3. NoTaskYet' /\ CallbacksOK' /\ QuestionsOK'
    BY <1>1, <2>1 DEF Others, NoTaskYet, CallbacksOK, QuestionsOK, ClosedRow
  <2> QED BY <2>2, <2>3
<1>3. CASE Crash
  <2>1. InputTypeOK'
    BY <1>3 DEF Crash, InputTypeOK, Ended
  <2>2. NoTaskYet' /\ CallbacksOK'
    BY <1>1, <1>3 DEF Crash, NoTaskYet, CallbacksOK
  <2>3. QuestionsOK'
    BY <1>3 DEF Crash, QuestionsOK, ClosedRow, Ended
  <2> QED BY <2>1, <2>2, <2>3
<1>4. CASE Restart
  <2>1. InputTypeOK'
    BY <1>4 DEF Restart, InputTypeOK
  <2>2. \A m \in Texts : ClosedRow(m) => ClosedRow(m)'
    BY <1>4 DEF Restart, ClosedRow
  <2>3. NoTaskYet' /\ CallbacksOK'
    BY <1>1, <1>4, <2>2 DEF Restart, NoTaskYet, CallbacksOK
  <2>4. QuestionsOK'
    BY <1>4, <2>2 DEF Restart, QuestionsOK, InputTypeOK
  <2> QED BY <2>1, <2>3, <2>4
<1> QED BY <1>2, <1>3, <1>4

\* Every step of the bridge keeps both invariants.
LEMMA BridgeStep == Inv /\ InputInv /\ [BridgeNext]_bridge => Inv' /\ InputInv'
<1> SUFFICES ASSUME Inv, InputInv, [BridgeNext]_bridge PROVE Inv' /\ InputInv'
  OBVIOUS
<1>1. [Next]_vars
  BY BridgeSteps
<1>2. Inv'
  BY <1>1, InvStep
<1>3. turn'[AskedBy] = "running" => turn[AskedBy] = "running"
  BY <1>1, TurnsEnd, UserInputAssumption DEF Inv
<1>4. InputInv'
  BY <1>3, InputSteps, InputsStutter, QuestionStep, TextStep, TaskStep, ProcessStep
<1> QED BY <1>2, <1>4

\* ApprovalBridge with questions under way still behaves as Approvals: the two
\* kinds of requests share the process, not their state.
THEOREM QuestionsKeepApprovals == BridgeSpec => Spec
<1>1. BridgeInit => Init
  BY DEF BridgeInit
<1> QED BY <1>1, BridgeSteps, PTL DEF BridgeSpec, Spec

\* So a command still goes through for an approved row only.
COROLLARY BridgeAcceptsAreDurable == BridgeSpec => []AcceptIsDurable
  BY QuestionsKeepApprovals, AcceptsAreDurable, PTL

\* A text that answers a question of a running turn is never run as a task of its
\* own, however texts, timeouts, withdrawals, crashes and restarts interleave.
THEOREM AnswersAreNoTasks == BridgeSpec => []AnswerIsNoTask
<1>1. BridgeInit => Inv /\ InputInv
  BY InitInv, InputInitInv DEF BridgeInit
<1>2. InputInv => AnswerIsNoTask
  BY DEF InputInv, QuestionsOK, AnswerIsNoTask
<1> QED BY <1>1, <1>2, BridgeStep, PTL DEF BridgeSpec
=============================================================================
