------------------------------ MODULE Approvals ------------------------------
(***************************************************************************)
(* Approval requests of Codex turns (ApprovalBridge).  A request of the    *)
(* app-server becomes a row of feishu_approvals, a card, and a handler     *)
(* thread that waits for a decision.  Decisions come from card callbacks,  *)
(* the request's timeout, notifications of the app-server and the stop of  *)
(* the daemon, all at once; every one of them goes through one conditional *)
(* update of the row.  The card follows through a pool of feedback threads.*)
(*                                                                         *)
(* Each turn runs in an app-server of its own, which numbers its requests  *)
(* itself: the ids of two turns can be equal.                              *)
(***************************************************************************)
EXTENDS Naturals

CONSTANTS
  Requests,   \* approval requests, by approval_id
  Turns,      \* turns, each in its thread and its app-server
  TurnOf,     \* the turn that makes a request
  IdOf,       \* the JSON-RPC id the app-server gives it
  Clicks,     \* card callbacks and /approve, /deny commands
  ClickOn,    \* the request a click is about
  Choice,     \* what it decides
  Timeouts    \* approval_timeout_seconds may pass

ASSUME ApprovalsAssumption ==
  /\ TurnOf \in [Requests -> Turns]
  /\ ClickOn \in [Clicks -> Requests]
  /\ Choice \in [Clicks -> {"accept", "decline", "cancel"}]
  /\ Requests \cap Clicks = {}
  /\ Timeouts \in BOOLEAN

VARIABLES
  state,      \* feishu_approvals.state
  decision,   \* feishu_approvals.decision
  feedback,   \* feishu_approvals.feedback_state
  bound,      \* feishu_approvals.card_message_id is set
  shown,      \* the feedback state the card displays, "none" before it is sent
  handler,    \* where handle_server_request stands
  pending,    \* the request is in _pending
  memo,       \* _PendingApproval.decision; its event is set with it
  answer,     \* what the app-server was told
  click,      \* where a card callback stands
  job,        \* feedback updates: one per click, one per finalization
  jobState,   \* the feedback state an update is about
  turn,       \* "running", "over", or "lost" with the process that ran it
  reported,   \* requests the app-server reported as resolved
  rounds,     \* finalizations of its turn that came over the request
  passed,     \* history: requests one of them found decided, with a card
  closing,    \* what the reader thread of each app-server is closing
  cancelling, \* what cancel_all_pending is closing
  daemon      \* "up", "stopping" or "down"

rows    == <<state, decision, feedback, bound>>
waiting == <<handler, pending, memo, answer>>
cards   == <<shown, job, jobState>>
appserver == <<turn, reported, rounds, passed>>
vars == <<state, decision, feedback, bound, shown, handler, pending, memo,
          answer, click, job, jobState, turn, reported, rounds, passed, closing,
          cancelling, daemon>>

Decisions == {"accept", "decline", "cancel"}
States    == {"pending", "approved", "declined", "cancelled", "expired", "orphaned",
              "resolved"}
Feedbacks == {"PENDING", "ACKNOWLEDGED_PROCESSING", "APPROVED", "DECLINED",
              "EXECUTION_FAILED"}
Final     == {"APPROVED", "DECLINED", "EXECUTION_FAILED"}
Jobs      == Clicks \cup Requests

TypeOK ==
  /\ state \in [Requests -> States \cup {"absent"}]
  /\ decision \in [Requests -> Decisions \cup {"none"}]
  /\ feedback \in [Requests -> Feedbacks]
  /\ bound \in [Requests -> BOOLEAN]
  /\ shown \in [Requests -> Feedbacks \cup {"none"}]
  /\ handler \in [Requests -> {"none", "created", "sent", "waiting", "woken",
                               "popped", "failed", "answered", "lost"}]
  /\ pending \in [Requests -> BOOLEAN]
  /\ memo \in [Requests -> Decisions \cup {"none"}]
  /\ answer \in [Requests -> Decisions \cup {"none"}]
  /\ click \in [Clicks -> {"none", "read", "won", "acked", "resolved", "late"}]
  /\ job \in [Jobs -> {"none", "queued", "moved"}]
  /\ jobState \in [Jobs -> Feedbacks]
  /\ turn \in [Turns -> {"running", "over", "lost"}]
  /\ reported \in SUBSET Requests
  /\ rounds \in [Requests -> 0..2] /\ passed \subseteq Requests
  /\ closing \in [Turns -> [Requests -> {"no", "listed", "won"}]]
  /\ cancelling \in [Requests -> {"no", "listed", "written"}]
  /\ daemon \in {"up", "stopping", "down"}

Set(f, a, v) == [f EXCEPT ![a] = v]

-----------------------------------------------------------------------------
Resolvable(a) == state[a] = "pending"
Resolve(a, d, s) == state' = Set(state, a, s) /\ decision' = Set(decision, a, d)
TryResolve(a, d, s) ==
  IF Resolvable(a) THEN Resolve(a, d, s) ELSE UNCHANGED <<state, decision>>

StateFor(d) == CASE d = "accept" -> "approved" [] d = "decline" -> "declined"
                 [] d = "cancel" -> "cancelled"

-----------------------------------------------------------------------------
(* handle_server_request: one thread per request.                          *)

At(a, s) == handler[a] = s
Go(a, s) == handler' = Set(handler, a, s)

\* create_approval, then the entry in _pending.  The request was read before its
\* turn ended; its thread may start later.
Create(a) ==
  /\ daemon # "down" /\ At(a, "none") /\ turn[TurnOf[a]] # "lost"
  /\ state' = Set(state, a, "pending")
  /\ pending' = Set(pending, a, TRUE)
  /\ Go(a, "created")
  /\ UNCHANGED <<decision, feedback, bound, cards, memo, answer, click, appserver,
                 closing, cancelling, daemon>>

SendCard(a) ==
  /\ At(a, "created")
  /\ shown' = Set(shown, a, "PENDING")
  /\ Go(a, "sent")
  /\ UNCHANGED <<rows, pending, memo, answer, click, job, jobState, appserver,
                 closing, cancelling, daemon>>

BindCard(a) ==
  /\ At(a, "sent")
  /\ bound' = Set(bound, a, TRUE)
  /\ Go(a, "waiting")
  /\ UNCHANGED <<state, decision, feedback, cards, pending, memo, answer, click, appserver, closing,
                 cancelling, daemon>>

\* The card is not delivered or not bound: the entry goes, then the row, then
\* the answer.
SendFails(a) ==
  /\ At(a, "created") \/ At(a, "sent")
  /\ pending' = Set(pending, a, FALSE)
  /\ Go(a, "failed")
  /\ UNCHANGED <<rows, cards, memo, answer, click, appserver, closing,
                 cancelling, daemon>>

FailClosed(a) ==
  /\ At(a, "failed")
  /\ TryResolve(a, "decline", "cancelled")
  /\ answer' = Set(answer, a, "decline")
  /\ Go(a, "answered")
  /\ UNCHANGED <<feedback, bound, cards, pending, memo, click, appserver, closing,
                 cancelling, daemon>>

\* event.wait returns because of a decision or of the timeout.
WakesUp(a) == memo[a] # "none" \/ Timeouts
Wake(a) ==
  /\ At(a, "waiting") /\ WakesUp(a)
  /\ Go(a, "woken")
  /\ UNCHANGED <<rows, cards, pending, memo, answer, click, appserver, closing,
                 cancelling, daemon>>

\* wait_for_feedback gives up after five seconds; then the entry goes.
Pop(a) ==
  /\ At(a, "woken")
  /\ pending' = Set(pending, a, FALSE)
  /\ Go(a, "popped")
  /\ UNCHANGED <<rows, cards, memo, answer, click, appserver, closing,
                 cancelling, daemon>>

\* No decision: the row expires if it is still pending, and the answer is
\* decline either way.
OnTimeout_Accept == "accept"   \* mutant: an expired request is let through
OnTimeout == "decline"
Answer(a) ==
  /\ At(a, "popped")
  /\ IF memo[a] = "none"
     THEN TryResolve(a, "decline", "expired") /\ answer' = Set(answer, a, OnTimeout)
     ELSE UNCHANGED <<state, decision>> /\ answer' = Set(answer, a, memo[a])
  /\ Go(a, "answered")
  /\ UNCHANGED <<feedback, bound, cards, pending, memo, click, appserver, closing,
                 cancelling, daemon>>

Handle(a) ==
  \/ SendCard(a) \/ BindCard(a) \/ SendFails(a) \/ FailClosed(a)
  \/ Wake(a) \/ Pop(a) \/ Answer(a)

-----------------------------------------------------------------------------
(* resolve: the thread of a card callback, or of /approve and /deny.       *)

Enqueue(j, s) == job' = Set(job, j, "queued") /\ jobState' = Set(jobState, j, s)

\* The row has its outcome: show it again when an operator decided.
Repeat(k) ==
  /\ IF decision[ClickOn[k]] \in {"accept", "decline"}
     THEN Enqueue(k, feedback[ClickOn[k]]) ELSE UNCHANGED <<job, jobState>>
  /\ click' = Set(click, k, "late")

Click(k) ==
  /\ daemon # "down" /\ click[k] = "none" /\ shown[ClickOn[k]] # "none"
  /\ IF state[ClickOn[k]] # "pending" THEN Repeat(k)
     ELSE click' = Set(click, k, "read") /\ UNCHANGED <<job, jobState>>
  /\ UNCHANGED <<rows, waiting, shown, appserver, closing, cancelling, daemon>>

\* The conditional update decides between callbacks, timeout and notifications.
Decide(k) ==
  /\ click[k] = "read"
  /\ LET a == ClickOn[k] IN
     IF Resolvable(a)
     THEN /\ Resolve(a, Choice[k], StateFor(Choice[k]))
          /\ click' = Set(click, k, "won")
          /\ UNCHANGED <<job, jobState>>
     ELSE Repeat(k) /\ UNCHANGED <<state, decision>>
  /\ UNCHANGED <<feedback, bound, waiting, shown, appserver, closing, cancelling, daemon>>

Acknowledge(k) ==
  /\ click[k] = "won"
  /\ IF Choice[k] = "cancel" THEN UNCHANGED <<job, jobState>>
     ELSE Enqueue(k, "ACKNOWLEDGED_PROCESSING")
  /\ click' = Set(click, k, "acked")
  /\ UNCHANGED <<rows, waiting, shown, appserver, closing, cancelling, daemon>>

\* The waiter gets the decision if it still has its entry.
Deliver(k) ==
  /\ click[k] = "acked"
  /\ LET a == ClickOn[k] IN
     memo' = IF pending[a] THEN Set(memo, a, Choice[k]) ELSE memo
  /\ click' = Set(click, k, "resolved")
  /\ UNCHANGED <<rows, handler, pending, answer, cards, appserver, closing,
                 cancelling, daemon>>

Callback(k) == Decide(k) \/ Acknowledge(k) \/ Deliver(k)

-----------------------------------------------------------------------------
(* handle_server_notification: the reader thread of a turn's app-server.   *)

\* item.request_id == request_id or item.thread_id == thread_id.
Matches(a, b) == IdOf[b] = IdOf[a] \/ TurnOf[b] = TurnOf[a]
Idle(t) == \A a \in Requests : closing[t][a] = "no"
List(t, S) ==
  closing' = Set(closing, t, [a \in Requests |-> IF a \in S THEN "listed" ELSE "no"])

\* serverRequest/resolved, with the request's id and thread, once it was answered.
Resolved(a) ==
  /\ daemon # "down" /\ Idle(TurnOf[a])
  /\ answer[a] # "none" /\ a \notin reported
  /\ reported' = reported \cup {a}
  /\ List(TurnOf[a], {b \in Requests : pending[b] /\ Matches(a, b)})
  /\ UNCHANGED <<rows, waiting, cards, click, turn, rounds, passed, cancelling, daemon>>

\* turn/completed or turn/interrupted: the thread's requests.
TurnEnds(t) ==
  /\ daemon # "down" /\ Idle(t) /\ turn[t] = "running"
  /\ turn' = Set(turn, t, "over")
  /\ List(t, {b \in Requests : pending[b] /\ TurnOf[b] = t})
  /\ UNCHANGED <<rows, waiting, cards, click, reported, rounds, passed, cancelling, daemon>>

SetClosing(t, a, s) == closing' = [closing EXCEPT ![t][a] = s]

CloseRow(t, a) ==
  /\ closing[t][a] = "listed"
  /\ TryResolve(a, "cancel", "resolved")
  /\ SetClosing(t, a, IF Resolvable(a) THEN "won" ELSE "no")
  /\ UNCHANGED <<feedback, bound, waiting, cards, click, appserver, cancelling, daemon>>

CloseWaiter(t, a) ==
  /\ closing[t][a] = "won"
  /\ memo' = Set(memo, a, "cancel")
  /\ SetClosing(t, a, "no")
  /\ UNCHANGED <<rows, handler, pending, answer, cards, click, appserver,
                 cancelling, daemon>>

\* finalize_feedback_for_turn, called by the reader thread when the turn's end
\* is notified and again by the thread that ran the turn: the card of every
\* decided request gets the outcome.  A call waits for its updates.  Neither call
\* is certain: a turn without a result has nothing to finalize (code_runtime.py:333),
\* an error of another kind skips the second (code_runtime.py:491), and one in
\* closing the requests the first (app_server.py:261).
Finalizable_Accepted(a) == decision[a] = "accept" /\ feedback[a] \notin Final   \* mutant
Finalizable(a) == decision[a] \in {"accept", "decline"} /\ feedback[a] \notin Final
Decided(a) == decision[a] \in {"accept", "decline"} /\ bound[a]
Finalize(a) ==
  /\ daemon # "down"
  /\ turn[TurnOf[a]] = "over" /\ Idle(TurnOf[a])
  /\ rounds[a] < 2 /\ job[a] = "none"
  /\ rounds' = Set(rounds, a, rounds[a] + 1)
  /\ passed' = IF Decided(a) THEN passed \cup {a} ELSE passed
  /\ IF Finalizable(a)
     THEN \E s \in IF decision[a] = "decline" THEN {"DECLINED"}
                   ELSE {"APPROVED", "EXECUTION_FAILED"} : Enqueue(a, s)
     ELSE UNCHANGED <<job, jobState>>
  /\ UNCHANGED <<rows, waiting, shown, click, turn, reported, closing, cancelling,
                 daemon>>

-----------------------------------------------------------------------------
(* _update_feedback: at most four feedback threads.                        *)

About(j) == IF j \in Clicks THEN ClickOn[j] ELSE j
Rank(s) == CASE s = "PENDING" -> 0 [] s = "ACKNOWLEDGED_PROCESSING" -> 2 [] OTHER -> 3

\* transition_feedback: never to a lower rank, never from one outcome to another.
Advances(from, to) == Rank(to) >= Rank(from) /\ (from \in Final => to = from)

MoveFeedback(j) ==
  /\ job[j] = "queued"
  /\ LET a == About(j) IN
     IF bound[a] /\ Advances(feedback[a], jobState[j])
     THEN feedback' = Set(feedback, a, jobState[j]) /\ job' = Set(job, j, "moved")
     ELSE UNCHANGED feedback /\ job' = Set(job, j, "none")
  /\ UNCHANGED <<state, decision, bound, waiting, shown, click, jobState, appserver,
                 closing, cancelling, daemon>>

\* update_card, which may fail.
UpdateCard(j) ==
  /\ job[j] = "moved"
  /\ \/ shown' = Set(shown, About(j), jobState[j])
     \/ UNCHANGED shown
  /\ job' = Set(job, j, "none")
  /\ UNCHANGED <<rows, waiting, click, jobState, appserver, closing, cancelling,
                 daemon>>

-----------------------------------------------------------------------------
(* The daemon.                                                             *)

\* stop: cancel_all_pending lists the entries, then closes one after another,
\* whatever the conditional update of the row says.
CancelAll ==
  /\ daemon = "up" /\ daemon' = "stopping"
  /\ cancelling' = [a \in Requests |-> IF pending[a] THEN "listed" ELSE "no"]
  /\ UNCHANGED <<rows, waiting, cards, click, appserver, closing>>

CancelRow(a) ==
  /\ cancelling[a] = "listed"
  /\ TryResolve(a, "cancel", "cancelled")
  /\ cancelling' = Set(cancelling, a, "written")
  /\ UNCHANGED <<feedback, bound, waiting, cards, click, appserver, closing, daemon>>

CancelWaiter(a) ==
  /\ cancelling[a] = "written"
  /\ memo' = Set(memo, a, "cancel")
  /\ cancelling' = Set(cancelling, a, "no")
  /\ UNCHANGED <<rows, handler, pending, answer, cards, click, appserver,
                 closing, daemon>>

\* The process ends, with its threads and its app-servers.
Down ==
  /\ daemon # "down" /\ daemon' = "down"
  /\ handler' = [a \in Requests |-> IF handler[a] = "none" THEN "none" ELSE "lost"]
  /\ pending' = [a \in Requests |-> FALSE]
  /\ memo' = [a \in Requests |-> "none"]
  /\ click' = [k \in Clicks |-> IF click[k] = "none" THEN "none" ELSE "late"]
  /\ job' = [j \in Jobs |-> "none"]
  /\ turn' = [t \in Turns |-> "lost"]
  /\ closing' = [t \in Turns |-> [a \in Requests |-> "no"]]
  /\ cancelling' = [a \in Requests |-> "no"]
  /\ jobState' = [j \in Jobs |-> "PENDING"]
  /\ reported' = {}
  /\ rounds' = [a \in Requests |-> 0] /\ passed' = {}
  /\ UNCHANGED <<rows, answer, shown>>

\* recover_on_startup: what was pending is orphaned.
Orphaned(s) == IF s = "pending" THEN "orphaned" ELSE s
Recover ==
  /\ daemon = "down" /\ daemon' = "up"
  /\ state' = [a \in Requests |-> Orphaned(state[a])]
  /\ UNCHANGED <<decision, feedback, bound, waiting, cards, click, appserver, closing,
                 cancelling>>

-----------------------------------------------------------------------------
Init ==
  /\ state = [a \in Requests |-> "absent"]
  /\ decision = [a \in Requests |-> "none"]
  /\ feedback = [a \in Requests |-> "PENDING"]
  /\ bound = [a \in Requests |-> FALSE]
  /\ shown = [a \in Requests |-> "none"]
  /\ handler = [a \in Requests |-> "none"]
  /\ pending = [a \in Requests |-> FALSE]
  /\ memo = [a \in Requests |-> "none"]
  /\ answer = [a \in Requests |-> "none"]
  /\ click = [k \in Clicks |-> "none"]
  /\ job = [j \in Jobs |-> "none"]
  /\ jobState = [j \in Jobs |-> "PENDING"]
  /\ turn = [t \in Turns |-> "running"]
  /\ reported = {}
  /\ rounds = [a \in Requests |-> 0] /\ passed = {}
  /\ closing = [t \in Turns |-> [a \in Requests |-> "no"]]
  /\ cancelling = [a \in Requests |-> "no"]
  /\ daemon = "up"

Next ==
  \/ \E a \in Requests : Create(a) \/ Handle(a) \/ Resolved(a) \/ Finalize(a)
                         \/ CancelRow(a) \/ CancelWaiter(a)
  \/ \E k \in Clicks : Click(k) \/ Callback(k)
  \/ \E t \in Turns : TurnEnds(t)
  \/ \E t \in Turns, a \in Requests : CloseRow(t, a) \/ CloseWaiter(t, a)
  \/ \E j \in Jobs : MoveFeedback(j) \/ UpdateCard(j)
  \/ CancelAll \/ Down \/ Recover

Spec == Init /\ [][Next]_vars

\* Threads run on; no click, notification, finalization or stop is owed.
FairSpec ==
  /\ Spec
  /\ \A a \in Requests : WF_vars(Handle(a)) /\ WF_vars(CancelRow(a) \/ CancelWaiter(a))
  /\ \A k \in Clicks : WF_vars(Callback(k))
  /\ \A t \in Turns, a \in Requests : WF_vars(CloseRow(t, a) \/ CloseWaiter(t, a))
  /\ \A j \in Jobs : WF_vars(MoveFeedback(j) \/ UpdateCard(j))

-----------------------------------------------------------------------------
\* Codex is told "accept" only for a request whose row is approved: no timeout,
\* restart, cancellation or mix-up of requests lets a command through.
AcceptIsDurable ==
  \A a \in Requests :
    answer[a] = "accept" => state[a] = "approved" /\ decision[a] = "accept"

\* The outcome of a request is written once: callbacks, timeout, notifications,
\* stop and restart race for it, and the loser changes nothing.
OutcomeStays ==
  [][\A a \in Requests : state[a] \notin {"absent", "pending"} =>
       state'[a] = state[a] /\ decision'[a] = decision[a]]_vars

\* The durable feedback state only advances, and an outcome stays.
FeedbackAdvances ==
  [][\A a \in Requests : /\ Rank(feedback[a]) <= Rank(feedback'[a])
                         /\ feedback[a] \in Final => feedback'[a] = feedback[a]]_vars

\* A callback that reported RESOLVED reached the handler, if that still waits.
DecisionReachesWaiter ==
  \A k \in Clicks :
    click[k] = "resolved" /\ handler[ClickOn[k]] = "waiting" => memo[ClickOn[k]] # "none"

\* A row is pending only as long as a handler of this process sees to it: no
\* failure or restart leaves a request that can still be approved to nobody.
PendingIsHandled ==
  \A a \in Requests :
    state[a] = "pending" /\ daemon # "down" =>
      handler[a] \notin {"none", "answered", "lost"}

\* A request that a finalization of its turn finds decided, with its card bound, gets
\* a final feedback state, whatever callbacks, other finalizations and late updates
\* race with it.  A decision no finalization comes over after it (both skipped, or
\* the last one done) keeps ACKNOWLEDGED_PROCESSING.
DecidedIsFinalized ==
  \A a \in Requests :
    (a \in passed) ~> (feedback[a] \in Final \/ turn[TurnOf[a]] = "lost")
=============================================================================
