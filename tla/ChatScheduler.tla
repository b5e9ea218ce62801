--------------------------- MODULE ChatScheduler ---------------------------
(***************************************************************************)
(* The inbox scheduler of the Feishu runtime: gateway callbacks insert     *)
(* durable rows into feishu_inbox, FeishuDaemon keeps one scheduler token  *)
(* per chat in an in-memory FIFO, and a pool of worker threads turns       *)
(* tokens into executions of the oldest queued row of the token's chat.    *)
(*                                                                         *)
(* Durable state (SQLite): status, and receivedAt once the row is there.   *)
(* In-memory state (lost in a crash): everything else.  A step is what one *)
(* thread does between two points where another thread can run: one clock  *)
(* reading, one SQLite transaction, one section under _queue_lock, or one  *)
(* queue operation.                                                        *)
(***************************************************************************)
EXTENDS Naturals, Sequences, FiniteSets

CONSTANTS
  Chats,        \* Feishu chats
  Messages,     \* messages Feishu delivers, by message_id
  Workers,      \* the worker threads, settings.worker_concurrency of them
  ChatOf,       \* the chat a message belongs to
  Kind,         \* what the gateway makes of a message
  NoChat, NoMessage,
  MaxFaults     \* bound on SQLite calls that raise

Kinds == {"prompt",    \* queued for a worker
          "control",   \* one of IMMEDIATE_COMMANDS, run by the gateway callback
          "redirect",  \* the immediate command that may requeue its own row
          "ignored"}   \* empty text, unsupported type: inserted, then ignored

ASSUME SchedulerAssumption ==
  /\ IsFiniteSet(Chats) /\ IsFiniteSet(Messages)
  /\ ChatOf \in [Messages -> Chats]
  /\ Kind \in [Messages -> Kinds]
  /\ NoChat \notin Chats
  /\ NoMessage \notin Messages
  /\ MaxFaults \in Nat

VARIABLES
  status,         \* feishu_inbox.status; "absent" when there is no row
  receivedAt,     \* time.time() of the insert, then feishu_inbox.received_at; or 0
  ahead,          \* history: the prompts of its chat that had rows at that time
  queue,          \* self.queue: the FIFO of scheduler tokens, chat ids
  scheduled,      \* self._scheduled_chats
  active,         \* self._active_chats
  pendingCounts,  \* self._chat_pending_counts
  phase,          \* where each worker thread stands in _worker
  chat,           \* the worker's local chat_id
  job,            \* the worker's local message_id
  peek,           \* the worker's local queued_in_database
  callback,       \* where the gateway callback of a message stands
  daemon,         \* "down", "up" or "stopping" (stop_event is set)
  faults          \* SQLite calls that raised so far

arrival   == <<receivedAt, ahead>>
durable   == <<status, receivedAt, ahead>>
scheduler == <<queue, scheduled, active, pendingCounts>>
locals    == <<phase, chat, job, peek>>
vars      == <<status, receivedAt, ahead, queue, scheduled, active,
               pendingCounts, phase, chat, job, peek, callback, daemon, faults>>

RowStatus == {"queued", "running", "completed", "failed", "ignored",
              "interrupted_on_restart"}
Terminal  == RowStatus \ {"queued", "running"}

Phases == {"idle",      \* in queue.get
           "taken",     \* has a token, not yet under _queue_lock
           "owning",    \* added the chat to _active_chats
           "chosen",    \* next_queued_message_id returned a row
           "running",   \* claimed the row; in _dispatch
           "settling",  \* in the finally block, before its SQLite read
           "peeked",    \* read SQLite, not yet under _queue_lock
           "exited"}

CallbackPhases == {"none",
                   "stamped",       \* read the clock; the insert is to come
                   "inserted",      \* enqueue_message returned
                   "claimed",       \* in handle_control_command
                   "interrupting",  \* the redirect found an active turn
                   "rewritten",     \* rewrite_queued_text returned
                   "requeued"}      \* enqueue_for_chat returned

TypeOK ==
  /\ status \in [Messages -> RowStatus \cup {"absent"}]
  /\ receivedAt \in [Messages -> Nat]
  /\ ahead \in [Messages -> SUBSET Messages]
  /\ queue \in Seq(Chats)
  /\ scheduled \in SUBSET Chats
  /\ active \in SUBSET Chats
  /\ pendingCounts \in [Chats -> Nat]
  /\ phase \in [Workers -> Phases]
  /\ chat \in [Workers -> Chats \cup {NoChat}]
  /\ job \in [Workers -> Messages \cup {NoMessage}]
  /\ peek \in [Workers -> BOOLEAN]
  /\ callback \in [Messages -> CallbackPhases]
  /\ daemon \in {"down", "up", "stopping"}
  /\ faults \in 0..MaxFaults

-----------------------------------------------------------------------------
\* The rows of a chat next_queued_message_id selects from, and the one it
\* returns: order by received_at,rowid limit 1.
Queued(c) == {m \in Messages : ChatOf[m] = c /\ status[m] = "queued"}
NextQueued_Newest(c) ==   \* mutant: order by received_at desc
  CHOOSE m \in Queued(c) : \A n \in Queued(c) : receivedAt[m] >= receivedAt[n]
NextQueued(c) ==
  CHOOSE m \in Queued(c) : \A n \in Queued(c) : receivedAt[m] <= receivedAt[n]

\* The prompts of a chat that have rows.
Prompts(c) ==
  {n \in Messages : ChatOf[n] = c /\ Kind[n] = "prompt" /\ status[n] # "absent"}

\* A SQLite call raises; bounded so that runs are finite.
Fault   == faults < MaxFaults /\ faults' = faults + 1
NoFault == UNCHANGED faults

SetStatus(m, s) == status' = [status EXCEPT ![m] = s]

\* claim_next(message_id): select the row if it is queued and mark it running,
\* in one immediate transaction.
Claimable_Unfinished(m) == status[m] \in {"queued", "running"}   \* mutant
Claimable(m)            == status[m] = "queued"
MarkRunning(m)           == SetStatus(m, "running")

QueueWith(c) == IF c \in scheduled THEN queue ELSE Append(queue, c)

\* enqueue under _queue_lock: count the message, schedule the chat once.
\* Nothing happens once stop_event is set.
EnqueueChat(c) ==
  IF daemon # "up" THEN UNCHANGED scheduler
  ELSE /\ pendingCounts' = [pendingCounts EXCEPT ![c] = @ + 1]
       /\ scheduled' = scheduled \cup {c}
       /\ queue' = QueueWith(c)
       /\ UNCHANGED active

-----------------------------------------------------------------------------
(* Gateway callbacks: one thread per delivered event.                      *)

\* enqueue_message evaluates time.time() before its insert, which may wait for
\* SQLite's write lock while other callbacks store younger rows.
Stamp(m) ==
  /\ daemon # "down"
  /\ status[m] = "absent"
  /\ callback[m] = "none"
  /\ \E now \in {receivedAt[n] + 1 : n \in Messages} :
       /\ \A n \in Messages : receivedAt[n] < now
       /\ receivedAt' = [receivedAt EXCEPT ![m] = now]
  /\ ahead' = [ahead EXCEPT ![m] = Prompts(ChatOf[m])]
  /\ callback' = [callback EXCEPT ![m] = "stamped"]
  /\ UNCHANGED <<status, scheduler, locals, daemon, faults>>

\* The insert; a redelivered message_id inserts nothing.
Receive(m) ==
  /\ callback[m] = "stamped"
  /\ SetStatus(m, "queued")
  /\ callback' = [callback EXCEPT ![m] = "inserted"]
  /\ UNCHANGED <<arrival, scheduler, locals, daemon, faults>>

\* The insert raises: the message has no row, and Feishu may deliver it again.
ReceiveFails(m) ==
  /\ callback[m] = "stamped"
  /\ Fault
  /\ receivedAt' = [receivedAt EXCEPT ![m] = 0]
  /\ ahead' = [ahead EXCEPT ![m] = {}]
  /\ callback' = [callback EXCEPT ![m] = "none"]
  /\ UNCHANGED <<status, scheduler, locals, daemon>>

Delivery(m) == Stamp(m) \/ Receive(m) \/ ReceiveFails(m)

\* The queued path of handle_message_event.
Enqueue(m) ==
  /\ callback[m] = "inserted" /\ Kind[m] = "prompt"
  /\ EnqueueChat(ChatOf[m])
  /\ callback' = [callback EXCEPT ![m] = "none"]
  /\ UNCHANGED <<durable, locals, daemon, faults>>

\* mark_ignored after the insert; the update has no condition on the status.
Ignore(m) ==
  /\ callback[m] = "inserted" /\ Kind[m] = "ignored"
  /\ SetStatus(m, "ignored")
  /\ callback' = [callback EXCEPT ![m] = "none"]
  /\ UNCHANGED <<arrival, scheduler, locals, daemon, faults>>

\* claim_next for an immediate command.  When a worker claimed the row first
\* the callback raises FEISHU_COMMAND_CLAIM_FAILED and leaves the row alone.
ClaimControl(m) ==
  /\ callback[m] = "inserted" /\ Kind[m] \in {"control", "redirect"}
  /\ IF Claimable(m)
     THEN /\ MarkRunning(m)
          /\ callback' = [callback EXCEPT ![m] = "claimed"]
     ELSE /\ callback' = [callback EXCEPT ![m] = "none"]
          /\ UNCHANGED status
  /\ UNCHANGED <<arrival, scheduler, locals, daemon, faults>>

\* handle_control_command returned or raised; a rejected redirect ends here.
FinishControl(m) ==
  /\ callback[m] \in {"claimed", "interrupting"}
  /\ \E s \in {"completed", "failed"} : SetStatus(m, s)
  /\ callback' = [callback EXCEPT ![m] = "none"]
  /\ UNCHANGED <<arrival, scheduler, locals, daemon, faults>>

\* The redirect handler finds an active turn in its chat and asks it to stop.
Interrupt(m) ==
  /\ callback[m] = "claimed" /\ Kind[m] = "redirect"
  /\ \E w \in Workers : phase[w] = "running" /\ chat[w] = ChatOf[m]
  /\ callback' = [callback EXCEPT ![m] = "interrupting"]
  /\ UNCHANGED <<durable, scheduler, locals, daemon, faults>>

\* rewrite_queued_text turns the claimed row back into a queued one that
\* carries the new direction.
Rewrite(m) ==
  /\ callback[m] = "interrupting"
  /\ status[m] \in {"queued", "running"}
  /\ SetStatus(m, "queued")
  /\ callback' = [callback EXCEPT ![m] = "rewritten"]
  /\ UNCHANGED <<arrival, scheduler, locals, daemon, faults>>

Requeue(m) ==
  /\ callback[m] = "rewritten"
  /\ EnqueueChat(ChatOf[m])
  /\ callback' = [callback EXCEPT ![m] = "requeued"]
  /\ UNCHANGED <<durable, locals, daemon, faults>>

\* After the reply the gateway reads the row again: only a row that is still
\* queued counts as rewritten, anything else is marked completed.  When the
\* reply raises, the row is marked failed whatever it is by then: the new
\* direction is withdrawn, or the turn a worker began with it loses its row.
CloseRedirect(m) ==
  /\ callback[m] = "requeued"
  /\ \/ status[m] = "queued" /\ UNCHANGED status
     \/ status[m] # "queued" /\ SetStatus(m, "completed")
     \/ SetStatus(m, "failed")
  /\ callback' = [callback EXCEPT ![m] = "none"]
  /\ UNCHANGED <<arrival, scheduler, locals, daemon, faults>>

\* A SQLite call of the callback raises: claim_next or mark_ignored after the
\* insert, the closing mark after the handler, the last read of a redirect.
CallbackFails(m) ==
  /\ \/ callback[m] = "inserted" /\ Kind[m] # "prompt"
     \/ callback[m] \in {"claimed", "interrupting", "requeued"}
  /\ Fault
  /\ callback' = [callback EXCEPT ![m] = "none"]
  /\ UNCHANGED <<durable, scheduler, locals, daemon>>

Callback(m) ==
  \/ Enqueue(m) \/ Ignore(m) \/ ClaimControl(m) \/ FinishControl(m)
  \/ Interrupt(m) \/ Rewrite(m) \/ Requeue(m) \/ CloseRedirect(m)

-----------------------------------------------------------------------------
(* Worker threads.                                                         *)

Goto(w, p) == phase' = [phase EXCEPT ![w] = p]

\* Where the loop goes: its condition tests stop_event.
LoopPhase == IF daemon = "up" THEN "idle" ELSE "exited"

\* queue.get.  A worker already waiting may get a token after stop_event.
TakeToken(w) ==
  /\ daemon # "down"
  /\ phase[w] = "idle" /\ queue # <<>>
  /\ chat' = [chat EXCEPT ![w] = Head(queue)]
  /\ queue' = Tail(queue)
  /\ Goto(w, "taken")
  /\ UNCHANGED <<durable, scheduled, active, pendingCounts, job, peek,
                 callback, daemon, faults>>

\* Under _queue_lock: a token of a chat another worker owns is dropped.
Own(w) ==
  /\ phase[w] = "taken"
  /\ IF chat[w] \in active
     THEN /\ Goto(w, LoopPhase)
          /\ chat' = [chat EXCEPT ![w] = NoChat]
          /\ UNCHANGED active
     ELSE /\ active' = active \cup {chat[w]}
          /\ Goto(w, "owning")
          /\ UNCHANGED chat
  /\ UNCHANGED <<durable, queue, scheduled, pendingCounts, job, peek,
                 callback, daemon, faults>>

\* next_queued_message_id, and the count it takes off: max(0, count - 1).
Decremented(n) == IF n = 0 THEN 0 ELSE n - 1
Select(w) ==
  /\ phase[w] = "owning"
  /\ LET c == chat[w] IN
     IF Queued(c) = {}
     THEN Goto(w, "settling") /\ UNCHANGED <<job, pendingCounts>>
     ELSE /\ job' = [job EXCEPT ![w] = NextQueued(c)]
          /\ pendingCounts' =
               [pendingCounts EXCEPT ![c] = Decremented(@)]
          /\ Goto(w, "chosen")
  /\ UNCHANGED <<durable, queue, scheduled, active, chat, peek,
                 callback, daemon, faults>>

\* claim_next(message_id): the compare-and-set from queued to running.
Claim(w) ==
  /\ phase[w] = "chosen"
  /\ IF Claimable(job[w])
     THEN MarkRunning(job[w]) /\ Goto(w, "running") /\ UNCHANGED job
     ELSE /\ Goto(w, "settling")
          /\ job' = [job EXCEPT ![w] = NoMessage]
          /\ UNCHANGED status
  /\ UNCHANGED <<arrival, scheduler, chat, peek, callback, daemon, faults>>

\* _dispatch returned or raised and its outcome is written, whatever the
\* status of the row is by now.
Finish(w) ==
  /\ phase[w] = "running"
  /\ \E s \in {"completed", "failed"} : SetStatus(job[w], s)
  /\ job' = [job EXCEPT ![w] = NoMessage]
  /\ Goto(w, "settling")
  /\ UNCHANGED <<arrival, scheduler, chat, peek, callback, daemon, faults>>

\* SQLite raises in the selection, the claim or the closing marks: the worker
\* records the failure and goes on to its finally block.
WorkerFails(w) ==
  /\ phase[w] \in {"owning", "chosen", "running"}
  /\ Fault
  /\ job' = [job EXCEPT ![w] = NoMessage]
  /\ Goto(w, "settling")
  /\ UNCHANGED <<durable, scheduler, chat, peek, callback, daemon>>

\* The finally block reads SQLite outside _queue_lock; an error counts as
\* "still queued".
OnReadError_Empty == FALSE   \* mutant
OnReadError == TRUE
Peek(w) ==
  /\ phase[w] = "settling"
  /\ \/ peek' = [peek EXCEPT ![w] = Queued(chat[w]) # {}] /\ NoFault
     \/ peek' = [peek EXCEPT ![w] = OnReadError] /\ Fault
  /\ Goto(w, "peeked")
  /\ UNCHANGED <<durable, scheduler, chat, job, callback, daemon>>

Unschedule(c) ==
  /\ pendingCounts' = [pendingCounts EXCEPT ![c] = 0]
  /\ scheduled' = scheduled \ {c}

\* Under _queue_lock: give the chat up, and reschedule or unschedule it on the
\* strength of what Peek saw.
Release(w) ==
  /\ phase[w] = "peeked"
  /\ active' = active \ {chat[w]}
  /\ IF peek[w]
     THEN queue' = Append(queue, chat[w]) /\ UNCHANGED <<scheduled, pendingCounts>>
     ELSE Unschedule(chat[w]) /\ UNCHANGED queue
  /\ chat' = [chat EXCEPT ![w] = NoChat]
  /\ peek' = [peek EXCEPT ![w] = FALSE]
  /\ Goto(w, LoopPhase)
  /\ UNCHANGED <<durable, job, callback, daemon, faults>>

Exit(w) ==
  /\ daemon = "stopping" /\ phase[w] = "idle"
  /\ Goto(w, "exited")
  /\ UNCHANGED <<durable, scheduler, chat, job, peek, callback, daemon, faults>>

Worker(w) ==
  \/ TakeToken(w) \/ Own(w) \/ Select(w) \/ Claim(w) \/ Finish(w)
  \/ Peek(w) \/ Release(w) \/ Exit(w)

-----------------------------------------------------------------------------
(* The life of the process.                                                *)

MemoryLost ==
  /\ queue' = <<>> /\ scheduled' = {} /\ active' = {}
  /\ pendingCounts' = [c \in Chats |-> 0]
  /\ phase' = [w \in Workers |-> "idle"]
  /\ chat' = [w \in Workers |-> NoChat]
  /\ job' = [w \in Workers |-> NoMessage]
  /\ peek' = [w \in Workers |-> FALSE]
  /\ callback' = [m \in Messages |-> "none"]
  /\ receivedAt' = [m \in Messages |-> IF status[m] = "absent" THEN 0 ELSE receivedAt[m]]
  /\ ahead' = [m \in Messages |-> IF status[m] = "absent" THEN {} ELSE ahead[m]]

\* start: recover_on_startup, then one enqueue per queued row in order of
\* arrival, before any worker thread or the transport runs.
ChatsWithRows_Forgotten == {}   \* mutant: recovered rows are not enqueued
ChatsWithRows == {c \in Chats : Queued(c) # {}}
EarliestFirst(s) ==
  \A i, j \in DOMAIN s : i < j =>
    receivedAt[NextQueued(s[i])] < receivedAt[NextQueued(s[j])]
RecoveredQueues ==
  {s \in [1..Cardinality(ChatsWithRows) -> ChatsWithRows] :
     {s[i] : i \in DOMAIN s} = ChatsWithRows /\ EarliestFirst(s)}

Recovered_Replayed(s) == IF s = "running" THEN "queued" ELSE s   \* mutant
Recovered(s) == IF s = "running" THEN "interrupted_on_restart" ELSE s

Start ==
  /\ daemon = "down"
  /\ daemon' = "up"
  /\ status' = [m \in Messages |-> Recovered(status[m])]
  /\ scheduled' = ChatsWithRows
  /\ queue' \in RecoveredQueues
  /\ pendingCounts' = [c \in Chats |-> Cardinality(Queued(c))]
  /\ UNCHANGED <<arrival, active, locals, callback, faults>>

\* stop sets stop_event and waits for the workers.
Stop ==
  /\ daemon = "up"
  /\ daemon' = "stopping"
  /\ UNCHANGED <<durable, scheduler, locals, callback, faults>>

\* Every worker has left its loop: the runtime is torn down.
Shutdown ==
  /\ daemon = "stopping"
  /\ \A w \in Workers : phase[w] = "exited"
  /\ daemon' = "down"
  /\ MemoryLost
  /\ UNCHANGED <<status, faults>>

Crash ==
  /\ daemon # "down"
  /\ daemon' = "down"
  /\ MemoryLost
  /\ UNCHANGED <<status, faults>>

-----------------------------------------------------------------------------
Init ==
  /\ status = [m \in Messages |-> "absent"]
  /\ receivedAt = [m \in Messages |-> 0]
  /\ ahead = [m \in Messages |-> {}]
  /\ queue = <<>> /\ scheduled = {} /\ active = {}
  /\ pendingCounts = [c \in Chats |-> 0]
  /\ phase = [w \in Workers |-> "idle"]
  /\ chat = [w \in Workers |-> NoChat]
  /\ job = [w \in Workers |-> NoMessage]
  /\ peek = [w \in Workers |-> FALSE]
  /\ callback = [m \in Messages |-> "none"]
  /\ daemon = "down"
  /\ faults = 0

Next ==
  \/ \E m \in Messages :
       Delivery(m) \/ Callback(m) \/ CallbackFails(m)
  \/ \E w \in Workers : Worker(w) \/ WorkerFails(w)
  \/ Start \/ Stop \/ Shutdown \/ Crash

Spec == Init /\ [][Next]_vars

\* Worker threads loop, callbacks run to their end and the supervisor starts a
\* runtime that is down.  Nothing obliges Feishu to deliver, SQLite to raise,
\* or the process to stop or crash.
FairSpec ==
  /\ Spec
  /\ \A w \in Workers : WF_vars(Worker(w))
  /\ \A m \in Messages : WF_vars(Callback(m))
  /\ WF_vars(Start)

-----------------------------------------------------------------------------
(* Safety.                                                                 *)

\* Worker w owns chat c: it stands between _active_chats.add and .discard.
Owns(w, c) == chat[w] = c /\ phase[w] \in
                {"owning", "chosen", "running", "settling", "peeked"}

\* A chat has one scheduler token at most: in the queue, or with one worker.
\* This is what "each chat is scheduled at most once" (daemon.py:69) rests on,
\* and with it no chat ever has two workers, whatever order callbacks,
\* workers, stops and restarts come in.
OneTokenPerChat ==
  /\ \A i, j \in DOMAIN queue : queue[i] = queue[j] => i = j
  /\ \A w \in Workers : chat[w] # NoChat =>
       \A i \in DOMAIN queue : queue[i] # chat[w]
  /\ \A v, w \in Workers : chat[v] # NoChat /\ chat[v] = chat[w] => v = w

\* A chat marked scheduled still has its token.  enqueue puts no token for a
\* scheduled chat, so a chat marked without one would be silent for good.
ScheduledHasToken ==
  \A c \in scheduled :
    \/ \E i \in DOMAIN queue : queue[i] = c
    \/ \E w \in Workers : chat[w] = c

\* No message is executed by two threads at once: neither by two workers nor
\* by a worker and the callback of an immediate command.
OneExecutor ==
  /\ \A v, w \in Workers :
       phase[v] = "running" /\ phase[w] = "running" /\ job[v] = job[w] => v = w
  /\ \A w \in Workers : phase[w] = "running" =>
       callback[job[w]] \notin {"claimed", "interrupting"}

\* While a prompt is being executed its row says so, which is what makes the
\* row "interrupted_on_restart" after a crash; nothing else writes the row.
PromptRowIsRunning ==
  \A w \in Workers :
    phase[w] = "running" /\ Kind[job[w]] = "prompt" => status[job[w]] = "running"

-----------------------------------------------------------------------------
(* Action properties.                                                      *)

\* Work that has ended, or that a dead process left running, is never queued or
\* run again (M2_FEISHU_ARCHITECTURE.md:52, "never automatically replayed").
Ended(m) ==
  \/ status[m] \in Terminal
  \/ status[m] = "running" /\ daemon = "down"
NeverReplayed == [][\A m \in Messages : Ended(m) => Ended(m)']_vars

\* A worker never starts a message while a prompt of the chat waits that was
\* stored before the message was received: whatever callbacks insert late, out
\* of the order of their clocks, or between a selection and its claim.
StartsJob(w) == phase[w] # "running" /\ phase'[w] = "running"
PromptsInOrder ==
  [][\A w \in Workers : StartsJob(w) =>
       \A n \in ahead[job[w]] : status[n] # "queued"]_vars

-----------------------------------------------------------------------------
(* Liveness.                                                               *)

\* The row of m will be seen: its chat has a token that no worker is about to
\* withdraw on the strength of an older read.
Covered(m) ==
  /\ status[m] = "queued" /\ daemon = "up"
  /\ ChatOf[m] \in scheduled
  /\ \A w \in Workers : ~ (chat[w] = ChatOf[m] /\ phase[w] = "peeked" /\ ~peek[w])

\* Outside that window no queued row is forgotten while the daemon stays up.
CoveredIsServed ==
  \A m \in Messages : Covered(m) ~> (status[m] # "queued" \/ daemon # "up")

\* A row found by a restart is served if the process then stays up.
RestartServes ==
  \A m \in Messages :
    <>[](daemon = "up") =>
      ((daemon = "down" /\ status[m] = "queued") ~> status[m] # "queued")

-----------------------------------------------------------------------------
(* The scheduler implements the promise of ChatInbox: a chat's turn is the  *)
(* job of the worker that is executing for it.                             *)

Turn(c) ==
  IF \E w \in Workers : phase[w] = "running" /\ chat[w] = c
  THEN job[CHOOSE w \in Workers : phase[w] = "running" /\ chat[w] = c]
  ELSE NoMessage

Inbox == INSTANCE ChatInbox WITH
           turn <- [c \in Chats |-> Turn(c)], live <- daemon # "down",
           arriving <- {m \in Messages : callback[m] = "stamped"}

\* One row at a time per chat, prompts in order, nothing begun twice: hiding
\* tokens, locks and threads, the code behaves as ChatInbox.
ImplementsInbox == Inbox!Spec

-----------------------------------------------------------------------------
(* What a comment of the code says and the code does not keep.             *)

\* A row the gateway is done with has a scheduled chat: the release of a chat
\* finds "telemetry drift, not work" (daemon.py:283).
NoStrandedRow ==
  \A m \in Messages :
    status[m] = "queued" /\ callback[m] = "none" /\ daemon = "up" /\ faults = 0
      => ChatOf[m] \in scheduled
=============================================================================
