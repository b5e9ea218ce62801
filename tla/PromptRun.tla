------------------------------ MODULE PromptRun ------------------------------
(***************************************************************************)
(* What a worker does with a claimed row (FeishuDaemon.process_one): an    *)
(* attachment message becomes cached files and a feishu_pending_attachments*)
(* row; a prompt claims the attachments that came before it, runs a Code   *)
(* turn with them behind a progress card, delivers the answer and gives    *)
(* the attachments up.  Any SQLite, Feishu or file call can fail, the      *)
(* process can end between any two steps, and the next start repairs what  *)
(* it left (recover_on_startup, prune_history, the cache clean-up).        *)
(*                                                                         *)
(* One chat: the per-chat lock and the scheduler (ChatScheduler) let one   *)
(* worker at a time into it, and chats share nothing here.  The Codex turn *)
(* is external: CodexTurns and ThreadWriter say how it ends.               *)
(***************************************************************************)
EXTENDS ReplyLedger, ProgressCard, FiniteSets

CONSTANTS
  Attachments,  \* messages that carry a file
  Prompts,      \* messages that are a task
  NoMessage,
  Ends,         \* bound: the statuses the turn of a prompt ends with
  Mails,        \* bound: the sets of messages that arrive in one behaviour
  MaxCrashes

Messages == Attachments \cup Prompts

Key(m, phase) == <<m, phase>>
Phases == {"final", "artifact", "warning", "error", "progress", "status"}

ASSUME PromptAssumption ==
  /\ Attachments \cap Prompts = {} /\ NoMessage \notin Messages /\ IsFiniteSet(Messages)
  /\ Keys = {Key(m, p) : m \in Messages, p \in Phases}
  /\ Turns \subseteq Prompts /\ Mails \subseteq SUBSET Messages
  /\ Ends \in [Prompts -> SUBSET {"completed", "timeout", "interrupted"}]
  /\ MaxCrashes \in Nat

VARIABLES
  mail,     \* the messages that arrive
  row,      \* feishu_inbox.status; "absent" and "pruned" when there is no row
  arrived,  \* received_at as an arrival number
  staged,   \* created_at of a pending attachment: the last arrival before it
  held,     \* attachments with a feishu_pending_attachments row
  claim,    \* claimed_by_message_id
  file,     \* attachments whose cached file exists
  bound,    \* the chat's session: FALSE is pending_initial
  job,      \* the row the worker holds
  at,       \* where it stands
  batch,    \* its local list of claimed attachments
  turn,     \* how the turn of its prompt ended, "none" before
  got,      \* response_ids is not empty
  erred,    \* errors is not empty; an exception leaves handle_prompt
  used,     \* history: the prompts whose turn was given an attachment
  ended,    \* history: how the turns whose card is followed ended
  up,       \* "down", "starting", "pruned" or "up"
  crashes

clocks == <<arrived, staged>>
rows   == <<row, clocks>>
pool   == <<held, claim, file>>
tally  == <<got, erred>>
work   == <<job, at, batch, turn, tally>>
life   == <<up, crashes>>
past   == <<used, ended>>
vars   == <<mail, replyVars, cardVars, rows, pool, bound, work, past, life>>

RowStates == {"absent", "queued", "running", "completed", "failed",
              "interrupted_on_restart", "pruned"}
Outcomes  == {"none", "raised", "completed", "timeout", "interrupted"}

TypeOK ==
  /\ ReplyTypeOK /\ CardTypeOK
  /\ mail \in Mails
  /\ row \in [Messages -> RowStates]
  /\ arrived \in [Messages -> Nat] /\ staged \in [Attachments -> Nat]
  /\ held \subseteq Attachments /\ file \subseteq Attachments
  /\ claim \in [Attachments -> Prompts \cup {NoMessage}]
  /\ bound \in BOOLEAN
  /\ job \in Messages \cup {NoMessage}
  /\ batch \subseteq Attachments
  /\ turn \in Outcomes
  /\ got \in BOOLEAN /\ erred \in BOOLEAN
  /\ used \in [Attachments -> SUBSET Prompts]
  /\ ended \in [Turns -> Outcomes]
  /\ up \in {"down", "starting", "pruned", "up"}
  /\ crashes \in 0..MaxCrashes

Init ==
  /\ ReplyInit /\ CardInit
  /\ mail \in Mails
  /\ row = [m \in Messages |-> "absent"]
  /\ arrived = [m \in Messages |-> 0] /\ staged = [a \in Attachments |-> 0]
  /\ held = {} /\ file = {}
  /\ claim = [a \in Attachments |-> NoMessage]
  /\ bound = FALSE
  /\ job = NoMessage /\ at = "idle" /\ batch = {}
  /\ turn = "none"
  /\ got = FALSE /\ erred = FALSE
  /\ used = [a \in Attachments |-> {}]
  /\ ended = [t \in Turns |-> "none"]
  /\ up = "up" /\ crashes = 0

Mark(m, s) == row' = [row EXCEPT ![m] = s]
Goto(s)    == at' = s
Is(s)      == up = "up" /\ at = s

\* What a step of the worker leaves alone when it is not about the replies, the
\* card or the attachments.
NoReply == UNCHANGED <<ledger, posted, sending>>
NoCard  == UNCHANGED cardVars
Here    == UNCHANGED <<clocks, job, life>>

-----------------------------------------------------------------------------
(* process_one: from the queue to _dispatch                                *)

\* The clock, as the number of messages received so far.
Now == Cardinality({n \in Messages : row[n] # "absent"})

\* A gateway callback inserts a row.
Receive(m) ==
  /\ up = "up" /\ m \in mail /\ row[m] = "absent"
  /\ Mark(m, "queued")
  /\ arrived' = [arrived EXCEPT ![m] = Now + 1]
  /\ UNCHANGED <<staged, replyVars, cardVars, pool, bound, work, past, life>>

\* claim_next of the oldest queued row.
Claim(m) ==
  /\ Is("idle")
  /\ row[m] = "queued"
  /\ \A n \in Messages : row[n] = "queued" => arrived[m] <= arrived[n]
  /\ Mark(m, "running")
  /\ job' = m
  /\ Goto(IF m \in Attachments THEN "download" ELSE "session")
  /\ batch' = {} /\ got' = FALSE /\ erred' = FALSE
  /\ UNCHANGED <<replyVars, cardVars, clocks, pool, bound, turn, past, life>>

-----------------------------------------------------------------------------
(* _handle_attachment_message                                              *)

\* The limit on pending attachments, then the downloads; when one fails, those
\* before it are removed.  created_at is read when they are over.
Download ==
  /\ Is("download")
  /\ \/ file' = file \cup {job} /\ staged' = [staged EXCEPT ![job] = Now]
        /\ Goto("add") /\ NoFault
     \/ Fault /\ Goto("mark_failed") /\ UNCHANGED <<file, staged>>
  /\ NoReply /\ UNCHANGED <<arrived, job, life>>
  /\ UNCHANGED <<cardVars, row, held, claim, bound, batch, turn, tally, past>>

\* add_pending_attachments: all the rows of the message in one transaction.
AddAttachment ==
  /\ Is("add")
  /\ \/ held' = held \cup {job} /\ Goto("final") /\ NoFault /\ UNCHANGED file
     \/ Fault /\ file' = file \ {job} /\ Goto("mark_failed") /\ UNCHANGED held
  /\ NoReply /\ Here
  /\ UNCHANGED <<cardVars, row, claim, bound, batch, turn, tally, past>>

-----------------------------------------------------------------------------
(* CodeSurfaceRuntime.handle_prompt, before the turn                       *)

\* The session, its binding, its workspace.  Without a session the user is told so,
\* and that is the end of it.
CheckSession ==
  /\ Is("session")
  /\ \/ Goto("claim") /\ NoFault
     \/ Goto("status") /\ NoFault
     \/ Fault /\ Goto("mark_failed")
  /\ NoReply /\ Here
  /\ UNCHANGED <<cardVars, row, pool, bound, batch, turn, tally, past>>

\* claim_pending_attachments: what nobody claimed and came before the prompt;
\* an attachment whose source row was pruned is never claimed.
Claimable(p) ==
  {a \in held : claim[a] = NoMessage /\ row[a] # "pruned" /\ arrived[a] <= arrived[p]}

ClaimAttachments ==
  /\ Is("claim")
  /\ \/ /\ batch' = Claimable(job) \cup {a \in held : claim[a] = job}
        /\ claim' = [a \in Attachments |-> IF a \in Claimable(job) THEN job ELSE claim[a]]
        /\ Goto("prepare") /\ NoFault
     \/ Fault /\ Goto("mark_failed") /\ UNCHANGED <<batch, claim>>
  /\ NoReply /\ Here
  /\ UNCHANGED <<cardVars, row, held, file, bound, turn, tally, past>>

\* prepare_attachments: every file must exist; copies into the workspace.  The card
\* decides nothing about its prompt: it is left out where it is not followed.
Prepare ==
  /\ Is("prepare")
  /\ \/ batch \subseteq file /\ Goto(IF job \in Turns THEN "progress" ELSE "turn") /\ NoFault
     \/ ~(batch \subseteq file) /\ Goto("mark_failed") /\ NoFault
     \/ Fault /\ Goto("mark_failed")
  /\ NoReply /\ Here
  /\ UNCHANGED <<cardVars, row, pool, bound, batch, turn, tally, past>>

ShowCard ==
  /\ Is("progress") /\ job \in Turns /\ sending[Key(job, "progress")] \in Returned
  /\ StartCard(job, sending[Key(job, "progress")] = "ok")
  /\ At(Key(job, "progress"), "none")
  /\ Goto("turn")
  /\ Here
  /\ UNCHANGED <<ledger, posted, faults, row, pool, bound, batch, turn, tally, past>>

-----------------------------------------------------------------------------
(* The turn                                                                *)

\* The adapter starts the turn with the batch as input, or raises before that:
\* finalize_turn_result when the error carries a result, then finish.
TurnIs(status) ==
  /\ turn' = status
  /\ erred' = (status = "raised")
  /\ ended' = [t \in Turns |-> IF t = job THEN status ELSE ended[t]]

StartTurn ==
  /\ Is("turn")
  /\ \/ /\ used' = [a \in Attachments |-> IF a \in batch THEN used[a] \cup {job} ELSE used[a]]
        /\ Goto("running") /\ UNCHANGED <<turn, tally, ended>>
     \/ /\ TurnIs("raised")
        /\ Goto("finalize") \/ Goto("finish")
        /\ UNCHANGED <<got, used>>
  /\ Here
  /\ UNCHANGED <<replyVars, cardVars, row, pool, bound, batch>>

\* A native event reaches the card.
Progress ==
  /\ Is("running") /\ job \in Turns
  /\ OnProgress(job, "running")
  /\ UNCHANGED <<replyVars, rows, pool, bound, work, past, life>>

EndTurn ==
  /\ Is("running")
  /\ \E status \in Ends[job] \cup {"raised"} :
       /\ TurnIs(status)
       /\ Goto("finalize") \/ (status = "raised" /\ Goto("finish"))
  /\ Here
  /\ UNCHANGED <<replyVars, cardVars, row, pool, bound, batch, got, used>>

\* finalize_turn_result writes approval rows; an exception of its own leaves
\* handle_prompt without finish.
Finalize ==
  /\ Is("finalize")
  /\ \/ /\ Goto(IF erred THEN "finish"
                ELSE IF turn = "completed" /\ ~bound THEN "bind" ELSE "deliver")
        /\ NoFault
     \/ Fault /\ Goto("mark_failed")
  /\ NoReply /\ Here
  /\ UNCHANGED <<cardVars, row, pool, bound, batch, turn, tally, past>>

\* bind_session, after the first turn of a session has completed; it raises
\* without finish as well.
Bind ==
  /\ Is("bind")
  /\ \/ bound' = TRUE /\ Goto("deliver") /\ NoFault
     \/ Fault /\ Goto("mark_failed") /\ UNCHANGED bound
  /\ NoReply /\ Here
  /\ UNCHANGED <<cardVars, row, pool, batch, turn, tally, past>>

-----------------------------------------------------------------------------
(* deliver_final                                                           *)

\* A turn that did not complete always has a text; one that completed has a
\* text, an artifact, both or neither.
Collect ==
  /\ Is("deliver")
  /\ \/ Goto("final")
     \/ turn = "completed" /\ Goto("artifact")
     \/ turn = "completed" /\ Goto("sum")
  /\ Here
  /\ UNCHANGED <<replyVars, cardVars, row, pool, bound, batch, turn, tally, past>>

\* The reply that a step of the worker sends, and the step's outcome.
PhaseOf == [step \in {"status", "progress", "final", "artifact", "placeholder", "warning", "error"} |->
              IF step = "placeholder" THEN "final" ELSE step]

Send ==
  /\ up = "up" /\ at \in DOMAIN PhaseOf
  /\ SendStep(Key(job, PhaseOf[at]))
  /\ UNCHANGED <<cardVars, rows, pool, bound, work, past, life>>

\* Where the worker goes when the reply of its step returns.
Continue(result) ==
  CASE at = "status" \/ (at = "final" /\ job \in Attachments) ->
         Goto(IF result = "error" THEN "mark_failed" ELSE "mark_completed")
    [] at = "final" /\ job \in Prompts -> Goto("artifact") \/ Goto("sum")
    [] at = "artifact"    -> Goto("sum")
    [] at = "placeholder" -> Goto(IF result = "error" THEN "finish" ELSE "clear")
    [] at = "warning"     -> Goto("clear")
    [] at = "error"       -> Goto("settle")

Return ==
  /\ up = "up" /\ at \in DOMAIN PhaseOf \ {"progress"}
  /\ LET k == Key(job, PhaseOf[at])
     IN  /\ sending[k] \in Returned
         /\ got' = (got \/ sending[k] = "ok")
         /\ erred' = (erred \/ sending[k] = "error")
         /\ At(k, "none")
         /\ Continue(sending[k])
  /\ Here
  /\ UNCHANGED <<ledger, posted, faults, cardVars, row, pool, bound, batch, turn, past>>

\* Nothing to say: a placeholder.  Errors and no reply at all: the first error
\* is raised.  Errors beside replies: a warning, whose own failure is ignored.
AfterReplies_Swallow == IF erred THEN "clear" ELSE "placeholder"   \* mutant
AfterReplies ==
  CASE got /\ ~erred  -> "clear"
    [] got /\ erred   -> "warning"
    [] ~got /\ erred  -> "finish"
    [] ~got /\ ~erred -> "placeholder"

Sum ==
  /\ Is("sum")
  /\ Goto(AfterReplies)
  /\ Here
  /\ UNCHANGED <<replyVars, cardVars, row, pool, bound, batch, turn, tally, past>>

-----------------------------------------------------------------------------
(* The end of the turn: attachments, card, row                             *)

\* clear_pending_attachments deletes by attachment id; with no id it would
\* delete everything the chat has, so nobody calls it without one.
Cleared_Whole(batched) == IF batched = {} THEN held ELSE batched   \* mutant
Cleared(batched) == batched

\* clear_attachments: the rows first; when that fails, the files stay as well.
Clear ==
  /\ Is("clear")
  /\ erred' = FALSE /\ got' = FALSE
  /\ \/ held' = held \ Cleared(batch) /\ Goto("unlink") /\ NoFault
     \/ batch # {} /\ Fault /\ Goto("finish") /\ UNCHANGED held
  /\ NoReply /\ Here
  /\ UNCHANGED <<cardVars, row, claim, file, bound, batch, turn, past>>

Unlink ==
  /\ Is("unlink")
  /\ \/ file' = file \ batch /\ NoFault
     \/ batch # {} /\ Fault /\ UNCHANGED file
  /\ Goto("finish")
  /\ NoReply /\ Here
  /\ UNCHANGED <<cardVars, row, held, claim, bound, batch, turn, tally, past>>

\* progress.finish, in the finally clause.
Finish ==
  /\ \/ /\ Is("finish") /\ Goto("terminate")
        /\ IF job \in Turns THEN FinishState(job, turn) ELSE NoCard
     \/ /\ Is("terminate") /\ Goto(IF erred THEN "mark_failed" ELSE "mark_completed")
        /\ IF job \in Turns THEN FinishTerminal(job) ELSE NoCard
  /\ Here
  /\ UNCHANGED <<replyVars, row, pool, bound, batch, turn, tally, past>>

\* process_one: the outcome, then the error reply, then the claims.
MarkCompleted ==
  /\ Is("mark_completed")
  /\ \/ Mark(job, "completed") /\ Goto("settle") /\ NoFault
     \/ Fault /\ Goto("mark_failed") /\ UNCHANGED row
  /\ NoReply /\ Here
  /\ UNCHANGED <<cardVars, pool, bound, batch, turn, tally, past>>

MarkRowFailed ==
  /\ Is("mark_failed")
  /\ \/ Mark(job, "failed") /\ Goto("error") /\ NoFault
     \/ Fault /\ Goto("settle") /\ UNCHANGED row
  /\ NoReply /\ Here
  /\ UNCHANGED <<cardVars, pool, bound, batch, turn, tally, past>>

\* list_claimed_attachments
ListClaimed ==
  /\ Is("settle")
  /\ \/ batch' = {a \in held : claim[a] = job} /\ Goto("return") /\ NoFault
     \/ Fault /\ batch' = {} /\ Goto("return")
  /\ NoReply /\ Here
  /\ UNCHANGED <<cardVars, row, pool, bound, turn, tally, past>>

\* The locals of process_one are gone.
Drop == job' = NoMessage /\ batch' = {} /\ turn' = "none" /\ got' = FALSE /\ erred' = FALSE

\* A completed row gives its attachments up, any other gives them back.
Consumed_Never(m) == FALSE   \* mutant: the batch goes back to the pool
Consumed(m) == row[m] = "completed"

Settle ==
  /\ Is("return")
  /\ \/ /\ batch # {} /\ Consumed(job)
        /\ held' = held \ batch
        /\ file' = file \ batch \/ UNCHANGED file
        /\ NoFault /\ UNCHANGED claim
     \/ /\ batch # {} /\ ~Consumed(job)
        /\ claim' = [a \in Attachments |-> IF a \in batch THEN NoMessage ELSE claim[a]]
        /\ NoFault /\ UNCHANGED <<held, file>>
     \/ batch # {} /\ Fault /\ UNCHANGED pool
     \/ batch = {} /\ NoFault /\ UNCHANGED pool
  /\ Goto("idle") /\ Drop
  /\ NoReply
  /\ UNCHANGED <<cardVars, rows, bound, past, life>>

-----------------------------------------------------------------------------
(* The end of the process and the next start                               *)

Crash ==
  /\ up # "down" /\ crashes < MaxCrashes
  /\ crashes' = crashes + 1 /\ up' = "down"
  /\ Goto("idle") /\ Drop
  /\ ForgetSends
  /\ ForgetCards
  /\ UNCHANGED <<ledger, posted, faults, rows, pool, bound, past>>

\* recover_on_startup, one transaction.
Unclaimed ==
  [a \in Attachments |->
     IF claim[a] # NoMessage /\ row'[claim[a]] = "interrupted_on_restart"
     THEN NoMessage ELSE claim[a]]

Recover ==
  /\ up = "down" /\ up' = "starting"
  /\ row' = [m \in Messages |-> IF row[m] = "running" THEN "interrupted_on_restart" ELSE row[m]]
  /\ claim' = Unclaimed
  /\ FailPending
  /\ UNCHANGED <<posted, sending, faults, cardVars, clocks, held, file, bound,
                 work, past, crashes>>

\* prune_history: an attachment whose claimer is over, or an old one that no
\* message waits for that came after it was staged; terminal rows that are old, and
\* the replies that lose their message (a reply that goes earlier, by its own
\* age, is never asked for again).  When it raises, start goes on without any
\* cleaning.
Waiting(a) == \E m \in Messages : row[m] \in {"queued", "running"} /\ arrived[m] > staged[a]

Abandoned(a) == claim[a] # NoMessage /\ row[claim[a]] \notin {"queued", "running"}
Aged(a)      == claim[a] = NoMessage /\ ~Waiting(a)

Prune ==
  /\ up = "starting"
  /\ \/ /\ \E old \in SUBSET {a \in held : Aged(a)} :
             held' = held \ (old \cup {a \in held : Abandoned(a)})
        /\ \E old \in SUBSET {m \in Messages : row[m] \in {"completed", "failed",
                                                "interrupted_on_restart"}} :
             row' = [m \in Messages |-> IF m \in old THEN "pruned" ELSE row[m]]
        /\ ledger' = [k \in Keys |-> IF row'[k[1]] = "pruned" /\ ledger[k] # "pending"
                                     THEN "none" ELSE ledger[k]]
        /\ up' = "pruned" /\ NoFault
     \/ Fault /\ up' = "up" /\ UNCHANGED <<held, row, ledger>>
  /\ UNCHANGED <<posted, sending, cardVars, clocks, claim, file, bound, work, past, crashes>>

\* _cleanup_stale_attachment_paths and _cleanup_orphan_attachment_cache: a
\* cached file without a row is deleted, if the file system lets it.
Swept_Claimed == {a \in held : claim[a] # NoMessage}   \* mutant
Swept         == held

CleanCache ==
  /\ up = "pruned" /\ up' = "up"
  /\ file' = file \cap Swept \/ UNCHANGED file
  /\ UNCHANGED <<replyVars, cardVars, rows, held, claim, bound, work, past, crashes>>

-----------------------------------------------------------------------------
Worker ==
  \/ \E m \in Messages : Claim(m)
  \/ Download \/ AddAttachment
  \/ CheckSession \/ ClaimAttachments \/ Prepare \/ ShowCard
  \/ StartTurn \/ EndTurn \/ Finalize \/ Bind
  \/ Collect \/ Send \/ Return \/ Sum
  \/ Clear \/ Unlink \/ Finish
  \/ MarkCompleted \/ MarkRowFailed \/ ListClaimed \/ Settle

CardThread(p) ==
  up = "up" /\ CardStep(p)
  /\ UNCHANGED <<replyVars, rows, pool, bound, work, past, life>>

Startup == Recover \/ Prune \/ CleanCache

Next ==
  /\ \/ \E m \in Messages : Receive(m)
     \/ Worker \/ Progress
     \/ \E p \in Turns : CardThread(p)
     \/ Crash \/ Startup
  /\ UNCHANGED mail

Spec == Init /\ [][Next]_vars

\* The worker and the card threads run while the process does; a turn ends
\* because it has a timeout of its own.
FairSpec ==
  /\ Spec
  /\ WF_vars(Worker /\ UNCHANGED mail)
  /\ \A p \in Turns : WF_vars(CardThread(p) /\ UNCHANGED mail)

-----------------------------------------------------------------------------
(* Properties                                                              *)

\* The next prompt is never handed a path that does not exist: rows are removed
\* before the files they name, and added after them, whatever fails in between.
RowHasFile == held \subseteq file

\* An attachment whose task completed is never part of another task, even when
\* deleting its row failed or the process ended before it.
ConsumedOnce ==
  [][\A a \in Attachments, p \in Prompts :
       (used[a] # used'[a] /\ p \in used[a]) => row[p] # "completed"]_vars

\* What the user sent stays until a task took it: neither the clearing of another
\* batch nor a start with its retention removes an attachment while a later prompt
\* that could claim it waits in the queue.  The retention compares with the time the
\* file was staged, so it protects only what came after the download.
KeptForItsPrompt ==
  [][\A a \in held \ held', p \in Prompts :
       (used[a] = {} /\ claim[a] = NoMessage)
         => ~(/\ row[p] = "queued"
              /\ arrived[p] > IF up = "starting" THEN staged[a] ELSE arrived[a])]_vars

\* A row is closed as completed only after the user was shown something: an answer,
\* an artifact, the placeholder, or that the chat has no session; not a mere warning.
Shown(m, phase) == posted[Key(m, phase)] # {}
CompletedWasAnswered ==
  \A m \in Messages : row[m] = "completed" =>
    Shown(m, "final") \/ Shown(m, "artifact") \/ Shown(m, "status")

\* A reply is shown at most once however often its call is repeated, within a try, by
\* a later try or after a restart; and one recorded as sent was shown: the API took
\* it for no other reply.
SentOnce ==
  \A k \in Keys : Cardinality(posted[k]) <= 1 /\ (ledger[k] = "sent" => posted[k] # {})

\* A card thread that ends by itself leaves the outcome of the turn on the card.
LastCardIsOutcome ==
  \A p \in Turns : card[p] = "over" => shown[p] = CardState(ended[p])

\* A finished card stops being refreshed.
FinishedCardCloses ==
  \A p \in Turns : terminal[p] ~> card[p] \notin {"polling", "updating"} \/ up # "up"
=============================================================================
