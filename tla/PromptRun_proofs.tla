-------------------------- MODULE PromptRun_proofs --------------------------
(***************************************************************************)
(* What a prompt leaves behind: files for its rows, an answer for a row    *)
(* that is completed, the outcome on its card, and no attachment that a    *)
(* later task misses or gets twice.  For all messages, faults and crashes. *)
(***************************************************************************)
EXTENDS PromptRun, FiniteSetTheorems, TLAPS

USE DEF clocks

\* The reply keys an answer goes out under (code_runtime.py, handle_prompt and
\* deliver_final).
F(m) == Key(m, "final")
P(m) == Key(m, "artifact")
S(m) == Key(m, "status")

Unused(k)   == ledger[k] = "none" /\ sending[k] = "none"
Untried(k)  == sending[k] # "nothing" /\ (sending[k] = "none" => ledger[k] = "none")
Answered(m) == posted[F(m)] # {} \/ posted[P(m)] # {} \/ posted[S(m)] # {}

New(m) == row[m] \in {"absent", "queued"}

PromptSteps == {"session", "status", "claim", "prepare", "progress", "turn", "running", "finalize",
                "bind", "deliver", "artifact", "sum", "placeholder", "warning", "clear", "unlink",
                "finish", "terminate"}
BeforeTurn  == {"session", "claim", "prepare", "progress", "turn"}
BeforeFinal == BeforeTurn \cup {"status", "download", "add", "running", "finalize", "bind", "deliver"}
AfterTurn   == {"finalize", "bind", "deliver", "final", "artifact", "sum", "placeholder", "warning",
                "clear", "unlink", "finish"}

\* The worker works while the process is up, on a row it has taken.
JobInv ==
  /\ at # "idle" => up = "up" /\ job \in Messages /\ ~New(job)
  /\ at \in {"download", "add"} => job \in Attachments
  /\ at \in PromptSteps => job \in Prompts

\* The batch is what the prompt claimed, or claimed and gave up since.
BatchInv ==
  /\ at # "idle" => \A a \in batch : claim[a] = job
  /\ at \in {"prepare", "progress", "turn"} => batch \subseteq held

\* An attachment's file is there before its row, and gone after it.
FileInv ==
  /\ RowHasFile
  /\ \A a \in held : ~New(a)
  /\ at \in {"download", "add"} => job \notin held
  /\ at = "add" => job \in file
  /\ at = "unlink" => batch \cap held = {}

\* Who was answered by the API has a message on the screen.
ReplyShown(k) ==
  /\ posted[k] \subseteq {k}
  /\ ledger[k] = "sent" \/ sending[k] \in {"answered", "ok"} => k \in posted[k]
ReplyInv == \A k \in Keys : ReplyShown(k)

\* got and erred tell what became of the answer, and a worker on its way to
\* completing the row has an answer behind it.
AnswerInv ==
  /\ \A m \in Messages : New(m) => Unused(F(m)) /\ Unused(S(m))
  /\ \A m \in Messages : row[m] = "completed" => Answered(m)
  /\ at \in BeforeFinal => Unused(F(job))
  /\ at = "session" => Unused(S(job))
  /\ at = "status" => Untried(S(job))
  /\ at \in {"final", "placeholder"} => Untried(F(job))
  /\ at \in {"artifact", "sum"} =>
       sending[F(job)] = "none" /\ (got \/ erred \/ ledger[F(job)] = "none")
  /\ at \in {"clear", "unlink", "warning", "mark_completed"} => Answered(job)
  /\ at \in {"finish", "terminate"} => erred \/ Answered(job)
  /\ at \notin {"idle", "error", "settle", "return"} /\ got => Answered(job)

\* A card that is not closed yet, and what a card that closes shows.
Unclosed(t) == ~terminal[t] /\ card[t] # "over" /\ ~drawn[t].terminal
CardOf(t) ==
  /\ New(t) => Unclosed(t)
  /\ t = job /\ at \in PromptSteps \cup {"final"} => Unclosed(t)
  /\ t = job /\ at \in AfterTurn => turn = ended[t]
  /\ t = job /\ at = "terminate" /\ card[t] # "disabled" => state[t] = CardState(ended[t])
  /\ terminal[t] /\ card[t] # "disabled" => state[t] = CardState(ended[t])
  /\ card[t] = "updating" /\ drawn[t].terminal => drawn[t].state = CardState(ended[t])
  /\ card[t] = "over" => shown[t] = CardState(ended[t])
CardInv == \A t \in Turns : CardOf(t)

\* Who used an attachment keeps its claim until the attachment is gone or the
\* task turns out not to be completed.
UsedOf(a) ==
  /\ \A p \in used[a] : row[p] = "completed" => a \notin held \/ claim[a] = p
  /\ \A p \in used[a] : ~New(p)
  /\ at # "idle" /\ job \in used[a] => a \notin held \/ claim[a] = job
  /\ at \in BeforeTurn => job \notin used[a]
  /\ New(a) \/ (at \in {"download", "add"} /\ a = job) => used[a] = {}
UsedInv == \A a \in Attachments : UsedOf(a)

PromptInv ==
  /\ TypeOK /\ JobInv /\ BatchInv /\ FileInv /\ ReplyInv /\ AnswerInv /\ CardInv /\ UsedInv

-----------------------------------------------------------------------------
(* Keys, steps and types *)

\* A reply key names its message and its phase.
LEMMA KeyIs ==
  /\ \A m \in Messages, ph \in Phases : Key(m, ph) \in Keys /\ Key(m, ph)[1] = m
  /\ \A m, n \in Messages, ph, q \in Phases : Key(m, ph) = Key(n, q) => m = n /\ ph = q
  /\ \A m \in Messages : F(m) \in Keys /\ P(m) \in Keys /\ S(m) \in Keys
  /\ \A m, n \in Messages, ph \in Phases :
       /\ F(m) = Key(n, ph) => m = n /\ ph = "final"
       /\ P(m) = Key(n, ph) => m = n /\ ph = "artifact"
       /\ S(m) = Key(n, ph) => m = n /\ ph = "status"
  /\ \A k \in Keys : \E m \in Messages, ph \in Phases : k = Key(m, ph)
  BY PromptAssumption DEF Key, Phases, F, P, S

\* The steps that send a reply, and its phase.
LEMMA PhaseIs ==
  /\ DOMAIN PhaseOf = {"status", "progress", "final", "artifact", "placeholder", "warning",
                         "error"}
  /\ PhaseOf["placeholder"] = "final"
  /\ \A s \in {"status", "progress", "final", "artifact", "warning", "error"} : PhaseOf[s] = s
  /\ \A s \in DOMAIN PhaseOf : PhaseOf[s] \in Phases
  BY DEF PhaseOf, Phases

\* A message is an attachment or a prompt; the turns are prompts.
LEMMA MessageIs ==
  /\ Attachments \subseteq Messages /\ Prompts \subseteq Messages /\ Turns \subseteq Prompts
  /\ \A m \in Messages : m \in Attachments \/ m \in Prompts
  /\ \A m \in Attachments : m \notin Prompts
  /\ NoMessage \notin Messages
  BY PromptAssumption DEF Messages

\* The state of a card whose turn is over (FeishuTurnProgress.finish).
LEMMA CardStateType == \A s : CardState(s) \in CardStates
  BY DEF CardState, CardStates

\* Arrival numbers are numbers.
LEMMA ArrivalType ==
  Now \in Nat
<1>1. IsFiniteSet({n \in Messages : row[n] # "absent"})
  BY PromptAssumption, FS_Subset
<1> QED
  BY <1>1, FS_CardinalityType DEF Now

\* The bound on failing calls.
LEMMA FaultType ==
  ASSUME ReplyTypeOK, Fault \/ NoFault
  PROVE  faults' \in 0..MaxFaults
  BY LedgerAssumption DEF ReplyTypeOK, Fault, NoFault

\* A step that leaves the replies alone, and completes no row.
LEMMA AnswersStay ==
  ASSUME PromptInv, UNCHANGED <<ledger, posted, sending>>,
         \A m \in Messages : /\ New(m)' => New(m)
                             /\ row'[m] = "completed" => row[m] = "completed"
  PROVE  /\ (\A m \in Messages : New(m) => Unused(F(m)) /\ Unused(S(m)))'
         /\ (\A m \in Messages : row[m] = "completed" => Answered(m))'
         /\ \A m \in Messages : Answered(m)' = Answered(m)
         /\ (UNCHANGED <<at, job, got, erred>> => AnswerInv')
<1>1. (\A m \in Messages : New(m) => Unused(F(m)) /\ Unused(S(m)))'
  BY DEF PromptInv, AnswerInv, Unused
<1>2. \A m \in Messages : Answered(m)' = Answered(m)
  BY DEF Answered
<1>3. (\A m \in Messages : row[m] = "completed" => Answered(m))'
  BY <1>2 DEF PromptInv, AnswerInv
<1>4. ASSUME UNCHANGED <<at, job, got, erred>>  PROVE AnswerInv'
  <2>1. /\ Answered(job)' = Answered(job)
        /\ Unused(F(job))' = Unused(F(job)) /\ Unused(S(job))' = Unused(S(job))
        /\ Untried(F(job))' = Untried(F(job)) /\ Untried(S(job))' = Untried(S(job))
    BY <1>4 DEF Answered, Unused, Untried
  <2> QED
    BY <1>1, <1>3, <1>4, <2>1 DEF PromptInv, AnswerInv
<1> QED
  BY <1>1, <1>2, <1>3, <1>4

\* A step of a call of FeishuReplyClient is about its key alone, never takes back
\* what was shown, and does not end with nothing when the key was not used.
LEMMA CallKeeps ==
  ASSUME ReplyTypeOK, NEW k \in Keys, SendStep(k), ReplyInv
  PROVE  /\ ReplyTypeOK' /\ ReplyShown(k)'
         /\ \A j \in Keys \ {k} : /\ ledger'[j] = ledger[j] /\ posted'[j] = posted[j]
                                 /\ sending'[j] = sending[j]
         /\ posted[k] # {} => posted'[k] # {}
         /\ Untried(k) => Untried(k)'
<1>1. CASE Reserve(k)
  BY <1>1, FaultType DEF ReplyInv, Reserve, ReplyTypeOK, ReplyShown, Untried, Row, At, SendSteps
<1>2. CASE Deliver(k)
  <2>1. Post(k) => /\ posted' \in [Keys -> SUBSET Keys]
                   /\ posted'[k] = {k} /\ \A j \in Keys \ {k} : posted'[j] = posted[j]
    <3>1. \A j \in Keys : posted[j] \subseteq {j}
      BY DEF ReplyInv, ReplyShown
    <3>2. (\E j \in Keys : k \in posted[j]) <=> k \in posted[k]
      BY <3>1
    <3> QED
      BY <3>1, <3>2 DEF Post, Uuid, ReplyTypeOK
  <2>2. /\ posted' \in [Keys -> SUBSET Keys]
        /\ posted'[k] = {k} \/ posted'[k] = posted[k]
        /\ \A j \in Keys \ {k} : posted'[j] = posted[j]
    BY <1>2, <2>1 DEF Deliver, ReplyTypeOK
  <2>3. sending'[k] = "answered" => posted'[k] = {k}
    BY <1>2, <2>1 DEF Deliver, At, ReplyTypeOK
  <2>4. /\ UNCHANGED ledger
        /\ sending' \in [Keys -> SendSteps]
        /\ sending'[k] \in {"second", "answered", "refused"}
        /\ sending[k] \in {"first", "second"}
        /\ \A j \in Keys \ {k} : sending'[j] = sending[j]
    BY <1>2 DEF Deliver, At, ReplyTypeOK, SendSteps
  <2>5. faults' \in 0..MaxFaults
    BY <1>2, FaultType DEF Deliver
  <2> QED
    BY <2>2, <2>3, <2>4, <2>5 DEF ReplyTypeOK, ReplyInv, ReplyShown, Untried
<1>3. CASE Record(k)
  BY <1>3, FaultType DEF ReplyInv, Record, ReplyTypeOK, ReplyShown, Untried, Row, At, SendSteps
<1>4. CASE Refuse(k)
  BY <1>4, FaultType DEF ReplyInv, Refuse, MarkFailed, ReplyTypeOK, ReplyShown, Untried, Row, At, SendSteps
<1> QED
  BY <1>1, <1>2, <1>3, <1>4 DEF SendStep

\* A step of a reply is about the key of the worker's message and step.
LEMMA SendIs ==
  ASSUME PromptInv, Send
  PROVE  /\ at \in {"status", "progress", "final", "artifact", "placeholder", "warning", "error"}
         /\ job \in Messages /\ ~New(job)
         /\ \E ph \in Phases :
              /\ ph = (IF at = "placeholder" THEN "final" ELSE at)
              /\ SendStep(Key(job, ph))
         /\ UNCHANGED <<cardVars, rows, pool, bound, work, past, life>>
  BY PhaseIs DEF Send, PromptInv, JobInv

\* Where the worker goes on when a reply returns.
LEMMA ReturnIs ==
  ASSUME PromptInv, Return
  PROVE  /\ job \in Messages /\ ~New(job) /\ up = "up"
         /\ \E ph \in Phases : LET r == sending[Key(job, ph)] IN
              /\ ph = (IF at = "placeholder" THEN "final" ELSE at)
              /\ r \in Returned
              /\ got' = (got \/ r = "ok") /\ erred' = (erred \/ r = "error")
              /\ sending' = [sending EXCEPT ![Key(job, ph)] = "none"]
              /\ \/ /\ at = "status" \/ (at = "final" /\ job \in Attachments)
                    /\ at' = IF r = "error" THEN "mark_failed" ELSE "mark_completed"
                 \/ at = "final" /\ job \in Prompts /\ at' \in {"artifact", "sum"}
                 \/ at = "artifact" /\ at' = "sum"
                 \/ at = "placeholder" /\ at' = IF r = "error" THEN "finish" ELSE "clear"
                 \/ at = "warning" /\ at' = "clear"
                 \/ at = "error" /\ at' = "settle"
         /\ UNCHANGED <<ledger, posted, faults, cardVars, rows, pool, bound, batch, turn, past,
                        job, life>>
<1> DEFINE ph == PhaseOf[at]
           r  == sending[Key(job, ph)]
<1>1. /\ at \in {"status", "final", "artifact", "placeholder", "warning", "error"}
      /\ ph \in Phases /\ ph = (IF at = "placeholder" THEN "final" ELSE at)
  BY PhaseIs DEF Return
<1>2. job \in Messages /\ ~New(job) /\ up = "up"
  BY <1>1 DEF Return, PromptInv, JobInv
<1>3. /\ r \in Returned
      /\ got' = (got \/ r = "ok") /\ erred' = (erred \/ r = "error")
      /\ sending' = [sending EXCEPT ![Key(job, ph)] = "none"]
      /\ Continue(r)
  BY DEF Return, At
<1>4. UNCHANGED <<ledger, posted, faults, cardVars, rows, pool, bound, batch, turn, past,
                  job, life>>
  BY DEF Return, Here, rows
<1> HIDE DEF ph, r
<1>5. \/ /\ at = "status" \/ (at = "final" /\ job \in Attachments)
         /\ at' = IF r = "error" THEN "mark_failed" ELSE "mark_completed"
      \/ at = "final" /\ job \in Prompts /\ at' \in {"artifact", "sum"}
      \/ at = "artifact" /\ at' = "sum"
      \/ at = "placeholder" /\ at' = IF r = "error" THEN "finish" ELSE "clear"
      \/ at = "warning" /\ at' = "clear"
      \/ at = "error" /\ at' = "settle"
  BY <1>1, <1>2, <1>3, MessageIs DEF Continue, Goto
<1> QED
  BY <1>1, <1>2, <1>3, <1>4, <1>5 DEF r

-----------------------------------------------------------------------------
(* One lemma per action: it preserves each part of the invariant *)

\* A gateway callback inserts a row.
LEMMA ReceiveKeeps ==
  ASSUME PromptInv, NEW m \in Messages, Receive(m), UNCHANGED mail
  PROVE  PromptInv'
<1>1. TypeOK'
  BY MessageIs, ArrivalType DEF PromptInv, TypeOK, ReplyTypeOK, CardTypeOK, RowStates,
      Outcomes, Receive, rows, pool, work, past, life, tally, replyVars, cardVars, Mark
<1>2. JobInv'
  BY MessageIs DEF PromptInv, TypeOK, JobInv, New, PromptSteps, Receive, rows, pool, work,
      past, life, tally, replyVars, cardVars, Mark
<1>3. BatchInv'
  BY MessageIs DEF PromptInv, TypeOK, JobInv, BatchInv, PromptSteps, Receive, rows, pool,
      work, past, life, tally, replyVars, cardVars, Mark
<1>4. FileInv'
  BY MessageIs DEF PromptInv, TypeOK, JobInv, FileInv, RowHasFile, New, Receive, rows, pool,
      work, past, life, tally, replyVars, cardVars, Mark
<1>5. ReplyInv'
  BY MessageIs DEF PromptInv, TypeOK, ReplyTypeOK, ReplyInv, ReplyShown, Receive, rows,
      pool, work, past, life, tally, replyVars, cardVars, Mark
<1>6. AnswerInv'
  <2>1. UNCHANGED <<ledger, posted, sending, at, job, got, erred>>
    BY DEF Receive, replyVars, work, tally
  <2>2. \A n \in Messages : /\ New(n)' => New(n)
                            /\ row'[n] = "completed" => row[n] = "completed"
    BY DEF PromptInv, TypeOK, Receive, Mark, New
  <2> QED
    BY <2>1, <2>2, AnswersStay
<1>7. CardInv'
  BY MessageIs DEF PromptInv, TypeOK, CardTypeOK, JobInv, CardInv, CardOf, Unclosed, New,
      PromptSteps, AfterTurn, Receive, rows, pool, work, past, life, tally, replyVars,
      cardVars, Mark
<1>8. UsedInv'
  BY MessageIs DEF PromptInv, TypeOK, JobInv, UsedInv, UsedOf, New, BeforeTurn, PromptSteps,
      Receive, rows, pool, work, past, life, tally, replyVars, cardVars, Mark
<1> QED
  BY <1>1, <1>2, <1>3, <1>4, <1>5, <1>6, <1>7, <1>8 DEF PromptInv

\* A worker takes the oldest queued row.
LEMMA ClaimKeeps ==
  ASSUME PromptInv, NEW m \in Messages, Claim(m), UNCHANGED mail
  PROVE  PromptInv'
<1>1. TypeOK'
  BY FaultType, MessageIs DEF PromptInv, TypeOK, ReplyTypeOK, CardTypeOK, RowStates,
      Outcomes, Claim, Is, Goto, Mark, pool, past, life, replyVars, cardVars
<1>2. JobInv'
  BY MessageIs DEF PromptInv, TypeOK, JobInv, New, PromptSteps, Claim, Is, Goto, Mark, pool,
      past, life, replyVars, cardVars
<1>3. BatchInv'
  BY MessageIs DEF PromptInv, TypeOK, JobInv, BatchInv, PromptSteps, Claim, Is, Goto, Mark,
      pool, past, life, replyVars, cardVars
<1>4. FileInv'
  BY MessageIs DEF PromptInv, TypeOK, JobInv, FileInv, RowHasFile, New, Claim, Is, Goto,
      Mark, pool, past, life, replyVars, cardVars
<1>5. ReplyInv'
  BY MessageIs DEF PromptInv, TypeOK, ReplyTypeOK, ReplyInv, ReplyShown, Claim, Is, Goto,
      Mark, pool, past, life, replyVars, cardVars
<1>6. AnswerInv'
  BY MessageIs, KeyIs DEF PromptInv, TypeOK, JobInv, AnswerInv, New, Unused, Untried,
      Answered, BeforeFinal, BeforeTurn, PromptSteps, Claim, Is, Goto, Mark, pool, past,
      life, replyVars, cardVars
<1>7. CardInv'
  BY MessageIs DEF PromptInv, TypeOK, CardTypeOK, JobInv, CardInv, CardOf, Unclosed, New,
      PromptSteps, AfterTurn, Claim, Is, Goto, Mark, pool, past, life, replyVars, cardVars
<1>8. UsedInv'
  BY MessageIs DEF PromptInv, TypeOK, JobInv, UsedInv, UsedOf, New, BeforeTurn, PromptSteps,
      Claim, Is, Goto, Mark, pool, past, life, replyVars, cardVars
<1> QED
  BY <1>1, <1>2, <1>3, <1>4, <1>5, <1>6, <1>7, <1>8 DEF PromptInv

\* The files of an attachment message are cached.
LEMMA DownloadKeeps ==
  ASSUME PromptInv, Download, UNCHANGED mail
  PROVE  PromptInv'
<1>1. TypeOK'
  <2>1. faults' \in 0..MaxFaults
    BY FaultType DEF PromptInv, TypeOK, Download
  <2>2. job \in Attachments /\ staged' \in [Attachments -> Nat] /\ file' \subseteq Attachments
    BY ArrivalType DEF PromptInv, TypeOK, JobInv, Download, Is
  <2> QED
    BY <2>1, <2>2, MessageIs DEF PromptInv, TypeOK, ReplyTypeOK, CardTypeOK, RowStates, Outcomes,
        Download, Is, Goto, NoReply, NoCard, cardVars, Here, tally, life, past
<1>2. JobInv'
  BY MessageIs DEF PromptInv, TypeOK, JobInv, New, PromptSteps, Download, Is, Goto, NoReply,
      NoCard, cardVars, Here, tally, life, past
<1>3. BatchInv'
  BY MessageIs DEF PromptInv, TypeOK, JobInv, BatchInv, PromptSteps, Download, Is, Goto,
      NoReply, NoCard, cardVars, Here, tally, life, past
<1>4. FileInv'
  BY MessageIs DEF PromptInv, TypeOK, JobInv, FileInv, RowHasFile, New, Download, Is, Goto,
      NoReply, NoCard, cardVars, Here, tally, life, past
<1>5. ReplyInv'
  BY MessageIs DEF PromptInv, TypeOK, ReplyTypeOK, ReplyInv, ReplyShown, Download, Is, Goto,
      NoReply, NoCard, cardVars, Here, tally, life, past
<1>6. AnswerInv'
  BY MessageIs, KeyIs DEF PromptInv, TypeOK, JobInv, AnswerInv, New, Unused, Untried,
      Answered, BeforeFinal, BeforeTurn, PromptSteps, Download, Is, Goto, NoReply, NoCard,
      cardVars, Here, tally, life, past
<1>7. CardInv'
  BY MessageIs DEF PromptInv, TypeOK, CardTypeOK, JobInv, CardInv, CardOf, Unclosed, New,
      PromptSteps, AfterTurn, Download, Is, Goto, NoReply, NoCard, cardVars, Here, tally,
      life, past
<1>8. UsedInv'
  BY MessageIs DEF PromptInv, TypeOK, JobInv, UsedInv, UsedOf, New, BeforeTurn, PromptSteps,
      Download, Is, Goto, NoReply, NoCard, cardVars, Here, tally, life, past
<1> QED
  BY <1>1, <1>2, <1>3, <1>4, <1>5, <1>6, <1>7, <1>8 DEF PromptInv

\* The attachment gets its row, or loses its file.
LEMMA AddAttachmentKeeps ==
  ASSUME PromptInv, AddAttachment, UNCHANGED mail
  PROVE  PromptInv'
<1>1. TypeOK'
  <2>1. faults' \in 0..MaxFaults
    BY FaultType DEF PromptInv, TypeOK, AddAttachment
  <2> QED
    BY <2>1, MessageIs DEF PromptInv, TypeOK, ReplyTypeOK, CardTypeOK, RowStates, Outcomes,
        AddAttachment, Is, Goto, NoReply, NoCard, cardVars, Here, tally, life, past, JobInv
<1>2. JobInv'
  BY MessageIs DEF PromptInv, TypeOK, JobInv, New, PromptSteps, AddAttachment, Is, Goto,
      NoReply, NoCard, cardVars, Here, tally, life, past
<1>3. BatchInv'
  BY MessageIs DEF PromptInv, TypeOK, JobInv, BatchInv, PromptSteps, AddAttachment, Is,
      Goto, NoReply, NoCard, cardVars, Here, tally, life, past
<1>4. FileInv'
  BY MessageIs DEF PromptInv, TypeOK, JobInv, FileInv, RowHasFile, New, AddAttachment, Is,
      Goto, NoReply, NoCard, cardVars, Here, tally, life, past
<1>5. ReplyInv'
  BY MessageIs DEF PromptInv, TypeOK, ReplyTypeOK, ReplyInv, ReplyShown, AddAttachment, Is,
      Goto, NoReply, NoCard, cardVars, Here, tally, life, past
<1>6. AnswerInv'
  BY MessageIs, KeyIs DEF PromptInv, TypeOK, JobInv, AnswerInv, New, Unused, Untried,
      Answered, BeforeFinal, BeforeTurn, PromptSteps, AddAttachment, Is, Goto, NoReply,
      NoCard, cardVars, Here, tally, life, past
<1>7. CardInv'
  BY MessageIs DEF PromptInv, TypeOK, CardTypeOK, JobInv, CardInv, CardOf, Unclosed, New,
      PromptSteps, AfterTurn, AddAttachment, Is, Goto, NoReply, NoCard, cardVars, Here,
      tally, life, past
<1>8. UsedInv'
  BY MessageIs DEF PromptInv, TypeOK, JobInv, UsedInv, UsedOf, New, BeforeTurn, PromptSteps,
      AddAttachment, Is, Goto, NoReply, NoCard, cardVars, Here, tally, life, past
<1> QED
  BY <1>1, <1>2, <1>3, <1>4, <1>5, <1>6, <1>7, <1>8 DEF PromptInv

\* A prompt without a usable session fails.
LEMMA CheckSessionKeeps ==
  ASSUME PromptInv, CheckSession, UNCHANGED mail
  PROVE  PromptInv'
<1>1. TypeOK'
  <2>1. faults' \in 0..MaxFaults
    BY FaultType DEF PromptInv, TypeOK, CheckSession
  <2> QED
    BY <2>1, MessageIs DEF PromptInv, TypeOK, ReplyTypeOK, CardTypeOK, RowStates, Outcomes,
        CheckSession, Is, Goto, NoReply, NoCard, cardVars, Here, tally, life, pool, past
<1>2. JobInv'
  BY MessageIs DEF PromptInv, TypeOK, JobInv, New, PromptSteps, CheckSession, Is, Goto,
      NoReply, NoCard, cardVars, Here, tally, life, pool, past
<1>3. BatchInv'
  BY MessageIs DEF PromptInv, TypeOK, JobInv, BatchInv, PromptSteps, CheckSession, Is, Goto,
      NoReply, NoCard, cardVars, Here, tally, life, pool, past
<1>4. FileInv'
  BY MessageIs DEF PromptInv, TypeOK, JobInv, FileInv, RowHasFile, New, CheckSession, Is,
      Goto, NoReply, NoCard, cardVars, Here, tally, life, pool, past
<1>5. ReplyInv'
  BY MessageIs DEF PromptInv, TypeOK, ReplyTypeOK, ReplyInv, ReplyShown, CheckSession, Is,
      Goto, NoReply, NoCard, cardVars, Here, tally, life, pool, past
<1>6. AnswerInv'
  BY MessageIs, KeyIs DEF PromptInv, TypeOK, JobInv, AnswerInv, New, Unused, Untried,
      Answered, BeforeFinal, BeforeTurn, PromptSteps, CheckSession, Is, Goto, NoReply,
      NoCard, cardVars, Here, tally, life, pool, past
<1>7. CardInv'
  BY MessageIs DEF PromptInv, TypeOK, CardTypeOK, JobInv, CardInv, CardOf, Unclosed, New,
      PromptSteps, AfterTurn, CheckSession, Is, Goto, NoReply, NoCard, cardVars, Here,
      tally, life, pool, past
<1>8. UsedInv'
  BY MessageIs DEF PromptInv, TypeOK, JobInv, UsedInv, UsedOf, New, BeforeTurn, PromptSteps,
      CheckSession, Is, Goto, NoReply, NoCard, cardVars, Here, tally, life, pool, past
<1> QED
  BY <1>1, <1>2, <1>3, <1>4, <1>5, <1>6, <1>7, <1>8 DEF PromptInv

\* The prompt claims what came before it.
LEMMA ClaimAttachmentsKeeps ==
  ASSUME PromptInv, ClaimAttachments, UNCHANGED mail
  PROVE  PromptInv'
<1>1. TypeOK'
  <2>1. faults' \in 0..MaxFaults
    BY FaultType DEF PromptInv, TypeOK, ClaimAttachments
  <2> QED
    BY <2>1, MessageIs DEF PromptInv, TypeOK, ReplyTypeOK, CardTypeOK, RowStates, Outcomes,
        ClaimAttachments, Is, Goto, NoReply, NoCard, cardVars, Here, tally, life, Claimable,
        past, JobInv, PromptSteps
<1>2. JobInv'
  BY MessageIs DEF PromptInv, TypeOK, JobInv, New, PromptSteps, ClaimAttachments, Is, Goto,
      NoReply, NoCard, cardVars, Here, tally, life, Claimable, past
<1>3. BatchInv'
  BY MessageIs DEF PromptInv, TypeOK, JobInv, BatchInv, PromptSteps, ClaimAttachments, Is,
      Goto, NoReply, NoCard, cardVars, Here, tally, life, Claimable, past
<1>4. FileInv'
  BY MessageIs DEF PromptInv, TypeOK, JobInv, FileInv, RowHasFile, New, ClaimAttachments,
      Is, Goto, NoReply, NoCard, cardVars, Here, tally, life, Claimable, past
<1>5. ReplyInv'
  BY MessageIs DEF PromptInv, TypeOK, ReplyTypeOK, ReplyInv, ReplyShown, ClaimAttachments,
      Is, Goto, NoReply, NoCard, cardVars, Here, tally, life, Claimable, past
<1>6. AnswerInv'
  BY MessageIs, KeyIs DEF PromptInv, TypeOK, JobInv, AnswerInv, New, Unused, Untried,
      Answered, BeforeFinal, BeforeTurn, PromptSteps, ClaimAttachments, Is, Goto, NoReply,
      NoCard, cardVars, Here, tally, life, Claimable, past
<1>7. CardInv'
  BY MessageIs DEF PromptInv, TypeOK, CardTypeOK, JobInv, CardInv, CardOf, Unclosed, New,
      PromptSteps, AfterTurn, ClaimAttachments, Is, Goto, NoReply, NoCard, cardVars, Here,
      tally, life, Claimable, past
<1>8. UsedInv'
  BY MessageIs DEF PromptInv, TypeOK, JobInv, UsedInv, UsedOf, New, BeforeTurn, PromptSteps,
      ClaimAttachments, Is, Goto, NoReply, NoCard, cardVars, Here, tally, life, Claimable,
      past
<1> QED
  BY <1>1, <1>2, <1>3, <1>4, <1>5, <1>6, <1>7, <1>8 DEF PromptInv

\* Files are looked for and copied.
LEMMA PrepareKeeps ==
  ASSUME PromptInv, Prepare, UNCHANGED mail
  PROVE  PromptInv'
<1>1. TypeOK'
  <2>1. faults' \in 0..MaxFaults
    BY FaultType DEF PromptInv, TypeOK, Prepare
  <2> QED
    BY <2>1, MessageIs DEF PromptInv, TypeOK, ReplyTypeOK, CardTypeOK, RowStates, Outcomes,
        Prepare, Is, Goto, NoReply, NoCard, cardVars, Here, tally, life, pool, past
<1>2. JobInv'
  BY MessageIs DEF PromptInv, TypeOK, JobInv, New, PromptSteps, Prepare, Is, Goto, NoReply,
      NoCard, cardVars, Here, tally, life, pool, past
<1>3. BatchInv'
  BY MessageIs DEF PromptInv, TypeOK, JobInv, BatchInv, PromptSteps, Prepare, Is, Goto,
      NoReply, NoCard, cardVars, Here, tally, life, pool, past
<1>4. FileInv'
  BY MessageIs DEF PromptInv, TypeOK, JobInv, FileInv, RowHasFile, New, Prepare, Is, Goto,
      NoReply, NoCard, cardVars, Here, tally, life, pool, past
<1>5. ReplyInv'
  BY MessageIs DEF PromptInv, TypeOK, ReplyTypeOK, ReplyInv, ReplyShown, Prepare, Is, Goto,
      NoReply, NoCard, cardVars, Here, tally, life, pool, past
<1>6. AnswerInv'
  BY MessageIs, KeyIs DEF PromptInv, TypeOK, JobInv, AnswerInv, New, Unused, Untried,
      Answered, BeforeFinal, BeforeTurn, PromptSteps, Prepare, Is, Goto, NoReply, NoCard,
      cardVars, Here, tally, life, pool, past
<1>7. CardInv'
  BY MessageIs DEF PromptInv, TypeOK, CardTypeOK, JobInv, CardInv, CardOf, Unclosed, New,
      PromptSteps, AfterTurn, Prepare, Is, Goto, NoReply, NoCard, cardVars, Here, tally,
      life, pool, past
<1>8. UsedInv'
  BY MessageIs DEF PromptInv, TypeOK, JobInv, UsedInv, UsedOf, New, BeforeTurn, PromptSteps,
      Prepare, Is, Goto, NoReply, NoCard, cardVars, Here, tally, life, pool, past
<1> QED
  BY <1>1, <1>2, <1>3, <1>4, <1>5, <1>6, <1>7, <1>8 DEF PromptInv

\* The card was sent, or not.
LEMMA ShowCardKeeps ==
  ASSUME PromptInv, ShowCard, UNCHANGED mail
  PROVE  PromptInv'
<1>1. TypeOK'
  <2>1. sending' \in [Keys -> SendSteps]
    BY DEF PromptInv, TypeOK, ReplyTypeOK, ShowCard, At, SendSteps
  <2>2. CardTypeOK'
    BY DEF PromptInv, TypeOK, CardTypeOK, ShowCard, StartCard, Card
  <2> QED
    BY <2>1, <2>2
    DEF PromptInv, TypeOK, ReplyTypeOK, ShowCard, Here, life, pool, tally, past
<1>2. JobInv'
  BY MessageIs DEF PromptInv, TypeOK, JobInv, New, PromptSteps, ShowCard, Is, Goto, NoReply,
      NoCard, cardVars, Here, tally, life, pool, past, StartCard, Card, Row, At
<1>3. BatchInv'
  BY MessageIs DEF PromptInv, TypeOK, JobInv, BatchInv, PromptSteps, ShowCard, Is, Goto,
      NoReply, NoCard, cardVars, Here, tally, life, pool, past, StartCard, Card, Row, At
<1>4. FileInv'
  BY MessageIs DEF PromptInv, TypeOK, JobInv, FileInv, RowHasFile, New, ShowCard, Is, Goto,
      NoReply, NoCard, cardVars, Here, tally, life, pool, past, StartCard, Card, Row, At
<1>5. ReplyInv'
  BY MessageIs DEF PromptInv, TypeOK, ReplyTypeOK, ReplyInv, ReplyShown, ShowCard, Is, Goto,
      NoReply, NoCard, cardVars, Here, tally, life, pool, past, StartCard, Card, Row, At
<1>6. AnswerInv'
  <2>1. /\ UNCHANGED <<ledger, posted, row, job, got, erred>> /\ job \in Messages
        /\ at = "progress" /\ at' = "turn"
        /\ sending' = [sending EXCEPT ![Key(job, "progress")] = "none"]
    BY MessageIs DEF ShowCard, Is, Goto, At, Here, rows, tally, PromptInv, JobInv
  <2>2. \A n \in Messages : sending'[F(n)] = sending[F(n)] /\ sending'[S(n)] = sending[S(n)]
    BY <2>1, KeyIs DEF PromptInv, TypeOK, ReplyTypeOK, Phases
  <2>3. (\A n \in Messages : New(n) => Unused(F(n)) /\ Unused(S(n)))'
    BY <2>1, <2>2 DEF PromptInv, AnswerInv, New, Unused
  <2>4. \A n \in Messages : Answered(n)' = Answered(n)
    BY <2>1 DEF Answered
  <2>5. (\A n \in Messages : row[n] = "completed" => Answered(n))'
    BY <2>1, <2>4 DEF PromptInv, AnswerInv
  <2>6. Unused(F(job))'
    BY <2>1, <2>2 DEF PromptInv, AnswerInv, BeforeFinal, BeforeTurn, Unused
  <2>7. got' => Answered(job)'
    BY <2>1, <2>4 DEF PromptInv, AnswerInv
  <2> QED
    BY <2>1, <2>3, <2>5, <2>6, <2>7 DEF AnswerInv, BeforeFinal, BeforeTurn
<1>7. CardInv'
  BY MessageIs DEF PromptInv, TypeOK, CardTypeOK, JobInv, CardInv, CardOf, Unclosed, New,
      PromptSteps, AfterTurn, ShowCard, Is, Goto, NoReply, NoCard, cardVars, Here, tally,
      life, pool, past, StartCard, Card, Row, At
<1>8. UsedInv'
  BY MessageIs DEF PromptInv, TypeOK, JobInv, UsedInv, UsedOf, New, BeforeTurn, PromptSteps,
      ShowCard, Is, Goto, NoReply, NoCard, cardVars, Here, tally, life, pool, past,
      StartCard, Card, Row, At
<1> QED
  BY <1>1, <1>2, <1>3, <1>4, <1>5, <1>6, <1>7, <1>8 DEF PromptInv

\* The turn starts with the batch, or raises.
LEMMA StartTurnKeeps ==
  ASSUME PromptInv, StartTurn, UNCHANGED mail
  PROVE  PromptInv'
<1>1. TypeOK'
  <2>1. used' \in [Attachments -> SUBSET Prompts]
    <3>1. job \in Prompts
      BY DEF PromptInv, JobInv, PromptSteps, StartTurn, Is
    <3> QED
      BY <3>1 DEF PromptInv, TypeOK, StartTurn
  <2>2. turn' \in Outcomes /\ erred' \in BOOLEAN /\ ended' \in [Turns -> Outcomes]
    <3>1. \/ UNCHANGED <<turn, tally, ended>>
          \/ /\ turn' = "raised" /\ erred' = TRUE
             /\ ended' = [t \in Turns |-> IF t = job THEN "raised" ELSE ended[t]]
      BY DEF StartTurn, TurnIs
    <3>2. "raised" \in Outcomes /\ turn \in Outcomes /\ erred \in BOOLEAN /\ ended \in [Turns -> Outcomes]
      BY DEF Outcomes, PromptInv, TypeOK
    <3> QED
      BY ONLY <3>1, <3>2 DEF tally
  <2>3. got' = got
    BY DEF StartTurn, tally
  <2> QED
    BY <2>1, <2>2, <2>3
    DEF PromptInv, TypeOK, ReplyTypeOK, CardTypeOK, StartTurn, Here, life, pool, cardVars, replyVars
<1>2. JobInv'
  BY MessageIs DEF PromptInv, TypeOK, JobInv, New, PromptSteps, StartTurn, Is, Goto,
      NoReply, NoCard, cardVars, Here, tally, life, pool, past, replyVars, TurnIs
<1>3. BatchInv'
  BY MessageIs DEF PromptInv, TypeOK, JobInv, BatchInv, PromptSteps, StartTurn, Is, Goto,
      NoReply, NoCard, cardVars, Here, tally, life, pool, past, replyVars, TurnIs
<1>4. FileInv'
  BY MessageIs DEF PromptInv, TypeOK, JobInv, FileInv, RowHasFile, New, StartTurn, Is, Goto,
      NoReply, NoCard, cardVars, Here, tally, life, pool, past, replyVars, TurnIs
<1>5. ReplyInv'
  BY MessageIs DEF PromptInv, TypeOK, ReplyTypeOK, ReplyInv, ReplyShown, StartTurn, Is,
      Goto, NoReply, NoCard, cardVars, Here, tally, life, pool, past, replyVars, TurnIs
<1>6. AnswerInv'
  <2>1. /\ UNCHANGED <<replyVars, row, job, got>> /\ at = "turn"
        /\ at' \in {"running", "finalize"} \/ (at' = "finish" /\ erred' = TRUE)
    BY DEF StartTurn, TurnIs, tally, Is, Goto, Here
  <2> QED
    BY <2>1
    DEF PromptInv, AnswerInv, New, Unused, Untried, Answered, BeforeFinal, BeforeTurn, replyVars
<1>7. CardInv'
  BY MessageIs DEF PromptInv, TypeOK, CardTypeOK, JobInv, CardInv, CardOf, Unclosed, New,
      PromptSteps, AfterTurn, StartTurn, Is, Goto, NoReply, NoCard, cardVars, Here, tally,
      life, pool, past, replyVars, TurnIs
<1>8. UsedInv'
  BY MessageIs DEF PromptInv, TypeOK, JobInv, UsedInv, UsedOf, New, BeforeTurn, PromptSteps,
      StartTurn, Is, Goto, NoReply, NoCard, cardVars, Here, tally, life, pool, past,
      replyVars, TurnIs, BatchInv, FileInv
<1> QED
  BY <1>1, <1>2, <1>3, <1>4, <1>5, <1>6, <1>7, <1>8 DEF PromptInv

\* The turn ends.
LEMMA EndTurnKeeps ==
  ASSUME PromptInv, EndTurn, UNCHANGED mail
  PROVE  PromptInv'
<1>1. TypeOK'
  <2>1. turn' \in Outcomes
    <3>1. at = "running" /\ job \in Prompts
      BY DEF EndTurn, Is, PromptInv, JobInv, PromptSteps
    <3> QED
      BY <3>1, PromptAssumption DEF EndTurn, TurnIs, Outcomes
  <2> QED
    BY <2>1, MessageIs DEF PromptInv, TypeOK, ReplyTypeOK, CardTypeOK, RowStates, EndTurn, Is,
        Goto, Here, tally, life, pool, past, replyVars, cardVars, TurnIs
<1>2. JobInv'
  BY MessageIs DEF PromptInv, TypeOK, JobInv, New, PromptSteps, EndTurn, Is, Goto, NoReply,
      NoCard, cardVars, Here, tally, life, pool, past, replyVars, TurnIs
<1>3. BatchInv'
  BY MessageIs DEF PromptInv, TypeOK, JobInv, BatchInv, PromptSteps, EndTurn, Is, Goto,
      NoReply, NoCard, cardVars, Here, tally, life, pool, past, replyVars, TurnIs
<1>4. FileInv'
  BY MessageIs DEF PromptInv, TypeOK, JobInv, FileInv, RowHasFile, New, EndTurn, Is, Goto,
      NoReply, NoCard, cardVars, Here, tally, life, pool, past, replyVars, TurnIs
<1>5. ReplyInv'
  BY MessageIs DEF PromptInv, TypeOK, ReplyTypeOK, ReplyInv, ReplyShown, EndTurn, Is, Goto,
      NoReply, NoCard, cardVars, Here, tally, life, pool, past, replyVars, TurnIs
<1>6. AnswerInv'
  BY MessageIs, KeyIs DEF PromptInv, TypeOK, JobInv, AnswerInv, New, Unused, Untried,
      Answered, BeforeFinal, BeforeTurn, PromptSteps, EndTurn, Is, Goto, NoReply, NoCard,
      cardVars, Here, tally, life, pool, past, replyVars, TurnIs
<1>7. CardInv'
  BY MessageIs DEF PromptInv, TypeOK, CardTypeOK, JobInv, CardInv, CardOf, Unclosed, New,
      PromptSteps, AfterTurn, EndTurn, Is, Goto, NoReply, NoCard, cardVars, Here, tally,
      life, pool, past, replyVars, TurnIs
<1>8. UsedInv'
  BY MessageIs DEF PromptInv, TypeOK, JobInv, UsedInv, UsedOf, New, BeforeTurn, PromptSteps,
      EndTurn, Is, Goto, NoReply, NoCard, cardVars, Here, tally, life, pool, past,
      replyVars, TurnIs
<1> QED
  BY <1>1, <1>2, <1>3, <1>4, <1>5, <1>6, <1>7, <1>8 DEF PromptInv

\* finalize_turn_result, which may raise.
LEMMA FinalizeKeeps ==
  ASSUME PromptInv, Finalize, UNCHANGED mail
  PROVE  PromptInv'
<1>1. TypeOK'
  <2>1. faults' \in 0..MaxFaults
    BY FaultType DEF PromptInv, TypeOK, Finalize
  <2> QED
    BY <2>1, MessageIs DEF PromptInv, TypeOK, ReplyTypeOK, CardTypeOK, RowStates, Outcomes,
        Finalize, Is, Goto, NoReply, NoCard, cardVars, Here, tally, life, pool, past
<1>2. JobInv'
  BY MessageIs DEF PromptInv, TypeOK, JobInv, New, PromptSteps, Finalize, Is, Goto, NoReply,
      NoCard, cardVars, Here, tally, life, pool, past
<1>3. BatchInv'
  BY MessageIs DEF PromptInv, TypeOK, JobInv, BatchInv, PromptSteps, Finalize, Is, Goto,
      NoReply, NoCard, cardVars, Here, tally, life, pool, past
<1>4. FileInv'
  BY MessageIs DEF PromptInv, TypeOK, JobInv, FileInv, RowHasFile, New, Finalize, Is, Goto,
      NoReply, NoCard, cardVars, Here, tally, life, pool, past
<1>5. ReplyInv'
  BY MessageIs DEF PromptInv, TypeOK, ReplyTypeOK, ReplyInv, ReplyShown, Finalize, Is, Goto,
      NoReply, NoCard, cardVars, Here, tally, life, pool, past
<1>6. AnswerInv'
  BY MessageIs, KeyIs DEF PromptInv, TypeOK, JobInv, AnswerInv, New, Unused, Untried,
      Answered, BeforeFinal, BeforeTurn, PromptSteps, Finalize, Is, Goto, NoReply, NoCard,
      cardVars, Here, tally, life, pool, past
<1>7. CardInv'
  BY MessageIs DEF PromptInv, TypeOK, CardTypeOK, JobInv, CardInv, CardOf, Unclosed, New,
      PromptSteps, AfterTurn, Finalize, Is, Goto, NoReply, NoCard, cardVars, Here, tally,
      life, pool, past
<1>8. UsedInv'
  BY MessageIs DEF PromptInv, TypeOK, JobInv, UsedInv, UsedOf, New, BeforeTurn, PromptSteps,
      Finalize, Is, Goto, NoReply, NoCard, cardVars, Here, tally, life, pool, past
<1> QED
  BY <1>1, <1>2, <1>3, <1>4, <1>5, <1>6, <1>7, <1>8 DEF PromptInv

\* bind_session, which may raise.
LEMMA BindKeeps ==
  ASSUME PromptInv, Bind, UNCHANGED mail
  PROVE  PromptInv'
<1>1. TypeOK'
  <2>1. faults' \in 0..MaxFaults
    BY FaultType DEF PromptInv, TypeOK, Bind
  <2> QED
    BY <2>1, MessageIs DEF PromptInv, TypeOK, ReplyTypeOK, CardTypeOK, RowStates, Outcomes,
        Bind, Is, Goto, NoReply, NoCard, cardVars, Here, tally, life, pool, past
<1>2. JobInv'
  BY MessageIs DEF PromptInv, TypeOK, JobInv, New, PromptSteps, Bind, Is, Goto, NoReply,
      NoCard, cardVars, Here, tally, life, pool, past
<1>3. BatchInv'
  BY MessageIs DEF PromptInv, TypeOK, JobInv, BatchInv, PromptSteps, Bind, Is, Goto,
      NoReply, NoCard, cardVars, Here, tally, life, pool, past
<1>4. FileInv'
  BY MessageIs DEF PromptInv, TypeOK, JobInv, FileInv, RowHasFile, New, Bind, Is, Goto,
      NoReply, NoCard, cardVars, Here, tally, life, pool, past
<1>5. ReplyInv'
  BY MessageIs DEF PromptInv, TypeOK, ReplyTypeOK, ReplyInv, ReplyShown, Bind, Is, Goto,
      NoReply, NoCard, cardVars, Here, tally, life, pool, past
<1>6. AnswerInv'
  BY MessageIs, KeyIs DEF PromptInv, TypeOK, JobInv, AnswerInv, New, Unused, Untried,
      Answered, BeforeFinal, BeforeTurn, PromptSteps, Bind, Is, Goto, NoReply, NoCard,
      cardVars, Here, tally, life, pool, past
<1>7. CardInv'
  BY MessageIs DEF PromptInv, TypeOK, CardTypeOK, JobInv, CardInv, CardOf, Unclosed, New,
      PromptSteps, AfterTurn, Bind, Is, Goto, NoReply, NoCard, cardVars, Here, tally, life,
      pool, past
<1>8. UsedInv'
  BY MessageIs DEF PromptInv, TypeOK, JobInv, UsedInv, UsedOf, New, BeforeTurn, PromptSteps,
      Bind, Is, Goto, NoReply, NoCard, cardVars, Here, tally, life, pool, past
<1> QED
  BY <1>1, <1>2, <1>3, <1>4, <1>5, <1>6, <1>7, <1>8 DEF PromptInv

\* deliver_final looks at what there is to say.
LEMMA CollectKeeps ==
  ASSUME PromptInv, Collect, UNCHANGED mail
  PROVE  PromptInv'
<1>1. TypeOK'
  BY FaultType, MessageIs DEF PromptInv, TypeOK, ReplyTypeOK, CardTypeOK, RowStates,
      Outcomes, Collect, Is, Goto, NoReply, NoCard, cardVars, Here, tally, life, pool, past,
      replyVars
<1>2. JobInv'
  BY MessageIs DEF PromptInv, TypeOK, JobInv, New, PromptSteps, Collect, Is, Goto, NoReply,
      NoCard, cardVars, Here, tally, life, pool, past, replyVars
<1>3. BatchInv'
  BY MessageIs DEF PromptInv, TypeOK, JobInv, BatchInv, PromptSteps, Collect, Is, Goto,
      NoReply, NoCard, cardVars, Here, tally, life, pool, past, replyVars
<1>4. FileInv'
  BY MessageIs DEF PromptInv, TypeOK, JobInv, FileInv, RowHasFile, New, Collect, Is, Goto,
      NoReply, NoCard, cardVars, Here, tally, life, pool, past, replyVars
<1>5. ReplyInv'
  BY MessageIs DEF PromptInv, TypeOK, ReplyTypeOK, ReplyInv, ReplyShown, Collect, Is, Goto,
      NoReply, NoCard, cardVars, Here, tally, life, pool, past, replyVars
<1>6. AnswerInv'
  BY MessageIs, KeyIs DEF PromptInv, TypeOK, JobInv, AnswerInv, New, Unused, Untried,
      Answered, BeforeFinal, BeforeTurn, PromptSteps, Collect, Is, Goto, NoReply, NoCard,
      cardVars, Here, tally, life, pool, past, replyVars
<1>7. CardInv'
  BY MessageIs DEF PromptInv, TypeOK, CardTypeOK, JobInv, CardInv, CardOf, Unclosed, New,
      PromptSteps, AfterTurn, Collect, Is, Goto, NoReply, NoCard, cardVars, Here, tally,
      life, pool, past, replyVars
<1>8. UsedInv'
  BY MessageIs DEF PromptInv, TypeOK, JobInv, UsedInv, UsedOf, New, BeforeTurn, PromptSteps,
      Collect, Is, Goto, NoReply, NoCard, cardVars, Here, tally, life, pool, past, replyVars
<1> QED
  BY <1>1, <1>2, <1>3, <1>4, <1>5, <1>6, <1>7, <1>8 DEF PromptInv

\* A step of a reply.
LEMMA SendKeeps ==
  ASSUME PromptInv, Send, UNCHANGED mail
  PROVE  PromptInv'
<1>1. TypeOK'
  <2>1. PICK k \in Keys : SendStep(k)
    BY SendIs, KeyIs
  <2>2. ReplyTypeOK'
    BY <2>1, CallKeeps DEF PromptInv, TypeOK, ReplyInv
  <2> QED
    BY <2>2, SendIs DEF PromptInv, TypeOK, CardTypeOK, cardVars, rows, pool, work, tally, past, life
<1>2. JobInv'
  BY MessageIs DEF PromptInv, TypeOK, JobInv, New, PromptSteps, Send, rows, pool, work,
      past, life, tally, cardVars
<1>3. BatchInv'
  BY MessageIs DEF PromptInv, TypeOK, JobInv, BatchInv, PromptSteps, Send, rows, pool, work,
      past, life, tally, cardVars
<1>4. FileInv'
  BY MessageIs DEF PromptInv, TypeOK, JobInv, FileInv, RowHasFile, New, Send, rows, pool,
      work, past, life, tally, cardVars
<1>5. ReplyInv'
  <2>1. PICK k \in Keys : SendStep(k)
    BY SendIs, KeyIs
  <2> QED
    BY <2>1, CallKeeps DEF PromptInv, TypeOK, ReplyInv, ReplyShown
<1>6. AnswerInv'
  <2>1. PICK ph \in Phases : /\ ph = (IF at = "placeholder" THEN "final" ELSE at)
                             /\ SendStep(Key(job, ph))
    BY SendIs
  <2>2. job \in Messages /\ ~New(job)
    BY SendIs
  <2>3. PICK k \in Keys : k = Key(job, ph) /\ SendStep(k)
    BY <2>1, <2>2, KeyIs
  <2>4. /\ \A j \in Keys \ {k} : /\ ledger'[j] = ledger[j] /\ posted'[j] = posted[j]
                               /\ sending'[j] = sending[j]
        /\ posted[k] # {} => posted'[k] # {}
        /\ Untried(k) => Untried(k)'
    BY <2>3, CallKeeps DEF PromptInv, TypeOK, ReplyInv
  <2>5. \A m \in Messages : Answered(m) => Answered(m)'
    BY <2>2, <2>3, <2>4, KeyIs DEF Answered
  <2>6. \A m \in Messages :
          /\ m # job \/ ph # "final" => (Unused(F(m)) => Unused(F(m))')
          /\ m # job \/ ph # "status" => (Unused(S(m)) => Unused(S(m))')
    BY <2>2, <2>3, <2>4, KeyIs DEF Unused
  <2>7. UNCHANGED <<row, at, job, got, erred>>
    BY SendIs DEF rows, work, tally
  <2>8. /\ at \in {"final", "placeholder"} => k = F(job)
        /\ at = "status" => k = S(job)
    BY <2>1, <2>3 DEF F, S
  <2>9. at \in {"artifact", "sum"} => sending'[F(job)] = sending[F(job)] /\ ledger'[F(job)] = ledger[F(job)]
    BY <2>1, <2>2, <2>3, <2>4, KeyIs
  <2>10. (\A m \in Messages : New(m) => Unused(F(m)) /\ Unused(S(m)))'
    BY <2>2, <2>6, <2>7 DEF PromptInv, AnswerInv, New
  <2>11. (\A m \in Messages : row[m] = "completed" => Answered(m))'
    BY <2>5, <2>7 DEF PromptInv, AnswerInv
  <2>12. Answered(job) => Answered(job)'
    BY <2>2, <2>5, <2>7 DEF Answered
  <2>13. /\ at \in {"final", "placeholder"} => Untried(F(job))'
         /\ at = "status" => Untried(S(job))'
    BY <2>4, <2>7, <2>8 DEF PromptInv, AnswerInv
  <2>14. at \in {"status", "progress", "final", "artifact", "placeholder", "warning", "error"}
    BY SendIs
  <2>15. at \in {"status", "progress"} => Unused(F(job))'
    BY <2>1, <2>2, <2>6, <2>7 DEF PromptInv, AnswerInv, BeforeFinal, BeforeTurn, Unused
  <2> QED
    BY <2>7, <2>9, <2>10, <2>11, <2>12, <2>13, <2>14, <2>15
    DEF PromptInv, AnswerInv, BeforeFinal, BeforeTurn, F, Answered, Unused, Untried
<1>7. CardInv'
  BY MessageIs DEF PromptInv, TypeOK, CardTypeOK, JobInv, CardInv, CardOf, Unclosed, New,
      PromptSteps, AfterTurn, Send, rows, pool, work, past, life, tally, cardVars
<1>8. UsedInv'
  BY MessageIs DEF PromptInv, TypeOK, JobInv, UsedInv, UsedOf, New, BeforeTurn, PromptSteps,
      Send, rows, pool, work, past, life, tally, cardVars
<1> QED
  BY <1>1, <1>2, <1>3, <1>4, <1>5, <1>6, <1>7, <1>8 DEF PromptInv

\* A reply returns to the worker.
LEMMA ReturnKeeps ==
  ASSUME PromptInv, Return, UNCHANGED mail
  PROVE  PromptInv'
<1>1. TypeOK'
  <2>1. ReplyTypeOK'
    BY ReturnIs DEF PromptInv, TypeOK, ReplyTypeOK, SendSteps
  <2>2. got' \in BOOLEAN /\ erred' \in BOOLEAN
    BY ReturnIs
  <2> QED
    BY <2>1, <2>2, ReturnIs
    DEF PromptInv, TypeOK, CardTypeOK, cardVars, rows, pool, past, life
<1>2. JobInv'
  <2>1. /\ UNCHANGED <<row, up, job>> /\ job \in Messages /\ ~New(job) /\ up = "up"
    BY ReturnIs DEF rows, life
  <2>2. /\ at' \notin {"download", "add", "idle"}
        /\ at' \in PromptSteps => at \in PromptSteps \/ job \in Prompts
    BY ReturnIs DEF PromptSteps
  <2> QED
    BY <2>1, <2>2 DEF PromptInv, JobInv, New
<1>3. BatchInv'
  <2>1. UNCHANGED <<batch, claim, held, job>> /\ at' \notin {"prepare", "progress", "turn"} /\ at # "idle"
    BY ReturnIs DEF pool
  <2> QED
    BY <2>1 DEF PromptInv, BatchInv
<1>4. FileInv'
  <2>1. UNCHANGED <<batch, row, held, file, job>> /\ at' \notin {"download", "add", "unlink"}
    BY ReturnIs DEF pool, rows
  <2> QED
    BY <2>1 DEF PromptInv, FileInv, RowHasFile, New
<1>5. ReplyInv'
  BY MessageIs DEF PromptInv, TypeOK, ReplyTypeOK, ReplyInv, ReplyShown, Return, Is, Goto,
      NoReply, NoCard, cardVars, Here, tally, life, pool, past, At
<1>6. AnswerInv'
  <2>1. PICK ph \in Phases : LET r == sending[Key(job, ph)] IN
          /\ ph = (IF at = "placeholder" THEN "final" ELSE at)
          /\ r \in Returned
          /\ got' = (got \/ r = "ok") /\ erred' = (erred \/ r = "error")
          /\ sending' = [sending EXCEPT ![Key(job, ph)] = "none"]
          /\ \/ /\ at = "status" \/ (at = "final" /\ job \in Attachments)
                /\ at' = IF r = "error" THEN "mark_failed" ELSE "mark_completed"
             \/ at = "final" /\ job \in Prompts /\ at' \in {"artifact", "sum"}
             \/ at = "artifact" /\ at' = "sum"
             \/ at = "placeholder" /\ at' = IF r = "error" THEN "finish" ELSE "clear"
             \/ at = "warning" /\ at' = "clear"
             \/ at = "error" /\ at' = "settle"
    BY ReturnIs
  <2> DEFINE k == Key(job, ph)
             r == sending[k]
  <2>2. job \in Messages /\ ~New(job) /\ k \in Keys /\ UNCHANGED <<ledger, posted, row, job>>
    BY ReturnIs, KeyIs DEF rows
  <2>3. sending'[k] = "none" /\ \A j \in Keys \ {k} : sending'[j] = sending[j]
    BY <2>1, <2>2 DEF PromptInv, TypeOK, ReplyTypeOK
  <2>4. \A m \in Messages : Answered(m)' = Answered(m)
    BY <2>2 DEF Answered
  <2>5. \A m \in Messages : New(m)' = New(m) /\ (New(m) => m # job)
    BY <2>2 DEF New
  <2>6. \A m \in Messages : m # job => /\ Unused(F(m)) => Unused(F(m))'
                                       /\ Unused(S(m)) => Unused(S(m))'
    BY <2>2, <2>3, KeyIs DEF Unused
  <2>7. r = "ok" => posted[k] # {}
    BY <2>2 DEF PromptInv, ReplyInv, ReplyShown
  <2>8. /\ ph = "final" => k = F(job)
        /\ ph = "artifact" => k = P(job)
        /\ ph = "status" => k = S(job)
        /\ ph # "final" => sending'[F(job)] = sending[F(job)]
    BY <2>2, <2>3, KeyIs DEF F, P, S
  <2>9. ph \in {"final", "artifact", "status"} /\ r = "ok" => Answered(job)
    BY <2>7, <2>8 DEF Answered
  <2>10. /\ at \in {"final", "placeholder"} => ph = "final" /\ r \in {"ok", "error"}
         /\ at = "status" => ph = "status" /\ r \in {"ok", "error"}
    <3>1. /\ at \in {"final", "placeholder"} => Untried(F(job))
          /\ at = "status" => Untried(S(job))
      BY DEF PromptInv, AnswerInv
    <3> QED
      BY <2>1, <2>8, <3>1 DEF Untried, Returned
  <2>11. /\ at \in {"status", "final", "artifact", "placeholder", "warning", "error"}
         /\ at' \notin BeforeFinal \cup {"session", "status", "final", "placeholder"}
    BY <2>1 DEF BeforeFinal, BeforeTurn
  <2>12. at' \in {"artifact", "sum"} =>
           sending'[F(job)] = "none" /\ (got' \/ erred' \/ ledger[F(job)] = "none")
    <3>1. CASE at = "final"
      BY <2>1, <2>3, <2>8, <2>10, <3>1
    <3>2. CASE at = "artifact"
      BY <2>1, <2>8, <3>2 DEF PromptInv, AnswerInv
    <3> QED
      BY <2>1, <3>1, <3>2
  <2>13. at' \in {"clear", "mark_completed"} => Answered(job)
    <3>1. CASE at \in {"status", "final", "placeholder"}
      BY <2>1, <2>9, <2>10, <3>1
    <3>2. CASE at = "warning"
      BY <3>2 DEF PromptInv, AnswerInv
    <3> QED
      BY <2>1, <3>1, <3>2
  <2>14. at' # "settle" /\ got' => Answered(job)
    <3>1. CASE got
      BY <2>1, <2>11, <3>1 DEF PromptInv, AnswerInv
    <3>2. CASE ~got /\ at # "warning"
      BY <2>1, <2>9, <3>2
    <3>3. CASE at = "warning"
      BY <3>3 DEF PromptInv, AnswerInv
    <3> QED
      BY <3>1, <3>2, <3>3
  <2>15. at' = "finish" => erred'
    BY <2>1
  <2>16. at' \notin {"unlink", "warning", "terminate"}
    BY <2>1
  <2> HIDE DEF k, r
  <2>17. (\A m \in Messages : New(m) => Unused(F(m)) /\ Unused(S(m)))'
    BY <2>2, <2>5, <2>6 DEF PromptInv, AnswerInv
  <2>18. (\A m \in Messages : row[m] = "completed" => Answered(m))'
    BY <2>2, <2>4 DEF PromptInv, AnswerInv
  <2>19. Answered(job)' = Answered(job)
    BY <2>2, <2>4
  <2> QED
    BY <2>2, <2>11, <2>12, <2>13, <2>14, <2>15, <2>16, <2>17, <2>18, <2>19 DEF AnswerInv
<1>7. CardInv'
  <2>1. UNCHANGED <<card, state, terminal, drawn, shown, row, turn, ended, job>>
    BY ReturnIs DEF cardVars, rows, past
  <2>2. /\ at' # "terminate" /\ (at' \in AfterTurn => at \in AfterTurn)
        /\ at' \in PromptSteps \cup {"final"} => at \in PromptSteps \cup {"final"} /\ at \in AfterTurn
    BY ReturnIs DEF PromptSteps, AfterTurn
  <2> QED
    BY <2>1, <2>2 DEF PromptInv, CardInv, CardOf, Unclosed, New, PromptSteps, AfterTurn
<1>8. UsedInv'
  <2>1. UNCHANGED <<used, row, held, claim, job>> /\ at' \notin BeforeTurn /\ at # "idle"
        /\ at' \notin {"download", "add"}
    BY ReturnIs DEF pool, rows, past, BeforeTurn
  <2> QED
    BY <2>1 DEF PromptInv, UsedInv, UsedOf, New
<1> QED
  BY <1>1, <1>2, <1>3, <1>4, <1>5, <1>6, <1>7, <1>8 DEF PromptInv

\* deliver_final sums up.
LEMMA SumKeeps ==
  ASSUME PromptInv, Sum, UNCHANGED mail
  PROVE  PromptInv'
<1>1. TypeOK'
  BY FaultType, MessageIs DEF PromptInv, TypeOK, ReplyTypeOK, CardTypeOK, RowStates,
      Outcomes, Sum, Is, Goto, NoReply, NoCard, cardVars, Here, tally, life, pool, past,
      replyVars, AfterReplies
<1>2. JobInv'
  BY MessageIs DEF PromptInv, TypeOK, JobInv, New, PromptSteps, Sum, Is, Goto, NoReply,
      NoCard, cardVars, Here, tally, life, pool, past, replyVars, AfterReplies
<1>3. BatchInv'
  BY MessageIs DEF PromptInv, TypeOK, JobInv, BatchInv, PromptSteps, Sum, Is, Goto, NoReply,
      NoCard, cardVars, Here, tally, life, pool, past, replyVars, AfterReplies
<1>4. FileInv'
  BY MessageIs DEF PromptInv, TypeOK, JobInv, FileInv, RowHasFile, New, Sum, Is, Goto,
      NoReply, NoCard, cardVars, Here, tally, life, pool, past, replyVars, AfterReplies
<1>5. ReplyInv'
  BY MessageIs DEF PromptInv, TypeOK, ReplyTypeOK, ReplyInv, ReplyShown, Sum, Is, Goto,
      NoReply, NoCard, cardVars, Here, tally, life, pool, past, replyVars, AfterReplies
<1>6. AnswerInv'
  BY MessageIs, KeyIs DEF PromptInv, TypeOK, JobInv, AnswerInv, New, Unused, Untried,
      Answered, BeforeFinal, BeforeTurn, PromptSteps, Sum, Is, Goto, NoReply, NoCard,
      cardVars, Here, tally, life, pool, past, replyVars, AfterReplies
<1>7. CardInv'
  BY MessageIs DEF PromptInv, TypeOK, CardTypeOK, JobInv, CardInv, CardOf, Unclosed, New,
      PromptSteps, AfterTurn, Sum, Is, Goto, NoReply, NoCard, cardVars, Here, tally, life,
      pool, past, replyVars, AfterReplies
<1>8. UsedInv'
  BY MessageIs DEF PromptInv, TypeOK, JobInv, UsedInv, UsedOf, New, BeforeTurn, PromptSteps,
      Sum, Is, Goto, NoReply, NoCard, cardVars, Here, tally, life, pool, past, replyVars,
      AfterReplies
<1> QED
  BY <1>1, <1>2, <1>3, <1>4, <1>5, <1>6, <1>7, <1>8 DEF PromptInv

\* The rows of the batch go.
LEMMA ClearKeeps ==
  ASSUME PromptInv, Clear, UNCHANGED mail
  PROVE  PromptInv'
<1>1. TypeOK'
  <2>1. faults' \in 0..MaxFaults
    BY FaultType DEF PromptInv, TypeOK, Clear
  <2> QED
    BY <2>1, MessageIs DEF PromptInv, TypeOK, ReplyTypeOK, CardTypeOK, RowStates, Outcomes,
        Clear, Is, Goto, NoReply, NoCard, cardVars, Here, tally, life, past, Cleared
<1>2. JobInv'
  BY MessageIs DEF PromptInv, TypeOK, JobInv, New, PromptSteps, Clear, Is, Goto, NoReply,
      NoCard, cardVars, Here, tally, life, past, Cleared
<1>3. BatchInv'
  BY MessageIs DEF PromptInv, TypeOK, JobInv, BatchInv, PromptSteps, Clear, Is, Goto,
      NoReply, NoCard, cardVars, Here, tally, life, past, Cleared
<1>4. FileInv'
  BY MessageIs DEF PromptInv, TypeOK, JobInv, FileInv, RowHasFile, New, Clear, Is, Goto,
      NoReply, NoCard, cardVars, Here, tally, life, past, Cleared
<1>5. ReplyInv'
  BY MessageIs DEF PromptInv, TypeOK, ReplyTypeOK, ReplyInv, ReplyShown, Clear, Is, Goto,
      NoReply, NoCard, cardVars, Here, tally, life, past, Cleared
<1>6. AnswerInv'
  BY MessageIs, KeyIs DEF PromptInv, TypeOK, JobInv, AnswerInv, New, Unused, Untried,
      Answered, BeforeFinal, BeforeTurn, PromptSteps, Clear, Is, Goto, NoReply, NoCard,
      cardVars, Here, tally, life, past, Cleared
<1>7. CardInv'
  BY MessageIs DEF PromptInv, TypeOK, CardTypeOK, JobInv, CardInv, CardOf, Unclosed, New,
      PromptSteps, AfterTurn, Clear, Is, Goto, NoReply, NoCard, cardVars, Here, tally, life,
      past, Cleared
<1>8. UsedInv'
  BY MessageIs DEF PromptInv, TypeOK, JobInv, UsedInv, UsedOf, New, BeforeTurn, PromptSteps,
      Clear, Is, Goto, NoReply, NoCard, cardVars, Here, tally, life, past, Cleared
<1> QED
  BY <1>1, <1>2, <1>3, <1>4, <1>5, <1>6, <1>7, <1>8 DEF PromptInv

\* The files of the batch go after them.
LEMMA UnlinkKeeps ==
  ASSUME PromptInv, Unlink, UNCHANGED mail
  PROVE  PromptInv'
<1>1. TypeOK'
  <2>1. faults' \in 0..MaxFaults
    BY FaultType DEF PromptInv, TypeOK, Unlink
  <2> QED
    BY <2>1, MessageIs DEF PromptInv, TypeOK, ReplyTypeOK, CardTypeOK, RowStates, Outcomes,
        Unlink, Is, Goto, NoReply, NoCard, cardVars, Here, tally, life, past
<1>2. JobInv'
  BY MessageIs DEF PromptInv, TypeOK, JobInv, New, PromptSteps, Unlink, Is, Goto, NoReply,
      NoCard, cardVars, Here, tally, life, past
<1>3. BatchInv'
  BY MessageIs DEF PromptInv, TypeOK, JobInv, BatchInv, PromptSteps, Unlink, Is, Goto,
      NoReply, NoCard, cardVars, Here, tally, life, past
<1>4. FileInv'
  BY MessageIs DEF PromptInv, TypeOK, JobInv, FileInv, RowHasFile, New, Unlink, Is, Goto,
      NoReply, NoCard, cardVars, Here, tally, life, past
<1>5. ReplyInv'
  BY MessageIs DEF PromptInv, TypeOK, ReplyTypeOK, ReplyInv, ReplyShown, Unlink, Is, Goto,
      NoReply, NoCard, cardVars, Here, tally, life, past
<1>6. AnswerInv'
  BY MessageIs, KeyIs DEF PromptInv, TypeOK, JobInv, AnswerInv, New, Unused, Untried,
      Answered, BeforeFinal, BeforeTurn, PromptSteps, Unlink, Is, Goto, NoReply, NoCard,
      cardVars, Here, tally, life, past
<1>7. CardInv'
  BY MessageIs DEF PromptInv, TypeOK, CardTypeOK, JobInv, CardInv, CardOf, Unclosed, New,
      PromptSteps, AfterTurn, Unlink, Is, Goto, NoReply, NoCard, cardVars, Here, tally,
      life, past
<1>8. UsedInv'
  BY MessageIs DEF PromptInv, TypeOK, JobInv, UsedInv, UsedOf, New, BeforeTurn, PromptSteps,
      Unlink, Is, Goto, NoReply, NoCard, cardVars, Here, tally, life, past
<1> QED
  BY <1>1, <1>2, <1>3, <1>4, <1>5, <1>6, <1>7, <1>8 DEF PromptInv

\* The card is told the outcome, in two steps.
LEMMA FinishKeeps ==
  ASSUME PromptInv, Finish, UNCHANGED mail
  PROVE  PromptInv'
<1>1. TypeOK'
  <2>1. CardTypeOK'
    <3>1. UNCHANGED <<card, drawn, shown>>
      BY DEF Finish, FinishState, OnProgress, FinishTerminal, NoCard, cardVars
    <3>2. state' \in [Turns -> CardStates]
      <4>1. \/ state' = state \/ state' = [state EXCEPT ![job] = CardState(turn)]
        BY DEF Finish, FinishState, OnProgress, FinishTerminal, NoCard, cardVars
      <4> QED
        BY <4>1, CardStateType DEF PromptInv, TypeOK, CardTypeOK
    <3>3. terminal' \in [Turns -> BOOLEAN]
      <4>1. \/ terminal' = terminal \/ terminal' = [terminal EXCEPT ![job] = TRUE]
        BY DEF Finish, FinishState, OnProgress, FinishTerminal, NoCard, cardVars
      <4> QED
        BY <4>1 DEF PromptInv, TypeOK, CardTypeOK
    <3> QED
      BY <3>1, <3>2, <3>3 DEF PromptInv, TypeOK, CardTypeOK
  <2> QED
    BY <2>1
    DEF PromptInv, TypeOK, ReplyTypeOK, Finish, Here, life, pool, tally, past, replyVars
<1>2. JobInv'
  BY MessageIs DEF PromptInv, TypeOK, JobInv, New, PromptSteps, Finish, Is, Goto, NoReply,
      NoCard, cardVars, Here, tally, life, pool, past, replyVars, FinishState,
      FinishTerminal, OnProgress
<1>3. BatchInv'
  BY MessageIs DEF PromptInv, TypeOK, JobInv, BatchInv, PromptSteps, Finish, Is, Goto,
      NoReply, NoCard, cardVars, Here, tally, life, pool, past, replyVars, FinishState,
      FinishTerminal, OnProgress
<1>4. FileInv'
  BY MessageIs DEF PromptInv, TypeOK, JobInv, FileInv, RowHasFile, New, Finish, Is, Goto,
      NoReply, NoCard, cardVars, Here, tally, life, pool, past, replyVars, FinishState,
      FinishTerminal, OnProgress
<1>5. ReplyInv'
  BY MessageIs DEF PromptInv, TypeOK, ReplyTypeOK, ReplyInv, ReplyShown, Finish, Is, Goto,
      NoReply, NoCard, cardVars, Here, tally, life, pool, past, replyVars, FinishState,
      FinishTerminal, OnProgress
<1>6. AnswerInv'
  BY MessageIs, KeyIs DEF PromptInv, TypeOK, JobInv, AnswerInv, New, Unused, Untried,
      Answered, BeforeFinal, BeforeTurn, PromptSteps, Finish, Is, Goto, NoReply, NoCard,
      cardVars, Here, tally, life, pool, past, replyVars, FinishState, FinishTerminal,
      OnProgress
<1>7. CardInv'
  BY MessageIs DEF PromptInv, TypeOK, CardTypeOK, JobInv, CardInv, CardOf, Unclosed, New,
      PromptSteps, AfterTurn, Finish, Is, Goto, NoReply, NoCard, cardVars, Here, tally,
      life, pool, past, replyVars, FinishState, FinishTerminal, OnProgress
<1>8. UsedInv'
  BY MessageIs DEF PromptInv, TypeOK, JobInv, UsedInv, UsedOf, New, BeforeTurn, PromptSteps,
      Finish, Is, Goto, NoReply, NoCard, cardVars, Here, tally, life, pool, past, replyVars,
      FinishState, FinishTerminal, OnProgress
<1> QED
  BY <1>1, <1>2, <1>3, <1>4, <1>5, <1>6, <1>7, <1>8 DEF PromptInv

\* The row is completed.
LEMMA MarkCompletedKeeps ==
  ASSUME PromptInv, MarkCompleted, UNCHANGED mail
  PROVE  PromptInv'
<1>1. TypeOK'
  <2>1. faults' \in 0..MaxFaults
    BY FaultType DEF PromptInv, TypeOK, MarkCompleted
  <2> QED
    BY <2>1, MessageIs DEF PromptInv, TypeOK, ReplyTypeOK, CardTypeOK, RowStates, Outcomes,
        MarkCompleted, Is, Goto, NoReply, NoCard, cardVars, Here, tally, life, pool, past,
        Mark
<1>2. JobInv'
  BY MessageIs DEF PromptInv, TypeOK, JobInv, New, PromptSteps, MarkCompleted, Is, Goto,
      NoReply, NoCard, cardVars, Here, tally, life, pool, past, Mark
<1>3. BatchInv'
  BY MessageIs DEF PromptInv, TypeOK, JobInv, BatchInv, PromptSteps, MarkCompleted, Is,
      Goto, NoReply, NoCard, cardVars, Here, tally, life, pool, past, Mark
<1>4. FileInv'
  BY MessageIs DEF PromptInv, TypeOK, JobInv, FileInv, RowHasFile, New, MarkCompleted, Is,
      Goto, NoReply, NoCard, cardVars, Here, tally, life, pool, past, Mark
<1>5. ReplyInv'
  BY MessageIs DEF PromptInv, TypeOK, ReplyTypeOK, ReplyInv, ReplyShown, MarkCompleted, Is,
      Goto, NoReply, NoCard, cardVars, Here, tally, life, pool, past, Mark
<1>6. AnswerInv'
  <2>1. UNCHANGED <<ledger, posted, sending, job, got, erred>> /\ job \in Messages /\ Answered(job)
    BY DEF MarkCompleted, Is, NoReply, Here, tally, PromptInv, JobInv, AnswerInv
  <2>2. \/ row' = [row EXCEPT ![job] = "completed"] /\ at' = "settle"
        \/ UNCHANGED row /\ at' = "mark_failed"
    BY DEF MarkCompleted, Mark, Goto
  <2>3. \A n \in Messages : New(n)' => New(n)
    BY <2>2 DEF PromptInv, TypeOK, New
  <2>4. (\A n \in Messages : New(n) => Unused(F(n)) /\ Unused(S(n)))'
    BY <2>1, <2>3 DEF PromptInv, AnswerInv, Unused
  <2>5. \A n \in Messages : Answered(n)' = Answered(n)
    BY <2>1 DEF Answered
  <2>6. (\A n \in Messages : row[n] = "completed" => Answered(n))'
    BY <2>1, <2>2, <2>5 DEF PromptInv, TypeOK, AnswerInv
  <2> QED
    BY <2>1, <2>2, <2>4, <2>5, <2>6 DEF AnswerInv, BeforeFinal, BeforeTurn
<1>7. CardInv'
  BY MessageIs DEF PromptInv, TypeOK, CardTypeOK, JobInv, CardInv, CardOf, Unclosed, New,
      PromptSteps, AfterTurn, MarkCompleted, Is, Goto, NoReply, NoCard, cardVars, Here,
      tally, life, pool, past, Mark
<1>8. UsedInv'
  BY MessageIs DEF PromptInv, TypeOK, JobInv, UsedInv, UsedOf, New, BeforeTurn, PromptSteps,
      MarkCompleted, Is, Goto, NoReply, NoCard, cardVars, Here, tally, life, pool, past,
      Mark
<1> QED
  BY <1>1, <1>2, <1>3, <1>4, <1>5, <1>6, <1>7, <1>8 DEF PromptInv

\* The row is failed, or stays as it is.
LEMMA MarkRowFailedKeeps ==
  ASSUME PromptInv, MarkRowFailed, UNCHANGED mail
  PROVE  PromptInv'
<1>1. TypeOK'
  <2>1. faults' \in 0..MaxFaults
    BY FaultType DEF PromptInv, TypeOK, MarkRowFailed
  <2> QED
    BY <2>1, MessageIs DEF PromptInv, TypeOK, ReplyTypeOK, CardTypeOK, RowStates, Outcomes,
        MarkRowFailed, Is, Goto, NoReply, NoCard, cardVars, Here, tally, life, pool, past,
        Mark
<1>2. JobInv'
  BY MessageIs DEF PromptInv, TypeOK, JobInv, New, PromptSteps, MarkRowFailed, Is, Goto,
      NoReply, NoCard, cardVars, Here, tally, life, pool, past, Mark
<1>3. BatchInv'
  BY MessageIs DEF PromptInv, TypeOK, JobInv, BatchInv, PromptSteps, MarkRowFailed, Is,
      Goto, NoReply, NoCard, cardVars, Here, tally, life, pool, past, Mark
<1>4. FileInv'
  BY MessageIs DEF PromptInv, TypeOK, JobInv, FileInv, RowHasFile, New, MarkRowFailed, Is,
      Goto, NoReply, NoCard, cardVars, Here, tally, life, pool, past, Mark
<1>5. ReplyInv'
  BY MessageIs DEF PromptInv, TypeOK, ReplyTypeOK, ReplyInv, ReplyShown, MarkRowFailed, Is,
      Goto, NoReply, NoCard, cardVars, Here, tally, life, pool, past, Mark
<1>6. AnswerInv'
  <2>1. UNCHANGED <<ledger, posted, sending, job, got, erred>> /\ job \in Messages
        /\ at' \in {"error", "settle"}
    BY DEF MarkRowFailed, Is, Goto, NoReply, Here, tally, PromptInv, JobInv
  <2>2. \A n \in Messages : /\ New(n)' => New(n)
                            /\ row'[n] = "completed" => row[n] = "completed"
    BY DEF PromptInv, TypeOK, MarkRowFailed, Mark, New
  <2> QED
    BY <2>1, <2>2, AnswersStay DEF AnswerInv, BeforeFinal, BeforeTurn
<1>7. CardInv'
  BY MessageIs DEF PromptInv, TypeOK, CardTypeOK, JobInv, CardInv, CardOf, Unclosed, New,
      PromptSteps, AfterTurn, MarkRowFailed, Is, Goto, NoReply, NoCard, cardVars, Here,
      tally, life, pool, past, Mark
<1>8. UsedInv'
  BY MessageIs DEF PromptInv, TypeOK, JobInv, UsedInv, UsedOf, New, BeforeTurn, PromptSteps,
      MarkRowFailed, Is, Goto, NoReply, NoCard, cardVars, Here, tally, life, pool, past,
      Mark
<1> QED
  BY <1>1, <1>2, <1>3, <1>4, <1>5, <1>6, <1>7, <1>8 DEF PromptInv

\* The claims of the prompt, read again.
LEMMA ListClaimedKeeps ==
  ASSUME PromptInv, ListClaimed, UNCHANGED mail
  PROVE  PromptInv'
<1>1. TypeOK'
  <2>1. faults' \in 0..MaxFaults
    BY FaultType DEF PromptInv, TypeOK, ListClaimed
  <2> QED
    BY <2>1, MessageIs DEF PromptInv, TypeOK, ReplyTypeOK, CardTypeOK, RowStates, Outcomes,
        ListClaimed, Is, Goto, NoReply, NoCard, cardVars, Here, tally, life, pool, past
<1>2. JobInv'
  BY MessageIs DEF PromptInv, TypeOK, JobInv, New, PromptSteps, ListClaimed, Is, Goto,
      NoReply, NoCard, cardVars, Here, tally, life, pool, past
<1>3. BatchInv'
  BY MessageIs DEF PromptInv, TypeOK, JobInv, BatchInv, PromptSteps, ListClaimed, Is, Goto,
      NoReply, NoCard, cardVars, Here, tally, life, pool, past
<1>4. FileInv'
  BY MessageIs DEF PromptInv, TypeOK, JobInv, FileInv, RowHasFile, New, ListClaimed, Is,
      Goto, NoReply, NoCard, cardVars, Here, tally, life, pool, past
<1>5. ReplyInv'
  BY MessageIs DEF PromptInv, TypeOK, ReplyTypeOK, ReplyInv, ReplyShown, ListClaimed, Is,
      Goto, NoReply, NoCard, cardVars, Here, tally, life, pool, past
<1>6. AnswerInv'
  BY MessageIs, KeyIs DEF PromptInv, TypeOK, JobInv, AnswerInv, New, Unused, Untried,
      Answered, BeforeFinal, BeforeTurn, PromptSteps, ListClaimed, Is, Goto, NoReply,
      NoCard, cardVars, Here, tally, life, pool, past
<1>7. CardInv'
  BY MessageIs DEF PromptInv, TypeOK, CardTypeOK, JobInv, CardInv, CardOf, Unclosed, New,
      PromptSteps, AfterTurn, ListClaimed, Is, Goto, NoReply, NoCard, cardVars, Here, tally,
      life, pool, past
<1>8. UsedInv'
  BY MessageIs DEF PromptInv, TypeOK, JobInv, UsedInv, UsedOf, New, BeforeTurn, PromptSteps,
      ListClaimed, Is, Goto, NoReply, NoCard, cardVars, Here, tally, life, pool, past
<1> QED
  BY <1>1, <1>2, <1>3, <1>4, <1>5, <1>6, <1>7, <1>8 DEF PromptInv

\* Claims are given up or given back.
LEMMA SettleKeeps ==
  ASSUME PromptInv, Settle, UNCHANGED mail
  PROVE  PromptInv'
<1>1. TypeOK'
  <2>1. faults' \in 0..MaxFaults
    BY FaultType DEF PromptInv, TypeOK, Settle
  <2> QED
    BY <2>1, MessageIs DEF PromptInv, TypeOK, ReplyTypeOK, CardTypeOK, RowStates, Outcomes,
        Settle, Is, Goto, NoReply, NoCard, cardVars, Here, tally, life, rows, pool, past,
        Consumed, Drop
<1>2. JobInv'
  BY MessageIs DEF PromptInv, TypeOK, JobInv, New, PromptSteps, Settle, Is, Goto, NoReply,
      NoCard, cardVars, Here, tally, life, rows, pool, past, Consumed, Drop
<1>3. BatchInv'
  BY MessageIs DEF PromptInv, TypeOK, JobInv, BatchInv, PromptSteps, Settle, Is, Goto,
      NoReply, NoCard, cardVars, Here, tally, life, rows, pool, past, Consumed, Drop
<1>4. FileInv'
  BY MessageIs DEF PromptInv, TypeOK, JobInv, FileInv, RowHasFile, New, Settle, Is, Goto,
      NoReply, NoCard, cardVars, Here, tally, life, rows, pool, past, Consumed, Drop
<1>5. ReplyInv'
  BY MessageIs DEF PromptInv, TypeOK, ReplyTypeOK, ReplyInv, ReplyShown, Settle, Is, Goto,
      NoReply, NoCard, cardVars, Here, tally, life, rows, pool, past, Consumed, Drop
<1>6. AnswerInv'
  BY MessageIs, KeyIs DEF PromptInv, TypeOK, JobInv, AnswerInv, New, Unused, Untried,
      Answered, BeforeFinal, BeforeTurn, PromptSteps, Settle, Is, Goto, NoReply, NoCard,
      cardVars, Here, tally, life, rows, pool, past, Consumed, Drop
<1>7. CardInv'
  BY MessageIs DEF PromptInv, TypeOK, CardTypeOK, JobInv, CardInv, CardOf, Unclosed, New,
      PromptSteps, AfterTurn, Settle, Is, Goto, NoReply, NoCard, cardVars, Here, tally,
      life, rows, pool, past, Consumed, Drop
<1>8. UsedInv'
  BY MessageIs DEF PromptInv, TypeOK, JobInv, UsedInv, UsedOf, New, BeforeTurn, PromptSteps,
      Settle, Is, Goto, NoReply, NoCard, cardVars, Here, tally, life, rows, pool, past,
      Consumed, Drop, BatchInv
<1> QED
  BY <1>1, <1>2, <1>3, <1>4, <1>5, <1>6, <1>7, <1>8 DEF PromptInv

\* A native event reaches the card.
LEMMA ProgressKeeps ==
  ASSUME PromptInv, Progress, UNCHANGED mail
  PROVE  PromptInv'
<1>1. TypeOK'
  BY FaultType, MessageIs DEF PromptInv, TypeOK, ReplyTypeOK, CardTypeOK, RowStates,
      Outcomes, Progress, rows, pool, work, past, life, tally, replyVars, OnProgress, Is,
      CardStates
<1>2. JobInv'
  BY MessageIs DEF PromptInv, TypeOK, JobInv, New, PromptSteps, Progress, rows, pool, work,
      past, life, tally, replyVars, OnProgress, Is
<1>3. BatchInv'
  BY MessageIs DEF PromptInv, TypeOK, JobInv, BatchInv, PromptSteps, Progress, rows, pool,
      work, past, life, tally, replyVars, OnProgress, Is
<1>4. FileInv'
  BY MessageIs DEF PromptInv, TypeOK, JobInv, FileInv, RowHasFile, New, Progress, rows,
      pool, work, past, life, tally, replyVars, OnProgress, Is
<1>5. ReplyInv'
  BY MessageIs DEF PromptInv, TypeOK, ReplyTypeOK, ReplyInv, ReplyShown, Progress, rows,
      pool, work, past, life, tally, replyVars, OnProgress, Is
<1>6. AnswerInv'
  BY MessageIs, KeyIs DEF PromptInv, TypeOK, JobInv, AnswerInv, New, Unused, Untried,
      Answered, BeforeFinal, BeforeTurn, PromptSteps, Progress, rows, pool, work, past,
      life, tally, replyVars, OnProgress, Is
<1>7. CardInv'
  BY MessageIs DEF PromptInv, TypeOK, CardTypeOK, JobInv, CardInv, CardOf, Unclosed, New,
      PromptSteps, AfterTurn, Progress, rows, pool, work, past, life, tally, replyVars,
      OnProgress, Is
<1>8. UsedInv'
  BY MessageIs DEF PromptInv, TypeOK, JobInv, UsedInv, UsedOf, New, BeforeTurn, PromptSteps,
      Progress, rows, pool, work, past, life, tally, replyVars, OnProgress, Is
<1> QED
  BY <1>1, <1>2, <1>3, <1>4, <1>5, <1>6, <1>7, <1>8 DEF PromptInv

\* The card thread draws, or updates the card.
LEMMA CardThreadKeeps ==
  ASSUME PromptInv, NEW p \in Turns, CardThread(p), UNCHANGED mail
  PROVE  PromptInv'
<1>1. TypeOK'
  <2>1. CardTypeOK'
    <3>1. CASE Draw(p)
      BY <3>1 DEF PromptInv, TypeOK, CardTypeOK, Draw, Card
    <3>2. CASE Update(p)
      <4>1. Undrawn \in [state : CardStates, terminal : BOOLEAN]
        BY DEF Undrawn, CardStates
      <4>2. drawn[p].state \in CardStates
        BY DEF PromptInv, TypeOK, CardTypeOK
      <4> QED
        BY <3>2, <4>1, <4>2 DEF PromptInv, TypeOK, CardTypeOK, Update, Card, AfterUpdate
    <3> QED
      BY <3>1, <3>2 DEF CardThread, CardStep
  <2> QED
    BY <2>1
    DEF PromptInv, TypeOK, ReplyTypeOK, CardThread, rows, pool, work, past, life, tally, replyVars
<1>2. JobInv'
  BY MessageIs DEF PromptInv, TypeOK, JobInv, New, PromptSteps, CardThread, rows, pool,
      work, past, life, tally, replyVars, CardStep, Draw, Update, Card
<1>3. BatchInv'
  BY MessageIs DEF PromptInv, TypeOK, JobInv, BatchInv, PromptSteps, CardThread, rows, pool,
      work, past, life, tally, replyVars, CardStep, Draw, Update, Card
<1>4. FileInv'
  BY MessageIs DEF PromptInv, TypeOK, JobInv, FileInv, RowHasFile, New, CardThread, rows,
      pool, work, past, life, tally, replyVars, CardStep, Draw, Update, Card
<1>5. ReplyInv'
  BY MessageIs DEF PromptInv, TypeOK, ReplyTypeOK, ReplyInv, ReplyShown, CardThread, rows,
      pool, work, past, life, tally, replyVars, CardStep, Draw, Update, Card
<1>6. AnswerInv'
  BY MessageIs, KeyIs DEF PromptInv, TypeOK, JobInv, AnswerInv, New, Unused, Untried,
      Answered, BeforeFinal, BeforeTurn, PromptSteps, CardThread, rows, pool, work, past,
      life, tally, replyVars, CardStep, Draw, Update, Card
<1>7. CardInv'
  BY MessageIs DEF PromptInv, TypeOK, CardTypeOK, JobInv, CardInv, CardOf, Unclosed, New,
      PromptSteps, AfterTurn, CardThread, rows, pool, work, past, life, tally, replyVars,
      CardStep, Draw, Update, Card, Undrawn, AfterUpdate
<1>8. UsedInv'
  BY MessageIs DEF PromptInv, TypeOK, JobInv, UsedInv, UsedOf, New, BeforeTurn, PromptSteps,
      CardThread, rows, pool, work, past, life, tally, replyVars, CardStep, Draw, Update,
      Card
<1> QED
  BY <1>1, <1>2, <1>3, <1>4, <1>5, <1>6, <1>7, <1>8 DEF PromptInv

\* The process dies.
LEMMA CrashKeeps ==
  ASSUME PromptInv, Crash, UNCHANGED mail
  PROVE  PromptInv'
<1>1. TypeOK'
  <2>1. CardTypeOK'
    <3>1. Undrawn \in [state : CardStates, terminal : BOOLEAN] /\ "accepted" \in CardStates
      BY DEF Undrawn, CardStates
    <3> QED
      BY <3>1 DEF PromptInv, TypeOK, CardTypeOK, Crash, ForgetCards
  <2>2. ReplyTypeOK'
    BY DEF PromptInv, TypeOK, ReplyTypeOK, Crash, ForgetSends, SendSteps
  <2>3. crashes' \in 0..MaxCrashes
    BY PromptAssumption DEF PromptInv, TypeOK, Crash
  <2> QED
    BY <2>1, <2>2, <2>3 DEF PromptInv, TypeOK, Crash, Drop, Outcomes, rows, pool, past
<1>2. JobInv'
  BY MessageIs DEF PromptInv, TypeOK, JobInv, New, PromptSteps, Crash, Goto, Drop,
      ForgetSends, ForgetCards, rows, pool, past
<1>3. BatchInv'
  BY MessageIs DEF PromptInv, TypeOK, JobInv, BatchInv, PromptSteps, Crash, Goto, Drop,
      ForgetSends, ForgetCards, rows, pool, past
<1>4. FileInv'
  BY MessageIs DEF PromptInv, TypeOK, JobInv, FileInv, RowHasFile, New, Crash, Goto, Drop,
      ForgetSends, ForgetCards, rows, pool, past
<1>5. ReplyInv'
  BY MessageIs DEF PromptInv, TypeOK, ReplyTypeOK, ReplyInv, ReplyShown, Crash, Goto, Drop,
      ForgetSends, ForgetCards, rows, pool, past
<1>6. AnswerInv'
  BY MessageIs, KeyIs DEF PromptInv, TypeOK, JobInv, AnswerInv, New, Unused, Untried,
      Answered, BeforeFinal, BeforeTurn, PromptSteps, Crash, Goto, Drop, ForgetSends,
      ForgetCards, rows, pool, past
<1>7. CardInv'
  BY MessageIs DEF PromptInv, TypeOK, CardTypeOK, JobInv, CardInv, CardOf, Unclosed, New,
      PromptSteps, AfterTurn, Crash, Goto, Drop, ForgetSends, ForgetCards, rows, pool, past,
      Undrawn
<1>8. UsedInv'
  BY MessageIs DEF PromptInv, TypeOK, JobInv, UsedInv, UsedOf, New, BeforeTurn, PromptSteps,
      Crash, Goto, Drop, ForgetSends, ForgetCards, rows, pool, past
<1> QED
  BY <1>1, <1>2, <1>3, <1>4, <1>5, <1>6, <1>7, <1>8 DEF PromptInv

\* Rows that were running are interrupted, their claims released.
LEMMA RecoverKeeps ==
  ASSUME PromptInv, Recover, UNCHANGED mail
  PROVE  PromptInv'
<1>1. TypeOK'
  BY FaultType, MessageIs DEF PromptInv, TypeOK, ReplyTypeOK, CardTypeOK, RowStates,
      Outcomes, Recover, Unclaimed, FailPending, cardVars, work, tally, past
<1>2. JobInv'
  BY MessageIs DEF PromptInv, TypeOK, JobInv, New, PromptSteps, Recover, Unclaimed,
      FailPending, cardVars, work, tally, past
<1>3. BatchInv'
  BY MessageIs DEF PromptInv, TypeOK, JobInv, BatchInv, PromptSteps, Recover, Unclaimed,
      FailPending, cardVars, work, tally, past
<1>4. FileInv'
  BY MessageIs DEF PromptInv, TypeOK, JobInv, FileInv, RowHasFile, New, Recover, Unclaimed,
      FailPending, cardVars, work, tally, past
<1>5. ReplyInv'
  BY MessageIs DEF PromptInv, TypeOK, ReplyTypeOK, ReplyInv, ReplyShown, Recover, Unclaimed,
      FailPending, cardVars, work, tally, past
<1>6. AnswerInv'
  BY MessageIs, KeyIs DEF PromptInv, TypeOK, JobInv, AnswerInv, New, Unused, Untried,
      Answered, BeforeFinal, BeforeTurn, PromptSteps, Recover, Unclaimed, FailPending,
      cardVars, work, tally, past
<1>7. CardInv'
  BY MessageIs DEF PromptInv, TypeOK, CardTypeOK, JobInv, CardInv, CardOf, Unclosed, New,
      PromptSteps, AfterTurn, Recover, Unclaimed, FailPending, cardVars, work, tally, past
<1>8. UsedInv'
  BY MessageIs DEF PromptInv, TypeOK, JobInv, UsedInv, UsedOf, New, BeforeTurn, PromptSteps,
      Recover, Unclaimed, FailPending, cardVars, work, tally, past
<1> QED
  BY <1>1, <1>2, <1>3, <1>4, <1>5, <1>6, <1>7, <1>8 DEF PromptInv

\* Old rows go, and attachments nobody can claim.
LEMMA PruneKeeps ==
  ASSUME PromptInv, Prune, UNCHANGED mail
  PROVE  PromptInv'
<1>1. TypeOK'
  <2>1. faults' \in 0..MaxFaults
    BY FaultType DEF PromptInv, TypeOK, Prune
  <2> QED
    BY <2>1, MessageIs DEF PromptInv, TypeOK, ReplyTypeOK, CardTypeOK, RowStates, Outcomes,
        Prune, Abandoned, Aged, cardVars, work, tally, past
<1>2. JobInv'
  BY MessageIs DEF PromptInv, TypeOK, JobInv, New, PromptSteps, Prune, Abandoned, Aged,
      cardVars, work, tally, past
<1>3. BatchInv'
  BY MessageIs DEF PromptInv, TypeOK, JobInv, BatchInv, PromptSteps, Prune, Abandoned, Aged,
      cardVars, work, tally, past
<1>4. FileInv'
  BY MessageIs DEF PromptInv, TypeOK, JobInv, FileInv, RowHasFile, New, Prune, Abandoned,
      Aged, cardVars, work, tally, past
<1>5. ReplyInv'
  BY MessageIs DEF PromptInv, TypeOK, ReplyTypeOK, ReplyInv, ReplyShown, Prune, Abandoned,
      Aged, cardVars, work, tally, past
<1>6. AnswerInv'
  <2>1. UNCHANGED <<posted, sending, at, job, got, erred>> /\ at = "idle"
    BY DEF Prune, work, tally, PromptInv, JobInv
  <2>2. \A n \in Messages : /\ New(n)' => New(n) /\ ledger'[F(n)] = ledger[F(n)]
                                               /\ ledger'[S(n)] = ledger[S(n)]
                            /\ row'[n] = "completed" => row[n] = "completed"
    <3>1. \A n \in Messages : F(n) \in Keys /\ S(n) \in Keys /\ F(n)[1] = n /\ S(n)[1] = n
      BY KeyIs DEF F, S, Phases
    <3>2. \/ UNCHANGED <<row, ledger>>
          \/ /\ \A n \in Messages : row'[n] = row[n] \/ row'[n] = "pruned"
             /\ \A k \in Keys : row'[k[1]] = "pruned" \/ ledger'[k] = ledger[k]
      BY DEF PromptInv, TypeOK, Prune
    <3> QED
      BY <3>1, <3>2 DEF New
  <2>3. (\A n \in Messages : New(n) => Unused(F(n)) /\ Unused(S(n)))'
    BY <2>1, <2>2 DEF PromptInv, AnswerInv, Unused
  <2>4. (\A n \in Messages : row[n] = "completed" => Answered(n))'
    BY <2>1, <2>2 DEF PromptInv, AnswerInv, Answered
  <2> QED
    BY <2>1, <2>3, <2>4 DEF AnswerInv, BeforeFinal, BeforeTurn
<1>7. CardInv'
  BY MessageIs DEF PromptInv, TypeOK, CardTypeOK, JobInv, CardInv, CardOf, Unclosed, New,
      PromptSteps, AfterTurn, Prune, Abandoned, Aged, cardVars, work, tally, past
<1>8. UsedInv'
  BY MessageIs DEF PromptInv, TypeOK, JobInv, UsedInv, UsedOf, New, BeforeTurn, PromptSteps,
      Prune, Abandoned, Aged, cardVars, work, tally, past
<1> QED
  BY <1>1, <1>2, <1>3, <1>4, <1>5, <1>6, <1>7, <1>8 DEF PromptInv

\* Files without a row go.
LEMMA CleanCacheKeeps ==
  ASSUME PromptInv, CleanCache, UNCHANGED mail
  PROVE  PromptInv'
<1>1. TypeOK'
  BY FaultType, MessageIs DEF PromptInv, TypeOK, ReplyTypeOK, CardTypeOK, RowStates,
      Outcomes, CleanCache, replyVars, cardVars, rows, work, tally, past, Swept
<1>2. JobInv'
  BY MessageIs DEF PromptInv, TypeOK, JobInv, New, PromptSteps, CleanCache, replyVars,
      cardVars, rows, work, tally, past, Swept
<1>3. BatchInv'
  BY MessageIs DEF PromptInv, TypeOK, JobInv, BatchInv, PromptSteps, CleanCache, replyVars,
      cardVars, rows, work, tally, past, Swept
<1>4. FileInv'
  BY MessageIs DEF PromptInv, TypeOK, JobInv, FileInv, RowHasFile, New, CleanCache,
      replyVars, cardVars, rows, work, tally, past, Swept
<1>5. ReplyInv'
  BY MessageIs DEF PromptInv, TypeOK, ReplyTypeOK, ReplyInv, ReplyShown, CleanCache,
      replyVars, cardVars, rows, work, tally, past, Swept
<1>6. AnswerInv'
  BY MessageIs, KeyIs DEF PromptInv, TypeOK, JobInv, AnswerInv, New, Unused, Untried,
      Answered, BeforeFinal, BeforeTurn, PromptSteps, CleanCache, replyVars, cardVars, rows,
      work, tally, past, Swept
<1>7. CardInv'
  BY MessageIs DEF PromptInv, TypeOK, CardTypeOK, JobInv, CardInv, CardOf, Unclosed, New,
      PromptSteps, AfterTurn, CleanCache, replyVars, cardVars, rows, work, tally, past,
      Swept
<1>8. UsedInv'
  BY MessageIs DEF PromptInv, TypeOK, JobInv, UsedInv, UsedOf, New, BeforeTurn, PromptSteps,
      CleanCache, replyVars, cardVars, rows, work, tally, past, Swept
<1> QED
  BY <1>1, <1>2, <1>3, <1>4, <1>5, <1>6, <1>7, <1>8 DEF PromptInv

-----------------------------------------------------------------------------
(* The invariant *)

\* Nothing has arrived, and the worker is idle.
LEMMA InitHolds == Init => PromptInv
<1> SUFFICES ASSUME Init  PROVE PromptInv
  OBVIOUS
<1>1. TypeOK
  <2>1. ReplyTypeOK
    BY LedgerAssumption DEF Init, ReplyInit, ReplyTypeOK, SendSteps
  <2>2. CardTypeOK
    BY DEF Init, CardInit, CardTypeOK, Undrawn, CardStates
  <2>3. MaxCrashes \in Nat
    BY PromptAssumption
  <2>4. row \in [Messages -> RowStates] /\ turn \in Outcomes
    BY DEF Init, RowStates, Outcomes
  <2>5. /\ held \subseteq Attachments /\ file \subseteq Attachments /\ batch \subseteq Attachments
        /\ used \in [Attachments -> SUBSET Prompts] /\ ended \in [Turns -> Outcomes]
        /\ claim \in [Attachments -> Prompts \cup {NoMessage}]
    BY DEF Init, Outcomes
  <2>6. mail \in Mails /\ job \in Messages \cup {NoMessage} /\ arrived \in [Messages -> Nat]
        /\ staged \in [Attachments -> Nat]
    BY DEF Init
  <2>7. bound \in BOOLEAN /\ got \in BOOLEAN /\ erred \in BOOLEAN
    BY DEF Init
  <2>8. up \in {"down", "starting", "pruned", "up"} /\ crashes \in 0..MaxCrashes
    BY <2>3 DEF Init
  <2> QED
    BY <2>1, <2>2, <2>4, <2>5, <2>6, <2>7, <2>8 DEF TypeOK
<1>2. JobInv /\ BatchInv /\ FileInv
  BY DEF Init, JobInv, BatchInv, FileInv, RowHasFile, PromptSteps
<1>3. ReplyInv /\ AnswerInv
  BY KeyIs DEF Init, ReplyInit, ReplyInv, ReplyShown, AnswerInv, New, Unused, Untried, BeforeFinal,
      BeforeTurn
<1>4. CardInv
  BY MessageIs DEF Init, CardInit, CardInv, CardOf, Unclosed, Undrawn, PromptSteps, AfterTurn
<1>5. UsedInv
  BY DEF Init, UsedInv, UsedOf, BeforeTurn
<1> QED
  BY <1>1, <1>2, <1>3, <1>4, <1>5 DEF PromptInv

\* A step that changes nothing.
LEMMA StutterKeeps == PromptInv /\ UNCHANGED vars => PromptInv'
<1> SUFFICES ASSUME PromptInv, UNCHANGED vars  PROVE PromptInv'
  OBVIOUS
<1> USE DEF vars, replyVars, cardVars, rows, pool, tally, work, life, past
<1>1. TypeOK'
  BY DEF PromptInv, TypeOK, ReplyTypeOK, CardTypeOK
<1>2. JobInv' /\ BatchInv' /\ FileInv'
  BY DEF PromptInv, JobInv, BatchInv, FileInv, RowHasFile, New
<1>3. ReplyInv' /\ AnswerInv'
  BY DEF PromptInv, ReplyInv, ReplyShown, AnswerInv, New, Unused, Untried, Answered
<1>4. CardInv'
  BY DEF PromptInv, CardInv, CardOf, Unclosed, New
<1>5. UsedInv'
  BY DEF PromptInv, UsedInv, UsedOf, New
<1> QED
  BY <1>1, <1>2, <1>3, <1>4, <1>5 DEF PromptInv

\* Every step of the worker, the card threads, the gateway and the process.
LEMMA NextKeeps == PromptInv /\ [Next]_vars => PromptInv'
<1> SUFFICES ASSUME PromptInv, Next  PROVE PromptInv'
  BY StutterKeeps
<1>1. UNCHANGED mail
  BY DEF Next
<1>2. CASE \E m \in Messages : Receive(m)
  BY <1>1, <1>2, ReceiveKeeps
<1>3. CASE Worker
  BY <1>1, <1>3, ClaimKeeps, DownloadKeeps, AddAttachmentKeeps, CheckSessionKeeps,
     ClaimAttachmentsKeeps, PrepareKeeps, ShowCardKeeps, StartTurnKeeps, EndTurnKeeps,
     FinalizeKeeps, BindKeeps, CollectKeeps, SendKeeps, ReturnKeeps, SumKeeps, ClearKeeps,
     UnlinkKeeps, FinishKeeps, MarkCompletedKeeps, MarkRowFailedKeeps, ListClaimedKeeps,
     SettleKeeps DEF Worker
<1>4. CASE Progress
  BY <1>1, <1>4, ProgressKeeps
<1>5. CASE \E p \in Turns : CardThread(p)
  BY <1>1, <1>5, CardThreadKeeps
<1>6. CASE Crash \/ Startup
  BY <1>1, <1>6, CrashKeeps, RecoverKeeps, PruneKeeps, CleanCacheKeeps DEF Startup
<1> QED
  BY <1>2, <1>3, <1>4, <1>5, <1>6 DEF Next

\* The inductive invariant holds in every reachable state.
THEOREM PromptInvariant == Spec => []PromptInv
  BY InitHolds, NextKeeps, PTL DEF Spec

-----------------------------------------------------------------------------
(* Theorems *)

\* Every attachment that waits has its cached file: rows are removed before the
\* files they name, and added after them (attachments.py).
THEOREM RowsHaveFiles == Spec => []RowHasFile
<1>1. PromptInv => RowHasFile
  BY DEF PromptInv, FileInv
<1> QED
  BY <1>1, PromptInvariant, PTL

\* However often the call of a reply is repeated, the API shows one message for it,
\* and none that belongs to another reply: its UUID is a function of the key, told
\* apart like the keys (replies.py, deterministic_reply_uuid, _send).
THEOREM RepliesAreShownOnce == Spec => []SentOnce
<1>1. PromptInv => SentOnce
  <2> SUFFICES ASSUME PromptInv, NEW k \in Keys
               PROVE  Cardinality(posted[k]) <= 1 /\ (ledger[k] = "sent" => posted[k] # {})
    BY DEF SentOnce
  <2>1. ReplyShown(k)
    BY DEF PromptInv, ReplyInv
  <2>2. posted[k] = {} \/ posted[k] = {k}
    BY <2>1 DEF ReplyShown
  <2>3. Cardinality({}) = 0 /\ Cardinality({k}) = 1
    BY FS_EmptySet, FS_Singleton
  <2> QED
    BY <2>1, <2>2, <2>3 DEF ReplyShown
<1> QED
  BY <1>1, PromptInvariant, PTL

\* A row that is completed has an answer on the screen, or the notice that its chat
\* has no session, whatever failed on the way (daemon.py, process_one; code_runtime.py,
\* handle_prompt and deliver_final).
THEOREM CompletedAreAnswered == Spec => []CompletedWasAnswered
<1>1. PromptInv => CompletedWasAnswered
  BY DEF PromptInv, AnswerInv, Answered, CompletedWasAnswered, Shown, F, P, S
<1> QED
  BY <1>1, PromptInvariant, PTL

\* A card whose thread ended by itself shows how its turn ended
\* (FeishuTurnProgress.finish and _run).
THEOREM CardsShowTheOutcome == Spec => []LastCardIsOutcome
<1>1. PromptInv => LastCardIsOutcome
  BY DEF PromptInv, CardInv, CardOf, LastCardIsOutcome
<1> QED
  BY <1>1, PromptInvariant, PTL

\* Only the start of a turn uses attachments (CodeSurfaceRuntime.handle_prompt).
LEMMA OnlyTurnsUse ==
  ASSUME [Next]_vars
  PROVE  UNCHANGED used \/ StartTurn
  BY DEF Next, vars, Worker, Startup, past, Receive, Claim, Download, AddAttachment, CheckSession,
      ClaimAttachments, Prepare, ShowCard, EndTurn, Finalize, Bind, Collect, Send, Return, Sum,
      Clear, Unlink, Finish, MarkCompleted, MarkRowFailed, ListClaimed, Settle, Progress,
      CardThread, Crash, Recover, Prune, CleanCache

\* No attachment of a completed task is given to a turn again.
THEOREM AttachmentsAreUsedOnce == Spec => ConsumedOnce
<1> DEFINE Once == \A a \in Attachments, p \in Prompts :
                     (used[a] # used'[a] /\ p \in used[a]) => row[p] # "completed"
<1>1. ASSUME PromptInv, [Next]_vars  PROVE Once
  <2> SUFFICES ASSUME NEW a \in Attachments, NEW p \in Prompts, StartTurn,
                      used[a] # used'[a], p \in used[a], row[p] = "completed"
               PROVE  FALSE
    BY <1>1, OnlyTurnsUse
  <2>1. at = "turn" /\ a \in batch
    BY <1>1 DEF StartTurn, Is, PromptInv, TypeOK
  <2>2. a \in held /\ claim[a] = job
    BY <1>1, <2>1 DEF PromptInv, BatchInv
  <2>3. claim[a] = p
    BY <1>1, <2>2 DEF PromptInv, UsedInv, UsedOf
  <2>4. job \notin used[a]
    BY <1>1, <2>1 DEF PromptInv, UsedInv, UsedOf, BeforeTurn
  <2> QED
    BY <2>2, <2>3, <2>4
<1> QED
  BY <1>1, PromptInvariant, PTL DEF Spec, ConsumedOnce

\* Attachments are given up by a prompt that has claimed them, or by a start.
LEMMA OnlyThreeGiveUp ==
  ASSUME [Next]_vars, TypeOK
  PROVE  held \subseteq held' \/ Clear \/ Settle \/ Prune
  BY DEF TypeOK, Next, vars, Worker, Startup, pool, Receive, Claim, Download, AddAttachment,
      CheckSession, ClaimAttachments, Prepare, ShowCard, StartTurn, EndTurn, Finalize, Bind,
      Collect, Send, Return, Sum, Unlink, Finish, MarkCompleted, MarkRowFailed, ListClaimed,
      Progress, CardThread, Crash, Recover, CleanCache

\* An attachment nobody took stays while a later prompt waits that could take it; at
\* a start, one that came after the file was staged (clear_pending_attachments,
\* prune_history).
THEOREM AttachmentsAreKept == Spec => KeptForItsPrompt
<1> DEFINE Kept == \A a \in held \ held', p \in Prompts :
                     (used[a] = {} /\ claim[a] = NoMessage)
                       => ~(/\ row[p] = "queued"
                            /\ arrived[p] > IF up = "starting" THEN staged[a] ELSE arrived[a])
<1>1. ASSUME PromptInv, [Next]_vars  PROVE Kept
  <2> SUFFICES ASSUME NEW a \in held \ held', NEW p \in Prompts, claim[a] = NoMessage,
                      row[p] = "queued",
                      arrived[p] > IF up = "starting" THEN staged[a] ELSE arrived[a]
               PROVE  FALSE
    OBVIOUS
  <2>1. Clear \/ Settle \/ Prune
    BY <1>1, OnlyThreeGiveUp DEF PromptInv
  <2>2. at # "idle" => a \notin batch
    BY <1>1, MessageIs DEF PromptInv, BatchInv, JobInv
  <2>3. CASE Clear
    BY <2>2, <2>3 DEF Clear, Cleared, Is
  <2>4. CASE Settle
    BY <2>2, <2>4 DEF Settle, Is, pool
  <2>5. CASE Prune
    <3>1. Aged(a)
      BY <2>5 DEF Prune, Abandoned, pool
    <3>2. p \in Messages /\ up = "starting"
      BY <2>5, MessageIs DEF Prune
    <3> QED
      BY <3>1, <3>2 DEF Aged, Waiting
  <2> QED
    BY <2>1, <2>3, <2>4, <2>5
<1> QED
  BY <1>1, PromptInvariant, PTL DEF Spec, KeptForItsPrompt
=============================================================================
