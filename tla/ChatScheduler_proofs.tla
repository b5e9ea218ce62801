------------------------ MODULE ChatScheduler_proofs ------------------------
(***************************************************************************)
(* Safety of ChatScheduler for every set of chats, messages and workers    *)
(* and every bound on SQLite errors: type correctness, one token per chat, *)
(* one executor per message, and no replay of ended work.                  *)
(***************************************************************************)
EXTENDS ChatScheduler, FiniteSetTheorems, SequenceTheorems,
        WellFoundedInduction, TLAPS

\* A worker has a chat exactly between taking its token and releasing it, and
\* a message of that chat exactly between selecting and ending it.
LocalsOK ==
  \A w \in Workers :
    /\ phase[w] \in {"idle", "exited"} <=> chat[w] = NoChat
    /\ phase[w] \in {"chosen", "running"} <=> job[w] # NoMessage
    /\ job[w] # NoMessage => ChatOf[job[w]] = chat[w]

\* Only scheduled chats have tokens, and only owned chats are active.
TokensOK ==
  /\ \A i \in DOMAIN queue : queue[i] \in scheduled
  /\ \A w \in Workers : chat[w] # NoChat => chat[w] \in scheduled
  /\ \A c \in active : \E w \in Workers : Owns(w, c)

\* A process that is down remembers nothing.
DownOK ==
  daemon = "down" =>
    /\ queue = <<>> /\ scheduled = {} /\ active = {}
    /\ \A w \in Workers : phase[w] = "idle"
    /\ \A m \in Messages : callback[m] = "none"

\* What callbacks and executions say of rows.
RowsOK ==
  /\ \A m \in Messages :
       /\ callback[m] = "stamped" => status[m] = "absent"
       /\ callback[m] \in {"claimed", "interrupting"} => status[m] = "running"
       /\ callback[m] \in {"claimed", "interrupting"} =>
            Kind[m] \in {"control", "redirect"}
       /\ callback[m] \in {"interrupting", "rewritten", "requeued"} =>
            Kind[m] = "redirect"
  /\ \A w \in Workers : phase[w] = "running" =>
       status[job[w]] \notin {"absent", "queued"}

\* The discipline of tokens, as one predicate.
Tokens == TokensOK /\ OneTokenPerChat /\ ScheduledHasToken

\* The inductive invariant.
SchedulerInv ==
  /\ TypeOK /\ LocalsOK /\ Tokens /\ DownOK
  /\ RowsOK /\ OneExecutor /\ PromptRowIsRunning

-----------------------------------------------------------------------------
(* Type correctness.                                                       *)

\* A chat has finitely many queued rows, whose number seeds its pending count.
LEMMA QueuedFinite ==
  ASSUME NEW c
  PROVE  IsFiniteSet(Queued(c)) /\ Cardinality(Queued(c)) \in Nat
<1>1. Queued(c) \subseteq Messages  BY DEF Queued
<1>2. QED  BY <1>1, FS_Subset, FS_CardinalityType, SchedulerAssumption

\* next_queued_message_id returns a queued row of the chat when there is one,
\* and none of them is older.
LEMMA NextQueuedExists ==
  ASSUME TypeOK, NEW c \in Chats, Queued(c) # {}
  PROVE  /\ NextQueued(c) \in Queued(c)
         /\ \A n \in Queued(c) : receivedAt[NextQueued(c)] <= receivedAt[n]
<1> DEFINE R == {receivedAt[m] : m \in Queued(c)}
<1>1. R \subseteq Nat /\ R # {}  BY DEF TypeOK, Queued
<1>2. PICK r \in R : \A n \in R : r <= n
  <2> HIDE DEF R
  <2>1. PICK r \in R : \A n \in R : ~(<<n, r>> \in OpToRel(<, Nat))
    BY <1>1, NatLessThanWellFounded, WFMin
  <2>2. \A n \in R : ~(n < r)  BY <1>1, <2>1 DEF OpToRel
  <2>3. QED  BY <1>1, <2>2
<1>3. PICK m \in Queued(c) : receivedAt[m] = r  BY <1>2
<1>4. \A n \in Queued(c) : receivedAt[m] <= receivedAt[n]  BY <1>2, <1>3
<1>5. QED  BY <1>3, <1>4 DEF NextQueued

\* The daemon starts in a state of the invariant.
LEMMA InitInv == Init => SchedulerInv
<1> SUFFICES ASSUME Init PROVE SchedulerInv  OBVIOUS
<1> USE SchedulerAssumption DEF Init
<1>1. TypeOK  BY DEF TypeOK, RowStatus, Phases, CallbackPhases
<1>2. LocalsOK /\ TokensOK /\ DownOK /\ RowsOK
  BY DEF LocalsOK, TokensOK, DownOK, RowsOK
<1>3. OneTokenPerChat /\ ScheduledHasToken
  BY DEF OneTokenPerChat, ScheduledHasToken
<1>4. OneExecutor /\ PromptRowIsRunning  BY DEF OneExecutor, PromptRowIsRunning
<1>5. QED  BY <1>1, <1>2, <1>3, <1>4 DEF SchedulerInv, Tokens

\* The discipline of tokens looks at queue, marks and owners only.
LEMMA TokensStutter ==
  ASSUME Tokens, UNCHANGED <<queue, scheduled, active, chat, phase>>
  PROVE  Tokens'
<1>1. TokensOK'  BY DEF Tokens, TokensOK, Owns
<1>2. OneTokenPerChat'  BY DEF Tokens, OneTokenPerChat
<1>3. ScheduledHasToken'  BY DEF Tokens, ScheduledHasToken
<1>4. QED  BY <1>1, <1>2, <1>3 DEF Tokens

\* enqueue keeps the types and the token discipline.
LEMMA EnqueueChatInv ==
  ASSUME TypeOK, Tokens, NEW c \in Chats, EnqueueChat(c),
         UNCHANGED <<chat, phase>>
  PROVE  /\ queue' \in Seq(Chats) /\ scheduled' \in SUBSET Chats
         /\ active' \in SUBSET Chats /\ pendingCounts' \in [Chats -> Nat]
         /\ Tokens'
<1>1. CASE daemon # "up"
  <2>1. UNCHANGED <<queue, scheduled, active, pendingCounts, chat, phase>>
    BY <1>1 DEF EnqueueChat, QueueWith, scheduler
  <2>2. QED  BY <2>1, TokensStutter DEF TypeOK
<1>2. CASE daemon = "up" /\ c \in scheduled
  <2>1. /\ UNCHANGED <<queue, scheduled, active, chat, phase>>
        /\ pendingCounts' = [pendingCounts EXCEPT ![c] = @ + 1]
    BY <1>2 DEF EnqueueChat, QueueWith
  <2>2. QED  BY <2>1, TokensStutter DEF TypeOK
<1>3. CASE daemon = "up" /\ c \notin scheduled
  <2>1. /\ queue' = Append(queue, c) /\ scheduled' = scheduled \cup {c}
        /\ active' = active /\ pendingCounts' = [pendingCounts EXCEPT ![c] = @ + 1]
    BY <1>3 DEF EnqueueChat, QueueWith
  <2>2. /\ queue' \in Seq(Chats) /\ Len(queue') = Len(queue) + 1
        /\ \A i \in 1..Len(queue) : queue'[i] = queue[i]
        /\ queue'[Len(queue) + 1] = c
        /\ DOMAIN queue = 1..Len(queue) /\ DOMAIN queue' = 1..Len(queue')
        /\ Len(queue) \in Nat
    BY <2>1 DEF TypeOK
  <2>3. /\ \A i \in DOMAIN queue : queue[i] # c
        /\ \A w \in Workers : chat[w] # NoChat => chat[w] # c
    BY <1>3 DEF Tokens, TokensOK
  <2>4. TokensOK'
    BY <2>1, <2>2 DEF Tokens, TokensOK, Owns
  <2>5. OneTokenPerChat'
    BY <2>1, <2>2, <2>3 DEF Tokens, OneTokenPerChat
  <2>6. ScheduledHasToken'
    BY <2>1, <2>2 DEF Tokens, ScheduledHasToken
  <2>7. QED  BY <2>1, <2>2, <2>4, <2>5, <2>6 DEF Tokens, TypeOK
<1>4. QED  BY <1>1, <1>2, <1>3

\* The recovered queue is a permutation of the chats that have queued rows.
LEMMA RecoveredQueue ==
  ASSUME TypeOK, NEW s \in RecoveredQueues
  PROVE  /\ s \in Seq(Chats) /\ DOMAIN s = 1..Len(s)
         /\ \A i \in DOMAIN s : s[i] \in ChatsWithRows
         /\ \A c \in ChatsWithRows : \E i \in DOMAIN s : s[i] = c
         /\ \A i, j \in DOMAIN s : s[i] = s[j] => i = j
<1> DEFINE n == Cardinality(ChatsWithRows)
<1>1. n \in Nat
  BY FS_Subset, FS_CardinalityType, SchedulerAssumption DEF ChatsWithRows
<1>2. s \in [1..n -> ChatsWithRows] /\ {s[i] : i \in DOMAIN s} = ChatsWithRows
  BY DEF RecoveredQueues
<1>3. s \in Seq(Chats) /\ DOMAIN s = 1..Len(s) /\ Len(s) = n
  <2>1. s \in [1..n -> Chats]  BY <1>2 DEF ChatsWithRows
  <2>2. QED  BY <1>1, <2>1, SeqDef, LenProperties
<1>4. ASSUME NEW i \in DOMAIN s, NEW j \in DOMAIN s, s[i] = s[j]
      PROVE  i = j
  <2>1. i \in Nat /\ j \in Nat  BY <1>1, <1>2
  <2>2. NextQueued(s[i]) \in Messages
    BY <1>2, NextQueuedExists DEF ChatsWithRows, Queued
  <2>3. receivedAt[NextQueued(s[i])] \in Nat  BY <2>2 DEF TypeOK
  <2>4. ~(i < j)  BY <1>4, <2>3 DEF RecoveredQueues, EarliestFirst
  <2>5. ~(j < i)  BY <1>4, <2>3 DEF RecoveredQueues, EarliestFirst
  <2>6. QED  BY <2>1, <2>4, <2>5
<1>5. QED  BY <1>2, <1>3, <1>4

\* The two ways a worker gives a chat up.
LEMMA ReleaseCases ==
  ASSUME NEW w, Release(w)
  PROVE  \/ /\ queue' = Append(queue, chat[w])
            /\ UNCHANGED <<scheduled, pendingCounts>>
         \/ /\ UNCHANGED queue
            /\ scheduled' = scheduled \ {chat[w]}
            /\ pendingCounts' = [pendingCounts EXCEPT ![chat[w]] = 0]
  BY Zenon DEF Release, Unschedule

-----------------------------------------------------------------------------
(* Every step preserves the types.                                         *)

\* Every step keeps the types.
LEMMA TypeStep ==
  ASSUME TypeOK, LocalsOK, Tokens, [Next]_vars
  PROVE  TypeOK'
<1> USE SchedulerAssumption
<1> USE DEF TypeOK, RowStatus, Phases, CallbackPhases, arrival, durable, scheduler,
            locals, SetStatus, Goto, LoopPhase, Fault, NoFault,
            Claimable, MarkRunning, Recovered, Unschedule
<1>1. ASSUME NEW m \in Messages, Delivery(m) PROVE TypeOK'
  <2>1. CASE Stamp(m)
    <3>1. PICK now \in {receivedAt[n] + 1 : n \in Messages} :
            receivedAt' = [receivedAt EXCEPT ![m] = now]
      BY <2>1 DEF Stamp
    <3>2. now \in Nat  OBVIOUS
    <3>3. Prompts(ChatOf[m]) \in SUBSET Messages  BY DEF Prompts
    <3>4. ahead' \in [Messages -> SUBSET Messages]  BY <2>1, <3>3 DEF Stamp
    <3>5. QED  BY <2>1, <3>1, <3>2, <3>4 DEF Stamp
  <2>2. CASE Receive(m)  BY <2>2 DEF Receive
  <2>3. CASE ReceiveFails(m)  BY <2>3 DEF ReceiveFails
  <2>4. QED  BY <1>1, <2>1, <2>2, <2>3 DEF Delivery
<1>2. ASSUME NEW m \in Messages, Callback(m) PROVE TypeOK'
  <2>1. CASE Enqueue(m)
    <3>1. ChatOf[m] \in Chats  OBVIOUS
    <3>2. EnqueueChat(ChatOf[m]) /\ UNCHANGED <<chat, phase>>
      BY <2>1 DEF Enqueue
    <3>3. QED  BY <2>1, <3>1, <3>2, EnqueueChatInv DEF Enqueue
  <2>2. CASE Requeue(m)
    <3>1. ChatOf[m] \in Chats  OBVIOUS
    <3>2. EnqueueChat(ChatOf[m]) /\ UNCHANGED <<chat, phase>>
      BY <2>2 DEF Requeue
    <3>3. QED  BY <2>2, <3>1, <3>2, EnqueueChatInv DEF Requeue
  <2>3. CASE Ignore(m)  BY <2>3 DEF Ignore
  <2>4. CASE ClaimControl(m)  BY <2>4 DEF ClaimControl
  <2>5. CASE FinishControl(m)  BY <2>5 DEF FinishControl
  <2>6. CASE Interrupt(m)  BY <2>6 DEF Interrupt
  <2>7. CASE Rewrite(m)  BY <2>7 DEF Rewrite
  <2>8. CASE CloseRedirect(m)  BY <2>8 DEF CloseRedirect
  <2>9. QED
    BY <1>2, <2>1, <2>2, <2>3, <2>4, <2>5, <2>6, <2>7, <2>8 DEF Callback
<1>3. ASSUME NEW m \in Messages, CallbackFails(m) PROVE TypeOK'
  BY <1>3 DEF CallbackFails
<1>4. ASSUME NEW w \in Workers, Worker(w) PROVE TypeOK'
  <2>0. phase[w] \in Phases /\ chat[w] \in Chats \cup {NoChat}  OBVIOUS
  <2>1. CASE TakeToken(w)
    <3>1. Head(queue) \in Chats /\ Tail(queue) \in Seq(Chats)
      BY <2>1 DEF TakeToken
    <3>2. QED  BY <2>1, <3>1 DEF TakeToken
  <2>2. CASE Own(w)
    <3>1. chat[w] \in Chats  BY <2>2 DEF Own, LocalsOK
    <3>2. CASE chat[w] \in active
      <4>1. /\ phase' = [phase EXCEPT ![w] = IF daemon = "up" THEN "idle" ELSE "exited"]
            /\ chat' = [chat EXCEPT ![w] = NoChat]
            /\ UNCHANGED <<status, receivedAt, ahead, queue, scheduled, active, pendingCounts,
                           job, peek, callback, daemon, faults>>
        BY <2>2, <3>2 DEF Own
      <4>2. phase' \in [Workers -> Phases]  BY <4>1
      <4>3. QED  BY <4>1, <4>2
    <3>3. CASE chat[w] \notin active
      <4>1. /\ active' = active \cup {chat[w]}
            /\ phase' = [phase EXCEPT ![w] = "owning"]
            /\ UNCHANGED <<status, receivedAt, ahead, queue, scheduled, pendingCounts,
                           chat, job, peek, callback, daemon, faults>>
        BY <2>2, <3>3 DEF Own
      <4>2. active' \subseteq Chats  BY <3>1, <4>1
      <4>3. QED  BY <4>1, <4>2
    <3>4. QED  BY <3>2, <3>3
  <2>3. CASE Select(w)
    <3>1. chat[w] \in Chats  BY <2>3 DEF Select, LocalsOK
    <3>2. CASE Queued(chat[w]) = {}  BY <2>3, <3>2 DEF Select
    <3>3. CASE Queued(chat[w]) # {}
      <4>1. NextQueued(chat[w]) \in Messages
        BY <3>1, <3>3, NextQueuedExists DEF Queued
      <4>2. pendingCounts' \in [Chats -> Nat]
        <5> DEFINE k == pendingCounts[chat[w]]
        <5>1. k \in Nat  BY <3>1
        <5>2. Decremented(k) \in Nat  BY <5>1 DEF Decremented
        <5>3. pendingCounts' = [pendingCounts EXCEPT ![chat[w]] = Decremented(k)]
          BY <2>3, <3>3 DEF Select
        <5>4. QED  BY <5>2, <5>3
      <4>3. /\ job' = [job EXCEPT ![w] = NextQueued(chat[w])]
            /\ phase' = [phase EXCEPT ![w] = "chosen"]
            /\ UNCHANGED <<status, receivedAt, ahead, queue, scheduled, active,
                           chat, peek, callback, daemon, faults>>
        BY <2>3, <3>3 DEF Select, Goto, durable
      <4>4. /\ job' \in [Workers -> Messages \cup {NoMessage}]
            /\ phase' \in [Workers -> Phases]
        BY <4>1, <4>3
      <4>5. QED  BY <4>2, <4>3, <4>4
    <3>4. QED  BY <3>2, <3>3
  <2>4. CASE Claim(w)
    <3>1. job[w] \in Messages  BY <2>4 DEF Claim, LocalsOK
    <3>2. CASE Claimable(job[w])
      <4>1. /\ status' = [status EXCEPT ![job[w]] = "running"]
            /\ phase' = [phase EXCEPT ![w] = "running"]
            /\ UNCHANGED <<receivedAt, ahead, queue, scheduled, active, pendingCounts,
                           job, chat, peek, callback, daemon, faults>>
        BY <2>4, <3>2 DEF Claim, MarkRunning, Goto, scheduler, arrival
      <4>2. QED  BY <3>1, <4>1
    <3>3. CASE ~Claimable(job[w])
      <4>1. /\ phase' = [phase EXCEPT ![w] = "settling"]
            /\ job' = [job EXCEPT ![w] = NoMessage]
            /\ UNCHANGED <<status, receivedAt, ahead, queue, scheduled, active,
                           pendingCounts, chat, peek, callback, daemon, faults>>
        BY <2>4, <3>3 DEF Claim
      <4>2. QED  BY <4>1
    <3>4. QED  BY <3>2, <3>3
  <2>5. CASE Finish(w)
    <3>1. job[w] \in Messages  BY <2>5 DEF Finish, LocalsOK
    <3>2. PICK s \in {"completed", "failed"} : status' = [status EXCEPT ![job[w]] = s]
      BY <2>5 DEF Finish
    <3>3. QED  BY <2>5, <3>1, <3>2 DEF Finish
  <2>6. CASE Peek(w)
    <3>1. \E b \in BOOLEAN : peek' = [peek EXCEPT ![w] = b]
      BY <2>6 DEF Peek, OnReadError
    <3>2. peek' \in [Workers -> BOOLEAN]  BY <3>1
    <3>3. faults' \in 0..MaxFaults  BY <2>6 DEF Peek
    <3>4. QED  BY <2>6, <3>2, <3>3 DEF Peek
  <2>7. CASE Release(w)
    <3>1. chat[w] \in Chats  BY <2>7 DEF Release, LocalsOK
    <3>2. queue' \in Seq(Chats) /\ pendingCounts' \in [Chats -> Nat]
      <4>1. CASE UNCHANGED pendingCounts /\ queue' = Append(queue, chat[w])
        BY <3>1, <4>1
      <4>2. CASE /\ UNCHANGED queue
                 /\ pendingCounts' = [pendingCounts EXCEPT ![chat[w]] = 0]
        BY <3>1, <4>2
      <4>3. QED  BY <2>7, <4>1, <4>2, ReleaseCases
    <3>3. scheduled' \in SUBSET Chats /\ active' \in SUBSET Chats
      BY <2>7 DEF Release
    <3>4. phase' \in [Workers -> Phases] /\ chat' \in [Workers -> Chats \cup {NoChat}]
      BY <2>7 DEF Release
    <3>5. peek' \in [Workers -> BOOLEAN]  BY <2>7 DEF Release
    <3>6. QED  BY <2>7, <3>2, <3>3, <3>4, <3>5 DEF Release
  <2>8. CASE Exit(w)  BY <2>8 DEF Exit
  <2>9. QED
    BY <1>4, <2>1, <2>2, <2>3, <2>4, <2>5, <2>6, <2>7, <2>8 DEF Worker
<1>5. ASSUME NEW w \in Workers, WorkerFails(w) PROVE TypeOK'
  BY <1>5 DEF WorkerFails
<1>6. CASE Start
  <2>1. queue' \in Seq(Chats)  BY <1>6, RecoveredQueue DEF Start
  <2>2. pendingCounts' \in [Chats -> Nat]  BY <1>6, QueuedFinite DEF Start
  <2>3. QED  BY <1>6, <2>1, <2>2 DEF Start, ChatsWithRows
<1>7. CASE Stop  BY <1>7 DEF Stop
<1>8. CASE Shutdown  BY <1>8 DEF Shutdown, MemoryLost
<1>9. CASE Crash  BY <1>9 DEF Crash, MemoryLost
<1>10. CASE UNCHANGED vars  BY <1>10 DEF vars
<1>11. QED
  BY <1>1, <1>2, <1>3, <1>4, <1>5, <1>6, <1>7, <1>8, <1>9, <1>10 DEF Next

-----------------------------------------------------------------------------
(* Every step keeps workers' locals consistent and a dead process empty.   *)

\* Every step keeps the locals of the workers consistent.
LEMMA LocalsStep ==
  ASSUME TypeOK, LocalsOK, Tokens, DownOK, [Next]_vars
  PROVE  LocalsOK' /\ DownOK'
<1> USE SchedulerAssumption
<1> USE DEF TypeOK, LocalsOK, DownOK, Phases, arrival, durable, scheduler, locals, Goto,
            LoopPhase, Claimable
<1>1. ASSUME NEW m \in Messages, Delivery(m) PROVE LocalsOK' /\ DownOK'
  BY <1>1 DEF Delivery, Stamp, Receive, ReceiveFails
<1>2. ASSUME NEW m \in Messages, Callback(m) PROVE LocalsOK' /\ DownOK'
  <2>1. daemon # "down"
    BY <1>2 DEF Callback, Enqueue, Ignore, ClaimControl, FinishControl,
                Interrupt, Rewrite, Requeue, CloseRedirect
  <2>2. UNCHANGED <<locals, daemon>>
    BY <1>2 DEF Callback, Enqueue, Ignore, ClaimControl, FinishControl,
                Interrupt, Rewrite, Requeue, CloseRedirect
  <2>3. QED  BY <2>1, <2>2
<1>3. ASSUME NEW m \in Messages, CallbackFails(m) PROVE LocalsOK' /\ DownOK'
  BY <1>3 DEF CallbackFails
<1>4. ASSUME NEW w \in Workers, Worker(w) PROVE LocalsOK' /\ DownOK'
  <2>0. daemon # "down" /\ UNCHANGED daemon
    BY <1>4 DEF Worker, TakeToken, Own, Select, Claim, Finish, Peek, Release,
                Exit
  <2> SUFFICES LocalsOK'  BY <2>0
  <2>1. CASE TakeToken(w)
    <3>1. Head(queue) \in Chats  BY <2>1 DEF TakeToken
    <3>2. QED  BY <2>1, <3>1 DEF TakeToken
  <2>2. CASE Own(w)  BY <2>2 DEF Own
  <2>3. CASE Select(w)
    <3>1. CASE Queued(chat[w]) = {}  BY <2>3, <3>1 DEF Select
    <3>2. CASE Queued(chat[w]) # {}
      <4>1. NextQueued(chat[w]) \in Queued(chat[w])
        BY <2>3, <3>2, NextQueuedExists DEF Select
      <4>2. /\ NextQueued(chat[w]) \in Messages
            /\ ChatOf[NextQueued(chat[w])] = chat[w]
        BY <4>1 DEF Queued
      <4>3. /\ job' = [job EXCEPT ![w] = NextQueued(chat[w])]
            /\ phase' = [phase EXCEPT ![w] = "chosen"]
            /\ UNCHANGED <<chat, peek, active, daemon>>
        BY <2>3, <3>2 DEF Select, Goto
      <4>4. QED  BY <4>2, <4>3
    <3>3. QED  BY <3>1, <3>2
  <2>4. CASE Claim(w)  BY <2>4 DEF Claim
  <2>5. CASE Finish(w)  BY <2>5 DEF Finish
  <2>6. CASE Peek(w)  BY <2>6 DEF Peek
  <2>7. CASE Release(w)  BY <2>7 DEF Release
  <2>8. CASE Exit(w)  BY <2>8 DEF Exit
  <2>9. QED
    BY <1>4, <2>1, <2>2, <2>3, <2>4, <2>5, <2>6, <2>7, <2>8 DEF Worker
<1>5. ASSUME NEW w \in Workers, WorkerFails(w) PROVE LocalsOK' /\ DownOK'
  BY <1>5 DEF WorkerFails
<1>6. CASE Start  BY <1>6 DEF Start
<1>7. CASE Stop  BY <1>7 DEF Stop
<1>8. CASE Shutdown  BY <1>8 DEF Shutdown, MemoryLost
<1>9. CASE Crash  BY <1>9 DEF Crash, MemoryLost
<1>10. CASE UNCHANGED vars  BY <1>10 DEF vars
<1>11. QED
  BY <1>1, <1>2, <1>3, <1>4, <1>5, <1>6, <1>7, <1>8, <1>9, <1>10 DEF Next

-----------------------------------------------------------------------------
(* Every step preserves the discipline of tokens.                          *)

\* A token never belongs to a chat another worker owns, so the branch of _worker
\* that drops a token is never taken.
LEMMA NoDuplicateToken ==
  ASSUME Tokens, LocalsOK, NEW w \in Workers, phase[w] = "taken"
  PROVE  chat[w] # NoChat /\ chat[w] \notin active
<1>1. chat[w] # NoChat  BY DEF LocalsOK
<1>2. ASSUME chat[w] \in active PROVE FALSE
  <2>1. PICK v \in Workers : Owns(v, chat[w])
    BY <1>2 DEF Tokens, TokensOK
  <2>2. v = w  BY <1>1, <2>1 DEF Owns, Tokens, OneTokenPerChat
  <2>3. QED  BY <2>1, <2>2 DEF Owns
<1>3. QED  BY <1>1, <1>2

\* Moving between the phases in which a worker owns its chat changes no token.
LEMMA OwnerMoves ==
  ASSUME TypeOK, Tokens, NEW w \in Workers,
         phase[w] \in {"owning", "chosen", "running", "settling"},
         \E p \in {"chosen", "running", "settling", "peeked"} :
           phase' = [phase EXCEPT ![w] = p],
         UNCHANGED <<queue, scheduled, active, chat>>
  PROVE  Tokens'
<1>1. TokensOK'
  <2>1. ASSUME NEW v, NEW c, Owns(v, c), v \in Workers PROVE Owns(v, c)'
    BY <2>1 DEF TypeOK, Owns
  <2>2. QED  BY <2>1 DEF Tokens, TokensOK
<1>2. OneTokenPerChat'  BY DEF Tokens, OneTokenPerChat
<1>3. ScheduledHasToken'  BY DEF Tokens, ScheduledHasToken
<1>4. QED  BY <1>1, <1>2, <1>3 DEF Tokens

\* queue.get moves a token from the queue to a worker, and makes none.
LEMMA TakeTokenStep ==
  ASSUME TypeOK, LocalsOK, Tokens, NEW w \in Workers, TakeToken(w)
  PROVE  Tokens'
<1>1. /\ phase[w] = "idle" /\ queue # <<>> /\ queue' = Tail(queue)
      /\ chat' = [chat EXCEPT ![w] = Head(queue)]
      /\ phase' = [phase EXCEPT ![w] = "taken"]
      /\ UNCHANGED <<scheduled, active>>
  BY DEF TakeToken, Goto
<1>2. /\ Len(queue) \in Nat /\ Len(queue) > 0
      /\ DOMAIN queue = 1..Len(queue) /\ DOMAIN queue' = 1..(Len(queue) - 1)
      /\ \A i \in DOMAIN queue' : queue'[i] = queue[i + 1]
      /\ Head(queue) = queue[1]
  BY <1>1 DEF TypeOK
<1>3. chat[w] = NoChat  BY <1>1 DEF LocalsOK
<1>4. Head(queue) \in Chats /\ Head(queue) # NoChat
  BY <1>1, SchedulerAssumption DEF TypeOK
<1>5. \A v \in Workers : chat'[v] = IF v = w THEN queue[1] ELSE chat[v]
  BY <1>1, <1>2 DEF TypeOK
<1>6. TokensOK'
  <2>1. \A i \in DOMAIN queue' : queue'[i] \in scheduled'
    BY <1>1, <1>2 DEF Tokens, TokensOK
  <2>2. \A v \in Workers : chat'[v] # NoChat => chat'[v] \in scheduled'
    BY <1>1, <1>2, <1>5 DEF Tokens, TokensOK
  <2>3. ASSUME NEW c \in active' PROVE \E v \in Workers : Owns(v, c)'
    <3>1. PICK v \in Workers : Owns(v, c)  BY <1>1, <2>3 DEF Tokens, TokensOK
    <3>2. v # w  BY <1>1, <3>1 DEF Owns
    <3>3. QED  BY <1>1, <3>1, <3>2 DEF Owns, TypeOK
  <2>4. QED  BY <2>1, <2>2, <2>3 DEF TokensOK
<1>7. OneTokenPerChat'
  <2>1. \A i, j \in DOMAIN queue' : queue'[i] = queue'[j] => i = j
    BY <1>2 DEF Tokens, OneTokenPerChat
  <2>2. \A v \in Workers : chat'[v] # NoChat =>
          \A i \in DOMAIN queue' : queue'[i] # chat'[v]
    BY <1>2, <1>5 DEF Tokens, OneTokenPerChat
  <2>3. \A u, v \in Workers : chat'[u] # NoChat /\ chat'[u] = chat'[v] => u = v
    BY <1>2, <1>5 DEF Tokens, OneTokenPerChat
  <2>4. QED  BY <2>1, <2>2, <2>3 DEF OneTokenPerChat
<1>8. ScheduledHasToken'
  <2> SUFFICES ASSUME NEW c \in scheduled
               PROVE  \/ \E i \in DOMAIN queue' : queue'[i] = c
                      \/ \E v \in Workers : chat'[v] = c
    BY <1>1 DEF ScheduledHasToken
  <2>1. CASE \E v \in Workers : chat[v] = c
    <3>1. PICK v \in Workers : chat[v] = c  BY <2>1
    <3>2. c \in Chats  BY DEF TypeOK
    <3>3. v # w  BY <1>3, <3>1, <3>2, SchedulerAssumption
    <3>4. QED  BY <1>5, <3>1, <3>3
  <2>2. CASE \E i \in DOMAIN queue : queue[i] = c
    <3>1. PICK i \in DOMAIN queue : queue[i] = c  BY <2>2
    <3>2. CASE i = 1  BY <1>5, <3>1, <3>2
    <3>3. CASE i # 1
      <4>1. i - 1 \in DOMAIN queue' /\ queue'[i - 1] = queue[i]
        BY <1>2, <3>3
      <4>2. QED  BY <3>1, <4>1
    <3>4. QED  BY <3>2, <3>3
  <2>3. QED  BY <2>1, <2>2 DEF Tokens, ScheduledHasToken
<1>9. QED  BY <1>6, <1>7, <1>8 DEF Tokens

\* A worker that takes its chat over, or drops the token, keeps tokens unique.
LEMMA OwnStep ==
  ASSUME TypeOK, LocalsOK, Tokens, NEW w \in Workers, Own(w)
  PROVE  Tokens'
<1>1. phase[w] = "taken" /\ chat[w] # NoChat /\ chat[w] \notin active
  BY NoDuplicateToken DEF Own
<1>2. /\ active' = active \cup {chat[w]}
      /\ phase' = [phase EXCEPT ![w] = "owning"]
      /\ UNCHANGED <<queue, scheduled, chat>>
  BY <1>1 DEF Own, Goto
<1>3. TokensOK'
  <2>1. ASSUME NEW c \in active' PROVE \E v \in Workers : Owns(v, c)'
    <3>1. CASE c = chat[w]  BY <1>2, <3>1 DEF Owns, TypeOK
    <3>2. CASE c \in active
      <4>1. PICK v \in Workers : Owns(v, c)  BY <3>2 DEF Tokens, TokensOK
      <4>2. QED  BY <1>1, <1>2, <4>1 DEF Owns, TypeOK
    <3>3. QED  BY <1>2, <2>1, <3>1, <3>2
  <2>2. QED  BY <1>2, <2>1 DEF Tokens, TokensOK
<1>4. OneTokenPerChat'  BY <1>2 DEF Tokens, OneTokenPerChat
<1>5. ScheduledHasToken'  BY <1>2 DEF Tokens, ScheduledHasToken
<1>6. QED  BY <1>3, <1>4, <1>5 DEF Tokens

\* Giving a chat up returns its token to the queue or removes chat and token.
LEMMA ReleaseStep ==
  ASSUME TypeOK, LocalsOK, Tokens, NEW w \in Workers, Release(w)
  PROVE  Tokens'
<1> DEFINE c == chat[w]
<1>1. /\ phase[w] = "peeked" /\ active' = active \ {c}
      /\ chat' = [chat EXCEPT ![w] = NoChat]
      /\ \E p \in {"idle", "exited"} : phase' = [phase EXCEPT ![w] = p]
  BY DEF Release, Goto, LoopPhase
<1>2. c \in Chats /\ c # NoChat /\ c \in scheduled
  BY <1>1, SchedulerAssumption DEF LocalsOK, Tokens, TokensOK, TypeOK
<1>3. /\ \A i \in DOMAIN queue : queue[i] # c
      /\ \A v \in Workers : chat[v] = c => v = w
  BY <1>2 DEF Tokens, OneTokenPerChat
<1>4. \A v \in Workers : chat'[v] = IF v = w THEN NoChat ELSE chat[v]
  BY <1>1 DEF TypeOK
<1>5. \A d \in active' : \E v \in Workers : Owns(v, d)'
  <2> SUFFICES ASSUME NEW d \in active' PROVE \E v \in Workers : Owns(v, d)'
    OBVIOUS
  <2>1. PICK v \in Workers : Owns(v, d)  BY <1>1 DEF Tokens, TokensOK
  <2>2. v # w  BY <1>1, <2>1 DEF Owns
  <2>3. QED  BY <1>1, <2>1, <2>2 DEF Owns, TypeOK
<1>6. CASE queue' = Append(queue, c) /\ UNCHANGED scheduled
  <2>1. /\ Len(queue) \in Nat /\ DOMAIN queue = 1..Len(queue)
        /\ DOMAIN queue' = 1..(Len(queue) + 1)
        /\ \A i \in DOMAIN queue : queue'[i] = queue[i]
        /\ queue'[Len(queue) + 1] = c
    BY <1>2, <1>6 DEF TypeOK
  <2>2. TokensOK'
    BY <1>2, <1>4, <1>5, <1>6, <2>1 DEF Tokens, TokensOK
  <2>3. OneTokenPerChat'
    BY <1>3, <1>4, <2>1 DEF Tokens, OneTokenPerChat
  <2>4. ScheduledHasToken'
    <3> SUFFICES ASSUME NEW d \in scheduled
                 PROVE  \/ \E i \in DOMAIN queue' : queue'[i] = d
                        \/ \E v \in Workers : chat'[v] = d
      BY <1>6 DEF ScheduledHasToken
    <3>1. CASE d = c  BY <2>1, <3>1
    <3>2. CASE d # c  BY <1>4, <2>1, <3>2 DEF Tokens, ScheduledHasToken
    <3>3. QED  BY <3>1, <3>2
  <2>5. QED  BY <2>2, <2>3, <2>4 DEF Tokens
<1>7. CASE UNCHANGED queue /\ scheduled' = scheduled \ {c}
  <2>1. TokensOK'
    BY <1>3, <1>4, <1>5, <1>7 DEF Tokens, TokensOK
  <2>2. OneTokenPerChat'
    BY <1>4, <1>7 DEF Tokens, OneTokenPerChat
  <2>3. ScheduledHasToken'
    BY <1>4, <1>7 DEF Tokens, ScheduledHasToken
  <2>4. QED  BY <2>1, <2>2, <2>3 DEF Tokens
<1>8. QED  BY <1>6, <1>7, ReleaseCases

\* A restart makes one token per chat that has queued rows.
LEMMA StartStep ==
  ASSUME TypeOK, LocalsOK, DownOK, Start
  PROVE  Tokens'
<1>1. /\ daemon = "down" /\ queue' \in RecoveredQueues
      /\ scheduled' = ChatsWithRows
      /\ UNCHANGED <<active, phase, chat>>
  BY DEF Start, locals
<1>2. active' = {} /\ \A w \in Workers : chat'[w] = NoChat
  BY <1>1 DEF DownOK, LocalsOK
<1>3. QED
  BY <1>1, <1>2, RecoveredQueue
     DEF Tokens, TokensOK, OneTokenPerChat, ScheduledHasToken

\* Every step keeps the discipline of tokens.
LEMMA TokensStep ==
  ASSUME TypeOK, LocalsOK, Tokens, DownOK, [Next]_vars
  PROVE  Tokens'
<1> USE SchedulerAssumption DEF arrival, durable, scheduler, locals
<1>1. ASSUME NEW m \in Messages,
             Delivery(m) \/ CallbackFails(m) \/ Callback(m)
      PROVE  Tokens'
  <2>1. CASE Enqueue(m) \/ Requeue(m)
    <3>1. EnqueueChat(ChatOf[m]) /\ UNCHANGED <<chat, phase>>
      BY <2>1 DEF Enqueue, Requeue
    <3>2. QED  BY <3>1, EnqueueChatInv
  <2>2. CASE ~(Enqueue(m) \/ Requeue(m))
    <3>1. UNCHANGED <<queue, scheduled, active, chat, phase>>
      BY <1>1, <2>2 DEF Delivery, Stamp, Receive, ReceiveFails,
          CallbackFails, Callback, Ignore, ClaimControl,
                        FinishControl, Interrupt, Rewrite, CloseRedirect
    <3>2. QED  BY <3>1, TokensStutter
  <2>3. QED  BY <2>1, <2>2
<1>2. ASSUME NEW w \in Workers, Worker(w) \/ WorkerFails(w)
      PROVE  Tokens'
  <2>1. CASE Select(w) \/ Claim(w) \/ Finish(w) \/ Peek(w) \/ WorkerFails(w)
    <3>1. /\ phase[w] \in {"owning", "chosen", "running", "settling"}
          /\ UNCHANGED <<queue, scheduled, active, chat>>
      BY <2>1 DEF Select, Claim, Finish, Peek, WorkerFails
    <3>2. \E p \in {"chosen", "running", "settling", "peeked"} :
            phase' = [phase EXCEPT ![w] = p]
      <4>1. CASE Select(w)
        <5>1. CASE Queued(chat[w]) = {}  BY <4>1, <5>1 DEF Select, Goto
        <5>2. CASE Queued(chat[w]) # {}  BY <4>1, <5>2 DEF Select, Goto
        <5>3. QED  BY <5>1, <5>2
      <4>2. CASE Claim(w)
        <5>1. CASE status[job[w]] = "queued"  BY <4>2, <5>1 DEF Claim, Goto
        <5>2. CASE status[job[w]] # "queued"  BY <4>2, <5>2 DEF Claim, Goto
        <5>3. QED  BY <5>1, <5>2
      <4>3. CASE Finish(w)  BY <4>3 DEF Finish, Goto
      <4>4. CASE Peek(w)  BY <4>4 DEF Peek, Goto
      <4>5. CASE WorkerFails(w)  BY <4>5 DEF WorkerFails, Goto
      <4>6. QED  BY <2>1, <4>1, <4>2, <4>3, <4>4, <4>5
    <3>3. QED  BY <3>1, <3>2, OwnerMoves
  <2>2. CASE Exit(w)
    <3>1. \A v, c : Owns(v, c) /\ v \in Workers => Owns(v, c)'
      BY <2>2 DEF Exit, Goto, Owns, TypeOK
    <3>2. UNCHANGED <<queue, scheduled, active, chat>>
      BY <2>2 DEF Exit
    <3>3. TokensOK'  BY <3>1, <3>2 DEF Tokens, TokensOK
    <3>4. OneTokenPerChat' /\ ScheduledHasToken'
      BY <3>2 DEF Tokens, OneTokenPerChat, ScheduledHasToken
    <3>5. QED  BY <3>3, <3>4 DEF Tokens
  <2>3. QED
    BY <1>2, <2>1, <2>2, TakeTokenStep, OwnStep, ReleaseStep DEF Worker
<1>3. CASE Start  BY <1>3, StartStep
<1>4. CASE Stop \/ UNCHANGED vars
  BY <1>4, TokensStutter DEF Stop, vars
<1>5. CASE Shutdown \/ Crash
  BY <1>5 DEF Shutdown, Crash, MemoryLost, Tokens, TokensOK, OneTokenPerChat,
              ScheduledHasToken
<1>6. QED  BY <1>1, <1>2, <1>3, <1>4, <1>5 DEF Next

-----------------------------------------------------------------------------
(* Every step preserves what executions and rows say of each other.        *)

\* One executor per message: the job of a running worker is a message of the
\* worker's chat, and a chat has one worker.
LEMMA JobsDistinct ==
  ASSUME LocalsOK, Tokens, NEW v \in Workers, NEW w \in Workers,
         phase[v] = "running", phase[w] = "running", job[v] = job[w]
  PROVE  v = w
<1>1. /\ job[v] # NoMessage /\ chat[v] # NoChat
      /\ ChatOf[job[v]] = chat[v] /\ ChatOf[job[w]] = chat[w]
  BY DEF LocalsOK
<1>2. chat[v] = chat[w]  BY <1>1
<1>3. QED  BY <1>1, <1>2 DEF Tokens, OneTokenPerChat

Rows == RowsOK /\ OneExecutor /\ PromptRowIsRunning

\* Every step keeps what rows, callbacks and executions say of each other.
LEMMA RowsStep ==
  ASSUME TypeOK, LocalsOK, Tokens, DownOK, Rows, [Next]_vars
  PROVE  Rows'
<1> USE SchedulerAssumption
<1> USE DEF TypeOK, arrival, durable, scheduler, locals, SetStatus, Goto,
            Claimable, MarkRunning, Recovered, Rows, RowsOK, OneExecutor, PromptRowIsRunning
<1>1. ASSUME NEW m \in Messages, Delivery(m) \/ CallbackFails(m) \/ Callback(m)
      PROVE  Rows'
  <2>1. UNCHANGED <<phase, job>>
    BY <1>1 DEF Delivery, Stamp, Receive, ReceiveFails,
        CallbackFails, Callback, Enqueue, Ignore, ClaimControl,
                FinishControl, Interrupt, Rewrite, Requeue, CloseRedirect
  <2>2. \A w \in Workers : phase[w] = "running" => job[w] \in Messages
    BY DEF LocalsOK
  <2>3. CASE Delivery(m)
    <3>1. CASE Stamp(m)  BY <2>1, <2>2, <3>1 DEF Stamp
    <3>2. CASE Receive(m)  BY <2>1, <2>2, <3>2 DEF Receive
    <3>3. CASE ReceiveFails(m)  BY <2>1, <2>2, <3>3 DEF ReceiveFails
    <3>4. QED  BY <2>3, <3>1, <3>2, <3>3 DEF Delivery
  <2>4. CASE CallbackFails(m)  BY <2>1, <2>2, <2>4 DEF CallbackFails
  <2>5. CASE Enqueue(m)
    <3>1. /\ callback' = [callback EXCEPT ![m] = "none"]
          /\ UNCHANGED <<status, phase, job>>
      BY <2>5 DEF Enqueue
    <3>2. QED  BY <2>2, <3>1
  <2>6. CASE Ignore(m)  BY <2>1, <2>2, <2>6 DEF Ignore
  <2>7. CASE ClaimControl(m)  BY <2>1, <2>2, <2>7 DEF ClaimControl
  <2>8. CASE FinishControl(m)  BY <2>1, <2>2, <2>8 DEF FinishControl
  <2>9. CASE Interrupt(m)  BY <2>1, <2>2, <2>9 DEF Interrupt
  <2>10. CASE Rewrite(m)  BY <2>1, <2>2, <2>10 DEF Rewrite
  <2>11. CASE Requeue(m)  BY <2>1, <2>2, <2>11 DEF Requeue
  <2>12. CASE CloseRedirect(m)  BY <2>1, <2>2, <2>12 DEF CloseRedirect
  <2>13. QED
    BY <1>1, <2>3, <2>4, <2>5, <2>6, <2>7, <2>8, <2>9, <2>10, <2>11, <2>12
       DEF Callback
<1>2. ASSUME NEW w \in Workers, Worker(w) \/ WorkerFails(w)
      PROVE  Rows'
  <2>1. CASE Claim(w)
    <3>1. job[w] \in Messages  BY <2>1 DEF Claim, LocalsOK
    <3>2. CASE status[job[w]] = "queued"
      <4>1. /\ status' = [status EXCEPT ![job[w]] = "running"]
            /\ phase' = [phase EXCEPT ![w] = "running"]
            /\ UNCHANGED <<job, callback>>
        BY <2>1, <3>2 DEF Claim
      <4>2. \A v \in Workers : phase[v] = "running" => job[v] # job[w]
        BY <3>2
      <4>3. \A v \in Workers : phase[v] = "running" => job[v] \in Messages
        BY DEF LocalsOK
      <4>4. QED  BY <3>1, <3>2, <4>1, <4>2, <4>3
    <3>3. CASE status[job[w]] # "queued"
      <4>1. /\ phase' = [phase EXCEPT ![w] = "settling"]
            /\ job' = [job EXCEPT ![w] = NoMessage]
            /\ UNCHANGED <<status, callback>>
        BY <2>1, <3>3 DEF Claim
      <4>2. QED  BY <4>1
    <3>4. QED  BY <3>2, <3>3
  <2>2. CASE Finish(w)
    <3>1. job[w] \in Messages  BY <2>2 DEF Finish, LocalsOK
    <3>2. \A v \in Workers : v # w /\ phase[v] = "running" =>
            job[v] # job[w] /\ job[v] \in Messages
      BY <2>2, JobsDistinct DEF Finish, LocalsOK
    <3>3. QED  BY <2>2, <3>1, <3>2 DEF Finish
  <2>3. CASE ~(Claim(w) \/ Finish(w))
    <3>1. UNCHANGED <<status, callback>>
      BY <1>2, <2>3 DEF Worker, TakeToken, Own, Select, Peek, Release, Exit,
                        WorkerFails
    <3>2. \A v \in Workers : phase'[v] = "running" =>
            phase[v] = "running" /\ job'[v] = job[v]
      <4>1. ASSUME NEW v \in Workers, v # w
            PROVE  phase'[v] = phase[v] /\ job'[v] = job[v]
        BY <1>2, <2>3, <4>1 DEF Worker, TakeToken, Own, Select, Peek, Release,
                                Exit, WorkerFails
      <4>2. phase'[w] # "running"
        BY <1>2, <2>3 DEF Worker, TakeToken, Own, Select, Peek, Release, Exit,
                          WorkerFails, LoopPhase
      <4>3. QED  BY <4>1, <4>2
    <3>3. QED  BY <3>1, <3>2
  <2>4. QED  BY <2>1, <2>2, <2>3
<1>3. CASE Start
  BY <1>3 DEF Start, DownOK
<1>4. CASE Stop \/ UNCHANGED vars  BY <1>4 DEF Stop, vars
<1>5. CASE Shutdown \/ Crash  BY <1>5 DEF Shutdown, Crash, MemoryLost
<1>6. QED  BY <1>1, <1>2, <1>3, <1>4, <1>5 DEF Next

-----------------------------------------------------------------------------
(* The theorems.                                                           *)

\* The invariant is inductive.
LEMMA InvStep == SchedulerInv /\ [Next]_vars => SchedulerInv'
<1> SUFFICES ASSUME SchedulerInv, [Next]_vars PROVE SchedulerInv'  OBVIOUS
<1>1. TypeOK' /\ LocalsOK' /\ DownOK' /\ Tokens'
  BY TypeStep, LocalsStep, TokensStep DEF SchedulerInv
<1>2. Rows'  BY RowsStep DEF SchedulerInv, Rows
<1>3. QED  BY <1>1, <1>2 DEF SchedulerInv, Rows

\* The scheduler never leaves its inductive invariant, whatever callbacks, workers,
\* errors and crashes do.
THEOREM SchedulerInvariant == Spec => []SchedulerInv
<1>1. QED  BY InitInv, InvStep, PTL DEF Spec

\* The variables keep their types, whatever the number of chats and workers.
THEOREM TypeCorrect == Spec => []TypeOK
<1>1. SchedulerInv => TypeOK  BY DEF SchedulerInv
<1>2. QED  BY <1>1, SchedulerInvariant, PTL

\* A chat has one scheduler token at most, in the queue or with one worker
\* (_scheduled_chats and _active_chats of FeishuDaemon).
THEOREM TokensUnique == Spec => []OneTokenPerChat
<1>1. SchedulerInv => OneTokenPerChat  BY DEF SchedulerInv, Tokens
<1>2. QED  BY <1>1, SchedulerInvariant, PTL

\* A chat that is marked scheduled has a token, so enqueue never skips the put
\* of a chat that nobody will look at again.
THEOREM ScheduledChatsHaveTokens == Spec => []ScheduledHasToken
<1>1. SchedulerInv => ScheduledHasToken  BY DEF SchedulerInv, Tokens
<1>2. QED  BY <1>1, SchedulerInvariant, PTL

\* claim_next gives a message to one thread at a time: two workers, or a worker
\* and the callback of an immediate command, never execute the same message.
THEOREM MessageHasOneExecutor == Spec => []OneExecutor
<1>1. SchedulerInv => OneExecutor  BY DEF SchedulerInv
<1>2. QED  BY <1>1, SchedulerInvariant, PTL

\* The row of a prompt says "running" as long as it is being executed, so a
\* restart always finds and interrupts it.
THEOREM RunningPromptsAreMarked == Spec => []PromptRowIsRunning
<1>1. SchedulerInv => PromptRowIsRunning  BY DEF SchedulerInv
<1>2. QED  BY <1>1, SchedulerInvariant, PTL

\* No step of a callback, a worker or a restart gives a row that has ended or
\* was interrupted another execution.
THEOREM EndedWorkStaysEnded == Spec => NeverReplayed
<1> DEFINE StaysEnded == \A m \in Messages : Ended(m) => Ended(m)'
<1>1. SchedulerInv /\ [Next]_vars => [StaysEnded]_vars
  <2> SUFFICES ASSUME SchedulerInv, [Next]_vars PROVE [StaysEnded]_vars  OBVIOUS
  <2> USE DEF SchedulerInv, DownOK, TypeOK, arrival, durable, SetStatus, Terminal,
              RowStatus, Ended, Claimable, MarkRunning, Recovered
  <2>1. ASSUME NEW m \in Messages, Delivery(m) \/ CallbackFails(m) \/ Callback(m)
        PROVE  StaysEnded
    <3>1. CASE Delivery(m)
      <4>1. UNCHANGED daemon /\ (UNCHANGED status \/ SetStatus(m, "queued"))
        BY <3>1 DEF Delivery, Stamp, Receive, ReceiveFails
      <4>2. status[m] = "absent"
        BY <3>1 DEF Delivery, Stamp, Receive, ReceiveFails, RowsOK
      <4>3. QED  BY <4>1, <4>2
    <3>2. CASE CallbackFails(m) \/ Enqueue(m) \/ Requeue(m) \/ Interrupt(m)
      BY <3>2 DEF CallbackFails, Enqueue, Requeue, Interrupt
    <3>3. CASE Ignore(m)  BY <3>3 DEF Ignore
    <3>4. CASE ClaimControl(m)  BY <3>4 DEF ClaimControl
    <3>5. CASE FinishControl(m)  BY <3>5 DEF FinishControl
    <3>6. CASE Rewrite(m)  BY <3>6 DEF Rewrite
    <3>7. CASE CloseRedirect(m)  BY <3>7 DEF CloseRedirect
    <3>8. QED
      BY <2>1, <3>1, <3>2, <3>3, <3>4, <3>5, <3>6, <3>7 DEF Callback
  <2>2. ASSUME NEW w \in Workers, Worker(w) \/ WorkerFails(w)
        PROVE  StaysEnded
    <3>1. CASE Claim(w)  BY <3>1 DEF Claim
    <3>2. CASE Finish(w)  BY <3>2 DEF Finish
    <3>3. CASE ~(Claim(w) \/ Finish(w))
      BY <2>2, <3>3 DEF Worker, TakeToken, Own, Select, Peek, Release, Exit,
                        WorkerFails
    <3>4. QED  BY <3>1, <3>2, <3>3
  <2>3. CASE Start  BY <2>3 DEF Start
  <2>4. CASE Stop \/ Shutdown \/ Crash  BY <2>4 DEF Stop, Shutdown, Crash
  <2>5. QED  BY <2>1, <2>2, <2>3, <2>4 DEF Next
<1>2. QED  BY <1>1, SchedulerInvariant, PTL DEF Spec, NeverReplayed

-----------------------------------------------------------------------------
(* Arrivals: what the order of the rows is worth to a worker.              *)

\* A callback beyond its insert has a row, a worker that has chosen one finds it,
\* and the prompts that were stored when a message read the clock are there and
\* have an older time.
ArrivalsOK ==
  /\ \A m \in Messages :
       /\ status[m] = "absent" => callback[m] \in {"none", "stamped"}
       /\ status[m] = "absent" /\ callback[m] = "none" => ahead[m] = {}
  /\ \A w \in Workers : phase[w] = "chosen" => status[job[w]] # "absent"
  /\ \A m \in Messages : \A n \in ahead[m] :
       /\ status[n] # "absent" /\ receivedAt[n] < receivedAt[m]
       /\ ChatOf[n] = ChatOf[m] /\ Kind[n] = "prompt"

\* Between its selection and its claim no prompt ahead of a worker's row waits,
\* whatever is inserted meanwhile.
NoneAhead ==
  \A w \in Workers : phase[w] = "chosen" =>
    \A n \in ahead[job[w]] : status[n] # "queued"

OrderInv == SchedulerInv /\ ArrivalsOK /\ NoneAhead

\* A step that creates no row, queues no prompt, and changes the arrival of no
\* message that has a row.
RowsStay ==
  /\ \A n \in Messages : status'[n] = "absent" <=> status[n] = "absent"
  /\ \A n \in Messages : status[n] # "absent" =>
       receivedAt'[n] = receivedAt[n] /\ ahead'[n] = ahead[n]
  /\ \A n \in Messages : status[n] = "absent" =>
       \/ /\ receivedAt'[n] = receivedAt[n] /\ ahead'[n] = ahead[n]
          /\ callback'[n] = callback[n]
       \/ ahead'[n] = {} /\ callback'[n] = "none"
  /\ \A n \in Messages : status[n] # "absent" => callback'[n] # "stamped"
  /\ \A n \in Messages :
       Kind[n] = "prompt" /\ status'[n] = "queued" => status[n] = "queued"

\* Every step beside a delivery is one of these.
LEMMA RowsKept ==
  ASSUME SchedulerInv, ArrivalsOK, [Next]_vars, \A m \in Messages : ~Delivery(m)
  PROVE  RowsStay
<1> USE SchedulerAssumption
<1> USE DEF TypeOK, RowStatus, SchedulerInv, RowsOK, ArrivalsOK, arrival, durable, SetStatus,
            RowsStay
<1>1. ASSUME NEW m \in Messages, Callback(m) \/ CallbackFails(m)
      PROVE  /\ UNCHANGED arrival
             /\ status[m] # "absent"
             /\ \E p \in CallbackPhases \ {"stamped"} : callback' = [callback EXCEPT ![m] = p]
             /\ \/ UNCHANGED status
                \/ \E s \in RowStatus :
                     /\ status' = [status EXCEPT ![m] = s]
                     /\ s = "queued" => Kind[m] = "redirect"
  <2> USE DEF CallbackPhases
  <2>1. CASE Enqueue(m) \/ Interrupt(m) \/ Requeue(m) \/ CallbackFails(m)
    BY <2>1 DEF Enqueue, Interrupt, Requeue, CallbackFails
  <2>2. CASE Ignore(m)  BY <2>2 DEF Ignore
  <2>3. CASE ClaimControl(m)  BY <2>3 DEF ClaimControl, MarkRunning
  <2>4. CASE FinishControl(m)  BY <2>4 DEF FinishControl
  <2>5. CASE Rewrite(m)  BY <2>5 DEF Rewrite
  <2>6. CASE CloseRedirect(m)  BY <2>6 DEF CloseRedirect
  <2>7. QED  BY <1>1, <2>1, <2>2, <2>3, <2>4, <2>5, <2>6 DEF Callback
<1>2. ASSUME NEW w \in Workers, Worker(w) \/ WorkerFails(w)
      PROVE  /\ UNCHANGED <<arrival, callback>>
             /\ \/ UNCHANGED status
                \/ /\ job[w] \in Messages /\ status[job[w]] # "absent"
                   /\ \E s \in RowStatus \ {"queued"} :
                        status' = [status EXCEPT ![job[w]] = s]
  <2>1. CASE Claim(w)
    <3>1. job[w] \in Messages  BY <2>1 DEF Claim, LocalsOK
    <3>2. QED  BY <2>1, <3>1 DEF Claim, MarkRunning
  <2>2. CASE Finish(w)
    <3>1. job[w] \in Messages  BY <2>2 DEF Finish, LocalsOK
    <3>2. QED  BY <2>2, <3>1 DEF Finish
  <2>3. CASE ~(Claim(w) \/ Finish(w))
    BY <1>2, <2>3 DEF Worker, TakeToken, Own, Select, Peek, Release, Exit, WorkerFails
  <2>4. QED  BY <2>1, <2>2, <2>3
<1>3. CASE Start  BY <1>3 DEF Start, Recovered
<1>4. CASE Stop \/ UNCHANGED vars
  BY <1>4 DEF Stop, vars
<1>5. CASE Shutdown \/ Crash
  BY <1>5 DEF Shutdown, Crash, MemoryLost
<1>6. ASSUME NEW m \in Messages, Callback(m) \/ CallbackFails(m)
      PROVE  RowsStay
  <2>1. PICK p \in CallbackPhases \ {"stamped"} : callback' = [callback EXCEPT ![m] = p]
    BY <1>1, <1>6
  <2>2. UNCHANGED arrival /\ status[m] # "absent"
    BY <1>1, <1>6
  <2>3. CASE UNCHANGED status
    BY <2>1, <2>2, <2>3
  <2>4. CASE ~UNCHANGED status
    <3>1. PICK s \in RowStatus : /\ status' = [status EXCEPT ![m] = s]
                                 /\ s = "queued" => Kind[m] = "redirect"
      BY <1>1, <1>6, <2>4
    <3>2. QED  BY <2>1, <2>2, <3>1
  <2>5. QED  BY <2>3, <2>4
<1>7. ASSUME NEW w \in Workers, Worker(w) \/ WorkerFails(w)
      PROVE  RowsStay
  <2>1. UNCHANGED <<arrival, callback>>
    BY <1>2, <1>7
  <2>2. CASE UNCHANGED status
    BY <2>1, <2>2
  <2>3. CASE ~UNCHANGED status
    <3>1. job[w] \in Messages /\ status[job[w]] # "absent"
      BY <1>2, <1>7, <2>3
    <3>2. PICK s \in RowStatus \ {"queued"} : status' = [status EXCEPT ![job[w]] = s]
      BY <1>2, <1>7, <2>3
    <3>3. QED  BY <2>1, <3>1, <3>2
  <2>4. QED  BY <2>2, <2>3
<1>8. QED  BY <1>3, <1>4, <1>5, <1>6, <1>7 DEF Next

\* A step starts choosing only by selecting the oldest queued row of the chat.
LEMMA ChosenOnly ==
  ASSUME SchedulerInv, [Next]_vars, NEW w \in Workers, phase'[w] = "chosen"
  PROVE  \/ phase[w] = "chosen" /\ job'[w] = job[w] /\ chat'[w] = chat[w]
         \/ Select(w) /\ job'[w] = NextQueued(chat[w]) /\ Queued(chat[w]) # {}
<1> USE DEF TypeOK, SchedulerInv, locals, Goto, LoopPhase
<1>1. ASSUME NEW m \in Messages, Delivery(m) \/ Callback(m) \/ CallbackFails(m)
      PROVE  UNCHANGED locals
  BY <1>1 DEF Delivery, Stamp, Receive, ReceiveFails,
      CallbackFails, Callback, Enqueue, Ignore, ClaimControl,
              FinishControl, Interrupt, Rewrite, Requeue, CloseRedirect
<1>2. ASSUME NEW v \in Workers, Worker(v) \/ WorkerFails(v)
      PROVE  \/ phase'[w] = phase[w] /\ job'[w] = job[w] /\ chat'[w] = chat[w]
             \/ v = w /\ (phase'[w] # "chosen" \/
                          (Select(w) /\ job'[w] = NextQueued(chat[w]) /\ Queued(chat[w]) # {}))
  <2>1. CASE TakeToken(v)  BY <2>1 DEF TakeToken
  <2>2. CASE Own(v)  BY <2>2 DEF Own
  <2>3. CASE Select(v)
    <3>1. CASE Queued(chat[v]) = {}  BY <2>3, <3>1 DEF Select
    <3>2. CASE Queued(chat[v]) # {}  BY <2>3, <3>2 DEF Select
    <3>3. QED  BY <3>1, <3>2
  <2>4. CASE Claim(v)  BY <2>4 DEF Claim
  <2>5. CASE Finish(v)  BY <2>5 DEF Finish
  <2>6. CASE Peek(v)  BY <2>6 DEF Peek
  <2>7. CASE Release(v)  BY <2>7 DEF Release
  <2>8. CASE Exit(v)  BY <2>8 DEF Exit
  <2>9. CASE WorkerFails(v)  BY <2>9 DEF WorkerFails
  <2>10. QED
    BY <1>2, <2>1, <2>2, <2>3, <2>4, <2>5, <2>6, <2>7, <2>8, <2>9 DEF Worker
<1>3. CASE Start \/ Stop \/ UNCHANGED vars
  BY <1>3 DEF Start, Stop, vars
<1>4. CASE Shutdown \/ Crash
  BY <1>4 DEF Shutdown, Crash, MemoryLost
<1>5. QED  BY <1>1, <1>2, <1>3, <1>4 DEF Next

\* Every step keeps arrivals in order, and no prompt waiting ahead of a chosen row.
LEMMA OrderStep == OrderInv /\ [Next]_vars => OrderInv'
<1> SUFFICES ASSUME OrderInv, [Next]_vars PROVE ArrivalsOK' /\ NoneAhead'
  BY InvStep DEF OrderInv
<1> USE SchedulerAssumption
<1> USE DEF OrderInv, SchedulerInv
<1>1. \A w \in Workers : phase[w] = "chosen" =>
        job[w] \in Messages /\ chat[w] \in Chats
  BY DEF TypeOK, LocalsOK
<1>2. ASSUME NEW m \in Messages, Delivery(m) PROVE ArrivalsOK' /\ NoneAhead'
  <2>1. /\ status[m] = "absent" /\ UNCHANGED <<phase, chat, job>>
        /\ \A k \in Messages : m \notin ahead[k]
    BY <1>2 DEF Delivery, Stamp, Receive, ReceiveFails, locals, ArrivalsOK, RowsOK
  <2>2. CASE Stamp(m)
    <3>1. PICK now \in {receivedAt[n] + 1 : n \in Messages} :
            /\ \A n \in Messages : receivedAt[n] < now
            /\ receivedAt' = [receivedAt EXCEPT ![m] = now]
      BY <2>2 DEF Stamp
    <3>2. /\ ahead' = [ahead EXCEPT ![m] = Prompts(ChatOf[m])]
          /\ callback' = [callback EXCEPT ![m] = "stamped"] /\ UNCHANGED status
      BY <2>2 DEF Stamp
    <3>3. \A n \in Prompts(ChatOf[m]) :
            n \in Messages /\ status[n] # "absent" /\ ChatOf[n] = ChatOf[m] /\ Kind[n] = "prompt"
      BY DEF Prompts
    <3>4. \A k \in Messages : \A n \in ahead'[k] :
            /\ status[n] # "absent" /\ receivedAt'[n] < receivedAt'[k]
            /\ ChatOf[n] = ChatOf[k] /\ Kind[n] = "prompt"
      <4> TAKE k \in Messages
      <4>1. CASE k = m
        BY <2>1, <3>1, <3>2, <3>3, <4>1 DEF TypeOK
      <4>2. CASE k # m
        BY <2>1, <3>1, <3>2, <4>2 DEF TypeOK, ArrivalsOK
      <4>3. QED  BY <4>1, <4>2
    <3>5. ArrivalsOK'
      BY <2>1, <3>2, <3>4 DEF ArrivalsOK, TypeOK
    <3>6. NoneAhead'
      BY <1>1, <2>1, <3>2 DEF NoneAhead, ArrivalsOK, TypeOK
    <3>7. QED  BY <3>5, <3>6
  <2>3. CASE Receive(m)
    <3>1. /\ SetStatus(m, "queued") /\ UNCHANGED <<receivedAt, ahead>>
          /\ callback' = [callback EXCEPT ![m] = "inserted"]
      BY <2>3 DEF Receive, arrival
    <3>2. ArrivalsOK'
      BY <1>1, <2>1, <3>1 DEF ArrivalsOK, TypeOK, SetStatus
    <3>3. NoneAhead'
      BY <1>1, <2>1, <3>1 DEF NoneAhead, ArrivalsOK, TypeOK, SetStatus
    <3>4. QED  BY <3>2, <3>3
  <2>4. CASE ReceiveFails(m)
    <3>1. /\ receivedAt' = [receivedAt EXCEPT ![m] = 0] /\ UNCHANGED status
          /\ ahead' = [ahead EXCEPT ![m] = {}]
          /\ callback' = [callback EXCEPT ![m] = "none"]
      BY <2>4 DEF ReceiveFails
    <3>2. ArrivalsOK'
      BY <1>1, <2>1, <3>1 DEF ArrivalsOK, TypeOK
    <3>3. NoneAhead'
      BY <1>1, <2>1, <3>1 DEF NoneAhead, ArrivalsOK, TypeOK
    <3>4. QED  BY <3>2, <3>3
  <2>5. QED  BY <1>2, <2>2, <2>3, <2>4 DEF Delivery
<1>3. ASSUME \A m \in Messages : ~Delivery(m) PROVE ArrivalsOK' /\ NoneAhead'
  <2>1. RowsStay
    BY <1>3, RowsKept
  <2> USE DEF RowsStay
  <2>2. \A m \in Messages : ahead[m] \subseteq Messages
    BY DEF TypeOK
  <2>3. ASSUME NEW w \in Workers, phase'[w] = "chosen"
        PROVE  /\ job'[w] \in Messages /\ status[job'[w]] # "absent"
               /\ \A n \in ahead[job'[w]] : status[n] # "queued"
    <3>1. CASE phase[w] = "chosen" /\ job'[w] = job[w] /\ chat'[w] = chat[w]
      BY <1>1, <3>1 DEF ArrivalsOK, NoneAhead
    <3>2. CASE Select(w) /\ job'[w] = NextQueued(chat[w]) /\ Queued(chat[w]) # {}
      <4> DEFINE q == NextQueued(chat[w])
      <4>1. chat[w] \in Chats
        BY <3>2 DEF Select, LocalsOK, TypeOK
      <4>2. q \in Queued(chat[w]) /\ \A n \in Queued(chat[w]) : receivedAt[q] <= receivedAt[n]
        BY <3>2, <4>1, NextQueuedExists
      <4>3. q \in Messages /\ status[q] = "queued" /\ ChatOf[q] = chat[w]
        BY <4>2 DEF Queued
      <4>4. ASSUME NEW n \in ahead[q], status[n] = "queued" PROVE FALSE
        <5>1. n \in Messages /\ receivedAt[n] < receivedAt[q] /\ ChatOf[n] = chat[w]
          BY <2>2, <4>3, <4>4 DEF ArrivalsOK
        <5>2. receivedAt[q] <= receivedAt[n]
          BY <4>2, <4>4, <5>1 DEF Queued
        <5>3. receivedAt[q] \in Nat /\ receivedAt[n] \in Nat
          BY <4>3, <5>1 DEF TypeOK
        <5> HIDE DEF q
        <5>4. QED  BY <5>1, <5>2, <5>3
      <4>5. QED  BY <3>2, <4>3, <4>4
    <3>3. QED  BY <2>3, <3>1, <3>2, ChosenOnly
  <2>4. \A k \in Messages : \A n \in ahead'[k] :
          /\ n \in ahead[k] /\ n \in Messages
          /\ receivedAt'[n] = receivedAt[n] /\ receivedAt'[k] = receivedAt[k]
    BY <2>1, <2>2 DEF ArrivalsOK
  <2>5. ArrivalsOK'
    <3>1. \A m \in Messages :
            /\ status'[m] = "absent" => callback'[m] \in {"none", "stamped"}
            /\ status'[m] = "absent" /\ callback'[m] = "none" => ahead'[m] = {}
      BY <2>1 DEF ArrivalsOK
    <3>2. \A w \in Workers : phase'[w] = "chosen" => status'[job'[w]] # "absent"
      BY <2>1, <2>3
    <3>3. \A m \in Messages : \A n \in ahead'[m] :
            /\ status'[n] # "absent" /\ receivedAt'[n] < receivedAt'[m]
            /\ ChatOf[n] = ChatOf[m] /\ Kind[n] = "prompt"
      BY <2>1, <2>4 DEF ArrivalsOK
    <3>4. QED  BY <3>1, <3>2, <3>3 DEF ArrivalsOK
  <2>6. NoneAhead'
    BY <2>1, <2>3, <2>4 DEF NoneAhead, ArrivalsOK
  <2>7. QED  BY <2>5, <2>6
<1>4. QED  BY <1>2, <1>3

-----------------------------------------------------------------------------
(* The scheduler implements ChatInbox.                                     *)

\* A running worker's job is its chat's turn, and a chat without one has none.
TurnsOK ==
  /\ \A w \in Workers : phase[w] = "running" =>
       /\ chat[w] \in Chats /\ Turn(chat[w]) = job[w]
       /\ job[w] \in Messages /\ ChatOf[job[w]] = chat[w]
  /\ \A c \in Chats :
       (\A w \in Workers : ~(phase[w] = "running" /\ chat[w] = c)) => Turn(c) = NoMessage

\* One worker per chat is what gives a chat one turn.
LEMMA TurnsAreJobs == SchedulerInv => TurnsOK
<1> SUFFICES ASSUME SchedulerInv PROVE TurnsOK
  OBVIOUS
<1>1. ASSUME NEW w \in Workers, phase[w] = "running"
      PROVE  /\ chat[w] \in Chats /\ Turn(chat[w]) = job[w]
             /\ job[w] \in Messages /\ ChatOf[job[w]] = chat[w]
  <2>1. /\ chat[w] \in Chats /\ job[w] \in Messages /\ ChatOf[job[w]] = chat[w]
        /\ chat[w] # NoChat
    BY <1>1 DEF SchedulerInv, TypeOK, LocalsOK
  <2>2. \A v \in Workers : phase[v] = "running" /\ chat[v] = chat[w] => v = w
    BY <2>1 DEF SchedulerInv, Tokens, OneTokenPerChat
  <2>3. QED  BY <1>1, <2>1, <2>2 DEF Turn
<1>2. QED  BY <1>1 DEF TurnsOK, Turn

\* And in the next state.
LEMMA NextTurnsAreJobs == SchedulerInv' => TurnsOK'
  BY TurnsAreJobs, PTL

\* A step that starts and ends no execution changes no turn.
LEMMA TurnsKept ==
  ASSUME TurnsOK, TurnsOK',
         \A w \in Workers : phase'[w] = "running" <=> phase[w] = "running",
         \A w \in Workers : phase[w] = "running" =>
           chat'[w] = chat[w] /\ job'[w] = job[w]
  PROVE  [c \in Chats |-> Turn(c)]' = [c \in Chats |-> Turn(c)]
<1>1. ASSUME NEW c \in Chats PROVE Turn(c)' = Turn(c)
  <2>1. CASE \E w \in Workers : phase[w] = "running" /\ chat[w] = c
    BY <2>1 DEF TurnsOK
  <2>2. CASE \A w \in Workers : ~(phase[w] = "running" /\ chat[w] = c)
    BY <2>2 DEF TurnsOK
  <2>3. QED  BY <2>1, <2>2
<1>2. QED  BY <1>1

\* The step that starts a job gives a chat without a turn that turn.
LEMMA TurnBegins ==
  ASSUME SchedulerInv, TurnsOK, TurnsOK', NEW w \in Workers, phase[w] = "chosen",
         phase' = [phase EXCEPT ![w] = "running"], UNCHANGED <<chat, job>>
  PROVE  /\ Turn(chat[w]) = NoMessage
         /\ [c \in Chats |-> Turn(c)]' = [[c \in Chats |-> Turn(c)] EXCEPT ![chat[w]] = job[w]]
<1>1. /\ chat[w] \in Chats /\ chat[w] # NoChat
      /\ \A v \in Workers : chat[v] = chat[w] => v = w
  <2>1. chat[w] \in Chats /\ chat[w] # NoChat
    BY DEF SchedulerInv, TypeOK, LocalsOK
  <2>2. QED  BY <2>1 DEF SchedulerInv, Tokens, OneTokenPerChat
<1> USE DEF SchedulerInv, TypeOK, TurnsOK
<1>2. Turn(chat[w]) = NoMessage
  BY <1>1
<1>3. ASSUME NEW c \in Chats, c # chat[w] PROVE Turn(c)' = Turn(c)
  <2>1. CASE \E v \in Workers : phase[v] = "running" /\ chat[v] = c
    BY <1>3, <2>1
  <2>2. CASE \A v \in Workers : ~(phase[v] = "running" /\ chat[v] = c)
    BY <1>3, <2>2
  <2>3. QED  BY <2>1, <2>2
<1>4. Turn(chat[w])' = job[w]
  OBVIOUS
<1>5. QED  BY <1>1, <1>2, <1>3, <1>4

\* The step that ends a job leaves its chat without a turn.
LEMMA TurnEnds ==
  ASSUME SchedulerInv, TurnsOK, TurnsOK', NEW w \in Workers, phase[w] = "running",
         phase' = [phase EXCEPT ![w] = "settling"], UNCHANGED chat,
         job' = [job EXCEPT ![w] = NoMessage]
  PROVE  [c \in Chats |-> Turn(c)]' = [[c \in Chats |-> Turn(c)] EXCEPT ![chat[w]] = NoMessage]
<1>1. /\ chat[w] \in Chats /\ chat[w] # NoChat
      /\ \A v \in Workers : chat[v] = chat[w] => v = w
  <2>1. chat[w] \in Chats /\ chat[w] # NoChat
    BY DEF SchedulerInv, TypeOK, LocalsOK
  <2>2. QED  BY <2>1 DEF SchedulerInv, Tokens, OneTokenPerChat
<1> USE DEF SchedulerInv, TypeOK, TurnsOK
<1>2. Turn(chat[w])' = NoMessage
  BY <1>1
<1>3. ASSUME NEW c \in Chats, c # chat[w] PROVE Turn(c)' = Turn(c)
  <2>1. CASE \E v \in Workers : phase[v] = "running" /\ chat[v] = c
    BY <1>3, <2>1
  <2>2. CASE \A v \in Workers : ~(phase[v] = "running" /\ chat[v] = c)
    BY <1>3, <2>2
  <2>3. QED  BY <2>1, <2>2
<1>4. QED  BY <1>1, <1>2, <1>3

\* A callback that has its row claimed shares it with no turn.
LEMMA ClaimedIsNoTurn ==
  ASSUME SchedulerInv, TurnsOK, NEW m \in Messages,
         callback[m] \in {"claimed", "interrupting"}
  PROVE  Turn(ChatOf[m]) # m
<1>1. ChatOf[m] \in Chats /\ m # NoMessage
  BY SchedulerAssumption
<1>2. CASE \E w \in Workers : phase[w] = "running" /\ chat[w] = ChatOf[m]
  BY <1>1, <1>2 DEF SchedulerInv, OneExecutor, TurnsOK
<1>3. CASE \A w \in Workers : ~(phase[w] = "running" /\ chat[w] = ChatOf[m])
  BY <1>1, <1>3 DEF TurnsOK
<1>4. QED  BY <1>2, <1>3

\* The daemon starts with an empty inbox.
LEMMA InitRefines == Init => Inbox!Init
<1> SUFFICES ASSUME Init PROVE Inbox!Init
  OBVIOUS
<1>1. \A c \in Chats : Turn(c) = NoMessage
  BY DEF Init, Turn
<1>2. QED  BY <1>1 DEF Init, Inbox!Init

\* What a callback does to a row is a step of the inbox, or none.
LEMMA CallbackRefines ==
  ASSUME OrderInv, OrderInv', NEW m \in Messages,
         Delivery(m) \/ Callback(m) \/ CallbackFails(m)
  PROVE  [Inbox!Next]_Inbox!vars
<1> DEFINE turn == [c \in Chats |-> Turn(c)]
<1> DEFINE arriving == {n \in Messages : callback[n] = "stamped"}
<1> USE SchedulerAssumption
<1>1. TurnsOK /\ TurnsOK' /\ ChatOf[m] \in Chats
  BY TurnsAreJobs, NextTurnsAreJobs DEF OrderInv
<1>2. turn' = turn
  <2>1. UNCHANGED <<phase, chat, job>>
    BY DEF Delivery, Stamp, Receive, ReceiveFails,
        CallbackFails, Callback, Enqueue, Ignore, ClaimControl, FinishControl,
           Interrupt, Rewrite, Requeue, CloseRedirect, locals
  <2>2. QED  BY <1>1, <2>1, TurnsKept
<1>3. daemon # "down" /\ UNCHANGED daemon
  BY DEF OrderInv, SchedulerInv, DownOK, Delivery, Stamp, Receive, ReceiveFails,
         CallbackFails, Callback, Enqueue, Ignore, ClaimControl, FinishControl, Interrupt, Rewrite, Requeue, CloseRedirect
<1>4. callback[m] \in {"claimed", "interrupting"} =>
        /\ status[m] = "running" /\ Kind[m] \in {"control", "redirect"}
        /\ turn[ChatOf[m]] # m
  BY <1>1, ClaimedIsNoTurn DEF OrderInv, SchedulerInv, RowsOK
<1>5. /\ callback[m] \notin {"none", "stamped"} => status[m] # "absent"
      /\ ~Delivery(m) => arriving' = arriving /\ UNCHANGED ahead
  <2>1. callback[m] \notin {"none", "stamped"} => status[m] # "absent"
    BY DEF OrderInv, ArrivalsOK
  <2>2. ASSUME ~Delivery(m)
        PROVE  /\ UNCHANGED ahead /\ callback[m] # "stamped"
               /\ \E p \in CallbackPhases \ {"stamped"} :
                    callback' = [callback EXCEPT ![m] = p]
    BY <2>2 DEF Callback, CallbackFails, Enqueue, Ignore, ClaimControl, FinishControl,
                Interrupt, Rewrite, Requeue, CloseRedirect, CallbackPhases, durable, arrival
  <2>3. QED  BY <2>1, <2>2 DEF OrderInv, SchedulerInv, TypeOK
<1> HIDE DEF turn, arriving
<1>6. CASE Delivery(m)
  <2>1. CASE Stamp(m)
    <3>1. m \notin arriving /\ arriving' = arriving \cup {m}
      BY <2>1 DEF Stamp, OrderInv, SchedulerInv, TypeOK, arriving
    <3>2. Inbox!Come(m)
      BY <1>2, <1>3, <2>1, <3>1 DEF Stamp, Prompts, Inbox!Come, turn, arriving
    <3>3. QED  BY <3>2 DEF Inbox!Next
  <2>2. CASE Receive(m)
    <3>1. m \in arriving /\ arriving' = arriving \ {m}
      BY <2>2 DEF Receive, OrderInv, SchedulerInv, TypeOK, arriving
    <3>2. Inbox!Accept(m)
      BY <1>2, <1>3, <2>2, <3>1
         DEF Receive, arrival, SetStatus, Inbox!Accept, Inbox!SetStatus, turn, arriving
    <3>3. QED  BY <3>2 DEF Inbox!Next
  <2>3. CASE ReceiveFails(m)
    <3>1. m \in arriving /\ arriving' = arriving \ {m}
      BY <2>3 DEF ReceiveFails, OrderInv, SchedulerInv, TypeOK, arriving
    <3>2. Inbox!Lose(m)
      BY <1>2, <1>3, <2>3, <3>1 DEF ReceiveFails, Inbox!Lose, turn, arriving
    <3>3. QED  BY <3>2 DEF Inbox!Next
  <2>4. QED  BY <1>6, <2>1, <2>2, <2>3 DEF Delivery
<1>7. CASE ~Delivery(m) /\ (Enqueue(m) \/ Interrupt(m) \/ Requeue(m) \/ CallbackFails(m))
  <2>1. UNCHANGED <<status, ahead>> /\ arriving' = arriving
    BY <1>5, <1>7 DEF Enqueue, Interrupt, Requeue, CallbackFails, durable
  <2>2. QED  BY <1>2, <1>3, <2>1 DEF Inbox!vars, turn, arriving
<1>8. CASE ~Delivery(m) /\ Ignore(m)
  <2>1. Inbox!Close(m)
    BY <1>2, <1>3, <1>5, <1>8 DEF Ignore, SetStatus, Inbox!Close, Inbox!SetStatus, turn, arriving
  <2>2. QED  BY <2>1 DEF Inbox!Next
<1>9. CASE ~Delivery(m) /\ ClaimControl(m)
  <2>1. CASE Claimable(m)
    <3>1. Inbox!BeginCommand(m)
      BY <1>2, <1>3, <1>5, <1>9, <2>1 DEF ClaimControl, Claimable, MarkRunning, SetStatus,
        Inbox!BeginCommand, Inbox!SetStatus, turn, arriving
    <3>2. QED  BY <3>1 DEF Inbox!Next
  <2>2. CASE ~Claimable(m)
    BY <1>2, <1>3, <1>5, <1>9, <2>2 DEF ClaimControl, Inbox!vars, turn, arriving
  <2>3. QED  BY <2>1, <2>2
<1>10. CASE ~Delivery(m) /\ FinishControl(m)
  <2>1. Inbox!EndCommand(m)
    BY <1>2, <1>3, <1>5, <1>4, <1>10
       DEF FinishControl, SetStatus, Inbox!EndCommand, Inbox!SetStatus, turn, arriving
  <2>2. QED  BY <2>1 DEF Inbox!Next
<1>11. CASE ~Delivery(m) /\ Rewrite(m)
  <2>1. Kind[m] = "redirect"
    BY <1>11 DEF Rewrite, OrderInv, SchedulerInv, RowsOK
  <2>2. Inbox!EndCommand(m)
    BY <1>2, <1>3, <1>5, <1>4, <1>11, <2>1
       DEF Rewrite, SetStatus, Inbox!EndCommand, Inbox!SetStatus, turn, arriving
  <2>3. QED  BY <2>2 DEF Inbox!Next
<1>12. CASE ~Delivery(m) /\ CloseRedirect(m)
  <2>1. Kind[m] = "redirect"
    BY <1>12 DEF CloseRedirect, OrderInv, SchedulerInv, RowsOK
  <2>2. CASE UNCHANGED status
    BY <1>2, <1>3, <1>5, <1>12, <2>2 DEF Inbox!vars, turn, arriving
  <2>3. CASE \/ status[m] # "queued" /\ SetStatus(m, "completed")
             \/ SetStatus(m, "failed")
    <3>1. Inbox!Close(m)
      BY <1>2, <1>3, <1>5, <1>12, <2>1, <2>3
         DEF CloseRedirect, SetStatus, Inbox!Close, Inbox!SetStatus, turn, arriving
    <3>2. QED  BY <3>1 DEF Inbox!Next
  <2>4. QED  BY <1>12, <2>2, <2>3 DEF CloseRedirect
<1>13. QED
  BY <1>6, <1>7, <1>8, <1>9, <1>10, <1>11, <1>12 DEF Callback

\* A worker begins the oldest prompt or an older row, ends it, or changes no row.
LEMMA WorkerRefines ==
  ASSUME OrderInv, OrderInv', NEW w \in Workers, Worker(w) \/ WorkerFails(w)
  PROVE  [Inbox!Next]_Inbox!vars
<1> DEFINE turn == [c \in Chats |-> Turn(c)]
<1> USE SchedulerAssumption
<1>1. TurnsOK /\ TurnsOK' /\ SchedulerInv
  BY TurnsAreJobs, NextTurnsAreJobs DEF OrderInv
<1>2. daemon # "down" /\ UNCHANGED <<daemon, callback, ahead>>
  BY DEF arrival, durable, OrderInv, SchedulerInv, DownOK, Worker, TakeToken, Own,
         Select, Claim, Finish,
         Peek, Release, Exit, WorkerFails
<1>3. phase[w] \in {"chosen", "running"} =>
        job[w] \in Messages /\ ChatOf[job[w]] = chat[w] /\ chat[w] \in Chats
  BY DEF OrderInv, SchedulerInv, LocalsOK, TypeOK
<1>4. CASE Claim(w) /\ Claimable(job[w])
  <2>1. /\ phase[w] = "chosen" /\ status[job[w]] = "queued"
        /\ phase' = [phase EXCEPT ![w] = "running"] /\ UNCHANGED <<chat, job>>
        /\ SetStatus(job[w], "running")
    BY <1>4 DEF Claim, Claimable, MarkRunning, Goto
  <2>2. Turn(chat[w]) = NoMessage /\ turn' = [turn EXCEPT ![chat[w]] = job[w]]
    BY <1>1, <2>1, TurnBegins
  <2>3. \A n \in ahead[job[w]] : status[n] # "queued"
    BY <2>1 DEF OrderInv, NoneAhead
  <2>4. turn[chat[w]] = NoMessage
    BY <1>3, <2>1, <2>2
  <2> HIDE DEF turn
  <2>5. Inbox!Begin(job[w])
    BY <1>2, <1>3, <2>1, <2>2, <2>3, <2>4 DEF Inbox!Begin, Inbox!SetStatus, SetStatus, turn
  <2>6. QED  BY <1>3, <2>1, <2>5 DEF Inbox!Next
<1>5. CASE phase[w] = "running" /\ (Finish(w) \/ WorkerFails(w))
  <2>1. /\ phase' = [phase EXCEPT ![w] = "settling"] /\ UNCHANGED chat
        /\ job' = [job EXCEPT ![w] = NoMessage]
        /\ \/ \E s \in {"completed", "failed"} : SetStatus(job[w], s)
           \/ UNCHANGED status
    BY <1>5 DEF Finish, WorkerFails, Goto, durable
  <2>2. turn' = [turn EXCEPT ![chat[w]] = NoMessage]
    BY <1>1, <1>5, <2>1, TurnEnds
  <2>3. turn[chat[w]] = job[w] /\ job[w] # NoMessage
    BY <1>1, <1>3, <1>5 DEF TurnsOK
  <2> HIDE DEF turn
  <2>4. Inbox!End(chat[w])
    BY <1>2, <2>1, <2>2, <2>3 DEF Inbox!End, Inbox!SetStatus, SetStatus, turn
  <2>5. QED  BY <1>3, <1>5, <2>4 DEF Inbox!Next
<1>6. CASE /\ ~(Claim(w) /\ Claimable(job[w]))
           /\ ~(phase[w] = "running" /\ (Finish(w) \/ WorkerFails(w)))
  <2>1. UNCHANGED status
    BY <1>6 DEF Worker, TakeToken, Own, Select, Claim, Finish, Peek, Release, Exit,
                WorkerFails, durable
  <2>2. \A v \in Workers : v # w =>
          phase'[v] = phase[v] /\ chat'[v] = chat[v] /\ job'[v] = job[v]
    BY <1>1, <1>6 DEF SchedulerInv, TypeOK, Worker, TakeToken, Own, Select, Claim, Finish,
      Peek, Release, Exit, WorkerFails, Goto
  <2>3. phase[w] # "running" /\ phase'[w] # "running"
    BY <1>1, <1>6 DEF SchedulerInv, TypeOK, Worker, TakeToken, Own, Select, Claim, Finish,
      Peek, Release, Exit, WorkerFails, Goto, LoopPhase
  <2>4. turn' = turn
    BY <1>1, <2>2, <2>3, TurnsKept
  <2>5. QED  BY <1>2, <2>1, <2>4 DEF Inbox!vars
<1>7. QED  BY <1>4, <1>5, <1>6

\* Starts, stops and the end of the process are the inbox's, or no step of it.
LEMMA ProcessRefines ==
  ASSUME OrderInv, OrderInv', Start \/ Stop \/ Shutdown \/ Crash \/ UNCHANGED vars
  PROVE  [Inbox!Next]_Inbox!vars
<1> DEFINE turn == [c \in Chats |-> Turn(c)]
<1>1. TurnsOK /\ TurnsOK'
  BY TurnsAreJobs, NextTurnsAreJobs DEF OrderInv
<1>2. CASE Start \/ Stop \/ UNCHANGED vars
  <2>1. UNCHANGED <<phase, chat, job>>
    BY <1>2 DEF Start, Stop, vars, locals
  <2>2. turn' = turn
    BY <1>1, <2>1, TurnsKept
  <2> HIDE DEF turn
  <2>3. CASE Start
    <3>1. Inbox!Recover
      BY <2>2, <2>3 DEF Start, arrival, Recovered, Inbox!Recover, turn
    <3>2. QED  BY <3>1 DEF Inbox!Next
  <2>4. CASE Stop \/ UNCHANGED vars
    BY <2>2, <2>4 DEF Stop, vars, durable, Inbox!vars, turn
  <2>5. QED  BY <1>2, <2>3, <2>4
<1>3. CASE Shutdown \/ Crash
  <2>1. \A c \in Chats : Turn(c)' = NoMessage
    BY <1>1, <1>3 DEF TurnsOK, Shutdown, Crash, MemoryLost
  <2>2. Inbox!Die
    BY <1>3, <2>1 DEF Shutdown, Crash, MemoryLost, Inbox!Die
  <2>3. QED  BY <2>2 DEF Inbox!Next
<1>4. QED  BY <1>2, <1>3

\* Arrivals stay in order: the prompts that were stored when a message read the
\* clock (enqueue_message) keep an older received_at, however late its insert
\* comes, and none of them waits while a worker holds the message selected.
THEOREM OrderInvariant == Spec => []OrderInv
<1>1. Init => ArrivalsOK /\ NoneAhead
  BY SchedulerAssumption DEF Init, ArrivalsOK, NoneAhead
<1>2. Init => OrderInv
  BY <1>1, InitInv DEF OrderInv
<1>3. QED  BY <1>2, OrderStep, PTL DEF Spec

\* A worker never starts a message before a prompt of its chat that was stored
\* when the message came, whatever callbacks insert late, out of the order of
\* their clocks, or between its selection and its claim.
THEOREM PromptsStartInOrder == Spec => PromptsInOrder
<1> DEFINE InOrder == \A w \in Workers : StartsJob(w) =>
             \A n \in ahead[job[w]] : status[n] # "queued"
<1>1. OrderInv /\ [Next]_vars => [InOrder]_vars
  <2> SUFFICES ASSUME OrderInv, [Next]_vars, NEW w \in Workers, StartsJob(w)
               PROVE  \A n \in ahead[job[w]] : status[n] # "queued"
    OBVIOUS
  <2>1. phase[w] = "chosen"
    <3> USE DEF OrderInv, SchedulerInv, TypeOK, StartsJob, Goto, LoopPhase, locals
    <3>1. ASSUME NEW m \in Messages, Delivery(m) \/ Callback(m) \/ CallbackFails(m)
          PROVE  UNCHANGED phase
      BY <3>1 DEF Delivery, Stamp, Receive, ReceiveFails,
          CallbackFails, Callback, Enqueue, Ignore, ClaimControl,
                  FinishControl, Interrupt, Rewrite, Requeue, CloseRedirect
    <3>2. ASSUME NEW v \in Workers, Worker(v) \/ WorkerFails(v)
          PROVE  phase'[w] = "running" => phase[w] \in {"chosen", "running"}
      BY <3>2 DEF Worker, TakeToken, Own, Select, Claim, Finish, Peek, Release, Exit,
                  WorkerFails
    <3>3. CASE Start \/ Stop \/ UNCHANGED vars
      BY <3>3 DEF Start, Stop, vars
    <3>4. CASE Shutdown \/ Crash
      BY <3>4 DEF Shutdown, Crash, MemoryLost
    <3>5. QED  BY <3>1, <3>2, <3>3, <3>4 DEF Next
  <2>2. QED  BY <2>1 DEF OrderInv, NoneAhead
<1>2. QED  BY <1>1, OrderInvariant, PTL DEF Spec, PromptsInOrder

\* Tokens, locks and threads hidden, the runtime does what ChatInbox promises:
\* one durable row per message, one turn per chat, no message begun before a
\* prompt it came behind, and nothing begun twice, across every crash and restart.
THEOREM SchedulerImplementsInbox == Spec => ImplementsInbox
<1>1. OrderInv /\ OrderInv' /\ [Next]_vars => [Inbox!Next]_Inbox!vars
  BY CallbackRefines, WorkerRefines, ProcessRefines DEF Next
<1>2. QED
  BY <1>1, InitRefines, OrderInvariant, PTL DEF Spec, ImplementsInbox, Inbox!Spec
=============================================================================
