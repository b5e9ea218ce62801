----------------------------- MODULE AppServerRpc -----------------------------
(***************************************************************************)
(* AppServerClient: JSON-RPC over the pipes of a codex app-server.  Any    *)
(* thread may have a request under way; one reader thread per client deals *)
(* out responses, requests of the app-server and notifications; close may  *)
(* come at any moment, and so may the end of the process.                  *)
(*                                                                         *)
(* The app-server is external: it answers the requests it was sent or does *)
(* not, runs one turn per client, and may send the same request id again.  *)
(***************************************************************************)
EXTENDS Naturals, Sequences, FiniteSets

CONSTANTS
  Clients,    \* app-server clients, each with a process and a turn of its own
  NoClient,
  Calls,      \* calls of AppServerClient.request
  Starts,     \* the ones that are turn/start
  Asks,       \* requests the app-server sends
  NoAsk,
  AskOn,      \* the client an app-server request arrives on
  IdOf,       \* its JSON-RPC id
  Slots       \* SERVER_REQUEST_THREAD_LIMIT

Ids == {IdOf[x] : x \in Asks}

ASSUME RpcAssumption ==
  /\ NoClient \notin Clients /\ NoAsk \notin Asks
  /\ Starts \subseteq Calls
  /\ AskOn \in [Asks -> Clients]
  /\ \A x, y \in Asks : IdOf[x] = IdOf[y] => AskOn[x] = AskOn[y]
  /\ Slots \in Nat

VARIABLES
  proc,        \* "none", "up", "exiting" (stdout at its end, poll() is None), "dead"
  serving,     \* whether the app-server runs the client's turn
  unanswered,  \* calls the app-server has yet to answer
  stdout,      \* lines the reader has yet to read
  reader,      \* the stdout thread
  refusing,    \* the request the reader refuses itself, for want of a slot
  closer,      \* how far close has come; _closing is set unless "open"
  sub,         \* the turn's subscription in the dispatcher
  inbox,       \* its queue holds turn/completed
  client,      \* the client a call is made on
  at,          \* where a call stands
  box,         \* its waiter queue
  out,         \* what its caller got
  handler,     \* where a request of the app-server stands
  resolved,    \* _resolved_server_request_ids
  inflight,    \* _inflight_server_request_ids
  told         \* responses the app-server received, by id

server == <<proc, serving, unanswered>>
reads  == <<stdout, reader, refusing>>
subs   == <<sub, inbox>>
calls  == <<client, at, box, out>>
asks   == <<handler, resolved, inflight, told>>
rpcVars == <<server, reads, closer, subs, calls, asks>>

CallSteps == {"idle", "checked", "registered", "writing", "stuck", "waiting",
              "over"}
AskSteps  == {"none", "sent", "handling", "writing", "stuck", "written", "over"}
Lines == [type : {"result", "error"}, of : Calls]
           \cup [type : {"request"}, of : Asks]
           \cup [type : {"completed"}, of : Clients]

RpcTypeOK ==
  /\ proc \in [Clients -> {"none", "up", "exiting", "dead"}]
  /\ serving \in [Clients -> {"no", "yes", "ended"}]
  /\ unanswered \in SUBSET Calls
  /\ stdout \in [Clients -> Seq(Lines)]
  /\ reader \in [Clients -> {"none", "reading", "failing", "done"}]
  /\ refusing \in [Clients -> Asks \cup {NoAsk}]
  /\ closer \in [Clients -> {"open", "marked", "failed", "closed"}]
  /\ sub \in [Clients -> {"none", "open", "closed"}]
  /\ inbox \in [Clients -> BOOLEAN]
  /\ client \in [Calls -> Clients \cup {NoClient}]
  /\ at \in [Calls -> CallSteps]
  /\ box \in [Calls -> {"empty", "result", "error"}]
  /\ out \in [Calls -> {"none", "result", "raised"}]
  /\ handler \in [Asks -> AskSteps]
  /\ resolved \in SUBSET Ids /\ inflight \in SUBSET Ids
  /\ told \in [Ids -> Nat]

Closing(c) == closer[c] # "open"
Gone(c) == Closing(c) \/ proc[c] = "dead"   \* the test of request and _write
Step(q, s) == at' = [at EXCEPT ![q] = s]
End(q, r) == Step(q, "over") /\ out' = [out EXCEPT ![q] = r]
Emit(c, type, of) == stdout' = [stdout EXCEPT ![c] = Append(@, [type |-> type, of |-> of])]

-----------------------------------------------------------------------------
(* The app-server.                                                         *)

Reply(q) ==
  LET c == client[q] IN
  /\ q \in unanswered /\ proc[c] = "up"
  /\ unanswered' = unanswered \ {q}
  /\ \/ /\ Emit(c, "result", q)
        /\ serving' = IF q \in Starts THEN [serving EXCEPT ![c] = "yes"] ELSE serving
     \/ Emit(c, "error", q) /\ UNCHANGED serving
  /\ UNCHANGED <<proc, reader, refusing, closer, subs, calls, asks>>

Complete(c) ==
  /\ serving[c] = "yes" /\ proc[c] = "up"
  /\ serving' = [serving EXCEPT ![c] = "ended"]
  /\ Emit(c, "completed", c)
  /\ UNCHANGED <<proc, unanswered, reader, refusing, closer, subs, calls, asks>>

Ask(x) ==
  /\ handler[x] = "none" /\ serving[AskOn[x]] = "yes" /\ proc[AskOn[x]] = "up"
  /\ handler' = [handler EXCEPT ![x] = "sent"]
  /\ Emit(AskOn[x], "request", x)
  /\ UNCHANGED <<server, reader, refusing, closer, subs, calls, resolved, inflight, told>>

\* The process ends on its own: its output first, poll() tells later.
Vanish(c) ==
  /\ proc' = [proc EXCEPT ![c] = "dead"]
  /\ unanswered' = {q \in unanswered : client[q] # c}

Die(c) ==
  /\ \/ proc[c] = "up" /\ proc' = [proc EXCEPT ![c] = "exiting"] /\ UNCHANGED unanswered
     \/ proc[c] = "exiting" /\ Vanish(c)
  /\ UNCHANGED <<serving, reads, closer, subs, calls, asks>>

-----------------------------------------------------------------------------
(* request                                                                 *)

Check(q, c) ==
  /\ at[q] = "idle"
  /\ client' = [client EXCEPT ![q] = c]
  /\ IF Gone(c) THEN End(q, "raised") ELSE Step(q, "checked") /\ UNCHANGED out
  /\ UNCHANGED <<server, reads, closer, subs, box, asks>>

Register(q) ==
  /\ at[q] = "checked"
  /\ Step(q, "registered")
  /\ UNCHANGED <<server, reads, closer, subs, client, box, out, asks>>

\* _write tests again, then writes; a raise takes the waiter out of _pending.
TestPipe(q) ==
  /\ at[q] = "registered"
  /\ IF Gone(client[q]) THEN End(q, "raised") ELSE Step(q, "writing") /\ UNCHANGED out
  /\ UNCHANGED <<server, reads, closer, subs, client, box, asks>>

\* An app-server that does not read, on a pipe that is full: the write waits
\* without a timeout, and keeps _write_lock (app_server.py:219).
Stuck(c) == \/ \E q \in Calls : client[q] = c /\ at[q] = "stuck"
            \/ \E x \in Asks : AskOn[x] = c /\ handler[x] = "stuck"
Hang(q) ==
  /\ at[q] = "writing" /\ proc[client[q]] = "up" /\ ~ Stuck(client[q])
  /\ Step(q, "stuck")
  /\ UNCHANGED <<server, reads, closer, subs, client, box, out, asks>>

WritePipe(q) ==
  /\ at[q] = "stuck" \/ (at[q] = "writing" /\ ~ Stuck(client[q]))
  /\ \/ /\ proc[client[q]] \in {"up", "exiting"}
        /\ Step(q, "waiting")
        /\ unanswered' = unanswered \cup {q}
        /\ UNCHANGED out
     \/ /\ proc[client[q]] # "up"
        /\ End(q, "raised")
        /\ UNCHANGED unanswered
  /\ UNCHANGED <<proc, serving, reads, closer, subs, client, box, asks>>

Return(q) ==
  /\ at[q] = "waiting"
  /\ End(q, IF box[q] = "result" THEN "result" ELSE "raised")   \* "empty": timeout
  /\ box' = [box EXCEPT ![q] = "empty"]
  /\ UNCHANGED <<server, reads, closer, subs, client, asks>>

Request(q) == Register(q) \/ TestPipe(q) \/ Hang(q) \/ WritePipe(q) \/ Return(q)

Pending_Waiting(c) == {q \in Calls : client[q] = c /\ at[q] = "waiting"}   \* mutant
Pending(c) ==
  {q \in Calls : client[q] = c /\ at[q] \in {"registered", "writing", "stuck", "waiting"}}

\* put_nowait into a queue of one: what came first stays.
Put(S, r) == box' = [q \in Calls |-> IF q \in S /\ box[q] = "empty" THEN r ELSE box[q]]

-----------------------------------------------------------------------------
(* _read: the stdout thread.                                               *)

Line(c, type) ==
  /\ reader[c] = "reading" /\ refusing[c] = NoAsk
  /\ stdout[c] # <<>> /\ Head(stdout[c]).type = type
  /\ stdout' = [stdout EXCEPT ![c] = Tail(@)]

ReadResponse(c) ==
  /\ \E r \in {"result", "error"} :
       Line(c, r) /\ Put({Head(stdout[c]).of} \cap Pending(c), r)
  /\ UNCHANGED <<server, reader, refusing, closer, subs, client, at, out, asks>>

\* A free slot starts a thread; without one the reader answers "overloaded".
Busy(c) == {x \in Asks : AskOn[x] = c /\ x # refusing[c]
                         /\ handler[x] \in {"handling", "writing", "stuck", "written"}}
ReadRequest(c) ==
  /\ Line(c, "request")
  /\ LET x == Head(stdout[c]).of IN
     /\ handler' = [handler EXCEPT ![x] = "handling"]
     /\ refusing' = IF Cardinality(Busy(c)) < Slots THEN refusing
                    ELSE [refusing EXCEPT ![c] = x]
  /\ UNCHANGED <<server, reader, closer, subs, calls, resolved, inflight, told>>

\* publish: into the queues of the subscriptions there are.
ReadNotification(c) ==
  /\ Line(c, "completed")
  /\ inbox' = [inbox EXCEPT ![c] = @ \/ sub[c] = "open"]
  /\ UNCHANGED <<server, reader, refusing, closer, sub, calls, asks>>

\* End of file, or a pipe that close has closed.  Unless the client is closing,
\* every waiter there is by then gets the error.
ReadEnd(c) ==
  /\ reader[c] = "reading" /\ refusing[c] = NoAsk
  /\ \/ stdout[c] = <<>> /\ proc[c] # "up"
     \/ closer[c] = "closed"
  /\ reader' = [reader EXCEPT ![c] = IF Closing(c) THEN "done" ELSE "failing"]
  /\ stdout' = [stdout EXCEPT ![c] = <<>>]
  /\ UNCHANGED <<server, refusing, closer, subs, calls, asks>>

FailReader(c) ==
  /\ reader[c] = "failing"
  /\ Put(Pending(c), "error")
  /\ reader' = [reader EXCEPT ![c] = "done"]
  /\ UNCHANGED <<server, stdout, refusing, closer, subs, client, at, out, asks>>

Reader(c) ==
  \/ ReadResponse(c) \/ ReadRequest(c) \/ ReadNotification(c)
  \/ ReadEnd(c) \/ FailReader(c)

-----------------------------------------------------------------------------
(* respond_server_request, by a handler thread or by the reader.           *)

\* The reader goes on when the request it refuses itself is done with.
Over(x) ==
  /\ handler' = [handler EXCEPT ![x] = "over"]
  /\ refusing' = [c \in Clients |-> IF refusing[c] = x THEN NoAsk ELSE refusing[c]]

Answered(i) == i \in resolved \cup inflight
Enter(x) ==
  /\ handler[x] = "handling"
  /\ IF Answered(IdOf[x]) \/ Gone(AskOn[x])
     THEN Over(x) /\ UNCHANGED inflight
     ELSE /\ inflight' = inflight \cup {IdOf[x]}
          /\ handler' = [handler EXCEPT ![x] = "writing"]
          /\ UNCHANGED refusing
  /\ UNCHANGED <<server, stdout, reader, closer, subs, calls, resolved, told>>

HangAnswer(x) ==
  /\ handler[x] = "writing" /\ proc[AskOn[x]] = "up" /\ ~ Closing(AskOn[x])
  /\ ~ Stuck(AskOn[x])
  /\ handler' = [handler EXCEPT ![x] = "stuck"]
  /\ UNCHANGED <<server, stdout, reader, refusing, closer, subs, calls, resolved, inflight, told>>

\* A write that raises gives the id back.  One that hung was past the test.
Raises(x) == proc[AskOn[x]] # "up" \/ (handler[x] = "writing" /\ Closing(AskOn[x]))
Writes(x) == proc[AskOn[x]] # "dead" /\ (handler[x] = "stuck" \/ ~ Closing(AskOn[x]))
WriteAnswer(x) ==
  LET c == AskOn[x] IN
  /\ handler[x] = "stuck" \/ (handler[x] = "writing" /\ ~ Stuck(c))
  /\ \/ /\ Writes(x)
        /\ handler' = [handler EXCEPT ![x] = "written"]
        /\ told' = IF proc[c] = "up" THEN [told EXCEPT ![IdOf[x]] = @ + 1] ELSE told
        /\ UNCHANGED <<refusing, inflight>>
     \/ /\ Raises(x)
        /\ Over(x)
        /\ inflight' = inflight \ {IdOf[x]}
        /\ UNCHANGED told
  /\ UNCHANGED <<server, stdout, reader, closer, subs, calls, resolved>>

Commit(x) ==
  /\ handler[x] = "written"
  /\ Over(x)
  /\ inflight' = inflight \ {IdOf[x]}
  /\ resolved' = resolved \cup {IdOf[x]}
  /\ UNCHANGED <<server, stdout, reader, closer, subs, calls, told>>

Handler(x) == Enter(x) \/ HangAnswer(x) \/ WriteAnswer(x) \/ Commit(x)

-----------------------------------------------------------------------------
(* close: mark, fail the waiters, end the process and close the pipes.     *)

Shut(c, from, to) == closer[c] = from /\ closer' = [closer EXCEPT ![c] = to]

MarkClosing(c) ==
  /\ Shut(c, "open", "marked")
  /\ UNCHANGED <<server, reads, subs, calls, asks>>

FailWaiters(c) ==
  /\ Shut(c, "marked", "failed")
  /\ Put(Pending(c), "error")
  /\ UNCHANGED <<server, reads, subs, client, at, out, asks>>

Kill(c) ==
  /\ Shut(c, "failed", "closed")
  /\ Vanish(c)
  /\ UNCHANGED <<serving, reads, subs, calls, asks>>

RpcInit ==
  /\ proc = [c \in Clients |-> "none"]
  /\ serving = [c \in Clients |-> "no"]
  /\ unanswered = {}
  /\ stdout = [c \in Clients |-> <<>>]
  /\ reader = [c \in Clients |-> "none"]
  /\ refusing = [c \in Clients |-> NoAsk]
  /\ closer = [c \in Clients |-> "open"]
  /\ sub = [c \in Clients |-> "none"]
  /\ inbox = [c \in Clients |-> FALSE]
  /\ client = [q \in Calls |-> NoClient]
  /\ at = [q \in Calls |-> "idle"]
  /\ box = [q \in Calls |-> "empty"]
  /\ out = [q \in Calls |-> "none"]
  /\ handler = [x \in Asks |-> "none"]
  /\ resolved = {} /\ inflight = {}
  /\ told = [i \in Ids |-> 0]

\* Steps of threads other than the callers, and of the app-server.
RpcNext ==
  \/ \E q \in Calls : Request(q) \/ Reply(q)
  \/ \E c \in Clients : Reader(c) \/ Complete(c) \/ Die(c)
  \/ \E x \in Asks : Ask(x) \/ Handler(x)
=============================================================================
