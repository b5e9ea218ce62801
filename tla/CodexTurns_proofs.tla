--------------------------- MODULE CodexTurns_proofs ---------------------------
(***************************************************************************)
(* What CodexTurns keeps for any number of turns, stops, requests and      *)
(* handler slots.  TurnsInv is inductive; it joins                         *)
(*   - what a request knows of its client, and a closed client of its      *)
(*     waiters (Called, WaitersFailed);                                    *)
(*   - who is answering a request id (AskLines, Answering, ToldIds);       *)
(*   - how far a turn can be while its app-server serves it (StartsCalled, *)
(*     NotServedYet, Subscribed, CompletionIsKept);                        *)
(*   - what the registry shows of turns that come one after another        *)
(*     (ClosesLast, OneAtATime, Registry, StopsKnow).                      *)
(***************************************************************************)
EXTENDS CodexTurns, TLAPS

\* A call that was begun has its client; only such calls are with the app-server.
Called ==
  /\ \A q \in Calls : at[q] # "idle" => client[q] \in Clients
  /\ \A q \in unanswered : at[q] # "idle"

\* A request that passed the last test of its client while it was open has its
\* error once close has failed the waiters.
WaitersFailed ==
  \A q \in Calls :
    at[q] \in {"writing", "stuck", "waiting"} /\ closer[client[q]] \in {"failed", "closed"}
      => box[q] # "empty"

\* An id is answered by one thread at a time, and never again once resolved.
Answers(x) == handler[x] \in {"writing", "stuck", "written"}
Answering ==
  /\ \A x \in Asks : Answers(x) => IdOf[x] \in inflight /\ IdOf[x] \notin resolved
  /\ \A x, y \in Asks : Answers(x) /\ Answers(y) /\ IdOf[x] = IdOf[y] => x = y

ToldIds ==
  \A i \in Ids :
    /\ told[i] \in {0, 1}
    /\ told[i] = 1 => \/ i \in resolved
                      \/ \E x \in Asks : IdOf[x] = i /\ handler[x] = "written"

\* A turn/start is made by the turn it starts, after it has subscribed; until
\* then the app-server serves nothing.
Early == {"new", "begun", "subscribed"}
StartsCalled ==
  \A q \in Starts : at[q] # "idle" => q = StartOf[client[q]] /\ run[client[q]] \notin Early
NotServedYet == \A t \in Clients : run[t] \in Early => serving[t] = "no"
Subscribed ==
  \A t \in Clients :
    run[t] \in {"subscribed", "starting", "started", "waiting"} => sub[t] = "open"

\* Only the end of a turn closes its client, and turns do not overlap.
ClosesLast == \A t \in Clients : closer[t] # "open" => run[t] \in {"closing", "over"}
Between(t) == run[t] \notin {"new", "over"}
OneAtATime == \A t, u \in Clients : Between(t) /\ Between(u) => t = u

\* What the registry and a stop hold is a turn that came that far.
Published(t) == t # NoTurn => run[t] \in {"closing", "over"}
Registry ==
  /\ active = NoTurn \/ result = NoTurn
  /\ Published(result)
StopsKnow ==
  \A s \in Stops :
    /\ stop[s] \in {"found", "interrupting", "waiting"} => target[s] # NoTurn
    /\ target[s] # NoTurn => run[target[s]] \in {"waiting", "interrupting", "closing", "over"}
    /\ stop[s] # "over" => terminal[s] = NoTurn
    /\ Published(terminal[s])

\* A request is read once, before any thread handles it.
AskLine(c, i, x) ==
  i \in DOMAIN stdout[c] /\ stdout[c][i].type = "request" /\ stdout[c][i].of = x
AskLines ==
  \A x \in Asks : \A c, d \in Clients : \A i, j \in Nat \ {0} :
    /\ AskLine(c, i, x) => handler[x] = "sent"
    /\ AskLine(c, i, x) /\ AskLine(d, j, x) => c = d /\ i = j

RpcInv == Called /\ WaitersFailed /\ AskLines /\ Answering /\ ToldIds
ServingInv == StartsCalled /\ NotServedYet /\ Subscribed /\ CompletionIsKept
RegistryInv ==
  ClosesLast /\ OneAtATime /\ Registry /\ StopsKnow /\ ActiveIsFollowed
    /\ StopReportsNoOlderTurn
TurnsInv == TypeOK /\ RpcInv /\ ServingInv /\ RegistryInv

-----------------------------------------------------------------------------
(* Types.                                                                  *)

\* The parts of the types that the steps of a call, and of an answer, change.
CallsTypeOK ==
  /\ at \in [Calls -> CallSteps]
  /\ out \in [Calls -> {"none", "result", "raised"}]
AsksTypeOK ==
  /\ refusing \in [Clients -> Asks \cup {NoAsk}]
  /\ handler \in [Asks -> AskSteps]
  /\ resolved \in SUBSET Ids /\ inflight \in SUBSET Ids
  /\ told \in [Ids -> Nat]

\* The types, by the parts the invariants need.
LEMMA TypeParts == TypeOK => CallsTypeOK /\ AsksTypeOK
BY DEF TypeOK, RpcTypeOK, CallsTypeOK, AsksTypeOK

\* A request that checks its client (_request, before it registers).
LEMMA CheckType ==
  ASSUME TypeOK, NEW q \in Calls, NEW c \in Clients, Check(q, c)
  PROVE  RpcTypeOK'
<1>1. CallsTypeOK'
  <2>1. CallsTypeOK
    BY TypeParts
  <2>2. QED
    BY <2>1 DEF CallsTypeOK, CallSteps, Check, End, Step
<1>2. client' \in [Calls -> Clients \cup {NoClient}]
  BY DEF TypeOK, RpcTypeOK, Check
<1>3. UNCHANGED <<server, reads, closer, subs, box, asks>>
  BY DEF Check
<1>4. QED
  BY <1>1, <1>2, <1>3 DEF TypeOK, RpcTypeOK, CallsTypeOK, server, reads, subs, asks

\* Each further step of a request.
LEMMA RequestType ==
  ASSUME TypeOK, NEW q \in Calls, Request(q)
  PROVE  RpcTypeOK'
<1>1. CallsTypeOK'
  <2>1. CallsTypeOK
    BY TypeParts
  <2> USE <2>1 DEF CallsTypeOK, CallSteps, End, Step
  <2>2. CASE Register(q)
    BY <2>2 DEF Register
  <2>3. CASE TestPipe(q)
    BY <2>3 DEF TestPipe
  <2>4. CASE WritePipe(q)
    BY <2>4 DEF WritePipe
  <2>5. CASE Return(q)
    BY <2>5 DEF Return
  <2>6. CASE Hang(q)
    BY <2>6 DEF Hang
  <2>7. QED
    BY <2>2, <2>3, <2>4, <2>5, <2>6 DEF Request
<1>2. box' \in [Calls -> {"empty", "result", "error"}]
  <2>1. box \in [Calls -> {"empty", "result", "error"}]
    BY DEF TypeOK, RpcTypeOK
  <2>2. QED
    BY <2>1 DEF Request, Register, TestPipe, Hang, WritePipe, Return
<1>3. unanswered' \in SUBSET Calls
  <2>1. unanswered \in SUBSET Calls
    BY DEF TypeOK, RpcTypeOK
  <2>2. QED
    BY <2>1 DEF Request, Register, TestPipe, Hang, WritePipe, Return, server
<1>4. UNCHANGED <<proc, serving, reads, closer, subs, client, asks>>
  BY DEF Request, Register, TestPipe, Hang, WritePipe, Return, server
<1>5. QED
  BY <1>1, <1>2, <1>3, <1>4 DEF TypeOK, RpcTypeOK, CallsTypeOK, reads, subs, asks

\* The server writes a line.
LEMMA EmitType ==
  ASSUME TypeOK, NEW c \in Clients, NEW type, NEW of,
         [type |-> type, of |-> of] \in Lines, Emit(c, type, of)
  PROVE  stdout' \in [Clients -> Seq(Lines)]
BY DEF TypeOK, RpcTypeOK, Emit

\* The reader takes a line.
LEMMA LineType ==
  ASSUME TypeOK, NEW c \in Clients, NEW type, Line(c, type)
  PROVE  /\ stdout' \in [Clients -> Seq(Lines)]
         /\ Head(stdout[c]) \in Lines
<1>1. stdout[c] \in Seq(Lines) /\ stdout[c] # <<>>
  BY DEF TypeOK, RpcTypeOK, Line
<1>2. Head(stdout[c]) \in Lines /\ Tail(stdout[c]) \in Seq(Lines)
  BY <1>1
<1>3. QED
  BY <1>2 DEF TypeOK, RpcTypeOK, Line

\* A waiter is given a result or an error.
LEMMA PutType ==
  ASSUME TypeOK, NEW S, NEW r \in {"result", "error"}, Put(S, r)
  PROVE  box' \in [Calls -> {"empty", "result", "error"}]
BY DEF TypeOK, RpcTypeOK, Put

\* A line of a kind names an element of that kind.
LEMMA LineNames ==
  ASSUME NEW l \in Lines
  PROVE  /\ l.type = "request" => l.of \in Asks
         /\ l.type \in {"result", "error"} => l.of \in Calls
BY DEF Lines

\* Each step of the app-server.
LEMMA ServerType ==
  ASSUME TypeOK, Called,
         \/ \E q \in Calls : Reply(q)
         \/ \E c \in Clients : Complete(c) \/ Die(c)
         \/ \E x \in Asks : Ask(x)
  PROVE  RpcTypeOK'
<1>1. ASSUME NEW q \in Calls, Reply(q) PROVE RpcTypeOK'
  <2>1. client[q] \in Clients
    BY <1>1 DEF Reply, Called
  <2>2. stdout' \in [Clients -> Seq(Lines)]
    <3>1. /\ [type |-> "result", of |-> q] \in Lines
          /\ [type |-> "error", of |-> q] \in Lines
      BY DEF Lines
    <3>2. QED
      BY <1>1, <2>1, <3>1, EmitType DEF Reply
  <2>3. /\ serving' \in [Clients -> {"no", "yes", "ended"}]
        /\ unanswered' \in SUBSET Calls
    <3>1. /\ serving \in [Clients -> {"no", "yes", "ended"}]
          /\ unanswered \in SUBSET Calls
      BY DEF TypeOK, RpcTypeOK
    <3>2. QED
      BY <1>1, <2>1, <3>1 DEF Reply
  <2>4. UNCHANGED <<proc, reader, refusing, closer, subs, calls, asks>>
    BY <1>1 DEF Reply
  <2>5. QED
    BY <2>2, <2>3, <2>4 DEF TypeOK, RpcTypeOK, subs, calls, asks
<1>2. ASSUME NEW c \in Clients, Complete(c) PROVE RpcTypeOK'
  <2>1. stdout' \in [Clients -> Seq(Lines)]
    <3>1. [type |-> "completed", of |-> c] \in Lines
      BY DEF Lines
    <3>2. QED
      BY <1>2, <3>1, EmitType DEF Complete
  <2>2. serving' \in [Clients -> {"no", "yes", "ended"}]
    BY <1>2 DEF Complete, TypeOK, RpcTypeOK
  <2>3. UNCHANGED <<proc, unanswered, reader, refusing, closer, sub, inbox, client, at, box,
                    out, handler, resolved, inflight, told>>
    BY <1>2 DEF Complete, subs, calls, asks
  <2>4. RpcTypeOK
    BY DEF TypeOK
  <2>5. QED
    BY <2>1, <2>2, <2>3, <2>4, ZenonT(60) DEF RpcTypeOK
<1>3. ASSUME NEW c \in Clients, Die(c) PROVE RpcTypeOK'
  BY <1>3 DEF Die, Vanish, TypeOK, RpcTypeOK, reads, subs, calls, asks
<1>4. ASSUME NEW x \in Asks, Ask(x) PROVE RpcTypeOK'
  <2>1. stdout' \in [Clients -> Seq(Lines)]
    <3>1. [type |-> "request", of |-> x] \in Lines /\ AskOn[x] \in Clients
      BY RpcAssumption DEF Lines
    <3>2. QED
      BY <1>4, <3>1, EmitType DEF Ask
  <2>2. QED
    BY <1>4, <2>1 DEF Ask, TypeOK, RpcTypeOK, AskSteps, server, subs, calls
<1>5. QED
  BY <1>1, <1>2, <1>3, <1>4

\* Each step of the reader of its output.
LEMMA ReaderType ==
  ASSUME TypeOK, NEW c \in Clients, Reader(c)
  PROVE  RpcTypeOK'
<1>1. CASE ReadResponse(c)
  <2>1. PICK r \in {"result", "error"} :
          Line(c, r) /\ Put({Head(stdout[c]).of} \cap Pending(c), r)
    BY <1>1 DEF ReadResponse
  <2>2. stdout' \in [Clients -> Seq(Lines)] /\ box' \in [Calls -> {"empty", "result", "error"}]
    BY <2>1, LineType, PutType
  <2>3. QED
    BY <1>1, <2>2 DEF ReadResponse, TypeOK, RpcTypeOK, server, subs, asks
<1>2. CASE ReadRequest(c)
  <2>1. Line(c, "request")
    BY <1>2 DEF ReadRequest
  <2>2. stdout' \in [Clients -> Seq(Lines)] /\ Head(stdout[c]).of \in Asks
    BY <2>1, LineType, LineNames DEF Line
  <2>3. QED
    BY <1>2, <2>2 DEF ReadRequest, TypeOK, RpcTypeOK, AskSteps, server, subs, calls
<1>3. CASE ReadNotification(c)
  <2>1. stdout' \in [Clients -> Seq(Lines)]
    BY <1>3, LineType DEF ReadNotification
  <2>2. inbox' \in [Clients -> BOOLEAN]
    BY <1>3, Zenon DEF ReadNotification, TypeOK, RpcTypeOK
  <2>3. QED
    BY <1>3, <2>1, <2>2 DEF ReadNotification, TypeOK, RpcTypeOK, server, calls, asks
<1>4. CASE ReadEnd(c)
  BY <1>4 DEF ReadEnd, TypeOK, RpcTypeOK, server, subs, calls, asks
<1>5. CASE FailReader(c)
  <2>1. box' \in [Calls -> {"empty", "result", "error"}]
    BY <1>5, PutType DEF FailReader
  <2>2. QED
    BY <1>5, <2>1 DEF FailReader, TypeOK, RpcTypeOK, server, subs, asks
<1>6. QED
  BY <1>1, <1>2, <1>3, <1>4, <1>5 DEF Reader

\* Each step of a handler of a request of the server.
LEMMA HandlerType ==
  ASSUME TypeOK, NEW x \in Asks, Handler(x)
  PROVE  RpcTypeOK'
<1>1. AsksTypeOK'
  <2>1. AsksTypeOK /\ IdOf[x] \in Ids
    BY TypeParts DEF Ids
  <2> USE <2>1 DEF AsksTypeOK, AskSteps, Over
  <2>2. CASE Enter(x)
    BY <2>2 DEF Enter
  <2>3. CASE WriteAnswer(x)
    BY <2>3 DEF WriteAnswer
  <2>4. CASE Commit(x)
    BY <2>4 DEF Commit
  <2>5. CASE HangAnswer(x)
    BY <2>5 DEF HangAnswer
  <2>6. QED
    BY <2>2, <2>3, <2>4, <2>5 DEF Handler
<1>2. UNCHANGED <<server, stdout, reader, closer, subs, calls>>
  BY DEF Handler, Enter, HangAnswer, WriteAnswer, Commit
<1>3. QED
  BY <1>1, <1>2 DEF TypeOK, RpcTypeOK, AsksTypeOK, server, subs, calls

\* The variables of the turns, the registry and the stops.
TurnsTypeOK ==
  /\ run \in [Clients -> RunSteps]
  /\ active \in Clients \cup {NoTurn}
  /\ result \in Clients \cup {NoTurn}
  /\ stop \in [Stops -> {"new", "found", "interrupting", "waiting", "over"}]
  /\ target \in [Stops -> Clients \cup {NoTurn}]
  /\ terminal \in [Stops -> Clients \cup {NoTurn}]

\* The types of the client and of the turns are all there are.
LEMMA TypeJoin == TypeOK <=> RpcTypeOK /\ TurnsTypeOK
BY DEF TypeOK, TurnsTypeOK

\* Each step of the turn runner.
LEMMA RunnerType ==
  ASSUME TypeOK, NEW t \in Clients, Begin(t) \/ Runner(t) \/ Garbled(t)
  PROVE  TypeOK'
<1> USE TurnsAssumption
<1>1. TurnsTypeOK /\ RpcTypeOK
  BY TypeJoin
<1>2. TurnsTypeOK'
  <2> USE <1>1 DEF TurnsTypeOK, RunSteps, Go, registry, stops
  <2>1. CASE Begin(t)
    BY <2>1 DEF Begin
  <2>2. CASE Subscribe(t) \/ RequestStart(t) \/ Started(t)
    BY <2>2 DEF Subscribe, RequestStart, Started
  <2>3. CASE RegisterActive(t)
    BY <2>3 DEF RegisterActive, RegisterTurn
  <2>4. CASE Receive(t) \/ Garbled(t) \/ TimedOut(t)
    BY <2>4 DEF Receive, Garbled, TimedOut, Finish, Publish
  <2>5. CASE TimeOut(t) \/ Close(t)
    BY <2>5 DEF TimeOut, Close
  <2>6. QED
    BY <2>1, <2>2, <2>3, <2>4, <2>5 DEF Runner
<1>3. RpcTypeOK'
  <2>1. CASE Begin(t)
    BY <1>1, <2>1 DEF Begin, RpcTypeOK, subs, calls, asks
  <2>2. CASE RequestStart(t)
    <3>1. StartOf[t] \in Calls
      BY RpcAssumption
    <3>2. QED
      BY <2>2, <3>1, CheckType DEF RequestStart
  <2>3. CASE TimeOut(t)
    BY <2>3, CheckType DEF TimeOut
  <2>4. CASE Subscribe(t)
    BY <1>1, <2>4 DEF Subscribe, RpcTypeOK, server, reads, calls, asks
  <2>5. CASE Started(t)
    <3>0. /\ sub \in [Clients -> {"none", "open", "closed"}]
          /\ inbox \in [Clients -> BOOLEAN]
      BY <1>1 DEF RpcTypeOK
    <3>1. /\ sub' \in [Clients -> {"none", "open", "closed"}]
          /\ inbox' \in [Clients -> BOOLEAN]
      BY <2>5, <3>0 DEF Started, Unsubscribe, subs
    <3>2. UNCHANGED <<server, reads, closer, calls, asks>>
      BY <2>5 DEF Started
    <3>3. QED
      BY <1>1, <3>1, <3>2 DEF RpcTypeOK, server, reads, calls, asks
  <2>6. CASE RegisterActive(t)
    BY <1>1, <2>6 DEF RegisterActive, RpcTypeOK, rpcVars, server, reads, subs, calls, asks
  <2>7. CASE Receive(t) \/ Garbled(t) \/ TimedOut(t)
    <3>1. Finish(t)
      BY <2>7 DEF Receive, Garbled, TimedOut
    <3>2. QED
      BY <1>1, <3>1 DEF Finish, Unsubscribe, RpcTypeOK, server, reads, calls, asks
  <2>8. CASE Close(t)
    <3>1. CASE MarkClosing(t)
      BY <1>1, <3>1 DEF MarkClosing, Shut, RpcTypeOK, server, reads, subs, calls, asks
    <3>2. CASE FailWaiters(t)
      <4>1. box' \in [Calls -> {"empty", "result", "error"}]
        BY <3>2, PutType DEF FailWaiters
      <4>2. QED
        BY <1>1, <3>2, <4>1 DEF FailWaiters, Shut, RpcTypeOK, server, reads, subs, asks
    <3>3. CASE Kill(t)
      BY <1>1, <3>3 DEF Kill, Shut, Vanish, RpcTypeOK, reads, subs, calls, asks
    <3>4. QED
      BY <2>8, <3>1, <3>2, <3>3 DEF Close
  <2>9. QED
    BY <2>1, <2>2, <2>3, <2>4, <2>5, <2>6, <2>7, <2>8 DEF Runner
<1>4. QED
  BY <1>2, <1>3 DEF TypeOK, TurnsTypeOK

\* Each step of a stop, which knows its target.
LEMMA StopType ==
  ASSUME TypeOK, StopsKnow, NEW s \in Stops, Stop(s)
  PROVE  TypeOK'
<1> USE TurnsAssumption
<1>1. TurnsTypeOK /\ RpcTypeOK
  BY TypeJoin
<1>2. TurnsTypeOK'
  BY <1>1 DEF Stop, Find, InterruptTurn, Interrupted, Report, To, TurnsTypeOK, registry
<1>3. RpcTypeOK'
  <2>1. CASE InterruptTurn(s)
    <3>1. target[s] \in Clients
      BY <1>1, <2>1 DEF InterruptTurn, StopsKnow, TurnsTypeOK, NoTurn
    <3>2. QED
      BY <2>1, <3>1, CheckType DEF InterruptTurn
  <2>2. CASE Find(s) \/ Interrupted(s) \/ Report(s)
    BY <1>1, <2>2 DEF Find, Interrupted, Report, RpcTypeOK, rpcVars, server, reads,
                      subs, calls, asks
  <2>3. QED
    BY <2>1, <2>2 DEF Stop
<1>4. QED
  BY <1>2, <1>3 DEF TypeOK, TurnsTypeOK

\* Every step keeps the types.
LEMMA TypeStep ==
  ASSUME TypeOK, Called, StopsKnow, [Next]_vars
  PROVE  TypeOK'
<1>1. CASE RpcNext /\ UNCHANGED <<registry, run, stops>>
  <2>1. RpcTypeOK'
    BY <1>1, RequestType, ServerType, ReaderType, HandlerType DEF RpcNext
  <2>2. QED
    BY <1>1, <2>1 DEF TypeOK, registry, stops
<1>2. CASE \E t \in Clients : Begin(t) \/ Runner(t) \/ Garbled(t)
  BY <1>2, RunnerType
<1>3. CASE \E s \in Stops : Stop(s)
  BY <1>3, StopType
<1>4. CASE Evict \/ UNCHANGED vars
  <2>1. RpcTypeOK'
    BY <1>4 DEF Evict, vars, TypeOK, RpcTypeOK, rpcVars, server, reads, subs, calls, asks
  <2>2. QED
    BY <1>4, <2>1 DEF Evict, vars, registry, stops, TypeOK
<1>5. QED
  BY <1>1, <1>2, <1>3, <1>4 DEF Next

-----------------------------------------------------------------------------
(* Requests and their clients.                                             *)

\* A request that checks its client waits for nothing yet.
LEMMA CheckCalls ==
  ASSUME TypeOK, Called, WaitersFailed, NEW q \in Calls, NEW c \in Clients, Check(q, c)
  PROVE  Called' /\ WaitersFailed'
<1>1. /\ at \in [Calls -> CallSteps] /\ client \in [Calls -> Clients \cup {NoClient}]
      /\ unanswered \in SUBSET Calls
  BY DEF TypeOK, RpcTypeOK
<1>2. /\ at' = [at EXCEPT ![q] = "checked"] \/ at' = [at EXCEPT ![q] = "over"]
      /\ client' = [client EXCEPT ![q] = c]
      /\ UNCHANGED <<closer, box, unanswered>>
  BY DEF Check, End, Step, server
<1>3. Called'
  BY <1>1, <1>2 DEF Called
<1>4. WaitersFailed'
  BY <1>1, <1>2 DEF WaitersFailed
<1>5. QED
  BY <1>3, <1>4

\* Each further step of a request keeps what was promised to waiters.
LEMMA RequestCalls ==
  ASSUME TypeOK, Called, WaitersFailed, NEW q \in Calls, Request(q)
  PROVE  Called' /\ WaitersFailed'
<1>1. /\ at \in [Calls -> CallSteps]
      /\ box \in [Calls -> {"empty", "result", "error"}]
      /\ unanswered \in SUBSET Calls
  BY DEF TypeOK, RpcTypeOK
<1>2. UNCHANGED <<client, closer>>
  BY DEF Request, Register, TestPipe, Hang, WritePipe, Return
<1>3. Called'
  <2> USE <1>1, <1>2 DEF Called
  <2>1. CASE Register(q)
    BY <2>1 DEF Register, Step, server
  <2>2. CASE TestPipe(q)
    BY <2>2 DEF TestPipe, Step, End, server
  <2>3. CASE WritePipe(q)
    BY <2>3 DEF WritePipe, Step, End
  <2>4. CASE Return(q)
    BY <2>4 DEF Return, Step, End, server
  <2>5. CASE Hang(q)
    BY <2>5 DEF Hang, Step, server
  <2>6. QED
    BY <2>1, <2>2, <2>3, <2>4, <2>5 DEF Request
<1>4. WaitersFailed'
  <2> USE <1>1, <1>2 DEF WaitersFailed
  <2>1. CASE Register(q)
    BY <2>1 DEF Register, Step
  <2>2. CASE TestPipe(q)
    BY <2>2 DEF TestPipe, Step, End, Gone, Closing
  <2>3. CASE WritePipe(q)
    BY <2>3 DEF WritePipe, Step, End
  <2>4. CASE Return(q)
    BY <2>4 DEF Return, Step, End
  <2>5. CASE Hang(q)
    BY <2>5 DEF Hang, Step
  <2>6. QED
    BY <2>1, <2>2, <2>3, <2>4, <2>5 DEF Request
<1>5. QED
  BY <1>3, <1>4

\* Dealing something out to waiters releases some and blocks none.
LEMMA PutCalls ==
  ASSUME TypeOK, Called, WaitersFailed, NEW S, NEW r \in {"result", "error"}, Put(S, r),
         UNCHANGED <<at, client, closer, unanswered>>
  PROVE  Called' /\ WaitersFailed'
<1>1. Called'
  BY DEF Called
<1>2. \A q \in Calls : box[q] # "empty" => box'[q] # "empty"
  BY DEF Put
<1>3. WaitersFailed'
  BY <1>2 DEF WaitersFailed
<1>4. QED
  BY <1>1, <1>3

\* What touches neither requests nor clients breaks no promise to a waiter.
LEMMA QuietCalls ==
  ASSUME TypeOK, Called, WaitersFailed, UNCHANGED <<at, client, closer, box>>,
         unanswered' \subseteq unanswered
  PROVE  Called' /\ WaitersFailed'
BY DEF Called, WaitersFailed

\* Who closes a client fails its waiters before it kills the process.
LEMMA CloseCalls ==
  ASSUME TypeOK, Called, WaitersFailed, NEW t \in Clients,
         MarkClosing(t) \/ FailWaiters(t) \/ Kill(t)
  PROVE  Called' /\ WaitersFailed'
<1>1. /\ closer \in [Clients -> {"open", "marked", "failed", "closed"}]
      /\ box \in [Calls -> {"empty", "result", "error"}]
  BY DEF TypeOK, RpcTypeOK
<1>2. UNCHANGED <<at, client>> /\ unanswered' \subseteq unanswered
  BY DEF MarkClosing, FailWaiters, Kill, Vanish, server, calls
<1>3. Called'
  BY <1>2 DEF Called
<1>4. WaitersFailed'
  <2>1. CASE MarkClosing(t)
    BY <1>1, <1>2, <2>1 DEF MarkClosing, Shut, calls, Called, WaitersFailed
  <2>2. CASE FailWaiters(t)
    <3> SUFFICES ASSUME NEW q \in Calls, at[q] \in {"writing", "stuck", "waiting"},
                        closer'[client[q]] \in {"failed", "closed"}
                 PROVE  box'[q] # "empty"
      BY <1>2 DEF WaitersFailed
    <3>1. client[q] \in Clients
      BY DEF Called
    <3>2. CASE client[q] = t
      BY <2>2, <3>2 DEF FailWaiters, Put, Pending
    <3>3. CASE client[q] # t
      BY <1>1, <2>2, <3>1, <3>3 DEF FailWaiters, Shut, Put, WaitersFailed
    <3>4. QED
      BY <3>2, <3>3
  <2>3. CASE Kill(t)
    BY <1>1, <1>2, <2>3 DEF Kill, Shut, calls, Called, WaitersFailed
  <2>4. QED
    BY <2>1, <2>2, <2>3
<1>5. QED
  BY <1>3, <1>4

\* Every step keeps what waiters were promised.
LEMMA CallsStep ==
  ASSUME TypeOK, Called, WaitersFailed, StopsKnow, [Next]_vars
  PROVE  Called' /\ WaitersFailed'
<1> USE RpcAssumption, TurnsAssumption
<1>1. CASE RpcNext
  <2>1. CASE \E q \in Calls : Request(q)
    BY <2>1, RequestCalls
  <2>2. ASSUME NEW c \in Clients, ReadResponse(c) \/ FailReader(c)
        PROVE  Called' /\ WaitersFailed'
    <3>1. UNCHANGED <<at, client, closer, unanswered>>
      BY <2>2 DEF ReadResponse, FailReader, server
    <3>2. \E S : \E r \in {"result", "error"} : Put(S, r)
      BY <2>2 DEF ReadResponse, FailReader
    <3>3. QED
      BY <3>1, <3>2, PutCalls
  <2>3. ASSUME \/ \E q \in Calls : Reply(q)
               \/ \E c \in Clients : \/ ReadRequest(c) \/ ReadNotification(c)
                                     \/ ReadEnd(c) \/ Complete(c) \/ Die(c)
               \/ \E x \in Asks : Ask(x) \/ Handler(x)
        PROVE  Called' /\ WaitersFailed'
    <3>1. UNCHANGED <<at, client, closer, box>> /\ unanswered' \subseteq unanswered
      BY <2>3 DEF Reply, ReadRequest, ReadNotification, ReadEnd, Complete, Die, Vanish, Ask,
                  Handler, Enter, HangAnswer, WriteAnswer, Commit, calls, server
    <3>2. QED
      BY <3>1, QuietCalls
  <2>4. QED
    BY <1>1, <2>1, <2>2, <2>3 DEF RpcNext, Reader
<1>2. ASSUME NEW t \in Clients, Begin(t) \/ Runner(t) \/ Garbled(t)
      PROVE  Called' /\ WaitersFailed'
  <2>1. CASE RequestStart(t) \/ TimeOut(t)
    BY <2>1, CheckCalls DEF RequestStart, TimeOut
  <2>2. CASE Close(t)
    BY <2>2, CloseCalls DEF Close
  <2>3. CASE \/ Begin(t) \/ Subscribe(t) \/ Started(t) \/ RegisterActive(t)
             \/ Receive(t) \/ Garbled(t) \/ TimedOut(t)
    <3>1. UNCHANGED <<at, client, closer, box, unanswered>>
      BY <2>3 DEF Begin, Subscribe, Started, RegisterActive, Receive, Garbled, TimedOut,
                  Finish, rpcVars, calls, server
    <3>2. QED
      BY <3>1, QuietCalls
  <2>4. QED
    BY <1>2, <2>1, <2>2, <2>3 DEF Runner
<1>3. ASSUME NEW s \in Stops, Stop(s)
      PROVE  Called' /\ WaitersFailed'
  <2>1. CASE InterruptTurn(s)
    <3>1. target[s] \in Clients
      BY <2>1 DEF InterruptTurn, StopsKnow, TypeOK, NoTurn
    <3>2. QED
      BY <2>1, <3>1, CheckCalls DEF InterruptTurn
  <2>2. CASE Find(s) \/ Interrupted(s) \/ Report(s)
    <3>1. UNCHANGED <<at, client, closer, box, unanswered>>
      BY <2>2 DEF Find, Interrupted, Report, rpcVars, calls, server
    <3>2. QED
      BY <3>1, QuietCalls
  <2>3. QED
    BY <1>3, <2>1, <2>2 DEF Stop
<1>4. CASE Evict \/ UNCHANGED vars
  <2>1. UNCHANGED <<at, client, closer, box, unanswered>>
    BY <1>4 DEF Evict, vars, rpcVars, calls, server
  <2>2. QED
    BY <2>1, QuietCalls
<1>5. QED
  BY <1>1, <1>2, <1>3, <1>4 DEF Next

-----------------------------------------------------------------------------
(* Lines in the pipe.                                                      *)

\* A line that is written becomes the last; the others stay where they are.
LEMMA EmitLines ==
  ASSUME TypeOK, NEW c \in Clients, NEW type, NEW of, Emit(c, type, of)
  PROVE  \A d \in Clients :
           /\ \A i \in DOMAIN stdout[d] :
                i \in DOMAIN stdout'[d] /\ stdout'[d][i] = stdout[d][i]
           /\ \A i \in DOMAIN stdout'[d] \ DOMAIN stdout[d] :
                d = c /\ i = Len(stdout[c]) + 1 /\ stdout'[d][i] = [type |-> type, of |-> of]
           /\ d = c => /\ Len(stdout[c]) + 1 \in DOMAIN stdout'[d]
                       /\ stdout'[d][Len(stdout[c]) + 1] = [type |-> type, of |-> of]
<1>1. stdout \in [Clients -> Seq(Lines)]
  BY DEF TypeOK, RpcTypeOK
<1>2. stdout' = [stdout EXCEPT ![c] = Append(@, [type |-> type, of |-> of])]
  BY DEF Emit
<1> TAKE d \in Clients
<1>3. CASE d = c
  BY <1>1, <1>2, <1>3
<1>4. CASE d # c
  BY <1>1, <1>2, <1>4
<1>5. QED
  BY <1>3, <1>4

\* A line stays where it is while others are written behind it.
LEMMA EmitKeeps ==
  ASSUME TypeOK, NEW c \in Clients, NEW type, NEW of, Emit(c, type, of),
         NEW d \in Clients, NEW i \in DOMAIN stdout[d]
  PROVE  i \in DOMAIN stdout'[d] /\ stdout'[d][i] = stdout[d][i]
BY EmitLines, ZenonT(60)

\* Taking the head of a sequence moves the rest by one.
LEMMA TailIs ==
  ASSUME NEW S, NEW s \in Seq(S), s # <<>>
  PROVE  /\ Len(s) \in Nat \ {0} /\ DOMAIN s = 1..Len(s) /\ s[1] = Head(s)
         /\ DOMAIN Tail(s) = 1..(Len(s) - 1)
         /\ \A i \in 1..(Len(s) - 1) : Tail(s)[i] = s[i + 1]
<1>1. Len(s) \in Nat \ {0} /\ DOMAIN s = 1..Len(s) /\ s[1] = Head(s)
  OBVIOUS
<1>2. Tail(s) \in Seq(S) /\ Len(Tail(s)) = Len(s) - 1
  OBVIOUS
<1>3. \A i \in 1..(Len(s) - 1) : Tail(s)[i] = s[i + 1]
  BY <1>1
<1>4. DOMAIN Tail(s) = 1..(Len(s) - 1)
  BY <1>2
<1>5. QED
  BY <1>1, <1>3, <1>4

\* A line that is read was the first; the others move by one.
LEMMA ReadLines ==
  ASSUME TypeOK, NEW c \in Clients, NEW type, Line(c, type)
  PROVE  /\ 1 \in DOMAIN stdout[c] /\ stdout[c][1] = Head(stdout[c])
         /\ Head(stdout[c]).type = type
         /\ \A i \in DOMAIN stdout'[c] :
              i + 1 \in DOMAIN stdout[c] /\ stdout'[c][i] = stdout[c][i + 1]
         /\ \A i \in DOMAIN stdout[c] :
              i # 1 => i - 1 \in DOMAIN stdout'[c] /\ stdout'[c][i - 1] = stdout[c][i]
         /\ \A d \in Clients \ {c} : stdout'[d] = stdout[d]
<1>1. stdout \in [Clients -> Seq(Lines)]
  BY DEF TypeOK, RpcTypeOK
<1>2. /\ stdout[c] # <<>> /\ Head(stdout[c]).type = type
      /\ stdout' = [stdout EXCEPT ![c] = Tail(@)]
  BY DEF Line
<1>3. stdout[c] \in Seq(Lines) /\ stdout'[c] = Tail(stdout[c])
  BY <1>1, <1>2
<1>4. \A d \in Clients \ {c} : stdout'[d] = stdout[d]
  BY <1>1, <1>2
<1>5. /\ Len(stdout[c]) \in Nat \ {0} /\ DOMAIN stdout[c] = 1..Len(stdout[c])
      /\ stdout[c][1] = Head(stdout[c])
      /\ DOMAIN stdout'[c] = 1..(Len(stdout[c]) - 1)
      /\ \A i \in 1..(Len(stdout[c]) - 1) : stdout'[c][i] = stdout[c][i + 1]
  BY <1>2, <1>3, TailIs
<1>6. QED
  BY <1>2, <1>4, <1>5

-----------------------------------------------------------------------------
(* Requests of the app-server and their answers.                           *)

AsksInv == AskLines /\ Answering /\ ToldIds

\* What touches neither lines nor handlers leaves the questions alone.
LEMMA QuietAsks ==
  ASSUME AsksInv, UNCHANGED <<stdout, handler, resolved, inflight, told>>
  PROVE  AsksInv'
BY DEF AsksInv, AskLines, AskLine, Answering, Answers, ToldIds

\* A line that is no request is added, or one is read, or all go.
LEMMA OtherLine ==
  ASSUME TypeOK, AsksInv, UNCHANGED <<handler, resolved, inflight, told>>, NEW c \in Clients,
         \/ \E type \in {"result", "error", "completed"} : \E of : Emit(c, type, of)
         \/ \E type : Line(c, type)
         \/ stdout' = [stdout EXCEPT ![c] = <<>>]
  PROVE  AsksInv'
<1>1. AskLines'
  <2>1. ASSUME NEW type \in {"result", "error", "completed"}, NEW of, Emit(c, type, of)
        PROVE  AskLines'
    <3>1. \A x \in Asks : \A d \in Clients : \A i \in Nat \ {0} :
            AskLine(d, i, x)' => AskLine(d, i, x)
      <4> SUFFICES ASSUME NEW x \in Asks, NEW d \in Clients, NEW i \in Nat \ {0},
                          AskLine(d, i, x)'
                   PROVE  AskLine(d, i, x)
        OBVIOUS
      <4>1. i \in DOMAIN stdout'[d] /\ stdout'[d][i].type = "request"
        BY DEF AskLine
      <4>2. i \in DOMAIN stdout[d]
        <5>1. \/ i \in DOMAIN stdout[d]
              \/ stdout'[d][i] = [type |-> type, of |-> of]
          BY <2>1, <4>1, EmitLines
        <5>2. QED
          BY <4>1, <5>1
      <4>3. QED
        <5>1. stdout'[d][i] = stdout[d][i]
          BY <2>1, <4>2, EmitLines, ZenonT(60)
        <5>2. QED
          BY <4>2, <5>1 DEF AskLine
    <3>2. QED
      BY <3>1 DEF AsksInv, AskLines
  <2>2. ASSUME NEW type, Line(c, type)
        PROVE  AskLines'
    <3>1. \A x \in Asks : \A d \in Clients : \A i \in Nat \ {0} :
            AskLine(d, i, x)' => AskLine(d, IF d = c THEN i + 1 ELSE i, x)
      BY <2>2, ReadLines DEF AskLine
    <3>2. QED
      BY <3>1 DEF AsksInv, AskLines
  <2>3. CASE stdout' = [stdout EXCEPT ![c] = <<>>]
    <3>1. \A d \in Clients : stdout'[d] = <<>> \/ stdout'[d] = stdout[d]
      BY <2>3 DEF TypeOK, RpcTypeOK
    <3>2. \A x \in Asks : \A d \in Clients : \A i \in Nat \ {0} :
            AskLine(d, i, x)' => AskLine(d, i, x)
      BY <3>1 DEF AskLine
    <3>3. QED
      BY <3>2 DEF AsksInv, AskLines
  <2>4. QED
    BY <2>1, <2>2, <2>3
<1>2. QED
  BY <1>1 DEF AsksInv, Answering, Answers, ToldIds

\* A new question is one line, and nobody handles it yet.
LEMMA AskAsks ==
  ASSUME TypeOK, AsksInv, NEW x \in Asks, Ask(x)
  PROVE  AsksInv'
<1>1. /\ handler \in [Asks -> AskSteps] /\ AskOn[x] \in Clients
      /\ handler[x] = "none" /\ handler' = [handler EXCEPT ![x] = "sent"]
      /\ Emit(AskOn[x], "request", x)
      /\ UNCHANGED <<resolved, inflight, told>>
  BY RpcAssumption DEF Ask, TypeOK, RpcTypeOK
<1>2. AskLines'
  <2>1. \A d \in Clients : \A i \in Nat \ {0} : ~ AskLine(d, i, x)
    BY <1>1 DEF AsksInv, AskLines
  <2>2. \A y \in Asks : \A d \in Clients : \A i \in Nat \ {0} :
          AskLine(d, i, y)' =>
            \/ AskLine(d, i, y) /\ y # x
            \/ y = x /\ d = AskOn[x] /\ i = Len(stdout[AskOn[x]]) + 1
    <3> SUFFICES ASSUME NEW y \in Asks, NEW d \in Clients, NEW i \in Nat \ {0},
                        AskLine(d, i, y)'
                 PROVE  \/ AskLine(d, i, y) /\ y # x
                        \/ y = x /\ d = AskOn[x] /\ i = Len(stdout[AskOn[x]]) + 1
      OBVIOUS
    <3>1. CASE i \in DOMAIN stdout[d]
      <4>1. AskLine(d, i, y)
        <5>1. stdout'[d][i] = stdout[d][i]
          <6>1. Emit(AskOn[x], "request", x) /\ AskOn[x] \in Clients
            BY <1>1
          <6>2. QED
            BY <3>1, <6>1, EmitLines
        <5>2. QED
          BY <3>1, <5>1 DEF AskLine
      <4>2. QED
        BY <2>1, <4>1
    <3>2. CASE i \notin DOMAIN stdout[d]
      <4>1. i \in DOMAIN stdout'[d] /\ stdout'[d][i].of = y
        BY DEF AskLine
      <4>2. /\ d = AskOn[x] /\ i = Len(stdout[AskOn[x]]) + 1
            /\ stdout'[d][i] = [type |-> "request", of |-> x]
        BY <1>1, <3>2, <4>1, EmitLines
      <4>3. QED
        BY <4>1, <4>2
    <3>3. QED
      BY <3>1, <3>2
  <2>3. QED
    BY <1>1, <2>2 DEF AsksInv, AskLines
<1>3. Answering'
  BY <1>1 DEF AsksInv, Answering, Answers
<1>4. ToldIds'
  BY <1>1 DEF AsksInv, ToldIds
<1>5. QED
  BY <1>2, <1>3, <1>4 DEF AsksInv

\* The reader takes a question and hands it over, or refuses it.
LEMMA ReadAsks ==
  ASSUME TypeOK, AsksInv, NEW c \in Clients, ReadRequest(c)
  PROVE  AsksInv'
<1> DEFINE x == Head(stdout[c]).of
<1>1. Line(c, "request")
  BY DEF ReadRequest
<1>2. x \in Asks /\ AskLine(c, 1, x)
  BY <1>1, LineType, LineNames, ReadLines DEF AskLine
<1>3. /\ handler \in [Asks -> AskSteps] /\ handler[x] = "sent"
      /\ handler' = [handler EXCEPT ![x] = "handling"]
      /\ UNCHANGED <<resolved, inflight, told>>
  BY <1>2 DEF ReadRequest, TypeOK, RpcTypeOK, AsksInv, AskLines
<1> HIDE DEF x
<1>4. AskLines'
  <2>1. \A y \in Asks : \A d \in Clients : \A i \in Nat \ {0} :
          AskLine(d, i, y)' =>
            /\ y # x
            /\ AskLine(d, IF d = c THEN i + 1 ELSE i, y)
    <3>1. \A y \in Asks : \A d \in Clients : \A i \in Nat \ {0} :
            AskLine(d, i, y)' => AskLine(d, IF d = c THEN i + 1 ELSE i, y)
      BY <1>1, ReadLines DEF AskLine
    <3>2. \A d \in Clients : \A i \in Nat \ {0} : AskLine(d, i, x) => d = c /\ i = 1
      BY <1>2 DEF AsksInv, AskLines
    <3>3. QED
      BY <3>1, <3>2
  <2>2. QED
    BY <1>3, <2>1 DEF AsksInv, AskLines
<1>5. Answering'
  BY <1>2, <1>3 DEF AsksInv, Answering, Answers
<1>6. ToldIds'
  BY <1>2, <1>3 DEF AsksInv, ToldIds
<1>7. QED
  BY <1>4, <1>5, <1>6 DEF AsksInv

\* Each step of a handler, which answers only what is not resolved.
LEMMA HandlerAsks ==
  ASSUME TypeOK, AsksInv, NEW x \in Asks, Handler(x)
  PROVE  AsksInv'
<1>1. /\ handler \in [Asks -> AskSteps] /\ told \in [Ids -> Nat] /\ IdOf[x] \in Ids
  BY DEF TypeOK, RpcTypeOK, Ids
<1>2. handler[x] # "sent" /\ stdout' = stdout
  BY DEF Handler, Enter, HangAnswer, WriteAnswer, Commit
<1>3. \E s \in AskSteps : handler' = [handler EXCEPT ![x] = s]
  BY DEF Handler, Enter, HangAnswer, WriteAnswer, Commit, Over, AskSteps
<1>4. AskLines'
  BY <1>1, <1>2, <1>3 DEF AsksInv, AskLines, AskLine
<1>5. Answering' /\ ToldIds'
  <2>1. CASE Enter(x)
    <3>1. CASE Over(x) /\ UNCHANGED inflight
      BY <1>1, <2>1, <3>1 DEF Enter, Over, AsksInv, Answering, Answers, ToldIds
    <3>2. CASE /\ ~ Answered(IdOf[x])
               /\ inflight' = inflight \cup {IdOf[x]}
               /\ handler' = [handler EXCEPT ![x] = "writing"]
      <4>1. \A y \in Asks : Answers(y) => IdOf[y] # IdOf[x]
        BY <3>2 DEF AsksInv, Answering, Answered
      <4>2. UNCHANGED <<resolved, told>> /\ IdOf[x] \notin resolved /\ handler[x] # "written"
        BY <2>1, <3>2 DEF Enter, Answered
      <4>3. Answering'
        BY <1>1, <3>2, <4>1, <4>2 DEF AsksInv, Answering, Answers
      <4>4. ToldIds'
        BY <1>1, <3>2, <4>2 DEF AsksInv, ToldIds
      <4>5. QED
        BY <4>3, <4>4
    <3>3. QED
      BY <2>1, <3>1, <3>2 DEF Enter
  <2>2. CASE WriteAnswer(x)
    <3>1. Answers(x) /\ handler[x] # "written" /\ UNCHANGED resolved
      BY <2>2 DEF WriteAnswer, Answers
    <3>2. told[IdOf[x]] = 0
      <4>1. told[IdOf[x]] # 1
        BY <1>1, <3>1 DEF AsksInv, Answering, Answers, ToldIds
      <4>2. QED
        BY <1>1, <4>1 DEF AsksInv, ToldIds
    <3>3. CASE /\ handler' = [handler EXCEPT ![x] = "written"]
               /\ told' = told \/ told' = [told EXCEPT ![IdOf[x]] = @ + 1]
               /\ UNCHANGED inflight
      <4>1. Answering'
        BY <1>1, <3>1, <3>3 DEF AsksInv, Answering, Answers
      <4>2. ToldIds'
        <5> SUFFICES ASSUME NEW i \in Ids
                     PROVE  /\ told'[i] \in {0, 1}
                            /\ told'[i] = 1 =>
                                 \/ i \in resolved'
                                 \/ \E y \in Asks : IdOf[y] = i /\ handler'[y] = "written"
          BY DEF ToldIds
        <5>1. CASE i = IdOf[x]
          <6>1. told'[i] \in {0, 1}
            BY <1>1, <3>2, <3>3, <5>1
          <6>2. handler'[x] = "written"
            BY <1>1, <3>3
          <6>3. QED
            BY <5>1, <6>1, <6>2
        <5>2. CASE i # IdOf[x]
          BY <1>1, <3>1, <3>3, <5>2 DEF AsksInv, ToldIds
        <5>3. QED
          BY <5>1, <5>2
      <4>3. QED
        BY <4>1, <4>2
    <3>4. CASE /\ Over(x)
               /\ inflight' = inflight \ {IdOf[x]}
               /\ UNCHANGED told
      <4>1. handler' = [handler EXCEPT ![x] = "over"]
        BY <3>4 DEF Over
      <4>2. Answering'
        BY <1>1, <3>1, <3>4, <4>1 DEF AsksInv, Answering, Answers
      <4>3. ToldIds'
        BY <1>1, <3>1, <3>4, <4>1 DEF AsksInv, ToldIds
      <4>4. QED
        BY <4>2, <4>3
    <3>5. QED
      BY <2>2, <3>3, <3>4 DEF WriteAnswer
  <2>3. CASE Commit(x)
    <3>1. /\ Answers(x) /\ handler[x] = "written"
          /\ handler' = [handler EXCEPT ![x] = "over"]
          /\ inflight' = inflight \ {IdOf[x]} /\ resolved' = resolved \cup {IdOf[x]}
          /\ UNCHANGED told
      BY <2>3 DEF Commit, Over, Answers
    <3>2. Answering'
      BY <1>1, <3>1 DEF AsksInv, Answering, Answers
    <3>3. ToldIds'
      BY <1>1, <3>1 DEF AsksInv, ToldIds
    <3>4. QED
      BY <3>2, <3>3
  <2>4. CASE HangAnswer(x)
    <3>1. /\ handler' = [handler EXCEPT ![x] = "stuck"] /\ handler[x] = "writing"
          /\ UNCHANGED <<resolved, inflight, told>>
      BY <2>4 DEF HangAnswer
    <3>2. Answering'
      BY <1>1, <3>1 DEF AsksInv, Answering, Answers
    <3>3. ToldIds'
      BY <1>1, <3>1 DEF AsksInv, ToldIds
    <3>4. QED
      BY <3>2, <3>3
  <2>5. QED
    BY <2>1, <2>2, <2>3, <2>4 DEF Handler
<1>6. QED
  BY <1>4, <1>5 DEF AsksInv

\* Every step keeps the questions.
LEMMA AsksStep ==
  ASSUME TypeOK, Called, AsksInv, [Next]_vars
  PROVE  AsksInv'
<1>1. CASE RpcNext
  <2>1. ASSUME NEW q \in Calls, Request(q) PROVE AsksInv'
    <3>1. UNCHANGED <<stdout, handler, resolved, inflight, told>>
      BY <2>1 DEF Request, Register, TestPipe, Hang, WritePipe, Return, reads, asks
    <3>2. QED
      BY <3>1, QuietAsks
  <2>2. ASSUME NEW q \in Calls, Reply(q) PROVE AsksInv'
    <3>1. /\ client[q] \in Clients
          /\ \E type \in {"result", "error", "completed"} : Emit(client[q], type, q)
          /\ UNCHANGED <<handler, resolved, inflight, told>>
      BY <2>2 DEF Reply, Called, asks
    <3>2. QED
      BY <3>1, OtherLine
  <2>3. ASSUME NEW c \in Clients, Complete(c) PROVE AsksInv'
    <3>1. /\ \E type \in {"result", "error", "completed"} : Emit(c, type, c)
          /\ UNCHANGED <<handler, resolved, inflight, told>>
      BY <2>3 DEF Complete, asks
    <3>2. QED
      BY <3>1, OtherLine
  <2>4. ASSUME NEW c \in Clients, Die(c) \/ FailReader(c) PROVE AsksInv'
    <3>1. UNCHANGED <<stdout, handler, resolved, inflight, told>>
      BY <2>4 DEF Die, FailReader, reads, asks
    <3>2. QED
      BY <3>1, QuietAsks
  <2>5. ASSUME NEW c \in Clients, ReadResponse(c) \/ ReadNotification(c) PROVE AsksInv'
    <3>1. (\E type : Line(c, type)) /\ UNCHANGED <<handler, resolved, inflight, told>>
      BY <2>5 DEF ReadResponse, ReadNotification, asks
    <3>2. QED
      BY <3>1, OtherLine
  <2>6. ASSUME NEW c \in Clients, ReadEnd(c) PROVE AsksInv'
    <3>1. /\ stdout' = [stdout EXCEPT ![c] = <<>>]
          /\ UNCHANGED <<handler, resolved, inflight, told>>
      BY <2>6 DEF ReadEnd, asks
    <3>2. QED
      BY <3>1, OtherLine
  <2>7. QED
    BY <1>1, <2>1, <2>2, <2>3, <2>4, <2>5, <2>6, ReadAsks, AskAsks, HandlerAsks
    DEF RpcNext, Reader
<1>2. CASE ~ RpcNext
  <2>1. UNCHANGED <<stdout, handler, resolved, inflight, told>>
    <3>1. ASSUME NEW t \in Clients, Begin(t) \/ Runner(t) \/ Garbled(t)
          PROVE  UNCHANGED <<stdout, handler, resolved, inflight, told>>
      BY <3>1 DEF Begin, Runner, Subscribe, RequestStart, Started, RegisterActive, Receive,
                  Garbled, TimeOut, TimedOut, Finish, Close, MarkClosing, FailWaiters, Kill,
                  Check, rpcVars, reads, asks
    <3>2. ASSUME NEW s \in Stops, Stop(s)
          PROVE  UNCHANGED <<stdout, handler, resolved, inflight, told>>
      BY <3>2 DEF Stop, Find, InterruptTurn, Interrupted, Report, Check, rpcVars, reads, asks
    <3>3. CASE Evict \/ UNCHANGED vars
      BY <3>3 DEF Evict, vars, rpcVars, reads, asks
    <3>4. QED
      BY <1>2, <3>1, <3>2, <3>3 DEF Next
  <2>2. QED
    BY <2>1, QuietAsks
<1>3. QED
  BY <1>1, <1>2

-----------------------------------------------------------------------------
(* Turns and the app-servers that serve them.                              *)

\* What the steps of other threads do to what run_turn waits for.
LEMMA RpcServing ==
  ASSUME TypeOK, Called, ServingInv, ClosesLast, RpcNext, UNCHANGED run
  PROVE  ServingInv'
<1>1. /\ at \in [Calls -> CallSteps] /\ serving \in [Clients -> {"no", "yes", "ended"}]
      /\ Starts \subseteq Calls /\ unanswered \in SUBSET Calls
      /\ stdout \in [Clients -> Seq(Lines)] /\ inbox \in [Clients -> BOOLEAN]
  BY RpcAssumption DEF TypeOK, RpcTypeOK
<1>2. UNCHANGED <<client, sub, closer>>
  BY DEF RpcNext, Request, Register, TestPipe, Hang, WritePipe, Return, Reply, Reader, ReadResponse,
         ReadRequest, ReadNotification, ReadEnd, FailReader, Complete, Die, Ask, Handler,
         Enter, HangAnswer, WriteAnswer, Commit, subs, calls
<1>3. StartsCalled'
  <2>1. \A q \in Calls : at[q] = "idle" => at'[q] = "idle"
    <3>1. ASSUME NEW q \in Calls, Request(q)
          PROVE  \A r \in Calls : at[r] = "idle" => at'[r] = "idle"
      BY <1>1, <3>1 DEF Request, Register, TestPipe, Hang, WritePipe, Return, Step, End
    <3>2. CASE \A q \in Calls : ~ Request(q)
      BY <3>2 DEF RpcNext, Reply, Reader, ReadResponse, ReadRequest, ReadNotification, ReadEnd,
                  FailReader, Complete, Die, Ask, Handler, Enter, HangAnswer, WriteAnswer, Commit, calls
    <3>3. QED
      BY <3>1, <3>2
  <2>2. QED
    BY <1>1, <1>2, <2>1 DEF ServingInv, StartsCalled
<1>4. \A t \in Clients :
        \/ serving'[t] = serving[t]
        \/ run[t] \notin Early /\ serving'[t] # "ended"
        \/ run[t] \notin Early /\ Complete(t)
  <2> SUFFICES ASSUME NEW t \in Clients
               PROVE  \/ serving'[t] = serving[t]
                      \/ run[t] \notin Early /\ serving'[t] # "ended"
                      \/ run[t] \notin Early /\ Complete(t)
    OBVIOUS
  <2>1. ASSUME NEW q \in Calls, Reply(q)
        PROVE  serving'[t] = serving[t] \/ (run[t] \notin Early /\ serving'[t] # "ended")
    <3>1. CASE UNCHANGED serving
      BY <3>1
    <3>2. CASE q \in Starts /\ serving' = [serving EXCEPT ![client[q]] = "yes"]
      <4>1. at[q] # "idle" /\ client[q] \in Clients
        BY <2>1 DEF Reply, Called
      <4>2. run[client[q]] \notin Early
        BY <3>2, <4>1 DEF ServingInv, StartsCalled
      <4>3. CASE t = client[q]
        <5>1. serving'[t] = "yes"
          BY <1>1, <3>2, <4>1, <4>3
        <5>2. QED
          BY <4>2, <4>3, <5>1
      <4>4. CASE t # client[q]
        BY <1>1, <3>2, <4>1, <4>4
      <4>5. QED
        BY <4>3, <4>4
    <3>3. QED
      BY <2>1, <3>1, <3>2 DEF Reply
  <2>2. ASSUME NEW c \in Clients, Complete(c)
        PROVE  serving'[t] = serving[t] \/ (run[t] \notin Early /\ Complete(t))
    <3>1. run[c] \notin Early
      BY <2>2 DEF Complete, ServingInv, NotServedYet
    <3>2. t # c => serving'[t] = serving[t]
      BY <1>1, <2>2 DEF Complete
    <3>3. QED
      BY <2>2, <3>1, <3>2
  <2>3. CASE /\ \A q \in Calls : ~ Reply(q)
             /\ \A c \in Clients : ~ Complete(c)
    BY <2>3 DEF RpcNext, Request, Register, TestPipe, Hang, WritePipe, Return, Reader, ReadResponse,
                ReadRequest, ReadNotification, ReadEnd, FailReader, Die, Ask, Handler, Enter,
                HangAnswer, WriteAnswer, Commit, server
  <2>4. QED
    BY <2>1, <2>2, <2>3
<1>5. NotServedYet'
  BY <1>4 DEF ServingInv, NotServedYet
<1>6. Subscribed'
  BY <1>2 DEF ServingInv, Subscribed
<1>7. CompletionIsKept'
  <2> DEFINE Kept(t) == \/ inbox[t]
                        \/ \E i \in DOMAIN stdout[t] : stdout[t][i].type = "completed"
  <2> SUFFICES ASSUME NEW t \in Clients, serving'[t] = "ended",
                      run[t] \in {"starting", "started", "waiting"}
               PROVE  Kept(t)'
    BY DEF CompletionIsKept
  <2>1. CASE Complete(t)
    <3>1. Emit(t, "completed", t)
      BY <2>1 DEF Complete
    <3>2. /\ Len(stdout[t]) + 1 \in DOMAIN stdout'[t]
          /\ stdout'[t][Len(stdout[t]) + 1] = [type |-> "completed", of |-> t]
      BY <3>1, EmitLines
    <3>3. QED
      BY <3>2
  <2>2. CASE ~ Complete(t)
    <3>1. Kept(t)
      BY <1>4, <2>2 DEF ServingInv, CompletionIsKept
    <3>2. sub[t] = "open" /\ closer[t] = "open"
      BY DEF ServingInv, Subscribed, ClosesLast
    <3>3. ASSUME NEW c \in Clients, NEW type, NEW of, Emit(c, type, of), UNCHANGED inbox
          PROVE  Kept(t)'
      <4>1. CASE inbox[t]
        BY <3>3, <4>1
      <4>2. ASSUME NEW i \in DOMAIN stdout[t], stdout[t][i].type = "completed"
            PROVE  Kept(t)'
        <5>1. i \in DOMAIN stdout'[t] /\ stdout'[t][i] = stdout[t][i]
          BY ONLY TypeOK, t \in Clients, c \in Clients, <3>3, <4>2, EmitKeeps
        <5>2. QED
          BY <4>2, <5>1
      <4>3. QED
        BY <3>1, <4>1, <4>2
    <3>4. CASE UNCHANGED <<stdout, inbox>>
      BY <3>1, <3>4
    <3>5. ASSUME NEW c \in Clients, ReadNotification(c) PROVE Kept(t)'
      <4>1. CASE c = t
        <5>1. inbox'[t]
          BY <1>1, <3>2, <3>5, <4>1 DEF ReadNotification
        <5>2. QED
          BY <5>1
      <4>2. CASE c # t
        <5>1. Line(c, "completed")
          BY <3>5 DEF ReadNotification
        <5>2. stdout'[t] = stdout[t]
          BY <4>2, <5>1, ReadLines
        <5>3. inbox'[t] = inbox[t]
          BY <1>1, <3>5, <4>2 DEF ReadNotification
        <5>4. QED
          BY <3>1, <5>2, <5>3
      <4>3. QED
        BY <4>1, <4>2
    <3>6. ASSUME NEW c \in Clients, ReadResponse(c) \/ ReadRequest(c) PROVE Kept(t)'
      <4>1. PICK type : Line(c, type) /\ type # "completed"
        BY <3>6 DEF ReadResponse, ReadRequest
      <4>2. inbox' = inbox
        BY <3>6 DEF ReadResponse, ReadRequest, subs
      <4>3. CASE inbox[t]
        BY <4>2, <4>3
      <4>4. ASSUME NEW i \in DOMAIN stdout[t], stdout[t][i].type = "completed"
            PROVE  Kept(t)'
        <5>1. CASE c # t
          <6>1. stdout'[t] = stdout[t]
            BY <4>1, <5>1, ReadLines
          <6>2. QED
            BY <3>1, <4>2, <6>1
        <5>2. CASE c = t
          <6>1. i # 1
            BY <4>1, <4>4, <5>2, ReadLines
          <6>2. i - 1 \in DOMAIN stdout'[t] /\ stdout'[t][i - 1] = stdout[t][i]
            BY <4>1, <5>2, <6>1, ReadLines
          <6>3. QED
            BY <4>4, <6>2
        <5>3. QED
          BY <5>1, <5>2
      <4>5. QED
        BY <3>1, <4>3, <4>4
    <3>7. ASSUME NEW c \in Clients, ReadEnd(c) PROVE Kept(t)'
      <4>1. inbox' = inbox
        BY <3>7 DEF ReadEnd, subs
      <4>2. stdout'[t] = stdout[t]
        BY <1>1, <3>2, <3>7 DEF ReadEnd
      <4>3. QED
        BY <3>1, <4>1, <4>2
    <3>8. ASSUME NEW q \in Calls, Reply(q) PROVE Kept(t)'
      <4>1. client[q] \in Clients /\ UNCHANGED inbox
        BY <3>8 DEF Reply, Called, subs
      <4>2. QED
        BY <3>3, <3>8, <4>1 DEF Reply
    <3>9. ASSUME NEW c \in Clients, Complete(c) PROVE Kept(t)'
      BY <3>3, <3>9 DEF Complete, subs
    <3>10. ASSUME NEW x \in Asks, Ask(x) PROVE Kept(t)'
      BY <3>3, <3>10, RpcAssumption DEF Ask, subs
    <3>11. CASE \/ \E q \in Calls : Request(q)
                \/ \E c \in Clients : FailReader(c) \/ Die(c)
                \/ \E x \in Asks : Handler(x)
      <4>1. UNCHANGED <<stdout, inbox>>
        BY <3>11 DEF Request, Register, TestPipe, Hang, WritePipe, Return, FailReader, Die, Handler,
                     Enter, HangAnswer, WriteAnswer, Commit, reads, subs
      <4>2. QED
        BY <3>4, <4>1
    <3>12. QED
      BY <3>5, <3>6, <3>7, <3>8, <3>9, <3>10, <3>11 DEF RpcNext, Reader
  <2>3. QED
    BY <2>1, <2>2
<1>8. QED
  BY <1>3, <1>5, <1>6, <1>7 DEF ServingInv

\* How run_turn goes on: all it does to other turns is nothing.
Moved(t) ==
  \/ run[t] = "new" /\ run'[t] = "begun"
  \/ run[t] = "begun" /\ run'[t] = "subscribed" /\ sub'[t] = "open"
  \/ run[t] = "subscribed" /\ run'[t] = "starting" /\ UNCHANGED <<sub, inbox>>
  \/ run[t] = "starting" /\ run'[t] = "started" /\ UNCHANGED <<sub, inbox>>
  \/ run[t] = "started" /\ run'[t] = "waiting" /\ UNCHANGED <<sub, inbox>>
  \/ run[t] = "waiting" /\ run'[t] = "interrupting"
  \/ run[t] \notin {"closing", "over"} /\ run'[t] = "closing"
  \/ run[t] = "closing" /\ run'[t] \in {"closing", "over"}

\* A runner moves its own turn, its subscription and its inbox only.
LEMMA RunnerMoves ==
  ASSUME TypeOK, NEW t \in Clients, Begin(t) \/ Runner(t) \/ Garbled(t)
  PROVE  /\ Moved(t)
         /\ UNCHANGED <<serving, stdout, stops>>
         /\ \A u \in Clients \ {t} :
              run'[u] = run[u] /\ sub'[u] = sub[u] /\ inbox'[u] = inbox[u]
<1>1. /\ run \in [Clients -> RunSteps]
      /\ sub \in [Clients -> {"none", "open", "closed"}]
      /\ inbox \in [Clients -> BOOLEAN]
  BY DEF TypeOK, RpcTypeOK
<1>2. UNCHANGED <<serving, stdout, stops>>
  BY DEF Begin, Runner, Subscribe, RequestStart, Started, RegisterActive, Receive, Garbled,
         TimeOut, TimedOut, Finish, Close, MarkClosing, FailWaiters, Kill, Check, rpcVars,
         server, reads, stops
<1>3. /\ \A u \in Clients \ {t} : run'[u] = run[u]
      /\ run'[t] = run[t] \/ \E r \in RunSteps : run' = [run EXCEPT ![t] = r]
  BY <1>1 DEF Begin, Runner, Subscribe, RequestStart, Started, RegisterActive, Receive, Garbled,
              TimeOut, TimedOut, Finish, Close, Go, RunSteps
<1>4. \/ UNCHANGED <<sub, inbox>>
      \/ sub' = [sub EXCEPT ![t] = "open"] /\ UNCHANGED inbox
      \/ sub' = [sub EXCEPT ![t] = "closed"] /\ inbox' = [inbox EXCEPT ![t] = FALSE]
  BY DEF Begin, Runner, Subscribe, RequestStart, Started, RegisterActive, Receive, Garbled,
         TimeOut, TimedOut, Finish, Unsubscribe, Close, MarkClosing, FailWaiters, Kill, Check,
         rpcVars, subs
<1>5. \A u \in Clients \ {t} : sub'[u] = sub[u] /\ inbox'[u] = inbox[u]
  BY <1>1, <1>4, Zenon
<1>6. Moved(t)
  <2> USE <1>1 DEF Moved, Go
  <2>1. CASE Begin(t)
    BY <2>1 DEF Begin
  <2>2. CASE Subscribe(t)
    BY <2>2 DEF Subscribe, TypeOK, RpcTypeOK
  <2>3. CASE RequestStart(t) \/ TimeOut(t)
    BY <2>3 DEF RequestStart, TimeOut, Check, subs
  <2>4. CASE Started(t)
    BY <2>4 DEF Started, subs
  <2>5. CASE RegisterActive(t)
    BY <2>5 DEF RegisterActive, rpcVars, subs
  <2>6. CASE Receive(t) \/ Garbled(t) \/ TimedOut(t)
    BY <2>6 DEF Receive, Garbled, TimedOut, Finish
  <2>7. CASE Close(t)
    BY <2>7 DEF Close
  <2>8. QED
    BY <2>1, <2>2, <2>3, <2>4, <2>5, <2>6, <2>7 DEF Runner
<1>7. QED
  BY <1>2, <1>3, <1>5, <1>6

\* A runner subscribes before it starts its turn, and closes only what it ended.
LEMMA RunnerServing ==
  ASSUME TypeOK, Called, ServingInv, NEW t \in Clients, Begin(t) \/ Runner(t) \/ Garbled(t)
  PROVE  ServingInv'
<1>1. /\ Moved(t)
      /\ UNCHANGED <<serving, stdout>>
      /\ \A u \in Clients \ {t} :
           run'[u] = run[u] /\ sub'[u] = sub[u] /\ inbox'[u] = inbox[u]
  BY RunnerMoves
<1>2. \A u \in Clients : run[u] \notin Early => run'[u] \notin Early
  BY <1>1 DEF Moved, Early
<1>3. StartsCalled'
  <2> SUFFICES ASSUME NEW q \in Starts, at'[q] # "idle"
               PROVE  q = StartOf[client'[q]] /\ run'[client'[q]] \notin Early
    BY DEF StartsCalled
  <2>1. q \in Calls
    BY RpcAssumption
  <2>2. at \in [Calls -> CallSteps] /\ client \in [Calls -> Clients \cup {NoClient}]
    BY DEF TypeOK, RpcTypeOK
  <2>3. CASE RequestStart(t) /\ q = StartOf[t]
    <3>1. client'[q] = t
      BY <2>1, <2>2, <2>3 DEF RequestStart, Check
    <3>2. run'[t] = "starting"
      BY <2>3 DEF RequestStart, Go, TypeOK
    <3>3. QED
      BY <2>3, <3>1, <3>2 DEF Early
  <2>4. CASE ~ (RequestStart(t) /\ q = StartOf[t])
    <3>1. at'[q] = at[q] /\ client'[q] = client[q]
      <4>1. CASE RequestStart(t)
        <5>1. StartOf[t] \in Calls /\ q # StartOf[t]
          BY <2>4, <4>1, RpcAssumption, TurnsAssumption
        <5>2. QED
          BY <2>1, <2>2, <4>1, <5>1 DEF RequestStart, Check, End, Step
      <4>2. CASE TimeOut(t)
        <5>1. InterruptOf[t] \in Calls /\ q # InterruptOf[t]
          BY TurnsAssumption
        <5>2. QED
          BY <2>1, <2>2, <4>2, <5>1 DEF TimeOut, Check, End, Step
      <4>3. CASE ~ RequestStart(t) /\ ~ TimeOut(t)
        BY <4>3 DEF Begin, Runner, Subscribe, Started, RegisterActive, Receive, Garbled,
                    TimedOut, Finish, Close, MarkClosing, FailWaiters, Kill, rpcVars, calls
      <4>4. QED
        BY <4>1, <4>2, <4>3
    <3>2. q = StartOf[client[q]] /\ run[client[q]] \notin Early /\ client[q] \in Clients
      BY <2>1, <3>1 DEF ServingInv, StartsCalled, Called
    <3>3. QED
      BY <1>2, <3>1, <3>2
  <2>5. QED
    BY <2>3, <2>4
<1>4. NotServedYet'
  BY <1>1, <1>2 DEF ServingInv, NotServedYet
<1>5. Subscribed'
  BY <1>1 DEF Moved, ServingInv, Subscribed
<1>6. CompletionIsKept'
  <2> SUFFICES ASSUME NEW u \in Clients, serving'[u] = "ended",
                      run'[u] \in {"starting", "started", "waiting"}
               PROVE  \/ inbox'[u]
                      \/ \E i \in DOMAIN stdout'[u] : stdout'[u][i].type = "completed"
    BY DEF CompletionIsKept
  <2>1. serving[u] = "ended" /\ stdout' = stdout
    BY <1>1
  <2>2. run[u] \in {"starting", "started", "waiting"} /\ inbox'[u] = inbox[u]
    <3>1. CASE u = t
      <4>1. run[u] \notin Early
        BY <2>1 DEF ServingInv, NotServedYet
      <4>2. QED
        BY <1>1, <3>1, <4>1 DEF Moved, Early
    <3>2. CASE u # t
      BY <1>1, <3>2
    <3>3. QED
      BY <3>1, <3>2
  <2>3. QED
    BY <2>1, <2>2 DEF ServingInv, CompletionIsKept
<1>7. QED
  BY <1>3, <1>4, <1>5, <1>6 DEF ServingInv

\* Every step keeps what the app-server serves and what is kept of its end.
LEMMA ServingStep ==
  ASSUME TypeOK, Called, ServingInv, ClosesLast, StopsKnow, [Next]_vars
  PROVE  ServingInv'
<1>1. CASE RpcNext /\ UNCHANGED <<registry, run, stops>>
  BY <1>1, RpcServing
<1>2. CASE \E t \in Clients : Begin(t) \/ Runner(t) \/ Garbled(t)
  BY <1>2, RunnerServing
<1>3. CASE (\E s \in Stops : Stop(s)) \/ Evict \/ UNCHANGED vars
  <2>1. UNCHANGED <<serving, stdout, sub, inbox, run>>
    BY <1>3 DEF Stop, Find, InterruptTurn, Interrupted, Report, Check, Evict, vars, rpcVars,
                server, reads, subs
  <2>2. \A q \in Starts : at'[q] = at[q] /\ client'[q] = client[q]
    <3>1. ASSUME NEW s \in Stops, InterruptTurn(s)
          PROVE  \A q \in Starts : at'[q] = at[q] /\ client'[q] = client[q]
      <4>1. at \in [Calls -> CallSteps] /\ client \in [Calls -> Clients \cup {NoClient}]
        BY DEF TypeOK, RpcTypeOK
      <4>2. StopOf[s] \in Calls \ Starts /\ Starts \subseteq Calls
        BY RpcAssumption, TurnsAssumption
      <4>3. QED
        BY <3>1, <4>1, <4>2 DEF InterruptTurn, Check, End, Step
    <3>2. CASE UNCHANGED <<at, client>>
      BY <3>2
    <3>3. QED
      BY <1>3, <3>1, <3>2 DEF Stop, Find, Interrupted, Report, Evict, vars, rpcVars, calls
  <2>3. StartsCalled'
    BY <2>1, <2>2 DEF ServingInv, StartsCalled
  <2>4. NotServedYet' /\ Subscribed'
    BY <2>1 DEF ServingInv, NotServedYet, Subscribed
  <2>5. CompletionIsKept'
    BY <2>1 DEF ServingInv, CompletionIsKept
  <2>6. QED
    BY <2>3, <2>4, <2>5 DEF ServingInv
<1>4. QED
  BY <1>1, <1>2, <1>3 DEF Next

-----------------------------------------------------------------------------
(* The registry, and what a stop takes from it.                            *)

\* A turn that has come to its end has not got back from it, and whoever is
\* earlier than a stop's turn already was.
LEMMA MovesForward ==
  ASSUME NEW t \in Clients, OneAtATime, Moved(t),
         \A u \in Clients \ {t} : run'[u] = run[u]
  PROVE  /\ \A u \in Clients : run[u] = "over" => run'[u] = "over"
         /\ \A u \in Clients : run[u] \in {"closing", "over"} => run'[u] \in {"closing", "over"}
         /\ \A u \in Clients : run[u] \in {"waiting", "interrupting", "closing", "over"}
              => run'[u] \in {"waiting", "interrupting", "closing", "over"}
         /\ \A u, v \in Clients :
              run[v] \in {"waiting", "interrupting", "closing", "over"} /\ Earlier(u, v)'
                => Earlier(u, v)
<1>1. /\ \A u \in Clients : run[u] = "over" => run'[u] = "over"
      /\ \A u \in Clients : run[u] \in {"closing", "over"} => run'[u] \in {"closing", "over"}
      /\ \A u \in Clients : run[u] \in {"waiting", "interrupting", "closing", "over"}
           => run'[u] \in {"waiting", "interrupting", "closing", "over"}
  BY DEF Moved
<1>2. ASSUME NEW u \in Clients, NEW v \in Clients,
             run[v] \in {"waiting", "interrupting", "closing", "over"},
             run'[u] = "over", run'[v] # "over"
      PROVE  run[u] = "over" /\ run[v] # "over"
  <2>1. run[v] \notin {"new", "over"}
    BY <1>1, <1>2
  <2>2. CASE run[u] # "over"
    <3>1. u = t /\ run[u] = "closing"
      BY <1>2, <2>2 DEF Moved
    <3>2. u = v
      BY <2>1, <3>1 DEF OneAtATime, Between
    <3>3. QED
      BY <1>2, <3>2
  <2>3. QED
    BY <2>1, <2>2
<1>3. QED
  BY <1>1, <1>2 DEF Earlier

\* Steps that leave the turns, their closers and the registry alone.
LEMMA QuietRegistry ==
  ASSUME RegistryInv, UNCHANGED <<closer, run, registry, stops>>
  PROVE  RegistryInv'
BY DEF RegistryInv, ClosesLast, OneAtATime, Between, Registry, Published, StopsKnow,
       ActiveIsFollowed, StopReportsNoOlderTurn, Earlier, registry, stops

\* A runner keeps the registry true to its turn.
LEMMA RunnerRegistry ==
  ASSUME TypeOK, RegistryInv, NEW t \in Clients, Begin(t) \/ Runner(t) \/ Garbled(t)
  PROVE  RegistryInv'
<1>1. /\ Moved(t)
      /\ UNCHANGED <<stop, target, terminal>>
      /\ \A u \in Clients \ {t} : run'[u] = run[u]
  BY RunnerMoves DEF stops
<1>2. /\ active \in Clients \cup {NoTurn} /\ result \in Clients \cup {NoTurn}
      /\ target \in [Stops -> Clients \cup {NoTurn}]
      /\ terminal \in [Stops -> Clients \cup {NoTurn}]
      /\ closer \in [Clients -> {"open", "marked", "failed", "closed"}]
      /\ run \in [Clients -> RunSteps]
      /\ NoTurn \notin Clients
  BY RpcAssumption DEF TypeOK, RpcTypeOK, NoTurn
<1>3. /\ \A u \in Clients : run[u] = "over" => run'[u] = "over"
      /\ \A u \in Clients : run[u] \in {"closing", "over"} => run'[u] \in {"closing", "over"}
      /\ \A u \in Clients : run[u] \in {"waiting", "interrupting", "closing", "over"}
           => run'[u] \in {"waiting", "interrupting", "closing", "over"}
      /\ \A u, v \in Clients :
           run[v] \in {"waiting", "interrupting", "closing", "over"} /\ Earlier(u, v)'
             => Earlier(u, v)
  BY <1>1, MovesForward DEF RegistryInv
<1>4. \/ UNCHANGED registry
      \/ RegisterActive(t) /\ active' = t /\ result' = NoTurn
      \/ active' = NoTurn /\ result' = t /\ run'[t] = "closing"
  BY <1>2 DEF Begin, Runner, Subscribe, RequestStart, Started, RegisterActive, RegisterTurn, Receive,
         Garbled, TimeOut, TimedOut, Finish, Publish, Go, Close, registry
<1>5. \/ UNCHANGED closer
      \/ /\ run[t] = "closing" /\ UNCHANGED registry
         /\ \A u \in Clients \ {t} : closer'[u] = closer[u]
  BY <1>2 DEF Begin, Runner, Subscribe, RequestStart, Started, RegisterActive, Receive,
              Garbled, TimeOut, TimedOut, Finish, Close, MarkClosing, FailWaiters, Kill, Shut,
              Check, rpcVars
<1>6. ClosesLast'
  <2> SUFFICES ASSUME NEW u \in Clients, closer'[u] # "open"
               PROVE  run'[u] \in {"closing", "over"}
    BY DEF ClosesLast
  <2>1. run[u] \in {"closing", "over"}
    BY <1>5 DEF RegistryInv, ClosesLast
  <2>2. QED
    BY <1>3, <2>1
<1>7. OneAtATime'
  <2>1. CASE Begin(t)
    BY <1>1, <2>1 DEF Begin, OneAtATime, Between
  <2>2. CASE ~ Begin(t)
    <3>1. run[t] # "new"
      BY <2>2 DEF Runner, Subscribe, RequestStart, Started, RegisterActive, Receive, Garbled,
                  TimeOut, TimedOut, Close
    <3>2. \A u \in Clients : Between(u)' => Between(u)
      BY <1>1, <1>3, <3>1 DEF Between
    <3>3. QED
      BY <3>2 DEF RegistryInv, OneAtATime
  <2>3. QED
    BY <2>1, <2>2
<1>8. Registry'
  <2>1. active' = NoTurn \/ result' = NoTurn
    BY <1>4 DEF RegistryInv, Registry, registry
  <2>2. Published(result)'
    <3>1. CASE UNCHANGED registry
      BY <1>2, <1>3, <3>1 DEF RegistryInv, Registry, Published, registry
    <3>2. CASE ~ UNCHANGED registry
      BY <1>4, <3>2 DEF Published
    <3>3. QED
      BY <3>1, <3>2
  <2>3. QED
    BY <2>1, <2>2 DEF Registry
<1>9. StopsKnow'
  BY <1>1, <1>2, <1>3 DEF RegistryInv, StopsKnow, Published
<1>10. ActiveIsFollowed'
  <2>1. CASE RegisterActive(t) /\ active' = t
    <3>1. run'[t] = "waiting" /\ run[t] = "started" /\ UNCHANGED closer
      BY <1>2, <2>1 DEF RegisterActive, Go, rpcVars
    <3>2. closer[t] = "open"
      BY <3>1 DEF RegistryInv, ClosesLast
    <3>3. QED
      BY <2>1, <3>1, <3>2 DEF ActiveIsFollowed
  <2>2. CASE UNCHANGED registry
    <3> SUFFICES ASSUME active # NoTurn
                 PROVE  run'[active] \in {"waiting", "interrupting"} /\ closer'[active] = "open"
      BY <2>2 DEF ActiveIsFollowed, registry
    <3>1. /\ active \in Clients /\ closer[active] = "open"
          /\ run[active] \in {"waiting", "interrupting"}
      BY <1>2 DEF RegistryInv, ActiveIsFollowed
    <3>2. closer'[active] = "open"
      BY <1>5, <3>1
    <3>3. CASE t = active
      <4>1. ~ (Receive(t) \/ Garbled(t) \/ TimedOut(t))
        BY <1>2, <2>2, <3>1 DEF Receive, Garbled, TimedOut, Finish, Publish, registry
      <4>2. TimeOut(t)
        BY <3>1, <3>3, <4>1 DEF Begin, Runner, Subscribe, RequestStart, Started,
                                RegisterActive, Close
      <4>3. run'[t] = "interrupting"
        BY <1>2, <4>2 DEF TimeOut, Go
      <4>4. QED
        BY <3>2, <3>3, <4>3
    <3>4. CASE t # active
      BY <1>1, <3>1, <3>2, <3>4
    <3>5. QED
      BY <3>3, <3>4
  <2>3. CASE active' = NoTurn
    BY <2>3 DEF ActiveIsFollowed
  <2>4. QED
    BY <1>4, <2>1, <2>2, <2>3
<1>11. StopReportsNoOlderTurn'
  <2> SUFFICES ASSUME NEW s \in Stops
               PROVE  /\ target[s] # NoTurn /\ terminal[s] # NoTurn
                           => ~ Earlier(terminal[s], target[s])'
                      /\ stop[s] \in {"found", "interrupting", "waiting"} /\ result' # NoTurn
                           => ~ (run'[result'] = "over" /\ run'[target[s]] # "over")
    BY <1>1 DEF StopReportsNoOlderTurn, Earlier
  <2>1. ASSUME target[s] # NoTurn, terminal[s] # NoTurn
        PROVE  ~ Earlier(terminal[s], target[s])'
    BY <1>1, <1>2, <1>3, <2>1 DEF RegistryInv, StopsKnow, StopReportsNoOlderTurn, Earlier
  <2>2. ASSUME stop[s] \in {"found", "interrupting", "waiting"}, result' # NoTurn
        PROVE  ~ (run'[result'] = "over" /\ run'[target[s]] # "over")
    <3>1. CASE UNCHANGED registry
      <4>1. result' = result /\ result \in Clients /\ target[s] \in Clients
        BY <1>2, <2>2, <3>1 DEF registry, RegistryInv, StopsKnow
      <4>2. /\ run[target[s]] \in {"waiting", "interrupting", "closing", "over"}
            /\ ~ Earlier(result, target[s])
        BY <1>2, <2>2, <4>1 DEF RegistryInv, StopsKnow, StopReportsNoOlderTurn
      <4>3. QED
        BY <1>3, <4>1, <4>2 DEF Earlier
    <3>2. CASE ~ UNCHANGED registry
      BY <1>4, <2>2, <3>2
    <3>3. QED
      BY <3>1, <3>2
  <2>3. QED
    BY <2>1, <2>2
<1>12. QED
  BY <1>6, <1>7, <1>8, <1>9, <1>10, <1>11 DEF RegistryInv

\* A stop keeps the registry true to the turns that run.
LEMMA StopRegistry ==
  ASSUME TypeOK, RegistryInv, NEW s \in Stops, Stop(s)
  PROVE  RegistryInv'
<1>1. /\ active \in Clients \cup {NoTurn} /\ result \in Clients \cup {NoTurn}
      /\ stop \in [Stops -> {"new", "found", "interrupting", "waiting", "over"}]
      /\ target \in [Stops -> Clients \cup {NoTurn}]
      /\ terminal \in [Stops -> Clients \cup {NoTurn}]
  BY DEF TypeOK
<1>2. UNCHANGED <<closer, run, active, result>>
  BY DEF Stop, Find, InterruptTurn, Interrupted, Report, Check, rpcVars, registry
<1>3. ClosesLast' /\ OneAtATime' /\ Registry' /\ ActiveIsFollowed'
  BY <1>2 DEF RegistryInv, ClosesLast, OneAtATime, Between, Registry, Published,
              ActiveIsFollowed
<1>4. \A r \in Stops \ {s} :
        stop'[r] = stop[r] /\ target'[r] = target[r] /\ terminal'[r] = terminal[r]
  BY <1>1 DEF Stop, Find, InterruptTurn, Interrupted, Report, To
<1>5. \/ /\ stop[s] = "new" /\ active # NoTurn
         /\ stop'[s] = "found" /\ target'[s] = active /\ terminal'[s] = terminal[s]
      \/ /\ stop[s] \in {"found", "interrupting"}
         /\ stop'[s] \in {"interrupting", "waiting", "over"}
         /\ target'[s] = target[s] /\ terminal'[s] = terminal[s]
      \/ /\ stop[s] = "waiting" /\ stop'[s] = "over"
         /\ target'[s] = target[s] /\ terminal'[s] = result
  BY <1>1 DEF Stop, Find, InterruptTurn, Interrupted, Report, To
<1>6. StopsKnow'
  <2> SUFFICES ASSUME NEW r \in Stops
               PROVE  /\ stop'[r] \in {"found", "interrupting", "waiting"} => target'[r] # NoTurn
                      /\ target'[r] # NoTurn =>
                           run[target'[r]] \in {"waiting", "interrupting", "closing", "over"}
                      /\ stop'[r] # "over" => terminal'[r] = NoTurn
                      /\ terminal'[r] # NoTurn => run[terminal'[r]] \in {"closing", "over"}
    BY <1>2 DEF StopsKnow, Published
  <2>1. CASE r # s
    BY <1>4, <2>1 DEF RegistryInv, StopsKnow, Published
  <2>2. CASE r = s
    BY <1>5, <2>2 DEF RegistryInv, StopsKnow, Published, Registry, ActiveIsFollowed
  <2>3. QED
    BY <2>1, <2>2
<1>7. StopReportsNoOlderTurn'
  <2> SUFFICES ASSUME NEW r \in Stops
               PROVE  /\ target'[r] # NoTurn /\ terminal'[r] # NoTurn
                           => ~ Earlier(terminal'[r], target'[r])
                      /\ stop'[r] \in {"found", "interrupting", "waiting"} /\ result # NoTurn
                           => ~ Earlier(result, target'[r])
    BY <1>2 DEF StopReportsNoOlderTurn, Earlier
  <2>1. CASE r # s
    BY <1>4, <2>1 DEF RegistryInv, StopReportsNoOlderTurn
  <2>2. CASE r = s
    BY <1>5, <2>2 DEF RegistryInv, StopReportsNoOlderTurn, StopsKnow, Registry
  <2>3. QED
    BY <2>1, <2>2
<1>8. QED
  BY <1>3, <1>6, <1>7 DEF RegistryInv

\* Every step keeps the registry.
LEMMA RegistryStep ==
  ASSUME TypeOK, RegistryInv, [Next]_vars
  PROVE  RegistryInv'
<1>1. CASE RpcNext /\ UNCHANGED <<registry, run, stops>>
  <2>1. UNCHANGED closer
    BY <1>1 DEF RpcNext, Request, Register, TestPipe, Hang, WritePipe, Return, Reply, Reader,
                ReadResponse, ReadRequest, ReadNotification, ReadEnd, FailReader, Complete, Die,
                Ask, Handler, Enter, HangAnswer, WriteAnswer, Commit
  <2>2. QED
    BY <1>1, <2>1, QuietRegistry
<1>2. CASE \E t \in Clients : Begin(t) \/ Runner(t) \/ Garbled(t)
  BY <1>2, RunnerRegistry
<1>3. CASE \E s \in Stops : Stop(s)
  BY <1>3, StopRegistry
<1>4. CASE Evict
  <2>1. result' = NoTurn /\ UNCHANGED <<closer, run, active, stop, target, terminal>>
    BY <1>4 DEF Evict, rpcVars, stops
  <2>2. QED
    BY <2>1 DEF RegistryInv, ClosesLast, OneAtATime, Between, Registry, Published, StopsKnow,
                ActiveIsFollowed, StopReportsNoOlderTurn, Earlier
<1>5. CASE UNCHANGED vars
  BY <1>5, QuietRegistry DEF vars, rpcVars
<1>6. QED
  BY <1>1, <1>2, <1>3, <1>4, <1>5 DEF Next

-----------------------------------------------------------------------------
(* The theorems.                                                           *)

\* No client, no request and no turn at the start.
LEMMA InitInv == Init => TurnsInv
<1> SUFFICES ASSUME Init PROVE TurnsInv
  OBVIOUS
<1>1. TypeOK
  <2>1. RpcTypeOK
    BY DEF Init, RpcInit, RpcTypeOK, CallSteps, AskSteps
  <2>2. QED
    BY <2>1 DEF Init, TypeOK, RunSteps
<1>2. RpcInv
  <2>1. Called /\ WaitersFailed
    BY DEF Init, RpcInit, Called, WaitersFailed
  <2>2. AskLines
    BY DEF Init, RpcInit, AskLines, AskLine
  <2>3. Answering /\ ToldIds
    BY DEF Init, RpcInit, Answering, Answers, ToldIds
  <2>4. QED
    BY <2>1, <2>2, <2>3 DEF RpcInv
<1>3. ServingInv
  <2>1. StartsCalled /\ NotServedYet /\ Subscribed
    BY RpcAssumption DEF Init, RpcInit, StartsCalled, NotServedYet, Subscribed
  <2>2. CompletionIsKept
    BY DEF Init, RpcInit, CompletionIsKept
  <2>3. QED
    BY <2>1, <2>2 DEF ServingInv
<1>4. RegistryInv
  BY DEF Init, RpcInit, RegistryInv, ClosesLast, OneAtATime, Between, Registry, Published,
         StopsKnow, ActiveIsFollowed, StopReportsNoOlderTurn
<1>5. QED
  BY <1>1, <1>2, <1>3, <1>4 DEF TurnsInv

\* TurnsInv is inductive: no step of a thread, of a client or of an app-server
\* leads out of it.
THEOREM TurnsInvariant == Spec => []TurnsInv
<1>1. Init => TurnsInv
  BY InitInv
<1>2. TurnsInv /\ [Next]_vars => TurnsInv'
  <2> SUFFICES ASSUME TurnsInv, [Next]_vars PROVE TurnsInv'
    OBVIOUS
  <2>1. /\ TypeOK /\ Called /\ WaitersFailed /\ AsksInv /\ ServingInv /\ RegistryInv
        /\ ClosesLast /\ StopsKnow
    BY DEF TurnsInv, RpcInv, AsksInv, RegistryInv
  <2>2. TypeOK'
    BY <2>1, TypeStep
  <2>3. Called' /\ WaitersFailed'
    BY <2>1, CallsStep
  <2>4. AsksInv'
    BY <2>1, AsksStep
  <2>5. ServingInv'
    BY <2>1, ServingStep
  <2>6. RegistryInv'
    BY <2>1, RegistryStep
  <2>7. QED
    BY <2>2, <2>3, <2>4, <2>5, <2>6 DEF TurnsInv, RpcInv, AsksInv
<1>3. QED
  BY <1>1, <1>2, PTL DEF Spec

\* Every variable keeps the values its comment names.
THEOREM TypeCorrect == Spec => []TypeOK
<1>1. TurnsInv => TypeOK
  BY DEF TurnsInv
<1>2. QED
  BY <1>1, TurnsInvariant, PTL

\* Once close has failed the waiters, no request on the client waits in vain,
\* whichever of its steps the two threads made first (app_server.py: request
\* puts its waiter into _pending before _write tests _closing again).
THEOREM CloseReleases == Spec => []ClosedReleasesWaiters
<1>1. TurnsInv => ClosedReleasesWaiters
  BY DEF TurnsInv, RpcInv, WaitersFailed, ClosedReleasesWaiters
<1>2. QED
  BY <1>1, TurnsInvariant, PTL

\* The app-server gets one response at most to a request id (app_server.py:
\* respond_server_request keeps the ids in flight and the ones resolved).
THEOREM AnswersOnce == Spec => []AnsweredOnce
<1>1. TurnsInv => AnsweredOnce
  BY DEF TurnsInv, RpcInv, ToldIds, AnsweredOnce
<1>2. QED
  BY <1>1, TurnsInvariant, PTL

\* No completion gets lost between the app-server and run_turn, which
\* subscribes before it sends turn/start (turns.py: run_turn).
THEOREM KeepsCompletion == Spec => []CompletionIsKept
<1>1. TurnsInv => CompletionIsKept
  BY DEF TurnsInv, ServingInv
<1>2. QED
  BY <1>1, TurnsInvariant, PTL

\* Who finds a turn in the registry finds one that run_turn still follows, over
\* an open client (turns.py: register and finish of ActiveTurnRegistry).
THEOREM FollowsActive == Spec => []ActiveIsFollowed
<1>1. TurnsInv => ActiveIsFollowed
  BY DEF TurnsInv, RegistryInv
<1>2. QED
  BY <1>1, TurnsInvariant, PTL

\* A stop reports no turn that was over before the one it stopped began
\* (turns.py: register forgets the result; binding.py: stop).
THEOREM ReportsNoOlderTurn == Spec => []StopReportsNoOlderTurn
<1>1. TurnsInv => StopReportsNoOlderTurn
  BY DEF TurnsInv, RegistryInv
<1>2. QED
  BY <1>1, TurnsInvariant, PTL
=============================================================================
