# Codex Feishu Remoter: a verification project

Codex Feishu Remoter (CFR, `src/src/cfr`) lets a Feishu chat drive Codex threads on
somebody's desktop. A Feishu message becomes a durable row, a worker thread
executes it as a turn of a native Codex thread over an `codex app-server`
process, an operator approves the commands that Codex wants to run with buttons
of a card, and the answer goes back to the chat. Several processes (the Feishu
runtime, the desktop shell, a command line) may share the SQLite database and the
Codex threads.

This directory holds TLA+ modules of the parts of CFR that decide *who does what
and when*, TLC configurations that check them on small instances, and proofs
that TLAPS checks for every instance. Paths such as `daemon.py:278` are below
`src/src/cfr/`; `PROJECT.json` maps every definition to the lines it models.

Run from this directory:

    tlc -workers 2 -config MCChatScheduler.cfg MCChatScheduler
    tlapm ChatScheduler_proofs.tla

## 1. The system

### Components in the order of a message's way

| Component | State it keeps | Operations | Hard behaviours | What makes it correct |
| --- | --- | --- | --- | --- |
| **Feishu transport** `feishu/transport.py`, `sdk_compat.py` | an asyncio loop in a thread; events `ready`, `stopped`, `stop_requested`, `stopping`; connection state, last error | `start`, `connect_until_ready`, `stop`, `_submit` of outbound calls, `_on_message`, `_on_card` | a stop racing a connect; an outbound call during shutdown; SDK tasks that outlive the disconnect | `stop` ends every owned task; a caller of `_submit` gets a result or an error |
| **Connection and daemon lease** `feishu/connection.py`, `store.py:944` | a row of `feishu_daemon_lease` with owner and expiry, a heartbeat thread | `acquire`, heartbeat, `release` | takeover of an expired row, a heartbeat that comes late | one live connection per app and database |
| **Message parsing and admission** `feishu/gateway.py`, `commands.py`, `security.py` | none of its own | `handle_message_event`, `handle_control_command`, authorisation, command tables | an immediate command runs in the callback's thread, beside the workers | only authorised messages become rows; every row gets an outcome |
| **Chat scheduler** `feishu/daemon.py:110-460`, `gateway.py:40-140`, `store.py:274-505` | rows of `feishu_inbox`; in memory `queue`, `_scheduled_chats`, `_active_chats`, `_chat_pending_counts`, worker threads | insert, enqueue, take a token, own a chat, select, claim, finish, release, redirect, recover, stop | callbacks, workers, crashes and restarts in any order; SQLite is read outside the lock | one executor per message, one turn per chat, arrival order, nothing replayed, nothing forgotten |
| **Code runtime** `feishu/code_runtime.py` | files staged in the workspace, claimed attachments | `handle_prompt`, `deliver_final`, `CodeArtifactCollector.collect` | a delivery that fails halfway; artifacts of earlier turns | attachments are consumed by one prompt; the outcome of a turn is delivered once |
| **Pending attachments** `store.py:593-728` | rows of `feishu_pending_attachments`, free or claimed by a message | add, claim, release, clear | a crash between claim and clear; a message that is never executed | an attachment is used by one prompt, and its file is removed when nobody refers to it |
| **Sessions and workspace binding** `store.py:506-592, 729-907`, `storage/db.py`, `control/api.py:280-420` | the thread, surface, pending settings and working directory of a chat | bind, unbind, switch, presets, approval mode | the Control API changes the session without the chat's lock; a first turn binds when it completes | a session starts with settings its model offers; workspace and permissions are the ones set last; an unbind stays |
| **Thread writers** `codex/binding.py`, `codex/lease.py` | `WriterLeaseManager._states` per process | `send_message`, `update_thread_settings`, `create_conversation` | two leases taken one after the other and given back in a `finally` block; Codex Desktop as an external writer | one writer per thread and process, states released on every path |
| **Durable thread lease** `codex/runtime_lease.py` | two SQLite tables: the row of a thread's holder, and its last generation; a heartbeat thread per lease | `acquire`, `heartbeat`, `release`, `close`, takeover | clock read before the transaction; lapsed leases; dead and live processes; late heartbeats | one confirmed holder; fencing generations never repeat |
| **Turn registry and turn runner** `codex/turns.py` | `_active`, `_results`, `_events` by thread | `run_turn`, `register`, `finish`, `wait`, `get`; `stop`, `steer` in `binding.py` | a completion before the start is answered; results kept across turns; a stop that uses a turn read earlier | no completion missed; a stop reports no older turn; every turn ends |
| **App-server RPC client** `codex/app_server.py` | `_pending` waiters, `_closing`, ids of server requests resolved and in flight, subscriptions, handler slots | `request`, `respond_server_request`, the reader thread, `subscribe`, `close` | the process dies, or is closed by one thread while another sends | every request ends; a server request is answered once |
| **Approval bridge** `feishu/approvals.py`, `store.py:975-1080` | rows of `feishu_approvals`, `_pending`, `_pending_user_inputs`, a pool of four feedback threads | `handle_server_request`, `resolve`, `handle_server_notification`, `cancel_all_pending`, `finalize_feedback_for_turn`, recovery, user input | click, timeout, notification, stop and restart decide one request at once | one durable outcome; Codex is told what is durable; the card ends with the outcome |
| **Reply delivery** `feishu/replies.py`, `store.py:908-943` | rows of `feishu_replies` per message, phase and chunk | `reserve_reply`, `_send`, `set_reply_response`, `mark_reply_failed` | a crash or an error between send and record; a retry of a chunk | a chunk is not shown twice: its UUID is a function of message, phase and index |
| **Progress cards** `feishu/progress.py` | last card, a wake-up event, `_finished`, a worker thread | `start`, `on_progress`, `finish` | throttled updates against the final one | the last update shown is the final one |
| **Supervisor** `control/supervisor.py` | daemon, transport, lease, pairing state and timer, admission flags, the Chat adapter | start, stop, reconnect, pairing, admission, workspace changes | two locks taken in an order; a timer that fires while pairing is confirmed | one runtime at a time; a failed start leaves nothing behind |
| **ChatGPT browser adapter** `chat.py`, `chrome_use.py` | the DevTools child, tabs and their markers, bindings of chats to tabs and URLs, the profile with its two marker files | send and answer, uploads and downloads, commands, login and health checks | one browser for all chats; a page that shows something else by now; a login that is handed over | an answer, a file and a conversation belong to their prompt; no check closes a human's window |
| **Inbox and approval pruning** `store.py:303-431` | none | `prune_history` | rows still referred to | what is live or referred to is kept |

The remaining components hold no state that several threads fight for, or are
pure translations: the **approval codec** (`codex/approvals.py`,
`codex/permissions.py`), the **control API and read model** (`control/api.py`,
`read_model.py`, `codex_catalog.py`, `model_registry.py`, `codex_settings.py`; the
requests that change something are in `ChatSession`, `Supervisor` and `BrowserLogin`),
**setup and credentials** (`control/setup.py`, `feishu/credentials.py`,
`config.py`), **diagnostics and doctors**, the **Codex launcher and rollout
reader** (`codex/launcher.py`, `rollout.py`, `threads.py`), the **desktop shell
and platform support** (`desktop.py`, `platform.py`, `network.py`,
`surfaces.py`), the **event projector** (`core/`) and the **command line**
(`cli/main.py`).

### How they interact

    Feishu ──events──> transport ──callback thread──> gateway ──row, token──┐
                                                                            v
       approvals <──card callbacks──┘          feishu_inbox, queue ──> worker threads
           ^                                                                │ _dispatch
           │ server requests, notifications                                 v
       app-server RPC client <── turn runner <── thread writer (durable + process lease)
           │ stdin/stdout                │
           v                             └── turn registry <── stop, redirect, steer
       codex app-server                                        (other threads)

* Gateway callbacks and workers share `feishu_inbox` through SQLite transactions
  and the in-memory queue under `_queue_lock`; neither covers the other.
* A worker executes a row by calling the thread writer, which holds the durable
  lease (shared by all processes) and the process lease, and runs the turn over an
  app-server client of its own.
* The reader thread of that client starts a handler thread per server request
  (bounded by slots); the handler is `ApprovalBridge.handle_server_request`, which
  blocks until a card callback, a timeout, a notification or a stop decides.
* `stop`, `redirect` and the desktop's control API look the active turn up in the
  registry and send `turn/interrupt` on the *runner's* client from a thread of
  their own.
* A text of the asking user that answers a question of Codex passes through the inbox like any
  other message, and is taken out of it by the callback.
* Prompts of the Chat surface share one browser, under `_chat_browser_lock`; the Control Center,
  the login monitor and health checks use the same adapter under another lock, or under none.
* A crash loses everything but SQLite (inbox rows, approvals, leases, replies, sessions,
  bindings) and files (cached attachments, the marker files of the browser's profile).

## 2. The modules

| Module | Models | Uses |
| --- | --- | --- |
| `ChatInbox` | abstract: what the runtime promises of a chat's messages | |
| `ChatScheduler` | scheduler tokens, gateway callbacks, workers, crash and restart | refines `ChatInbox` |
| `FencedLock` | abstract: a lock with fencing epochs and entitlements that lapse | |
| `RuntimeLease` | the durable lease of one thread, with its clock, heartbeats and processes | refines `FencedLock` |
| `ThreadWriter` | `send_message` and `update_thread_settings` over both leases | extends `RuntimeLease`: each step of an operation conjoins the lease step it makes |
| `AppServerRpc` | the JSON-RPC client: requests, reader, handlers, close, and the app-server (external) | |
| `CodexTurns` | `run_turn`, the turn registry, `stop` | extends `AppServerRpc` |
| `Supervisor` | starts, stops, reconnects and pairings, their connection leases, timers and cleanup threads | |
| `Approvals` | approval requests from the app-server's request to the card's outcome | |
| `UserInput` | questions of Codex, the texts that answer them, and the executor that must not run those | extends `Approvals`: `BridgeNext` is the whole bridge |
| `ReplyLedger` | `feishu_replies`: reserve, deliver with a retry, record, give up | |
| `ProgressCard` | the card of a turn and the thread that keeps it current | |
| `PromptRun` | what a worker does with a claimed row: attachments, turn, answer, settlement, and what a restart repairs | extends `ReplyLedger` and `ProgressCard`: each reply and each card step is theirs |
| `ChatSession` | `feishu_sessions` under commands, prompts and the Control API | |
| `ChatBrowser` | prompts and commands of the Chat surface in one ChatGPT browser | |
| `BrowserLogin` | who owns that browser, and how a human signs in to it | |
| `ChannelShutdown` | how the Channel SDK is taken down, with the SDK (external) | |
| `FeishuTransport` | start, stop and thread of the transport | extends `ChannelShutdown` |
| `*_proofs` | the theorems about the module they extend | TLAPS |
| `MC*` | values of the constants for TLC | |

A step of a model is what one thread does between two points where another thread
can run: one SQLite transaction, one section under a lock, one queue operation,
one write to a pipe, or the return of one call that blocks. Where the code reads
something and uses it after such a point, the value read is a variable (`peek`
and `job` in `ChatScheduler`, `now` in `RuntimeLease`, `seen` in `ThreadWriter`,
`closing` and `click` in `Approvals`, `target` in `CodexTurns`).

### ChatScheduler

| Variable | Code |
| --- | --- |
| `status`, `receivedAt` | columns of `feishu_inbox`; `received_at` is a number that each clock reading makes one larger |
| `ahead` | history: the prompts of the chat that had rows when a message's clock was read |
| `queue`, `scheduled`, `active`, `pendingCounts` | `FeishuDaemon.queue`, `_scheduled_chats`, `_active_chats`, `_chat_pending_counts` |
| `phase`, `chat`, `job`, `peek` | the program counter and the locals `chat_id`, `message_id`, `queued_in_database` of each thread in `_worker` |
| `callback` | where the gateway callback of a message stands, from the clock reading on |
| `daemon` | `"up"`, `"stopping"` (stop_event is set), `"down"` |

`Stamp`, `Receive` (or `ReceiveFails`), `Enqueue`, `Ignore`, `ClaimControl`, `FinishControl`,
`Interrupt`, `Rewrite`, `Requeue`, `CloseRedirect` are the steps of `handle_message_event` and
of the redirect command; `TakeToken` to `Exit` those of `_worker`; `Start`, `Stop`,
`Shutdown`, `Crash` the life of the process. `CallbackFails` and `WorkerFails`
are SQLite calls that raise. The dispatch of a claimed row (the turn, the reply)
is one step, `Finish`: what it does inside is the business of the other modules.
`enqueue_message` reads the clock before an insert that may wait for SQLite's write lock
(`store.py:274`), so rows need not appear in the order of their `received_at`; `PromptsInOrder` is
about prompts whose rows were there when a later one read the clock. The clock is taken not to step
back, and rows with equal times go by their `rowid`, as the selection does.

### RuntimeLease and ThreadWriter

A *call* is one `acquire` and what becomes of its lease, so calls never act twice;
an instance is a lease manager in a process of its own. `holder`, `rowExpires`,
`generation` are the two tables; `gen`, `expires`, `lost` the lease object a call
returned; `beat` its heartbeat thread. `now` is the clock value a call read before
it opened its transaction, which may be old by the time the transaction runs. The
clock is a discrete counter that stops at `MaxTime`. A release makes three attempts
against SQLite errors, counted as one fault.

`ThreadWriter` adds the operation's program counter `at`, the process lease `mode`
(`WriterLeaseManager._states`), the mode its `finally` block read (`seen`) and
`desktop`, whether the external writer Codex Desktop uses the thread.
`create_conversation` makes a new thread and takes no lease.

### AppServerRpc and CodexTurns

Each turn has an app-server client of its own, and a client serves one turn, so
the client names the turn. `at`, `box`, `out` are a call of `request`, its waiter queue
and what it returned; `stdout` the lines the reader has yet to read; `closer` how far
`close` has come; `handler`, `resolved`, `inflight`, `refusing` are
`respond_server_request` and the handler slots. The app-server is external: it may
answer, refuse, stay silent, stop reading or die at any time, and may send a request id twice. A write
into a pipe that nobody reads is `stuck` (`Hang`, `HangAnswer`), with `_write_lock` held, so
every other write of that client waits behind it.
`run`, `active`, `result` are `run_turn` and the registry of one thread; `stop`,
`target`, `terminal` a call of `CodexAdapter.stop`.

* Turns of a thread do not overlap (`Begin`): that is the promise of `ThreadWriter`.
* The start of the client, `initialize` and `thread/resume` are one step that succeeds or
  closes the client: no other thread knows the client yet.
* Waits with a timeout (`Queue.get`, `Event.wait`) may end at any time.
* The registry forgets old results of other threads; for one thread this is `Evict`.
* Progress, telemetry and file-change projections are left out; `steer` is the first half of
  `stop` with another method.

### Approvals

`state`, `decision`, `feedback`, `bound` are the columns of a row of
`feishu_approvals`; `pending` and `memo` its entry in `_pending` with the decision
delivered to it; `handler` is the thread of `handle_server_request`, `click` that of a
card callback, `closing` what the reader thread of an app-server is about to close,
`cancelling` what `cancel_all_pending` is, `job` and `jobState` the feedback updates in
the pool, `shown` what the card displays. A turn is finalized twice at most, by
the notification of its end and by the thread that ran it, and each finalization waits
for its own updates. Either may not happen: the reader skips its own when an earlier handler raises
(`app_server.py:261`), and a finalization that finds no data or meets an exception gives up
(`code_runtime.py:333`, `488-493`, `524-529`). `passed` records what a finalization did come over. Two turns number their requests independently, so ids can be equal.
Card contents and evidence dictionaries are left out.

### UserInput

`slot` is `_pending_user_inputs` of one chat, `ask` the thread of `handle_user_input_request`,
`event`, `withdrawn`, `answers` the fields of `_PendingUserInput`, `result` what the
app-server was told, `listed` the questions a notification or the stop is about to withdraw. `callback`
and `heard` are `consume_user_input_message` with the question it read from the slot, `row` the
inbox row it inserts and marks, `task` the row the executor of the chat runs. Texts may be
delivered again, and a restart closes or reschedules rows as in `ChatScheduler`.

* `Mixed = FALSE` keeps approval requests and questions in different behaviours: they share the
  notifications and the stop, and nothing else. The two kinds could meet in one more way: ids
  of different app-servers can be equal, so that a `serverRequest/resolved` of one turn
  withdraws the question of another.
* SQLite errors inside `consume_user_input_message` are left out.

### ReplyLedger, ProgressCard and PromptRun

`ledger` is `feishu_replies.state` of a key (message, phase, chunk), `sending` where `_send`
stands, `posted` the messages the user was shown for a key, by the UUID of the request that made them:
`Uuid` is `deterministic_reply_uuid`, and the Feishu API, which is external, posts nothing new for a
UUID it has seen in the last hour. `card`, `state`, `terminal`, `drawn` are `FeishuTurnProgress` and its thread.
`PromptRun` joins both to `process_one`: `row`, `held`, `claim`, `file` are the inbox row, the
attachment rows, their claims and their cached files; `arrived` is a row's `received_at`, `staged` the
`created_at` of an attachment, which is taken after its download; `at` and `batch` the worker; `got` and
`erred` the lists `response_ids` and `errors`. One chat is enough: the scheduler lets one
worker into a chat, and chats share no attachment and no reply.

* The Codex turn is external and ends as `Ends` says (`CodexTurns` models how).
* A chat without a session gets a reply of phase `status` and its row is completed (`code_runtime.py:424`).
* Which files count as artifacts, chunking and the cards' layout are left out. So is the card of a prompt
  that is not in `Turns`: it decides nothing about the prompt.

### ChatSession

`row` is `feishu_sessions`, `surface` the selected execution surface, `cwdOf` the workspace of a
native thread. `step` and `held` are the command or prompt that holds the lock of its chat, with what it
has read; `ctl` is a request of the Control API, which reads the session, then the jobs, then
acts, without that lock. A store method is one action, unless what it selects before its first
write matters afterwards: `sqlite3` opens the transaction at that write.
`selected` and `granted` are histories, of the workspace and of the approval mode set last.

* The catalog of models is constant. What the settings of a bound thread become is Codex's.
* `steer`, `stop` and the redirect change no session and are left out.

### ChatBrowser

`place`, `text`, `chips`, `marked`, `users` are what each tab shows, what is in its composer, its
mark, and whether it is the human's; `binding` is `feishu_chat_bindings`; `owner` and `outer` are
`_chat_browser_lock`; `job`, `at`, `mine`, `tab`, `seen`, `found` the locals of the chat that works.
`thread`, `known`, `busy`, `files` are ChatGPT, which is external: it opens a
conversation for a prompt sent on a landing page, answers or refuses, takes no prompt while it
answers. Each of the three browser modes (`CFR_CHAT_BROWSER_MODE`) occurs. `shaken` and `astray` are
histories: prompts under which the browser was lost, and tabs a command worked in
without saving that its chat has them. The names differ from those of `ChatSession` so that one
module can speak of both surfaces of a chat.

* The scripts evaluated in a page are reduced to what they tell apart. The answer of a prompt
  is a model value, and a file is named by the prompt it was made for. `Task` is what `/scheduled` types.
* `LoseBrowser` is the end of the DevTools child. A dedicated Chrome goes with it (`LoseTabs`); the user's own keeps
  its tabs, but the next child numbers them anew under the prompts that are at work (`LoseNumbers`, `chat.py:1690`). The
  other driver of that mode, chrome-use (`chat.py:2666`), sees the tabs of its own session only and is not modelled.
* `/search` (a prompt under one lock) is not an action of its own; `_scheduled_page` is.

### BrowserLogin

`made`, `adapter`, `runtime`, `claimed` are the adapters the supervisor made, its `_chat_adapter`
and the one a Feishu runtime was built with; `mcp` the adapters whose child runs; `holder` who
has Chrome on the dedicated profile (nobody, an adapter, or the plain window of the human);
`auth` and `pending` the two marker files. The threads are the Control Center's operation (one at a time,
`_browser_lifecycle_lock`), the login monitor and the prompts of the runtime; each is in a health
check, in a manual login or idle (`stands`, `on`, `got`). The names differ from those of `Supervisor` so that one module can
speak of both.

`CloseAdapter` is `ChromeChatAdapter.close`, which for the dedicated backend also ends whatever runs on
the profile (`chat.py:2608`).

* Looking for plain Chrome and starting it is one step, and so are the marker operations of one branch.
* Two `start_chat_setup` at once may start two monitors; here that is one step. A monitor that outlives
  the two seconds its stop waits is forgotten, as in the code.
* The preference changes once. The sign-in of the user's own Chrome (`shared`) is any. A backend that falls back
  to `shared` on other systems than Windows is the preference `shared`.

### FeishuTransport and ChannelShutdown

`at` is the thread of the transport from `_run_loop` through `capture`, `preclose`, the public
shutdown, the handover of the background loop, its drain, the join and the side loops to its end;
`draining` is the wait inside the drain of the running web socket loop, `hung` a call into the SDK that does
not come back.
`worker`, `wrapper`, `told`, `shut`, `attached`, `bg`, `tasks`, `side`, `left` are the SDK, which is external;
`cap`, `pre`, `hand`, `drain` the dataclasses in which each phase reports to the next; `clean` says that no
blocking issue was reported. `stopping`, `wake`, `stopper` are the flags and the caller of `stop`.

* A guard says what a bounded wait waits for, an alternative without it is the timeout. What the
  transport waits for itself is bounded; the synchronous `stop()` of the SDK and its locks are not
  (`transport.py:491`, `504`, `sdk_compat.py:861`, `909`), so each step inside the SDK (`InSdk`) may `Hang`.
* The SDK's own reconnecting counts as `ready`; a transport is started once, as in the code,
  where who reconnects makes a new one. Inbound handlers and outbound calls are the other modules'.

### Supervisor

The operations of the supervisor exclude each other (`_lifecycle_lock`), so one program
counter `at` with `conn`, the runtime or pairing it works on, stands for all of them;
`then` is what follows a stop (`reconnect_feishu`) and whether a step of the stop failed.
`state`, `daemon`, `pairState`, `pairing`, `done`, `timer` are the fields
`_feishu_state`, `_daemon`, `_pairing_state`, `_pairing_transport`/`_pairing_lease`,
`_pairing_cleanup_done`, `_pairing_timer`. What runs beside an operation has actions of its
own: the callback of a pairing message, which takes only `_lock`; a timer that fired and
waits for `_lifecycle_lock`; the cleanup threads; the threads of the transports; the
heartbeats. `row`, `lapsed`, `beats` are the one row of `feishu_daemon_lease`, the owners
whose time ran out, and who is still renewing; `OtherProcess` is any other process that
wants the row. Every runtime and every pairing is an owner of its own (`instance_id`,
`owner_instance_id`), numbered in the order in which they are made.

* What `start_feishu` does before it claims the runtime (settings, transport, daemon and
  browser) is one step that succeeds or leaves nothing: nobody else sees any of it.
* A transport thread that outlives `disconnect_timeout` is `lingering`: it refuses to
  send from then on, but may hold its socket for a while, and its lease is released
  (`transport.py:817`). `Slow` bounds the transports that do.
* Settings, workspace roots and the admission switches are left out; the browser bridge is in
  `BrowserLogin`.

## 3. What the runs check

Passing runs; the number of distinct states is TLC's.

| Run | Instance | States | Shows |
| --- | --- | --- | --- |
| `scheduler` | prompt and redirect of one chat, ignored message of another, 2 workers, 1 SQLite error | 1,733,828 | one executor per message, and the code refines `ChatInbox`, where ended work stays ended |
| `scheduler_live` | 2 prompts of one chat, 2 workers, 2 SQLite errors, fair | 58,644 | prompts start in the order of their arrival, covered rows and rows found by a restart are served |
| `thread_writer` | a message and a settings change of one process, fair | 897,864 | a confirmed lease is the row and refines `FencedLock`, no two operations of a process write at once, and every operation ends |
| `approvals` | 1 request with an accepting and a declining click, timeouts; or 2 questions and 2 texts that come twice; fair | 580,378 | an accept is durable before Codex is told, a decision that a finalization came over gets its final state, an answer does not run as a task |
| `turns` | 1 turn, 1 stop, a request id sent twice, 1 handler slot, fair | 1,236,038 | nobody outwaits a close, the registry shows a turn that is followed, the turn ends whatever the app-server leaves undone, unless it stops reading |
| `supervisor` | 2 runtimes, one of which may linger, 2 pairings, 1 error, another process, fair | 634,373 | a connection has the lease, and a lease that is over gets free |
| `prompt` | 1 attachment and 2 prompts, or 1 prompt with its card; 1 failing call, 1 restart, fair | 1,700,569 | attachments are given to one prompt and kept for it, a row has its file, replies are shown once however often they are tried, completed work was answered, the card ends on the outcome |
| `sessions` | 2 chats, 2 threads, 2 workspaces, 7 operations, 1 crash | 3,102,445 | a session starts with settings its model offers, workspace and approval mode are the ones set last, an unbind is final |
| `browser` | 3 prompts of 2 chats, 2 with a generated file, 1 with attachments, 1 command, 1 fault, each mode, fair | 2,026,273 | answers, conversations and files belong to their prompt and chat, files go with their prompt, the user's tab is left alone but where the code types into it, prompts end |
| `login` | 3 backends, 2 adapters, 2 operations, 1 monitor, 1 fault | 4,730,181 | the login window is plain and no check takes it, no automation outlives its adapter |
| `transport` | 1 transport, 1 exception or hang in the SDK, fair | TRANSPORT_N | the thread ends or hangs in the SDK without its caller, a loop that was handed over closes empty, no worker or loop is left behind silently but in three ways |

`scheduler_stranded` shows a disagreement between the code and what the repository says of it.
`_worker` reads SQLite for further rows before it takes `_queue_lock` (`daemon.py:278`). A row
inserted and enqueued in between finds its chat still scheduled, so no token is made; the worker
then unschedules the chat. The row waits for the next message of the chat or for a restart.

### Behaviour met while modelling

What follows was read in the code, in counterexamples of stronger forms of the properties, or both. Where a
property has an exemption, its comment names it and the reason is here.

*Scheduler, writers, turns, approvals.*

* A redirect whose requeued row a worker has claimed meanwhile is marked `completed` by the gateway
  while it executes (`gateway.py:122`); `ChatInbox!Close` allows it. A message that is to be ignored
  may be executed between its insert and its mark (`gateway.py:63`).
* A redirect that has requeued its row still sends a reply (`daemon.py:1408`); when that raises anything but a
  `StructuredError`, `gateway.py:115` marks the row failed whatever it is by then. The new direction is withdrawn,
  or the turn that already follows it loses its row; `ChatInbox!Close` allows it for redirects.
* Two callbacks may insert in the other order than they read the clock: the younger message can start before the
  older one has a row.
* `update_thread_settings` acquires the process lease outside the `try` that releases the durable one
  (`binding.py:364`); when the acquire raises, the durable lease is renewed as long as the process lives.
* A request registered after the reader failed the waiters at end of file waits for its whole timeout
  (`app_server.py:270`), and `run_turn` is not told of the death at all: it waits for its deadline. A stop
  may report the result of the turn *after* the one it stopped (`binding.py:332`).
* A turn is not bounded against an app-server that stops reading: the write of its next request or answer blocks
  under `_write_lock` without a timeout (`app_server.py:219`), and on POSIX `close` begins with that same pipe
  (`app_server.py:474`). `TurnsEnd` leaves such turns (`Stuck`) aside; the wait for the turn's end itself has a deadline.
* A lease whose heartbeat thread cannot be started is not released: `release` joins a thread that never ran and
  raises (`runtime_lease.py:272`), so the row stays until it runs out.
* A decision that no finalization comes over after it, both having been skipped or the last one being done, keeps
  `ACKNOWLEDGED_PROCESSING`.
* A click may commit `approved` while the handler times out; the handler decides by memory alone
  (`approvals.py:583`) and tells Codex `decline`. `cancel_all_pending` overwrites an operator's decision in
  memory (`approvals.py:594`). `serverRequest/resolved` matches by request id *or* thread id
  (`approvals.py:613`) and so cancels every other pending approval of the thread.
* A card may fall back from the outcome to "processing", its row does not (`approvals.py:203`); rows in the
  undeclared state `resolved` are never pruned (`approvals.py:627`, `store.py:320`).

*Questions.* The card says that a reply is the answer and makes no new task (`approvals.py:331`).
`AnswerIsNoTask` exempts four ways in which it does both, or neither: the wait times out while the answer is
being taken, so the row is still queued when the turn ends; a handler registers after its turn has ended, waits
for its whole timeout, and swallows the next message; a second text that comes before the slot is
left overrides the first answer, which is lost, and may run as a task; and a crash between the
insert and the mark leaves the reply queued, so a restart runs it. A reply that is taken after the
handler gave up goes nowhere (`approvals.py:457`).

*Supervisor and transport.*

* A stop whose thread does not end in time returns, and the lease is released (`transport.py:817`): for as long as
  that thread lingers there may be a second connection, against `M2_FEISHU_SECURITY_MODEL.md:31`.
* A runtime whose stop failed keeps its transport but no longer renews its lease (`daemon.py:1818`,
  `supervisor.py:1032`), and so does one whose heartbeat gave up: once its time has run out another process
  connects beside it. That is why `ConnectionIsLeased` allows an owner whose time ran out.
* `FeishuDaemon.start` that fails after it acquired the lease leaves the row behind, because `stop` of a daemon
  that is not started does nothing (`daemon.py:1816`); the next start is refused until the row runs out.
* A pairing timer that fired before a cancel and waits for `_lifecycle_lock` expires the *next* pairing
  (`supervisor.py:791`), and the cleanup thread of one pairing sets `_pairing_cleanup_done` for the next
  (`supervisor.py:774`); the lease keeps the two connections apart.
* A workspace root that is added while a runtime starts is saved but not used by it (`supervisor.py:985`).
* A clean report may be false in three ways, which `NoSilentLeak` exempts by name. The public shutdown takes a
  cancelled wrapper for the exit of its worker, which may go on. A failed capture appends
  `PRE_SHUTDOWN_CAPTURE_FAILED` (`transport.py:521`), which line 541 overwrites. And when the SDK had forgotten its
  background loop before the capture (`sdk_compat.py:465`, `1386`), that loop was told to stop, but nobody looks
  whether it ended.
* A web socket loop that its worker closes during the drain is asked only for the tasks that were captured
  (`sdk_compat.py:547`, `567`): others may be left.
* The thread of the transport calls the SDK's synchronous `stop()` inside a `wait_for` that cannot bound it, and takes locks of
  the SDK without a timeout (`transport.py:491`, `504`, `sdk_compat.py:861`, `909`). When such a call hangs the thread never ends;
  `stop` gives up after its own wait (`transport.py:819`), so the caller goes on, which is what `ThreadEnds` says.
* Side loops that are open and idle always yield `SDK_TASK_DRAIN_ERROR:RuntimeError`, since `run_until_complete` is
  called while the transport's own loop runs; the loop is then closed with its task pending.
  `_wait_start_future` polls an asyncio future from the thread of its own loop.
  `SDK_WS_LOOP_CLOSED_WITH_PENDING_TASK` cannot arise; `drain_bg_loop_before_sdk_stop` has no caller.
* Outbound coroutines in flight when the loop closes are not cancelled: their callers wait their whole
  timeout. `RECONNECTED` may overwrite `failed`. A stop before the loop is up leaves `connect_until_ready` waiting
  its whole timeout. `stop` may raise when the loop closes between its check and its call.

*Prompts and sessions.*

* The retention compares a waiting prompt's `received_at` with the time the file was staged (`store.py:341`, `364`, `615`),
  while the claim compares it with the arrival of the message that brought the file (`store.py:671`): a prompt that
  comes during the download may claim the file but does not protect it. `KeptForItsPrompt` says for a start with its
  retention what the code does.
* Feishu remembers a UUID for an hour: a reply that is tried again later than that is shown twice.
* The first turn of a pending session has no thread id, so neither `/stop` nor the jobs of the Control
  API find it: an unbind "while its current task is active" is not refused then (`api.py:296`), nor when the
  turn starts between the look and the act; the same holds of the selection of a surface.
* `switch_to_pending_session` reads the approval mode before its first write: a mode that the Control Center
  sets in that gap is lost, also when the older one was full access. `ModeIsKept` exempts exactly this.
* While a completed first turn has not been bound yet another chat can take its thread with `/session`; the
  first prompt then ends in `FEISHU_THREAD_ALREADY_BOUND` and its answer is lost. A `/session`
  whose bind fails leaves the chat pending in that workspace. A surface switched to Chat while a
  Code turn runs sends `/stop` to the browser.

*Browser.* `AnswerIsItsOwn`, `SentWhereBound`, `SentWithItsFiles` and `FileIsOfItsConversation` are about prompts whose
browser was not lost under them (`shaken`). When it was, a prompt with files may be sent without them: they went with the
tab, and the number of that tab may stand for another one.

* In the user's Chrome a prompt that is at work when the DevTools child is restarted goes on by the number of its
  page, which the next child may have given to any other, also to one of the user's (`chat.py:400`, `516`, `1690`).
  `/scheduled` takes the first tab that shows the scheduled tasks, marked or not, types into it and presses Enter
  (`chat.py:2586`, `2443`, `2512`). `UserTabIsLeft` exempts these two ways into a user's tab and no other.
* A command of the Chat surface writes its binding after it has worked in a tab. Say a chat is bound to the
  conversation of another (`/chat`), the browser is lost, and the other chat has its next answer in a new tab.
  The first one's next `/chat` finds that tab by its URL and navigates it; when the write of the binding fails
  no row says so, and the other chat's download takes a file from there. `FileIsOfItsConversation` leaves such
  tabs (`astray`) aside. The proof found this: it takes three prompts, two commands, a lost browser and a
  failed write, more than the run has room for.
* In the user's own Chrome a chat without a binding sends its first prompt into whatever conversation the owner tab
  shows; with the binding of a landing page (after `/new`, `/project`) the embedded page does the same.
* The failure path takes the lock again to read where the page is, and may bind the chat to another
  chat's conversation; from then on they share a tab, which is why `FileIsOfItsConversation` is about chats
  that do not. `/history` of an unbound chat binds it to the selected tab.
* `/stop` takes no lock: it stops whatever answer the page is giving. Attachments that an earlier failure left in
  the composer go with a prompt that has none of its own. `/image` takes the latest image of whatever the page shows,
  and a file that exists as a card only is taken from the card of that name the tab shows (`chat.py:877`).
* `_generated_files` (`chat.py:1924`) lists the files of an older turn when the answer speaks of a file and
  has none: the old file is delivered again. `/project` with an unknown name leaves the tab on the list.

*Login.*

* A Chrome that outlives its closed child still holds the profile, so no plain window is opened and the human signs
  in in the automation's Chrome, which `chat.py:2743` wants to prevent. A prompt beside the login starts the
  automation, against the text of `chat.py:554`.
* A check that read "signed in" before a manual login forgets it can write the marker back afterwards; the next
  check then kills the human's window. `LoginWindowIsLeft` exempts windows that opened while a check was under way
  (`crossed`).
* Closing the bridge (a shutdown, a changed preference, `supervisor.py:687`) and replacing a dedicated adapter by one of another
  backend (`supervisor.py:618`) call `ChromeChatAdapter.close`, which stops whatever runs on the profile
  (`chat.py:2608`): a human who is signing in loses the window. `LoginWindowIsLeft` names this as `Retired`. A shutdown closes
  the bridge also when the runtime could not be stopped (`supervisor.py:705`), under prompts that go on.
* A bridge closed while a check is inside it has its child restarted by that check, and nobody closes it;
  `OnlyTheBridgeRuns` exempts adapters that were in use when they were dropped (`inUse`).
  `save_setup_preferences` reads whether a runtime runs before it takes the lock: one that starts in between keeps the
  dropped adapter.

### Bounds, and why they are enough

* *Scheduler.* The races are between one callback and one worker, two callbacks, or two workers, on one
  chat: two workers and two messages of a chat have all of them, the message of a second chat keeps
  the queue from being trivial. A command that is not a redirect does no more than a redirect that is refused.
  Crashes and restarts are not bounded. `MaxFaults` bounds
  SQLite errors; one error puts a failure at every place where one can occur.
* *Lease and writers.* The races of the process lease need two operations of a process, which also take the durable
  lease from each other as it lapses. `MaxTime = 2` with `TTL = 1` lets a lease
  granted with an old clock value be expired at its grant, and lapse and be renewed. Taking over from the dead
  process of another instance is covered by the theorems about `RuntimeLease`.
* *Approvals and questions.* Everything is per request, except notifications that name another request (see
  above). Two clicks are the least that race each other; two questions compete for the slot, and
  `MaxArrivals = 2` delivers two texts, or one twice. Symmetry over questions and over texts is sound: the only
  liveness property is about approval requests.
* *Supervisor.* A runtime follows a runtime or a pairing, and a pairing follows a pairing:
  two of each. One error is one delete, heartbeat, stop or recovery that fails. The runtime made first is the one
  that may linger, so that everything can come after it.
* *Turns.* A stop meets the turn it found, or finds none; the requests that share a client are the
  runner's and the stop's, and two requests of the app-server compete for one slot. Two turns after
  one another are covered by the theorems.
* *Prompt.* An attachment meets the prompt it is for and the next one. The card is followed in a behaviour of its
  own (`Mails`), because it shares nothing with attachments. Prompts `p1` and `p2` are symmetric; the
  liveness property is about `p3`.
* *Sessions.* Two chats compete for two threads in two workspaces; seven operations are enough for each chat to
  have a session, lose it and get another one beside a request of the Control API.
* *Browser.* Two prompts of a chat have an answer before the answer, a second chat moves the page; two tabs are one
  per chat; one command and one fault stand at every place. `Makes` and `WithFiles` say which prompts
  have files.
* *Login.* Two adapters are a bridge and its successor, two operations a login and what interrupts it.
* *Transport.* One exception or one hang in the SDK, at every place where it can raise or block.

Symmetry is used where a cfg says so: for workers, questions and texts, prompts, chats, threads and workspaces,
in runs without liveness properties about them. Deadlock is checked in the
scheduler runs, where a daemon that is down can always start, and in the supervisor's; the
other systems do stop (all calls made, all turns over), so their cfgs switch it off.

### Fairness

Weak fairness of threads only: each worker, each callback, each operation, each handler and
each runner goes on if it can, because each is an OS thread that the code never parks
except in waits that are modelled, or in a write to a pipe that nobody reads: a runner, a stop or a
handler that is `Stuck` need not go on. The finalizations of a turn are not fair, the updates they start are. `Start` is fair in `ChatScheduler` because the
supervisor or the service manager starts a runtime that is down. Nothing is assumed of the
network, of Feishu, of operators, of the app-server, of crashes or of SQLite errors, and
the clock need not advance; only in `Supervisor` does the time of a lease that nobody renews
run out in the end. An operation of the supervisor goes on once it has begun; nobody need
begin one. Timeouts are steps that *may* happen at any time, and that
happen in the end when nothing else ends the wait.

In `PromptRun` the worker and the card's thread go on while the process lives; its turn ends because it has
a timeout. In `ChatBrowser` each prompt goes on, its waits have deadlines, and ChatGPT's answers end
or stop growing; chats get the lock in turn since each has only so many prompts. In `FeishuTransport` the
transport's thread and the caller of `stop` go on. The SDK owes nothing: its threads need not go on, and the
transport's thread may hang in any call it makes to it (`Hang` takes it to a step with no way out).
`ChatSession` and `BrowserLogin` check safety only: the observations above say why a livelock
of two checks, and a monitor that nobody answers, are not excluded.

## 4. What is proved

The theorems of the `*_proofs` modules hold for every value of the constants that satisfies
the named assumptions of the modules: `SchedulerAssumption`, `LeaseAssumption` with
`WriterAssumption`, `ApprovalsAssumption` with `UserInputAssumption`, `RpcAssumption` with
`TurnsAssumption`, `SupervisorAssumption`, `SessionAssumption`, `LedgerAssumption` with
`PromptAssumption`, `TransportAssumption`, `LoginAssumption`, `BrowserAssumption`. They ask for finite sets of chats and messages, distinct
names, functions with the types the code gives them, and bounds that are numbers; TLC evaluates
each of them in a run.

* **Scheduler.** `SchedulerInv` joins the types, what the locals of a worker mean in each
  phase, the uniqueness and existence of tokens, what a process that is down remembers
  (nothing), and rows against executions. Token uniqueness alone is not inductive:
  `Release` appends the worker's chat to the queue, so the proof needs that the worker is
  the only one with the chat and that the chat is not queued, and that a queued or
  held chat is marked scheduled, which is what keeps `enqueue` from adding a second token.
  From it follow `TokensUnique`, `ScheduledChatsHaveTokens`, `MessageHasOneExecutor`,
  `RunningPromptsAreMarked` and the action property `EndedWorkStaysEnded`.
* **Order and inbox.** `OrderInv` adds two facts that order needs: a prompt that had its row when another
  message read the clock has the smaller number (`ArrivalsOK`), and when a worker is about to claim what it
  selected, no prompt that was there before that one is queued (`NoneAhead`), although the
  lock of `Select` was given back in between and rows with smaller numbers may still appear: they were not there
  when the selected one read the clock, and no step queues a prompt again. `PromptsStartInOrder` follows. For
  `SchedulerImplementsInbox` the mapping sends a chat to the message a worker executes for it;
  `TurnsOK` says that this is well defined because a chat has one owner, and then each action
  of `ChatScheduler` maps to one of `ChatInbox` or to a stutter.
* **Lease.** `LeaseInv` is `TypeOK`, `RowAgrees` and `ConfirmedHolds`. That a confirmed
  lease is the row needs that the row's expiry equals the one its holder
  remembers and that no call works with a time yet to come: a caller takes a row over only
  if the time it read is past the expiry, so the present is, too, or if the holder's process
  is dead. `LeaseImplementsLock` shows step by step that the lease refines `FencedLock`.
* **Writers.** `WritersKeepTheLease` shows that each step of an operation, with the lease
  step it conjoins, is a step of `RuntimeLease`, so the lease theorems hold of the composition
  (`WritersHoldConfirmedLeases`, `WritersImplementLock`). `ProcessHasOneWriter` is about
  the other lease, the marks in memory: its invariant `MarkInv` says that, while Codex
  Desktop is away, an operation which marked its process finds the process in the mode
  `cfr_active` until it unmarks it, and is the only one that did.
* **Approvals.** The inductive invariant ties rows to memory: an accept in a
  memo, or on its way there from a callback, is recorded in the row; a callback that won
  wrote the row; a handler that still waits after a delivered decision has been told;
  a row that is pending has a handler. `AcceptsAreDurable`, `DecisionsReachWaiters`,
  `PendingRowsAreHandled` follow, and `OutcomesStay` and `FeedbackOnlyAdvances` as action
  properties.
* **Questions.** `QuestionsKeepApprovals` shows that the bridge with its user-input requests still
  behaves as `Approvals`. `AnswersAreNoTasks` rests on `InputInv`: while a turn asks, the
  chat's executor is in that turn and has no other task; a callback that took the answer closes
  the text's row *before* it tells the question; so a question that got its answer has a text whose
  row is closed and was never given to the executor. Withdrawals and timeouts are
  excepted in the invariant as far as they are in the property.
* **Turns.** `TurnsInv` is `TypeOK`, `RpcInv`, `ServingInv` and `RegistryInv`. A caller that
  `close` is to release must be known to the client, so `RpcInv` says which callers are
  registered, and that failing the waiters covered those still writing their line.
  `ServingInv` has one thread per server request id between its acceptance and its answer.
  `RegistryInv` relates the runner to the registry: a started turn has called its start, a
  completion not served yet is in the pipe of a subscribed client or already published, a
  turn closes its client last, turns come one at a time, and a stop's target was published
  once. `CloseReleases`, `AnswersOnce`, `KeepsCompletion`, `FollowsActive` and
  `ReportsNoOlderTurn` follow.
* **Supervisor.** `SupervisorInv` adds to the types what the operation with the lock works on
  (`OperationInv`), that what is not made yet has no transport and no cleanup thread
  (`FreshInv`), that a connected runtime is started and owned and that nobody deletes a row
  before its transport stopped (`LinkInv`), and that who connects, or is about to, has the
  lease (`LeaseInv`). `ConnectionIsLeased` alone is not inductive: between the acquire and
  the connect there is a step at which the lease must not get lost, and a cleanup thread may
  delete a row only because `LinkInv` knows its transport is down and `FreshInv` that it
  cannot connect again. `ConnectionsAreLeased`, `ConnectedAreOwned` and
  `PairingAndRuntimeExclude` follow.

* **Sessions.** `SessionInv` joins the types with `RowOf`, `ReadOf` and `FitInv`.
  `RowOf` says of a row that its mode is one of `granted` and that its workspace, or that of
  the thread it is bound to, is the selected one. That is not inductive: a step that ends a
  `/new`, a `/session` or a first prompt writes what the command read before, while the
  Control API and other chats went on. `ReadOf` says what of it is still true: a `/new` between
  its two statements holds a mode of `granted`; a `/session` or a first prompt about to bind
  holds a thread whose workspace is the selected one, because only its own lock holder
  changes `selected`. `FitInv` says
  of every row, and of the presets a command or a first prompt has read, that the model offers them; `PresetsFit` alone
  speaks of pending sessions and running prompts, but a `/reasoning` saves later what it read. `SessionsStartWithFittingPresets`, `WorksWhereSelected`, `ModesAreKept` follow; the
  action property `UnbindsAreFinal` goes through the actions and shows that no transaction
  but the two that insert finds a row that is not there.

* **Prompts.** `PromptInv` relates the step at which the worker stands to what it has left
  behind: a row that is taken (`JobInv`), claims (`BatchInv`), files before rows and rows gone before
  files (`FileInv`), ledger against screen by the UUIDs that were posted (`ReplyInv`), what `got` and `erred` know
  of the answer (`AnswerInv`), an open card or one that shows the end of its turn (`CardInv`), and who
  used an attachment (`UsedInv`). `CompletedWasAnswered` alone says nothing of a
  worker that is about to complete a row, `SentOnce` nothing of a call whose answer is still under
  way, so neither is inductive. `RowsHaveFiles`, `RepliesAreShownOnce`, `CompletedAreAnswered`,
  `CardsShowTheOutcome` follow, and `AttachmentsAreUsedOnce` and `AttachmentsAreKept` as action
  properties.
* **Transport.** `TransportInv` says what wrapper and worker know of each other
  (`WorkerInv`), that a loop which was taken over while it ran loses its tasks before it is stopped
  (`LoopInv`), and, from the step that visits the side loops on, through the drain of the running one, what a report that is still clean
  implies (`CleanInv`): the report is put together step by step, so `NoSilentLeak`, which speaks of
  its end, has to be strengthened to each of those steps. `CleanMeansGone` and `TakenOverIsDrained`
  follow.

* **Login.** `LoginInv` (in `Supervisor_proofs`, whose second part is about the browser of the supervisor) has to say
  of each step of a health check what it knows while other threads go on. `OwnInv` ties the adapter a
  thread works with, and the runtime's, to the supervisor's, or says that it was dropped in use; `AloneInv` says what a
  thread that no other overlapped may rely on. Only such a thread opens a window that is not `crossed`, and `OpeningInv`
  has it end the automation and write the marker of a login under way before it does. `WindowInv` then shows that this marker
  keeps every later check from the steps that attach automation or kill what runs on the profile. None of the three
  properties is inductive without these. `NoStrayAutomation`, `LoginsArePlain` and the action property
  `LoginWindowsAreLeft` follow.
* **Browser.** `BrowserInv` (in `ChatSession_proofs`, whose second part is about the browser) speaks of the one chat that
  works in it and of what the others left. `LockInv` and `JobInv` say who that is: a chat from `page` to `wait` has
  the lock, and the binding it read before is still the one in its row. `TabOf` says that its tab is open from `restore`
  on and shows its conversation while it composes, which nobody but a lost browser (`shaken`) can change; `ComposerOf`
  has the tab's composer hold its own files and no others. `TextInv` (with `Typed` and `Begun`) says whose text a composer can
  hold: of a prompt that was not sent, and in one tab only, so that the Enter of one prompt does not send another. `SentWhereBound` and
  `SentWithItsFiles` need no more. That an
  answer is one's own does: `SentInv` (a prompt is in one conversation once, and sent only by a chat that waits for it),
  `WaitOf` (a prompt that was sent is the last of the conversation its tab shows) and, for a send that ChatGPT refused,
  `FreshInv` and `SeenOf`: an answer under way is the last of its conversation and was shown to nobody, and a chat that saw it under
  way when it took the state of the page may take it for its own later, but then nobody else does. `ShakenInv` keeps prompts under which
  the browser was lost from being anybody's excuse afterwards. `FileOf` says of an answer that waits for its download
  that its tab shows its conversation, unless the tab is shared or `astray`; `OwnTabOf` keeps a chat that composes from being
  the one who moves it. `OwnPages` separates the human's tab from those of CFR; what it cannot separate, the
  scheduled page and the pages of a restarted child, is exempted in `UserTabIsLeft`. `BrowserAnswersAreOwn`, `BrowserFilesAreOwn`,
  `BrowserSendsWhereBound`, `BrowserFilesAreOfTheConversation` and `BrowserLeavesUserTab` follow.

Some theorems state invariants that no run lists, for instance `TokensUnique`,
`EndedWorkStaysEnded`, `OvertakenCallsStayOut`, `DecisionsReachWaiters` and
`PairingAndRuntimeExclude`: they carry the arguments above, and their support is the proof.
The inductive invariants were checked by TLC on the instances of the runs before they were proved.

Only model-checked: everything about fairness (`CoveredIsServed`, `RestartServes`,
`OperationsEnd`, `DecidedIsFinalized`, `TurnsEnd`, `LeaseGetsFree`, `FinishedCardCloses`,
`PromptsEnd`, `ThreadEnds`), which this prover cannot do.

## 5. What is not modelled, and the plan

Of the components that are modelled in part, these operations are missing:

* turns: `steer`, model and effort settings of a bound thread, the telemetry and progress
  notifications (they change what a card shows, not when a turn ends);
* app-server client: the projection of file changes, diagnostics, `wait_for_notification`;
* thread writers: `create_conversation`, which takes no lease of a thread because there is none yet;
* approvals: the pruning of settled rows, which SQL does in one statement;
* browser: `/search`, a prompt whose send and answer are under one hold of the lock, and so
  a special case of the steps that are modelled;
* supervisor: settings, workspace roots and the admission switches, each one write of a
  file and one reading of it per message.

Not modelled at all:

* message parsing and admission, the approval codec, the event projector: functions of
  one message without state; TLC would check them on the few strings a model can spell;
* setup, credentials, model registry, read model, command line, doctors, launcher and rollout
  reader: file and process input and output under no interleaving but that of the
  file system;
* the desktop shell and the vendor SDK patches: code of the platform and of other projects.

The safety properties of the runs are all proved, and so is every refinement that is stated. What a
further step would add: an abstract reply channel that `PromptRun` refines (one outcome per message, shown once, across
restarts), as `ChatInbox` is for the scheduler; `steer`
in `CodexTurns` and `/search` in `ChatBrowser`, with their part of the invariants.
