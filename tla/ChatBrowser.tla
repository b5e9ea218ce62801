----------------------------- MODULE ChatBrowser -----------------------------
(***************************************************************************)
(* The one ChatGPT browser all Feishu chats share (ChromeChatAdapter) and  *)
(* what FeishuDaemon does with it: a chat on the Chat surface has a row in *)
(* feishu_chat_bindings naming a tab and a URL, and its prompts and        *)
(* commands take the browser one at a time (_chat_browser_lock), bring a   *)
(* tab to that URL, work in it and write back where they ended.            *)
(*                                                                         *)
(* A dedicated Chrome gives every chat a tab; the embedded WebView and the *)
(* user's own Chrome (shared) have one page for all of them, which in the  *)
(* latter is told by a mark (not so with the chrome-use driver, which is   *)
(* left out).  ChatGPT is                                                  *)
(* external: it opens a conversation for a prompt sent on a landing page,  *)
(* answers or refuses, and takes no prompt while it answers.  Any call     *)
(* into the browser can fail or time out.                                  *)
(***************************************************************************)
EXTENDS FiniteSetsExt, SequencesExt

CONSTANTS
  BrowserChats, \* chats on the Chat surface
  NoChat,
  Prompts, NoPrompt,
  ChatOf,       \* the chat of a prompt
  WithFiles,    \* prompts that come with pending attachments
  Makes,        \* prompts whose answers come with a file to download
  Conversations,
  Tabs,         \* page ids of the DevTools protocol
  BrowserModes, \* CFR_CHAT_BROWSER_MODE values that occur
  Reading,      \* bound: what the tab of the user shows at first
  MaxCommands,  \* bound on commands
  MaxFailures   \* bound on failing calls

Upload == "upload"   \* what /upload puts into a composer
Task   == "task"     \* what /scheduled create types
Unset  == "unset"
Lists  == {"aside", "scheduled"}  \* take no prompt; aside: /projects
Pages  == {"landing"} \cup Lists  \* without a conversation

ASSUME BrowserAssumption ==
  /\ NoChat \notin BrowserChats /\ {NoPrompt, Upload, Task} \cap Prompts = {} /\ Task # NoPrompt
  /\ ChatOf \in [Prompts -> BrowserChats]
  /\ WithFiles \subseteq Prompts /\ Makes \subseteq Prompts
  /\ Conversations \cap (Pages \cup {"closed", Unset}) = {}
  /\ Tabs \subseteq Nat \ {0} /\ 1 \in Tabs
  /\ BrowserModes \subseteq {"dedicated", "embedded", "shared"}
  /\ Reading \subseteq Conversations \cup Pages
  /\ MaxCommands \in Nat /\ MaxFailures \in Nat

VARIABLES
  mode,     \* never changes
  place,    \* what each tab shows; "closed" when it does not exist
  text,     \* the prompt in the composer of a tab, or the task
  chips,    \* whose files are attached to it
  marked,   \* tabs with the __cfr_chat_surface__ mark
  users,    \* tabs of the human, in shared mode; never changes
  thread,   \* history: the prompts ChatGPT took, per conversation
  known,    \* conversations that exist
  busy,     \* those it is answering in
  files,    \* history: whose files a prompt was sent with
  binding,  \* feishu_chat_bindings: [tab, url]
  owner,    \* who holds _chat_browser_lock
  outer,    \* chats whose command holds it around the whole prompt
  job,      \* the prompt a chat works on
  at,       \* where it stands
  mine,     \* the binding it read at the start
  tab,      \* the page that page['id'] stands for
  seen,     \* the state before sending
  found,    \* the prompt whose answer made the file that was listed
  answer,   \* the prompt whose answer was taken for a prompt
  fetched,  \* history: the prompt whose file was downloaded for a prompt
  ended,    \* "no", "answered", "failed", or "started" when nobody waits for it
  shaken,   \* history: prompts under way, or in a composer, when it was lost
  astray,   \* history: tabs a command worked in without binding its chat to them
  commands, failures

browser  == <<place, text, chips, marked>>
chatgpt  == <<thread, known, busy, files>>
prompt   == <<job, at, mine, tab, seen, found>>
outcome  == <<answer, fetched, ended, shaken, astray>>
fixed    == <<mode, users>>
browserVars == <<fixed, browser, chatgpt, binding, owner, outer, prompt, outcome,
          commands, failures>>

Places == Conversations \cup Pages
NoBinding == [tab |-> 0, url |-> Unset]
PromptSteps == {"idle", "lock", "page", "restore", "ready", "files", "fill", "send",
          "wait", "bind", "image", "file", "identity"}
Holding == {"page", "restore", "ready", "files", "fill", "send", "wait"}
Delivering == {"bind", "image", "file"}

BrowserTypeOK ==
  /\ mode \in BrowserModes /\ users \subseteq Tabs
  /\ place \in [Tabs -> Places \cup {"closed"}]
  /\ text \in [Tabs -> Prompts \cup {NoPrompt, Task}]
  /\ chips \in [Tabs -> SUBSET (Prompts \cup {Upload})]
  /\ marked \subseteq Tabs
  /\ thread \in [Conversations -> Seq(Prompts)]
  /\ known \subseteq Conversations /\ busy \subseteq known
  /\ binding \in [BrowserChats -> [tab : Tabs \cup {0}, url : Places \cup {Unset}]]
  /\ owner \in BrowserChats \cup {NoChat} /\ outer \subseteq BrowserChats
  /\ job \in [BrowserChats -> Prompts \cup {NoPrompt}]
  /\ at \in [BrowserChats -> PromptSteps]
  /\ tab \in [BrowserChats -> Tabs \cup {0}]
  /\ found \in [BrowserChats -> Makes \cup {NoPrompt}]
  /\ fetched \in [Prompts -> Makes \cup {NoPrompt}]
  /\ answer \in [Prompts -> Prompts \cup {NoPrompt}]
  /\ shaken \subseteq Prompts /\ astray \subseteq Tabs
  /\ ended \in [Prompts -> {"no", "answered", "failed", "started"}]
  /\ commands \in 0..MaxCommands /\ failures \in 0..MaxFailures

\* The embedded page is there from the start; a shared Chrome has a tab of its
\* user, who may be reading anything.
BrowserInit ==
  /\ mode \in BrowserModes
  /\ users = IF mode = "shared" THEN {1} ELSE {}
  /\ \E start \in IF mode = "shared" THEN Reading ELSE {"landing"} :
       /\ place = [t \in Tabs |-> IF t = 1 /\ mode # "dedicated" THEN start ELSE "closed"]
       /\ known = Conversations \cap {start}
  /\ text = [t \in Tabs |-> NoPrompt] /\ chips = [t \in Tabs |-> {}]
  /\ marked = {}
  /\ thread = [k \in Conversations |-> <<>>] /\ busy = {}
  /\ files = [p \in Prompts |-> {}]
  /\ binding = [c \in BrowserChats |-> NoBinding]
  /\ owner = NoChat /\ outer = {}
  /\ job = [c \in BrowserChats |-> NoPrompt] /\ at = [c \in BrowserChats |-> "idle"]
  /\ mine = [c \in BrowserChats |-> NoBinding] /\ tab = [c \in BrowserChats |-> 0]
  /\ seen = [c \in BrowserChats |-> <<0, "still">>]
  /\ found = [c \in BrowserChats |-> NoPrompt] /\ fetched = [p \in Prompts |-> NoPrompt]
  /\ answer = [p \in Prompts |-> NoPrompt] /\ ended = [p \in Prompts |-> "no"]
  /\ shaken = {} /\ astray = {}
  /\ commands = 0 /\ failures = 0

Failure   == failures < MaxFailures /\ failures' = failures + 1
NoFailure == UNCHANGED failures
To(c, s) == at' = [at EXCEPT ![c] = s]

-----------------------------------------------------------------------------
(* Tabs                                                                    *)

OpenTabs == {t \in Tabs : place[t] # "closed"}
FirstOf(S) == IF S = {} THEN 0 ELSE Min(S)

\* In the user's Chrome CFR has one tab, which carries the mark.
OwnerPage == FirstOf(marked \cap OpenTabs)
FoundPage_AnyTab(b) == FirstOf(OpenTabs)   \* mutant: the tab that is selected
FoundPage(b) ==
  IF mode = "shared" THEN OwnerPage
  ELSE IF b.tab \in OpenTabs THEN b.tab
  ELSE FirstOf({t \in OpenTabs : place[t] = b.url})

\* _new_page: the embedded page is the only one there is.
FreeTab_First == 1   \* mutant: a page that is there is used again
FreeTab == IF mode = "embedded" THEN 1 ELSE FirstOf(Tabs \ OpenTabs)
PageFor(b) == {IF FoundPage(b) # 0 THEN FoundPage(b) ELSE FreeTab} \ {0}

\* _page that creates nothing: when the browser has the tab no more, any tab that
\* is selected.
Existing(b) ==
  IF FoundPage(b) # 0 THEN {FoundPage(b)}
  ELSE IF mode = "shared" THEN {} ELSE OpenTabs
Looked(b) == IF b.url = Unset THEN Existing(b) ELSE PageFor(b)

\* A tab shows u; navigating empties its composer.
Show(t, u) ==
  /\ place' = [place EXCEPT ![t] = u]
  /\ text'  = IF place[t] = u THEN text  ELSE [text EXCEPT ![t] = NoPrompt]
  /\ chips' = IF place[t] = u THEN chips ELSE [chips EXCEPT ![t] = {}]
Mark(t) == marked' = IF mode = "shared" THEN marked \cup {t} ELSE marked

Wanted(b) == IF b.url = Unset THEN "landing" ELSE b.url
Opened(b, t) == IF FoundPage(b) = t THEN place[t] ELSE Wanted(b)
LookedAt(b, t) == IF b.url = Unset THEN place[t] ELSE Opened(b, t)

\* _restore_bound_url: a binding without a conversation is taken for a new chat
\* that has become one, whichever conversation the tab shows.
RestoredTo_Never(b, u) == u   \* mutant: the tab is taken for the right one
RestoredTo(b, u) ==
  IF b.url = Unset \/ (b.url \in Pages /\ u \in Conversations) THEN u ELSE b.url

Restored(b, t) == RestoredTo(b, Opened(b, t))
Shown(c) == place[tab[c]]

\* What a poll of the page can tell apart: messages, and whether the last grows.
Answers(u) ==
  IF u \in Conversations THEN <<Len(thread[u]), IF u \in busy THEN "grows" ELSE "still">>
  ELSE <<0, "still">>

-----------------------------------------------------------------------------
(* A prompt: _handle_chat_prompt around ChromeChatAdapter._send_message    *)

Begin(c, p) ==
  /\ at[c] = "idle" /\ ChatOf[p] = c /\ ended[p] = "no"
  /\ job' = [job EXCEPT ![c] = p]

\* The binding is read before the lock is taken.
Take(c, p) ==
  /\ Begin(c, p)
  /\ mine' = [mine EXCEPT ![c] = binding[c]]
  /\ To(c, "lock")
  /\ UNCHANGED <<fixed, browser, chatgpt, binding, owner, outer, tab, seen,
                 found, outcome, commands, failures>>

\* /new with a message: new_conversation, then the prompt, under one lock.
TakeNew(c, p) ==
  /\ Begin(c, p) /\ owner = NoChat /\ commands < MaxCommands
  /\ owner' = c /\ outer' = outer \cup {c}
  /\ \E t \in PageFor(binding[c]) :
       /\ Show(t, "landing") /\ Mark(t)
       /\ binding' = [binding EXCEPT ![c] = [tab |-> t, url |-> "landing"]]
       /\ mine' = [mine EXCEPT ![c] = [tab |-> t, url |-> "landing"]]
  /\ To(c, "page")
  /\ commands' = commands + 1
  /\ UNCHANGED <<fixed, chatgpt, tab, seen, found, outcome, failures>>

LockIsFree_Always == TRUE   \* mutant: no lock
LockIsFree == owner = NoChat
Lock(c) ==
  /\ at[c] = "lock" /\ LockIsFree
  /\ owner' = c
  /\ To(c, "page")
  /\ UNCHANGED <<fixed, browser, chatgpt, binding, outer, job, mine, tab, seen,
                 found, outcome, commands, failures>>

\* What a step of the transaction leaves alone.
Inside == UNCHANGED <<fixed, binding, owner, outer, job, mine, found, outcome,
                      commands, failures>>

Resolve(c) ==
  /\ at[c] = "page"
  /\ \E t \in PageFor(mine[c]) :
       /\ tab' = [tab EXCEPT ![c] = t]
       /\ Show(t, Opened(mine[c], t)) /\ Mark(t)
  /\ To(c, "restore")
  /\ UNCHANGED <<chatgpt, seen>> /\ Inside

Restore(c) ==
  /\ at[c] = "restore" /\ tab[c] \in OpenTabs
  /\ Show(tab[c], RestoredTo(mine[c], Shown(c)))
  /\ To(c, "ready")
  /\ UNCHANGED <<marked, chatgpt, tab, seen>> /\ Inside

\* _wait_ready, _wait_history and the state before sending.
Snapshot(c) ==
  /\ at[c] = "ready" /\ tab[c] \in OpenTabs /\ Shown(c) \notin Lists
  /\ seen' = [seen EXCEPT ![c] = Answers(Shown(c))]
  /\ To(c, IF job[c] \in WithFiles THEN "files" ELSE "fill")
  /\ UNCHANGED <<browser, chatgpt, tab>> /\ Inside

\* _clear_stale_composer_attachments, then the upload.
Attached_Added(t, p) == chips[t] \cup {p}   \* mutant: what is there stays
Attached(t, p) == {p}
Attach(c) ==
  /\ at[c] = "files" /\ tab[c] \in OpenTabs
  /\ chips' = [chips EXCEPT ![tab[c]] = Attached(tab[c], job[c])]
  /\ To(c, "fill")
  /\ UNCHANGED <<place, text, marked, chatgpt, tab, seen>> /\ Inside

Fill(c) ==
  /\ at[c] = "fill" /\ tab[c] \in OpenTabs
  /\ text' = [text EXCEPT ![tab[c]] = job[c]]
  /\ To(c, "send")
  /\ UNCHANGED <<place, chips, marked, chatgpt, tab, seen>> /\ Inside

\* Where ChatGPT puts a prompt sent from u: there, or in a conversation it opens.
Target(u) == IF u \in Conversations THEN {u} ELSE Conversations \ known

\* It takes what is in the composer of t and starts to answer.
Submit(t) ==
  \E k \in Target(place[t]) :
    /\ thread' = [thread EXCEPT ![k] = Append(@, text[t])]
    /\ known' = known \cup {k} /\ busy' = busy \cup {k}
    /\ files' = [files EXCEPT ![text[t]] = chips[t]]
    /\ place' = [place EXCEPT ![t] = k]
    /\ text' = [text EXCEPT ![t] = NoPrompt] /\ chips' = [chips EXCEPT ![t] = {}]

CanSend(c) == text[tab[c]] \in Prompts /\ Shown(c) \notin busy \cup {"scheduled"}

\* _wait_send_enabled and Enter.  An empty composer, a new message or an answer
\* under way are taken for a send; ChatGPT may have refused it all the same (and
\* does when it has no conversation left to open).
Send(c) ==
  /\ at[c] = "send" /\ tab[c] \in OpenTabs
  /\ CanSend(c)
  /\ \/ Submit(tab[c]) /\ NoFailure
     \/ /\ IF Target(Shown(c)) = {} THEN NoFailure ELSE Failure
        /\ text' = [text EXCEPT ![tab[c]] = NoPrompt]
        /\ chips' = [chips EXCEPT ![tab[c]] = {}]
        /\ UNCHANGED <<place, chatgpt>>
  /\ To(c, "wait")
  /\ UNCHANGED <<fixed, marked, binding, owner, outer, job, mine, tab, seen,
                 found, outcome, commands>>

\* _wait_answer: nothing is being generated and the page is not as it was.
IsNew(c) == Answers(Shown(c)) # seen[c]
HasAnswer(c) ==
  /\ tab[c] \in OpenTabs /\ Shown(c) \in Conversations \ busy
  /\ thread[Shown(c)] # <<>> /\ IsNew(c)

\* Leaving the innermost with-block.
Released(c) == IF c \in outer THEN c ELSE NoChat
Finished(c, o) ==
  /\ ended' = [ended EXCEPT ![job[c]] = o]
  /\ job' = [job EXCEPT ![c] = NoPrompt] /\ found' = [found EXCEPT ![c] = NoPrompt]
  /\ outer' = outer \ {c}
  /\ owner' = IF owner = c THEN NoChat ELSE owner
  /\ To(c, "idle")

\* _generated_files: those of the last answer that has any, when the answer or its
\* prompt speaks of a file.
Generated(k) ==
  LET made == {i \in DOMAIN thread[k] : thread[k][i] \in Makes}
  IN IF made = {} THEN NoPrompt ELSE thread[k][Max(made)]
Listed(k) ==
  IF Last(thread[k]) \in Makes THEN {Generated(k)} ELSE {Generated(k), NoPrompt}

Answer(c) ==
  /\ at[c] = "wait" /\ HasAnswer(c)
  /\ \E q \in Listed(Shown(c)) : found' = [found EXCEPT ![c] = q]
  /\ answer' = [answer EXCEPT ![job[c]] = Last(thread[Shown(c)])]
  /\ mine' = [mine EXCEPT ![c] = [tab |-> tab[c], url |-> Shown(c)]]
  /\ owner' = Released(c)
  /\ To(c, "bind")
  /\ UNCHANGED <<fixed, browser, chatgpt, binding, outer, job, tab, seen,
                 fetched, ended, shaken, astray, commands, failures>>

\* update_chat_binding, which may fail and is passed over; then the reply, alone or
\* with an image, a file or both to fetch.
Fetches(c) == UNCHANGED <<owner, outer, job, found, ended>>
SaveBinding(c) ==
  /\ at[c] = "bind"
  /\ \/ binding' = [binding EXCEPT ![c] = mine[c]] /\ NoFailure
     \/ Failure /\ UNCHANGED binding
  /\ \/ To(c, "image") /\ Fetches(c)
     \/ found[c] # NoPrompt /\ To(c, "file") /\ Fetches(c)
     \/ found[c] = NoPrompt /\ Finished(c, "answered")
  /\ UNCHANGED <<fixed, browser, chatgpt, mine, tab, seen, answer, fetched, shaken,
                 astray, commands>>

\* A download takes the lock again and looks the tab of the answer up again, where
\* it is not navigated; one that fails is reported at the end.
Fetched(c, step) ==
  /\ at[c] = step /\ owner \in {NoChat, c}
  /\ UNCHANGED <<fixed, chatgpt, binding, mine, tab, seen, answer, shaken, astray,
                 commands>>
Revisit(c, t) == Show(t, Opened(mine[c], t)) /\ Mark(t) /\ NoFailure
Missed(c) == UNCHANGED browser /\ IF PageFor(mine[c]) = {} THEN NoFailure ELSE Failure

\* An image has an address.
FetchImage(c) ==
  /\ Fetched(c, "image") /\ UNCHANGED fetched
  /\ Missed(c) \/ \E t \in PageFor(mine[c]) : Revisit(c, t)
  /\ \/ found[c] # NoPrompt /\ To(c, "file") /\ Fetches(c)
     \/ found[c] = NoPrompt /\ Finished(c, "answered")

\* A file may have one too; else it is the card of that name, or the last card, of
\* whichever conversation the tab shows.
Cards(u) == IF u \in Conversations THEN Makes \cap Range(thread[u]) ELSE {}
\* A stream that ends early leaves no file.
Streamed(c, u) ==
  \E q \in {found[c]} \cup Cards(u) : fetched' = [fetched EXCEPT ![job[c]] = q]
FetchFile(c) ==
  /\ Fetched(c, "file") /\ Finished(c, "answered")
  /\ \/ Missed(c) /\ UNCHANGED fetched
     \/ \E t \in PageFor(mine[c]) :
          Revisit(c, t) /\ Streamed(c, Opened(mine[c], t))

\* The waits end by themselves: no tab to be had, no composer on the page, a send
\* button that stays disabled, no new answer within the idle time.
TimedOut_Never(c) == FALSE   \* mutant: no deadline
TimedOut(c) == at[c] = "wait" /\ Shown(c) \notin busy /\ ~ HasAnswer(c)
Stuck(c) ==
  \/ at[c] = "page" /\ PageFor(mine[c]) = {}
  \/ /\ at[c] # "page"
     /\ \/ tab[c] \notin OpenTabs
        \/ at[c] = "ready" /\ Shown(c) \in Lists
        \/ at[c] = "send" /\ ~ CanSend(c)
        \/ TimedOut(c)

\* What a call that failed may have done all the same.
LeftOver(c) ==
  \/ UNCHANGED <<browser, chatgpt>>
  \/ /\ at[c] = "page" /\ mode = "shared" /\ FoundPage(mine[c]) = 0 \* not marked
     /\ \E t \in PageFor(mine[c]) : Show(t, Wanted(mine[c]))
     /\ UNCHANGED <<marked, chatgpt>>
  \/ /\ at[c] # "page" /\ tab[c] \in OpenTabs
     /\ \/ /\ at[c] = "restore" /\ Show(tab[c], RestoredTo(mine[c], Shown(c)))
           /\ UNCHANGED chatgpt
        \/ /\ at[c] = "files"
           /\ \E s \in {{}, {job[c]}} : chips' = [chips EXCEPT ![tab[c]] = s]
           /\ UNCHANGED <<place, text, chatgpt>>
        \/ at[c] = "send" /\ CanSend(c) /\ Submit(tab[c])
     /\ UNCHANGED marked

Fail(c) ==
  /\ owner = c /\ at[c] \in Holding
  /\ IF Stuck(c) THEN UNCHANGED <<browser, chatgpt>> /\ NoFailure
                 ELSE LeftOver(c) /\ Failure
  /\ owner' = Released(c)
  /\ To(c, "identity")
  /\ UNCHANGED <<fixed, binding, outer, job, mine, tab, seen, found, outcome, commands>>

\* current_identity, under the lock again.
Identity(c) ==
  /\ at[c] = "identity" /\ owner \in {NoChat, c}
  /\ \/ \E t \in Existing(mine[c]) :
          binding' = [binding EXCEPT ![c] = [tab |-> t, url |-> place[t]]]
     \/ FoundPage(mine[c]) = 0 /\ UNCHANGED binding
  /\ Finished(c, "failed")
  /\ UNCHANGED <<fixed, browser, chatgpt, mine, tab, seen, answer, fetched, shaken,
                 astray, commands, failures>>

BrowserStep(c) ==
  \/ Lock(c) \/ Resolve(c) \/ Restore(c) \/ Snapshot(c) \/ Attach(c) \/ Fill(c)
  \/ Send(c) \/ Answer(c) \/ SaveBinding(c) \/ FetchImage(c) \/ FetchFile(c)
  \/ Fail(c) \/ Identity(c)

-----------------------------------------------------------------------------
(* Commands: each holds the lock from its start to its end, so that it is   *)
(* one step; a command that fails before it changes anything is no step.   *)

Command(c) ==
  /\ at[c] = "idle" /\ owner = NoChat
  /\ commands < MaxCommands /\ commands' = commands + 1
  /\ UNCHANGED <<fixed, owner, outer, prompt, answer, fetched, shaken>>

\* update_chat_binding after the browser's work, unless that raised at its end.
Rebind(c, t, u) ==
  \/ /\ binding' = [binding EXCEPT ![c] = [tab |-> t, url |-> u]]
     /\ NoFailure /\ UNCHANGED astray
  \/ Failure /\ UNCHANGED binding /\ astray' = astray \cup {t}

\* navigate: the chat's tab shows u, and is bound.
Navigate(c, u) ==
  \E t \in PageFor(binding[c]) : Show(t, u) /\ Mark(t) /\ Rebind(c, t, u)

\* /new
OpenLanding(c) == Command(c) /\ Navigate(c, "landing") /\ UNCHANGED <<chatgpt, ended>>

\* /chat: a conversation of the user, whoever opened it.
OpenConversation(c, k) ==
  Command(c) /\ k \in known /\ Navigate(c, k) /\ UNCHANGED <<chatgpt, ended>>

\* By way of the list of projects, which may not have it: the tab stays there.
ThroughList(c) ==
  \/ Navigate(c, "landing")
  \/ /\ \E t \in PageFor(binding[c]) : Show(t, "aside") /\ Mark(t)
     /\ NoFailure /\ UNCHANGED <<binding, astray>>

\* /project
OpenProject(c) == Command(c) /\ ThroughList(c) /\ UNCHANGED <<chatgpt, ended>>

\* A menu of the page is read or set.
Inspect(c) ==
  /\ Command(c)
  /\ \E t \in PageFor(binding[c]) :
       LET u == Restored(binding[c], t) IN Show(t, u) /\ Mark(t) /\ Rebind(c, t, u)
  /\ UNCHANGED <<chatgpt, ended>>
ReadModels(c)    == Inspect(c)   \* /models, /model
Reasoning(c) == Inspect(c)   \* /reasoning

\* conversation_history: without a binding, on the tab that is selected.
ReadHistory(c) ==
  \E t \in Looked(binding[c]) :
    LET u == RestoredTo(binding[c], LookedAt(binding[c], t)) IN
      Show(t, u) /\ Mark(t) /\ Rebind(c, t, u)

\* /history binds the chat to the tab it was read from.
History(c) == Command(c) /\ ReadHistory(c) /\ UNCHANGED <<chatgpt, ended>>

\* The page as it is.
LookAt(c) == \E t \in Looked(binding[c]) : Show(t, LookedAt(binding[c], t)) /\ Mark(t)

\* /chats, /image status, /deepresearch status
Look(c) ==
  Command(c) /\ LookAt(c) /\ UNCHANGED <<chatgpt, binding, ended, astray, failures>>

\* upload_files: added to what the composer holds.
Added(t, u) ==
  /\ place' = [place EXCEPT ![t] = u]
  /\ text'  = IF place[t] = u THEN text ELSE [text EXCEPT ![t] = NoPrompt]
  /\ chips' = [chips EXCEPT ![t] = (IF place[t] = u THEN @ ELSE {}) \cup {Upload}]

\* /upload
UploadOnly(c) ==
  /\ Command(c)
  /\ \E t \in PageFor(binding[c]) :
       LET u == Restored(binding[c], t) IN
         u \notin Lists /\ Added(t, u) /\ Mark(t) /\ Rebind(c, t, u)
  /\ UNCHANGED <<chatgpt, ended>>

\* A prompt is sent with a tool selected, and not waited for; without a sign that
\* it started the binding stays.
StartTool(c, p) ==
  /\ Command(c) /\ ChatOf[p] = c /\ p \notin WithFiles /\ ended[p] = "no"
  /\ ended' = [ended EXCEPT ![p] = "started"]
  /\ \E t \in PageFor(binding[c]) :
       LET u == Restored(binding[c], t) IN
         /\ u \notin Lists \cup busy
         /\ \E k \in Target(u) :
              /\ thread' = [thread EXCEPT ![k] = Append(@, p)]
              /\ known' = known \cup {k} /\ busy' = busy \cup {k}
              /\ place' = [place EXCEPT ![t] = k]
              /\ Rebind(c, t, k)
         /\ text' = [text EXCEPT ![t] = NoPrompt] /\ chips' = [chips EXCEPT ![t] = {}]
         /\ Mark(t)
  /\ UNCHANGED files
StartResearch(c, p) == StartTool(c, p)  \* /deepresearch
StartImage(c, p)    == StartTool(c, p)  \* /image

\* list_projects: the embedded page goes there and back, and may fail to come back;
\* a tab of its own is closed again, or fails to.
VisitList ==
  /\ FreeTab # 0
  /\ \/ mode = "embedded" /\ Show(1, place[1])
     \/ Show(FreeTab, "aside")
     \/ mode # "embedded" /\ UNCHANGED <<place, text, chips>>
  /\ IF mode = "shared" /\ place' # place THEN Mark(FreeTab) ELSE UNCHANGED marked

\* /projects
ListProjects(c) ==
  Command(c) /\ VisitList /\ UNCHANGED <<chatgpt, binding, ended, astray, failures>>

\* _scheduled_page: the first tab that shows it, whosever it is; else a new one,
\* which stays.
OnScheduled == {t \in OpenTabs : place[t] = "scheduled"}
ScheduledPage == {IF OnScheduled # {} THEN FirstOf(OnScheduled) ELSE FreeTab} \ {0}

\* /scheduled: a task is typed over what the composer of that page holds and
\* entered, unless that fails; the rest reads, presses buttons or fills dialogs.
Scheduled(c) ==
  /\ Command(c)
  /\ \E t \in ScheduledPage :
       /\ place' = [place EXCEPT ![t] = "scheduled"]
       /\ chips' = IF t \in OnScheduled THEN chips ELSE [chips EXCEPT ![t] = {}]
       /\ IF t \in OnScheduled THEN UNCHANGED marked ELSE Mark(t)
       /\ \/ text' = [text EXCEPT ![t] = NoPrompt] /\ NoFailure
          \/ text' = [text EXCEPT ![t] = Task] /\ Failure
          \/ t \in OnScheduled /\ UNCHANGED text /\ NoFailure
  /\ UNCHANGED <<chatgpt, binding, ended, astray>>

-----------------------------------------------------------------------------
(* Without the lock                                                         *)

\* /stop: the tab of the binding, created or taken as selected when there is
\* none, and its stop button, whosever answer it stops.
Stop(c) ==
  /\ commands < MaxCommands /\ commands' = commands + 1
  /\ binding[c] # NoBinding \/ job[c] # NoPrompt \* it has a row
     \/ \E p \in Prompts : ChatOf[p] = c /\ ended[p] # "no"
  /\ \E t \in Looked(binding[c]) :
       LET u == LookedAt(binding[c], t) IN
         Show(t, u) /\ Mark(t) /\ busy' = busy \ {u}
  /\ UNCHANGED <<fixed, thread, known, files, binding, owner, outer, prompt,
                 outcome, failures>>

\* The DevTools child dies, or a login or health check of the supervisor closes it.
\* The tabs of a dedicated Chrome are gone, and their numbers given anew.  The
\* user's Chrome keeps its tabs, but the next child numbers them anew: the number a
\* prompt works by may then be that of any of them, or of none.  (The embedded page
\* is the first one again.)
AtWork == {c \in BrowserChats : at[c] \in Holding \ {"page"}}
LoseTabs ==
  /\ mode = "dedicated" /\ OpenTabs # {}
  /\ place' = [t \in Tabs |-> "closed"]
  /\ text' = [t \in Tabs |-> NoPrompt] /\ chips' = [t \in Tabs |-> {}]
  /\ shaken' = shaken \cup
       {job[c] : c \in {d \in BrowserChats : at[d] \in Holding \cup Delivering}}
  /\ UNCHANGED tab
LoseNumbers ==
  /\ mode = "shared" /\ AtWork # {}
  /\ \E t \in Tabs : tab' = [c \in BrowserChats |-> IF c \in AtWork THEN t ELSE tab[c]]
  /\ shaken' = shaken \cup {job[c] : c \in AtWork} \cup (Range(text) \cap Prompts)
  /\ UNCHANGED <<place, text, chips>>
LoseBrowser ==
  /\ LoseTabs \/ LoseNumbers
  /\ Failure
  /\ UNCHANGED <<fixed, marked, chatgpt, binding, owner, outer, job, at, mine, seen,
                 found, answer, fetched, ended, astray, commands>>

\* ChatGPT finishes an answer.
Reply(k) ==
  /\ k \in busy
  /\ busy' = busy \ {k}
  /\ UNCHANGED <<fixed, browser, thread, known, files, binding, owner, outer,
                 prompt, outcome, commands, failures>>

BrowserNext ==
  \/ \E c \in BrowserChats, p \in Prompts : 
       Take(c, p) \/ TakeNew(c, p) \/ StartResearch(c, p) \/ StartImage(c, p)
  \/ \E c \in BrowserChats :
       \/ BrowserStep(c)
       \/ OpenLanding(c) \/ OpenProject(c) \/ ReadModels(c) \/ Reasoning(c)
       \/ History(c) \/ Look(c) \/ UploadOnly(c) \/ ListProjects(c)
       \/ Scheduled(c) \/ Stop(c)
  \/ \E c \in BrowserChats, k \in Conversations : OpenConversation(c, k)
  \/ LoseBrowser
  \/ \E k \in Conversations : Reply(k)

BrowserSpec == BrowserInit /\ [][BrowserNext]_browserVars

\* As long as one of them can, some worker runs on, and their waits have deadlines;
\* ChatGPT's answers end or stop growing.  That is enough for each of them, as each
\* chat has only so many prompts.
FairBrowser ==
  /\ BrowserSpec
  /\ WF_browserVars(\E c \in BrowserChats : BrowserStep(c))
  /\ WF_browserVars(\E k \in Conversations : Reply(k))

-----------------------------------------------------------------------------
\* A prompt is shown its own answer, or one that was under way when it was sent
\* and that nobody had been shown: never one that another prompt got, or will
\* get.  The answer is read from a page all chats use (_wait_answer).  Left aside
\* is a prompt that was under way when the browser was lost: before it looks at
\* its tab again, /stop may have opened one of the same number.  Then it ends with
\* another answer, and its own may still be shown to the next.
AnswerIsItsOwn ==
  \A p \in Prompts \ shaken : answer[p] # NoPrompt =>
    /\ answer[p] \in shaken \cup {p} \/ ended[answer[p]] # "answered"
    /\ \A q \in Prompts \ (shaken \cup {p}) : answer[q] # answer[p]

\* A prompt of a chat that has a conversation is sent into that one, whatever
\* other chats, /stop and a lost browser did to the tabs since; again but for a
\* prompt that was under way when the browser was lost.
SentWhereBound ==
  [][\A k \in Conversations, p \in Prompts :
       /\ thread'[k] = Append(thread[k], p)
       /\ binding[ChatOf[p]].url \in Conversations /\ p \notin shaken
       => k = binding[ChatOf[p]].url]_browserVars

\* A prompt with files is sent with its own, all of them, and no others: what a
\* failed send or /upload left in the composer is not sent along, and no other chat
\* or command clears the composer between the upload and the Enter.  Left aside is
\* a prompt that the loss of the browser met: its files may be gone, or in another
\* tab.
SentWithItsFiles ==
  \A k \in Conversations : \A p \in (WithFiles \cap Range(thread[k])) \ shaken : files[p] = {p}

\* In a dedicated Chrome a chat that shares its tab with no other is sent files of
\* the conversation of its answer, whatever others do before the download, which
\* takes the lock again and may go by what the tab shows (download_generated_file).
\* Not so in the one tab of the other modes, when a chat whose prompt failed was
\* bound to the tab that was selected, nor once a command that could not save its
\* binding has worked in that tab.
FileIsOfItsConversation ==
  [][\A c \in BrowserChats, p \in Prompts \ shaken :
       /\ job[c] = p /\ fetched'[p] # fetched[p]
       /\ mode = "dedicated"
       /\ \A d \in BrowserChats \ {c} : binding[d].tab # mine[c].tab
       /\ mine[c].tab \notin astray
       => \E k \in Conversations :
            {answer[p], fetched'[p]} \subseteq Range(thread[k])]_browserVars

\* In the user's Chrome their own tab is never navigated, typed into or filled
\* ("never a user's tab", chat.py:2663), whichever tab a binding names, with two
\* exceptions the code makes: /scheduled types into a tab of theirs that shows the
\* scheduled tasks (_scheduled_page looks at no mark), and a prompt that was at work
\* when the DevTools child was restarted goes on by the number of its tab, which
\* may now be that of theirs.
UserTabIsLeft ==
  [][\A t \in users :
       \/ \E c \in AtWork : tab[c] = t /\ job[c] \in shaken
       \/ /\ place'[t] = place[t] /\ chips'[t] = chips[t]
          /\ text'[t] = text[t] \/ place[t] = "scheduled"]_browserVars

\* Every prompt ends, and gives the browser up: a chat that is at work is idle
\* again some time later.
PromptsEnd == \A c \in BrowserChats : []<>(at[c] = "idle")
=============================================================================
