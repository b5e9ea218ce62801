--------------------------- MODULE MCChatScheduler ---------------------------
(* Two chats and two workers, with messages of every kind a callback treats in  *)
(* a way of its own: a redirect does all a control command does, and more.      *)
EXTENDS ChatScheduler, TLC

CONSTANTS c1, c2, p1, p2, r1, i1, w1, w2

\* p1, p2 prompts and r1 a redirect of c1, i1 an ignored message of c2.
MCChats  == {ChatOf[m] : m \in Messages}
MCChatOf == [m \in Messages |-> IF m = i1 THEN c2 ELSE c1]
MCKind   == [m \in Messages |->
  CASE m \in {p1, p2} -> "prompt"
    [] m = r1 -> "redirect"
    [] m = i1 -> "ignored"]

WorkerSymmetry == Permutations(Workers)
=============================================================================
