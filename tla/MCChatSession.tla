---------------------------- MODULE MCChatSession ----------------------------
(***************************************************************************)
(* Two chats, two native threads, two workspaces; the small model offers   *)
(* no effort, the large one does.                                          *)
(***************************************************************************)
EXTENDS ChatSession, TLC

CONSTANTS c1, c2, t1, t2, wa, wb, small, large, high

MCSupported ==
  [kind \in Kinds |-> [m \in Models |-> IF m = large THEN {high} ELSE {}]]
Symmetry == Permutations(Chats) \cup Permutations(Threads) \cup Permutations(Workspaces)
=============================================================================
