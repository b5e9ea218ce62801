---------------------------- MODULE MCChatBrowser ----------------------------
(* Two chats on one browser: two prompts of the first, one of the second. *)
EXTENDS ChatBrowser

CONSTANTS c1, c2, p1, p2, q1, k1, k2

MCChatOf == [p \in Prompts |-> IF p = q1 THEN c2 ELSE c1]
=============================================================================
