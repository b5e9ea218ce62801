------------------------------ MODULE MCPromptRun ------------------------------
(* One file and two prompts of a chat, or one prompt whose card is followed. *)
EXTENDS PromptRun, TLC

CONSTANTS a1, p1, p2, p3

PromptSymmetry == Permutations({p1, p2})
MCKeys  == {<<m, p>> : m \in Messages, p \in Phases}
MCEnds  == [p \in Prompts |-> {"completed"} \cup (IF p = p3 THEN {"timeout"} ELSE {})]
MCMails == {{a1, p1, p2}, {p3}}
=============================================================================
