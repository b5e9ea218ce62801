---------------------------- MODULE MCApprovals ----------------------------
(* A request ra of turn t with clicks that accept and decline it; or        *)
(* questions of that turn with texts that come twice.                       *)
EXTENDS UserInput, TLC

CONSTANTS ra, t, ka, kd, q1, q2, m1, m2

MCTurnOf  == [r \in Requests |-> t]
MCIdOf    == [r \in Requests |-> 0]
MCClickOn == [k \in Clicks |-> ra]
MCChoice  == [k \in Clicks |-> IF k = kd THEN "decline" ELSE "accept"]

InputSymmetry == Permutations(Questions) \cup Permutations(Texts)
=============================================================================
