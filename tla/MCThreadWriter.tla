--------------------------- MODULE MCThreadWriter ---------------------------
(* Messages a1, a2 and a settings change s1 of one process, a message b1 of  *)
(* another; a configuration takes some of them.                              *)
EXTENDS ThreadWriter

CONSTANTS a1, a2, s1, b1, ia, ib

MCInstanceOf == [c \in Calls |-> IF c = b1 THEN ib ELSE ia]
MCIsSend == [c \in Calls |-> c # s1]
MCInstances == {InstanceOf[c] : c \in Calls}
=============================================================================
