----------------------------- MODULE MCCodexTurns -----------------------------
(* One turn, a stop that may come twice too late, a request id sent twice.   *)
EXTENDS CodexTurns

CONSTANTS t1, s1, x1, x2

MCCalls       == {"start", "interrupt", "stop"}
MCStarts      == {"start"}
MCStartOf     == [t \in Clients |-> "start"]
MCInterruptOf == [t \in Clients |-> "interrupt"]
MCStopOf      == [s \in Stops |-> "stop"]
MCAskOn       == [x \in Asks |-> t1]
MCIdOf        == [x \in Asks |-> 0]
=============================================================================
