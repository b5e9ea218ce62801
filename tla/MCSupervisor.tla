----------------------------- MODULE MCSupervisor -----------------------------
(* Two runtimes, so that one can follow the other, and two pairings.         *)
EXTENDS Supervisor

MCRuntimes == {1, 2}
MCPairings == {3, 4}
MCSlow     == {1}
=============================================================================
