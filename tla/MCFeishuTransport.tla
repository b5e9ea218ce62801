-------------------------- MODULE MCFeishuTransport --------------------------
(* One transport, started once. *)
EXTENDS FeishuTransport
=============================================================================
