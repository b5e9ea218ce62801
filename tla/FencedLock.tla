----------------------------- MODULE FencedLock -----------------------------
(***************************************************************************)
(* What a durable thread lease promises its users, with no table, no       *)
(* clock and no heartbeats: at most one call is entitled to write at a     *)
(* time; every grant has an epoch larger than all before it; an            *)
(* entitlement may lapse at any moment and may come back only while nobody *)
(* was granted the lock since.  RuntimeLease is shown to implement it.     *)
(***************************************************************************)
EXTENDS Naturals

CONSTANTS Calls, NoCall

VARIABLES
  entitled,  \* the call that may write, or NoCall
  epoch,     \* the number of grants so far
  epochOf    \* the epoch a call was granted, 0 before

vars == <<entitled, epoch, epochOf>>

Init ==
  /\ entitled = NoCall
  /\ epoch = 0
  /\ epochOf = [c \in Calls |-> 0]

\* A grant may come too late to entitle anyone.
Grant(c) ==
  /\ entitled = NoCall /\ epochOf[c] = 0
  /\ epoch' = epoch + 1
  /\ epochOf' = [epochOf EXCEPT ![c] = epoch']
  /\ entitled' \in {c, NoCall}

Lapse ==
  /\ entitled # NoCall /\ entitled' = NoCall
  /\ UNCHANGED <<epoch, epochOf>>

Renew(c) ==
  /\ entitled = NoCall /\ epoch > 0 /\ epochOf[c] = epoch
  /\ entitled' = c
  /\ UNCHANGED <<epoch, epochOf>>

Next == (\E c \in Calls : Grant(c) \/ Renew(c)) \/ Lapse

Spec == Init /\ [][Next]_vars
=============================================================================
