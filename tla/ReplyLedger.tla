----------------------------- MODULE ReplyLedger -----------------------------
(***************************************************************************)
(* FeishuReplyClient: every outbound reply has a key (message, phase,      *)
(* chunk), a durable row in feishu_replies and a request UUID computed     *)
(* from the key.  A reply is reserved, delivered with at most one retry,   *)
(* and recorded; each of the three can fail, and the process can end       *)
(* between any two of them.  Text, image, file, video and card replies     *)
(* share this life.                                                        *)
(*                                                                         *)
(* The Feishu API is external: a call is carried out or not, its answer    *)
(* may be lost, and a UUID it has seen, in whatever call, posts nothing    *)
(* new (it remembers one for an hour; nothing here takes that long).       *)
(***************************************************************************)
EXTENDS Naturals, FiniteSets

CONSTANTS
  Keys,        \* <<message, phase, chunk>>
  MaxFaults    \* bound on calls (SQLite, Feishu, file system) that fail

ASSUME LedgerAssumption == MaxFaults \in Nat

VARIABLES
  ledger,   \* feishu_replies.state; "none" when there is no row
  posted,   \* messages shown to the user for a key, by their request UUID
  sending,  \* where _send stands for a key
  faults    \* calls that failed so far

replyVars == <<ledger, posted, sending, faults>>

SendSteps == {"none", "first", "second", "answered", "refused",
              "ok", "nothing", "error"}
Returned  == {"ok", "nothing", "error"}

ReplyTypeOK ==
  /\ ledger \in [Keys -> {"none", "pending", "sent", "failed"}]
  /\ posted \in [Keys -> SUBSET Keys]
  /\ sending \in [Keys -> SendSteps]
  /\ faults \in 0..MaxFaults

ReplyInit ==
  /\ ledger = [k \in Keys |-> "none"]
  /\ posted = [k \in Keys |-> {}]
  /\ sending = [k \in Keys |-> "none"]
  /\ faults = 0

Fault   == faults < MaxFaults /\ faults' = faults + 1
NoFault == UNCHANGED faults

At(k, step) == sending' = [sending EXCEPT ![k] = step]
Row(k, s)   == ledger' = [ledger EXCEPT ![k] = s]

\* reserve_reply: insert the row, or take over one that failed.  A sent row is
\* answered with its recorded id, a pending one with nothing.
Reserve(k) ==
  /\ sending[k] = "none"
  /\ \/ /\ ledger[k] \in {"none", "failed"}
        /\ Row(k, "pending") /\ At(k, "first") /\ NoFault
     \/ /\ ledger[k] \in {"sent", "pending"}
        /\ At(k, IF ledger[k] = "sent" THEN "ok" ELSE "nothing")
        /\ NoFault /\ UNCHANGED ledger
     \/ Fault /\ At(k, "error") /\ UNCHANGED ledger
  /\ UNCHANGED posted

\* deterministic_reply_uuid: a digest of the key, told apart like the key itself.
Uuid_PerCall(k) == <<k, Cardinality(posted[k])>>   \* mutant: a UUID drawn per call
Uuid(k)         == k

\* The API carries the call out, unless it knows the UUID.
Post(k) ==
  posted' = IF \E j \in Keys : Uuid(k) \in posted[j] THEN posted
            ELSE [posted EXCEPT ![k] = @ \cup {Uuid(k)}]

\* _deliver: FEISHU_API_TIMEOUT and FEISHU_API_UNKNOWN are tried once more,
\* whether or not the call was carried out; any other error is final.
Deliver(k) ==
  /\ sending[k] \in {"first", "second"}
  /\ \/ Post(k) /\ At(k, "answered") /\ NoFault
     \/ /\ Fault
        /\ Post(k) \/ UNCHANGED posted
        /\ At(k, IF sending[k] = "first" THEN "second" ELSE "refused")
     \/ Fault /\ At(k, "refused") /\ UNCHANGED posted
  /\ UNCHANGED ledger

\* set_reply_response; an exception of its own counts as a failed reply.
Record(k) ==
  /\ sending[k] = "answered"
  /\ \/ Row(k, "sent") /\ At(k, "ok") /\ NoFault
     \/ Fault /\ At(k, "refused") /\ UNCHANGED ledger
  /\ UNCHANGED posted

\* mark_reply_failed, then the exception goes on to the caller.
MarkFailed_Sent(k) == Row(k, "sent")   \* mutant: the row is closed as answered
MarkFailed(k)      == Row(k, "failed")

Refuse(k) ==
  /\ sending[k] = "refused"
  /\ At(k, "error")
  /\ \/ MarkFailed(k) /\ NoFault
     \/ Fault /\ UNCHANGED ledger
  /\ UNCHANGED posted

SendStep(k) == Reserve(k) \/ Deliver(k) \/ Record(k) \/ Refuse(k)

\* The process ends: calls under way are gone.
ForgetSends == sending' = [k \in Keys |-> "none"]

\* recover_on_startup: nobody is sending what is still pending.
FailPending ==
  ledger' = [k \in Keys |-> IF ledger[k] = "pending" THEN "failed" ELSE ledger[k]]
=============================================================================
