--------------------------- MODULE BreakGlassStore --------------------------
(***************************************************************************)
(* The request items of the broker's DynamoDB table and the conditional    *)
(* writes on them (broker/lambda/dynamodb-store.mjs).  Pure operators: the *)
(* module Broker applies them, one table access per step.                  *)
(*                                                                         *)
(* Beside a definition stand variants of it with one mistake a maintainer  *)
(* could make; nothing uses them, they say what the properties of Broker   *)
(* are sensitive to.                                                       *)
(***************************************************************************)
EXTENDS Naturals

CONSTANTS Users,          \* Slack users who can see the approval channel
          Nothing         \* "no value"

Verdicts == {"approved", "denied"}
Decisions == [by : Users, verdict : Verdicts]
NoDecision == [by |-> Nothing, verdict |-> "none"]
Verdict(d) == d.verdict

Statuses == {"absent", "pending", "processing", "approved", "denied", "expired"}

\* The JSON document that readers parse.  `decision' is the claim and, once
\* the request is final, the approver record the claim becomes.
Docs == [status : Statuses, expiresAt : Nat, decision : Decisions \cup {NoDecision}]
NoDoc == [status |-> "absent", expiresAt |-> 0, decision |-> NoDecision]

\* An item: the attributes that conditions test, beside the document.
Items == [status : Statuses, claimUser : Users \cup {Nothing}, expiresAt : Nat,
          slackRef : BOOLEAN, sideEffects : BOOLEAN, doc : Docs]
NoItem == [status |-> "absent", claimUser |-> Nothing, expiresAt |-> 0,
           slackRef |-> FALSE, sideEffects |-> FALSE, doc |-> NoDoc]

-----------------------------------------------------------------------------
(* ConditionExpressions.                                                   *)

\* attribute_not_exists on the token's replay record.
ConsumeAnyway(holder) == TRUE                              \* variant: a plain put
CanConsume(holder) == holder = Nothing

ClaimAnyStatus(item, at) == item.expiresAt > at            \* variant: expiry only
CanClaim(item, at) == item.status = "pending" /\ item.expiresAt > at

ExpireStrictly(item, at) == item.status = "pending" /\ item.expiresAt < at
                                                           \* variant: off by one
CanExpire(item, at) == item.status = "pending" /\ item.expiresAt <= at

CanFinalize(item, user) == item.status = "processing" /\ item.claimUser = user

DeleteAnyStatus(item) == item.status # "absent"            \* variant: unconditional
CanDelete(item) == item.status = "pending"

DeliverEveryTime(item) == item.status \in Verdicts         \* variant: no one-shot mark
DeliverApprovalsOnly(item) == ~item.sideEffects /\ item.status = "approved"
                                                           \* variant: denials dropped
CanDeliver(item) == ~item.sideEffects /\ item.status \in Verdicts

-----------------------------------------------------------------------------
(* The items the writes leave.                                             *)

\* putPending: attributes and document say the same.
PendingItem(expiry) ==
  [NoItem EXCEPT !.status = "pending", !.expiresAt = expiry,
     !.doc = [status |-> "pending", expiresAt |-> expiry, decision |-> NoDecision]]

\* A writer stores the document it read earlier, as it changed it: claimDecision
\* and finalizeDecision mutate their copy before the write.
ClaimedDoc(doc, d) == [doc EXCEPT !.status = "processing", !.decision = d]

FinalDocUnsigned(doc) ==                                   \* variant: approver dropped
  [doc EXCEPT !.status = doc.decision.verdict, !.decision = NoDecision]
FinalDoc(doc) == [doc EXCEPT !.status = doc.decision.verdict]

ClaimedByNobody(item, doc) ==                              \* variant: claimUserId unset
  [item EXCEPT !.status = doc.status, !.doc = doc]
Claimed(item, doc) ==
  [item EXCEPT !.status = doc.status, !.claimUser = doc.decision.by, !.doc = doc]

Finalized(item, doc) ==
  [item EXCEPT !.status = doc.status, !.claimUser = Nothing, !.doc = doc]

ExpiredAttributeOnly(item, doc) == [item EXCEPT !.status = "expired"]
                                                           \* variant: document stale
Expired(item, doc) ==
  [item EXCEPT !.status = "expired", !.doc = [doc EXCEPT !.status = "expired"]]

\* setSlackRef and claimSideEffects set attributes outside the document.
Referenced(item) == [item EXCEPT !.slackRef = TRUE]
Delivered(item) == [item EXCEPT !.sideEffects = TRUE]

=============================================================================
