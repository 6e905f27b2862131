-------------------------- MODULE RequestLifecycle --------------------------
(***************************************************************************)
(* What the break-glass broker promises about one approval request,        *)
(* whatever its Lambda invocations, Slack, GitHub and DynamoDB do: it is   *)
(* filed once, it takes at most one decision, the decision that is stored  *)
(* is the one that was claimed, and at most one audit comment is posted    *)
(* for it, which states that decision.                                     *)
(***************************************************************************)
EXTENDS Naturals

CONSTANTS Requests,     \* approval requests, one per notify invocation
          Decisions,    \* what one approver may decide
          NoDecision,   \* not a decision
          Verdict(_)    \* the final phase a decision leads to

VARIABLES phase,        \* where each request is in its life
          decision,     \* the decision claimed for it, or NoDecision
          audits        \* its audit comments: how many, and what they state

vars == <<phase, decision, audits>>

Init ==
  /\ phase = [r \in Requests |-> "absent"]
  /\ decision = [r \in Requests |-> NoDecision]
  /\ audits = [r \in Requests |-> [n |-> 0, of |-> NoDecision]]

Move(r, from, to) ==
  /\ phase[r] = from
  /\ phase' = [phase EXCEPT ![r] = to]

\* notify stores a request, and takes it back when Slack refused the message.
File(r) == Move(r, "absent", "pending") /\ UNCHANGED <<decision, audits>>
Withdraw(r) == Move(r, "pending", "withdrawn") /\ UNCHANGED <<decision, audits>>

\* The approval window closes on a request nobody decided.
Expire(r) == Move(r, "pending", "expired") /\ UNCHANGED <<decision, audits>>

\* One approver's click takes the request; only that decision becomes final.
Claim(r, d) ==
  /\ Move(r, "pending", "processing")
  /\ decision' = [decision EXCEPT ![r] = d]
  /\ UNCHANGED audits

Finalize(r) ==
  /\ Move(r, "processing", Verdict(decision[r]))
  /\ UNCHANGED <<decision, audits>>

Audit(r) ==
  /\ phase[r] \in {"approved", "denied"}
  /\ audits[r].n = 0
  /\ audits' = [audits EXCEPT ![r] = [n |-> 1, of |-> decision[r]]]
  /\ UNCHANGED <<phase, decision>>

Next ==
  \E r \in Requests :
    \/ File(r) \/ Withdraw(r) \/ Expire(r) \/ Finalize(r) \/ Audit(r)
    \/ \E d \in Decisions : Claim(r, d)

Spec == Init /\ [][Next]_vars

=============================================================================
