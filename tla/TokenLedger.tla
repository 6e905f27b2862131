---------------------------- MODULE TokenLedger -----------------------------
(***************************************************************************)
(* A GitHub token files or reads at most once: the broker verifies it      *)
(* against its own clock, then spends it with a conditional put of a       *)
(* replay record, which DynamoDB deletes some time after the record's ttl. *)
(*                                                                         *)
(* `time' is DynamoDB's clock.  The one an invocation reads may be off by  *)
(* MaxLag either way, and an invocation may pause between the verification *)
(* and the put, though never longer than the Lambda timeout lets it live.  *)
(***************************************************************************)
EXTENDS Integers

CONSTANTS Tokens,       \* tokens, by jti
          Invocations,  \* invocations that present a token
          Issued,       \* Issued[t]: the token's iat
          Expires,      \* Expires[t]: the token's exp
          MaxAge,       \* MAX_TOKEN_AGE_SECONDS
          Skew,         \* CLOCK_SKEW_SECONDS
          Grace,        \* TOKEN_RECORD_GRACE_SECONDS
          MaxLag,       \* how far an invocation's clock may be off
          MaxPause,     \* the Lambda timeout
          LastTime       \* bound on the clock

ASSUME TokenAssumption ==
  /\ Issued \in [Tokens -> Nat] /\ Expires \in [Tokens -> Nat]
  /\ MaxAge \in Nat /\ Skew \in Nat /\ Grace \in Nat
  /\ MaxLag \in Nat /\ MaxPause \in Nat /\ LastTime \in Nat

\* What the record's grace period is for: 3600 s against a 20 s timeout.
ASSUME GraceAssumption == MaxLag + MaxPause <= Grace

VARIABLES time,     \* DynamoDB's clock
          records,  \* tokens whose replay record is in the table
          state,    \* of each invocation
          token,    \* the token each invocation presents
          since     \* when each invocation read its clock

ledgerVars == <<time, records, state, token, since>>

LedgerInit ==
  /\ time = 0 /\ records = {}
  /\ state = [i \in Invocations |-> "idle"]
  /\ token \in [Invocations -> Tokens]
  /\ since = [i \in Invocations |-> 0]

\* The verifier's clock checks.
Valid(t, clock) ==
  /\ Expires[t] > clock
  /\ Issued[t] <= clock + Skew
  /\ clock - Issued[t] <= MaxAge

Verify(i) ==
  /\ state[i] = "idle"
  /\ \E clock \in time - MaxLag .. time + MaxLag :
       state' = [state EXCEPT ![i] = IF Valid(token[i], clock) THEN "verified" ELSE "rejected"]
  /\ since' = [since EXCEPT ![i] = time]
  /\ UNCHANGED <<time, records, token>>

Alive(i) == time <= since[i] + MaxPause

\* The conditional put: it fails when the record exists.
Spend(i) ==
  /\ state[i] = "verified" /\ Alive(i)
  /\ state' = [state EXCEPT ![i] = IF token[i] \in records THEN "replayed" ELSE "accepted"]
  /\ records' = records \cup {token[i]}
  /\ UNCHANGED <<time, token, since>>

DeletableAtExpiry(t) == time > Expires[t]

\* DynamoDB deletes an item only after its ttl, lazily.
Deletable(t) == time > Expires[t] + Grace

Delete(t) ==
  /\ t \in records /\ Deletable(t)
  /\ records' = records \ {t}
  /\ UNCHANGED <<time, state, token, since>>

Pass ==
  /\ time < LastTime /\ time' = time + 1
  /\ UNCHANGED <<records, state, token, since>>

LedgerNext ==
  \/ \E i \in Invocations : Verify(i) \/ Spend(i)
  \/ \E t \in Tokens : Delete(t)
  \/ Pass

LedgerSpec == LedgerInit /\ [][LedgerNext]_ledgerVars

-----------------------------------------------------------------------------
LedgerTypeOK ==
  /\ time \in Nat /\ records \in SUBSET Tokens
  /\ state \in [Invocations -> {"idle", "verified", "rejected", "accepted", "replayed"}]
  /\ token \in [Invocations -> Tokens] /\ since \in [Invocations -> Nat]

\* The promise of the replay record: of all the invocations that ever present a
\* token, one is accepted, however long after the record was deleted they come.
AcceptedOnce ==
  \A i, j \in Invocations :
    state[i] = "accepted" /\ state[j] = "accepted" /\ token[i] = token[j] => i = j

\* Why it holds: an accepted token's record stays until no clock within MaxLag
\* can verify the token any more, nor any invocation that verified it be alive.
Inv ==
  /\ LedgerTypeOK /\ AcceptedOnce
  /\ \A i \in Invocations :
       /\ state[i] = "verified" => since[i] < Expires[token[i]] + MaxLag
       /\ state[i] = "accepted" => token[i] \in records \/ time > Expires[token[i]] + Grace

=============================================================================
