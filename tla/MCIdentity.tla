------------------------------ MODULE MCIdentity ----------------------------
(***************************************************************************)
(* One run for what decides whether an identity is believed: the cache of  *)
(* signing keys, the ledger of spent tokens, and the commands that judge   *)
(* the roles tokens are exchanged for.  Each behaviour moves one of them,  *)
(* the others keep one initial state: their state spaces add up.           *)
(***************************************************************************)
EXTENDS MCJwksCache, TokenLedger, MCAwsVerify

CONSTANTS t1, t2, i1, i2, i3

VARIABLE machine   \* the machine that moves

IssuedAt == [t \in Tokens |-> IF t = t1 THEN 1 ELSE 2]
ExpiresAt == [t \in Tokens |-> IF t = t1 THEN 3 ELSE 5]

FirstRun == [command |-> "verify", managed |-> {}, environment |-> TRUE, next |-> 1, exit |-> Running]

IdentityInit ==
  /\ machine \in {"keys", "ledger", "verify"}
  /\ Init
  /\ machine # "keys" => call = [c \in Callers |-> [state |-> "idle", kid |-> old, at |-> 0]]
  /\ LedgerInit
  /\ machine # "ledger" => token = [i \in Invocations |-> t1]
  /\ AwsVerifyInit
  /\ IF machine = "verify" THEN run.environment \/ run.managed = {}
     ELSE account = <<Deployed>> /\ run = FirstRun

IdentityNext ==
  \/ machine = "keys" /\ Next /\ UNCHANGED <<machine, ledgerVars, awsVerifyVars>>
  \/ machine = "ledger" /\ LedgerNext /\ UNCHANGED <<machine, vars, awsVerifyVars>>
  \/ machine = "verify" /\ AwsVerifyNext /\ UNCHANGED <<machine, vars, ledgerVars>>

IdentitySpec ==
  IdentityInit /\ [][IdentityNext]_<<machine, vars, ledgerVars, awsVerifyVars>>

=============================================================================
