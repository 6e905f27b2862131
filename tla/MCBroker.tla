------------------------------ MODULE MCBroker ------------------------------
(***************************************************************************)
(* Small instances of Broker for TLC.                                      *)
(***************************************************************************)
EXTENDS Broker, TLC

CONSTANTS r1, r2, c1, c2, c3, p1, p2, w1, w2, t1, t2, t3, n1, n2, A, B,
          alice, bob

\* Every token is of one run of one repository; alice and bob are its approvers.
OneRun == [t \in Tokens |-> n1]
OneRepo == [n \in Runs |-> A]
BothApprove == [n \in Repos |-> {alice, bob}]
AliceApproves == [n \in Repos |-> {alice}]

\* The first token is of a run of repository A, the others of a run of B; the
\* two repositories share the Slack channel and have different approvers.
TwoRuns == [t \in Tokens |-> IF t = t1 THEN n1 ELSE n2]
TwoRepos == [n \in Runs |-> IF n = n1 THEN A ELSE B]
OneEach == [n \in Repos |-> IF n = A THEN {alice} ELSE {bob}]

\* Nothing tells requests apart before they are filed, nor the tokens of one run.
Symmetry == Permutations(Requests) \cup Permutations(Tokens \ {t1})

=============================================================================
