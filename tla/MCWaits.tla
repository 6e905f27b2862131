------------------------------- MODULE MCWaits -------------------------------
(***************************************************************************)
(* The two polls of a pipeline, small and under fair scheduling: either a  *)
(* workflow run that waits for approvers (WorkflowRun), or a deploy job    *)
(* that waits for the registry's scan (EcrPoll).  Neither sees the other,  *)
(* so a behaviour is one of the first or one of the second.                *)
(***************************************************************************)
EXTENDS EcrPoll

CONSTANTS Nothing, fn, testFn, role, testRole, f1, f2

VARIABLES machine,    \* which of the two runs
          setup, attempt, phase, jobScans, gate, sound, review, src, bg, uploaded,
          roles, broker, final, faults

runVars == <<setup, attempt, phase, jobScans, gate, sound, review, src, bg, uploaded,
             roles, broker, final, faults>>

\* Both brokers are configured; break-glass is delegated, or inside the gate's job.
Configured(variant) ==
  [mode |-> "enforce", variant |-> variant, transport |-> "lambda", enabled |-> TRUE,
   bootstrap |-> FALSE, synthetic |-> FALSE,
   function |-> [production |-> [name |-> fn, arn |-> FALSE],
                 synthetic |-> [name |-> testFn, arn |-> FALSE]],
   role |-> [production |-> role, synthetic |-> testRole]]

CI == INSTANCE WorkflowRun WITH
  Setups <- {Configured(v) : v \in {"scan", "legacy"}},
  Blocks <- {{}, {"sast_new"}},
  Markings <- {{"sast_new", "dependency_with_fix"}},
  ScanResults <- {"success"},
  Timeout <- 2, MinWindow <- 1, MaxWindow <- 3, Interval <- 1,
  MaxAttempts <- 2, MaxFaults <- 2,
  scans <- jobScans

WaitsInit ==
  /\ machine \in {"run", "scan"} /\ Init /\ CI!Init
  /\ machine = "scan" => setup = Configured("scan")

WaitsNext ==
  \/ machine = "run" /\ CI!Next /\ UNCHANGED <<machine, vars>>
  \/ machine = "scan" /\ Next /\ UNCHANGED <<machine, runVars>>

\* The fairness of WorkflowRun's FairSpec and of EcrPoll's Spec, each while it runs.
WaitsSpec ==
  /\ WaitsInit /\ [][WaitsNext]_<<machine, vars, runVars>>
  /\ WF_vars(machine = "scan" /\ Poll)
  /\ WF_runVars(machine = "run" /\ CI!Progress)
  /\ WF_runVars(machine = "run" /\ CI!Tick)

\* A workflow run ends whatever approvers do or do not do (break-glass-poll.mjs).
RunsEnd == machine = "run" => CI!RunsEnd

\* The scan's poll ends whatever the services answer (poll-ecr-scan.mjs).
ScanPollEnds == machine = "scan" => PollEnds

=============================================================================
