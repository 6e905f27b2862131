---------------------------- MODULE WorkflowRun -----------------------------
(***************************************************************************)
(* One CI workflow run with its re-runs: the scanning jobs, the source     *)
(* gate job, the break-glass review inside that job or in the delegated    *)
(* job that alone holds credentials, and the caller's final gate.          *)
(*                                                                         *)
(* The broker is the abstract one, RequestLifecycle, which Broker has been *)
(* proved to implement; run attempt a files request a, if any.  Approvers  *)
(* decide whenever they like.                                              *)
(*                                                                         *)
(* Time is counted in poll intervals' fractions and kept as what is left   *)
(* of every delay, so that it needs no bound: Tick shortens all of them.   *)
(* Faults, at most MaxFaults: a step fails, a call's answer is lost, a job *)
(* is cancelled (by a person, by timeout-minutes, or with its runner).     *)
(***************************************************************************)
EXTENDS GatePolicy, FiniteSets

CONSTANTS Setups,         \* how callers configure the workflows
          Blocks,         \* BLOCK findings a run's reports may hold, as sets of rules
          Markings,       \* rules a toolkit's gate may mark as eligible
          ScanResults,    \* how a scanning job may end
          Timeout,        \* timeout_seconds, as the poll uses it
          MinWindow, MaxWindow,  \* the broker's clamp of it
          Interval,       \* the poll's sleep
          MaxAttempts,    \* bound on run attempts
          MaxFaults       \* bound on faults

ASSUME WorkflowRunAssumption ==
  /\ Blocks \subseteq SUBSET (Rules \ {"report_integrity"})
  /\ Markings \subseteq SUBSET Rules
  /\ Timeout \in Nat \ {0} /\ Interval \in Nat \ {0}
  /\ MinWindow \in Nat \ {0} /\ MaxWindow \in Nat /\ MinWindow <= MaxWindow
  /\ MaxAttempts \in Nat \ {0} /\ MaxFaults \in Nat

\* The scanning jobs have no condition and need no other job, so none is skipped.
ASSUME ScanResultsAssumption == ScanResults \subseteq {"success", "failure", "cancelled"}

\* The variant is a constant of each workflow file; a transport that is neither is
\* refused where it is first read.
ASSUME SetupsAssumption ==
  \A s \in Setups :
    /\ s.variant \in {"scan", "legacy"} /\ s.transport \in {"lambda", "http"}
    /\ s.enabled \in BOOLEAN /\ s.bootstrap \in BOOLEAN /\ s.synthetic \in BOOLEAN

\* An unset value is none of the words the workflows write.
ASSUME NothingAssumption ==
  Nothing \notin {"success", "failure", "cancelled", "PASS", "BLOCK", "enforce", "in-job",
                 "http", "production", "synthetic",
                 "approved", "denied", "expired", "timeout", "error", "refused"}

Attempts == 1..MaxAttempts

VARIABLES
  setup,     \* the workflow inputs of this run
  attempt,   \* the current run attempt
  phase,     \* the job that runs
  scans,     \* results of the scanning jobs
  gate,      \* the source gate job's security-gate.json
  sound,     \* no step of the source gate job has failed the job
  review,    \* the break-glass steps, in whichever job runs them
  src,       \* outputs and result of the source workflow
  bg,        \* outputs and result of the delegated break-glass job
  uploaded,  \* gates in this run's security-gate-results artifacts
  roles,     \* invoker roles assumed so far: for which gate and which function
  broker,    \* the broker's request of each attempt
  final,     \* what the final gate said
  faults     \* faults so far

vars == <<setup, attempt, phase, scans, gate, sound, review, src, bg,
          uploaded, roles, broker, final, faults>>

-----------------------------------------------------------------------------
NoSource == [result |-> Nothing, verdict |-> Nothing, mode |-> Nothing,
             trusted |-> FALSE, eligible |-> FALSE, delegated |-> FALSE,
             controls |-> [c \in Controls |-> Nothing], digest |-> Nothing]

Idle == [pc |-> "off", place |-> "in-job", gate |-> Nothing, route |-> Nothing,
         preflight |-> "none", requested |-> "skipped", polled |-> "skipped",
         decision |-> Nothing, cancelled |-> FALSE, left |-> 0, nap |-> 0]

Absent == [status |-> "absent", decision |-> Nothing, gate |-> Nothing,
           route |-> Nothing, left |-> 0]

Clamp(t) == IF t < MinWindow THEN MinWindow ELSE IF t > MaxWindow THEN MaxWindow ELSE t

Init ==
  /\ setup \in Setups
  /\ attempt = 1 /\ phase = "scan"
  /\ scans = [c \in Controls |-> "skipped"]
  /\ gate = Nothing /\ sound = TRUE
  /\ review = Idle /\ src = NoSource /\ bg = NoReview
  /\ uploaded = {} /\ roles = {}
  /\ broker = [a \in Attempts |-> Absent]
  /\ final = Blocked /\ faults = 0

Fault == faults < MaxFaults /\ faults' = faults + 1
NoFault == UNCHANGED faults

-----------------------------------------------------------------------------
(* The scanning jobs and the source gate's evaluation.                     *)

Scan ==
  /\ phase = "scan"
  /\ scans' \in [Controls -> ScanResults]
  /\ phase' = "evaluate"
  /\ UNCHANGED <<setup, attempt, gate, sound, review, src, bg, uploaded, roles,
                 broker, final, faults>>

\* Steps before the evaluation refuse a bootstrap that enforces, and a synthetic
\* run whose in-job broker reads as production's.
Refused ==
  \/ setup.bootstrap /\ setup.mode # "log-only"
  \/ /\ setup.synthetic /\ setup.variant = "legacy" /\ setup.transport = "lambda"
     /\ ~IsolatedByText(setup)

\* A refusal, a step before the evaluation that fails, or an evaluation that dies
\* (continue-on-error keeps the job alive): no gate is written.
EvaluateNothing ==
  /\ phase = "evaluate"
  /\ \/ Refused /\ sound' = FALSE /\ NoFault
     \/ ~Refused /\ sound' \in BOOLEAN /\ Fault
  /\ gate' = Nothing /\ phase' = "enforce"
  /\ UNCHANGED <<setup, attempt, scans, review, src, bg, uploaded, roles, broker, final>>

\* Every report could be interpreted, or the first that could not names its control.
Evaluate ==
  /\ phase = "evaluate" /\ ~Refused
  /\ \/ \E b \in Blocks, m \in Markings : gate' = Evaluation(attempt, b, m, setup)
     \/ \E c \in Controls \cup {"source-gate"} : gate' = Distrust(attempt, c, setup)
  /\ IF InJob(setup) /\ Verdict(gate') = "BLOCK"
     THEN /\ review' = [Idle EXCEPT !.pc = "preflight", !.gate = gate']
          /\ phase' = "review"
     ELSE phase' = "enforce" /\ UNCHANGED review
  /\ UNCHANGED <<setup, attempt, scans, sound, src, bg, uploaded, roles, broker,
                 final, faults>>

\* The artifact upload always runs; when it fails, so does the job.
Upload(ok) ==
  /\ uploaded' = IF ok /\ gate # Nothing THEN uploaded \cup {gate} ELSE uploaded
  /\ IF gate = Nothing \/ ok THEN NoFault ELSE Fault

\* The verdict is published as BLOCK when no gate can be read.
PublishedVerdict == IF gate = Nothing THEN "BLOCK" ELSE Verdict(gate)

GateJob(ok) ==
  CASE review.cancelled -> "cancelled"
    [] /\ ~review.cancelled /\ sound /\ ok
       /\ setup.mode = "log-only" \/ PublishedVerdict # "BLOCK" \/ review.polled = "success" ->
         "success"
    [] OTHER -> "failure"

AggregateFailures(results) == IF "failure" \in results THEN "failure" ELSE "success"

\* What the caller reads of the source workflow: a failed job makes it a failure,
\* else a cancelled job makes it cancelled.
Aggregate(results) ==
  CASE "failure" \in results -> "failure"
    [] "cancelled" \in results -> "cancelled"
    [] OTHER -> "success"

\* The outputs, published whatever the job's result.
Enforce ==
  /\ phase = "enforce"
  /\ \E ok \in BOOLEAN :
       /\ Upload(ok)
       /\ src' = [result |-> Aggregate({scans[c] : c \in Controls} \cup {GateJob(ok)}),
                  verdict |-> PublishedVerdict,
                  mode |-> setup.mode,
                  trusted |-> gate # Nothing /\ Trusted(gate),
                  eligible |-> gate # Nothing /\ MarkedEligible(gate),
                  delegated |-> /\ DelegateLambda(setup) /\ gate # Nothing
                                /\ Trusted(gate) /\ MarkedEligible(gate),
                  controls |-> [c \in Controls |-> ControlResult(scans[c], gate, c)],
                  digest |-> gate]
  /\ phase' = "delegated" /\ review' = Idle
  /\ UNCHANGED <<setup, attempt, scans, gate, sound, bg, roles, broker, final>>

\* The source gate job is lost with its runner and publishes nothing.
LoseSource ==
  /\ phase \in {"evaluate", "review", "enforce"} /\ review.place = "in-job" /\ Fault
  /\ \E r \in {"failure", "cancelled"} : src' = [NoSource EXCEPT !.result = r]
  /\ phase' = "delegated" /\ review' = Idle
  /\ UNCHANGED <<setup, attempt, scans, gate, sound, bg, uploaded, roles, broker, final>>

-----------------------------------------------------------------------------
(* The break-glass steps, in the source gate job or in the delegated one.  *)

\* The caller starts the delegated job only for a delegated BLOCK.  It downloads
\* an artifact of this run, of any attempt, or nothing.
StartDelegated ==
  /\ phase = "delegated"
  /\ IF src.delegated
     THEN /\ \E e \in uploaded \cup {Nothing} :
               review' = [Idle EXCEPT !.pc = "preflight", !.place = "delegated", !.gate = e]
          /\ phase' = "review" /\ UNCHANGED bg
     ELSE phase' = "final" /\ bg' = NoReview /\ UNCHANGED review
  /\ UNCHANGED <<setup, attempt, scans, gate, sound, src, uploaded, roles, broker,
                 final, faults>>

ReviewStep(pc) == phase = "review" /\ review.pc = pc
OnlyReview == UNCHANGED <<setup, attempt, phase, scans, gate, sound, src, bg,
                          uploaded, roles, broker, final>>

\* A failed step skips every later one but those that always run.
Stop == [review EXCEPT !.pc = "result"]

Examine ==
  /\ ReviewStep("preflight")
  /\ LET code == IF review.place = "delegated"
                 THEN Preflight(review.gate, src.digest, setup)
                 ELSE InJobCheck(review.gate, setup)
     IN review' = IF code = "accepted"
                  THEN [review EXCEPT !.preflight = code, !.route = RouteFor(review, setup),
                          !.pc = IF setup.transport = "http" THEN "request" ELSE "assume"]
                  ELSE [Stop EXCEPT !.preflight = code]
  /\ OnlyReview /\ NoFault

AssumeRole ==
  /\ ReviewStep("assume")
  /\ \/ /\ review' = [review EXCEPT !.pc = "request"]
        /\ roles' = roles \cup {[gate |-> review.gate,
                                 function |-> setup.function[review.route],
                                 role |-> setup.role[review.route]]}
        /\ NoFault
     \/ review' = Stop /\ UNCHANGED roles /\ Fault
  /\ UNCHANGED <<setup, attempt, phase, scans, gate, sound, src, bg, uploaded,
                 broker, final>>

Filed == [status |-> "pending", decision |-> Nothing, gate |-> review.gate,
          route |-> review.route, left |-> Clamp(Timeout)]

\* notify: filed and answered, filed with the answer lost, or not filed.
Request ==
  /\ ReviewStep("request")
  /\ \/ /\ broker' = [broker EXCEPT ![attempt] = Filed]
        /\ review' = [review EXCEPT !.requested = "success", !.pc = "start"]
        /\ NoFault
     \/ /\ broker' = [broker EXCEPT ![attempt] = Filed]
        /\ review' = [Stop EXCEPT !.requested = "failure"] /\ Fault
     \/ review' = [Stop EXCEPT !.requested = "failure"] /\ Fault /\ UNCHANGED broker
  /\ UNCHANGED <<setup, attempt, phase, scans, gate, sound, src, bg, uploaded,
                 roles, final>>

StartPoll ==
  /\ ReviewStep("start")
  /\ review' = [review EXCEPT !.pc = "poll", !.left = Timeout]
  /\ OnlyReview /\ NoFault

\* A bug to check the properties against: every turn of the loop renews the deadline.
RenewDeadline ==
  /\ ReviewStep("poll")
  /\ review' = [review EXCEPT !.pc = "fetch", !.left = Timeout]
  /\ OnlyReview /\ NoFault

\* The loop's condition; past the deadline the script decides `timeout' itself.
CheckDeadline ==
  /\ ReviewStep("poll")
  /\ review' = IF review.left > 0 THEN [review EXCEPT !.pc = "fetch"]
               ELSE [review EXCEPT !.pc = "exit", !.decision = "timeout"]
  /\ OnlyReview /\ NoFault

\* One status call.  The broker expires a request found past its window.
Answered(s) ==
  IF s \in {"approved", "denied", "expired"}
  THEN [review EXCEPT !.pc = "exit", !.decision = s]
  ELSE [review EXCEPT !.pc = "sleep", !.nap = Interval]

ExpirableInAnyStatus(r) == r.status \in {"pending", "processing"} /\ r.left = 0
Expirable(r) == r.status = "pending" /\ r.left = 0

FetchStatus ==
  /\ ReviewStep("fetch")
  /\ \/ /\ ~Expirable(broker[attempt]) /\ UNCHANGED broker
        /\ review' = Answered(broker[attempt].status) /\ NoFault
     \/ /\ Expirable(broker[attempt])
        /\ broker' = [broker EXCEPT ![attempt].status = "expired"]
        /\ review' = Answered("expired") /\ NoFault
     \/ review' = [Stop EXCEPT !.polled = "failure"] /\ UNCHANGED broker /\ Fault
  /\ UNCHANGED <<setup, attempt, phase, scans, gate, sound, src, bg, uploaded,
                 roles, final>>

Wake ==
  /\ ReviewStep("sleep") /\ review.nap = 0
  /\ review' = [review EXCEPT !.pc = "poll"]
  /\ OnlyReview /\ NoFault

ExitWithZero ==
  /\ ReviewStep("exit")
  /\ review' = [Stop EXCEPT !.polled = "success"]
  /\ OnlyReview /\ NoFault

\* The decision file is on disk; the script's exit code is the step's outcome.
ExitPoll ==
  /\ ReviewStep("exit")
  /\ review' = [Stop EXCEPT !.polled = IF review.decision = "approved"
                                       THEN "success" ELSE "failure"]
  /\ OnlyReview /\ NoFault

\* Cancellation ends the step that runs and skips all but the always-steps.
Cancel ==
  /\ phase = "review" /\ ~review.cancelled /\ Fault
  /\ review' = [Stop EXCEPT !.cancelled = TRUE,
                  !.requested = IF review.pc = "request" THEN "cancelled" ELSE @,
                  !.polled = IF review.pc \in {"start", "poll", "fetch", "sleep", "exit"}
                             THEN "cancelled" ELSE @]
  /\ OnlyReview

\* In the source gate job the review's failure fails the job's remaining steps.
EndInJob ==
  /\ ReviewStep("result") /\ review.place = "in-job"
  /\ sound' = (sound /\ review.polled = "success")
  /\ phase' = "enforce"
  /\ UNCHANGED <<setup, attempt, scans, gate, review, src, bg, uploaded, roles,
                 broker, final, faults>>

\* The delegated job publishes its result, and succeeds only on `approved'.  When
\* the result step itself fails the outputs are empty.
EndDelegated ==
  /\ ReviewStep("result") /\ review.place = "delegated"
  /\ LET out == ReviewResult(review) IN
     \/ /\ bg' = [result |-> IF review.cancelled THEN "cancelled"
                             ELSE IF out.status = "approved" THEN "success" ELSE "failure",
                  status |-> out.status, delivered |-> out.delivered,
                  digest |-> out.digest, ran |-> attempt]
        /\ NoFault
     \/ /\ bg' = [NoReview EXCEPT !.ran = attempt,
                   !.result = IF review.cancelled THEN "cancelled" ELSE "failure"]
        /\ Fault
  /\ phase' = "final" /\ review' = Idle
  /\ UNCHANGED <<setup, attempt, scans, gate, sound, src, uploaded, roles, broker, final>>

-----------------------------------------------------------------------------
(* The caller's final gate, and re-runs of this workflow run.              *)

FinalGate ==
  /\ phase = "final"
  /\ final' = SourceOutcome(src, bg)
  /\ phase' = "done"
  /\ UNCHANGED <<setup, attempt, scans, gate, sound, review, src, bg, uploaded,
                 roles, broker, faults>>

\* A re-run repeats a job and every job that needs it; the outputs of the others
\* are those of the attempt before.
Rerun(from) ==
  /\ phase = "done" /\ attempt < MaxAttempts
  /\ attempt' = attempt + 1 /\ phase' = from
  /\ final' = Blocked /\ review' = Idle
  /\ IF from = "scan"
     THEN gate' = Nothing /\ sound' = TRUE /\ src' = NoSource
     ELSE UNCHANGED <<gate, sound, src>>
  /\ IF from = "final" THEN UNCHANGED bg ELSE bg' = NoReview
  /\ UNCHANGED <<setup, scans, uploaded, roles, broker, faults>>

-----------------------------------------------------------------------------
(* Approvers and time.                                                     *)

OnlyBroker == UNCHANGED <<setup, attempt, phase, scans, gate, sound, review, src,
                          bg, uploaded, roles, final, faults>>

Decide(a, d) ==
  /\ broker[a].status = "pending" /\ broker[a].left > 0
  /\ broker' = [broker EXCEPT ![a].status = "processing", ![a].decision = d]
  /\ OnlyBroker

Finalized(d) == IF d = "approve" THEN "approved" ELSE "denied"

Finalize(a) ==
  /\ broker[a].status = "processing"
  /\ broker' = [broker EXCEPT ![a].status = Finalized(broker[a].decision)]
  /\ OnlyBroker

Less(t) == IF t = 0 THEN 0 ELSE t - 1

Tick ==
  /\ \/ review.left > 0 \/ review.nap > 0
     \/ \E a \in Attempts : broker[a].left > 0
  /\ review' = [review EXCEPT !.left = Less(@), !.nap = Less(@)]
  /\ broker' = [a \in Attempts |-> [broker[a] EXCEPT !.left = Less(@)]]
  /\ UNCHANGED <<setup, attempt, phase, scans, gate, sound, src, bg, uploaded,
                 roles, final, faults>>

SourceJobs == Scan \/ EvaluateNothing \/ Evaluate \/ Enforce
ReviewSteps ==
  \/ StartDelegated \/ Examine \/ AssumeRole \/ Request \/ StartPoll
  \/ CheckDeadline \/ FetchStatus \/ Wake \/ ExitPoll \/ EndInJob \/ EndDelegated

Next ==
  \/ SourceJobs \/ LoseSource
  \/ ReviewSteps \/ Cancel
  \/ FinalGate
  \/ \E from \in {"scan", "delegated", "final"} : Rerun(from)
  \/ \E a \in Attempts : Finalize(a) \/ \E d \in {"approve", "deny"} : Decide(a, d)
  \/ Tick

Spec == Init /\ [][Next]_vars

\* GitHub runs the jobs of a run to their end, and time passes.
Progress == SourceJobs \/ ReviewSteps \/ FinalGate
FairSpec == Spec /\ WF_vars(Progress) /\ WF_vars(Tick)

-----------------------------------------------------------------------------
(* Properties.                                                             *)

\* A red gate turns green only through a request that approvers approved: for the
\* very gate the source workflow evaluated, in the attempt that ran the review,
\* with clean scanning jobs and nothing in it but eligible findings.  An approval
\* of another gate, of another attempt's review, or of a job that was cancelled
\* afterwards never counts (final-gate.mjs, break-glass-result.mjs).
Backs(r, g) ==
  /\ r.status = "approved" /\ r.gate = g
  /\ g.blocked \subseteq EligibleRules /\ ~g.bootstrap
  /\ \A c \in Controls : scans[c] = "success"

\* A pass without an override is only ever for clean, trusted, complete
\* evidence, unless the caller chose log-only.  What the delegated job publishes as
\* a decision is the broker's, for good.
GreenIsDeserved ==
  /\ final.override = "approved" => Backs(broker[bg.ran], src.digest)
  /\ final.override = "in-job" => Backs(broker[src.digest.made], src.digest)
  /\ final.outcome = "pass" /\ setup.mode # "log-only" =>
       /\ gate # Nothing /\ Trusted(gate) /\ gate.blocked = {}
       /\ \A c \in Controls : scans[c] = "success"
  /\ bg.status \in {"approved", "denied", "expired"} =>
       broker[bg.ran].status = bg.status /\ broker[bg.ran].gate = bg.digest
  /\ bg.result = "success" => bg.status = "approved"

\* No approver is ever asked, and no role assumed, for a gate that is not
\* overridable, whatever a toolkit's own gate marks as eligible.  A fabricated
\* finding never gets production's role, nor its function as the inputs write it.
\* In the delegated job it gets another function under any spelling
\* (break-glass-evidence.mjs); the in-job route does not promise that, since the
\* production function's ARN is not the text of its name (_source-security.yml:1042).
CredentialsAreGuarded ==
  /\ \A a \in Attempts : broker[a].status # "absent" =>
       /\ setup.mode # "log-only" /\ Overridable(broker[a].gate)
       /\ broker[a].route # "http" => \E x \in roles : x.gate = broker[a].gate
  /\ \A x \in roles :
       /\ Overridable(x.gate)
       /\ (x.function = setup.function["production"]) = ~x.gate.synthetic
       /\ (x.role = setup.role["production"]) = ~x.gate.synthetic
       /\ x.gate.synthetic /\ DelegateLambda(setup) =>
            x.function.name # setup.function["production"].name

\* A delegated request is only ever filed for the gate the source workflow
\* evaluated, never for evidence another attempt left in the run's artifacts.
EvaluatedGateIsAskedFor ==
  [][\A a \in Attempts :
       /\ broker[a].status = "absent" /\ broker'[a].status # "absent"
       /\ review.place = "delegated"
       => broker'[a].gate = src.digest]_vars

\* The broker's side is RequestLifecycle, so that what is shown here holds over
\* every broker that implements it.
Lifecycle == INSTANCE RequestLifecycle WITH
  Requests <- Attempts,
  Decisions <- {"approve", "deny"},
  NoDecision <- Nothing,
  Verdict <- Finalized,
  phase <- [a \in Attempts |-> broker[a].status],
  decision <- [a \in Attempts |-> broker[a].decision],
  audits <- [a \in Attempts |-> [n |-> 0, of |-> Nothing]]
LifecycleSpec == Lifecycle!Spec

\* A workflow run ends whatever approvers do: the poll gives up at its deadline,
\* so the required check always reports.
RunsEnd == phase = "scan" ~> phase = "done"

=============================================================================
