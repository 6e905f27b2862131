# Verification project for the SSD security framework

The repository is a CI security framework in JavaScript: reusable GitHub
workflows and scripts that gate a pull request or an image, a *break-glass*
broker on AWS Lambda through which two people can override a failed gate, and
an onboarding CLI that provisions GitHub and AWS. This directory holds TLA+
models of its parts, TLC configurations that check them on small instances, and
TLAPS proofs for instances of any size.

## 1. Inventory

| Part | Code | State it keeps | Operations | What is hard about it |
|---|---|---|---|---|
| Broker handlers | `broker/lambda/broker.mjs`, `handlers.mjs`, `runtime.mjs` | none of their own: each Lambda invocation has locals | `notify`, `status`, `handleInteraction`, `runFollowUp` | invocations interleave at every await; the 20 s timeout stops them anywhere; asynchronous events are re-delivered |
| Request table | `broker/lambda/dynamodb-store.mjs` | one DynamoDB item per request, one replay record per token | conditional writes | the conditions test attributes, the readers parse a JSON document; writers store a copy read earlier |
| Identity | `broker/identity/github-oidc.mjs`, `broker/request.mjs` | JWKS cache | verify a token, bind a payload to it | key rotation, refetch throttling, clock tolerance, replay |
| Approvers | `broker/authorize/*` | an SSM parameter per repository | look the list up at click time | edits while clicks run, two repositories in one channel |
| CI side of break-glass | `security/scripts/break-glass-*.mjs`, `final-gate.mjs`, `_break-glass-lambda.yml` | files handed from job to job | preflight, notify, poll, result, final gate | jobs are cancelled, skipped and re-run; approval races the poll's deadline |
| Source scan | `_source-scan.yml`, `scanner-execution.mjs`, `check-scanner-exit.mjs`, `npm-audit-roots.mjs`, `osv-npm-roots.mjs`, `dependency-roots.mjs`, `validate-*.mjs` | reports and execution records on the runner | run a scanner, judge its exit, validate, upload | a scanner's exit, report and record may contradict each other; roots a walk leaves out |
| Source policy | `security-gate.mjs` | none | classify findings, decide | missing or partial evidence must never pass, nor be blamed on the wrong control |
| Image gate | `image-gate.mjs`, `poll-ecr-scan.mjs` (normalizer), `_image-scan-prepush.yml`, `_artifact-gate.yml` | none | judge a report before and after the push | unknown severities, counts that do not add up, another image's report |
| Registry scan | `poll-ecr-scan.mjs` | none | poll ECR until a scan is usable | a scan that is COMPLETE before its findings are, deadlines |
| Delivery | `examples/container-ecr/deploy.yml`, `_ecr-collect.yml`, `ssm-deploy.mjs` | artifacts, an SSM command, the instance | gate, push, collect, deploy | runs are not serialized; the poll may end before the command |
| Conformance | `conformance.mjs` | none | resolve every control of a run | reads the same facts as the gates, apart from them |
| AWS onboarding | `onboarding/aws/*` | CloudFormation stacks, a plan record on disk | plan, apply, doctor, verify | time of check / time of use, crash between steps, two operators, unreadable answers |
| GitHub onboarding | `onboarding/github/*` | rulesets, secrets, plan records in the checkout | plan, apply | concurrent administrators, refused reads, a mutation that is not answered |
| Local onboarding | `onboarding/cli.mjs`, `onboarding/lib/*` | files in the checkout | onboard, init, render, baseline prepare and accept, promote | nothing is rolled back, people edit and commit meanwhile |
| Reports, docs, tools, tests | `format-findings.mjs`, `notify.mjs`, `docs/`, `tools/`, `test/` | none | layout | nothing a model checker adds |

Components interact through few channels: CI jobs call the CI Lambda function
(`notify`, `status`) with an OIDC token; Slack calls the interactions function;
both functions share the DynamoDB table; the interactions function invokes
itself asynchronously for the audit comment; CI jobs hand JSON files and outputs
on to later jobs; the onboarding commands hand a reviewed plan record to the
apply commands, and the generated workflow hands a baseline candidate back to
the checkout.

## 2. Modules and plan

| Module | Models | Uses |
|---|---|---|
| `RequestLifecycle` | abstract: what the broker promises about one request | |
| `BreakGlassStore` | the conditional writes of the request table, as operators | |
| `Broker` | all handlers of both Lambda functions, interleaved | `BreakGlassStore`; implements `RequestLifecycle` |
| `GatePolicy` | the decisions of the CI scripts, as operators | |
| `WorkflowRun` | one workflow run with its re-runs | `GatePolicy`; its broker is `RequestLifecycle` |
| `SourcePolicy` | the source gate's evaluation, as operators | |
| `SourceScan` | the scanning jobs of a run and the evaluation of what they leave | `SourcePolicy` |
| `ImagePolicy` | the registry report's normalizer and both image gates, as operators | |
| `Conformance` | the conformance report, as operators | |
| `Release` | delivery runs up to the container on the instance | `ImagePolicy`, `Conformance`, `GatePolicy` (final gate) |
| `EcrPoll` | the poll of the registry's scan | |
| `TokenLedger` | replay records against skewed clocks | |
| `JwksCache` | the signing-key cache | |
| `AwsPolicy` | the tool's reading of IAM documents beside IAM's own | |
| `AwsVerify` | `aws doctor` and `aws verify`, read by read | `AwsPolicy` |
| `AwsPlan` | `aws plan`, its directory, and what `aws apply` accepts of it | |
| `AwsApply` | `aws apply` against a stack others use | |
| `GithubGovernance` | what is read and judged of a repository's settings, as operators | |
| `GithubApply` | `github plan` and `github apply` | `GithubGovernance` |
| `Rollout` | the commands that write to a consumer's checkout, and the baseline's way round | `SourcePolicy` (what the gate makes of a baseline) |
| `MC*` | small instances for TLC | the modules they extend |
| `BrokerSafety`, `BrokerRefinement` | theorems about `Broker`, the second on top of the first | |
| `IdentityProofs` | theorems about `TokenLedger`, `JwksCache` and `AwsVerify` | |
| `WorkflowRunProofs`, `AwsApplyProofs`, `EcrPollProofs` | theorems about the module they name | |
| `DeliveryProofs` | theorems about `SourceScan` and `Release` | |
| `OnboardingProofs` | theorems about `GithubApply`, `Rollout` and `AwsPlan` | |

`MCIdentity`, `MCDelivery`, `MCOnboarding` and `MCWaits` each check several machines in
one run. A variable `machine`, chosen by the initial predicate, says which of them
moves; the others keep one initial state. The machines share no state of the
code, so their state spaces add up, and every property of one is checked over all
of its behaviours.

The order was: the life of a request first, because everything else only leads
to it or from it; then what the broker trusts (tokens, keys) and what trusts the
broker (the workflow run and its final gate); then the evidence the gates decide
from (scan, image, registry) and what they let through (delivery, conformance);
then the commands that set all of this up. What is left, in order of importance:

1. The break-glass scope of `aws plan`, `doctor` and `verify`: the same steps over
   other resources and policies (`onboarding/aws/break-glass/*`).
2. Coverage analysis, the workflow contract and `doctor` of a checkout
   (`onboarding/lib/coverage.mjs`, `contract.mjs`, `doctor.mjs`) as operators.

## 3. The break-glass broker

**Correspondence.** One element of `Requests`, `Clicks`, `Polls` or `Workers` is
one Lambda invocation of `notify`, `handleInteraction`, `status` or
`runFollowUp`. `notify[r]`, `click[c]`, `poll[p]` and `worker[w]` hold its program
counter and its locals, the document it read among them: between two awaits
nothing else can happen, between two steps of the model everything can. `table`
is the DynamoDB table's request items, `spent` its replay records, `live` the
messages whose buttons Slack still shows, `audit` the comments on GitHub, `queue`
the deliveries left of the asynchronous self-invocation, `approvers` the SSM
parameters. An item has both the attributes that ConditionExpressions test and
the JSON document that readers parse, because the code stores them separately.

| Actions | Code |
|---|---|
| `StartNotify`, `Authenticate`, `PutPending`, `PostMessage`, `SetSlackRef`, `Rollback` | `notify`, one per store or Slack call, with the rollback that swallows its own failure |
| `Press`, `ReadRequest`, `Lookup`, `Decide`, `ExpireByClick`, `Claim`, `Finalize`, `Enqueue` | `handleInteraction` and the approver lookup |
| `Deliver`, `ClaimSideEffects`, `ReadDecided`, `PostEffects` | `runFollowUp` |
| `StartPoll`, `AuthenticatePoll`, `ReadStatus`, `ExpireByPoll`, `RereadStatus` | `status` |
| `NotifyStops`, `ClickStops`, `WorkerStops`, `PollStops` | the Lambda timeout, a crash, an exception nobody catches |
| `Tick`, `RemoveApprover` | time, and an operator who edits a list |

Faults are counted and bounded by `MaxFaults`: an invocation stops between two
steps; a conditional write is applied, its answer is lost, and the SDK's retry
fails on the condition that the write itself made false; a call whose failure is
caught fails, having taken effect or not.

**Properties.** The hard part of this code is that a writer stores a document it
read some calls ago, guarded by a condition on *attributes*. `DocumentMirrorsAttributes`
says the two never disagree; `DecisionsStand` that no step replaces a claimed
decision; `PollAnswersStand` and `NoPendingAnswerPastWindow` relate what a poll
was told to what the table says at any later moment; `AuditStatesDecision` and
`WithdrawnLeavesNoTrace` relate the table to GitHub and to the rollback;
`OneRequestPerToken` and `DecisionsAreAuthorized` tie a stored request and its
decision to the token and the repository they belong to; `ProcessingHasItsClick`
says that, until something fails, a claim has the click that will finish it.
`LifecycleSpec` is the refinement: with `phase <- Phase(r)`, the claimed decision
and the comments, the broker is `RequestLifecycle`.

**Runs.** `clicks`: two approvers race for one request in the presence of
`notify`'s rollback, a follow-up delivered twice and one fault. `polls`: two
requests of two repositories with different approvers in one channel, a click and
a poll around the end of the window, an event resent with its token, an approver
removed while clicks run, one fault. Two clicks suffice for a race, since the
table admits one claim; two requests suffice for confusion between requests; one
fault at every place shows what each of them does, and the proofs below hold for
any number. The clock ends at the end of the only window: later readings satisfy
the same tests. The `polls` run uses symmetry in the requests and in the tokens
of one run, which no operator tells apart; the `clicks` run checks liveness and
uses none.

**Fairness.** `FairSpec` has weak fairness of each invocation's next step and of
the delivery of a queued event: Lambda runs an accepted invocation and delivers
an accepted event. Nobody is obliged to call, click or poll. Under it, as long as
nothing failed, `ClaimsSettle` and `DecisionsAreAudited`. A failure between the
claim and the finalization leaves a request in `processing` for good, as the code
says; the two properties therefore end with `faults > 0`.

**Proved**, for any numbers of invocations, tokens, repositories and users, any
windows, clock bound and number of faults (assumptions: `BrokerAssumption`, which
only types the constants and keeps names apart):

- `BrokerSafety!TypeCorrect`: `TypeOK`, with `LocalsKnown`: which locals are set at
  which program counter.
- `BrokerSafety`: none of the properties is inductive, because each depends on
  what stale copies may still write. `SafeInv` adds to the types
  `ItemSound` (each item taken alone), `FilingInv` (what `notify`'s program counter
  says of table, channel and token), and for every invocation what its copy is
  worth: `ClickKnows`, `PollKnows` and `WorkerInv` say that the copy equals the
  item's document for as long as the item's status still lets the conditional
  write through. The step proof never compares all actions with all invariants:
  each write is shown to be an `Evolves` step of one item (pending may go
  anywhere, final nowhere, processing only to its own verdict), and `Evolves`
  alone is shown to preserve everybody's knowledge. Seven properties follow.
- `BrokerRefinement!Refines`: `Spec => LifecycleSpec`; each step is one life-cycle
  step of one request or a stutter.
- Also in `BrokerRefinement`: `DecisionsAreAuthorized` and `ProcessingHasItsClick`, with
  `AuthInv` = `SafeInv` and, for each click past its lookup, that it is barred or
  vouched for by the list of the request's own repository.

**Finding** (run `notify_retry`): the comment at `broker.mjs:99-101` says that a
retry leaves at most one request with a message. When the first call stops after
Slack has posted, both requests can be approved.

## 4. The workflow run and the final gate

**Correspondence.** `WorkflowRun` is the job graph of one workflow run: scanning
jobs, the source gate job (evaluate, in-job review, upload, enforce), the delegated
break-glass job, and the caller's final gate; `Rerun` repeats a job and every
job that needs it, on the outputs and artifacts of the others, as GitHub does.
`review` is the break-glass job's own steps (`break-glass-preflight`, the role,
`-notify`, the loop of `-poll`, `-result`), in either place it can run. `GatePolicy`
holds the decisions as operators: `Verdict`, `Preflight` (`break-glass-evidence.mjs`),
`Route`, `ReviewResult` (`break-glass-result.mjs`), `SourceOutcome`
(`final-gate.mjs`). A gate is a record of what identifies it (attempt, blocked
rules, eligibility marks, mode); a digest is that record, so that equal digests
mean equal evidence. The broker is the abstract one: request *a* of attempt *a*
moves by `RequestLifecycle`'s steps, which `LifecycleSpec` checks, so that what
holds here holds over every implementation of it, `Broker` included.

Time is what is left of each delay, shortened together by `Tick`: the clock needs
no bound. Faults: a step fails, a call's answer is lost, a job is cancelled.

**Runs.** `review`: both routes, five broker configurations (production only, a
separate test broker, one that shares the role, one that shares the function, a
test broker alone), the framework's gate and a vendored one that marks everything
as eligible, log-only, bootstrap, an unknown mode, break-glass off; with a
cancelled scan, a re-run and a fault. `GreenIsDeserved` relates the final
gate's word to its causes: an override to a request the broker stored for that very
gate and approved, a pass without one to clean, complete and trusted evidence, and a
decision the break-glass job publishes to the broker's, for good. `CredentialsAreGuarded`
says that no role is assumed and nobody asked for a gate that may not be overridden,
that fabricated findings never reach a request made with production's role, and, on the
delegated route, that they never reach production's function. A function is named by its
name or its ARN, which the routes compare differently (`IsolatedByText` in the gate's
job, `Isolated` in the delegated workflow): the configurations include a test function
that is production's, given by name and by ARN (section 13). `EvaluatedGateIsAskedFor`
guards against evidence of another attempt.

`waits`, machine `run`: two faults and every kind of re-run on both routes, for
`RunsEnd`. In the runs a failed scan is represented by a cancelled one, which every test in
the code treats alike except `Aggregate`, where the gate job's own failure takes
the other branch. Two attempts are enough for any confusion between attempts.

**Fairness** (`FairSpec`, run `waits`): weak fairness of the runner's progress and
of time. GitHub's scheduler runs queued jobs, each call has a timeout and sleeps
end; approvers need not act. `RunsEnd` then says that the required check reports.

**Proved** (`WorkflowRunProofs`), for any caller's configuration, blocked rules,
marks of the evidence, windows, number of attempts and of faults; the assumptions type
the constants, and say that an unset value is none of the words the workflows write:

- `TypeCorrect`, and `Safe`: the inductive invariant `RunInv`. None of the properties
  is inductive, because a re-run reads outputs of an earlier attempt whose request
  went on meanwhile. `RunInv` adds what the jobs before the current one have left and
  those after have not touched (`StageInv`), that every gate about is one this run made
  where nothing was refused (`GateInv`), that the source workflow's outputs are those of
  its gate and a success in spite of a BLOCK was bought by an approval (`SourceInv`),
  that a filed request is for an overridable gate and a role that was assumed for it
  (`RequestInv`, `RoleInv`), and what each step of the review and the result it publishes
  say of the request (`ReviewInv`, `ResultInv`). The argument is that a request, once
  filed, keeps its gate and, once decided, its status: what was published of it stays
  true, however many re-runs read it.
- `GreenIsEarned`, `NoCredentialUnasked` and `AskedForTheEvaluated`: the three
  properties. `Refines`: `Spec => LifecycleSpec`; together with
  `BrokerRefinement!Refines` the requests of a run are those of the broker.

## 5. Tokens and signing keys

Both are machines of the run `identity`; its third is that of section 11.

`TokenLedger`: `Verify` is the time tests of `verifyGithubToken`, `Spend` the
conditional put of the replay record, `Delete` DynamoDB's expiry of it. Clocks may
be off by `MaxLag`, and an invocation may pause for up to the Lambda timeout
between reading its clock and the put. `AcceptedOnce` must hold although the record
is deleted. Proved (`TokensAreAcceptedOnce`) from `GraceAssumption`:
`MaxLag + MaxPause <= Grace`, in the code 3600 s against 20 s and whatever clocks
drift. The invariant `Inv` says that until a deletion is possible no invocation can
still be between its verification and its put. The run has three invocations, two
tokens and the smallest grace that satisfies the assumption.

`JwksCache`: `GetKey` is the code up to its await, `Loaded` and `LoadFailed` the end
of the one shared fetch with the callers that await it, `Respond` the moment GitHub
answers, which may be earlier than the arrival. The issuer's schedule is a constant:
key *k* is published from `From[k]` until `Until[k]`. Proved for every schedule:
`WithdrawnKeysDie` (a withdrawn key is used for at most the time to live and one
fetch), `RotatedKeysAreFound` (a published key is called unknown only within one
throttle interval of its publication, or around a fetch that failed or is not back)
and `FetchesAreSpaced`; the last two from `IntervalAssumption` (the throttle is no
longer than the time to live). The strengthening says of the cached keys, and of an
answer on its way, between which moments they were the published ones. The run has
two callers, one rotation and one kid that nobody has, and lasts two lives of a key
set.

**Finding** (run `key_throttle`): `github-oidc.mjs:50-51` limits the fetches a token
with an unknown key may cause; while no key set is cached nothing limits them.

What a signature, an issuer or an audience claim decides is the choice of a
verification to refuse, here and in `Broker`.

## 6. `aws apply`

**Correspondence.** Each `Operators` element is one run of `ssd-onboard aws apply`
in the checkout `RootOf[o]`. `Begin` is the plan directory and its records,
`CheckChangeSet` and `CheckStack` are `verifyLive`, done before the confirmation
(round 0) and after it (round 1), `Confirm` the typing, however long it takes,
`RecordAttempt` the exclusive write of `apply-started.json`, `Execute` the one
execute-change-set call, `Poll`, `PollFails` and `GiveUp` the wait. Every refusal
that only compares the plan's own files is the one choice `Refuse`. CloudFormation
accepts an execution, begins it later, and succeeds or rolls back; a lost call may
arrive late. Others deploy and delete the stack and make plans. The history
variable `disturbed` only records which plans' stack was changed by something else.

**Run** `apply_shared`: two operators in one checkout with two plans of one stack.
`AttemptedOnce` and `TypedOnReviewedBase` are what the docs promise ("a plan is
executed at most once", "the time spent typing is not a window");
`AppliedMeansExecuted` says that APPLIED, on a stack nobody else touched, means that
this plan was executed, also when the call was not answered. Bounds: two polls with
one tolerated failure, one stack identity and one revision after the base, so that
every branch of the wait is taken; a stack that is deleted and made again under a
new identity is beyond the run and covered by the proofs of the two first properties.

**Fairness**: weak fairness of each run's own steps. A process that lives goes on;
nobody has to type, and CloudFormation need not ever answer. `AppliesEnd`: the wait
ends all the same.

**Proved**, for any number of plans, operators and checkouts: `OneAttempt`,
`TypingIsNotAWindow` and `AppliedIsTrue`. `IInv` needs `StackInv` (a revision only grows while the
identity stays, so that a stack which left a plan's base never returns to it; the
check after the typing then also speaks for the moment of the typing) and
`RecordInv` (who is past step 7 owns the record of its plan and checkout). `AppliedMeansExecuted` also
needs `FateInv`: on a stack that nobody else disturbed, a plan's stack is either
still as the plan found it, or where that plan's execution brought it; so a status
that the wait accepts can only be that execution's.

**Finding** (run `apply_claims`): the docs say success is never claimed without
seeing it. When the execute call was lost, another plan's success is taken for
this one's, because only the stack's status and time are compared.

Between the last check and execute-change-set the stack may still change; the code
cannot close that window and nothing here claims it does.

## 7. The registry scan

**Correspondence.** `Ask` is one describe-image-scan-findings with its
normalization, `CheckSettled`, `CheckCoverage` and `CheckFindings` are
`confirmCleanEnhancedScan`, `Retry` and `Wake` the attempt counter and the delay.
The environment is ECR (which says COMPLETE before the findings are attached, may
list fewer than it counts, and may scan again) and Inspector. What the code assumes
of Inspector is explicit: it lists a scan's findings within `Lag` of its
completion, or later but then before its coverage says that the scan took place
(guards of `CoverImage` and `Tick`).

**Run** `waits`, machine `scan`: two scans, two findings, two attempts, with `Settle` one longer
than `Lag`. `ReportsAreComplete` says that a report holds all that its scan found;
each of the two tests is needed (see the mutants). `ScanPollEnds` under weak fairness of
the poller alone: each call has a timeout and the delay ends.

**Proved**: `NothingIsLeftOut`, for any findings, number of scans and timing, from
`ScanAssumption` (finitely many findings, `Lag < Settle`). `PollInv` carries what each
answer is worth when the next question is asked: settled stays settled, a covered
scan is a listed one, and of a part with as many members as the whole nothing is
missing.

## 8. The source scan and its gate

**Correspondence.** `SourceScan` runs the three scanning jobs of `_source-scan.yml`
over one commit, each a sequence of steps (`Steps`): `Gitleaks`, `Trufflehog`,
`ValidateSecretReports`; `NpmAudit`, `PipAudit`, `Osv`, `OsvRoots`; `Configure`,
`Acquire`, `Semgrep`, `Complete` (the execution record of `scanner-execution.mjs`);
then `Upload` and `EndJob`, which happen whatever came before. `EvaluateGate`
downloads what it can and applies `SourcePolicy`, which is `security-gate.mjs`:
the assertions over each report in the order the code asks them (`...Sound`), the
findings, the policy's action for each, the verdict, its break-glass eligibility and
the control that is blamed for evidence that cannot be used. A checkout is a record of
what is really in the commit. Scanners are external: one that exits as documented
reports what is there; a fault is any other end (an exit status that contradicts the
report, a report cut short or missing), a failed pull, an artifact that is not
uploaded or downloaded.

**Properties** (run `delivery`, machine `scan`). `GreenMeansScanned` compares the
verdict with `TrueRules`, the policy's rules for what is in the commit, read from no
report: with every control published as a success, a verdict that does not block means
that the policy blocks none of them, in any dependency root, history or source file;
and a verdict is eligible for break-glass only if the gate could interpret everything
and whatever the policy blocks is of the two kinds that may be overridden.
`BlameIsDeserved` is the other direction: evidence is called unusable only when
something happened to the control that is named.

**Proved** (`DeliveryProofs`): both, for any commits, number of pulls and faults, from
`CheckoutsAssumption`, which says what is known of a commit's dependencies: finitely
many lockfiles and advisories, an advisory once for each lockfile, in npm's words; the
same listing of a Python package's advisory says the same; and an advisory that only OSV
knows has scores that amount to its severity. `ScanInvariant` is the induction: while
a job's result is still a success, each report it has passed is whole and the truth
(`SecretInv`, `DependencyInv`, `SastInv`), at its end its artifact is there
(`UploadInv`), and the gate's result is that of what it downloaded (`GateInv`). An
npm report is the exception: it may miscount and pass its own job (`Audited`), and
that the gate refuses it is part of the argument. `GreenFollows` then has two
halves: a gate that blames nobody has read each report it needs (`GreenReads`), and
each rule for what is in the commit is the rule of a finding (`TrueRulesFound`), where
the explicit OSV run covers what the recursive one leaves out and a repeated Python
advisory counts at its first listing. `BlameFollows` is the converse: what a job that
nothing happened to has written passes each check of the gate (`DependencyPasses`), the
one that an audit is listed once for each root among them.

One case of `BlameIsDeserved` is no failure of anything: `sast` is blamed for a finding
of a severity that the policy does not map.

**Bounds.** 21 checkouts (nested roots that a walk leaves out, lockfiles behind links,
advisories with several severities, contradictory gate inputs), three attempts to pull,
one fault. The jobs share nothing but the gate, and each check of the code is about one
report, so one fault at any place shows what each check is for.

## 9. Image, delivery, conformance

**Correspondence.** One element of `Releases` is one run of
`examples/container-ecr/deploy.yml`, from the outputs of its source workflow and
break-glass job on: `SecurityGate` (`final-gate.mjs`, taken from `GatePolicy`),
`ImageSecurity` (Trivy's report of the tarball and `image-gate.mjs`), `Collect` (the
check of the image's config digest, the push, the registry's answer through
`normalizeEcrResponse`), `ArtifactGate`, `Send` and `Poll` (`ssm-deploy.mjs`), and
`Conform`. `Pull`, `Remove`, `RunContainer`, `Prune` and `CommandStops` are the remote
script on the instance, which goes on when the job is over. An image's digest is the
image, a record of what is really in it; `SwapTarball`, `EcrFaults`, `TrivyFaults`
and `LoseJob` are the faults. `Conformance` resolves every control from declared
capabilities, exemptions, the phase and the observations of the jobs.

**Properties** (run `delivery`, machine `release`). `DeployedIsGated`: what runs on
the instance was passed or approved and, unless the run enforces nothing, is fit,
although two runs share the instance. `SuccessMeansRunning`: a deploy job that
succeeds has started its own image. `ConformanceIsHonest` relates the conformance
report to the gates, which decide from the same facts apart from each other.

**Proved** (`DeliveryProofs`), for any number of runs that share the instance, any
images, policies, polls and faults: `OnlyGatedImagesRun`, `DeploySuccessIsTrue` and
`ReportsAreHonest`. `DeliveryAssumption` says what every run's inputs are: a reusable
workflow succeeds only if its gate job does, the outputs are typed, a list of
vulnerabilities is in the registry's words. First come lemmas about the pure part, for
every policy: what Trivy's and ECR's reports are worth whatever was done to them on
their way (ECR's own counts make a list that lost a finding useless). `ReleaseInv` then
says what the success of each job implies (`Gates`), that a conformance report is built
of what no later step changes (`Reported`), and that the instance runs, or last ran, what
a command was sent for (`InstanceInv`): the command may outlive its job, so the
property cannot rest on the job's result.

**Bounds.** Two runs, one of 23 deliveries beside one that either ships too or ends
early, two polls, two faults. Two are enough to interleave on one instance; the poll
gives up on its second attempt, so a command outlives its job.

## 10. The onboarding commands

**GitHub** (`GithubGovernance`, `GithubApply`). The repository's settings are a record
with the reads this token is refused; `Discovered` is what the code learns of them,
`DerivePlan` the one operation that would close the gap it sees. A command plans
(`Plan`, `WritePlan`) or applies (`Apply`, `Recheck`, `Confirm`, `Start`, `Send`,
`Observe`, `RecordOutcome`): the recheck after the confirmation, the exclusive record
before the one mutating request, and the observation after it, whatever its answer
was. Others change the settings, plans are edited, commands crash. `GovernanceIsReal`
compares what a command says with `Governed`, computed from the settings for every
kind of actor; `ChangedOnceAsReviewed` says that one reviewed plan changes GitHub at
most once, as reviewed and in the settings it was reviewed for, and that the reported
outcome is true.

**Rollout.** The actions are the commands (`Onboard`, `InitConfig`, `Render`,
`Prepare`, `Accept`, `Promote`), the answer to their prompt, each single write
(`WriteNext`), a death between or within writes (`Die`), and the people around them
(`EditByHand`, `Commit`, `SwitchTo`, `RunWorkflow`). `BaselineIsReviewed`: an
accepted baseline is what a successful, trusted bootstrap of the default branch found
in the very commit and scope that was checked out. `EditsSurvive`: no command
overwrites a person's file it was not given by name. `ValidatedIsSound`: a checkout
that validates, however it came about, holds what the gate (`SourcePolicy`) will accept.

**AWS plan** (`AwsPlan`). `ReadStack`, `ListMembers`, `DiscoverThing`, `ReadTags`, `LocateThing`,
`CheckPolicies`, `CreateChangeSet`, `DescribeChangeSet`, `MakeDirectory` and
`WriteFile` are the calls of one `aws plan --scope repo` in order; `ComputeChangeSet`
is CloudFormation. `PlannedOverOwned`: a change set that nobody disturbed never
creates over a resource or changes one that is not this stack's, and changes none whose
own tag names another repository, except an ECR repository whose tags it could not read
(`missed`; section 13). `RecordedPlanIsReal`
relates a directory that `aws apply` would accept to the change set: made for this
plan id, with its template, its classified changes and no fewer destructive ones, and,
if the live checks pass too, with an effect on the present stack that is the one
reviewed. It is what `AwsApply!MakePlan` assumes. Of the twelve accounts, one holds both
roles under each other's names; executing a change set that changes a resource's name
replaces the resource.

**Proved** (`OnboardingProofs`), for any numbers of commands, clones, commits, planners,
accounts, change sets and mishaps. TLC checked each inductive invariant on the
run's instance before it was proved.

- `HubInvariant` (`HubInv`), from `GithubAssumption`: the settings have the shape
  GitHub gives them. A plan's directory is never given up and the mark that an
  apply started stays; a change is recorded only by the command that made this mark; at
  most one command is between its mark and its request (`AloneAt`). Hence `AppliedOnce`,
  and `GovernanceHolds`: a command that says COMPLIANT, or verified, is right about every
  kind of actor, for every setting.
- `CheckoutInvariant` (`CheckoutInv`), from `RolloutAssumption`: what people committed is
  a readable configuration, and no dangling link is committed at the baseline's path
  (section 13). Each file of the checkout that carries a mark of the tool is one that some command wrote
  whole, and each write still to come of a running command is backed by the run,
  commit and scope that the command looked at (`WritesOk`). Hence `BaselinesAreReviewed`,
  `OwnFilesSurvive` and `ValidationIsSound`.
- `AwsPlanInvariant` (`AwsPlanInv`), from `AwsPlanAssumption`: accounts are `Coherent` (a
  stack's members and the resources name each other) and a role and the repository have
  different names. The heart of it: a change set fits its stack, or the stack has moved
  on since and CloudFormation will refuse it; and a planner that nobody disturbed has
  decided about each resource as the account has it, as far as it was told: of the
  repository's own tag it knows, or `missed` says that it names another. Hence `RecordsAreReal` and
  `PlansAreOverOwned`.

**Bounds** (run `onboarding`). Two commands and one clone with one change by others
and one fault; two commits, one workflow run and one mishap for the rollout; two
planners, one tree, twelve accounts, two change sets and one mishap for the plan.
Two commands are enough for every race for a record or a change set name. The run
uses the symmetry of the two commands and of the two planners, which no operator
tells apart.

## 11. `aws doctor` and `aws verify`

**Correspondence.** `Read` is one read of `Reads` in the order of the code, answered
or not; the account may become another one between two reads (`OthersChangeAccount`);
`Report` computes every check, its severity and the exit status (`OutcomeOf`).
`AwsPolicy` puts two readings of the same documents side by side: the tool's
(`trust.mjs`, `permissions.mjs`, the probes and their simulation) and IAM's
(`Effective`, `OnlyIntended`), written from what IAM makes of a statement and not from
the tool's rules.

**Property** (run `identity`, machine `verify`). `ReadinessIsReal`: exit 0 means that
the boundary held, computed with IAM's reading, each fact of it at some moment of the
run; and what the tool generates itself, read without a mishap, is never reported as
broken. The repository's policy and its tags are reads of their own, and the code judges
them only if they were answered; `RepositorySeen` promises no more. `verify.mjs` says that
uncertainty is never PASS: `verify_unread` shows that here it is. That facts are true at *some* moment is all that a sequence of reads can give
in an account that others change.

**Proved** (`IdentityProofs`, `ReadinessHolds`), for every set of accounts, hence every
trust and identity policy in them, and any number of unanswered calls and changes by
others. The assumptions: `AwsVerifyAssumption` types the identity provider of an account,
and `FreshAssumption` says that the account just deployed is `AsGenerated`: its roles are
those of `renderRepoTemplate`, for either type of scanning, and the rest is in order. The
argument has three parts.

- What a passing check has seen. `Worst` reports a failure whenever there is one and an
  open result whenever nothing failed (`WorstFails`, `WorstOpen`), so a required check
  passes exactly if its findings are `Clean`. `TrustIsBounded`: a trust policy without a
  failure admits only intended runs, because every statement that allows the provider's
  tokens has an acceptable entry for the audience and one for the subject, and entries
  are conjoined. `UngrantedIsIneffective` and `DenialIsProof`: what the documents do not
  grant, and what the simulator denies for another reason than a missing value, is
  never effective.
- What was generated passes. `GeneratedTrust` and `GeneratedPolicy`: the trust policy
  admits the intended runs without a finding, and the identity policy matches what the
  role is for and nothing else. Hence no check objects to `Fresh`.
- The run (`ReadinessInv`). The strengthening is `ReadSoFar`: an undisturbed command in
  that account has been answered every read it asked for, because what decides whether a
  read is asked was read before it (`AsksInOrder`).

**Bounds of the run.** The deployed account and every account that differs from it in one
thing that may be wrong, odd or merely different (trust conditions and statements, one
permission more or less, repository policy, scanner and inspector settings, instance,
owners and tags), one
unanswered call or one change of the account. Checks combine by the worst of their
results, so one deviation at a time reaches each of them.

## 12. What is checked how

| Run | Module | Expected | Properties |
|---|---|---|---|
| `clicks` | `MCBroker` | pass | `DocumentMirrorsAttributes`, `AuditStatesDecision`, `WithdrawnLeavesNoTrace`, `ProcessingHasItsClick`, `DecisionsStand`, `LifecycleSpec`, `ClaimsSettle`, `DecisionsAreAudited` |
| `polls` | `MCBroker` | pass | `PollAnswersStand`, `NoPendingAnswerPastWindow`, `OneRequestPerToken`, `DecisionsAreAuthorized` |
| `notify_retry` | `MCBroker` | violation | `OneApprovableRequestPerRun` |
| `review` | `MCWorkflowRun` | pass | `GreenIsDeserved`, `CredentialsAreGuarded`, `EvaluatedGateIsAskedFor`, `LifecycleSpec` |
| `waits` | `MCWaits` | pass | `RunsEnd`, `ReportsAreComplete`, `ScanPollEnds` |
| `identity` | `MCIdentity` | pass | `AcceptedOnce`, `WithdrawnKeysDie`, `RotatedKeysAreFound`, `FetchesAreSpaced`, `ReadinessIsReal` |
| `key_throttle` | `MCJwksCache` | violation | `UnknownKidsAreThrottled` |
| `verify_unread` | `MCAwsVerify` | violation | `UncertaintyIsNeverPass` |
| `apply_shared` | `MCAwsApply` | pass | `AttemptedOnce`, `TypedOnReviewedBase`, `AppliedMeansExecuted`, `AppliesEnd` |
| `apply_claims` | `MCAwsApply` | violation | `AppliedIsAlwaysSeen` |
| `delivery` | `MCDelivery` | pass | `GreenMeansScanned`, `BlameIsDeserved`, `DeployedIsGated`, `SuccessMeansRunning`, `ConformanceIsHonest` |
| `onboarding` | `MCOnboarding` | pass | `GovernanceIsReal`, `ChangedOnceAsReviewed`, `BaselineIsReviewed`, `EditsSurvive`, `ValidatedIsSound`, `PlannedOverOwned`, `RecordedPlanIsReal` |

Deadlock is not checked: every one of these systems may come to rest, with all
invocations done, the run ended, or the clock at its bound.

Beside many definitions stands a variant with one plausible mistake (a dropped
condition, an off-by-one, a missing mark); `PROJECT.json` lists under `mutants` which
property each of them breaks.

Only model-checked: all liveness (`ClaimsSettle`, `DecisionsAreAudited`, `RunsEnd`,
`AppliesEnd`, `ScanPollEnds`), which is out of the prover's reach as is `ENABLED`. Every safety
property of a passing run is stated by a theorem.

## 13. Observations

Behaviour met while modelling that no run states as a finding:

- `_source-security.yml:1042` compares the synthetic and the production function as text,
  although each may be a name or an ARN; `break-glass-evidence.mjs:229` compares the names
  without the ARN. On the route inside the gate's job a test function that is
  production's, given by its ARN, therefore passes the check whose message asks for "a
  SEPARATE broker, not the same one renamed" (`:1044`). The role must still be another.
  `CredentialsAreGuarded` demands separate functions of the delegated route only.
- `aws plan` goes on when it could not read the tags of the ECR repository: `plan.mjs:212`
  passes none on and `discover/stacks.mjs:103-104` then tests none, so the stack and its
  tags alone decide that the repository is managed. A repository whose own tag names
  another consumer is then planned over. `PlannedOverOwned` makes this exception.
- `break-glass-poll.mjs:59-79`: the loop sleeps after its last question and re-tests
  only the clock. A decision made in that interval is never read, although the result
  then says that none arrived. The gate stays red, so no property is broken.
- `discover/stacks.mjs:197` and `docs/onboarding-cli.md:573` let a second plan be made
  over the tagged `REVIEW_IN_PROGRESS` placeholder that an unexecuted first plan left.
  `apply/live.mjs:86-89` records that AWS leaves that placeholder without tags, and
  `planStack` then blocks. `AwsPlan` follows `live.mjs`: its placeholder has no tags.
- A crash between the creation of a plan directory and its `plan.json`, on the GitHub
  and the AWS side alike, leaves a slot that can be neither applied nor planned into
  again with the same input.
- A run of `aws plan` that dies after creating its change set cannot make the same
  plan again; the code reports it as `change-set-exists` and asks for another input.
- Two clones may each apply the same GitHub plan, for its records are local; the
  second fails its recheck unless both are between recheck and request.
- Others may change GitHub's settings, or the AWS stack, between the last recheck and
  the mutating call. No check can close that window; the properties speak of the
  command's last look.
- A dangling symbolic link at the accepted baseline's path is no baseline to the
  onboarding commands, whose read finds nothing (`onboarding/lib/baseline.mjs`), and one
  to the gate, which asks for the link itself (`security-gate.mjs:281-284`). Such a
  checkout validates while it declares no baseline, and its gate blocks: it fails
  closed. `ValidatedIsSound` is about histories without such a link.
- In log-only mode a source verdict that is not available passes
  (`examples/container-ecr/deploy.yml:194-195` warns about it).
- `aws verify` and `aws doctor` never end in their best outcome, because the
  subject-format check is always NOT VERIFIED; it is advisory, and the exit status is 0.
- `aws verify` takes an `allowed` simulation with missing context values as required
  access that is there, while a denial of that kind is NOT VERIFIED.

## 14. What is not modelled

- *Cryptography and syntax*: signatures, the parsing of tokens, parameters, reports
  and templates. Their outcome is a choice. In `SourcePolicy`: the parser of
  `policy.yaml`, CVSS arithmetic (scores are given), the synthetic fixture.
- *Text*: Slack and GitHub message layout, `format-findings.mjs`, `notify.mjs`,
  `correlate-findings.mjs`, reports for developers, logs. None is an input of a gate.
- *The HTTP clients* (`slack.mjs`, `github.mjs`): their outcomes are steps of `Broker`.
- *Other ecosystems and scanners' own syntax* in the source scan: npm, Python and OSV
  stand for them, with the fields the rules tell apart.
- *Rollout*: symbolic links other than dangling ones; coverage analysis, the workflow
  contract, framework binding and managed gitleaks files; the read-only commands.
- *AWS*: the scopes `shared` and `break-glass`; refusals by account, region or caller
  identity; malformed documents; details of `doctor` and `verify` that only warn. In
  `AwsPlan` an execution is one step, since `AwsApply` has its steps.
- *More than the code does*: `WorkflowRun!Evaluate` lets any step of a log-only bootstrap
  fail the same way, and `Release!Ready` skips a job by its direct needs while GitHub
  looks at all ancestors. Both allow behaviours the code does not have; a safety
  property of all of them is one of the code's.
- *Deletion of request items* a week after their expiry: beyond the modelled clock.
- Two hazards carry no property: a follow-up that dies after taking its one-shot
  mark loses the comment (by design at most once), and the window before
  execute-change-set (section 6).
