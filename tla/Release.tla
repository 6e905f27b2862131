------------------------------- MODULE Release -------------------------------
(***************************************************************************)
(* Delivery runs (examples/container-ecr/deploy.yml) from the end of their *)
(* source workflow and break-glass job to a container on one instance:     *)
(* the final gate and the pre-push image gate, the push and the registry's *)
(* report of it, the artifact gate, the deployment over SSM, and the       *)
(* conformance report.  Runs are not serialized, and what one starts on    *)
(* the instance goes on when its job is over.                              *)
(*                                                                         *)
(* An image's digest is modelled by the image, a record of what is really  *)
(* in it.  A fault is a step that fails, an answer that leaves something   *)
(* out, a report or tarball that is not the one that was made, or a job    *)
(* that is lost.                                                           *)
(***************************************************************************)
EXTENDS ImagePolicy, Conformance

CONSTANTS Releases,          \* delivery runs on one commit each
          Deliveries,        \* what each run is: its image, source outcome and settings
          OtherImage,        \* an image nobody built here
          MaxPolls,          \* --max-attempts of ssm-deploy.mjs
          ReleaseMaxFaults   \* bound on faults

ASSUME ReleaseAssumption == MaxPolls \in Nat \ {0} /\ ReleaseMaxFaults \in Nat

\* An image's vulnerabilities, in the registry's words.
ImageTyped(image) ==
  /\ image.vulns \in Seq(Elements(image.vulns))
  /\ \A v \in Elements(image.vulns) :
       v.severity \in MappedSeverities /\ v.fix \in DOMAIN FixAvailable

\* A reusable workflow succeeds only if its jobs do; what the source gate's job puts out
\* is there together or, of a job that never ended, not at all; a review that answered says
\* whether it was delivered; and the delivery workflow declares a gated deployment.
ASSUME DeliveryAssumption ==
  /\ ImageTyped(OtherImage)
  /\ \A d \in Deliveries : \A r \in Releases :
       LET s == d[r].source  v == d[r].review  run == d[r].run IN
       /\ ImageTyped(d[r].image)
       /\ s.gateJob \in {"success", "failure", "cancelled", Unset}
       /\ s.result = "success" => s.gateJob = "success"
       /\ s.verdict = "BLOCK" => /\ s.gateJob # Unset
                                /\ {s.trusted, s.eligible, s.delegated} \subseteq BOOLEAN
       /\ \A c \in ScanControls :
            s.controls[c] \in {"success", "failure", "cancelled", "skipped", "untrusted", Unset}
       /\ v.result = "success" => v.delivered \in BOOLEAN
       /\ run.phase \in Phases /\ run.breakGlass \in BOOLEAN /\ run.strict \in BOOLEAN
       /\ CapabilitiesResolved(run.capabilities) => run.capabilities.deploy = "framework-gated"

\* An output nobody wrote is none of the words a job writes.
ASSUME UnsetAssumption ==
  /\ Unset \notin PassedStatuses \cup FailedStatuses
  /\ Unset \notin {"skipped", "cancelled", "in-job", "approved", "denied",
                   "PASS", "BLOCK", "enforce", "log-only"}
  /\ Unset \notin BOOLEAN

Final == INSTANCE GatePolicy WITH Nothing <- Unset

VARIABLES
  delivery,       \* what each run is
  tarball,        \* the image in the run's tarball artifact
  jobs,           \* results of the run's jobs so far
  outputs,        \* what they put out
  report,         \* the registry report handed on
  command,        \* the run's SSM command: how far the instance is with it
  instance,       \* the container's image, and the images ever started
  polls,          \* attempts to read the command's status
  conformance,    \* the run's conformance report
  releaseFaults   \* faults so far

releaseVars == <<delivery, tarball, jobs, outputs, report, command, instance, polls,
                 conformance, releaseFaults>>

RunJobs == {"security-gate", "image-security", "ecr-collect", "artifact-gate", "deploy"}
NoImage == [name |-> None]
NoReport == [state |-> "malformed"]
NotMade == [made |-> FALSE]

ReleaseInit ==
  /\ delivery \in Deliveries
  /\ tarball = [r \in Releases |-> delivery[r].image]
  /\ jobs = [r \in Releases |-> [j \in RunJobs |-> "pending"]]
  /\ outputs = [r \in Releases |-> [outcome |-> Unset, override |-> Unset, imageId |-> NoImage,
                                    prepush |-> Unset, trusted |-> Unset,
                                    digest |-> NoImage, artifact |-> Unset]]
  /\ report = [r \in Releases |-> NoReport]
  /\ command = [r \in Releases |-> "none"]
  /\ instance = [running |-> NoImage, started |-> {}]
  /\ polls = [r \in Releases |-> 0]
  /\ conformance = [r \in Releases |-> NotMade]
  /\ releaseFaults = 0

JobEnds(r, j, result) == jobs' = [jobs EXCEPT ![r][j] = result]
Output(r, o, value) == outputs' = [outputs EXCEPT ![r][o] = value]
ReleaseFault == releaseFaults < ReleaseMaxFaults /\ releaseFaults' = releaseFaults + 1
NoFault == UNCHANGED releaseFaults

\* A job starts when those it needs have ended; it is skipped unless all succeeded.
Ready(r, j, needed) == jobs[r][j] = "pending" /\ \A n \in needed : jobs[r][n] # "pending"
Succeeded(r, needed) == \A n \in needed : jobs[r][n] = "success"

LogOnly(r) == delivery[r].mode = "log-only"

\* A gate's verdict is enforced, unless the mode is log-only.
Enforced(r, verdict) ==
  IF verdict = "BLOCK_DEPLOY" /\ ~LogOnly(r) THEN "failure" ELSE "success"

-----------------------------------------------------------------------------
(* The two boundaries: source security, and the image before its push.     *)

SecurityGate(r) ==
  LET decision == Final!SourceOutcome(delivery[r].source, delivery[r].review)
  IN /\ Ready(r, "security-gate", {})
     /\ JobEnds(r, "security-gate", IF decision.outcome = "block" THEN "failure" ELSE "success")
     /\ outputs' = [outputs EXCEPT ![r].outcome = decision.outcome,
                                   ![r].override = decision.override]
     /\ UNCHANGED <<delivery, tarball, report, command, instance, polls, conformance,
                    releaseFaults>>

TrivyRating(raw) ==
  CASE raw = "UNTRIAGED" -> "unknown"
    [] raw # "UNTRIAGED" -> MappedSeverity(raw)

\* External: what Trivy reports of an image; it need not know every vulnerability.
TrivyReport(image) ==
  LET known == SelectSeq(image.vulns, LAMBDA v : v.trivy)
  IN [state |-> "ok", kind |-> "container_image", family |-> image.family,
      osScanned |-> image.family # None, endOfLife |-> image.endOfLife,
      secrets |-> image.secrets,
      vulns |-> [i \in DOMAIN known |->
                   [id |-> known[i].id, package |-> known[i].package,
                    severity |-> TrivyRating(known[i].severity),
                    fixed |-> known[i].fix # "NO"]]]

\* Trivy ends without a report, or does not understand the image.
TrivyFaults(image) ==
  {NoReport, [TrivyReport(image) EXCEPT !.family = None, !.vulns = <<>>],
   [TrivyReport(image) EXCEPT !.osScanned = FALSE, !.vulns = <<>>]}

\* Without a report the job fails in either mode.
ImageSecurity(r) ==
  LET image == tarball[r]
  IN /\ Ready(r, "image-security", {})
     /\ \E trivy \in {TrivyReport(image)} \cup TrivyFaults(image) :
          LET result == RunImageGate(delivery[r].policy, "trivy", trivy)
          IN /\ IF trivy = TrivyReport(image) THEN NoFault ELSE ReleaseFault
             /\ JobEnds(r, "image-security",
                  IF trivy = NoReport THEN "failure" ELSE Enforced(r, result.verdict))
             /\ outputs' = [outputs EXCEPT
                  ![r].imageId = IF trivy = NoReport THEN NoImage ELSE image,
                  ![r].prepush = result.verdict, ![r].trusted = result.trusted]
     /\ UNCHANGED <<delivery, tarball, report, command, instance, polls, conformance>>

\* Another image slips in between scan and push.
SwapTarball(r) ==
  /\ jobs[r]["ecr-collect"] = "pending" /\ tarball[r] # OtherImage
  /\ tarball' = [tarball EXCEPT ![r] = OtherImage]
  /\ ReleaseFault
  /\ UNCHANGED <<delivery, jobs, outputs, report, command, instance, polls, conformance>>

-----------------------------------------------------------------------------
(* Push, registry scan and artifact gate.                                  *)

EnhancedEntry(image, v) ==
  [id |-> v.id, severity |-> v.severity, fix |-> v.fix, type |-> "PACKAGE_VULNERABILITY",
   status |-> "ACTIVE", images |-> {image}]

\* External: ECR's answer for an image, by its scanning mode; each entry is of one
\* vulnerability.  An enhanced body has an empty basic list too.
EcrAnswer(image, enhanced) ==
  LET absent == [present |-> FALSE, list |-> <<>>]
      empty == [present |-> TRUE, list |-> <<>>]
      entries == [i \in DOMAIN image.vulns |-> EnhancedEntry(image, image.vulns[i])]
  IN [status |-> "COMPLETE", digest |-> image, counted |-> Elements(image.vulns),
      basic |-> IF enhanced THEN empty ELSE [present |-> TRUE, list |-> entries],
      enhanced |-> IF enhanced THEN [present |-> TRUE, list |-> entries] ELSE absent]

\* An answer that is not finished, of another image, or that hides or rewords findings.
EcrFaults(answer) ==
  {[answer EXCEPT !.status = "IN_PROGRESS"], [answer EXCEPT !.digest = OtherImage],
   [answer EXCEPT !.enhanced = [present |-> FALSE, list |-> <<>>]]}
  \cup {[answer EXCEPT !.basic.list = Tail(@)] : i \in {1} \cap DOMAIN answer.basic.list}
  \cup UNION {{[answer EXCEPT !.enhanced.list[i].fix = "UNKNOWN"],
               [answer EXCEPT !.enhanced.list[i].images = {OtherImage}],
               [answer EXCEPT !.enhanced.list[i].status = "SUPPRESSED"]} :
                 i \in DOMAIN answer.enhanced.list}

\* A bug to check the properties against: what was scanned is not asked for.
IsScannedUnasked(r) == TRUE
IsScanned(r) == tarball[r] = outputs[r].imageId

\* A poll that fails leaves an empty report, and the job goes on.
Collect(r) ==
  LET needed == {"security-gate", "image-security"}
      answer == EcrAnswer(tarball[r], delivery[r].enhanced)
  IN /\ Ready(r, "ecr-collect", needed)
     /\ \/ /\ ~Succeeded(r, needed) \/ ~delivery[r].configured
           /\ JobEnds(r, "ecr-collect", "skipped") /\ NoFault /\ UNCHANGED <<outputs, report>>
        \/ /\ Succeeded(r, needed) /\ delivery[r].configured /\ ~IsScanned(r)
           /\ JobEnds(r, "ecr-collect", "failure") /\ NoFault /\ UNCHANGED <<outputs, report>>
        \/ /\ Succeeded(r, needed) /\ delivery[r].configured /\ IsScanned(r)
           /\ \/ /\ \E a \in {answer} \cup EcrFaults(answer) :
                      /\ IF a = answer THEN NoFault ELSE ReleaseFault
                      /\ report' = [report EXCEPT ![r] =
                           IF EcrSound(a, tarball[r]) THEN NormalizeEcrResponse(a)
                           ELSE NoReport]
                 /\ JobEnds(r, "ecr-collect", "success") /\ Output(r, "digest", tarball[r])
              \/ /\ JobEnds(r, "ecr-collect", "failure") /\ ReleaseFault
                 /\ UNCHANGED <<outputs, report>>
     /\ UNCHANGED <<delivery, tarball, command, instance, polls, conformance>>

\* Reports of another registry's collector, or of another image.
Handed(r) ==
  {report[r]} \cup
  IF report[r].state # "ok" THEN {}
  ELSE {[report[r] EXCEPT !.digest = OtherImage],
        [report[r] EXCEPT !.findings =
           [i \in DOMAIN report[r].findings |-> [report[r].findings[i] EXCEPT !.fix = None]]],
        [report[r] EXCEPT !.findings = <<>>]}

\* A report of another digest fails the job in either mode.
ArtifactGate(r) ==
  /\ Ready(r, "artifact-gate", {"ecr-collect"})
  /\ \/ /\ ~Succeeded(r, {"ecr-collect"})
        /\ JobEnds(r, "artifact-gate", "skipped") /\ NoFault /\ UNCHANGED outputs
     \/ /\ Succeeded(r, {"ecr-collect"})
        /\ \E handed \in Handed(r) :
             /\ IF handed = report[r] THEN NoFault ELSE ReleaseFault
             /\ IF handed.state = "ok" /\ handed.digest # outputs[r].digest
                THEN /\ JobEnds(r, "artifact-gate", "failure")
                     /\ Output(r, "artifact", "BLOCK_DEPLOY")
                ELSE LET verdict == RunImageGate(delivery[r].policy, "registry", handed).verdict
                     IN /\ JobEnds(r, "artifact-gate", Enforced(r, verdict))
                        /\ Output(r, "artifact", verdict)
  /\ UNCHANGED <<delivery, tarball, report, command, instance, polls, conformance>>

-----------------------------------------------------------------------------
(* Deployment: ssm-deploy.mjs on the runner, its command on the instance.  *)

\* The command is sent; an answer that is lost ends the job, not the command.
Send(r) ==
  LET needed == {"ecr-collect", "artifact-gate"}
  IN /\ Ready(r, "deploy", needed) /\ command[r] = "none"
     /\ \/ /\ ~Succeeded(r, needed) /\ JobEnds(r, "deploy", "skipped") /\ NoFault
           /\ UNCHANGED command
        \/ /\ Succeeded(r, needed) /\ command' = [command EXCEPT ![r] = "sent"]
           /\ NoFault /\ UNCHANGED jobs
        \/ /\ Succeeded(r, needed) /\ ReleaseFault /\ JobEnds(r, "deploy", "failure")
           /\ \E c \in {"none", "sent"} : command' = [command EXCEPT ![r] = c]
     /\ UNCHANGED <<delivery, tarball, outputs, report, instance, polls, conformance>>

Command(r, from, to) == command[r] = from /\ command' = [command EXCEPT ![r] = to]
OnInstance == UNCHANGED <<delivery, tarball, jobs, outputs, report, polls, conformance>>

\* docker pull, by digest: an image that was pushed.
Pull(r) == Command(r, "sent", "pulled") /\ NoFault /\ UNCHANGED instance /\ OnInstance

\* docker rm -f of the container, whosever it is.
Remove(r) ==
  /\ Command(r, "pulled", "removed") /\ NoFault
  /\ instance' = [instance EXCEPT !.running = NoImage] /\ OnInstance

\* docker run: the container's name must be free.
RunContainer(r) ==
  /\ IF instance.running = NoImage
     THEN /\ Command(r, "removed", "run")
          /\ instance' = [running |-> outputs[r].digest,
                          started |-> instance.started \cup {outputs[r].digest}]
     ELSE Command(r, "removed", "failed") /\ UNCHANGED instance
  /\ NoFault /\ OnInstance

Prune(r) == Command(r, "run", "done") /\ NoFault /\ UNCHANGED instance /\ OnInstance

\* A step fails, or the command is cancelled or timed out.
CommandStops(r) ==
  /\ command[r] \in {"sent", "pulled", "removed", "run"}
  /\ command' = [command EXCEPT ![r] = "failed"]
  /\ ReleaseFault /\ UNCHANGED instance /\ OnInstance

\* A bug to check the properties against: a command that has not failed has succeeded.
StatusOfUnfinished(r) == IF command[r] \in {"removed", "run", "done"} THEN "Success"
                         ELSE IF command[r] = "failed" THEN "Failed" ELSE "Pending"
Status(r) ==
  CASE command[r] = "done" -> "Success"
    [] command[r] = "failed" -> "Failed"
    [] command[r] \in {"sent", "pulled", "removed", "run"} -> "Pending"

\* One attempt.  A command that is not registered yet is asked for again; any other
\* error ends the job.
Poll(r) ==
  /\ jobs[r]["deploy"] = "pending" /\ command[r] # "none"
  /\ polls' = [polls EXCEPT ![r] = @ + 1]
  /\ \/ /\ Status(r) = "Success" /\ JobEnds(r, "deploy", "success") /\ NoFault
     \/ /\ Status(r) = "Failed" /\ JobEnds(r, "deploy", "failure") /\ NoFault
     \/ /\ Status(r) = "Pending" /\ NoFault
        /\ IF polls[r] + 1 = MaxPolls THEN JobEnds(r, "deploy", "failure") ELSE UNCHANGED jobs
     \/ JobEnds(r, "deploy", "failure") /\ ReleaseFault
  /\ UNCHANGED <<delivery, tarball, outputs, report, command, instance, conformance>>

-----------------------------------------------------------------------------
(* A job that is lost, and the run's conformance report.                   *)

LoseJob(r) ==
  /\ \E j \in RunJobs :
       jobs[r][j] = "pending" /\ JobEnds(r, j, "cancelled")
  /\ ReleaseFault
  /\ UNCHANGED <<delivery, tarball, outputs, report, command, instance, polls, conformance>>

\* The caller's observations.  A job that was skipped has no outputs.
Observed(r) ==
  LET s == delivery[r].source
      v == delivery[r].review
      o == outputs[r]
      status(j) == [status |-> jobs[r][j]]
  IN [c \in AllControls |->
        CASE c \in ScanControls -> [status |-> s.controls[c]]
          [] c = "source-gate" ->
               [status |-> s.gateJob, verdict |-> s.verdict, mode |-> s.mode,
                trusted |-> s.trusted, eligible |-> s.eligible, digest |-> s.digest,
                override |-> o.override]
          [] c = "image-scan-prepush" ->
               [status |-> jobs[r]["image-security"], verdict |-> o.prepush,
                mode |-> delivery[r].mode, trusted |-> o.trusted]
          [] c = "break-glass" ->
               [status |-> v.result, decision |-> v.status, delivered |-> v.delivered,
                digest |-> v.digest, delegated |-> s.delegated]
          [] c = "registry-scan-collect" -> status("ecr-collect")
          [] c = "artifact-gate" ->
               [status |-> jobs[r]["artifact-gate"], verdict |-> o.artifact]
          [] c = "gated-deploy" -> status("deploy")]

\* No report is made of a declaration or an exemption that is not understood.
Conform(r) ==
  /\ conformance[r] = NotMade /\ \A j \in RunJobs : jobs[r][j] # "pending"
  /\ CapabilitiesResolved(delivery[r].run.capabilities)
  /\ \A e \in Elements(delivery[r].run.exemptions) : ExemptionValid(e)
  /\ LET built == BuildConformance(delivery[r].run, Observed(r))
     IN conformance' = [conformance EXCEPT ![r] =
          [made |-> TRUE, controls |-> built.controls, warned |-> built.warned]]
  /\ UNCHANGED <<delivery, tarball, jobs, outputs, report, command, instance, polls,
                 releaseFaults>>

\* The runner's own steps, and those of the instance and of fate.
RunnerStep(r) ==
  \/ SecurityGate(r) \/ ImageSecurity(r) \/ Collect(r) \/ ArtifactGate(r)
  \/ Send(r) \/ Poll(r) \/ Conform(r)
InstanceStep(r) == Pull(r) \/ Remove(r) \/ RunContainer(r) \/ Prune(r) \/ CommandStops(r)

ReleaseNext ==
  \E r \in Releases : RunnerStep(r) \/ InstanceStep(r) \/ SwapTarball(r) \/ LoseJob(r)

ReleaseSpec == ReleaseInit /\ [][ReleaseNext]_releaseVars

-----------------------------------------------------------------------------
(* Properties.                                                             *)

\* What really is in an image calls for stopping it.
Unfit(image) ==
  \/ image.secrets # {} \/ image.family = None \/ image.endOfLife
  \/ \E v \in Elements(image.vulns) :
       v.severity \in {"CRITICAL", "HIGH", "UNTRIAGED"} /\ v.fix # "NO"

\* An approval of exactly the gate of the run's source workflow.
SourceAuthorized(d) ==
  \/ d.source.verdict = "PASS" \/ d.source.mode = "log-only"
  \/ d.source.gateJob = "success"
  \/ d.review.status = "approved" /\ d.review.digest = d.source.digest

\* Every container the instance runs is that of a run whose source was passed or
\* approved, and, unless the run enforces nothing, one that is fit: whatever a scanner or
\* registry left out, whichever image slipped in, and however two deployments interleave.
DeployedIsGated ==
  instance.running # NoImage =>
    \E r \in Releases :
      /\ outputs[r].digest = instance.running
      /\ SourceAuthorized(delivery[r])
      /\ ~LogOnly(r) => ~Unfit(instance.running)

\* A deployment that reports success has started its own image, and that is the one that
\* runs unless another run's command reached the instance.
SuccessMeansRunning ==
  \A r \in Releases :
    jobs[r]["deploy"] = "success" =>
      /\ outputs[r].digest \in instance.started
      /\ (\A q \in Releases \ {r} : command[q] \in {"none", "sent", "pulled"}) =>
           instance.running = outputs[r].digest

\* The conformance report and the final gate read the same facts apart from each other:
\* a block the final gate lets pass as approved is reported as overridden by an observed
\* approval, and no report without a failed control hides a block of either image gate, a
\* source block nobody approved, or a deployment that did not happen.
ConformanceIsHonest ==
  \A r \in Releases :
    LET d == delivery[r]
    IN conformance[r] # NotMade /\ d.run.strict /\ d.run.exemptions = <<>> =>
         /\ outputs[r].override = "approved" /\ d.run.breakGlass =>
              /\ conformance[r].controls["source-gate"].why = "overridden"
              /\ conformance[r].controls["break-glass"].why = "approved"
         /\ Conformant(conformance[r]) /\ d.run.phase = "delivery" /\ ~LogOnly(r) =>
              /\ SourceAuthorized(d) /\ jobs[r]["security-gate"] = "success"
              /\ \A c \in ScanControls : d.source.controls[c] = "success"
              /\ jobs[r]["deploy"] = "success" /\ ~Unfit(outputs[r].digest)

=============================================================================
