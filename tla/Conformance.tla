----------------------------- MODULE Conformance -----------------------------
(***************************************************************************)
(* conformance.mjs: what a workflow run's jobs say of the controls its     *)
(* repository requires, and which of that is believed.                     *)
(*                                                                         *)
(* An observation is what a caller passes for one control: the status of   *)
(* its job and, for some controls, further outputs.  Unset is an output of *)
(* a job that did not run; an observation without a field is incomplete.   *)
(* A gate's digest is the gate itself.  The wording of reasons is left out *)
(* but not what each of them claims.                                       *)
(***************************************************************************)
EXTENDS Integers, Sequences, FiniteSets

CONSTANT Unset      \* an empty output, a missing value

\* The controls, by what their result means, and where they run.
ScanControls == {"secret-scan", "dependency-scan", "sast"}
GateControls == {"source-gate", "image-scan-prepush", "artifact-gate"}
DeliveryControls == {"registry-scan-collect", "gated-deploy"}
AllControls == ScanControls \cup GateControls \cup DeliveryControls \cup {"break-glass"}

Kind(c) ==
  CASE c \in ScanControls -> "scan"
    [] c \in GateControls -> "gate"
    [] c \in DeliveryControls -> "delivery"
    [] c = "break-glass" -> "approval"

Phases == {"pr", "delivery"}
PhasesOf(c) ==
  IF c \in DeliveryControls \cup {"artifact-gate"} THEN {"delivery"} ELSE Phases

-----------------------------------------------------------------------------
(* What a repository is, and which controls that gives a subject.          *)

CapabilityValues ==
  [artifact |-> {"container", "archive", "library", "none"}, registry |-> {"ecr", "none"},
   deploy |-> {"framework-gated", "self-managed", "none"}]

\* A declaration that contradicts itself would hide a control; none is accepted.
Coherent(d) ==
  /\ d.registry # "none" => d.artifact = "container"
  /\ d.deploy = "framework-gated" => d.artifact = "container" /\ d.registry # "none"

CapabilitiesResolved(d) ==
  /\ \A k \in DOMAIN CapabilityValues : d[k] \in CapabilityValues[k]
  /\ Coherent(d)

AppliesWhen(c, d, breakGlass) ==
  CASE c = "image-scan-prepush" -> d.artifact = "container"
    [] c \in {"registry-scan-collect", "artifact-gate"} ->
         d.artifact = "container" /\ d.registry # "none"
    [] c = "gated-deploy" -> d.deploy = "framework-gated"
    [] c = "break-glass" -> breakGlass
    [] OTHER -> TRUE

\* An exemption without an owner, a reason or a date, or for no control, is refused.
ExemptionValid(e) ==
  e.control \in AllControls /\ e.owner # Unset /\ e.reason # Unset /\ e.expires # Unset

-----------------------------------------------------------------------------
(* What one observed result says.                                          *)

Explained(passed, why) == [passed |-> passed, why |-> why]

PassedStatuses == {"pass", "passed", "success", "applied"}
FailedStatuses == {"failure", "fail", "failed"}
BlockingVerdicts == {"BLOCK", "BLOCK_DEPLOY"}

\* A field an observation may lack.
Field(o, f) == IF f \in DOMAIN o THEN o[f] ELSE Unset

ExplainPassed(c, o) ==
  CASE Kind(c) = "scan" -> Explained(TRUE, "trustworthy")
    [] Kind(c) = "gate" /\ Field(o, "verdict") \in BlockingVerdicts ->
         Explained(TRUE, IF Field(o, "trusted") = FALSE THEN "unknown"
                         ELSE IF Field(o, "mode") = "log-only" THEN "not-enforced"
                         ELSE "not-failed")
    [] OTHER -> Explained(TRUE, "passed")

ExplainFailed(c, o) ==
  CASE Kind(c) = "scan" -> Explained(FALSE, "unknown")
    [] Kind(c) = "gate" /\ Field(o, "verdict") \in BlockingVerdicts ->
         Explained(FALSE, IF Field(o, "trusted") = FALSE THEN "unknown" ELSE "policy")
    [] Kind(c) = "gate" /\ Field(o, "verdict") \notin BlockingVerdicts ->
         Explained(FALSE, "incomplete")
    [] OTHER -> Explained(FALSE, "job")

\* A bug to check the properties against: a job that was skipped did not fail.
ExplainObservedUnlessFailed(c, o) ==
  CASE o.status \in PassedStatuses \cup {"skipped"} -> ExplainPassed(c, o)
    [] o.status \in FailedStatuses -> ExplainFailed(c, o)
    [] OTHER -> Explained(FALSE, "unrecognized")

ExplainObserved(c, o) ==
  CASE o.status \in PassedStatuses -> ExplainPassed(c, o)
    [] o.status \in {Unset, "skipped"} -> Explained(FALSE, "not-run")
    [] o.status = "cancelled" \/ (o.status = "untrusted" /\ Kind(c) = "scan") ->
         Explained(FALSE, IF Kind(c) = "scan" THEN "unknown" ELSE "not-completed")
    [] o.status \in FailedStatuses -> ExplainFailed(c, o)
    [] OTHER -> Explained(FALSE, "unrecognized")

-----------------------------------------------------------------------------
(* Strict break-glass evidence.                                            *)

BreakGlassFields == {"status", "decision", "delivered", "digest", "delegated"}

\* A source gate whose block an approval may override.
OverridableBlock(sg) ==
  /\ Field(sg, "verdict") = "BLOCK" /\ Field(sg, "trusted") = TRUE
  /\ Field(sg, "eligible") = TRUE /\ Field(sg, "mode") = "enforce"

\* Nothing was delegated, and nothing says otherwise.
NotExercised(bg, sg) ==
  /\ bg.status = "skipped" /\ bg.decision \in {Unset, "not-applicable"}
  /\ bg.delivered \in {Unset, FALSE} /\ bg.digest = Unset
  /\ Field(sg, "override") = Unset
  /\ ~OverridableBlock(sg)

\* An approval that was delivered and decided for exactly this gate.
ApprovedFor(bg, sg) ==
  /\ bg.status = "success" /\ bg.decision = "approved" /\ bg.delivered = TRUE
  /\ bg.digest # Unset /\ bg.digest = Field(sg, "digest")
  /\ OverridableBlock(sg)

ExplainBreakGlass(bg, sg) ==
  CASE ~(BreakGlassFields \subseteq DOMAIN bg) -> Explained(FALSE, "incomplete")
    [] BreakGlassFields \subseteq DOMAIN bg /\ sg.status = Unset -> Explained(FALSE, "incomplete")
    [] OTHER ->
         CASE bg.delegated = FALSE ->
                IF NotExercised(bg, sg) THEN Explained(TRUE, "not-exercised")
                ELSE Explained(FALSE, "contradictory")
           [] bg.delegated # FALSE /\ bg.delegated # TRUE -> Explained(FALSE, "incomplete")
           [] bg.delegated = TRUE ->
                IF bg.status \in {"skipped", Unset, "cancelled"} THEN Explained(FALSE, "not-run")
                ELSE IF bg.decision \in {"denied", "expired", "timeout", "refused"}
                     THEN Explained(FALSE, "not-approved")
                ELSE IF ApprovedFor(bg, sg) THEN Explained(TRUE, "approved")
                ELSE Explained(FALSE, "not-verified")

\* A source gate's claim to have been overridden.
OverrideVerified(sg, observed, breakGlass) ==
  /\ breakGlass
  /\ "break-glass" \in DOMAIN observed
  /\ LET bg == observed["break-glass"]
     IN ApprovedFor([status |-> Field(bg, "status"), decision |-> Field(bg, "decision"),
                     delivered |-> Field(bg, "delivered"), digest |-> Field(bg, "digest")], sg)

-----------------------------------------------------------------------------
(* The report.                                                             *)

\* A bug to check the properties against: a control is judged by its job's status alone.
JudgeByStatus(c, observed, breakGlass, strict) == ExplainObserved(c, observed[c])

Judge(c, observed, breakGlass, strict) ==
  LET o == observed[c]
      believed == IF c = "break-glass" /\ strict
                  THEN ExplainBreakGlass(o, IF "source-gate" \in DOMAIN observed
                                            THEN observed["source-gate"]
                                            ELSE [status |-> Unset])
                  ELSE ExplainObserved(c, o)
  IN IF c = "source-gate" /\ strict /\ Field(o, "override") = "approved"
     THEN IF OverrideVerified(o, observed, breakGlass) THEN Explained(TRUE, "overridden")
          ELSE Explained(FALSE, "override-claimed")
     ELSE believed

\* The first exemption that names a control is the one that counts.
ExemptionFor(c, run) ==
  {run.exemptions[i] : i \in {j \in DOMAIN run.exemptions :
     /\ run.exemptions[j].control = c
     /\ \A k \in 1 .. j - 1 : run.exemptions[k].control # c}}
Exempt(c, run) == \E e \in ExemptionFor(c, run) : e.expires >= run.now
Expired(c, run) == \E e \in ExemptionFor(c, run) : e.expires < run.now

Expected(c, run) ==
  AppliesWhen(c, run.capabilities, run.breakGlass) /\ run.phase \in PhasesOf(c)

\* Each control's status; `run' holds everything that decides it but the observations.
ControlStatus(c, run, observed) ==
  CASE ~AppliesWhen(c, run.capabilities, run.breakGlass) ->
         [status |-> "not-applicable", why |-> "capabilities"]
    [] ~Expected(c, run) /\ AppliesWhen(c, run.capabilities, run.breakGlass) ->
         [status |-> "deferred", why |-> "phase"]
    [] OTHER ->
         IF Exempt(c, run) THEN [status |-> "exempt", why |-> "exemption"]
         ELSE IF c \notin DOMAIN observed THEN [status |-> "failed", why |-> "not-observed"]
         ELSE LET e == Judge(c, observed, run.breakGlass, run.strict)
              IN [status |-> IF e.passed THEN "applied" ELSE "failed", why |-> e.why]

\* A result nobody expected, an expired exemption, evidence of the old kind.
Warned(c, run, observed) ==
  \/ c \in DOMAIN observed /\ ~Expected(c, run)
  \/ Expected(c, run) /\ Expired(c, run)
  \/ /\ Expected(c, run) /\ ~Exempt(c, run) /\ c \in DOMAIN observed /\ ~run.strict
     /\ c = "break-glass" \/ (c = "source-gate" /\ Field(observed[c], "override") # Unset)

BuildConformance(run, observed) ==
  [controls |-> [c \in AllControls |-> ControlStatus(c, run, observed)],
   warned |-> {c \in AllControls : Warned(c, run, observed)}]

WithStatus(report, status) == {c \in AllControls : report.controls[c].status = status}

\* The script's exit.
Conformant(report) == WithStatus(report, "failed") = {}

=============================================================================
