----------------------------- MODULE GatePolicy -----------------------------
(***************************************************************************)
(* The decisions of one workflow run, each a pure function of the facts it *)
(* is given: what the source gate's evidence says, whether a break-glass   *)
(* job may act on it and through which broker, what that job reports, and  *)
(* what the final gate makes of it all.                                    *)
(*                                                                         *)
(* A gate (security-gate.json) is a record: the run attempt that made it,  *)
(* the policy rules of its BLOCK findings, those of them it marks as       *)
(* break-glass eligible, the control whose report could not be trusted,    *)
(* and whether it is a bootstrap or a synthetic run.  Its SHA-256 digest   *)
(* identifies it, so a digest is modelled by the gate itself.              *)
(***************************************************************************)
EXTENDS Naturals

CONSTANT Nothing     \* a missing file, an unset value, an empty output

Controls == {"secret-scan", "dependency-scan", "sast"}
Rules == {"sast_new", "dependency_with_fix", "verified_secret",
          "malicious_package", "report_integrity"}

\* The only rules break-glass may ever override.
EligibleRules == {"sast_new", "dependency_with_fix"}

-----------------------------------------------------------------------------
(* What the evidence says.                                                 *)

Verdict(g) == IF g.blocked = {} THEN "PASS" ELSE "BLOCK"
Trusted(g) == "report_integrity" \notin g.blocked
MarkedEligible(g) == g.blocked # {} /\ g.blocked \subseteq g.marked

\* The gate that is written when an input cannot be interpreted.
Distrust(attempt, control, s) ==
  [made |-> attempt, blocked |-> {"report_integrity"}, marked |-> {},
   failed |-> control, bootstrap |-> s.bootstrap, synthetic |-> s.synthetic]

Evaluation(attempt, blocked, markings, s) ==
  [made |-> attempt, blocked |-> blocked, marked |-> blocked \cap markings,
   failed |-> Nothing, bootstrap |-> s.bootstrap, synthetic |-> s.synthetic]

\* A scanning control: its own job's result, downgraded when the gate could not
\* interpret its report.
ControlResult(jobResult, g, c) ==
  IF jobResult = "success" /\ g # Nothing /\ g.failed = c
  THEN "untrusted" ELSE jobResult

\* What the CI-side validator asks of a gate before anything is sent.
Overridable(g) == MarkedEligible(g) /\ g.blocked \subseteq EligibleRules

-----------------------------------------------------------------------------
(* Where break-glass runs, and through which broker.                       *)

DelegateLambda(s) ==
  s.enabled /\ s.mode # "log-only" /\ s.variant = "scan" /\ s.transport = "lambda"
InJob(s) == s.enabled /\ s.mode # "log-only" /\ ~DelegateLambda(s)

\* A broker's function is configured by its name or by its ARN, a record of the
\* name and of which of the two was written; a role always by its ARN.

\* A bug to check the properties against: only the roles are compared.
IsolatedByRole(s) ==
  /\ s.function["synthetic"] # Nothing /\ s.role["synthetic"] # Nothing
  /\ s.role["synthetic"] # s.role["production"]

\* Inside the source gate job the inputs are compared as they were written, so the
\* production function passes for another one when one input spells its ARN.
IsolatedByText(s) ==
  /\ s.function["synthetic"] # Nothing /\ s.role["synthetic"] # Nothing
  /\ s.function["synthetic"] # s.function["production"]
  /\ s.role["synthetic"] # s.role["production"]

\* The delegated job strips the ARN first, and wants production's inputs to compare with.
Isolated(s) ==
  /\ \A r \in {"synthetic", "production"} : s.function[r] # Nothing /\ s.role[r] # Nothing
  /\ s.function["synthetic"].name # s.function["production"].name
  /\ s.role["synthetic"] # s.role["production"]

\* A synthetic gate needs a broker and a role proven different from production's.
Route(synthetic, s) ==
  IF synthetic
  THEN IF Isolated(s) THEN "synthetic" ELSE Nothing
  ELSE IF s.function["production"] # Nothing /\ s.role["production"] # Nothing
       THEN "production" ELSE Nothing

\* Inside the source gate job the isolation was proven before the evaluation; the
\* step that hands the role over still compares it with production's.
InJobRoute(synthetic, s) ==
  LET r == IF synthetic THEN "synthetic" ELSE "production"
  IN IF \/ s.function[r] = Nothing \/ s.role[r] = Nothing
        \/ synthetic /\ s.role["synthetic"] = s.role["production"]
     THEN Nothing ELSE r

RouteFor(rv, s) ==
  IF s.transport = "http" THEN "http"
  ELSE IF rv.place = "in-job" THEN InJobRoute(rv.gate.synthetic, s)
  ELSE Route(rv.gate.synthetic, s)

\* In the source gate job: the CI-side validator, then the broker's configuration.
InJobCheck(g, s) ==
  IF /\ Overridable(g)
     /\ s.transport = "http" \/ InJobRoute(g.synthetic, s) # Nothing
  THEN "accepted" ELSE "refused"

\* Bugs to check the properties against: believing the gate's own marks, and
\* believing whatever evidence was downloaded.
PreflightByMarks(evidence, expected, s) ==
  CASE s.mode # "enforce" \/ evidence = Nothing \/ expected # evidence -> "error"
    [] ~Trusted(evidence) \/ evidence.bootstrap \/ ~MarkedEligible(evidence) -> "refused"
    [] Route(evidence.synthetic, s) = Nothing -> "error"
    [] OTHER -> "accepted"
PreflightOfAnyGate(evidence, expected, s) ==
  CASE s.mode # "enforce" \/ evidence = Nothing -> "error"
    [] ~Trusted(evidence) \/ evidence.bootstrap \/ ~Overridable(evidence) -> "refused"
    [] Route(evidence.synthetic, s) = Nothing -> "error"
    [] OTHER -> "accepted"

\* The delegated job's own examination of the evidence it downloaded, before it
\* holds any credential.
Preflight(evidence, expected, s) ==
  CASE s.mode # "enforce" \/ evidence = Nothing \/ expected # evidence -> "error"
    [] ~Trusted(evidence) \/ evidence.bootstrap \/ ~Overridable(evidence) -> "refused"
    [] Route(evidence.synthetic, s) = Nothing -> "error"
    [] OTHER -> "accepted"

-----------------------------------------------------------------------------
(* What the delegated job reports, and the final gate's conjunction.       *)

NoReview == [result |-> "skipped", status |-> Nothing, delivered |-> FALSE,
             digest |-> Nothing, ran |-> 0]

\* A bug to check the properties against: whatever did not succeed was denied.
ReviewResultByExitCode(rv) ==
  [status |-> IF rv.polled = "success" THEN "approved" ELSE "denied",
   delivered |-> rv.requested = "success",
   digest |-> IF rv.preflight = "accepted" THEN rv.gate ELSE Nothing]

\* `rv' is the review: outcomes of its steps and the files they wrote.
ReviewResult(rv) ==
  LET finish(status, delivered, digest) ==
        [status |-> status, delivered |-> delivered, digest |-> digest]
  IN CASE rv.preflight # "accepted" ->
            finish(IF rv.preflight = "refused" THEN "refused" ELSE "error", FALSE, Nothing)
       [] rv.preflight = "accepted" /\ rv.requested # "success" ->
            finish("error", FALSE, rv.gate)
       [] OTHER ->
            finish(IF \/ rv.decision \in {"denied", "expired", "timeout"}
                      \/ rv.decision = "approved" /\ rv.polled = "success"
                   THEN rv.decision ELSE "error", TRUE, rv.gate)

Blocked == [outcome |-> "block", override |-> Nothing]

\* A bug to check the properties against: the scanning controls are not asked for.
SourceOutcomeWithoutControls(src, bg) ==
  CASE src.result = "success" /\ src.verdict = "PASS" ->
         [outcome |-> "pass", override |-> Nothing]
    [] /\ src.result = "failure" /\ src.verdict = "BLOCK" /\ src.mode = "enforce"
       /\ src.trusted /\ src.eligible /\ src.delegated
       /\ bg.result = "success" /\ bg.status = "approved" /\ bg.delivered
       /\ src.digest # Nothing /\ bg.digest = src.digest ->
         [outcome |-> "overridden-block", override |-> "approved"]
    [] OTHER -> Blocked

SourceOutcome(src, bg) ==
  CASE src.result = "success" /\ src.verdict = "PASS" ->
         [outcome |-> "pass", override |-> Nothing]
    [] src.result = "success" /\ src.verdict # "PASS" /\ src.mode = "log-only" ->
         [outcome |-> "pass", override |-> Nothing]
    [] src.result = "success" /\ src.verdict = "BLOCK" /\ src.mode = "enforce" ->
         [outcome |-> "overridden-block", override |-> "in-job"]
    [] /\ src.result = "failure" /\ src.verdict = "BLOCK" /\ src.mode = "enforce"
       /\ src.trusted /\ src.eligible /\ src.delegated
       /\ \A c \in Controls : src.controls[c] = "success"
       /\ bg.result = "success" /\ bg.status = "approved" /\ bg.delivered
       /\ src.digest # Nothing /\ bg.digest = src.digest ->
         [outcome |-> "overridden-block", override |-> "approved"]
    [] OTHER -> Blocked

=============================================================================
