----------------------------- MODULE SourceScan -----------------------------
(***************************************************************************)
(* The scanning jobs of one source run and its source gate: three jobs that*)
(* run scanners over the same commit in parallel, check what those wrote,  *)
(* and upload it whatever happened; and the gate, which evaluates whatever *)
(* it could download.  SourcePolicy is the evaluation.                     *)
(*                                                                         *)
(* A checkout is a record of the commit: its tracked lockfiles, the        *)
(* weaknesses that are really in it, and the gate's own inputs.  Scanners  *)
(* are external: one that ends as its exit status promises reports what is *)
(* there; a fault is any other end, with a report cut short or none.       *)
(***************************************************************************)
EXTENDS SourcePolicy

CONSTANTS Checkouts,      \* commits to scan
          MaxPulls,       \* attempts to pull the scanner's image
          ScanMaxFaults   \* bound on faults

ASSUME SourceScanAssumption == MaxPulls \in Nat \ {0} /\ ScanMaxFaults \in Nat

VARIABLES
  checkout,    \* the commit
  job,         \* per scanning job: the step it is at and its result so far
  files,       \* the reports in the jobs' workspaces, and the execution record
  artifact,    \* what each job uploaded, or "none"
  pulls,       \* failed attempts to pull the scanner's image
  gate,        \* the gate's result, or NoGate
  scanFaults   \* faults so far

scanVars == <<checkout, job, files, artifact, pulls, gate, scanFaults>>

Jobs == {"secret-scan", "dependency-scan", "sast"}

\* Each job's steps; a step that fails skips to the upload, which always runs.
Steps(j) ==
  CASE j = "secret-scan" -> <<"gitleaks", "trufflehog", "validate", "upload", "end">>
    [] j = "dependency-scan" ->
         <<"npm-audit", "pip-audit", "osv", "osv-roots", "upload", "end">>
    [] j = "sast" -> <<"configure", "acquire", "scan", "complete", "upload", "end">>

Outputs(j) ==
  CASE j = "secret-scan" -> {"gitleaks", "trufflehog"}
    [] j = "dependency-scan" -> {"npm", "nested", "osvRoots", "pip", "osv"}
    [] j = "sast" -> {"semgrep", "execution"}
Reports == UNION {Outputs(j) : j \in Jobs}

NoReports == [r \in Reports |-> NoFile]
NoGate == [made |-> FALSE]

ScanInit ==
  /\ checkout \in Checkouts
  /\ job = [j \in Jobs |-> [step |-> Steps(j)[1], result |-> "success"]]
  /\ files = NoReports
  /\ artifact = [j \in Jobs |-> "none"]
  /\ pulls = 0 /\ gate = NoGate /\ scanFaults = 0

At(j, step) == gate = NoGate /\ job[j].step = step
Following(j) == Steps(j)[1 + CHOOSE i \in DOMAIN Steps(j) : Steps(j)[i] = job[j].step]

Finish(j, ok) ==
  job' = [job EXCEPT ![j] = IF ok THEN [@ EXCEPT !.step = Following(j)]
                            ELSE [step |-> "upload", result |-> "failure"]]

ScanFault == scanFaults < ScanMaxFaults /\ scanFaults' = scanFaults + 1
Sound == UNCHANGED scanFaults

-----------------------------------------------------------------------------
(* The npm dependency roots of a checkout: the directories of its tracked  *)
(* lockfiles.  `place' says what is odd about a path, if anything.         *)

NpmLockfiles == {"npm-shrinkwrap.json", "package-lock.json"}

\* Paths that are refused by their text, and places that may lead out of the checkout.
UnsafePath(f) ==
  f.place \in {"empty", "control-character", "backslash", "absolute", "parent", "dot-segment"}
Unconfined(f) ==
  f.place \in {"unreadable", "linked-directory", "no-directory", "linked-lockfile", "no-file",
              "resolves-outside"}

Locks(c) == {f \in c.tracked : f.name \in NpmLockfiles /\ f.place # "node_modules"}

\* npm reads a shrinkwrap before a package-lock.
Chosen(c) ==
  {f \in Locks(c) :
     /\ ~UnsafePath(f)
     /\ f.name = "package-lock.json" =>
          ~\E g \in Locks(c) : g.dir = f.dir /\ g.name # f.name /\ ~UnsafePath(g)}

RootsOf(c) ==
  {[root |-> f.dir, lockfile |-> <<f.dir, f.name>>] : f \in {g \in Chosen(c) : ~Unconfined(g)}}

\* A bug to check the properties against: a linked lockfile is left out quietly.
DiscoverQuietly(c) ==
  [roots |-> RootsOf(c), rejected |-> {f \in Locks(c) : UnsafePath(f)}]

\* A directory or lockfile behind a symbolic link, and a path that leaves the
\* checkout, are refused: nobody would audit them.
Discover(c) ==
  [roots |-> RootsOf(c),
   rejected |-> {f \in Locks(c) : UnsafePath(f)}
                \cup {f \in Chosen(c) : Unconfined(f)}]

\* The lockfiles npm installs from: a shrinkwrap before a package-lock.
Installed(c) ==
  {<<f.dir, f.name>> : f \in {g \in Locks(c) :
     g.name = "package-lock.json" =>
       ~\E h \in Locks(c) : h.dir = g.dir /\ h.name = "npm-shrinkwrap.json"}}

\* What is known of a commit's dependencies: an advisory once for each lockfile, in npm's
\* words, with scores to match if OSV alone knows it; and one of a Python package says the
\* same wherever it is listed.
DependenciesTyped(c) ==
  /\ IsFiniteSet(c.tracked) /\ DOMAIN c.advisories = Installed(c)
  /\ \A l \in Installed(c) :
       /\ IsFiniteSet(c.advisories[l])
       /\ \A a, b \in c.advisories[l] : a.id = b.id => a = b
       /\ \A a \in c.advisories[l] :
            /\ KnownSeverity(a.severity) /\ a.fix \in {"yes", "no", "other-package"}
            /\ PolicyValid(c.policy) /\ ~a.npm /\ ~a.malicious =>
                 OsvSeverity(c.policy, a) = NormalizeSeverity(a.severity)
  /\ c.python \in Seq({c.python[i] : i \in DOMAIN c.python})
  /\ \A i, j \in DOMAIN c.python :
       /\ c.python[i].malicious \/ c.python[i].fix \in {"yes", "no"}
       /\ <<c.python[i].package, c.python[i].id>> = <<c.python[j].package, c.python[j].id>> =>
            c.python[i] = c.python[j]

ASSUME CheckoutsAssumption == \A c \in Checkouts : DependenciesTyped(c)

-----------------------------------------------------------------------------
(* What scanners report of what is there.                                  *)

NpmReport(c, lockfile) ==
  LET known == {a \in c.advisories[lockfile] : a.npm}
  IN [state |-> "ok", total |-> Cardinality(known),
      vulns |-> {[id |-> a.id, severity |-> a.severity, fix |-> a.fix] : a \in known}]

OsvReport(c, lockfiles) ==
  [state |-> "ok",
   results |-> {[path |-> l,
                 vulns |-> {[id |-> a.id, malicious |-> a.malicious, scores |-> a.scores,
                             affected |-> {[same |-> TRUE, fixed |-> a.fix # "no"]}] :
                              a \in c.advisories[l]}] :
                  l \in {k \in lockfiles : c.advisories[k] # {}}}]

Ends(findings, report, cut) ==
  {[exit |-> IF findings THEN 1 ELSE 0, report |-> report]}
  \cup [exit : {1, 2}, report : {NoFile, [state |-> "malformed"], cut}]

\* External: a scanner ends as it promises, or by a fault in any other way.
Scanned(answer, findings, report) ==
  IF answer = [exit |-> IF findings THEN 1 ELSE 0, report |-> report] THEN Sound ELSE ScanFault

Write(r, report) == files' = [files EXCEPT ![r] = report]

-----------------------------------------------------------------------------
(* Secret scanning: exit statuses are those of failures only.              *)

SecretScan(step, report, found) ==
  /\ At("secret-scan", step)
  /\ \E a \in Ends(FALSE, [state |-> "ok", secrets |-> found],
                   [state |-> "ok", secrets |-> {}]) :
       /\ Scanned(a, FALSE, [state |-> "ok", secrets |-> found])
       /\ IF step = "trufflehog" /\ a.exit # 0 THEN UNCHANGED files ELSE Write(report, a.report)
       /\ Finish("secret-scan", a.exit = 0)
  /\ UNCHANGED <<checkout, artifact, pulls, gate>>

Gitleaks == SecretScan("gitleaks", "gitleaks", checkout.patterns)
\* TruffleHog's lines are made a report only when it did not fail.
Trufflehog == SecretScan("trufflehog", "trufflehog", checkout.credentials)

ValidateSecretReports ==
  /\ At("secret-scan", "validate")
  /\ Finish("secret-scan", files["gitleaks"].state = "ok" /\ files["trufflehog"].state = "ok")
  /\ UNCHANGED <<checkout, files, artifact, pulls, gate, scanFaults>>

-----------------------------------------------------------------------------
(* Dependency scanning.                                                    *)

\* One audit of each root, attempted until it reports, up to a limit.  A report that
\* miscounts passes here; the gate will not take it.
NpmFailed == [state |-> "malformed"]
Miscounted == [state |-> "ok", total |-> 1, vulns |-> {}]
ValidNpmReport(report) == report.state = "ok"

Locked(c) == {r.lockfile : r \in Discover(c).roots}
Truthful(c) == [l \in Locked(c) |-> NpmReport(c, l)]
Audits(c) ==
  {audit \in [Locked(c) -> {NpmFailed, Miscounted} \cup {NpmReport(c, l) : l \in Locked(c)}] :
     \A l \in Locked(c) : audit[l] \in {NpmReport(c, l), NpmFailed, Miscounted}}

\* What is written of the repository's top directory, and of its other roots.
TopAudit(c, audit) ==
  IF \E r \in Discover(c).roots : r.root = "."
  THEN audit[(CHOOSE r \in Discover(c).roots : r.root = ".").lockfile]
  ELSE NoFile

NestedEntries(c, audit) ==
  {[root |-> r.root, lockfile |-> r.lockfile,
    status |-> IF ValidNpmReport(audit[r.lockfile]) THEN "valid" ELSE "invalid",
    report |-> audit[r.lockfile]] : r \in {x \in Discover(c).roots : x.root # "."}}

NestedAudits(c, audit) ==
  LET entries == NestedEntries(c, audit) IN
  IF entries = {} /\ Discover(c).rejected = {} THEN NoFile
  ELSE [state |-> "ok", rejected |-> Discover(c).rejected,
        roots |-> CHOOSE s \in [1..Cardinality(entries) -> entries] :
                    entries = {s[i] : i \in DOMAIN s}]

NpmAudit ==
  /\ At("dependency-scan", "npm-audit")
  /\ \E audit \in Audits(checkout) :
       /\ IF audit = Truthful(checkout) THEN Sound ELSE ScanFault
       /\ files' = [files EXCEPT !["npm"] = TopAudit(checkout, audit),
                                !["nested"] = NestedAudits(checkout, audit)]
       /\ Finish("dependency-scan",
            /\ Discover(checkout).rejected = {}
            /\ \A l \in Locked(checkout) : ValidNpmReport(audit[l]))
  /\ UNCHANGED <<checkout, artifact, pulls, gate>>

\* A bug to check the properties against: any valid report excuses exit 1.
ExitAcceptedIfOne(exit, findings) == exit \in {0, 1}

\* Exit 1 means findings only if the report lists one.
ExitAccepted(exit, findings) == exit = 0 \/ (exit = 1 /\ findings)

PipAudit ==
  /\ At("dependency-scan", "pip-audit")
  /\ IF ~checkout.requirements
     THEN Sound /\ UNCHANGED files /\ Finish("dependency-scan", TRUE)
     ELSE LET truth == [state |-> "ok", vulns |-> checkout.python]
              found == checkout.python # <<>>
          IN \E a \in Ends(found, truth, [state |-> "ok", vulns |-> <<>>]) :
               /\ Scanned(a, found, truth)
               /\ Write("pip", a.report)
               /\ Finish("dependency-scan",
                    a.report.state = "ok" /\ ExitAccepted(a.exit, a.report.vulns # <<>>))
  /\ UNCHANGED <<checkout, artifact, pulls, gate>>

\* OSV-Scanner's own walk leaves out what the repository ignores.
Walked(c) == {f.lockfile : f \in {r \in Discover(c).roots : r.root \notin c.ignored}}

Osv ==
  /\ At("dependency-scan", "osv")
  /\ LET truth == OsvReport(checkout, Walked(checkout))
         found == truth.results # {}
     IN \E a \in Ends(found, truth, [state |-> "ok", results |-> {}]) :
          /\ Scanned(a, found, truth)
          /\ Write("osv", a.report)
          /\ Finish("dependency-scan",
               a.report.state = "ok" /\ ExitAccepted(a.exit, a.report.results # {}))
  /\ UNCHANGED <<checkout, artifact, pulls, gate>>

\* The run that names every root's lockfile.
OsvRoots ==
  LET rejected == Discover(checkout).rejected
      truth == OsvReport(checkout, Locked(checkout))
  IN /\ At("dependency-scan", "osv-roots")
     /\ IF rejected # {} \/ Locked(checkout) = {}
        THEN Sound /\ UNCHANGED files /\ Finish("dependency-scan", rejected = {})
        ELSE \E a \in Ends(truth.results # {}, truth, [state |-> "ok", results |-> {}]) :
               /\ Scanned(a, truth.results # {}, truth)
               /\ IF a.report.state # "ok" THEN UNCHANGED files
                  ELSE Write("osvRoots", [state |-> "ok", lockfiles |-> Locked(checkout),
                                          results |-> a.report.results])
               /\ Finish("dependency-scan",
                    a.report.state = "ok" /\ ExitAccepted(a.exit, a.report.results # {}))
     /\ UNCHANGED <<checkout, artifact, pulls, gate>>

-----------------------------------------------------------------------------
(* SAST, with a record of how its scanner was obtained and ended.          *)

Record(state, cause) == [state |-> state, cause |-> cause]

\* Why a pull failed, and whether a registry may recover from it.
PullCauses == {"not-started", "timed-out", "rate-limit", "auth", "not-found", "network", "other"}
AcquisitionCause(c) ==
  CASE c \in {"timed-out", "network"} -> "registry-network"
    [] c = "rate-limit" -> "registry-rate-limit"
    [] c = "auth" -> "registry-auth"
    [] c = "not-found" -> "image-not-found"
    [] OTHER -> "unknown"
Retryable(c) == AcquisitionCause(c) \in {"registry-network", "registry-rate-limit"}

ExecutionCause(exit) ==
  CASE exit \in {4, 5, 6, 7, 8, 13} -> "scanner-configuration"
    [] exit \in {2, 3, 9, 10, 11, 12, 14, 125, 126, 127, 137, 139, 143} -> "scanner-runtime"
    [] OTHER -> "unknown"

Configure ==
  /\ At("sast", "configure")
  /\ IF checkout.rulesets
     THEN UNCHANGED files /\ Finish("sast", TRUE)
     ELSE /\ Write("execution", Record("execution-failed", "scanner-configuration"))
          /\ Finish("sast", FALSE)
  /\ UNCHANGED <<checkout, artifact, pulls, gate, scanFaults>>

\* The image is on the runner, or a pull brings it.
Acquire ==
  /\ At("sast", "acquire")
  /\ Write("execution", Record("incomplete", "none")) /\ Finish("sast", TRUE)
  /\ UNCHANGED <<checkout, artifact, pulls, gate, scanFaults>>

\* A failed pull is tried again if a registry may recover from its cause.
PullFails(cause) ==
  /\ At("sast", "acquire")
  /\ pulls' = pulls + 1
  /\ IF Retryable(cause) /\ pulls' < MaxPulls
     THEN UNCHANGED <<files, job>>
     ELSE /\ Write("execution", Record("acquisition-failed", AcquisitionCause(cause)))
          /\ Finish("sast", FALSE)
  /\ UNCHANGED <<checkout, artifact, gate, scanFaults>>

\* Semgrep's exit status goes to the next step; a scan with errors in it exits 0.
Semgrep ==
  /\ At("sast", "scan")
  /\ LET truth == [state |-> "ok", errors |-> 0, results |-> checkout.code]
     IN \E a \in {[exit |-> 0, report |-> truth],
                  [exit |-> 0, report |-> [truth EXCEPT !.errors = 1, !.results = {}]],
                  [exit |-> 0, report |-> NoFile]}
                \cup [exit : {1, 7, 137}, report : {NoFile, [state |-> "malformed"],
                                            [truth EXCEPT !.results = {}]}] :
          /\ IF a = [exit |-> 0, report |-> truth] THEN Sound ELSE ScanFault
          /\ Write("semgrep", a.report)
          /\ job' = [job EXCEPT !["sast"] =
                       [step |-> "complete", result |-> "success", exit |-> a.exit]]
  /\ UNCHANGED <<checkout, artifact, pulls, gate>>

\* A bug to check the properties against: the exit status is not asked for.
AssessReportOnly(exit, report) ==
  CASE report.state = "missing" -> Record("report-missing", "report-validation")
    [] SemgrepSound(report) -> Record("success", "none")
    [] OTHER -> Record("report-invalid", "report-validation")

Assess(exit, report) ==
  CASE exit # 0 -> Record("execution-failed", ExecutionCause(exit))
    [] exit = 0 /\ report.state = "missing" -> Record("report-missing", "report-validation")
    [] exit = 0 /\ report.state # "missing" ->
         IF SemgrepSound(report) THEN Record("success", "none")
         ELSE Record("report-invalid", "report-validation")

Complete ==
  /\ At("sast", "complete")
  /\ LET record == Assess(job["sast"].exit, files["semgrep"])
     IN Write("execution", record) /\ Finish("sast", record.state = "success")
  /\ UNCHANGED <<checkout, artifact, pulls, gate, scanFaults>>

-----------------------------------------------------------------------------
(* The end of a job.                                                       *)

\* Uploads whatever files there are; no file at all, or a failed upload, fails the job.
Upload(j) ==
  /\ At(j, "upload")
  /\ \/ /\ \E r \in Outputs(j) : files[r].state # "missing"
        /\ artifact' = [artifact EXCEPT ![j] = "uploaded"] /\ Sound
        /\ job' = [job EXCEPT ![j].step = "end"]
     \/ /\ IF \A r \in Outputs(j) : files[r].state = "missing" THEN Sound ELSE ScanFault
        /\ job' = [job EXCEPT ![j] = [step |-> "end",
                     result |-> IF @.result = "cancelled" THEN "cancelled" ELSE "failure"]]
        /\ UNCHANGED artifact
  /\ UNCHANGED <<checkout, files, pulls, gate>>

\* A cancelled job still uploads; one lost with its runner does not.
EndJob(j) ==
  /\ gate = NoGate /\ job[j].step \notin {"upload", "end"}
  /\ \E step \in {"upload", "end"} :
       job' = [job EXCEPT ![j] = [step |-> step, result |-> "cancelled"]]
  /\ ScanFault
  /\ UNCHANGED <<checkout, files, artifact, pulls, gate>>

-----------------------------------------------------------------------------
(* The source gate runs whatever became of the jobs, on what it downloads. *)

Downloaded(lost) ==
  [r \in Reports |->
     IF \E j \in Jobs : r \in Outputs(j) /\ artifact[j] = "uploaded" /\ j \notin lost
     THEN files[r] ELSE NoFile]

Inputs(c, d) ==
  [policy |-> c.policy, declared |-> c.declared, bootstrap |-> c.bootstrap,
   baseline |-> c.baseline, requirements |-> c.requirements,
   roots |-> Discover(c).roots, rejected |-> Discover(c).rejected,
   gitleaks |-> d["gitleaks"], trufflehog |-> d["trufflehog"], npm |-> d["npm"],
   nested |-> d["nested"], pip |-> d["pip"], osv |-> d["osv"],
   osvRoots |-> d["osvRoots"], semgrep |-> d["semgrep"]]

\* A control's published result: its job's, unless the gate could not use its report.
ControlResult(j, result) ==
  IF job[j].result = "success" /\ result.control = j THEN "untrusted" ELSE job[j].result

EvaluateGate ==
  /\ gate = NoGate /\ \A j \in Jobs : job[j].step = "end"
  /\ \E lost \in {{}} \cup {{j} : j \in Jobs} :
       /\ IF lost = {} THEN Sound ELSE ScanFault
       /\ \E result \in Results(Inputs(checkout, Downloaded(lost))) :
            gate' = [result |-> result, lost |-> lost,
                     controls |-> [j \in Jobs |-> ControlResult(j, result)],
                     execution |-> Downloaded(lost)["execution"]]
  /\ UNCHANGED <<checkout, job, files, artifact, pulls>>

ScanNext ==
  \/ Gitleaks \/ Trufflehog \/ ValidateSecretReports
  \/ NpmAudit \/ PipAudit \/ Osv \/ OsvRoots
  \/ Configure \/ Acquire \/ \E cause \in PullCauses : PullFails(cause)
  \/ Semgrep \/ Complete
  \/ \E j \in Jobs : Upload(j) \/ EndJob(j)
  \/ EvaluateGate

ScanSpec == ScanInit /\ [][ScanNext]_scanVars

-----------------------------------------------------------------------------
(* Properties.                                                             *)

\* The policy's rules for what is really in the commit, read from the commit and not
\* from any report.
MaliciousRule == <<"dependencies", "malicious_package", "any">>
AdvisoryRule(a) == DependencyRule(NormalizeSeverity(a.severity), a.fix # "no")
PipRule(v) == IF v.malicious THEN MaliciousRule ELSE DependencyRule("high", v.fix = "yes")
CodeRule(c, f) ==
  LET severity == SemgrepSeverity(c.policy, f)
  IN <<"sast", severity,
       IF severity \notin Serious THEN "any"
       ELSE IF c.baseline.state = "ok" /\ f.fingerprint \in c.baseline.accepted
            THEN "existing" ELSE "new">>

TrueRules(c) ==
  {<<"secrets", IF s.demo THEN "demo_dummy" ELSE "unverified", "any">> : s \in c.patterns}
  \cup {<<"secrets", IF s.verified THEN "verified" ELSE "unverified", "any">> :
          s \in c.credentials}
  \cup (UNION {{AdvisoryRule(a) : a \in {b \in c.advisories[l] : b.npm \/ ~b.malicious}} :
                l \in DOMAIN c.advisories})
  \cup {MaliciousRule : l \in {k \in DOMAIN c.advisories : \E a \in c.advisories[k] : a.malicious}}
  \cup (IF c.requirements THEN {PipRule(c.python[i]) : i \in DOMAIN c.python} ELSE {})
  \cup {CodeRule(c, f) : f \in c.code}

Overridable(rule) ==
  (rule[1] = "sast" /\ rule[3] = "new") \/ (rule[1] = "dependencies" /\ rule[3] = "with_fix")

\* With every control published as a success, a verdict that does not block means that
\* the policy blocks nothing that is in the commit: whatever scanners, uploads and
\* downloads did, no weakness in any dependency root, secret or source file was
\* overlooked.  And an approver is asked to pass a verdict only if the gate could
\* interpret everything and all the policy blocks in the commit is of the two kinds that
\* may be overridden: no verified credential or malicious package among them.
GreenMeansScanned ==
  gate # NoGate /\ (\A j \in Jobs : gate.controls[j] = "success") =>
    LET blocked == {r \in TrueRules(checkout) : checkout.policy.rules[r] = "BLOCK"} IN
    /\ gate.result.verdict # "BLOCK" => blocked = {}
    /\ gate.result.eligible => gate.result.trusted /\ \A r \in blocked : Overridable(r)

\* Only a control that something happened to is blamed for a report that cannot be
\* used: its job did not succeed, its artifact was lost, a root of it was refused or a
\* report of it fails the gate's stricter reading, as does a finding of a severity that
\* the policy does not map; the gate's own inputs blame the gate.
\* And the execution record calls a scan a success only if its report is whole and what
\* Semgrep found, and blames the registry only for a scan that never ran.
BlameIsDeserved ==
  gate # NoGate =>
    /\ ~gate.result.trusted =>
         IF gate.result.control = "source-gate"
         THEN \/ ~PolicyValid(checkout.policy) \/ ~LifecycleSound(checkout.declared)
              \/ ~BaselineReads(checkout.baseline, checkout.bootstrap, checkout.declared)
              \/ checkout.baseline.state = "shapeless"
         ELSE \/ job[gate.result.control].result # "success"
              \/ gate.result.control \in gate.lost
              \/ gate.result.control = "dependency-scan" /\ scanFaults > 0
              \/ /\ gate.result.control = "sast"
                 /\ \E f \in checkout.code : ~SemgrepSeverityKnown(checkout.policy, f)
    /\ gate.execution.state = "success" =>
         SemgrepSound(files["semgrep"]) /\ files["semgrep"].results = checkout.code
    /\ gate.execution.state = "acquisition-failed" => files["semgrep"] = NoFile /\ pulls > 0

=============================================================================
