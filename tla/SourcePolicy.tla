---------------------------- MODULE SourcePolicy ----------------------------
(***************************************************************************)
(* The source gate's evaluation (security-gate.mjs): from a policy and the *)
(* reports of the scanners to findings, their actions, and one result.     *)
(*                                                                         *)
(* A report is a record whose `state' says what reading it meets: no file  *)
(* ("missing"), no JSON ("malformed"), JSON of another shape ("shapeless") *)
(* or "ok"; the other fields hold what the rules tell apart.  A policy     *)
(* rule is a triple of its section, severity and qualifier.  An assertion  *)
(* of the code is a conjunct of one of the ...Sound predicates, and the    *)
(* order in which they are asked decides which control is blamed.          *)
(***************************************************************************)
EXTENDS Integers, Sequences, FiniteSets

Actions == {"BLOCK", "BLOCK_DEPLOY", "EXCEPTION", "LOG"}
Severities == {"critical", "high", "medium", "low"}
Serious == {"critical", "high"}

\* A report's state before anything is written.
NoFile == [state |-> "missing"]

-----------------------------------------------------------------------------
(* The policy.                                                             *)

PolicyRules ==
  {<<"secrets", s, "any">> : s \in {"verified", "unverified", "demo_dummy"}}
  \cup {<<"dependencies", s, q>> : s \in Serious, q \in {"with_fix", "no_fix"}}
  \cup {<<"sast", s, q>> : s \in Serious, q \in {"new", "existing"}}
  \cup {<<c, s, "any">> : c \in {"dependencies", "sast"}, s \in {"medium", "low"}}
  \cup {<<"dependencies", "malicious_package", "any">>}

KnownSeverity(s) == s \in Severities \cup {"moderate", "info"}
NormalizeSeverity(s) ==
  CASE s = "moderate" -> "medium" [] s = "info" -> "low" [] OTHER -> s

BreakGlassKeys == {"sast_new", "dependency_with_fix", "verified_secrets",
                   "malicious_package", "report_integrity"}

PolicyValid(p) ==
  /\ p.state = "ok"
  /\ \A r \in PolicyRules : r \in DOMAIN p.rules /\ p.rules[r] \in Actions
  /\ p.thresholds.critical > p.thresholds.high
  /\ p.thresholds.high > p.thresholds.medium
  /\ \A s \in {"ERROR", "WARNING", "INFO"} : KnownSeverity(p.semgrep[s])
  /\ \A k \in BreakGlassKeys :
       p.breakGlass[k] = IF k \in {"sast_new", "dependency_with_fix"}
                         THEN "ELIGIBLE" ELSE "NEVER"

\* `where' is the set of places a finding names: lockfiles, or a package.
Finding(p, source, where, id, rule) ==
  [source |-> source, where |-> where, id |-> id, rule |-> rule, action |-> p.rules[rule]]

DependencyRule(severity, fix) ==
  <<"dependencies", severity,
    IF severity \in Serious THEN IF fix THEN "with_fix" ELSE "no_fix" ELSE "any">>

-----------------------------------------------------------------------------
(* Secrets.                                                                *)

SecretFindings(p, gitleaks, trufflehog) ==
  {Finding(p, "gitleaks", {}, s.id,
     <<"secrets", IF s.demo THEN "demo_dummy" ELSE "unverified", "any">>) :
       s \in gitleaks.secrets}
  \cup
  {Finding(p, "trufflehog", {}, s.id,
     <<"secrets", IF s.verified THEN "verified" ELSE "unverified", "any">>) :
       s \in trufflehog.secrets}

-----------------------------------------------------------------------------
(* npm: one report per dependency root.                                    *)

NpmSound(r) ==
  /\ r.state = "ok" /\ Cardinality(r.vulns) = r.total
  /\ \A v \in r.vulns : KnownSeverity(v.severity) /\ v.fix \in {"yes", "no", "other-package"}

\* npm names another package to change when the fix lies there: still a fix.
NpmFindings(p, r, lockfiles) ==
  {Finding(p, "npm-audit", lockfiles, v.id,
     DependencyRule(NormalizeSeverity(v.severity), v.fix # "no")) : v \in r.vulns}

\* Exactly one valid entry for each root of the gate's own checkout.
NestedSound(n, expected) ==
  /\ n.state = "ok" /\ n.rejected = {}
  /\ \A i, j \in DOMAIN n.roots : n.roots[i].root = n.roots[j].root => i = j
  /\ {[root |-> n.roots[i].root, lockfile |-> n.roots[i].lockfile] : i \in DOMAIN n.roots}
       = expected
  /\ \A i \in DOMAIN n.roots : n.roots[i].status = "valid"

-----------------------------------------------------------------------------
(* pip: no severity, so high; a package and advisory are taken once, the   *)
(* first time they are listed.                                             *)

PipSound(r) ==
  /\ r.state = "ok"
  /\ \A i \in DOMAIN r.vulns : r.vulns[i].malicious \/ r.vulns[i].fix \in {"yes", "no"}

First(vulns, i) ==
  \A j \in 1..i - 1 : <<vulns[j].package, vulns[j].id>> # <<vulns[i].package, vulns[i].id>>

PipFindings(p, r) ==
  {LET v == r.vulns[i]
   IN Finding(p, "pip-audit", {<<v.package>>}, v.id,
        IF v.malicious THEN <<"dependencies", "malicious_package", "any">>
        ELSE DependencyRule("high", v.fix = "yes")) :
     i \in {j \in DOMAIN r.vulns : First(r.vulns, j)}}

-----------------------------------------------------------------------------
(* OSV-Scanner: the recursive run, and one that names the lockfiles of the *)
(* npm roots.  Scores are in tenths; an advisory may carry none.           *)

OsvRootsSound(o, lockfiles) ==
  /\ o.state = "ok" /\ o.lockfiles = lockfiles
  /\ \A r \in o.results : r.path \in lockfiles

\* A bug to check the properties against: the explicit run is not used.
MergeNothing(osv, extra) == osv

\* A lockfile both runs report is taken from the recursive run.
MergeOsv(osv, extra) ==
  IF osv.state # "ok" THEN osv
  ELSE [osv EXCEPT !.results =
          @ \cup {r \in extra : r.path \notin {s.path : s \in osv.results}}]

HighestScore(v) == CHOOSE s \in v.scores : \A t \in v.scores : t <= s

OsvSeverity(p, v) ==
  IF v.scores = {} THEN "high"
  ELSE LET s == HighestScore(v)
       IN CASE s >= p.thresholds.critical -> "critical"
            [] s < p.thresholds.critical /\ s >= p.thresholds.high -> "high"
            [] s < p.thresholds.high /\ s >= p.thresholds.medium -> "medium"
            [] OTHER -> "low"

\* The affected ranges are searched for the scanned package's own.
OsvHasFix(v) == \E a \in v.affected : a.same /\ a.fixed

OsvSound(osv) ==
  /\ osv.state = "ok"
  /\ \A r \in osv.results : \A v \in r.vulns :
       v.malicious \/ \E a \in v.affected : a.same

OsvFindings(p, osv) ==
  UNION {{Finding(p, "osv-scanner", {r.path}, v.id,
            IF v.malicious THEN <<"dependencies", "malicious_package", "any">>
            ELSE DependencyRule(OsvSeverity(p, v), OsvHasFix(v))) : v \in r.vulns} :
         r \in osv.results}

-----------------------------------------------------------------------------
(* Semgrep and the accepted baseline.                                      *)

BaselineStates == {"absent", "accepted"}
LifecycleSound(declared) == declared \in BaselineStates \cup {"unspecified"}

\* `entry' is what lies at the baseline's path, the accepted set included; any
\* entry contradicts `absent', and a bootstrap only ever makes a first baseline.
BaselineReads(entry, bootstrap, declared) ==
  CASE declared = "accepted" -> ~bootstrap /\ entry.state \in {"ok", "shapeless"}
    [] declared = "absent" -> entry.state = "missing"
    [] OTHER -> IF bootstrap THEN entry.state = "missing"
                ELSE entry.state \in {"ok", "shapeless"}

\* What is accepted: nothing while there is no baseline.
Accepted(entry) == IF entry.state = "ok" THEN entry.accepted ELSE {}
BaselineSound(entry) == entry.state \in {"ok", "missing"}

SemgrepSeverityKnown(p, f) == f.severity \in Severities \cup DOMAIN p.semgrep
SemgrepSeverity(p, f) ==
  IF f.severity \in Severities THEN f.severity ELSE NormalizeSeverity(p.semgrep[f.severity])

SemgrepSound(r) == r.state = "ok" /\ r.errors = 0

SemgrepFindings(p, r, accepted) ==
  {LET severity == SemgrepSeverity(p, f)
   IN Finding(p, "semgrep", {}, f.fingerprint,
        <<"sast", severity,
          IF severity \notin Serious THEN "any"
          ELSE IF f.fingerprint \in accepted THEN "existing" ELSE "new">>) :
     f \in r.results}

-----------------------------------------------------------------------------
(* Break-glass eligibility is the policy's, never the scanner's.           *)

\* A bug to check the properties against: every dependency finding has a fix.
BreakGlassKeyBySection(rule) ==
  CASE rule[1] = "sast" /\ rule[3] = "new" -> "sast_new"
    [] rule[1] = "dependencies" -> "dependency_with_fix"
    [] rule = <<"secrets", "verified", "any">> -> "verified_secrets"
    [] OTHER -> "report_integrity"

BreakGlassKey(rule) ==
  CASE rule[1] = "sast" /\ rule[3] = "new" -> "sast_new"
    [] rule[1] = "dependencies" /\ rule[3] = "with_fix" -> "dependency_with_fix"
    [] rule = <<"secrets", "verified", "any">> -> "verified_secrets"
    [] rule = <<"dependencies", "malicious_package", "any">> -> "malicious_package"
    [] OTHER -> "report_integrity"

EligibleFinding(p, f) == f.action = "BLOCK" /\ p.breakGlass[BreakGlassKey(f.rule)] = "ELIGIBLE"

GateVerdict(findings) ==
  CASE \E f \in findings : f.action = "BLOCK" -> "BLOCK"
    [] /\ ~\E f \in findings : f.action = "BLOCK"
       /\ \E f \in findings : f.action = "EXCEPTION" -> "PASS-WITH-EXCEPTIONS"
    [] OTHER -> "PASS"

-----------------------------------------------------------------------------
(* One evaluation.  `e' holds the policy, the declared baseline state, what*)
(* lies in the gate's checkout and the reports it downloaded.              *)

NestedRoots(e) == {r \in e.roots : r.root # "."}
TopRoot(e) == {r \in e.roots : r.root = "."}
Lockfiles(e) == {r.lockfile : r \in e.roots}

\* A report that nothing asks for may be missing; none may be malformed.
Reads(report, required) ==
  report.state # "malformed" /\ (required => report.state # "missing")

\* The reports are read at once and the first read that fails is the one reported.
UnreadableControls(e) ==
  {c \in {"secret-scan", "dependency-scan", "sast", "source-gate"} :
     CASE c = "secret-scan" -> ~Reads(e.gitleaks, TRUE) \/ ~Reads(e.trufflehog, TRUE)
       [] c = "sast" -> ~Reads(e.semgrep, TRUE)
       [] c = "source-gate" -> ~BaselineReads(e.baseline, e.bootstrap, e.declared)
       [] c = "dependency-scan" ->
            \/ ~Reads(e.osv, TRUE)
            \/ ~Reads(e.npm, TopRoot(e) # {})
            \/ ~Reads(e.pip, e.requirements)
            \/ ~Reads(e.nested, NestedRoots(e) # {})}

OsvEffective(e) ==
  IF e.osvRoots.state = "missing" THEN e.osv ELSE MergeOsv(e.osv, e.osvRoots.results)

\* The explicit OSV-Scanner run and the nested audits, against the gate's own roots.
DependencyReportsMatch(e) ==
  /\ Reads(e.osvRoots, e.roots # {})
  /\ e.osvRoots.state = "missing" \/ OsvRootsSound(e.osvRoots, Lockfiles(e))
  /\ e.nested.state = "missing" \/ NestedSound(e.nested, NestedRoots(e))

DependencyReportsSound(e) ==
  /\ e.npm.state = "missing" \/ NpmSound(e.npm)
  /\ e.nested.state = "missing"
       \/ \A i \in DOMAIN e.nested.roots : NpmSound(e.nested.roots[i].report)
  /\ e.pip.state = "missing" \/ PipSound(e.pip)
  /\ OsvSound(OsvEffective(e))

\* Who owns the i-th check made once everything was read; a bug to check the
\* properties against blames Semgrep for the accepted baseline.
CheckOwnerBySection(i) ==
  CASE i \in {1, 3} -> "dependency-scan" [] i = 2 -> "secret-scan" [] OTHER -> "sast"
CheckOwner(i) ==
  CASE i \in {1, 3} -> "dependency-scan" [] i = 2 -> "secret-scan"
    [] i \in {4, 6} -> "sast" [] i = 5 -> "source-gate"

CheckPasses(e, i) ==
  CASE i = 1 -> DependencyReportsMatch(e)
    [] i = 2 -> e.gitleaks.state = "ok" /\ e.trufflehog.state = "ok"
    [] i = 3 -> DependencyReportsSound(e)
    [] i = 4 -> SemgrepSound(e.semgrep)
    [] i = 5 -> BaselineSound(e.baseline)
    [] i = 6 -> \A f \in e.semgrep.results : SemgrepSeverityKnown(e.policy, f)

\* The controls an evaluation may blame: none if every input could be interpreted.
Blamed(e) ==
  IF ~LifecycleSound(e.declared) \/ ~PolicyValid(e.policy) THEN {"source-gate"}
  ELSE IF e.rejected # {} THEN {"dependency-scan"}
  ELSE IF UnreadableControls(e) # {} THEN UnreadableControls(e)
  ELSE {CheckOwner(i) : i \in {j \in 1..6 :
          (\A k \in 1..j - 1 : CheckPasses(e, k)) /\ ~CheckPasses(e, j)}}

GateFindings(e) ==
  SecretFindings(e.policy, e.gitleaks, e.trufflehog)
  \cup (IF e.npm.state = "missing" THEN {}
        ELSE NpmFindings(e.policy, e.npm, {r.lockfile : r \in TopRoot(e)}))
  \cup (IF e.nested.state = "missing" THEN {}
        ELSE UNION {NpmFindings(e.policy, e.nested.roots[i].report, {e.nested.roots[i].lockfile}) :
                    i \in DOMAIN e.nested.roots})
  \cup (IF e.pip.state = "missing" THEN {} ELSE PipFindings(e.policy, e.pip))
  \cup OsvFindings(e.policy, OsvEffective(e))
  \cup SemgrepFindings(e.policy, e.semgrep, Accepted(e.baseline))

Evaluated(e) ==
  LET findings == GateFindings(e)
      blocked == {f \in findings : f.action = "BLOCK"}
  IN [verdict |-> GateVerdict(findings), trusted |-> TRUE, control |-> "none",
      findings |-> findings,
      eligible |-> blocked # {} /\ \A f \in blocked : EligibleFinding(e.policy, f)]

IntegrityFailure(control) ==
  [verdict |-> "BLOCK", trusted |-> FALSE, control |-> control, eligible |-> FALSE,
   findings |-> {[source |-> "security-gate", where |-> {}, id |-> "report-integrity",
                  rule |-> <<"gate", "report_integrity", "any">>, action |-> "BLOCK"]}]

\* runSecurityGate: an error at any point becomes a result that blocks.
Results(e) ==
  IF Blamed(e) = {} THEN {Evaluated(e)} ELSE {IntegrityFailure(c) : c \in Blamed(e)}

=============================================================================
