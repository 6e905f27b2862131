----------------------------- MODULE ImagePolicy -----------------------------
(***************************************************************************)
(* What is made of an image's scans: normalizeEcrResponse turns a          *)
(* registry's answer into a report, and image-gate.mjs judges that report  *)
(* after the push and Trivy's before it.  Both refuse what they cannot     *)
(* interpret, by an assertion that the gate turns into a BLOCK_DEPLOY: an  *)
(* assertion is a conjunct of a ...Sound predicate.                        *)
(*                                                                         *)
(* A finding keeps the fields a rule tells apart.  A report's `state' says *)
(* what reading it meets, as in SourcePolicy.                              *)
(***************************************************************************)
EXTENDS Integers, Sequences, FiniteSets

ImageSeverities == {"critical", "high", "medium", "low"}
Urgent == {"critical", "high"}
None == "none"

\* The elements of a sequence.
Elements(s) == {s[i] : i \in DOMAIN s}
CountOf(s, severity) == Cardinality({i \in DOMAIN s : s[i].severity = severity})

-----------------------------------------------------------------------------
(* The image policy: a rule is a severity and what is known of a fix.      *)

ImageRule(severity, fixAware, fix) ==
  <<severity, IF severity \in Urgent /\ fixAware THEN IF fix THEN "with_fix" ELSE "no_fix"
              ELSE "any">>

ImageRules == {ImageRule(s, aware, fix) : s \in ImageSeverities, aware, fix \in BOOLEAN}

\* The gate runs only under the policy it was reviewed with.
RequiredAction(rule) ==
  IF rule[1] \notin Urgent THEN "LOG"
  ELSE IF rule[2] = "no_fix" THEN "EXCEPTION" ELSE "BLOCK_DEPLOY"

ImagePolicyValid(p) == \A r \in ImageRules : r \in DOMAIN p /\ p[r] = RequiredAction(r)

ImageFinding(p, source, id, severity, fixAware, fix) ==
  [source |-> source, id |-> id, severity |-> severity,
   action |-> p[ImageRule(severity, fixAware, fix)]]

ImageVerdict(findings) ==
  LET actions == {f.action : f \in findings}
  IN IF "BLOCK_DEPLOY" \in actions THEN "BLOCK_DEPLOY"
     ELSE IF "EXCEPTION" \in actions THEN "DEPLOY-WITH-EXCEPTIONS" ELSE "DEPLOY"

-----------------------------------------------------------------------------
(* The registry's answer, normalized.                                      *)

MappedSeverities == {"CRITICAL", "HIGH", "MEDIUM", "LOW", "INFORMATIONAL", "UNDEFINED",
                     "UNTRIAGED"}

\* A severity Inspector has not settled yet is mapped up.
MappedSeverity(raw) ==
  CASE raw = "CRITICAL" -> "critical"
    [] raw \in {"HIGH", "UNTRIAGED"} -> "high"
    [] raw = "MEDIUM" -> "medium"
    [] raw \in {"LOW", "INFORMATIONAL", "UNDEFINED"} -> "low"

\* A fix for one of the vulnerable packages is a fix.
FixAvailable == [YES |-> TRUE, PARTIAL |-> TRUE, NO |-> FALSE]

EnhancedFindingSound(f, digest) ==
  /\ f.type = "PACKAGE_VULNERABILITY" /\ f.status = "ACTIVE"
  /\ f.fix \in DOMAIN FixAvailable
  /\ f.images # {} /\ \A image \in f.images : image = digest
  /\ f.severity \in MappedSeverities

NormalizedFinding(enhanced, f) ==
  [id |-> f.id, severity |-> MappedSeverity(f.severity),
   fix |-> IF enhanced THEN IF FixAvailable[f.fix] THEN "yes" ELSE "no" ELSE None]

\* `basic' and `enhanced' are the two lists an answer may hold, or absent.
EcrListed(answer) ==
  IF answer.enhanced.present THEN answer.enhanced.list ELSE answer.basic.list

\* ECR's own counts, per severity as the framework maps it.
EcrCount(answer, severity) ==
  Cardinality({n \in answer.counted : MappedSeverity(n.severity) = severity})

\* A bug to check the properties against: the list is believed without the counts.
EcrReconciledByList(answer) == TRUE

EcrReconciled(answer) ==
  \A s \in ImageSeverities :
    EcrCount(answer, s)
      = Cardinality({i \in DOMAIN EcrListed(answer) :
                       MappedSeverity(EcrListed(answer)[i].severity) = s})

\* Neither list, or both with something in them, leaves the scan's mode open.
EcrSound(answer, digest) ==
  /\ answer.status = "COMPLETE" /\ answer.digest = digest
  /\ \A n \in answer.counted : n.severity \in MappedSeverities
  /\ answer.basic.present \/ answer.enhanced.present
  /\ ~(/\ answer.basic.present /\ answer.enhanced.present
       /\ answer.basic.list # <<>> /\ answer.enhanced.list # <<>>)
  /\ \A f \in Elements(EcrListed(answer)) :
       IF answer.enhanced.present THEN EnhancedFindingSound(f, digest)
       ELSE f.severity \in MappedSeverities
  /\ EcrReconciled(answer)

NormalizeEcrResponse(answer) ==
  LET findings == [i \in DOMAIN EcrListed(answer) |->
                     NormalizedFinding(answer.enhanced.present, EcrListed(answer)[i])]
  IN [state |-> "ok",
      source |-> IF answer.enhanced.present THEN "aws-ecr-enhanced" ELSE "aws-ecr-basic",
      status |-> "COMPLETE", digest |-> answer.digest,
      counts |-> [s \in ImageSeverities |-> CountOf(findings, s)], findings |-> findings]

-----------------------------------------------------------------------------
(* The gate over a registry's report.                                      *)

\* Only an enhanced scan knows of fixes.
FixAware(source) == source = "aws-ecr-enhanced"

\* A bug to check the properties against: no word of a fix is read as no fix.
RegistryFindingSoundLoose(source, f) == f.severity \in ImageSeverities

RegistryFindingSound(source, f) ==
  /\ f.severity \in ImageSeverities
  /\ FixAware(source) => f.fix \in {"yes", "no"}

RegistrySound(report) ==
  /\ report.state = "ok"
  /\ report.source \in {"aws-ecr-basic", "aws-ecr-enhanced"}
  /\ report.status = "COMPLETE"
  /\ \A f \in Elements(report.findings) : RegistryFindingSound(report.source, f)
  /\ DOMAIN report.counts \subseteq ImageSeverities
  /\ \A s \in ImageSeverities :
       (IF s \in DOMAIN report.counts THEN report.counts[s] ELSE 0) = CountOf(report.findings, s)

RegistryFindings(p, report) ==
  {ImageFinding(p, report.source, f.id, f.severity, FixAware(report.source), f.fix = "yes") :
     f \in Elements(report.findings)}

-----------------------------------------------------------------------------
(* The gate over Trivy's report.                                           *)

\* A severity Trivy does not know is mapped up.
TrivySeverityKnown(raw) == raw \in ImageSeverities \cup {"unknown", ""}
TrivySeverity(raw) == IF raw \in {"unknown", ""} THEN "high" ELSE raw

\* A bug to check the properties against: an image Trivy did not understand is clean.
TrivySoundIfParsed(report) == report.state = "ok" /\ report.kind = "container_image"

\* No packages found in an operating system nobody recognised, or that gets no more
\* advisories, is no clean bill.
TrivySound(report) ==
  /\ report.state = "ok" /\ report.kind = "container_image"
  /\ report.family # None /\ report.osScanned /\ ~report.endOfLife
  /\ \A v \in Elements(report.vulns) : TrivySeverityKnown(v.severity)

\* The first of the entries for one vulnerability of one package counts.
FirstEntries(vulns) ==
  {vulns[i] : i \in {j \in DOMAIN vulns :
     ~\E k \in 1 .. j - 1 : vulns[k].id = vulns[j].id /\ vulns[k].package = vulns[j].package}}

TrivyFindings(p, report) ==
  {ImageFinding(p, "trivy", v.id, TrivySeverity(v.severity), TRUE, v.fixed) :
     v \in FirstEntries(report.vulns)}
  \cup {[source |-> "trivy", id |-> s, severity |-> "critical", action |-> "BLOCK_DEPLOY"] :
          s \in report.secrets}

-----------------------------------------------------------------------------
(* One evaluation: whatever cannot be interpreted blocks.                  *)

ImageIntegrity ==
  [verdict |-> "BLOCK_DEPLOY", trusted |-> FALSE,
   findings |-> {[source |-> "image-gate", id |-> "report-integrity", severity |-> "unknown",
                  action |-> "BLOCK_DEPLOY"]}]

ImageResult(findings) ==
  [verdict |-> ImageVerdict(findings), trusted |-> TRUE, findings |-> findings]

RunImageGate(p, source, report) ==
  IF source = "trivy"
  THEN IF ImagePolicyValid(p) /\ TrivySound(report)
       THEN ImageResult(TrivyFindings(p, report)) ELSE ImageIntegrity
  ELSE IF ImagePolicyValid(p) /\ RegistrySound(report)
       THEN ImageResult(RegistryFindings(p, report)) ELSE ImageIntegrity

=============================================================================
