--------------------------- MODULE DeliveryProofs ---------------------------
(***************************************************************************)
(* What runs on the instance was passed or approved and is fit, and the    *)
(* conformance report says so, for any runs, images and number of faults.  *)
(* First what each report is worth, whatever was done to it on its way:    *)
(* ECR's own counts, and the count in the normalized report, make a list   *)
(* that lost a finding useless.  Then what each job's success implies.     *)
(* The second part is about the scanning jobs and the source gate: what a  *)
(* job that succeeds has written, what the gate makes of it, and whom it   *)
(* may blame.                                                              *)
(***************************************************************************)
EXTENDS SourceScan, Release, FiniteSetTheorems, WellFoundedInduction, TLAPS

-----------------------------------------------------------------------------
(* What Trivy's report is worth.                                           *)

\* An image with a secret, or one Trivy cannot vouch for, blocks, whatever its packages.
LEMMA TrivyGate ==
  ASSUME NEW p, NEW image,
         NEW trivy \in {TrivyReport(image)} \cup TrivyFaults(image),
         RunImageGate(p, "trivy", trivy).verdict # "BLOCK_DEPLOY"
  PROVE  image.secrets = {} /\ image.family # None /\ ~image.endOfLife
<1>1. TrivySound(trivy) /\ ImageVerdict(TrivyFindings(p, trivy)) # "BLOCK_DEPLOY"
  BY DEF RunImageGate, ImageIntegrity, ImageResult
<1>2. trivy = TrivyReport(image)
  <2>1. trivy # NoReport
    BY <1>1 DEF TrivySound, NoReport
  <2>2. trivy # [TrivyReport(image) EXCEPT !.family = None, !.vulns = <<>>]
    <3>1. [TrivyReport(image) EXCEPT !.family = None, !.vulns = <<>>].family = None
      BY DEF TrivyReport
    <3>2. QED
      BY <1>1, <3>1 DEF TrivySound
  <2>3. trivy # [TrivyReport(image) EXCEPT !.osScanned = FALSE, !.vulns = <<>>]
    <3>1. [TrivyReport(image) EXCEPT !.osScanned = FALSE, !.vulns = <<>>].osScanned = FALSE
      BY DEF TrivyReport
    <3>2. QED
      BY <1>1, <3>1 DEF TrivySound
  <2>4. QED
    BY <2>1, <2>2, <2>3 DEF TrivyFaults
<1>3. image.family # None /\ ~image.endOfLife
  BY <1>1, <1>2 DEF TrivySound, TrivyReport
<1>4. ASSUME NEW s \in image.secrets PROVE FALSE
  <2>1. trivy.secrets = image.secrets
    BY <1>2 DEF TrivyReport
  <2>2. [source |-> "trivy", id |-> s, severity |-> "critical", action |-> "BLOCK_DEPLOY"]
          \in TrivyFindings(p, trivy)
    BY <2>1 DEF TrivyFindings
  <2>3. QED
    BY <1>1, <2>2 DEF ImageVerdict
<1>5. QED
  BY <1>3, <1>4

-----------------------------------------------------------------------------
(* What the registry's report is worth.                                    *)

LEMMA IndicesFinite ==
  ASSUME NEW s, NEW n \in Nat, DOMAIN s \subseteq 1 .. n, NEW T, T \subseteq DOMAIN s
  PROVE  IsFiniteSet(T)
BY FS_Interval, FS_Subset, 1 \in Int, n \in Int

LEMMA ElementsFinite ==
  ASSUME NEW s, s \in Seq(Elements(s))
  PROVE  IsFiniteSet(Elements(s)) /\ Len(s) \in Nat /\ DOMAIN s = 1 .. Len(s)
<1>1. Len(s) \in Nat /\ DOMAIN s = 1 .. Len(s)
  OBVIOUS
<1>2. s \in Surjection(1 .. Len(s), Elements(s))
  BY <1>1 DEF Surjection, Elements
<1>3. QED
  BY <1>1, <1>2, FS_NatSurjection DEF ExistsSurjection

\* What is counted is there.
LEMMA Counted ==
  ASSUME NEW S, IsFiniteSet(S), NEW x \in S, NEW T, Cardinality(S) = Cardinality(T)
  PROVE  T # {}
BY FS_EmptySet

\* A report of an image's every vulnerability, that says which of them have a fix if its
\* source knows.
Word(v) == IF FixAvailable[v.fix] THEN "yes" ELSE "no"
Told(rep, v) ==
  \E f \in Elements(rep.findings) :
    f.severity = MappedSeverity(v.severity) /\ (FixAware(rep.source) => f.fix = Word(v))
Tells(rep, image) ==
  rep.state = "ok" =>
    /\ DOMAIN rep = {"state", "source", "status", "digest", "counts", "findings"}
    /\ \A i \in DOMAIN rep.findings : DOMAIN rep.findings[i] = {"id", "severity", "fix"}
    /\ \E n \in Nat : DOMAIN rep.findings \subseteq 1 .. n
    /\ rep.counts = [s \in ImageSeverities |-> CountOf(rep.findings, s)]
    /\ \A v \in Elements(image.vulns) : Told(rep, v)

LEMMA Mapped ==
  ASSUME NEW raw \in MappedSeverities
  PROVE  /\ MappedSeverity(raw) \in ImageSeverities
         /\ raw \in {"CRITICAL", "HIGH", "UNTRIAGED"} => MappedSeverity(raw) \in Urgent
BY DEF MappedSeverities, MappedSeverity, ImageSeverities, Urgent

\* The normalized findings, by their place in the list.
LEMMA Normalized ==
  ASSUME NEW a
  PROVE  LET n == NormalizeEcrResponse(a) IN
         /\ n.state = "ok" /\ DOMAIN n.findings = DOMAIN EcrListed(a)
         /\ DOMAIN n = {"state", "source", "status", "digest", "counts", "findings"}
         /\ n.counts = [s \in ImageSeverities |-> CountOf(n.findings, s)]
         /\ FixAware(n.source) <=> a.enhanced.present
         /\ \A i \in DOMAIN EcrListed(a) :
              /\ n.findings[i] \in Elements(n.findings)
              /\ DOMAIN n.findings[i] = {"id", "severity", "fix"}
              /\ n.findings[i].severity = MappedSeverity(EcrListed(a)[i].severity)
              /\ n.findings[i].fix = IF a.enhanced.present
                                     THEN IF FixAvailable[EcrListed(a)[i].fix] THEN "yes" ELSE "no"
                                     ELSE None
BY DEF NormalizeEcrResponse, NormalizedFinding, FixAware, Elements

\* Counts that agree leave no severity out.
LEMMA Reconciled ==
  ASSUME NEW a, IsFiniteSet(a.counted), EcrReconciled(a),
         NEW v \in a.counted, v.severity \in MappedSeverities
  PROVE  \E i \in DOMAIN EcrListed(a) :
           MappedSeverity(EcrListed(a)[i].severity) = MappedSeverity(v.severity)
<1> DEFINE s == MappedSeverity(v.severity)
           C == {n \in a.counted : MappedSeverity(n.severity) = s}
           L == {i \in DOMAIN EcrListed(a) : MappedSeverity(EcrListed(a)[i].severity) = s}
<1>1. IsFiniteSet(C) /\ v \in C
  BY FS_Subset
<1>2. Cardinality(C) = Cardinality(L)
  BY Mapped DEF EcrReconciled, EcrCount
<1>3. L # {}
  BY <1>1, <1>2, Counted
<1>4. QED
  BY <1>3

\* An answer, whatever was done to it: its counts, and its list by place.
LEMMA AnswerShape ==
  ASSUME NEW image, ImageTyped(image), NEW enhanced,
         NEW a \in {EcrAnswer(image, enhanced)} \cup EcrFaults(EcrAnswer(image, enhanced))
  PROVE  /\ a.counted = Elements(image.vulns)
         /\ DOMAIN EcrListed(a) \subseteq DOMAIN image.vulns
         /\ a.enhanced.present =>
              /\ DOMAIN a.enhanced.list = DOMAIN image.vulns
              /\ \A i \in DOMAIN image.vulns :
                   /\ a.enhanced.list[i].severity = image.vulns[i].severity
                   /\ a.enhanced.list[i].fix \in {image.vulns[i].fix, "UNKNOWN"}
<1> DEFINE answer == EcrAnswer(image, enhanced)
           entries == [i \in DOMAIN image.vulns |-> EnhancedEntry(image, image.vulns[i])]
           n == Len(image.vulns)
           absent == [present |-> FALSE, list |-> <<>>]
           empty == [present |-> TRUE, list |-> <<>>]
           full == [present |-> TRUE, list |-> entries]
<1>1. n \in Nat /\ DOMAIN image.vulns = 1 .. n /\ DOMAIN entries = 1 .. n
  BY ElementsFinite DEF ImageTyped
<1>2. \A i \in 1 .. n : /\ entries[i].severity = image.vulns[i].severity
                        /\ entries[i].fix = image.vulns[i].fix
  BY <1>1 DEF EnhancedEntry
<1>3. /\ answer.counted = Elements(image.vulns)
      /\ \/ answer.basic = empty /\ answer.enhanced = full
         \/ answer.basic = full /\ answer.enhanced = absent
      /\ answer = [status |-> "COMPLETE", digest |-> image, counted |-> Elements(image.vulns),
                   basic |-> answer.basic, enhanced |-> answer.enhanced]
  BY DEF EcrAnswer
<1> HIDE DEF answer, entries, n
<1>4. DOMAIN <<>> = {}
  OBVIOUS
<1>5. CASE a = answer \/ a = [answer EXCEPT !.status = "IN_PROGRESS"]
           \/ a = [answer EXCEPT !.digest = OtherImage]
  BY <1>1, <1>2, <1>3, <1>4, <1>5 DEF EcrListed
<1>6. CASE a = [answer EXCEPT !.enhanced = absent]
  BY <1>1, <1>2, <1>3, <1>4, <1>6 DEF EcrListed
<1>7. CASE a \in {[answer EXCEPT !.basic.list = Tail(@)] : i \in {1} \cap DOMAIN answer.basic.list}
  <2>1. a = [answer EXCEPT !.basic.list = Tail(answer.basic.list)] /\ 1 \in DOMAIN answer.basic.list
    BY <1>7
  <2>2. answer.basic = full /\ answer.enhanced = absent
    BY <1>3, <1>4, <2>1
  <2>3. a.basic.list = Tail(entries) /\ a.enhanced = absent /\ a.counted = Elements(image.vulns)
    BY <1>3, <2>1, <2>2
  <2>4. entries \in Seq({EnhancedEntry(image, image.vulns[i]) : i \in DOMAIN image.vulns})
    BY <1>1 DEF entries
  <2>5. DOMAIN Tail(entries) \subseteq 1 .. n
    <3>1. Len(entries) = n /\ entries # <<>>
      BY <1>1, <2>1, <2>2, <2>4
    <3>2. DOMAIN Tail(entries) = 1 .. n - 1
      BY <1>1, <2>4, <3>1
    <3>3. QED
      BY <1>1, <3>2
  <2>6. QED
    BY <1>1, <2>3, <2>5 DEF EcrListed
<1>8. ASSUME NEW j \in DOMAIN answer.enhanced.list,
             \/ a = [answer EXCEPT !.enhanced.list[j].fix = "UNKNOWN"]
             \/ a = [answer EXCEPT !.enhanced.list[j].images = {OtherImage}]
             \/ a = [answer EXCEPT !.enhanced.list[j].status = "SUPPRESSED"]
      PROVE  /\ a.counted = Elements(image.vulns) /\ a.enhanced.present
             /\ DOMAIN a.enhanced.list = DOMAIN image.vulns
             /\ \A i \in DOMAIN image.vulns :
                  /\ a.enhanced.list[i].severity = image.vulns[i].severity
                  /\ a.enhanced.list[i].fix \in {image.vulns[i].fix, "UNKNOWN"}
  <2>1. answer.enhanced = full
    BY <1>3, <1>4, <1>8
  <2>2. PICK e : /\ a.enhanced = [full EXCEPT !.list = [entries EXCEPT ![j] = e]]
                 /\ a.counted = Elements(image.vulns)
                 /\ \/ e = [entries[j] EXCEPT !.fix = "UNKNOWN"]
                    \/ e = [entries[j] EXCEPT !.images = {OtherImage}]
                    \/ e = [entries[j] EXCEPT !.status = "SUPPRESSED"]
    <3>1. CASE a = [answer EXCEPT !.enhanced.list[j].fix = "UNKNOWN"]
      <4>1. /\ a.enhanced = [full EXCEPT !.list = [entries EXCEPT ![j] = [entries[j] EXCEPT !.fix = "UNKNOWN"]]]
            /\ a.counted = Elements(image.vulns)
        BY <1>3, <3>1, <2>1
      <4>2. QED
        BY <4>1
    <3>2. CASE a = [answer EXCEPT !.enhanced.list[j].images = {OtherImage}]
      <4>1. /\ a.enhanced = [full EXCEPT !.list = [entries EXCEPT ![j] = [entries[j] EXCEPT !.images = {OtherImage}]]]
            /\ a.counted = Elements(image.vulns)
        BY <1>3, <3>2, <2>1
      <4>2. QED
        BY <4>1
    <3>3. CASE a = [answer EXCEPT !.enhanced.list[j].status = "SUPPRESSED"]
      <4>1. /\ a.enhanced = [full EXCEPT !.list = [entries EXCEPT ![j] = [entries[j] EXCEPT !.status = "SUPPRESSED"]]]
            /\ a.counted = Elements(image.vulns)
        BY <1>3, <3>3, <2>1
      <4>2. QED
        BY <4>1
    <3>4. QED
      BY <1>8, <3>1, <3>2, <3>3
  <2>3. j \in 1 .. n
    BY <1>1, <1>8, <2>1
  <2>4. entries[j] = EnhancedEntry(image, image.vulns[j])
    BY <1>1, <2>3 DEF entries
  <2>5. e.severity = image.vulns[j].severity /\ e.fix \in {image.vulns[j].fix, "UNKNOWN"}
    BY <2>2, <2>4 DEF EnhancedEntry
  <2>6. a.enhanced.present /\ a.enhanced.list = [entries EXCEPT ![j] = e]
    BY <2>2
  <2>7. QED
    BY <1>1, <1>2, <2>2, <2>3, <2>5, <2>6
<1>9. QED
  <2>1. a \in {answer} \cup EcrFaults(answer)
    BY DEF answer
  <2>2. CASE a \in UNION {{[answer EXCEPT !.enhanced.list[i].fix = "UNKNOWN"],
                          [answer EXCEPT !.enhanced.list[i].images = {OtherImage}],
                          [answer EXCEPT !.enhanced.list[i].status = "SUPPRESSED"]} :
                            i \in DOMAIN answer.enhanced.list}
    BY <1>8, <2>2 DEF EcrListed
  <2>3. QED
    BY <1>5, <1>6, <1>7, <2>1, <2>2 DEF EcrFaults

\* A report the collector makes tells of every vulnerability: an answer that hides or
\* rewords one is refused or does not agree with its counts.
LEMMA CollectedTells ==
  ASSUME NEW image, ImageTyped(image), NEW enhanced,
         NEW a \in {EcrAnswer(image, enhanced)} \cup EcrFaults(EcrAnswer(image, enhanced)),
         EcrSound(a, image)
  PROVE  Tells(NormalizeEcrResponse(a), image)
<1> DEFINE rep == NormalizeEcrResponse(a)
<1>1. /\ a.counted = Elements(image.vulns)
      /\ DOMAIN EcrListed(a) \subseteq DOMAIN image.vulns
      /\ a.enhanced.present =>
           /\ DOMAIN a.enhanced.list = DOMAIN image.vulns
           /\ \A i \in DOMAIN image.vulns :
                /\ a.enhanced.list[i].severity = image.vulns[i].severity
                /\ a.enhanced.list[i].fix \in {image.vulns[i].fix, "UNKNOWN"}
  BY AnswerShape
<1>2. /\ rep.state = "ok" /\ DOMAIN rep.findings = DOMAIN EcrListed(a)
      /\ DOMAIN rep = {"state", "source", "status", "digest", "counts", "findings"}
      /\ rep.counts = [s \in ImageSeverities |-> CountOf(rep.findings, s)]
      /\ FixAware(rep.source) <=> a.enhanced.present
      /\ \A i \in DOMAIN EcrListed(a) :
           /\ rep.findings[i] \in Elements(rep.findings)
           /\ DOMAIN rep.findings[i] = {"id", "severity", "fix"}
           /\ rep.findings[i].severity = MappedSeverity(EcrListed(a)[i].severity)
           /\ rep.findings[i].fix = IF a.enhanced.present
                                    THEN IF FixAvailable[EcrListed(a)[i].fix] THEN "yes" ELSE "no"
                                    ELSE None
  BY Normalized
<1> HIDE DEF rep
<1>3. /\ IsFiniteSet(Elements(image.vulns)) /\ Len(image.vulns) \in Nat
      /\ DOMAIN image.vulns = 1 .. Len(image.vulns)
  BY ElementsFinite DEF ImageTyped
<1>4. ASSUME NEW v \in Elements(image.vulns) PROVE Told(rep, v)
  <2>1. v.severity \in MappedSeverities /\ v.fix \in DOMAIN FixAvailable
    BY DEF ImageTyped
  <2>2. CASE a.enhanced.present
    <3>1. PICK i \in DOMAIN image.vulns : v = image.vulns[i]
      BY DEF Elements
    <3>2. EcrListed(a) = a.enhanced.list /\ i \in DOMAIN EcrListed(a)
      BY <1>1, <2>2 DEF EcrListed
    <3>3. EnhancedFindingSound(EcrListed(a)[i], image)
      BY <2>2, <3>2 DEF EcrSound, Elements
    <3>4. EcrListed(a)[i].fix = v.fix /\ EcrListed(a)[i].severity = v.severity
      BY <1>1, <2>2, <3>1, <3>2, <3>3 DEF EnhancedFindingSound, FixAvailable
    <3>5. QED
      BY <1>2, <2>2, <3>2, <3>4 DEF Told, Word
  <2>3. CASE ~a.enhanced.present
    <3>1. PICK i \in DOMAIN EcrListed(a) :
            MappedSeverity(EcrListed(a)[i].severity) = MappedSeverity(v.severity)
      BY <1>1, <1>3, <2>1, Reconciled DEF EcrSound
    <3>2. QED
      BY <1>2, <2>3, <3>1 DEF Told
  <2>4. QED
    BY <2>2, <2>3
<1>5. \E n \in Nat : DOMAIN rep.findings \subseteq 1 .. n
  BY <1>1, <1>2, <1>3
<1>6. QED
  BY <1>2, <1>4, <1>5 DEF Tells, rep

\* The artifact gate passes no image with an urgent vulnerability that has a fix: a report
\* that lost findings no longer agrees with its own counts.
NoUrgent(image) ==
  \A v \in Elements(image.vulns) :
    ~(v.severity \in {"CRITICAL", "HIGH", "UNTRIAGED"} /\ v.fix # "NO")

Changed(rep) ==
  {rep} \cup
  IF rep.state # "ok" THEN {}
  ELSE {[rep EXCEPT !.digest = OtherImage],
        [rep EXCEPT !.findings = [i \in DOMAIN rep.findings |-> [rep.findings[i] EXCEPT !.fix = None]]],
        [rep EXCEPT !.findings = <<>>]}

LEMMA RuleExists ==
  ASSUME NEW s \in ImageSeverities, NEW aware \in BOOLEAN, NEW fix \in BOOLEAN
  PROVE  ImageRule(s, aware, fix) \in ImageRules
BY DEF ImageRules

LEMMA UrgentBlocks ==
  ASSUME NEW p, NEW rep, NEW f \in Elements(rep.findings), f.severity \in Urgent,
         FixAware(rep.source) => f.fix = "yes"
  PROVE  RunImageGate(p, "registry", rep).verdict = "BLOCK_DEPLOY"
<1> SUFFICES ASSUME ImagePolicyValid(p), RegistrySound(rep)
             PROVE  ImageVerdict(RegistryFindings(p, rep)) = "BLOCK_DEPLOY"
  BY DEF RunImageGate, ImageIntegrity, ImageResult
<1> DEFINE rule == ImageRule(f.severity, FixAware(rep.source), f.fix = "yes")
           g == ImageFinding(p, rep.source, f.id, f.severity, FixAware(rep.source), f.fix = "yes")
<1>1. rule \in ImageRules
  <2>1. f.severity \in ImageSeverities /\ FixAware(rep.source) \in BOOLEAN /\ (f.fix = "yes") \in BOOLEAN
    BY DEF Urgent, ImageSeverities, FixAware
  <2>2. QED
    BY <2>1, RuleExists
<1>2. rule = <<f.severity, IF FixAware(rep.source) THEN "with_fix" ELSE "any">>
  BY DEF ImageRule
<1>3. RequiredAction(rule) = "BLOCK_DEPLOY"
  BY <1>2 DEF RequiredAction
<1>4. g.action = "BLOCK_DEPLOY"
  BY <1>1, <1>3 DEF ImagePolicyValid, ImageFinding
<1>5. g \in RegistryFindings(p, rep)
  BY DEF RegistryFindings
<1>6. QED
  BY <1>4, <1>5 DEF ImageVerdict

LEMMA ArtifactGatePasses ==
  ASSUME NEW p, NEW image, ImageTyped(image), NEW rep, Tells(rep, image),
         NEW handed \in Changed(rep),
         RunImageGate(p, "registry", handed).verdict # "BLOCK_DEPLOY"
  PROVE  NoUrgent(image)
<1> SUFFICES ASSUME NEW v \in Elements(image.vulns),
                    v.severity \in {"CRITICAL", "HIGH", "UNTRIAGED"}, v.fix # "NO"
             PROVE  FALSE
  BY DEF NoUrgent
<1>1. RegistrySound(handed)
  BY DEF RunImageGate, ImageIntegrity
<1>2. rep.state = "ok"
  BY <1>1 DEF RegistrySound, Changed
<1>3. PICK i \in DOMAIN rep.findings :
        /\ rep.findings[i].severity = MappedSeverity(v.severity)
        /\ FixAware(rep.source) => rep.findings[i].fix = Word(v)
  BY <1>2 DEF Tells, Told, Elements
<1>4. MappedSeverity(v.severity) \in Urgent /\ MappedSeverity(v.severity) \in ImageSeverities
  BY Mapped DEF ImageTyped
<1>5. Word(v) = "yes"
  BY DEF Word, FixAvailable, ImageTyped
<1>6. CASE handed = rep \/ handed = [rep EXCEPT !.digest = OtherImage]
  <2>1. handed.findings = rep.findings /\ handed.source = rep.source
    BY <1>2, <1>6 DEF Tells
  <2>2. rep.findings[i] \in Elements(handed.findings)
    BY <2>1 DEF Elements
  <2>3. QED
    BY <1>3, <1>4, <1>5, <2>1, <2>2, UrgentBlocks
<1>7. CASE handed = [rep EXCEPT !.findings =
                      [k \in DOMAIN rep.findings |-> [rep.findings[k] EXCEPT !.fix = None]]]
  <2> DEFINE reworded == [k \in DOMAIN rep.findings |-> [rep.findings[k] EXCEPT !.fix = None]]
  <2>1. handed.findings = reworded /\ handed.source = rep.source
    BY <1>2, <1>7 DEF Tells
  <2>2. reworded[i] \in Elements(handed.findings)
    BY <2>1 DEF Elements
  <2>3. /\ reworded[i] = [rep.findings[i] EXCEPT !.fix = None]
        /\ DOMAIN rep.findings[i] = {"id", "severity", "fix"}
    BY <1>2 DEF Tells
  <2>4. reworded[i].severity = rep.findings[i].severity /\ reworded[i].fix = None
    BY <2>3
  <2>5. ~FixAware(rep.source)
    BY <1>1, <2>1, <2>2, <2>4 DEF RegistrySound, RegistryFindingSound, None
  <2> HIDE DEF reworded
  <2>6. QED
    BY <1>3, <1>4, <2>1, <2>2, <2>4, <2>5, UrgentBlocks
<1>8. CASE handed = [rep EXCEPT !.findings = <<>>]
  <2> DEFINE s == MappedSeverity(v.severity)
             S == {k \in DOMAIN rep.findings : rep.findings[k].severity = s}
             T == {k \in DOMAIN handed.findings : handed.findings[k].severity = s}
  <2>1. handed.findings = <<>> /\ handed.counts = rep.counts
    BY <1>2, <1>8 DEF Tells
  <2>2. T = {}
    BY <2>1
  <2>3. PICK n \in Nat : DOMAIN rep.findings \subseteq 1 .. n
    BY <1>2 DEF Tells
  <2>4. IsFiniteSet(S) /\ i \in S
    BY <1>3, <2>3, IndicesFinite
  <2>5. DOMAIN handed.counts = ImageSeverities /\ handed.counts[s] = Cardinality(S)
    BY <1>2, <1>4, <2>1 DEF Tells, CountOf
  <2>6. Cardinality(S) = Cardinality(T)
    BY <1>1, <1>4, <2>5 DEF RegistrySound, CountOf
  <2>7. QED
    BY <2>2, <2>4, <2>6, Counted
<1>9. QED
  BY <1>2, <1>6, <1>7, <1>8 DEF Changed

-----------------------------------------------------------------------------
(* What the final gate's verdict is worth.                                 *)

Decision(r) == Final!SourceOutcome(delivery[r].source, delivery[r].review)

LEMMA Outcomes ==
  ASSUME NEW s, NEW v
  PROVE  /\ Final!SourceOutcome(s, v).outcome \in {"pass", "overridden-block", "block"}
         /\ Final!SourceOutcome(s, v).override \in {Unset, "in-job", "approved"}
BY DEF Final!SourceOutcome, Final!Blocked

LEMMA PassedIsAuthorized ==
  ASSUME NEW d, d.source.result = "success" => d.source.gateJob = "success",
         Final!SourceOutcome(d.source, d.review).outcome # "block"
  PROVE  SourceAuthorized(d)
BY DEF Final!SourceOutcome, Final!Blocked, SourceAuthorized

LEMMA ApprovedDecision ==
  ASSUME NEW s, NEW v, Final!SourceOutcome(s, v).override = "approved"
  PROVE  /\ s.result = "failure" /\ s.verdict = "BLOCK" /\ s.mode = "enforce"
         /\ s.trusted /\ s.eligible /\ s.delegated
         /\ v.result = "success" /\ v.status = "approved" /\ v.delivered
         /\ s.digest # Unset /\ v.digest = s.digest
BY UnsetAssumption DEF Final!SourceOutcome, Final!Blocked

-----------------------------------------------------------------------------
(* Types.                                                                  *)

BuiltImages == {d[r].image : d \in Deliveries, r \in Releases} \cup {OtherImage}
JobResults == {"pending", "success", "failure", "cancelled", "skipped"}
Verdicts == {"DEPLOY", "DEPLOY-WITH-EXCEPTIONS", "BLOCK_DEPLOY"}
RunOutputs ==
  [outcome : {"pass", "overridden-block", "block", Unset},
   override : {"in-job", "approved", Unset},
   imageId : BuiltImages \cup {NoImage}, prepush : Verdicts \cup {Unset},
   trusted : BOOLEAN \cup {Unset}, digest : BuiltImages \cup {NoImage},
   artifact : Verdicts \cup {Unset}]
CommandStates == {"none", "sent", "pulled", "removed", "run", "done", "failed"}

ReleaseTypes ==
  /\ delivery \in Deliveries
  /\ tarball \in [Releases -> BuiltImages]
  /\ jobs \in [Releases -> [RunJobs -> JobResults]]
  /\ outputs \in [Releases -> RunOutputs]
  /\ DOMAIN report = Releases /\ DOMAIN conformance = Releases
  /\ command \in [Releases -> CommandStates]
  /\ instance \in [running : BuiltImages \cup {NoImage}, started : SUBSET (BuiltImages \cup {NoImage})]
  /\ polls \in [Releases -> Nat] /\ releaseFaults \in Nat

LEMMA ImagesTyped == ASSUME NEW image \in BuiltImages PROVE ImageTyped(image)
BY DeliveryAssumption DEF BuiltImages

LEMMA GateTyped ==
  ASSUME NEW p, NEW source, NEW rep
  PROVE  /\ RunImageGate(p, source, rep).verdict \in Verdicts
         /\ RunImageGate(p, source, rep).trusted \in BOOLEAN
<1>1. \A findings : /\ ImageResult(findings).verdict \in Verdicts
                   /\ ImageResult(findings).trusted \in BOOLEAN
  BY DEF ImageResult, ImageVerdict, Verdicts
<1>2. ImageIntegrity.verdict \in Verdicts /\ ImageIntegrity.trusted \in BOOLEAN
  BY DEF ImageIntegrity, Verdicts
<1>3. QED
  BY <1>1, <1>2 DEF RunImageGate

\* What one job's end changes.
LEMMA JobEndsEffect ==
  ASSUME ReleaseTypes, NEW r \in Releases, NEW j \in RunJobs, NEW x \in JobResults,
         JobEnds(r, j, x)
  PROVE  /\ jobs' \in [Releases -> [RunJobs -> JobResults]]
         /\ jobs'[r][j] = x
         /\ \A i \in RunJobs \ {j} : jobs'[r][i] = jobs[r][i]
         /\ \A q \in Releases \ {r} : jobs'[q] = jobs[q]
BY DEF ReleaseTypes, JobEnds

\* What a job puts out.
LEMMA OutputsEffect ==
  ASSUME ReleaseTypes, NEW r \in Releases, NEW new \in RunOutputs,
         outputs' = [outputs EXCEPT ![r] = new]
  PROVE  /\ outputs' \in [Releases -> RunOutputs] /\ outputs'[r] = new
         /\ \A q \in Releases \ {r} : outputs'[q] = outputs[q]
BY DEF ReleaseTypes

-----------------------------------------------------------------------------
(* What the success of each job of a run implies.                          *)

\* Nothing but its packages stands against an image.
Vouched(image) == image.secrets = {} /\ image.family # None /\ ~image.endOfLife

Gates(r) ==
  /\ outputs[r].override \in {Unset, Decision(r).override}
  /\ jobs[r]["security-gate"] = "success" => Decision(r).outcome # "block"
  /\ jobs[r]["image-security"] = "success" =>
       /\ outputs[r].imageId \in BuiltImages
       /\ ~LogOnly(r) => Vouched(outputs[r].imageId)
  /\ jobs[r]["ecr-collect"] = "success" =>
       /\ jobs[r]["security-gate"] = "success" /\ jobs[r]["image-security"] = "success"
       /\ outputs[r].digest = outputs[r].imageId
       /\ Tells(report[r], outputs[r].digest)
  /\ jobs[r]["artifact-gate"] = "success" =>
       /\ jobs[r]["ecr-collect"] = "success"
       /\ ~LogOnly(r) => NoUrgent(outputs[r].digest)
  /\ command[r] # "none" =>
       jobs[r]["ecr-collect"] = "success" /\ jobs[r]["artifact-gate"] = "success"
  /\ jobs[r]["deploy"] = "success" => command[r] = "done"

\* A report is built of what no later step changes.
Ended(r) == \A j \in RunJobs : jobs[r][j] # "pending"
Reported(r) ==
  conformance[r] # NotMade =>
    /\ Ended(r) /\ CapabilitiesResolved(delivery[r].run.capabilities)
    /\ conformance[r].controls = BuildConformance(delivery[r].run, Observed(r)).controls

\* The instance runs, or last ran, what a command was sent for.
Quiet(r) == command[r] \in {"none", "sent", "pulled"}
InstanceInv ==
  /\ instance.running # NoImage =>
       \E r \in Releases : command[r] # "none" /\ outputs[r].digest = instance.running
  /\ \A r \in Releases : command[r] \in {"run", "done"} =>
       /\ outputs[r].digest \in instance.started
       /\ (\A q \in Releases \ {r} : Quiet(q)) => instance.running = outputs[r].digest

ReleaseInv ==
  /\ ReleaseTypes
  /\ \A r \in Releases : Gates(r) /\ Reported(r)
  /\ InstanceInv

LEMMA InitRelease == ReleaseInit => ReleaseInv
<1> SUFFICES ASSUME ReleaseInit PROVE ReleaseInv
  OBVIOUS
<1>1. ReleaseTypes
  BY DEF ReleaseInit, ReleaseTypes, BuiltImages, JobResults, RunOutputs, CommandStates
<1>2. ASSUME NEW r \in Releases PROVE Gates(r) /\ Reported(r) /\ command[r] = "none"
  BY DEF ReleaseInit, Gates, Reported, RunJobs
<1>3. InstanceInv
  BY <1>2 DEF ReleaseInit, InstanceInv
<1>4. QED
  BY <1>1, <1>2, <1>3 DEF ReleaseInv

\* A run that a step leaves alone.
LEMMA GatesSame ==
  ASSUME NEW q \in Releases, Gates(q), delivery' = delivery, jobs'[q] = jobs[q],
         outputs'[q] = outputs[q], report'[q] = report[q], command'[q] = command[q]
  PROVE  Gates(q)'
BY DEF Gates, Decision, LogOnly, Tells, Told

LEMMA ReportedSame ==
  ASSUME NEW q \in Releases, Reported(q), delivery' = delivery,
         conformance'[q] = conformance[q],
         Ended(q) => jobs'[q] = jobs[q] /\ outputs'[q] = outputs[q]
  PROVE  Reported(q)'
<1> SUFFICES ASSUME conformance[q] # NotMade
             PROVE  /\ Ended(q)' /\ CapabilitiesResolved(delivery[q].run.capabilities)
                    /\ conformance[q].controls
                         = BuildConformance(delivery[q].run, Observed(q)').controls
  BY DEF Reported
<1>1. Ended(q) /\ jobs'[q] = jobs[q] /\ outputs'[q] = outputs[q]
  BY DEF Reported
<1>2. Observed(q)' = Observed(q)
  BY <1>1 DEF Observed
<1>3. QED
  BY <1>1, <1>2 DEF Reported, Ended

\* A step that leaves the instance and the commands alone.
LEMMA InstanceSame ==
  ASSUME ReleaseInv, instance' = instance, command' = command,
         \A q \in Releases : command[q] # "none" => outputs'[q].digest = outputs[q].digest
  PROVE  InstanceInv'
BY DEF ReleaseInv, InstanceInv, Quiet

-----------------------------------------------------------------------------
(* The jobs before the deployment.                                         *)

\* A step of one run that leaves its instance alone and ends no job twice: what is left
\* to show is about that run.
LEMMA RunStep ==
  ASSUME ReleaseInv, NEW r \in Releases, ReleaseTypes', Gates(r)',
         delivery' = delivery, conformance' = conformance,
         \A q \in Releases \ {r} : /\ jobs'[q] = jobs[q] /\ outputs'[q] = outputs[q]
                                   /\ report'[q] = report[q],
         Ended(r) => jobs'[r] = jobs[r] /\ outputs'[r] = outputs[r],
         instance' = instance, command' = command,
         command[r] # "none" => outputs'[r].digest = outputs[r].digest
  PROVE  ReleaseInv'
<1>1. \A q \in Releases : Gates(q)'
  BY GatesSame DEF ReleaseInv
<1>2. \A q \in Releases : Reported(q)'
  BY ReportedSame DEF ReleaseInv
<1>3. InstanceInv'
  BY InstanceSame
<1>4. QED
  BY <1>1, <1>2, <1>3 DEF ReleaseInv

LEMMA SecurityGateInv ==
  ASSUME ReleaseInv, NEW r \in Releases, SecurityGate(r)
  PROVE  ReleaseInv'
<1> DEFINE x == IF Decision(r).outcome = "block" THEN "failure" ELSE "success"
<1>1. /\ jobs[r]["security-gate"] = "pending" /\ JobEnds(r, "security-gate", x)
      /\ outputs' = [outputs EXCEPT ![r].outcome = Decision(r).outcome,
                                    ![r].override = Decision(r).override]
      /\ UNCHANGED <<delivery, tarball, report, command, instance, polls, conformance,
                     releaseFaults>>
  BY DEF SecurityGate, Decision, Ready
<1>2. x \in JobResults /\ "security-gate" \in RunJobs /\ ReleaseTypes /\ Gates(r)
  BY DEF JobResults, RunJobs, ReleaseInv
<1>3. /\ jobs' \in [Releases -> [RunJobs -> JobResults]] /\ jobs'[r]["security-gate"] = x
      /\ \A i \in RunJobs \ {"security-gate"} : jobs'[r][i] = jobs[r][i]
      /\ \A q \in Releases \ {r} : jobs'[q] = jobs[q]
  BY <1>1, <1>2, JobEndsEffect
<1>4. /\ outputs' \in [Releases -> RunOutputs]
      /\ \A q \in Releases \ {r} : outputs'[q] = outputs[q]
      /\ outputs'[r].override = Decision(r).override
      /\ outputs'[r].imageId = outputs[r].imageId /\ outputs'[r].digest = outputs[r].digest
  <2>1. /\ Decision(r).outcome \in {"pass", "overridden-block", "block"}
        /\ Decision(r).override \in {Unset, "in-job", "approved"}
    BY Outcomes DEF Decision
  <2> DEFINE new == [outputs[r] EXCEPT !.outcome = Decision(r).outcome,
                                       !.override = Decision(r).override]
  <2>2. outputs[r] \in RunOutputs
    BY <1>2 DEF ReleaseTypes
  <2>3. /\ new \in RunOutputs /\ new.override = Decision(r).override
        /\ new.imageId = outputs[r].imageId /\ new.digest = outputs[r].digest
    BY <2>1, <2>2 DEF RunOutputs
  <2>4. outputs' = [outputs EXCEPT ![r] = new]
    BY <1>1, <1>2 DEF ReleaseTypes
  <2> HIDE DEF new
  <2>5. QED
    BY <1>2, <2>3, <2>4, OutputsEffect
<1>5. ReleaseTypes'
  BY <1>1, <1>2, <1>3, <1>4 DEF ReleaseTypes
<1>6. Gates(r)'
  <2>1. jobs[r]["ecr-collect"] # "success"
    BY <1>1, <1>2 DEF Gates
  <2>2. Decision(r)' = Decision(r) /\ LogOnly(r)' = LogOnly(r)
    BY <1>1 DEF Decision, LogOnly
  <2>3. QED
    BY <1>1, <1>2, <1>3, <1>4, <2>1, <2>2 DEF Gates, RunJobs
<1>7. ~Ended(r)
  BY <1>1 DEF Ended, RunJobs
<1>8. QED
  BY <1>1, <1>3, <1>4, <1>5, <1>6, <1>7, RunStep

LEMMA ImageSecurityInv ==
  ASSUME ReleaseInv, NEW r \in Releases, ImageSecurity(r)
  PROVE  ReleaseInv'
<1> DEFINE image == tarball[r]
           judged(trivy) == RunImageGate(delivery[r].policy, "trivy", trivy)
           x(trivy) == IF trivy = NoReport THEN "failure" ELSE Enforced(r, judged(trivy).verdict)
           id(trivy) == IF trivy = NoReport THEN NoImage ELSE image
<1>1. PICK trivy \in {TrivyReport(image)} \cup TrivyFaults(image) :
        /\ IF trivy = TrivyReport(image) THEN NoFault ELSE ReleaseFault
        /\ JobEnds(r, "image-security", x(trivy))
        /\ outputs' = [outputs EXCEPT ![r].imageId = id(trivy),
                                      ![r].prepush = judged(trivy).verdict,
                                      ![r].trusted = judged(trivy).trusted]
  BY DEF ImageSecurity
<1>2. /\ jobs[r]["image-security"] = "pending"
      /\ UNCHANGED <<delivery, tarball, report, command, instance, polls, conformance>>
      /\ releaseFaults' \in Nat
  BY <1>1 DEF ImageSecurity, Ready, NoFault, ReleaseFault, ReleaseInv, ReleaseTypes
<1>3. x(trivy) \in JobResults /\ "image-security" \in RunJobs /\ ReleaseTypes /\ Gates(r)
  BY DEF JobResults, RunJobs, ReleaseInv, Enforced
<1>4. /\ jobs' \in [Releases -> [RunJobs -> JobResults]] /\ jobs'[r]["image-security"] = x(trivy)
      /\ \A i \in RunJobs \ {"image-security"} : jobs'[r][i] = jobs[r][i]
      /\ \A q \in Releases \ {r} : jobs'[q] = jobs[q]
  BY <1>1, <1>3, JobEndsEffect
<1>5. /\ outputs' \in [Releases -> RunOutputs]
      /\ \A q \in Releases \ {r} : outputs'[q] = outputs[q]
      /\ outputs'[r].override = outputs[r].override
      /\ outputs'[r].imageId = id(trivy) /\ outputs'[r].digest = outputs[r].digest
  <2>1. id(trivy) \in BuiltImages \cup {NoImage}
    BY <1>3 DEF ReleaseTypes
  <2>2. judged(trivy).verdict \in Verdicts /\ judged(trivy).trusted \in BOOLEAN
    BY GateTyped
  <2> HIDE DEF id, judged
  <2> DEFINE new == [outputs[r] EXCEPT !.imageId = id(trivy), !.prepush = judged(trivy).verdict,
                                       !.trusted = judged(trivy).trusted]
  <2>3. outputs[r] \in RunOutputs
    BY <1>3 DEF ReleaseTypes
  <2>4. /\ new \in RunOutputs /\ new.override = outputs[r].override
        /\ new.imageId = id(trivy) /\ new.digest = outputs[r].digest
    BY <2>1, <2>2, <2>3 DEF RunOutputs
  <2>5. outputs' = [outputs EXCEPT ![r] = new]
    BY <1>1, <1>3 DEF ReleaseTypes
  <2> HIDE DEF new
  <2>6. QED
    BY <1>3, <2>4, <2>5, OutputsEffect
<1>6. ReleaseTypes'
  BY <1>2, <1>3, <1>4, <1>5 DEF ReleaseTypes
<1>7. ASSUME x(trivy) = "success"
      PROVE  id(trivy) \in BuiltImages /\ (~LogOnly(r) => Vouched(id(trivy)))
  <2>1. id(trivy) = image /\ image \in BuiltImages
    BY <1>3, <1>7 DEF ReleaseTypes
  <2>2. ~LogOnly(r) => judged(trivy).verdict # "BLOCK_DEPLOY"
    BY <1>7 DEF Enforced
  <2>3. QED
    BY <2>1, <2>2, TrivyGate DEF Vouched
<1> HIDE DEF id, x
<1>8. Gates(r)'
  <2>1. jobs[r]["ecr-collect"] # "success"
    BY <1>2, <1>3 DEF Gates
  <2>2. Decision(r)' = Decision(r) /\ LogOnly(r)' = LogOnly(r)
    BY <1>2 DEF Decision, LogOnly
  <2>3. QED
    BY <1>2, <1>3, <1>4, <1>5, <1>7, <2>1, <2>2 DEF Gates, RunJobs
<1>9. ~Ended(r)
  BY <1>2 DEF Ended, RunJobs
<1>10. QED
  BY <1>2, <1>4, <1>5, <1>6, <1>8, <1>9, RunStep

LEMMA SwapTarballInv ==
  ASSUME ReleaseInv, NEW r \in Releases, SwapTarball(r)
  PROVE  ReleaseInv'
<1>1. ReleaseTypes' /\ UNCHANGED <<delivery, jobs, outputs, report, command, instance, polls, conformance>>
  BY DEF SwapTarball, ReleaseInv, ReleaseTypes, BuiltImages, ReleaseFault
<1>2. Gates(r)'
  BY <1>1, GatesSame DEF ReleaseInv
<1>3. QED
  BY <1>1, <1>2, RunStep

LEMMA CollectInv ==
  ASSUME ReleaseInv, NEW r \in Releases, Collect(r)
  PROVE  ReleaseInv'
<1> DEFINE needed == {"security-gate", "image-security"}
           answer == EcrAnswer(tarball[r], delivery[r].enhanced)
<1>1. /\ jobs[r]["ecr-collect"] = "pending"
      /\ UNCHANGED <<delivery, tarball, command, instance, polls, conformance>>
  BY DEF Collect, Ready
<1>2. /\ "ecr-collect" \in RunJobs /\ ReleaseTypes /\ Gates(r)
      /\ {"failure", "skipped", "success"} \subseteq JobResults
  BY DEF JobResults, RunJobs, ReleaseInv
<1>3. ~Ended(r) /\ jobs[r]["artifact-gate"] # "success" /\ command[r] = "none"
  BY <1>1, <1>2 DEF Ended, RunJobs, Gates
<1>4. Decision(r)' = Decision(r) /\ LogOnly(r)' = LogOnly(r)
  BY <1>1 DEF Decision, LogOnly
<1>5. ASSUME NEW x \in {"failure", "skipped"}, JobEnds(r, "ecr-collect", x),
             releaseFaults' \in Nat, UNCHANGED <<outputs, report>>
      PROVE  ReleaseInv'
  <2>1. /\ jobs' \in [Releases -> [RunJobs -> JobResults]] /\ jobs'[r]["ecr-collect"] = x
        /\ \A i \in RunJobs \ {"ecr-collect"} : jobs'[r][i] = jobs[r][i]
        /\ \A q \in Releases \ {r} : jobs'[q] = jobs[q]
    BY <1>2, <1>5, JobEndsEffect
  <2>2. ReleaseTypes'
    BY <1>1, <1>2, <1>5, <2>1 DEF ReleaseTypes
  <2>3. Gates(r)'
    BY <1>1, <1>2, <1>3, <1>4, <1>5, <2>1 DEF Gates, RunJobs
  <2>4. QED
    BY <1>1, <1>3, <1>5, <2>1, <2>2, <2>3, RunStep
<1>6. ASSUME NEW a \in {answer} \cup EcrFaults(answer), Succeeded(r, needed), IsScanned(r),
             report' = [report EXCEPT ![r] =
               IF EcrSound(a, tarball[r]) THEN NormalizeEcrResponse(a) ELSE NoReport],
             JobEnds(r, "ecr-collect", "success"), Output(r, "digest", tarball[r]),
             releaseFaults' \in Nat
      PROVE  ReleaseInv'
  <2>1. /\ jobs' \in [Releases -> [RunJobs -> JobResults]] /\ jobs'[r]["ecr-collect"] = "success"
        /\ \A i \in RunJobs \ {"ecr-collect"} : jobs'[r][i] = jobs[r][i]
        /\ \A q \in Releases \ {r} : jobs'[q] = jobs[q]
    BY <1>2, <1>6, JobEndsEffect
  <2>2. tarball[r] \in BuiltImages /\ outputs[r] \in RunOutputs
    BY <1>2 DEF ReleaseTypes
  <2>3. /\ outputs' \in [Releases -> RunOutputs]
        /\ \A q \in Releases \ {r} : outputs'[q] = outputs[q]
        /\ outputs'[r].override = outputs[r].override
        /\ outputs'[r].imageId = outputs[r].imageId /\ outputs'[r].digest = tarball[r]
    <3> DEFINE new == [outputs[r] EXCEPT !.digest = tarball[r]]
    <3>1. /\ new \in RunOutputs /\ new.override = outputs[r].override
          /\ new.imageId = outputs[r].imageId /\ new.digest = tarball[r]
      BY <2>2 DEF RunOutputs
    <3>2. outputs' = [outputs EXCEPT ![r] = new]
      BY <1>2, <1>6 DEF ReleaseTypes, Output
    <3> HIDE DEF new
    <3>3. QED
      BY <1>2, <3>1, <3>2, OutputsEffect
  <2>4. /\ \A q \in Releases \ {r} : report'[q] = report[q]
        /\ report'[r] = IF EcrSound(a, tarball[r]) THEN NormalizeEcrResponse(a) ELSE NoReport
        /\ DOMAIN report' = Releases
    BY <1>2, <1>6 DEF ReleaseTypes
  <2>5. ReleaseTypes'
    BY <1>1, <1>2, <1>6, <2>1, <2>3, <2>4 DEF ReleaseTypes
  <2>6. Tells(report'[r], tarball[r])
    <3>1. CASE EcrSound(a, tarball[r])
      BY <2>2, <2>4, <3>1, CollectedTells, ImagesTyped
    <3>2. CASE ~EcrSound(a, tarball[r])
      BY <2>4, <3>2 DEF Tells, NoReport
    <3>3. QED
      BY <3>1, <3>2
  <2>7. /\ jobs[r]["security-gate"] = "success" /\ jobs[r]["image-security"] = "success"
        /\ tarball[r] = outputs[r].imageId
    BY <1>6 DEF Succeeded, IsScanned
  <2>8. Gates(r)'
    <3>1. Tells(report[r], outputs[r].digest)' = Tells(report'[r], outputs'[r].digest)
      BY DEF Tells, Told
    <3>2. QED
      BY <1>1, <1>2, <1>3, <1>4, <2>1, <2>3, <2>6, <2>7, <3>1 DEF Gates, RunJobs
  <2>9. QED
    BY <1>1, <1>3, <2>1, <2>3, <2>4, <2>5, <2>8, RunStep
<1>7. ReleaseFault \/ NoFault => releaseFaults' \in Nat
  BY <1>2 DEF ReleaseFault, NoFault, ReleaseTypes
<1>8. \/ JobEnds(r, "ecr-collect", "skipped") /\ NoFault /\ UNCHANGED <<outputs, report>>
      \/ JobEnds(r, "ecr-collect", "failure") /\ NoFault /\ UNCHANGED <<outputs, report>>
      \/ JobEnds(r, "ecr-collect", "failure") /\ ReleaseFault /\ UNCHANGED <<outputs, report>>
      \/ /\ Succeeded(r, needed) /\ IsScanned(r)
         /\ \E a \in {answer} \cup EcrFaults(answer) :
              /\ IF a = answer THEN NoFault ELSE ReleaseFault
              /\ report' = [report EXCEPT ![r] =
                   IF EcrSound(a, tarball[r]) THEN NormalizeEcrResponse(a) ELSE NoReport]
         /\ JobEnds(r, "ecr-collect", "success") /\ Output(r, "digest", tarball[r])
  BY DEF Collect
<1>9. CASE \/ JobEnds(r, "ecr-collect", "skipped") /\ NoFault /\ UNCHANGED <<outputs, report>>
           \/ JobEnds(r, "ecr-collect", "failure") /\ NoFault /\ UNCHANGED <<outputs, report>>
           \/ JobEnds(r, "ecr-collect", "failure") /\ ReleaseFault /\ UNCHANGED <<outputs, report>>
  BY <1>5, <1>7, <1>9
<1>10. CASE /\ Succeeded(r, needed) /\ IsScanned(r)
            /\ \E a \in {answer} \cup EcrFaults(answer) :
                 /\ IF a = answer THEN NoFault ELSE ReleaseFault
                 /\ report' = [report EXCEPT ![r] =
                      IF EcrSound(a, tarball[r]) THEN NormalizeEcrResponse(a) ELSE NoReport]
            /\ JobEnds(r, "ecr-collect", "success") /\ Output(r, "digest", tarball[r])
  <2>1. PICK a \in {answer} \cup EcrFaults(answer) :
          /\ IF a = answer THEN NoFault ELSE ReleaseFault
          /\ report' = [report EXCEPT ![r] =
               IF EcrSound(a, tarball[r]) THEN NormalizeEcrResponse(a) ELSE NoReport]
    BY <1>10
  <2>2. releaseFaults' \in Nat
    BY <1>7, <2>1
  <2>3. QED
    BY <1>6, <1>10, <2>1, <2>2
<1>11. QED
  BY <1>8, <1>9, <1>10

LEMMA ArtifactGateInv ==
  ASSUME ReleaseInv, NEW r \in Releases, ArtifactGate(r)
  PROVE  ReleaseInv'
<1> DEFINE judged(handed) == RunImageGate(delivery[r].policy, "registry", handed).verdict
<1>1. /\ jobs[r]["artifact-gate"] = "pending"
      /\ UNCHANGED <<delivery, tarball, report, command, instance, polls, conformance>>
  BY DEF ArtifactGate, Ready
<1>2. /\ "artifact-gate" \in RunJobs /\ ReleaseTypes /\ Gates(r)
      /\ {"failure", "skipped", "success"} \subseteq JobResults
  BY DEF JobResults, RunJobs, ReleaseInv
<1>3. ~Ended(r) /\ command[r] = "none"
  BY <1>1, <1>2 DEF Ended, RunJobs, Gates
<1>4. Decision(r)' = Decision(r) /\ LogOnly(r)' = LogOnly(r)
  BY <1>1 DEF Decision, LogOnly
<1>5. ASSUME NEW x \in {"failure", "skipped", "success"}, JobEnds(r, "artifact-gate", x),
             NEW v \in Verdicts,
             outputs' = outputs \/ Output(r, "artifact", v), releaseFaults' \in Nat,
             x = "success" => /\ jobs[r]["ecr-collect"] = "success"
                              /\ ~LogOnly(r) => NoUrgent(outputs[r].digest)
      PROVE  ReleaseInv'
  <2>1. /\ jobs' \in [Releases -> [RunJobs -> JobResults]] /\ jobs'[r]["artifact-gate"] = x
        /\ \A i \in RunJobs \ {"artifact-gate"} : jobs'[r][i] = jobs[r][i]
        /\ \A q \in Releases \ {r} : jobs'[q] = jobs[q]
    BY <1>2, <1>5, JobEndsEffect
  <2>2. /\ outputs' \in [Releases -> RunOutputs]
        /\ \A q \in Releases \ {r} : outputs'[q] = outputs[q]
        /\ outputs'[r].override = outputs[r].override
        /\ outputs'[r].imageId = outputs[r].imageId /\ outputs'[r].digest = outputs[r].digest
    <3>1. CASE outputs' = outputs
      BY <1>2, <3>1 DEF ReleaseTypes
    <3>2. CASE Output(r, "artifact", v)
      <4> DEFINE new == [outputs[r] EXCEPT !.artifact = v]
      <4>1. outputs[r] \in RunOutputs
        BY <1>2 DEF ReleaseTypes
      <4>2. /\ new \in RunOutputs /\ new.override = outputs[r].override
            /\ new.imageId = outputs[r].imageId /\ new.digest = outputs[r].digest
        BY <4>1 DEF RunOutputs
      <4>3. outputs' = [outputs EXCEPT ![r] = new]
        BY <1>2, <3>2 DEF ReleaseTypes, Output
      <4> HIDE DEF new
      <4>4. QED
        BY <1>2, <4>2, <4>3, OutputsEffect
    <3>3. QED
      BY <1>5, <3>1, <3>2
  <2>3. ReleaseTypes'
    BY <1>1, <1>2, <1>5, <2>1, <2>2 DEF ReleaseTypes
  <2>4. Gates(r)'
    <3>1. /\ Tells(report[r], outputs[r].digest)' <=> Tells(report[r], outputs[r].digest)
          /\ NoUrgent(outputs[r].digest)' <=> NoUrgent(outputs[r].digest)
      BY <1>1, <2>2 DEF Tells, Told, NoUrgent
    <3>2. QED
      BY <1>1, <1>2, <1>3, <1>4, <1>5, <2>1, <2>2, <3>1 DEF Gates, RunJobs
  <2>5. QED
    BY <1>1, <1>3, <2>1, <2>2, <2>3, <2>4, RunStep
<1>6. ReleaseFault \/ NoFault => releaseFaults' \in Nat
  BY <1>2 DEF ReleaseFault, NoFault, ReleaseTypes
<1>7. CASE JobEnds(r, "artifact-gate", "skipped") /\ NoFault /\ UNCHANGED outputs
  BY <1>5, <1>6, <1>7 DEF Verdicts
<1>8. ASSUME NEW handed \in Handed(r), Succeeded(r, {"ecr-collect"}),
             IF handed = report[r] THEN NoFault ELSE ReleaseFault,
             IF handed.state = "ok" /\ handed.digest # outputs[r].digest
             THEN JobEnds(r, "artifact-gate", "failure") /\ Output(r, "artifact", "BLOCK_DEPLOY")
             ELSE /\ JobEnds(r, "artifact-gate", Enforced(r, judged(handed)))
                  /\ Output(r, "artifact", judged(handed))
      PROVE  ReleaseInv'
  <2>1. releaseFaults' \in Nat
    BY <1>6, <1>8
  <2>2. CASE JobEnds(r, "artifact-gate", "failure") /\ Output(r, "artifact", "BLOCK_DEPLOY")
    BY <1>5, <2>1, <2>2 DEF Verdicts
  <2>3. CASE /\ JobEnds(r, "artifact-gate", Enforced(r, judged(handed)))
             /\ Output(r, "artifact", judged(handed))
    <3>1. judged(handed) \in Verdicts /\ Enforced(r, judged(handed)) \in {"failure", "skipped", "success"}
      BY GateTyped DEF Enforced
    <3>2. /\ jobs[r]["ecr-collect"] = "success" /\ outputs[r].digest \in BuiltImages
          /\ Tells(report[r], outputs[r].digest)
      BY <1>2, <1>8 DEF Succeeded, Gates
    <3>3. handed \in Changed(report[r])
      BY <1>8 DEF Changed, Handed
    <3>4. ~LogOnly(r) /\ Enforced(r, judged(handed)) = "success" => NoUrgent(outputs[r].digest)
      BY <3>2, <3>3, ArtifactGatePasses, ImagesTyped DEF Enforced
    <3> HIDE DEF judged
    <3>5. QED
      BY <1>5, <2>1, <2>3, <3>1, <3>2, <3>4
  <2>4. QED
    BY <1>8, <2>2, <2>3
<1>9. QED
  BY <1>7, <1>8 DEF ArtifactGate

\* The end of a job that does not succeed, and of no other.
LEMMA UnsuccessfulEnd ==
  ASSUME ReleaseInv, NEW r \in Releases, NEW j \in RunJobs, NEW x \in JobResults \ {"success"},
         jobs[r][j] = "pending", JobEnds(r, j, x), releaseFaults' \in Nat,
         polls' \in [Releases -> Nat],
         UNCHANGED <<delivery, tarball, outputs, report, command, instance, conformance>>
  PROVE  ReleaseInv'
<1>1. ReleaseTypes /\ Gates(r) /\ ~Ended(r)
  BY DEF ReleaseInv, Ended
<1>2. /\ jobs' \in [Releases -> [RunJobs -> JobResults]] /\ jobs'[r][j] = x
      /\ \A i \in RunJobs \ {j} : jobs'[r][i] = jobs[r][i]
      /\ \A q \in Releases \ {r} : jobs'[q] = jobs[q]
  BY <1>1, JobEndsEffect
<1>3. ReleaseTypes'
  BY <1>1, <1>2 DEF ReleaseTypes
<1>4. Gates(r)'
  <2>1. \A i \in RunJobs : /\ jobs'[r][i] = "success" => jobs[r][i] = "success"
                           /\ jobs[r][i] = "success" => jobs'[r][i] = "success"
    BY <1>2
  <2>2. /\ Decision(r)' = Decision(r) /\ LogOnly(r)' = LogOnly(r)
        /\ Tells(report[r], outputs[r].digest)' <=> Tells(report[r], outputs[r].digest)
        /\ NoUrgent(outputs[r].digest)' <=> NoUrgent(outputs[r].digest)
    BY DEF Decision, LogOnly, Tells, Told, NoUrgent
  <2>3. QED
    BY <1>1, <2>1, <2>2 DEF Gates, RunJobs
<1>5. QED
  BY <1>1, <1>2, <1>3, <1>4, RunStep

LEMMA LoseJobInv ==
  ASSUME ReleaseInv, NEW r \in Releases, LoseJob(r)
  PROVE  ReleaseInv'
<1>1. PICK j \in RunJobs : jobs[r][j] = "pending" /\ JobEnds(r, j, "cancelled")
  BY DEF LoseJob
<1>2. /\ releaseFaults' \in Nat /\ polls' \in [Releases -> Nat]
      /\ "cancelled" \in JobResults \ {"success"}
  BY DEF LoseJob, ReleaseFault, ReleaseInv, ReleaseTypes, JobResults
<1>3. QED
  BY <1>1, <1>2, UnsuccessfulEnd DEF LoseJob

-----------------------------------------------------------------------------
(* The deployment: a run's command moves, its jobs have passed.            *)

\* What a command's step must show about the run and the instance.
LEMMA CommandStep ==
  ASSUME ReleaseInv, NEW r \in Releases, NEW c \in CommandStates,
         command' = [command EXCEPT ![r] = c],
         jobs[r]["ecr-collect"] = "success" /\ jobs[r]["artifact-gate"] = "success",
         jobs[r]["deploy"] # "success",
         UNCHANGED <<delivery, tarball, jobs, outputs, report, polls, conformance>>,
         releaseFaults' \in Nat,
         instance' \in [running : BuiltImages \cup {NoImage}, started : SUBSET (BuiltImages \cup {NoImage})],
         InstanceInv'
  PROVE  ReleaseInv'
<1>1. ReleaseTypes /\ Gates(r)
  BY DEF ReleaseInv
<1>2. command' \in [Releases -> CommandStates] /\ \A q \in Releases \ {r} : command'[q] = command[q]
  BY <1>1 DEF ReleaseTypes
<1>3. ReleaseTypes'
  BY <1>1, <1>2 DEF ReleaseTypes
<1>4. Gates(r)'
  BY <1>1 DEF Gates, Decision, LogOnly, Tells, Told, NoUrgent
<1>5. \A q \in Releases : Gates(q)'
  BY <1>2, <1>4, GatesSame DEF ReleaseInv
<1>6. \A q \in Releases : Reported(q)'
  BY ReportedSame DEF ReleaseInv
<1>7. QED
  BY <1>3, <1>5, <1>6 DEF ReleaseInv

\* A command that goes on without touching the container, or ends.
LEMMA CommandQuietly ==
  ASSUME ReleaseInv, NEW r \in Releases, NEW from \in CommandStates \ {"done"},
         NEW c \in CommandStates \ {"none"}, command[r] = from,
         command' = [command EXCEPT ![r] = c],
         c \in {"run", "done"} => from = "run",
         c \in {"sent", "pulled"} => from \in {"none", "sent"},
         UNCHANGED <<outputs, instance>>
  PROVE  InstanceInv'
<1>1. /\ command'[r] = c /\ \A q \in Releases \ {r} : command'[q] = command[q]
      /\ InstanceInv /\ ReleaseTypes
  BY DEF ReleaseInv, ReleaseTypes
<1>2. \A q \in Releases : Quiet(q)' => Quiet(q)
  BY <1>1 DEF Quiet
<1>3. \A q \in Releases : command'[q] # "none" \/ command[q] = "none"
  BY <1>1
<1>4. \A q \in Releases : command'[q] \in {"run", "done"} => command[q] \in {"run", "done"}
  BY <1>1
<1>5. QED
  BY <1>1, <1>2, <1>3, <1>4 DEF InstanceInv

LEMMA SendInv ==
  ASSUME ReleaseInv, NEW r \in Releases, Send(r)
  PROVE  ReleaseInv'
<1> DEFINE needed == {"ecr-collect", "artifact-gate"}
<1>1. /\ jobs[r]["deploy"] = "pending" /\ command[r] = "none"
      /\ UNCHANGED <<delivery, tarball, outputs, report, instance, polls, conformance>>
  BY DEF Send, Ready
<1>2. /\ ReleaseTypes /\ Gates(r) /\ polls' \in [Releases -> Nat] /\ "deploy" \in RunJobs
      /\ {"skipped", "failure"} \subseteq JobResults \ {"success"}
      /\ {"none", "sent"} \subseteq CommandStates
  BY <1>1 DEF ReleaseInv, ReleaseTypes, JobResults, RunJobs, CommandStates
<1>3. /\ ReleaseFault \/ NoFault => releaseFaults' \in Nat
      /\ Succeeded(r, needed) =>
           jobs[r]["ecr-collect"] = "success" /\ jobs[r]["artifact-gate"] = "success"
  BY <1>2 DEF ReleaseFault, NoFault, ReleaseTypes, Succeeded
<1>4. CASE JobEnds(r, "deploy", "skipped") /\ NoFault /\ UNCHANGED command
  BY <1>1, <1>2, <1>3, <1>4, UnsuccessfulEnd
<1>5. CASE Succeeded(r, needed) /\ command' = [command EXCEPT ![r] = "sent"] /\ NoFault /\ UNCHANGED jobs
  <2>1. InstanceInv'
    BY <1>1, <1>2, <1>5, CommandQuietly
  <2>2. QED
    BY <1>1, <1>2, <1>3, <1>5, <2>1, CommandStep DEF ReleaseTypes
<1>6. ASSUME NEW c \in {"none", "sent"}, Succeeded(r, needed), ReleaseFault,
             JobEnds(r, "deploy", "failure"), command' = [command EXCEPT ![r] = c]
      PROVE  ReleaseInv'
  <2>1. CASE c = "none"
    <3>1. command' = command
      BY <1>1, <1>2, <1>6, <2>1 DEF ReleaseTypes
    <3>2. QED
      BY <1>1, <1>2, <1>3, <1>6, <3>1, UnsuccessfulEnd
  <2>2. CASE c = "sent"
    <3>1. InstanceInv'
      BY <1>1, <1>2, <1>6, <2>2, CommandQuietly
    <3>2. /\ jobs' \in [Releases -> [RunJobs -> JobResults]] /\ jobs'[r]["deploy"] = "failure"
          /\ \A i \in RunJobs \ {"deploy"} : jobs'[r][i] = jobs[r][i]
          /\ \A q \in Releases \ {r} : jobs'[q] = jobs[q]
      BY <1>2, <1>6, JobEndsEffect
    <3>3. command' \in [Releases -> CommandStates] /\ \A q \in Releases \ {r} : command'[q] = command[q]
      BY <1>2, <1>6 DEF ReleaseTypes
    <3>4. ReleaseTypes'
      BY <1>1, <1>2, <1>3, <1>6, <3>2, <3>3 DEF ReleaseTypes
    <3>5. Gates(r)'
      <4>1. \A i \in RunJobs \ {"deploy"} : jobs'[r][i] = jobs[r][i]
        BY <3>2
      <4>2. /\ Decision(r)' = Decision(r) /\ LogOnly(r)' = LogOnly(r)
            /\ Tells(report[r], outputs[r].digest)' <=> Tells(report[r], outputs[r].digest)
            /\ NoUrgent(outputs[r].digest)' <=> NoUrgent(outputs[r].digest)
        BY <1>1 DEF Decision, LogOnly, Tells, Told, NoUrgent
      <4>3. QED
        BY <1>1, <1>2, <1>3, <1>6, <3>2, <4>1, <4>2 DEF Gates, RunJobs
    <3>6. ~Ended(r)
      BY <1>1, <1>2 DEF Ended
    <3>7. \A q \in Releases : Gates(q)' /\ Reported(q)'
      BY <1>1, <3>2, <3>3, <3>5, <3>6, GatesSame, ReportedSame DEF ReleaseInv
    <3>8. QED
      BY <3>1, <3>4, <3>7 DEF ReleaseInv
  <2>3. QED
    BY <2>1, <2>2
<1>7. QED
  BY <1>4, <1>5, <1>6 DEF Send

\* While a command is on the instance its run's jobs have passed and no success is claimed.
LEMMA Under ==
  ASSUME ReleaseInv, NEW r \in Releases, command[r] \in CommandStates \ {"none", "done"}
  PROVE  /\ jobs[r]["ecr-collect"] = "success" /\ jobs[r]["artifact-gate"] = "success"
         /\ jobs[r]["deploy"] # "success"
BY DEF ReleaseInv, Gates

LEMMA QuietSteps ==
  ASSUME ReleaseInv, NEW r \in Releases,
         Pull(r) \/ Prune(r) \/ CommandStops(r)
         \/ (instance.running # NoImage /\ RunContainer(r))
  PROVE  ReleaseInv'
<1>1. ReleaseTypes /\ OnInstance /\ UNCHANGED instance /\ releaseFaults' \in Nat
  BY DEF Pull, Prune, CommandStops, RunContainer, NoFault, ReleaseFault, ReleaseInv, ReleaseTypes
<1>2. PICK from \in CommandStates \ {"none", "done"}, c \in CommandStates \ {"none"} :
        /\ command[r] = from /\ command' = [command EXCEPT ![r] = c]
        /\ c \in {"run", "done"} => from = "run"
        /\ c \in {"sent", "pulled"} => from \in {"none", "sent"}
  <2>1. {"sent", "pulled", "removed", "run"} \subseteq CommandStates \ {"none", "done"}
        /\ {"pulled", "done", "failed"} \subseteq CommandStates \ {"none"}
    BY DEF CommandStates
  <2>2. CASE Pull(r)
    BY <2>1, <2>2 DEF Pull, Command
  <2>3. CASE Prune(r)
    BY <2>1, <2>3 DEF Prune, Command
  <2>4. CASE CommandStops(r)
    BY <2>1, <2>4 DEF CommandStops
  <2>5. CASE instance.running # NoImage /\ RunContainer(r)
    BY <2>1, <2>5 DEF RunContainer, Command
  <2>6. QED
    BY <2>2, <2>3, <2>4, <2>5
<1>3. InstanceInv'
  BY <1>1, <1>2, CommandQuietly DEF OnInstance
<1>4. QED
  BY <1>1, <1>2, <1>3, Under, CommandStep DEF OnInstance, ReleaseTypes

\* The container is removed by whichever command comes: its own run's, or another's,
\* which is then no longer quiet.
LEMMA RemoveInv ==
  ASSUME ReleaseInv, NEW r \in Releases, Remove(r)
  PROVE  ReleaseInv'
<1>1. /\ ReleaseTypes /\ OnInstance /\ releaseFaults' \in Nat /\ command[r] = "pulled"
      /\ command' = [command EXCEPT ![r] = "removed"]
      /\ instance' = [instance EXCEPT !.running = NoImage] /\ InstanceInv
  BY DEF Remove, Command, NoFault, ReleaseInv, ReleaseTypes
<1>2. /\ instance'.running = NoImage /\ instance'.started = instance.started
      /\ instance' \in [running : BuiltImages \cup {NoImage}, started : SUBSET (BuiltImages \cup {NoImage})]
  BY <1>1 DEF ReleaseTypes
<1>3. command'[r] = "removed" /\ \A q \in Releases \ {r} : command'[q] = command[q]
  BY <1>1 DEF ReleaseTypes
<1>4. InstanceInv'
  <2>1. ASSUME NEW q \in Releases, command'[q] \in {"run", "done"}
        PROVE  /\ outputs[q].digest \in instance.started
               /\ ~\A o \in Releases \ {q} : Quiet(o)'
    <3>1. q # r /\ command[q] \in {"run", "done"}
      BY <1>3, <2>1
    <3>2. ~Quiet(r)'
      BY <1>3 DEF Quiet
    <3>3. QED
      BY <1>1, <3>1, <3>2 DEF InstanceInv
  <2>2. outputs' = outputs
    BY <1>1 DEF OnInstance
  <2>3. QED
    BY <1>2, <2>1, <2>2 DEF InstanceInv
<1>5. "removed" \in CommandStates /\ command[r] \in CommandStates \ {"none", "done"}
  BY <1>1 DEF CommandStates
<1>6. QED
  BY <1>1, <1>2, <1>4, <1>5, Under, CommandStep DEF OnInstance

LEMMA StartInv ==
  ASSUME ReleaseInv, NEW r \in Releases, RunContainer(r), instance.running = NoImage
  PROVE  ReleaseInv'
<1>1. /\ ReleaseTypes /\ OnInstance /\ releaseFaults' \in Nat /\ command[r] = "removed"
      /\ command' = [command EXCEPT ![r] = "run"]
      /\ instance' = [running |-> outputs[r].digest,
                      started |-> instance.started \cup {outputs[r].digest}]
  BY DEF RunContainer, Command, NoFault, ReleaseInv, ReleaseTypes
<1>2. outputs[r].digest \in BuiltImages \cup {NoImage} /\ outputs' = outputs
  BY <1>1 DEF ReleaseTypes, RunOutputs, OnInstance
<1>3. /\ instance'.running = outputs[r].digest /\ outputs[r].digest \in instance'.started
      /\ instance.started \subseteq instance'.started
      /\ instance' \in [running : BuiltImages \cup {NoImage}, started : SUBSET (BuiltImages \cup {NoImage})]
  BY <1>1, <1>2 DEF ReleaseTypes
<1>4. command'[r] = "run" /\ \A q \in Releases \ {r} : command'[q] = command[q]
  BY <1>1 DEF ReleaseTypes
<1>5. InstanceInv'
  <2>1. ASSUME NEW q \in Releases \ {r}, command'[q] \in {"run", "done"}
        PROVE  /\ outputs[q].digest \in instance'.started
               /\ ~\A o \in Releases \ {q} : Quiet(o)'
    <3>1. ~Quiet(r)'
      BY <1>4 DEF Quiet
    <3>2. QED
      BY <1>3, <1>4, <2>1, <3>1 DEF ReleaseInv, InstanceInv
  <2>2. QED
    BY <1>2, <1>3, <1>4, <2>1 DEF InstanceInv
<1>6. "run" \in CommandStates /\ command[r] \in CommandStates \ {"none", "done"}
  BY <1>1 DEF CommandStates
<1>7. QED
  BY <1>1, <1>3, <1>5, <1>6, Under, CommandStep DEF OnInstance

LEMMA PollInv ==
  ASSUME ReleaseInv, NEW r \in Releases, Poll(r)
  PROVE  ReleaseInv'
<1>1. /\ ReleaseTypes /\ Gates(r) /\ jobs[r]["deploy"] = "pending" /\ command[r] # "none"
      /\ UNCHANGED <<delivery, tarball, outputs, report, command, instance, conformance>>
      /\ polls' = [polls EXCEPT ![r] = @ + 1]
      /\ "deploy" \in RunJobs /\ "failure" \in JobResults \ {"success"} /\ "success" \in JobResults
  BY DEF Poll, ReleaseInv, RunJobs, JobResults
<1>2. polls' \in [Releases -> Nat] /\ releaseFaults' \in Nat
  BY <1>1 DEF ReleaseTypes, Poll, NoFault, ReleaseFault
<1>3. CASE JobEnds(r, "deploy", "failure")
  BY <1>1, <1>2, <1>3, UnsuccessfulEnd
<1>4. CASE jobs' = jobs
  <2>1. ReleaseTypes'
    BY <1>1, <1>2, <1>4 DEF ReleaseTypes
  <2>2. Gates(r)'
    BY <1>1, <1>4, GatesSame
  <2>3. QED
    BY <1>1, <1>4, <2>1, <2>2, RunStep
<1>5. CASE Status(r) = "Success" /\ JobEnds(r, "deploy", "success")
  <2>1. command[r] = "done"
    BY <1>1, <1>5 DEF Status, ReleaseTypes, CommandStates
  <2>2. /\ jobs' \in [Releases -> [RunJobs -> JobResults]] /\ jobs'[r]["deploy"] = "success"
        /\ \A i \in RunJobs \ {"deploy"} : jobs'[r][i] = jobs[r][i]
        /\ \A q \in Releases \ {r} : jobs'[q] = jobs[q]
    BY <1>1, <1>5, JobEndsEffect
  <2>3. ReleaseTypes'
    BY <1>1, <1>2, <2>2 DEF ReleaseTypes
  <2>4. Gates(r)'
    <3>1. /\ Decision(r)' = Decision(r) /\ LogOnly(r)' = LogOnly(r)
          /\ Tells(report[r], outputs[r].digest)' <=> Tells(report[r], outputs[r].digest)
          /\ NoUrgent(outputs[r].digest)' <=> NoUrgent(outputs[r].digest)
      BY <1>1 DEF Decision, LogOnly, Tells, Told, NoUrgent
    <3>2. QED
      BY <1>1, <2>1, <2>2, <3>1 DEF Gates, RunJobs
  <2>5. ~Ended(r)
    BY <1>1 DEF Ended
  <2>6. QED
    BY <1>1, <2>2, <2>3, <2>4, <2>5, RunStep
<1>6. QED
  BY <1>3, <1>4, <1>5 DEF Poll

-----------------------------------------------------------------------------
(* The conformance report, and every step.                                 *)

LEMMA ConformInv ==
  ASSUME ReleaseInv, NEW r \in Releases, Conform(r)
  PROVE  ReleaseInv'
<1> DEFINE built == BuildConformance(delivery[r].run, Observed(r))
           made == [made |-> TRUE, controls |-> built.controls, warned |-> built.warned]
<1>1. /\ ReleaseTypes /\ Ended(r) /\ CapabilitiesResolved(delivery[r].run.capabilities)
      /\ conformance' = [conformance EXCEPT ![r] = made]
      /\ UNCHANGED <<delivery, tarball, jobs, outputs, report, command, instance, polls,
                     releaseFaults>>
  BY DEF Conform, Ended, ReleaseInv
<1>2. ReleaseTypes'
  BY <1>1 DEF ReleaseTypes
<1>3. \A q \in Releases : Gates(q)'
  BY <1>1, GatesSame DEF ReleaseInv
<1>4. ASSUME NEW q \in Releases \ {r} PROVE Reported(q)'
  <2>1. conformance'[q] = conformance[q]
    BY <1>1 DEF ReleaseTypes
  <2>2. QED
    BY <1>1, <2>1, ReportedSame DEF ReleaseInv
<1>5. Reported(r)'
  <2>1. conformance'[r].controls = built.controls
    <3>1. conformance'[r] = made
      BY <1>1 DEF ReleaseTypes
    <3>2. QED
      BY <3>1
  <2>2. Observed(r)' = Observed(r) /\ Ended(r)'
    BY <1>1, SMTT(30) DEF Observed, Ended
  <2>3. QED
    BY <1>1, <2>1, <2>2 DEF Reported
<1>6. InstanceInv'
  BY <1>1, InstanceSame
<1>7. QED
  BY <1>2, <1>3, <1>4, <1>5, <1>6 DEF ReleaseInv

LEMMA NextRelease == ReleaseInv /\ [ReleaseNext]_releaseVars => ReleaseInv'
<1> SUFFICES ASSUME ReleaseInv, [ReleaseNext]_releaseVars PROVE ReleaseInv'
  OBVIOUS
<1>1. CASE UNCHANGED releaseVars
  <2>1. ReleaseTypes'
    BY <1>1 DEF ReleaseInv, ReleaseTypes, releaseVars
  <2>2. \A q \in Releases : Gates(q)' /\ Reported(q)'
    BY <1>1, GatesSame, ReportedSame DEF ReleaseInv, releaseVars
  <2>3. InstanceInv'
    BY <1>1, InstanceSame DEF releaseVars
  <2>4. QED
    BY <2>1, <2>2, <2>3 DEF ReleaseInv
<1>2. ASSUME NEW r \in Releases, RunnerStep(r) PROVE ReleaseInv'
  BY <1>2, SecurityGateInv, ImageSecurityInv, CollectInv, ArtifactGateInv, SendInv, PollInv,
     ConformInv DEF RunnerStep
<1>3. ASSUME NEW r \in Releases, InstanceStep(r) PROVE ReleaseInv'
  BY <1>3, QuietSteps, RemoveInv, StartInv DEF InstanceStep
<1>4. QED
  BY <1>1, <1>2, <1>3, SwapTarballInv, LoseJobInv DEF ReleaseNext

\* Every release keeps what its jobs' successes imply.
THEOREM ReleaseInvariant == ReleaseSpec => []ReleaseInv
BY InitRelease, NextRelease, PTL DEF ReleaseSpec

-----------------------------------------------------------------------------
(* What runs, and what is claimed of it.                                   *)

LEMMA DeployedFollows == ReleaseInv => DeployedIsGated
<1> SUFFICES ASSUME ReleaseInv, instance.running # NoImage
             PROVE  \E r \in Releases :
                      /\ outputs[r].digest = instance.running
                      /\ SourceAuthorized(delivery[r])
                      /\ ~LogOnly(r) => ~Unfit(instance.running)
  BY DEF DeployedIsGated
<1>1. PICK r \in Releases : command[r] # "none" /\ outputs[r].digest = instance.running
  BY DEF ReleaseInv, InstanceInv
<1>2. /\ Decision(r).outcome # "block"
      /\ ~LogOnly(r) => Vouched(instance.running) /\ NoUrgent(instance.running)
  BY <1>1 DEF ReleaseInv, Gates
<1>3. SourceAuthorized(delivery[r])
  BY <1>2, PassedIsAuthorized, DeliveryAssumption DEF ReleaseInv, ReleaseTypes, Decision
<1>4. ~LogOnly(r) => ~Unfit(instance.running)
  BY <1>2 DEF Vouched, NoUrgent, Unfit
<1>5. QED
  BY <1>1, <1>3, <1>4

\* Whatever a scanner or registry left out, whichever image slipped in, and however the
\* deployments interleave: what runs belongs to a run whose source was passed or approved
\* and, unless that run enforces nothing, is fit.
THEOREM OnlyGatedImagesRun == ReleaseSpec => []DeployedIsGated
BY ReleaseInvariant, DeployedFollows, PTL

LEMMA SuccessFollows == ReleaseInv => SuccessMeansRunning
BY DEF ReleaseInv, Gates, InstanceInv, SuccessMeansRunning, Quiet

\* A deployment job that succeeds has started its own image, which runs unless another
\* run's command reached the instance.
THEOREM DeploySuccessIsTrue == ReleaseSpec => []SuccessMeansRunning
BY ReleaseInvariant, SuccessFollows, PTL

\* Without exemptions an expected control is judged by what was observed of it.
LEMMA Judged ==
  ASSUME NEW run, run.exemptions = <<>>, NEW observed, NEW c \in DOMAIN observed,
         Expected(c, run)
  PROVE  /\ ControlStatus(c, run, observed).why = Judge(c, observed, run.breakGlass, run.strict).why
         /\ ControlStatus(c, run, observed).status = "failed"
              \/ Judge(c, observed, run.breakGlass, run.strict).passed
<1>1. ExemptionFor(c, run) = {}
  BY DEF ExemptionFor
<1>2. ~Exempt(c, run) /\ AppliesWhen(c, run.capabilities, run.breakGlass)
  BY <1>1 DEF Exempt, Expected
<1>3. QED
  BY <1>2 DEF ControlStatus

\* A scan or a job passes only by a status that says so.
LEMMA PassedByStatus ==
  ASSUME NEW c \in AllControls, NEW o, ExplainObserved(c, o).passed
  PROVE  o.status \in PassedStatuses
<1>1. \A why : ~Explained(FALSE, why).passed
  BY DEF Explained
<1>2. ~ExplainFailed(c, o).passed
  BY <1>1 DEF ExplainFailed
<1>3. QED
  BY <1>1, <1>2 DEF ExplainObserved

LEMMA ObservedOf ==
  ASSUME NEW r
  PROVE  LET s == delivery[r].source  v == delivery[r].review  o == outputs[r] IN
         /\ DOMAIN Observed(r) = AllControls
         /\ \A c \in ScanControls : Observed(r)[c] = [status |-> s.controls[c]]
         /\ Observed(r)["source-gate"] =
              [status |-> s.gateJob, verdict |-> s.verdict, mode |-> s.mode,
               trusted |-> s.trusted, eligible |-> s.eligible, digest |-> s.digest,
               override |-> o.override]
         /\ Observed(r)["break-glass"] =
              [status |-> v.result, decision |-> v.status, delivered |-> v.delivered,
               digest |-> v.digest, delegated |-> s.delegated]
         /\ Observed(r)["gated-deploy"] = [status |-> jobs[r]["deploy"]]
<1>1. \A c \in ScanControls : Observed(r)[c] = [status |-> delivery[r].source.controls[c]]
  <2> SUFFICES ASSUME NEW c \in ScanControls
               PROVE  Observed(r)[c] = [status |-> delivery[r].source.controls[c]]
    OBVIOUS
  <2>1. /\ c \in AllControls
        /\ c \notin {"source-gate", "image-scan-prepush", "break-glass", "registry-scan-collect",
                     "artifact-gate", "gated-deploy"}
    BY DEF AllControls, ScanControls
  <2>2. QED
    BY <2>1 DEF Observed
<1>2. {"source-gate", "break-glass", "gated-deploy"} \subseteq AllControls \ ScanControls
  BY DEF AllControls, ScanControls, GateControls, DeliveryControls
<1>3. QED
  BY <1>1, <1>2 DEF Observed

LEMMA ApprovalExplained ==
  ASSUME NEW bg, NEW sg, BreakGlassFields \subseteq DOMAIN bg, sg.status # Unset,
         bg.delegated = TRUE, bg.status = "success", bg.decision = "approved",
         ApprovedFor(bg, sg)
  PROVE  ExplainBreakGlass(bg, sg) = Explained(TRUE, "approved")
<1>1. ExplainBreakGlass(bg, sg) =
        IF bg.status \in {"skipped", Unset, "cancelled"} THEN Explained(FALSE, "not-run")
        ELSE IF bg.decision \in {"denied", "expired", "timeout", "refused"}
             THEN Explained(FALSE, "not-approved")
        ELSE IF ApprovedFor(bg, sg) THEN Explained(TRUE, "approved")
        ELSE Explained(FALSE, "not-verified")
  BY DEF ExplainBreakGlass
<1>2. "success" # Unset
  BY UnsetAssumption DEF PassedStatuses
<1>3. QED
  BY <1>1, <1>2

\* The two approvals of a delegated block: the final gate's, and the report's.
LEMMA OverrideReported ==
  ASSUME NEW observed,
         {"source-gate", "break-glass"} \subseteq DOMAIN observed,
         NEW s, NEW v,
         observed["source-gate"] =
           [status |-> s.gateJob, verdict |-> s.verdict, mode |-> s.mode,
            trusted |-> s.trusted, eligible |-> s.eligible, digest |-> s.digest,
            override |-> "approved"],
         observed["break-glass"] =
           [status |-> v.result, decision |-> v.status, delivered |-> v.delivered,
            digest |-> v.digest, delegated |-> s.delegated],
         s.verdict = "BLOCK", s.mode = "enforce", s.gateJob # Unset,
         s.trusted = TRUE, s.eligible = TRUE, s.delegated = TRUE,
         v.result = "success", v.status = "approved", v.delivered = TRUE,
         s.digest # Unset, v.digest = s.digest
  PROVE  /\ Judge("source-gate", observed, TRUE, TRUE).why = "overridden"
         /\ Judge("break-glass", observed, TRUE, TRUE).why = "approved"
<1> DEFINE sg == observed["source-gate"]
           bg == observed["break-glass"]
<1>1. OverridableBlock(sg)
  BY DEF OverridableBlock, Field
<1>2. Field(sg, "digest") = s.digest /\ Field(sg, "override") = "approved"
  BY DEF Field
<1>3. ApprovedFor(bg, sg)
  BY <1>1, <1>2 DEF ApprovedFor
<1>4. ApprovedFor([status |-> Field(bg, "status"), decision |-> Field(bg, "decision"),
                   delivered |-> Field(bg, "delivered"), digest |-> Field(bg, "digest")], sg)
  BY <1>1, <1>2 DEF ApprovedFor, Field
<1>5. OverrideVerified(sg, observed, TRUE)
  BY <1>4 DEF OverrideVerified
<1>6. Judge("source-gate", observed, TRUE, TRUE).why = "overridden"
  BY <1>2, <1>5 DEF Judge, Explained
<1>7. /\ BreakGlassFields \subseteq DOMAIN bg /\ bg.delegated = TRUE /\ bg.status = "success"
      /\ bg.decision = "approved" /\ sg.status # Unset
  BY DEF BreakGlassFields
<1>8. ExplainBreakGlass(bg, sg) = Explained(TRUE, "approved")
  <2> HIDE DEF bg, sg
  <2>1. QED
    BY <1>3, <1>7, ApprovalExplained
<1>9. Judge("break-glass", observed, TRUE, TRUE) = ExplainBreakGlass(bg, sg)
  BY DEF Judge
<1>10. Explained(TRUE, "approved").why = "approved"
  BY DEF Explained
<1>11. QED
  BY <1>6, <1>8, <1>9, <1>10

\* What a report says of the controls that are expected.
LEMMA ReportJudges ==
  ASSUME NEW run, run.exemptions = <<>>, NEW seen, DOMAIN seen = AllControls,
         NEW conf, conf.controls = BuildConformance(run, seen).controls,
         NEW c \in AllControls, Expected(c, run)
  PROVE  /\ conf.controls[c].why = Judge(c, seen, run.breakGlass, run.strict).why
         /\ Conformant(conf) => Judge(c, seen, run.breakGlass, run.strict).passed
<1>1. conf.controls[c] = ControlStatus(c, run, seen)
  BY DEF BuildConformance
<1>2. Conformant(conf) => conf.controls[c].status # "failed"
  BY DEF Conformant, WithStatus
<1>3. QED
  BY <1>1, <1>2, Judged

LEMMA ExpectedAlways ==
  ASSUME NEW run, run.phase \in Phases, NEW c \in ScanControls \cup {"source-gate", "break-glass"},
         c = "break-glass" => run.breakGlass
  PROVE  Expected(c, run)
<1>1. c \notin DeliveryControls \cup {"artifact-gate"}
  BY DEF ScanControls, DeliveryControls
<1>2. run.phase \in PhasesOf(c)
  BY <1>1 DEF PhasesOf
<1>3. c \notin {"image-scan-prepush", "registry-scan-collect", "artifact-gate", "gated-deploy"}
  BY DEF ScanControls
<1>4. AppliesWhen(c, run.capabilities, run.breakGlass)
  BY <1>3 DEF AppliesWhen
<1>5. QED
  BY <1>2, <1>4 DEF Expected

LEMMA DeployExpected ==
  ASSUME NEW run, run.phase = "delivery", run.capabilities.deploy = "framework-gated"
  PROVE  Expected("gated-deploy", run)
<1>1. "delivery" \in PhasesOf("gated-deploy")
  BY DEF PhasesOf, DeliveryControls
<1>2. AppliesWhen("gated-deploy", run.capabilities, run.breakGlass)
  BY DEF AppliesWhen
<1>3. QED
  BY <1>1, <1>2 DEF Expected

\* A control that is not break-glass, nor a gate that claims an approval, passes by status.
LEMMA PassesByStatus ==
  ASSUME NEW c \in AllControls \ {"break-glass"}, NEW seen, NEW breakGlass, NEW strict,
         c = "source-gate" => Field(seen[c], "override") # "approved",
         Judge(c, seen, breakGlass, strict).passed
  PROVE  seen[c].status \in PassedStatuses
<1>1. Judge(c, seen, breakGlass, strict) = ExplainObserved(c, seen[c])
  BY DEF Judge
<1>2. QED
  BY <1>1, PassedByStatus

LEMMA HonestFollows == ReleaseInv => ConformanceIsHonest
<1> SUFFICES ASSUME ReleaseInv, NEW r \in Releases, conformance[r] # NotMade,
                    delivery[r].run.strict, delivery[r].run.exemptions = <<>>
             PROVE  /\ outputs[r].override = "approved" /\ delivery[r].run.breakGlass =>
                         /\ conformance[r].controls["source-gate"].why = "overridden"
                         /\ conformance[r].controls["break-glass"].why = "approved"
                    /\ Conformant(conformance[r]) /\ delivery[r].run.phase = "delivery" /\ ~LogOnly(r) =>
                         /\ SourceAuthorized(delivery[r]) /\ jobs[r]["security-gate"] = "success"
                         /\ \A c \in ScanControls : delivery[r].source.controls[c] = "success"
                         /\ jobs[r]["deploy"] = "success" /\ ~Unfit(outputs[r].digest)
  BY DEF ConformanceIsHonest
<1>1. PICK s, v, run, seen, conf :
        /\ s = delivery[r].source /\ v = delivery[r].review /\ run = delivery[r].run
        /\ seen = Observed(r) /\ conf = conformance[r]
  OBVIOUS
<1>2. /\ Gates(r) /\ run.phase \in Phases /\ run.breakGlass \in BOOLEAN
      /\ run.strict = TRUE /\ run.exemptions = <<>>
      /\ s.gateJob \in {"success", "failure", "cancelled", Unset}
      /\ s.verdict = "BLOCK" => /\ s.gateJob # Unset
                               /\ {s.trusted, s.eligible, s.delegated} \subseteq BOOLEAN
      /\ \A c \in ScanControls :
           s.controls[c] \in {"success", "failure", "cancelled", "skipped", "untrusted", Unset}
      /\ v.result = "success" => v.delivered \in BOOLEAN
      /\ run.capabilities.deploy = "framework-gated"
      /\ conf.controls = BuildConformance(run, seen).controls
  BY <1>1, DeliveryAssumption DEF ReleaseInv, ReleaseTypes, Reported
<1>3. /\ DOMAIN seen = AllControls
      /\ \A c \in ScanControls : seen[c] = [status |-> s.controls[c]]
      /\ seen["source-gate"] =
           [status |-> s.gateJob, verdict |-> s.verdict, mode |-> s.mode,
            trusted |-> s.trusted, eligible |-> s.eligible, digest |-> s.digest,
            override |-> outputs[r].override]
      /\ seen["break-glass"] =
           [status |-> v.result, decision |-> v.status, delivered |-> v.delivered,
            digest |-> v.digest, delegated |-> s.delegated]
      /\ seen["gated-deploy"] = [status |-> jobs[r]["deploy"]]
  BY <1>1, ObservedOf
<1>4. {"source-gate", "break-glass", "gated-deploy"} \cup ScanControls \subseteq AllControls
  BY DEF AllControls, ScanControls, GateControls, DeliveryControls
<1>5. ASSUME outputs[r].override = "approved"
      PROVE  SourceAuthorized(delivery[r]) /\ (run.breakGlass =>
               /\ conf.controls["source-gate"].why = "overridden"
               /\ conf.controls["break-glass"].why = "approved")
  <2>1. Decision(r).override = "approved"
    BY <1>2, <1>5, UnsetAssumption DEF Gates
  <2>2. /\ s.verdict = "BLOCK" /\ s.mode = "enforce"
        /\ s.trusted /\ s.eligible /\ s.delegated
        /\ v.result = "success" /\ v.status = "approved" /\ v.delivered
        /\ s.digest # Unset /\ v.digest = s.digest
    BY <1>1, <2>1, ApprovedDecision DEF Decision
  <2>3. /\ s.trusted = TRUE /\ s.eligible = TRUE /\ s.delegated = TRUE /\ v.delivered = TRUE
        /\ s.gateJob # Unset
    BY <1>2, <2>2
  <2>4. SourceAuthorized(delivery[r])
    BY <1>1, <2>2 DEF SourceAuthorized
  <2>5. ASSUME run.breakGlass
        PROVE  /\ conf.controls["source-gate"].why = "overridden"
               /\ conf.controls["break-glass"].why = "approved"
    <3>1. Expected("break-glass", run) /\ Expected("source-gate", run)
      BY <1>2, <2>5, ExpectedAlways
    <3>2. run.breakGlass = TRUE
      BY <1>2, <2>5
    <3>3. /\ Judge("source-gate", seen, TRUE, TRUE).why = "overridden"
          /\ Judge("break-glass", seen, TRUE, TRUE).why = "approved"
      <4>1. seen["source-gate"] =
             [status |-> s.gateJob, verdict |-> s.verdict, mode |-> s.mode,
              trusted |-> s.trusted, eligible |-> s.eligible, digest |-> s.digest,
              override |-> "approved"]
        BY <1>3, <1>5
      <4>2. {"source-gate", "break-glass"} \subseteq DOMAIN seen
        BY <1>3, <1>4
      <4>3. QED
        BY <1>3, <2>2, <2>3, <4>1, <4>2, OverrideReported
    <3>4. \A c \in {"source-gate", "break-glass"} :
            conf.controls[c].why = Judge(c, seen, run.breakGlass, run.strict).why
      BY <1>2, <1>3, <1>4, <3>1, ReportJudges
    <3>5. QED
      BY <1>2, <3>2, <3>3, <3>4
  <2>6. QED
    BY <2>4, <2>5
<1>6. ASSUME Conformant(conf), run.phase = "delivery", ~LogOnly(r)
      PROVE  /\ SourceAuthorized(delivery[r]) /\ jobs[r]["security-gate"] = "success"
             /\ \A c \in ScanControls : s.controls[c] = "success"
             /\ jobs[r]["deploy"] = "success" /\ ~Unfit(outputs[r].digest)
  <2>1. SourceAuthorized(delivery[r])
    <3>1. CASE outputs[r].override = "approved"
      BY <1>5, <3>1
    <3>2. CASE outputs[r].override # "approved"
      <4>1. Field(seen["source-gate"], "override") # "approved"
        BY <1>3, <3>2 DEF Field
      <4>2. Judge("source-gate", seen, run.breakGlass, run.strict).passed
        BY <1>2, <1>3, <1>4, <1>6, ExpectedAlways, ReportJudges
      <4>3. seen["source-gate"].status \in PassedStatuses
        BY <1>4, <4>1, <4>2, PassesByStatus
      <4>4. s.gateJob = "success"
        BY <1>2, <1>3, <4>3, UnsetAssumption DEF PassedStatuses
      <4>5. QED
        BY <1>1, <4>4 DEF SourceAuthorized
    <3>3. QED
      BY <3>1, <3>2
  <2>2. ASSUME NEW c \in ScanControls PROVE s.controls[c] = "success"
    <3>1. c \in AllControls \ {"break-glass"} /\ c # "source-gate"
      BY DEF AllControls, ScanControls
    <3>2. Expected(c, run)
      BY <1>2, <3>1, ExpectedAlways
    <3>3. Judge(c, seen, run.breakGlass, run.strict).passed
      BY <1>2, <1>3, <1>6, <3>1, <3>2, ReportJudges
    <3>4. seen[c].status \in PassedStatuses
      BY <3>1, <3>3, PassesByStatus
    <3>5. s.controls[c] \in PassedStatuses
      <4>1. seen[c] = [status |-> s.controls[c]]
        BY <1>3
      <4>2. QED
        BY <3>4, <4>1
    <3>6. QED
      BY <1>2, <3>5, UnsetAssumption DEF PassedStatuses
  <2>3. jobs[r]["deploy"] = "success"
    <3>1. Judge("gated-deploy", seen, run.breakGlass, run.strict).passed
      BY <1>2, <1>3, <1>4, <1>6, DeployExpected, ReportJudges
    <3>2. seen["gated-deploy"].status \in PassedStatuses
      BY <1>4, <3>1, PassesByStatus
    <3>3. jobs[r]["deploy"] \in JobResults
      BY DEF ReleaseInv, ReleaseTypes, RunJobs
    <3>4. QED
      BY <1>3, <3>2, <3>3 DEF PassedStatuses, JobResults
  <2>4. jobs[r]["security-gate"] = "success" /\ ~Unfit(outputs[r].digest)
    BY <1>2, <1>6, <2>3 DEF Gates, Vouched, NoUrgent, Unfit
  <2>5. QED
    BY <2>1, <2>2, <2>3, <2>4
<1>7. QED
  BY <1>1, <1>5, <1>6

\* The conformance report and the final gate, which read the same facts apart from each
\* other, agree: an approval is reported as one, and a report without a failed control
\* hides no block, no unapproved source and no deployment that did not happen.
THEOREM ReportsAreHonest == ReleaseSpec => []ConformanceIsHonest
BY ReleaseInvariant, HonestFollows, PTL

-----------------------------------------------------------------------------
(* The scanning jobs: what a job that succeeds so far has written is whole, *)
(* and the truth.                                                           *)

StepsOf(j) == {Steps(j)[i] : i \in DOMAIN Steps(j)}
StepNames == UNION {StepsOf(j) : j \in Jobs}
Results3 == {"success", "failure", "cancelled"}
JobStates ==
  [step : StepNames, result : Results3] \cup [step : StepNames, result : Results3, exit : Nat]

ScanTypes ==
  /\ job \in [Jobs -> JobStates]
  /\ \A j \in Jobs : job[j].step \in StepsOf(j)
  /\ files = [r \in Reports |-> files[r]]
  /\ artifact \in [Jobs -> {"none", "uploaded"}]
  /\ checkout \in Checkouts /\ pulls \in Nat /\ scanFaults \in Nat

Succeeds(j) == job[j].result = "success"
Past(j, steps) == job[j].step \notin steps

SecretInv ==
  Succeeds("secret-scan") =>
    /\ Past("secret-scan", {"gitleaks"}) =>
         files["gitleaks"] = [state |-> "ok", secrets |-> checkout.patterns]
    /\ Past("secret-scan", {"gitleaks", "trufflehog"}) =>
         files["trufflehog"] = [state |-> "ok", secrets |-> checkout.credentials]

\* Every root was audited, by a valid report; without a fault, by a true one.
Audited(c, npm, nested, faults) ==
  /\ Discover(c).rejected = {}
  /\ \E audit \in Audits(c) :
       /\ npm = TopAudit(c, audit) /\ nested = NestedAudits(c, audit)
       /\ \A l \in Locked(c) : ValidNpmReport(audit[l])
       /\ faults = 0 => audit = Truthful(c)

DependencyInv ==
  /\ ~checkout.requirements => files["pip"] = NoFile
  /\ Locked(checkout) = {} => files["osvRoots"] = NoFile
  /\ Succeeds("dependency-scan") =>
       /\ Past("dependency-scan", {"npm-audit"}) =>
            Audited(checkout, files["npm"], files["nested"], scanFaults)
       /\ Past("dependency-scan", {"npm-audit", "pip-audit"}) /\ checkout.requirements =>
            files["pip"] = [state |-> "ok", vulns |-> checkout.python]
       /\ Past("dependency-scan", {"npm-audit", "pip-audit", "osv"}) =>
            files["osv"] = OsvReport(checkout, Walked(checkout))
       /\ Past("dependency-scan", {"npm-audit", "pip-audit", "osv", "osv-roots"}) =>
            Locked(checkout) = {} \/ files["osvRoots"] =
              [state |-> "ok", lockfiles |-> Locked(checkout),
               results |-> OsvReport(checkout, Locked(checkout)).results]

Whole(semgrep, c) == SemgrepSound(semgrep) /\ semgrep.results = c.code

SastInv ==
  /\ ~Past("sast", {"configure", "acquire", "scan"}) => files["semgrep"] = NoFile
  /\ ~Past("sast", {"configure", "acquire", "scan", "complete"}) =>
       files["execution"].state \notin {"success", "acquisition-failed"}
  /\ job["sast"].step = "complete" =>
       /\ "exit" \in DOMAIN job["sast"]
       /\ job["sast"].exit = 0 /\ SemgrepSound(files["semgrep"]) =>
            Whole(files["semgrep"], checkout)
  /\ files["execution"].state = "success" => Whole(files["semgrep"], checkout)
  /\ files["execution"].state = "acquisition-failed" =>
       files["semgrep"] = NoFile /\ pulls > 0
  /\ Succeeds("sast") /\ ~Past("sast", {"upload", "end"}) => files["execution"].state = "success"

UploadInv ==
  \A j \in Jobs : Succeeds(j) /\ job[j].step = "end" => artifact[j] = "uploaded"

\* The gate's result is that of what it downloaded of the jobs' last word.
GateInv ==
  gate # NoGate =>
    /\ \A j \in Jobs : job[j].step = "end"
    /\ gate.result \in Results(Inputs(checkout, Downloaded(gate.lost)))
    /\ gate.controls = [j \in Jobs |-> ControlResult(j, gate.result)]
    /\ gate.execution = Downloaded(gate.lost)["execution"]

ScanInv ==
  ScanTypes /\ SecretInv /\ DependencyInv /\ SastInv /\ UploadInv /\ GateInv

-----------------------------------------------------------------------------
LEMMA PlaceOf ==
  ASSUME NEW s, NEW i \in DOMAIN s, \A a, b \in DOMAIN s : s[a] = s[b] => a = b
  PROVE  (CHOOSE k \in DOMAIN s : s[k] = s[i]) = i
OBVIOUS

\* The order of each job's steps.
LEMMA StepOrder ==
  /\ job["secret-scan"].step = "gitleaks" => Following("secret-scan") = "trufflehog"
  /\ job["secret-scan"].step = "trufflehog" => Following("secret-scan") = "validate"
  /\ job["secret-scan"].step = "validate" => Following("secret-scan") = "upload"
  /\ job["dependency-scan"].step = "npm-audit" => Following("dependency-scan") = "pip-audit"
  /\ job["dependency-scan"].step = "pip-audit" => Following("dependency-scan") = "osv"
  /\ job["dependency-scan"].step = "osv" => Following("dependency-scan") = "osv-roots"
  /\ job["dependency-scan"].step = "osv-roots" => Following("dependency-scan") = "upload"
  /\ job["sast"].step = "configure" => Following("sast") = "acquire"
  /\ job["sast"].step = "acquire" => Following("sast") = "scan"
  /\ job["sast"].step = "complete" => Following("sast") = "upload"
<1> DEFINE S == Steps("secret-scan")
           D == Steps("dependency-scan")
           A == Steps("sast")
<1>1. S = <<"gitleaks", "trufflehog", "validate", "upload", "end">>
  BY DEF Steps
<1>2. D = <<"npm-audit", "pip-audit", "osv", "osv-roots", "upload", "end">>
  BY DEF Steps
<1>3. A = <<"configure", "acquire", "scan", "complete", "upload", "end">>
  BY DEF Steps
<1> HIDE DEF S, D, A
<1>4. \A a, b \in DOMAIN S : S[a] = S[b] => a = b
  BY <1>1
<1>5. \A a, b \in DOMAIN D : D[a] = D[b] => a = b
  BY <1>2
<1>6. \A a, b \in DOMAIN A : A[a] = A[b] => a = b
  BY <1>3
<1>7. ASSUME NEW i \in 1 .. 3, job["secret-scan"].step = S[i]
      PROVE  Following("secret-scan") = S[1 + i]
  <2>1. i \in DOMAIN S
    BY <1>1
  <2>2. (CHOOSE k \in DOMAIN S : S[k] = S[i]) = i
    BY <1>4, <2>1, PlaceOf
  <2>3. QED
    BY <1>7, <2>2 DEF Following, S
<1>8. ASSUME NEW i \in 1 .. 4, job["dependency-scan"].step = D[i]
      PROVE  Following("dependency-scan") = D[1 + i]
  <2>1. i \in DOMAIN D
    BY <1>2
  <2>2. (CHOOSE k \in DOMAIN D : D[k] = D[i]) = i
    BY <1>5, <2>1, PlaceOf
  <2>3. QED
    BY <1>8, <2>2 DEF Following, D
<1>9. ASSUME NEW i \in 1 .. 4, job["sast"].step = A[i]
      PROVE  Following("sast") = A[1 + i]
  <2>1. i \in DOMAIN A
    BY <1>3
  <2>2. (CHOOSE k \in DOMAIN A : A[k] = A[i]) = i
    BY <1>6, <2>1, PlaceOf
  <2>3. QED
    BY <1>9, <2>2 DEF Following, A
<1>10. /\ S[1] = "gitleaks" /\ S[2] = "trufflehog" /\ S[3] = "validate" /\ S[4] = "upload"
       /\ D[1] = "npm-audit" /\ D[2] = "pip-audit" /\ D[3] = "osv" /\ D[4] = "osv-roots"
       /\ D[5] = "upload"
       /\ A[1] = "configure" /\ A[2] = "acquire" /\ A[3] = "scan" /\ A[4] = "complete"
       /\ A[5] = "upload"
  BY <1>1, <1>2, <1>3
<1>11. QED
  BY <1>7, <1>8, <1>9, <1>10

LEMMA StepSets ==
  /\ StepsOf("secret-scan") = {"gitleaks", "trufflehog", "validate", "upload", "end"}
  /\ StepsOf("dependency-scan") = {"npm-audit", "pip-audit", "osv", "osv-roots", "upload", "end"}
  /\ StepsOf("sast") = {"configure", "acquire", "scan", "complete", "upload", "end"}
  /\ \A j \in Jobs : {"upload", "end"} \subseteq StepsOf(j) /\ StepsOf(j) \subseteq StepNames
<1>1. StepsOf("secret-scan") = {"gitleaks", "trufflehog", "validate", "upload", "end"}
  <2> DEFINE S == <<"gitleaks", "trufflehog", "validate", "upload", "end">>
  <2>1. Steps("secret-scan") = S
    BY DEF Steps
  <2>2. DOMAIN S = 1 .. 5
    OBVIOUS
  <2>3. {S[i] : i \in 1 .. 5} = {S[1], S[2], S[3], S[4], S[5]}
    <3> HIDE DEF S
    <3> QED OBVIOUS
  <2>4. QED
    BY <2>1, <2>2, <2>3 DEF StepsOf
<1>2. StepsOf("dependency-scan") = {"npm-audit", "pip-audit", "osv", "osv-roots", "upload", "end"}
  <2> DEFINE S == <<"npm-audit", "pip-audit", "osv", "osv-roots", "upload", "end">>
  <2>1. Steps("dependency-scan") = S
    BY DEF Steps
  <2>2. DOMAIN S = 1 .. 6
    OBVIOUS
  <2>3. {S[i] : i \in 1 .. 6} = {S[1], S[2], S[3], S[4], S[5], S[6]}
    <3> HIDE DEF S
    <3> QED OBVIOUS
  <2>4. QED
    BY <2>1, <2>2, <2>3 DEF StepsOf
<1>3. StepsOf("sast") = {"configure", "acquire", "scan", "complete", "upload", "end"}
  <2> DEFINE S == <<"configure", "acquire", "scan", "complete", "upload", "end">>
  <2>1. Steps("sast") = S
    BY DEF Steps
  <2>2. DOMAIN S = 1 .. 6
    OBVIOUS
  <2>3. {S[i] : i \in 1 .. 6} = {S[1], S[2], S[3], S[4], S[5], S[6]}
    <3> HIDE DEF S
    <3> QED OBVIOUS
  <2>4. QED
    BY <2>1, <2>2, <2>3 DEF StepsOf
<1>4. \A j \in Jobs : StepsOf(j) \subseteq StepNames
  BY DEF StepNames
<1>5. QED
  BY <1>1, <1>2, <1>3, <1>4 DEF Jobs

LEMMA OutputSets ==
  /\ Outputs("secret-scan") = {"gitleaks", "trufflehog"}
  /\ Outputs("dependency-scan") = {"npm", "nested", "osvRoots", "pip", "osv"}
  /\ Outputs("sast") = {"semgrep", "execution"}
  /\ Reports = {"gitleaks", "trufflehog", "npm", "nested", "osvRoots", "pip", "osv",
                "semgrep", "execution"}
<1>1. /\ Outputs("secret-scan") = {"gitleaks", "trufflehog"}
      /\ Outputs("dependency-scan") = {"npm", "nested", "osvRoots", "pip", "osv"}
      /\ Outputs("sast") = {"semgrep", "execution"}
  BY DEF Outputs
<1>2. Reports = Outputs("secret-scan") \cup Outputs("dependency-scan") \cup Outputs("sast")
  BY DEF Reports, Jobs
<1>3. QED
  BY <1>1, <1>2

\* A job goes to a step, and no other job moves.
Moves(j, step, result) ==
  /\ job' \in [Jobs -> JobStates]
  /\ \A k \in Jobs : k # j => job'[k] = job[k]
  /\ job'[j].step = step /\ job'[j].result = result

LEMMA JobStateFacts ==
  ASSUME NEW k \in JobStates
  PROVE  /\ {"step", "result"} \subseteq DOMAIN k
         /\ k.step \in StepNames /\ k.result \in Results3
         /\ "exit" \in DOMAIN k => k.exit \in Nat
         /\ \A step \in StepNames : [k EXCEPT !.step = step] \in JobStates
BY DEF JobStates

LEMMA FinishMoves ==
  ASSUME ScanTypes, NEW j \in Jobs, NEW ok, Finish(j, ok), ok => Following(j) \in StepNames
  PROVE  IF ok THEN Moves(j, Following(j), job[j].result) ELSE Moves(j, "upload", "failure")
<1>1. job[j] \in JobStates /\ {"step", "result"} \subseteq DOMAIN job[j]
  BY JobStateFacts DEF ScanTypes
<1>2. CASE ok
  <2>1. job' = [job EXCEPT ![j] = [job[j] EXCEPT !.step = Following(j)]]
    BY <1>2 DEF Finish
  <2> DEFINE new == [job[j] EXCEPT !.step = Following(j)]
  <2>2. new \in JobStates /\ new.step = Following(j) /\ new.result = job[j].result
    BY <1>1, <1>2, JobStateFacts
  <2> HIDE DEF new
  <2>3. QED
    BY <1>2, <2>1, <2>2 DEF ScanTypes, Moves, new
<1>3. CASE ~ok
  <2>1. job' = [job EXCEPT ![j] = [step |-> "upload", result |-> "failure"]]
    BY <1>3 DEF Finish
  <2>2. [step |-> "upload", result |-> "failure"] \in JobStates
    BY StepSets DEF JobStates, Results3
  <2>3. QED
    BY <1>3, <2>1, <2>2 DEF ScanTypes, Moves
<1>4. QED
  BY <1>2, <1>3

LEMMA Written ==
  ASSUME ScanTypes, NEW r \in Reports, NEW v, Write(r, v)
  PROVE  /\ files' = [x \in Reports |-> files'[x]]
         /\ files'[r] = v /\ \A x \in Reports : x # r => files'[x] = files[x]
BY DEF ScanTypes, Write

\* One job works, and the gate has not been evaluated.
Alone(j) ==
  /\ gate = NoGate /\ gate' = NoGate /\ checkout' = checkout
  /\ pulls' \in Nat /\ pulls <= pulls' /\ scanFaults' \in Nat /\ scanFaults <= scanFaults'
  /\ job' \in [Jobs -> JobStates] /\ job'[j].step \in StepsOf(j)
  /\ files' = [r \in Reports |-> files'[r]]
  /\ artifact' \in [Jobs -> {"none", "uploaded"}]
  /\ \A k \in Jobs : k # j =>
       /\ job'[k] = job[k] /\ artifact'[k] = artifact[k]
       /\ \A r \in Outputs(k) : files'[r] = files[r]

Uploaded(j) == Succeeds(j) /\ job[j].step = "end" => artifact[j] = "uploaded"

LEMMA AloneKeeps ==
  ASSUME ScanInv, NEW j \in Jobs, Alone(j)
  PROVE  /\ ScanTypes' /\ GateInv'
         /\ j # "secret-scan" => SecretInv'
         /\ j # "dependency-scan" => DependencyInv'
         /\ j # "sast" => SastInv'
         /\ Uploaded(j)' => UploadInv'
<1>1. ScanTypes'
  BY DEF ScanInv, ScanTypes, Alone
<1>2. GateInv'
  BY DEF Alone, GateInv
<1>3. ASSUME j # "secret-scan" PROVE SecretInv'
  <2>1. /\ job'["secret-scan"] = job["secret-scan"] /\ checkout' = checkout
        /\ files'["gitleaks"] = files["gitleaks"] /\ files'["trufflehog"] = files["trufflehog"]
    BY <1>3, OutputSets DEF Alone, Jobs
  <2>2. QED
    BY <2>1 DEF ScanInv, SecretInv, Succeeds, Past
<1>4. ASSUME j # "dependency-scan" PROVE DependencyInv'
  <2>1. /\ job'["dependency-scan"] = job["dependency-scan"] /\ checkout' = checkout
        /\ files'["npm"] = files["npm"] /\ files'["nested"] = files["nested"]
        /\ files'["pip"] = files["pip"] /\ files'["osv"] = files["osv"]
        /\ files'["osvRoots"] = files["osvRoots"]
        /\ scanFaults' = 0 => scanFaults = 0
    BY <1>4, OutputSets DEF Alone, Jobs, ScanInv, ScanTypes
  <2>2. ASSUME Audited(checkout, files["npm"], files["nested"], scanFaults)
        PROVE  Audited(checkout, files["npm"], files["nested"], scanFaults')
    BY <2>1, <2>2 DEF Audited
  <2>3. QED
    BY <2>1, <2>2 DEF ScanInv, DependencyInv, Succeeds, Past
<1>5. ASSUME j # "sast" PROVE SastInv'
  <2>1. /\ job'["sast"] = job["sast"] /\ checkout' = checkout
        /\ files'["semgrep"] = files["semgrep"] /\ files'["execution"] = files["execution"]
        /\ pulls > 0 => pulls' > 0
    BY <1>5, OutputSets DEF Alone, Jobs, ScanInv, ScanTypes
  <2>2. QED
    BY <2>1 DEF ScanInv, SastInv, Succeeds, Past
<1>6. ASSUME Uploaded(j)' PROVE UploadInv'
  <2>1. ASSUME NEW k \in Jobs, k # j PROVE Uploaded(k)'
    BY <2>1 DEF Alone, Uploaded, Succeeds, ScanInv, UploadInv
  <2>2. QED
    BY <1>6, <2>1 DEF Uploaded, UploadInv, Succeeds
<1>7. QED
  BY <1>1, <1>2, <1>3, <1>4, <1>5, <1>6

LEMMA FaultsGrow ==
  ASSUME ScanTypes, Sound \/ ScanFault
  PROVE  scanFaults' \in Nat /\ scanFaults <= scanFaults'
BY DEF ScanTypes, Sound, ScanFault

LEMMA EndsHonest ==
  ASSUME NEW found \in BOOLEAN, NEW truth, NEW cut, NEW a \in Ends(found, truth, cut)
  PROVE  /\ a.exit \in {0, 1, 2}
         /\ a.exit = 0 => ~found /\ a.report = truth
         /\ a.report \in {truth, NoFile, [state |-> "malformed"], cut}
BY DEF Ends

\* A step of one job that leaves the artifacts and the counter of pulls alone.
LEMMA StepAlone ==
  ASSUME ScanInv, NEW j \in Jobs, gate = NoGate, Sound \/ ScanFault, NEW step, NEW result,
         Moves(j, step, result), step \in StepsOf(j),
         files' = [r \in Reports |-> files'[r]],
         \A r \in Reports : r \notin Outputs(j) => files'[r] = files[r],
         UNCHANGED <<checkout, artifact, pulls, gate>>
  PROVE  Alone(j)
<1>1. scanFaults' \in Nat /\ scanFaults <= scanFaults'
  BY FaultsGrow DEF ScanInv
<1>2. ASSUME NEW k \in Jobs, k # j, NEW r \in Outputs(k) PROVE files'[r] = files[r]
  <2>1. r \in Reports /\ r \notin Outputs(j)
    BY <1>2, OutputSets DEF Jobs
  <2>2. QED
    BY <2>1
<1>3. QED
  BY <1>1, <1>2 DEF Alone, Moves, ScanInv, ScanTypes

\* Only a job that succeeded and is at its end needs an artifact.
LEMMA OnItsWay ==
  ASSUME NEW j \in Jobs, job'[j].step # "end"
  PROVE  Uploaded(j)'
BY DEF Uploaded, Succeeds

LEMMA SecretScanKeeps ==
  ASSUME ScanInv, NEW step, NEW rep, NEW found, SecretScan(step, rep, found),
         \/ step = "gitleaks" /\ rep = "gitleaks" /\ found = checkout.patterns
         \/ step = "trufflehog" /\ rep = "trufflehog" /\ found = checkout.credentials
  PROVE  ScanInv'
<1> DEFINE j == "secret-scan"
           truth == [state |-> "ok", secrets |-> found]
<1>1. PICK a \in Ends(FALSE, truth, [state |-> "ok", secrets |-> {}]) :
        /\ Scanned(a, FALSE, truth)
        /\ IF step = "trufflehog" /\ a.exit # 0 THEN UNCHANGED files ELSE Write(rep, a.report)
        /\ Finish(j, a.exit = 0)
  BY DEF SecretScan
<1>2. /\ gate = NoGate /\ job[j].step = step /\ UNCHANGED <<checkout, artifact, pulls, gate>>
  BY DEF SecretScan, At
<1>3. Following(j) = IF step = "gitleaks" THEN "trufflehog" ELSE "validate"
  BY <1>2, StepOrder
<1>4. IF a.exit = 0 THEN Moves(j, Following(j), job[j].result) ELSE Moves(j, "upload", "failure")
  BY <1>1, <1>3, FinishMoves, StepSets DEF ScanInv, Jobs
<1>5. a.exit = 0 => a.report = truth
  <2>1. [exit |-> IF FALSE THEN 1 ELSE 0, report |-> truth] = [exit |-> 0, report |-> truth]
    OBVIOUS
  <2>2. QED
    BY <2>1 DEF Ends
<1>6. Sound \/ ScanFault
  BY <1>1 DEF Scanned
<1>7. /\ files' = [r \in Reports |-> files'[r]]
      /\ \A r \in Reports : r # rep => files'[r] = files[r]
      /\ a.exit = 0 => files'[rep] = truth
  <2>1. CASE step = "trufflehog" /\ a.exit # 0
    BY <1>1, <2>1 DEF ScanInv, ScanTypes
  <2>2. CASE ~(step = "trufflehog" /\ a.exit # 0)
    <3>1. Write(rep, a.report) /\ rep \in Reports
      BY <1>1, <2>2, OutputSets
    <3>2. QED
      BY <3>1, <1>5, Written DEF ScanInv
  <2>3. QED
    BY <2>1, <2>2
<1>8. Alone(j)
  <2>1. \A r \in Reports : r \notin Outputs(j) => files'[r] = files[r]
    BY <1>7, OutputSets
  <2>2. {"trufflehog", "validate", "upload"} \subseteq StepsOf(j)
    BY StepSets
  <2>3. CASE a.exit = 0
    BY <1>2, <1>3, <1>4, <1>6, <1>7, <2>1, <2>2, <2>3, StepAlone DEF Jobs
  <2>4. CASE a.exit # 0
    BY <1>2, <1>3, <1>4, <1>6, <1>7, <2>1, <2>2, <2>4, StepAlone DEF Jobs
  <2>5. QED
    BY <2>3, <2>4
<1>9. SecretInv'
  <2>1. CASE a.exit = 0
    <3>1. job'[j].step = Following(j) /\ job'[j].result = job[j].result
      BY <1>4, <2>1 DEF Moves
    <3>2. files'["gitleaks"] = IF step = "gitleaks" THEN truth ELSE files["gitleaks"]
      BY <1>7, <2>1, OutputSets
    <3>3. step = "trufflehog" => files'["trufflehog"] = truth
      BY <1>7, <2>1
    <3>4. QED
      BY <1>2, <1>3, <3>1, <3>2, <3>3 DEF ScanInv, SecretInv, Succeeds, Past
  <2>2. CASE a.exit # 0
    BY <1>4, <2>2 DEF Moves, SecretInv, Succeeds
  <2>3. QED
    BY <2>1, <2>2
<1>10. Uploaded(j)'
  BY <1>3, <1>4, OnItsWay DEF Moves, Jobs
<1>11. QED
  BY <1>8, <1>9, <1>10, AloneKeeps DEF ScanInv, Jobs

LEMMA ValidateKeeps ==
  ASSUME ScanInv, ValidateSecretReports
  PROVE  ScanInv'
<1> DEFINE j == "secret-scan"
           ok == files["gitleaks"].state = "ok" /\ files["trufflehog"].state = "ok"
<1>1. /\ gate = NoGate /\ job[j].step = "validate" /\ Finish(j, ok)
      /\ UNCHANGED <<checkout, files, artifact, pulls, gate, scanFaults>>
  BY DEF ValidateSecretReports, At
<1>2. Following(j) = "upload"
  BY <1>1, StepOrder
<1>3. IF ok THEN Moves(j, "upload", job[j].result) ELSE Moves(j, "upload", "failure")
  BY <1>1, <1>2, FinishMoves, StepSets DEF ScanInv, Jobs
<1>4. PICK result : /\ Moves(j, "upload", result)
                    /\ result = "success" => Succeeds(j)
  BY <1>3 DEF Succeeds
<1>5. Alone(j)
  BY <1>1, <1>4, StepAlone, StepSets DEF ScanInv, ScanTypes, Sound, Jobs
<1>6. SecretInv'
  BY <1>1, <1>4 DEF Moves, ScanInv, SecretInv, Succeeds, Past
<1>7. Uploaded(j)'
  BY <1>4, OnItsWay DEF Moves, Jobs
<1>8. QED
  BY <1>5, <1>6, <1>7, AloneKeeps DEF ScanInv, Jobs

LEMMA NpmAuditKeeps ==
  ASSUME ScanInv, NpmAudit
  PROVE  ScanInv'
<1> DEFINE j == "dependency-scan"
<1>1. PICK audit \in Audits(checkout) :
        /\ IF audit = Truthful(checkout) THEN Sound ELSE ScanFault
        /\ files' = [files EXCEPT !["npm"] = TopAudit(checkout, audit),
                                 !["nested"] = NestedAudits(checkout, audit)]
        /\ Finish(j, /\ Discover(checkout).rejected = {}
                     /\ \A l \in Locked(checkout) : ValidNpmReport(audit[l]))
  BY DEF NpmAudit
<1>2. /\ gate = NoGate /\ job[j].step = "npm-audit" /\ UNCHANGED <<checkout, artifact, pulls, gate>>
  BY DEF NpmAudit, At
<1> DEFINE ok == /\ Discover(checkout).rejected = {}
                 /\ \A l \in Locked(checkout) : ValidNpmReport(audit[l])
           step == IF ok THEN "pip-audit" ELSE "upload"
           result == IF ok THEN job[j].result ELSE "failure"
<1>3. Following(j) = "pip-audit"
  BY <1>2, StepOrder
<1>4. Moves(j, step, result)
  <2>1. Finish(j, ok)
    BY <1>1
  <2> HIDE DEF ok
  <2>2. IF ok THEN Moves(j, "pip-audit", job[j].result) ELSE Moves(j, "upload", "failure")
    BY <2>1, <1>3, FinishMoves, StepSets DEF ScanInv, Jobs
  <2>3. QED
    BY <2>2
<1>5. /\ files' = [r \in Reports |-> files'[r]]
      /\ files'["npm"] = TopAudit(checkout, audit)
      /\ files'["nested"] = NestedAudits(checkout, audit)
      /\ \A r \in Reports : r \notin {"npm", "nested"} => files'[r] = files[r]
  BY <1>1, OutputSets DEF ScanInv, ScanTypes
<1>6. Alone(j)
  <2>1. Sound \/ ScanFault
    BY <1>1
  <2>2. \A r \in Reports : r \notin Outputs(j) => files'[r] = files[r]
    BY <1>5, OutputSets
  <2>3. step \in StepsOf(j)
    BY StepSets
  <2> HIDE DEF step, result
  <2>4. QED
    BY <1>2, <1>4, <1>5, <2>1, <2>2, <2>3, StepAlone DEF Jobs
<1>7. DependencyInv'
  <2>1. /\ files'["pip"] = files["pip"] /\ files'["osvRoots"] = files["osvRoots"]
        /\ checkout' = checkout /\ job'[j].step = step /\ job'[j].result = result
    BY <1>2, <1>4, <1>5, OutputSets DEF Moves
  <2>2. CASE ok
    <3>1. scanFaults' = 0 => audit = Truthful(checkout)
      BY <1>1 DEF ScanFault, ScanInv, ScanTypes
    <3>2. Audited(checkout, files'["npm"], files'["nested"], scanFaults')
      BY <1>1, <1>5, <2>2, <3>1 DEF Audited
    <3>3. QED
      BY <2>1, <2>2, <3>2 DEF ScanInv, DependencyInv, Succeeds, Past
  <2>3. CASE ~ok
    BY <2>1, <2>3 DEF ScanInv, DependencyInv, Succeeds, Past
  <2>4. QED
    BY <2>2, <2>3
<1>8. Uploaded(j)'
  BY <1>4, OnItsWay DEF Moves, Jobs
<1>9. QED
  BY <1>6, <1>7, <1>8, AloneKeeps DEF ScanInv, Jobs

\* A scanner whose exit status is taken for a success has reported the truth.
LEMMA AcceptedIsTrue ==
  ASSUME NEW found \in BOOLEAN, NEW truth, NEW cut, NEW a \in Ends(found, truth, cut),
         a.report.state = "ok", a.exit = 0 \/ (a.exit = 1 /\ a.report # cut)
  PROVE  a.report = truth
<1>1. NoFile.state # "ok" /\ [state |-> "malformed"].state # "ok"
  BY DEF NoFile
<1>2. QED
  BY <1>1 DEF Ends

\* A step of dependency scanning that writes at most its own report.
DependencyStep(step, rep, ok) ==
  /\ gate = NoGate /\ job["dependency-scan"].step = step
  /\ Finish("dependency-scan", ok)
  /\ Sound \/ ScanFault
  /\ files' = [r \in Reports |-> files'[r]]
  /\ \A r \in Reports : r # rep => files'[r] = files[r]
  /\ UNCHANGED <<checkout, artifact, pulls, gate>>

LEMMA DependencyStepKeeps ==
  ASSUME ScanInv, NEW step, NEW rep \in {"pip", "osv", "osvRoots"}, NEW ok \in BOOLEAN,
         step \in {"pip-audit", "osv", "osv-roots"}, DependencyStep(step, rep, ok)
  PROVE  /\ Alone("dependency-scan") /\ Uploaded("dependency-scan")'
         /\ IF ok THEN Moves("dependency-scan", Following("dependency-scan"), job["dependency-scan"].result)
            ELSE Moves("dependency-scan", "upload", "failure")
         /\ step = "pip-audit" => Following("dependency-scan") = "osv"
         /\ step = "osv" => Following("dependency-scan") = "osv-roots"
         /\ step = "osv-roots" => Following("dependency-scan") = "upload"
<1> DEFINE j == "dependency-scan"
           next == IF ok THEN Following(j) ELSE "upload"
           result == IF ok THEN job[j].result ELSE "failure"
<1>1. /\ step = "pip-audit" => Following(j) = "osv"
      /\ step = "osv" => Following(j) = "osv-roots"
      /\ step = "osv-roots" => Following(j) = "upload"
  BY StepOrder DEF DependencyStep
<1>2. next \in StepsOf(j) /\ Following(j) \in StepNames /\ next # "end"
  <2>1. Following(j) \in {"osv", "osv-roots", "upload"}
    BY <1>1
  <2>2. StepsOf(j) = {"npm-audit", "pip-audit", "osv", "osv-roots", "upload", "end"}
        /\ StepsOf(j) \subseteq StepNames
    BY StepSets DEF Jobs
  <2>3. QED
    BY <2>1, <2>2
<1>3. IF ok THEN Moves(j, Following(j), job[j].result) ELSE Moves(j, "upload", "failure")
  BY <1>2, FinishMoves DEF DependencyStep, ScanInv, Jobs
<1>4. Moves(j, next, result)
  BY <1>3
<1>5. \A r \in Reports : r \notin Outputs(j) => files'[r] = files[r]
  BY OutputSets DEF DependencyStep
<1> HIDE DEF next, result
<1>6. Alone(j)
  BY <1>2, <1>4, <1>5, StepAlone DEF DependencyStep, Jobs
<1>7. Uploaded(j)'
  BY <1>2, <1>4, OnItsWay DEF Moves, Jobs
<1>8. QED
  BY <1>1, <1>3, <1>6, <1>7

LEMMA PipAuditKeeps ==
  ASSUME ScanInv, PipAudit
  PROVE  ScanInv'
<1> DEFINE j == "dependency-scan"
           truth == [state |-> "ok", vulns |-> checkout.python]
           cut == [state |-> "ok", vulns |-> <<>>]
           found == checkout.python # <<>>
<1>1. /\ gate = NoGate /\ job[j].step = "pip-audit" /\ UNCHANGED <<checkout, artifact, pulls, gate>>
  BY DEF PipAudit, At
<1>2. PICK ok \in BOOLEAN :
        /\ DependencyStep("pip-audit", "pip", ok)
        /\ ~checkout.requirements => files'["pip"] = files["pip"]
        /\ ok /\ checkout.requirements => files'["pip"] = truth
  <2>1. CASE ~checkout.requirements
    <3>1. Sound /\ UNCHANGED files /\ Finish(j, TRUE)
      BY <2>1 DEF PipAudit
    <3>2. DependencyStep("pip-audit", "pip", TRUE)
      BY <1>1, <3>1 DEF DependencyStep, ScanInv, ScanTypes
    <3>3. QED
      BY <2>1, <3>1, <3>2
  <2>2. CASE checkout.requirements
    <3>1. PICK a \in Ends(found, truth, cut) :
            /\ Scanned(a, found, truth)
            /\ Write("pip", a.report)
            /\ Finish(j, a.report.state = "ok" /\ ExitAccepted(a.exit, a.report.vulns # <<>>))
      BY <2>2 DEF PipAudit
    <3> DEFINE ok == a.report.state = "ok" /\ ExitAccepted(a.exit, a.report.vulns # <<>>)
    <3>2. ok \in BOOLEAN
      BY DEF ExitAccepted
    <3>3. ok => a.report = truth
      <4>1. a.report.vulns # <<>> => a.report # cut
        OBVIOUS
      <4>2. found \in BOOLEAN
        OBVIOUS
      <4>3. ok => a.report.state = "ok" /\ (a.exit = 0 \/ (a.exit = 1 /\ a.report # cut))
        BY <4>1 DEF ExitAccepted
      <4> HIDE DEF found, truth, cut, ok
      <4>4. QED
        BY <4>2, <4>3, AcceptedIsTrue
    <3>4. /\ files' = [x \in Reports |-> files'[x]] /\ files'["pip"] = a.report
          /\ \A x \in Reports : x # "pip" => files'[x] = files[x]
      BY <3>1, Written, OutputSets DEF ScanInv
    <3>5. DependencyStep("pip-audit", "pip", ok)
      BY <1>1, <3>1, <3>4 DEF DependencyStep, Scanned
    <3> HIDE DEF ok
    <3>6. QED
      BY <2>2, <3>2, <3>3, <3>4, <3>5
  <2>3. QED
    BY <2>1, <2>2
<1> HIDE DEF truth
<1>3. /\ Alone(j) /\ Uploaded(j)'
      /\ IF ok THEN Moves(j, "osv", job[j].result) ELSE Moves(j, "upload", "failure")
  BY <1>2, DependencyStepKeeps
<1>4. DependencyInv'
  <2>1. /\ files'["npm"] = files["npm"] /\ files'["nested"] = files["nested"]
        /\ files'["osvRoots"] = files["osvRoots"] /\ checkout' = checkout
    BY <1>1, <1>2, OutputSets DEF DependencyStep
  <2>2. scanFaults' = 0 => scanFaults = 0
    BY <1>3 DEF Alone, ScanInv, ScanTypes
  <2>3. Audited(checkout, files["npm"], files["nested"], scanFaults) =>
          Audited(checkout, files["npm"], files["nested"], scanFaults')
    BY <2>2 DEF Audited
  <2>4. CASE ok
    BY <1>1, <1>2, <1>3, <2>1, <2>3, <2>4
      DEF ScanInv, DependencyInv, Moves, Succeeds, Past, truth
  <2>5. CASE ~ok
    BY <1>2, <1>3, <2>1, <2>5 DEF ScanInv, DependencyInv, Moves, Succeeds
  <2>6. QED
    BY <2>4, <2>5
<1>5. QED
  BY <1>3, <1>4, AloneKeeps DEF ScanInv, Jobs

LEMMA OsvKeeps ==
  ASSUME ScanInv, Osv
  PROVE  ScanInv'
<1> DEFINE j == "dependency-scan"
           truth == OsvReport(checkout, Walked(checkout))
           cut == [state |-> "ok", results |-> {}]
           found == truth.results # {}
<1>1. /\ gate = NoGate /\ job[j].step = "osv" /\ UNCHANGED <<checkout, artifact, pulls, gate>>
  BY DEF Osv, At
<1>2. PICK a \in Ends(found, truth, cut) :
        /\ Scanned(a, found, truth)
        /\ Write("osv", a.report)
        /\ Finish(j, a.report.state = "ok" /\ ExitAccepted(a.exit, a.report.results # {}))
  BY DEF Osv
<1> DEFINE ok == a.report.state = "ok" /\ ExitAccepted(a.exit, a.report.results # {})
<1>3. ok \in BOOLEAN
  BY DEF ExitAccepted
<1>4. ok => a.report = truth
  <2>1. a.report.results # {} => a.report # cut
    OBVIOUS
  <2>2. found \in BOOLEAN
    OBVIOUS
  <2>3. ok => a.report.state = "ok" /\ (a.exit = 0 \/ (a.exit = 1 /\ a.report # cut))
    BY <2>1 DEF ExitAccepted
  <2> HIDE DEF found, truth, cut, ok
  <2>4. QED
    BY <2>2, <2>3, AcceptedIsTrue
<1>5. /\ files' = [x \in Reports |-> files'[x]] /\ files'["osv"] = a.report
      /\ \A x \in Reports : x # "osv" => files'[x] = files[x]
  BY <1>2, Written, OutputSets DEF ScanInv
<1>6. DependencyStep("osv", "osv", ok)
  BY <1>1, <1>2, <1>5 DEF DependencyStep, Scanned
<1> HIDE DEF ok, truth, found
<1>7. /\ Alone(j) /\ Uploaded(j)'
      /\ IF ok THEN Moves(j, "osv-roots", job[j].result) ELSE Moves(j, "upload", "failure")
  BY <1>3, <1>6, DependencyStepKeeps
<1>8. DependencyInv'
  <2>1. /\ files'["npm"] = files["npm"] /\ files'["nested"] = files["nested"]
        /\ files'["osvRoots"] = files["osvRoots"] /\ files'["pip"] = files["pip"]
        /\ checkout' = checkout
    BY <1>1, <1>5, OutputSets
  <2>2. scanFaults' = 0 => scanFaults = 0
    BY <1>7 DEF Alone, ScanInv, ScanTypes
  <2>3. Audited(checkout, files["npm"], files["nested"], scanFaults) =>
          Audited(checkout, files["npm"], files["nested"], scanFaults')
    BY <2>2 DEF Audited
  <2>4. CASE ok
    BY <1>1, <1>4, <1>5, <1>7, <2>1, <2>3, <2>4
      DEF ScanInv, DependencyInv, Moves, Succeeds, Past, truth
  <2>5. CASE ~ok
    BY <1>7, <2>1, <2>5 DEF ScanInv, DependencyInv, Moves, Succeeds
  <2>6. QED
    BY <2>4, <2>5
<1>9. QED
  BY <1>7, <1>8, AloneKeeps DEF ScanInv, Jobs

LEMMA OsvRootsKeeps ==
  ASSUME ScanInv, OsvRoots
  PROVE  ScanInv'
<1> DEFINE j == "dependency-scan"
           truth == OsvReport(checkout, Locked(checkout))
           cut == [state |-> "ok", results |-> {}]
           found == truth.results # {}
           named(results) == [state |-> "ok", lockfiles |-> Locked(checkout), results |-> results]
<1>1. /\ gate = NoGate /\ job[j].step = "osv-roots"
      /\ UNCHANGED <<checkout, artifact, pulls, gate>>
  BY DEF OsvRoots, At
<1>2. PICK ok \in BOOLEAN :
        /\ DependencyStep("osv-roots", "osvRoots", ok)
        /\ Locked(checkout) = {} => files'["osvRoots"] = files["osvRoots"]
        /\ ok /\ Locked(checkout) # {} => files'["osvRoots"] = named(truth.results)
  <2>1. CASE Discover(checkout).rejected # {} \/ Locked(checkout) = {}
    <3> DEFINE ok == Discover(checkout).rejected = {}
    <3>1. Sound /\ UNCHANGED files /\ Finish(j, ok)
      BY <2>1 DEF OsvRoots
    <3>2. DependencyStep("osv-roots", "osvRoots", ok)
      BY <1>1, <3>1 DEF DependencyStep, ScanInv, ScanTypes
    <3>3. QED
      BY <2>1, <3>1, <3>2
  <2>2. CASE ~(Discover(checkout).rejected # {} \/ Locked(checkout) = {})
    <3>1. PICK a \in Ends(found, truth, cut) :
            /\ Scanned(a, found, truth)
            /\ IF a.report.state # "ok" THEN UNCHANGED files
               ELSE Write("osvRoots", named(a.report.results))
            /\ Finish(j, a.report.state = "ok" /\ ExitAccepted(a.exit, a.report.results # {}))
      BY <2>2 DEF OsvRoots
    <3> DEFINE ok == a.report.state = "ok" /\ ExitAccepted(a.exit, a.report.results # {})
    <3>2. ok \in BOOLEAN
      BY DEF ExitAccepted
    <3>3. ok => a.report = truth
      <4>1. a.report.results # {} => a.report # cut
        OBVIOUS
      <4>2. found \in BOOLEAN
        OBVIOUS
      <4>3. ok => a.report.state = "ok" /\ (a.exit = 0 \/ (a.exit = 1 /\ a.report # cut))
        BY <4>1 DEF ExitAccepted
      <4> HIDE DEF found, truth, cut, ok
      <4>4. QED
        BY <4>2, <4>3, AcceptedIsTrue
    <3>4. /\ files' = [x \in Reports |-> files'[x]]
          /\ \A x \in Reports : x # "osvRoots" => files'[x] = files[x]
          /\ a.report.state = "ok" => files'["osvRoots"] = named(a.report.results)
      <4>1. CASE a.report.state = "ok"
        <5>1. Write("osvRoots", named(a.report.results)) /\ "osvRoots" \in Reports
          BY <3>1, <4>1, OutputSets
        <5> HIDE DEF named
        <5>2. QED
          BY <4>1, <5>1, Written DEF ScanInv
      <4>2. CASE a.report.state # "ok"
        BY <3>1, <4>2 DEF ScanInv, ScanTypes
      <4>3. QED
        BY <4>1, <4>2
    <3>5. DependencyStep("osv-roots", "osvRoots", ok)
      BY <1>1, <3>1, <3>4 DEF DependencyStep, Scanned
    <3>6. ok => files'["osvRoots"] = named(truth.results)
      BY <3>3, <3>4
    <3>7. QED
      BY <2>2, <3>2, <3>5, <3>6
  <2>3. QED
    BY <2>1, <2>2
<1>3. /\ Alone(j) /\ Uploaded(j)'
      /\ IF ok THEN Moves(j, "upload", job[j].result) ELSE Moves(j, "upload", "failure")
  BY <1>2, DependencyStepKeeps
<1>4. DependencyInv'
  <2>1. /\ files'["npm"] = files["npm"] /\ files'["nested"] = files["nested"]
        /\ files'["osv"] = files["osv"] /\ files'["pip"] = files["pip"]
        /\ checkout' = checkout
    BY <1>1, <1>2, OutputSets DEF DependencyStep
  <2>2. scanFaults' = 0 => scanFaults = 0
    BY <1>3 DEF Alone, ScanInv, ScanTypes
  <2>3. Audited(checkout, files["npm"], files["nested"], scanFaults) =>
          Audited(checkout, files["npm"], files["nested"], scanFaults')
    BY <2>2 DEF Audited
  <2>4. CASE ok
    BY <1>1, <1>2, <1>3, <2>1, <2>3, <2>4
      DEF ScanInv, DependencyInv, Moves, Succeeds, Past
  <2>5. CASE ~ok
    BY <1>2, <1>3, <2>1, <2>5 DEF ScanInv, DependencyInv, Moves, Succeeds
  <2>6. QED
    BY <2>4, <2>5
<1>5. QED
  BY <1>3, <1>4, AloneKeeps DEF ScanInv, Jobs

\* A step of SAST that writes at most one report.
SastStep(at, rep, step, result) ==
  /\ gate = NoGate /\ job["sast"].step = at
  /\ Moves("sast", step, result) /\ step \in StepsOf("sast") \ {"end"}
  /\ files' = [r \in Reports |-> files'[r]]
  /\ \A r \in Reports : r # rep => files'[r] = files[r]
  /\ UNCHANGED <<checkout, artifact, gate>>
  /\ pulls' \in Nat /\ pulls <= pulls' /\ (Sound \/ ScanFault)

LEMMA SastStepKeeps ==
  ASSUME ScanInv, NEW at, NEW rep \in {"semgrep", "execution"}, NEW step, NEW result,
         SastStep(at, rep, step, result), SastInv'
  PROVE  ScanInv'
<1> DEFINE j == "sast"
<1>1. Alone(j)
  <2>1. scanFaults' \in Nat /\ scanFaults <= scanFaults'
    BY FaultsGrow DEF ScanInv, SastStep
  <2>2. ASSUME NEW k \in Jobs, k # j, NEW r \in Outputs(k) PROVE files'[r] = files[r]
    <3>1. r \in Reports /\ r # rep
      BY <2>2, OutputSets DEF Jobs
    <3>2. QED
      BY <3>1 DEF SastStep
  <2>3. QED
    BY <2>1, <2>2 DEF Alone, SastStep, Moves, ScanInv, ScanTypes
<1>2. Uploaded(j)'
  BY OnItsWay DEF SastStep, Moves, Jobs
<1>3. QED
  BY <1>1, <1>2, AloneKeeps DEF ScanInv, Jobs

LEMMA ConfigureKeeps ==
  ASSUME ScanInv, Configure
  PROVE  ScanInv'
<1> DEFINE j == "sast"
           record == Record("execution-failed", "scanner-configuration")
<1>1. /\ gate = NoGate /\ job[j].step = "configure" /\ Following(j) = "acquire"
      /\ UNCHANGED <<checkout, artifact, pulls, gate, scanFaults>>
  BY StepOrder DEF Configure, At
<1>2. CASE checkout.rulesets
  <2>1. UNCHANGED files /\ Finish(j, TRUE)
    BY <1>2 DEF Configure
  <2>2. Moves(j, "acquire", job[j].result)
    BY <1>1, <2>1, FinishMoves, StepSets DEF ScanInv, Jobs
  <2>3. SastStep("configure", "execution", "acquire", job[j].result)
    BY <1>1, <2>1, <2>2, StepSets DEF SastStep, ScanInv, ScanTypes, Sound
  <2>4. SastInv'
    BY <1>1, <2>1, <2>2 DEF Moves, ScanInv, SastInv, Succeeds, Past
  <2>5. QED
    BY <2>3, <2>4, SastStepKeeps
<1>3. CASE ~checkout.rulesets
  <2>1. Write("execution", record) /\ Finish(j, FALSE)
    BY <1>3 DEF Configure
  <2>2. Moves(j, "upload", "failure")
    BY <2>1, FinishMoves, StepSets DEF ScanInv, Jobs
  <2>3. /\ files' = [r \in Reports |-> files'[r]] /\ files'["execution"] = record
        /\ \A r \in Reports : r # "execution" => files'[r] = files[r]
    BY <2>1, Written, OutputSets DEF ScanInv
  <2>4. SastStep("configure", "execution", "upload", "failure")
    BY <1>1, <2>2, <2>3, StepSets DEF SastStep, ScanInv, ScanTypes, Sound
  <2>5. SastInv'
    BY <2>2, <2>3 DEF Moves, SastInv, Succeeds, Past, Record
  <2>6. QED
    BY <2>4, <2>5, SastStepKeeps
<1>4. QED
  BY <1>2, <1>3

LEMMA AcquireKeeps ==
  ASSUME ScanInv, Acquire
  PROVE  ScanInv'
<1> DEFINE j == "sast"
           record == Record("incomplete", "none")
<1>1. /\ gate = NoGate /\ job[j].step = "acquire" /\ Following(j) = "scan"
      /\ UNCHANGED <<checkout, artifact, pulls, gate, scanFaults>>
      /\ Write("execution", record) /\ Finish(j, TRUE)
  BY StepOrder DEF Acquire, At
<1>2. Moves(j, "scan", job[j].result)
  BY <1>1, FinishMoves, StepSets DEF ScanInv, Jobs
<1>3. /\ files' = [r \in Reports |-> files'[r]] /\ files'["execution"] = record
      /\ \A r \in Reports : r # "execution" => files'[r] = files[r]
  BY <1>1, Written, OutputSets DEF ScanInv
<1>4. SastStep("acquire", "execution", "scan", job[j].result)
  BY <1>1, <1>2, <1>3, StepSets DEF SastStep, ScanInv, ScanTypes, Sound
<1>5. SastInv'
  <2>1. files'["semgrep"] = NoFile
    BY <1>1, <1>3, OutputSets DEF ScanInv, SastInv, Past
  <2>2. QED
    BY <1>2, <1>3, <2>1 DEF Moves, SastInv, Succeeds, Past, Record
<1>6. QED
  BY <1>4, <1>5, SastStepKeeps

LEMMA PullFailsKeeps ==
  ASSUME ScanInv, NEW cause \in PullCauses, PullFails(cause)
  PROVE  ScanInv'
<1> DEFINE j == "sast"
           record == Record("acquisition-failed", AcquisitionCause(cause))
<1>1. /\ gate = NoGate /\ job[j].step = "acquire"
      /\ UNCHANGED <<checkout, artifact, gate, scanFaults>>
      /\ pulls' \in Nat /\ pulls <= pulls' /\ pulls' > 0
  BY DEF PullFails, At, ScanInv, ScanTypes
<1>2. files["semgrep"] = NoFile
  BY <1>1 DEF ScanInv, SastInv, Past
<1>3. CASE Retryable(cause) /\ pulls' < MaxPulls
  <2>1. UNCHANGED <<files, job>>
    BY <1>3 DEF PullFails
  <2>2. SastStep("acquire", "execution", "acquire", job[j].result)
    BY <1>1, <2>1, StepSets DEF SastStep, Moves, ScanInv, ScanTypes, Sound, Jobs
  <2>3. SastInv'
    BY <1>1, <2>1 DEF ScanInv, SastInv, Succeeds, Past
  <2>4. QED
    BY <2>2, <2>3, SastStepKeeps
<1>4. CASE ~(Retryable(cause) /\ pulls' < MaxPulls)
  <2>1. Write("execution", record) /\ Finish(j, FALSE)
    BY <1>4 DEF PullFails
  <2>2. Moves(j, "upload", "failure")
    BY <2>1, FinishMoves, StepSets DEF ScanInv, Jobs
  <2>3. /\ files' = [r \in Reports |-> files'[r]] /\ files'["execution"] = record
        /\ \A r \in Reports : r # "execution" => files'[r] = files[r]
    BY <2>1, Written, OutputSets DEF ScanInv
  <2>4. SastStep("acquire", "execution", "upload", "failure")
    BY <1>1, <2>2, <2>3, StepSets DEF SastStep, ScanInv, ScanTypes, Sound
  <2>5. files'["semgrep"] = NoFile
    BY <1>2, <2>3, OutputSets
  <2>6. SastInv'
    BY <1>1, <2>2, <2>3, <2>5 DEF Moves, SastInv, Succeeds, Past, Record
  <2>7. QED
    BY <2>4, <2>6, SastStepKeeps
<1>5. QED
  BY <1>3, <1>4

LEMMA SemgrepKeeps ==
  ASSUME ScanInv, Semgrep
  PROVE  ScanInv'
<1> DEFINE j == "sast"
           truth == [state |-> "ok", errors |-> 0, results |-> checkout.code]
           broken == [truth EXCEPT !.errors = 1, !.results = {}]
<1>1. /\ gate = NoGate /\ job[j].step = "scan" /\ UNCHANGED <<checkout, artifact, pulls, gate>>
  BY DEF Semgrep, At
<1>2. PICK a \in {[exit |-> 0, report |-> truth], [exit |-> 0, report |-> broken],
                  [exit |-> 0, report |-> NoFile]}
                 \cup [exit : {1, 7, 137}, report : {NoFile, [state |-> "malformed"],
                                             [truth EXCEPT !.results = {}]}] :
        /\ IF a = [exit |-> 0, report |-> truth] THEN Sound ELSE ScanFault
        /\ Write("semgrep", a.report)
        /\ job' = [job EXCEPT !["sast"] =
                     [step |-> "complete", result |-> "success", exit |-> a.exit]]
  BY DEF Semgrep
<1>3. a.exit \in Nat /\ (a.exit = 0 /\ SemgrepSound(a.report) => a.report = truth)
  <2>1. broken.errors = 1
    OBVIOUS
  <2>2. ~SemgrepSound(broken) /\ ~SemgrepSound(NoFile)
    BY <2>1 DEF SemgrepSound, NoFile
  <2> HIDE DEF truth, broken
  <2>3. QED
    BY <2>2
<1> DEFINE state == [step |-> "complete", result |-> "success", exit |-> a.exit]
<1>4. state \in JobStates
  BY <1>3, StepSets DEF JobStates, Results3, Jobs
<1>5. Moves(j, "complete", "success") /\ job'[j] = state
  BY <1>2, <1>4 DEF Moves, ScanInv, ScanTypes, Jobs
<1>6. /\ files' = [r \in Reports |-> files'[r]] /\ files'["semgrep"] = a.report
      /\ \A r \in Reports : r # "semgrep" => files'[r] = files[r]
  BY <1>2, Written, OutputSets DEF ScanInv
<1>7. SastStep("scan", "semgrep", "complete", "success")
  BY <1>1, <1>2, <1>5, <1>6, StepSets DEF SastStep, ScanInv, ScanTypes
<1>8. SastInv'
  <2>1. files'["execution"].state \notin {"success", "acquisition-failed"}
    BY <1>1, <1>6, OutputSets DEF ScanInv, SastInv, Past
  <2>2. a.exit = 0 /\ SemgrepSound(a.report) => Whole(a.report, checkout)
    BY <1>3 DEF Whole
  <2>3. job'[j].exit = a.exit /\ "exit" \in DOMAIN job'[j] /\ job'[j].step = "complete"
    BY <1>5
  <2>4. QED
    BY <1>1, <1>6, <2>1, <2>2, <2>3 DEF SastInv, Succeeds, Past
<1>9. QED
  BY <1>7, <1>8, SastStepKeeps

\* The execution record says success only of a scan that ended with exit status 0 and
\* left a report without an error; and an acquisition never fails as late as this.
LEMMA AssessHonest ==
  ASSUME NEW exit \in Nat, NEW rep
  PROVE  /\ Assess(exit, rep).state = "success" => exit = 0 /\ SemgrepSound(rep)
         /\ Assess(exit, rep).state # "acquisition-failed"
<1>1. CASE exit # 0
  BY <1>1 DEF Assess, Record
<1>2. CASE exit = 0 /\ rep.state = "missing"
  BY <1>2 DEF Assess, Record
<1>3. CASE exit = 0 /\ rep.state # "missing"
  BY <1>3 DEF Assess, Record
<1>4. QED
  BY <1>1, <1>2, <1>3

LEMMA CompleteKeeps ==
  ASSUME ScanInv, Complete
  PROVE  ScanInv'
<1> DEFINE j == "sast"
           record == Assess(job[j].exit, files["semgrep"])
           ok == record.state = "success"
           result == IF ok THEN job[j].result ELSE "failure"
<1>1. /\ gate = NoGate /\ job[j].step = "complete" /\ Following(j) = "upload"
      /\ UNCHANGED <<checkout, artifact, pulls, gate, scanFaults>>
      /\ Write("execution", record) /\ Finish(j, ok)
  BY StepOrder DEF Complete, At
<1>2. /\ job[j].exit \in Nat
      /\ job[j].exit = 0 /\ SemgrepSound(files["semgrep"]) => Whole(files["semgrep"], checkout)
  <2>1. "exit" \in DOMAIN job[j] /\ job[j] \in JobStates
    BY <1>1 DEF ScanInv, SastInv, ScanTypes, Jobs
  <2>2. QED
    BY <1>1, <2>1, JobStateFacts DEF ScanInv, SastInv
<1>3. /\ ok => Whole(files["semgrep"], checkout)
      /\ record.state # "acquisition-failed"
  BY <1>2, AssessHonest
<1> HIDE DEF record
<1>4. Moves(j, "upload", result)
  <2> HIDE DEF ok
  <2>1. IF ok THEN Moves(j, "upload", job[j].result) ELSE Moves(j, "upload", "failure")
    BY <1>1, FinishMoves, StepSets DEF ScanInv, Jobs
  <2>2. QED
    BY <2>1
<1>5. /\ files' = [r \in Reports |-> files'[r]] /\ files'["execution"] = record
      /\ \A r \in Reports : r # "execution" => files'[r] = files[r]
  BY <1>1, Written, OutputSets DEF ScanInv
<1>6. SastStep("complete", "execution", "upload", result)
  BY <1>1, <1>4, <1>5, StepSets DEF SastStep, ScanInv, ScanTypes, Sound
<1>7. SastInv'
  <2>1. files'["semgrep"] = files["semgrep"]
    BY <1>5, OutputSets
  <2>2. QED
    BY <1>1, <1>3, <1>4, <1>5, <2>1 DEF Moves, SastInv, Succeeds, Past
<1>8. QED
  BY <1>6, <1>7, SastStepKeeps

\* A job's last steps say nothing new of what it wrote.
EndStep(j) ==
  /\ gate = NoGate /\ job[j].step # "end"
  /\ \E step \in {"upload", "end"}, result \in Results3 :
       /\ Moves(j, step, result)
       /\ result = "success" => Succeeds(j) /\ job[j].step = "upload" /\ step = "end"
  /\ artifact' \in [Jobs -> {"none", "uploaded"}]
  /\ \A k \in Jobs : k # j => artifact'[k] = artifact[k]
  /\ Uploaded(j)'
  /\ UNCHANGED <<checkout, files, pulls, gate>> /\ (Sound \/ ScanFault)

LEMMA EndStepKeeps ==
  ASSUME ScanInv, NEW j \in Jobs, EndStep(j)
  PROVE  ScanInv'
<1>1. /\ gate = NoGate /\ UNCHANGED <<checkout, files, pulls, gate>> /\ (Sound \/ ScanFault)
      /\ artifact' \in [Jobs -> {"none", "uploaded"}]
      /\ \A k \in Jobs : k # j => artifact'[k] = artifact[k]
      /\ Uploaded(j)' /\ job[j].step # "end"
  BY DEF EndStep
<1>2. PICK step \in {"upload", "end"}, result \in Results3 :
        /\ Moves(j, step, result)
        /\ result = "success" => Succeeds(j) /\ job[j].step = "upload" /\ step = "end"
  BY DEF EndStep
<1>3. Alone(j)
  <2>1. scanFaults' \in Nat /\ scanFaults <= scanFaults'
    BY <1>1, FaultsGrow DEF ScanInv
  <2>2. step \in StepsOf(j)
    BY StepSets
  <2>3. QED
    BY <1>1, <1>2, <2>1, <2>2 DEF Alone, Moves, ScanInv, ScanTypes
<1>4. /\ job'[j].step = step /\ job'[j].result = result
      /\ Succeeds(j)' => Succeeds(j) /\ job[j].step = "upload" /\ step = "end"
  BY <1>2 DEF Moves, Succeeds
<1>5. CASE j = "secret-scan"
  <2>1. SecretInv'
    BY <1>1, <1>4, <1>5 DEF ScanInv, SecretInv, Past
  <2>2. QED
    BY <1>1, <1>3, <1>5, <2>1, AloneKeeps DEF ScanInv, Jobs
<1>6. CASE j = "dependency-scan"
  <2>1. scanFaults' = 0 => scanFaults = 0
    BY <1>3 DEF Alone, ScanInv, ScanTypes
  <2>2. Audited(checkout, files["npm"], files["nested"], scanFaults) =>
          Audited(checkout, files["npm"], files["nested"], scanFaults')
    BY <2>1 DEF Audited
  <2>3. DependencyInv'
    BY <1>1, <1>4, <1>6, <2>2 DEF ScanInv, DependencyInv, Past
  <2>4. QED
    BY <1>1, <1>3, <1>6, <2>3, AloneKeeps DEF ScanInv, Jobs
<1>7. CASE j = "sast"
  <2>1. Past("sast", {"configure", "acquire", "scan", "complete"})' /\ job'[j].step # "complete"
        /\ Past("sast", {"configure", "acquire", "scan"})'
    BY <1>4, <1>7 DEF Past
  <2>2. Succeeds(j)' => files["execution"].state = "success"
    BY <1>4, <1>7 DEF ScanInv, SastInv, Past
  <2>3. SastInv'
    BY <1>1, <1>7, <2>1, <2>2 DEF ScanInv, SastInv
  <2>4. QED
    BY <1>1, <1>3, <1>7, <2>3, AloneKeeps DEF ScanInv, Jobs
<1>8. QED
  BY <1>5, <1>6, <1>7 DEF Jobs

LEMMA UploadKeeps ==
  ASSUME ScanInv, NEW j \in Jobs, Upload(j)
  PROVE  ScanInv'
<1>1. /\ gate = NoGate /\ job[j].step = "upload" /\ UNCHANGED <<checkout, files, pulls, gate>>
  BY DEF Upload, At
<1>2. job[j] \in JobStates /\ {"step", "result"} \subseteq DOMAIN job[j]
  BY JobStateFacts DEF ScanInv, ScanTypes
<1>3. CASE /\ artifact' = [artifact EXCEPT ![j] = "uploaded"] /\ Sound
           /\ job' = [job EXCEPT ![j].step = "end"]
  <2> DEFINE new == [job[j] EXCEPT !.step = "end"]
  <2>1. new \in JobStates /\ new.step = "end" /\ new.result = job[j].result
    BY <1>2, JobStateFacts, StepSets
  <2>2. job' = [job EXCEPT ![j] = new]
    BY <1>3
  <2> HIDE DEF new
  <2>3. Moves(j, "end", job[j].result)
    BY <2>1, <2>2 DEF Moves, ScanInv, ScanTypes
  <2>4. /\ artifact' \in [Jobs -> {"none", "uploaded"}] /\ artifact'[j] = "uploaded"
        /\ \A k \in Jobs : k # j => artifact'[k] = artifact[k]
    BY <1>3 DEF ScanInv, ScanTypes
  <2>5. job[j].result \in Results3
    BY <1>2, JobStateFacts
  <2>6. Uploaded(j)'
    BY <2>4 DEF Uploaded
  <2>7. EndStep(j)
    BY <1>1, <1>3, <2>3, <2>4, <2>5, <2>6 DEF EndStep, Succeeds
  <2>8. QED
    BY <2>7, EndStepKeeps
<1>4. CASE /\ Sound \/ ScanFault
           /\ job' = [job EXCEPT ![j] = [step |-> "end",
                        result |-> IF @.result = "cancelled" THEN "cancelled" ELSE "failure"]]
           /\ UNCHANGED artifact
  <2> DEFINE result == IF job[j].result = "cancelled" THEN "cancelled" ELSE "failure"
             new == [step |-> "end", result |-> result]
  <2>1. new \in JobStates /\ new.step = "end" /\ new.result = result
        /\ result \in Results3 \ {"success"}
    BY StepSets DEF JobStates, Results3
  <2>2. job' = [job EXCEPT ![j] = new]
    BY <1>4
  <2> HIDE DEF new, result
  <2>3. Moves(j, "end", result)
    BY <2>1, <2>2 DEF Moves, ScanInv, ScanTypes
  <2>4. Uploaded(j)'
    BY <2>1, <2>3 DEF Moves, Uploaded, Succeeds
  <2>5. artifact' \in [Jobs -> {"none", "uploaded"}] /\ artifact' = artifact
    BY <1>4 DEF ScanInv, ScanTypes
  <2>6. EndStep(j)
    BY <1>1, <1>4, <2>1, <2>3, <2>4, <2>5 DEF EndStep
  <2>7. QED
    BY <2>6, EndStepKeeps
<1>5. QED
  BY <1>3, <1>4 DEF Upload

LEMMA EndJobKeeps ==
  ASSUME ScanInv, NEW j \in Jobs, EndJob(j)
  PROVE  ScanInv'
<1>1. PICK step \in {"upload", "end"} :
        job' = [job EXCEPT ![j] = [step |-> step, result |-> "cancelled"]]
  BY DEF EndJob
<1>2. /\ gate = NoGate /\ job[j].step # "end" /\ ScanFault
      /\ UNCHANGED <<checkout, files, artifact, pulls, gate>>
  BY DEF EndJob
<1>3. [step |-> step, result |-> "cancelled"] \in JobStates
  BY StepSets DEF JobStates, Results3
<1>4. Moves(j, step, "cancelled")
  BY <1>1, <1>3 DEF Moves, ScanInv, ScanTypes
<1>5. Uploaded(j)'
  BY <1>4 DEF Moves, Uploaded, Succeeds
<1>6. "cancelled" \in Results3 /\ artifact' \in [Jobs -> {"none", "uploaded"}]
  BY <1>2 DEF Results3, ScanInv, ScanTypes
<1>7. EndStep(j)
  BY <1>2, <1>4, <1>5, <1>6 DEF EndStep
<1>8. QED
  BY <1>7, EndStepKeeps

LEMMA EvaluateGateKeeps ==
  ASSUME ScanInv, EvaluateGate
  PROVE  ScanInv'
<1>1. /\ \A j \in Jobs : job[j].step = "end"
      /\ UNCHANGED <<checkout, job, files, artifact, pulls>>
  BY DEF EvaluateGate
<1>2. PICK lost \in {{}} \cup {{j} : j \in Jobs} :
        /\ IF lost = {} THEN Sound ELSE ScanFault
        /\ \E result \in Results(Inputs(checkout, Downloaded(lost))) :
             gate' = [result |-> result, lost |-> lost,
                      controls |-> [j \in Jobs |-> ControlResult(j, result)],
                      execution |-> Downloaded(lost)["execution"]]
  BY DEF EvaluateGate
<1>3. PICK result \in Results(Inputs(checkout, Downloaded(lost))) :
        gate' = [result |-> result, lost |-> lost,
                 controls |-> [j \in Jobs |-> ControlResult(j, result)],
                 execution |-> Downloaded(lost)["execution"]]
  BY <1>2
<1>4. scanFaults' \in Nat /\ (scanFaults' = 0 => scanFaults = 0)
  <2>1. Sound \/ ScanFault
    BY <1>2
  <2>2. QED
    BY <2>1, FaultsGrow DEF ScanInv, ScanTypes
<1>5. Audited(checkout, files["npm"], files["nested"], scanFaults) =>
        Audited(checkout, files["npm"], files["nested"], scanFaults')
  BY <1>4 DEF Audited
<1>6. ScanTypes' /\ SecretInv' /\ DependencyInv' /\ SastInv' /\ UploadInv'
  BY <1>1, <1>4, <1>5
     DEF ScanInv, ScanTypes, SecretInv, DependencyInv, SastInv, UploadInv, Succeeds, Past
<1>7. GateInv'
  <2>1. Downloaded(lost)' = Downloaded(lost)
    BY <1>1 DEF Downloaded
  <2>2. \A j \in Jobs : ControlResult(j, result)' = ControlResult(j, result)
    BY <1>1 DEF ControlResult
  <2>3. gate'.lost = lost /\ gate'.result = result
    BY <1>3
  <2>4. gate'.result \in Results(Inputs(checkout', Downloaded(lost)'))
    BY <1>1, <2>1, <2>3
  <2>5. gate'.controls = [j \in Jobs |-> ControlResult(j, result)']
    BY <1>3, <2>2
  <2>6. gate'.execution = Downloaded(lost)'["execution"]
    BY <1>3, <2>1
  <2>7. QED
    BY <1>1, <2>3, <2>4, <2>5, <2>6 DEF GateInv
<1>8. QED
  BY <1>6, <1>7 DEF ScanInv

LEMMA InitScan == ScanInit => ScanInv
<1> SUFFICES ASSUME ScanInit PROVE ScanInv
  OBVIOUS
<1>1. /\ Steps("secret-scan")[1] = "gitleaks" /\ Steps("dependency-scan")[1] = "npm-audit"
      /\ Steps("sast")[1] = "configure"
  BY DEF Steps
<1>2. /\ job["secret-scan"] = [step |-> "gitleaks", result |-> "success"]
      /\ job["dependency-scan"] = [step |-> "npm-audit", result |-> "success"]
      /\ job["sast"] = [step |-> "configure", result |-> "success"]
      /\ job = [j \in Jobs |-> job[j]]
  BY <1>1 DEF ScanInit, Jobs
<1>3. /\ \A j \in Jobs : job[j].step \in StepsOf(j) \ {"upload", "end"}
      /\ \A j \in Jobs : job[j] \in JobStates
  <2>1. \A j \in Jobs : /\ job[j].step \in StepsOf(j) \ {"upload", "end"}
                        /\ job[j] = [step |-> job[j].step, result |-> "success"]
    BY <1>2, StepSets DEF Jobs
  <2>2. ASSUME NEW step \in StepNames
        PROVE  [step |-> step, result |-> "success"] \in JobStates
    BY DEF JobStates, Results3
  <2>3. \A j \in Jobs : job[j].step \in StepNames
    BY <2>1, StepSets
  <2>4. QED
    BY <2>1, <2>2, <2>3
<1>4. \A r \in Reports : files[r] = NoFile
  BY DEF ScanInit, NoReports
<1>5. ScanTypes
  BY <1>2, <1>3 DEF ScanInit, ScanTypes, NoReports
<1>6. SecretInv /\ DependencyInv /\ SastInv /\ UploadInv
  BY <1>2, <1>3, <1>4, OutputSets
     DEF SecretInv, DependencyInv, SastInv, UploadInv, Succeeds, Past, NoFile
<1>7. GateInv
  BY DEF ScanInit, GateInv
<1>8. QED
  BY <1>5, <1>6, <1>7 DEF ScanInv

LEMMA NextScan == ScanInv /\ [ScanNext]_scanVars => ScanInv'
<1> SUFFICES ASSUME ScanInv, [ScanNext]_scanVars PROVE ScanInv'
  OBVIOUS
<1>1. CASE Gitleaks
  BY <1>1, SecretScanKeeps DEF Gitleaks
<1>2. CASE Trufflehog
  BY <1>2, SecretScanKeeps DEF Trufflehog
<1>3. CASE ValidateSecretReports
  BY <1>3, ValidateKeeps
<1>4. CASE NpmAudit
  BY <1>4, NpmAuditKeeps
<1>5. CASE PipAudit
  BY <1>5, PipAuditKeeps
<1>6. CASE Osv
  BY <1>6, OsvKeeps
<1>7. CASE OsvRoots
  BY <1>7, OsvRootsKeeps
<1>8. CASE Configure
  BY <1>8, ConfigureKeeps
<1>9. CASE Acquire
  BY <1>9, AcquireKeeps
<1>10. CASE \E cause \in PullCauses : PullFails(cause)
  BY <1>10, PullFailsKeeps
<1>11. CASE Semgrep
  BY <1>11, SemgrepKeeps
<1>12. CASE Complete
  BY <1>12, CompleteKeeps
<1>13. CASE \E j \in Jobs : Upload(j) \/ EndJob(j)
  BY <1>13, UploadKeeps, EndJobKeeps
<1>14. CASE EvaluateGate
  BY <1>14, EvaluateGateKeeps
<1>15. CASE UNCHANGED scanVars
  <2>1. Downloaded(gate.lost)' = Downloaded(gate.lost)
    BY <1>15 DEF Downloaded, scanVars
  <2>2. \A j \in Jobs : ControlResult(j, gate.result)' = ControlResult(j, gate.result)
    BY <1>15 DEF ControlResult, scanVars
  <2>3. GateInv'
    BY <1>15, <2>1, <2>2 DEF ScanInv, GateInv, scanVars
  <2>4. QED
    BY <1>15, <2>3 DEF scanVars, ScanInv, ScanTypes, SecretInv, DependencyInv, SastInv,
         UploadInv, Succeeds, Past
<1>16. QED
  BY <1>1, <1>2, <1>3, <1>4, <1>5, <1>6, <1>7, <1>8, <1>9, <1>10, <1>11, <1>12, <1>13,
     <1>14, <1>15 DEF ScanNext

\* What a scanning job that succeeds so far has written is whole and the truth, its
\* artifact is there when it ends, and the gate's result is that of what it downloaded.
THEOREM ScanInvariant == ScanSpec => []ScanInv
<1>1. QED
  BY InitScan, NextScan, PTL DEF ScanSpec

-----------------------------------------------------------------------------
(* Green means scanned.  First what the gate reads: a report it needs is    *)
(* there, so it is the one the job wrote, and that is the truth.            *)

LEMMA Fetched ==
  ASSUME NEW lost, NEW r \in Reports
  PROVE  /\ Downloaded(lost)[r] \in {files[r], NoFile}
         /\ \A j \in Jobs : r \in Outputs(j) /\ artifact[j] = "uploaded" /\ j \notin lost =>
              Downloaded(lost)[r] = files[r]
BY DEF Downloaded

\* Every check passes if none is the first to fail.
LEMMA NoneBlamed ==
  ASSUME NEW e, Blamed(e) = {}
  PROVE  /\ LifecycleSound(e.declared) /\ PolicyValid(e.policy)
         /\ e.rejected = {} /\ UnreadableControls(e) = {}
         /\ \A i \in 1..6 : CheckPasses(e, i)
<1>1. LifecycleSound(e.declared) /\ PolicyValid(e.policy)
  BY DEF Blamed
<1>2. e.rejected = {}
  BY <1>1 DEF Blamed
<1>3. UnreadableControls(e) = {}
  BY <1>1, <1>2 DEF Blamed
<1>4. ~\E i \in 1..6 : (\A k \in 1..i - 1 : CheckPasses(e, k)) /\ ~CheckPasses(e, i)
  BY <1>1, <1>2, <1>3 DEF Blamed
<1>5. CheckPasses(e, 1) /\ CheckPasses(e, 2) /\ CheckPasses(e, 3)
  <2>1. CheckPasses(e, 1)
    BY <1>4
  <2>2. CheckPasses(e, 2)
    BY <1>4, <2>1
  <2>3. CheckPasses(e, 3)
    BY <1>4, <2>1, <2>2
  <2>4. QED
    BY <2>1, <2>2, <2>3
<1>6. CheckPasses(e, 4) /\ CheckPasses(e, 5) /\ CheckPasses(e, 6)
  <2>1. CheckPasses(e, 4)
    BY <1>4, <1>5
  <2>2. CheckPasses(e, 5)
    BY <1>4, <1>5, <2>1
  <2>3. CheckPasses(e, 6)
    BY <1>4, <1>5, <2>1, <2>2
  <2>4. QED
    BY <2>1, <2>2, <2>3
<1>7. QED
  BY <1>1, <1>2, <1>3, <1>5, <1>6

\* What the gate reads of a commit of which it could interpret every report.
SecretsTrue(e, c) ==
  /\ e.gitleaks = [state |-> "ok", secrets |-> c.patterns]
  /\ e.trufflehog = [state |-> "ok", secrets |-> c.credentials]
NpmTrue(e, c) ==
  \E audit \in Audits(c) :
    /\ TopRoot(e) # {} => e.npm = TopAudit(c, audit) /\ NpmSound(e.npm)
    /\ NestedRoots(e) # {} =>
         /\ e.nested = NestedAudits(c, audit)
         /\ \A i \in DOMAIN e.nested.roots : NpmSound(e.nested.roots[i].report)
    /\ \A l \in Locked(c) : ValidNpmReport(audit[l])
PipTrue(e, c) == c.requirements => e.pip = [state |-> "ok", vulns |-> c.python]
OsvTrue(e, c) ==
  /\ e.osv = OsvReport(c, Walked(c))
  /\ Locked(c) # {} => e.osvRoots = [state |-> "ok", lockfiles |-> Locked(c),
                                     results |-> OsvReport(c, Locked(c)).results]
TrueInputs(e, c) ==
  /\ e.policy = c.policy /\ PolicyValid(c.policy) /\ e.baseline = c.baseline
  /\ e.roots = Discover(c).roots /\ Discover(c).rejected = {}
  /\ SecretsTrue(e, c) /\ NpmTrue(e, c) /\ PipTrue(e, c) /\ OsvTrue(e, c)
  /\ e.semgrep.results = c.code

LEMMA InputsOf ==
  ASSUME NEW c, NEW d
  PROVE  LET e == Inputs(c, d) IN
         /\ e.policy = c.policy /\ e.declared = c.declared /\ e.baseline = c.baseline
         /\ e.bootstrap = c.bootstrap /\ e.requirements = c.requirements
         /\ e.roots = Discover(c).roots /\ e.rejected = Discover(c).rejected
         /\ e.gitleaks = d["gitleaks"] /\ e.trufflehog = d["trufflehog"] /\ e.npm = d["npm"]
         /\ e.nested = d["nested"] /\ e.pip = d["pip"] /\ e.osv = d["osv"]
         /\ e.osvRoots = d["osvRoots"] /\ e.semgrep = d["semgrep"]
BY DEF Inputs

\* What a job that succeeded left, once it has ended.
LEMMA JobsEnd ==
  ASSUME ScanInv, gate # NoGate, NEW j \in Jobs, Succeeds(j)
  PROVE  /\ artifact[j] = "uploaded"
         /\ j = "secret-scan" =>
              /\ files["gitleaks"] = [state |-> "ok", secrets |-> checkout.patterns]
              /\ files["trufflehog"] = [state |-> "ok", secrets |-> checkout.credentials]
         /\ j = "dependency-scan" =>
              /\ Audited(checkout, files["npm"], files["nested"], scanFaults)
              /\ checkout.requirements =>
                   files["pip"] = [state |-> "ok", vulns |-> checkout.python]
              /\ files["osv"] = OsvReport(checkout, Walked(checkout))
              /\ Locked(checkout) # {} =>
                   files["osvRoots"] = [state |-> "ok", lockfiles |-> Locked(checkout),
                                        results |-> OsvReport(checkout, Locked(checkout)).results]
         /\ j = "sast" => Whole(files["semgrep"], checkout)
<1>1. job[j].step = "end"
  BY DEF ScanInv, GateInv
<1>2. artifact[j] = "uploaded"
  BY <1>1 DEF ScanInv, UploadInv
<1>3. CASE j = "secret-scan"
  BY <1>1, <1>2, <1>3 DEF ScanInv, SecretInv, Past
<1>4. CASE j = "dependency-scan"
  BY <1>1, <1>2, <1>4 DEF ScanInv, DependencyInv, Past
<1>5. CASE j = "sast"
  BY <1>1, <1>2, <1>5 DEF ScanInv, SastInv, Past
<1>6. QED
  BY <1>3, <1>4, <1>5 DEF Jobs

LEMMA GreenReads ==
  ASSUME ScanInv, gate # NoGate, \A j \in Jobs : gate.controls[j] = "success",
         gate.result.verdict # "BLOCK" \/ gate.result.eligible
  PROVE  LET e == Inputs(checkout, Downloaded(gate.lost))
         IN gate.result = Evaluated(e) /\ TrueInputs(e, checkout)
<1> DEFINE d == Downloaded(gate.lost)
           e == Inputs(checkout, d)
<1>1. \A j \in Jobs : Succeeds(j)
  BY DEF ScanInv, GateInv, ControlResult, Succeeds
<1>2. Blamed(e) = {} /\ gate.result = Evaluated(e)
  <2>1. gate.result \in Results(e)
    BY DEF ScanInv, GateInv
  <2>2. \A x : IntegrityFailure(x).verdict = "BLOCK" /\ ~IntegrityFailure(x).eligible
    BY DEF IntegrityFailure
  <2> HIDE DEF e
  <2>3. QED
    BY <2>1, <2>2 DEF Results
<1>3. /\ e.policy = checkout.policy /\ e.declared = checkout.declared
      /\ e.baseline = checkout.baseline /\ e.requirements = checkout.requirements
      /\ e.roots = Discover(checkout).roots /\ e.rejected = Discover(checkout).rejected
      /\ e.gitleaks = d["gitleaks"] /\ e.trufflehog = d["trufflehog"] /\ e.npm = d["npm"]
      /\ e.nested = d["nested"] /\ e.pip = d["pip"] /\ e.osv = d["osv"]
      /\ e.osvRoots = d["osvRoots"] /\ e.semgrep = d["semgrep"]
  BY InputsOf
<1> HIDE DEF e
<1>4. \A r \in Reports : d[r] \in {files[r], NoFile}
  BY Fetched
<1> HIDE DEF d
<1>5. /\ PolicyValid(e.policy) /\ e.rejected = {} /\ UnreadableControls(e) = {}
      /\ \A i \in 1..6 : CheckPasses(e, i)
  BY <1>2, NoneBlamed
<1>6. /\ e.gitleaks.state = "ok" /\ e.trufflehog.state = "ok" /\ SemgrepSound(e.semgrep)
      /\ DependencyReportsMatch(e) /\ DependencyReportsSound(e)
  <2>1. CheckPasses(e, 1) /\ CheckPasses(e, 2) /\ CheckPasses(e, 3) /\ CheckPasses(e, 4)
    BY <1>5
  <2>2. QED
    BY <2>1 DEF CheckPasses
<1>7. /\ e.osv.state # "missing"
      /\ TopRoot(e) # {} => e.npm.state # "missing"
      /\ e.requirements => e.pip.state # "missing"
      /\ NestedRoots(e) # {} => e.nested.state # "missing"
  BY <1>5 DEF UnreadableControls, Reads
<1>8. NoFile.state = "missing"
  BY DEF NoFile
<1>9. SecretsTrue(e, checkout)
  BY <1>1, <1>3, <1>4, <1>6, <1>8, JobsEnd, OutputSets DEF SecretsTrue, Jobs
<1>10. e.semgrep.results = checkout.code
  BY <1>1, <1>3, <1>4, <1>6, <1>8, JobsEnd, OutputSets DEF SemgrepSound, Whole, Jobs
<1>11. PipTrue(e, checkout)
  BY <1>1, <1>3, <1>4, <1>7, <1>8, JobsEnd, OutputSets DEF PipTrue, Jobs
<1>12. OsvTrue(e, checkout)
  <2>1. Locked(checkout) # {} => e.osvRoots.state # "missing"
    BY <1>3, <1>6 DEF DependencyReportsMatch, Reads, Locked
  <2>2. QED
    BY <1>1, <1>3, <1>4, <1>7, <1>8, <2>1, JobsEnd, OutputSets DEF OsvTrue, Jobs
<1>13. NpmTrue(e, checkout)
  <2>1. PICK audit \in Audits(checkout) :
          /\ files["npm"] = TopAudit(checkout, audit)
          /\ files["nested"] = NestedAudits(checkout, audit)
          /\ \A l \in Locked(checkout) : ValidNpmReport(audit[l])
    BY <1>1, JobsEnd DEF Audited, Jobs
  <2>2. TopRoot(e) # {} => e.npm = TopAudit(checkout, audit) /\ NpmSound(e.npm)
    BY <1>3, <1>4, <1>6, <1>7, <1>8, <2>1, OutputSets DEF DependencyReportsSound
  <2>3. NestedRoots(e) # {} =>
          /\ e.nested = NestedAudits(checkout, audit)
          /\ \A i \in DOMAIN e.nested.roots : NpmSound(e.nested.roots[i].report)
    BY <1>3, <1>4, <1>6, <1>7, <1>8, <2>1, OutputSets DEF DependencyReportsSound
  <2>4. QED
    BY <2>1, <2>2, <2>3 DEF NpmTrue
<1>14. QED
  BY <1>2, <1>3, <1>5, <1>9, <1>10, <1>11, <1>12, <1>13 DEF TrueInputs, e, d

-----------------------------------------------------------------------------
(* Then what it finds: each rule for what is in the commit is a finding's.  *)

FoundRules(e) == {f.rule : f \in GateFindings(e)}

LEMMA FindingsActed ==
  ASSUME NEW e, NEW f \in GateFindings(e)
  PROVE  f.action = e.policy.rules[f.rule]
<1>1. \A s, w, i, r : Finding(e.policy, s, w, i, r).action =
                        e.policy.rules[Finding(e.policy, s, w, i, r).rule]
  BY DEF Finding
<1>2. ASSUME f \in SecretFindings(e.policy, e.gitleaks, e.trufflehog)
      PROVE  \E s, w, i, r : f = Finding(e.policy, s, w, i, r)
  BY <1>2, Zenon DEF SecretFindings
<1>3. ASSUME NEW n, NEW l, f \in NpmFindings(e.policy, n, l)
      PROVE  \E s, w, i, r : f = Finding(e.policy, s, w, i, r)
  BY <1>3, Zenon DEF NpmFindings
<1>4. ASSUME f \in PipFindings(e.policy, e.pip)
      PROVE  \E s, w, i, r : f = Finding(e.policy, s, w, i, r)
  <2>1. PICK k \in {x \in DOMAIN e.pip.vulns : First(e.pip.vulns, x)} :
          f = LET v == e.pip.vulns[k]
              IN  Finding(e.policy, "pip-audit", {<<v.package>>}, v.id,
                    IF v.malicious THEN <<"dependencies", "malicious_package", "any">>
                    ELSE DependencyRule("high", v.fix = "yes"))
    BY <1>4, SMT DEF PipFindings
  <2>2. QED
    BY <2>1, Zenon
<1>5. ASSUME NEW o, f \in OsvFindings(e.policy, o)
      PROVE  \E s, w, i, r : f = Finding(e.policy, s, w, i, r)
  BY <1>5, Zenon DEF OsvFindings
<1>6. ASSUME NEW o, NEW accepted, f \in SemgrepFindings(e.policy, o, accepted)
      PROVE  \E s, w, i, r : f = Finding(e.policy, s, w, i, r)
  BY <1>6, Zenon DEF SemgrepFindings
<1>7. \/ f \in SecretFindings(e.policy, e.gitleaks, e.trufflehog)
      \/ \E n, l : f \in NpmFindings(e.policy, n, l)
      \/ f \in PipFindings(e.policy, e.pip)
      \/ f \in OsvFindings(e.policy, OsvEffective(e))
      \/ f \in SemgrepFindings(e.policy, e.semgrep, Accepted(e.baseline))
  <2>1. \/ f \in SecretFindings(e.policy, e.gitleaks, e.trufflehog)
        \/ f \in NpmFindings(e.policy, e.npm, {r.lockfile : r \in TopRoot(e)})
        \/ f \in UNION {NpmFindings(e.policy, e.nested.roots[i].report,
                                    {e.nested.roots[i].lockfile}) : i \in DOMAIN e.nested.roots}
        \/ f \in PipFindings(e.policy, e.pip)
        \/ f \in OsvFindings(e.policy, OsvEffective(e))
        \/ f \in SemgrepFindings(e.policy, e.semgrep, Accepted(e.baseline))
    BY DEF GateFindings
  <2>2. QED
    BY <2>1, ZenonT(40)
<1>8. PICK s, w, i, r : f = Finding(e.policy, s, w, i, r)
  BY <1>2, <1>3, <1>4, <1>5, <1>6, <1>7, Zenon
<1>9. QED
  BY <1>1, <1>8

LEMMA RuleOf == ASSUME NEW p, NEW s, NEW w, NEW i, NEW r PROVE Finding(p, s, w, i, r).rule = r
BY DEF Finding

LEMMA SecretRulesFound ==
  ASSUME NEW e, NEW c, TrueInputs(e, c)
  PROVE  /\ \A s \in c.patterns :
              <<"secrets", IF s.demo THEN "demo_dummy" ELSE "unverified", "any">> \in FoundRules(e)
         /\ \A s \in c.credentials :
              <<"secrets", IF s.verified THEN "verified" ELSE "unverified", "any">>
                \in FoundRules(e)
<1>1. e.gitleaks.secrets = c.patterns /\ e.trufflehog.secrets = c.credentials
  BY DEF TrueInputs, SecretsTrue
<1>2. ASSUME NEW s \in c.patterns
      PROVE  <<"secrets", IF s.demo THEN "demo_dummy" ELSE "unverified", "any">> \in FoundRules(e)
  <2> DEFINE rule == <<"secrets", IF s.demo THEN "demo_dummy" ELSE "unverified", "any">>
             f == Finding(e.policy, "gitleaks", {}, s.id, rule)
  <2>1. f \in SecretFindings(e.policy, e.gitleaks, e.trufflehog)
    BY <1>1 DEF SecretFindings
  <2>2. f.rule = rule
    BY RuleOf
  <2> HIDE DEF f, rule
  <2>3. f \in GateFindings(e)
    BY <2>1 DEF GateFindings
  <2>4. QED
    BY <2>2, <2>3 DEF FoundRules, rule
<1>3. ASSUME NEW s \in c.credentials
      PROVE  <<"secrets", IF s.verified THEN "verified" ELSE "unverified", "any">> \in FoundRules(e)
  <2> DEFINE rule == <<"secrets", IF s.verified THEN "verified" ELSE "unverified", "any">>
             f == Finding(e.policy, "trufflehog", {}, s.id, rule)
  <2>1. f \in SecretFindings(e.policy, e.gitleaks, e.trufflehog)
    BY <1>1 DEF SecretFindings
  <2>2. f.rule = rule
    BY RuleOf
  <2> HIDE DEF f, rule
  <2>3. f \in GateFindings(e)
    BY <2>1 DEF GateFindings
  <2>4. QED
    BY <2>2, <2>3 DEF FoundRules, rule
<1>4. QED
  BY <1>2, <1>3

LEMMA CodeRulesFound ==
  ASSUME NEW e, NEW c, TrueInputs(e, c), NEW f \in c.code
  PROVE  CodeRule(c, f) \in FoundRules(e)
<1> DEFINE g == Finding(e.policy, "semgrep", {}, f.fingerprint, CodeRule(c, f))
<1>1. e.policy = c.policy /\ e.baseline = c.baseline /\ f \in e.semgrep.results
  BY DEF TrueInputs
<1>2. g \in SemgrepFindings(e.policy, e.semgrep, Accepted(e.baseline))
  <2>1. f.fingerprint \in Accepted(e.baseline) <=>
          c.baseline.state = "ok" /\ f.fingerprint \in c.baseline.accepted
    BY <1>1 DEF Accepted
  <2>2. QED
    BY <1>1, <2>1 DEF SemgrepFindings, CodeRule
<1>3. g.rule = CodeRule(c, f)
  BY RuleOf
<1> HIDE DEF g
<1>4. g \in GateFindings(e)
  BY <1>2 DEF GateFindings
<1>5. QED
  BY <1>3, <1>4 DEF FoundRules

LEMMA LeastExists ==
  ASSUME NEW T, T \subseteq Nat, T # {}
  PROVE  \E x \in T : \A y \in T : x <= y
<1> DEFINE R == OpToRel(<, Nat)
<1>1. IsWellFoundedOn(R, Nat)
  BY NatLessThanWellFounded
<1>2. \A x, y \in Nat : x < y => <<x, y>> \in R
  BY DEF OpToRel
<1> HIDE DEF R
<1>3. PICK x \in T : \A y \in T : ~ (<<y, x>> \in R)
  BY <1>1, WFMin, Zenon
<1>4. ASSUME NEW y \in T PROVE x <= y
  <2>1. ~(y < x)
    BY <1>2, <1>3
  <2>2. x \in Nat /\ y \in Nat
    OBVIOUS
  <2>3. QED
    BY <2>1, <2>2
<1>5. QED
  BY <1>4

\* A package's advisory counts once, and all its listings say the same.
LEMMA PipRulesFound ==
  ASSUME NEW e, NEW c, TrueInputs(e, c), DependenciesTyped(c), c.requirements,
         NEW i \in DOMAIN c.python
  PROVE  PipRule(c.python[i]) \in FoundRules(e)
<1> DEFINE key(k) == <<c.python[k].package, c.python[k].id>>
           T == {k \in DOMAIN c.python : key(k) = key(i)}
<1>1. e.pip.state # "missing" /\ e.pip.vulns = c.python
  BY DEF TrueInputs, PipTrue
<1>2. DOMAIN c.python = 1..Len(c.python) /\ Len(c.python) \in Nat
  BY DEF DependenciesTyped
<1>3. PICK k \in T : \A x \in T : k <= x
  <2>1. T \subseteq Nat /\ T # {}
    BY <1>2
  <2> HIDE DEF T
  <2>2. QED
    BY <2>1, LeastExists
<1>4. First(e.pip.vulns, k)
  <2>1. ASSUME NEW x \in 1..k - 1, key(x) = key(k) PROVE FALSE
    <3>1. x \in DOMAIN c.python /\ x < k
      BY <1>2
    <3>2. x \in T
      BY <2>1, <3>1
    <3>3. QED
      BY <1>2, <1>3, <3>1, <3>2
  <2>2. QED
    BY <1>1, <2>1 DEF First
<1>5. c.python[k] = c.python[i]
  BY DEF DependenciesTyped
<1> DEFINE v == c.python[k]
           g == Finding(e.policy, "pip-audit", {<<v.package>>}, v.id, PipRule(v))
<1>6. g \in PipFindings(e.policy, e.pip)
  <2> DEFINE F(x) == Finding(e.policy, "pip-audit", {<<e.pip.vulns[x].package>>},
                       e.pip.vulns[x].id,
                       IF e.pip.vulns[x].malicious
                       THEN <<"dependencies", "malicious_package", "any">>
                       ELSE DependencyRule("high", e.pip.vulns[x].fix = "yes"))
  <2>1. PipFindings(e.policy, e.pip) =
          {F(x) : x \in {y \in DOMAIN e.pip.vulns : First(e.pip.vulns, y)}}
    BY DEF PipFindings
  <2>2. g = F(k)
    BY <1>1 DEF PipRule, MaliciousRule
  <2> HIDE DEF F
  <2>3. F(k) \in {F(x) : x \in {y \in DOMAIN e.pip.vulns : First(e.pip.vulns, y)}}
    BY <1>1, <1>4
  <2>4. QED
    BY <2>1, <2>2, <2>3
<1>7. g.rule = PipRule(v)
  BY RuleOf
<1> HIDE DEF g
<1>8. g \in GateFindings(e)
  BY <1>1, <1>6 DEF GateFindings
<1>9. QED
  BY <1>5, <1>7, <1>8 DEF FoundRules

\* A finite set's members can be listed, each once.
Listing(S) == CHOOSE t \in [1..Cardinality(S) -> S] : S = {t[i] : i \in DOMAIN t}

LEMMA ListedOnce ==
  ASSUME NEW S, IsFiniteSet(S)
  PROVE  /\ S = {Listing(S)[i] : i \in DOMAIN Listing(S)}
         /\ \A i, j \in DOMAIN Listing(S) : Listing(S)[i] = Listing(S)[j] => i = j
<1> DEFINE n == Cardinality(S)
           P(t) == S = {t[i] : i \in DOMAIN t}
           s == Listing(S)
<1>1. n \in Nat /\ ExistsBijection(1..n, S)
  BY FS_CardinalityType
<1>2. PICK b : b \in Surjection(1..n, S)
  BY <1>1 DEF ExistsBijection, Bijection
<1>3. b \in [1..n -> S] /\ P(b)
  BY <1>2 DEF Surjection
<1>4. s \in [1..n -> S] /\ P(s)
  <2>1. s = CHOOSE t \in [1..n -> S] : P(t)
    BY DEF Listing
  <2> HIDE DEF P, s
  <2>2. QED
    BY <1>3, <2>1
<1> HIDE DEF s
<1>5. s \in Injection(1..n, S)
  <2>1. s \in Surjection(1..n, S)
    BY <1>4 DEF Surjection
  <2>2. IsFiniteSet(1..n) /\ Cardinality(1..n) = n
    BY <1>1, FS_Interval
  <2>3. QED
    BY <2>1, <2>2, FS_SurjSameCardinalityImpliesInj
<1>6. \A i, j \in DOMAIN s : s[i] = s[j] => i = j
  BY <1>4, <1>5 DEF Injection, IsInjective
<1>7. QED
  BY <1>4, <1>6 DEF s

LEMMA RootsApart ==
  ASSUME NEW c, NEW r \in RootsOf(c), NEW q \in RootsOf(c), r.root = q.root
  PROVE  r = q
<1>1. PICK f \in Chosen(c) : r = [root |-> f.dir, lockfile |-> <<f.dir, f.name>>]
  BY DEF RootsOf
<1>2. PICK g \in Chosen(c) : q = [root |-> g.dir, lockfile |-> <<g.dir, g.name>>]
  BY DEF RootsOf
<1>3. f.dir = g.dir
  BY <1>1, <1>2
<1>4. f.name = g.name
  BY <1>3 DEF Chosen, Locks, NpmLockfiles
<1>5. QED
  BY <1>1, <1>2, <1>3, <1>4

\* If no lockfile is refused, the roots' lockfiles are those npm installs from.
LEMMA InstalledLocked ==
  ASSUME NEW c, Discover(c).rejected = {}
  PROVE  Installed(c) = Locked(c)
<1>1. \A f \in Locks(c) : ~UnsafePath(f)
  BY DEF Discover
<1>2. \A f \in Chosen(c) : ~Unconfined(f)
  BY DEF Discover
<1>3. \A f : f \in Chosen(c) <=>
        /\ f \in Locks(c)
        /\ f.name = "package-lock.json" =>
             ~\E h \in Locks(c) : h.dir = f.dir /\ h.name = "npm-shrinkwrap.json"
  BY <1>1 DEF Chosen, Locks, NpmLockfiles
<1>4. Locked(c) = {<<f.dir, f.name>> : f \in Chosen(c)}
  <2> DEFINE file(f) == [root |-> f.dir, lockfile |-> <<f.dir, f.name>>]
  <2>1. RootsOf(c) = {file(f) : f \in Chosen(c)}
    BY <1>2 DEF RootsOf
  <2>2. Locked(c) = {r.lockfile : r \in RootsOf(c)}
    BY DEF Discover, Locked
  <2>3. \A f : file(f).lockfile = <<f.dir, f.name>>
    OBVIOUS
  <2> HIDE DEF file
  <2>4. QED
    BY <2>1, <2>2, <2>3, ZenonT(40)
<1>5. QED
  BY <1>3, <1>4 DEF Installed

\* An entry for each nested root, listed once.
LEMMA NestedListed ==
  ASSUME NEW c, IsFiniteSet(c.tracked), NEW audit
  PROVE  LET entries == NestedEntries(c, audit)
             s == Listing(entries)
         IN  /\ entries = {s[i] : i \in DOMAIN s}
             /\ \A i, j \in DOMAIN s : s[i] = s[j] => i = j
             /\ entries # {} => /\ NestedAudits(c, audit).state = "ok"
                                /\ NestedAudits(c, audit).roots = s
                                /\ NestedAudits(c, audit).rejected = Discover(c).rejected
<1> DEFINE nested == {x \in RootsOf(c) : x.root # "."}
           entry(r) == [root |-> r.root, lockfile |-> r.lockfile,
                        status |-> IF ValidNpmReport(audit[r.lockfile]) THEN "valid" ELSE "invalid",
                        report |-> audit[r.lockfile]]
           file(f) == [root |-> f.dir, lockfile |-> <<f.dir, f.name>>]
           found == {f \in Chosen(c) : ~Unconfined(f)}
<1>1. IsFiniteSet(RootsOf(c))
  <2>1. RootsOf(c) = {file(f) : f \in found}
    BY DEF RootsOf
  <2>2. found \in SUBSET c.tracked
    BY DEF Chosen, Locks
  <2> HIDE DEF file, found
  <2>3. [f \in found |-> file(f)] \in Surjection(found, RootsOf(c))
    BY <2>1 DEF Surjection
  <2>4. QED
    BY <2>2, <2>3, FS_Subset, FS_Surjection
<1>2. IsFiniteSet(NestedEntries(c, audit))
  <2>1. Discover(c).roots = RootsOf(c)
    BY DEF Discover
  <2>2. NestedEntries(c, audit) = {entry(r) : r \in nested}
    BY <2>1 DEF NestedEntries
  <2>3. nested \in SUBSET RootsOf(c)
    OBVIOUS
  <2> HIDE DEF entry, nested
  <2>4. [r \in nested |-> entry(r)] \in Surjection(nested, NestedEntries(c, audit))
    BY <2>2 DEF Surjection
  <2>5. QED
    BY <1>1, <2>3, <2>4, FS_Subset, FS_Surjection
<1> DEFINE entries == NestedEntries(c, audit)
<1>3. NestedAudits(c, audit) =
        IF entries = {} /\ Discover(c).rejected = {} THEN NoFile
        ELSE [state |-> "ok", rejected |-> Discover(c).rejected, roots |-> Listing(entries)]
  BY DEF NestedAudits, Listing
<1> HIDE DEF entries
<1>4. entries # {} => /\ NestedAudits(c, audit).state = "ok"
                      /\ NestedAudits(c, audit).roots = Listing(entries)
                      /\ NestedAudits(c, audit).rejected = Discover(c).rejected
  BY <1>3
<1>5. IsFiniteSet(entries)
  BY <1>2 DEF entries
<1>6. /\ entries = {Listing(entries)[i] : i \in DOMAIN Listing(entries)}
      /\ \A i, j \in DOMAIN Listing(entries) :
           Listing(entries)[i] = Listing(entries)[j] => i = j
  BY <1>5, ListedOnce
<1>7. QED
  BY <1>4, <1>6 DEF entries

\* A report that is sound is the truth.
LEMMA SoundAudit ==
  ASSUME NEW c, NEW audit \in Audits(c), NEW l \in Locked(c), NpmSound(audit[l])
  PROVE  audit[l] = NpmReport(c, l)
<1>1. audit[l] \in {NpmReport(c, l), NpmFailed, Miscounted}
  BY DEF Audits
<1>2. ~NpmSound(NpmFailed)
  BY DEF NpmSound, NpmFailed
<1>3. ~NpmSound(Miscounted)
  BY FS_EmptySet DEF NpmSound, Miscounted
<1>4. QED
  BY <1>1, <1>2, <1>3

LEMMA NpmRules ==
  ASSUME NEW c, NEW l, NEW a \in c.advisories[l], a.npm, NEW p, NEW lockfiles
  PROVE  \E f \in NpmFindings(p, NpmReport(c, l), lockfiles) : f.rule = AdvisoryRule(a)
<1> DEFINE v == [id |-> a.id, severity |-> a.severity, fix |-> a.fix]
           F(x) == Finding(p, "npm-audit", lockfiles, x.id,
                     DependencyRule(NormalizeSeverity(x.severity), x.fix # "no"))
<1>1. v \in NpmReport(c, l).vulns
  BY DEF NpmReport
<1>2. F(v).rule = AdvisoryRule(a)
  BY RuleOf DEF AdvisoryRule
<1>3. NpmFindings(p, NpmReport(c, l), lockfiles) = {F(x) : x \in NpmReport(c, l).vulns}
  BY DEF NpmFindings
<1> HIDE DEF v, F
<1>4. QED
  BY <1>1, <1>2, <1>3

\* An advisory npm knows is a finding of the audit of its root.
LEMMA NpmRulesFound ==
  ASSUME NEW e, NEW c, TrueInputs(e, c), DependenciesTyped(c),
         NEW l \in Installed(c), NEW a \in c.advisories[l], a.npm
  PROVE  AdvisoryRule(a) \in FoundRules(e)
<1>1. PICK audit \in Audits(c) :
        /\ TopRoot(e) # {} => e.npm = TopAudit(c, audit) /\ NpmSound(e.npm)
        /\ NestedRoots(e) # {} =>
             /\ e.nested = NestedAudits(c, audit)
             /\ \A i \in DOMAIN e.nested.roots : NpmSound(e.nested.roots[i].report)
        /\ \A x \in Locked(c) : ValidNpmReport(audit[x])
  BY DEF TrueInputs, NpmTrue
<1>2. Discover(c).rejected = {} /\ Discover(c).roots = RootsOf(c) /\ e.roots = RootsOf(c)
  BY DEF TrueInputs, Discover
<1>3. PICK r \in RootsOf(c) : r.lockfile = l
  BY <1>2, InstalledLocked DEF Locked
<1>4. l \in Locked(c)
  BY <1>2, InstalledLocked
<1>5. CASE r.root = "."
  <2>1. TopRoot(e) # {}
    BY <1>2, <1>5 DEF TopRoot
  <2>2. (CHOOSE x \in RootsOf(c) : x.root = ".") = r
    BY <1>5, RootsApart
  <2>3. e.npm = audit[l]
    BY <1>1, <1>2, <1>3, <1>5, <2>1, <2>2 DEF TopAudit
  <2>4. e.npm = NpmReport(c, l)
    BY <1>1, <1>4, <2>1, <2>3, SoundAudit
  <2>5. e.npm.state # "missing"
    BY <1>1, <2>1 DEF NpmSound
  <2> DEFINE lockfiles == {x.lockfile : x \in TopRoot(e)}
  <2>6. PICK f \in NpmFindings(e.policy, e.npm, lockfiles) : f.rule = AdvisoryRule(a)
    <3> HIDE DEF lockfiles
    <3>1. QED
      BY <2>4, NpmRules
  <2>7. f \in GateFindings(e)
    BY <2>5, <2>6 DEF GateFindings
  <2>8. QED
    BY <2>6, <2>7 DEF FoundRules
<1>6. CASE r.root # "."
  <2> DEFINE entry == [root |-> r.root, lockfile |-> r.lockfile,
                       status |-> IF ValidNpmReport(audit[r.lockfile]) THEN "valid" ELSE "invalid",
                       report |-> audit[r.lockfile]]
             entries == NestedEntries(c, audit)
  <2>1. NestedRoots(e) # {}
    BY <1>2, <1>6 DEF NestedRoots
  <2>2. entry \in entries
    BY <1>2, <1>6 DEF NestedEntries
  <2> HIDE DEF entries
  <2>3. /\ e.nested.state = "ok" /\ e.nested.roots = Listing(entries)
        /\ entries = {Listing(entries)[i] : i \in DOMAIN Listing(entries)}
    <3>1. e.nested = NestedAudits(c, audit) /\ IsFiniteSet(c.tracked)
      BY <1>1, <2>1 DEF DependenciesTyped
    <3>2. QED
      BY <2>2, <3>1, NestedListed DEF entries
  <2>4. entries = {e.nested.roots[i] : i \in DOMAIN e.nested.roots}
    BY <2>3
  <2>5. PICK i \in DOMAIN e.nested.roots : e.nested.roots[i] = entry
    BY <2>2, <2>4
  <2>6. e.nested.roots[i].report = audit[l]
    BY <1>3, <2>5
  <2>7. e.nested.roots[i].report = NpmReport(c, l)
    BY <1>1, <1>4, <2>1, <2>6, SoundAudit
  <2>8. PICK f \in NpmFindings(e.policy, e.nested.roots[i].report,
                               {e.nested.roots[i].lockfile}) : f.rule = AdvisoryRule(a)
    BY <2>7, NpmRules
  <2>9. f \in GateFindings(e)
    BY <2>3, <2>8 DEF GateFindings
  <2>10. QED
    BY <2>8, <2>9 DEF FoundRules
<1>7. QED
  BY <1>5, <1>6

\* What OSV-Scanner says of a lockfile and of an advisory in it.
OsvAdvisory(a) ==
  [id |-> a.id, malicious |-> a.malicious, scores |-> a.scores,
   affected |-> {[same |-> TRUE, fixed |-> a.fix # "no"]}]
OsvEntry(c, l) == [path |-> l, vulns |-> {OsvAdvisory(a) : a \in c.advisories[l]}]

LEMMA OsvReported ==
  ASSUME NEW c, NEW L
  PROVE  /\ OsvReport(c, L).state = "ok"
         /\ OsvReport(c, L).results = {OsvEntry(c, l) : l \in {k \in L : c.advisories[k] # {}}}
BY DEF OsvReport, OsvEntry, OsvAdvisory

\* Both runs together say of every root's lockfile what is known of it.
LEMMA OsvComplete ==
  ASSUME NEW e, NEW c, TrueInputs(e, c), NEW l \in Locked(c), c.advisories[l] # {}
  PROVE  OsvEntry(c, l) \in OsvEffective(e).results
<1> DEFINE walked == OsvReport(c, Walked(c))
           named == OsvReport(c, Locked(c)).results
<1>1. e.osv = walked /\ e.osvRoots.state = "ok" /\ e.osvRoots.results = named
  BY DEF TrueInputs, OsvTrue
<1>2. OsvEffective(e) = MergeOsv(walked, named)
  BY <1>1 DEF OsvEffective
<1>3. walked.state = "ok" /\ walked = [state |-> "ok", results |-> walked.results]
  BY DEF OsvReport
<1>4. /\ walked.results = {OsvEntry(c, k) : k \in {x \in Walked(c) : c.advisories[x] # {}}}
      /\ OsvEntry(c, l) \in named
  BY OsvReported
<1> HIDE DEF walked, named
<1>5. MergeOsv(walked, named).results =
        walked.results \cup {r \in named : r.path \notin {s.path : s \in walked.results}}
  BY <1>3 DEF MergeOsv
<1>6. \A k : OsvEntry(c, k).path = k
  BY DEF OsvEntry
<1>7. QED
  BY <1>2, <1>4, <1>5, <1>6

LEMMA OsvRulesFound ==
  ASSUME NEW e, NEW c, TrueInputs(e, c), DependenciesTyped(c),
         NEW l \in Installed(c), NEW a \in c.advisories[l]
  PROVE  /\ a.malicious => MaliciousRule \in FoundRules(e)
         /\ ~a.malicious /\ ~a.npm => AdvisoryRule(a) \in FoundRules(e)
<1> DEFINE v == OsvAdvisory(a)
           rule == IF v.malicious THEN <<"dependencies", "malicious_package", "any">>
                   ELSE DependencyRule(OsvSeverity(e.policy, v), OsvHasFix(v))
           f == Finding(e.policy, "osv-scanner", {l}, v.id, rule)
<1>1. l \in Locked(c)
  BY InstalledLocked DEF TrueInputs
<1>2. OsvEntry(c, l) \in OsvEffective(e).results
  BY <1>1, OsvComplete
<1>3. f \in OsvFindings(e.policy, OsvEffective(e))
  <2> DEFINE F(r, x) == Finding(e.policy, "osv-scanner", {r.path}, x.id,
                          IF x.malicious THEN <<"dependencies", "malicious_package", "any">>
                          ELSE DependencyRule(OsvSeverity(e.policy, x), OsvHasFix(x)))
             r == OsvEntry(c, l)
  <2>1. OsvFindings(e.policy, OsvEffective(e)) =
          UNION {{F(s, x) : x \in s.vulns} : s \in OsvEffective(e).results}
    BY DEF OsvFindings
  <2>2. r.path = l /\ v \in r.vulns
    BY DEF OsvEntry
  <2>3. f = F(r, v)
    BY <2>2
  <2> HIDE DEF F, f, r, v
  <2>4. QED
    BY <1>2, <2>1, <2>2, <2>3 DEF r
<1>4. f.rule = rule
  BY RuleOf
<1> HIDE DEF f
<1>5. rule \in FoundRules(e)
  <2>1. f \in GateFindings(e)
    BY <1>3 DEF GateFindings
  <2>2. QED
    BY <1>4, <2>1 DEF FoundRules
<1>6. v.malicious = a.malicious /\ (OsvHasFix(v) <=> a.fix # "no")
  <2> DEFINE fixed == a.fix # "no"
             range == [same |-> TRUE, fixed |-> fixed]
  <2>1. v.malicious = a.malicious /\ v.affected = {range}
    BY Zenon DEF OsvAdvisory
  <2>2. range.same /\ (range.fixed <=> fixed)
    OBVIOUS
  <2> HIDE DEF range
  <2>3. QED
    BY <2>1, <2>2 DEF OsvHasFix
<1>7. OsvSeverity(e.policy, v) = OsvSeverity(e.policy, a)
  BY DEF OsvAdvisory, OsvSeverity, HighestScore
<1>8. ~a.malicious /\ ~a.npm => OsvSeverity(e.policy, a) = NormalizeSeverity(a.severity)
  BY DEF TrueInputs, DependenciesTyped
<1> HIDE DEF v
<1>9. QED
  BY <1>5, <1>6, <1>7, <1>8 DEF AdvisoryRule, MaliciousRule, DependencyRule

\* Each rule for what is in the commit is the rule of a finding.
LEMMA TrueRulesFound ==
  ASSUME NEW e, NEW c, TrueInputs(e, c), DependenciesTyped(c)
  PROVE  TrueRules(c) \subseteq FoundRules(e)
<1> DEFINE P == {<<"secrets", IF s.demo THEN "demo_dummy" ELSE "unverified", "any">> :
                   s \in c.patterns}
           Q == {<<"secrets", IF s.verified THEN "verified" ELSE "unverified", "any">> :
                   s \in c.credentials}
           N == UNION {{AdvisoryRule(a) : a \in {b \in c.advisories[l] : b.npm \/ ~b.malicious}} :
                       l \in DOMAIN c.advisories}
           M == {MaliciousRule : l \in {k \in DOMAIN c.advisories :
                                          \E a \in c.advisories[k] : a.malicious}}
           V == IF c.requirements THEN {PipRule(c.python[i]) : i \in DOMAIN c.python} ELSE {}
           S == {CodeRule(c, f) : f \in c.code}
<1>1. TrueRules(c) = P \cup Q \cup N \cup M \cup V \cup S
  BY DEF TrueRules
<1>2. P \subseteq FoundRules(e) /\ Q \subseteq FoundRules(e)
  BY SecretRulesFound
<1>3. DOMAIN c.advisories = Installed(c)
  BY DEF DependenciesTyped
<1>4. N \subseteq FoundRules(e)
  BY <1>3, NpmRulesFound, OsvRulesFound
<1>5. M \subseteq FoundRules(e)
  BY <1>3, OsvRulesFound
<1>6. V \subseteq FoundRules(e)
  BY PipRulesFound
<1>7. S \subseteq FoundRules(e)
  BY CodeRulesFound
<1> HIDE DEF P, Q, N, M, V, S
<1>8. QED
  BY <1>1, <1>2, <1>4, <1>5, <1>6, <1>7

\* The policy lets two kinds of finding be overridden.
LEMMA EligibleRule ==
  ASSUME NEW p, PolicyValid(p), NEW f, EligibleFinding(p, f)
  PROVE  Overridable(f.rule)
<1>1. /\ BreakGlassKey(f.rule) \in BreakGlassKeys
      /\ BreakGlassKey(f.rule) \in {"sast_new", "dependency_with_fix"} => Overridable(f.rule)
  BY DEF BreakGlassKey, BreakGlassKeys, Overridable
<1>2. BreakGlassKey(f.rule) \in {"sast_new", "dependency_with_fix"}
  BY <1>1 DEF PolicyValid, EligibleFinding
<1>3. QED
  BY <1>1, <1>2

LEMMA GreenFollows == ScanInv => GreenMeansScanned
<1> SUFFICES ASSUME ScanInv, gate # NoGate, \A j \in Jobs : gate.controls[j] = "success"
             PROVE  LET blocked == {r \in TrueRules(checkout) :
                                      checkout.policy.rules[r] = "BLOCK"} IN
                    /\ gate.result.verdict # "BLOCK" => blocked = {}
                    /\ gate.result.eligible =>
                         gate.result.trusted /\ \A r \in blocked : Overridable(r)
  BY DEF GreenMeansScanned
<1> DEFINE e == Inputs(checkout, Downloaded(gate.lost))
<1>1. SUFFICES ASSUME gate.result.verdict # "BLOCK" \/ gate.result.eligible
               PROVE  /\ gate.result.trusted
                      /\ gate.result.verdict # "BLOCK" =>
                           \A r \in TrueRules(checkout) : checkout.policy.rules[r] # "BLOCK"
                      /\ gate.result.eligible =>
                           \A r \in TrueRules(checkout) :
                             checkout.policy.rules[r] = "BLOCK" => Overridable(r)
  OBVIOUS
<1>2. gate.result = Evaluated(e) /\ TrueInputs(e, checkout)
  BY <1>1, GreenReads
<1> HIDE DEF e
<1>3. DependenciesTyped(checkout)
  BY CheckoutsAssumption DEF ScanInv, ScanTypes
<1>4. \A r \in TrueRules(checkout) : \E f \in GateFindings(e) :
        f.rule = r /\ f.action = checkout.policy.rules[r]
  <2>1. TrueRules(checkout) \subseteq FoundRules(e) /\ e.policy = checkout.policy
    BY <1>2, <1>3, TrueRulesFound DEF TrueInputs
  <2>2. QED
    BY <2>1, FindingsActed DEF FoundRules
<1> DEFINE findings == GateFindings(e)
           blocked == {f \in findings : f.action = "BLOCK"}
<1>5. /\ gate.result.trusted /\ gate.result.verdict = GateVerdict(findings)
      /\ gate.result.eligible =>
           blocked # {} /\ \A f \in blocked : EligibleFinding(e.policy, f)
  <2> DEFINE eligible == blocked # {} /\ \A f \in blocked : EligibleFinding(e.policy, f)
  <2>1. Evaluated(e) = [verdict |-> GateVerdict(findings), trusted |-> TRUE, control |-> "none",
                        findings |-> findings, eligible |-> eligible]
    BY DEF Evaluated
  <2> HIDE DEF eligible, findings
  <2>2. Evaluated(e).eligible = eligible /\ Evaluated(e).trusted
        /\ Evaluated(e).verdict = GateVerdict(findings)
    BY <2>1
  <2>3. QED
    BY <1>2, <2>2 DEF eligible
<1>6. gate.result.verdict # "BLOCK" => \A f \in findings : f.action # "BLOCK"
  BY <1>5 DEF GateVerdict
<1>7. gate.result.eligible => \A f \in blocked : Overridable(f.rule)
  BY <1>2, <1>5, EligibleRule DEF TrueInputs
<1>8. QED
  BY <1>4, <1>5, <1>6, <1>7

\* A verdict that does not block, with every control a success, means that the policy
\* blocks nothing that is in the commit; and one an approver may pass, nothing but what may
\* be overridden: of any commits, and whatever is lost.
THEOREM GreenIsScanned == ScanSpec => []GreenMeansScanned
<1>1. QED
  BY ScanInvariant, GreenFollows, PTL

-----------------------------------------------------------------------------
(* Blame is deserved: the reports of a job that nothing happened to pass    *)
(* every check the gate makes of them.                                      *)

LEMMA TrueReportSound ==
  ASSUME NEW c, DependenciesTyped(c), NEW l \in Installed(c)
  PROVE  NpmSound(NpmReport(c, l))
<1> DEFINE known == {a \in c.advisories[l] : a.npm}
           v(a) == [id |-> a.id, severity |-> a.severity, fix |-> a.fix]
           vulns == {v(a) : a \in known}
           f == [a \in known |-> v(a)]
<1>1. NpmReport(c, l) = [state |-> "ok", total |-> Cardinality(known), vulns |-> vulns]
  BY DEF NpmReport
<1>2. IsFiniteSet(known)
  <2>1. IsFiniteSet(c.advisories[l]) /\ known \in SUBSET c.advisories[l]
    BY DEF DependenciesTyped
  <2> HIDE DEF known
  <2>2. QED
    BY <2>1, FS_Subset
<1>3. \A a, b \in known : v(a) = v(b) => a = b
  BY DEF DependenciesTyped
<1>4. \A x \in vulns : KnownSeverity(x.severity) /\ x.fix \in {"yes", "no", "other-package"}
  BY DEF DependenciesTyped
<1> HIDE DEF known, v
<1>5. f \in [known -> vulns] /\ \A a \in known : f[a] = v(a)
  OBVIOUS
<1>6. f \in Surjection(known, vulns)
  BY <1>5 DEF Surjection
<1>7. f \in Injection(known, vulns)
  BY <1>3, <1>5 DEF Injection, IsInjective
<1> HIDE DEF vulns, f
<1>8. Cardinality(vulns) = Cardinality(known)
  BY <1>2, <1>6, <1>7, FS_Surjection
<1> DEFINE rep == [state |-> "ok", total |-> Cardinality(known), vulns |-> vulns]
<1>9. rep.state = "ok" /\ rep.total = Cardinality(known) /\ rep.vulns = vulns
  OBVIOUS
<1> HIDE DEF rep
<1>10. QED
  BY <1>1, <1>4, <1>8, <1>9 DEF NpmSound, rep

\* What a dependency scan leaves that no fault touched.
DependencyTrue(e, c) ==
  /\ e.roots = RootsOf(c) /\ Discover(c).rejected = {}
  /\ e.requirements = c.requirements
  /\ e.npm = TopAudit(c, Truthful(c)) /\ e.nested = NestedAudits(c, Truthful(c))
  /\ e.pip = IF c.requirements THEN [state |-> "ok", vulns |-> c.python] ELSE NoFile
  /\ e.osv = OsvReport(c, Walked(c))
  /\ e.osvRoots = IF Locked(c) = {} THEN NoFile
                  ELSE [state |-> "ok", lockfiles |-> Locked(c),
                        results |-> OsvReport(c, Locked(c)).results]

LEMMA TruthfulSound ==
  ASSUME NEW c, DependenciesTyped(c), Discover(c).rejected = {}, NEW l \in Locked(c)
  PROVE  NpmSound(Truthful(c)[l]) /\ ValidNpmReport(Truthful(c)[l])
<1>1. Truthful(c)[l] = NpmReport(c, l) /\ l \in Installed(c)
  BY InstalledLocked DEF Truthful
<1>2. NpmSound(NpmReport(c, l))
  BY <1>1, TrueReportSound
<1>3. QED
  BY <1>1, <1>2 DEF NpmSound, ValidNpmReport

LEMMA TopSound ==
  ASSUME NEW e, NEW c, DependencyTrue(e, c), DependenciesTyped(c)
  PROVE  IF TopRoot(e) = {} THEN e.npm = NoFile ELSE NpmSound(e.npm)
<1>1. Discover(c).roots = RootsOf(c) /\ e.roots = RootsOf(c) /\ Discover(c).rejected = {}
  BY DEF DependencyTrue, Discover
<1>2. CASE TopRoot(e) = {}
  BY <1>1, <1>2 DEF TopRoot, DependencyTrue, TopAudit
<1>3. CASE TopRoot(e) # {}
  <2>1. PICK r \in RootsOf(c) : r.root = "."
    BY <1>1, <1>3 DEF TopRoot
  <2>2. (CHOOSE x \in RootsOf(c) : x.root = ".") = r
    BY <2>1, RootsApart
  <2>3. e.npm = Truthful(c)[r.lockfile]
    BY <1>1, <2>1, <2>2 DEF DependencyTrue, TopAudit
  <2>4. r.lockfile \in Locked(c)
    BY <1>1 DEF Locked
  <2>5. QED
    BY <1>1, <1>3, <2>3, <2>4, TruthfulSound
<1>4. QED
  BY <1>2, <1>3

LEMMA NestedSoundToo ==
  ASSUME NEW e, NEW c, DependencyTrue(e, c), DependenciesTyped(c)
  PROVE  IF NestedRoots(e) = {} THEN e.nested = NoFile
         ELSE /\ NestedSound(e.nested, NestedRoots(e))
              /\ \A i \in DOMAIN e.nested.roots : NpmSound(e.nested.roots[i].report)
<1> DEFINE audit == Truthful(c)
           entries == NestedEntries(c, audit)
           s == Listing(entries)
           entry(r) == [root |-> r.root, lockfile |-> r.lockfile,
                        status |-> IF ValidNpmReport(audit[r.lockfile]) THEN "valid" ELSE "invalid",
                        report |-> audit[r.lockfile]]
           nested == NestedRoots(e)
<1>1. /\ Discover(c).roots = RootsOf(c) /\ e.roots = RootsOf(c) /\ Discover(c).rejected = {}
      /\ e.nested = NestedAudits(c, audit)
  BY DEF DependencyTrue, Discover
<1>2. nested = {r \in RootsOf(c) : r.root # "."}
  BY <1>1 DEF NestedRoots
<1>3. entries = {entry(r) : r \in nested}
  BY <1>1, <1>2 DEF NestedEntries
<1>4. CASE nested = {}
  BY <1>1, <1>3, <1>4 DEF NestedAudits
<1>5. CASE nested # {}
  <2>1. /\ e.nested.state = "ok" /\ e.nested.roots = s /\ e.nested.rejected = {}
        /\ entries = {s[i] : i \in DOMAIN s}
        /\ \A i, j \in DOMAIN s : s[i] = s[j] => i = j
    <3>1. IsFiniteSet(c.tracked)
      BY DEF DependenciesTyped
    <3>2. PICK r \in nested : TRUE
      BY <1>5, Zenon
    <3>3. entry(r) \in entries
      <4> HIDE DEF audit, entries, entry, nested
      <4> QED BY <1>3, <3>2
    <3>4. entries # {}
      <4> HIDE DEF entries, entry
      <4> QED BY <3>3
    <3>5. QED
      BY <1>1, <3>1, <3>4, NestedListed
  <2>2. \A r \in nested : /\ entry(r).root = r.root /\ entry(r).lockfile = r.lockfile
                          /\ entry(r).report = audit[r.lockfile]
                          /\ ValidNpmReport(audit[r.lockfile]) => entry(r).status = "valid"
    OBVIOUS
  <2>3. \A r \in nested : r.lockfile \in Locked(c)
    BY <1>1, <1>2 DEF Locked
  <2>4. \A r \in nested : NpmSound(audit[r.lockfile]) /\ ValidNpmReport(audit[r.lockfile])
    BY <1>1, <2>3, TruthfulSound
  <2>5. \A r \in nested : r = [root |-> r.root, lockfile |-> r.lockfile]
    BY <1>2 DEF RootsOf
  <2>6. \A r, q \in nested : r.root = q.root => r = q
    BY <1>2, RootsApart
  <2> HIDE DEF audit, entries, s, entry, nested
  <2>7. \A i \in DOMAIN s : \E r \in nested : s[i] = entry(r)
    BY <1>3, <2>1
  <2>8. \A i, j \in DOMAIN s : s[i].root = s[j].root => i = j
    BY <2>1, <2>2, <2>6, <2>7
  <2>9. \A i \in DOMAIN s : s[i].status = "valid" /\ NpmSound(s[i].report)
    BY <2>2, <2>4, <2>7
  <2>10. {[root |-> s[i].root, lockfile |-> s[i].lockfile] : i \in DOMAIN s} = nested
    <3>1. \A i \in DOMAIN s : [root |-> s[i].root, lockfile |-> s[i].lockfile] \in nested
      BY <2>2, <2>5, <2>7
    <3>2. \A r \in nested : \E i \in DOMAIN s :
            r = [root |-> s[i].root, lockfile |-> s[i].lockfile]
      BY <1>3, <2>1, <2>2, <2>5
    <3>3. QED
      BY <3>1, <3>2
  <2>11. NestedSound(e.nested, nested)
    BY <2>1, <2>8, <2>9, <2>10 DEF NestedSound
  <2>12. QED
    BY <1>5, <2>1, <2>9, <2>11 DEF nested
<1>6. QED
  BY <1>4, <1>5

LEMMA EffectiveSound ==
  ASSUME NEW e, NEW c, DependencyTrue(e, c)
  PROVE  OsvSound(OsvEffective(e))
<1> DEFINE walked == OsvReport(c, Walked(c))
           named == OsvReport(c, Locked(c)).results
           Sounds(results) == \A r \in results : \A v \in r.vulns :
                                v.malicious \/ \E a \in v.affected : a.same
<1>1. \A l : \A v \in OsvEntry(c, l).vulns : \E a \in v.affected : a.same
  <2>1. \A a : \E x \in OsvAdvisory(a).affected : x.same
    <3> SUFFICES ASSUME NEW a PROVE \E x \in OsvAdvisory(a).affected : x.same
      OBVIOUS
    <3> DEFINE range == [same |-> TRUE, fixed |-> a.fix # "no"]
    <3>1. OsvAdvisory(a).affected = {range}
      BY DEF OsvAdvisory
    <3>2. range.same
      OBVIOUS
    <3> HIDE DEF range
    <3>3. QED
      BY <3>1, <3>2
  <2>2. \A l : OsvEntry(c, l).vulns = {OsvAdvisory(a) : a \in c.advisories[l]}
    BY DEF OsvEntry
  <2>3. QED
    BY <2>1, <2>2
<1>2. walked.state = "ok" /\ Sounds(walked.results) /\ Sounds(named)
  BY <1>1, OsvReported
<1>3. /\ e.osv = walked
      /\ e.osvRoots.state = "missing" \/ e.osvRoots.results = named
  BY DEF DependencyTrue, NoFile
<1>4. walked = [state |-> "ok", results |-> walked.results]
  BY DEF OsvReport
<1> HIDE DEF walked, named
<1>5. /\ MergeOsv(walked, named).state = "ok"
      /\ MergeOsv(walked, named).results \subseteq walked.results \cup named
  BY <1>2, <1>4 DEF MergeOsv
<1>6. /\ OsvEffective(e).state = "ok"
      /\ OsvEffective(e).results \subseteq walked.results \cup named
  BY <1>2, <1>3, <1>5 DEF OsvEffective
<1>7. QED
  BY <1>2, <1>6 DEF OsvSound

LEMMA DependencyPasses ==
  ASSUME NEW e, NEW c, DependencyTrue(e, c), DependenciesTyped(c)
  PROVE  /\ "dependency-scan" \notin UnreadableControls(e)
         /\ DependencyReportsMatch(e) /\ DependencyReportsSound(e)
<1>1. /\ e.npm.state \in {"ok", "missing"} /\ (TopRoot(e) # {} => e.npm.state = "ok")
      /\ e.npm.state = "missing" \/ NpmSound(e.npm)
  BY TopSound DEF NpmSound, NoFile
<1>2. /\ e.nested.state \in {"ok", "missing"}
      /\ NestedRoots(e) # {} => e.nested.state = "ok"
      /\ e.nested.state = "missing" \/ NestedSound(e.nested, NestedRoots(e))
      /\ e.nested.state = "missing" \/
           \A i \in DOMAIN e.nested.roots : NpmSound(e.nested.roots[i].report)
  BY NestedSoundToo DEF NestedSound, NoFile
<1>3. /\ e.pip.state \in {"ok", "missing"} /\ (e.requirements => e.pip.state = "ok")
      /\ e.pip.state = "missing" \/ PipSound(e.pip)
  BY DEF DependencyTrue, NoFile, PipSound, DependenciesTyped
<1>4. e.osv.state = "ok"
  BY OsvReported DEF DependencyTrue
<1>5. Locked(c) = Lockfiles(e) /\ (e.roots # {} <=> Locked(c) # {})
  BY DEF DependencyTrue, Locked, Lockfiles, Discover
<1>6. /\ e.osvRoots.state \in {"ok", "missing"} /\ (e.roots # {} => e.osvRoots.state = "ok")
      /\ e.osvRoots.state = "missing" \/ OsvRootsSound(e.osvRoots, Lockfiles(e))
  <2> DEFINE named == OsvReport(c, Locked(c)).results
  <2>1. \A r \in named : r.path \in Locked(c)
    <3>1. \A l : OsvEntry(c, l).path = l
      BY DEF OsvEntry
    <3>2. QED
      BY <3>1, OsvReported
  <2>2. e.osvRoots = IF Locked(c) = {} THEN NoFile
                     ELSE [state |-> "ok", lockfiles |-> Locked(c), results |-> named]
    BY DEF DependencyTrue
  <2> HIDE DEF named
  <2>3. QED
    BY <1>5, <2>1, <2>2 DEF NoFile, OsvRootsSound
<1>7. OsvSound(OsvEffective(e))
  BY EffectiveSound
<1>8. "dependency-scan" \notin UnreadableControls(e)
  BY <1>1, <1>2, <1>3, <1>4 DEF UnreadableControls, Reads
<1>9. DependencyReportsMatch(e)
  BY <1>2, <1>6 DEF DependencyReportsMatch, Reads
<1>10. DependencyReportsSound(e)
  BY <1>1, <1>2, <1>3, <1>7 DEF DependencyReportsSound
<1>11. QED
  BY <1>8, <1>9, <1>10

\* Why a control is blamed.
LEMMA BlamedFor ==
  ASSUME NEW e, NEW x \in Blamed(e)
  PROVE  \/ x = "source-gate" /\ (~LifecycleSound(e.declared) \/ ~PolicyValid(e.policy))
         \/ x = "dependency-scan" /\ e.rejected # {}
         \/ x \in UnreadableControls(e)
         \/ /\ UnreadableControls(e) = {}
            /\ \E i \in 1..6 : x = CheckOwner(i) /\ ~CheckPasses(e, i)
<1>1. CASE ~LifecycleSound(e.declared) \/ ~PolicyValid(e.policy)
  BY <1>1 DEF Blamed
<1>2. CASE ~(~LifecycleSound(e.declared) \/ ~PolicyValid(e.policy)) /\ e.rejected # {}
  BY <1>2 DEF Blamed
<1>3. CASE /\ ~(~LifecycleSound(e.declared) \/ ~PolicyValid(e.policy)) /\ e.rejected = {}
           /\ UnreadableControls(e) # {}
  BY <1>3 DEF Blamed
<1>4. CASE /\ ~(~LifecycleSound(e.declared) \/ ~PolicyValid(e.policy)) /\ e.rejected = {}
           /\ UnreadableControls(e) = {}
  <2>1. x \in {CheckOwner(i) : i \in {j \in 1..6 :
                 (\A k \in 1..j - 1 : CheckPasses(e, k)) /\ ~CheckPasses(e, j)}}
    BY <1>4 DEF Blamed
  <2>2. QED
    BY <1>4, <2>1
<1>5. QED
  BY <1>1, <1>2, <1>3, <1>4

LEMMA GateBlamed ==
  ASSUME NEW e, "source-gate" \in Blamed(e)
  PROVE  \/ ~PolicyValid(e.policy) \/ ~LifecycleSound(e.declared)
         \/ ~BaselineReads(e.baseline, e.bootstrap, e.declared)
         \/ e.baseline.state = "shapeless"
<1>1. SUFFICES ASSUME BaselineReads(e.baseline, e.bootstrap, e.declared),
                      UnreadableControls(e) = {},
                      \E i \in 1..6 : "source-gate" = CheckOwner(i) /\ ~CheckPasses(e, i)
               PROVE  e.baseline.state = "shapeless"
  BY BlamedFor DEF UnreadableControls
<1>2. ~BaselineSound(e.baseline)
  <2>1. PICK i \in 1..6 : "source-gate" = CheckOwner(i) /\ ~CheckPasses(e, i)
    BY <1>1
  <2>2. i = 5
    BY <2>1 DEF CheckOwner
  <2>3. QED
    BY <2>1, <2>2 DEF CheckPasses
<1>3. QED
  BY <1>1, <1>2 DEF BaselineReads, BaselineSound

LEMMA JobBlamed ==
  ASSUME ScanInv, gate # NoGate, NEW x \in Jobs,
         x \in Blamed(Inputs(checkout, Downloaded(gate.lost))),
         Succeeds(x), x \notin gate.lost, x = "dependency-scan" => scanFaults = 0,
         x = "sast" => \A f \in checkout.code : SemgrepSeverityKnown(checkout.policy, f)
  PROVE  FALSE
<1> DEFINE d == Downloaded(gate.lost)
           e == Inputs(checkout, d)
<1>1. artifact[x] = "uploaded"
  BY JobsEnd
<1>2. \A r \in Outputs(x) : d[r] = files[r]
  <2>1. Outputs(x) \subseteq Reports
    BY DEF Reports
  <2>2. QED
    BY <1>1, <2>1, Fetched
<1> HIDE DEF d
<1>3. /\ e.policy = checkout.policy /\ e.requirements = checkout.requirements
      /\ e.roots = Discover(checkout).roots /\ e.rejected = Discover(checkout).rejected
      /\ e.gitleaks = d["gitleaks"] /\ e.trufflehog = d["trufflehog"] /\ e.npm = d["npm"]
      /\ e.nested = d["nested"] /\ e.pip = d["pip"] /\ e.osv = d["osv"]
      /\ e.osvRoots = d["osvRoots"] /\ e.semgrep = d["semgrep"]
  BY InputsOf
<1>4. x \in Blamed(e)
  BY DEF d
<1> HIDE DEF e
<1>5. \/ x = "dependency-scan" /\ e.rejected # {}
      \/ x \in UnreadableControls(e)
      \/ \E i \in 1..6 : x = CheckOwner(i) /\ ~CheckPasses(e, i)
  BY <1>4, BlamedFor DEF Jobs
<1>6. CASE x = "secret-scan"
  <2>1. e.gitleaks.state = "ok" /\ e.trufflehog.state = "ok"
    BY <1>2, <1>3, <1>6, JobsEnd, OutputSets
  <2>2. x \notin UnreadableControls(e)
    BY <1>6, <2>1 DEF UnreadableControls, Reads
  <2>3. PICK i \in 1..6 : x = CheckOwner(i) /\ ~CheckPasses(e, i)
    BY <1>5, <1>6, <2>2
  <2>4. i = 2
    BY <1>6, <2>3 DEF CheckOwner
  <2>5. QED
    BY <2>1, <2>3, <2>4 DEF CheckPasses
<1>7. CASE x = "sast"
  <2>1. SemgrepSound(e.semgrep) /\ e.semgrep.results = checkout.code
    BY <1>2, <1>3, <1>7, JobsEnd, OutputSets DEF Whole
  <2>2. x \notin UnreadableControls(e)
    BY <1>7, <2>1 DEF UnreadableControls, Reads, SemgrepSound
  <2>3. PICK i \in 1..6 : x = CheckOwner(i) /\ ~CheckPasses(e, i)
    BY <1>5, <1>7, <2>2
  <2>4. i \in {4, 6}
    BY <1>7, <2>3 DEF CheckOwner
  <2>5. CheckPasses(e, 4)
    BY <2>1 DEF CheckPasses
  <2>6. CheckPasses(e, 6)
    BY <1>3, <1>7, <2>1 DEF CheckPasses
  <2>7. QED
    BY <2>3, <2>4, <2>5, <2>6
<1>8. CASE x = "dependency-scan"
  <2>1. DependenciesTyped(checkout)
    BY CheckoutsAssumption DEF ScanInv, ScanTypes
  <2>2. Audited(checkout, files["npm"], files["nested"], 0)
    BY <1>8, JobsEnd
  <2>3. /\ Discover(checkout).rejected = {} /\ Discover(checkout).roots = RootsOf(checkout)
        /\ e.npm = TopAudit(checkout, Truthful(checkout))
        /\ e.nested = NestedAudits(checkout, Truthful(checkout))
    BY <1>2, <1>3, <1>8, <2>2, OutputSets DEF Audited, Discover
  <2>4. /\ ~checkout.requirements => e.pip = NoFile
        /\ Locked(checkout) = {} => e.osvRoots = NoFile
    BY <1>2, <1>3, <1>8, OutputSets DEF ScanInv, DependencyInv
  <2>5. DependencyTrue(e, checkout)
    BY <1>2, <1>3, <1>8, <2>3, <2>4, JobsEnd, OutputSets DEF DependencyTrue
  <2>6. /\ x \notin UnreadableControls(e)
        /\ DependencyReportsMatch(e) /\ DependencyReportsSound(e)
    BY <1>8, <2>1, <2>5, DependencyPasses
  <2>7. PICK i \in 1..6 : x = CheckOwner(i) /\ ~CheckPasses(e, i)
    BY <1>3, <1>5, <2>3, <2>6
  <2>8. i \in {1, 3}
    BY <1>8, <2>7 DEF CheckOwner
  <2>9. CheckPasses(e, 1)
    BY <2>6 DEF CheckPasses
  <2>10. CheckPasses(e, 3)
    BY <2>6 DEF CheckPasses
  <2>11. QED
    BY <2>7, <2>8, <2>9, <2>10
<1>9. QED
  BY <1>6, <1>7, <1>8 DEF Jobs

LEMMA BlameFollows == ScanInv => BlameIsDeserved
<1> SUFFICES ASSUME ScanInv, gate # NoGate
             PROVE  BlameIsDeserved
  BY DEF BlameIsDeserved
<1> DEFINE e == Inputs(checkout, Downloaded(gate.lost))
           x == gate.result.control
<1>1. gate.result \in Results(e) /\ gate.execution = Downloaded(gate.lost)["execution"]
  BY DEF ScanInv, GateInv
<1>2. ~gate.result.trusted => x \in Blamed(e)
  <2>1. Evaluated(e).trusted /\ \A c : IntegrityFailure(c).control = c
    BY DEF Evaluated, IntegrityFailure
  <2> HIDE DEF e
  <2>2. QED
    BY <1>1, <2>1 DEF Results
<1>3. \A c \in Blamed(e) : c \in Jobs \cup {"source-gate"}
  <2> HIDE DEF e
  <2>1. UnreadableControls(e) \subseteq Jobs \cup {"source-gate"}
    BY DEF UnreadableControls, Jobs
  <2>2. \A i \in 1..6 : CheckOwner(i) \in Jobs \cup {"source-gate"}
    BY DEF CheckOwner, Jobs
  <2>3. QED
    BY <2>1, <2>2, BlamedFor DEF Jobs
<1>4. ASSUME ~gate.result.trusted, x = "source-gate"
      PROVE  \/ ~PolicyValid(checkout.policy) \/ ~LifecycleSound(checkout.declared)
             \/ ~BaselineReads(checkout.baseline, checkout.bootstrap, checkout.declared)
             \/ checkout.baseline.state = "shapeless"
  <2>1. /\ e.policy = checkout.policy /\ e.declared = checkout.declared
        /\ e.baseline = checkout.baseline /\ e.bootstrap = checkout.bootstrap
    BY InputsOf
  <2> HIDE DEF e
  <2>2. "source-gate" \in Blamed(e)
    BY <1>2, <1>4
  <2>3. QED
    BY <2>1, <2>2, GateBlamed
<1>5. ASSUME ~gate.result.trusted, x # "source-gate"
      PROVE  \/ job[x].result # "success" \/ x \in gate.lost
             \/ x = "dependency-scan" /\ scanFaults > 0
             \/ /\ x = "sast"
                /\ \E f \in checkout.code : ~SemgrepSeverityKnown(checkout.policy, f)
  <2>1. x \in Jobs /\ x \in Blamed(e)
    BY <1>2, <1>3, <1>5
  <2>2. scanFaults \in Nat
    BY DEF ScanInv, ScanTypes
  <2> HIDE DEF x
  <2>3. QED
    BY <2>1, <2>2, JobBlamed DEF Succeeds
<1>6. gate.execution \in {files["execution"], NoFile} /\ NoFile.state = "missing"
  BY <1>1, Fetched, OutputSets DEF NoFile
<1>7. /\ gate.execution.state = "success" =>
           SemgrepSound(files["semgrep"]) /\ files["semgrep"].results = checkout.code
      /\ gate.execution.state = "acquisition-failed" => files["semgrep"] = NoFile /\ pulls > 0
  BY <1>6 DEF ScanInv, SastInv, Whole
<1>8. QED
  BY <1>4, <1>5, <1>7 DEF BlameIsDeserved

\* A control is blamed only for what became of its own job, artifact or reports, and the
\* execution record claims a scan, or a failed pull, only if there was one: of any commits,
\* and whatever fails.
THEOREM BlameIsFair == ScanSpec => []BlameIsDeserved
<1>1. QED
  BY ScanInvariant, BlameFollows, PTL

=============================================================================
