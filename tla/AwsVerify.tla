----------------------------- MODULE AwsVerify -----------------------------
(***************************************************************************)
(* `ssd-onboard aws doctor' and `aws verify': what the account holds is    *)
(* read, one call at a time, and judged.  Both change nothing; doctor says *)
(* whether delivery can be set up, from the documents and what simulation  *)
(* is to be had, and verify whether the boundary holds that delivery       *)
(* relies on, from what IAM simulates.                                     *)
(*                                                                         *)
(* The account is one of Worlds; it may become another while a command     *)
(* reads.  A call that was answered is kept as the moment it was answered  *)
(* at, and its result, absence included, is what the account held then.    *)
(***************************************************************************)
EXTENDS AwsPolicy, Naturals, Sequences

CONSTANTS Worlds,       \* what the account may hold
          Fresh,        \* of these, what was just deployed
          Managed,      \* sets of resources that a configuration may manage
          MaxMishaps    \* bound on unanswered calls and changes of the account

ASSUME AwsVerifyAssumption ==
  /\ MaxMishaps \in Nat /\ Fresh \in Worlds
  /\ Managed \subseteq SUBSET {"provider", "repository", "push", "deploy"}
  /\ \A w \in Worlds :
       w.provider \in {"ours", "more-audiences", "absent", "other-account", "no-audience"}

VARIABLES
  account,   \* what the account held since the command began, in order
  run,       \* the command: its configuration, the next read, its exit code
  answers,   \* per read: nothing yet, no answer, or the moment it was answered at
  upsets     \* unanswered calls and changes of the account

awsVerifyVars == <<account, run, answers, upsets>>

seen == {account[i] : i \in DOMAIN account}

Account == "account"
Reads == << <<"provider", Account>>, <<"repository", Account>>,
            <<"repository-policy", Account>>, <<"tags", Account>>, <<"scanning", Account>>,
            <<"inspector", Account>>, <<"coverage", Account>>,
            <<"role", "push">>, <<"policies", "push">>, <<"simulation", "push">>,
            <<"role", "deploy">>, <<"policies", "deploy">>, <<"simulation", "deploy">>,
            <<"instance", Account>>, <<"agent", Account>>, <<"profile", Account>>,
            <<"role", "instance">>, <<"policies", "instance">>, <<"simulation", "instance">>,
            <<"stacks", Account>> >>
ReadSet == {Reads[i] : i \in DOMAIN Reads}
DeliveryRoles == {"push", "deploy"}
Unasked == 0
Unanswered == MaxMishaps + 2
Running == 2

AwsVerifyInit ==
  /\ account \in {<<w>> : w \in Worlds} /\ upsets = 0
  /\ run \in [command : {"doctor", "verify"}, managed : Managed, environment : BOOLEAN,
              next : {1}, exit : {Running}]
  /\ answers = [r \in ReadSet |-> Unasked]

-----------------------------------------------------------------------------
(* What was read.                                                          *)

Answered(r) == answers[r] \in DOMAIN account
At(r) == account[answers[r]]

\* Known only from a type of scanning that is one of the two.
Enhanced ==
  LET r == <<"scanning", Account>> IN
  IF ~Answered(r) \/ At(r).scanning.type \notin {"BASIC", "ENHANCED"} THEN "unknown"
  ELSE IF At(r).scanning.type = "ENHANCED" THEN "yes" ELSE "no"

RepositoryThere ==
  LET r == <<"repository", Account>> IN Answered(r) /\ At(r).repository.exists

\* What is asked of a repository that is gone by then is not answered.
Told(what) == LET r == <<what, Account>> IN Answered(r) /\ At(r).repository.exists

RoleRead(k) == Answered(<<"role", k>>) /\ At(<<"role", k>>).roles[k].exists
RoleThere(k) == RoleRead(k) /\ At(<<"role", k>>).roles[k].sameArn
ProfileRole ==
  /\ Answered(<<"profile", Account>>) /\ At(<<"profile", Account>>).profileRoles = 1

\* A read that has nothing to ask is passed over.
Asks(r) ==
  CASE r[1] \in {"repository-policy", "tags"} -> RepositoryThere
    [] r[1] \in {"inspector", "coverage"} -> Enhanced = "yes"
    [] r[1] \in {"policies", "simulation"} ->
         /\ IF r[2] = "instance" THEN RoleRead(r[2]) ELSE RoleThere(r[2])
         /\ r = <<"simulation", "instance">> => run.command = "verify"
    [] r[1] = "profile" -> Answered(<<"instance", Account>>)
                           /\ At(<<"instance", Account>>).profile = "ours"
    [] r = <<"role", "instance">> -> ProfileRole
    [] OTHER -> TRUE

-----------------------------------------------------------------------------
(* Checks.                                                                 *)

Check(findings, required) == [status |-> Worst(findings), required |-> required]

ProviderCheck ==
  LET r == <<"provider", Account>>
      p == At(r).provider IN
  Check(IF ~Answered(r) THEN {"NOT VERIFIED"}
        ELSE When(p \in {"absent", "other-account", "no-audience"}, "FAIL")
             \cup When(p = "more-audiences", "WARN"), TRUE)

\* Which subject GitHub sends is never asked.
SubjectFormatCheck == Check({"NOT VERIFIED"}, FALSE)

\* A policy that could not be read leaves no finding: only one that was read is judged.
PolicyFindings(answered, policy) ==
  When(answered /\ policy = "public", "FAIL")
  \cup When(answered /\ policy = "conditional", "WARN")
  \cup When(answered /\ policy = "malformed", "NOT VERIFIED")

RepositoryChecks ==
  LET r == <<"repository", Account>>
      repo == At(r).repository
      verify == run.command = "verify"
      managed == verify /\ "repository" \in run.managed
      there == RepositoryThere IN
  { Check(IF ~Answered(r) THEN {"NOT VERIFIED"}
          ELSE IF ~repo.exists THEN {"FAIL"}
          ELSE PolicyFindings(Told("repository-policy"),
                              At(<<"repository-policy", Account>>).repository.policy)
               \cup When(verify /\ ~repo.sameArn, "FAIL"), TRUE),
    Check(IF ~there THEN {"NOT VERIFIED"}
          ELSE When(~repo.immutable, IF managed THEN "FAIL" ELSE "WARN"), managed) }
  \cup IF ~managed THEN {}
       ELSE {Check(IF ~there THEN {"NOT VERIFIED"}
                   ELSE When(~repo.scanOnPush \/ ~repo.encrypted, "FAIL"), TRUE)}

\* A rule scans what it matches, by itself, if the registry's type uses its frequency.
Uses(type) == IF type = "ENHANCED" THEN {"SCAN_ON_PUSH", "CONTINUOUS_SCAN"}
              ELSE {"SCAN_ON_PUSH", "MANUAL"}
Covered(scanning, scanOnPush) ==
  \/ \E rule \in scanning.rules :
       rule.matches = "yes" /\ rule.frequency \in Uses(scanning.type) \ {"MANUAL"}
  \/ scanning.type = "BASIC" /\ scanOnPush

\* What the templates make of an account where the rest is in order: the registry scans, the
\* instance is there to be reached, and the policies are those for the registry's type.
AsGenerated(w) ==
  LET enhanced == IF w.scanning.type = "ENHANCED" THEN "yes" ELSE "no" IN
  /\ w.provider = "ours"
  /\ w.repository = [exists |-> TRUE, sameArn |-> TRUE, policy |-> "none", immutable |-> TRUE,
                     scanOnPush |-> TRUE, encrypted |-> TRUE]
  /\ w.scanning.type \in {"BASIC", "ENHANCED"} /\ Covered(w.scanning, TRUE)
  /\ w.inspector.enabled /\ w.inspector.records = {"ACTIVE"}
  /\ \A k \in {"push", "deploy", "instance"} :
       /\ w.roles[k].exists /\ w.roles[k].sameArn /\ w.roles[k].boundary = Actions
       /\ w.roles[k].policies = RolePolicy(k, enhanced)
       /\ k \in DeliveryRoles => w.roles[k].trust = BuildTrust(IntendedContext(k, TRUE))
  /\ w.roles["push"].id # w.roles["deploy"].id
  /\ w.instance = "running" /\ w.agent = "Online" /\ w.profile = "ours" /\ w.profileRoles = 1
  /\ \A x \in {"provider", "repository", "push", "deploy"} : w.owner[x] = "ours"
  /\ \A x \in {"repository", "push", "deploy"} : w.consumer[x] = "ours"
ASSUME FreshAssumption == AsGenerated(Fresh)

\* Rules that cannot be evaluated leave open whether the repository is covered.
ScanningCheck ==
  LET r == <<"scanning", Account>>
      repository == <<"repository", Account>>
      s == At(r).scanning
      onPush == RepositoryThere /\ At(repository).repository.scanOnPush
      unsupported == \E rule \in s.rules :
        \/ rule.matches = "unknown"
        \/ rule.matches = "yes" /\ rule.frequency \notin Uses(s.type) IN
  Check(IF ~Answered(r) \/ Enhanced = "unknown" THEN {"NOT VERIFIED"}
        ELSE IF Covered(s, onPush)
        THEN When(unsupported \/ ~Covered(s, FALSE), "WARN")
        ELSE {IF unsupported THEN "NOT VERIFIED" ELSE "FAIL"}, TRUE)

\* Doctor waits for a record of the repository with a warning, verify does not.
InspectorChecks ==
  LET a == <<"inspector", Account>>
      c == <<"coverage", Account>>
      lenient == IF run.command = "doctor" THEN "WARN" ELSE "NOT VERIFIED"
      enabled == IF ~Answered(a) THEN {"NOT VERIFIED"}
                 ELSE When(~At(a).inspector.enabled, "FAIL")
      records == IF ~Answered(c) THEN {lenient}
                 ELSE When(At(c).inspector.records = {}, lenient)
                      \cup When("INACTIVE" \in At(c).inspector.records, "FAIL") IN
  IF Enhanced # "yes" THEN {} ELSE {Check(enabled \cup records, TRUE)}

RoleCheck(k) ==
  Check(IF ~Answered(<<"role", k>>) THEN {"NOT VERIFIED"}
        ELSE When(~RoleThere(k), "FAIL"), TRUE)

Intended(k) == IntendedContext(k, run.environment)
TrustCheck(k) ==
  Check(IF ~RoleThere(k) THEN {"NOT VERIFIED"}
        ELSE EvaluateTrust(At(<<"role", k>>).roles[k].trust, Intended(k))
             \cup When(k = "deploy" /\ ~run.environment, "WARN"), TRUE)

\* What is asked of a role that is gone by then is not answered.  Policies that could not
\* all be read leave no statement to go by.
Complete(k) == Answered(<<"policies", k>>) /\ At(<<"policies", k>>).roles[k].exists
Statements(k) == IF Complete(k) THEN At(<<"policies", k>>).roles[k].policies ELSE {}
Simulates(k) ==
  LET r == <<"simulation", k>> IN
  Answered(r) /\ At(r).roles[k].exists /\ At(r).roles[k].sameArn
Simulation(k, u) == Simulated(At(<<"simulation", k>>).roles[k], u)

\* Doctor goes by the documents, and by the simulator where it contradicts them.
PermissionsCheck(k) ==
  LET denies == IF k = "instance" \/ ~Simulates(k) THEN {}
                ELSE {r[1] : r \in {q \in Required(k, Enhanced) :
                        q[2] = Certain /\ Simulation(k, q[1]).decision # "allowed"}} IN
  Missing(k, Statements(k), Complete(k), Enhanced, denies)
  \cup Breadth(k, Statements(k), Complete(k))
  \cup When(/\ k \in DeliveryRoles /\ ~Simulates(k)
            /\ At(<<"role", k>>).roles[k].boundary # Actions, "WARN")

\* Verify goes by the simulator.  A denial for want of a condition's value is none.
RequiredAccess(k) ==
  IF ~Simulates(k) THEN {"NOT VERIFIED"}
  ELSE UNION { LET s == Simulation(k, r[1]) IN
               When(s.decision # "allowed",
                    IF s.missing \/ r[2] = Possible THEN "NOT VERIFIED" ELSE "FAIL")
               : r \in Required(k, Enhanced) }
Denied(s) == s.decision # "allowed"
ProvenDenied(s) == s.decision = "explicitDeny" \/ (s.decision = "implicitDeny" /\ ~s.missing)
DeniedAccess(k) ==
  IF ~Simulates(k) THEN {"NOT VERIFIED"}
  ELSE (UNION { LET s == Simulation(k, p[1]) IN
                IF ProvenDenied(s) THEN {}
                ELSE {IF s.decision = "allowed" \/ p[2] = "WARN" THEN p[2] ELSE "NOT VERIFIED"}
                : p \in DeniedProbes(k) })
       \cup IF k = "instance" THEN {} ELSE Breadth(k, Statements(k), Complete(k))

\* Two identities, and neither can do the other's job.
SeparationCheck ==
  Check((IF ~RoleThere("push") \/ ~RoleThere("deploy") THEN {"NOT VERIFIED"}
         ELSE When(At(<<"role", "push">>).roles["push"].id
                   = At(<<"role", "deploy">>).roles["deploy"].id, "FAIL"))
        \cup UNION { IF ~Simulates(x[1]) THEN {"NOT VERIFIED"}
                     ELSE When(Simulation(x[1], x[2]).decision = "allowed", "FAIL")
                     : x \in {<<"push", On("send", "instance")>>,
                              <<"deploy", On("push", "repository")>>} }, TRUE)

RoleChecks(k) ==
  {RoleCheck(k), TrustCheck(k)}
  \cup IF run.command = "doctor"
       THEN {Check(IF RoleThere(k) THEN PermissionsCheck(k) ELSE {"NOT VERIFIED"}, TRUE)}
       ELSE {Check(RequiredAccess(k), TRUE), Check(DeniedAccess(k), TRUE)}

\* The instance, its agent, and the one role of its profile.
Online == Answered(<<"agent", Account>>) /\ At(<<"agent", Account>>).agent = "Online"
InstanceChecks ==
  LET r == <<"instance", Account>>
      profile == <<"profile", Account>> IN
  { Check(IF ~Answered(r) THEN {"NOT VERIFIED"}
          ELSE When(At(r).instance # "running", "FAIL"), TRUE),
    Check(IF ~Answered(<<"agent", Account>>) THEN {"NOT VERIFIED"}
          ELSE When(~Online, "FAIL"), TRUE),
    Check(IF ~Answered(r) \/ At(r).instance = "absent" THEN {"NOT VERIFIED"}
          ELSE IF At(r).profile # "ours" THEN {"FAIL"}
          ELSE IF ~Answered(profile) THEN {"NOT VERIFIED"}
          ELSE IF ~ProfileRole THEN {"FAIL"}
          ELSE IF ~RoleRead("instance") THEN {"NOT VERIFIED"}
          ELSE IF /\ run.command = "verify" /\ Complete("instance")
                  /\ Administrators(Statements("instance")) = {}
          THEN RequiredAccess("instance") \cup DeniedAccess("instance")
          ELSE PermissionsCheck("instance"), TRUE) }

\* A managed resource is that of its stack; verify wants the logical id as well.  Its own
\* tag must not name another repository, if the tags were read: a role's come with the
\* role, the repository's by a call of their own, and the provider is nobody's alone.
OwnedByName(owner) == TRUE
Owned(owner) == owner = "ours" \/ (owner = "misplaced" /\ run.command = "doctor")
OfAnother(x) ==
  \/ x = "repository" /\ Told("tags") /\ At(<<"tags", Account>>).consumer[x] = "other"
  \/ x \in DeliveryRoles /\ At(<<"role", x>>).consumer[x] = "other"
OwnershipCheck(x) ==
  LET r == <<"stacks", Account>>
      managed == x \in run.managed
      there == CASE x = "provider" -> /\ Answered(<<"provider", Account>>)
                                      /\ At(<<"provider", Account>>).provider # "absent"
                 [] x = "repository" -> RepositoryThere
                 [] OTHER -> RoleThere(x) IN
  Check(IF ~there \/ ~Answered(r) THEN {"NOT VERIFIED"}
        ELSE IF managed THEN When(~Owned(At(r).owner[x]) \/ OfAnother(x), "FAIL")
        ELSE When(At(r).owner[x] # "others" /\ ~OfAnother(x), "WARN"), managed)

Checks ==
  {ProviderCheck, SubjectFormatCheck, ScanningCheck} \cup RepositoryChecks
  \cup InspectorChecks \cup InstanceChecks \cup (UNION {RoleChecks(k) : k \in DeliveryRoles})
  \cup (IF run.command = "verify" THEN {SeparationCheck} ELSE {})
  \cup {OwnershipCheck(x) : x \in {"provider", "repository", "push", "deploy"}}

\* What could not be read is no failure, but a required check may not stay open.
OutcomeOfFailures(checks) == IF \E c \in checks : c.status = "FAIL" THEN 1 ELSE 0
OutcomeOf(checks) ==
  IF \E c \in checks : c.status = "FAIL" \/ (c.status = "NOT VERIFIED" /\ c.required)
  THEN 1 ELSE 0

-----------------------------------------------------------------------------
(* The run.  Region and identity: a run that objects to them reads nothing.*)

Read ==
  /\ run.next \in DOMAIN Reads
  /\ LET r == Reads[run.next] IN
     \/ /\ ~Asks(r) /\ UNCHANGED <<answers, upsets>>
     \/ /\ Asks(r) /\ answers' = [answers EXCEPT ![r] = Len(account)] /\ UNCHANGED upsets
     \/ /\ Asks(r) /\ upsets < MaxMishaps /\ upsets' = upsets + 1
        /\ answers' = [answers EXCEPT ![r] = Unanswered]
  /\ run' = [run EXCEPT !.next = @ + 1]
  /\ UNCHANGED account

Report ==
  /\ run.next = Len(Reads) + 1
  /\ run' = [run EXCEPT !.next = @ + 1, !.exit = OutcomeOf(Checks)]
  /\ UNCHANGED <<account, answers, upsets>>

\* Others change the account: from what was deployed, or back to it.
OthersChangeAccount ==
  /\ run.next \in DOMAIN Reads /\ upsets < MaxMishaps /\ upsets' = upsets + 1
  /\ \E w \in IF account[Len(account)] = Fresh THEN Worlds \ {Fresh} ELSE {Fresh} :
       account' = Append(account, w)
  /\ UNCHANGED <<run, answers>>

AwsVerifyNext == Read \/ Report \/ OthersChangeAccount
AwsVerifySpec == AwsVerifyInit /\ [][AwsVerifyNext]_awsVerifyVars

-----------------------------------------------------------------------------
(* Properties.                                                             *)

\* At some moment while the command ran.
Sometime(Holds(_)) == \E w \in seen : Holds(w)

\* No forbidden use of a role is effective, whatever the conditions.
Bounded(role, uses) == \A u \in uses, held \in BOOLEAN : ~Effective(role, u, held)
FailingUses(uses) == {p[1] : p \in {q \in uses : q[2] = "FAIL"}}

\* What the account held at the moments that were read makes up a boundary that holds.
BoundarySeen ==
  /\ Sometime(LAMBDA w : w.provider \in {"ours", "more-audiences"})
  /\ \A k \in DeliveryRoles :
       LET uses == IF run.command = "verify" THEN DeniedProbes(k) ELSE Forbidden(k) IN
       /\ Sometime(LAMBDA w : /\ w.roles[k].exists /\ w.roles[k].sameArn
                               /\ OnlyIntended(w.roles[k].trust, Intended(k)))
       /\ Sometime(LAMBDA w : Bounded(w.roles[k], FailingUses(uses)))
       /\ run.command = "verify" =>
            Sometime(LAMBDA w : \A r \in Required(k, "no") :
              \E held \in BOOLEAN : Effective(w.roles[k], r[1], held))
  /\ run.command = "verify" =>
       \E v, w \in seen : v.roles["push"].id # w.roles["deploy"].id
  /\ \E v \in seen : Sometime(LAMBDA w :
       Covered(w.scanning, v.repository.scanOnPush))
  /\ Sometime(LAMBDA w : w.scanning.type = "BASIC")
       \/ Sometime(LAMBDA w : w.inspector.enabled)
  /\ Sometime(LAMBDA w : w.instance = "running")
       /\ Sometime(LAMBDA w : w.agent = "Online")
  /\ \A x \in run.managed : Sometime(LAMBDA w : w.owner[x] \in {"ours", "misplaced"})
  /\ \A x \in run.managed \cap DeliveryRoles : Sometime(LAMBDA w : w.consumer[x] # "other")

\* What is judged of the repository: its policy and its own tag only where they were read.
RepositorySeen ==
  /\ Sometime(LAMBDA w : w.repository.exists)
  /\ Told("repository-policy") =>
       Sometime(LAMBDA w : w.repository.exists /\ w.repository.policy \notin {"public", "malformed"})
  /\ "repository" \in run.managed /\ Told("tags") =>
       Sometime(LAMBDA w : w.repository.exists /\ w.consumer["repository"] # "other")

\* A command that reports success has seen a boundary that holds: for every role, only
\* runs of this repository in the intended context assume it, and nothing it must not do
\* is ever effective; the roles are two; the repository is there and is scanned by itself,
\* by a scanner that is enabled; the instance runs and can be reached; what is managed is
\* owned, and no role of it is tagged as another repository's.  Each of these was answered,
\* and held at some moment of the run even if others changed the account during it.  Two
\* things are promised only of an answer that came: that the repository's policy opens it to
\* nobody, and that a managed repository's own tag names no other.  And what the tool
\* generates and deployed, read without a mishap, is reported as sound.
ReadinessIsReal ==
  /\ run.exit = 0 => BoundarySeen /\ RepositorySeen
  /\ run.exit = 1 => seen # {Fresh} \/ upsets > 0 \/ ~run.environment

\* No verify that passes had a call unanswered which a check it requires goes by: "Uncertainty
\* is never PASS" (verify.mjs:35).  It may: an unread repository policy leaves no finding
\* (doctor.mjs:132), and with unread tags the repository's own is not tested (doctor.mjs:445).
UncertaintyIsNeverPass ==
  run.command = "verify" /\ run.exit = 0 =>
    /\ answers[<<"repository-policy", Account>>] # Unanswered
    /\ "repository" \in run.managed => answers[<<"tags", Account>>] # Unanswered

=============================================================================
