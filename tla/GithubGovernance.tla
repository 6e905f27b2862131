--------------------------- MODULE GithubGovernance -------------------------
(***************************************************************************)
(* What `ssd-onboard github' reads of a repository's settings and judges of*)
(* them (onboarding/github/discover.mjs, identity.mjs, protection.mjs,     *)
(* codeowners.mjs, plan.mjs derivePlan): the sources of merge governance,  *)
(* what each requirement has of them, and the one operation that would     *)
(* close the gap.  Pure; GithubApply is the commands.                      *)
(*                                                                         *)
(* The repository is a record of what is true there, with the reads this   *)
(* token is refused (403, 404) in `unread'.  Slugs, branches and refs are  *)
(* compared, never taken apart; slugs without regard to case.              *)
(***************************************************************************)
EXTENDS Naturals, FiniteSets, Sequences

CONSTANTS FrameworkRef,   \* the ref of the framework the commands are run from
          ActionsApp      \* GitHub Actions' app id

Unverified == [state |-> "unverified"]
Absent == [state |-> "absent"]
Present(value) == [state |-> "present", value |-> value]

SsdRulesetName == "ssd-merge-governance"
RequiredCheck == "security-gate"
Unpinned == "any-app"

PullRequirements == {"code-owner-review", "approvals", "dismiss-stale", "last-push-approval"}
Requirements == {"status-check"} \cup PullRequirements
Group(q) == IF q = "status-check" THEN "required_status_checks" ELSE "pull_request"

-----------------------------------------------------------------------------
(* Discovery: what the token is shown.  A refusal never reads as absence.  *)

Reads(h, name, value) == IF name \in h.unread THEN Unverified ELSE Present(value)

\* The rules GitHub applies to the branch: those of active rulesets it falls under.
Applying(h) == {r \in h.rulesets : r.enforcement = "active" /\ r.ref # "other-branch"}

RuleEntry(r) == [id |-> r.id, org |-> r.org, pull |-> r.pull, checks |-> r.checks]

\* The bypass list stays unknown when GitHub leaves it out.
Detail(h, r) ==
  IF "ruleset" \in h.unread \/ r.hidden THEN Unverified
  ELSE Present([r EXCEPT !.bypass = IF r.listed THEN Present(@) ELSE Unverified])

Classic(h) ==
  IF "branch" \in h.unread THEN Unverified
  ELSE IF h.classic = Absent THEN Absent
  ELSE IF "protection" \in h.unread THEN Unverified ELSE h.classic

Secret(h, name) ==
  IF "secrets" \in h.unread THEN Unverified
  ELSE IF name \in DOMAIN h.secrets THEN Present(h.secrets[name]) ELSE Absent

Discovered(h) ==
  LET rules == Reads(h, "branchRules", {RuleEntry(r) : r \in Applying(h)})
      list == Reads(h, "rulesets", {[id |-> r.id, name |-> r.name, org |-> r.org,
                                      enforcement |-> r.enforcement] : r \in h.rulesets})
      wanted == {r \in h.rulesets :
                   \/ rules.state = "present" /\ r \in Applying(h)
                   \/ list.state = "present" /\ r.name = SsdRulesetName}
  IN [app |-> IF "actionsApp" \in h.unread THEN Unverified ELSE Present(ActionsApp),
      rules |-> rules, list |-> list,
      details |-> [id \in {r.id : r \in wanted} |->
                     Detail(h, CHOOSE r \in wanted : r.id = id)],
      classic |-> Classic(h)]

-----------------------------------------------------------------------------
(* Identity: the configured repository is the only target.                 *)

\* A checkout: its configuration, and what its origin is.
IdentityBlocks(checkout, h, mode) ==
  LET c == checkout.config
  IN \/ checkout.origin # "unknown" /\ checkout.origin # c.slug
     \/ checkout.origin = "unknown" /\ mode = "apply"
     \/ checkout.originHead # "unknown" /\ checkout.originHead # c.defaultBranch
     \/ "repository" \in h.unread
     \/ h.slug # c.slug \/ h.defaultBranch # c.defaultBranch \/ h.archived

FrameworkBound(config) == config.framework = FrameworkRef

-----------------------------------------------------------------------------
(* Sources of governance, and whether they can be relied on.               *)

PullProvides(entry) == IF entry.pull.state = "present" THEN entry.pull.value.reqs ELSE {}

\* A bug to check the properties against: the check counts by its name alone.
PinnedByName(check) == check.context = RequiredCheck
Pinned(check) == check = [context |-> RequiredCheck, app |-> ActionsApp]

\* Only when the app's identity is proven can a pinned check be recognised.
CheckProvides(d, list) ==
  IF d.app.state = "present" /\ \E c \in list : Pinned(c) THEN {"status-check"} ELSE {}

Checks(entry) == IF entry.checks.state = "present" THEN entry.checks.value.list ELSE {}

\* A bug to check the properties against: a list that was not returned reads as empty.
RulesetTrustedUnlisted(detail) ==
  /\ detail.state = "present" /\ detail.value.enforcement = "active"
  /\ detail.value.bypass.state = "unverified" \/ detail.value.bypass.value = {}

RulesetTrusted(detail) ==
  /\ detail.state = "present" /\ detail.value.enforcement = "active"
  /\ detail.value.bypass = Present({})
  /\ detail.value.userBypass \in {"unreported", "never"}

BypassKnown(detail) ==
  /\ detail.state = "present" /\ detail.value.enforcement = "active"
  /\ detail.value.bypass.state = "present"
  /\ detail.value.bypass.value # {} \/ RulesetTrusted(detail)

\* A bug to check the properties against: administrators are forgotten.
ClassicTrustedForAdmins(p) == p.allowances = {}
ClassicTrusted(p) == p.enforceAdmins /\ p.allowances = {}

Sources(d) ==
  (IF d.rules.state = "present"
   THEN {[provides |-> PullProvides(e) \cup CheckProvides(d, Checks(e)),
          trusted |-> RulesetTrusted(d.details[e.id]),
          unknown |-> ~BypassKnown(d.details[e.id])] : e \in d.rules.value}
   ELSE {})
  \cup
  (IF d.classic.state = "present"
   THEN {[provides |-> d.classic.value.reqs \cup CheckProvides(d, d.classic.value.checks),
          trusted |-> ClassicTrusted(d.classic.value), unknown |-> FALSE]}
   ELSE {})

RequirementState(d, q) ==
  CASE \E s \in Sources(d) : s.trusted /\ q \in s.provides -> "satisfied"
    [] OTHER ->
         IF \/ d.rules.state # "present" \/ (q = "status-check" /\ d.app.state # "present")
            \/ d.classic.state = "unverified"
            \/ \E s \in Sources(d) : ~s.trusted /\ s.unknown /\ q \in s.provides
         THEN "unverified" ELSE "missing"

\* A bug to check the properties against: what could not be verified is taken to be there.
MissingGroupsProven(d) ==
  {Group(q) : q \in {p \in Requirements : RequirementState(d, p) = "missing"}}
MissingGroups(d) ==
  {Group(q) : q \in {p \in Requirements : RequirementState(d, p) # "satisfied"}}

Governance(d) ==
  CASE \A q \in Requirements : RequirementState(d, q) = "satisfied" -> "satisfied"
    [] OTHER -> IF \E q \in Requirements : RequirementState(d, q) = "unverified"
                THEN "unverified" ELSE "missing"

-----------------------------------------------------------------------------
(* The SSD ruleset: what is created, and what an existing one must be.     *)

SsdPull == Present([reqs |-> PullRequirements, plain |-> TRUE])
SsdChecks == Present([list |-> {[context |-> RequiredCheck, app |-> ActionsApp]},
                      strict |-> FALSE])

\* A bug to check the properties against: the new check is not pinned to an app.
DesiredUnpinned(groups) ==
  [name |-> SsdRulesetName, enforcement |-> "active", bypass |-> {}, ref |-> "the-branch",
   pull |-> IF "pull_request" \in groups THEN SsdPull ELSE Absent,
   checks |-> IF "required_status_checks" \in groups
              THEN Present([list |-> {[context |-> RequiredCheck, app |-> Unpinned]},
                            strict |-> FALSE])
              ELSE Absent,
   others |-> {}]
DesiredRuleset(groups) ==
  [name |-> SsdRulesetName, enforcement |-> "active", bypass |-> {}, ref |-> "the-branch",
   pull |-> IF "pull_request" \in groups THEN SsdPull ELSE Absent,
   checks |-> IF "required_status_checks" \in groups THEN SsdChecks ELSE Absent,
   others |-> {}]

\* Rules of a ruleset beyond the two kinds, a second rule of a kind, and conditions
\* other than ref_name are in `others'.
Drifted(r) ==
  \/ r.enforcement # "active" \/ r.bypass # Present({}) \/ r.ref # "the-branch"
  \/ r.others # {} \/ (r.pull = Absent /\ r.checks = Absent)
  \/ r.pull # Absent /\ r.pull # SsdPull
  \/ r.checks # Absent /\ r.checks # SsdChecks

\* A ruleset of that name that is not one, or whose rules would have to be edited.
Conflicts(d) ==
  d.list.state = "present" /\
  \E r \in d.list.value :
    /\ r.name = SsdRulesetName /\ ~r.org
    /\ \/ d.details[r.id].state # "present"
       \/ d.app.state # "present" /\ d.details[r.id].value.checks # Absent
       \/ Drifted(d.details[r.id].value)
       \/ MissingGroups(d) # {}

-----------------------------------------------------------------------------
(* CODEOWNERS: GitHub's copy, its errors, and whether it covers the controls. *)

Codeowners(h) ==
  LET o == h.owners
  IN CASE "contents" \in h.unread -> "unverified"
       [] "contents" \notin h.unread /\ o.state # "present" -> 
            IF o.state = "absent" THEN "incomplete" ELSE "unverified"
       [] "contents" \notin h.unread /\ o.state = "present" ->
            IF \/ o.value.tooLarge \/ o.value.covers = "no"
               \/ "codeownersErrors" \notin h.unread /\ o.value.errors THEN "incomplete"
            ELSE IF "codeownersErrors" \in h.unread \/ o.value.covers = "unknown"
            THEN "unverified" ELSE "complete"

-----------------------------------------------------------------------------
(* The derivation that github plan records and github apply repeats.       *)

NoInput == [scope |-> "none"]

PlanInput(checkout, h, scope, operation, observed) ==
  [scope |-> scope,
   repository |-> [slug |-> checkout.config.slug, id |-> h.id,
                   defaultBranch |-> checkout.config.defaultBranch],
   config |-> checkout.config, operation |-> operation, observed |-> observed]

Underived(blocked) ==
  [blocked |-> blocked, input |-> NoInput, notVerified |-> FALSE, status |-> "none",
   secret |-> Unverified]

DeriveSecrets(checkout, h) ==
  LET name == checkout.config.secret
      secret == Secret(h, name)
  IN [Underived(FALSE) EXCEPT
        !.secret = secret, !.notVerified = secret.state = "unverified",
        !.input = IF secret.state = "unverified" THEN NoInput
                  ELSE PlanInput(checkout, h, "secrets",
                         [type |-> "actions-secret-set", name |-> name,
                          action |-> IF secret.state = "absent" THEN "create" ELSE "rotate"],
                         secret)]

\* A ruleset is created only knowing what applies, every ruleset's name and the app,
\* as an administrator.
SafeToCreate(d, h) ==
  /\ d.rules.state = "present" /\ d.list.state = "present" /\ d.app.state = "present"
  /\ "admin" \in h.permissions

DeriveProtection(checkout, h) ==
  LET d == Discovered(h)
      owners == Codeowners(h)
      needed == MissingGroups(d) # {} /\ ~Conflicts(d)
  IN [Underived(Conflicts(d)) EXCEPT
        !.notVerified = needed /\ ~SafeToCreate(d, h),
        !.status = CASE Governance(d) = "satisfied" /\ owners = "complete" -> "COMPLIANT"
                     [] Governance(d) = "unverified"
                        \/ (Governance(d) = "satisfied" /\ owners = "unverified") ->
                          "NOT_VERIFIED"
                     [] OTHER -> "INCOMPLETE",
        !.input = IF needed /\ SafeToCreate(d, h)
                  THEN PlanInput(checkout, h, "protection",
                         [type |-> "ruleset-create", body |-> DesiredRuleset(MissingGroups(d))],
                         d)
                  ELSE NoInput]

DerivePlan(checkout, h, scope, mode) ==
  IF IdentityBlocks(checkout, h, mode) THEN Underived(TRUE)
  ELSE IF scope = "secrets" THEN DeriveSecrets(checkout, h) ELSE DeriveProtection(checkout, h)

=============================================================================
