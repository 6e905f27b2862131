---------------------------- MODULE MCOnboarding ----------------------------
(***************************************************************************)
(* One run for the machines of onboarding: the commands over the GitHub    *)
(* repository's settings, those over a consumer's checkout, and plans for  *)
(* its AWS account.  Each behaviour moves one of them, the others keep one *)
(* initial state: their state spaces add up.                               *)
(***************************************************************************)
EXTENDS GithubApply, Rollout, AwsPlan, TLC

VARIABLE machine   \* the machine that moves

-----------------------------------------------------------------------------
(* Settings of the repository for GithubApply.                             *)

PinnedCheck == [context |-> RequiredCheck, app |-> ActionsApp]
AnyCheck == [context |-> RequiredCheck, app |-> Unpinned]
Demands(list) == Present([list |-> list, strict |-> FALSE])

\* A ruleset of somebody else, over more than the branch, that holds everything.
Ruleset(id) ==
  [id |-> id, org |-> FALSE, name |-> "theirs", enforcement |-> "active", bypass |-> {},
   ref |-> "more-branches", pull |-> SsdPull, checks |-> Demands({PinnedCheck}),
   others |-> {}, hidden |-> FALSE, listed |-> TRUE, userBypass |-> "never"]
SsdRuleset(id) == [Ruleset(id) EXCEPT !.name = SsdRulesetName, !.ref = "the-branch"]

Bare ==
  [slug |-> "o/r", id |-> 1, defaultBranch |-> "main", archived |-> FALSE,
   permissions |-> {"admin"}, unread |-> {}, rulesets |-> {}, classic |-> Absent,
   secrets |-> << >>,
   owners |-> Present([tooLarge |-> FALSE, covers |-> "yes", errors |-> FALSE])]
With(rulesets) == [Bare EXCEPT !.rulesets = rulesets]
ClassicRules(reqs, checks, admins, allowances) ==
  Present([reqs |-> reqs, checks |-> checks, enforceAdmins |-> admins,
           allowances |-> allowances])

MCRepositories ==
  { Bare,
    With({Ruleset(1)}),
    \* bypassed by some, in a list this token is not shown
    With({[Ruleset(1) EXCEPT !.bypass = {"team"}, !.listed = FALSE]}),
    With({[Ruleset(1) EXCEPT !.bypass = {"team"}, !.listed = FALSE, !.checks = Absent]}),
    With({[Ruleset(1) EXCEPT !.bypass = {"admin"}]}),
    With({[Ruleset(1) EXCEPT !.checks = Demands({AnyCheck})]}),
    With({[Ruleset(1) EXCEPT !.pull = Present([reqs |-> {"approvals"}, plain |-> FALSE]),
                             !.checks = Absent]}),
    With({SsdRuleset(1)}),
    With({[SsdRuleset(1) EXCEPT !.enforcement = "evaluate"]}),
    [Bare EXCEPT !.classic = ClassicRules(PullRequirements, {PinnedCheck}, FALSE, {})],
    [Bare EXCEPT !.classic = ClassicRules(PullRequirements, {PinnedCheck}, TRUE, {})],
    [Bare EXCEPT !.unread = {"ruleset"}, !.permissions = {}, !.rulesets = {Ruleset(1)}],
    [Bare EXCEPT !.unread = {"actionsApp"}],
    [Bare EXCEPT !.unread = {"secrets", "protection"},
                 !.classic = ClassicRules({}, {}, TRUE, {})],
    [Bare EXCEPT !.slug = "o/renamed"] }

MCOthersSettings ==
  { Bare, With({[Ruleset(1) EXCEPT !.bypass = {"team"}, !.listed = FALSE]}),
    [Bare EXCEPT !.slug = "o/renamed"] }

HubConfig == [slug |-> "o/r", defaultBranch |-> "main", framework |-> FrameworkRef,
           slack |-> TRUE, secret |-> "SLACK"]
Checkout == [config |-> HubConfig, origin |-> "o/r", originHead |-> "main"]
MCCheckouts ==
  { [k \in Clones |-> Checkout],
    [k \in Clones |-> [Checkout EXCEPT !.config.slack = FALSE]],
    [k \in Clones |-> [Checkout EXCEPT !.origin = "unknown"]] }

RunSymmetry == Permutations(Commands) \cup Permutations(Planners)

-----------------------------------------------------------------------------
(* Consumers' repositories for Rollout.                                    *)

MCScopes == {"all", "narrow"}
Answers(gate, base, ecr) ==
  [kind |-> "config", gate |-> gate, base |-> base, scope |-> "all", ecr |-> ecr]
MCPartials == { Answers("log-only", "unsaid", TRUE) }

Empty == [p \in Paths |-> NoFile]
Onboarded(c) ==
  [p \in Paths |-> CASE p = "config" -> c
                     [] p \in DOMAIN RenderAll(c) -> RenderAll(c)[p]
                     [] OTHER -> NoFile]
Started == Onboarded(Answers("log-only", "absent", TRUE))
AcceptedTree ==
  [Onboarded(Answers("log-only", "accepted", TRUE)) EXCEPT
     !["baseline"] = Document([known |-> FALSE, scope |-> "all"])]
Commits(t, branches) ==
  [i \in DOMAIN branches |-> [branch |-> branches[i], tree |-> [p \in Tracked |-> t[p]]]]

MCHistories ==
  { Commits(Empty, <<"main">>),
    Commits([Empty EXCEPT !["ignore"] = Link], <<"main">>),
    Commits(Started, <<"main", "other">>),
    Commits([AcceptedTree EXCEPT !["delivery"] = Link], <<"main", "main">>) }

-----------------------------------------------------------------------------
(* Accounts for AwsPlan.                                                   *)

DeliveryConfig(managed, version) ==
  [managed |-> managed, version |-> version, names |-> [k \in LogicalIds |-> k]]

\* Everything managed; and, next, the deploy role left to others.
MCConfigs == {DeliveryConfig(LogicalIds, 1), DeliveryConfig({"repository", "push"}, 2)}

OwnThing(l) ==
  [exists |-> TRUE, owner |-> "ours", logical |-> l, sameArn |-> TRUE, consumer |-> "ours",
   policies |-> IF l \in RoleKeys THEN {"ours"} ELSE {}]
StackOf(members) ==
  [id |-> 1, status |-> "CREATE_COMPLETE", tags |-> "ours", rev |-> 1, members |-> members]
Account(members) ==
  [stack |-> StackOf(members),
   things |-> [n \in LogicalIds |-> IF n \in DOMAIN members THEN OwnThing(n) ELSE NoThing]]
Version(v) == [l \in LogicalIds |-> [name |-> l, version |-> v]]
Ours == Account(Version(1))
NoAccount == [stack |-> Nowhere, things |-> [n \in LogicalIds |-> NoThing]]
Loose == [OwnThing("push") EXCEPT !.owner = None, !.logical = None]

MCClouds ==
  { NoAccount, Ours,
    [NoAccount EXCEPT !.things["push"] = Loose],
    [NoAccount EXCEPT !.things["push"] = [Loose EXCEPT !.owner = "theirs"]],
    \* what a change set that nobody executed leaves
    [NoAccount EXCEPT !.stack = [StackOf(<< >>) EXCEPT !.status = "REVIEW_IN_PROGRESS",
                                                       !.tags = None, !.rev = 0]],
    [Ours EXCEPT !.stack.tags = "other"], [Ours EXCEPT !.stack.status = "ROLLBACK_COMPLETE"],
    [Ours EXCEPT !.things["push"].policies = {"ours", "extra"}],
    [Ours EXCEPT !.things["repository"].consumer = "other"],
    [Ours EXCEPT !.things["push"].sameArn = FALSE],
    [Ours EXCEPT !.things["push"] = NoThing],
    \* the roles have each other's names
    [Ours EXCEPT !.stack.members["push"].name = "deploy",
                 !.stack.members["deploy"].name = "push",
                 !.things["push"].logical = "deploy", !.things["deploy"].logical = "push"] }

-----------------------------------------------------------------------------
MachineInit ==
  /\ machine \in {"github", "rollout", "aws"}
  /\ HubInit /\ (machine # "github" =>
                    /\ hub = Bare /\ checkouts = [k \in Clones |-> Checkout]
                    /\ slots = [k \in Clones |-> {}])
  /\ RolloutInit /\ (machine # "rollout" => commits = Commits(Empty, <<"main">>))
  /\ AwsPlanInit /\ (machine # "aws" => cloud = NoAccount)

MachineNext ==
  \/ machine = "github" /\ HubNext /\ UNCHANGED <<machine, rolloutVars, awsPlanVars>>
  \/ machine = "rollout" /\ RolloutNext /\ UNCHANGED <<machine, hubVars, awsPlanVars>>
  \/ machine = "aws" /\ AwsPlanNext /\ UNCHANGED <<machine, hubVars, rolloutVars>>

OnboardingSpec ==
  MachineInit /\ [][MachineNext]_<<machine, hubVars, rolloutVars, awsPlanVars>>
=============================================================================
