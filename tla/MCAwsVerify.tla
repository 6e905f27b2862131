---------------------------- MODULE MCAwsVerify ----------------------------
(***************************************************************************)
(* Accounts to judge: the one that was just deployed, and those that differ*)
(* from it in one thing that may be wrong, odd or merely different.        *)
(***************************************************************************)
EXTENDS AwsVerify

NewRole(k) ==
  [exists |-> TRUE, sameArn |-> TRUE, id |-> k, boundary |-> Actions,
   trust |-> IF k = "instance" THEN {} ELSE BuildTrust(IntendedContext(k, TRUE)),
   policies |-> RolePolicy(k, "no")]

Deployed ==
  [provider |-> "ours",
   repository |-> [exists |-> TRUE, sameArn |-> TRUE, policy |-> "none", immutable |-> TRUE,
                   scanOnPush |-> TRUE, encrypted |-> TRUE],
   scanning |-> [type |-> "BASIC",
                 rules |-> {[matches |-> "yes", frequency |-> "SCAN_ON_PUSH"]}],
   inspector |-> [enabled |-> TRUE, records |-> {"ACTIVE"}],
   roles |-> [k \in {"push", "deploy", "instance"} |-> NewRole(k)],
   instance |-> "running", agent |-> "Online", profile |-> "ours", profileRoles |-> 1,
   owner |-> [x \in {"provider", "repository", "push", "deploy"} |-> "ours"],
   consumer |-> [x \in {"repository", "push", "deploy"} |-> "ours"]]

-----------------------------------------------------------------------------
(* Trust: other conditions on the one statement, and other statements.     *)

Generated == CHOOSE stmt \in BuildTrust("branch") : TRUE
Like(subject) == Entry("StringLike", "sub", {subject})
Exactly(subjects) == Entry("StringEquals", "sub", subjects)
Sts == Entry("StringEquals", "aud", {"sts"})
Ours == Subject("ours", "branch")

Conditions ==
  { {Sts}, {Exactly({Ours})}, {},
    {Sts, Exactly({})}, {Sts, Like(Ours)}, {Sts, Like(Subject("ours", "*"))},
    {Sts, Like(Subject("*", "branch"))}, {Sts, Exactly({Subject("*", "branch")})},
    {Sts, Exactly({Subject("ours", "pull_request")})}, {Sts, Exactly({Subject("other", "branch")})},
    {Sts, Exactly({Ours, Subject("other", "branch")})},
    {Sts, Exactly({Ours, Subject("ours", "environment")})},
    {Sts, Exactly({Subject("OURS", "branch")})}, {Sts, Exactly({Subject("ours-by-id", "branch")})},
    {Sts, Exactly({Ours}), Like(Subject("ours", "*"))},
    {Sts, Exactly({Ours}), Exactly({Subject("ours", "environment")})},
    {Sts, Exactly({Ours, Subject("other", "branch")}), Like(Subject("ours", "*"))},
    {Sts, Exactly({Ours}), Entry("StringEquals", "other", {"x"})},
    {Sts, Exactly({Ours}), Entry("StringNotEquals", "sub", {Ours})},
    {Sts, Entry("StringEqualsIfExists", "sub", {Ours})},
    {Entry("StringEquals", "aud", {"sts", "elsewhere"}), Exactly({Ours})},
    {Entry("StringLike", "aud", {"*"}), Exactly({Ours})},
    {Entry("StringLike", "aud", {"sts"}), Exactly({Ours})} }

MoreStatements ==
  { [Generated EXCEPT !.effect = "Deny"], [Generated EXCEPT !.evaluated = FALSE],
    [Generated EXCEPT !.effect = "Deny", !.evaluated = FALSE],
    [Generated EXCEPT !.entries = {Sts}],
    [Generated EXCEPT !.entries = {Sts, Like(Subject("ours", "*"))}] }
  \cup { [Generated EXCEPT !.principals = {p}, !.actions = {"assume-role"}, !.entries = {}] :
           p \in {"anyone", "account", "other-account", "other-provider", "service"} }

Trusts ==
  { {[Generated EXCEPT !.entries = c]} : c \in Conditions }
  \cup { {Generated, stmt} : stmt \in MoreStatements }
  \cup { {[Generated EXCEPT !.actions = {"assume-role"}]}, {}, BuildTrust("environment") }

-----------------------------------------------------------------------------
(* Permissions: one statement more, or one less.                           *)

Statement(effect, actions, resources, conditional) ==
  [effect |-> effect, actions |-> actions, butActions |-> FALSE,
   resources |-> resources, butResources |-> FALSE, conditional |-> conditional]

Widened(k) ==
  { Statement(effect, {u.action}, {u.resource}, conditional) :
      effect \in {"Allow", "Deny"}, conditional \in BOOLEAN,
      u \in FailingUses(DeniedProbes(k)) \cup {r[1] : r \in Required(k, "no")} }
  \cup { [Statement("Allow", {"describe"}, {"account"}, FALSE) EXCEPT !.butActions = TRUE],
         [Statement("Allow", Actions, {"repository"}, FALSE) EXCEPT !.butResources = TRUE],
         Statement("Allow", Actions, Resources, FALSE),
         Statement("Allow", {"inspect"}, {"account"}, FALSE) }

Policies(k) ==
  { RolePolicy(k, "no") \cup {stmt} : stmt \in Widened(k) }
  \cup { RolePolicy(k, "no") \ {stmt} : stmt \in RolePolicy(k, "no") }
  \cup { RolePolicy(k, "no") \cup {Statement("Allow", {"rewrite"}, {"self"}, FALSE),
                                  Statement("Deny", {"rewrite"}, {"self"}, TRUE)} }

RoleVariants(k) ==
  { [NewRole(k) EXCEPT !.exists = FALSE], [NewRole(k) EXCEPT !.sameArn = FALSE],
    [NewRole(k) EXCEPT !.boundary = Actions \ {"send", "push", "pull"}] }
  \cup { [NewRole(k) EXCEPT !.policies = p] : p \in Policies(k) }

-----------------------------------------------------------------------------
(* The rest.                                                               *)

Scannings ==
  { [type |-> type, rules |-> IF matches = "no" THEN {} ELSE
       {[matches |-> matches, frequency |-> frequency]}] :
      type \in {"BASIC", "ENHANCED", "UNKNOWN"}, matches \in {"yes", "no", "unknown"},
      frequency \in {"MANUAL", "SCAN_ON_PUSH", "CONTINUOUS_SCAN"} }
Inspectors == [enabled : BOOLEAN, records : {{}, {"ACTIVE"}, {"ACTIVE", "INACTIVE"}}]
Inspects == RolePolicy("push", "yes")

Accounts ==
  {Deployed}
  \cup { [Deployed EXCEPT !.provider = p] :
           p \in {"absent", "other-account", "no-audience", "more-audiences"} }
  \cup { [Deployed EXCEPT !.repository[f] = ~@] :
           f \in {"exists", "sameArn", "immutable", "scanOnPush", "encrypted"} }
  \cup { [Deployed EXCEPT !.repository.policy = p] : p \in {"public", "conditional", "malformed"} }
  \cup { [Deployed EXCEPT !.scanning = s, !.repository.scanOnPush = FALSE] : s \in Scannings }
  \cup { [Deployed EXCEPT !.scanning.type = "ENHANCED", !.inspector = i,
                          !.roles["push"].policies = Inspects] : i \in Inspectors }
  \cup { [Deployed EXCEPT !.roles["push"].trust = t] : t \in Trusts }
  \cup { [Deployed EXCEPT !.roles["deploy"].trust = BuildTrust("branch")],
         [Deployed EXCEPT !.roles["deploy"] =
            [Deployed.roles["push"] EXCEPT !.trust = BuildTrust("environment")]],
         [Deployed EXCEPT !.roles["deploy"].id = "push"] }
  \cup UNION { { [Deployed EXCEPT !.roles[k] = r] : r \in RoleVariants(k) } :
                 k \in {"push", "deploy", "instance"} }
  \cup { [Deployed EXCEPT !.instance = i, !.profile = IF i = "absent" THEN "none" ELSE @] :
           i \in {"absent", "stopped"} }
  \cup { [Deployed EXCEPT !.agent = x] : x \in {"absent", "Lost"} }
  \cup { [Deployed EXCEPT !.profile = p] : p \in {"none", "other-account"} }
  \cup { [Deployed EXCEPT !.profileRoles = n] : n \in {0, 2} }
  \cup { [Deployed EXCEPT !.owner[x] = o] :
           x \in {"provider", "repository", "push", "deploy"}, o \in {"others", "misplaced"} }
  \cup { [Deployed EXCEPT !.consumer[x] = o] :
           x \in {"repository", "push", "deploy"}, o \in {"other", "none"} }

OnlyDeployed == {Deployed}
ManagedChoices == {{}, {"provider", "repository", "push", "deploy"}}

=============================================================================
