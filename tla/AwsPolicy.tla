----------------------------- MODULE AwsPolicy -----------------------------
(***************************************************************************)
(* What the onboarding tool concludes from an IAM document, and what IAM   *)
(* makes of the same document.  A trust policy is read for the workflow    *)
(* runs that can assume the role; identity policies are read for what the  *)
(* role can do.  The two readings of each are kept side by side.           *)
(*                                                                         *)
(* IAM stores no malformed document.  A wildcard is "*"; a value that names*)
(* this repository in another case is "OURS".  A subject of the immutable  *)
(* format names ours-by-id or others-by-id, which only GitHub tells apart. *)
(* Conditions of an identity policy hold together or not at all.  What can *)
(* only be warned about, and an instance's agent needs, is left out.       *)
(***************************************************************************)
EXTENDS FiniteSets

Severities == {"PASS", "WARN", "NOT VERIFIED", "FAIL"}
Outranks(s, t) == t = "PASS" \/ s = "FAIL" \/ s = t \/ (s = "NOT VERIFIED" /\ t = "WARN")
Worst(findings) == CHOOSE s \in findings \cup {"PASS"} : \A t \in findings : Outranks(s, t)
When(condition, severity) == IF condition THEN {severity} ELSE {}

-----------------------------------------------------------------------------
(* Trust.  A statement has an effect, a form the evaluator knows or not,   *)
(* principals, the actions it names, and condition entries.                *)

Contexts == {"branch", "environment", "pull_request"}
Subject(repo, context) == [repo |-> repo, context |-> context]
Subjects == [repo : {"ours", "other", "ours-by-id", "others-by-id"}, context : Contexts]
Entry(op, key, values) == [op |-> op, key |-> key, values |-> values]

IntendedContext(role, environment) ==
  IF role = "deploy" /\ environment THEN "environment" ELSE "branch"

Wild(key, v) == IF key = "aud" THEN v = "*" ELSE v.repo = "*" \/ v.context = "*"

\* One exact subject.
ClassifySubject(v, context) ==
  CASE v.repo = "ours" -> When(v.context # context, "FAIL")
    [] v.repo \in {"OURS", "ours-by-id", "others-by-id"} ->
         {"WARN"} \cup When(v.context # context, "FAIL")
    [] OTHER -> {"FAIL"}
ClassifyValue(key, v, context) ==
  IF key = "aud" THEN When(v # "sts", "FAIL") ELSE ClassifySubject(v, context)

EntryFindings(e, context) ==
  When(e.values = {}, "FAIL") \cup UNION {
    IF e.op = "StringLike" /\ Wild(e.key, v) THEN {"FAIL"}
    ELSE ClassifyValue(e.key, v, context) : v \in e.values}

\* Entries are conjoined, so one that bounds the key to exact acceptable values does.
BoundKeyAnywhere(entries, context) ==
  LET acceptable == {e \in entries :
        \E v \in e.values : "FAIL" \notin EntryFindings([e EXCEPT !.values = {v}], context)} IN
  [bounded |-> acceptable # {}, findings |-> When(acceptable = {}, "FAIL")]
BoundKey(entries, context) ==
  LET acceptable == {e \in entries : "FAIL" \notin EntryFindings(e, context)} IN
  IF acceptable = {}
  THEN [bounded |-> FALSE,
        findings |-> {"FAIL"} \cup UNION {EntryFindings(e, context) : e \in entries}]
  ELSE [bounded |-> TRUE,
        findings |-> (UNION {EntryFindings(e, context) : e \in acceptable})
                     \cup When(entries # acceptable \/ \E e \in acceptable : e.op = "StringLike",
                               "WARN")]

\* Does a value satisfy an entry?
Component(op, pattern, x) == pattern = x \/ (op = "StringLike" /\ pattern = "*")
SubSatisfies(e, s) ==
  \E v \in e.values : Component(e.op, v.repo, s.repo) /\ Component(e.op, v.context, s.context)
AudSatisfies(e, aud) == \E v \in e.values : Component(e.op, v, aud)

Supported == {"StringEquals", "StringLike"}

EvaluateOidcStatement(stmt, context) ==
  LET known == {e \in stmt.entries : e.op \in Supported}
      aud == {e \in known : e.key = "aud"}
      sub == {e \in known : e.key = "sub"}
      audience == BoundKey(aud, context)
      subject == BoundKey(sub, context)
      exact == UNION {e.values : e \in sub}
      candidates == {Subject("ours", context)}
        \cup {v \in exact : ~Wild("sub", v) /\ "FAIL" \notin ClassifySubject(v, context)} IN
  [findings |-> When(known # stmt.entries, "FAIL")
                \cup When(\E e \in known : e.key \notin {"aud", "sub"}, "WARN")
                \cup audience.findings \cup subject.findings,
   reachable |-> /\ audience.bounded /\ subject.bounded
                 /\ \A e \in aud : AudSatisfies(e, "sts")
                 /\ \E s \in candidates : \A e \in sub : SubSatisfies(e, s)]

\* The account's own principals are only pointed out.
PrincipalFindings(stmt) ==
  When("anyone" \in stmt.principals, "FAIL")
  \cup When("other-account" \in stmt.principals, "FAIL")
  \cup When("other-provider" \in stmt.principals, "FAIL")
  \cup When(stmt.principals \cap {"account", "service"} # {}, "WARN")

TrustsProvider(stmt) ==
  /\ stmt.effect = "Allow" /\ stmt.evaluated
  /\ "provider" \in stmt.principals /\ "web-identity" \in stmt.actions

StatementFindings(stmt, context) ==
  CASE ~stmt.evaluated -> {IF stmt.effect = "Deny" THEN "WARN" ELSE "FAIL"}
    [] stmt.evaluated /\ stmt.effect = "Deny" -> {"WARN"}
    [] stmt.evaluated /\ stmt.effect = "Allow" ->
         IF stmt.actions = {} THEN {}
         ELSE PrincipalFindings(stmt)
              \cup IF TrustsProvider(stmt) THEN EvaluateOidcStatement(stmt, context).findings
                   ELSE {}

EvaluateTrust(trust, context) ==
  LET ours == {stmt \in trust : TrustsProvider(stmt)}
      findings == UNION {StatementFindings(stmt, context) : stmt \in trust} IN
  IF \A stmt \in ours : ~EvaluateOidcStatement(stmt, context).reachable
  THEN findings \cup {"FAIL"} ELSE findings

\* The trust policy that the tool generates.
BuildTrust(context) ==
  {[effect |-> "Allow", evaluated |-> TRUE, principals |-> {"provider"},
    actions |-> {"web-identity"},
    entries |-> {Entry("StringEquals", "aud", {"sts"}),
                 Entry("StringEquals", "sub", {Subject("ours", context)})}]}

\* IAM: a token gets in by a statement that allows it, and by none that denies it.  What
\* the evaluator does not know of a statement or a condition may hold or not.
AdmitsToken(stmt, aud, s, other) ==
  /\ stmt.evaluated \/ other
  /\ "web-identity" \in stmt.actions /\ stmt.principals \cap {"provider", "anyone"} # {}
  /\ \A e \in stmt.entries :
       IF e.op \notin Supported \/ e.key \notin {"aud", "sub"} THEN other
       ELSE IF e.key = "aud" THEN AudSatisfies(e, aud) ELSE SubSatisfies(e, s)
Assumes(trust, aud, s, other) ==
  /\ \E stmt \in trust : stmt.effect = "Allow" /\ AdmitsToken(stmt, aud, s, other)
  /\ ~ \E stmt \in trust : stmt.effect = "Deny" /\ AdmitsToken(stmt, aud, s, other)

\* Nobody assumes the role but runs of this repository in the intended context (of the
\* right ids, which is for GitHub to say) and the account's own principals.
OnlyIntended(trust, context) ==
  /\ \A aud \in {"sts", "elsewhere"}, s \in Subjects, other \in BOOLEAN :
       Assumes(trust, aud, s, other) =>
         aud = "sts" /\ s.repo # "other" /\ s.context = context
  /\ \A stmt \in trust : stmt.effect = "Allow" /\ stmt.actions # {} =>
       stmt.principals \cap {"anyone", "other-account", "other-provider"} = {}

-----------------------------------------------------------------------------
(* Permissions.  A statement covers actions and resources, or all others.  *)

Actions == {"push", "describe", "inspect", "pull", "send", "result", "pass-role",
            "assume-role", "rewrite", "set-scanning"}
Resources == {"repository", "other-repository", "instance", "other-instance", "document",
              "other-document", "account", "self", "other-role"}
On(action, resource) == [action |-> action, resource |-> resource]

Certain == "certain"
Possible == "possible"

\* What a role is for.  Inspector is needed certainly, possibly or not at all, as the
\* registry's type of scanning is ENHANCED, unknown or BASIC.
Required(role, enhanced) ==
  CASE role = "push" ->
         {<<On("push", "repository"), Certain>>, <<On("describe", "repository"), Certain>>}
         \cup IF enhanced = "no" THEN {}
              ELSE {<<On("inspect", "account"),
                      IF enhanced = "yes" THEN Certain ELSE Possible>>}
    [] role = "deploy" ->
         {<<On("send", "instance"), Certain>>, <<On("send", "document"), Certain>>,
          <<On("result", "account"), Certain>>}
    [] role = "instance" ->
         {<<On("pull", "repository"), Certain>>}

Forbidden(role) ==
  CASE role = "push" ->
         {<<On("send", "instance"), "FAIL">>, <<On("push", "other-repository"), "FAIL">>,
          <<On("pass-role", "account"), "FAIL">>}
    [] role = "deploy" ->
         {<<On("push", "repository"), "FAIL">>, <<On("send", "other-instance"), "FAIL">>,
          <<On("send", "other-document"), "WARN">>, <<On("pass-role", "account"), "FAIL">>}
    [] role = "instance" -> {<<On("push", "repository"), "WARN">>}

\* What verify asks beyond that of every delivery role.
DeniedProbes(role) ==
  Forbidden(role) \cup
  IF role = "instance" THEN {}
  ELSE {<<On("assume-role", "other-role"), "FAIL">>, <<On("rewrite", "self"), "FAIL">>,
        <<On("set-scanning", "account"), "FAIL">>}

Covers(list, but, x) == IF but THEN x \notin list ELSE x \in list
Matches(stmt, u) ==
  /\ Covers(stmt.actions, stmt.butActions, u.action)
  /\ Covers(stmt.resources, stmt.butResources, u.resource)
Direct(stmt) == ~stmt.butActions /\ ~stmt.butResources

\* Proof needs a direct, unconditional Allow that no Deny can shadow.
GrantsPlainly(stmts, u) ==
  LET matching == {stmt \in stmts : Matches(stmt, u) /\ Direct(stmt) /\ ~stmt.conditional} IN
  CASE \E d \in matching : d.effect = "Deny" -> "denied"
    [] (\A d \in matching : d.effect # "Deny") /\ matching # {} -> "allowed"
    [] OTHER -> "not-granted"
Grants(stmts, u) ==
  LET matching == {stmt \in stmts : Matches(stmt, u)}
      denies == {stmt \in matching : stmt.effect = "Deny"}
      allows == matching \ denies IN
  IF \E d \in denies : ~d.conditional THEN "denied"
  ELSE IF denies = {} /\ \E a \in allows : Direct(a) /\ ~a.conditional THEN "allowed"
  ELSE IF allows # {} THEN "conditional" ELSE "not-granted"

Administrators(stmts) ==
  {stmt \in stmts : /\ stmt.effect = "Allow"
                    /\ IF stmt.butActions THEN stmt.butResources \/ stmt.resources = Resources
                       ELSE stmt.actions = Actions /\ ~stmt.butResources
                            /\ stmt.resources = Resources}

\* What is too broad, or cannot be told.
Breadth(role, stmts, complete) ==
  {f[2] : f \in {g \in Forbidden(role) : Grants(stmts, g[1]) \in {"allowed", "conditional"}}}
  \cup When(Administrators(stmts) # {}, "FAIL") \cup When(~complete, "NOT VERIFIED")

\* And what is missing.  `denies' are the requirements the simulator denies.
Missing(role, stmts, complete, enhanced, denies) ==
  UNION { LET decision == Grants(stmts, r[1]) IN
          CASE decision = "allowed" -> When(r[1] \in denies, "FAIL")
            [] decision = "conditional" -> {"NOT VERIFIED"}
            [] OTHER -> {IF complete /\ r[2] = Certain THEN "FAIL" ELSE "NOT VERIFIED"}
          : r \in Required(role, enhanced) }

\* The identity policy that the tool generates, a statement per resource.
RolePolicy(role, enhanced) ==
  LET units == {r[1] : r \in Required(role, enhanced)} IN
  { [effect |-> "Allow", actions |-> {u.action : u \in {v \in units : v.resource = x}},
     butActions |-> FALSE, resources |-> {x}, butResources |-> FALSE, conditional |-> FALSE] :
    x \in {u.resource : u \in units} }

\* IAM: policies, less what they deny, within the role's boundary.
Effective(role, u, held) ==
  LET applies == {stmt \in role.policies : Matches(stmt, u) /\ (stmt.conditional => held)} IN
  /\ u.action \in role.boundary
  /\ \E stmt \in applies : stmt.effect = "Allow"
  /\ ~ \E stmt \in applies : stmt.effect = "Deny"

\* simulate-principal-policy, which is given no condition's value.
Simulated(role, u) ==
  [decision |-> IF \E d \in role.policies : Matches(d, u) /\ d.effect = "Deny" /\ ~d.conditional
                THEN "explicitDeny"
                ELSE IF Effective(role, u, FALSE) THEN "allowed" ELSE "implicitDeny",
   missing |-> \E stmt \in role.policies : Matches(stmt, u) /\ stmt.conditional]

=============================================================================
