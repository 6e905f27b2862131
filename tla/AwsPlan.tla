------------------------------ MODULE AwsPlan ------------------------------
(***************************************************************************)
(* `ssd-onboard aws plan --scope repo': what is in the account is read, one*)
(* call at a time; who owns each resource is decided; an unexecuted change *)
(* set is made and described; and the plan is recorded in a directory that *)
(* `aws apply' reads later.  CloudFormation computes change sets when it   *)
(* likes, others change the account, and a run may stop at any step.       *)
(*                                                                         *)
(* The account holds the repository's one stack and the resources that a   *)
(* configuration can name.  A hash is the text it was made of, so a plan id*)
(* is its input.  A run that refuses or fails changes nothing more: it     *)
(* ends, and so does one whose unreadable answer it may not do without.    *)
(***************************************************************************)
EXTENDS Naturals, Sequences, FiniteSets

CONSTANTS Planners,      \* runs of `aws plan'
          Trees,         \* checkouts, each with its plan directories
          Clouds,        \* accounts to start from
          Configs,       \* what .ssd/onboarding.yml says when it is read
          MaxDescribes,  \* describe-change-set calls of one run
          MaxSets,       \* bound on change sets
          MaxMishaps     \* bound on what others do and on damaged directories

VARIABLES
  cloud,        \* the stack of the expected name, and the resources by name
  sets,         \* change sets, by number
  directories,  \* per checkout and plan id: the files
  planners,     \* runs of aws plan; alone and missed record what befell one
  mishaps

awsPlanVars == <<cloud, sets, directories, planners, mishaps>>

None == "none"
Keys == <<"repository", "push", "deploy">>
LogicalIds == {Keys[i] : i \in DOMAIN Keys}
RoleKeys == {"push", "deploy"}
PlanFiles == <<"template", "parameters", "change-set", "policies", "plan">>

Nowhere == [id |-> 0, status |-> "absent", tags |-> None, rev |-> 0, members |-> << >>]
NoBase == [id |-> 0, status |-> "absent", rev |-> 0]
NoThing == [exists |-> FALSE, owner |-> None, logical |-> None, sameArn |-> TRUE,
            consumer |-> None, policies |-> {}]
NoText == [written |-> FALSE]
TornText == [written |-> TRUE, torn |-> TRUE]
Text(x) == [written |-> TRUE, torn |-> FALSE, is |-> x]

\* External: an account as CloudFormation keeps it.  A stack that is not there has no
\* resources, and a resource of the stack is the one its stack names.
StackCoherent(st) ==
  /\ DOMAIN st = {"id", "status", "tags", "rev", "members"} /\ st.id \in Nat /\ st.rev \in Nat
  /\ st.status = "absent" => st.members = << >>
  /\ \A l \in DOMAIN st.members : DOMAIN st.members[l] = {"name", "version"}
  /\ \A k, l \in DOMAIN st.members \cap LogicalIds :
       st.members[k].name = st.members[l].name => k = l
ThingCoherent(thing, n, st) ==
  /\ DOMAIN thing = {"exists", "owner", "logical", "sameArn", "consumer", "policies"}
  /\ thing.owner = "ours" => /\ thing.logical \in DOMAIN st.members \cap LogicalIds
                             /\ st.members[thing.logical].name = n
Coherent(account) ==
  /\ DOMAIN account = {"stack", "things"} /\ StackCoherent(account.stack)
  /\ \A n \in DOMAIN account.things : ThingCoherent(account.things[n], n, account.stack)

\* A repository and a role are never the same resource, whatever they are called.
ASSUME AwsPlanAssumption ==
  /\ MaxDescribes \in Nat /\ MaxSets \in Nat /\ MaxMishaps \in Nat
  /\ \A account \in Clouds : Coherent(account)
  /\ \A config \in Configs :
       /\ config.managed \subseteq LogicalIds
       /\ \A k \in RoleKeys : config.names[k] # config.names["repository"]
       /\ \A account \in Clouds, k \in LogicalIds : config.names[k] \in DOMAIN account.things

NewPlanner ==
  [at |-> "idle", tree |-> None, config |-> [managed |-> {}, names |-> << >>, version |-> 0],
   base |-> NoBase, members |-> {}, next |-> 1, found |-> NoThing, owned |-> {},
   id |-> [type |-> None, base |-> NoBase, template |-> << >>], set |-> 0, polls |-> 0,
   plan |-> NoText, alone |-> TRUE, missed |-> FALSE]
EndedPlanner == [NewPlanner EXCEPT !.at = "ended"]

AwsPlanInit ==
  /\ cloud \in Clouds /\ sets = << >> /\ mishaps = 0
  /\ directories = [t \in Trees |-> << >>]
  /\ planners = [c \in Planners |-> NewPlanner]

PlannerAt(c, at) == planners[c].at = at
Becomes(c, p) == planners' = [planners EXCEPT ![c] = p]
EndsHere(c) == Becomes(c, EndedPlanner)

-----------------------------------------------------------------------------
(* What is there, and whose it is.                                         *)

Settled == {"CREATE_COMPLETE", "UPDATE_COMPLETE", "UPDATE_ROLLBACK_COMPLETE"}

\* Stack tags are ours, another consumer's, or not the framework's at all.
TaggedBySsd(tags) == tags # None
TagsProve(tags) == tags = "ours"

\* The change set to make against the stack, or None.
PlanType(st) ==
  CASE st.status = "absent" -> "CREATE"
    [] st.status = "REVIEW_IN_PROGRESS" /\ TagsProve(st.tags) -> "CREATE"
    [] st.status \in Settled /\ TagsProve(st.tags) -> "UPDATE"
    [] OTHER -> None

\* What a plan id binds of the stack.
BaseStack(st) ==
  IF st.status = "absent" THEN NoBase ELSE [id |-> st.id, status |-> st.status, rev |-> st.rev]

OwnOrUntagged(thing) == thing.consumer \in {None, "ours"}

\* A resource is owned as a physical resource of the expected stack, settled and tagged,
\* unless the tags that were read of it name another consumer.  Its name proves nothing.
EvaluateByStack(thing, st) == thing.owner = "ours" /\ st.status \in Settled
EvaluateOwnership(thing, st) ==
  /\ thing.owner = "ours" /\ st.status \in Settled /\ TagsProve(st.tags)
  /\ OwnOrUntagged(thing)

\* What is known of a resource the configuration names: nothing to object to, or not.
DiscoveredAnyway(config, key, known) == TRUE
DiscoveredEnough(config, key, known) == known \/ key \notin config.managed

EvaluateResource(config, key, thing, st, inStack) ==
  LET managed == key \in config.managed IN
  CASE ~thing.exists -> IF inStack THEN "blocked" ELSE "absent"
    [] thing.exists /\ ~thing.sameArn -> IF managed THEN "blocked" ELSE "not-owned"
    [] thing.exists /\ thing.sameArn /\ EvaluateOwnership(thing, st) ->
         IF thing.logical = key THEN "owned" ELSE "blocked"
    [] OTHER -> IF managed THEN "blocked" ELSE "not-owned"

\* An owned role may have the policy of its stack only, in a list that was read whole.
OwnPolicyRead(policies, complete) == "ours" \in policies
OwnPolicyOnly(policies, complete) == complete /\ policies \subseteq {"ours"}

Template(config) ==
  [k \in config.managed |-> [name |-> config.names[k], version |-> config.version]]

PlanIdInput(config, base) ==
  [type |-> IF base.status \in Settled THEN "UPDATE" ELSE "CREATE",
   base |-> base, template |-> Template(config)]

-----------------------------------------------------------------------------
(* A run of aws plan, up to its change set.                                *)

\* The framework, the region, the caller: a run that objects does not begin.
BeginPlan(c) ==
  /\ PlannerAt(c, "idle")
  /\ \E t \in Trees, config \in Configs :
       /\ config.names["push"] # config.names["deploy"]
       /\ Becomes(c, [NewPlanner EXCEPT !.at = "stack", !.tree = t, !.config = config])
  /\ UNCHANGED <<cloud, sets, directories, mishaps>>

ReadStack(c) ==
  /\ PlannerAt(c, "stack")
  /\ IF PlanType(cloud.stack) = None THEN EndsHere(c)
     ELSE Becomes(c, [planners[c] EXCEPT
            !.at = IF cloud.stack.status = "absent" THEN "discover" ELSE "members",
            !.base = BaseStack(cloud.stack)])
  /\ UNCHANGED <<cloud, sets, directories, mishaps>>

\* The stack may hold no resource but its three.
ListMembers(c) ==
  /\ PlannerAt(c, "members")
  /\ LET held == DOMAIN cloud.stack.members IN
     IF cloud.stack.status = "absent" \/ ~(held \subseteq LogicalIds) THEN EndsHere(c)
     ELSE Becomes(c, [planners[c] EXCEPT !.at = "discover", !.members = held])
  /\ UNCHANGED <<cloud, sets, directories, mishaps>>

\* Past the last resource: what is rendered, if anything is to be managed.
NextKey(p) ==
  IF p.next < Len(Keys) THEN [p EXCEPT !.at = "discover", !.next = @ + 1, !.found = NoThing]
  ELSE IF p.config.managed = {} THEN EndedPlanner
  ELSE [p EXCEPT !.at = "policies", !.next = 1, !.found = NoThing]

\* A role comes with its tags, a repository without.
WithItsTags(key, thing) == IF key = "repository" THEN [thing EXCEPT !.consumer = None] ELSE thing
DiscoverThing(c) ==
  /\ PlannerAt(c, "discover")
  /\ \E known \in BOOLEAN :
       LET p == planners[c]
           key == Keys[p.next]
           thing == cloud.things[p.config.names[key]] IN
       IF ~DiscoveredEnough(p.config, key, known) THEN EndsHere(c)
       ELSE Becomes(c, IF known
                       THEN [p EXCEPT !.at = IF key = "repository" /\ thing.exists
                                             THEN "tags" ELSE "locate",
                                      !.found = WithItsTags(key, thing)]
                       ELSE NextKey(p))
  /\ UNCHANGED <<cloud, sets, directories, mishaps>>

\* The repository's tags are a call of their own.  The run goes on without an answer,
\* and then knows of no tag: it may have missed that they name another consumer.
ReadTags(c) ==
  /\ PlannerAt(c, "tags")
  /\ LET p == planners[c]
         thing == cloud.things[p.config.names["repository"]] IN
     \/ /\ thing.exists
        /\ Becomes(c, [p EXCEPT !.at = "locate", !.found.consumer = thing.consumer])
     \/ Becomes(c, [p EXCEPT !.at = "locate", !.missed = ~OwnOrUntagged(thing)])
  /\ UNCHANGED <<cloud, sets, directories, mishaps>>

\* Which stack has the resource, by its name, and what that stack is now.
LocateThing(c) ==
  /\ PlannerAt(c, "locate")
  /\ LET p == planners[c]
         key == Keys[p.next]
         now == cloud.things[p.config.names[key]]
         thing == [p.found EXCEPT !.owner = now.owner, !.logical = now.logical]
         is == EvaluateResource(p.config, key, thing, cloud.stack, key \in p.members) IN
     IF is = "blocked" THEN EndsHere(c)
     ELSE Becomes(c, NextKey(IF is = "owned" THEN [p EXCEPT !.owned = @ \cup {key}] ELSE p))
  /\ UNCHANGED <<cloud, sets, directories, mishaps>>

\* The managed roles that are owned, and the slot for the plan's directory.
CheckPolicies(c) ==
  /\ PlannerAt(c, "policies")
  /\ LET p == planners[c]
         id == PlanIdInput(p.config, p.base) IN
     \E complete \in BOOLEAN :
       IF \/ \E k \in RoleKeys \cap p.config.managed \cap p.owned :
               ~OwnPolicyOnly(cloud.things[p.config.names[k]].policies, complete)
          \/ id \in DOMAIN directories[p.tree]
       THEN EndsHere(c)
       ELSE Becomes(c, [p EXCEPT !.at = "create", !.id = id, !.owned = {}, !.members = {}])
  /\ UNCHANGED <<cloud, sets, directories, mishaps>>

Held(i) == sets[i].execution # "GONE" /\ sets[i].stack = cloud.stack.id

\* CloudFormation takes a change set of an unused name and of the type that fits its
\* stack.  A new stack is a placeholder, and has none of the change set's tags yet.
Accepted(id) ==
  /\ \A i \in DOMAIN sets : Held(i) => sets[i].name # id
  /\ IF id.type = "CREATE" THEN cloud.stack.status \in {"absent", "REVIEW_IN_PROGRESS"}
     ELSE cloud.stack.status \in Settled

CreateChangeSet(c) ==
  /\ PlannerAt(c, "create") /\ Len(sets) < MaxSets
  /\ LET p == planners[c]
         placeholder == [Nowhere EXCEPT !.id = cloud.stack.id + 1,
                                        !.status = "REVIEW_IN_PROGRESS"]
         st == IF cloud.stack.status = "absent" THEN placeholder ELSE cloud.stack IN
     IF ~Accepted(p.id) THEN EndsHere(c) /\ UNCHANGED <<cloud, sets>>
     ELSE /\ cloud' = [cloud EXCEPT !.stack = st]
          /\ sets' = Append(sets, [name |-> p.id, stack |-> st.id, template |-> p.id.template,
                                   status |-> "PENDING", execution |-> "UNAVAILABLE",
                                   changes |-> {}, alone |-> p.alone, missed |-> p.missed])
          /\ Becomes(c, [p EXCEPT !.at = "describe", !.set = Len(sets) + 1])
  /\ UNCHANGED <<directories, mishaps>>

-----------------------------------------------------------------------------
(* The change set, as CloudFormation computes it and the run reads it.     *)

Change(l, action, replacement) == [logical |-> l, action |-> action, replacement |-> replacement]
Modified(members, template) ==
  {l \in DOMAIN members \cap DOMAIN template : members[l] # template[l]}
Diff(members, template, replaced) ==
  {Change(l, "Add", None) : l \in DOMAIN template \ DOMAIN members}
  \cup {Change(l, "Remove", None) : l \in DOMAIN members \ DOMAIN template}
  \cup {Change(l, "Modify", replaced) : l \in Modified(members, template)}

ComputeChangeSet(i) ==
  /\ sets[i].status = "PENDING" /\ Held(i)
  /\ LET template == sets[i].template
         members == cloud.stack.members IN
     \E replaced \in {"True", "False", "Conditional"} :
       LET changes == Diff(members, template, replaced) IN
       \/ /\ changes # {}
          /\ sets' = [sets EXCEPT ![i].status = "CREATE_COMPLETE",
                                  ![i].execution = "AVAILABLE", ![i].changes = changes]
       \/ /\ changes = {}
          /\ sets' = [sets EXCEPT ![i].status = "NO_CHANGES"]
       \/ sets' = [sets EXCEPT ![i].status = "FAILED"]
  /\ UNCHANGED <<cloud, directories, planners, mishaps>>

\* Conditional replacement counts as replacement.
ClassifyByTrue(ch) ==
  CASE ch.action = "Add" -> "CREATE" [] ch.action = "Remove" -> "DELETE"
    [] ch.action = "Modify" -> IF ch.replacement = "True" THEN "REPLACE" ELSE "UPDATE"
Classify(ch) ==
  CASE ch.action = "Add" -> "CREATE" [] ch.action = "Remove" -> "DELETE"
    [] ch.action = "Modify" -> IF ch.replacement = "False" THEN "UPDATE" ELSE "REPLACE"
Classified(changes) == {[logical |-> ch.logical, action |-> Classify(ch)] : ch \in changes}
Destructive(classified) == Cardinality({x \in classified : x.action \in {"DELETE", "REPLACE"}})
InScope(changes) == \A ch \in changes : ch.logical \in LogicalIds

Described(i) == [id |-> i, name |-> sets[i].name, stack |-> sets[i].stack,
                 status |-> sets[i].status, execution |-> sets[i].execution,
                 changes |-> sets[i].changes]

\* plan.json: what the plan id binds, and what the described change set says.
PlanRecord(p, described, outcome) ==
  LET changes == IF outcome = "changes" THEN Classified(described.changes) ELSE {} IN
  [planId |-> p.id, input |-> p.id, outcome |-> outcome, set |-> described.id,
   changes |-> changes, destructive |-> Destructive(changes),
   files |-> [template |-> Text(p.id.template), parameters |-> Text(<< >>),
              policies |-> Text("policies"), described |-> Text(described)]]

DescribeChangeSet(c) ==
  /\ PlannerAt(c, "describe")
  /\ LET p == planners[c]
         i == p.set
         outcome == IF sets[i].status = "NO_CHANGES" THEN "no-changes" ELSE "changes" IN
     CASE Held(i) /\ sets[i].status = "PENDING" /\ p.polls + 1 < MaxDescribes ->
            Becomes(c, [p EXCEPT !.polls = @ + 1])
       [] Held(i) /\ \/ sets[i].status = "NO_CHANGES"
                     \/ /\ sets[i].status = "CREATE_COMPLETE"
                        /\ sets[i].execution = "AVAILABLE" /\ InScope(sets[i].changes) ->
            Becomes(c, [p EXCEPT !.at = "directory",
                                 !.plan = Text(PlanRecord(p, Described(i), outcome))])
       [] OTHER -> EndsHere(c)
  /\ UNCHANGED <<cloud, sets, directories, mishaps>>

MakeDirectory(c) ==
  /\ PlannerAt(c, "directory")
  /\ LET p == planners[c]
         there == directories[p.tree]
         empty == [f \in {PlanFiles[i] : i \in DOMAIN PlanFiles} |-> NoText] IN
     IF p.id \in DOMAIN there THEN EndsHere(c) /\ UNCHANGED directories
     ELSE /\ directories' = [directories EXCEPT ![p.tree] =
               [i \in DOMAIN there \cup {p.id} |-> IF i = p.id THEN empty ELSE there[i]]]
          /\ Becomes(c, [p EXCEPT !.at = "write"])
  /\ UNCHANGED <<cloud, sets, mishaps>>

FileText(p, f) ==
  CASE f = "plan" -> p.plan [] f = "change-set" -> p.plan.is.files.described
    [] OTHER -> p.plan.is.files[f]

\* plan.json, which vouches for the others, is the last.
WriteFile(c) ==
  /\ PlannerAt(c, "write")
  /\ LET p == planners[c]
         f == PlanFiles[p.next] IN
     /\ directories' = [directories EXCEPT ![p.tree][p.id][f] = FileText(p, f)]
     /\ Becomes(c, IF p.next = Len(PlanFiles) THEN EndedPlanner
                   ELSE [p EXCEPT !.next = @ + 1])
  /\ UNCHANGED <<cloud, sets, mishaps>>

\* A call that ends the run, or the process being stopped.
StopsHere(c) ==
  /\ planners[c].at \notin {"idle", "ended"} /\ EndsHere(c)
  /\ UNCHANGED <<cloud, sets, directories, mishaps>>

-----------------------------------------------------------------------------
(* What aws apply makes of a directory.                                    *)

Whole(t) == t.written /\ ~t.torn

\* The local half: plan.json binds this id, and every other file is the one it vouches
\* for; the template is the one the id binds.
Unvouched(files, plan) == \A f \in DOMAIN files : files[f].written
VouchedFor(files, plan) ==
  /\ files["template"] = plan.files.template /\ files["parameters"] = plan.files.parameters
  /\ files["change-set"] = plan.files.described /\ files["policies"] = plan.files.policies
ReadPlan(files, id) ==
  /\ Whole(files["plan"])
  /\ LET plan == files["plan"].is IN
     /\ plan.planId = id /\ plan.input = id
     /\ VouchedFor(files, plan) /\ plan.files.template = Text(id.template)
     /\ plan.outcome = "changes"

\* The record agrees with itself: the described change set is this plan's, on its base
\* stack, executable when it was described, and plan.json's account of it is true.
CheckPlanRecord(files) ==
  LET plan == files["plan"].is
      base == plan.input.base IN
  /\ Whole(files["change-set"])
  /\ LET d == files["change-set"].is IN
     /\ IF plan.input.type = "UPDATE" THEN base.status \in Settled
        ELSE base.status \in {"absent", "REVIEW_IN_PROGRESS"}
     /\ d.status = "CREATE_COMPLETE" /\ d.execution = "AVAILABLE"
     /\ d.name = plan.planId /\ d.id = plan.set
     /\ base.status # "absent" => base.id = d.stack
     /\ InScope(d.changes) /\ d.changes # {}
     /\ plan.changes = Classified(d.changes) /\ plan.destructive = Destructive(plan.changes)

Sound(t, id) == ReadPlan(directories[t][id], id) /\ CheckPlanRecord(directories[t][id])

\* The live half: the change set is still the recorded one, and the stack its base.
CompareChangeSet(d) == Held(d.id) /\ Described(d.id) = d
CheckStackByStatus(input, d) ==
  /\ cloud.stack.id = d.stack
  /\ IF input.type = "CREATE" THEN cloud.stack.status = "REVIEW_IN_PROGRESS"
     ELSE TagsProve(cloud.stack.tags) /\ cloud.stack.status \in Settled
CheckStack(input, d) ==
  /\ cloud.stack.id = d.stack
  /\ IF input.type = "CREATE"
     THEN /\ cloud.stack.tags = None \/ TagsProve(cloud.stack.tags)
          /\ cloud.stack.status = "REVIEW_IN_PROGRESS"
          /\ input.base.status # "absent" => cloud.stack.rev = input.base.rev
     ELSE /\ TagsProve(cloud.stack.tags) /\ cloud.stack.status \in Settled
          /\ cloud.stack.status = input.base.status /\ cloud.stack.rev = input.base.rev

Executes(t, id) ==
  Sound(t, id) /\ LET d == directories[t][id]["change-set"].is IN
                  CompareChangeSet(d) /\ CheckStack(id, d)

Disturb ==
  /\ planners' = [c \in Planners |-> [planners[c] EXCEPT !.alone = (planners[c].at = "idle")]]

\* Under the configuration it was made from, the one choice that may refuse.
\* CloudFormation executes it: what it creates, a new name included, must not exist, what
\* leaves the stack is kept, and the stack's other change sets are gone.
ExecutePlan(t, id) ==
  /\ id \in DOMAIN directories[t] /\ Executes(t, id)
  /\ LET template == id.template
         d == directories[t][id]["change-set"].is
         members == cloud.stack.members
         taken == {template[l].name : l \in {k \in DOMAIN template :
                     k \in DOMAIN members => members[k].name # template[k].name}} IN
     /\ cloud' =
          IF \E n \in taken : cloud.things[n].exists
          THEN [cloud EXCEPT !.stack.status = IF id.type = "CREATE" THEN "ROLLBACK_COMPLETE"
                                              ELSE "UPDATE_ROLLBACK_COMPLETE",
                             !.stack.tags = "ours", !.stack.rev = @ + 1]
          ELSE [stack |-> [cloud.stack EXCEPT
                             !.status = IF id.type = "CREATE" THEN "CREATE_COMPLETE"
                                        ELSE "UPDATE_COMPLETE",
                             !.tags = "ours", !.rev = @ + 1, !.members = template],
                things |-> [n \in DOMAIN cloud.things |->
                  LET mine == {l \in DOMAIN template : template[l].name = n} IN
                  IF n \in taken
                  THEN [NoThing EXCEPT !.exists = TRUE, !.owner = "ours", !.consumer = "ours",
                          !.logical = CHOOSE l \in mine : TRUE, !.policies = {"ours"}]
                  ELSE IF cloud.things[n].owner = "ours" /\ mine = {}
                  THEN [cloud.things[n] EXCEPT !.owner = None, !.logical = None]
                  ELSE cloud.things[n]]]
     /\ sets' = [i \in DOMAIN sets |->
                   IF i # d.id /\ ~Held(i) THEN sets[i]
                   ELSE [sets[i] EXCEPT !.alone = FALSE,
                           !.execution = IF i = d.id THEN "EXECUTED" ELSE "GONE"]]
  /\ Disturb /\ UNCHANGED <<directories, mishaps>>

-----------------------------------------------------------------------------
(* Others.                                                                 *)

Mishap == mishaps < MaxMishaps /\ mishaps' = mishaps + 1

\* They update the stack, delete it, make a resource, or attach a policy to a role.
OthersCloud ==
  { [cloud EXCEPT !.stack.rev = @ + 1, !.stack.status = "UPDATE_COMPLETE", !.stack.members = m] :
      m \in IF cloud.stack.status \notin Settled THEN {}
            ELSE { [l \in DOMAIN cloud.stack.members \cup {"Stray"} |->
                      IF l = "Stray" THEN [name |-> "stray", version |-> 0]
                      ELSE cloud.stack.members[l]],
                   [l \in DOMAIN cloud.stack.members |->
                      [cloud.stack.members[l] EXCEPT !.version = 0]] } }
  \cup (IF cloud.stack.status = "absent" THEN {}
        ELSE {[stack |-> [Nowhere EXCEPT !.id = cloud.stack.id],
               things |-> [n \in DOMAIN cloud.things |->
                 [cloud.things[n] EXCEPT !.owner = IF @ = "ours" THEN None ELSE @]]]})
  \cup { [cloud EXCEPT !.things[n].exists = TRUE] :
           n \in {m \in DOMAIN cloud.things : ~cloud.things[m].exists} }
  \cup { [cloud EXCEPT !.things[n].policies = @ \cup {"extra"}] :
           n \in {m \in DOMAIN cloud.things : cloud.things[m].policies # {}} }

OthersChangeCloud ==
  /\ Mishap /\ cloud' \in OthersCloud
  /\ sets' = [i \in DOMAIN sets |->
                [sets[i] EXCEPT !.alone = FALSE,
                                !.execution = IF cloud'.stack.status = "absent" THEN "GONE" ELSE @]]
  /\ Disturb /\ UNCHANGED directories

\* A file of a plan's directory is damaged, or replaced by the same file of another.
DamageDirectory(t) ==
  /\ Mishap
  /\ \E id, other \in DOMAIN directories[t], f \in {"template", "change-set", "plan"} :
       \/ directories' = [directories EXCEPT ![t][id][f] = directories[t][other][f]]
       \/ directories' = [directories EXCEPT ![t][id][f] = TornText]
  /\ UNCHANGED <<cloud, sets, planners>>

PlanStep(c) ==
  \/ BeginPlan(c) \/ ReadStack(c) \/ ListMembers(c) \/ DiscoverThing(c) \/ ReadTags(c)
  \/ LocateThing(c) \/ CheckPolicies(c) \/ CreateChangeSet(c) \/ DescribeChangeSet(c)
  \/ MakeDirectory(c) \/ WriteFile(c) \/ StopsHere(c)

AwsPlanNext ==
  \/ \E c \in Planners : PlanStep(c)
  \/ \E i \in DOMAIN sets : ComputeChangeSet(i)
  \/ \E t \in Trees : DamageDirectory(t) \/ \E id \in DOMAIN directories[t] : ExecutePlan(t, id)
  \/ OthersChangeCloud

AwsPlanSpec == AwsPlanInit /\ [][AwsPlanNext]_awsPlanVars

-----------------------------------------------------------------------------
(* Properties.                                                             *)

\* Unless others change the account during the run, a plan's change set creates only
\* what does not exist, and changes only resources of the stack that carries this
\* repository's tags, with no policy the reviewed template does not show.  A name, an
\* unreadable stack or resource, or a half-read list is never taken for ownership or for
\* absence; a resource whose own tags name another consumer is left alone, except for a
\* repository whose tags were not answered: then the stack alone decides (stacks.mjs:103).
PlannedOverOwned ==
  [][\A i \in DOMAIN sets :
       sets[i].alone /\ sets[i].status # "CREATE_COMPLETE"
         /\ sets'[i].status = "CREATE_COMPLETE" =>
       \A ch \in sets'[i].changes :
         LET l == ch.logical IN
         /\ l \in LogicalIds
         /\ IF ch.action = "Add" THEN ~cloud.things[sets[i].template[l].name].exists
            ELSE LET thing == cloud.things[cloud.stack.members[l].name] IN
                 /\ cloud.stack.tags = "ours"
                 /\ ch.action = "Modify" =>
                      /\ thing.exists /\ thing.owner = "ours" /\ thing.logical = l
                      /\ OwnOrUntagged(thing) \/ (l = "repository" /\ sets[i].missed)
                      /\ l \in RoleKeys => thing.policies \subseteq {"ours"}
    ]_awsPlanVars

\* A directory that passes aws apply's local checks describes a change set that was made
\* for its very plan id, with its template and no fewer destructive changes than it may
\* make; and if the live checks pass as well, executing it does to the stack of this
\* moment what was reviewed, whatever was planned, applied, damaged or changed meanwhile.
RecordedPlanIsReal ==
  \A t \in Trees : \A id \in DOMAIN directories[t] : Sound(t, id) =>
    LET plan == directories[t][id]["plan"].is
        s == sets[plan.set] IN
    /\ s.name = id /\ directories[t][id]["template"] = Text(s.template)
    /\ plan.changes = Classified(s.changes)
    /\ plan.destructive >= Cardinality({ch \in s.changes :
         ch.action = "Remove" \/ ch.replacement \in {"True", "Conditional"}})
    /\ Executes(t, id) =>
         LET members == cloud.stack.members IN
         \E replaced \in {"True", "False", "Conditional"} :
           s.changes = Diff(members, s.template, replaced)

=============================================================================
