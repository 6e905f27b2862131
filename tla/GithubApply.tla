----------------------------- MODULE GithubApply ----------------------------
(***************************************************************************)
(* ssd-onboard github plan and github apply (onboarding/github/plan.mjs,   *)
(* apply.mjs, record.mjs): reviewed plans of one change to a repository's  *)
(* settings, kept in the checkout, and their application, once, after the  *)
(* plan has been derived again from what GitHub then reports.  Several     *)
(* commands run at the same time, in one checkout or in several, others    *)
(* change the repository meanwhile, and requests fail in every way.        *)
(*                                                                         *)
(* A plan's id is the hash of its input, and is modelled by the input.     *)
(* The reads of one derivation are one step.  A fault is a crash, a failed *)
(* read, a failed or doubtful request, or an edited plan.                  *)
(***************************************************************************)
EXTENDS GithubGovernance

CONSTANTS
  Commands,       \* invocations of the command line
  Clones,         \* checkouts of the repository
  Repositories,   \* settings of the repository
  OthersSettings, \* what others change them to
  Checkouts,      \* what the checkouts say
  MaxEdits,       \* bound on changes by others
  MaxHubFaults    \* bound on faults

RepositoryFields == {"slug", "id", "defaultBranch", "archived", "permissions", "unread",
                     "rulesets", "classic", "secrets", "owners"}
RulesetFields == {"id", "org", "name", "enforcement", "bypass", "ref", "pull", "checks",
                  "others", "hidden", "listed", "userBypass"}

\* Rulesets have ids of their own, and GitHub has another for the next one.
Repository(h) ==
  /\ DOMAIN h = RepositoryFields /\ IsFiniteSet(h.rulesets)
  /\ \A r \in h.rulesets :
       /\ DOMAIN r = RulesetFields
       /\ r.id \in Nat /\ r.id < 10 + Cardinality(h.rulesets)
       /\ \A s \in h.rulesets : r.id = s.id => r = s
       /\ PullProvides(r) \subseteq PullRequirements
  /\ h.classic.state = "present" => h.classic.value.reqs \subseteq PullRequirements

ASSUME GithubAssumption ==
  /\ MaxEdits \in Nat /\ MaxHubFaults \in Nat
  /\ \A h \in Repositories \cup OthersSettings : Repository(h)
  /\ \A all \in Checkouts : DOMAIN all = Clones

VARIABLES
  hub,         \* the repository on GitHub
  checkouts,   \* per clone: its configuration and origin
  slots,       \* per clone: .ssd/github-plans, a directory per plan
  commands,    \* per command: the step it is at, and what it knows
  changes,     \* the changes made on GitHub, by command
  edits,       \* changes by others so far
  hubFaults    \* faults so far

hubVars == <<hub, checkouts, slots, commands, changes, edits, hubFaults>>

Idle == [step |-> "idle", outcome |-> "none"]

NewSlot(input, plan) ==
  [input |-> input, plan |-> plan, started |-> FALSE, finished |-> FALSE]

\* Plans that were recorded earlier, for these settings, in each clone of one state.
Recorded(all, h) ==
  {{}} \cup
  {{NewSlot(derived.input, "intact")} : derived \in
     {d \in {DerivePlan(all[k], h, scope, "plan") :
               k \in Clones, scope \in {"secrets", "protection"}} : d.input # NoInput}}

HubInit ==
  /\ hub \in Repositories
  /\ checkouts \in Checkouts
  /\ \E plans \in Recorded(checkouts, hub) : slots = [k \in Clones |-> plans]
  /\ commands = [c \in Commands |-> Idle]
  /\ changes = {} /\ edits = 0 /\ hubFaults = 0

HubFault == hubFaults < MaxHubFaults /\ hubFaults' = hubFaults + 1
NoHubFault == UNCHANGED hubFaults

At(c, step) == commands[c].step = step
Goes(c, step) == commands' = [commands EXCEPT ![c].step = step]
Ends(c, outcome) == commands' = [commands EXCEPT ![c].step = "ended", ![c].outcome = outcome]

SlotOf(k, input) == CHOOSE s \in slots[k] : s.input = input
HasSlot(k, input) == \E s \in slots[k] : s.input = input
SetSlot(k, slot) ==
  slots' = [slots EXCEPT ![k] = {s \in @ : s.input # slot.input} \cup {slot}]

-----------------------------------------------------------------------------
(* github plan.                                                            *)

PlanOutcome(derived, scope) ==
  CASE derived.blocked -> "BLOCKED"
    [] ~derived.blocked /\ derived.notVerified -> "NOT_VERIFIED"
    [] OTHER -> derived.status

\* Why there is nothing to record, if so.
Unplanned(checkout, derived, scope) ==
  CASE ~FrameworkBound(checkout.config) -> "BLOCKED"
    [] FrameworkBound(checkout.config) /\ scope = "secrets" /\ ~checkout.config.slack ->
         "NOTHING_TO_PLAN"
    [] OTHER -> IF derived.blocked \/ derived.input = NoInput THEN PlanOutcome(derived, scope)
                ELSE "none"

\* A directory that is there already is the same plan only if it is whole and untouched.
Plan(c, k, scope) ==
  LET derived == DerivePlan(checkouts[k], hub, scope, "plan")
      unplanned == Unplanned(checkouts[k], derived, scope)
      ended(outcome) == commands' = [commands EXCEPT ![c] =
                                       [step |-> "ended", outcome |-> outcome]]
      same == SlotOf(k, derived.input) = NewSlot(derived.input, "intact")
  IN /\ At(c, "idle")
     /\ \/ unplanned # "none" /\ ended(unplanned) /\ UNCHANGED slots
        \/ /\ unplanned = "none" /\ HasSlot(k, derived.input)
           /\ ended(IF same THEN "PLANNED" ELSE "ERROR") /\ UNCHANGED slots
        \/ /\ unplanned = "none" /\ ~HasSlot(k, derived.input)
           /\ SetSlot(k, NewSlot(derived.input, "unwritten"))
           /\ commands' = [commands EXCEPT ![c] = [step |-> "write-plan", outcome |-> "none",
                                                   clone |-> k, input |-> derived.input]]
     /\ UNCHANGED <<hub, checkouts, changes, edits, hubFaults>>

\* The directory was made exclusively; only its maker writes the plan.
WritePlan(c) ==
  /\ At(c, "write-plan") /\ Ends(c, "PLANNED")
  /\ SetSlot(commands[c].clone,
       [SlotOf(commands[c].clone, commands[c].input) EXCEPT !.plan = "intact"])
  /\ UNCHANGED <<hub, checkouts, changes, edits, hubFaults>>

-----------------------------------------------------------------------------
(* github apply.                                                           *)

\* Everything that can be refused without asking GitHub.
Applicable(k, slot) ==
  /\ slot.plan = "intact" /\ ~slot.started /\ ~slot.finished
  /\ slot.input.config = checkouts[k].config
  /\ FrameworkBound(checkouts[k].config)
  /\ slot.input.scope = "secrets" => checkouts[k].config.slack

\* The configuration is read here, once.
Apply(c, k) ==
  /\ At(c, "idle")
  /\ \E slot \in slots[k] :
       commands' = [commands EXCEPT ![c] =
         [step |-> IF Applicable(k, slot) THEN "recheck" ELSE "ended",
          outcome |-> IF Applicable(k, slot) THEN "none" ELSE "REFUSED",
          clone |-> k, input |-> slot.input, checkout |-> checkouts[k], seen |-> hub,
          execution |-> "none", verified |-> FALSE]]
  /\ UNCHANGED <<hub, checkouts, slots, changes, edits, hubFaults>>

Derived(c) == DerivePlan(commands[c].checkout, hub, commands[c].input.scope, "apply")

\* A bug to check the properties against: the plan is not compared again before the change.
RecheckOnce(c) ==
  LET derived == Derived(c)
  IN /\ commands[c].step \in {"recheck", "recheck-again"}
     /\ \/ /\ commands[c].step = "recheck" => ~derived.blocked /\ derived.input = commands[c].input
           /\ commands' = [commands EXCEPT ![c].seen = hub,
                ![c].step = IF @ = "recheck" THEN "confirm" ELSE "start"]
           /\ NoHubFault
        \/ /\ derived.blocked \/ derived.input # commands[c].input
           /\ Ends(c, "REFUSED") /\ NoHubFault
        \/ Ends(c, "ERROR") /\ HubFault
     /\ UNCHANGED <<hub, checkouts, slots, changes, edits>>

\* Live state must give this very plan: before the confirmation, and after it and the
\* reading of the secret.  A read that fails for good ends the command.
Recheck(c) ==
  LET derived == Derived(c)
  IN /\ commands[c].step \in {"recheck", "recheck-again"}
     /\ \/ /\ ~derived.blocked /\ derived.input = commands[c].input
           /\ commands' = [commands EXCEPT ![c].seen = hub,
                ![c].step = IF @ = "recheck" THEN "confirm" ELSE "start"]
           /\ NoHubFault
        \/ /\ derived.blocked \/ derived.input # commands[c].input
           /\ Ends(c, "REFUSED") /\ NoHubFault
        \/ Ends(c, "ERROR") /\ HubFault
     /\ UNCHANGED <<hub, checkouts, slots, changes, edits>>

\* The operator types the repository, or not; a secret is read, or its input refused.
Confirm(c) ==
  /\ At(c, "confirm")
  /\ Goes(c, "recheck-again") \/ Ends(c, "REFUSED")
  /\ UNCHANGED <<hub, checkouts, slots, changes, edits, hubFaults>>

\* A bug to check the properties against: a mark that is there already is no obstacle.
StartedAgain(c) ==
  LET k == commands[c].clone
      slot == SlotOf(k, commands[c].input)
  IN /\ At(c, "start")
     /\ SetSlot(k, [slot EXCEPT !.started = TRUE]) /\ Goes(c, "send")
     /\ UNCHANGED <<hub, checkouts, changes, edits, hubFaults>>

\* apply-started.json is created exclusively.
Start(c) ==
  LET k == commands[c].clone
      slot == SlotOf(k, commands[c].input)
  IN /\ At(c, "start")
     /\ IF slot.started THEN Ends(c, "ERROR") /\ UNCHANGED slots
        ELSE SetSlot(k, [slot EXCEPT !.started = TRUE]) /\ Goes(c, "send")
     /\ UNCHANGED <<hub, checkouts, changes, edits, hubFaults>>

Changed(c) == c \in {x.by : x \in changes}

\* External: what the request does on GitHub.  A secret's new time is that of the change.
Executed(h, c) ==
  LET input == commands[c].input
      stamp == Cardinality(changes) + edits + 1
  IN IF input.scope = "secrets"
     THEN [h EXCEPT !.secrets = [n \in DOMAIN @ \cup {input.operation.name} |->
            CASE n = input.operation.name /\ n \in DOMAIN @ ->
                   [created |-> @[n].created, updated |-> stamp]
              [] n = input.operation.name /\ n \notin DOMAIN @ ->
                   [created |-> stamp, updated |-> stamp]
              [] n # input.operation.name -> @[n]]]
     ELSE LET body == input.operation.body
          IN [h EXCEPT !.rulesets = @ \cup
               {[id |-> 10 + Cardinality(@), org |-> FALSE, name |-> body.name,
                 enforcement |-> body.enforcement, bypass |-> body.bypass, ref |-> body.ref,
                 pull |-> body.pull, checks |-> body.checks, others |-> body.others,
                 hidden |-> FALSE, listed |-> TRUE, userBypass |-> "never"]}]

TakesEffect(c) ==
  /\ hub' = Executed(hub, c)
  /\ changes' = changes \cup {[by |-> c, clone |-> commands[c].clone,
                               input |-> commands[c].input]}

\* A bug to check the properties against: any answer that is no success is a refusal.
KnownIfAnswered(answer) == answer \in {"refused", "4xx", "5xx"}
OutcomeKnown(answer) == answer \in {"refused", "4xx"}

\* The one request: accepted, refused, or in doubt (a 5xx, no answer, one unreadable).
Send(c) ==
  /\ At(c, "send")
  /\ \/ /\ TakesEffect(c) /\ NoHubFault
        /\ commands' = [commands EXCEPT ![c].step = "observe", ![c].execution = "accepted"]
     \/ \E answer \in {"refused", "4xx", "5xx", "none"} :
          /\ HubFault
          /\ \/ UNCHANGED <<hub, changes>>
             \/ answer \in {"5xx", "none"} /\ TakesEffect(c)
          /\ commands' = [commands EXCEPT ![c].step = "record", ![c].outcome = "APPLY_FAILED",
               ![c].execution = IF OutcomeKnown(answer) THEN "known-failed" ELSE "unknown"]
  /\ UNCHANGED <<checkouts, slots, edits>>

\* Whether GitHub now shows the change; a read that fails only leaves it unobserved.
Observe(c) ==
  LET input == commands[c].input
      after == Secret(hub, input.operation.name)
      before == Secret(commands[c].seen, input.operation.name)
      observed ==
        IF input.scope = "secrets"
        THEN /\ after.state = "present"
             /\ before.state = "absent" \/ after.value.updated # before.value.updated
        ELSE /\ ~IdentityBlocks(commands[c].checkout, hub, "apply")
             /\ Governance(Discovered(hub)) = "satisfied"
  IN /\ At(c, "observe")
     /\ \E v \in {observed, FALSE} :
          /\ IF v = observed THEN NoHubFault ELSE HubFault
          /\ commands' = [commands EXCEPT ![c].step = "record", ![c].outcome = "APPLIED",
                                          ![c].verified = v]
     /\ UNCHANGED <<hub, checkouts, slots, changes, edits>>

\* apply.json; that it could not be written is only a warning.
RecordOutcome(c) ==
  LET k == commands[c].clone
      slot == SlotOf(k, commands[c].input)
  IN /\ At(c, "record") /\ Goes(c, "ended")
     /\ \/ SetSlot(k, [slot EXCEPT !.finished = TRUE]) /\ NoHubFault
        \/ UNCHANGED slots /\ HubFault
     /\ UNCHANGED <<hub, checkouts, changes, edits>>

-----------------------------------------------------------------------------
(* Everybody else.                                                         *)

Crash(c) ==
  /\ commands[c].step \notin {"idle", "ended", "crashed"}
  /\ Goes(c, "crashed") /\ HubFault
  /\ UNCHANGED <<hub, checkouts, slots, changes, edits>>

\* Others change the settings; a secret they set has a new time.
OthersChange ==
  /\ edits < MaxEdits /\ edits' = edits + 1
  /\ \/ \E h \in OthersSettings : hub' = [h EXCEPT !.secrets = hub.secrets]
     \/ \E n \in DOMAIN hub.secrets :
          hub' = [hub EXCEPT !.secrets[n].updated = Cardinality(changes) + edits + 1]
  /\ UNCHANGED <<checkouts, slots, commands, changes, hubFaults>>

\* Someone edits the configuration, or a plan that was reviewed.
EditClone(k) ==
  /\ HubFault
  /\ \/ \E all \in Checkouts : checkouts' = [checkouts EXCEPT ![k] = all[k]] /\ UNCHANGED slots
     \/ \E s \in slots[k] : SetSlot(k, [s EXCEPT !.plan = "edited"]) /\ UNCHANGED checkouts
  /\ UNCHANGED <<hub, commands, changes, edits>>

HubNext ==
  \/ \E c \in Commands, k \in Clones :
       Apply(c, k) \/ \E scope \in {"secrets", "protection"} : Plan(c, k, scope)
  \/ \E c \in Commands :
       \/ WritePlan(c) \/ Recheck(c) \/ Confirm(c) \/ Start(c) \/ Send(c)
       \/ Observe(c) \/ RecordOutcome(c) \/ Crash(c)
  \/ OthersChange
  \/ \E k \in Clones : EditClone(k)

HubSpec == HubInit /\ [][HubNext]_hubVars

-----------------------------------------------------------------------------
(* Properties.                                                             *)

Actors == {"admin", "team", "anyone"}

\* Read from the settings themselves, whatever the token is shown: whoever merges into
\* the branch, each requirement is demanded of them by something they cannot bypass.
Governed(h) ==
  \A a \in Actors, q \in Requirements :
    \/ \E r \in Applying(h) :
         /\ a \notin r.bypass
         /\ IF q = "status-check" THEN \E x \in Checks(r) : x.app = ActionsApp
                                                          /\ x.context = RequiredCheck
            ELSE q \in PullProvides(r)
    \/ /\ h.classic.state = "present"
       /\ a \notin h.classic.value.allowances /\ (a = "admin" => h.classic.value.enforceAdmins)
       /\ IF q = "status-check" THEN [context |-> RequiredCheck, app |-> ActionsApp]
                                       \in h.classic.value.checks
          ELSE q \in h.classic.value.reqs

Concludes(c, outcome) == commands[c].outcome # outcome /\ commands'[c].outcome = outcome

\* A plan says that governance is complete, and an apply that it has observed it, only
\* when the settings really bind everyone; and a ruleset that GitHub accepts closes the
\* whole gap, unless others changed the settings after the command's last look.
GovernanceIsReal ==
  [][\A c \in Commands :
       /\ Concludes(c, "COMPLIANT") => Governed(hub)
       /\ Concludes(c, "APPLIED") /\ commands[c].input.scope = "protection" =>
            (commands'[c].verified => Governed(hub))
       /\ At(c, "send") /\ commands[c].input.scope = "protection" /\ commands[c].seen = hub =>
            (commands'[c].execution = "accepted" => Governed(hub'))]_hubVars

\* A checkout's plan changes GitHub at most once, whatever crashes and however many
\* commands apply it.  What changes GitHub is what was reviewed, made for the settings as
\* they were reviewed: at its last look nothing that the plan shows its reviewer had
\* changed.  And a command's report is true: applied means made, and a failure that is
\* said to be known means not made.
ChangedOnceAsReviewed ==
  /\ \A x, y \in changes : x.clone = y.clone /\ x.input = y.input => x = y
  /\ \A x \in changes :
       LET r == commands[x.by]
       IN /\ HasSlot(x.clone, x.input) /\ SlotOf(x.clone, x.input).started
          /\ r.checkout.config = x.input.config
          /\ r.seen.id = x.input.repository.id
          /\ x.input.scope = "protection" => Discovered(r.seen) = x.input.observed
          /\ x.input.scope = "secrets" =>
               Secret(r.seen, x.input.operation.name) = x.input.observed
  /\ \A c \in Commands :
       /\ commands[c].outcome = "APPLIED" => Changed(c)
       /\ commands[c].outcome = "APPLY_FAILED" /\ commands[c].execution = "known-failed"
            => ~Changed(c)

=============================================================================
