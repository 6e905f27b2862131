-------------------------- MODULE OnboardingProofs --------------------------
(***************************************************************************)
(* What onboarding changes is what somebody reviewed: the settings of the  *)
(* repository on GitHub, the accepted baseline of a checkout, and the      *)
(* stack of its AWS account; for any number of commands, checkouts and     *)
(* faults.                                                                 *)
(***************************************************************************)
EXTENDS GithubApply, Rollout, AwsPlan, FiniteSetTheorems, SequenceTheorems, TLAPS

-----------------------------------------------------------------------------
(* Records of which a step changes some fields.                            *)

Keeps(r, r2, fields) == DOMAIN r2 = DOMAIN r /\ \A f \in DOMAIN r \ fields : r2[f] = r[f]

\* One command moves, and the rest of what it knows stays.
OnlyMoves(c, fields) ==
  /\ DOMAIN commands' = DOMAIN commands
  /\ \A d \in DOMAIN commands \ {c} : commands'[d] = commands[d]
  /\ Keeps(commands[c], commands'[c], fields)

LEMMA Goes1 ==
  ASSUME NEW c \in DOMAIN commands, "step" \in DOMAIN commands[c], NEW step, Goes(c, step)
  PROVE  OnlyMoves(c, {"step"}) /\ commands'[c].step = step
BY DEF Goes, OnlyMoves, Keeps

LEMMA Sees2 ==
  ASSUME NEW c \in DOMAIN commands, NEW v, NEW w, {"seen", "step"} \subseteq DOMAIN commands[c],
         commands' = [commands EXCEPT ![c].seen = v, ![c].step = w]
  PROVE  OnlyMoves(c, {"seen", "step"}) /\ commands'[c].seen = v /\ commands'[c].step = w
<1>1. commands'[c] = [[commands[c] EXCEPT !.seen = v] EXCEPT !.step = w]
  OBVIOUS
<1>2. QED
  BY <1>1 DEF OnlyMoves, Keeps

LEMMA Executes2 ==
  ASSUME NEW c \in DOMAIN commands, NEW v, NEW w,
         {"step", "execution"} \subseteq DOMAIN commands[c],
         commands' = [commands EXCEPT ![c].step = v, ![c].execution = w]
  PROVE  /\ OnlyMoves(c, {"step", "execution"})
         /\ commands'[c].step = v /\ commands'[c].execution = w
<1>1. commands'[c] = [[commands[c] EXCEPT !.step = v] EXCEPT !.execution = w]
  OBVIOUS
<1>2. QED
  BY <1>1 DEF OnlyMoves, Keeps

LEMMA Ends2 ==
  ASSUME NEW c \in DOMAIN commands, {"step", "outcome"} \subseteq DOMAIN commands[c],
         NEW outcome, Ends(c, outcome)
  PROVE  /\ OnlyMoves(c, {"step", "outcome"})
         /\ commands'[c].step = "ended" /\ commands'[c].outcome = outcome
<1>1. commands'[c] = [[commands[c] EXCEPT !.step = "ended"] EXCEPT !.outcome = outcome]
  BY DEF Ends
<1>2. QED
  BY <1>1 DEF Ends, OnlyMoves, Keeps

LEMMA Executes3 ==
  ASSUME NEW c \in DOMAIN commands, NEW v, NEW w, NEW x,
         {"step", "outcome", "execution"} \subseteq DOMAIN commands[c],
         commands' = [commands EXCEPT ![c].step = v, ![c].outcome = w, ![c].execution = x]
  PROVE  /\ OnlyMoves(c, {"step", "outcome", "execution"})
         /\ commands'[c].step = v /\ commands'[c].outcome = w /\ commands'[c].execution = x
<1>1. commands'[c] = [[[commands[c] EXCEPT !.step = v] EXCEPT !.outcome = w] EXCEPT !.execution = x]
  OBVIOUS
<1>2. QED
  BY <1>1 DEF OnlyMoves, Keeps

LEMMA Verifies3 ==
  ASSUME NEW c \in DOMAIN commands, NEW v, NEW w, NEW x,
         {"step", "outcome", "verified"} \subseteq DOMAIN commands[c],
         commands' = [commands EXCEPT ![c].step = v, ![c].outcome = w, ![c].verified = x]
  PROVE  /\ OnlyMoves(c, {"step", "outcome", "verified"})
         /\ commands'[c].step = v /\ commands'[c].outcome = w /\ commands'[c].verified = x
<1>1. commands'[c] = [[[commands[c] EXCEPT !.step = v] EXCEPT !.outcome = w] EXCEPT !.verified = x]
  OBVIOUS
<1>2. QED
  BY <1>1 DEF OnlyMoves, Keeps

-----------------------------------------------------------------------------
(* A plan is applied once, for what it was reviewed for.                   *)

Has(k, input) == \E s \in slots[k] : s.input = input
StartedSlot(k, input) == \E s \in slots[k] : s.input = input /\ s.started = TRUE

\* Steps from which nothing was sent yet, and those that follow the first look.
Unsent == {"idle", "write-plan", "recheck", "confirm", "recheck-again", "start", "send"}
Looked == {"confirm", "recheck-again", "start", "send", "observe", "record"}

ApplyFields ==
  {"step", "outcome", "clone", "input", "checkout", "seen", "execution", "verified"}

\* What the command knows is what the plan says, for the settings it saw.
Reviewed(r) ==
  /\ r.input # NoInput
  /\ DerivePlan(r.checkout, r.seen, r.input.scope, "apply").input = r.input
  /\ r.checkout.config = r.input.config

SlotsTyped ==
  /\ DOMAIN slots = Clones
  /\ \A k \in Clones : \A s \in slots[k] :
       /\ DOMAIN s = {"input", "plan", "started", "finished"} /\ s.input # NoInput
       /\ s.started \in BOOLEAN
       /\ \A t \in slots[k] : s.input = t.input => s = t

CommandOk(c, r) ==
  /\ {"step", "outcome"} \subseteq DOMAIN r
  /\ r.step \in {"idle", "write-plan", "recheck", "ended", "crashed"} \cup Looked
  /\ r.step \notin {"idle", "ended", "crashed"} =>
       {"clone", "input"} \subseteq DOMAIN r /\ r.clone \in Clones /\ Has(r.clone, r.input)
  /\ r.step \in {"recheck"} \cup Looked =>
       DOMAIN r = ApplyFields /\ r.input # NoInput /\ r.checkout.config = r.input.config
  /\ r.step \in Looked => Reviewed(r)
  /\ r.step \in Unsent => ~Changed(c)
  /\ r.step \in Unsent \cup {"observe"} => r.outcome = "none"
  /\ r.step \in Unsent \cap ({"recheck"} \cup Looked) => r.execution = "none"
  /\ r.step = "send" => StartedSlot(r.clone, r.input)
  /\ r.step = "observe" \/ r.outcome = "APPLIED" => Changed(c)
  /\ r.outcome = "APPLY_FAILED" /\ r.execution = "known-failed" => ~Changed(c)

ChangeOk(x) ==
  /\ x.by \in Commands /\ x.clone \in Clones /\ StartedSlot(x.clone, x.input)
  /\ commands[x.by].step \notin Unsent
  /\ DOMAIN commands[x.by] = ApplyFields
  /\ commands[x.by].clone = x.clone /\ commands[x.by].input = x.input
  /\ DOMAIN x = {"by", "clone", "input"} /\ Reviewed(commands[x.by])

\* Whoever is about to send has the plan to itself, and nobody sent it before.
AloneAt(c) ==
  /\ \A d \in Commands : commands[d].step = "send" /\ commands[d].clone = commands[c].clone
       /\ commands[d].input = commands[c].input => d = c
  /\ \A x \in changes : x.clone # commands[c].clone \/ x.input # commands[c].input

HubInv ==
  /\ DOMAIN commands = Commands /\ Repository(hub) /\ SlotsTyped
  /\ \A c \in Commands : CommandOk(c, commands[c])
  /\ \A x \in changes : ChangeOk(x)
  /\ \A x, y \in changes : x.clone = y.clone /\ x.input = y.input => x = y
  /\ \A c \in Commands : commands[c].step = "send" => AloneAt(c)

\* Directories are never given up, and a mark in one stays.
SlotsKept ==
  /\ SlotsTyped'
  /\ \A k \in Clones : \A i : (Has(k, i) => Has(k, i)') /\ (StartedSlot(k, i) => StartedSlot(k, i)')

LEMMA SameSlots ==
  ASSUME SlotsTyped, UNCHANGED slots
  PROVE  SlotsKept
BY DEF SlotsTyped, SlotsKept, Has, StartedSlot

LEMMA OwnSlot ==
  ASSUME SlotsTyped, NEW k \in Clones, NEW input, Has(k, input)
  PROVE  /\ SlotOf(k, input) \in slots[k] /\ SlotOf(k, input).input = input
         /\ StartedSlot(k, input) <=> SlotOf(k, input).started
BY DEF SlotsTyped, Has, StartedSlot, SlotOf

LEMMA SlotEffect ==
  ASSUME SlotsTyped, NEW k \in Clones, NEW slot, SetSlot(k, slot),
         DOMAIN slot = {"input", "plan", "started", "finished"}, slot.input # NoInput,
         slot.started \in BOOLEAN,
         \A s \in slots[k] : s.input = slot.input /\ s.started => slot.started
  PROVE  SlotsKept /\ slot \in slots'[k]
<1>1. /\ DOMAIN slots' = Clones
      /\ \A q \in Clones \ {k} : slots'[q] = slots[q]
      /\ slots'[k] = {s \in slots[k] : s.input # slot.input} \cup {slot}
  BY DEF SetSlot, SlotsTyped
<1>2. SlotsTyped'
  <2>1. ASSUME NEW q \in Clones, NEW s \in slots'[q]
        PROVE  /\ DOMAIN s = {"input", "plan", "started", "finished"} /\ s.input # NoInput
               /\ s.started \in BOOLEAN
               /\ \A t \in slots'[q] : s.input = t.input => s = t
    <3>1. CASE q = k
      BY <1>1, <3>1 DEF SlotsTyped
    <3>2. CASE q # k
      BY <1>1, <3>2 DEF SlotsTyped
    <3>3. QED
      BY <3>1, <3>2
  <2>2. QED
    BY <1>1, <2>1 DEF SlotsTyped
<1>3. ASSUME NEW q \in Clones, NEW i
      PROVE  (Has(q, i) => Has(q, i)') /\ (StartedSlot(q, i) => StartedSlot(q, i)')
  <2>1. CASE q # k
    BY <1>1, <2>1 DEF Has, StartedSlot
  <2>2. CASE q = k /\ i # slot.input
    BY <1>1, <2>2 DEF Has, StartedSlot
  <2>3. CASE q = k /\ i = slot.input
    BY <1>1, <2>3 DEF Has, StartedSlot
  <2>4. QED
    BY <2>1, <2>2, <2>3
<1>4. QED
  BY <1>1, <1>2, <1>3 DEF SlotsKept

\* Others' steps.
LEMMA CommandsRest ==
  ASSUME HubInv, UNCHANGED <<commands, changes>>, Repository(hub)', SlotsKept
  PROVE  HubInv'
<1>1. ASSUME NEW c \in Commands PROVE CommandOk(c, commands[c])'
  BY <1>1, CommandOk(c, commands[c]) DEF HubInv, CommandOk, Reviewed, SlotsKept, Changed, Looked
<1>2. ASSUME NEW x \in changes PROVE ChangeOk(x)'
  BY <1>2, ChangeOk(x) DEF HubInv, ChangeOk, Reviewed, SlotsKept
<1>3. QED
  BY <1>1, <1>2 DEF HubInv, AloneAt, SlotsKept

\* A step of a command that sends nothing.
LEMMA CommandSteps ==
  ASSUME HubInv, NEW c \in Commands, UNCHANGED changes, Repository(hub)', SlotsKept,
         DOMAIN commands' = Commands, \A d \in Commands \ {c} : commands'[d] = commands[d],
         CommandOk(c, commands[c])', commands'[c].step = "send" => AloneAt(c)',
         Changed(c) => /\ commands'[c].step \notin Unsent
                       /\ Keeps(commands[c], commands'[c], {"step", "outcome", "execution", "verified"})
  PROVE  HubInv'
<1>1. ASSUME NEW d \in Commands \ {c} PROVE CommandOk(d, commands[d])'
  <2>1. CommandOk(d, commands[d]) /\ commands'[d] = commands[d]
    BY <1>1 DEF HubInv
  <2>2. QED
    BY <1>1, <2>1 DEF CommandOk, Reviewed, SlotsKept, Changed, Looked
<1>2. ASSUME NEW x \in changes PROVE ChangeOk(x)'
  <2>1. ChangeOk(x)
    BY <1>2 DEF HubInv
  <2>2. CASE x.by # c
    BY <1>2, <2>1, <2>2 DEF ChangeOk, Reviewed, SlotsKept
  <2>3. CASE x.by = c
    <3>1. Changed(c)
      BY <1>2, <2>3 DEF Changed
    <3>2. commands[c].step \notin Unsent /\ commands'[c].step \notin Unsent
      BY <2>1, <2>3, <3>1 DEF ChangeOk
    <3>3. /\ commands'[c].clone = commands[c].clone /\ commands'[c].input = commands[c].input
          /\ DOMAIN commands'[c] = ApplyFields /\ commands'[c].seen = commands[c].seen
          /\ commands'[c].checkout = commands[c].checkout
      BY <2>1, <2>3, <3>1 DEF ChangeOk, Keeps, ApplyFields
    <3>4. QED
      BY <2>1, <2>3, <3>2, <3>3 DEF ChangeOk, Reviewed, SlotsKept
  <2>4. QED
    BY <2>2, <2>3
<1>3. ASSUME NEW d \in Commands, commands'[d].step = "send" PROVE AloneAt(d)'
  <2>1. CASE d = c
    BY <1>3, <2>1
  <2>2. CASE d # c
    <3>1. AloneAt(d) /\ commands'[d] = commands[d]
      BY <1>3, <2>2 DEF HubInv
    <3>2. QED
      BY <1>3, <2>2, <3>1 DEF AloneAt
  <2>3. QED
    BY <2>1, <2>2
<1>4. QED
  BY <1>1, <1>2, <1>3 DEF HubInv, SlotsKept

LEMMA DerivedStatus ==
  ASSUME NEW checkout, NEW h, NEW scope, NEW mode
  PROVE  LET derived == DerivePlan(checkout, h, scope, mode)
         IN /\ derived.status \in {"none", "COMPLIANT", "NOT_VERIFIED", "INCOMPLETE"}
            /\ derived.status = "COMPLIANT" =>
                 scope # "secrets" /\ Governance(Discovered(h)) = "satisfied"
            /\ derived.status = "none" /\ derived.input = NoInput =>
                 derived.blocked \/ derived.notVerified
<1>1. Underived(TRUE).status = "none" /\ Underived(TRUE).blocked
  BY DEF Underived
<1>2. /\ DeriveSecrets(checkout, h).status = "none"
      /\ DeriveSecrets(checkout, h).input = NoInput => DeriveSecrets(checkout, h).notVerified
  <2>1. ASSUME NEW operation, NEW secret
        PROVE  PlanInput(checkout, h, "secrets", operation, secret) # NoInput
    BY DEF PlanInput, NoInput
  <2>2. QED
    BY <2>1 DEF DeriveSecrets, Underived
<1>3. /\ DeriveProtection(checkout, h).status \in {"COMPLIANT", "NOT_VERIFIED", "INCOMPLETE"}
      /\ DeriveProtection(checkout, h).status = "COMPLIANT" =>
           Governance(Discovered(h)) = "satisfied"
  BY DEF DeriveProtection, Underived
<1>4. QED
  BY <1>1, <1>2, <1>3 DEF DerivePlan

\* What there is to record is a plan, and what there is not ends no application.
LEMMA UnplannedIs ==
  ASSUME NEW checkout, NEW h, NEW scope
  PROVE  LET derived == DerivePlan(checkout, h, scope, "plan")
             unplanned == Unplanned(checkout, derived, scope)
         IN /\ unplanned \notin {"APPLIED", "APPLY_FAILED"}
            /\ unplanned = "none" => derived.input # NoInput
            /\ unplanned = "COMPLIANT" => Governance(Discovered(h)) = "satisfied"
<1>1. PICK derived :
        /\ derived = DerivePlan(checkout, h, scope, "plan")
        /\ derived.status \in {"none", "COMPLIANT", "NOT_VERIFIED", "INCOMPLETE"}
        /\ derived.status = "COMPLIANT" => Governance(Discovered(h)) = "satisfied"
        /\ derived.status = "none" /\ derived.input = NoInput =>
             derived.blocked \/ derived.notVerified
  BY DerivedStatus
<1> DEFINE outcome == PlanOutcome(derived, scope)
<1>2. /\ outcome \notin {"APPLIED", "APPLY_FAILED"}
      /\ outcome = "COMPLIANT" => derived.status = "COMPLIANT"
      /\ outcome = "none" => ~derived.blocked /\ ~derived.notVerified /\ derived.status = "none"
  BY <1>1 DEF PlanOutcome
<1> HIDE DEF outcome
<1>3. \/ Unplanned(checkout, derived, scope) \in {"BLOCKED", "NOTHING_TO_PLAN"}
      \/ /\ Unplanned(checkout, derived, scope) = outcome
         /\ derived.blocked \/ derived.input = NoInput
      \/ Unplanned(checkout, derived, scope) = "none" /\ derived.input # NoInput
  BY DEF Unplanned, outcome
<1>4. QED
  BY <1>1, <1>2, <1>3

LEMMA PlanKeeps ==
  ASSUME HubInv, NEW c \in Commands, NEW k \in Clones, NEW scope, Plan(c, k, scope)
  PROVE  HubInv'
<1>1. PICK input, unplanned :
        /\ input = DerivePlan(checkouts[k], hub, scope, "plan").input
        /\ unplanned = Unplanned(checkouts[k], DerivePlan(checkouts[k], hub, scope, "plan"), scope)
        /\ \/ /\ UNCHANGED slots
              /\ \E outcome \in {unplanned, "PLANNED", "ERROR"} :
                   commands' = [commands EXCEPT ![c] = [step |-> "ended", outcome |-> outcome]]
           \/ /\ unplanned = "none" /\ SetSlot(k, NewSlot(input, "unwritten")) /\ ~HasSlot(k, input)
              /\ commands' = [commands EXCEPT ![c] = [step |-> "write-plan", outcome |-> "none",
                                                      clone |-> k, input |-> input]]
  BY DEF Plan
<1>2. commands[c].step = "idle" /\ UNCHANGED <<hub, changes>>
  BY DEF Plan, At
<1>3. ~Changed(c) /\ DOMAIN commands = Commands /\ SlotsTyped /\ Repository(hub)'
  BY <1>2 DEF HubInv, CommandOk, Unsent, Repository
<1>4. CASE /\ UNCHANGED slots
           /\ \E outcome \in {unplanned, "PLANNED", "ERROR"} :
                commands' = [commands EXCEPT ![c] = [step |-> "ended", outcome |-> outcome]]
  <2>1. unplanned \notin {"APPLIED", "APPLY_FAILED"}
    BY <1>1, UnplannedIs
  <2>2. PICK outcome \in {unplanned, "PLANNED", "ERROR"} :
          commands' = [commands EXCEPT ![c] = [step |-> "ended", outcome |-> outcome]]
    BY <1>4
  <2>3. CommandOk(c, commands[c])'
    BY <1>3, <2>1, <2>2 DEF CommandOk, Looked, Unsent
  <2>4. QED
    BY <1>2, <1>3, <1>4, <2>2, <2>3, SameSlots, CommandSteps
<1>5. CASE /\ unplanned = "none" /\ SetSlot(k, NewSlot(input, "unwritten")) /\ ~HasSlot(k, input)
           /\ commands' = [commands EXCEPT ![c] = [step |-> "write-plan", outcome |-> "none",
                                                   clone |-> k, input |-> input]]
  <2>1. input # NoInput
    BY <1>1, <1>5, UnplannedIs
  <2>2. SlotsKept /\ NewSlot(input, "unwritten") \in slots'[k]
    BY <1>3, <1>5, <2>1, SlotEffect DEF NewSlot, HasSlot
  <2>3. Has(k, input)'
    BY <2>2 DEF Has, NewSlot
  <2>4. CommandOk(c, commands[c])'
    BY <1>2, <1>3, <1>5, <2>3 DEF CommandOk, Looked, Unsent, Changed
  <2>5. commands'[c].step # "send" /\ \A d \in Commands \ {c} : commands'[d] = commands[d]
    BY <1>3, <1>5
  <2>6. QED
    BY <1>2, <1>3, <1>5, <2>2, <2>4, <2>5, CommandSteps
<1>6. QED
  BY <1>1, <1>4, <1>5

LEMMA WritePlanKeeps ==
  ASSUME HubInv, NEW c \in Commands, WritePlan(c)
  PROVE  HubInv'
<1> DEFINE k == commands[c].clone
           slot == SlotOf(k, commands[c].input)
<1>1. commands[c].step = "write-plan" /\ Ends(c, "PLANNED") /\ UNCHANGED <<hub, changes>>
      /\ SetSlot(k, [slot EXCEPT !.plan = "intact"])
  BY DEF WritePlan, At
<1>2. CommandOk(c, commands[c]) /\ DOMAIN commands = Commands /\ SlotsTyped /\ Repository(hub)'
  BY <1>1 DEF HubInv, Repository
<1>3. k \in Clones /\ Has(k, commands[c].input) /\ ~Changed(c)
  BY <1>1, <1>2 DEF CommandOk, Unsent
<1>4. slot \in slots[k]
  BY <1>2, <1>3, OwnSlot
<1>5. SlotsKept
  <2>1. PICK s \in slots[k] : s = slot
    BY <1>4
  <2>2. SetSlot(k, [s EXCEPT !.plan = "intact"])
    BY <1>1, <2>1
  <2>3. /\ DOMAIN s = {"input", "plan", "started", "finished"} /\ s.input # NoInput
        /\ s.started \in BOOLEAN /\ \A t \in slots[k] : s.input = t.input => s = t
    BY <1>2, <1>3 DEF SlotsTyped
  <2>4. QED
    BY <1>2, <1>3, <2>2, <2>3, SlotEffect
<1>6. OnlyMoves(c, {"step", "outcome"}) /\ commands'[c].step = "ended"
      /\ commands'[c].outcome = "PLANNED"
  BY <1>1, <1>2, Ends2 DEF CommandOk
<1>7. CommandOk(c, commands[c])'
  BY <1>2, <1>6 DEF CommandOk, OnlyMoves, Keeps, Looked, Unsent
<1>8. QED
  BY <1>1, <1>2, <1>3, <1>5, <1>6, <1>7, CommandSteps DEF OnlyMoves

LEMMA ApplyKeeps ==
  ASSUME HubInv, NEW c \in Commands, NEW k \in Clones, Apply(c, k)
  PROVE  HubInv'
<1>1. PICK slot \in slots[k] :
        commands' = [commands EXCEPT ![c] =
         [step |-> IF Applicable(k, slot) THEN "recheck" ELSE "ended",
          outcome |-> IF Applicable(k, slot) THEN "none" ELSE "REFUSED",
          clone |-> k, input |-> slot.input, checkout |-> checkouts[k], seen |-> hub,
          execution |-> "none", verified |-> FALSE]]
  BY DEF Apply
<1>2. commands[c].step = "idle" /\ UNCHANGED <<hub, slots, changes>>
  BY DEF Apply, At
<1>3. ~Changed(c) /\ DOMAIN commands = Commands /\ SlotsTyped /\ Repository(hub)'
  BY <1>2 DEF HubInv, CommandOk, Unsent, Repository
<1>4. SlotsKept /\ Has(k, slot.input)' /\ slot.input # NoInput
  BY <1>2, <1>3, SameSlots DEF SlotsTyped, Has
<1>5. CommandOk(c, commands[c])'
  <2>1. CASE Applicable(k, slot)
    <3>1. checkouts[k].config = slot.input.config
      BY <2>1 DEF Applicable
    <3>2. QED
      BY <1>1, <1>2, <1>3, <1>4, <2>1, <3>1
         DEF CommandOk, ApplyFields, Looked, Unsent, Changed
  <2>2. CASE ~Applicable(k, slot)
    BY <1>1, <1>3, <2>2 DEF CommandOk, Looked, Unsent
  <2>3. QED
    BY <2>1, <2>2
<1>6. commands'[c].step # "send" /\ \A d \in Commands \ {c} : commands'[d] = commands[d]
  BY <1>1, <1>3
<1>7. QED
  BY <1>1, <1>2, <1>3, <1>4, <1>5, <1>6, CommandSteps

\* A command that applies a plan goes on: what it knows of the plan stays.
LEMMA ApplierSteps ==
  ASSUME HubInv, NEW c \in Commands, commands[c].step \in {"recheck"} \cup Looked,
         commands[c].step # "send" \/ commands'[c].step # "observe",
         OnlyMoves(c, {"step", "outcome", "seen", "execution", "verified"}),
         UNCHANGED changes, Repository(hub)', SlotsKept,
         Changed(c) => commands'[c].step \notin Unsent /\ commands'[c].seen = commands[c].seen,
         commands'[c].step \in Looked => Reviewed(commands'[c]),
         commands'[c].step \in {"recheck", "ended", "crashed"} \cup Looked,
         commands'[c].step = "observe" \/ commands'[c].outcome = "APPLIED" => Changed(c),
         commands'[c].step \in Unsent \cup {"observe"} => commands'[c].outcome = "none",
         commands'[c].outcome = "APPLY_FAILED" /\ commands'[c].execution = "known-failed" =>
           ~Changed(c),
         commands'[c].step \in Unsent =>
           commands[c].step \in Unsent /\ commands'[c].execution = commands[c].execution,
         commands'[c].step = "send" =>
           StartedSlot(commands[c].clone, commands[c].input)' /\ AloneAt(c)'
  PROVE  HubInv'
<1>1. CommandOk(c, commands[c]) /\ DOMAIN commands = Commands
  BY DEF HubInv
<1>2. /\ DOMAIN commands[c] = ApplyFields /\ commands[c].input # NoInput
      /\ commands[c].checkout.config = commands[c].input.config
      /\ commands[c].clone \in Clones /\ Has(commands[c].clone, commands[c].input)
  BY <1>1 DEF CommandOk, Looked
<1>3. /\ DOMAIN commands'[c] = ApplyFields
      /\ commands'[c].clone = commands[c].clone /\ commands'[c].input = commands[c].input
      /\ commands'[c].checkout = commands[c].checkout
  BY <1>2 DEF OnlyMoves, Keeps, ApplyFields
<1>4. Has(commands[c].clone, commands[c].input)'
  BY <1>2, <1>3 DEF SlotsKept, Has
<1>5. CommandOk(c, commands[c])'
  <2>1. Changed(c)' <=> Changed(c)
    BY DEF Changed
  <2>2. {"step", "outcome", "clone", "input"} \subseteq ApplyFields
    BY DEF ApplyFields
  <2>3. commands'[c].step \in Unsent => commands'[c].execution = "none"
    BY <1>1 DEF CommandOk
  <2>4. QED
    BY <1>2, <1>3, <1>4, <2>1, <2>2, <2>3 DEF CommandOk
<1>6. ASSUME Changed(c)
      PROVE  Keeps(commands[c], commands'[c], {"step", "outcome", "execution", "verified"})
  BY <1>2, <1>6 DEF OnlyMoves, Keeps, ApplyFields
<1>7. QED
  BY <1>1, <1>5, <1>6, CommandSteps DEF OnlyMoves

LEMMA RecheckKeeps ==
  ASSUME HubInv, NEW c \in Commands, Recheck(c)
  PROVE  HubInv'
<1>1. commands[c].step \in {"recheck", "recheck-again"} /\ UNCHANGED <<hub, slots, changes>>
  BY DEF Recheck
<1>2. CommandOk(c, commands[c]) /\ DOMAIN commands = Commands /\ SlotsKept /\ Repository(hub)'
  BY <1>1, SameSlots DEF HubInv, Repository
<1>3. /\ DOMAIN commands[c] = ApplyFields /\ commands[c].input # NoInput
      /\ commands[c].checkout.config = commands[c].input.config
      /\ ~Changed(c) /\ commands[c].outcome = "none"
  BY <1>1, <1>2 DEF CommandOk, Looked, Unsent
<1>4. CASE /\ Derived(c).input = commands[c].input
           /\ commands' = [commands EXCEPT ![c].seen = hub,
                ![c].step = IF @ = "recheck" THEN "confirm" ELSE "start"]
  <2>1. PICK step \in {"confirm", "start"} :
          commands' = [commands EXCEPT ![c].seen = hub, ![c].step = step]
    BY <1>4
  <2>2. /\ OnlyMoves(c, {"seen", "step"})
        /\ commands'[c].seen = hub /\ commands'[c].step = step
    BY <1>2, <1>3, <2>1, Sees2 DEF ApplyFields
  <2>3. /\ commands'[c].input = commands[c].input /\ commands'[c].checkout = commands[c].checkout
        /\ commands'[c].outcome = commands[c].outcome
        /\ commands'[c].execution = commands[c].execution
        /\ OnlyMoves(c, {"step", "outcome", "seen", "execution", "verified"})
    BY <1>3, <2>2 DEF OnlyMoves, Keeps, ApplyFields
  <2>4. Reviewed(commands'[c])
    BY <1>3, <1>4, <2>2, <2>3 DEF Reviewed, Derived
  <2>5. commands'[c].step \in Looked \ {"observe", "send"}
    BY <2>2 DEF Looked
  <2>6. QED
    BY <1>1, <1>2, <1>3, <2>3, <2>4, <2>5, ApplierSteps DEF Looked, Unsent
<1>5. ASSUME NEW outcome \in {"REFUSED", "ERROR"}, Ends(c, outcome) PROVE HubInv'
  <2>1. /\ OnlyMoves(c, {"step", "outcome"})
        /\ commands'[c].step = "ended" /\ commands'[c].outcome = outcome
    BY <1>2, <1>3, <1>5, Ends2 DEF ApplyFields
  <2>2. OnlyMoves(c, {"step", "outcome", "seen", "execution", "verified"})
    BY <2>1 DEF OnlyMoves, Keeps
  <2>3. QED
    BY <1>1, <1>2, <1>3, <2>1, <2>2, ApplierSteps DEF Looked, Unsent
<1>6. QED
  BY <1>4, <1>5 DEF Recheck

LEMMA ConfirmKeeps ==
  ASSUME HubInv, NEW c \in Commands, Confirm(c)
  PROVE  HubInv'
<1>1. commands[c].step = "confirm" /\ UNCHANGED <<hub, slots, changes>>
  BY DEF Confirm, At
<1>2. CommandOk(c, commands[c]) /\ DOMAIN commands = Commands /\ SlotsKept /\ Repository(hub)'
  BY <1>1, SameSlots DEF HubInv, Repository
<1>3. /\ DOMAIN commands[c] = ApplyFields /\ Reviewed(commands[c])
      /\ ~Changed(c) /\ commands[c].outcome = "none"
  BY <1>1, <1>2 DEF CommandOk, Looked, Unsent
<1>4. CASE Goes(c, "recheck-again")
  <2>1. OnlyMoves(c, {"step"}) /\ commands'[c].step = "recheck-again"
    BY <1>2, <1>3, <1>4, Goes1 DEF ApplyFields
  <2>2. /\ commands'[c].input = commands[c].input /\ commands'[c].checkout = commands[c].checkout
        /\ commands'[c].outcome = commands[c].outcome /\ commands'[c].seen = commands[c].seen
        /\ commands'[c].execution = commands[c].execution
        /\ OnlyMoves(c, {"step", "outcome", "seen", "execution", "verified"})
    BY <1>3, <2>1 DEF OnlyMoves, Keeps, ApplyFields
  <2>3. QED
    BY <1>1, <1>2, <1>3, <2>1, <2>2, ApplierSteps DEF Looked, Unsent, Reviewed
<1>5. CASE Ends(c, "REFUSED")
  <2>1. /\ OnlyMoves(c, {"step", "outcome"})
        /\ commands'[c].step = "ended" /\ commands'[c].outcome = "REFUSED"
    BY <1>2, <1>3, <1>5, Ends2 DEF ApplyFields
  <2>2. OnlyMoves(c, {"step", "outcome", "seen", "execution", "verified"})
    BY <2>1 DEF OnlyMoves, Keeps
  <2>3. QED
    BY <1>1, <1>2, <1>3, <2>1, <2>2, ApplierSteps DEF Looked, Unsent
<1>6. QED
  BY <1>4, <1>5 DEF Confirm

LEMMA StartKeeps ==
  ASSUME HubInv, NEW c \in Commands, Start(c)
  PROVE  HubInv'
<1> DEFINE k == commands[c].clone
           slot == SlotOf(k, commands[c].input)
<1>1. commands[c].step = "start" /\ UNCHANGED <<hub, changes>>
  BY DEF Start, At
<1>2. CommandOk(c, commands[c]) /\ DOMAIN commands = Commands /\ SlotsTyped /\ Repository(hub)'
  BY <1>1 DEF HubInv, Repository
<1>3. /\ DOMAIN commands[c] = ApplyFields /\ Reviewed(commands[c])
      /\ ~Changed(c) /\ commands[c].outcome = "none"
      /\ k \in Clones /\ Has(k, commands[c].input)
  BY <1>1, <1>2 DEF CommandOk, Looked, Unsent
<1>4. /\ slot \in slots[k] /\ slot.input = commands[c].input
      /\ StartedSlot(k, commands[c].input) <=> slot.started
  BY <1>2, <1>3, OwnSlot
<1>5. CASE slot.started /\ Ends(c, "ERROR") /\ UNCHANGED slots
  <2>1. /\ OnlyMoves(c, {"step", "outcome"})
        /\ commands'[c].step = "ended" /\ commands'[c].outcome = "ERROR"
    BY <1>2, <1>3, <1>5, Ends2 DEF ApplyFields
  <2>2. OnlyMoves(c, {"step", "outcome", "seen", "execution", "verified"})
    BY <2>1 DEF OnlyMoves, Keeps
  <2>3. QED
    BY <1>1, <1>2, <1>3, <1>5, <2>1, <2>2, SameSlots, ApplierSteps DEF Looked, Unsent
<1>6. CASE ~slot.started /\ SetSlot(k, [slot EXCEPT !.started = TRUE]) /\ Goes(c, "send")
  <2>1. OnlyMoves(c, {"step"}) /\ commands'[c].step = "send"
    BY <1>2, <1>3, <1>6, Goes1 DEF ApplyFields
  <2>2. /\ commands'[c].input = commands[c].input /\ commands'[c].checkout = commands[c].checkout
        /\ commands'[c].outcome = commands[c].outcome /\ commands'[c].seen = commands[c].seen
        /\ commands'[c].clone = commands[c].clone
        /\ commands'[c].execution = commands[c].execution
        /\ OnlyMoves(c, {"step", "outcome", "seen", "execution", "verified"})
    BY <1>3, <2>1 DEF OnlyMoves, Keeps, ApplyFields
  <2>3. PICK new : new = [slot EXCEPT !.started = TRUE]
    OBVIOUS
  <2>4. /\ DOMAIN new = {"input", "plan", "started", "finished"}
        /\ new.input = commands[c].input /\ new.input # NoInput /\ new.started = TRUE
    BY <1>2, <1>3, <1>4, <2>3 DEF SlotsTyped
  <2>5. SlotsKept /\ new \in slots'[k]
    BY <1>2, <1>3, <1>6, <2>3, <2>4, SlotEffect
  <2>6. StartedSlot(commands[c].clone, commands[c].input)'
    BY <2>2, <2>4, <2>5 DEF StartedSlot
  <2>7. ~StartedSlot(k, commands[c].input)
    BY <1>4, <1>6
  <2>8. ASSUME NEW d \in Commands, commands'[d].step = "send", commands'[d].clone = k,
               commands'[d].input = commands[c].input
        PROVE  d = c
    <3>1. SUFFICES ASSUME d # c PROVE FALSE
      OBVIOUS
    <3>2. commands[d].step = "send" /\ commands[d].clone = k
          /\ commands[d].input = commands[c].input
      BY <1>2, <2>1, <2>8, <3>1 DEF OnlyMoves
    <3>3. StartedSlot(commands[d].clone, commands[d].input)
      BY <3>2 DEF HubInv, CommandOk
    <3>4. QED
      BY <2>7, <3>2, <3>3
  <2>9. \A x \in changes : x.clone # k \/ x.input # commands[c].input
    BY <2>7 DEF HubInv, ChangeOk
  <2>10. AloneAt(c)'
    BY <1>1, <2>2, <2>8, <2>9 DEF AloneAt
  <2>11. QED
    BY <1>1, <1>2, <1>3, <2>1, <2>2, <2>5, <2>6, <2>10, ApplierSteps DEF Looked, Unsent, Reviewed
<1>7. QED
  BY <1>1, <1>5, <1>6 DEF Start

LEMMA ObserveKeeps ==
  ASSUME HubInv, NEW c \in Commands, Observe(c)
  PROVE  HubInv'
<1>1. /\ commands[c].step = "observe" /\ UNCHANGED <<hub, slots, changes>>
      /\ \E v : commands' = [commands EXCEPT ![c].step = "record", ![c].outcome = "APPLIED",
                                             ![c].verified = v]
  BY DEF Observe, At
<1>2. CommandOk(c, commands[c]) /\ DOMAIN commands = Commands /\ SlotsKept /\ Repository(hub)'
  BY <1>1, SameSlots DEF HubInv, Repository
<1>3. DOMAIN commands[c] = ApplyFields /\ Reviewed(commands[c]) /\ Changed(c)
  BY <1>1, <1>2 DEF CommandOk, Looked
<1>4. /\ OnlyMoves(c, {"step", "outcome", "verified"})
      /\ commands'[c].step = "record" /\ commands'[c].outcome = "APPLIED"
  <2>1. PICK v : commands' = [commands EXCEPT ![c].step = "record", ![c].outcome = "APPLIED",
                                             ![c].verified = v]
    BY <1>1
  <2>2. c \in DOMAIN commands /\ {"step", "outcome", "verified"} \subseteq DOMAIN commands[c]
    BY <1>2, <1>3 DEF ApplyFields
  <2>3. QED
    BY <2>1, <2>2, Verifies3
<1>5. /\ commands'[c].input = commands[c].input /\ commands'[c].checkout = commands[c].checkout
      /\ commands'[c].seen = commands[c].seen
      /\ OnlyMoves(c, {"step", "outcome", "seen", "execution", "verified"})
  BY <1>3, <1>4 DEF OnlyMoves, Keeps, ApplyFields
<1>6. QED
  BY <1>1, <1>2, <1>3, <1>4, <1>5, ApplierSteps DEF Looked, Unsent, Reviewed

LEMMA RecordOutcomeKeeps ==
  ASSUME HubInv, NEW c \in Commands, RecordOutcome(c)
  PROVE  HubInv'
<1> DEFINE k == commands[c].clone
           slot == SlotOf(k, commands[c].input)
<1>1. commands[c].step = "record" /\ Goes(c, "ended") /\ UNCHANGED <<hub, changes>>
  BY DEF RecordOutcome, At
<1>2. CommandOk(c, commands[c]) /\ DOMAIN commands = Commands /\ SlotsTyped /\ Repository(hub)'
  BY <1>1 DEF HubInv, Repository
<1>3. /\ DOMAIN commands[c] = ApplyFields /\ Reviewed(commands[c])
      /\ k \in Clones /\ Has(k, commands[c].input)
  BY <1>1, <1>2 DEF CommandOk, Looked
<1>4. SlotsKept
  <2>1. CASE UNCHANGED slots
    BY <1>2, <2>1, SameSlots
  <2>2. CASE SetSlot(k, [slot EXCEPT !.finished = TRUE])
    <3>1. PICK new : new = [slot EXCEPT !.finished = TRUE]
      OBVIOUS
    <3>2. slot \in slots[k] /\ slot.input = commands[c].input
      BY <1>2, <1>3, OwnSlot
    <3>3. /\ DOMAIN new = {"input", "plan", "started", "finished"} /\ new.started = slot.started
          /\ new.input = slot.input /\ new.input # NoInput /\ new.started \in BOOLEAN
          /\ \A s \in slots[k] : s.input = new.input => s = slot
      BY <1>2, <1>3, <3>1, <3>2 DEF SlotsTyped
    <3>4. QED
      BY <1>2, <1>3, <2>2, <3>1, <3>3, SlotEffect
  <2>3. QED
    BY <2>1, <2>2 DEF RecordOutcome
<1>5. OnlyMoves(c, {"step"}) /\ commands'[c].step = "ended"
  BY <1>1, <1>2, <1>3, Goes1 DEF ApplyFields
<1>6. /\ commands'[c].outcome = commands[c].outcome /\ commands'[c].seen = commands[c].seen
      /\ commands'[c].execution = commands[c].execution
      /\ OnlyMoves(c, {"step", "outcome", "seen", "execution", "verified"})
  BY <1>3, <1>5 DEF OnlyMoves, Keeps, ApplyFields
<1>7. /\ commands[c].outcome = "APPLIED" => Changed(c)
      /\ commands[c].outcome = "APPLY_FAILED" /\ commands[c].execution = "known-failed" => ~Changed(c)
  BY <1>2 DEF CommandOk
<1>8. QED
  BY <1>1, <1>2, <1>4, <1>5, <1>6, <1>7, ApplierSteps DEF Looked, Unsent

LEMMA CrashKeeps ==
  ASSUME HubInv, NEW c \in Commands, Crash(c)
  PROVE  HubInv'
<1>1. /\ commands[c].step \notin {"idle", "ended", "crashed"} /\ Goes(c, "crashed")
      /\ UNCHANGED <<hub, slots, changes>>
  BY DEF Crash
<1>2. CommandOk(c, commands[c]) /\ DOMAIN commands = Commands /\ SlotsKept /\ Repository(hub)'
  BY <1>1, SameSlots DEF HubInv, Repository
<1>3. OnlyMoves(c, {"step"}) /\ commands'[c].step = "crashed"
  BY <1>1, <1>2, Goes1 DEF CommandOk
<1>4. /\ DOMAIN commands'[c] = DOMAIN commands[c]
      /\ commands'[c].outcome = commands[c].outcome
      /\ "execution" \in DOMAIN commands[c] => commands'[c].execution = commands[c].execution
  BY <1>2, <1>3 DEF OnlyMoves, Keeps, CommandOk
<1>5. CommandOk(c, commands[c])'
  <2>1. CASE commands[c].outcome = "none"
    BY <1>2, <1>3, <1>4, <2>1 DEF CommandOk, Looked, Unsent
  <2>2. CASE commands[c].outcome # "none"
    <3>1. "execution" \in DOMAIN commands[c]
      BY <1>1, <1>2, <2>2 DEF CommandOk, Unsent, ApplyFields
    <3>2. QED
      BY <1>1, <1>2, <1>3, <1>4, <2>2, <3>1 DEF CommandOk, Looked, Unsent, Changed
  <2>3. QED
    BY <2>1, <2>2
<1>6. QED
  BY <1>1, <1>2, <1>3, <1>5, CommandSteps DEF OnlyMoves, Keeps, Unsent

\* The new ruleset, and what it is among the others.
NewRuleset(h, body) ==
  [id |-> 10 + Cardinality(h.rulesets), org |-> FALSE, name |-> body.name,
   enforcement |-> body.enforcement, bypass |-> body.bypass, ref |-> body.ref,
   pull |-> body.pull, checks |-> body.checks, others |-> body.others,
   hidden |-> FALSE, listed |-> TRUE, userBypass |-> "never"]

LEMMA DerivedFor ==
  ASSUME NEW checkout, NEW h, NEW scope, NEW mode, NEW input, input # NoInput,
         DerivePlan(checkout, h, scope, mode).input = input
  PROVE  /\ input.repository.id = h.id
         /\ input.scope = IF scope = "secrets" THEN "secrets" ELSE "protection"
         /\ scope = "secrets" =>
              /\ input.operation.name = checkout.config.secret
              /\ input.observed = Secret(h, checkout.config.secret)
         /\ scope # "secrets" =>
              /\ input.operation.body = DesiredRuleset(MissingGroups(Discovered(h)))
              /\ input.observed = Discovered(h)
<1>1. Underived(TRUE).input = NoInput
  BY DEF Underived
<1>2. CASE scope = "secrets"
  <2>1. DeriveSecrets(checkout, h).input = input
    BY <1>1, <1>2 DEF DerivePlan
  <2>2. PICK operation :
          /\ operation.name = checkout.config.secret
          /\ input = PlanInput(checkout, h, "secrets", operation, Secret(h, checkout.config.secret))
    BY <2>1 DEF DeriveSecrets, Underived
  <2>3. QED
    BY <1>2, <2>2 DEF PlanInput
<1>3. CASE scope # "secrets"
  <2>1. DeriveProtection(checkout, h).input = input
    BY <1>1, <1>3 DEF DerivePlan
  <2>2. PICK operation :
          /\ operation.body = DesiredRuleset(MissingGroups(Discovered(h)))
          /\ input = PlanInput(checkout, h, "protection", operation, Discovered(h))
    BY <2>1 DEF DeriveProtection, Underived
  <2>3. QED
    BY <1>3, <2>2 DEF PlanInput
<1>4. QED
  BY <1>2, <1>3

LEMMA RulesetAdded ==
  ASSUME NEW h, Repository(h), NEW r, DOMAIN r = RulesetFields, r.id = 10 + Cardinality(h.rulesets),
         PullProvides(r) \subseteq PullRequirements
  PROVE  Repository([h EXCEPT !.rulesets = @ \cup {r}])
<1> DEFINE R == h.rulesets
           new == [h EXCEPT !.rulesets = @ \cup {r}]
<1>1. IsFiniteSet(R) /\ Cardinality(R) \in Nat
  BY FS_CardinalityType DEF Repository
<1>2. \A s \in R : s.id \in Nat /\ s.id < 10 + Cardinality(R)
  BY DEF Repository
<1>3. r \notin R
  BY <1>1, <1>2
<1>4. IsFiniteSet(R \cup {r}) /\ Cardinality(R \cup {r}) = Cardinality(R) + 1
  BY <1>1, <1>3, FS_AddElement
<1>5. DOMAIN new = RepositoryFields /\ new.rulesets = R \cup {r} /\ new.classic = h.classic
  BY DEF Repository, RepositoryFields
<1>6. ASSUME NEW s \in R \cup {r}
      PROVE  /\ DOMAIN s = RulesetFields
             /\ s.id \in Nat /\ s.id < 10 + Cardinality(R \cup {r})
             /\ \A t \in R \cup {r} : s.id = t.id => s = t
             /\ PullProvides(s) \subseteq PullRequirements
  <2>1. \A t \in R : t.id = s.id => t = s
    BY <1>1, <1>2, <1>6 DEF Repository
  <2>2. s # r => r.id # s.id
    BY <1>1, <1>2, <1>6
  <2>3. QED
    BY <1>1, <1>2, <1>4, <1>6, <2>1, <2>2 DEF Repository
<1> HIDE DEF new
<1>7. Repository(new)
  BY <1>4, <1>5, <1>6 DEF Repository
<1>8. QED
  BY <1>7 DEF new

LEMMA ExecutedIs ==
  ASSUME NEW c, Repository(hub), Reviewed(commands[c])
  PROVE  /\ Repository(Executed(hub, c))
         /\ commands[c].input.scope = "protection" =>
              LET body == DesiredRuleset(MissingGroups(Discovered(commands[c].seen)))
              IN Executed(hub, c) = [hub EXCEPT !.rulesets = @ \cup {NewRuleset(hub, body)}]
<1> DEFINE input == commands[c].input
           body == DesiredRuleset(MissingGroups(Discovered(commands[c].seen)))
<1>1. input.scope \in {"secrets", "protection"}
  BY DerivedFor DEF Reviewed
<1>2. CASE input.scope = "secrets"
  <2>1. PICK secrets : Executed(hub, c) = [hub EXCEPT !.secrets = secrets]
    BY <1>2 DEF Executed
  <2>2. /\ DOMAIN Executed(hub, c) = RepositoryFields
        /\ Executed(hub, c).rulesets = hub.rulesets /\ Executed(hub, c).classic = hub.classic
    BY <2>1 DEF Repository, RepositoryFields
  <2>3. QED
    BY <1>2, <2>2 DEF Repository
<1>3. CASE input.scope = "protection"
  <2>1. input.operation.body = body
    BY <1>3, DerivedFor DEF Reviewed
  <2>2. Executed(hub, c) = [hub EXCEPT !.rulesets = @ \cup {NewRuleset(hub, body)}]
    BY <1>3, <2>1 DEF Executed, NewRuleset
  <2>3. DOMAIN NewRuleset(hub, body) = RulesetFields
        /\ NewRuleset(hub, body).id = 10 + Cardinality(hub.rulesets)
    BY DEF NewRuleset, RulesetFields
  <2>4. PullProvides(NewRuleset(hub, body)) \subseteq PullRequirements
    <3>1. NewRuleset(hub, body).pull \in {SsdPull, Absent}
      BY DEF NewRuleset, DesiredRuleset
    <3>2. QED
      BY <3>1 DEF PullProvides, SsdPull, Absent, Present
  <2>5. Repository([hub EXCEPT !.rulesets = @ \cup {NewRuleset(hub, body)}])
    BY <2>3, <2>4, RulesetAdded
  <2>6. QED
    BY <2>2, <2>5
<1>4. QED
  BY <1>1, <1>2, <1>3

LEMMA SentKeeps ==
  ASSUME HubInv, NEW c \in Commands, commands[c].step = "send", TakesEffect(c), UNCHANGED slots,
         OnlyMoves(c, {"step", "outcome", "execution"}),
         \/ commands'[c].step = "observe" /\ commands'[c].outcome = "none"
         \/ /\ commands'[c].step = "record" /\ commands'[c].outcome = "APPLY_FAILED"
            /\ commands'[c].execution # "known-failed"
  PROVE  HubInv'
<1> DEFINE x == [by |-> c, clone |-> commands[c].clone, input |-> commands[c].input]
<1>1. /\ DOMAIN commands = Commands /\ SlotsTyped /\ Repository(hub)
      /\ CommandOk(c, commands[c]) /\ AloneAt(c)
  BY DEF HubInv
<1>2. /\ DOMAIN commands[c] = ApplyFields /\ Reviewed(commands[c]) /\ ~Changed(c)
      /\ commands[c].clone \in Clones /\ Has(commands[c].clone, commands[c].input)
      /\ StartedSlot(commands[c].clone, commands[c].input)
  BY <1>1 DEF CommandOk, Looked, Unsent
<1>3. SlotsKept /\ Repository(hub)'
  <2>1. Repository(Executed(hub, c))
    BY <1>1, <1>2, ExecutedIs
  <2>2. QED
    BY <1>1, <2>1, SameSlots DEF TakesEffect
<1>4. /\ commands'[c].input = commands[c].input /\ commands'[c].checkout = commands[c].checkout
      /\ commands'[c].seen = commands[c].seen /\ commands'[c].clone = commands[c].clone
      /\ DOMAIN commands'[c] = ApplyFields
  BY <1>2 DEF OnlyMoves, Keeps, ApplyFields
<1>5. changes' = changes \cup {x}
  BY DEF TakesEffect
<1>6. Reviewed(commands'[c])
  BY <1>2, <1>4 DEF Reviewed
<1>7. \A d \in Commands : Changed(d)' <=> (Changed(d) \/ d = c)
  <2>1. x.by = c
    OBVIOUS
  <2> HIDE DEF x
  <2>2. {y.by : y \in changes'} = {y.by : y \in changes} \cup {c}
    BY <1>5, <2>1
  <2>3. QED
    BY <2>2 DEF Changed
<1>8. CommandOk(c, commands[c])'
  BY <1>1, <1>2, <1>3, <1>4, <1>6, <1>7
     DEF CommandOk, SlotsKept, Looked, Unsent, ApplyFields, Reviewed
<1>9. ASSUME NEW d \in Commands \ {c} PROVE CommandOk(d, commands[d])'
  <2>1. CommandOk(d, commands[d]) /\ commands'[d] = commands[d] /\ (Changed(d)' <=> Changed(d))
    BY <1>1, <1>7, <1>9 DEF HubInv, OnlyMoves
  <2>2. QED
    BY <1>3, <2>1 DEF CommandOk, Reviewed, SlotsKept, Looked
<1>10. ASSUME NEW y \in changes' PROVE ChangeOk(y)'
  <2>1. CASE y \in changes
    <3>1. ChangeOk(y) /\ y.by # c
      BY <1>2, <2>1 DEF HubInv, Changed
    <3>2. QED
      BY <1>1, <1>3, <3>1 DEF ChangeOk, Reviewed, SlotsKept, OnlyMoves
  <2>2. CASE y = x
    BY <1>2, <1>3, <1>4, <1>6, <2>2 DEF ChangeOk, SlotsKept, Unsent
  <2>3. QED
    BY <1>5, <1>10, <2>1, <2>2
<1>11. ASSUME NEW y \in changes', NEW z \in changes', y.clone = z.clone, y.input = z.input
       PROVE  y = z
  BY <1>1, <1>5, <1>11 DEF HubInv, AloneAt
<1>12. ASSUME NEW d \in Commands, commands'[d].step = "send" PROVE AloneAt(d)'
  <2>1. d # c /\ commands'[d] = commands[d]
    BY <1>1, <1>12 DEF OnlyMoves
  <2>2. AloneAt(d)
    BY <1>12, <2>1 DEF HubInv
  <2>3. commands[d].clone # commands[c].clone \/ commands[d].input # commands[c].input
    BY <1>1, <1>12, <2>1 DEF AloneAt
  <2>4. \A e \in Commands : e # c => commands'[e] = commands[e]
    BY <1>1 DEF OnlyMoves
  <2>5. QED
    BY <1>4, <1>5, <2>1, <2>2, <2>3, <2>4 DEF AloneAt
<1>13. DOMAIN commands' = Commands
  BY <1>1 DEF OnlyMoves
<1>14. QED
  BY <1>3, <1>8, <1>9, <1>10, <1>11, <1>12, <1>13 DEF HubInv, SlotsKept

LEMMA SendKeeps ==
  ASSUME HubInv, NEW c \in Commands, Send(c)
  PROVE  HubInv'
<1>1. commands[c].step = "send" /\ UNCHANGED slots
  BY DEF Send, At
<1>2. /\ CommandOk(c, commands[c]) /\ c \in DOMAIN commands /\ SlotsTyped
      /\ Repository(hub)
  BY DEF HubInv
<1>3. /\ DOMAIN commands[c] = ApplyFields /\ Reviewed(commands[c]) /\ ~Changed(c)
      /\ commands[c].outcome = "none"
      /\ {"step", "outcome", "execution"} \subseteq DOMAIN commands[c]
  BY <1>1, <1>2 DEF CommandOk, Looked, Unsent, ApplyFields
<1>4. CASE /\ TakesEffect(c)
           /\ commands' = [commands EXCEPT ![c].step = "observe", ![c].execution = "accepted"]
  <2>1. OnlyMoves(c, {"step", "execution"}) /\ commands'[c].step = "observe"
    BY <1>2, <1>3, <1>4, Executes2, ZenonT(40)
  <2>2. commands'[c].outcome = "none" /\ OnlyMoves(c, {"step", "outcome", "execution"})
    BY <1>3, <2>1 DEF OnlyMoves, Keeps
  <2>3. QED
    BY <1>1, <1>4, <2>1, <2>2, SentKeeps
<1>5. ASSUME NEW answer \in {"refused", "4xx", "5xx", "none"},
             UNCHANGED <<hub, changes>> \/ (answer \in {"5xx", "none"} /\ TakesEffect(c)),
             commands' = [commands EXCEPT ![c].step = "record", ![c].outcome = "APPLY_FAILED",
               ![c].execution = IF OutcomeKnown(answer) THEN "known-failed" ELSE "unknown"]
      PROVE  HubInv'
  <2>1. PICK execution :
          /\ execution = IF OutcomeKnown(answer) THEN "known-failed" ELSE "unknown"
          /\ commands' = [commands EXCEPT ![c].step = "record", ![c].outcome = "APPLY_FAILED",
                                          ![c].execution = execution]
    BY <1>5
  <2>2. /\ OnlyMoves(c, {"step", "outcome", "execution"})
        /\ commands'[c].step = "record" /\ commands'[c].outcome = "APPLY_FAILED"
        /\ commands'[c].execution = execution
    BY <1>2, <1>3, <2>1, Executes3
  <2>3. CASE answer \in {"5xx", "none"} /\ TakesEffect(c)
    <3>1. execution # "known-failed"
      BY <2>1, <2>3 DEF OutcomeKnown
    <3>2. QED
      BY <1>1, <2>2, <2>3, <3>1, SentKeeps
  <2>4. CASE UNCHANGED <<hub, changes>>
    <3>1. /\ commands'[c].input = commands[c].input /\ commands'[c].checkout = commands[c].checkout
          /\ commands'[c].seen = commands[c].seen
          /\ OnlyMoves(c, {"step", "outcome", "seen", "execution", "verified"})
      BY <1>3, <2>2 DEF OnlyMoves, Keeps, ApplyFields
    <3>2. Reviewed(commands'[c])
      BY <1>3, <3>1 DEF Reviewed
    <3>3. SlotsKept /\ Repository(hub)'
      BY <1>1, <1>2, <2>4, SameSlots
    <3>4. QED
      BY <1>1, <1>3, <2>2, <2>4, <3>1, <3>2, <3>3, ApplierSteps DEF Looked, Unsent
  <2>5. QED
    BY <1>5, <2>3, <2>4
<1>6. QED
  BY <1>4, <1>5 DEF Send

LEMMA OthersKeep ==
  ASSUME HubInv, OthersChange \/ \E k \in Clones : EditClone(k)
  PROVE  HubInv'
<1>1. SlotsTyped /\ Repository(hub)
  BY DEF HubInv
<1>2. CASE OthersChange
  <2>1. PICK h : /\ h \in {hub} \cup OthersSettings
                 /\ \E secrets : hub' = [h EXCEPT !.secrets = secrets]
    <3>1. CASE \E h \in OthersSettings : hub' = [h EXCEPT !.secrets = hub.secrets]
      BY <3>1
    <3>2. CASE \E n \in DOMAIN hub.secrets :
                 hub' = [hub EXCEPT !.secrets[n].updated = Cardinality(changes) + edits + 1]
      <4>1. PICK n : hub' = [hub EXCEPT !.secrets[n].updated = Cardinality(changes) + edits + 1]
        BY <3>2
      <4>2. hub' = [hub EXCEPT !.secrets =
                      [hub.secrets EXCEPT ![n].updated = Cardinality(changes) + edits + 1]]
        BY <4>1
      <4>3. QED
        BY <4>2
    <3>3. QED
      BY <1>2, <3>1, <3>2 DEF OthersChange
  <2>2. Repository(h)
    BY <1>1, <2>1, GithubAssumption
  <2>3. /\ DOMAIN hub' = RepositoryFields
        /\ hub'.rulesets = h.rulesets /\ hub'.classic = h.classic
    BY <2>1, <2>2 DEF Repository, RepositoryFields
  <2>4. Repository(hub)'
    BY <2>2, <2>3 DEF Repository
  <2>5. QED
    BY <1>1, <1>2, <2>4, SameSlots, CommandsRest DEF OthersChange
<1>3. ASSUME NEW k \in Clones, EditClone(k) PROVE HubInv'
  <2>1. SlotsKept
    <3>1. CASE UNCHANGED slots
      BY <1>1, <3>1, SameSlots
    <3>2. ASSUME NEW s \in slots[k], SetSlot(k, [s EXCEPT !.plan = "edited"]) PROVE SlotsKept
      <4>1. PICK new : new = [s EXCEPT !.plan = "edited"]
        OBVIOUS
      <4>2. /\ DOMAIN new = {"input", "plan", "started", "finished"} /\ new.started = s.started
            /\ new.input = s.input /\ new.input # NoInput /\ new.started \in BOOLEAN
            /\ \A t \in slots[k] : t.input = new.input => t = s
        BY <1>1, <4>1 DEF SlotsTyped
      <4>3. QED
        BY <1>1, <3>2, <4>1, <4>2, SlotEffect
    <3>3. QED
      BY <1>3, <3>1, <3>2 DEF EditClone
  <2>2. QED
    BY <1>1, <1>3, <2>1, CommandsRest DEF EditClone, Repository
<1>4. QED
  BY <1>2, <1>3

LEMMA HubInvInit == HubInit => HubInv
<1> SUFFICES ASSUME HubInit PROVE HubInv
  OBVIOUS
<1>1. /\ commands = [c \in Commands |-> Idle] /\ changes = {} /\ hub \in Repositories
      /\ \E plans \in Recorded(checkouts, hub) : slots = [k \in Clones |-> plans]
  BY DEF HubInit
<1>2. SlotsTyped
  <2>1. PICK plans \in Recorded(checkouts, hub) : slots = [k \in Clones |-> plans]
    BY <1>1
  <2>2. plans = {} \/ \E input : input # NoInput /\ plans = {NewSlot(input, "intact")}
    BY DEF Recorded
  <2>3. ASSUME NEW s \in plans, NEW t \in plans
        PROVE  /\ DOMAIN s = {"input", "plan", "started", "finished"} /\ s.input # NoInput
               /\ s.started \in BOOLEAN /\ s = t
    <3>1. PICK input : input # NoInput /\ s = NewSlot(input, "intact") /\ t = s
      BY <2>2, <2>3
    <3>2. QED
      BY <3>1 DEF NewSlot
  <2>4. QED
    BY <2>1, <2>3 DEF SlotsTyped
<1>3. ASSUME NEW c \in Commands PROVE CommandOk(c, commands[c])
  BY <1>1 DEF Idle, CommandOk, Changed, Looked, Unsent
<1>4. QED
  BY <1>1, <1>2, <1>3, GithubAssumption DEF HubInv, Idle

\* A plan belongs to whoever marked it, and a change to what was last looked at.
THEOREM HubInvariant == HubSpec => []HubInv
<1>1. HubInv /\ [HubNext]_hubVars => HubInv'
  <2> SUFFICES ASSUME HubInv, [HubNext]_hubVars PROVE HubInv'
    OBVIOUS
  <2>1. CASE UNCHANGED hubVars
    <3>1. SlotsKept /\ UNCHANGED <<commands, changes>> /\ Repository(hub)'
      BY <2>1, SameSlots DEF hubVars, HubInv, Repository
    <3>2. QED
      BY <3>1, CommandsRest
  <2>2. CASE HubNext
    BY <2>2, PlanKeeps, WritePlanKeeps, ApplyKeeps, RecheckKeeps, ConfirmKeeps, StartKeeps,
       SendKeeps, ObserveKeeps, RecordOutcomeKeeps, CrashKeeps, OthersKeep DEF HubNext
  <2>3. QED
    BY <2>1, <2>2
<1>2. QED
  BY <1>1, HubInvInit, PTL DEF HubSpec

\* A plan changes GitHub once, whatever crashes and however many commands apply it, and
\* as it was reviewed for the settings as they were; and the report on it is true
\* (applyPlan, recordAttempt, outcomeKnown).
THEOREM AppliedOnce == HubSpec => []ChangedOnceAsReviewed
<1>1. HubInv => ChangedOnceAsReviewed
  <2> SUFFICES ASSUME HubInv PROVE ChangedOnceAsReviewed
    OBVIOUS
  <2>1. ASSUME NEW x \in changes
        PROVE  LET r == commands[x.by]
               IN /\ HasSlot(x.clone, x.input) /\ SlotOf(x.clone, x.input).started
                  /\ r.checkout.config = x.input.config
                  /\ r.seen.id = x.input.repository.id
                  /\ x.input.scope = "protection" => Discovered(r.seen) = x.input.observed
                  /\ x.input.scope = "secrets" =>
                       Secret(r.seen, x.input.operation.name) = x.input.observed
    <3> DEFINE r == commands[x.by]
    <3>1. ChangeOk(x) /\ SlotsTyped
      BY <2>1 DEF HubInv
    <3>2. /\ Reviewed(r) /\ r.input = x.input /\ StartedSlot(x.clone, x.input)
          /\ x.clone \in Clones
      BY <3>1 DEF ChangeOk
    <3>3. Has(x.clone, x.input)
      BY <3>2 DEF Has, StartedSlot
    <3>4. HasSlot(x.clone, x.input) /\ SlotOf(x.clone, x.input).started
      BY <3>1, <3>2, <3>3, OwnSlot DEF Has, HasSlot
    <3>5. /\ r.input.repository.id = r.seen.id
          /\ r.input.scope = IF r.input.scope = "secrets" THEN "secrets" ELSE "protection"
          /\ r.input.scope = "secrets" =>
               r.input.observed = Secret(r.seen, r.input.operation.name)
          /\ r.input.scope # "secrets" => r.input.observed = Discovered(r.seen)
      BY <3>2, DerivedFor DEF Reviewed
    <3>6. QED
      BY <3>2, <3>4, <3>5 DEF Reviewed
  <2>2. ASSUME NEW c \in Commands
        PROVE  /\ commands[c].outcome = "APPLIED" => Changed(c)
               /\ commands[c].outcome = "APPLY_FAILED" /\ commands[c].execution = "known-failed"
                    => ~Changed(c)
    BY <2>2 DEF HubInv, CommandOk
  <2>3. QED
    BY <2>1, <2>2 DEF HubInv, ChangedOnceAsReviewed
<1>2. QED
  BY <1>1, HubInvariant, PTL

-----------------------------------------------------------------------------
(* What is judged of what the token is shown binds everyone.               *)

\* One requirement, demanded of one actor.
BindsByRuleset(h, a, q) ==
  \E r \in Applying(h) :
    /\ a \notin r.bypass
    /\ IF q = "status-check" THEN \E x \in Checks(r) : x.app = ActionsApp
                                                     /\ x.context = RequiredCheck
       ELSE q \in PullProvides(r)
BindsByClassic(h, a, q) ==
  /\ h.classic.state = "present"
  /\ a \notin h.classic.value.allowances /\ (a = "admin" => h.classic.value.enforceAdmins)
  /\ IF q = "status-check" THEN [context |-> RequiredCheck, app |-> ActionsApp]
                                  \in h.classic.value.checks
     ELSE q \in h.classic.value.reqs

LEMMA GovernedIs ==
  ASSUME NEW h, \A a \in Actors, q \in Requirements : BindsByRuleset(h, a, q) \/ BindsByClassic(h, a, q)
  PROVE  Governed(h)
BY DEF Governed, BindsByRuleset, BindsByClassic

\* A check that counts is pinned, and nothing else makes the status check required.
LEMMA StatusCheck ==
  ASSUME NEW d, NEW list, NEW reqs, reqs \subseteq PullRequirements, NEW q \in Requirements,
         q \in reqs \cup CheckProvides(d, list)
  PROVE  IF q = "status-check" THEN [context |-> RequiredCheck, app |-> ActionsApp] \in list
         ELSE q \in reqs
<1>1. "status-check" \notin PullRequirements
  BY DEF PullRequirements
<1>2. q \in CheckProvides(d, list) => q = "status-check" /\ \E c \in list : Pinned(c)
  BY DEF CheckProvides
<1>3. QED
  BY <1>1, <1>2 DEF Pinned

\* A trusted ruleset is shown whole: nobody bypasses it.
LEMMA TrustedRuleset ==
  ASSUME NEW h, Repository(h), NEW r \in Applying(h), Discovered(h).rules.state = "present",
         RulesetTrusted(Discovered(h).details[r.id])
  PROVE  r.bypass = {}
<1> DEFINE rules == Discovered(h).rules
           list == Discovered(h).list
           wanted == {x \in h.rulesets : \/ rules.state = "present" /\ x \in Applying(h)
                                         \/ list.state = "present" /\ x.name = SsdRulesetName}
<1>1. Discovered(h).details = [id \in {x.id : x \in wanted} |->
                                 Detail(h, CHOOSE x \in wanted : x.id = id)]
  BY DEF Discovered
<1>2. r \in wanted
  BY DEF Applying
<1>3. \A x \in wanted : x.id = r.id => x = r
  BY <1>2 DEF Repository
<1> HIDE DEF wanted
<1>4. Discovered(h).details[r.id] = Detail(h, r)
  BY <1>1, <1>2, <1>3
<1>5. Detail(h, r).state = "present" /\ Detail(h, r).value.bypass = Present({})
  BY <1>4 DEF RulesetTrusted
<1>6. Detail(h, r) = Present([r EXCEPT !.bypass = IF r.listed THEN Present(@) ELSE Unverified])
  BY <1>5 DEF Detail, Unverified
<1>7. DOMAIN r = RulesetFields
  BY DEF Applying, Repository
<1>8. Detail(h, r).value.bypass = IF r.listed THEN Present(r.bypass) ELSE Unverified
  BY <1>6, <1>7 DEF Present, RulesetFields
<1>9. QED
  BY <1>5, <1>8 DEF Present, Unverified

LEMMA SatisfiedBinds ==
  ASSUME NEW h, Repository(h), NEW q \in Requirements, NEW a \in Actors,
         RequirementState(Discovered(h), q) = "satisfied"
  PROVE  BindsByRuleset(h, a, q) \/ BindsByClassic(h, a, q)
<1> DEFINE d == Discovered(h)
<1>1. PICK s \in Sources(d) : s.trusted /\ q \in s.provides
  BY DEF RequirementState
<1>2. /\ d.rules = Reads(h, "branchRules", {RuleEntry(r) : r \in Applying(h)})
      /\ d.classic = Classic(h)
  BY DEF Discovered
<1>3. CASE /\ d.rules.state = "present"
           /\ \E e \in d.rules.value :
                /\ RulesetTrusted(d.details[e.id])
                /\ q \in PullProvides(e) \cup CheckProvides(d, Checks(e))
  <2>1. PICK e \in d.rules.value :
          /\ RulesetTrusted(d.details[e.id])
          /\ q \in PullProvides(e) \cup CheckProvides(d, Checks(e))
    BY <1>3
  <2>2. d.rules.value = {RuleEntry(r) : r \in Applying(h)}
    BY <1>2, <1>3 DEF Reads, Unverified, Present
  <2>3. PICK r \in Applying(h) : e = RuleEntry(r)
    BY <2>1, <2>2
  <2>4. e.id = r.id /\ PullProvides(e) = PullProvides(r) /\ Checks(e) = Checks(r)
    BY <2>3 DEF RuleEntry, PullProvides, Checks
  <2>5. r.bypass = {}
    BY <1>3, <2>1, <2>4, TrustedRuleset
  <2>6. PullProvides(r) \subseteq PullRequirements
    BY DEF Repository, Applying
  <2>7. IF q = "status-check" THEN [context |-> RequiredCheck, app |-> ActionsApp] \in Checks(r)
        ELSE q \in PullProvides(r)
    BY <2>1, <2>4, <2>6, StatusCheck
  <2>8. BindsByRuleset(h, a, q)
    BY <2>5, <2>7 DEF BindsByRuleset
  <2>9. QED
    BY <2>8
<1>4. CASE /\ d.classic.state = "present" /\ ClassicTrusted(d.classic.value)
           /\ q \in d.classic.value.reqs \cup CheckProvides(d, d.classic.value.checks)
  <2>1. h.classic = d.classic
    BY <1>2, <1>4 DEF Classic, Unverified, Absent
  <2>2. h.classic.value.reqs \subseteq PullRequirements
    BY <1>4, <2>1 DEF Repository
  <2>3. IF q = "status-check"
        THEN [context |-> RequiredCheck, app |-> ActionsApp] \in h.classic.value.checks
        ELSE q \in h.classic.value.reqs
    BY <1>4, <2>1, <2>2, StatusCheck
  <2>4. BindsByClassic(h, a, q)
    BY <1>4, <2>1, <2>3 DEF BindsByClassic, ClassicTrusted
  <2>5. QED
    BY <2>4
<1>5. QED
  BY <1>1, <1>3, <1>4 DEF Sources

LEMMA SatisfiedGoverns ==
  ASSUME NEW h, Repository(h), Governance(Discovered(h)) = "satisfied"
  PROVE  Governed(h)
<1>1. \A q \in Requirements : RequirementState(Discovered(h), q) = "satisfied"
  BY DEF Governance
<1>2. QED
  BY <1>1, SatisfiedBinds, GovernedIs

\* The ruleset that is made closes the whole gap, and adds to what was there.
LEMMA MadeGoverns ==
  ASSUME NEW h, Repository(h), NEW new,
         new = [h EXCEPT !.rulesets =
                  @ \cup {NewRuleset(h, DesiredRuleset(MissingGroups(Discovered(h))))}]
  PROVE  Governed(new)
<1> DEFINE groups == MissingGroups(Discovered(h))
           made == NewRuleset(h, DesiredRuleset(groups))
<1>1. new.rulesets = h.rulesets \cup {made} /\ new.classic = h.classic
  BY DEF Repository, RepositoryFields
<1>2. /\ made \in Applying(new) /\ made.bypass = {}
      /\ "pull_request" \in groups => made.pull = SsdPull
      /\ "required_status_checks" \in groups => made.checks = SsdChecks
  BY <1>1 DEF Applying, NewRuleset, DesiredRuleset
<1>3. Applying(h) \subseteq Applying(new)
  BY <1>1 DEF Applying
<1> HIDE DEF made
<1>4. ASSUME NEW a \in Actors, NEW q \in Requirements
      PROVE  BindsByRuleset(new, a, q) \/ BindsByClassic(new, a, q)
  <2>1. CASE RequirementState(Discovered(h), q) = "satisfied"
    <3>1. BindsByRuleset(h, a, q) \/ BindsByClassic(h, a, q)
      BY <1>4, <2>1, SatisfiedBinds
    <3>2. BindsByRuleset(h, a, q) => BindsByRuleset(new, a, q)
      BY <1>3 DEF BindsByRuleset
    <3>3. BindsByClassic(h, a, q) => BindsByClassic(new, a, q)
      BY <1>1 DEF BindsByClassic
    <3>4. QED
      BY <3>1, <3>2, <3>3
  <2>2. CASE RequirementState(Discovered(h), q) # "satisfied"
    <3>1. Group(q) \in groups
      BY <1>4, <2>2 DEF MissingGroups
    <3>2. CASE q = "status-check"
      <4>1. made.checks = SsdChecks
        BY <1>2, <3>1, <3>2 DEF Group
      <4>2. [context |-> RequiredCheck, app |-> ActionsApp] \in Checks(made)
        BY <4>1 DEF Checks, SsdChecks, Present
      <4>3. BindsByRuleset(new, a, q)
        BY <1>2, <3>2, <4>2 DEF BindsByRuleset
      <4>4. QED
        BY <4>3
    <3>3. CASE q # "status-check"
      <4>1. made.pull = SsdPull /\ q \in PullRequirements
        BY <1>2, <1>4, <3>1, <3>3 DEF Group, Requirements
      <4>2. q \in PullProvides(made)
        BY <4>1 DEF PullProvides, SsdPull, Present
      <4>3. BindsByRuleset(new, a, q)
        BY <1>2, <3>3, <4>2 DEF BindsByRuleset
      <4>4. QED
        BY <4>3
    <3>4. QED
      BY <3>2, <3>3
  <2>3. QED
    BY <2>1, <2>2
<1>5. QED
  BY <1>4, GovernedIs

\* Whose step it is, and what becomes of the outcome and the answer.
LEMMA OthersStand ==
  ASSUME HubInv, HubNext, NEW c \in Commands, commands'[c] # commands[c]
  PROVE  \/ \E k \in Clones : Apply(c, k) \/ \E scope \in {"secrets", "protection"} : Plan(c, k, scope)
         \/ WritePlan(c) \/ Recheck(c) \/ Confirm(c) \/ Start(c) \/ Send(c)
         \/ Observe(c) \/ RecordOutcome(c) \/ Crash(c)
<1>1. DOMAIN commands = Commands
  BY DEF HubInv
<1>2. ASSUME NEW d \in Commands, NEW k \in Clones,
             Apply(d, k) \/ \E scope \in {"secrets", "protection"} : Plan(d, k, scope)
      PROVE  d = c
  BY <1>1, <1>2 DEF Apply, Plan
<1>3. ASSUME NEW d \in Commands,
             WritePlan(d) \/ Recheck(d) \/ Confirm(d) \/ Start(d) \/ RecordOutcome(d) \/ Crash(d)
      PROVE  d = c
  BY <1>1, <1>3 DEF WritePlan, Recheck, Confirm, Start, RecordOutcome, Crash, Goes, Ends
<1>4. ASSUME NEW d \in Commands, Send(d) \/ Observe(d)
      PROVE  d = c
  BY <1>1, <1>4 DEF Send, Observe
<1>5. ~OthersChange /\ \A k \in Clones : ~EditClone(k)
  BY DEF OthersChange, EditClone
<1>6. QED
  BY <1>2, <1>3, <1>4, <1>5 DEF HubNext

LEMMA OutcomeOfPlan ==
  ASSUME HubInv, NEW c \in Commands, NEW k \in Clones, NEW scope, Plan(c, k, scope),
         commands'[c].outcome = "COMPLIANT"
  PROVE  Governance(Discovered(hub)) = "satisfied"
<1>1. c \in DOMAIN commands
  BY DEF HubInv
<1>2. Unplanned(checkouts[k], DerivePlan(checkouts[k], hub, scope, "plan"), scope) = "COMPLIANT"
  BY <1>1 DEF Plan
<1>3. QED
  BY <1>2, UnplannedIs

\* What is concluded of governance is so: a plan that finds it complete, an application
\* that has observed it, and a ruleset that GitHub accepts (derivePlan, observeApplied,
\* buildDesiredRuleset).
THEOREM GovernanceHolds == HubSpec => GovernanceIsReal
<1>1. ASSUME HubInv, HubNext, NEW c \in Commands
      PROVE  /\ Concludes(c, "COMPLIANT") => Governed(hub)
             /\ Concludes(c, "APPLIED") /\ commands[c].input.scope = "protection" =>
                  (commands'[c].verified => Governed(hub))
             /\ At(c, "send") /\ commands[c].input.scope = "protection" /\ commands[c].seen = hub =>
                  (commands'[c].execution = "accepted" => Governed(hub'))
  <2>1. /\ DOMAIN commands = Commands /\ Repository(hub) /\ CommandOk(c, commands[c])
    BY <1>1 DEF HubInv
  <2>2. CASE commands'[c] = commands[c]
    <3>1. At(c, "send") => commands[c].execution = "none"
      BY <2>1 DEF At, CommandOk, Unsent, Looked
    <3>2. QED
      BY <2>2, <3>1 DEF Concludes
  <2>3. CASE \E k \in Clones, scope \in {"secrets", "protection"} : Plan(c, k, scope)
    <3>1. PICK k \in Clones, scope \in {"secrets", "protection"} : Plan(c, k, scope)
      BY <2>3
    <3>2. ~At(c, "send")
      BY <3>1 DEF Plan, At
    <3>3. commands'[c].outcome # "APPLIED"
      BY <2>1, <3>1, UnplannedIs DEF Plan
    <3>4. commands'[c].outcome = "COMPLIANT" => Governed(hub)
      BY <1>1, <2>1, <3>1, OutcomeOfPlan, SatisfiedGoverns
    <3>5. QED
      BY <3>2, <3>3, <3>4 DEF Concludes
  <2>4. CASE \E k \in Clones : Apply(c, k)
    BY <2>1, <2>4 DEF Apply, At, Concludes
  <2>5. CASE WritePlan(c)
    <3>1. commands'[c].outcome = "PLANNED"
      BY <2>1, <2>5, Ends2 DEF WritePlan, CommandOk
    <3>2. QED
      BY <2>5, <3>1 DEF WritePlan, At, Concludes
  <2>6. CASE Recheck(c)
    <3>1. commands[c].step \in {"recheck", "recheck-again"}
      BY <2>6 DEF Recheck
    <3>2. DOMAIN commands[c] = ApplyFields
      BY <2>1, <3>1 DEF CommandOk, Looked
    <3>3. commands'[c].outcome \in {commands[c].outcome, "REFUSED", "ERROR"}
      <4>1. ASSUME NEW outcome, Ends(c, outcome) PROVE commands'[c].outcome = outcome
        BY <2>1, <3>2, <4>1, Ends2 DEF ApplyFields
      <4>2. ASSUME NEW step, commands' = [commands EXCEPT ![c].seen = hub, ![c].step = step]
            PROVE  commands'[c].outcome = commands[c].outcome
        BY <2>1, <3>2, <4>2, Sees2 DEF OnlyMoves, Keeps, ApplyFields
      <4>3. QED
        BY <2>6, <4>1, <4>2 DEF Recheck
    <3>4. QED
      BY <3>1, <3>3 DEF At, Concludes
  <2>7. CASE Confirm(c) \/ Start(c)
    <3>1. commands[c].step \in {"confirm", "start"}
      BY <2>7 DEF Confirm, Start, At
    <3>2. DOMAIN commands[c] = ApplyFields
      BY <2>1, <3>1 DEF CommandOk, Looked
    <3>3. commands'[c].outcome \in {commands[c].outcome, "REFUSED", "ERROR"}
      <4>1. ASSUME NEW outcome, Ends(c, outcome) PROVE commands'[c].outcome = outcome
        BY <2>1, <3>2, <4>1, Ends2 DEF ApplyFields
      <4>2. ASSUME NEW step, Goes(c, step) PROVE commands'[c].outcome = commands[c].outcome
        BY <2>1, <3>2, <4>2, Goes1 DEF OnlyMoves, Keeps, ApplyFields
      <4>3. QED
        BY <2>7, <4>1, <4>2 DEF Confirm, Start
    <3>4. QED
      BY <3>1, <3>3 DEF At, Concludes
  <2>8. CASE RecordOutcome(c) \/ Crash(c)
    <3>1. PICK step : Goes(c, step)
      BY <2>8 DEF RecordOutcome, Crash
    <3>2. OnlyMoves(c, {"step"})
      BY <2>1, <3>1, Goes1 DEF CommandOk
    <3>3. commands'[c].outcome = commands[c].outcome
      BY <2>1, <3>2 DEF OnlyMoves, Keeps, CommandOk
    <3>4. At(c, "send") => commands'[c].execution = "none"
      <4>1. SUFFICES ASSUME At(c, "send") PROVE commands'[c].execution = "none"
        OBVIOUS
      <4>2. DOMAIN commands[c] = ApplyFields /\ commands[c].execution = "none"
        BY <2>1, <4>1 DEF At, CommandOk, Unsent, Looked
      <4>3. QED
        BY <3>2, <4>2 DEF OnlyMoves, Keeps, ApplyFields
    <3>5. QED
      BY <3>3, <3>4 DEF Concludes
  <2>9. CASE Observe(c)
    <3>1. commands[c].step = "observe"
      BY <2>9 DEF Observe, At
    <3>2. DOMAIN commands[c] = ApplyFields
      BY <2>1, <3>1 DEF CommandOk, Looked
    <3>3. PICK v : /\ commands' = [commands EXCEPT ![c].step = "record", ![c].outcome = "APPLIED",
                                                  ![c].verified = v]
                   /\ commands[c].input.scope = "protection" /\ v =>
                        Governance(Discovered(hub)) = "satisfied"
      BY <2>9 DEF Observe
    <3>4. {"step", "outcome", "verified"} \subseteq DOMAIN commands[c]
      BY <3>2 DEF ApplyFields
    <3>5. commands'[c].outcome = "APPLIED" /\ commands'[c].verified = v
      BY <2>1, <3>3, <3>4, Verifies3
    <3>6. QED
      BY <2>1, <3>1, <3>3, <3>5, SatisfiedGoverns DEF At, Concludes
  <2>10. CASE Send(c)
    <3>1. commands[c].step = "send"
      BY <2>10 DEF Send, At
    <3>2. DOMAIN commands[c] = ApplyFields /\ Reviewed(commands[c]) /\ commands[c].outcome = "none"
      BY <2>1, <3>1 DEF CommandOk, Looked, Unsent
    <3>3. {"step", "outcome", "execution"} \subseteq DOMAIN commands[c]
      BY <3>2 DEF ApplyFields
    <3>4. CASE /\ TakesEffect(c)
               /\ commands' = [commands EXCEPT ![c].step = "observe", ![c].execution = "accepted"]
      <4>1. commands'[c].outcome = "none"
        BY <2>1, <3>2, <3>3, <3>4, Executes2 DEF OnlyMoves, Keeps
      <4>2. ASSUME commands[c].input.scope = "protection", commands[c].seen = hub
            PROVE  Governed(hub')
        BY <2>1, <3>2, <3>4, <4>2, ExecutedIs, MadeGoverns DEF TakesEffect
      <4>3. QED
        BY <4>1, <4>2 DEF Concludes
    <3>5. ASSUME NEW answer,
                 commands' = [commands EXCEPT ![c].step = "record", ![c].outcome = "APPLY_FAILED",
                   ![c].execution = IF OutcomeKnown(answer) THEN "known-failed" ELSE "unknown"]
          PROVE  commands'[c].outcome = "APPLY_FAILED" /\ commands'[c].execution # "accepted"
      <4>1. PICK execution \in {"known-failed", "unknown"} :
              commands' = [commands EXCEPT ![c].step = "record", ![c].outcome = "APPLY_FAILED",
                                          ![c].execution = execution]
        BY <3>5
      <4>2. QED
        BY <2>1, <3>3, <4>1, Executes3
    <3>6. QED
      BY <2>10, <3>4, <3>5 DEF Send, Concludes
  <2>11. QED
    BY <1>1, <2>2, <2>3, <2>4, <2>5, <2>6, <2>7, <2>8, <2>9, <2>10, OthersStand
<1>2. HubInv /\ [HubNext]_hubVars =>
        [\A c \in Commands :
           /\ Concludes(c, "COMPLIANT") => Governed(hub)
           /\ Concludes(c, "APPLIED") /\ commands[c].input.scope = "protection" =>
                (commands'[c].verified => Governed(hub))
           /\ At(c, "send") /\ commands[c].input.scope = "protection" /\ commands[c].seen = hub =>
                (commands'[c].execution = "accepted" => Governed(hub'))]_hubVars
  BY <1>1
<1>3. QED
  BY <1>2, HubInvariant, PTL DEF HubSpec, GovernanceIsReal

-----------------------------------------------------------------------------
(* Commands over a checkout.  What a command is about to write is worth    *)
(* what it has read: that a baseline was reviewed, and that a generated    *)
(* file replaces none of a person's, goes from plan to write to file.      *)

Declared == {"absent", "accepted"}
Mine(file) == file.kind = "human" \/ (file.kind = "generated" /\ ~file.intact)
CleanBootstrap(run) == run.conclusion = "success" /\ run.trusted /\ run.bootstrap

\* A record that nobody edited is of a run that may bootstrap.
RecordOk(file, R) ==
  \/ file \in {NoFile, Torn}
  \/ \E run \in R :
       /\ CleanBootstrap(run)
       /\ file \in {Provenance(run.scan), [Provenance(run.scan) EXCEPT !.edited = TRUE]}

\* The findings of such a run, of the commit and for the configuration it was asked at.
ReviewedBaseline(file, k, R, C) ==
  \E run \in R :
    /\ file = Document(run.scan) /\ CleanBootstrap(run)
    /\ run.scan.branch = "main" /\ run.scan.commit = k.head
    /\ run.scan.scope = k.config.scope
    /\ Content(C[k.head].tree, "ignore") = run.scan.ignore

WriteOk(w, k, R, C) ==
  /\ w.path \in Paths
  /\ w.path = "config" => w.content \in Configurations(Declared)
  /\ w.path = "baseline" => w.exclusive /\ ReviewedBaseline(w.content, k, R, C)
  /\ w.path = "provenance" => RecordOk(w.content, R)
  /\ w.path \in {"security", "delivery", "ignore"} => w.path \in k.named \/ ~Mine(k.seen[w.path])

WritesOk(s, k, R, C) ==
  /\ s \in Seq({s[i] : i \in DOMAIN s})
  /\ \A i \in DOMAIN s : WriteOk(s[i], k, R, C)

CommandFields(k) ==
  DOMAIN k = {"step", "name", "config", "named", "todo", "head", "seen"}

PendingOk(k, R, C) ==
  \/ k = NoCommand
  \/ /\ CommandFields(k)
     /\ k.step \in {"asked", "write"} /\ k.config \in Configurations(Declared)
     /\ k.head \in DOMAIN C
     /\ IF k.name = "accept" /\ k.step = "asked"
        THEN ReviewedBaseline(k.todo[1], k, R, C)
        ELSE k.todo # << >> /\ WritesOk(k.todo, k, R, C)

FilesOk(t) == ConfigRead(t) /\ t["baseline"] # Link
TreeOk(t, R) == t = [p \in Paths |-> t[p]] /\ FilesOk(t) /\ RecordOk(t["provenance"], R)
CommitsOk(C) == C \in Seq({C[i] : i \in DOMAIN C}) /\ \A i \in DOMAIN C : FilesOk(C[i].tree)
RunsOk(R, C) ==
  \A run \in R : /\ run.scan.commit \in DOMAIN C
                 /\ run.scan.ignore = Content(C[run.scan.commit].tree, "ignore")

CheckoutInv ==
  /\ TreeOk(tree, runs) /\ CommitsOk(commits) /\ head \in DOMAIN commits
  /\ RunsOk(runs, commits) /\ PendingOk(command, runs, commits)

\* More runs and more commits take nothing back.
LEMMA Later ==
  ASSUME NEW R, NEW R2, NEW C, NEW C2, R \subseteq R2,
         \A i \in DOMAIN C : i \in DOMAIN C2 /\ C2[i] = C[i]
  PROVE  /\ \A file : RecordOk(file, R) => RecordOk(file, R2)
         /\ \A k : PendingOk(k, R, C) => PendingOk(k, R2, C2)
<1>1. ASSUME NEW file, RecordOk(file, R) PROVE RecordOk(file, R2)
  BY <1>1 DEF RecordOk
<1>2. ASSUME NEW file, NEW k, k.head \in DOMAIN C, ReviewedBaseline(file, k, R, C)
      PROVE  ReviewedBaseline(file, k, R2, C2)
  BY <1>2 DEF ReviewedBaseline
<1>3. ASSUME NEW w, NEW k, k.head \in DOMAIN C, WriteOk(w, k, R, C)
      PROVE  WriteOk(w, k, R2, C2)
  BY <1>1, <1>2, <1>3 DEF WriteOk
<1>4. ASSUME NEW k, PendingOk(k, R, C) PROVE PendingOk(k, R2, C2)
  BY <1>2, <1>3, <1>4 DEF PendingOk, WritesOk
<1>5. QED
  BY <1>1, <1>4

LEMMA Listed ==
  ASSUME NEW S, NEW s \in Seq(S), NEW k, NEW R, NEW C, \A w \in S : WriteOk(w, k, R, C)
  PROVE  WritesOk(s, k, R, C)
<1>1. /\ DOMAIN s = 1 .. Len(s) /\ Len(s) \in Nat
      /\ s \in [1 .. Len(s) -> {s[i] : i \in DOMAIN s}]
      /\ \A i \in 1 .. Len(s) : s[i] \in S
  BY LenProperties, ElementOfSeq
<1>2. s \in Seq({s[i] : i \in DOMAIN s})
  BY <1>1, SeqDef
<1>3. QED
  BY <1>1, <1>2 DEF WritesOk

LEMMA NoWrites == ASSUME NEW k, NEW R, NEW C PROVE WritesOk(<< >>, k, R, C)
BY EmptySeq DEF WritesOk

LEMMA OneWrite ==
  ASSUME NEW w, NEW k, NEW R, NEW C, WriteOk(w, k, R, C)
  PROVE  WritesOk(<<w>>, k, R, C)
<1> DEFINE S == {w}
<1>1. <<w>> \in Seq(S) /\ \A x \in S : WriteOk(x, k, R, C)
  OBVIOUS
<1> HIDE DEF S
<1>2. QED
  BY <1>1, Listed

LEMMA MoreWrites ==
  ASSUME NEW s, NEW t, NEW k, NEW R, NEW C, WritesOk(s, k, R, C), WritesOk(t, k, R, C)
  PROVE  WritesOk(s \o t, k, R, C)
<1> DEFINE A == {s[i] : i \in DOMAIN s}
           B == {t[i] : i \in DOMAIN t}
<1>1. s \in Seq(A \cup B) /\ t \in Seq(A \cup B)
  <2>1. s \in Seq(A) /\ t \in Seq(B)
    BY DEF WritesOk
  <2>2. QED
    BY <2>1, SeqMonotonic
<1>2. \A w \in A \cup B : WriteOk(w, k, R, C)
  BY DEF WritesOk
<1> HIDE DEF A, B
<1>3. QED
  BY <1>1, <1>2, ConcatProperties, Listed

LEMMA NextWrite ==
  ASSUME NEW s, NEW k, NEW R, NEW C, WritesOk(s, k, R, C), s # << >>
  PROVE  WriteOk(Head(s), k, R, C) /\ WritesOk(Tail(s), k, R, C)
<1> DEFINE A == {s[i] : i \in DOMAIN s}
<1>1. s \in Seq(A) /\ \A w \in A : WriteOk(w, k, R, C)
  BY DEF WritesOk
<1> HIDE DEF A
<1>2. Head(s) \in A /\ Tail(s) \in Seq(A)
  BY <1>1, HeadTailProperties
<1>3. WriteOk(Head(s), k, R, C)
  BY <1>1, <1>2
<1>4. WritesOk(Tail(s), k, R, C)
  BY <1>1, <1>2, Listed
<1>5. QED
  BY <1>3, <1>4

\* What a plan for a configuration writes is no link, and over nothing of a person's.
LEMMA PlannedContent ==
  ASSUME NEW t, NEW c \in Configurations(Declared), NEW named, ~WriteConflicts(t, c, named),
         NEW p \in DOMAIN RenderAll(c), PlanWrites(t, c, named)[p] # "unchanged"
  PROVE  p \in named \/ ~Mine(t[p])
<1> DEFINE new == RenderAll(c)[p]
<1>1. PlanWrites(t, c, named)[p] = PlanWrite(t, p, new, named)
  BY DEF PlanWrites
<1>2. PlanWrite(t, p, new, named) \notin {"conflict", "unchanged"}
  BY <1>1 DEF WriteConflicts
<1> HIDE DEF new
<1>3. CASE Content(t, p) = NoFile
  BY <1>3 DEF Content, NoFile, Link, Mine
<1>4. CASE Content(t, p) # NoFile /\ Content(t, p) # new /\ Content(t, p).kind = "generated"
             /\ Content(t, p).intact
  BY <1>4 DEF Content, NoFile, Mine
<1>5. CASE Content(t, p) # NoFile /\ Content(t, p) # new
             /\ ~(Content(t, p).kind = "generated" /\ Content(t, p).intact)
  BY <1>2, <1>5 DEF PlanWrite
<1>6. QED
  BY <1>2, <1>3, <1>4, <1>5 DEF PlanWrite

LEMMA PlannedOk ==
  ASSUME NEW t, NEW c \in Configurations(Declared), NEW named, ~WriteConflicts(t, c, named),
         NEW k, k.named = named, k.seen = t, NEW R, NEW C
  PROVE  WritesOk(ApplyWrites(t, c, named), k, R, C)
<1> DEFINE plan == PlanWrites(t, c, named)
           Wanted(p) == IF p \in DOMAIN plan /\ plan[p] # "unchanged"
                        THEN <<Write(p, RenderAll(c)[p])>> ELSE << >>
<1>1. ASSUME NEW p \in {"security", "delivery", "ignore"}
      PROVE  WritesOk(Wanted(p), k, R, C)
  <2>1. CASE p \in DOMAIN plan /\ plan[p] # "unchanged"
    <3>1. p \in DOMAIN RenderAll(c)
      BY <2>1 DEF PlanWrites
    <3>2. p \in named \/ ~Mine(t[p])
      BY <2>1, <3>1, PlannedContent
    <3>3. WriteOk(Write(p, RenderAll(c)[p]), k, R, C)
      BY <3>2 DEF WriteOk, Write, Paths, Tracked
    <3>4. QED
      BY <2>1, <3>3, OneWrite
  <2>2. CASE ~(p \in DOMAIN plan /\ plan[p] # "unchanged")
    BY <2>2, NoWrites
  <2>3. QED
    BY <2>1, <2>2
<1>2. ApplyWrites(t, c, named) = Wanted("security") \o Wanted("delivery") \o Wanted("ignore")
  BY DEF ApplyWrites
<1> HIDE DEF Wanted
<1>3. WritesOk(Wanted("security") \o Wanted("delivery"), k, R, C)
  BY <1>1, MoreWrites
<1>4. QED
  BY <1>1, <1>2, <1>3, MoreWrites

\* The configuration is written first, then what is planned.
LEMMA ConfigThenPlanned ==
  ASSUME NEW t, NEW c \in Configurations(Declared), NEW named, ~WriteConflicts(t, c, named),
         NEW k, k.named = named, k.seen = t, NEW R, NEW C,
         NEW w \in {Write("config", c), WriteNew("config", c)}
  PROVE  /\ WritesOk(<<w>> \o ApplyWrites(t, c, named), k, R, C)
         /\ <<w>> \o ApplyWrites(t, c, named) # << >>
<1>1. WriteOk(w, k, R, C)
  BY DEF WriteOk, Write, WriteNew, Paths, Tracked
<1>2. WritesOk(<<w>>, k, R, C) /\ WritesOk(ApplyWrites(t, c, named), k, R, C)
  BY <1>1, OneWrite, PlannedOk
<1>3. <<w>> \o ApplyWrites(t, c, named) # << >>
  <2> DEFINE s == ApplyWrites(t, c, named)
             S == {w} \cup {s[i] : i \in DOMAIN s}
  <2>1. <<w>> \in Seq(S) /\ s \in Seq(S)
    <3>1. <<w>> \in Seq({w}) /\ s \in Seq({s[i] : i \in DOMAIN s})
      BY <1>2 DEF WritesOk
    <3>2. QED
      BY <3>1, SeqMonotonic
  <2> HIDE DEF S, s
  <2>2. <<w>> # << >>
    OBVIOUS
  <2>3. <<w>> \o s # << >>
    BY <2>1, <2>2, ConcatEqualIffEmpty
  <2>4. QED
    BY <2>3 DEF s
<1>4. QED
  BY <1>2, <1>3, MoreWrites

\* What is carried out or asked about with sound writes is sound.
LEMMA BegunOk ==
  ASSUME NEW step \in {"asked", "write"}, NEW name, NEW config \in Configurations(Declared),
         NEW named, NEW todo, head \in DOMAIN commits, NEW R,
         IF name = "accept" /\ step = "asked"
         THEN ReviewedBaseline(todo[1], Begun(step, name, config, named, todo), R, commits)
         ELSE todo # << >> /\ WritesOk(todo, Begun(step, name, config, named, todo), R, commits)
  PROVE  PendingOk(Begun(step, name, config, named, todo), R, commits)
BY DEF PendingOk, Begun, CommandFields

LEMMA Kinds ==
  /\ NoFile.kind = "none" /\ Human.kind = "human" /\ Torn.kind = "torn" /\ Link.kind = "link"
  /\ \A scan : /\ Document(scan).kind = "document" /\ Provenance(scan).kind = "provenance"
               /\ [Provenance(scan) EXCEPT !.edited = TRUE].kind = "provenance"
               /\ [Provenance(scan) EXCEPT !.edited = TRUE].edited
BY DEF NoFile, Human, Torn, Link, Document, Provenance

LEMMA FileChanged ==
  ASSUME NEW t, NEW R, TreeOk(t, R), NEW p \in Paths, NEW x,
         p = "config" /\ x.kind = "config" => x \in Configurations(Declared),
         p = "baseline" => x # Link, p = "provenance" => RecordOk(x, R)
  PROVE  TreeOk([t EXCEPT ![p] = x], R)
<1> DEFINE t2 == [t EXCEPT ![p] = x]
<1>1. t = [q \in Paths |-> t[q]] /\ FilesOk(t) /\ RecordOk(t["provenance"], R)
  BY DEF TreeOk
<1>2. DOMAIN t = Paths /\ \A q \in Paths : t2[q] = IF q = p THEN x ELSE t[q]
  BY <1>1
<1>3. t2 = [q \in Paths |-> t2[q]]
  BY <1>1, <1>2
<1> HIDE DEF t2
<1>4. FilesOk(t2)
  BY <1>1, <1>2 DEF FilesOk, ConfigRead, Paths, Tracked, Declared
<1>5. RecordOk(t2["provenance"], R)
  BY <1>1, <1>2 DEF Paths, Candidates
<1>6. QED
  BY <1>3, <1>4, <1>5 DEF TreeOk, t2

\* A step of a command that only asks or plans.
LEMMA OnlyAsks ==
  ASSUME CheckoutInv, OnlyCommand, PendingOk(command', runs, commits)
  PROVE  CheckoutInv'
BY DEF CheckoutInv, OnlyCommand

LEMMA ConfigIsTyped ==
  ASSUME CheckoutInv, Config.kind = "config"
  PROVE  Config \in Configurations(Declared) /\ Config = tree["config"]
BY DEF CheckoutInv, TreeOk, FilesOk, ConfigRead, Config, Content, NoFile, Declared

LEMMA BuiltIsTyped ==
  ASSUME NEW partial \in Partials
  PROVE  BuildConfig(partial) \in Configurations(Declared)
BY RolloutAssumption DEF BuildConfig, Configurations, Declared

LEMMA KeepsOnboard ==
  ASSUME CheckoutInv, NEW partial \in Partials, NEW named, Onboard(partial, named)
  PROVE  CheckoutInv'
<1> DEFINE c == BuildConfig(partial)
           todo == <<WriteNew("config", c)>> \o ApplyWrites(tree, c, named)
           k == Begun("asked", "onboard", c, named, todo)
<1>1. c \in Configurations(Declared) /\ ~WriteConflicts(tree, c, named)
  BY BuiltIsTyped DEF Onboard, Blocking
<1>2. command' = k
  BY DEF Onboard, Ask
<1> HIDE DEF c, todo
<1>3. k.named = named /\ k.seen = tree
  BY DEF Begun
<1>4. todo # << >> /\ WritesOk(todo, k, runs, commits)
  BY <1>1, <1>3, ConfigThenPlanned DEF todo
<1>5. PendingOk(k, runs, commits)
  BY <1>1, <1>4, BegunOk DEF CheckoutInv
<1> HIDE DEF k
<1>6. QED
  BY <1>2, <1>5, OnlyAsks DEF Onboard

LEMMA KeepsInitConfig ==
  ASSUME CheckoutInv, NEW partial \in Partials, NEW overwrite, InitConfig(partial, overwrite)
  PROVE  CheckoutInv'
<1> DEFINE c == BuildConfig(partial)
           todo == <<Write("config", c)>>
           k == Begun("asked", "init", c, {}, todo)
<1>1. c \in Configurations(Declared)
  BY BuiltIsTyped
<1>2. command' = k
  BY DEF InitConfig, Ask
<1> HIDE DEF c
<1>3. WriteOk(Write("config", c), k, runs, commits)
  BY <1>1 DEF WriteOk, Write, Paths, Tracked
<1>4. todo # << >> /\ WritesOk(todo, k, runs, commits)
  BY <1>3, OneWrite
<1> HIDE DEF todo
<1>5. PendingOk(k, runs, commits)
  BY <1>1, <1>4, BegunOk DEF CheckoutInv
<1> HIDE DEF k
<1>6. QED
  BY <1>2, <1>5, OnlyAsks DEF InitConfig

LEMMA KeepsRender ==
  ASSUME CheckoutInv, NEW named, NEW prune, Render(named, prune)
  PROVE  CheckoutInv'
<1> DEFINE gone == {p \in Stale(tree, Config) : prune /\ (tree[p].intact \/ p \in named)}
           Removal(p) == IF p \in gone THEN <<Remove(p)>> ELSE << >>
           todo == ApplyWrites(tree, Config, named) \o Removal("delivery") \o Removal("ignore")
           k == Begun("write", "render", Config, named, todo)
<1>1. Config \in Configurations(Declared) /\ ~WriteConflicts(tree, Config, named)
  BY ConfigIsTyped DEF Render, Blocking
<1>2. command' = IF todo = << >> THEN NoCommand ELSE k
  BY DEF Render, Carry
<1>3. k.named = named /\ k.seen = tree
  BY DEF Begun
<1>4. ASSUME NEW p \in {"delivery", "ignore"}
      PROVE  WritesOk(Removal(p), k, runs, commits)
  <2>1. CASE p \in gone
    <3>1. p \in named \/ ~Mine(tree[p])
      BY <2>1 DEF Stale, Content, Mine, NoFile
    <3>2. WriteOk(Remove(p), k, runs, commits)
      BY <1>3, <3>1 DEF WriteOk, Remove, Paths, Tracked
    <3>3. QED
      BY <2>1, <3>2, OneWrite
  <2>2. CASE p \notin gone
    BY <2>2, NoWrites
  <2>3. QED
    BY <2>1, <2>2
<1>5. WritesOk(ApplyWrites(tree, Config, named), k, runs, commits)
  BY <1>1, <1>3, PlannedOk
<1> DEFINE first == ApplyWrites(tree, Config, named) \o Removal("delivery")
<1>6. todo = first \o Removal("ignore")
  OBVIOUS
<1> HIDE DEF Removal, k, todo
<1>7. WritesOk(todo, k, runs, commits)
  BY <1>4, <1>5, <1>6, MoreWrites
<1>8. CASE todo # << >>
  <2>1. PendingOk(k, runs, commits)
    BY <1>1, <1>7, <1>8, BegunOk DEF CheckoutInv, k
  <2>2. QED
    BY <1>2, <1>8, <2>1, OnlyAsks DEF Render
<1>9. CASE todo = << >>
  BY <1>2, <1>9, OnlyAsks DEF Render, PendingOk
<1>10. QED
  BY <1>8, <1>9

LEMMA KeepsPrepare ==
  ASSUME CheckoutInv, NEW run \in runs, NEW replace, Prepare(run, replace)
  PROVE  CheckoutInv'
<1> DEFINE a == Write("candidate", Document(run.scan))
           b == Write("provenance", Provenance(run.scan))
           todo == <<a, b>>
           k == Begun("write", "prepare", Config, {}, todo)
<1>1. Config \in Configurations(Declared)
  BY ConfigIsTyped DEF Prepare, ConfigValid
<1>2. command' = k
  BY DEF Prepare, Carry
<1>3. WriteOk(a, k, runs, commits)
  BY DEF WriteOk, Write, Paths, Candidates
<1>4. WriteOk(b, k, runs, commits)
  <2>1. CleanBootstrap(run)
    BY DEF Prepare, CleanBootstrap
  <2>2. RecordOk(Provenance(run.scan), runs)
    BY <2>1 DEF RecordOk
  <2>3. QED
    BY <2>2 DEF WriteOk, Write, Paths, Candidates
<1>5. todo # << >> /\ WritesOk(todo, k, runs, commits)
  <2> HIDE DEF a, b, k
  <2>1. todo \in Seq({a, b}) /\ todo # << >>
    OBVIOUS
  <2> HIDE DEF todo
  <2>2. QED
    BY <1>3, <1>4, <2>1, Listed
<1> HIDE DEF todo
<1>6. PendingOk(k, runs, commits)
  BY <1>1, <1>5, BegunOk DEF CheckoutInv
<1> HIDE DEF k
<1>7. QED
  BY <1>2, <1>6, OnlyAsks DEF Prepare

\* A candidate that is bound to this checkout is one to show.
LEMMA KeepsAccept ==
  ASSUME CheckoutInv, Accept
  PROVE  CheckoutInv'
<1> DEFINE candidate == Content(tree, "candidate")
           record == Content(tree, "provenance")
           todo == <<candidate>>
           k == Begun("asked", "accept", Config, {}, todo)
<1>1. Config \in Configurations(Declared)
  BY ConfigIsTyped DEF Accept
<1>2. command' = k
  BY DEF Accept, Ask
<1>3. /\ record.kind = "provenance" /\ ~record.edited /\ record.document = candidate
      /\ record.scan.branch = "main" /\ record.scan.scope = Config.scope
      /\ record.scan.commit = head /\ Content(tree, "ignore") = record.scan.ignore
  BY DEF Accept, ProvenanceIntegrity, ProvenanceBound, CheckoutBound
<1>4. PICK run \in runs : CleanBootstrap(run) /\ record = Provenance(run.scan)
  <2>1. record = tree["provenance"] /\ RecordOk(record, runs)
    BY <1>3 DEF CheckoutInv, TreeOk, Content, NoFile
  <2>2. record \notin {NoFile, Torn}
    BY <1>3 DEF NoFile, Torn
  <2>3. PICK run \in runs :
          /\ CleanBootstrap(run)
          /\ record \in {Provenance(run.scan), [Provenance(run.scan) EXCEPT !.edited = TRUE]}
    BY <2>1, <2>2 DEF RecordOk
  <2>4. [Provenance(run.scan) EXCEPT !.edited = TRUE].edited
    BY DEF Provenance
  <2>5. QED
    BY <1>3, <2>3, <2>4
<1>5. record.scan = run.scan /\ record.document = Document(run.scan)
  BY <1>4 DEF Provenance
<1>6. Content(commits[head].tree, "ignore") = run.scan.ignore
  BY <1>3, <1>5 DEF CheckoutInv, RunsOk
<1> HIDE DEF candidate, record
<1>7. k.head = head /\ k.config = Config /\ todo[1] = candidate
  BY DEF Begun
<1>8. ReviewedBaseline(todo[1], k, runs, commits)
  BY <1>3, <1>4, <1>5, <1>6, <1>7 DEF ReviewedBaseline
<1> HIDE DEF todo
<1>9. PendingOk(k, runs, commits)
  BY <1>1, <1>8, BegunOk DEF CheckoutInv
<1> HIDE DEF k
<1>10. QED
  BY <1>2, <1>9, OnlyAsks DEF Accept

LEMMA KeepsPromote ==
  ASSUME CheckoutInv, Promote
  PROVE  CheckoutInv'
<1> DEFINE c == [Config EXCEPT !.gate = "enforce"]
           todo == <<Write("config", c)>> \o ApplyWrites(tree, c, {})
           k == Begun("asked", "promote", Config, {}, todo)
<1>1. Config \in Configurations(Declared)
  BY ConfigIsTyped DEF Promote
<1>2. c \in Configurations(Declared) /\ ~WriteConflicts(tree, c, {})
  BY <1>1 DEF Promote, Configurations
<1>3. command' = k
  BY DEF Promote, Ask
<1> HIDE DEF c, todo
<1>4. k.named = {} /\ k.seen = tree
  BY DEF Begun
<1>5. todo # << >> /\ WritesOk(todo, k, runs, commits)
  BY <1>2, <1>4, ConfigThenPlanned DEF todo
<1>6. PendingOk(k, runs, commits)
  BY <1>1, <1>5, BegunOk DEF CheckoutInv
<1> HIDE DEF k
<1>7. QED
  BY <1>3, <1>6, OnlyAsks DEF Promote

\* The candidate that was shown becomes the baseline, exclusively; the files are planned anew.
LEMMA KeepsAcceptConfirmed ==
  ASSUME CheckoutInv, command.step = "asked", command.name = "accept", AcceptConfirmed
  PROVE  PendingOk(command', runs, commits)
<1> DEFINE c == [command.config EXCEPT !.base = "accepted"]
           a == WriteNew("baseline", command.todo[1])
           b == Remove("provenance")
           d == Remove("candidate")
           e == Write("config", c)
           start == <<a, b, d, e>>
           todo == start \o ApplyWrites(tree, c, {})
           k == [command EXCEPT !.step = "write", !.seen = tree, !.todo = todo]
<1>1. CASE WriteConflicts(tree, c, {})
  BY <1>1 DEF AcceptConfirmed, PendingOk
<1>2. CASE ~WriteConflicts(tree, c, {})
  <2>1. command' = k /\ k = [command EXCEPT !.step = "write", !.seen = tree, !.todo = todo]
    BY <1>2 DEF AcceptConfirmed
  <2>2. /\ CommandFields(command) /\ command.config \in Configurations(Declared)
        /\ command.head \in DOMAIN commits
        /\ ReviewedBaseline(command.todo[1], command, runs, commits)
    BY DEF CheckoutInv, PendingOk, NoCommand
  <2>3. c \in Configurations(Declared)
    BY <2>2 DEF Configurations, Declared
  <2> HIDE DEF todo, k
  <2>4. /\ CommandFields(k) /\ k.step = "write" /\ k.config = command.config
        /\ k.head = command.head /\ k.todo = todo /\ k.seen = tree /\ k.named = command.named
    <3>1. k = [[[command EXCEPT !.step = "write"] EXCEPT !.seen = tree] EXCEPT !.todo = todo]
      BY <2>1
    <3>2. QED
      BY <2>2, <3>1 DEF CommandFields
  <2> DEFINE k0 == [k EXCEPT !.named = {}]
  <2>5. k0.named = {} /\ k0.seen = tree
    BY <2>4 DEF CommandFields
  <2>6. \A w : WriteOk(w, k0, runs, commits) => WriteOk(w, k, runs, commits)
    <3>1. k0.head = k.head /\ k0.config = k.config /\ k0.seen = k.seen /\ k0.named = {}
      BY <2>4 DEF CommandFields
    <3> HIDE DEF k0
    <3>2. QED
      BY <3>1 DEF WriteOk, ReviewedBaseline
  <2> HIDE DEF k0, c
  <2>7. WritesOk(ApplyWrites(tree, c, {}), k, runs, commits)
    <3>1. WritesOk(ApplyWrites(tree, c, {}), k0, runs, commits)
      BY <1>2, <2>3, <2>5, PlannedOk DEF c
    <3>2. QED
      BY <2>6, <3>1 DEF WritesOk
  <2>8. WriteOk(a, k, runs, commits)
    BY <2>2, <2>4 DEF WriteOk, WriteNew, ReviewedBaseline, Paths, Tracked
  <2>9. WriteOk(b, k, runs, commits) /\ WriteOk(d, k, runs, commits)
    BY DEF WriteOk, Remove, RecordOk, Paths, Candidates
  <2>10. WriteOk(e, k, runs, commits)
    BY <2>3 DEF WriteOk, Write, Paths, Tracked
  <2> HIDE DEF a, b, d, e
  <2>11. start \in Seq({a, b, d, e}) /\ start # << >>
    OBVIOUS
  <2> HIDE DEF start
  <2>12. WritesOk(start, k, runs, commits)
    BY <2>8, <2>9, <2>10, <2>11, Listed
  <2>13. WritesOk(todo, k, runs, commits)
    BY <2>7, <2>12, MoreWrites DEF todo
  <2>14. todo # << >>
    <3> DEFINE s == ApplyWrites(tree, c, {})
               S == {start[i] : i \in DOMAIN start} \cup {s[i] : i \in DOMAIN s}
    <3>1. start \in Seq(S) /\ s \in Seq(S)
      BY <2>7, <2>12, SeqMonotonic DEF WritesOk
    <3> HIDE DEF S, s
    <3>2. start \o s # << >>
      BY <2>11, <3>1, ConcatEqualIffEmpty
    <3>3. QED
      BY <3>2 DEF s, todo
  <2>15. QED
    BY <2>1, <2>2, <2>4, <2>13, <2>14 DEF PendingOk
<1>3. QED
  BY <1>1, <1>2

LEMMA KeepsAnswer ==
  ASSUME CheckoutInv, Answer
  PROVE  CheckoutInv'
<1>1. CASE command' = NoCommand
  BY <1>1, OnlyAsks DEF Answer, PendingOk
<1>2. CASE command.name = "accept" /\ AcceptConfirmed
  BY <1>2, KeepsAcceptConfirmed, OnlyAsks DEF Answer
<1>3. CASE command.name # "accept" /\ command' = [command EXCEPT !.step = "write"]
  <2> DEFINE k == [command EXCEPT !.step = "write"]
  <2>1. /\ CommandFields(command) /\ command.config \in Configurations(Declared)
        /\ command.head \in DOMAIN commits
        /\ command.todo # << >> /\ WritesOk(command.todo, command, runs, commits)
    BY <1>3 DEF Answer, CheckoutInv, PendingOk, NoCommand
  <2>2. /\ CommandFields(k) /\ k.step = "write" /\ k.config = command.config
        /\ k.head = command.head /\ k.todo = command.todo /\ k.seen = command.seen
        /\ k.named = command.named
    BY <2>1 DEF CommandFields
  <2>3. command' = k
    BY <1>3
  <2> HIDE DEF k
  <2>4. \A w : WriteOk(w, command, runs, commits) => WriteOk(w, k, runs, commits)
    BY <2>2 DEF WriteOk, ReviewedBaseline
  <2>5. WritesOk(k.todo, k, runs, commits)
    BY <2>1, <2>2, <2>4 DEF WritesOk
  <2>6. PendingOk(k, runs, commits)
    BY <2>1, <2>2, <2>5 DEF PendingOk
  <2>7. QED
    BY <2>3, <2>6, OnlyAsks DEF Answer
<1>4. QED
  BY <1>1, <1>2, <1>3 DEF Answer, Confirmed

\* A command under way has a next write, and it is sound.
LEMMA WritingNext ==
  ASSUME CheckoutInv, command.step = "write"
  PROVE  /\ CommandFields(command) /\ command.config \in Configurations(Declared)
         /\ command.head \in DOMAIN commits
         /\ command.todo # << >> /\ WritesOk(command.todo, command, runs, commits)
         /\ WriteOk(Head(command.todo), command, runs, commits)
<1>1. /\ CommandFields(command) /\ command.config \in Configurations(Declared)
      /\ command.head \in DOMAIN commits
      /\ command.todo # << >> /\ WritesOk(command.todo, command, runs, commits)
  BY DEF CheckoutInv, PendingOk, NoCommand
<1>2. QED
  BY <1>1, NextWrite

LEMMA KeepsWriteNext ==
  ASSUME CheckoutInv, WriteNext
  PROVE  CheckoutInv'
<1> DEFINE w == Head(command.todo)
           rest == Tail(command.todo)
           k == [command EXCEPT !.todo = rest]
<1>1. /\ CommandFields(command) /\ command.config \in Configurations(Declared)
      /\ command.head \in DOMAIN commits
      /\ command.todo # << >> /\ WritesOk(command.todo, command, runs, commits)
      /\ WriteOk(w, command, runs, commits)
  BY WritingNext DEF WriteNext
<1>2. WritesOk(rest, command, runs, commits)
  BY <1>1, NextWrite
<1> HIDE DEF w, rest
<1>3. PendingOk(command', runs, commits)
  <2>1. CASE command' = NoCommand
    BY <2>1 DEF PendingOk
  <2>2. CASE rest # << >> /\ command' = k
    <3>1. /\ CommandFields(k) /\ k.step = "write" /\ k.config = command.config
          /\ k.head = command.head /\ k.todo = rest /\ k.seen = command.seen
          /\ k.named = command.named
      BY <1>1 DEF CommandFields, WriteNext
    <3> HIDE DEF k
    <3>2. \A x : WriteOk(x, command, runs, commits) => WriteOk(x, k, runs, commits)
      BY <3>1 DEF WriteOk, ReviewedBaseline
    <3>3. WritesOk(k.todo, k, runs, commits)
      BY <1>2, <3>1, <3>2 DEF WritesOk
    <3>4. QED
      BY <1>1, <2>2, <3>1, <3>3 DEF PendingOk
  <2>3. QED
    BY <2>1, <2>2 DEF WriteNext, w, rest
<1>4. TreeOk(tree', runs)
  <2>1. CASE tree' = [tree EXCEPT ![w.path] = w.content]
    <3>1. w.path = "baseline" => w.content # Link
      BY <1>1, Kinds DEF WriteOk, ReviewedBaseline
    <3>2. /\ w.path \in Paths /\ (w.path = "config" => w.content \in Configurations(Declared))
          /\ (w.path = "provenance" => RecordOk(w.content, runs))
      BY <1>1 DEF WriteOk
    <3>3. QED
      BY <2>1, <3>1, <3>2, FileChanged DEF CheckoutInv
  <2>2. CASE tree' = tree
    BY <2>2 DEF CheckoutInv
  <2>3. QED
    BY <2>1, <2>2 DEF WriteNext, w
<1>5. QED
  BY <1>3, <1>4 DEF CheckoutInv, WriteNext

LEMMA KeepsDie ==
  ASSUME CheckoutInv, Die
  PROVE  CheckoutInv'
<1> DEFINE w == Head(command.todo)
<1>1. PendingOk(command', runs, commits)
  BY DEF Die, PendingOk
<1>2. CASE tree' = tree
  BY <1>1, <1>2 DEF CheckoutInv, Die
<1>3. ASSUME command.step = "write", NEW r \in Remains(w.content),
             tree' = [tree EXCEPT ![w.path] = r]
      PROVE  CheckoutInv'
  <2>1. WriteOk(w, command, runs, commits)
    BY <1>3, WritingNext
  <2> HIDE DEF w
  <2>2. r.kind \in {"generated", "human", "torn"}
    <3>1. CASE w.content.kind = "generated" /\ r = [w.content EXCEPT !.intact = FALSE]
      BY <3>1
    <3>2. CASE r \in {Human, Torn}
      BY <3>2, Kinds
    <3>3. QED
      BY <1>3, <3>1, <3>2 DEF Remains
  <2>3. w.path = "provenance" => r = Torn
    <3>1. ASSUME w.path = "provenance" PROVE w.content.kind # "generated"
      BY <2>1, <3>1, Kinds DEF WriteOk, RecordOk
    <3>2. QED
      BY <1>3, <3>1 DEF Remains
  <2>4. (w.path = "config" => r.kind # "config") /\ (w.path = "baseline" => r # Link)
    BY <2>2, Kinds
  <2>5. TreeOk(tree', runs)
    BY <1>3, <2>1, <2>3, <2>4, FileChanged DEF CheckoutInv, WriteOk, RecordOk
  <2>6. QED
    BY <1>1, <2>5 DEF CheckoutInv, Die
<1>4. QED
  BY <1>2, <1>3 DEF Die

LEMMA KeepsEditByHand ==
  ASSUME CheckoutInv, NEW p \in Paths, EditByHand(p)
  PROVE  CheckoutInv'
<1>1. PICK x \in Edited(p, tree[p]) : tree' = [tree EXCEPT ![p] = x]
  BY DEF EditByHand
<1>2. ASSUME p = "config" PROVE x \in Configurations(Declared)
  BY <1>1, <1>2 DEF Edited, Declared, Candidates
<1>3. ASSUME p = "baseline" PROVE x # Link
  <2> DEFINE byHand(s) == Document([known |-> FALSE, scope |-> s])
  <2>1. \A s : byHand(s).kind = "document"
    BY Kinds
  <2>2. x \in {NoFile} \cup {byHand(s) : s \in Scopes}
    BY <1>1, <1>3 DEF Edited, Candidates
  <2> HIDE DEF byHand
  <2>3. QED
    BY <2>1, <2>2, Kinds
<1>4. ASSUME p = "provenance" PROVE RecordOk(x, runs)
  <2>1. RecordOk(tree[p], runs)
    BY <1>4 DEF CheckoutInv, TreeOk
  <2>2. CASE x = NoFile
    BY <2>2 DEF RecordOk
  <2>3. CASE x = [tree[p] EXCEPT !.edited = TRUE] /\ tree[p].kind \in {"document", "provenance"}
    <3>1. tree[p] \notin {NoFile, Torn}
      BY <2>3 DEF NoFile, Torn
    <3>2. PICK run \in runs :
            /\ CleanBootstrap(run)
            /\ tree[p] \in {Provenance(run.scan), [Provenance(run.scan) EXCEPT !.edited = TRUE]}
      BY <2>1, <3>1 DEF RecordOk
    <3>3. x = [Provenance(run.scan) EXCEPT !.edited = TRUE]
      BY <2>3, <3>2 DEF Provenance
    <3>4. QED
      BY <3>2, <3>3 DEF RecordOk
  <2>4. QED
    BY <1>1, <1>4, <2>2, <2>3 DEF Edited, Candidates
<1>5. TreeOk(tree', runs)
  BY <1>1, <1>2, <1>3, <1>4, FileChanged DEF CheckoutInv
<1>6. QED
  BY <1>5 DEF CheckoutInv, EditByHand

LEMMA KeepsCommit ==
  ASSUME CheckoutInv, NEW branch, Commit(branch)
  PROVE  CheckoutInv'
<1> DEFINE x == [branch |-> branch, tree |-> [p \in Tracked |-> tree[p]]]
           S == {commits[i] : i \in DOMAIN commits} \cup {x}
<1>1. commits' = Append(commits, x) /\ head' = Len(commits) + 1
  BY DEF Commit
<1>2. FilesOk(x.tree)
  <2>1. x.tree["config"] = tree["config"] /\ x.tree["baseline"] = tree["baseline"]
    BY DEF Tracked
  <2>2. QED
    BY <2>1 DEF CheckoutInv, TreeOk, FilesOk, ConfigRead
<1>3. commits \in Seq(S) /\ x \in S
  BY SeqMonotonic DEF CheckoutInv, CommitsOk
<1>4. \A y \in S : FilesOk(y.tree)
  BY <1>2 DEF CheckoutInv, CommitsOk
<1> HIDE DEF x, S
<1>5. /\ commits' \in Seq(S) /\ Len(commits) \in Nat /\ DOMAIN commits = 1 .. Len(commits)
      /\ DOMAIN commits' = 1 .. Len(commits) + 1
      /\ \A i \in DOMAIN commits : commits'[i] = commits[i]
  BY <1>1, <1>3, LenProperties
<1>6. CommitsOk(commits')
  <2>1. \A i \in DOMAIN commits' : commits'[i] \in S
    BY <1>5, LenProperties, ElementOfSeq
  <2>2. commits' \in Seq({commits'[i] : i \in DOMAIN commits'})
    <3>1. commits' \in [1 .. Len(commits) + 1 -> {commits'[i] : i \in DOMAIN commits'}]
      BY <1>5, LenProperties
    <3>2. QED
      BY <1>5, <3>1, SeqDef
  <2>3. QED
    BY <1>4, <2>1, <2>2 DEF CommitsOk
<1>7. head' \in DOMAIN commits'
  BY <1>1, <1>5
<1>8. \A i \in DOMAIN commits : i \in DOMAIN commits' /\ commits'[i] = commits[i]
  BY <1>5
<1>9. RunsOk(runs, commits')
  BY <1>8 DEF CheckoutInv, RunsOk
<1>10. PendingOk(command, runs, commits')
  <2> DEFINE C2 == commits'
  <2>1. \A i \in DOMAIN commits : i \in DOMAIN C2 /\ C2[i] = commits[i]
    BY <1>8
  <2> HIDE DEF C2
  <2>2. PendingOk(command, runs, C2)
    BY <2>1, Later DEF CheckoutInv
  <2>3. QED
    BY <2>2 DEF C2
<1>11. QED
  BY <1>6, <1>7, <1>9, <1>10 DEF CheckoutInv, Commit

LEMMA KeepsSwitchTo ==
  ASSUME CheckoutInv, NEW n \in DOMAIN commits, SwitchTo(n)
  PROVE  CheckoutInv'
<1>1. tree' = [p \in Paths |-> IF p \in Tracked THEN commits[n].tree[p] ELSE tree[p]]
  BY DEF SwitchTo
<1>2. /\ tree'["config"] = commits[n].tree["config"]
      /\ tree'["baseline"] = commits[n].tree["baseline"]
      /\ tree'["provenance"] = tree["provenance"]
  BY <1>1 DEF Paths, Tracked, Candidates
<1>3. FilesOk(tree')
  BY <1>2 DEF CheckoutInv, CommitsOk, FilesOk, ConfigRead
<1>4. tree' = [p \in Paths |-> tree'[p]]
  BY <1>1
<1>5. TreeOk(tree', runs)
  BY <1>2, <1>3, <1>4 DEF CheckoutInv, TreeOk
<1>6. QED
  BY <1>5 DEF CheckoutInv, SwitchTo

LEMMA KeepsRunWorkflow ==
  ASSUME CheckoutInv, NEW n \in DOMAIN commits, NEW event, NEW flaw, RunWorkflow(n, event, flaw)
  PROVE  CheckoutInv'
<1>1. PICK run : /\ runs' = runs \cup {run}
                 /\ run.scan.commit = n
                 /\ run.scan.ignore = Content(commits[n].tree, "ignore")
  <2>1. PICK id, conclusion, trusted, bootstrap, branch, scope :
          runs' = runs \cup
            {[id |-> id, conclusion |-> conclusion, trusted |-> trusted,
              bootstrap |-> bootstrap,
              scan |-> [known |-> TRUE, commit |-> n, event |-> event, branch |-> branch,
                        scope |-> scope, ignore |-> Content(commits[n].tree, "ignore")]]}
    BY ZenonT(30) DEF RunWorkflow
  <2> DEFINE scan == [known |-> TRUE, commit |-> n, event |-> event, branch |-> branch,
                      scope |-> scope, ignore |-> Content(commits[n].tree, "ignore")]
             run == [id |-> id, conclusion |-> conclusion, trusted |-> trusted,
                     bootstrap |-> bootstrap, scan |-> scan]
  <2>2. run.scan = scan
    OBVIOUS
  <2>3. scan.commit = n /\ scan.ignore = Content(commits[n].tree, "ignore")
    OBVIOUS
  <2>4. runs' = runs \cup {run}
    BY <2>1
  <2> HIDE DEF scan, run
  <2>5. QED
    BY <2>2, <2>3, <2>4
<1>2. RunsOk(runs', commits)
  BY <1>1 DEF CheckoutInv, RunsOk
<1>3. (\A file : RecordOk(file, runs) => RecordOk(file, runs \cup {run}))
      /\ PendingOk(command, runs \cup {run}, commits)
  <2> DEFINE R2 == runs \cup {run}
  <2>1. runs \subseteq R2
    OBVIOUS
  <2> HIDE DEF R2
  <2>2. (\A file : RecordOk(file, runs) => RecordOk(file, R2)) /\ PendingOk(command, R2, commits)
    BY <2>1, Later DEF CheckoutInv
  <2>3. QED
    BY <2>2 DEF R2
<1>4. TreeOk(tree, runs')
  BY <1>1, <1>3 DEF CheckoutInv, TreeOk
<1>5. QED
  BY <1>1, <1>2, <1>3, <1>4 DEF CheckoutInv, RunWorkflow

\* What any command writes, now or later, is what was reviewed and nobody's own work.
THEOREM CheckoutInvariant == RolloutSpec => []CheckoutInv
<1>1. RolloutInit => CheckoutInv
  <2> SUFFICES ASSUME RolloutInit PROVE CheckoutInv
    OBVIOUS
  <2>1. /\ CommitsOk(commits) /\ commits # << >>
        /\ tree = [p \in Paths |-> IF p \in Tracked THEN commits[head].tree[p] ELSE NoFile]
        /\ head = Len(commits) /\ runs = {} /\ command = NoCommand
    BY RolloutAssumption DEF RolloutInit, CommitsOk, FilesOk
  <2>2. head \in DOMAIN commits
    BY <2>1, EmptySeq, LenProperties DEF CommitsOk
  <2>3. FilesOk(commits[head].tree)
    BY <2>1, <2>2 DEF CommitsOk
  <2>4. /\ tree["config"] = commits[head].tree["config"]
        /\ tree["baseline"] = commits[head].tree["baseline"] /\ tree["provenance"] = NoFile
        /\ tree = [p \in Paths |-> tree[p]]
    BY <2>1 DEF Paths, Tracked, Candidates
  <2>5. TreeOk(tree, runs)
    BY <2>3, <2>4 DEF TreeOk, FilesOk, ConfigRead, RecordOk
  <2>6. QED
    BY <2>1, <2>2, <2>5 DEF CheckoutInv, RunsOk, PendingOk
<1>2. CheckoutInv /\ [RolloutNext]_rolloutVars => CheckoutInv'
  <2> SUFFICES ASSUME CheckoutInv, [RolloutNext]_rolloutVars PROVE CheckoutInv'
    OBVIOUS
  <2>1. CASE UNCHANGED rolloutVars
    BY <2>1 DEF CheckoutInv, rolloutVars
  <2>2. CASE RolloutNext
    BY <2>2, KeepsOnboard, KeepsInitConfig, KeepsRender, KeepsPrepare, KeepsAccept, KeepsPromote,
       KeepsAnswer, KeepsWriteNext, KeepsDie, KeepsEditByHand, KeepsCommit, KeepsSwitchTo,
       KeepsRunWorkflow
    DEF RolloutNext
  <2>3. QED
    BY <2>1, <2>2
<1>3. QED
  BY <1>1, <1>2, PTL DEF RolloutSpec

\* No accepted baseline but the one that was shown, and no other is replaced.
THEOREM BaselinesAreReviewed == RolloutSpec => BaselineIsReviewed
<1> DEFINE Good ==
      CommandWrites("baseline") =>
       /\ tree["baseline"] = NoFile
       /\ \/ tree'["baseline"] = Torn
          \/ \E run \in runs :
               /\ tree'["baseline"] = Document(run.scan)
               /\ run.conclusion = "success" /\ run.trusted /\ run.bootstrap
               /\ run.scan.branch = "main" /\ run.scan.commit = command.head
               /\ run.scan.scope = command.config.scope
               /\ Content(commits[command.head].tree, "ignore") = run.scan.ignore
<1>1. ASSUME CheckoutInv, RolloutNext, CommandWrites("baseline") PROVE Good
  <2> DEFINE w == Head(command.todo)
  <2>1. command' # command /\ tree'["baseline"] # tree["baseline"] /\ DOMAIN tree = Paths
    BY <1>1 DEF CommandWrites, CheckoutInv, TreeOk
  <2>2. WriteNext \/ Die
    BY <1>1, <2>1 DEF RolloutNext, Onboard, InitConfig, Render, Prepare, Accept, Promote, Answer,
      OnlyCommand, EditByHand, Commit, SwitchTo, RunWorkflow
  <2>3. PICK x : /\ command.step = "write" /\ Writable(w) /\ tree' = [tree EXCEPT ![w.path] = x]
                 /\ x = w.content \/ x \in Remains(w.content)
    BY <2>1, <2>2 DEF WriteNext, Die
  <2>4. WriteOk(w, command, runs, commits)
    BY <1>1, <2>3, WritingNext
  <2> HIDE DEF w
  <2>5. w.path = "baseline" /\ x = tree'["baseline"]
    BY <2>1, <2>3 DEF Paths, Tracked
  <2>6. tree["baseline"] = NoFile
    BY <2>3, <2>4, <2>5 DEF WriteOk, Writable
  <2>7. PICK run \in runs :
          /\ w.content = Document(run.scan) /\ CleanBootstrap(run)
          /\ run.scan.branch = "main" /\ run.scan.commit = command.head
          /\ run.scan.scope = command.config.scope
          /\ Content(commits[command.head].tree, "ignore") = run.scan.ignore
    BY <2>4, <2>5 DEF WriteOk, ReviewedBaseline
  <2>8. CASE x = w.content
    BY <2>5, <2>6, <2>7, <2>8 DEF CleanBootstrap
  <2>9. CASE x \in Remains(w.content)
    <3>1. w.content.kind # "generated"
      BY <2>7, Kinds
    <3>2. x = Torn
      BY <2>9, <3>1 DEF Remains
    <3>3. QED
      BY <2>5, <2>6, <3>2
  <2>10. QED
    BY <2>3, <2>8, <2>9
<1>2. CheckoutInv /\ [RolloutNext]_rolloutVars => [Good]_rolloutVars
  BY <1>1
<1>3. QED
  BY <1>2, CheckoutInvariant, PTL DEF RolloutSpec, BaselineIsReviewed

\* No command takes a person's file away that it was not told to, or had not seen.
THEOREM OwnFilesSurvive == RolloutSpec => EditsSurvive
<1> DEFINE Good ==
      \A p \in {"security", "delivery", "ignore"} :
        LET mine == tree[p].kind = "human" \/ (tree[p].kind = "generated" /\ ~tree[p].intact)
        IN CommandWrites(p) /\ mine => p \in command.named \/ command.seen[p] # tree[p]
<1>1. ASSUME CheckoutInv, RolloutNext,
             NEW p \in {"security", "delivery", "ignore"}, CommandWrites(p), Mine(tree[p])
      PROVE  p \in command.named \/ command.seen[p] # tree[p]
  <2> DEFINE w == Head(command.todo)
  <2>1. command' # command /\ tree'[p] # tree[p] /\ DOMAIN tree = Paths
    BY <1>1 DEF CommandWrites, CheckoutInv, TreeOk
  <2>2. WriteNext \/ Die
    BY <1>1, <2>1 DEF RolloutNext, Onboard, InitConfig, Render, Prepare, Accept, Promote, Answer,
      OnlyCommand, EditByHand, Commit, SwitchTo, RunWorkflow
  <2>3. PICK x : command.step = "write" /\ tree' = [tree EXCEPT ![w.path] = x]
    BY <2>1, <2>2 DEF WriteNext, Die
  <2>4. WriteOk(w, command, runs, commits)
    BY <1>1, <2>3, WritingNext
  <2> HIDE DEF w
  <2>5. w.path = p
    BY <2>1, <2>3
  <2>6. QED
    BY <1>1, <2>4, <2>5 DEF WriteOk
<1>2. CheckoutInv /\ [RolloutNext]_rolloutVars => [Good]_rolloutVars
  BY <1>1 DEF Mine
<1>3. QED
  BY <1>2, CheckoutInvariant, PTL DEF RolloutSpec, EditsSurvive

\* What passes validation is what the gate can run with.
THEOREM ValidationIsSound == RolloutSpec => []ValidatedIsSound
<1>1. ASSUME CheckoutInv, Validates(tree) PROVE ValidatedIsSound
  <2> DEFINE c == Content(tree, "config")
             view == tree["security"].view
             entry == BaselineEntry(tree["baseline"])
  <2>1. /\ c.kind = "config" /\ ~Blocking(tree, c, {}) /\ ~Drift(tree, c)
        /\ c \in Configurations(Declared) /\ c = tree["config"]
    BY <1>1, ConfigIsTyped DEF Validates, Config
  <2> HIDE DEF c
  <2>2. /\ c.gate = "enforce" => c.base = "accepted"
        /\ c.gate \in {"log-only", "enforce"} /\ c.base \in Declared /\ c.ecr \in BOOLEAN
    BY <2>1 DEF Blocking, ConfigValid, Configurations
  <2>3. \A p \in DOMAIN RenderAll(c) : tree[p] = RenderAll(c)[p]
    <3>1. ASSUME NEW p \in DOMAIN RenderAll(c) PROVE tree[p] = RenderAll(c)[p]
      <4> DEFINE new == RenderAll(c)[p]
      <4>1. PlanWrite(tree, p, new, {}) = "unchanged"
        BY <2>1 DEF Drift, PlanWrites
      <4>2. new.kind = "generated"
        BY DEF RenderAll, Generated
      <4> HIDE DEF new
      <4>3. Content(tree, p) = new
        BY <4>1 DEF PlanWrite
      <4>4. QED
        BY <4>2, <4>3, Kinds DEF Content, new
    <3>2. QED
      BY <3>1
  <2>4. tree["security"] = Generated(SecurityView(c))
    BY <2>3 DEF RenderAll
  <2>5. view = SecurityView(c)
    BY <2>4 DEF Generated
  <2>6. tree["delivery"].kind = "generated" <=> c.ecr /\ c.gate = "enforce"
    <3>1. ASSUME c.ecr, c.gate = "enforce" PROVE tree["delivery"].kind = "generated"
      <4>1. tree["delivery"] = RenderAll(c)["delivery"] /\ "delivery" \in DOMAIN RenderAll(c)
        BY <2>3, <3>1 DEF RenderAll
      <4>2. QED
        BY <4>1 DEF RenderAll, Generated
    <3>2. ASSUME tree["delivery"].kind = "generated" PROVE c.ecr /\ c.gate = "enforce"
      <4>1. Content(tree, "delivery") = tree["delivery"]
        BY <3>2, Kinds DEF Content
      <4>2. "delivery" \in DOMAIN RenderAll(c)
        BY <2>1, <3>2, <4>1 DEF Drift, Stale
      <4>3. QED
        BY <4>2 DEF RenderAll
    <3>3. QED
      BY <3>1, <3>2
  <2>7. IF c.base = "absent" THEN entry.state = "missing" ELSE entry.state = "ok"
    <3>1. Content(tree, "baseline") = tree["baseline"]
      BY <1>1 DEF CheckoutInv, TreeOk, FilesOk, Content
    <3>2. CASE c.base = "absent"
      <4>1. tree["baseline"] = NoFile
        BY <2>1, <3>1, <3>2 DEF Blocking, RolloutState, Exists
      <4>2. QED
        BY <3>2, <4>1, Kinds DEF BaselineEntry
    <3>3. CASE c.base = "accepted"
      <4>1. tree["baseline"].kind = "document"
        BY <2>1, <3>1, <3>3 DEF Blocking, RolloutState, BaselineValid
      <4>2. QED
        BY <3>3, <4>1, Kinds DEF BaselineEntry
    <3>4. QED
      BY <2>2, <3>2, <3>3 DEF Declared
  <2>8. ASSUME NEW bootstrap \in {FALSE, view.bootstrap}
        PROVE  Gate!BaselineReads(entry, bootstrap, view.base) /\ Gate!BaselineSound(entry)
    <3> HIDE DEF entry
    <3>1. view.base = c.base /\ (bootstrap => c.base = "absent")
      <4>1. view.base = c.base /\ view.bootstrap = BootstrapAvailable(c)
        BY <2>5 DEF SecurityView
      <4> HIDE DEF view
      <4>2. BootstrapAvailable(c) => c.base = "absent"
        BY DEF BootstrapAvailable
      <4>3. bootstrap = FALSE \/ bootstrap = view.bootstrap
        BY <2>8
      <4>4. QED
        BY <4>1, <4>2, <4>3, Zenon
    <3> HIDE DEF view
    <3>2. QED
      BY <2>2, <2>7, <3>1 DEF Gate!BaselineReads, Gate!BaselineSound, Declared
  <2>9. view.gate = c.gate /\ view.base = c.base
    BY <2>5 DEF SecurityView
  <2>10. QED
    BY <2>1, <2>2, <2>6, <2>8, <2>9 DEF ValidatedIsSound
<1>2. CheckoutInv => ValidatedIsSound
  BY <1>1 DEF ValidatedIsSound
<1>3. QED
  BY <1>2, CheckoutInvariant, PTL

-----------------------------------------------------------------------------
(* Plans for an AWS account.  A plan id names the stack it was made against*)
(* and that stack's revision: a change set fits the stack, or its plan id  *)
(* is out of date.  A run that is alone in the account has found out what  *)
(* it will change, one resource at a time.                                 *)

\* What a plan id says of its stack was so, and is older than what is there.
BaseOk(base, account) ==
  base.status # "absent" =>
    /\ base.id \in Nat /\ base.rev \in Nat /\ base.id <= account.stack.id
    /\ base.id = account.stack.id /\ account.stack.status # "absent" =>
         base.rev <= account.stack.rev

NamesApart(template) ==
  \A k, l \in DOMAIN template : template[k].name = template[l].name => k = l
TemplateOk(template, account) ==
  /\ DOMAIN template \subseteq LogicalIds /\ NamesApart(template)
  /\ \A l \in DOMAIN template : DOMAIN template[l] = {"name", "version"}
  /\ \A l \in DOMAIN template : template[l].name \in DOMAIN account.things

\* The repository's own tags may have been missed.
OwnTags(thing, l, missed) == OwnOrUntagged(thing) \/ (l = "repository" /\ missed)
OwnedAs(thing, l, missed) ==
  thing.exists /\ thing.owner = "ours" /\ thing.logical = l /\ OwnTags(thing, l, missed)
OurStack(st) == st.members # << >> => st.tags = "ours"

\* What a template changes is the repository's own, and what it adds is not there.
Fits(template, account, missed) ==
  /\ OurStack(account.stack) /\ DOMAIN account.stack.members \subseteq LogicalIds
  /\ \A l \in DOMAIN template :
       LET thing == account.things[template[l].name] IN
       IF thing.exists
       THEN OwnedAs(thing, l, missed) /\ (l \in RoleKeys => thing.policies \subseteq {"ours"})
       ELSE l \notin DOMAIN account.stack.members

OneEach(set) ==
  /\ \A ch1, ch2 \in set : ch1.logical = ch2.logical => ch1 = ch2
  /\ \A ch \in set :
       /\ ch.action \in {"Add", "Remove", "Modify"}
       /\ ch.replacement \in {"True", "Conditional"} => ch.action = "Modify"
HeldBy(s, st) == s.execution # "GONE" /\ s.stack = st.id
FitsNow(s, st) ==
  \E replaced \in {"True", "False", "Conditional"} :
    s.changes = Diff(st.members, s.template, replaced)
OutOfDate(base, st) ==
  /\ st.status # "REVIEW_IN_PROGRESS"
  /\ base.status # "absent" /\ base.id = st.id => base.rev < st.rev

SetOk(s, account) ==
  /\ DOMAIN s = {"name", "stack", "template", "status", "execution", "changes", "alone",
              "missed"}
  /\ s.stack \in Nat /\ s.stack <= account.stack.id
  /\ s.template = s.name.template /\ TemplateOk(s.template, account)
  /\ BaseOk(s.name.base, account)
  /\ s.status = "CREATE_COMPLETE" => OneEach(s.changes)
  /\ HeldBy(s, account.stack) =>
       /\ s.status = "CREATE_COMPLETE" /\ s.execution = "AVAILABLE" =>
            FitsNow(s, account.stack) \/ OutOfDate(s.name.base, account.stack)
       /\ s.alone => Fits(s.template, account, s.missed)

\* What plan.json says of its change set.
RecordReal(r, S) ==
  /\ r.planId = r.input /\ r.set \in DOMAIN S /\ S[r.set].name = r.planId
  /\ r.files.template = Text(r.planId.template)
  /\ LET d == r.files.described.is IN
     /\ d.id = r.set
     /\ d.status = "CREATE_COMPLETE" =>
          S[r.set].status = "CREATE_COMPLETE" /\ S[r.set].changes = d.changes
PlanTextOk(text, S) == Whole(text) => RecordReal(text.is, S)

\* A run has decided about a resource: it is not there, or it is the repository's.
KeyDecided(p, k, account) ==
  k \in p.config.managed =>
    LET thing == account.things[p.config.names[k]] IN
    IF thing.exists THEN k \in p.owned /\ OwnedAs(thing, k, p.missed)
    ELSE k \notin DOMAIN account.stack.members

\* What a run has read of a resource, and would not take for another consumer's.
ThingFields == {"exists", "owner", "logical", "sameArn", "consumer", "policies"}
FoundAs(found, thing) == DOMAIN found = ThingFields /\ found.exists = thing.exists
Asking == {"discover", "tags", "locate"}

AloneOk(p, account) ==
  /\ p.at \in {"members", "policies"} \cup Asking => OurStack(account.stack)
  /\ p.at \in Asking =>
       p.members = DOMAIN account.stack.members /\ p.members \subseteq LogicalIds
  /\ p.at \in Asking =>
       \A i \in 1 .. 3 : i < p.next => KeyDecided(p, Keys[i], account)
  /\ p.at \in {"tags", "locate"} =>
       LET thing == account.things[p.config.names[Keys[p.next]]] IN
       /\ FoundAs(p.found, thing)
       /\ p.at = "locate" /\ thing.exists /\ OwnOrUntagged(p.found) =>
            OwnTags(thing, Keys[p.next], p.missed)
  /\ p.at = "policies" => /\ DOMAIN account.stack.members \subseteq LogicalIds
                          /\ \A k \in LogicalIds : KeyDecided(p, k, account)
  /\ p.at = "create" => Fits(p.id.template, account, p.missed)

Gathering == {"stack", "members", "policies"} \cup Asking
Making == {"create", "describe", "directory", "write"}

PlannerOk(p, account, S, D) ==
  /\ DOMAIN p = DOMAIN NewPlanner /\ p.at \in {"idle", "ended"} \cup Gathering \cup Making
  /\ p.at \in Gathering \cup Making =>
       /\ p.tree \in Trees /\ p.config \in Configs
       /\ p.config.names["push"] # p.config.names["deploy"]
  /\ BaseOk(p.base, account) /\ BaseOk(p.id.base, account)
  /\ p.at \in {"idle", "stack", "members"} => p.members = {}
  /\ p.at \in Asking => p.next \in 1 .. 3
  /\ p.at = "tags" => p.next = 1
  /\ p.at \in {"idle", "stack", "members", "policies"} \cup (Making \ {"write"}) => p.next = 1
  /\ p.at = "write" => p.next \in 1 .. 5 /\ p.id \in DOMAIN D[p.tree]
  /\ p.at \in Making => p.id.template = Template(p.config)
  /\ p.at = "describe" => p.set \in DOMAIN S /\ S[p.set].name = p.id
  /\ p.at \in {"directory", "write"} => PlanTextOk(p.plan, S)
  /\ p.alone => AloneOk(p, account)

FileNames == {"template", "parameters", "change-set", "policies", "plan"}
DirectoriesOk(D, S) ==
  /\ DOMAIN D = Trees
  /\ \A t \in Trees : \A id \in DOMAIN D[t] :
       DOMAIN D[t][id] = FileNames /\ PlanTextOk(D[t][id]["plan"], S)

IsList(s) == s \in Seq({s[i] : i \in DOMAIN s})

AccountOk(account) ==
  /\ Coherent(account)
  /\ \A config \in Configs, k \in LogicalIds : config.names[k] \in DOMAIN account.things

AwsPlanInv ==
  /\ AccountOk(cloud)
  /\ IsList(sets)
  /\ \A i \in DOMAIN sets : SetOk(sets[i], cloud)
  /\ planners = [c \in Planners |-> planners[c]]
  /\ \A c \in Planners : PlannerOk(planners[c], cloud, sets, directories)
  /\ DirectoriesOk(directories, sets)

\* Time goes on in the account: other stacks come, and revisions go up.
LaterAccount(account, account2) ==
  /\ AccountOk(account) /\ AccountOk(account2)
  /\ DOMAIN account2.things = DOMAIN account.things
  /\ LET st == account.stack
         st2 == account2.stack IN
     \/ st.id < st2.id
     \/ /\ st.id = st2.id
        /\ st2.status # "absent" => st.status # "absent" /\ st.rev <= st2.rev
SetsKept(S, S2) ==
  \A i \in DOMAIN S :
    /\ i \in DOMAIN S2 /\ S2[i].name = S[i].name
    /\ S[i].status = "CREATE_COMPLETE" =>
         S2[i].status = "CREATE_COMPLETE" /\ S2[i].changes = S[i].changes

LEMMA StackNumbers ==
  ASSUME NEW account, AccountOk(account)
  PROVE  /\ account.stack.id \in Nat /\ account.stack.rev \in Nat
         /\ account.stack.status = "absent" => account.stack.members = << >>
BY DEF AccountOk, Coherent, StackCoherent

LEMMA SameAccount ==
  ASSUME NEW account, AccountOk(account)
  PROVE  LaterAccount(account, account)
<1>1. account.stack.rev <= account.stack.rev
  BY StackNumbers
<1>2. QED
  BY <1>1 DEF LaterAccount

LEMMA BaseStays ==
  ASSUME NEW base, NEW account, NEW account2, BaseOk(base, account),
         LaterAccount(account, account2)
  PROVE  BaseOk(base, account2)
<1>1. /\ account.stack.id \in Nat /\ account.stack.rev \in Nat
      /\ account2.stack.id \in Nat /\ account2.stack.rev \in Nat
  BY StackNumbers DEF LaterAccount
<1>2. QED
  BY <1>1 DEF BaseOk, LaterAccount

LEMMA PlanTextStays ==
  ASSUME NEW text, NEW S, NEW S2, PlanTextOk(text, S), SetsKept(S, S2)
  PROVE  PlanTextOk(text, S2)
BY DEF PlanTextOk, RecordReal, SetsKept

LEMMA DirectoriesStay ==
  ASSUME NEW D, NEW S, NEW S2, DirectoriesOk(D, S), SetsKept(S, S2)
  PROVE  DirectoriesOk(D, S2)
BY PlanTextStays DEF DirectoriesOk

LEMMA PlannerStays ==
  ASSUME NEW p, NEW account, NEW account2, NEW S, NEW S2, NEW D, NEW D2,
         PlannerOk(p, account, S, D), LaterAccount(account, account2), SetsKept(S, S2),
         \A t \in Trees : DOMAIN D[t] \subseteq DOMAIN D2[t],
         p.alone => AloneOk(p, account2)
  PROVE  PlannerOk(p, account2, S2, D2)
<1>1. BaseOk(p.base, account2) /\ BaseOk(p.id.base, account2)
  BY BaseStays DEF PlannerOk
<1>2. p.at \in {"directory", "write"} => PlanTextOk(p.plan, S2)
  BY PlanTextStays DEF PlannerOk
<1>3. p.at = "write" => p.id \in DOMAIN D2[p.tree]
  BY DEF PlannerOk, Making
<1>4. p.at = "describe" => p.set \in DOMAIN S2 /\ S2[p.set].name = p.id
  BY DEF PlannerOk, SetsKept
<1>5. QED
  BY <1>1, <1>2, <1>3, <1>4 DEF PlannerOk

LEMMA FreshPlanners ==
  ASSUME NEW account, NEW S, NEW D
  PROVE  PlannerOk(NewPlanner, account, S, D) /\ PlannerOk(EndedPlanner, account, S, D)
<1>1. /\ NewPlanner.at = "idle" /\ NewPlanner.base = NoBase /\ NewPlanner.members = {}
      /\ NewPlanner.id.base = NoBase /\ NewPlanner.next = 1
  BY DEF NewPlanner
<1>2. /\ DOMAIN EndedPlanner = DOMAIN NewPlanner /\ EndedPlanner.at = "ended"
      /\ EndedPlanner.base = NoBase /\ EndedPlanner.id.base = NoBase
  BY DEF NewPlanner, EndedPlanner
<1>3. BaseOk(NoBase, account)
  BY DEF BaseOk, NoBase
<1>4. PlannerOk(NewPlanner, account, S, D)
  BY <1>1, <1>3 DEF PlannerOk, Gathering, Asking, Making, AloneOk
<1>5. PlannerOk(EndedPlanner, account, S, D)
  BY <1>2, <1>3 DEF PlannerOk, Gathering, Asking, Making, AloneOk
<1>6. QED
  BY <1>4, <1>5

\* One run moves, and the account and the change sets stay.
LEMMA OnePlanner ==
  ASSUME AwsPlanInv, NEW c \in Planners, NEW p, Becomes(c, p), UNCHANGED <<cloud, sets>>,
         DirectoriesOk(directories', sets),
         \A t \in Trees : DOMAIN directories[t] \subseteq DOMAIN directories'[t],
         PlannerOk(p, cloud, sets, directories')
  PROVE  AwsPlanInv'
<1>1. planners' = [d \in Planners |-> planners'[d]]
      /\ \A d \in Planners : planners'[d] = IF d = c THEN p ELSE planners[d]
  BY DEF AwsPlanInv, Becomes
<1>2. ASSUME NEW d \in Planners PROVE PlannerOk(planners'[d], cloud, sets, directories')
  <2>1. LaterAccount(cloud, cloud) /\ SetsKept(sets, sets)
    BY SameAccount DEF AwsPlanInv, SetsKept
  <2> DEFINE D2 == directories'
  <2>2. \A t \in Trees : DOMAIN directories[t] \subseteq DOMAIN D2[t]
    OBVIOUS
  <2> HIDE DEF D2
  <2>3. PlannerOk(planners[d], cloud, sets, directories)
    BY DEF AwsPlanInv
  <2>4. planners[d].alone => AloneOk(planners[d], cloud)
    BY <2>3 DEF PlannerOk
  <2>5. PlannerOk(planners[d], cloud, sets, D2)
    BY <2>1, <2>2, <2>3, <2>4, PlannerStays
  <2>6. QED
    BY <1>1, <2>5 DEF D2
<1>3. QED
  BY <1>1, <1>2 DEF AwsPlanInv

LEMMA OnePlannerInTheSame ==
  ASSUME AwsPlanInv, NEW c \in Planners, NEW p, Becomes(c, p),
         UNCHANGED <<cloud, sets, directories>>, PlannerOk(p, cloud, sets, directories)
  PROVE  AwsPlanInv'
BY OnePlanner DEF AwsPlanInv

LEMMA KeepsEnding ==
  ASSUME AwsPlanInv, NEW c \in Planners, EndsHere(c), UNCHANGED <<cloud, sets, directories>>
  PROVE  AwsPlanInv'
BY OnePlannerInTheSame, FreshPlanners DEF EndsHere

LEMMA KeepsBeginPlan ==
  ASSUME AwsPlanInv, NEW c \in Planners, BeginPlan(c)
  PROVE  AwsPlanInv'
<1>1. PICK t \in Trees, config \in Configs :
        /\ config.names["push"] # config.names["deploy"]
        /\ Becomes(c, [NewPlanner EXCEPT !.at = "stack", !.tree = t, !.config = config])
  BY DEF BeginPlan
<1> DEFINE p == [NewPlanner EXCEPT !.at = "stack", !.tree = t, !.config = config]
<1>2. p = [[[NewPlanner EXCEPT !.at = "stack"] EXCEPT !.tree = t] EXCEPT !.config = config]
  OBVIOUS
<1>3. /\ DOMAIN p = DOMAIN NewPlanner /\ p.at = "stack" /\ p.tree = t /\ p.config = config
      /\ p.base = NoBase /\ p.id.base = NoBase /\ p.members = {} /\ p.next = 1
  BY <1>2 DEF NewPlanner
<1> HIDE DEF p
<1>4. BaseOk(NoBase, cloud)
  BY DEF BaseOk, NoBase
<1>5. PlannerOk(p, cloud, sets, directories)
  BY <1>1, <1>3, <1>4 DEF PlannerOk, Gathering, Asking, Making, AloneOk
<1>6. QED
  BY <1>1, <1>5, OnePlannerInTheSame DEF BeginPlan, p

\* What a step of a run leaves alone, and what that is enough for.
LEMMA KeepsReadStack ==
  ASSUME AwsPlanInv, NEW c \in Planners, ReadStack(c)
  PROVE  AwsPlanInv'
<1> DEFINE st == cloud.stack
           p == planners[c]
           at == IF st.status = "absent" THEN "discover" ELSE "members"
           q == [p EXCEPT !.at = at, !.base = BaseStack(st)]
<1>1. CASE PlanType(st) = None
  BY <1>1, KeepsEnding DEF ReadStack
<1>2. CASE PlanType(st) # None
  <2>1. PlannerOk(p, cloud, sets, directories) /\ p.at = "stack" /\ AccountOk(cloud)
    BY DEF AwsPlanInv, ReadStack, PlannerAt
  <2>2. Becomes(c, q)
    BY <1>2 DEF ReadStack
  <2>3. q = [[p EXCEPT !.at = at] EXCEPT !.base = BaseStack(st)]
    OBVIOUS
  <2>4. DOMAIN p = DOMAIN NewPlanner
    BY <2>1 DEF PlannerOk
  <2>5. /\ DOMAIN q = DOMAIN NewPlanner /\ q.at = at /\ q.base = BaseStack(st)
        /\ q.tree = p.tree /\ q.config = p.config /\ q.id = p.id
        /\ q.members = p.members /\ q.next = p.next
    BY <2>3, <2>4 DEF NewPlanner
  <2>6. /\ p.tree \in Trees /\ p.config \in Configs
        /\ p.config.names["push"] # p.config.names["deploy"]
        /\ BaseOk(p.id.base, cloud) /\ p.members = {} /\ p.next = 1
    BY <2>1 DEF PlannerOk, Gathering, Asking, Making
  <2>7. BaseOk(BaseStack(st), cloud)
    <3>1. st.id \in Nat /\ st.rev \in Nat
      BY <2>1, StackNumbers
    <3>2. CASE st.status = "absent"
      BY <3>2 DEF BaseStack, BaseOk, NoBase
    <3>3. CASE st.status # "absent"
      <4>1. BaseStack(st) = [id |-> st.id, status |-> st.status, rev |-> st.rev]
        BY <3>3 DEF BaseStack
      <4>2. QED
        BY <3>1, <4>1 DEF BaseOk
    <3>4. QED
      BY <3>2, <3>3
  <2>8. OurStack(st)
    <3>1. st.status = "absent" => st.members = << >>
      BY <2>1, StackNumbers
    <3>2. st.status = "absent" \/ st.tags = "ours"
      BY <1>2 DEF PlanType, TagsProve
    <3>3. QED
      BY <3>1, <3>2 DEF OurStack
  <2>9. at = "discover" => DOMAIN st.members = {}
    BY <2>1, StackNumbers
  <2>10. at \in {"discover", "members"}
    OBVIOUS
  <2> HIDE DEF at, q
  <2>11. AloneOk(q, cloud)
    BY <2>5, <2>6, <2>8, <2>9, <2>10, SMTT(30) DEF AloneOk, Asking
  <2>12. PlannerOk(q, cloud, sets, directories)
    BY <2>5, <2>6, <2>7, <2>10, <2>11 DEF PlannerOk, Gathering, Asking, Making
  <2>13. QED
    BY <2>2, <2>12, OnePlannerInTheSame DEF ReadStack
<1>3. QED
  BY <1>1, <1>2

LEMMA KeepsListMembers ==
  ASSUME AwsPlanInv, NEW c \in Planners, ListMembers(c)
  PROVE  AwsPlanInv'
<1> DEFINE held == DOMAIN cloud.stack.members
           p == planners[c]
           q == [p EXCEPT !.at = "discover", !.members = held]
<1>1. CASE cloud.stack.status = "absent" \/ ~(held \subseteq LogicalIds)
  BY <1>1, KeepsEnding DEF ListMembers
<1>2. CASE ~(cloud.stack.status = "absent" \/ ~(held \subseteq LogicalIds))
  <2>1. PlannerOk(p, cloud, sets, directories) /\ p.at = "members"
    BY DEF AwsPlanInv, ListMembers, PlannerAt
  <2>2. Becomes(c, q)
    BY <1>2 DEF ListMembers
  <2>3. q = [[p EXCEPT !.at = "discover"] EXCEPT !.members = held]
    OBVIOUS
  <2>4. DOMAIN p = DOMAIN NewPlanner
    BY <2>1 DEF PlannerOk
  <2>5. /\ DOMAIN q = DOMAIN NewPlanner /\ q.at = "discover" /\ q.members = held
        /\ q.tree = p.tree /\ q.config = p.config /\ q.id = p.id /\ q.base = p.base
        /\ q.next = p.next /\ q.alone = p.alone
    BY <2>3, <2>4 DEF NewPlanner
  <2>6. /\ p.tree \in Trees /\ p.config \in Configs
        /\ p.config.names["push"] # p.config.names["deploy"]
        /\ BaseOk(p.base, cloud) /\ BaseOk(p.id.base, cloud) /\ p.next = 1
        /\ p.alone => AloneOk(p, cloud)
    BY <2>1 DEF PlannerOk, Gathering, Asking, Making
  <2>7. p.alone => AloneOk(q, cloud)
    BY <1>2, <2>1, <2>5, <2>6 DEF AloneOk, Asking
  <2> HIDE DEF q
  <2>8. PlannerOk(q, cloud, sets, directories)
    BY <2>5, <2>6, <2>7 DEF PlannerOk, Gathering, Asking, Making
  <2>9. QED
    BY <2>2, <2>8, OnePlannerInTheSame DEF ListMembers
<1>3. QED
  BY <1>1, <1>2

LEMMA ThreeKeys ==
  /\ Keys[1] = "repository" /\ Keys[2] = "push" /\ Keys[3] = "deploy" /\ Len(Keys) = 3
  /\ LogicalIds = {Keys[1], Keys[2], Keys[3]}
<1>1. Keys[1] = "repository" /\ Keys[2] = "push" /\ Keys[3] = "deploy" /\ Len(Keys) = 3
      /\ DOMAIN Keys = 1 .. 3
  BY DEF Keys
<1>2. LogicalIds = {Keys[1], Keys[2], Keys[3]}
  BY <1>1 DEF LogicalIds
<1>3. QED
  BY <1>1, <1>2

\* A run that has decided about its next resource has decided about one more.
LEMMA NextKeyOk ==
  ASSUME NEW p, NEW account, NEW S, NEW D, PlannerOk(p, account, S, D),
         p.at \in Asking,
         p.alone => KeyDecided(p, Keys[p.next], account)
  PROVE  PlannerOk(NextKey(p), account, S, D)
<1>1. /\ DOMAIN p = DOMAIN NewPlanner /\ p.tree \in Trees /\ p.config \in Configs
      /\ p.config.names["push"] # p.config.names["deploy"]
      /\ BaseOk(p.base, account) /\ BaseOk(p.id.base, account) /\ p.next \in 1 .. 3
      /\ p.alone => AloneOk(p, account)
  BY DEF PlannerOk, Gathering, Asking, Making
<1>2. p.alone => \A i \in 1 .. 3 : i <= p.next => KeyDecided(p, Keys[i], account)
  BY <1>1, SMTT(30) DEF AloneOk, Asking
<1>3. CASE p.next < 3
  <2> DEFINE q == [p EXCEPT !.at = "discover", !.next = p.next + 1, !.found = NoThing]
  <2>1. NextKey(p) = q
    BY <1>3, ThreeKeys DEF NextKey
  <2>2. q = [[[p EXCEPT !.at = "discover"] EXCEPT !.next = p.next + 1] EXCEPT !.found = NoThing]
    OBVIOUS
  <2>3. /\ DOMAIN q = DOMAIN NewPlanner /\ q.at = "discover" /\ q.members = p.members
        /\ q.tree = p.tree /\ q.config = p.config /\ q.id = p.id /\ q.base = p.base
        /\ q.next = p.next + 1 /\ q.alone = p.alone /\ q.owned = p.owned /\ q.missed = p.missed
    BY <1>1, <2>2 DEF NewPlanner
  <2> HIDE DEF q
  <2>4. \A i \in 1 .. 3 : i < q.next => i <= p.next
    BY <1>1, <2>3
  <2>5. \A k : KeyDecided(p, k, account) => KeyDecided(q, k, account)
    BY <2>3 DEF KeyDecided
  <2>6. q.alone => AloneOk(q, account)
    BY <1>1, <1>2, <2>3, <2>4, <2>5 DEF AloneOk, Asking
  <2>7. q.next \in 1 .. 3
    BY <1>1, <1>3, <2>3
  <2>8. PlannerOk(q, account, S, D)
    BY <1>1, <2>3, <2>6, <2>7 DEF PlannerOk, Gathering, Asking, Making
  <2>9. QED
    BY <2>1, <2>8
<1>4. CASE p.next = 3 /\ p.config.managed = {}
  <2>1. NextKey(p) = EndedPlanner
    BY <1>4, ThreeKeys DEF NextKey
  <2>2. QED
    BY <2>1, FreshPlanners
<1>5. CASE p.next = 3 /\ p.config.managed # {}
  <2> DEFINE q == [p EXCEPT !.at = "policies", !.next = 1, !.found = NoThing]
  <2>1. NextKey(p) = q
    BY <1>5, ThreeKeys DEF NextKey
  <2>2. q = [[[p EXCEPT !.at = "policies"] EXCEPT !.next = 1] EXCEPT !.found = NoThing]
    OBVIOUS
  <2>3. /\ DOMAIN q = DOMAIN NewPlanner /\ q.at = "policies" /\ q.members = p.members
        /\ q.tree = p.tree /\ q.config = p.config /\ q.id = p.id /\ q.base = p.base
        /\ q.next = 1 /\ q.alone = p.alone /\ q.owned = p.owned /\ q.missed = p.missed
    BY <1>1, <2>2 DEF NewPlanner
  <2> HIDE DEF q
  <2>4. \A k : KeyDecided(p, k, account) => KeyDecided(q, k, account)
    BY <2>3 DEF KeyDecided
  <2>5. q.alone => \A k \in LogicalIds : KeyDecided(q, k, account)
    BY <1>2, <1>5, <2>3, <2>4, ThreeKeys
  <2>6. q.alone => AloneOk(q, account)
    BY <1>1, <2>3, <2>5 DEF AloneOk, Asking
  <2>7. PlannerOk(q, account, S, D)
    BY <1>1, <2>3, <2>6 DEF PlannerOk, Gathering, Asking, Making
  <2>8. QED
    BY <2>1, <2>7
<1>6. QED
  BY <1>1, <1>3, <1>4, <1>5

LEMMA KeepsDiscoverThing ==
  ASSUME AwsPlanInv, NEW c \in Planners, DiscoverThing(c)
  PROVE  AwsPlanInv'
<1> DEFINE p == planners[c]
           key == Keys[p.next]
           thing == cloud.things[p.config.names[key]]
           at == IF key = "repository" /\ thing.exists THEN "tags" ELSE "locate"
           found == WithItsTags(key, thing)
           q == [p EXCEPT !.at = at, !.found = found]
<1>1. PlannerOk(p, cloud, sets, directories) /\ p.at = "discover"
  BY DEF AwsPlanInv, DiscoverThing, PlannerAt
<1>2. PICK known \in BOOLEAN :
        IF ~DiscoveredEnough(p.config, key, known) THEN EndsHere(c)
        ELSE Becomes(c, IF known THEN q ELSE NextKey(p))
  BY DEF DiscoverThing
<1>3. CASE EndsHere(c)
  BY <1>3, KeepsEnding DEF DiscoverThing
<1>4. CASE known /\ Becomes(c, q)
  <2>1. q = [[p EXCEPT !.at = at] EXCEPT !.found = found]
    OBVIOUS
  <2>2. /\ DOMAIN p = DOMAIN NewPlanner /\ p.next \in 1 .. 3 /\ p.config \in Configs
        /\ key \in LogicalIds
    BY <1>1, ThreeKeys DEF PlannerOk, Gathering, Asking
  <2>3. ThingCoherent(thing, p.config.names[key], cloud.stack)
    BY <2>2 DEF AwsPlanInv, AccountOk, Coherent
  <2>4. DOMAIN thing = ThingFields
    BY <2>3 DEF ThingCoherent, ThingFields
  <2>5. FoundAs(found, thing) /\ (key # "repository" => found = thing)
    BY <2>4 DEF FoundAs, WithItsTags, ThingFields
  <2>6. (at = "tags" => p.next = 1) /\ at \in {"tags", "locate"}
    <3>1. at \in {"tags", "locate"} /\ (at = "tags" => key = "repository")
      OBVIOUS
    <3>2. p.next = 1 \/ p.next = 2 \/ p.next = 3
      BY <2>2
    <3>3. (p.next = 2 => key = "push") /\ (p.next = 3 => key = "deploy")
      BY ThreeKeys
    <3> HIDE DEF at, key
    <3>4. QED
      BY <3>1, <3>2, <3>3
  <2>7. at = "locate" /\ thing.exists => key # "repository"
    OBVIOUS
  <2> HIDE DEF found, at
  <2>8. /\ DOMAIN q = DOMAIN NewPlanner /\ q.at = at /\ q.members = p.members
        /\ q.tree = p.tree /\ q.config = p.config /\ q.id = p.id /\ q.base = p.base
        /\ q.next = p.next /\ q.alone = p.alone /\ q.owned = p.owned /\ q.missed = p.missed
        /\ q.found = found
    BY <2>1, <2>2 DEF NewPlanner
  <2> HIDE DEF q
  <2>9. \A k : KeyDecided(p, k, cloud) => KeyDecided(q, k, cloud)
    BY <2>8 DEF KeyDecided
  <2>10. p.alone => AloneOk(p, cloud)
    BY <1>1 DEF PlannerOk
  <2>11. ASSUME q.alone PROVE AloneOk(q, cloud)
    <3>1. /\ OurStack(cloud.stack) /\ q.members = DOMAIN cloud.stack.members
          /\ q.members \subseteq LogicalIds
          /\ \A i \in 1 .. 3 : i < q.next => KeyDecided(q, Keys[i], cloud)
      BY <1>1, <2>8, <2>9, <2>10, <2>11 DEF AloneOk, Asking
    <3>2. /\ FoundAs(q.found, thing)
          /\ q.at = "locate" /\ thing.exists /\ OwnOrUntagged(q.found) =>
               OwnTags(thing, key, q.missed)
      BY <2>5, <2>7, <2>8 DEF OwnTags
    <3>3. thing = cloud.things[q.config.names[Keys[q.next]]] /\ key = Keys[q.next]
      BY <2>8
    <3> HIDE DEF thing, key
    <3>4. q.at \in {"tags", "locate"}
      BY <2>6, <2>8
    <3>5. QED
      BY <3>1, <3>2, <3>3, <3>4 DEF AloneOk, Asking
  <2>12. PlannerOk(q, cloud, sets, directories)
    BY <1>1, <2>6, <2>8, <2>11 DEF PlannerOk, Gathering, Asking, Making
  <2>13. QED
    BY <1>4, <2>12, OnePlannerInTheSame DEF DiscoverThing
<1>5. CASE DiscoveredEnough(p.config, key, known) /\ ~known /\ Becomes(c, NextKey(p))
  <2>1. KeyDecided(p, key, cloud)
    BY <1>5 DEF DiscoveredEnough, KeyDecided
  <2>2. PlannerOk(NextKey(p), cloud, sets, directories)
    BY <1>1, <2>1, NextKeyOk DEF Asking
  <2>3. QED
    BY <1>5, <2>2, OnePlannerInTheSame DEF DiscoverThing
<1>6. QED
  BY <1>2, <1>3, <1>4, <1>5

\* Either the repository's tags are known, or it is noted that they were missed.
LEMMA KeepsReadTags ==
  ASSUME AwsPlanInv, NEW c \in Planners, ReadTags(c)
  PROVE  AwsPlanInv'
<1> DEFINE p == planners[c]
           thing == cloud.things[p.config.names["repository"]]
           found == [p.found EXCEPT !.consumer = thing.consumer]
           answered == [p EXCEPT !.at = "locate", !.found = found]
           unanswered == [p EXCEPT !.at = "locate", !.missed = ~OwnOrUntagged(thing)]
<1>1. PlannerOk(p, cloud, sets, directories) /\ p.at = "tags"
  BY DEF AwsPlanInv, ReadTags, PlannerAt
<1>2. /\ DOMAIN p = DOMAIN NewPlanner /\ p.tree \in Trees /\ p.config \in Configs
      /\ p.config.names["push"] # p.config.names["deploy"]
      /\ BaseOk(p.base, cloud) /\ BaseOk(p.id.base, cloud) /\ p.next = 1
      /\ p.alone => AloneOk(p, cloud)
  BY <1>1 DEF PlannerOk, Gathering, Asking, Making
<1>3. \/ Becomes(c, answered)
      \/ Becomes(c, unanswered)
  <2>1. [p EXCEPT !.at = "locate", !.found.consumer = thing.consumer] = answered
    OBVIOUS
  <2>2. QED
    BY <2>1 DEF ReadTags
<1>4. ASSUME p.alone
      PROVE  /\ FoundAs(p.found, thing) /\ OurStack(cloud.stack)
             /\ p.members = DOMAIN cloud.stack.members /\ p.members \subseteq LogicalIds
  BY <1>1, <1>2, <1>4, ThreeKeys DEF AloneOk, Asking
<1>5. ASSUME NEW q, Becomes(c, q), DOMAIN q = DOMAIN NewPlanner, q.at = "locate",
             q.members = p.members, q.tree = p.tree, q.config = p.config, q.id = p.id,
             q.base = p.base, q.next = p.next, q.alone = p.alone,
             p.alone => FoundAs(q.found, thing),
             p.alone /\ OwnOrUntagged(q.found) => OwnTags(thing, "repository", q.missed)
      PROVE  AwsPlanInv'
  <2>1. q.alone => AloneOk(q, cloud)
    <3>1. thing = cloud.things[q.config.names[Keys[q.next]]] /\ Keys[q.next] = "repository"
      BY <1>2, <1>5, ThreeKeys
    <3>2. \A i \in 1 .. 3 : ~(i < q.next)
      BY <1>2, <1>5
    <3> HIDE DEF thing
    <3>3. QED
      BY <1>4, <1>5, <3>1, <3>2 DEF AloneOk, Asking
  <2>2. PlannerOk(q, cloud, sets, directories)
    BY <1>2, <1>5, <2>1 DEF PlannerOk, Gathering, Asking, Making
  <2>3. QED
    BY <1>5, <2>2, OnePlannerInTheSame DEF ReadTags
<1>6. CASE Becomes(c, answered)
  <2>1. answered = [[p EXCEPT !.at = "locate"] EXCEPT !.found = found]
    OBVIOUS
  <2>2. p.alone => FoundAs(found, thing) /\ found.consumer = thing.consumer
    BY <1>4 DEF FoundAs, ThingFields
  <2> HIDE DEF found
  <2>3. /\ DOMAIN answered = DOMAIN NewPlanner /\ answered.at = "locate"
        /\ answered.members = p.members /\ answered.tree = p.tree
        /\ answered.config = p.config /\ answered.id = p.id /\ answered.base = p.base
        /\ answered.next = p.next /\ answered.alone = p.alone /\ answered.found = found
    BY <1>2, <2>1 DEF NewPlanner
  <2> HIDE DEF answered
  <2>4. p.alone /\ OwnOrUntagged(found) => OwnTags(thing, "repository", answered.missed)
    BY <2>2 DEF OwnOrUntagged, OwnTags
  <2>5. QED
    BY <1>5, <1>6, <2>2, <2>3, <2>4
<1>7. CASE Becomes(c, unanswered)
  <2>1. unanswered = [[p EXCEPT !.at = "locate"] EXCEPT !.missed = ~OwnOrUntagged(thing)]
    OBVIOUS
  <2>2. /\ DOMAIN unanswered = DOMAIN NewPlanner /\ unanswered.at = "locate"
        /\ unanswered.members = p.members /\ unanswered.tree = p.tree
        /\ unanswered.config = p.config /\ unanswered.id = p.id /\ unanswered.base = p.base
        /\ unanswered.next = p.next /\ unanswered.alone = p.alone
        /\ unanswered.found = p.found /\ unanswered.missed = ~OwnOrUntagged(thing)
    BY <1>2, <2>1 DEF NewPlanner
  <2> HIDE DEF unanswered
  <2>3. OwnTags(thing, "repository", unanswered.missed)
    BY <2>2 DEF OwnTags
  <2>4. QED
    BY <1>4, <1>5, <1>7, <2>2, <2>3
<1>8. QED
  BY <1>3, <1>6, <1>7

\* What is found out about a resource twice, when nobody else is there, is what it is.
LEMMA KeepsLocateThing ==
  ASSUME AwsPlanInv, NEW c \in Planners, LocateThing(c)
  PROVE  AwsPlanInv'
<1> DEFINE p == planners[c]
           key == Keys[p.next]
           now == cloud.things[p.config.names[key]]
           thing == [p.found EXCEPT !.owner = now.owner, !.logical = now.logical]
           is == EvaluateResource(p.config, key, thing, cloud.stack, key \in p.members)
           q == [p EXCEPT !.owned = p.owned \cup {key}]
<1>1. PlannerOk(p, cloud, sets, directories) /\ p.at = "locate"
  BY DEF AwsPlanInv, LocateThing, PlannerAt
<1>2. /\ p.next \in 1 .. 3 /\ key \in LogicalIds /\ DOMAIN p = DOMAIN NewPlanner
      /\ p.config \in Configs /\ (p.alone => AloneOk(p, cloud))
  BY <1>1, ThreeKeys DEF PlannerOk, Gathering, Asking
<1>3. ThingCoherent(now, p.config.names[key], cloud.stack)
  BY <1>2 DEF AwsPlanInv, AccountOk, Coherent
<1>4. ASSUME p.alone
      PROVE  /\ thing.exists = now.exists
             /\ thing.owner = now.owner /\ thing.logical = now.logical
             /\ now.exists /\ OwnOrUntagged(thing) => OwnTags(now, key, p.missed)
  <2>1. /\ FoundAs(p.found, now)
        /\ now.exists /\ OwnOrUntagged(p.found) => OwnTags(now, key, p.missed)
    BY <1>1, <1>2, <1>4 DEF AloneOk, Asking
  <2>2. thing = [[p.found EXCEPT !.owner = now.owner] EXCEPT !.logical = now.logical]
    OBVIOUS
  <2>3. /\ thing.exists = p.found.exists /\ thing.consumer = p.found.consumer
        /\ thing.owner = now.owner /\ thing.logical = now.logical
    BY <2>1, <2>2 DEF FoundAs, ThingFields
  <2> HIDE DEF thing
  <2>4. QED
    BY <2>1, <2>3 DEF FoundAs, OwnOrUntagged
<1>5. CASE is = "blocked"
  BY <1>5, KeepsEnding DEF LocateThing
<1> HIDE DEF thing
<1>6. CASE is = "owned"
  <2>1. Becomes(c, NextKey(q))
    BY <1>6 DEF LocateThing, thing
  <2>2. Keeps(p, q, {"owned"}) /\ q.owned = p.owned \cup {key}
    BY <1>2 DEF Keeps, NewPlanner
  <2>3. /\ DOMAIN q = DOMAIN NewPlanner /\ q.at = p.at /\ q.members = p.members
        /\ q.tree = p.tree /\ q.config = p.config /\ q.id = p.id /\ q.base = p.base
        /\ q.next = p.next /\ q.alone = p.alone /\ q.found = p.found /\ q.missed = p.missed
    BY <1>2, <2>2 DEF NewPlanner, Keeps
  <2> HIDE DEF q
  <2>4. \A k : KeyDecided(p, k, cloud) => KeyDecided(q, k, cloud)
    BY <2>2, <2>3 DEF KeyDecided
  <2>5. q.alone => AloneOk(q, cloud)
    BY <1>1, <1>2, <2>3, <2>4 DEF AloneOk, Asking
  <2>6. PlannerOk(q, cloud, sets, directories)
    BY <1>1, <2>3, <2>5 DEF PlannerOk, Gathering, Asking, Making
  <2>7. thing.exists /\ EvaluateOwnership(thing, cloud.stack) /\ thing.logical = key
    BY <1>6 DEF EvaluateResource
  <2>8. q.alone => KeyDecided(q, key, cloud)
    BY <1>4, <2>2, <2>3, <2>7 DEF KeyDecided, OwnedAs, EvaluateOwnership
  <2>9. PlannerOk(NextKey(q), cloud, sets, directories)
    BY <1>1, <2>3, <2>6, <2>8, NextKeyOk DEF Asking
  <2>10. QED
    BY <2>1, <2>9, OnePlannerInTheSame DEF LocateThing
<1>7. CASE is \notin {"blocked", "owned"}
  <2>1. Becomes(c, NextKey(p))
    BY <1>7 DEF LocateThing, thing
  <2>2. key \in p.config.managed => ~thing.exists /\ key \notin p.members
    BY <1>7 DEF EvaluateResource
  <2>3. p.alone => KeyDecided(p, key, cloud)
    BY <1>1, <1>2, <1>4, <2>2 DEF KeyDecided, AloneOk, Asking
  <2>4. PlannerOk(NextKey(p), cloud, sets, directories)
    BY <1>1, <2>3, NextKeyOk DEF Asking
  <2>5. QED
    BY <2>1, <2>4, OnePlannerInTheSame DEF LocateThing
<1>8. QED
  BY <1>5, <1>6, <1>7

\* The names a configuration gives are apart, and so are those of its template.
LEMMA TemplateNames ==
  ASSUME NEW config \in Configs, config.names["push"] # config.names["deploy"],
         NEW account, AccountOk(account)
  PROVE  TemplateOk(Template(config), account)
<1> DEFINE T == Template(config)
<1>1. /\ DOMAIN T = config.managed /\ DOMAIN T \subseteq LogicalIds
      /\ \A l \in DOMAIN T : T[l].name = config.names[l] /\ DOMAIN T[l] = {"name", "version"}
  BY AwsPlanAssumption DEF Template
<1>2. \A k, l \in LogicalIds : config.names[k] = config.names[l] => k = l
  <2>1. \A k \in RoleKeys : config.names[k] # config.names["repository"]
    BY AwsPlanAssumption
  <2>2. QED
    BY <2>1, ThreeKeys DEF RoleKeys
<1>3. \A l \in DOMAIN T : T[l].name \in DOMAIN account.things
  BY <1>1 DEF AccountOk
<1> HIDE DEF T
<1>4. NamesApart(T)
  BY <1>1, <1>2 DEF NamesApart
<1>5. QED
  BY <1>1, <1>3, <1>4 DEF TemplateOk, T

LEMMA KeepsCheckPolicies ==
  ASSUME AwsPlanInv, NEW c \in Planners, CheckPolicies(c)
  PROVE  AwsPlanInv'
<1> DEFINE p == planners[c]
           id == PlanIdInput(p.config, p.base)
           q == [p EXCEPT !.at = "create", !.id = id, !.owned = {}, !.members = {}]
<1>1. PlannerOk(p, cloud, sets, directories) /\ p.at = "policies"
  BY DEF AwsPlanInv, CheckPolicies, PlannerAt
<1>2. PICK complete \in BOOLEAN :
        IF \/ \E k \in RoleKeys \cap p.config.managed \cap p.owned :
                ~OwnPolicyOnly(cloud.things[p.config.names[k]].policies, complete)
           \/ id \in DOMAIN directories[p.tree]
        THEN EndsHere(c) ELSE Becomes(c, q)
  BY DEF CheckPolicies
<1>3. CASE EndsHere(c)
  BY <1>3, KeepsEnding DEF CheckPolicies
<1>4. CASE /\ Becomes(c, q)
           /\ \A k \in RoleKeys \cap p.config.managed \cap p.owned :
                OwnPolicyOnly(cloud.things[p.config.names[k]].policies, complete)
  <2>1. /\ DOMAIN p = DOMAIN NewPlanner /\ p.tree \in Trees /\ p.config \in Configs
        /\ p.config.names["push"] # p.config.names["deploy"]
        /\ BaseOk(p.base, cloud) /\ p.next = 1 /\ (p.alone => AloneOk(p, cloud))
    BY <1>1 DEF PlannerOk, Gathering, Asking, Making
  <2>2. q = [[[[p EXCEPT !.at = "create"] EXCEPT !.id = id] EXCEPT !.owned = {}]
               EXCEPT !.members = {}]
    OBVIOUS
  <2>3. id.template = Template(p.config) /\ id.base = p.base
    BY DEF PlanIdInput
  <2> HIDE DEF id
  <2>4. /\ DOMAIN q = DOMAIN NewPlanner /\ q.at = "create" /\ q.tree = p.tree
        /\ q.config = p.config /\ q.id = id /\ q.base = p.base
        /\ q.next = p.next /\ q.alone = p.alone /\ q.missed = p.missed
    BY <2>1, <2>2 DEF NewPlanner
  <2> HIDE DEF q
  <2>5. ASSUME p.alone PROVE Fits(id.template, cloud, p.missed)
    <3> DEFINE T == Template(p.config)
    <3>1. /\ OurStack(cloud.stack) /\ DOMAIN cloud.stack.members \subseteq LogicalIds
          /\ \A k \in LogicalIds : KeyDecided(p, k, cloud)
      BY <1>1, <2>1, <2>5 DEF AloneOk, Asking
    <3>2. DOMAIN T = p.config.managed /\ \A l \in DOMAIN T : T[l].name = p.config.names[l]
      BY DEF Template
    <3>3. DOMAIN T \subseteq LogicalIds
      BY <2>1, <3>2, AwsPlanAssumption
    <3> HIDE DEF T
    <3>4. ASSUME NEW l \in DOMAIN T
          PROVE  LET thing == cloud.things[T[l].name] IN
                 IF thing.exists
                 THEN OwnedAs(thing, l, p.missed) /\ (l \in RoleKeys => thing.policies \subseteq {"ours"})
                 ELSE l \notin DOMAIN cloud.stack.members
      <4> DEFINE thing == cloud.things[T[l].name]
      <4>1. thing = cloud.things[p.config.names[l]] /\ l \in p.config.managed
        BY <3>2
      <4>2. KeyDecided(p, l, cloud)
        BY <3>1, <3>3
      <4>3. CASE thing.exists
        <5>1. l \in p.owned /\ OwnedAs(thing, l, p.missed)
          BY <4>1, <4>2, <4>3 DEF KeyDecided
        <5>2. l \in RoleKeys => thing.policies \subseteq {"ours"}
          BY <1>4, <4>1, <5>1 DEF OwnPolicyOnly
        <5>3. QED
          BY <4>3, <5>1, <5>2
      <4>4. CASE ~thing.exists
        BY <4>1, <4>2, <4>4 DEF KeyDecided
      <4>5. QED
        BY <4>3, <4>4
    <3>5. QED
      BY <2>3, <3>1, <3>4 DEF Fits, T
  <2>6. q.alone => AloneOk(q, cloud)
    BY <2>4, <2>5 DEF AloneOk, Asking
  <2>7. PlannerOk(q, cloud, sets, directories)
    BY <2>1, <2>3, <2>4, <2>6 DEF PlannerOk, Gathering, Asking, Making
  <2>8. QED
    BY <1>4, <2>7, OnePlannerInTheSame DEF CheckPolicies
<1>5. QED
  BY <1>2, <1>3, <1>4

\* A placeholder holds nothing: for those who are alone the account is as it was.
LEMMA PlaceholderChangesNothing ==
  ASSUME NEW account, NEW account2, account2.things = account.things,
         account2.stack.members = account.stack.members,
         account.stack.members # << >> => account2.stack.tags = account.stack.tags
  PROVE  /\ \A template, missed : Fits(template, account, missed) => Fits(template, account2, missed)
         /\ \A p : AloneOk(p, account) => AloneOk(p, account2)
<1>1. OurStack(account.stack) => OurStack(account2.stack)
  BY DEF OurStack
<1>2. \A template, missed : Fits(template, account, missed) => Fits(template, account2, missed)
  BY <1>1 DEF Fits
<1>3. \A p, k : KeyDecided(p, k, account) => KeyDecided(p, k, account2)
  BY DEF KeyDecided
<1>4. ASSUME NEW p, AloneOk(p, account) PROVE AloneOk(p, account2)
  BY <1>1, <1>2, <1>3, <1>4 DEF AloneOk, Asking
<1>5. QED
  BY <1>2, <1>4

\* An account's change sets stand when it only has a placeholder more.
LEMMA SetStays ==
  ASSUME NEW s, NEW account, NEW account2, SetOk(s, account), LaterAccount(account, account2),
         account2.stack = account.stack \/ account.stack.id < account2.stack.id,
         account2.things = account.things
  PROVE  SetOk(s, account2)
<1>1. account.stack.id \in Nat /\ account2.stack.id \in Nat
  BY StackNumbers DEF LaterAccount
<1>2. s.stack <= account2.stack.id
  BY <1>1 DEF SetOk
<1>3. BaseOk(s.name.base, account2)
  BY BaseStays DEF SetOk
<1>4. TemplateOk(s.template, account2)
  BY DEF SetOk, TemplateOk
<1>5. CASE account2.stack = account.stack
  <2>1. Fits(s.template, account, s.missed) => Fits(s.template, account2, s.missed)
    BY <1>5, PlaceholderChangesNothing
  <2>2. QED
    BY <1>2, <1>3, <1>4, <1>5, <2>1 DEF SetOk
<1>6. CASE account.stack.id < account2.stack.id
  <2>1. ~HeldBy(s, account2.stack)
    BY <1>1, <1>6 DEF SetOk, HeldBy
  <2>2. QED
    BY <1>2, <1>3, <1>4, <2>1 DEF SetOk
<1>7. QED
  BY <1>5, <1>6

Longer(s, x, t) ==
  /\ IsList(t) /\ Len(s) \in Nat /\ DOMAIN s = 1 .. Len(s)
  /\ DOMAIN t = 1 .. Len(s) + 1 /\ t[Len(s) + 1] = x
  /\ \A i \in DOMAIN s : t[i] = s[i]

LEMMA ListAppends ==
  ASSUME NEW s, IsList(s), NEW x, NEW t, t = Append(s, x)
  PROVE  Longer(s, x, t)
<1> DEFINE S == {s[i] : i \in DOMAIN s} \cup {x}
<1>1. s \in Seq(S) /\ x \in S
  BY SeqMonotonic DEF IsList
<1> HIDE DEF S
<1>2. /\ t \in Seq(S) /\ Len(s) \in Nat /\ DOMAIN s = 1 .. Len(s)
      /\ DOMAIN t = 1 .. Len(s) + 1 /\ t[Len(s) + 1] = x
      /\ \A i \in DOMAIN s : t[i] = s[i]
  BY <1>1, LenProperties
<1>3. t \in [1 .. Len(s) + 1 -> {t[i] : i \in DOMAIN t}]
  BY <1>2, LenProperties
<1>4. IsList(t)
  BY <1>2, <1>3, SeqDef, SMTT(30) DEF IsList
<1>5. QED
  BY <1>2, <1>4 DEF Longer

LEMMA ListRemade ==
  ASSUME NEW s, IsList(s), NEW t, t = [i \in DOMAIN s |-> t[i]]
  PROVE  IsList(t) /\ DOMAIN t = DOMAIN s
<1>1. Len(s) \in Nat /\ DOMAIN s = 1 .. Len(s)
  BY LenProperties DEF IsList
<1>2. DOMAIN t = DOMAIN s /\ t \in [1 .. Len(s) -> {t[i] : i \in DOMAIN t}]
  BY <1>1
<1>3. QED
  BY <1>1, <1>2, SeqDef DEF IsList

LEMMA KeepsCreateChangeSet ==
  ASSUME AwsPlanInv, NEW c \in Planners, CreateChangeSet(c)
  PROVE  AwsPlanInv'
<1> DEFINE p == planners[c]
           placeholder == [Nowhere EXCEPT !.id = cloud.stack.id + 1,
                                          !.status = "REVIEW_IN_PROGRESS"]
           st == IF cloud.stack.status = "absent" THEN placeholder ELSE cloud.stack
           account2 == [cloud EXCEPT !.stack = st]
           s == [name |-> p.id, stack |-> st.id, template |-> p.id.template,
                 status |-> "PENDING", execution |-> "UNAVAILABLE",
                 changes |-> {}, alone |-> p.alone, missed |-> p.missed]
           sets2 == Append(sets, s)
           q == [p EXCEPT !.at = "describe", !.set = Len(sets) + 1]
<1>1. /\ PlannerOk(p, cloud, sets, directories) /\ p.at = "create"
      /\ AccountOk(cloud) /\ IsList(sets) /\ \A i \in DOMAIN sets : SetOk(sets[i], cloud)
      /\ \A d \in Planners : PlannerOk(planners[d], cloud, sets, directories)
      /\ planners = [d \in Planners |-> planners[d]] /\ DirectoriesOk(directories, sets)
  BY DEF AwsPlanInv, CreateChangeSet, PlannerAt
<1>2. CASE ~Accepted(p.id)
  BY <1>2, KeepsEnding DEF CreateChangeSet
<1>3. CASE Accepted(p.id)
  <2>1. cloud' = account2 /\ sets' = sets2 /\ Becomes(c, q) /\ directories' = directories
    BY <1>3 DEF CreateChangeSet
  <2>2. /\ cloud.stack.id \in Nat /\ cloud.stack.rev \in Nat /\ DOMAIN cloud = {"stack", "things"}
        /\ cloud.stack.status = "absent" => cloud.stack.members = << >>
    BY <1>1, StackNumbers DEF AccountOk, Coherent
  <2>3. /\ DOMAIN account2 = {"stack", "things"} /\ account2.stack = st
        /\ account2.things = cloud.things
    BY <2>2
  <2>4. /\ placeholder.id = cloud.stack.id + 1 /\ placeholder.status = "REVIEW_IN_PROGRESS"
        /\ placeholder.rev = 0 /\ placeholder.members = << >>
        /\ DOMAIN placeholder = {"id", "status", "tags", "rev", "members"}
    <3> DEFINE one == [Nowhere EXCEPT !.id = cloud.stack.id + 1]
    <3>1. placeholder = [one EXCEPT !.status = "REVIEW_IN_PROGRESS"]
      OBVIOUS
    <3>2. /\ one.id = cloud.stack.id + 1 /\ one.rev = 0 /\ one.members = << >>
          /\ DOMAIN one = {"id", "status", "tags", "rev", "members"}
      BY DEF Nowhere
    <3> HIDE DEF one
    <3>3. QED
      BY <3>1, <3>2
  <2> HIDE DEF account2, placeholder
  <2>5. /\ st.members = cloud.stack.members
        /\ st.members # << >> => st.tags = cloud.stack.tags
        /\ st = cloud.stack \/ (st.id = cloud.stack.id + 1 /\ cloud.stack.status = "absent")
        /\ StackCoherent(st)
    <3>1. CASE cloud.stack.status = "absent"
      <4>1. st = placeholder
        BY <3>1
      <4>2. /\ st.members = << >> /\ st.id = cloud.stack.id + 1 /\ st.rev = 0
            /\ st.status = "REVIEW_IN_PROGRESS" /\ DOMAIN st = {"id", "status", "tags", "rev", "members"}
        BY <2>4, <4>1
      <4>3. DOMAIN << >> = {}
        OBVIOUS
      <4>4. StackCoherent(st)
        BY <2>2, <4>2, <4>3 DEF StackCoherent
      <4>5. QED
        BY <2>2, <3>1, <4>2, <4>4
    <3>2. CASE cloud.stack.status # "absent"
      BY <1>1, <3>2 DEF AccountOk, Coherent
    <3>3. QED
      BY <3>1, <3>2
  <2> HIDE DEF st
  <2>6. AccountOk(account2)
    <3>1. \A n \in DOMAIN cloud.things : ThingCoherent(cloud.things[n], n, st)
      BY <1>1, <2>5 DEF AccountOk, Coherent, ThingCoherent
    <3>2. QED
      BY <1>1, <2>3, <2>5, <3>1 DEF AccountOk, Coherent
  <2>7. LaterAccount(cloud, account2)
    <3>1. st = cloud.stack \/ cloud.stack.id < st.id
      BY <2>2, <2>5
    <3>2. cloud.stack.rev <= cloud.stack.rev
      BY <2>2
    <3>3. QED
      BY <1>1, <2>3, <2>6, <3>1, <3>2 DEF LaterAccount
  <2>8. /\ \A template, missed : Fits(template, cloud, missed) => Fits(template, account2, missed)
        /\ \A r : AloneOk(r, cloud) => AloneOk(r, account2)
    BY <2>3, <2>5, PlaceholderChangesNothing
  <2>9. /\ IsList(sets2) /\ Len(sets) \in Nat /\ DOMAIN sets = 1 .. Len(sets)
        /\ DOMAIN sets2 = 1 .. Len(sets) + 1 /\ sets2[Len(sets) + 1] = s
        /\ \A i \in DOMAIN sets : sets2[i] = sets[i]
    <3>1. sets2 = Append(sets, s)
      OBVIOUS
    <3> HIDE DEF s, sets2, p, q
    <3>2. IsList(sets)
      BY <1>1
    <3>3. Longer(sets, s, sets2)
      BY <3>1, <3>2, ListAppends
    <3>4. QED
      BY <3>3 DEF Longer
  <2>10. /\ s.name = p.id /\ s.stack = st.id /\ s.template = p.id.template
         /\ s.status = "PENDING" /\ s.alone = p.alone /\ s.missed = p.missed
         /\ DOMAIN s = {"name", "stack", "template", "status", "execution", "changes", "alone",
              "missed"}
    OBVIOUS
  <2>11. /\ DOMAIN p = DOMAIN NewPlanner /\ p.tree \in Trees /\ p.config \in Configs
         /\ p.config.names["push"] # p.config.names["deploy"] /\ BaseOk(p.id.base, cloud)
         /\ p.id.template = Template(p.config) /\ (p.alone => AloneOk(p, cloud))
         /\ BaseOk(p.base, cloud) /\ p.next = 1
    BY <1>1 DEF PlannerOk, Making
  <2> HIDE DEF s, sets2
  <2>12. SetOk(s, account2)
    <3>1. TemplateOk(s.template, account2)
      BY <2>6, <2>10, <2>11, TemplateNames
    <3>2. BaseOk(s.name.base, account2)
      BY <2>7, <2>10, <2>11, BaseStays
    <3>3. s.stack \in Nat /\ s.stack <= account2.stack.id
      BY <2>2, <2>3, <2>5, <2>10
    <3>4. s.alone => Fits(s.template, account2, s.missed)
      BY <1>1, <2>8, <2>10, <2>11 DEF AloneOk, Asking
    <3>5. QED
      BY <2>10, <3>1, <3>2, <3>3, <3>4 DEF SetOk
  <2>13. ASSUME NEW i \in DOMAIN sets2 PROVE SetOk(sets2[i], account2)
    <3>1. CASE i \in DOMAIN sets
      <4>1. st = cloud.stack \/ cloud.stack.id < st.id
        BY <2>2, <2>5
      <4>2. SetOk(sets[i], account2)
        BY <1>1, <2>3, <2>7, <3>1, <4>1, SetStays
      <4>3. QED
        BY <2>9, <3>1, <4>2
    <3>2. CASE i \notin DOMAIN sets
      BY <2>9, <2>12, <3>2
    <3>3. QED
      BY <3>1, <3>2
  <2>14. SetsKept(sets, sets2)
    BY <2>9 DEF SetsKept
  <2>15. ASSUME NEW d \in Planners PROVE PlannerOk(planners[d], account2, sets2, directories)
    <3>1. PlannerOk(planners[d], cloud, sets, directories)
      BY <1>1
    <3>2. planners[d].alone => AloneOk(planners[d], account2)
      BY <2>8, <3>1 DEF PlannerOk
    <3>3. QED
      BY <2>7, <2>14, <3>1, <3>2, PlannerStays
  <2>16. PlannerOk(q, account2, sets2, directories)
    <3>1. q = [[p EXCEPT !.at = "describe"] EXCEPT !.set = Len(sets) + 1]
      OBVIOUS
    <3>2. /\ DOMAIN q = DOMAIN NewPlanner /\ q.at = "describe" /\ q.tree = p.tree
          /\ q.config = p.config /\ q.id = p.id /\ q.base = p.base
          /\ q.next = p.next /\ q.alone = p.alone /\ q.set = Len(sets) + 1
      BY <2>11, <3>1 DEF NewPlanner
    <3> HIDE DEF q
    <3>3. BaseOk(q.base, account2) /\ BaseOk(q.id.base, account2)
      BY <2>7, <2>11, <3>2, BaseStays
    <3>4. q.set \in DOMAIN sets2 /\ sets2[q.set].name = q.id
      BY <2>9, <2>10, <3>2
    <3>5. AloneOk(q, account2)
      BY <3>2 DEF AloneOk, Asking
    <3>6. QED
      BY <2>11, <3>2, <3>3, <3>4, <3>5 DEF PlannerOk, Gathering, Asking, Making
  <2> HIDE DEF q
  <2>17. /\ planners' = [d \in Planners |-> planners'[d]]
         /\ \A d \in Planners : PlannerOk(planners'[d], account2, sets2, directories)
    BY <1>1, <2>1, <2>15, <2>16 DEF Becomes
  <2>18. DirectoriesOk(directories, sets2)
    BY <1>1, <2>14, DirectoriesStay
  <2>19. QED
    BY <2>1, <2>6, <2>9, <2>13, <2>17, <2>18 DEF AwsPlanInv
<1>4. QED
  BY <1>2, <1>3

\* One change set changes, and nothing else.
LEMMA OneSet ==
  ASSUME AwsPlanInv, NEW i \in DOMAIN sets, NEW s, sets' = [sets EXCEPT ![i] = s],
         UNCHANGED <<cloud, directories, planners>>, SetOk(s, cloud),
         s.name = sets[i].name, sets[i].status # "CREATE_COMPLETE"
  PROVE  AwsPlanInv'
<1> DEFINE sets2 == [sets EXCEPT ![i] = s]
<1>1. /\ AccountOk(cloud) /\ IsList(sets) /\ \A j \in DOMAIN sets : SetOk(sets[j], cloud)
      /\ \A d \in Planners : PlannerOk(planners[d], cloud, sets, directories)
      /\ planners = [d \in Planners |-> planners[d]] /\ DirectoriesOk(directories, sets)
  BY DEF AwsPlanInv
<1>2. /\ DOMAIN sets2 = DOMAIN sets /\ sets2 = [j \in DOMAIN sets |-> sets2[j]]
      /\ \A j \in DOMAIN sets : sets2[j] = IF j = i THEN s ELSE sets[j]
  OBVIOUS
<1>3. sets' = sets2
  OBVIOUS
<1> HIDE DEF sets2
<1>4. IsList(sets2)
  BY <1>1, <1>2, ListRemade
<1>5. SetsKept(sets, sets2)
  BY <1>2 DEF SetsKept
<1>6. \A j \in DOMAIN sets2 : SetOk(sets2[j], cloud)
  BY <1>1, <1>2
<1>7. ASSUME NEW d \in Planners PROVE PlannerOk(planners[d], cloud, sets2, directories)
  <2>1. PlannerOk(planners[d], cloud, sets, directories) /\ LaterAccount(cloud, cloud)
    BY <1>1, SameAccount
  <2>2. planners[d].alone => AloneOk(planners[d], cloud)
    BY <2>1 DEF PlannerOk
  <2>3. QED
    BY <1>5, <2>1, <2>2, PlannerStays
<1>8. DirectoriesOk(directories, sets2)
  BY <1>1, <1>5, DirectoriesStay
<1>9. QED
  BY <1>1, <1>3, <1>4, <1>6, <1>7, <1>8 DEF AwsPlanInv

LEMMA OneChangeEach ==
  ASSUME NEW members, NEW template, NEW replaced
  PROVE  OneEach(Diff(members, template, replaced))
BY DEF OneEach, Diff, Change, Modified, None

LEMMA KeepsComputeChangeSet ==
  ASSUME AwsPlanInv, NEW i \in DOMAIN sets, ComputeChangeSet(i)
  PROVE  AwsPlanInv'
<1> DEFINE s == sets[i]
<1>1. /\ SetOk(s, cloud) /\ s.status = "PENDING" /\ HeldBy(s, cloud.stack)
      /\ UNCHANGED <<cloud, directories, planners>>
  BY DEF AwsPlanInv, ComputeChangeSet, Held, HeldBy
<1>2. PICK replaced \in {"True", "False", "Conditional"} :
        LET diff == Diff(cloud.stack.members, s.template, replaced) IN
        \/ sets' = [sets EXCEPT ![i].status = "CREATE_COMPLETE",
                                ![i].execution = "AVAILABLE", ![i].changes = diff]
        \/ sets' = [sets EXCEPT ![i].status = "NO_CHANGES"]
        \/ sets' = [sets EXCEPT ![i].status = "FAILED"]
  BY DEF ComputeChangeSet
<1> DEFINE diff == Diff(cloud.stack.members, s.template, replaced)
           Like(s2) == /\ DOMAIN s2 = DOMAIN s /\ s2.name = s.name /\ s2.stack = s.stack
                       /\ s2.template = s.template /\ s2.alone = s.alone
                       /\ s2.missed = s.missed
<1>3. DOMAIN s = {"name", "stack", "template", "status", "execution", "changes", "alone",
              "missed"}
  BY <1>1 DEF SetOk
<1>4. CASE sets' = [sets EXCEPT ![i].status = "CREATE_COMPLETE",
                                ![i].execution = "AVAILABLE", ![i].changes = diff]
  <2> DEFINE s2 == [[[s EXCEPT !.status = "CREATE_COMPLETE"] EXCEPT !.execution = "AVAILABLE"]
                     EXCEPT !.changes = diff]
  <2>1. sets' = [sets EXCEPT ![i] = s2]
    BY <1>4
  <2>2. /\ Like(s2) /\ s2.status = "CREATE_COMPLETE" /\ s2.execution = "AVAILABLE"
        /\ s2.changes = diff
    BY <1>3
  <2> HIDE DEF s2
  <2>3. OneEach(s2.changes)
    BY <2>2, OneChangeEach
  <2>4. FitsNow(s2, cloud.stack)
    BY <2>2 DEF FitsNow
  <2>5. HeldBy(s2, cloud.stack) /\ s2.alone => Fits(s2.template, cloud, s2.missed)
    BY <1>1, <2>2 DEF SetOk, HeldBy
  <2>6. SetOk(s2, cloud)
    BY <1>1, <1>3, <2>2, <2>3, <2>4, <2>5 DEF SetOk
  <2>7. QED
    BY <1>1, <2>1, <2>2, <2>6, OneSet
<1>5. ASSUME NEW status \in {"NO_CHANGES", "FAILED"}, sets' = [sets EXCEPT ![i].status = status]
      PROVE  AwsPlanInv'
  <2> DEFINE s2 == [s EXCEPT !.status = status]
  <2>1. sets' = [sets EXCEPT ![i] = s2]
    BY <1>5
  <2>2. /\ Like(s2) /\ s2.status # "CREATE_COMPLETE" /\ s2.execution = s.execution
        /\ s2.changes = s.changes
    BY <1>3
  <2> HIDE DEF s2
  <2>3. SetOk(s2, cloud)
    BY <1>1, <1>3, <2>2 DEF SetOk, HeldBy
  <2>4. QED
    BY <1>1, <2>1, <2>2, <2>3, OneSet
<1>6. QED
  BY <1>2, <1>4, <1>5

LEMMA FivePlanFiles ==
  /\ {PlanFiles[i] : i \in DOMAIN PlanFiles} = FileNames
  /\ Len(PlanFiles) = 5 /\ PlanFiles[5] = "plan"
  /\ \A i \in 1 .. 5 : PlanFiles[i] \in FileNames /\ (PlanFiles[i] = "plan" => i = 5)
<1>1. /\ PlanFiles[1] = "template" /\ PlanFiles[2] = "parameters" /\ PlanFiles[3] = "change-set"
      /\ PlanFiles[4] = "policies" /\ PlanFiles[5] = "plan" /\ Len(PlanFiles) = 5
      /\ DOMAIN PlanFiles = 1 .. 5
  BY DEF PlanFiles
<1>2. {PlanFiles[i] : i \in DOMAIN PlanFiles} = FileNames
  BY <1>1 DEF FileNames
<1>3. \A i \in 1 .. 5 : PlanFiles[i] \in FileNames /\ (PlanFiles[i] = "plan" => i = 5)
  BY <1>1 DEF FileNames
<1>4. QED
  BY <1>1, <1>2, <1>3

\* What a run writes of a change set is what the change set is when it is described.
LEMMA DescribedAsItIs ==
  ASSUME NEW p, NEW i \in DOMAIN sets, sets[i].name = p.id, NEW outcome
  PROVE  PlanTextOk(Text(PlanRecord(p, Described(i), outcome)), sets)
<1> DEFINE d == Described(i)
           r == PlanRecord(p, d, outcome)
<1>1. /\ d.id = i /\ d.status = sets[i].status /\ d.changes = sets[i].changes
  BY DEF Described
<1> HIDE DEF d
<1>2. /\ r.planId = p.id /\ r.input = p.id /\ r.set = d.id
      /\ r.files.template = Text(p.id.template) /\ r.files.described.is = d
  BY DEF PlanRecord, Text
<1> HIDE DEF r
<1>3. RecordReal(r, sets)
  BY <1>1, <1>2 DEF RecordReal
<1>4. Text(r).is = r
  BY DEF Text
<1>5. QED
  BY <1>3, <1>4 DEF PlanTextOk, r, d

LEMMA KeepsDescribeChangeSet ==
  ASSUME AwsPlanInv, NEW c \in Planners, DescribeChangeSet(c)
  PROVE  AwsPlanInv'
<1> DEFINE p == planners[c]
           i == p.set
           outcome == IF sets[i].status = "NO_CHANGES" THEN "no-changes" ELSE "changes"
           again == [p EXCEPT !.polls = p.polls + 1]
           plan == Text(PlanRecord(p, Described(i), outcome))
           done == [p EXCEPT !.at = "directory", !.plan = plan]
<1>1. PlannerOk(p, cloud, sets, directories) /\ p.at = "describe"
  BY DEF AwsPlanInv, DescribeChangeSet, PlannerAt
<1>2. /\ DOMAIN p = DOMAIN NewPlanner /\ p.tree \in Trees /\ p.config \in Configs
      /\ p.config.names["push"] # p.config.names["deploy"] /\ BaseOk(p.id.base, cloud)
      /\ p.id.template = Template(p.config)
      /\ BaseOk(p.base, cloud) /\ p.next = 1 /\ i \in DOMAIN sets /\ sets[i].name = p.id
  BY <1>1 DEF PlannerOk, Making
<1>3. EndsHere(c) \/ Becomes(c, again) \/ Becomes(c, done)
  BY DEF DescribeChangeSet
<1>4. CASE EndsHere(c)
  BY <1>4, KeepsEnding DEF DescribeChangeSet
<1>5. CASE Becomes(c, again)
  <2>1. /\ DOMAIN again = DOMAIN NewPlanner /\ again.at = "describe" /\ again.tree = p.tree
        /\ again.config = p.config /\ again.id = p.id /\ again.base = p.base
        /\ again.next = p.next /\ again.set = i
    BY <1>1, <1>2 DEF NewPlanner
  <2> HIDE DEF again, p, i
  <2>2. AloneOk(again, cloud)
    BY <2>1 DEF AloneOk, Asking
  <2>3. PlannerOk(again, cloud, sets, directories)
    BY <1>2, <2>1, <2>2 DEF PlannerOk, Gathering, Asking, Making
  <2>4. QED
    BY <1>5, <2>3, OnePlannerInTheSame DEF DescribeChangeSet
<1>6. CASE Becomes(c, done)
  <2>1. PlanTextOk(plan, sets)
    BY <1>2, DescribedAsItIs
  <2> HIDE DEF plan
  <2>2. done = [[p EXCEPT !.at = "directory"] EXCEPT !.plan = plan]
    OBVIOUS
  <2>3. /\ DOMAIN done = DOMAIN NewPlanner /\ done.at = "directory" /\ done.tree = p.tree
        /\ done.config = p.config /\ done.id = p.id /\ done.base = p.base
        /\ done.next = p.next /\ done.plan = plan
    BY <1>2, <2>2 DEF NewPlanner
  <2> HIDE DEF done, p, i
  <2>4. AloneOk(done, cloud)
    BY <2>3 DEF AloneOk, Asking
  <2>5. PlannerOk(done, cloud, sets, directories)
    BY <1>2, <2>1, <2>3, <2>4 DEF PlannerOk, Gathering, Asking, Making
  <2>6. QED
    BY <1>6, <2>5, OnePlannerInTheSame DEF DescribeChangeSet
<1>7. QED
  BY <1>3, <1>4, <1>5, <1>6

LEMMA KeepsMakeDirectory ==
  ASSUME AwsPlanInv, NEW c \in Planners, MakeDirectory(c)
  PROVE  AwsPlanInv'
<1> DEFINE p == planners[c]
           there == directories[p.tree]
           empty == [f \in {PlanFiles[i] : i \in DOMAIN PlanFiles} |-> NoText]
           made == [i \in DOMAIN there \cup {p.id} |-> IF i = p.id THEN empty ELSE there[i]]
           D2 == [directories EXCEPT ![p.tree] = made]
           q == [p EXCEPT !.at = "write"]
<1>1. PlannerOk(p, cloud, sets, directories) /\ p.at = "directory"
      /\ DirectoriesOk(directories, sets)
  BY DEF AwsPlanInv, MakeDirectory, PlannerAt
<1>2. /\ DOMAIN p = DOMAIN NewPlanner /\ p.tree \in Trees /\ p.config \in Configs
      /\ p.config.names["push"] # p.config.names["deploy"] /\ BaseOk(p.id.base, cloud)
      /\ p.id.template = Template(p.config) /\ PlanTextOk(p.plan, sets)
      /\ BaseOk(p.base, cloud) /\ p.next = 1
  BY <1>1 DEF PlannerOk, Making
<1>3. CASE p.id \in DOMAIN there
  BY <1>3, KeepsEnding DEF MakeDirectory
<1>4. CASE p.id \notin DOMAIN there
  <2>1. directories' = D2 /\ Becomes(c, q) /\ UNCHANGED <<cloud, sets>>
    BY <1>4 DEF MakeDirectory
  <2>2. DOMAIN empty = FileNames /\ empty["plan"] = NoText
    BY FivePlanFiles DEF FileNames
  <2> HIDE DEF empty
  <2>3. /\ DOMAIN made = DOMAIN there \cup {p.id} /\ made[p.id] = empty
        /\ \A id \in DOMAIN there : made[id] = there[id]
    BY <1>4
  <2>4. /\ DOMAIN q = DOMAIN NewPlanner /\ q.at = "write" /\ q.tree = p.tree
        /\ q.config = p.config /\ q.id = p.id /\ q.base = p.base
        /\ q.next = p.next /\ q.plan = p.plan
    BY <1>2 DEF NewPlanner
  <2> HIDE DEF made, q
  <2>5. /\ DOMAIN D2 = Trees /\ D2[p.tree] = made
        /\ \A t \in Trees : t # p.tree => D2[t] = directories[t]
    BY <1>1, <1>2 DEF DirectoriesOk
  <2> HIDE DEF D2
  <2>6. PlanTextOk(NoText, sets)
    BY DEF PlanTextOk, Whole, NoText
  <2>7. DirectoriesOk(D2, sets)
    BY <1>1, <1>2, <2>2, <2>3, <2>5, <2>6 DEF DirectoriesOk
  <2>8. \A t \in Trees : DOMAIN directories[t] \subseteq DOMAIN D2[t]
    BY <1>2, <2>3, <2>5
  <2>9. AloneOk(q, cloud)
    BY <2>4 DEF AloneOk, Asking
  <2>10. q.id \in DOMAIN D2[q.tree]
    BY <2>3, <2>4, <2>5
  <2>11. PlannerOk(q, cloud, sets, D2)
    BY <1>2, <2>4, <2>9, <2>10 DEF PlannerOk, Gathering, Asking, Making
  <2>12. QED
    BY <2>1, <2>7, <2>8, <2>11, OnePlanner
<1>5. QED
  BY <1>3, <1>4

FileReplaced(D, t, id, f, text) == [D EXCEPT ![t][id][f] = text]
SamePlans(D, D2) == \A u \in Trees : DOMAIN D2[u] = DOMAIN D[u]

LEMMA OneFile ==
  ASSUME NEW D, NEW S, DirectoriesOk(D, S), NEW t \in Trees, NEW id \in DOMAIN D[t],
         NEW f \in FileNames, NEW text, f = "plan" => PlanTextOk(text, S),
         NEW D2, D2 = FileReplaced(D, t, id, f, text)
  PROVE  DirectoriesOk(D2, S) /\ SamePlans(D, D2)
<1> DEFINE files == [D[t][id] EXCEPT ![f] = text]
           there == [D[t] EXCEPT ![id] = files]
<1>1. D2 = [D EXCEPT ![t] = there]
  BY DEF FileReplaced
<1>2. DOMAIN D = Trees /\ DOMAIN D[t][id] = FileNames /\ PlanTextOk(D[t][id]["plan"], S)
  BY DEF DirectoriesOk
<1>3. DOMAIN files = FileNames /\ files["plan"] = IF f = "plan" THEN text ELSE D[t][id]["plan"]
  BY <1>2 DEF FileNames
<1>4. PlanTextOk(files["plan"], S)
  BY <1>2, <1>3
<1> HIDE DEF files
<1>5. /\ DOMAIN there = DOMAIN D[t] /\ there[id] = files
      /\ \A i \in DOMAIN D[t] : i # id => there[i] = D[t][i]
  OBVIOUS
<1> HIDE DEF there
<1>6. /\ DOMAIN D2 = Trees /\ D2[t] = there
      /\ \A u \in Trees : u # t => D2[u] = D[u]
  BY <1>1, <1>2
<1>7. ASSUME NEW u \in Trees, NEW i \in DOMAIN D2[u]
      PROVE  DOMAIN D2[u][i] = FileNames /\ PlanTextOk(D2[u][i]["plan"], S)
  BY <1>3, <1>4, <1>5, <1>6 DEF DirectoriesOk
<1>8. QED
  BY <1>5, <1>6, <1>7 DEF DirectoriesOk, SamePlans

LEMMA KeepsWriteFile ==
  ASSUME AwsPlanInv, NEW c \in Planners, WriteFile(c)
  PROVE  AwsPlanInv'
<1> DEFINE p == planners[c]
           f == PlanFiles[p.next]
           text == FileText(p, f)
           D2 == [directories EXCEPT ![p.tree][p.id][f] = text]
           q == [p EXCEPT !.next = p.next + 1]
<1>1. PlannerOk(p, cloud, sets, directories) /\ p.at = "write"
      /\ DirectoriesOk(directories, sets)
  BY DEF AwsPlanInv, WriteFile, PlannerAt
<1>2. /\ DOMAIN p = DOMAIN NewPlanner /\ p.tree \in Trees /\ p.config \in Configs
      /\ p.config.names["push"] # p.config.names["deploy"] /\ BaseOk(p.id.base, cloud)
      /\ p.id.template = Template(p.config) /\ PlanTextOk(p.plan, sets)
      /\ BaseOk(p.base, cloud) /\ p.next \in 1 .. 5 /\ p.id \in DOMAIN directories[p.tree]
  BY <1>1 DEF PlannerOk, Making
<1>3. /\ directories' = D2 /\ UNCHANGED <<cloud, sets>>
      /\ Becomes(c, IF p.next = 5 THEN EndedPlanner ELSE q)
  BY FivePlanFiles DEF WriteFile
<1>4. f \in FileNames /\ (f = "plan" => text = p.plan)
  BY <1>2, FivePlanFiles DEF FileText
<1> HIDE DEF f, text
<1>5. /\ DirectoriesOk(D2, sets)
      /\ \A u \in Trees : DOMAIN D2[u] = DOMAIN directories[u]
  <2>1. D2 = FileReplaced(directories, p.tree, p.id, f, text)
    BY DEF FileReplaced
  <2> HIDE DEF D2, p
  <2>2. DirectoriesOk(D2, sets) /\ SamePlans(directories, D2)
    BY <1>1, <1>2, <1>4, <2>1, OneFile
  <2>3. QED
    BY <2>2 DEF SamePlans
<1> HIDE DEF D2
<1>6. CASE p.next = 5
  <2>1. PlannerOk(EndedPlanner, cloud, sets, D2)
    BY FreshPlanners
  <2>2. QED
    BY <1>3, <1>5, <1>6, <2>1, OnePlanner
<1>7. CASE p.next # 5
  <2>1. /\ DOMAIN q = DOMAIN NewPlanner /\ q.at = "write" /\ q.tree = p.tree
        /\ q.config = p.config /\ q.id = p.id /\ q.base = p.base
        /\ q.next = p.next + 1 /\ q.plan = p.plan
    BY <1>1, <1>2 DEF NewPlanner
  <2> HIDE DEF q
  <2>2. AloneOk(q, cloud)
    BY <2>1 DEF AloneOk, Asking
  <2>3. q.next \in 1 .. 5 /\ q.id \in DOMAIN D2[q.tree]
    BY <1>2, <1>5, <1>7, <2>1
  <2>4. PlannerOk(q, cloud, sets, D2)
    BY <1>2, <2>1, <2>2, <2>3 DEF PlannerOk, Gathering, Asking, Making
  <2>5. QED
    BY <1>3, <1>5, <1>7, <2>4, OnePlanner
<1>8. QED
  BY <1>6, <1>7

LEMMA KeepsDamageDirectory ==
  ASSUME AwsPlanInv, NEW t \in Trees, DamageDirectory(t)
  PROVE  AwsPlanInv'
<1>1. PICK id, other \in DOMAIN directories[t], f \in {"template", "change-set", "plan"} :
        \/ directories' = [directories EXCEPT ![t][id][f] = directories[t][other][f]]
        \/ directories' = [directories EXCEPT ![t][id][f] = TornText]
  BY DEF DamageDirectory
<1>2. /\ AccountOk(cloud) /\ IsList(sets) /\ \A j \in DOMAIN sets : SetOk(sets[j], cloud)
      /\ \A d \in Planners : PlannerOk(planners[d], cloud, sets, directories)
      /\ planners = [d \in Planners |-> planners[d]] /\ DirectoriesOk(directories, sets)
  BY DEF AwsPlanInv
<1>3. UNCHANGED <<cloud, sets, planners>> /\ f \in FileNames
  BY DEF DamageDirectory, FileNames
<1>4. PlanTextOk(TornText, sets) /\ (f = "plan" => PlanTextOk(directories[t][other][f], sets))
  BY <1>2 DEF PlanTextOk, Whole, TornText, DirectoriesOk
<1>5. PICK text : directories' = [directories EXCEPT ![t][id][f] = text]
                  /\ (f = "plan" => PlanTextOk(text, sets))
  BY <1>1, <1>4
<1> DEFINE D2 == directories'
<1>6. /\ DirectoriesOk(D2, sets)
      /\ \A u \in Trees : DOMAIN D2[u] = DOMAIN directories[u]
  <2>1. D2 = FileReplaced(directories, t, id, f, text)
    BY <1>5 DEF FileReplaced
  <2> HIDE DEF D2
  <2>2. DirectoriesOk(D2, sets) /\ SamePlans(directories, D2)
    BY <1>2, <1>3, <1>5, <2>1, OneFile
  <2>3. QED
    BY <2>2 DEF SamePlans
<1>7. directories' = D2
  OBVIOUS
<1> HIDE DEF D2
<1>8. ASSUME NEW d \in Planners PROVE PlannerOk(planners[d], cloud, sets, D2)
  <2>1. /\ PlannerOk(planners[d], cloud, sets, directories) /\ LaterAccount(cloud, cloud)
        /\ SetsKept(sets, sets)
    BY <1>2, SameAccount DEF SetsKept
  <2>2. planners[d].alone => AloneOk(planners[d], cloud)
    BY <2>1 DEF PlannerOk
  <2>3. \A u \in Trees : DOMAIN directories[u] \subseteq DOMAIN D2[u]
    BY <1>6
  <2>4. QED
    BY <2>1, <2>2, <2>3, PlannerStays
<1>9. QED
  BY <1>2, <1>3, <1>6, <1>7, <1>8 DEF AwsPlanInv

LEMMA KeepsStopsHere ==
  ASSUME AwsPlanInv, NEW c \in Planners, StopsHere(c)
  PROVE  AwsPlanInv'
BY KeepsEnding DEF StopsHere

\* Others, or an apply, change the account: no run that is under way is alone in it.
LEMMA PlannerDisturbed ==
  ASSUME NEW p, NEW account, NEW account2, NEW S, NEW S2, NEW D,
         PlannerOk(p, account, S, D), LaterAccount(account, account2), SetsKept(S, S2),
         NEW q, q = [p EXCEPT !.alone = (p.at = "idle")]
  PROVE  PlannerOk(q, account2, S2, D)
<1>1. DOMAIN p = DOMAIN NewPlanner /\ PlannerOk(p, account, S, D)
  BY DEF PlannerOk
<1>2. /\ DOMAIN q = DOMAIN NewPlanner /\ q.at = p.at /\ q.tree = p.tree /\ q.config = p.config
      /\ q.base = p.base /\ q.id = p.id /\ q.members = p.members /\ q.next = p.next
      /\ q.set = p.set /\ q.plan = p.plan
  BY <1>1 DEF NewPlanner
<1>3. q.alone => q.at = "idle"
  <2>1. q.alone = (p.at = "idle")
    BY <1>1 DEF NewPlanner
  <2>2. QED
    BY <1>2, <2>1, Zenon
<1>4. q.alone => AloneOk(q, account2)
  BY <1>3 DEF AloneOk, Asking
<1>5. BaseOk(q.base, account2) /\ BaseOk(q.id.base, account2)
  BY <1>1, <1>2, BaseStays DEF PlannerOk
<1>6. q.at \in {"directory", "write"} => PlanTextOk(q.plan, S2)
  BY <1>1, <1>2, PlanTextStays DEF PlannerOk
<1>7. q.at = "describe" => q.set \in DOMAIN S2 /\ S2[q.set].name = q.id
  BY <1>1, <1>2 DEF PlannerOk, SetsKept
<1>8. QED
  BY <1>1, <1>2, <1>4, <1>5, <1>6, <1>7 DEF PlannerOk

SetLike(s, s2) ==
  /\ DOMAIN s2 = DOMAIN s /\ s2.name = s.name /\ s2.stack = s.stack /\ s2.template = s.template
  /\ s2.status = s.status /\ s2.changes = s.changes

LEMMA SetAfter ==
  ASSUME NEW s, NEW s2, NEW account, NEW account2, SetOk(s, account),
         LaterAccount(account, account2), SetLike(s, s2),
         HeldBy(s2, account2.stack) =>
           /\ ~s2.alone
           /\ s2.status = "CREATE_COMPLETE" /\ s2.execution = "AVAILABLE" =>
                FitsNow(s2, account2.stack) \/ OutOfDate(s2.name.base, account2.stack)
  PROVE  SetOk(s2, account2)
<1>1. s2.stack \in Nat /\ s2.stack <= account2.stack.id
  <2>1. account.stack.id \in Nat /\ account2.stack.id \in Nat /\ account.stack.id <= account2.stack.id
    BY StackNumbers DEF LaterAccount
  <2>2. QED
    BY <2>1 DEF SetOk, SetLike
<1>2. BaseOk(s2.name.base, account2)
  BY BaseStays DEF SetOk, SetLike
<1>3. TemplateOk(s2.template, account2)
  BY DEF SetOk, SetLike, TemplateOk, LaterAccount
<1>4. QED
  BY <1>1, <1>2, <1>3 DEF SetOk, SetLike

LEMMA AccountMoves ==
  ASSUME AwsPlanInv, LaterAccount(cloud, cloud'), Disturb, UNCHANGED directories,
         sets' = [i \in DOMAIN sets |-> sets'[i]],
         \A i \in DOMAIN sets : SetLike(sets[i], sets'[i]) /\ SetOk(sets'[i], cloud')
  PROVE  AwsPlanInv'
<1> DEFINE S2 == sets'
           account2 == cloud'
<1>1. /\ AccountOk(cloud) /\ IsList(sets)
      /\ \A d \in Planners : PlannerOk(planners[d], cloud, sets, directories)
      /\ DirectoriesOk(directories, sets)
  BY DEF AwsPlanInv
<1>2. LaterAccount(cloud, account2) /\ S2 = [i \in DOMAIN sets |-> S2[i]]
      /\ \A i \in DOMAIN sets : SetLike(sets[i], S2[i]) /\ SetOk(S2[i], account2)
  OBVIOUS
<1>3. sets' = S2 /\ cloud' = account2
  OBVIOUS
<1> HIDE DEF S2, account2
<1>4. IsList(S2) /\ DOMAIN S2 = DOMAIN sets
  BY <1>1, <1>2, ListRemade
<1>5. SetsKept(sets, S2)
  BY <1>2, <1>4 DEF SetsKept, SetLike
<1>6. AccountOk(account2)
  BY <1>2 DEF LaterAccount
<1>7. DirectoriesOk(directories, S2)
  BY <1>1, <1>5, DirectoriesStay
<1> DEFINE q(d) == [planners[d] EXCEPT !.alone = (planners[d].at = "idle")]
<1>8. planners' = [d \in Planners |-> q(d)]
  BY DEF Disturb
<1>9. ASSUME NEW d \in Planners PROVE PlannerOk(q(d), account2, S2, directories)
  BY <1>1, <1>2, <1>5, PlannerDisturbed
<1> HIDE DEF q
<1>10. /\ planners' = [d \in Planners |-> planners'[d]]
       /\ \A d \in Planners : PlannerOk(planners'[d], account2, S2, directories)
  BY <1>8, <1>9
<1>11. QED
  BY <1>2, <1>3, <1>4, <1>6, <1>7, <1>10 DEF AwsPlanInv

\* The same resources under the same names, and perhaps one that is not the repository's.
SameNames(members, m) ==
  /\ DOMAIN m \cap LogicalIds = DOMAIN members \cap LogicalIds
  /\ \A l \in DOMAIN m : DOMAIN m[l] = {"name", "version"}
  /\ \A l \in DOMAIN members \cap LogicalIds : m[l].name = members[l].name

LEMMA StackAdvances ==
  ASSUME AccountOk(cloud), cloud.stack.status # "absent", NEW account2,
         DOMAIN account2 = {"stack", "things"}, account2.things = cloud.things,
         NEW st2, st2 = account2.stack, DOMAIN st2 = DOMAIN cloud.stack,
         st2.id = cloud.stack.id, st2.rev = cloud.stack.rev + 1, st2.status # "absent",
         SameNames(cloud.stack.members, st2.members)
  PROVE  LaterAccount(cloud, account2)
<1>1. /\ Coherent(cloud) /\ StackCoherent(cloud.stack)
      /\ cloud.stack.id \in Nat /\ cloud.stack.rev \in Nat
  BY DEF AccountOk, Coherent, StackCoherent
<1>2. StackCoherent(st2)
  BY <1>1 DEF StackCoherent, SameNames
<1>3. ASSUME NEW n \in DOMAIN cloud.things PROVE ThingCoherent(cloud.things[n], n, st2)
  BY <1>1 DEF Coherent, ThingCoherent, SameNames
<1>4. AccountOk(account2)
  BY <1>2, <1>3 DEF AccountOk, Coherent
<1>5. cloud.stack.rev <= st2.rev
  BY <1>1
<1>6. QED
  BY <1>4, <1>5 DEF LaterAccount

\* Whatever was planned against a stack of this status, its revision was another.
LEMMA AdvancedIsOutOfDate ==
  ASSUME NEW base, NEW account, AccountOk(account), BaseOk(base, account),
         account.stack.status # "absent", NEW st2, st2.id = account.stack.id,
         st2.rev = account.stack.rev + 1, st2.status # "REVIEW_IN_PROGRESS"
  PROVE  OutOfDate(base, st2)
BY StackNumbers DEF OutOfDate, BaseOk

OthersUpdates(m) ==
  [cloud EXCEPT !.stack.rev = @ + 1, !.stack.status = "UPDATE_COMPLETE", !.stack.members = m]
WithStray(members) ==
  [l \in DOMAIN members \cup {"Stray"} |->
     IF l = "Stray" THEN [name |-> "stray", version |-> 0] ELSE members[l]]
Reversioned(members) == [l \in DOMAIN members |-> [members[l] EXCEPT !.version = 0]]
Deleted ==
  [stack |-> [Nowhere EXCEPT !.id = cloud.stack.id],
   things |-> [n \in DOMAIN cloud.things |->
     [cloud.things[n] EXCEPT !.owner = IF @ = "ours" THEN None ELSE @]]]

LEMMA WhatOthersDo ==
  ASSUME NEW account2 \in OthersCloud
  PROVE  \/ /\ cloud.stack.status \in Settled
            /\ \/ account2 = OthersUpdates(WithStray(cloud.stack.members))
               \/ account2 = OthersUpdates(Reversioned(cloud.stack.members))
         \/ cloud.stack.status # "absent" /\ account2 = Deleted
         \/ \E n \in DOMAIN cloud.things : account2 = [cloud EXCEPT !.things[n].exists = TRUE]
         \/ \E n \in DOMAIN cloud.things :
              account2 = [cloud EXCEPT !.things[n].policies = @ \cup {"extra"}]
<1> DEFINE U == { OthersUpdates(m) :
      m \in IF cloud.stack.status \notin Settled THEN {}
            ELSE {WithStray(cloud.stack.members), Reversioned(cloud.stack.members)} }
           X == IF cloud.stack.status = "absent" THEN {} ELSE {Deleted}
           E == { [cloud EXCEPT !.things[n].exists = TRUE] :
                    n \in {m \in DOMAIN cloud.things : ~cloud.things[m].exists} }
           P == { [cloud EXCEPT !.things[n].policies = @ \cup {"extra"}] :
                    n \in {m \in DOMAIN cloud.things : cloud.things[m].policies # {}} }
<1>1. OthersCloud = U \cup X \cup E \cup P
  BY DEF OthersCloud, OthersUpdates, WithStray, Reversioned, Deleted
<1>2. CASE account2 \in U
  BY <1>2
<1>3. CASE account2 \in X
  BY <1>3
<1>4. CASE account2 \in E
  BY <1>4
<1>5. CASE account2 \in P
  BY <1>5
<1> HIDE DEF U, X, E, P
<1>6. QED
  BY <1>1, <1>2, <1>3, <1>4, <1>5

LEMMA UpdatedIsLater ==
  ASSUME AccountOk(cloud), cloud.stack.status \in Settled, NEW m,
         SameNames(cloud.stack.members, m)
  PROVE  /\ LaterAccount(cloud, OthersUpdates(m))
         /\ OthersUpdates(m).stack.id = cloud.stack.id
         /\ OthersUpdates(m).stack.rev = cloud.stack.rev + 1
         /\ OthersUpdates(m).stack.status = "UPDATE_COMPLETE"
<1> DEFINE a1 == [cloud.stack EXCEPT !.rev = cloud.stack.rev + 1]
           a2 == [a1 EXCEPT !.status = "UPDATE_COMPLETE"]
           a3 == [a2 EXCEPT !.members = m]
<1>1. DOMAIN cloud = {"stack", "things"}
      /\ DOMAIN cloud.stack = {"id", "status", "tags", "rev", "members"}
  BY DEF AccountOk, Coherent, StackCoherent
<1>2. OthersUpdates(m) = [cloud EXCEPT !.stack = a3]
  BY DEF OthersUpdates
<1>3. /\ DOMAIN a3 = DOMAIN cloud.stack /\ a3.id = cloud.stack.id
      /\ a3.rev = cloud.stack.rev + 1 /\ a3.status = "UPDATE_COMPLETE" /\ a3.members = m
  BY <1>1
<1> HIDE DEF a3
<1>4. /\ DOMAIN OthersUpdates(m) = {"stack", "things"} /\ OthersUpdates(m).stack = a3
      /\ OthersUpdates(m).things = cloud.things
  BY <1>1, <1>2
<1>5. cloud.stack.status # "absent"
  BY DEF Settled
<1>6. LaterAccount(cloud, OthersUpdates(m))
  BY <1>3, <1>4, <1>5, StackAdvances
<1>7. QED
  BY <1>3, <1>4, <1>6

LEMMA DeletedIsLater ==
  ASSUME AccountOk(cloud), cloud.stack.status # "absent"
  PROVE  /\ LaterAccount(cloud, Deleted)
         /\ Deleted.stack.id = cloud.stack.id /\ Deleted.stack.status = "absent"
<1> DEFINE st == [Nowhere EXCEPT !.id = cloud.stack.id]
           freed(n) == [cloud.things[n] EXCEPT
                          !.owner = IF cloud.things[n].owner = "ours" THEN None
                                    ELSE cloud.things[n].owner]
           things == [n \in DOMAIN cloud.things |-> freed(n)]
<1>1. cloud.stack.id \in Nat
  BY StackNumbers
<1>2. /\ DOMAIN st = {"id", "status", "tags", "rev", "members"} /\ st.id = cloud.stack.id
      /\ st.status = "absent" /\ st.rev = 0 /\ st.members = << >>
  BY DEF Nowhere
<1>3. StackCoherent(st)
  <2>1. DOMAIN << >> = {}
    OBVIOUS
  <2>2. QED
    BY <1>1, <1>2, <2>1 DEF StackCoherent
<1>4. Deleted = [stack |-> st, things |-> things]
  BY DEF Deleted
<1>5. ASSUME NEW n \in DOMAIN cloud.things PROVE ThingCoherent(freed(n), n, st)
  <2>1. DOMAIN cloud.things[n] =
          {"exists", "owner", "logical", "sameArn", "consumer", "policies"}
    BY DEF AccountOk, Coherent, ThingCoherent
  <2>2. DOMAIN freed(n) = DOMAIN cloud.things[n] /\ freed(n).owner # "ours"
    BY <2>1 DEF None
  <2>3. QED
    BY <2>1, <2>2 DEF ThingCoherent
<1>6. DOMAIN things = DOMAIN cloud.things
      /\ \A n \in DOMAIN cloud.things : ThingCoherent(things[n], n, st)
  BY <1>5
<1> HIDE DEF st, things
<1>7. /\ DOMAIN Deleted = {"stack", "things"} /\ Deleted.stack = st /\ Deleted.things = things
  BY <1>4
<1>8. AccountOk(Deleted)
  BY <1>3, <1>6, <1>7 DEF AccountOk, Coherent
<1>9. QED
  BY <1>2, <1>6, <1>7, <1>8 DEF LaterAccount

LEMMA ThingsAreLater ==
  ASSUME AccountOk(cloud), NEW n \in DOMAIN cloud.things, NEW account2, NEW thing,
         account2 = [cloud EXCEPT !.things[n] = thing],
         DOMAIN thing = DOMAIN cloud.things[n], thing.owner = cloud.things[n].owner,
         thing.logical = cloud.things[n].logical
  PROVE  LaterAccount(cloud, account2) /\ account2.stack = cloud.stack
<1> DEFINE things == [cloud.things EXCEPT ![n] = thing]
<1>1. DOMAIN cloud = {"stack", "things"}
  BY DEF AccountOk, Coherent
<1>2. account2 = [cloud EXCEPT !.things = things]
  OBVIOUS
<1>3. /\ DOMAIN things = DOMAIN cloud.things /\ things[n] = thing
      /\ \A o \in DOMAIN cloud.things : o # n => things[o] = cloud.things[o]
  OBVIOUS
<1> HIDE DEF things
<1>4. /\ DOMAIN account2 = {"stack", "things"} /\ account2.stack = cloud.stack
      /\ account2.things = things
  BY <1>1, <1>2
<1>5. ThingCoherent(thing, n, cloud.stack)
  BY DEF AccountOk, Coherent, ThingCoherent
<1>6. AccountOk(account2)
  BY <1>3, <1>4, <1>5 DEF AccountOk, Coherent
<1>7. cloud.stack.rev <= cloud.stack.rev
  BY StackNumbers
<1>8. QED
  BY <1>3, <1>4, <1>6, <1>7 DEF LaterAccount

\* What others can have done, and what it means for the change sets of the stack.
LEMMA OthersAreLater ==
  ASSUME AccountOk(cloud), NEW account2 \in OthersCloud
  PROVE  /\ LaterAccount(cloud, account2) /\ account2.stack.id = cloud.stack.id
         /\ \/ account2.stack.status = "absent"
            \/ account2.stack = cloud.stack
            \/ /\ cloud.stack.status # "absent"
               /\ account2.stack.rev = cloud.stack.rev + 1
               /\ account2.stack.status = "UPDATE_COMPLETE"
<1> DEFINE members == cloud.stack.members
<1>1. StackCoherent(cloud.stack) /\ "Stray" \notin LogicalIds
  BY ThreeKeys DEF AccountOk, Coherent
<1>2. ASSUME cloud.stack.status \in Settled, NEW m, SameNames(members, m),
             account2 = OthersUpdates(m)
      PROVE  /\ LaterAccount(cloud, account2) /\ account2.stack.id = cloud.stack.id
             /\ cloud.stack.status # "absent"
             /\ account2.stack.rev = cloud.stack.rev + 1
             /\ account2.stack.status = "UPDATE_COMPLETE"
  <2>1. cloud.stack.status # "absent"
    BY <1>2 DEF Settled
  <2>2. QED
    BY <1>2, <2>1, UpdatedIsLater
<1>3. CASE cloud.stack.status \in Settled /\ account2 = OthersUpdates(WithStray(members))
  <2> DEFINE m == WithStray(members)
             stray == [name |-> "stray", version |-> 0]
  <2>1. /\ DOMAIN m = DOMAIN members \cup {"Stray"}
        /\ \A l \in DOMAIN m : m[l] = IF l = "Stray" THEN stray ELSE members[l]
    BY DEF WithStray
  <2>2. DOMAIN stray = {"name", "version"}
    OBVIOUS
  <2> HIDE DEF m, stray
  <2>3. SameNames(members, m)
    BY <1>1, <2>1, <2>2 DEF SameNames, StackCoherent
  <2>4. QED
    BY <1>2, <1>3, <2>3 DEF m
<1>4. CASE cloud.stack.status \in Settled /\ account2 = OthersUpdates(Reversioned(members))
  <2> DEFINE m == Reversioned(members)
  <2>1. DOMAIN m = DOMAIN members
        /\ \A l \in DOMAIN m : m[l] = [members[l] EXCEPT !.version = 0]
    BY DEF Reversioned
  <2>2. \A l \in DOMAIN members : DOMAIN members[l] = {"name", "version"}
    BY <1>1 DEF StackCoherent
  <2> HIDE DEF m
  <2>3. \A l \in DOMAIN m : DOMAIN m[l] = {"name", "version"} /\ m[l].name = members[l].name
    BY <2>1, <2>2, ZenonT(40)
  <2>4. SameNames(members, m)
    BY <2>1, <2>3 DEF SameNames
  <2>5. QED
    BY <1>2, <1>4, <2>4 DEF m
<1>5. CASE cloud.stack.status # "absent" /\ account2 = Deleted
  BY <1>5, DeletedIsLater
<1>6. ASSUME NEW n \in DOMAIN cloud.things
      PROVE  DOMAIN cloud.things[n] =
               {"exists", "owner", "logical", "sameArn", "consumer", "policies"}
  BY DEF AccountOk, Coherent, ThingCoherent
<1>7. ASSUME NEW n \in DOMAIN cloud.things, account2 = [cloud EXCEPT !.things[n].exists = TRUE]
      PROVE  LaterAccount(cloud, account2) /\ account2.stack = cloud.stack
  <2> DEFINE thing == [cloud.things[n] EXCEPT !.exists = TRUE]
  <2>1. account2 = [cloud EXCEPT !.things[n] = thing]
    BY <1>7
  <2>2. /\ DOMAIN thing = DOMAIN cloud.things[n] /\ thing.owner = cloud.things[n].owner
        /\ thing.logical = cloud.things[n].logical
    BY <1>6
  <2> HIDE DEF thing
  <2>3. QED
    BY <2>1, <2>2, ThingsAreLater
<1>8. ASSUME NEW n \in DOMAIN cloud.things,
             account2 = [cloud EXCEPT !.things[n].policies = @ \cup {"extra"}]
      PROVE  LaterAccount(cloud, account2) /\ account2.stack = cloud.stack
  <2> DEFINE policies == cloud.things[n].policies \cup {"extra"}
             thing == [cloud.things[n] EXCEPT !.policies = policies]
  <2>1. account2 = [cloud EXCEPT !.things[n] = thing]
    BY <1>8
  <2>2. /\ DOMAIN thing = DOMAIN cloud.things[n] /\ thing.owner = cloud.things[n].owner
        /\ thing.logical = cloud.things[n].logical
    BY <1>6
  <2> HIDE DEF thing
  <2>3. QED
    BY <2>1, <2>2, ThingsAreLater
<1>9. QED
  BY <1>2, <1>3, <1>4, <1>5, <1>7, <1>8, WhatOthersDo

LEMMA KeepsOthersChangeCloud ==
  ASSUME AwsPlanInv, OthersChangeCloud
  PROVE  AwsPlanInv'
<1> DEFINE account2 == cloud'
           execution(i) == IF account2.stack.status = "absent" THEN "GONE" ELSE sets[i].execution
           s2(i) == [[sets[i] EXCEPT !.alone = FALSE] EXCEPT !.execution = execution(i)]
<1>1. /\ AccountOk(cloud) /\ \A i \in DOMAIN sets : SetOk(sets[i], cloud)
  BY DEF AwsPlanInv
<1>2. account2 \in OthersCloud /\ Disturb /\ UNCHANGED directories
  BY DEF OthersChangeCloud
<1>3. sets' = [i \in DOMAIN sets |-> s2(i)]
  BY DEF OthersChangeCloud
<1>4. cloud' = account2
  OBVIOUS
<1> HIDE DEF account2
<1>5. /\ LaterAccount(cloud, account2) /\ account2.stack.id = cloud.stack.id
      /\ \/ account2.stack.status = "absent"
         \/ account2.stack = cloud.stack
         \/ /\ cloud.stack.status # "absent"
            /\ account2.stack.rev = cloud.stack.rev + 1
            /\ account2.stack.status = "UPDATE_COMPLETE"
  BY <1>1, <1>2, OthersAreLater
<1>6. ASSUME NEW i \in DOMAIN sets
      PROVE  SetLike(sets[i], s2(i)) /\ SetOk(s2(i), account2)
  <2> DEFINE s == sets[i]
             t == s2(i)
  <2>1. DOMAIN s = {"name", "stack", "template", "status", "execution", "changes", "alone",
              "missed"}
    BY <1>1 DEF SetOk
  <2>2. SetLike(s, t) /\ t.execution = execution(i)
    BY <2>1 DEF SetLike
  <2>3. ~t.alone
    BY <2>1
  <2> HIDE DEF t
  <2>4. ASSUME HeldBy(t, account2.stack), t.status = "CREATE_COMPLETE", t.execution = "AVAILABLE"
        PROVE  FitsNow(t, account2.stack) \/ OutOfDate(t.name.base, account2.stack)
    <3>1. account2.stack.status # "absent" /\ t.execution = s.execution
      BY <2>2, <2>4
    <3>2. CASE account2.stack = cloud.stack
      <4>1. HeldBy(s, cloud.stack)
        BY <1>5, <2>2, <2>4, <3>1 DEF HeldBy, SetLike
      <4>2. FitsNow(s, cloud.stack) \/ OutOfDate(s.name.base, cloud.stack)
        BY <1>1, <2>2, <2>4, <3>1, <4>1 DEF SetOk, SetLike
      <4>3. QED
        BY <2>2, <3>2, <4>2 DEF FitsNow, SetLike
    <3>3. CASE /\ cloud.stack.status # "absent"
               /\ account2.stack.rev = cloud.stack.rev + 1
               /\ account2.stack.status = "UPDATE_COMPLETE"
      <4>1. BaseOk(t.name.base, cloud)
        BY <1>1, <2>2 DEF SetOk, SetLike
      <4>2. QED
        BY <1>1, <1>5, <3>3, <4>1, AdvancedIsOutOfDate
    <3>4. QED
      BY <1>5, <3>1, <3>2, <3>3
  <2>5. SetOk(s, cloud)
    BY <1>1
  <2>6. SetOk(t, account2)
    BY <1>5, <2>2, <2>3, <2>4, <2>5, SetAfter
  <2>7. QED
    BY <2>2, <2>6 DEF t
<1> HIDE DEF s2
<1>7. sets' = [i \in DOMAIN sets |-> sets'[i]]
      /\ \A i \in DOMAIN sets : sets'[i] = s2(i)
  BY <1>3
<1>8. QED
  BY <1>2, <1>4, <1>5, <1>6, <1>7, AccountMoves

\* A directory that passes the local checks describes a change set of its own plan id.
LEMMA SoundDirectory ==
  ASSUME AwsPlanInv, NEW t \in Trees, NEW id \in DOMAIN directories[t], Sound(t, id)
  PROVE  LET plan == directories[t][id]["plan"].is
             d == directories[t][id]["change-set"].is IN
         /\ d.id = plan.set /\ plan.set \in DOMAIN sets /\ sets[plan.set].name = id
         /\ directories[t][id]["template"] = Text(id.template)
         /\ d.status = "CREATE_COMPLETE" /\ d.execution = "AVAILABLE"
         /\ sets[plan.set].status = "CREATE_COMPLETE" /\ sets[plan.set].changes = d.changes
         /\ plan.changes = Classified(d.changes) /\ plan.destructive = Destructive(plan.changes)
         /\ InScope(d.changes) /\ (id.base.status # "absent" => id.base.id = d.stack)
         /\ IF id.type = "UPDATE" THEN id.base.status \in Settled
            ELSE id.base.status \in {"absent", "REVIEW_IN_PROGRESS"}
<1> DEFINE files == directories[t][id]
           plan == files["plan"].is
           d == files["change-set"].is
<1>1. ReadPlan(files, id) /\ CheckPlanRecord(files) /\ PlanTextOk(files["plan"], sets)
  BY DEF Sound, AwsPlanInv, DirectoriesOk
<1> HIDE DEF files
<1>2. /\ Whole(files["plan"]) /\ plan.planId = id /\ plan.input = id
      /\ files["template"] = plan.files.template /\ plan.files.template = Text(id.template)
      /\ files["change-set"] = plan.files.described
  BY <1>1 DEF ReadPlan, VouchedFor
<1>3. RecordReal(plan, sets)
  BY <1>1, <1>2 DEF PlanTextOk
<1>4. /\ d.status = "CREATE_COMPLETE" /\ d.execution = "AVAILABLE" /\ d.id = plan.set
      /\ plan.changes = Classified(d.changes) /\ plan.destructive = Destructive(plan.changes)
      /\ InScope(d.changes)
      /\ (plan.input.base.status # "absent" => plan.input.base.id = d.stack)
      /\ IF plan.input.type = "UPDATE" THEN plan.input.base.status \in Settled
         ELSE plan.input.base.status \in {"absent", "REVIEW_IN_PROGRESS"}
  BY <1>1 DEF CheckPlanRecord
<1>5. d = plan.files.described.is
  BY <1>2
<1>6. /\ plan.set \in DOMAIN sets /\ sets[plan.set].name = id
      /\ sets[plan.set].status = "CREATE_COMPLETE" /\ sets[plan.set].changes = d.changes
  BY <1>2, <1>3, <1>4, <1>5 DEF RecordReal
<1>7. QED
  BY <1>2, <1>4, <1>6 DEF files

\* What CloudFormation makes of the account's resources when it executes a template.
Taken(members, template) ==
  {template[l].name : l \in {k \in DOMAIN template :
     k \in DOMAIN members => members[k].name # template[k].name}}
ExecutedThing(thing, n, members, template) ==
  LET mine == {l \in DOMAIN template : template[l].name = n} IN
  IF n \in Taken(members, template)
  THEN [NoThing EXCEPT !.exists = TRUE, !.owner = "ours", !.consumer = "ours",
          !.logical = CHOOSE l \in mine : TRUE, !.policies = {"ours"}]
  ELSE IF thing.owner = "ours" /\ mine = {}
  THEN [thing EXCEPT !.owner = None, !.logical = None]
  ELSE thing

LEMMA ExecutedIsCoherent ==
  ASSUME NEW st, StackCoherent(st), NEW account, NEW template, TemplateOk(template, account),
         NEW st2, st2.members = template, NEW n, NEW thing, ThingCoherent(thing, n, st)
  PROVE  ThingCoherent(ExecutedThing(thing, n, st.members, template), n, st2)
<1> DEFINE mine == {l \in DOMAIN template : template[l].name = n}
           taken == Taken(st.members, template)
           new == ExecutedThing(thing, n, st.members, template)
           fields == {"exists", "owner", "logical", "sameArn", "consumer", "policies"}
<1>1. DOMAIN thing = fields
  BY DEF ThingCoherent
<1>2. DOMAIN template \subseteq LogicalIds
  BY DEF TemplateOk
<1>3. CASE n \in taken
  <2> DEFINE chosen == CHOOSE l \in mine : TRUE
             a1 == [NoThing EXCEPT !.exists = TRUE]
             a2 == [a1 EXCEPT !.owner = "ours"]
             a3 == [a2 EXCEPT !.consumer = "ours"]
             a4 == [a3 EXCEPT !.logical = chosen]
             a5 == [a4 EXCEPT !.policies = {"ours"}]
  <2>1. PICK l \in DOMAIN template : template[l].name = n
    BY <1>3 DEF Taken
  <2>2. chosen \in mine
    BY <2>1
  <2>3. new = a5
    BY <1>3 DEF ExecutedThing
  <2> HIDE DEF chosen, new
  <2>4. DOMAIN a5 = fields /\ a5.owner = "ours" /\ a5.logical = chosen
    BY DEF NoThing
  <2> HIDE DEF a5
  <2>5. chosen \in DOMAIN template /\ template[chosen].name = n
    BY <2>2
  <2>6. QED
    BY <1>2, <2>3, <2>4, <2>5 DEF ThingCoherent, new
<1>4. CASE n \notin taken /\ thing.owner = "ours" /\ mine = {}
  <2> DEFINE a1 == [thing EXCEPT !.owner = None]
             a2 == [a1 EXCEPT !.logical = None]
  <2>1. new = a2
    BY <1>4 DEF ExecutedThing
  <2>2. DOMAIN a2 = fields /\ a2.owner # "ours"
    BY <1>1 DEF None
  <2> HIDE DEF a2, new
  <2>3. QED
    BY <2>1, <2>2 DEF ThingCoherent, new
<1>5. CASE n \notin taken /\ ~(thing.owner = "ours" /\ mine = {})
  <2>1. new = thing
    BY <1>5 DEF ExecutedThing
  <2>2. ASSUME thing.owner = "ours"
        PROVE  thing.logical \in DOMAIN template \cap LogicalIds
               /\ template[thing.logical].name = n
    <3>1. PICK k \in DOMAIN template : template[k].name = n
      BY <1>5, <2>2
    <3>2. k \in DOMAIN st.members /\ st.members[k].name = n
      BY <1>5, <3>1 DEF Taken
    <3>3. thing.logical \in DOMAIN st.members \cap LogicalIds
          /\ st.members[thing.logical].name = n
      BY <2>2 DEF ThingCoherent
    <3>4. thing.logical = k
      BY <1>2, <3>1, <3>2, <3>3 DEF StackCoherent
    <3>5. QED
      BY <1>2, <3>1, <3>4
  <2> HIDE DEF new
  <2>3. QED
    BY <1>1, <2>1, <2>2 DEF ThingCoherent, new
<1>6. QED
  BY <1>3, <1>4, <1>5

LEMMA ExecutedIsLater ==
  ASSUME AwsPlanInv, NEW t \in Trees, NEW id \in DOMAIN directories[t], ExecutePlan(t, id)
  PROVE  LaterAccount(cloud, cloud') /\ cloud'.stack.id = cloud.stack.id
<1> DEFINE st == cloud.stack
           members == st.members
           template == id.template
           plan == directories[t][id]["plan"].is
           d == directories[t][id]["change-set"].is
<1>1. /\ AccountOk(cloud) /\ \A i \in DOMAIN sets : SetOk(sets[i], cloud)
      /\ Sound(t, id) /\ CompareChangeSet(d) /\ CheckStack(id, d)
  BY DEF AwsPlanInv, ExecutePlan, Executes
<1>2. /\ StackCoherent(st) /\ st.rev \in Nat /\ DOMAIN cloud = {"stack", "things"}
      /\ DOMAIN st = {"id", "status", "tags", "rev", "members"}
  BY <1>1 DEF AccountOk, Coherent, StackCoherent
<1>3. TemplateOk(template, cloud)
  <2>1. plan.set \in DOMAIN sets /\ sets[plan.set].name = id
    BY <1>1, SoundDirectory
  <2>2. SetOk(sets[plan.set], cloud)
    BY <1>1, <2>1
  <2>3. QED
    BY <2>1, <2>2 DEF SetOk
<1>4. st.status # "absent"
  BY <1>1 DEF CheckStack, Settled
<1>5. ASSUME NEW st2, DOMAIN st2 = {"id", "status", "tags", "rev", "members"}, st2.id = st.id,
             st2.rev = st.rev + 1, st2.status # "absent", NEW things, NEW account2,
             DOMAIN account2 = {"stack", "things"}, account2.stack = st2, account2.things = things,
             DOMAIN things = DOMAIN cloud.things, StackCoherent(st2),
             \A n \in DOMAIN things : ThingCoherent(things[n], n, st2)
      PROVE  LaterAccount(cloud, account2) /\ account2.stack.id = st.id
  <2>1. AccountOk(account2)
    BY <1>1, <1>5 DEF AccountOk, Coherent
  <2>2. st.rev <= st2.rev
    BY <1>2, <1>5
  <2>3. QED
    BY <1>1, <1>4, <1>5, <2>1, <2>2 DEF LaterAccount
<1> DEFINE failed == IF id.type = "CREATE" THEN "ROLLBACK_COMPLETE" ELSE "UPDATE_ROLLBACK_COMPLETE"
           done == IF id.type = "CREATE" THEN "CREATE_COMPLETE" ELSE "UPDATE_COMPLETE"
           things == [n \in DOMAIN cloud.things |-> ExecutedThing(cloud.things[n], n, members, template)]
           f1 == [st EXCEPT !.status = failed]
           f2 == [f1 EXCEPT !.tags = "ours"]
           f3 == [f2 EXCEPT !.rev = st.rev + 1]
           d1 == [st EXCEPT !.status = done]
           d2 == [d1 EXCEPT !.tags = "ours"]
           d3 == [d2 EXCEPT !.rev = st.rev + 1]
           d4 == [d3 EXCEPT !.members = template]
<1>6. cloud' = [cloud EXCEPT !.stack = f3] \/ cloud' = [stack |-> d4, things |-> things]
  BY DEF ExecutePlan, ExecutedThing, Taken
<1>7. CASE cloud' = [cloud EXCEPT !.stack = f3]
  <2>1. /\ DOMAIN f3 = {"id", "status", "tags", "rev", "members"} /\ f3.id = st.id
        /\ f3.rev = st.rev + 1 /\ f3.status = failed /\ f3.members = members
    BY <1>2
  <2>2. failed # "absent"
    OBVIOUS
  <2> HIDE DEF f3, failed
  <2>3. StackCoherent(f3)
    BY <1>2, <2>1, <2>2 DEF StackCoherent
  <2>4. \A n \in DOMAIN cloud.things : ThingCoherent(cloud.things[n], n, f3)
    BY <1>1, <2>1 DEF AccountOk, Coherent, ThingCoherent
  <2>5. DOMAIN cloud' = {"stack", "things"} /\ cloud'.stack = f3 /\ cloud'.things = cloud.things
    BY <1>2, <1>7
  <2>6. QED
    BY <1>5, <2>1, <2>2, <2>3, <2>4, <2>5
<1>8. CASE cloud' = [stack |-> d4, things |-> things]
  <2>1. /\ DOMAIN d4 = {"id", "status", "tags", "rev", "members"} /\ d4.id = st.id
        /\ d4.rev = st.rev + 1 /\ d4.status = done /\ d4.members = template
    BY <1>2
  <2>2. done # "absent"
    OBVIOUS
  <2> HIDE DEF d4, done
  <2>3. StackCoherent(d4)
    BY <1>2, <1>3, <2>1, <2>2 DEF StackCoherent, TemplateOk, NamesApart
  <2>4. ASSUME NEW n \in DOMAIN cloud.things
        PROVE  ThingCoherent(ExecutedThing(cloud.things[n], n, members, template), n, d4)
    <3>1. ThingCoherent(cloud.things[n], n, st)
      BY <1>1 DEF AccountOk, Coherent
    <3>2. QED
      BY <1>2, <1>3, <2>1, <3>1, ExecutedIsCoherent
  <2>5. DOMAIN things = DOMAIN cloud.things
        /\ \A n \in DOMAIN things : ThingCoherent(things[n], n, d4)
    BY <2>4
  <2> HIDE DEF things
  <2>6. DOMAIN cloud' = {"stack", "things"} /\ cloud'.stack = d4 /\ cloud'.things = things
    BY <1>8
  <2>7. QED
    BY <1>5, <2>1, <2>2, <2>3, <2>5, <2>6
<1>9. QED
  BY <1>6, <1>7, <1>8

LEMMA KeepsExecutePlan ==
  ASSUME AwsPlanInv, NEW t \in Trees, NEW id \in DOMAIN directories[t], ExecutePlan(t, id)
  PROVE  AwsPlanInv'
<1> DEFINE account2 == cloud'
           d == directories[t][id]["change-set"].is
           after(i) == IF i = d.id THEN "EXECUTED" ELSE "GONE"
           ended(i) == [[sets[i] EXCEPT !.alone = FALSE] EXCEPT !.execution = after(i)]
           s2(i) == IF i # d.id /\ ~Held(i) THEN sets[i] ELSE ended(i)
<1>1. \A i \in DOMAIN sets : SetOk(sets[i], cloud)
  BY DEF AwsPlanInv
<1>2. sets' = [i \in DOMAIN sets |-> s2(i)] /\ Disturb /\ UNCHANGED directories
  BY DEF ExecutePlan
<1>3. LaterAccount(cloud, account2) /\ account2.stack.id = cloud.stack.id /\ cloud' = account2
  BY ExecutedIsLater
<1> HIDE DEF account2
<1>4. ASSUME NEW i \in DOMAIN sets
      PROVE  SetLike(sets[i], s2(i)) /\ SetOk(s2(i), account2)
  <2> DEFINE s == sets[i]
             e == ended(i)
  <2>1. DOMAIN s = {"name", "stack", "template", "status", "execution", "changes", "alone",
              "missed"}
        /\ SetOk(s, cloud)
    BY <1>1 DEF SetOk
  <2>2. CASE i # d.id /\ ~Held(i)
    <3>1. s2(i) = s /\ SetLike(s, s)
      BY <2>2 DEF SetLike
    <3>2. ~HeldBy(s, account2.stack)
      BY <1>3, <2>2 DEF Held, HeldBy
    <3>3. SetOk(s, account2)
      BY <1>3, <2>1, <3>1, <3>2, SetAfter
    <3>4. QED
      BY <3>1, <3>3
  <2>3. CASE ~(i # d.id /\ ~Held(i))
    <3>1. SetLike(s, e) /\ e.execution = after(i) /\ e.execution # "AVAILABLE"
      BY <2>1 DEF SetLike
    <3>2. ~e.alone
      BY <2>1
    <3>3. s2(i) = e
      BY <2>3
    <3> HIDE DEF e
    <3>4. SetOk(e, account2)
      BY <1>3, <2>1, <3>1, <3>2, SetAfter
    <3>5. QED
      BY <3>1, <3>3, <3>4
  <2>4. QED
    BY <2>2, <2>3
<1> HIDE DEF s2
<1>5. sets' = [i \in DOMAIN sets |-> sets'[i]]
      /\ \A i \in DOMAIN sets : sets'[i] = s2(i)
  BY <1>2
<1>6. QED
  BY <1>2, <1>3, <1>4, <1>5, AccountMoves

THEOREM AwsPlanInvariant == AwsPlanSpec => []AwsPlanInv
<1>1. AwsPlanInit => AwsPlanInv
  <2> SUFFICES ASSUME AwsPlanInit PROVE AwsPlanInv
    OBVIOUS
  <2>1. AccountOk(cloud)
    BY AwsPlanAssumption DEF AwsPlanInit, AccountOk
  <2>2. IsList(sets) /\ \A i \in DOMAIN sets : SetOk(sets[i], cloud)
    <3>1. sets = << >> /\ DOMAIN sets = {}
      BY DEF AwsPlanInit
    <3>2. << >> \in Seq({sets[i] : i \in DOMAIN sets})
      BY EmptySeq
    <3>3. QED
      BY <3>1, <3>2 DEF IsList
  <2>3. DirectoriesOk(directories, sets)
    <3>1. DOMAIN << >> = {}
      OBVIOUS
    <3>2. QED
      BY <3>1 DEF AwsPlanInit, DirectoriesOk
  <2>4. /\ planners = [c \in Planners |-> planners[c]]
        /\ \A c \in Planners : planners[c] = NewPlanner
    BY DEF AwsPlanInit
  <2>5. QED
    BY <2>1, <2>2, <2>3, <2>4, FreshPlanners DEF AwsPlanInv
<1>2. AwsPlanInv /\ [AwsPlanNext]_awsPlanVars => AwsPlanInv'
  <2> SUFFICES ASSUME AwsPlanInv, [AwsPlanNext]_awsPlanVars PROVE AwsPlanInv'
    OBVIOUS
  <2>1. CASE UNCHANGED awsPlanVars
    BY <2>1 DEF AwsPlanInv, awsPlanVars
  <2>2. ASSUME NEW c \in Planners, PlanStep(c) PROVE AwsPlanInv'
    BY <2>2, KeepsBeginPlan, KeepsReadStack, KeepsListMembers, KeepsDiscoverThing, KeepsReadTags,
       KeepsLocateThing, KeepsCheckPolicies, KeepsCreateChangeSet, KeepsDescribeChangeSet,
       KeepsMakeDirectory, KeepsWriteFile, KeepsStopsHere
    DEF PlanStep
  <2>3. CASE AwsPlanNext
    BY <2>2, <2>3, KeepsComputeChangeSet, KeepsDamageDirectory, KeepsExecutePlan,
       KeepsOthersChangeCloud
    DEF AwsPlanNext
  <2>4. QED
    BY <2>1, <2>3
<1>3. QED
  BY <1>1, <1>2, PTL DEF AwsPlanSpec

\* Each change is of a resource of its own, and the resources are three.
LEMMA FewDestroyed ==
  ASSUME NEW diff, OneEach(diff), InScope(diff)
  PROVE  Destructive(Classified(diff))
           >= Cardinality({ch \in diff :
                ch.action = "Remove" \/ ch.replacement \in {"True", "Conditional"}})
<1> DEFINE is(ch) == [logical |-> ch.logical, action |-> Classify(ch)]
           A == {ch \in diff : ch.action = "Remove" \/ ch.replacement \in {"True", "Conditional"}}
           B == {x \in Classified(diff) : x.action \in {"DELETE", "REPLACE"}}
           f == [ch \in A |-> is(ch)]
           g == [x \in B |-> x.logical]
<1>1. \A x \in Classified(diff) : \E ch \in diff : x = is(ch)
  BY DEF Classified
<1>2. ASSUME NEW ch \in A PROVE is(ch) \in B
  <2>1. Classify(ch) \in {"DELETE", "REPLACE"}
    <3>1. ch.action = "Remove" \/ (ch.action = "Modify" /\ ch.replacement # "False")
      <4>1. ch \in diff
            /\ (ch.action = "Remove" \/ ch.replacement \in {"True", "Conditional"})
        OBVIOUS
      <4>2. ch.replacement \in {"True", "Conditional"} => ch.action = "Modify"
        BY <4>1 DEF OneEach
      <4>3. QED
        BY <4>1, <4>2
    <3>2. CASE ch.action = "Remove"
      BY <3>2 DEF Classify
    <3>3. CASE ch.action = "Modify" /\ ch.replacement # "False"
      BY <3>3 DEF Classify
    <3>4. QED
      BY <3>1, <3>2, <3>3
  <2>2. is(ch) \in Classified(diff) /\ is(ch).action = Classify(ch)
    BY DEF Classified
  <2>3. QED
    BY <2>1, <2>2
<1>3. IsFiniteSet(LogicalIds)
  <2>1. IsFiniteSet({} \cup {Keys[1]}) /\ IsFiniteSet({Keys[1]} \cup {Keys[2]})
        /\ IsFiniteSet({Keys[1], Keys[2]} \cup {Keys[3]})
    <3>1. IsFiniteSet({} \cup {Keys[1]})
      BY FS_EmptySet, FS_AddElement
    <3>2. {} \cup {Keys[1]} = {Keys[1]}
      OBVIOUS
    <3>3. IsFiniteSet({Keys[1]} \cup {Keys[2]})
      BY <3>1, <3>2, FS_AddElement
    <3>4. {Keys[1]} \cup {Keys[2]} = {Keys[1], Keys[2]}
      OBVIOUS
    <3>5. IsFiniteSet({Keys[1], Keys[2]} \cup {Keys[3]})
      BY <3>3, <3>4, FS_AddElement
    <3>6. QED
      BY <3>1, <3>3, <3>5
  <2>2. {Keys[1], Keys[2]} \cup {Keys[3]} = LogicalIds
    BY ThreeKeys
  <2>3. QED
    BY <2>1, <2>2
<1>4. g \in Injection(B, LogicalIds)
  <2>1. \A x \in B : x.logical \in LogicalIds
    BY <1>1 DEF InScope
  <2>2. \A x, y \in B : x.logical = y.logical => x = y
    BY <1>1 DEF OneEach
  <2>3. g \in [B -> LogicalIds]
    BY <2>1
  <2>4. \A x, y \in B : g[x] = g[y] => x = y
    BY <2>2
  <2> HIDE DEF B, g
  <2>5. DOMAIN g = B
    BY <2>3
  <2>6. QED
    BY <2>3, <2>4, <2>5 DEF Injection, IsInjective
<1>5. f \in Injection(A, B)
  <2>1. \A ch1, ch2 \in A : is(ch1) = is(ch2) => ch1 = ch2
    BY DEF OneEach
  <2>2. f \in [A -> B]
    BY <1>2
  <2>3. \A ch1, ch2 \in A : f[ch1] = f[ch2] => ch1 = ch2
    BY <2>1
  <2> HIDE DEF A, B, f
  <2>4. DOMAIN f = A
    BY <2>2
  <2>5. QED
    BY <2>2, <2>3, <2>4 DEF Injection, IsInjective
<1> HIDE DEF A, B, f, g
<1>6. IsFiniteSet(B)
  BY <1>3, <1>4, FS_Injection
<1>7. IsFiniteSet(A) /\ Cardinality(A) <= Cardinality(B)
  BY <1>5, <1>6, FS_Injection
<1>8. Cardinality(A) \in Nat /\ Cardinality(B) \in Nat
  BY <1>6, <1>7, FS_CardinalityType
<1>9. Cardinality(B) >= Cardinality(A)
  BY <1>7, <1>8
<1>10. QED
  BY <1>9 DEF Destructive, A, B

\* What aws apply may execute was made for the plan it is recorded under, and does to the
\* stack of the moment what was reviewed: nothing that was planned, applied, damaged or
\* changed meanwhile makes a directory say something else than its change set.
THEOREM RecordsAreReal == AwsPlanSpec => []RecordedPlanIsReal
<1>1. ASSUME AwsPlanInv, NEW t \in Trees, NEW id \in DOMAIN directories[t], Sound(t, id)
      PROVE  LET plan == directories[t][id]["plan"].is
                 s == sets[plan.set] IN
             /\ s.name = id /\ directories[t][id]["template"] = Text(s.template)
             /\ plan.changes = Classified(s.changes)
             /\ plan.destructive >= Cardinality({ch \in s.changes :
                  ch.action = "Remove" \/ ch.replacement \in {"True", "Conditional"}})
             /\ Executes(t, id) =>
                  LET members == cloud.stack.members IN
                  \E replaced \in {"True", "False", "Conditional"} :
                    s.changes = Diff(members, s.template, replaced)
  <2> DEFINE plan == directories[t][id]["plan"].is
             d == directories[t][id]["change-set"].is
             s == sets[plan.set]
             st == cloud.stack
  <2>1. /\ d.id = plan.set /\ plan.set \in DOMAIN sets /\ s.name = id
        /\ directories[t][id]["template"] = Text(id.template)
        /\ d.status = "CREATE_COMPLETE" /\ d.execution = "AVAILABLE"
        /\ s.status = "CREATE_COMPLETE" /\ s.changes = d.changes
        /\ plan.changes = Classified(d.changes) /\ plan.destructive = Destructive(plan.changes)
        /\ InScope(d.changes) /\ (id.base.status # "absent" => id.base.id = d.stack)
        /\ IF id.type = "UPDATE" THEN id.base.status \in Settled
           ELSE id.base.status \in {"absent", "REVIEW_IN_PROGRESS"}
    BY <1>1, SoundDirectory
  <2>2. SetOk(s, cloud) /\ AccountOk(cloud)
    BY <1>1, <2>1 DEF AwsPlanInv
  <2>3. ASSUME Executes(t, id) PROVE FitsNow(s, st)
    <3>1. Held(plan.set) /\ Described(plan.set) = d /\ CheckStack(id, d)
      BY <2>1, <2>3 DEF Executes, CompareChangeSet
    <3>2. HeldBy(s, st) /\ s.execution = "AVAILABLE"
      <4>1. Described(plan.set).execution = s.execution
        BY DEF Described
      <4>2. Described(plan.set).execution = d.execution
        BY <3>1
      <4>3. s.execution = "AVAILABLE"
        BY <2>1, <4>1, <4>2
      <4>4. HeldBy(s, st)
        BY <3>1 DEF Held, HeldBy
      <4>5. QED
        BY <4>3, <4>4
    <3>3. FitsNow(s, st) \/ OutOfDate(id.base, st)
      BY <2>1, <2>2, <3>2 DEF SetOk
    <3>4. ASSUME OutOfDate(id.base, st) PROVE FALSE
      <4>1. st.status # "REVIEW_IN_PROGRESS" /\ st.id = d.stack
            /\ (id.base.status # "absent" /\ id.base.id = st.id => id.base.rev < st.rev)
        BY <3>1, <3>4 DEF OutOfDate, CheckStack
      <4>2. st.status \in Settled /\ st.status = id.base.status /\ st.rev = id.base.rev
        BY <3>1, <4>1 DEF CheckStack
      <4>3. id.base.status # "absent"
        BY <4>2 DEF Settled
      <4>4. id.base.rev < st.rev /\ st.rev \in Nat
        BY <2>1, <2>2, <4>1, <4>3, StackNumbers
      <4>5. QED
        BY <4>2, <4>4
    <3>5. QED
      BY <3>3, <3>4
  <2>4. s.template = id.template /\ OneEach(s.changes)
    BY <2>1, <2>2 DEF SetOk
  <2>5. plan.destructive >= Cardinality({ch \in s.changes :
          ch.action = "Remove" \/ ch.replacement \in {"True", "Conditional"}})
    BY <2>1, <2>4, FewDestroyed
  <2>6. Executes(t, id) => \E replaced \in {"True", "False", "Conditional"} :
          s.changes = Diff(st.members, s.template, replaced)
    BY <2>3 DEF FitsNow
  <2>7. QED
    BY <2>1, <2>4, <2>5, <2>6
<1>2. AwsPlanInv => RecordedPlanIsReal
  BY <1>1 DEF RecordedPlanIsReal
<1>3. QED
  BY <1>2, AwsPlanInvariant, PTL

\* Change sets are computed by CloudFormation, and by no other step.
LEMMA OnlyComputed ==
  ASSUME AwsPlanInv, AwsPlanNext, NEW i \in DOMAIN sets,
         sets'[i].status # sets[i].status
  PROVE  ComputeChangeSet(i)
<1>1. /\ IsList(sets)
      /\ DOMAIN sets[i] = {"name", "stack", "template", "status", "execution", "changes", "alone",
              "missed"}
  BY DEF AwsPlanInv, SetOk
<1>2. ASSUME NEW c \in Planners, CreateChangeSet(c) PROVE sets'[i] = sets[i]
  <2>1. sets' = sets \/ \E s : sets' = Append(sets, s)
    BY <1>2 DEF CreateChangeSet
  <2>2. ASSUME NEW s, sets' = Append(sets, s) PROVE sets'[i] = sets[i]
    BY <1>1, <2>2, ListAppends DEF Longer
  <2>3. QED
    BY <2>1, <2>2
<1>3. ASSUME NEW c \in Planners, PlanStep(c) PROVE sets'[i] = sets[i]
  BY <1>2, <1>3 DEF PlanStep, BeginPlan, ReadStack, ListMembers, DiscoverThing, ReadTags, LocateThing,
    CheckPolicies, DescribeChangeSet, MakeDirectory, WriteFile, StopsHere
<1>4. ASSUME NEW t \in Trees, NEW id \in DOMAIN directories[t], ExecutePlan(t, id)
      PROVE  sets'[i].status = sets[i].status
  <2> DEFINE d == directories[t][id]["change-set"].is
             after(j) == IF j = d.id THEN "EXECUTED" ELSE "GONE"
             ended(j) == [[sets[j] EXCEPT !.alone = FALSE] EXCEPT !.execution = after(j)]
  <2>1. sets' = [j \in DOMAIN sets |-> IF j # d.id /\ ~Held(j) THEN sets[j] ELSE ended(j)]
    BY <1>4 DEF ExecutePlan
  <2>2. ended(i).status = sets[i].status
    BY <1>1
  <2> HIDE DEF ended
  <2>3. QED
    BY <2>1, <2>2
<1>5. ASSUME OthersChangeCloud PROVE sets'[i].status = sets[i].status
  <2> DEFINE after(j) == IF cloud'.stack.status = "absent" THEN "GONE" ELSE sets[j].execution
             s2(j) == [[sets[j] EXCEPT !.alone = FALSE] EXCEPT !.execution = after(j)]
  <2>1. sets' = [j \in DOMAIN sets |-> s2(j)]
    BY <1>5 DEF OthersChangeCloud
  <2>2. s2(i).status = sets[i].status
    BY <1>1
  <2> HIDE DEF s2
  <2>3. QED
    BY <2>1, <2>2
<1>6. ASSUME NEW j \in DOMAIN sets, ComputeChangeSet(j), j # i PROVE sets'[i] = sets[i]
  BY <1>6 DEF ComputeChangeSet
<1>7. ASSUME NEW t \in Trees, DamageDirectory(t) PROVE sets'[i] = sets[i]
  BY <1>7 DEF DamageDirectory
<1>8. QED
  BY <1>3, <1>4, <1>5, <1>6, <1>7 DEF AwsPlanNext

\* A change set that nobody disturbed changes what is the repository's own, for all that
\* the run was told, and creates what is not there.
THEOREM PlansAreOverOwned == AwsPlanSpec => PlannedOverOwned
<1> DEFINE Planned(i) ==
      sets[i].alone /\ sets[i].status # "CREATE_COMPLETE"
         /\ sets'[i].status = "CREATE_COMPLETE" =>
       \A ch \in sets'[i].changes :
         LET l == ch.logical IN
         /\ l \in LogicalIds
         /\ IF ch.action = "Add" THEN ~cloud.things[sets[i].template[l].name].exists
            ELSE LET thing == cloud.things[cloud.stack.members[l].name] IN
                 /\ cloud.stack.tags = "ours"
                 /\ ch.action = "Modify" =>
                      /\ thing.exists /\ thing.owner = "ours" /\ thing.logical = l
                      /\ OwnOrUntagged(thing) \/ (l = "repository" /\ sets[i].missed)
                      /\ l \in RoleKeys => thing.policies \subseteq {"ours"}
           Good == \A i \in DOMAIN sets : Planned(i)
<1>1. ASSUME AwsPlanInv, AwsPlanNext, NEW i \in DOMAIN sets,
             sets[i].alone, sets[i].status # "CREATE_COMPLETE",
             sets'[i].status = "CREATE_COMPLETE", NEW ch \in sets'[i].changes
      PROVE  LET l == ch.logical
                 thing == cloud.things[cloud.stack.members[l].name] IN
             /\ l \in LogicalIds
             /\ IF ch.action = "Add" THEN ~cloud.things[sets[i].template[l].name].exists
                ELSE /\ cloud.stack.tags = "ours"
                     /\ ch.action = "Modify" =>
                          /\ thing.exists /\ thing.owner = "ours" /\ thing.logical = l
                          /\ OwnOrUntagged(thing) \/ (l = "repository" /\ sets[i].missed)
                          /\ l \in RoleKeys => thing.policies \subseteq {"ours"}
  <2> DEFINE s == sets[i]
             template == s.template
             members == cloud.stack.members
             l == ch.logical
             new == cloud.things[template[l].name]
  <2>1. ComputeChangeSet(i)
    BY <1>1, OnlyComputed
  <2>2. SetOk(s, cloud) /\ AccountOk(cloud) /\ HeldBy(s, cloud.stack)
    BY <1>1, <2>1 DEF AwsPlanInv, ComputeChangeSet, Held, HeldBy
  <2>3. Fits(template, cloud, sets[i].missed) /\ TemplateOk(template, cloud)
    BY <1>1, <2>2 DEF SetOk
  <2>4. PICK replaced \in {"True", "False", "Conditional"} :
          sets'[i].changes = Diff(members, template, replaced)
    <3>1. DOMAIN s = {"name", "stack", "template", "status", "execution", "changes", "alone",
              "missed"}
      BY <2>2 DEF SetOk
    <3>2. PICK replaced \in {"True", "False", "Conditional"} :
            LET diff == Diff(members, template, replaced) IN
            \/ sets' = [sets EXCEPT ![i].status = "CREATE_COMPLETE",
                                    ![i].execution = "AVAILABLE", ![i].changes = diff]
            \/ sets' = [sets EXCEPT ![i].status = "NO_CHANGES"]
            \/ sets' = [sets EXCEPT ![i].status = "FAILED"]
      BY <2>1 DEF ComputeChangeSet
    <3> DEFINE diff == Diff(members, template, replaced)
               made == [[[s EXCEPT !.status = "CREATE_COMPLETE"] EXCEPT !.execution = "AVAILABLE"]
                         EXCEPT !.changes = diff]
    <3>3. sets'[i] = made
      BY <1>1, <3>1, <3>2
    <3>4. made.changes = diff
      BY <3>1
    <3> HIDE DEF made, diff
    <3>5. sets'[i].changes = diff
      BY <3>3, <3>4
    <3>6. QED
      BY <3>5 DEF diff
  <2>5. \/ ch.action = "Add" /\ l \in DOMAIN template \ DOMAIN members
        \/ ch.action = "Remove" /\ l \in DOMAIN members \ DOMAIN template
        \/ ch.action = "Modify" /\ l \in DOMAIN members \cap DOMAIN template
    BY <1>1, <2>4 DEF Diff, Change, Modified
  <2>6. l \in LogicalIds
    BY <2>3, <2>5 DEF Fits, TemplateOk
  <2>7. \A n \in DOMAIN cloud.things : ThingCoherent(cloud.things[n], n, cloud.stack)
    BY <2>2 DEF AccountOk, Coherent
  <2>8. l \in DOMAIN template /\ new.exists =>
          /\ OwnedAs(new, l, s.missed) /\ l \in DOMAIN members /\ members[l].name = template[l].name
          /\ l \in RoleKeys => new.policies \subseteq {"ours"}
    <3>1. ASSUME l \in DOMAIN template, new.exists
          PROVE  OwnedAs(new, l, s.missed) /\ (l \in RoleKeys => new.policies \subseteq {"ours"})
      BY <2>3, <3>1 DEF Fits
    <3>2. l \in DOMAIN template => ThingCoherent(new, template[l].name, cloud.stack)
      BY <2>3, <2>7 DEF TemplateOk
    <3>3. ASSUME l \in DOMAIN template, new.exists
          PROVE  l \in DOMAIN members /\ members[l].name = template[l].name
      <4>1. new.owner = "ours" /\ new.logical = l
        BY <3>1, <3>3 DEF OwnedAs
      <4>2. new.owner = "ours" => /\ new.logical \in DOMAIN members \cap LogicalIds
                                  /\ members[new.logical].name = template[l].name
        BY <3>2, <3>3 DEF ThingCoherent
      <4>3. QED
        BY <4>1, <4>2
    <3>4. QED
      BY <3>1, <3>3
  <2>9. l \in DOMAIN template /\ ~new.exists => l \notin DOMAIN members
    BY <2>3 DEF Fits
  <2>10. l \in DOMAIN members => cloud.stack.tags = "ours"
    <3>1. DOMAIN << >> = {}
      OBVIOUS
    <3>2. QED
      BY <2>3, <3>1 DEF Fits, OurStack
  <2>11. QED
    BY <2>5, <2>6, <2>8, <2>9, <2>10 DEF OwnedAs, OwnTags
<1>2. ASSUME AwsPlanInv, AwsPlanNext PROVE Good
  BY <1>1, <1>2
<1>3. AwsPlanInv /\ [AwsPlanNext]_awsPlanVars => [Good]_awsPlanVars
  BY <1>2
<1>4. QED
  BY <1>3, AwsPlanInvariant, PTL DEF AwsPlanSpec, PlannedOverOwned

=============================================================================
