--------------------------- MODULE AwsApplyProofs ---------------------------
(***************************************************************************)
(* `aws apply' for every number of runs, checkouts and plans: a plan is    *)
(* attempted once per checkout, and only on the base revision it was       *)
(* reviewed and confirmed against.  A stack that left a plan's base never  *)
(* comes back to it (PastBase is stable), so the check after the typing    *)
(* also speaks for the moment of the typing.                               *)
(***************************************************************************)
EXTENDS AwsApply, TLAPS

Statuses == {None, "absent", "REVIEW_IN_PROGRESS", "CREATE_IN_PROGRESS", "UPDATE_IN_PROGRESS",
             "CREATE_COMPLETE", "UPDATE_COMPLETE", "UPDATE_ROLLBACK_COMPLETE", "ROLLBACK_COMPLETE"}
SetStates == {None, "AVAILABLE", "EXECUTING", "EXECUTED", "FAILED", "GONE"}
Steps == {"idle", "change set", "stack", "confirm", "record", "execute", "wait",
          "refused", "error", "applied", "apply_failed", "crashed"}

Stack == [id : Nat, status : Statuses, rev : Nat]
Base == [operation : {None, "CREATE", "UPDATE"}, id : Nat, status : Statuses, rev : Nat]
Run == [at : Steps, plan : Plans \cup {None}, round : {0, 1}, typed : Base,
        issued : BOOLEAN, polls : Nat, failures : Nat]

Types ==
  /\ stack \in Stack
  /\ accepted \in Plans \cup {None} /\ running \in Plans \cup {None} /\ late \subseteq Plans
  /\ sets \in [Plans -> SetStates] /\ plan \in [Plans -> Base]
  /\ run \in [Operators -> Run]

Made(p) == plan[p] # NoPlan
AtBase(p) == Unchanged(p)
PastBase(p) ==
  \/ stack.id > plan[p].id
  \/ stack.id = plan[p].id /\ (stack.rev > plan[p].rev \/ stack.status = "absent")

\* Where the stack stands with respect to the plans that were made of it.
StackInv ==
  /\ \A p \in Plans : sets[p] = None <=> ~Made(p)
  /\ \A p \in Plans : Made(p) => plan[p].status # "absent" /\ (AtBase(p) \/ PastBase(p))
  /\ stack.status = "absent" => \A p \in Plans : sets[p] # "AVAILABLE"
  /\ accepted # None => Made(accepted) /\ stack.status # "absent"
  /\ running # None =>
       /\ Made(running) /\ stack.status # "absent"
       /\ \A p \in Plans : Made(p) => PastBase(p)

TypedAtBase(o) ==
  LET p == plan[run[o].plan] IN
  run[o].typed.id = p.id /\ run[o].typed.status = p.status /\ run[o].typed.rev = p.rev

\* Where a run stands with respect to its plan.
Before == {"change set", "stack", "confirm", "record", "execute"}
RunInv ==
  \A o \in Operators :
    /\ run[o].at \in Before \/ run[o].issued \/ run[o].round = 1 =>
         run[o].plan \in Plans /\ Made(run[o].plan)
    /\ run[o].at \in Before \cup {"idle"} => ~run[o].issued
    /\ run[o].at = "idle" => run[o].round = 0
    /\ run[o].round = 1 => TypedAtBase(o) \/ PastBase(run[o].plan)
    /\ run[o].at \in {"record", "execute"} \/ run[o].issued =>
         run[o].round = 1 /\ TypedAtBase(o)

Attempting(o) == run[o].at = "execute" \/ run[o].issued
Slot(o) == <<RootOf[o], run[o].plan, "apply-started.json">>
RecordInv ==
  \A o \in Operators : Attempting(o) =>
    /\ Slot(o) \in records
    /\ \A q \in Operators :
         Attempting(q) /\ run[q].plan = run[o].plan /\ RootOf[q] = RootOf[o] => q = o

IInv == Types /\ StackInv /\ RunInv /\ RecordInv

-----------------------------------------------------------------------------
(* The environment's steps leave the runs alone and the bases behind.      *)

LEMMA EnvironmentStep ==
  ASSUME IInv, run' = run, records' = records, Types', StackInv',
         \A p \in Plans : Made(p) => plan'[p] = plan[p] /\ (PastBase(p) => PastBase(p)')
  PROVE  IInv'
<1>1. ASSUME NEW p \in Plans, Made(p)
      PROVE  Made(p)'
  BY <1>1 DEF Made, NoPlan
<1>2. RunInv'
  BY <1>1, ZenonT(40) DEF IInv, Types, RunInv, TypedAtBase, Before
<1>3. RecordInv'
  BY DEF IInv, RecordInv, Attempting, Slot
<1>4. QED
  BY <1>2, <1>3 DEF IInv

LEMMA NoPlanFacts == NoPlan \in Base /\ NoPlan.operation = None
BY DEF NoPlan, Base, Statuses, None

LEMMA MakePlanIInv ==
  ASSUME IInv, NEW p \in Plans, MakePlan(p)
  PROVE  IInv'
<1> DEFINE new == [operation |-> IF stack.status \in Live THEN "UPDATE" ELSE "CREATE",
                   id |-> stack'.id, status |-> stack'.status, rev |-> stack'.rev]
<1>1. /\ stack' = IF stack.status = "absent"
                  THEN [id |-> stack.id + 1, status |-> "REVIEW_IN_PROGRESS", rev |-> 0]
                  ELSE stack
      /\ plan' = [plan EXCEPT ![p] = new] /\ sets' = [sets EXCEPT ![p] = "AVAILABLE"]
      /\ sets[p] = None /\ accepted = None /\ running = None
      /\ UNCHANGED <<accepted, running, late, records, run>>
  BY DEF MakePlan, Idle
<1>2. stack' \in Stack /\ stack'.status # "absent"
  BY <1>1 DEF IInv, Types, Stack, Statuses
<1>3. new \in Base /\ new # NoPlan
  BY <1>2 DEF Base, Stack, NoPlan, None
<1>4. Types'
  BY <1>1, <1>2, <1>3 DEF IInv, Types, SetStates
<1>5. ~Made(p)
  BY <1>1 DEF IInv, StackInv
<1>6. ASSUME NEW q \in Plans, q # p
      PROVE  plan'[q] = plan[q] /\ sets'[q] = sets[q]
  BY <1>1, <1>6 DEF IInv, Types
<1>7. plan'[p] = new /\ sets'[p] = "AVAILABLE"
  BY <1>1 DEF IInv, Types
<1>8. ASSUME NEW q \in Plans, Made(q)
      PROVE  /\ PastBase(q) => PastBase(q)'
             /\ AtBase(q) => AtBase(q)'
  <2>1. q # p /\ plan'[q] = plan[q] /\ plan[q].status # "absent"
    BY <1>5, <1>6, <1>8 DEF IInv, StackInv
  <2>2. plan[q] \in Base
    BY DEF IInv, Types
  <2>3. QED
    BY <1>1, <2>1, <2>2 DEF PastBase, AtBase, Unchanged, SameStatusOnly, IInv, Types, Stack, Base
<1>9. AtBase(p)'
  BY <1>7 DEF AtBase, Unchanged, SameStatusOnly
<1>10. StackInv'
  <2>1. \A q \in Plans : sets'[q] = None <=> ~Made(q)'
    BY <1>3, <1>6, <1>7 DEF IInv, StackInv, Made, None
  <2>2. \A q \in Plans : Made(q)' => plan'[q].status # "absent" /\ (AtBase(q)' \/ PastBase(q)')
    BY <1>2, <1>6, <1>7, <1>8, <1>9 DEF IInv, StackInv, Made
  <2>3. accepted' = None /\ running' = None
    BY <1>1
  <2>4. QED
    BY <1>2, <2>1, <2>2, <2>3 DEF StackInv
<1>11. QED
  BY <1>1, <1>4, <1>5, <1>6, <1>8, <1>10, EnvironmentStep

\* A step that only moves the stack on.
LEMMA StackStep ==
  ASSUME IInv, run' = run, records' = records, plan' = plan, Types',
         \A p \in Plans : sets'[p] = None <=> sets[p] = None,
         \A p \in Plans : Made(p) => (PastBase(p) => PastBase(p)') /\ (AtBase(p) => AtBase(p)' \/ PastBase(p)'),
         stack'.status = "absent" => \A p \in Plans : sets'[p] # "AVAILABLE",
         accepted' # None => Made(accepted') /\ stack'.status # "absent",
         running' # None => /\ Made(running') /\ stack'.status # "absent"
                            /\ \A p \in Plans : Made(p) => PastBase(p)'
  PROVE  IInv'
<1>1. StackInv'
  BY DEF IInv, StackInv, Made
<1>2. QED
  BY <1>1, EnvironmentStep

LEMMA AcceptFacts ==
  ASSUME IInv, NEW p \in Plans, Executable(p), Accept(p)
  PROVE  /\ stack' = stack /\ running' = running /\ running = None /\ accepted' = p
         /\ sets' \in [Plans -> SetStates]
         /\ \A q \in Plans : sets'[q] = None <=> sets[q] = None
         /\ Made(p)
BY DEF Accept, Executable, Idle, IInv, Types, StackInv, SetStates, None

LEMMA ArriveLateIInv ==
  ASSUME IInv, NEW p \in Plans, ArriveLate(p)
  PROVE  IInv'
<1>1. late' \subseteq Plans /\ UNCHANGED <<plan, records, run>>
  BY DEF ArriveLate, IInv, Types
<1>2. CASE Executable(p) /\ Accept(p)
  <2>1. stack.status # "absent"
    BY <1>2 DEF Executable, IInv, StackInv
  <2>2. QED
    BY <1>1, <1>2, <2>1, AcceptFacts, StackStep DEF IInv, Types, PastBase, AtBase, Unchanged, SameStatusOnly
<1>3. CASE UNCHANGED <<stack, accepted, running, sets>>
  BY <1>1, <1>3, StackStep DEF IInv, Types, StackInv, PastBase, AtBase, Unchanged, SameStatusOnly
<1>4. QED
  BY <1>2, <1>3 DEF ArriveLate

LEMMA BeginExecutionIInv ==
  ASSUME IInv, BeginExecution
  PROVE  IInv'
<1>1. /\ accepted # None /\ running' = accepted /\ accepted' = None
      /\ stack' = [stack EXCEPT !.status = InProgress(plan[accepted].operation), !.rev = @ + 1]
      /\ UNCHANGED <<late, sets, plan, records, run>>
  BY DEF BeginExecution
<1>2. stack' \in Stack /\ stack'.status # "absent" /\ stack'.id = stack.id /\ stack'.rev = stack.rev + 1
  <2>1. stack \in Stack /\ stack.rev + 1 \in Nat
    BY DEF IInv, Types, Stack
  <2>2. InProgress(plan[accepted].operation) \in Statuses \ {"absent"}
    BY DEF InProgress, Statuses
  <2>3. QED
    BY <1>1, <2>1, <2>2 DEF Stack
<1>3. ASSUME NEW p \in Plans, Made(p)
      PROVE  PastBase(p)'
  <2>1. plan[p] \in Base /\ stack \in Stack /\ plan' = plan /\ stack.status # "absent"
        /\ (AtBase(p) \/ PastBase(p))
    BY <1>1, <1>3 DEF IInv, Types, StackInv
  <2>2. QED
    BY <1>2, <2>1 DEF PastBase, AtBase, Unchanged, SameStatusOnly, Stack, Base
<1>4. Types' /\ Made(accepted)
  BY <1>1, <1>2 DEF IInv, Types, StackInv
<1>5. QED
  BY <1>1, <1>2, <1>3, <1>4, StackStep

LEMMA SettleIInv ==
  ASSUME IInv, Settle
  PROVE  IInv'
<1>1. PICK s \in {Success(plan[running].operation), Failure(plan[running].operation)},
           x \in {"EXECUTED", "FAILED"} :
        /\ running # None /\ running' = None
        /\ stack' = [stack EXCEPT !.status = s] /\ sets' = [sets EXCEPT ![running] = x]
        /\ UNCHANGED <<accepted, late, plan, records, run>>
  BY DEF Settle
<1>2. stack' \in Stack /\ stack'.status # "absent" /\ stack'.id = stack.id /\ stack'.rev = stack.rev
  BY <1>1 DEF IInv, Types, Stack, Statuses, Success, Failure
<1>3. \A p \in Plans : Made(p) => PastBase(p)'
  BY <1>1, <1>2 DEF IInv, StackInv, PastBase
<1>4. running \in Plans /\ Made(running)
  BY <1>1 DEF IInv, Types, StackInv
<1>5. Types' /\ \A p \in Plans : sets'[p] = None <=> sets[p] = None
  BY <1>1, <1>2, <1>4 DEF IInv, Types, StackInv, SetStates, None
<1>6. accepted' # None => Made(accepted')
  BY <1>1 DEF IInv, StackInv
<1>7. QED
  BY <1>1, <1>2, <1>3, <1>5, <1>6, StackStep

LEMMA DeployIInv ==
  ASSUME IInv, Deploy
  PROVE  IInv'
<1>1. /\ accepted = None /\ running = None
      /\ stack' = [stack EXCEPT !.status = "UPDATE_COMPLETE", !.rev = @ + 1]
      /\ UNCHANGED <<accepted, running, late, sets, plan, records, run>>
  BY DEF Deploy, Idle
<1>2. stack' \in Stack /\ stack'.status # "absent" /\ stack'.id = stack.id /\ stack'.rev = stack.rev + 1
      /\ stack.status # "absent"
  <2>1. stack \in Stack /\ stack.rev + 1 \in Nat
    BY DEF IInv, Types, Stack
  <2>2. stack.status # "absent"
    BY DEF Deploy, Live
  <2>3. "UPDATE_COMPLETE" \in Statuses \ {"absent"}
    BY DEF Statuses
  <2>4. QED
    BY <1>1, <2>1, <2>2, <2>3 DEF Stack
<1>3. ASSUME NEW p \in Plans, Made(p)
      PROVE  PastBase(p)'
  <2>1. plan[p] \in Base /\ stack \in Stack /\ (AtBase(p) \/ PastBase(p))
    BY <1>3 DEF IInv, Types, StackInv
  <2>2. QED
    BY <1>1, <1>2, <2>1 DEF PastBase, AtBase, Unchanged, SameStatusOnly, Stack, Base
<1>4. Types'
  BY <1>1, <1>2 DEF IInv, Types, SetStates
<1>5. QED
  BY <1>1, <1>2, <1>3, <1>4, StackStep

LEMMA DeleteStackIInv ==
  ASSUME IInv, DeleteStack
  PROVE  IInv'
<1>1. /\ accepted = None /\ running = None
      /\ stack' = [stack EXCEPT !.status = "absent", !.rev = 0]
      /\ sets' = [p \in Plans |-> IF sets[p] = "AVAILABLE" THEN "GONE" ELSE sets[p]]
      /\ UNCHANGED <<accepted, running, late, plan, records, run>>
  BY DEF DeleteStack, Idle
<1>2. stack' \in Stack /\ stack'.status = "absent" /\ stack'.id = stack.id
  BY <1>1 DEF IInv, Types, Stack, Statuses
<1>3. ASSUME NEW p \in Plans, Made(p)
      PROVE  PastBase(p)'
  <2>1. plan[p] \in Base /\ stack \in Stack /\ (AtBase(p) \/ PastBase(p))
    BY <1>3 DEF IInv, Types, StackInv
  <2>2. QED
    BY <1>1, <1>2, <2>1 DEF PastBase, AtBase, Unchanged, SameStatusOnly, Stack, Base
<1>4. Types'
  BY <1>1, <1>2 DEF IInv, Types, SetStates
<1>5. \A p \in Plans : sets'[p] # "AVAILABLE" /\ (sets'[p] = None <=> sets[p] = None)
  BY <1>1 DEF IInv, Types, None
<1>6. QED
  BY <1>1, <1>2, <1>3, <1>4, <1>5, StackStep

-----------------------------------------------------------------------------
(* The steps of a run move neither the stack nor the plans.                *)

\* A step of run o: the others stay, and o's new record and slot fit.
LEMMA RunStep ==
  ASSUME IInv, NEW o \in Operators, NEW r \in Run,
         run' = [run EXCEPT ![o] = r], plan' = plan, stack' = stack, Types', StackInv',
         records \subseteq records',
         r.plan \in Plans => r.plan = run[o].plan \/ run[o].at = "idle",
         r.at \in Before \/ r.issued \/ r.round = 1 => r.plan \in Plans /\ Made(r.plan),
         r.at \in Before \cup {"idle"} => ~r.issued,
         r.at = "idle" => r.round = 0,
         r.round = 1 => TypedAtBase(o)' \/ PastBase(r.plan),
         r.at \in {"record", "execute"} \/ r.issued => r.round = 1 /\ TypedAtBase(o)',
         r.at = "execute" \/ r.issued =>
           /\ <<RootOf[o], r.plan, "apply-started.json">> \in records'
           /\ \/ Attempting(o) /\ r.plan = run[o].plan
              \/ <<RootOf[o], r.plan, "apply-started.json">> \notin records
  PROVE  IInv'
<1>1. /\ run'[o] = r
      /\ \A q \in Operators : q # o => run'[q] = run[q]
  BY DEF IInv, Types
<1>2. ASSUME NEW p \in Plans
      PROVE  Made(p)' = Made(p) /\ PastBase(p)' = PastBase(p)
  BY DEF Made, PastBase
<1>3. RunInv'
  <2>1. ASSUME NEW q \in Operators, q # o
        PROVE  TypedAtBase(q)' = TypedAtBase(q)
    BY <1>1, <2>1 DEF TypedAtBase
  <2>2. QED
    BY <1>1, <1>2, <2>1 DEF IInv, RunInv
<1>4. RecordInv'
  <2>1. ASSUME NEW q \in Operators, q # o
        PROVE  Attempting(q)' = Attempting(q) /\ Slot(q)' = Slot(q)
    BY <1>1, <2>1 DEF Attempting, Slot
  <2>2. Attempting(o)' => /\ Slot(o)' \in records'
                          /\ (Attempting(o) /\ Slot(o)' = Slot(o)) \/ Slot(o)' \notin records
    BY <1>1 DEF Attempting, Slot
  <2>3. ASSUME NEW q \in Operators, q # o, Attempting(q), Attempting(o)'
        PROVE  ~(run'[q].plan = run'[o].plan /\ RootOf[q] = RootOf[o])
    <3>1. Slot(q) \in records
      BY <2>3 DEF IInv, RecordInv
    <3>2. CASE Attempting(o) /\ r.plan = run[o].plan
      BY <1>1, <2>3, <3>2 DEF IInv, RecordInv
    <3>3. CASE <<RootOf[o], r.plan, "apply-started.json">> \notin records
      BY <1>1, <2>3, <3>1, <3>3 DEF Slot
    <3>4. QED
      BY <1>1, <2>3, <3>2, <3>3 DEF Attempting
  <2>4. QED
    BY <1>1, <2>1, <2>2, <2>3 DEF IInv, RecordInv
<1>5. QED
  BY <1>3, <1>4 DEF IInv

LEMMA SameStack ==
  ASSUME IInv, UNCHANGED aws, plan' = plan, run' \in [Operators -> Run]
  PROVE  Types' /\ StackInv' /\ stack' = stack
<1>1. UNCHANGED <<stack, accepted, running, late, sets>>
  BY DEF aws
<1>2. Types'
  BY <1>1 DEF IInv, Types
<1>3. StackInv'
  BY <1>1 DEF IInv, StackInv, Made, AtBase, PastBase, Unchanged, SameStatusOnly
<1>4. QED
  BY <1>1, <1>2, <1>3

LEMMA RunTypes ==
  ASSUME IInv, NEW o \in Operators
  PROVE  /\ run[o] \in Run /\ run[o].at \in Steps /\ run[o].plan \in Plans \cup {None}
         /\ run[o].round \in {0, 1} /\ run[o].typed \in Base /\ run[o].issued \in BOOLEAN
         /\ run[o].polls \in Nat /\ run[o].failures \in Nat
         /\ \A r \in Run : [run EXCEPT ![o] = r] \in [Operators -> Run]
BY DEF IInv, Types, Run

\* Steps that only move the run on, to where it need not hold more than it does.
LEMMA GotoIInv ==
  ASSUME IInv, NEW o \in Operators, NEW r \in Run,
         run' = [run EXCEPT ![o] = r], UNCHANGED aws, plan' = plan, records \subseteq records',
         r.plan = run[o].plan, r.round = run[o].round, r.typed = run[o].typed, r.issued = run[o].issued,
         r.at \notin {"idle", "record", "execute"},
         r.at \in Before => run[o].at \in Before
  PROVE  IInv'
<1>1. run' \in [Operators -> Run] /\ run'[o] = r
  BY RunTypes DEF IInv, Types
<1>2. Types' /\ StackInv' /\ stack' = stack
  BY <1>1, SameStack
<1>3. TypedAtBase(o)' = TypedAtBase(o)
  BY <1>1 DEF TypedAtBase
<1>4. r.issued => Attempting(o) /\ Slot(o) \in records
  BY DEF IInv, RecordInv, Attempting
<1>5. ~(r.at = "execute")
  OBVIOUS
<1>6. QED
  BY <1>1, <1>2, <1>3, <1>4, <1>5, RunStep DEF IInv, RunInv, Slot

LEMMA ZeroIsNotOne == 0 # 1
OBVIOUS

LEMMA BeginIInv ==
  ASSUME IInv, NEW o \in Operators, NEW p \in Plans, Begin(o, p)
  PROVE  IInv'
<1>1. PICK at \in {"refused", "change set"} :
        /\ run' = [run EXCEPT ![o].plan = p, ![o].at = at]
        /\ run[o].at = "idle" /\ Made(p) /\ UNCHANGED aws /\ plan' = plan /\ records' = records
  BY DEF Begin, Made
<1> DEFINE r == [run[o] EXCEPT !.plan = p, !.at = at]
<1>2. r \in Run /\ r.plan = p /\ r.at = at /\ r.issued = run[o].issued /\ r.round = run[o].round
  BY <1>1, RunTypes DEF Run, Steps
<1>3. run' = [run EXCEPT ![o] = r]
  BY <1>1 DEF IInv, Types
<1>4. Types' /\ StackInv' /\ stack' = stack
  BY <1>1, <1>2, <1>3, RunTypes, SameStack, ZenonT(40)
<1>5. ~r.issued /\ r.round = 0
  BY <1>1, <1>2 DEF IInv, RunInv, Before
<1> HIDE DEF r
<1>6. r.at \notin {"idle", "record", "execute"} /\ r.at # "execute" /\ r.round # 1
  <2>1. r.at = "refused" \/ r.at = "change set"
    BY <1>2
  <2>2. r.round = 0
    BY <1>5
  <2>3. r.at # "idle" /\ r.at # "record" /\ r.at # "execute"
    BY <2>1
  <2>4. r.round # 1
    BY <2>2, ZeroIsNotOne, Zenon
  <2>5. QED
    BY <2>3, <2>4
<1>7. QED
  BY <1>1, <1>2, <1>3, <1>4, <1>5, <1>6, RunStep

LEMMA CheckChangeSetIInv ==
  ASSUME IInv, NEW o \in Operators, CheckChangeSet(o)
  PROVE  IInv'
<1>1. PICK at \in {"stack", "refused"} :
        /\ run' = [run EXCEPT ![o].at = at] /\ run[o].at = "change set"
        /\ UNCHANGED aws /\ plan' = plan /\ records' = records
  BY DEF CheckChangeSet, Goto
<1> DEFINE r == [run[o] EXCEPT !.at = at]
<1>2. r \in Run /\ run' = [run EXCEPT ![o] = r]
      /\ r.at = at /\ r.plan = run[o].plan /\ r.round = run[o].round
      /\ r.typed = run[o].typed /\ r.issued = run[o].issued
  BY <1>1, RunTypes, ZenonT(40) DEF IInv, Types, Run, Steps
<1>3. QED
  BY <1>1, <1>2, GotoIInv DEF Before

LEMMA RefuseIInv ==
  ASSUME IInv, NEW o \in Operators, Refuse(o)
  PROVE  IInv'
<1>1. PICK at \in {"refused", "error"} :
        /\ run' = [run EXCEPT ![o].at = at]
        /\ UNCHANGED aws /\ plan' = plan /\ records' = records
  BY DEF Refuse, Goto
<1> DEFINE r == [run[o] EXCEPT !.at = at]
<1>2. r \in Run /\ run' = [run EXCEPT ![o] = r]
      /\ r.at = at /\ r.plan = run[o].plan /\ r.round = run[o].round
      /\ r.typed = run[o].typed /\ r.issued = run[o].issued
  BY <1>1, RunTypes, ZenonT(40) DEF IInv, Types, Run, Steps
<1>3. QED
  BY <1>1, <1>2, GotoIInv DEF Before

LEMMA CrashIInv ==
  ASSUME IInv, NEW o \in Operators, Crash(o)
  PROVE  IInv'
<1>1. run' = [run EXCEPT ![o].at = "crashed"] /\ UNCHANGED aws /\ plan' = plan /\ records' = records
  BY DEF Crash, Goto
<1> DEFINE r == [run[o] EXCEPT !.at = "crashed"]
<1>2. r \in Run /\ run' = [run EXCEPT ![o] = r]
      /\ r.at = "crashed" /\ r.plan = run[o].plan /\ r.round = run[o].round
      /\ r.typed = run[o].typed /\ r.issued = run[o].issued
  BY <1>1, RunTypes DEF IInv, Types, Run, Steps
<1>3. QED
  BY <1>1, <1>2, GotoIInv DEF Before

\* The second check passes on the base only, which the stack cannot have left
\* and come back to since the typing.
LEMMA CheckStackIInv ==
  ASSUME IInv, NEW o \in Operators, CheckStack(o)
  PROVE  IInv'
<1>1. PICK at \in {"confirm", "record", "refused"} :
        /\ run' = [run EXCEPT ![o].at = at] /\ run[o].at = "stack"
        /\ at = "record" => run[o].round # 0 /\ Unchanged(run[o].plan)
        /\ UNCHANGED aws /\ plan' = plan /\ records' = records
  BY DEF CheckStack, Goto, AfterStackCheck
<1> DEFINE r == [run[o] EXCEPT !.at = at]
<1>2. r \in Run /\ run' = [run EXCEPT ![o] = r]
      /\ r.at = at /\ r.plan = run[o].plan /\ r.round = run[o].round
      /\ r.typed = run[o].typed /\ r.issued = run[o].issued
  BY <1>1, RunTypes, ZenonT(40) DEF IInv, Types, Run, Steps
<1>3. CASE at # "record"
  BY <1>1, <1>2, <1>3, GotoIInv DEF Before
<1>4. CASE at = "record"
  <2>1. run'[o] = r /\ Types' /\ StackInv' /\ stack' = stack
    BY <1>1, <1>2, RunTypes, SameStack DEF IInv, Types
  <2>2. run[o].plan \in Plans /\ Made(run[o].plan) /\ ~run[o].issued
    BY <1>1 DEF IInv, RunInv, Before
  <2>3. run[o].round = 1 /\ (TypedAtBase(o) \/ PastBase(run[o].plan))
    BY <1>1, <1>4, RunTypes DEF IInv, RunInv
  <2>4. ~PastBase(run[o].plan)
    <3>1. plan[run[o].plan] \in Base /\ plan[run[o].plan].status # "absent" /\ stack \in Stack
      BY <2>2 DEF IInv, Types, StackInv
    <3>2. QED
      BY <1>1, <1>4, <3>1 DEF Unchanged, SameStatusOnly, PastBase, Base, Stack
  <2>5. TypedAtBase(o)'
    BY <1>1, <1>2, <2>1, <2>3, <2>4 DEF TypedAtBase
  <2>6. r.at = "record" /\ r.at \notin {"idle", "execute"} /\ r.round = 1 /\ r.issued = FALSE
    BY <1>2, <1>4, <2>2, <2>3, RunTypes
  <2> HIDE DEF r
  <2>7. QED
    BY <1>1, <1>2, <2>1, <2>2, <2>5, <2>6, RunStep
<1>5. QED
  BY <1>3, <1>4

LEMMA ConfirmIInv ==
  ASSUME IInv, NEW o \in Operators, Confirm(o)
  PROVE  IInv'
<1> DEFINE typed == [NoPlan EXCEPT !.id = stack.id, !.status = stack.status, !.rev = stack.rev]
           r == [run[o] EXCEPT !.at = "change set", !.round = 1, !.typed = typed]
<1>1. run[o].at = "confirm" /\ UNCHANGED aws /\ plan' = plan /\ records' = records
      /\ run' = [run EXCEPT ![o].at = "change set", ![o].round = 1, ![o].typed = typed]
  BY DEF Confirm, AfterConfirm
<1>2. typed \in Base /\ typed.id = stack.id /\ typed.status = stack.status /\ typed.rev = stack.rev
  BY DEF IInv, Types, Stack, Base, NoPlan, None
<1>3. r \in Run /\ r.at = "change set" /\ r.plan = run[o].plan /\ r.round = 1
      /\ r.typed = typed /\ r.issued = run[o].issued
  BY <1>2, RunTypes DEF Run, Steps
<1>4. run' = [run EXCEPT ![o] = r]
  BY <1>1 DEF IInv, Types
<1>5. run'[o] = r /\ Types' /\ StackInv' /\ stack' = stack
  <2>1. run' \in [Operators -> Run] /\ run'[o] = r
    BY <1>3, <1>4, RunTypes DEF IInv, Types
  <2>2. QED
    BY <1>1, <2>1, SameStack
<1>6. run[o].plan \in Plans /\ Made(run[o].plan) /\ ~run[o].issued
  BY <1>1 DEF IInv, RunInv, Before
<1>7. TypedAtBase(o)' \/ PastBase(run[o].plan)
  <2>1. AtBase(run[o].plan) \/ PastBase(run[o].plan)
    BY <1>6 DEF IInv, StackInv
  <2>2. run'[o].typed = typed /\ run'[o].plan = run[o].plan
    BY <1>3, <1>5
  <2> HIDE DEF r, typed
  <2>3. QED
    BY <1>1, <1>2, <2>1, <2>2 DEF TypedAtBase, AtBase, Unchanged, SameStatusOnly
<1>8. r.at \notin {"idle", "record", "execute"} /\ r.at # "execute" /\ r.issued = FALSE
  BY <1>3, <1>6, RunTypes
<1> HIDE DEF r, typed
<1>9. QED
  BY <1>1, <1>3, <1>4, <1>5, <1>6, <1>7, <1>8, RunStep

LEMMA RecordAttemptIInv ==
  ASSUME IInv, NEW o \in Operators, RecordAttempt(o)
  PROVE  IInv'
<1>1. run[o].at = "record" /\ UNCHANGED aws /\ plan' = plan
  BY DEF RecordAttempt
<1>2. CASE RecordSlotFree(o)
  <2> DEFINE r == [run[o] EXCEPT !.at = "execute"]
  <2>1. run' = [run EXCEPT ![o].at = "execute"]
        /\ records' = records \cup {Slot(o)} /\ Slot(o) \notin records
    BY <1>2 DEF RecordAttempt, Goto, RecordSlotFree, Slot
  <2>2. r \in Run /\ run' = [run EXCEPT ![o] = r]
        /\ r.at = "execute" /\ r.plan = run[o].plan /\ r.round = run[o].round
        /\ r.typed = run[o].typed /\ r.issued = run[o].issued
    BY <2>1, RunTypes, ZenonT(40) DEF IInv, Types, Run, Steps
  <2>3. run'[o] = r /\ Types' /\ StackInv' /\ stack' = stack
    BY <1>1, <2>2, RunTypes, SameStack DEF IInv, Types
  <2>4. /\ run[o].plan \in Plans /\ Made(run[o].plan) /\ ~run[o].issued
        /\ run[o].round = 1 /\ TypedAtBase(o)
    BY <1>1 DEF IInv, RunInv, Before
  <2>5. TypedAtBase(o)'
    BY <1>1, <2>2, <2>3, <2>4 DEF TypedAtBase
  <2>6. r.at # "idle" /\ r.round = 1 /\ r.issued = FALSE /\ records \subseteq records'
        /\ <<RootOf[o], r.plan, "apply-started.json">> \in records'
        /\ <<RootOf[o], r.plan, "apply-started.json">> \notin records
    BY <2>1, <2>2, <2>4, RunTypes DEF Slot
  <2> HIDE DEF r
  <2>7. QED
    BY <1>1, <2>2, <2>3, <2>4, <2>5, <2>6, RunStep
<1>3. CASE ~RecordSlotFree(o)
  <2> DEFINE r == [run[o] EXCEPT !.at = "error"]
  <2>1. run' = [run EXCEPT ![o].at = "error"] /\ records' = records
    BY <1>3 DEF RecordAttempt, Goto
  <2>2. r \in Run /\ run' = [run EXCEPT ![o] = r]
        /\ r.at = "error" /\ r.plan = run[o].plan /\ r.round = run[o].round
        /\ r.typed = run[o].typed /\ r.issued = run[o].issued
    BY <2>1, RunTypes DEF IInv, Types, Run, Steps
  <2>3. QED
    BY <1>1, <2>1, <2>2, GotoIInv DEF Before
<1>4. QED
  BY <1>2, <1>3

LEMMA ExecuteIInv ==
  ASSUME IInv, NEW o \in Operators, Execute(o)
  PROVE  IInv'
<1>1. PICK at \in {"wait", "apply_failed"} : run' = [run EXCEPT ![o].at = at, ![o].issued = TRUE]
  BY DEF Execute
<1> DEFINE r == [run[o] EXCEPT !.at = at, !.issued = TRUE]
<1>2. run[o].at = "execute" /\ plan' = plan /\ records \subseteq records'
  BY DEF Execute
<1>3. r \in Run /\ r.at = at /\ r.plan = run[o].plan /\ r.round = run[o].round
      /\ r.typed = run[o].typed /\ r.issued = TRUE
  BY RunTypes DEF Run, Steps
<1>4. run' = [run EXCEPT ![o] = r] /\ run'[o] = r /\ run' \in [Operators -> Run]
  BY <1>1, <1>3, RunTypes DEF IInv, Types
<1>5. /\ run[o].plan \in Plans /\ Made(run[o].plan) /\ run[o].round = 1 /\ TypedAtBase(o)
      /\ Attempting(o) /\ Slot(o) \in records
  BY <1>2 DEF IInv, RunInv, RecordInv, Before, Attempting
<1>6. stack' = stack /\ Types' /\ StackInv'
  <2>1. CASE Executable(run[o].plan) /\ Accept(run[o].plan) /\ UNCHANGED late
    <3>1. stack.status # "absent"
      BY <1>5, <2>1 DEF Executable, IInv, StackInv
    <3>2. QED
      BY <1>2, <1>4, <1>5, <2>1, <3>1, AcceptFacts
      DEF IInv, Types, StackInv, Made, AtBase, PastBase, Unchanged, SameStatusOnly, Accept
  <2>2. CASE UNCHANGED aws
    BY <1>2, <1>4, <2>2, SameStack
  <2>3. CASE UNCHANGED <<stack, accepted, running, sets>> /\ \E calls \in {{}, {run[o].plan}} : late' = late \cup calls
    BY <1>2, <1>4, <1>5, <2>3
    DEF IInv, Types, StackInv, Made, AtBase, PastBase, Unchanged, SameStatusOnly
  <2>4. QED
    BY <2>1, <2>2, <2>3 DEF Execute
<1>7. TypedAtBase(o)'
  BY <1>2, <1>3, <1>4, <1>5 DEF TypedAtBase
<1>8. r.at \notin Before \cup {"idle"}
  BY <1>3 DEF Before
<1>9. QED
  BY <1>2, <1>3, <1>4, <1>5, <1>6, <1>7, <1>8, RunStep DEF Slot

\* The wait and its end.
LEMMA WaitIInv ==
  ASSUME IInv, NEW o \in Operators, Poll(o) \/ PollFails(o) \/ GiveUp(o)
  PROVE  IInv'
<1>1. run[o].at = "wait" /\ UNCHANGED aws /\ plan' = plan /\ records \subseteq records'
  BY DEF Poll, PollFails, GiveUp, Finish
<1>2. CASE \E at \in {"applied", "apply_failed"} : run' = [run EXCEPT ![o].at = at]
  <2>1. PICK at \in {"applied", "apply_failed"} : run' = [run EXCEPT ![o].at = at]
    BY <1>2
  <2> DEFINE r == [run[o] EXCEPT !.at = at]
  <2>2. r \in Run /\ run' = [run EXCEPT ![o] = r]
        /\ r.at = at /\ r.plan = run[o].plan /\ r.round = run[o].round
        /\ r.typed = run[o].typed /\ r.issued = run[o].issued
    BY <2>1, RunTypes DEF IInv, Types, Run, Steps
  <2>3. QED
    BY <1>1, <2>2, GotoIInv DEF Before
<1>3. CASE \E spent \in Nat, n \in Nat : run' = [run EXCEPT ![o].polls = spent, ![o].failures = n]
  <2>1. PICK spent \in Nat, n \in Nat : run' = [run EXCEPT ![o].polls = spent, ![o].failures = n]
    BY <1>3
  <2> DEFINE r == [run[o] EXCEPT !.polls = spent, !.failures = n]
  <2>2. r \in Run /\ run' = [run EXCEPT ![o] = r]
        /\ r.at = run[o].at /\ r.plan = run[o].plan /\ r.round = run[o].round
        /\ r.typed = run[o].typed /\ r.issued = run[o].issued
    BY <2>1, RunTypes DEF IInv, Types, Run
  <2>3. QED
    BY <1>1, <2>2, GotoIInv DEF Before
<1>4. Spent(o) \subseteq Nat /\ run[o].failures + 1 \in Nat
  BY RunTypes, ApplyAssumption DEF Spent
<1>5. CASE Poll(o)
  BY <1>2, <1>3, <1>4, <1>5 DEF Poll, Finish
<1>6. CASE PollFails(o)
  <2>1. CASE Finish(o, "apply_failed")
    BY <1>2, <2>1 DEF Finish
  <2>2. CASE \E spent \in Spent(o) : run' = [run EXCEPT ![o].polls = spent, ![o].failures = @ + 1]
    <3>1. PICK spent \in Spent(o) : run' = [run EXCEPT ![o].polls = spent, ![o].failures = run[o].failures + 1]
      BY <2>2 DEF IInv, Types
    <3>2. QED
      BY <1>3, <1>4, <3>1
  <2>3. QED
    BY <1>6, <2>1, <2>2 DEF PollFails
<1>7. CASE GiveUp(o)
  BY <1>2, <1>7 DEF GiveUp, Finish
<1>8. QED
  BY <1>5, <1>6, <1>7

-----------------------------------------------------------------------------
LEMMA InitIInv == Init => IInv
<1> SUFFICES ASSUME Init PROVE IInv
  OBVIOUS
<1>1. /\ accepted = None /\ running = None /\ late = {} /\ records = {}
      /\ sets = [p \in Plans |-> None] /\ plan = [p \in Plans |-> NoPlan]
      /\ run = [o \in Operators |-> NoRun]
  BY DEF Init
<1>2. stack \in Stack
  BY DEF Init, Stack, Statuses
<1>3. NoRun \in Run /\ NoRun.at = "idle" /\ NoRun.issued = FALSE /\ NoRun.round = 0
  BY NoPlanFacts DEF NoRun, Run, Steps
<1>4. Types
  BY <1>1, <1>2, <1>3, NoPlanFacts DEF Types, SetStates
<1>5. StackInv
  BY <1>1 DEF StackInv, Made, None
<1>6. RunInv /\ RecordInv
  <2>1. \A o \in Operators : run[o].at = "idle" /\ run[o].issued = FALSE /\ run[o].round = 0
    BY <1>1, <1>3
  <2>2. \A o \in Operators : ~Attempting(o)
    BY <2>1 DEF Attempting
  <2>3. QED
    <3>1. ASSUME NEW o \in Operators
          PROVE  run[o].at \notin Before /\ run[o].at \notin {"record", "execute"}
                 /\ ~run[o].issued /\ run[o].round # 1
      <4>1. "idle" \notin Before /\ "idle" \notin {"record", "execute"}
        BY DEF Before
      <4>2. run[o].at = "idle" /\ run[o].issued = FALSE /\ run[o].round = 0
        BY <2>1
      <4>3. run[o].round # 1
        BY <4>2
      <4>4. QED
        BY <4>1, <4>2, <4>3
    <3>2. RunInv
      BY <2>1, <3>1 DEF RunInv
    <3>3. QED
      BY <2>2, <3>2 DEF RecordInv
<1>7. QED
  BY <1>4, <1>5, <1>6 DEF IInv

LEMMA NextIInv ==
  ASSUME IInv, [Next]_vars
  PROVE  IInv'
<1>1. ASSUME NEW o \in Operators, Applying(o) \/ Confirm(o) \/ Refuse(o) \/ Crash(o)
      PROVE  IInv'
  BY <1>1, BeginIInv, CheckChangeSetIInv, CheckStackIInv, ConfirmIInv, RefuseIInv, CrashIInv,
     RecordAttemptIInv, ExecuteIInv, WaitIInv DEF Applying
<1>2. ASSUME CloudFormation \/ Others
      PROVE  IInv'
  BY <1>2, BeginExecutionIInv, SettleIInv, ArriveLateIInv, DeployIInv, DeleteStackIInv, MakePlanIInv
  DEF CloudFormation, Others
<1>3. CASE UNCHANGED vars
  BY <1>3 DEF vars, IInv, Types, StackInv, RunInv, RecordInv, Made, AtBase, PastBase, Unchanged,
     SameStatusOnly, TypedAtBase, Attempting, Slot
<1>4. QED
  BY <1>1, <1>2, <1>3 DEF Next

\* The inductive invariant of `aws apply' (awsApply, verifyLive).
THEOREM Applies == Spec => []IInv
BY InitIInv, NextIInv, PTL DEF Spec

\* In one checkout one run attempts a plan, and its record comes first
\* (writeApplyRecord, exclusively).
THEOREM OneAttempt == Spec => []AttemptedOnce
<1>1. IInv => AttemptedOnce
  BY DEF IInv, RecordInv, Attempting, Slot, AttemptedOnce
<1>2. QED
  BY <1>1, Applies, PTL

\* An execution was confirmed on the reviewed base revision (verifyLive after
\* the confirmation).
THEOREM TypingIsNotAWindow == Spec => []TypedOnReviewedBase
<1>1. IInv => TypedOnReviewedBase
  BY DEF IInv, RunInv, TypedAtBase, TypedOnReviewedBase
<1>2. QED
  BY <1>1, Applies, PTL

-----------------------------------------------------------------------------
(* What became of an undisturbed plan.                                     *)

Fate(p) ==
  \/ AtBase(p) /\ running = None
  \/ running = p /\ stack.status = InProgress(plan[p].operation)
  \/ sets[p] = "EXECUTED"
  \/ sets[p] = "FAILED" /\ running = None /\ stack.status = Failure(plan[p].operation)

FateInv ==
  /\ accepted = None \/ running = None
  /\ \A p \in {accepted, running} : p # None => sets[p] = "EXECUTING"
  /\ \A p \in Plans : Made(p) /\ p \notin disturbed => Fate(p)
  /\ \A o \in Operators : run[o].at \in {"wait", "applied"} => run[o].issued

AppliedInv == IInv /\ FateInv /\ AppliedMeansExecuted

\* A step that leaves no undisturbed plan behind, or only what it left as it was.
LEMMA BasesApart ==
  ASSUME IInv, NEW p \in Plans, Made(p), AtBase(p)
  PROVE  ~PastBase(p) /\ stack.status # "absent"
<1>1. plan[p] \in Base /\ stack \in Stack /\ plan[p].status # "absent"
  BY DEF IInv, Types, StackInv
<1>2. QED
  BY <1>1 DEF AtBase, PastBase, Unchanged, SameStatusOnly, Stack, Base

\* CloudFormation's statuses tell a running, a failed and a successful plan apart.
LEMMA StatusesApart ==
  ASSUME NEW op
  PROVE  /\ InProgress(op) \in {"CREATE_IN_PROGRESS", "UPDATE_IN_PROGRESS"}
         /\ InProgress(op) # Success(op) /\ Failure(op) # Success(op)
         /\ "absent" \notin {InProgress(op), Failure(op), Success(op)}
BY DEF InProgress, Success, Failure

\* Accepting one plan keeps the fate of every other.
LEMMA AcceptFate ==
  ASSUME IInv, FateInv, NEW p \in Plans, Executable(p), Accept(p), plan' = plan
  PROVE  /\ accepted' = None \/ running' = None
         /\ \A q \in {accepted', running'} : q # None => sets'[q] = "EXECUTING"
         /\ \A q \in Plans : Made(q)' /\ q \notin disturbed' => Fate(q)'
         /\ \A q \in Plans : sets[q] = "EXECUTED" => sets'[q] = "EXECUTED"
<1>1. /\ accepted' = p /\ UNCHANGED <<stack, running, disturbed>> /\ running = None
      /\ sets[p] = "AVAILABLE"
      /\ sets' = [q \in Plans |-> IF q = p THEN "EXECUTING"
                                  ELSE IF sets[q] = "AVAILABLE" THEN "GONE" ELSE sets[q]]
  BY DEF Executable, Idle, Accept
<1>2. ASSUME NEW q \in Plans, Made(q)', q \notin disturbed'
      PROVE  Fate(q)'
  <2>1. Fate(q) /\ running # q
    BY <1>1, <1>2, ApplyAssumption DEF FateInv, Made, None
  <2>2. QED
    BY <1>1, <1>2, <2>1 DEF Fate, AtBase, Unchanged, SameStatusOnly
<1>3. QED
  BY <1>1, <1>2

LEMMA BeginExecutionFate ==
  ASSUME IInv, FateInv, BeginExecution
  PROVE  FateInv' /\ \A q \in Plans : sets[q] = "EXECUTED" => sets'[q] = "EXECUTED"
<1>1. /\ accepted # None /\ running' = accepted /\ accepted' = None
      /\ stack' = [stack EXCEPT !.status = InProgress(plan[accepted].operation), !.rev = @ + 1]
      /\ disturbed' = disturbed \cup (Plans \ {accepted})
      /\ UNCHANGED <<late, sets, plan, records, run>>
  BY DEF BeginExecution
<1>2. stack'.status = InProgress(plan[accepted].operation)
  BY <1>1 DEF IInv, Types, Stack
<1>3. \A p \in Plans : Made(p)' /\ p \notin disturbed' => Fate(p)'
  BY <1>1, <1>2 DEF Fate
<1>4. QED
  BY <1>1, <1>3 DEF FateInv

LEMMA SettleFate ==
  ASSUME IInv, FateInv, Settle
  PROVE  FateInv' /\ \A q \in Plans : sets[q] = "EXECUTED" => sets'[q] = "EXECUTED"
<1>1. /\ running # None /\ running' = None /\ running \in Plans /\ sets[running] = "EXECUTING"
      /\ accepted = None
      /\ UNCHANGED <<accepted, late, plan, records, run, disturbed>>
  BY DEF Settle, FateInv, IInv, Types
<1>2. \/ stack'.status = Success(plan[running].operation) /\ sets' = [sets EXCEPT ![running] = "EXECUTED"]
      \/ stack'.status = Failure(plan[running].operation) /\ sets' = [sets EXCEPT ![running] = "FAILED"]
  BY DEF Settle, IInv, Types, Stack
<1>3. ASSUME NEW p \in Plans, Made(p)', p \notin disturbed'
      PROVE  Fate(p)'
  <2>1. Fate(p) /\ Made(p) /\ ~AtBase(p)
    BY <1>1, <1>3, BasesApart DEF FateInv, Made, IInv, StackInv
  <2>2. CASE p = running
    BY <1>1, <1>2, <2>2 DEF Fate, IInv, Types
  <2>3. CASE p # running
    BY <1>1, <1>2, <2>1, <2>3 DEF Fate, IInv, Types
  <2>4. QED
    BY <2>2, <2>3
<1>4. \A q \in Plans : sets[q] = "EXECUTED" => sets'[q] = "EXECUTED"
  BY <1>1, <1>2 DEF IInv, Types
<1>5. QED
  BY <1>1, <1>3, <1>4 DEF FateInv

LEMMA OthersFate ==
  ASSUME IInv, FateInv, Deploy \/ DeleteStack
  PROVE  FateInv' /\ \A q \in Plans : sets[q] = "EXECUTED" => sets'[q] = "EXECUTED"
<1>1. disturbed' = Plans /\ accepted' = None /\ running' = None /\ UNCHANGED run
  BY DEF Deploy, DeleteStack, Idle
<1>2. \A q \in Plans : sets[q] = "EXECUTED" => sets'[q] = "EXECUTED"
  BY DEF Deploy, DeleteStack, IInv, Types
<1>3. QED
  BY <1>1, <1>2 DEF FateInv

LEMMA MakePlanFate ==
  ASSUME IInv, FateInv, NEW p \in Plans, MakePlan(p)
  PROVE  /\ FateInv' /\ ~Made(p)
         /\ \A q \in Plans : sets[q] = "EXECUTED" => sets'[q] = "EXECUTED"
         /\ disturbed' = disturbed \ {p}
<1>1. /\ sets[p] = None /\ accepted = None /\ running = None
      /\ stack.status # "absent" => stack' = stack
      /\ sets' = [sets EXCEPT ![p] = "AVAILABLE"] /\ disturbed' = disturbed \ {p}
      /\ UNCHANGED <<accepted, running, late, records, run>>
  BY DEF MakePlan, Idle
<1>2. /\ plan'[p].id = stack'.id /\ plan'[p].status = stack'.status /\ plan'[p].rev = stack'.rev
      /\ \A q \in Plans : q # p => plan'[q] = plan[q] /\ sets'[q] = sets[q]
  BY <1>1 DEF MakePlan, IInv, Types
<1>3. ~Made(p)
  BY <1>1 DEF IInv, StackInv
<1>4. Fate(p)'
  BY <1>1, <1>2 DEF Fate, AtBase, Unchanged, SameStatusOnly
<1>5. ASSUME NEW q \in Plans, q # p, Made(q)', q \notin disturbed'
      PROVE  Fate(q)'
  <2>1. Made(q) /\ q \notin disturbed /\ Fate(q)
    BY <1>1, <1>2, <1>5 DEF FateInv, Made
  <2>2. CASE stack.status = "absent"
    <3>1. sets[q] = "EXECUTED"
      BY <1>1, <2>1, <2>2, BasesApart, StatusesApart, ApplyAssumption DEF Fate, None
    <3>2. QED
      BY <1>2, <1>5, <3>1 DEF Fate
  <2>3. CASE stack' = stack
    BY <1>1, <1>2, <1>5, <2>1, <2>3 DEF Fate, AtBase, Unchanged, SameStatusOnly
  <2>4. QED
    BY <1>1, <2>2, <2>3
<1>6. \A q \in Plans : sets[q] = "EXECUTED" => sets'[q] = "EXECUTED"
  BY <1>1, <1>2 DEF None
<1>7. QED
  BY <1>1, <1>3, <1>4, <1>5, <1>6 DEF FateInv

-----------------------------------------------------------------------------
(* A run reports APPLIED of a plan only when that is its fate.             *)

LEMMA EnvironmentApplied ==
  ASSUME AppliedInv, CloudFormation \/ Others
  PROVE  FateInv' /\ AppliedMeansExecuted'
<1> USE DEF AppliedInv
<1>1. run' = run /\ IInv
  BY DEF CloudFormation, Others, BeginExecution, Settle, ArriveLate, Deploy, DeleteStack, MakePlan
<1>2. ASSUME NEW o \in Operators, run[o].at \in {"wait", "applied"}
      PROVE  run[o].plan \in Plans /\ Made(run[o].plan)
  BY <1>2 DEF IInv, RunInv, FateInv
<1>3. ASSUME FateInv', \A q \in Plans : sets[q] = "EXECUTED" => sets'[q] = "EXECUTED",
             \A q \in Plans : Made(q) /\ q \notin disturbed' => q \notin disturbed
      PROVE  FateInv' /\ AppliedMeansExecuted'
  BY <1>1, <1>2, <1>3 DEF AppliedMeansExecuted
<1>4. CASE BeginExecution \/ Settle
  <2>1. disturbed \subseteq disturbed'
    BY <1>4 DEF BeginExecution, Settle
  <2>2. QED
    BY <1>3, <1>4, <2>1, BeginExecutionFate, SettleFate
<1>5. ASSUME NEW p \in Plans, ArriveLate(p)
      PROVE  FateInv' /\ AppliedMeansExecuted'
  <2>1. disturbed' = disturbed /\ plan' = plan
    BY <1>5 DEF ArriveLate, Accept
  <2>2. CASE Executable(p) /\ Accept(p)
    BY <1>1, <1>3, <2>1, <2>2, AcceptFate DEF FateInv
  <2>3. CASE UNCHANGED <<stack, accepted, running, sets, disturbed>>
    <3>1. FateInv'
      BY <1>1, <2>1, <2>3 DEF FateInv, Fate, Made, AtBase, Unchanged, SameStatusOnly
    <3>2. QED
      BY <1>3, <2>3, <3>1
  <2>4. QED
    BY <1>5, <2>2, <2>3 DEF ArriveLate
<1>6. CASE Deploy \/ DeleteStack
  <2>1. disturbed' = Plans
    BY <1>6 DEF Deploy, DeleteStack
  <2>2. QED
    BY <1>1, <1>2, <1>6, <2>1, OthersFate DEF AppliedMeansExecuted
<1>7. ASSUME NEW p \in Plans, MakePlan(p)
      PROVE  FateInv' /\ AppliedMeansExecuted'
  BY <1>3, <1>7, MakePlanFate
<1>8. QED
  BY <1>4, <1>5, <1>6, <1>7 DEF CloudFormation, Others

\* A step of one run that neither waits nor has waited.
LEMMA RunApplied ==
  ASSUME AppliedInv, NEW o \in Operators, UNCHANGED <<stack, accepted, running, sets, plan, disturbed>>,
         \A q \in Operators \ {o} : run'[q] = run[q],
         run'[o].at \in {"wait", "applied"} => run'[o].issued,
         run'[o].at = "applied" /\ run'[o].plan \notin disturbed => sets[run'[o].plan] = "EXECUTED"
  PROVE  FateInv' /\ AppliedMeansExecuted'
BY DEF AppliedInv, FateInv, Fate, Made, AtBase, Unchanged, SameStatusOnly, AppliedMeansExecuted

\* A run that counts a poll stays where it is.
LEMMA CountingAPoll ==
  ASSUME NEW rs \in [Operators -> Run], NEW o \in Operators, NEW spent, NEW fails, NEW new,
         new = [rs EXCEPT ![o].polls = spent, ![o].failures = fails]
  PROVE  /\ \A q \in Operators \ {o} : new[q] = rs[q]
         /\ new[o].at = rs[o].at /\ new[o].plan = rs[o].plan /\ new[o].issued = rs[o].issued
<1> DEFINE counted == [rs[o] EXCEPT !.polls = spent]
<1>1. new = [rs EXCEPT ![o] = [counted EXCEPT !.failures = fails]]
  OBVIOUS
<1>2. /\ \A q \in Operators \ {o} : new[q] = rs[q]
      /\ new[o] = [counted EXCEPT !.failures = fails]
  BY <1>1
<1>3. counted.at = rs[o].at /\ counted.plan = rs[o].plan /\ counted.issued = rs[o].issued
      /\ DOMAIN counted = DOMAIN rs[o]
  BY DEF Run
<1>4. {"at", "plan", "issued"} \subseteq DOMAIN rs[o]
  BY DEF Run
<1> HIDE DEF counted
<1>5. QED
  BY <1>2, <1>3, <1>4

LEMMA OperatorApplied ==
  ASSUME AppliedInv, NEW o \in Operators, Applying(o) \/ Confirm(o) \/ Refuse(o) \/ Crash(o)
  PROVE  FateInv' /\ AppliedMeansExecuted'
<1> USE DEF AppliedInv
<1>1. run \in [Operators -> Run] /\ run[o] \in Run
  BY DEF IInv, Types
<1>2. CASE \/ CheckChangeSet(o) \/ CheckStack(o) \/ RecordAttempt(o) \/ Confirm(o)
           \/ Refuse(o) \/ Crash(o) \/ \E p \in Plans : Begin(o, p)
  <2>1. /\ UNCHANGED <<stack, accepted, running, sets, plan, disturbed>>
        /\ \A q \in Operators \ {o} : run'[q] = run[q]
        /\ run'[o].at \notin {"wait", "applied"}
    <3> USE <1>1 DEF Goto, Run, aws
    <3>1. CASE CheckChangeSet(o) \/ CheckStack(o) \/ RecordAttempt(o)
      BY <3>1, ZenonT(40) DEF CheckChangeSet, CheckStack, AfterStackCheck, RecordAttempt
    <3>2. CASE Confirm(o)
      BY <3>2 DEF Confirm, AfterConfirm
    <3>3. CASE Refuse(o) \/ Crash(o)
      BY <3>3, ZenonT(40) DEF Refuse, Crash
    <3>4. ASSUME NEW p \in Plans, Begin(o, p)
          PROVE  /\ UNCHANGED <<stack, accepted, running, sets, plan, disturbed>>
                 /\ \A q \in Operators \ {o} : run'[q] = run[q]
                 /\ run'[o].at \notin {"wait", "applied"}
      <4>1. PICK at \in {"refused", "change set"} : run' = [run EXCEPT ![o].plan = p, ![o].at = at]
        BY <3>4 DEF Begin
      <4>2. QED
        BY <3>4, <4>1 DEF Begin
    <3>5. QED
      BY <1>2, <3>1, <3>2, <3>3, <3>4
  <2>2. QED
    BY <2>1, RunApplied
<1>3. CASE PollFails(o) \/ GiveUp(o)
  <2>1. /\ UNCHANGED <<stack, accepted, running, sets, plan, disturbed>>
        /\ \A q \in Operators \ {o} : run'[q] = run[q]
        /\ run[o].at = "wait" /\ run'[o].at \in {"wait", "apply_failed"} /\ run'[o].issued = run[o].issued
    <3>1. /\ UNCHANGED <<stack, accepted, running, sets, plan, disturbed>> /\ run[o].at = "wait"
          /\ \/ run' = [run EXCEPT ![o].at = "apply_failed"]
             \/ \E spent \in Spent(o) :
                  run' = [run EXCEPT ![o].polls = spent, ![o].failures = @ + 1]
      BY <1>3 DEF PollFails, GiveUp, Finish, aws
    <3>2. CASE run' = [run EXCEPT ![o].at = "apply_failed"]
      BY <1>1, <3>1, <3>2 DEF Run
    <3>3. CASE \E spent \in Spent(o) :
                 run' = [run EXCEPT ![o].polls = spent, ![o].failures = @ + 1]
      <4>1. PICK spent, fails : run' = [run EXCEPT ![o].polls = spent, ![o].failures = fails]
        BY <3>3
      <4>2. /\ \A q \in Operators \ {o} : run'[q] = run[q]
            /\ run'[o].at = run[o].at /\ run'[o].plan = run[o].plan
            /\ run'[o].issued = run[o].issued
        BY <1>1, <4>1, CountingAPoll
      <4>3. QED
        BY <3>1, <4>2
    <3>4. QED
      BY <3>1, <3>2, <3>3
  <2>2. QED
    BY <2>1, RunApplied DEF FateInv
<1>4. CASE Poll(o)
  <2>1. /\ UNCHANGED <<stack, accepted, running, sets, plan, disturbed>>
        /\ \A q \in Operators \ {o} : run'[q] = run[q]
        /\ run[o].at = "wait" /\ run'[o].plan = run[o].plan /\ run'[o].issued = run[o].issued
        /\ run'[o].at = "applied" => Progress(run[o].plan) = "succeeded"
    <3>1. /\ UNCHANGED <<stack, accepted, running, sets, plan, disturbed>> /\ run[o].at = "wait"
          /\ \/ \E at \in {"applied", "apply_failed"} :
                  /\ at = "applied" => Progress(run[o].plan) = "succeeded"
                  /\ run' = [run EXCEPT ![o].at = at]
             \/ \E spent \in Spent(o) :
                  run' = [run EXCEPT ![o].polls = spent, ![o].failures = 0]
      BY <1>4 DEF Poll, Finish, aws
    <3>2. CASE \E at \in {"applied", "apply_failed"} :
                 /\ at = "applied" => Progress(run[o].plan) = "succeeded"
                 /\ run' = [run EXCEPT ![o].at = at]
      BY <1>1, <3>1, <3>2, ZenonT(40) DEF Run
    <3>3. CASE \E spent \in Spent(o) : run' = [run EXCEPT ![o].polls = spent, ![o].failures = 0]
      <4>1. PICK spent, fails : run' = [run EXCEPT ![o].polls = spent, ![o].failures = fails]
        BY <3>3
      <4>2. /\ \A q \in Operators \ {o} : run'[q] = run[q]
            /\ run'[o].at = run[o].at /\ run'[o].plan = run[o].plan
            /\ run'[o].issued = run[o].issued
        BY <1>1, <4>1, CountingAPoll
      <4>3. QED
        BY <3>1, <4>2
    <3>4. QED
      BY <3>1, <3>2, <3>3
  <2>2. run[o].issued /\ run[o].plan \in Plans /\ Made(run[o].plan)
    BY <2>1 DEF FateInv, IInv, RunInv
  <2>3. ASSUME NEW p \in Plans, Made(p), p \notin disturbed, Progress(p) = "succeeded"
        PROVE  sets[p] = "EXECUTED"
    <3>1. Fate(p) /\ ~AtBase(p)
      BY <2>3 DEF FateInv, Progress, AtBase
    <3>2. stack.status = Success(plan[p].operation)
          /\ stack.status \notin {"CREATE_IN_PROGRESS", "UPDATE_IN_PROGRESS"}
      BY <2>3 DEF Progress, ProgressByStatus
    <3>3. QED
      BY <3>1, <3>2, StatusesApart DEF Fate
  <2>4. QED
    BY <2>1, <2>2, <2>3, RunApplied
<1>5. CASE Execute(o)
  <2>1. /\ \A q \in Operators \ {o} : run'[q] = run[q]
        /\ run'[o].at \in {"wait", "apply_failed"} /\ run'[o].issued = TRUE
        /\ run'[o].plan = run[o].plan /\ plan' = plan
    BY <1>1, <1>5 DEF Execute, Run
  <2>2. run[o].plan \in Plans
    BY <1>5 DEF Execute, IInv, RunInv, Before
  <2>3. CASE Executable(run[o].plan) /\ Accept(run[o].plan)
    <3>1. FateInv'
      BY <2>1, <2>2, <2>3, AcceptFate DEF FateInv
    <3>2. \A q \in Operators : run[q].at = "applied" => run[q].plan \in Plans
      BY DEF FateInv, IInv, RunInv
    <3>3. disturbed' = disturbed
      BY <2>3 DEF Accept
    <3>4. QED
      BY <2>1, <2>2, <2>3, <3>1, <3>2, <3>3, AcceptFate DEF AppliedMeansExecuted
  <2>4. CASE UNCHANGED <<stack, accepted, running, sets, disturbed>>
    BY <2>1, <2>4, RunApplied
  <2>5. QED
    BY <1>5, <2>3, <2>4 DEF Execute, aws
<1>6. QED
  BY <1>2, <1>3, <1>4, <1>5 DEF Applying

\* A run that ends APPLIED has applied its plan's change set, unless something else
\* changed the stack: whether the execute call was answered, lost or late
\* (waitForStack, stackProgress).
THEOREM AppliedIsTrue == Spec => []AppliedMeansExecuted
<1>1. Init => AppliedInv
  <2>1. ASSUME Init PROVE FateInv /\ AppliedMeansExecuted
    BY <2>1 DEF Init, FateInv, AppliedMeansExecuted, Made, NoRun
  <2>2. QED
    BY <2>1, InitIInv DEF AppliedInv
<1>2. AppliedInv /\ [Next]_vars => AppliedInv'
  <2>1. ASSUME AppliedInv, UNCHANGED vars PROVE FateInv' /\ AppliedMeansExecuted'
    BY <2>1 DEF vars, AppliedInv, FateInv, Fate, Made, AtBase, Unchanged, SameStatusOnly,
       AppliedMeansExecuted
  <2>2. QED
    BY <2>1, NextIInv, EnvironmentApplied, OperatorApplied DEF Next, AppliedInv
<1>3. AppliedInv => AppliedMeansExecuted
  BY DEF AppliedInv
<1>4. QED
  BY <1>1, <1>2, <1>3, PTL DEF Spec

=============================================================================
