------------------------------ MODULE AwsApply ------------------------------
(***************************************************************************)
(* `ssd-onboard aws apply': operators, each in a checkout, execute the     *)
(* reviewed change sets of one stack.  CloudFormation, other deployments   *)
(* of the stack and `aws plan' (by its result) are the environment.        *)
(*                                                                         *)
(* What only ever refuses and depends on no state here (the account, the   *)
(* region, the configuration digest, the framework checkout, the caller,   *)
(* the template, the destructive count, the typed words) is the one choice *)
(* Refuse.                                                                 *)
(***************************************************************************)
EXTENDS Naturals, FiniteSets

CONSTANTS Plans,      \* plans, by plan id
          Operators,  \* runs of `aws apply'
          Roots,      \* checkouts that hold a copy of every plan directory
          RootOf,     \* the checkout of each run
          MaxPolls,   \* the wait's budget, in polls
          MaxReadFailures,
          MaxIds,     \* bound on stacks that ever had the name
          MaxRev      \* bound on revisions of a stack

ASSUME ApplyAssumption ==
  /\ RootOf \in [Operators -> Roots] /\ "none" \notin Plans
  /\ MaxPolls \in Nat

VARIABLES stack,     \* what the name stands for: its id, status and LastUpdatedTime
          accepted,  \* the plan whose execution is accepted and has not begun, or None
          running,   \* the plan whose execution runs, or None
          late,      \* execute calls that are still on their way
          sets,      \* what became of each plan's change set
          plan,      \* each plan: its operation, stack id and base revision
          records,   \* <<root, plan, file>>: the apply records on disk
          run,       \* of each operator
          disturbed  \* history: plans since whose making something else changed the stack

vars == <<stack, accepted, running, late, sets, plan, records, run, disturbed>>
aws == <<stack, accepted, running, late, sets, disturbed>>

None == "none"
Live == {"CREATE_COMPLETE", "UPDATE_COMPLETE", "UPDATE_ROLLBACK_COMPLETE"}
Success(operation) == IF operation = "CREATE" THEN "CREATE_COMPLETE" ELSE "UPDATE_COMPLETE"
Failure(operation) == IF operation = "CREATE" THEN "ROLLBACK_COMPLETE" ELSE "UPDATE_ROLLBACK_COMPLETE"
InProgress(operation) == IF operation = "CREATE" THEN "CREATE_IN_PROGRESS" ELSE "UPDATE_IN_PROGRESS"

NoPlan == [operation |-> None, id |-> 0, status |-> None, rev |-> 0]
NoRun == [at |-> "idle", plan |-> None, round |-> 0, typed |-> NoPlan, issued |-> FALSE,
          polls |-> 0, failures |-> 0]
Ended == {"refused", "error", "applied", "apply_failed", "crashed"}

Init ==
  /\ stack \in {[id |-> 0, status |-> "absent", rev |-> 0],
                [id |-> 1, status |-> "UPDATE_COMPLETE", rev |-> 1]}
  /\ accepted = None /\ running = None /\ late = {}
  /\ sets = [p \in Plans |-> None] /\ plan = [p \in Plans |-> NoPlan]
  /\ records = {} /\ run = [o \in Operators |-> NoRun] /\ disturbed = {}

-----------------------------------------------------------------------------
(* The environment                                                         *)

Idle == accepted = None /\ running = None

\* `aws plan': a change set against the stack as it is.  Where there is none,
\* CloudFormation makes a placeholder; one that is there is planned on if it
\* carries the ownership tags.
MakePlan(p) ==
  /\ sets[p] = None /\ Idle
  /\ stack.status \in Live \cup {"absent", "REVIEW_IN_PROGRESS"}
  /\ stack.status = "absent" => stack.id < MaxIds
  /\ stack' = IF stack.status = "absent"
              THEN [id |-> stack.id + 1, status |-> "REVIEW_IN_PROGRESS", rev |-> 0]
              ELSE stack
  /\ plan' = [plan EXCEPT ![p] =
       [operation |-> IF stack.status \in Live THEN "UPDATE" ELSE "CREATE",
        id |-> stack'.id, status |-> stack'.status, rev |-> stack'.rev]]
  /\ sets' = [sets EXCEPT ![p] = "AVAILABLE"] /\ disturbed' = disturbed \ {p}
  /\ UNCHANGED <<accepted, running, late, records, run>>

Executable(p) == sets[p] = "AVAILABLE" /\ plan[p].id = stack.id /\ Idle

\* Executing a change set removes the stack's other ones.
Accept(p) ==
  /\ accepted' = p
  /\ sets' = [q \in Plans |-> IF q = p THEN "EXECUTING"
                              ELSE IF sets[q] = "AVAILABLE" THEN "GONE" ELSE sets[q]]
  /\ UNCHANGED <<stack, running, disturbed>>

ArriveLate(p) ==
  /\ p \in late /\ late' = late \ {p}
  /\ IF Executable(p) THEN Accept(p) ELSE UNCHANGED <<stack, accepted, running, sets, disturbed>>
  /\ UNCHANGED <<plan, records, run>>

BeginExecution ==
  /\ accepted # None /\ stack.rev < MaxRev
  /\ running' = accepted /\ accepted' = None
  /\ stack' = [stack EXCEPT !.status = InProgress(plan[accepted].operation), !.rev = @ + 1]
  /\ disturbed' = disturbed \cup (Plans \ {accepted})
  /\ UNCHANGED <<late, sets, plan, records, run>>

Settle ==
  /\ running # None /\ running' = None
  /\ \/ /\ stack' = [stack EXCEPT !.status = Success(plan[running].operation)]
        /\ sets' = [sets EXCEPT ![running] = "EXECUTED"]
     \/ /\ stack' = [stack EXCEPT !.status = Failure(plan[running].operation)]
        /\ sets' = [sets EXCEPT ![running] = "FAILED"]
  /\ UNCHANGED <<accepted, late, plan, records, run, disturbed>>

\* Another deployment of the stack, which leaves change sets AVAILABLE, and the
\* deletion of the stack, which does not.
Deploy ==
  /\ Idle /\ stack.status \in Live /\ stack.rev < MaxRev
  /\ stack' = [stack EXCEPT !.status = "UPDATE_COMPLETE", !.rev = @ + 1]
  /\ disturbed' = Plans
  /\ UNCHANGED <<accepted, running, late, sets, plan, records, run>>

DeleteStack ==
  /\ Idle /\ stack.status # "absent"
  /\ stack' = [stack EXCEPT !.status = "absent", !.rev = 0]
  /\ disturbed' = Plans
  /\ sets' = [p \in Plans |-> IF sets[p] = "AVAILABLE" THEN "GONE" ELSE sets[p]]
  /\ UNCHANGED <<accepted, running, late, plan, records, run>>

-----------------------------------------------------------------------------
(* One run of `aws apply'                                                  *)

Goto(o, at) == run' = [run EXCEPT ![o].at = at]

\* Steps 1 to 4: the plan directory, without an apply record.
Begin(o, p) ==
  /\ run[o].at = "idle" /\ plan[p] # NoPlan
  /\ run' = [run EXCEPT ![o].plan = p,
               ![o].at = IF \E f \in {"apply-started.json", "apply.json"} :
                              <<RootOf[o], p, f>> \in records
                         THEN "refused" ELSE "change set"]
  /\ UNCHANGED <<aws, plan, records>>

\* verifyLive, once before the confirmation (round 0) and once after (round 1).
CheckChangeSet(o) ==
  /\ run[o].at = "change set"
  /\ Goto(o, IF sets[run[o].plan] = "AVAILABLE" THEN "stack" ELSE "refused")
  /\ UNCHANGED <<aws, plan, records>>

SameStatusOnly(p) == stack.id = plan[p].id /\ stack.status = plan[p].status
Unchanged(p) == SameStatusOnly(p) /\ stack.rev = plan[p].rev

AfterStackCheck(o) == IF run[o].round = 0 THEN "confirm" ELSE "record"

CheckStack(o) ==
  /\ run[o].at = "stack"
  /\ Goto(o, IF Unchanged(run[o].plan) THEN AfterStackCheck(o) ELSE "refused")
  /\ UNCHANGED <<aws, plan, records>>

\* The operator types the account and the region, however long that takes; with
\* --yes the second round follows all the same.
RecordAfterConfirm == "record"
AfterConfirm == "change set"

Confirm(o) ==
  /\ run[o].at = "confirm"
  /\ run' = [run EXCEPT ![o].at = AfterConfirm, ![o].round = 1,
               ![o].typed = [NoPlan EXCEPT !.id = stack.id, !.status = stack.status, !.rev = stack.rev]]
  /\ UNCHANGED <<aws, plan, records>>

\* A refusal that depends on nothing modelled, or a failed call, before step 7.
Refuse(o) ==
  /\ run[o].at \in {"idle", "change set", "stack", "confirm"}
  /\ \E at \in {"refused", "error"} : Goto(o, at)
  /\ UNCHANGED <<aws, plan, records>>

\* Step 7: the record is written exclusively, or the run throws.
RecordSlotOverwritable(o) == TRUE
RecordSlotFree(o) == <<RootOf[o], run[o].plan, "apply-started.json">> \notin records

RecordAttempt(o) ==
  /\ run[o].at = "record"
  /\ IF RecordSlotFree(o)
     THEN /\ records' = records \cup {<<RootOf[o], run[o].plan, "apply-started.json">>}
          /\ Goto(o, "execute")
     ELSE Goto(o, "error") /\ UNCHANGED records
  /\ UNCHANGED <<aws, plan>>

\* The end of a run that executed: apply.json is written unless that fails.
Finish(o, outcome) ==
  /\ run' = [run EXCEPT ![o].at = outcome]
  /\ \E written \in BOOLEAN :
       records' = IF written THEN records \cup {<<RootOf[o], run[o].plan, "apply.json">>} ELSE records

\* execute-change-set, at most once.  An answered rejection, for whatever
\* reason, ends the run; after a call that was not answered the run waits, whether the call arrived, is
\* lost, or arrives late.
Execute(o) ==
  LET p == run[o].plan
      wait == run' = [run EXCEPT ![o].at = "wait", ![o].issued = TRUE] /\ UNCHANGED records IN
  /\ run[o].at = "execute"
  /\ \/ Executable(p) /\ Accept(p) /\ wait /\ UNCHANGED late
     \/ /\ run' = [run EXCEPT ![o].at = "apply_failed", ![o].issued = TRUE]
        /\ \E f \in {{}, {<<RootOf[o], p, "apply.json">>}} : records' = records \cup f
        /\ UNCHANGED aws
     \/ wait /\ \E calls \in {{}, {p}} : late' = late \cup calls
        /\ UNCHANGED <<stack, accepted, running, sets, disturbed>>
  /\ UNCHANGED plan

\* stackProgress over describe-stacks by the recorded stack id.
ProgressByStatus(p) ==
  IF stack.id # plan[p].id \/ stack.status = "absent" THEN "failed"
  ELSE IF stack.status \in {"REVIEW_IN_PROGRESS", "CREATE_IN_PROGRESS", "UPDATE_IN_PROGRESS"} THEN "waiting"
  ELSE IF stack.status = Success(plan[p].operation) THEN "succeeded" ELSE "failed"

Progress(p) == IF Unchanged(p) THEN "waiting" ELSE ProgressByStatus(p)

\* What a poll uses of the wait's budget: one of its polls, or more in time.
SpentInCycles(o) == {(run[o].polls + 1) % MaxPolls}
Spent(o) == run[o].polls + 1 .. MaxPolls

\* Step 8: one describe-stacks of waitForStack.
Poll(o) ==
  LET progress == Progress(run[o].plan) IN
  /\ run[o].at = "wait" /\ run[o].polls < MaxPolls
  /\ \/ progress = "succeeded" /\ Finish(o, "applied")
     \/ progress = "failed" /\ Finish(o, "apply_failed")
     \/ /\ progress = "waiting" /\ UNCHANGED records
        /\ \E spent \in Spent(o) : run' = [run EXCEPT ![o].polls = spent, ![o].failures = 0]
  /\ UNCHANGED <<aws, plan>>

\* A describe-stacks that fails: tolerated, unless it is one too many or of a
\* kind that ends the wait.
PollFails(o) ==
  /\ run[o].at = "wait" /\ run[o].polls < MaxPolls
  /\ \/ Finish(o, "apply_failed")
     \/ /\ run[o].failures + 1 < MaxReadFailures /\ UNCHANGED records
        /\ \E spent \in Spent(o) : run' = [run EXCEPT ![o].polls = spent, ![o].failures = @ + 1]
  /\ UNCHANGED <<aws, plan>>

\* The wait's time or its polls are used up.
GiveUp(o) ==
  /\ run[o].at = "wait" /\ run[o].polls = MaxPolls /\ Finish(o, "apply_failed")
  /\ UNCHANGED <<aws, plan>>

Crash(o) ==
  /\ run[o].at \notin Ended \cup {"idle"} /\ Goto(o, "crashed")
  /\ UNCHANGED <<aws, plan, records>>

Applying(o) ==
  \/ \E p \in Plans : Begin(o, p)
  \/ CheckChangeSet(o) \/ CheckStack(o) \/ RecordAttempt(o) \/ Execute(o)
  \/ Poll(o) \/ PollFails(o) \/ GiveUp(o)

CloudFormation == BeginExecution \/ Settle \/ \E p \in Plans : ArriveLate(p)
Others == Deploy \/ DeleteStack \/ \E p \in Plans : MakePlan(p)

Next ==
  \/ \E o \in Operators : Applying(o) \/ Confirm(o) \/ Refuse(o) \/ Crash(o)
  \/ CloudFormation
  \/ Others

\* A process that runs goes on; nobody has to type, deploy or plan.
Fairness == \A o \in Operators : WF_vars(Applying(o))

Spec == Init /\ [][Next]_vars /\ Fairness

-----------------------------------------------------------------------------
TypeOK ==
  /\ stack \in [id : 0 .. MaxIds, rev : 0 .. MaxRev,
                status : Live \cup {"absent", "REVIEW_IN_PROGRESS", "CREATE_IN_PROGRESS",
                                    "UPDATE_IN_PROGRESS", "ROLLBACK_COMPLETE"}]
  /\ accepted \in Plans \cup {None} /\ running \in Plans \cup {None} /\ late \subseteq Plans
  /\ sets \in [Plans -> {None, "AVAILABLE", "EXECUTING", "EXECUTED", "FAILED", "GONE"}]
  /\ records \subseteq Roots \X Plans \X {"apply-started.json", "apply.json"}
  /\ \A o \in Operators :
       /\ run[o].at \in Ended \cup {"idle", "change set", "stack", "confirm", "record", "execute", "wait"}
       /\ run[o].polls \in 0 .. MaxPolls /\ run[o].failures \in 0 .. MaxReadFailures

\* `A plan is executed at most once': of the runs in one checkout, whenever they
\* start and crash, one issues execute-change-set for a plan, and it has left
\* its record first.
AttemptedOnce ==
  \A o \in Operators : run[o].issued =>
    /\ <<RootOf[o], run[o].plan, "apply-started.json">> \in records
    /\ \A q \in Operators :
         run[q].issued /\ run[q].plan = run[o].plan /\ RootOf[q] = RootOf[o] => q = o

\* `The time spent typing is not a window': an execution that is issued was
\* confirmed while the stack still was the reviewed base revision, whatever was
\* deployed between the first check and the typing.
TypedOnReviewedBase ==
  \A o \in Operators : run[o].issued =>
    LET p == plan[run[o].plan] IN
    /\ run[o].typed.id = p.id /\ run[o].typed.status = p.status /\ run[o].typed.rev = p.rev

\* A run that ends APPLIED has applied the change set of its plan, unless
\* something else changed the stack since the plan was made: also when the
\* execute call was not answered, and was lost or late.
AppliedMeansExecuted ==
  \A o \in Operators : run[o].at = "applied" /\ run[o].plan \notin disturbed =>
    sets[run[o].plan] = "EXECUTED"

\* `Success is never claimed without seeing it', whatever else happens.
AppliedIsAlwaysSeen ==
  \A o \in Operators : run[o].at = "applied" => sets[run[o].plan] = "EXECUTED"

\* A run that has issued its execution ends, whatever the stack does.
AppliesEnd == \A o \in Operators : run[o].at = "wait" ~> run[o].at \in Ended

=============================================================================
