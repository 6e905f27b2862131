------------------------- MODULE WorkflowRunProofs --------------------------
(***************************************************************************)
(* The workflow run, for any callers' setups, findings, windows, numbers   *)
(* of attempts and of faults: what a green final gate rests on, who may    *)
(* hold credentials, and that the broker's side is RequestLifecycle.       *)
(*                                                                         *)
(* The argument: a request, once filed, keeps its gate, and once decided   *)
(* its status; so what the review and the delegated job's outputs say of   *)
(* it stays true, however many re-runs read those outputs later.           *)
(***************************************************************************)
EXTENDS WorkflowRun, TLAPS

-----------------------------------------------------------------------------
(* Types.                                                                  *)

Phases == {"scan", "evaluate", "review", "enforce", "delegated", "final", "done"}
Outcomes == {"skipped", "success", "failure", "cancelled"}
Pcs == {"off", "preflight", "assume", "request", "start", "poll", "fetch", "sleep",
        "exit", "result"}
Routes == {Nothing, "http", "production", "synthetic"}
Statuses == {"absent", "pending", "processing", "approved", "denied", "expired"}

Gates == [made : Attempts, blocked : SUBSET Rules, marked : SUBSET Rules,
          failed : Controls \cup {"source-gate", Nothing},
          bootstrap : BOOLEAN, synthetic : BOOLEAN]
Evidence == Gates \cup {Nothing}

Reviews == [pc : Pcs, place : {"in-job", "delegated"}, gate : Evidence, route : Routes,
            preflight : {"none", "accepted", "refused", "error"},
            requested : Outcomes, polled : Outcomes,
            decision : {Nothing, "approved", "denied", "expired", "timeout"},
            cancelled : BOOLEAN, left : Nat, nap : Nat]

Requests == [status : Statuses, decision : {Nothing, "approve", "deny"},
             gate : Evidence, route : Routes, left : Nat]

TypeOK ==
  /\ setup \in Setups
  /\ attempt \in Attempts /\ phase \in Phases
  /\ scans \in [Controls -> ScanResults \cup {"skipped"}]
  /\ gate \in Evidence /\ sound \in BOOLEAN
  /\ review \in Reviews
  /\ uploaded \subseteq Gates
  /\ broker \in [Attempts -> Requests]
  /\ faults \in Nat

-----------------------------------------------------------------------------
(* The inductive invariant.                                                *)

\* What the jobs before the current one have left, and those after have not touched.
InSource == phase \in {"scan", "evaluate", "enforce"} \/ (phase = "review" /\ review.place = "in-job")

StageInv ==
  /\ phase # "scan" => scans \in [Controls -> {"success", "failure", "cancelled"}]
  /\ phase \in {"scan", "evaluate"} => gate = Nothing
  /\ InSource => src = NoSource
  /\ phase \notin {"final", "done"} => bg = NoReview
  /\ final = IF phase = "done" THEN SourceOutcome(src, bg) ELSE Blocked
  /\ phase \notin {"review", "enforce"} => review = Idle
  /\ phase = "enforce" => review.place = "in-job"
  /\ phase = "review" => review.pc # "off"
  /\ review.place = "delegated" => src.delegated

\* Every gate about is of this run, and was only made where nothing was refused.
Genuine(g) ==
  /\ g \in Gates /\ g.made <= attempt
  /\ g.bootstrap = setup.bootstrap /\ g.synthetic = setup.synthetic /\ ~Refused

GateInv ==
  /\ \A g \in uploaded : Genuine(g)
  /\ \A g \in {gate, review.gate} : g = Nothing \/ Genuine(g)
  /\ review.pc # "off" /\ review.place = "in-job" =>
       InJob(setup) /\ review.gate = gate /\ Genuine(gate) /\ gate.made = attempt

\* Either the source workflow has no outputs, or they are those of its gate; and
\* success despite a BLOCK was bought by an approval.
Earned ==
  /\ \A c \in Controls : scans[c] = "success"
  /\ \/ setup.mode = "log-only" \/ PublishedVerdict # "BLOCK"
     \/ gate \in Gates /\ Backs(broker[gate.made], gate)

Published(s) ==
  /\ s.digest = gate /\ s.verdict = PublishedVerdict /\ s.mode = setup.mode
  /\ s.trusted = (gate # Nothing /\ Trusted(gate))
  /\ s.eligible = (gate # Nothing /\ MarkedEligible(gate))
  /\ s.delegated = (DelegateLambda(setup) /\ gate # Nothing /\ Trusted(gate)
                    /\ MarkedEligible(gate))
  /\ s.controls = [c \in Controls |-> ControlResult(scans[c], gate, c)]
  /\ s.result = "success" => Earned

Unpublished(s) == s.result # "success" /\ s.verdict = Nothing /\ s.delegated = FALSE

SourceInv == Unpublished(src) \/ Published(src)

\* A filed request.
Filing(r) ==
  /\ setup.mode # "log-only"
  /\ Genuine(r.gate) /\ Overridable(r.gate)
  /\ r.route # "http" => \E x \in roles : x.gate = r.gate

Unfiled == broker[attempt].status = "absent"

RequestInv ==
  \A a \in Attempts :
    IF broker[a].status = "absent" THEN broker[a] = Absent
    ELSE a <= attempt /\ Filing(broker[a])

UnfiledInv ==
  /\ phase \in {"scan", "evaluate"} => Unfiled
  /\ phase \in {"enforce", "delegated"} /\ DelegateLambda(setup) => Unfiled
  /\ review.pc \in {"preflight", "assume", "request"} => Unfiled

RoleInv ==
  \A x \in roles :
    /\ Genuine(x.gate) /\ Overridable(x.gate)
    /\ (x.function = setup.function["production"]) = ~x.gate.synthetic
    /\ (x.role = setup.role["production"]) = ~x.gate.synthetic
    /\ x.gate.synthetic /\ DelegateLambda(setup) =>
         x.function.name # setup.function["production"].name

\* What the review's steps and files say.
Accepted ==
  /\ Genuine(review.gate) /\ Overridable(review.gate)
  /\ setup.mode # "log-only"
  /\ review.route = RouteFor(review, setup) /\ review.route # Nothing
  /\ review.place = "delegated" => review.gate = src.digest

Polling == {"start", "poll", "fetch", "sleep", "exit"}

ReviewInv ==
  /\ review.pc \in Polling \cup {"assume", "request"} => review.preflight = "accepted"
  /\ review.preflight = "accepted" => Accepted
  /\ review.pc = "assume" => setup.transport # "http"
  /\ review.pc \in {"request"} \cup Polling /\ review.route # "http" =>
       \E x \in roles : x.gate = review.gate
  /\ review.pc \in Polling => review.requested = "success"
  /\ review.requested = "success" =>
       /\ review.preflight = "accepted"
       /\ broker[attempt].status # "absent" /\ broker[attempt].gate = review.gate
  /\ review.decision \in {"approved", "denied", "expired"} =>
       review.requested = "success" /\ broker[attempt].status = review.decision
  /\ review.polled = "success" => review.decision = "approved" /\ review.pc = "result"

\* The delegated job's outputs, of this attempt or of an earlier one.
ResultInv ==
  /\ bg.status \in {"approved", "denied", "expired"} =>
       /\ bg.ran \in Attempts
       /\ broker[bg.ran].status = bg.status /\ broker[bg.ran].gate = bg.digest
  /\ bg.result = "success" => bg.status = "approved"

RunInv == TypeOK /\ StageInv /\ GateInv /\ SourceInv /\ RequestInv /\ UnfiledInv
          /\ RoleInv /\ ReviewInv /\ ResultInv

-----------------------------------------------------------------------------
(* Type correctness.                                                       *)

LEMMA SetupFacts ==
  ASSUME NEW s \in Setups
  PROVE  /\ s.variant \in {"scan", "legacy"} /\ s.transport \in {"lambda", "http"}
         /\ s.bootstrap \in BOOLEAN /\ s.synthetic \in BOOLEAN
BY SetupsAssumption

LEMMA GateFacts ==
  ASSUME NEW g \in Gates
  PROVE  /\ g.made \in Attempts /\ g.blocked \subseteq Rules /\ g.marked \subseteq Rules
         /\ g.failed \in Controls \cup {"source-gate", Nothing}
         /\ g.bootstrap \in BOOLEAN /\ g.synthetic \in BOOLEAN
BY DEF Gates

LEMMA IdleFacts ==
  /\ Idle \in Reviews
  /\ Idle.pc = "off" /\ Idle.place = "in-job" /\ Idle.gate = Nothing
  /\ Idle.preflight = "none" /\ Idle.requested = "skipped" /\ Idle.polled = "skipped"
  /\ Idle.decision = Nothing /\ Idle.cancelled = FALSE /\ Idle.left = 0 /\ Idle.nap = 0
BY DEF Idle, Reviews, Pcs, Evidence, Routes, Outcomes

LEMMA ReviewFacts ==
  ASSUME NEW r \in Reviews
  PROVE  /\ r.pc \in Pcs /\ r.place \in {"in-job", "delegated"} /\ r.gate \in Evidence
         /\ r.route \in Routes /\ r.preflight \in {"none", "accepted", "refused", "error"}
         /\ r.requested \in Outcomes /\ r.polled \in Outcomes
         /\ r.decision \in {Nothing, "approved", "denied", "expired", "timeout"}
         /\ r.cancelled \in BOOLEAN /\ r.left \in Nat /\ r.nap \in Nat
BY DEF Reviews

LEMMA InitType == Init => TypeOK
<1> SUFFICES ASSUME Init PROVE TypeOK
  OBVIOUS
<1>1. Absent \in Requests
  BY DEF Absent, Requests, Statuses, Evidence, Routes
<1>2. QED
  BY <1>1, IdleFacts, WorkflowRunAssumption DEF Init, TypeOK, Attempts, Phases, Evidence

LEMMA NewGates ==
  ASSUME TypeOK
  PROVE  /\ \A b \in Blocks, m \in Markings : Evaluation(attempt, b, m, setup) \in Gates
         /\ \A c \in Controls \cup {"source-gate"} : Distrust(attempt, c, setup) \in Gates
BY WorkflowRunAssumption, SetupFacts DEF TypeOK, Evaluation, Distrust, Gates, Rules

LEMMA RouteType ==
  ASSUME NEW rv, NEW s
  PROVE  RouteFor(rv, s) \in Routes
BY DEF RouteFor, InJobRoute, Route, Routes

LEMMA ClampType == Timeout \in Nat /\ Interval \in Nat /\ Clamp(Timeout) \in Nat
BY WorkflowRunAssumption DEF Clamp

LEMMA SourceType == TypeOK /\ SourceJobs => TypeOK'
<1> USE DEF TypeOK
<1>1. ASSUME TypeOK, Scan PROVE TypeOK'
  BY <1>1 DEF Scan, Phases
<1>2. ASSUME TypeOK, EvaluateNothing PROVE TypeOK'
  <2>1. faults' \in Nat
    BY <1>2 DEF EvaluateNothing, NoFault, Fault
  <2>2. sound' \in BOOLEAN
    BY <1>2 DEF EvaluateNothing
  <2>3. QED
    BY <1>2, <2>1, <2>2 DEF EvaluateNothing, Phases, Evidence
<1>3. ASSUME TypeOK, Evaluate PROVE TypeOK'
  <2>1. gate' \in Gates
    BY <1>3, NewGates DEF Evaluate
  <2>2. [Idle EXCEPT !.pc = "preflight", !.gate = gate'] \in Reviews
    BY <2>1, IdleFacts DEF Reviews, Pcs, Evidence
  <2>3. QED
    BY <1>3, <2>1, <2>2 DEF Evaluate, Phases, Evidence
<1>4. ASSUME TypeOK, Enforce PROVE TypeOK'
  <2>1. uploaded' \subseteq Gates /\ faults' \in Nat
    BY <1>4 DEF Enforce, Upload, Fault, NoFault, Evidence
  <2>2. QED
    BY <1>4, <2>1, IdleFacts DEF Enforce, Phases
<1>5. QED
  BY <1>1, <1>2, <1>3, <1>4 DEF SourceJobs

LEMMA ReviewStepType == TypeOK /\ (ReviewSteps \/ Cancel) => TypeOK'
<1> USE DEF TypeOK
<1>1. ASSUME TypeOK, StartDelegated PROVE TypeOK'
  <2>1. ASSUME NEW e \in uploaded \cup {Nothing}
        PROVE  [Idle EXCEPT !.pc = "preflight", !.place = "delegated", !.gate = e] \in Reviews
    BY <1>1, <2>1, IdleFacts DEF Reviews, Pcs, Evidence
  <2>2. QED
    BY <1>1, <2>1 DEF StartDelegated, Phases
<1>2. ASSUME TypeOK, Examine PROVE TypeOK'
  <2>1. Preflight(review.gate, src.digest, setup) \in {"accepted", "refused", "error"}
        /\ InJobCheck(review.gate, setup) \in {"accepted", "refused"}
    BY DEF Preflight, InJobCheck
  <2>2. review' \in Reviews
    BY <1>2, <2>1, RouteType DEF Examine, Reviews, Stop, Pcs
  <2>3. QED
    BY <1>2, <2>2 DEF Examine, OnlyReview, NoFault
<1>3. ASSUME TypeOK, AssumeRole PROVE TypeOK'
  BY <1>3 DEF AssumeRole, NoFault, Fault, Stop, Reviews, Pcs
<1>4. ASSUME TypeOK, Request PROVE TypeOK'
  <2>1. Filed \in Requests
    BY <1>4, ClampType, ReviewFacts DEF Filed, Requests, Statuses
  <2>2. review' \in Reviews
    BY <1>4, ZenonT(40) DEF Request, Stop, Reviews, Pcs, Outcomes
  <2>3. QED
    BY <1>4, <2>1, <2>2 DEF Request, NoFault, Fault
<1>5. ASSUME TypeOK, StartPoll PROVE TypeOK'
  BY <1>5, ClampType DEF StartPoll, OnlyReview, NoFault, Reviews, Pcs
<1>6. ASSUME TypeOK, CheckDeadline PROVE TypeOK'
  BY <1>6 DEF CheckDeadline, OnlyReview, NoFault, Reviews, Pcs
<1>7. ASSUME TypeOK, FetchStatus PROVE TypeOK'
  <2>1. \A t \in Statuses : Answered(t) \in Reviews
    BY <1>7, ClampType DEF Answered, Reviews, Pcs
  <2>2. broker[attempt].status \in Statuses
    BY <1>7 DEF Requests
  <2>3. review' \in Reviews
    <3>1. [Stop EXCEPT !.polled = "failure"] \in Reviews
      BY <1>7 DEF Stop, Reviews, Pcs, Outcomes
    <3>2. QED
      BY <1>7, <2>1, <2>2, <3>1 DEF FetchStatus, Statuses
  <2>4. broker' \in [Attempts -> Requests]
    BY <1>7 DEF FetchStatus, Requests, Statuses
  <2>5. QED
    BY <1>7, <2>3, <2>4 DEF FetchStatus, NoFault, Fault
<1>8. ASSUME TypeOK, Wake PROVE TypeOK'
  BY <1>8 DEF Wake, OnlyReview, NoFault, Reviews, Pcs
<1>9. ASSUME TypeOK, ExitPoll PROVE TypeOK'
  BY <1>9, ZenonT(40) DEF ExitPoll, OnlyReview, NoFault, Stop, Reviews, Pcs, Outcomes
<1>10. ASSUME TypeOK, EndInJob PROVE TypeOK'
  BY <1>10 DEF EndInJob, Phases
<1>11. ASSUME TypeOK, EndDelegated PROVE TypeOK'
  BY <1>11, IdleFacts DEF EndDelegated, Phases, NoFault, Fault
<1>12. ASSUME TypeOK, Cancel PROVE TypeOK'
  <2>1. ASSUME NEW o \in Outcomes, NEW p \in Outcomes
        PROVE  [Stop EXCEPT !.cancelled = TRUE, !.requested = o, !.polled = p] \in Reviews
    BY <1>12 DEF Stop, Reviews, Pcs
  <2>2. \E o \in Outcomes, p \in Outcomes :
          review' = [Stop EXCEPT !.cancelled = TRUE, !.requested = o, !.polled = p]
    BY <1>12, ReviewFacts DEF Cancel, Outcomes, Stop, Reviews
  <2>3. review' \in Reviews
    BY <2>1, <2>2
  <2>4. QED
    BY <1>12, <2>3 DEF Cancel, OnlyReview, Fault
<1>13. QED
  BY <1>1, <1>2, <1>3, <1>4, <1>5, <1>6, <1>7, <1>8, <1>9, <1>10, <1>11, <1>12 DEF ReviewSteps

LEMMA OtherType ==
  ASSUME TypeOK,
         \/ LoseSource \/ FinalGate \/ Tick
         \/ \E from \in {"scan", "delegated", "final"} : Rerun(from)
         \/ \E a \in Attempts : Finalize(a) \/ \E d \in {"approve", "deny"} : Decide(a, d)
  PROVE  TypeOK'
<1> USE DEF TypeOK
<1>1. CASE LoseSource
  BY <1>1, IdleFacts DEF LoseSource, Phases, Fault
<1>2. CASE FinalGate
  BY <1>2 DEF FinalGate, Phases
<1>3. CASE Tick
  <2>1. \A n \in Nat : Less(n) \in Nat
    BY DEF Less
  <2>2. review' \in Reviews
    BY <1>3, <2>1 DEF Tick, Reviews
  <2>3. broker' \in [Attempts -> Requests]
    BY <1>3, <2>1 DEF Tick, Requests
  <2>4. QED
    BY <1>3, <2>2, <2>3 DEF Tick
<1>4. ASSUME NEW from \in {"scan", "delegated", "final"}, Rerun(from) PROVE TypeOK'
  <2>1. attempt' \in Attempts /\ phase' \in Phases
    BY <1>4, WorkflowRunAssumption DEF Rerun, Phases, Attempts
  <2>2. gate' \in Evidence /\ sound' \in BOOLEAN
    BY <1>4 DEF Rerun, Evidence
  <2>3. QED
    BY <1>4, <2>1, <2>2, IdleFacts DEF Rerun
<1>5. ASSUME NEW a \in Attempts, NEW d \in {"approve", "deny"}, Finalize(a) \/ Decide(a, d)
      PROVE  TypeOK'
  BY <1>5 DEF Finalize, Decide, OnlyBroker, Finalized, Requests, Statuses
<1>6. QED
  BY <1>1, <1>2, <1>3, <1>4, <1>5

-----------------------------------------------------------------------------
(* What each step of the review leaves in it.                              *)

\* The review goes on, for the same gate in the same place.
Continues ==
  /\ phase = "review" /\ review'.pc # "off"
  /\ review'.place = review.place /\ review'.gate = review.gate

SameFiles ==
  /\ review'.requested = review.requested /\ review'.polled = review.polled
  /\ review'.decision = review.decision

SameRoute == review'.preflight = review.preflight /\ review'.route = review.route

LEMMA ExamineEffect ==
  ASSUME TypeOK, Examine
  PROVE  /\ Continues /\ SameFiles /\ review.pc = "preflight"
         /\ \/ /\ review'.pc = "result" /\ review'.preflight # "accepted"
            \/ /\ review'.preflight = "accepted" /\ review'.route = RouteFor(review, setup)
               /\ review'.pc = IF setup.transport = "http" THEN "request" ELSE "assume"
               /\ IF review.place = "delegated"
                  THEN Preflight(review.gate, src.digest, setup) = "accepted"
                  ELSE InJobCheck(review.gate, setup) = "accepted"
<1> DEFINE code == IF review.place = "delegated" THEN Preflight(review.gate, src.digest, setup)
                   ELSE InJobCheck(review.gate, setup)
<1>1. phase = "review" /\ review.pc = "preflight" /\ review \in Reviews
  BY DEF Examine, ReviewStep, TypeOK
<1>2. CASE code = "accepted"
  <2>1. review' = [review EXCEPT !.preflight = "accepted", !.route = RouteFor(review, setup),
                     !.pc = IF setup.transport = "http" THEN "request" ELSE "assume"]
    BY <1>2 DEF Examine
  <2> HIDE DEF code
  <2>2. /\ Continues /\ SameFiles /\ review'.preflight = "accepted"
        /\ review'.route = RouteFor(review, setup)
        /\ review'.pc = IF setup.transport = "http" THEN "request" ELSE "assume"
    BY <1>1, <2>1 DEF Reviews, Continues, SameFiles
  <2>3. QED
    BY <1>1, <1>2, <2>2 DEF code
<1>3. CASE code # "accepted"
  <2>1. review' = [Stop EXCEPT !.preflight = code]
    BY <1>3 DEF Examine
  <2> HIDE DEF code
  <2>2. Continues /\ SameFiles /\ review'.preflight = code /\ review'.pc = "result"
    BY <1>1, <2>1 DEF Reviews, Continues, SameFiles, Stop
  <2>3. QED
    BY <1>1, <1>3, <2>2
<1>4. QED
  BY <1>2, <1>3

LEMMA StopEffect ==
  ASSUME TypeOK, phase = "review", review' = Stop
  PROVE  Continues /\ SameFiles /\ SameRoute /\ review'.pc = "result"
BY DEF TypeOK, Reviews, Stop, Continues, SameFiles, SameRoute

LEMMA AssumeRoleEffect ==
  ASSUME TypeOK, AssumeRole
  PROVE  /\ Continues /\ SameFiles /\ SameRoute /\ review.pc = "assume"
         /\ \/ review'.pc = "request" /\ roles' = roles \cup {[gate |-> review.gate,
                                            function |-> setup.function[review.route],
                                            role |-> setup.role[review.route]]}
            \/ review'.pc = "result" /\ roles' = roles
BY DEF TypeOK, Reviews, Stop, Continues, SameFiles, SameRoute, AssumeRole, ReviewStep

LEMMA RequestEffect ==
  ASSUME TypeOK, Request
  PROVE  /\ Continues /\ SameRoute /\ review.pc = "request"
         /\ review'.polled = review.polled /\ review'.decision = review.decision
         /\ \/ /\ review'.pc = "start" /\ review'.requested = "success"
               /\ broker' = [broker EXCEPT ![attempt] = Filed]
            \/ /\ review'.pc = "result" /\ review'.requested = "failure"
               /\ broker' = broker \/ broker' = [broker EXCEPT ![attempt] = Filed]
BY DEF TypeOK, Reviews, Stop, Continues, SameRoute, Request, ReviewStep

\* StartPoll and Wake only move on, towards the next status call.
LEMMA MoveEffect ==
  ASSUME TypeOK, StartPoll \/ Wake
  PROVE  /\ Continues /\ SameRoute /\ SameFiles
         /\ review.pc \in {"start", "sleep"} /\ review'.pc = "poll"
BY DEF TypeOK, Reviews, Continues, SameRoute, SameFiles, StartPoll, Wake, ReviewStep

LEMMA CheckDeadlineEffect ==
  ASSUME TypeOK, CheckDeadline
  PROVE  /\ Continues /\ SameRoute /\ review.pc = "poll"
         /\ review'.requested = review.requested /\ review'.polled = review.polled
         /\ \/ review'.pc = "fetch" /\ review'.decision = review.decision
            \/ review'.pc = "exit" /\ review'.decision = "timeout"
BY DEF TypeOK, Reviews, Continues, SameRoute, CheckDeadline, ReviewStep

\* A status call: the answer is the status the request then has.
LEMMA FetchStatusEffect ==
  ASSUME TypeOK, FetchStatus
  PROVE  /\ Continues /\ SameRoute /\ review.pc = "fetch"
         /\ review'.requested = review.requested
         /\ \/ /\ review'.polled = review.polled
               /\ \/ /\ review'.pc = "exit" /\ review'.decision \in {"approved", "denied", "expired"}
                     /\ review'.decision = broker'[attempt].status
                  \/ review'.pc = "sleep" /\ review'.decision = review.decision
            \/ /\ review'.pc = "result" /\ review'.polled = "failure"
               /\ review'.decision = review.decision
         /\ \/ broker' = broker
            \/ /\ broker[attempt].status = "pending"
               /\ broker' = [broker EXCEPT ![attempt].status = "expired"]
<1>1. phase = "review" /\ review.pc = "fetch" /\ review \in Reviews
  BY DEF FetchStatus, ReviewStep, TypeOK
<1>2. \/ broker' = broker
      \/ /\ broker[attempt].status = "pending"
         /\ broker' = [broker EXCEPT ![attempt].status = "expired"]
  BY DEF FetchStatus, Expirable
<1>3. ASSUME NEW s, review' = Answered(s), s = broker'[attempt].status
      PROVE  /\ Continues /\ SameRoute
             /\ review'.requested = review.requested /\ review'.polled = review.polled
             /\ \/ /\ review'.pc = "exit" /\ review'.decision \in {"approved", "denied", "expired"}
                   /\ review'.decision = broker'[attempt].status
                \/ review'.pc = "sleep" /\ review'.decision = review.decision
  BY <1>1, <1>3 DEF Reviews, Continues, SameRoute, Answered
<1>4. CASE ~Expirable(broker[attempt]) /\ UNCHANGED broker
           /\ review' = Answered(broker[attempt].status)
  BY <1>1, <1>2, <1>3, <1>4
<1>5. CASE /\ Expirable(broker[attempt]) /\ review' = Answered("expired")
           /\ broker' = [broker EXCEPT ![attempt].status = "expired"]
  <2>1. broker'[attempt].status = "expired"
    BY <1>5 DEF TypeOK, Requests
  <2>2. QED
    BY <1>1, <1>2, <1>3, <1>5, <2>1
<1>6. CASE review' = [Stop EXCEPT !.polled = "failure"] /\ UNCHANGED broker
  BY <1>1, <1>6 DEF Reviews, Continues, SameRoute, Stop
<1>7. QED
  BY <1>4, <1>5, <1>6 DEF FetchStatus

LEMMA ExitPollEffect ==
  ASSUME TypeOK, ExitPoll
  PROVE  /\ Continues /\ SameRoute /\ review.pc = "exit" /\ review'.pc = "result"
         /\ review'.requested = review.requested /\ review'.decision = review.decision
         /\ review'.polled = "success" => review.decision = "approved"
BY DEF TypeOK, Reviews, Stop, Continues, SameRoute, ExitPoll, ReviewStep

LEMMA CancelEffect ==
  ASSUME TypeOK, Cancel
  PROVE  /\ Continues /\ SameRoute /\ review'.pc = "result"
         /\ review'.decision = review.decision
         /\ review'.requested = IF review.pc = "request" THEN "cancelled" ELSE review.requested
         /\ review'.polled \in {"cancelled", review.polled}
BY DEF TypeOK, Reviews, Stop, Continues, SameRoute, Cancel

LEMMA TickEffect ==
  ASSUME TypeOK, Tick
  PROVE  /\ SameRoute /\ SameFiles /\ review'.pc = review.pc
         /\ review'.place = review.place /\ review'.gate = review.gate
         /\ review = Idle => review' = Idle
         /\ \A a \in Attempts :
              /\ broker'[a].status = broker[a].status /\ broker'[a].gate = broker[a].gate
              /\ broker'[a].route = broker[a].route /\ broker'[a].decision = broker[a].decision
              /\ broker[a] = Absent => broker'[a] = Absent
<1>1. /\ SameRoute /\ SameFiles /\ review'.pc = review.pc
      /\ review'.place = review.place /\ review'.gate = review.gate
  BY DEF TypeOK, Reviews, Tick, SameRoute, SameFiles
<1>2. ASSUME review = Idle PROVE review' = Idle
  <2>1. ASSUME NEW r \in Reviews, r.left = 0, r.nap = 0
        PROVE  [r EXCEPT !.left = Less(@), !.nap = Less(@)] = r
    BY <2>1 DEF Reviews, Less
  <2>2. QED
    BY <1>2, <2>1, IdleFacts DEF Tick
<1>3. ASSUME NEW a \in Attempts
      PROVE  /\ broker'[a].status = broker[a].status /\ broker'[a].gate = broker[a].gate
             /\ broker'[a].route = broker[a].route /\ broker'[a].decision = broker[a].decision
  BY <1>3 DEF TypeOK, Requests, Tick
<1>4. ASSUME NEW a \in Attempts, broker[a] = Absent PROVE broker'[a] = Absent
  BY <1>4 DEF Tick, Absent, Less
<1>5. QED
  BY <1>1, <1>2, <1>3, <1>4

-----------------------------------------------------------------------------
(* The broker's side: what a filed request keeps.                          *)

Decided == {"approved", "denied", "expired"}

\* No request forgets what it is about or how it ended ...
Stands ==
  \A a \in Attempts : broker[a].status # "absent" =>
    /\ broker'[a].status # "absent"
    /\ broker'[a].gate = broker[a].gate /\ broker'[a].route = broker[a].route
    /\ broker[a].status \in Decided => broker'[a].status = broker[a].status

\* ... and none is filed.
Settled == Stands /\ \A a \in Attempts : broker[a] = Absent => broker'[a] = Absent

LEMMA BrokerSteps ==
  ASSUME TypeOK,
         \/ UNCHANGED broker \/ Tick \/ FetchStatus
         \/ \E a \in Attempts : Finalize(a) \/ \E d \in {"approve", "deny"} : Decide(a, d)
  PROVE  Settled
<1>1. CASE UNCHANGED broker
  BY <1>1 DEF Settled, Stands
<1>2. CASE Tick
  BY <1>2, TickEffect DEF Settled, Stands, Absent
<1>3. CASE FetchStatus
  BY <1>3, FetchStatusEffect DEF Settled, Stands, TypeOK, Requests, Decided, Absent
<1>4. ASSUME NEW a \in Attempts, NEW d \in {"approve", "deny"}, Finalize(a) \/ Decide(a, d)
      PROVE  Settled
  <2>1. /\ broker[a].status \in {"pending", "processing"} /\ broker[a] \in Requests
        /\ \E st \in {"processing", "approved", "denied"}, x \in {"approve", "deny"} :
             \/ broker' = [broker EXCEPT ![a].status = st]
             \/ broker' = [broker EXCEPT ![a].status = st, ![a].decision = x]
    BY <1>4 DEF Finalize, Decide, Finalized, TypeOK
  <2>2. QED
    BY <2>1 DEF Settled, Stands, TypeOK, Requests, Decided, Absent
<1>5. QED
  BY <1>1, <1>2, <1>3, <1>4

LEMMA SourceStays ==
  ASSUME TypeOK, SourceInv, Stands, UNCHANGED <<setup, scans, gate, src>>
  PROVE  SourceInv'
<1>1. ASSUME Backs(broker[gate.made], gate), gate \in Gates PROVE Backs(broker[gate.made], gate)'
  <2>1. gate.made \in Attempts
    BY <1>1, GateFacts
  <2>2. QED
    BY <1>1, <2>1 DEF Backs, Stands, Decided
<1>2. Earned => Earned'
  BY <1>1 DEF Earned, PublishedVerdict
<1>3. CASE Unpublished(src)
  BY <1>3 DEF SourceInv, Unpublished
<1>4. CASE Published(src)
  BY <1>2, <1>4 DEF SourceInv, Published, PublishedVerdict
<1>5. QED
  BY <1>3, <1>4 DEF SourceInv

LEMMA ResultStays ==
  ASSUME ResultInv, Stands, UNCHANGED bg
  PROVE  ResultInv'
BY DEF ResultInv, Stands, Decided

LEMMA GenuineStays ==
  ASSUME TypeOK, TypeOK', UNCHANGED setup, attempt <= attempt', NEW g, Genuine(g)
  PROVE  Genuine(g)'
<1>1. attempt \in Nat /\ attempt' \in Nat
  BY DEF TypeOK, Attempts
<1>2. g.made \in Nat
  BY GateFacts DEF Genuine, Attempts
<1>3. QED
  BY <1>1, <1>2 DEF Genuine, Refused

LEMMA RequestStays ==
  ASSUME TypeOK, TypeOK', RequestInv, Settled, UNCHANGED setup, attempt <= attempt',
         roles \subseteq roles'
  PROVE  RequestInv'
<1> SUFFICES ASSUME NEW a \in Attempts
             PROVE  IF broker'[a].status = "absent" THEN broker'[a] = Absent
                    ELSE a <= attempt' /\ Filing(broker[a])'
  BY DEF RequestInv
<1>1. CASE broker[a].status = "absent"
  BY <1>1 DEF RequestInv, Settled, Stands, Absent
<1>2. CASE broker[a].status # "absent"
  <2>1. /\ broker'[a].status # "absent"
        /\ broker'[a].gate = broker[a].gate /\ broker'[a].route = broker[a].route
    BY <1>2 DEF Settled, Stands
  <2>2. a <= attempt'
    BY <1>2 DEF RequestInv, TypeOK, Attempts
  <2>3. Filing(broker[a]) /\ Genuine(broker[a].gate)
    BY <1>2 DEF RequestInv, Filing
  <2>4. \A g : Genuine(g) => Genuine(g)'
    BY GenuineStays
  <2>5. Genuine(broker[a].gate)'
    BY <2>1, <2>3, <2>4 DEF Genuine
  <2>6. QED
    BY <2>1, <2>2, <2>3, <2>5 DEF Filing
<1>3. QED
  BY <1>1, <1>2

LEMMA RoleStays ==
  ASSUME TypeOK, TypeOK', RoleInv, UNCHANGED <<setup, roles>>, attempt <= attempt'
  PROVE  RoleInv'
BY GenuineStays DEF RoleInv

-----------------------------------------------------------------------------
(* Steps of the review.                                                    *)

\* The step only moves the review on, so only ReviewInv is in doubt.
LEMMA OnlyReviewInv ==
  ASSUME RunInv, TypeOK', OnlyReview, Continues, ReviewInv',
         review'.pc \in {"preflight", "assume", "request"} => Unfiled
  PROVE  RunInv'
<1> USE DEF RunInv
<1>1. phase = "review" /\ phase' = "review"
  BY DEF OnlyReview, Continues
<1>2. StageInv'
  BY <1>1 DEF StageInv, OnlyReview, Continues, InSource
<1>3. GateInv'
  <2>1. review.pc # "off"
    BY <1>1 DEF StageInv
  <2>2. QED
    BY <1>1, <2>1 DEF GateInv, Genuine, Refused, OnlyReview, Continues, InSource
<1>4. Stands
  BY DEF OnlyReview, Stands
<1>5. SourceInv' /\ ResultInv'
  BY <1>4, SourceStays, ResultStays DEF OnlyReview
<1>6. RequestInv'
  BY DEF RequestInv, Filing, Genuine, Refused, OnlyReview
<1>7. UnfiledInv'
  BY <1>1 DEF UnfiledInv, Unfiled, OnlyReview
<1>8. RoleInv'
  BY DEF RoleInv, Genuine, Refused, OnlyReview
<1>9. QED
  BY <1>2, <1>3, <1>5, <1>6, <1>7, <1>8

\* Before it files its request a review has no answer to show.
LEMMA NothingFiled ==
  ASSUME ReviewInv, Unfiled
  PROVE  /\ review.requested # "success" /\ review.decision \notin Decided
         /\ review.polled # "success"
BY DEF ReviewInv, Unfiled, Decided

LEMMA ExamineInv ==
  ASSUME RunInv, TypeOK', Examine
  PROVE  RunInv'
<1>1. /\ Continues /\ SameFiles /\ review.pc = "preflight" /\ OnlyReview
      /\ phase = "review" /\ Unfiled
  BY ExamineEffect DEF RunInv, Examine, Continues, UnfiledInv
<1>2. review.requested # "success" /\ review.decision \notin Decided /\ review.polled # "success"
  BY <1>1, NothingFiled DEF RunInv
<1>3. review'.pc \in {"result", "request", "assume"}
  BY ExamineEffect DEF RunInv
<1>4. CASE review'.preflight # "accepted"
  <2>1. review'.pc = "result"
    BY <1>4, ExamineEffect DEF RunInv
  <2>2. ReviewInv'
    BY <1>1, <1>2, <1>4, <2>1 DEF ReviewInv, SameFiles, Polling, Decided
  <2>3. QED
    BY <1>1, <2>1, <2>2, OnlyReviewInv
<1>5. CASE review'.preflight = "accepted"
  <2>1. /\ review'.route = RouteFor(review, setup)
        /\ review'.pc = IF setup.transport = "http" THEN "request" ELSE "assume"
        /\ IF review.place = "delegated"
           THEN Preflight(review.gate, src.digest, setup) = "accepted"
           ELSE InJobCheck(review.gate, setup) = "accepted"
    BY <1>5, ExamineEffect DEF RunInv
  <2>2. /\ Genuine(review.gate) /\ Overridable(review.gate) /\ setup.mode # "log-only"
        /\ review.place = "delegated" => review.gate = src.digest
        /\ RouteFor(review, setup) # Nothing
    <3>1. CASE review.place = "delegated"
      <4>1. Preflight(review.gate, src.digest, setup) = "accepted"
        BY <2>1, <3>1
      <4>2. /\ setup.mode = "enforce" /\ review.gate # Nothing /\ src.digest = review.gate
            /\ Overridable(review.gate) /\ Route(review.gate.synthetic, setup) # Nothing
        BY <4>1 DEF Preflight
      <4>3. Genuine(review.gate)
        BY <4>2 DEF RunInv, GateInv
      <4>4. QED
        BY <3>1, <4>2, <4>3, NothingAssumption DEF RouteFor
    <3>2. CASE review.place = "in-job"
      <4>1. InJobCheck(review.gate, setup) = "accepted"
        BY <2>1, <3>2
      <4>2. InJob(setup) /\ Genuine(review.gate)
        BY <1>1, <3>2 DEF RunInv, GateInv
      <4>3. QED
        BY <3>2, <4>1, <4>2, NothingAssumption DEF InJobCheck, InJob, RouteFor
    <3>3. QED
      BY <3>1, <3>2, ReviewFacts DEF RunInv, TypeOK
  <2>3. RouteFor(review, setup)' = RouteFor(review, setup)
    BY <1>1 DEF OnlyReview, Continues, RouteFor
  <2>4. Accepted'
    BY <1>1, <2>1, <2>2, <2>3 DEF Accepted, Genuine, Refused, OnlyReview, Continues
  <2>5. ReviewInv'
    BY <1>1, <1>2, <1>5, <2>1, <2>4 DEF ReviewInv, SameFiles, Polling, Decided, OnlyReview, RouteFor
  <2>6. QED
    BY <1>1, <2>5, OnlyReviewInv
<1>6. QED
  BY <1>4, <1>5

\* The steps of the poll, and a cancellation, neither file nor decide.
LEMMA AcceptedStays ==
  ASSUME Accepted, SameRoute, UNCHANGED <<setup, attempt, src>>,
         review'.place = review.place, review'.gate = review.gate
  PROVE  Accepted'
BY DEF Accepted, SameRoute, RouteFor, Genuine, Refused

LEMMA PollInv ==
  ASSUME RunInv, TypeOK', StartPoll \/ Wake \/ CheckDeadline \/ ExitPoll \/ Cancel
  PROVE  RunInv'
<1>1. /\ Continues /\ SameRoute /\ OnlyReview
      /\ review'.pc \in {"poll", "fetch", "exit", "result"}
  BY MoveEffect, CheckDeadlineEffect, ExitPollEffect, CancelEffect
     DEF RunInv, StartPoll, Wake, CheckDeadline, ExitPoll, Cancel
<1>2. review.preflight = "accepted" => Accepted'
  BY <1>1, AcceptedStays DEF RunInv, ReviewInv, OnlyReview, Continues
<1>3. CASE StartPoll \/ Wake
  BY <1>1, <1>2, <1>3, MoveEffect, OnlyReviewInv
     DEF RunInv, ReviewInv, SameRoute, SameFiles, Polling, OnlyReview, Continues
<1>4. CASE CheckDeadline
  BY <1>1, <1>2, <1>4, CheckDeadlineEffect, OnlyReviewInv
     DEF RunInv, ReviewInv, SameRoute, Polling, OnlyReview, Continues
<1>5. CASE ExitPoll
  BY <1>1, <1>2, <1>5, ExitPollEffect, OnlyReviewInv
     DEF RunInv, ReviewInv, SameRoute, Polling, OnlyReview, Continues
<1>6. CASE Cancel
  <2>1. review.pc = "request" => review.requested # "success"
    BY NothingFiled DEF RunInv, UnfiledInv
  <2>2. QED
    BY <1>1, <1>2, <1>6, <2>1, CancelEffect, OnlyReviewInv
       DEF RunInv, ReviewInv, SameRoute, Polling, OnlyReview, Continues
<1>7. QED
  BY <1>3, <1>4, <1>5, <1>6

\* The route an accepted review takes keeps fabricated gates away from production.
LEMMA RouteIsRight ==
  ASSUME TypeOK, GateInv, StageInv, Accepted, phase = "review", setup.transport # "http"
  PROVE  /\ Genuine(review.gate)
         /\ review.route = IF review.gate.synthetic THEN "synthetic" ELSE "production"
         /\ review.gate.synthetic => IsolatedByText(setup)
         /\ review.gate.synthetic /\ DelegateLambda(setup) => Isolated(setup)
<1>1. Genuine(review.gate)
  BY DEF Accepted
<1>2. review.gate.synthetic \in BOOLEAN
  BY <1>1, GateFacts DEF Genuine
<1>3. CASE review.place = "delegated"
  <2>1. Route(review.gate.synthetic, setup) # Nothing
        /\ review.route = Route(review.gate.synthetic, setup)
    BY <1>3 DEF Accepted, RouteFor
  <2>2. QED
    BY <1>1, <1>2, <2>1 DEF Route, Isolated, IsolatedByText
<1>4. CASE review.place = "in-job"
  <2>1. InJob(setup) /\ review.pc # "off"
    BY <1>4 DEF StageInv, GateInv
  <2>2. setup.variant = "legacy" /\ setup.transport = "lambda" /\ ~DelegateLambda(setup)
    BY <2>1, SetupFacts DEF InJob, DelegateLambda, TypeOK
  <2>3. review.gate.synthetic => IsolatedByText(setup)
    BY <1>1, <2>2 DEF Genuine, Refused
  <2>4. /\ InJobRoute(review.gate.synthetic, setup) # Nothing
        /\ review.route = InJobRoute(review.gate.synthetic, setup)
    BY <1>4 DEF Accepted, RouteFor
  <2>5. QED
    BY <1>1, <1>2, <2>2, <2>3, <2>4 DEF InJobRoute
<1>5. QED
  BY <1>3, <1>4, ReviewFacts DEF TypeOK

LEMMA AssumeRoleInv ==
  ASSUME RunInv, TypeOK', AssumeRole
  PROVE  RunInv'
<1> USE DEF RunInv
<1>1. /\ Continues /\ SameFiles /\ SameRoute /\ review.pc = "assume" /\ phase = "review"
      /\ phase' = "review" /\ review'.pc \in {"request", "result"} /\ roles \subseteq roles'
      /\ UNCHANGED <<setup, attempt, scans, gate, sound, src, bg, uploaded, broker, final>>
  BY AssumeRoleEffect DEF AssumeRole, Continues
<1>2. Unfiled /\ review.requested # "success" /\ review.decision \notin Decided
      /\ review.polled # "success" /\ Accepted /\ review.preflight = "accepted"
      /\ setup.transport # "http"
  BY <1>1, NothingFiled DEF UnfiledInv, ReviewInv
<1>3. StageInv' /\ GateInv'
  BY <1>1 DEF StageInv, InSource, Continues, GateInv, Genuine, Refused
<1>4. Stands
  BY <1>1 DEF Stands
<1>5. SourceInv' /\ ResultInv'
  BY <1>1, <1>4, SourceStays, ResultStays
<1>6. RequestInv' /\ UnfiledInv'
  BY <1>1, <1>2 DEF RequestInv, Filing, Genuine, Refused, UnfiledInv, Unfiled
<1>7. RoleInv'
  <2> DEFINE x == [gate |-> review.gate, function |-> setup.function[review.route],
                   role |-> setup.role[review.route]]
  <2>1. /\ Genuine(x.gate) /\ Overridable(x.gate) /\ x.gate.synthetic \in BOOLEAN
        /\ (x.function = setup.function["production"]) = ~x.gate.synthetic
        /\ (x.role = setup.role["production"]) = ~x.gate.synthetic
        /\ x.gate.synthetic /\ DelegateLambda(setup) =>
             x.function.name # setup.function["production"].name
    <3>1. /\ Genuine(review.gate) /\ review.gate.synthetic \in BOOLEAN
          /\ review.route = IF review.gate.synthetic THEN "synthetic" ELSE "production"
          /\ review.gate.synthetic => IsolatedByText(setup)
          /\ review.gate.synthetic /\ DelegateLambda(setup) => Isolated(setup)
      BY <1>1, <1>2, RouteIsRight, GateFacts DEF Genuine
    <3>2. Overridable(review.gate)
      BY <1>2 DEF Accepted
    <3>3. CASE review.gate.synthetic
      BY <3>1, <3>2, <3>3 DEF Isolated, IsolatedByText
    <3>4. CASE ~review.gate.synthetic
      BY <3>1, <3>2, <3>4
    <3>5. QED
      BY <3>3, <3>4
  <2>2. \A y \in roles' : y \in roles \/ y = x
    BY AssumeRoleEffect
  <2>3. \A g : Genuine(g) => Genuine(g)'
    BY <1>1 DEF Genuine, Refused
  <2> HIDE DEF x
  <2>4. ASSUME NEW y \in roles'
        PROVE  /\ Genuine(y.gate)' /\ Overridable(y.gate)
               /\ (y.function = setup'.function["production"]) = ~y.gate.synthetic
               /\ (y.role = setup'.role["production"]) = ~y.gate.synthetic
               /\ y.gate.synthetic /\ DelegateLambda(setup') =>
                    y.function.name # setup'.function["production"].name
    BY <1>1, <2>1, <2>2, <2>3 DEF RoleInv
  <2>5. QED
    BY <2>4 DEF RoleInv
<1>8. ReviewInv'
  <2>1. Accepted'
    BY <1>1, <1>2, AcceptedStays DEF Continues
  <2>2. review'.pc = "request" => \E x \in roles' : x.gate = review'.gate
    <3>1. ASSUME review'.pc = "request" PROVE \E x \in roles' : x.gate = review'.gate
      <4>1. [gate |-> review.gate, function |-> setup.function[review.route],
             role |-> setup.role[review.route]] \in roles'
        BY <3>1, AssumeRoleEffect
      <4>2. QED
        BY <1>1, <4>1 DEF Continues
    <3>2. QED
      BY <3>1
  <2>3. QED
    BY <1>1, <1>2, <2>1, <2>2 DEF ReviewInv, SameRoute, SameFiles, Polling, Decided
<1>9. QED
  BY <1>3, <1>5, <1>6, <1>7, <1>8

\* Filing, with or without the answer, or nothing: the request is that of the gate
\* the review accepted.
LEMMA RequestStepInv ==
  ASSUME RunInv, TypeOK', Request
  PROVE  RunInv'
<1> USE DEF RunInv
<1>1. /\ Continues /\ SameRoute /\ review.pc = "request" /\ phase = "review"
      /\ phase' = "review" /\ review'.pc \in {"start", "result"}
      /\ review'.polled = review.polled /\ review'.decision = review.decision
      /\ UNCHANGED <<setup, attempt, scans, gate, sound, src, bg, uploaded, roles, final>>
  BY RequestEffect DEF Request, Continues
<1>2. Unfiled /\ review.requested # "success" /\ review.decision \notin Decided
      /\ review.polled # "success" /\ Accepted /\ review.preflight = "accepted"
  BY <1>1, NothingFiled DEF UnfiledInv, ReviewInv
<1>3. /\ attempt \in Attempts
      /\ Filed.status = "pending" /\ Filed.gate = review.gate /\ Filed.route = review.route
  BY DEF TypeOK, Filed
<1>4. broker' = broker \/ broker' = [broker EXCEPT ![attempt] = Filed]
  BY RequestEffect
<1>5. Stands
  BY <1>2, <1>3, <1>4 DEF Stands, Unfiled, TypeOK
<1>6. StageInv' /\ GateInv'
  BY <1>1 DEF StageInv, InSource, Continues, GateInv, Genuine, Refused
<1>7. SourceInv' /\ ResultInv'
  BY <1>1, <1>5, SourceStays, ResultStays
<1>8. RequestInv'
  <2>1. Filing(Filed)
    <3>1. Genuine(review.gate)
      BY <1>2 DEF Accepted
    <3>2. review.route # "http" => \E x \in roles : x.gate = review.gate
      BY <1>1 DEF ReviewInv
    <3>3. QED
      BY <1>2, <1>3, <3>1, <3>2 DEF Filing, Accepted
  <2>2. \A r : Filing(r) => Filing(r)'
    BY <1>1 DEF Filing, Genuine, Refused
  <2>3. ASSUME NEW a \in Attempts
        PROVE  IF broker'[a].status = "absent" THEN broker'[a] = Absent
               ELSE a <= attempt' /\ Filing(broker'[a])
    <3>1. CASE broker'[a] = broker[a]
      BY <1>1, <3>1 DEF RequestInv
    <3>2. CASE a = attempt /\ broker'[a] = Filed
      BY <1>1, <1>3, <2>1, <3>2 DEF TypeOK, Attempts
    <3>3. QED
      BY <1>4, <3>1, <3>2 DEF TypeOK
  <2>4. QED
    BY <1>1, <2>3 DEF RequestInv, Filing, Genuine, Refused
<1>9. UnfiledInv' /\ RoleInv'
  BY <1>1 DEF UnfiledInv, RoleInv, Genuine, Refused
<1>10. ReviewInv'
  <2>1. Accepted'
    BY <1>1, <1>2, AcceptedStays DEF Continues
  <2>2. review'.requested = "success" => broker'[attempt] = Filed
    BY <1>3, RequestEffect DEF TypeOK
  <2>3. review'.pc = "start" => review'.requested = "success"
    BY RequestEffect
  <2>4. QED
    BY <1>1, <1>2, <1>3, <2>1, <2>2, <2>3 DEF ReviewInv, SameRoute, Polling, Continues, Decided
<1>11. QED
  BY <1>6, <1>7, <1>8, <1>9, <1>10

\* What the review knows of its request outlives whatever befalls the broker.
LEMMA AnswersStay ==
  ASSUME TypeOK, ReviewInv, Stands, UNCHANGED <<setup, attempt, src, roles>>,
         SameRoute, review'.place = review.place, review'.gate = review.gate,
         SameFiles, review'.pc = review.pc
  PROVE  ReviewInv'
<1>1. review.preflight = "accepted" => Accepted'
  BY AcceptedStays DEF ReviewInv
<1>2. QED
  BY <1>1 DEF ReviewInv, SameRoute, SameFiles, Stands, Decided, Polling, TypeOK

LEMMA FetchStatusInv ==
  ASSUME RunInv, TypeOK', FetchStatus
  PROVE  RunInv'
<1> USE DEF RunInv
<1>1. /\ Continues /\ SameRoute /\ review.pc = "fetch" /\ phase = "review"
      /\ phase' = "review" /\ review'.pc \in {"exit", "sleep", "result"}
      /\ review'.requested = review.requested
      /\ UNCHANGED <<setup, attempt, scans, gate, sound, src, bg, uploaded, roles, final>>
  BY FetchStatusEffect DEF FetchStatus, Continues
<1>2. review.requested = "success" /\ review.preflight = "accepted" /\ Accepted
      /\ review.polled # "success"
      /\ broker[attempt].status # "absent" /\ broker[attempt].gate = review.gate
  BY <1>1 DEF ReviewInv, Polling
<1>3. Settled /\ Stands
  BY BrokerSteps DEF Settled
<1>4. StageInv' /\ GateInv'
  BY <1>1 DEF StageInv, InSource, Continues, GateInv, Genuine, Refused
<1>5. SourceInv' /\ ResultInv' /\ RequestInv'
  BY <1>1, <1>3, SourceStays, ResultStays, RequestStays DEF TypeOK, Attempts
<1>6. UnfiledInv' /\ RoleInv'
  BY <1>1 DEF UnfiledInv, RoleInv, Genuine, Refused
<1>7. ReviewInv'
  <2>1. Accepted'
    BY <1>1, <1>2, AcceptedStays DEF Continues
  <2>2. broker'[attempt].status # "absent" /\ broker'[attempt].gate = review'.gate
    BY <1>1, <1>2, <1>3 DEF Stands, Continues, TypeOK
  <2>3. review'.decision \in Decided => review'.decision = broker'[attempt].status
    BY <1>1, <1>2, <1>3, FetchStatusEffect DEF ReviewInv, Stands, Decided, TypeOK
  <2>4. review'.polled # "success"
    BY <1>2, FetchStatusEffect
  <2>5. (\E x \in roles : x.gate = review.gate) \/ review.route = "http"
    BY <1>1 DEF ReviewInv, Polling
  <2>6. QED
    BY <1>1, <1>2, <2>1, <2>2, <2>3, <2>4, <2>5 DEF ReviewInv, SameRoute, Polling, Continues, Decided
<1>8. QED
  BY <1>4, <1>5, <1>6, <1>7

LEMMA BrokerStepInv ==
  ASSUME RunInv, TypeOK',
         \/ Tick \/ \E a \in Attempts : Finalize(a) \/ \E d \in {"approve", "deny"} : Decide(a, d)
  PROVE  RunInv'
<1> USE DEF RunInv
<1>1. /\ SameRoute /\ SameFiles /\ review'.pc = review.pc /\ review'.place = review.place
      /\ review'.gate = review.gate /\ (review = Idle => review' = Idle)
      /\ UNCHANGED <<setup, attempt, phase, scans, gate, sound, src, bg, uploaded, roles, final>>
  BY TickEffect DEF Tick, Finalize, Decide, OnlyBroker, SameRoute, SameFiles
<1>2. Settled /\ Stands
  BY BrokerSteps DEF Settled
<1>3. StageInv' /\ GateInv'
  BY <1>1 DEF StageInv, InSource, GateInv, Genuine, Refused
<1>4. SourceInv' /\ ResultInv' /\ RequestInv' /\ ReviewInv'
  BY <1>1, <1>2, SourceStays, ResultStays, RequestStays, AnswersStay DEF TypeOK, Attempts
<1>5. Unfiled => Unfiled'
  BY <1>1, <1>2 DEF Unfiled, RequestInv, Settled, TypeOK, Absent
<1>6. UnfiledInv' /\ RoleInv'
  BY <1>1, <1>5 DEF UnfiledInv, RoleInv, Genuine, Refused
<1>7. QED
  BY <1>3, <1>4, <1>6

-----------------------------------------------------------------------------
(* Steps from job to job.                                                  *)

\* With no review under way there is nothing for ReviewInv to say.
LEMMA IdleReview ==
  ASSUME review' = Idle
  PROVE  ReviewInv'
BY IdleFacts, NothingAssumption DEF ReviewInv, Polling

\* A job boundary at which the broker and what was filed with it stay.
LEMMA BoundaryInv ==
  ASSUME RunInv, TypeOK', UNCHANGED <<setup, attempt, roles, broker>>
  PROVE  RequestInv' /\ RoleInv' /\ Stands
BY DEF RunInv, RequestInv, Filing, RoleInv, Genuine, Refused, Stands

LEMMA ScanInv ==
  ASSUME RunInv, TypeOK', Scan
  PROVE  RunInv'
<1> USE DEF RunInv
<1>1. /\ phase = "scan" /\ phase' = "evaluate" /\ src = NoSource /\ review' = Idle
      /\ UNCHANGED <<setup, attempt, gate, sound, review, src, bg, uploaded, roles, broker, final>>
  BY DEF Scan, StageInv, InSource
<1>2. RequestInv' /\ RoleInv' /\ Stands
  BY <1>1, BoundaryInv
<1>3. scans' \in [Controls -> {"success", "failure", "cancelled"}]
  BY ScanResultsAssumption DEF Scan
<1>4. StageInv' /\ GateInv' /\ UnfiledInv'
  BY <1>1, <1>3, IdleFacts DEF StageInv, InSource, GateInv, Genuine, Refused, UnfiledInv, Unfiled
<1>5. SourceInv'
  BY <1>1, NothingAssumption DEF SourceInv, Unpublished, NoSource
<1>6. QED
  BY <1>1, <1>2, <1>4, <1>5, IdleReview, ResultStays

LEMMA EvaluateNothingInv ==
  ASSUME RunInv, TypeOK', EvaluateNothing
  PROVE  RunInv'
<1> USE DEF RunInv
<1>1. /\ phase = "evaluate" /\ phase' = "enforce" /\ src = NoSource /\ review' = Idle
      /\ gate' = Nothing
      /\ UNCHANGED <<setup, attempt, scans, review, src, bg, uploaded, roles, broker, final>>
  BY DEF EvaluateNothing, StageInv, InSource
<1>2. RequestInv' /\ RoleInv' /\ Stands
  BY <1>1, BoundaryInv
<1>3. StageInv' /\ GateInv' /\ UnfiledInv'
  BY <1>1, IdleFacts DEF StageInv, InSource, GateInv, Genuine, Refused, UnfiledInv, Unfiled
<1>4. SourceInv'
  BY <1>1, NothingAssumption DEF SourceInv, Unpublished, NoSource
<1>5. QED
  BY <1>1, <1>2, <1>3, <1>4, IdleReview, ResultStays

LEMMA EvaluateInv ==
  ASSUME RunInv, TypeOK', Evaluate
  PROVE  RunInv'
<1> USE DEF RunInv
<1>1. /\ phase = "evaluate" /\ src = NoSource /\ review = Idle /\ ~Refused
      /\ UNCHANGED <<setup, attempt, scans, sound, src, bg, uploaded, roles, broker, final>>
  BY DEF Evaluate, StageInv, InSource
<1>2. RequestInv' /\ RoleInv' /\ Stands
  BY <1>1, BoundaryInv
<1>3. /\ gate' \in Gates /\ gate'.made = attempt
      /\ gate'.bootstrap = setup.bootstrap /\ gate'.synthetic = setup.synthetic
  BY NewGates DEF Evaluate, Evaluation, Distrust
<1>4. Genuine(gate)'
  BY <1>1, <1>3 DEF Genuine, Refused, TypeOK, Attempts
<1>5. \A g \in uploaded : Genuine(g)'
  BY <1>1 DEF GateInv, Genuine, Refused, TypeOK
<1>6. SourceInv' /\ ResultInv'
  BY <1>1, <1>2, ResultStays, NothingAssumption DEF SourceInv, Unpublished, NoSource
<1>7. CASE phase' = "review" /\ InJob(setup)
           /\ review' = [Idle EXCEPT !.pc = "preflight", !.gate = gate']
  <2>1. /\ review'.pc = "preflight" /\ review'.place = "in-job" /\ review'.gate = gate'
        /\ review'.requested = "skipped" /\ review'.polled = "skipped"
        /\ review'.preflight = "none" /\ review'.decision = Nothing
    BY <1>7, IdleFacts DEF Reviews
  <2>3. StageInv' /\ UnfiledInv'
    BY <1>1, <1>7, <2>1 DEF StageInv, InSource, UnfiledInv, Unfiled
  <2>4. GateInv'
    BY <1>1, <1>3, <1>4, <1>5, <1>7, <2>1 DEF GateInv, InSource
  <2>5. ReviewInv'
    BY <2>1, NothingAssumption DEF ReviewInv, Polling
  <2>6. QED
    BY <1>2, <1>6, <2>3, <2>4, <2>5
<1>8. CASE phase' = "enforce" /\ review' = Idle
  <2>1. StageInv' /\ UnfiledInv'
    BY <1>1, <1>8, IdleFacts DEF StageInv, InSource, UnfiledInv, Unfiled
  <2>2. GateInv'
    BY <1>1, <1>3, <1>4, <1>5, <1>8, IdleFacts DEF GateInv, InSource
  <2>3. QED
    BY <1>2, <1>6, <1>8, <2>1, <2>2, IdleReview
<1>9. QED
  BY <1>1, <1>7, <1>8 DEF Evaluate

\* A source gate job that succeeds despite a BLOCK has had its gate approved.
LEMMA SuccessIsEarned ==
  ASSUME RunInv, phase = "enforce", NEW ok \in BOOLEAN,
         Aggregate({scans[c] : c \in Controls} \cup {GateJob(ok)}) = "success"
  PROVE  Earned
<1> USE DEF RunInv
<1>1. "failure" \notin {scans[c] : c \in Controls} \cup {GateJob(ok)}
      /\ "cancelled" \notin {scans[c] : c \in Controls} \cup {GateJob(ok)}
  BY DEF Aggregate
<1>2. \A c \in Controls : scans[c] = "success"
  BY <1>1 DEF StageInv
<1>3. GateJob(ok) = "success"
  BY <1>1 DEF GateJob
<1>4. setup.mode = "log-only" \/ PublishedVerdict # "BLOCK" \/ review.polled = "success"
  BY <1>3 DEF GateJob
<1>5. ASSUME review.polled = "success"
      PROVE  gate \in Gates /\ Backs(broker[gate.made], gate)
  <2>1. review.pc = "result" /\ review.decision = "approved" /\ review.requested = "success"
    BY <1>5 DEF ReviewInv
  <2>2. Accepted /\ broker[attempt].status = "approved" /\ broker[attempt].gate = review.gate
    BY <2>1 DEF ReviewInv
  <2>3. review.gate = gate /\ Genuine(gate) /\ gate.made = attempt
    BY <2>1 DEF StageInv, GateInv
  <2>4. gate.blocked \subseteq EligibleRules
    BY <2>2, <2>3 DEF Accepted, Overridable
  <2>5. ~gate.bootstrap
    BY <2>2, <2>3, GateFacts DEF Accepted, Genuine, Refused
  <2>6. QED
    BY <1>2, <2>2, <2>3, <2>4, <2>5 DEF Backs, Genuine
<1>6. QED
  BY <1>2, <1>4, <1>5 DEF Earned

LEMMA EnforceInv ==
  ASSUME RunInv, TypeOK', Enforce
  PROVE  RunInv'
<1> USE DEF RunInv
<1>1. /\ phase = "enforce" /\ phase' = "delegated" /\ review' = Idle
      /\ UNCHANGED <<setup, attempt, scans, gate, sound, bg, roles, broker, final>>
  BY DEF Enforce
<1>2. PICK ok \in BOOLEAN :
        /\ Upload(ok)
        /\ src' = [result |-> Aggregate({scans[c] : c \in Controls} \cup {GateJob(ok)}),
                  verdict |-> PublishedVerdict,
                  mode |-> setup.mode,
                  trusted |-> gate # Nothing /\ Trusted(gate),
                  eligible |-> gate # Nothing /\ MarkedEligible(gate),
                  delegated |-> /\ DelegateLambda(setup) /\ gate # Nothing
                                /\ Trusted(gate) /\ MarkedEligible(gate),
                  controls |-> [c \in Controls |-> ControlResult(scans[c], gate, c)],
                  digest |-> gate]
  BY DEF Enforce
<1>3. RequestInv' /\ RoleInv' /\ Stands
  BY <1>1, BoundaryInv
<1>4. StageInv'
  BY <1>1, IdleFacts DEF StageInv, InSource
<1>5. GateInv' /\ UnfiledInv'
  <2>1. \A g \in uploaded' : g \in uploaded \/ (g = gate /\ gate # Nothing)
    BY <1>2 DEF Upload
  <2>2. QED
    BY <1>1, <2>1, IdleFacts DEF GateInv, Genuine, Refused, UnfiledInv, Unfiled
<1>6. SourceInv'
  <2>1. src'.result = "success" => Earned
    BY <1>1, <1>2, SuccessIsEarned
  <2>2. Earned' = Earned /\ PublishedVerdict' = PublishedVerdict
    BY <1>1 DEF Earned, PublishedVerdict, Backs
  <2>3. Published(src')
    BY <1>2, <2>1 DEF Published
  <2>4. Published(src)'
    BY <1>1, <2>2, <2>3 DEF Published
  <2>5. QED
    BY <2>4 DEF SourceInv
<1>7. QED
  BY <1>1, <1>3, <1>4, <1>5, <1>6, IdleReview, ResultStays

LEMMA LoseSourceInv ==
  ASSUME RunInv, TypeOK', LoseSource
  PROVE  RunInv'
<1> USE DEF RunInv
<1>1. /\ phase \in {"evaluate", "review", "enforce"} /\ review.place = "in-job"
      /\ phase' = "delegated" /\ review' = Idle
      /\ UNCHANGED <<setup, attempt, scans, gate, sound, bg, uploaded, roles, broker, final>>
      /\ \E x \in {"failure", "cancelled"} : src' = [NoSource EXCEPT !.result = x]
  BY DEF LoseSource
<1>2. src'.result # "success" /\ src'.verdict = Nothing /\ src'.delegated = FALSE
  BY <1>1 DEF NoSource
<1>3. RequestInv' /\ RoleInv' /\ Stands
  BY <1>1, BoundaryInv
<1>4. StageInv' /\ GateInv' /\ SourceInv'
  BY <1>1, <1>2, IdleFacts
     DEF StageInv, InSource, GateInv, Genuine, Refused, SourceInv, Unpublished
<1>5. UnfiledInv'
  BY <1>1, IdleFacts DEF UnfiledInv, Unfiled, StageInv, GateInv, InJob
<1>6. QED
  BY <1>1, <1>3, <1>4, <1>5, IdleReview, ResultStays

LEMMA StartDelegatedInv ==
  ASSUME RunInv, TypeOK', StartDelegated
  PROVE  RunInv'
<1> USE DEF RunInv
<1>1. /\ phase = "delegated" /\ review = Idle
      /\ UNCHANGED <<setup, attempt, scans, gate, sound, src, uploaded, roles, broker, final>>
  BY DEF StartDelegated, StageInv
<1>2. RequestInv' /\ RoleInv' /\ Stands
  BY <1>1, BoundaryInv
<1>3. SourceInv'
  BY <1>1, <1>2, SourceStays
<1>4. ASSUME src.delegated, NEW e \in uploaded \cup {Nothing}, phase' = "review", UNCHANGED bg,
             review' = [Idle EXCEPT !.pc = "preflight", !.place = "delegated", !.gate = e]
      PROVE  RunInv'
  <2>1. /\ review'.pc = "preflight" /\ review'.place = "delegated" /\ review'.gate = e
        /\ review'.requested = "skipped" /\ review'.polled = "skipped"
        /\ review'.preflight = "none" /\ review'.decision = Nothing
    BY <1>4, IdleFacts DEF Reviews
  <2>2. Unfiled
    BY <1>1, <1>4 DEF SourceInv, Unpublished, Published, UnfiledInv
  <2>3. StageInv' /\ UnfiledInv'
    BY <1>1, <1>4, <2>1, <2>2 DEF StageInv, InSource, UnfiledInv, Unfiled
  <2>4. GateInv'
    BY <1>1, <1>4, <2>1 DEF GateInv, Genuine, Refused
  <2>5. ReviewInv'
    BY <2>1, NothingAssumption DEF ReviewInv, Polling
  <2>6. QED
    BY <1>2, <1>3, <1>4, <2>3, <2>4, <2>5, ResultStays
<1>5. CASE phase' = "final" /\ bg' = NoReview /\ UNCHANGED review
  <2>1. StageInv' /\ GateInv' /\ UnfiledInv'
    BY <1>1, <1>5, IdleFacts DEF StageInv, InSource, GateInv, Genuine, Refused, UnfiledInv, Unfiled
  <2>2. ResultInv'
    BY <1>5, NothingAssumption DEF ResultInv, NoReview
  <2>3. QED
    BY <1>1, <1>2, <1>3, <1>5, <2>1, <2>2, IdleReview
<1>6. QED
  BY <1>4, <1>5 DEF StartDelegated

LEMMA EndInJobInv ==
  ASSUME RunInv, TypeOK', EndInJob
  PROVE  RunInv'
<1> USE DEF RunInv
<1>1. /\ phase = "review" /\ review.pc = "result" /\ review.place = "in-job" /\ phase' = "enforce"
      /\ UNCHANGED <<setup, attempt, scans, gate, review, src, bg, uploaded, roles, broker, final>>
  BY DEF EndInJob, ReviewStep
<1>2. RequestInv' /\ RoleInv' /\ Stands
  BY <1>1, BoundaryInv
<1>3. StageInv' /\ GateInv' /\ UnfiledInv'
  BY <1>1 DEF StageInv, InSource, GateInv, Genuine, Refused, UnfiledInv, Unfiled, InJob
<1>4. ReviewInv'
  BY <1>1 DEF ReviewInv, Accepted, Genuine, Refused, RouteFor
<1>5. QED
  BY <1>1, <1>2, <1>3, <1>4, SourceStays, ResultStays

\* The delegated job's outputs are what the review knows of its own request.
LEMMA EndDelegatedInv ==
  ASSUME RunInv, TypeOK', EndDelegated
  PROVE  RunInv'
<1> USE DEF RunInv
<1>1. /\ phase = "review" /\ review.pc = "result" /\ review.place = "delegated"
      /\ phase' = "final" /\ review' = Idle
      /\ UNCHANGED <<setup, attempt, scans, gate, sound, src, uploaded, roles, broker, final>>
  BY DEF EndDelegated, ReviewStep
<1>2. RequestInv' /\ RoleInv' /\ Stands
  BY <1>1, BoundaryInv
<1>3. StageInv' /\ GateInv' /\ UnfiledInv'
  BY <1>1, IdleFacts DEF StageInv, InSource, GateInv, Genuine, Refused, UnfiledInv, Unfiled
<1>4. SourceInv'
  BY <1>1, <1>2, SourceStays
<1>5. ResultInv'
  <2> DEFINE out == ReviewResult(review)
  <2>1. out.status \in {"approved", "denied", "expired"} =>
          /\ broker[attempt].status = out.status /\ broker[attempt].gate = out.digest
    BY DEF ReviewResult, ReviewInv
  <2> HIDE DEF out
  <2>2. CASE bg' = [result |-> IF review.cancelled THEN "cancelled"
                             ELSE IF out.status = "approved" THEN "success" ELSE "failure",
                  status |-> out.status, delivered |-> out.delivered,
                  digest |-> out.digest, ran |-> attempt]
    BY <1>1, <2>1, <2>2 DEF ResultInv, TypeOK
  <2>3. CASE bg' = [NoReview EXCEPT !.ran = attempt,
                   !.result = IF review.cancelled THEN "cancelled" ELSE "failure"]
    BY <2>3, NothingAssumption DEF ResultInv, NoReview
  <2>4. QED
    BY <2>2, <2>3 DEF EndDelegated, out
<1>6. QED
  BY <1>1, <1>2, <1>3, <1>4, <1>5, IdleReview

LEMMA FinalGateInv ==
  ASSUME RunInv, TypeOK', FinalGate
  PROVE  RunInv'
<1> USE DEF RunInv
<1>1. /\ phase = "final" /\ phase' = "done" /\ final' = SourceOutcome(src, bg) /\ review' = Idle
      /\ UNCHANGED <<setup, attempt, scans, gate, sound, review, src, bg, uploaded, roles, broker>>
  BY DEF FinalGate, StageInv
<1>2. RequestInv' /\ RoleInv' /\ Stands
  BY <1>1, BoundaryInv
<1>3. StageInv' /\ GateInv' /\ UnfiledInv'
  BY <1>1, IdleFacts DEF StageInv, InSource, GateInv, Genuine, Refused, UnfiledInv, Unfiled
<1>4. QED
  BY <1>1, <1>2, <1>3, SourceStays, ResultStays, IdleReview

\* A re-run starts an attempt for which nothing has been filed, and keeps or resets
\* the outputs of the earlier ones as a whole.
LEMMA RerunInv ==
  ASSUME RunInv, TypeOK', NEW from \in {"scan", "delegated", "final"}, Rerun(from)
  PROVE  RunInv'
<1> USE DEF RunInv
<1>1. /\ phase = "done" /\ attempt' = attempt + 1 /\ phase' = from /\ final' = Blocked
      /\ review' = Idle /\ attempt <= attempt' /\ attempt \in Nat
      /\ UNCHANGED <<setup, scans, uploaded, roles, broker>>
  BY DEF Rerun, TypeOK, Attempts
<1>2. Settled /\ Stands
  BY <1>1 DEF Settled, Stands
<1>3. \A g : Genuine(g) => Genuine(g)'
  BY <1>1, GenuineStays
<1>4. RequestInv' /\ Unfiled'
  BY <1>1, <1>2, RequestStays DEF RequestInv, Unfiled, TypeOK, Attempts
<1>5. RoleInv'
  BY <1>1, <1>3 DEF RoleInv
<1>6. GateInv'
  BY <1>1, <1>3, IdleFacts DEF GateInv, Rerun
<1>7. StageInv'
  BY <1>1, IdleFacts DEF StageInv, InSource, Rerun
<1>8. UnfiledInv'
  BY <1>4 DEF UnfiledInv
<1>9. SourceInv'
  <2>1. CASE from = "scan"
    BY <2>1, NothingAssumption DEF Rerun, SourceInv, Unpublished, NoSource
  <2>2. CASE from # "scan"
    BY <1>1, <1>2, <2>2, SourceStays DEF Rerun
  <2>3. QED
    BY <2>1, <2>2
<1>10. ResultInv'
  <2>1. CASE from = "final"
    BY <1>2, <2>1, ResultStays DEF Rerun
  <2>2. CASE from # "final"
    BY <2>2, NothingAssumption DEF Rerun, ResultInv, NoReview
  <2>3. QED
    BY <2>1, <2>2
<1>11. QED
  BY <1>1, <1>4, <1>5, <1>6, <1>7, <1>8, <1>9, <1>10, IdleReview

-----------------------------------------------------------------------------
(* The theorems.                                                           *)

LEMMA InitInv == Init => RunInv
<1> SUFFICES ASSUME Init PROVE RunInv
  OBVIOUS
<1>1. TypeOK
  BY InitType
<1>2. \A a \in Attempts : broker[a] = Absent
  BY DEF Init
<1>3. attempt \in Attempts
  BY <1>1 DEF TypeOK
<1>4. StageInv /\ GateInv
  BY IdleFacts DEF Init, StageInv, InSource, GateInv
<1>5. SourceInv /\ ResultInv
  BY NothingAssumption DEF Init, SourceInv, Unpublished, NoSource, ResultInv, NoReview
<1>6. RequestInv /\ UnfiledInv /\ RoleInv
  BY <1>2, <1>3 DEF Init, RequestInv, Absent, UnfiledInv, Unfiled, RoleInv
<1>7. ReviewInv
  BY IdleFacts, NothingAssumption DEF Init, ReviewInv, Polling
<1>8. QED
  BY <1>1, <1>4, <1>5, <1>6, <1>7 DEF RunInv

LEMMA NextType == TypeOK /\ [Next]_vars => TypeOK'
BY SourceType, ReviewStepType, OtherType DEF Next, vars, TypeOK

LEMMA NextInv ==
  ASSUME RunInv, [Next]_vars
  PROVE  RunInv'
<1>1. TypeOK'
  BY NextType DEF RunInv
<1>2. CASE SourceJobs
  BY <1>1, <1>2, ScanInv, EvaluateNothingInv, EvaluateInv, EnforceInv DEF SourceJobs
<1>3. CASE LoseSource \/ FinalGate
  BY <1>1, <1>3, LoseSourceInv, FinalGateInv
<1>4. CASE ReviewSteps \/ Cancel
  BY <1>1, <1>4, StartDelegatedInv, ExamineInv, AssumeRoleInv, RequestStepInv, PollInv,
     FetchStatusInv, EndInJobInv, EndDelegatedInv DEF ReviewSteps
<1>5. CASE \E from \in {"scan", "delegated", "final"} : Rerun(from)
  BY <1>1, <1>5, RerunInv
<1>6. CASE Tick \/ \E a \in Attempts : Finalize(a) \/ \E d \in {"approve", "deny"} : Decide(a, d)
  BY <1>1, <1>6, BrokerStepInv
<1>7. CASE UNCHANGED vars
  <2>1. Stands /\ UNCHANGED <<setup, attempt, scans, gate, src, bg, roles, broker>>
    BY <1>7 DEF vars, Stands
  <2>2. StageInv' /\ GateInv' /\ UnfiledInv'
    BY <1>7 DEF RunInv, vars, StageInv, InSource, GateInv, Genuine, Refused, UnfiledInv, Unfiled
  <2>3. RequestInv' /\ RoleInv' /\ SourceInv' /\ ResultInv'
    BY <1>1, <2>1, BoundaryInv, SourceStays, ResultStays DEF RunInv
  <2>4. ReviewInv'
    BY <1>7 DEF RunInv, vars, ReviewInv, Accepted, Genuine, Refused, RouteFor
  <2>5. QED
    BY <1>1, <2>2, <2>3, <2>4 DEF RunInv
<1>8. QED
  BY <1>2, <1>3, <1>4, <1>5, <1>6, <1>7 DEF Next

\* Every variable keeps to what the jobs and the broker can write in it.
THEOREM TypeCorrect == Spec => []TypeOK
<1>1. TypeOK /\ [Next]_vars => TypeOK'
  BY NextType
<1>2. QED
  BY <1>1, InitType, PTL DEF Spec

\* The invariant that the workflow run's properties rest on.
THEOREM Safe == Spec => []RunInv
<1>1. RunInv /\ [Next]_vars => RunInv'
  BY NextInv
<1>2. QED
  BY <1>1, InitInv, PTL DEF Spec

\* What the final gate may make of the outputs it reads (decideSourceGate).
LEMMA Verdicts ==
  /\ SourceOutcome(src, bg).override = "approved" =>
       /\ src.verdict = "BLOCK" /\ src.delegated /\ \A c \in Controls : src.controls[c] = "success"
       /\ bg.result = "success" /\ bg.status = "approved" /\ bg.digest = src.digest
       /\ src.digest # Nothing
  /\ SourceOutcome(src, bg).override = "in-job" =>
       src.result = "success" /\ src.verdict = "BLOCK" /\ src.mode = "enforce"
  /\ SourceOutcome(src, bg).outcome = "pass" =>
       src.result = "success" /\ (src.verdict = "PASS" \/ src.mode = "log-only")
BY NothingAssumption DEF SourceOutcome, Blocked

LEMMA GreenFollows ==
  ASSUME RunInv
  PROVE  GreenIsDeserved
<1> USE DEF RunInv
<1>1. /\ bg.status \in {"approved", "denied", "expired"} =>
           broker[bg.ran].status = bg.status /\ broker[bg.ran].gate = bg.digest
      /\ bg.result = "success" => bg.status = "approved"
  BY DEF ResultInv
<1>2. CASE phase # "done"
  BY <1>1, <1>2, NothingAssumption DEF GreenIsDeserved, StageInv, Blocked
<1>3. CASE phase = "done"
  <2>1. final = SourceOutcome(src, bg)
    BY <1>3 DEF StageInv
  <2>2. ASSUME final.override = "approved" PROVE Backs(broker[bg.ran], src.digest)
    <3>1. /\ src.delegated /\ bg.status = "approved" /\ bg.digest = src.digest
          /\ \A c \in Controls : src.controls[c] = "success"
      BY <2>1, <2>2, Verdicts
    <3>2. Published(src)
      BY <3>1 DEF SourceInv, Unpublished
    <3>3. bg.ran \in Attempts /\ broker[bg.ran].status = "approved"
          /\ broker[bg.ran].gate = src.digest
      BY <3>1 DEF ResultInv
    <3>4. Filing(broker[bg.ran])
      BY <3>3 DEF RequestInv
    <3>5. src.digest.blocked \subseteq EligibleRules /\ ~src.digest.bootstrap
      BY <3>3, <3>4, GateFacts DEF Filing, Overridable, Genuine, Refused
    <3>6. \A c \in Controls : scans[c] = "success"
      BY <3>1, <3>2 DEF Published, ControlResult
    <3>7. QED
      BY <3>3, <3>5, <3>6 DEF Backs
  <2>3. ASSUME final.override = "in-job" PROVE Backs(broker[src.digest.made], src.digest)
    <3>1. src.result = "success" /\ src.verdict = "BLOCK" /\ src.mode = "enforce"
      BY <2>1, <2>3, Verdicts
    <3>2. Published(src) /\ Earned
      BY <3>1 DEF SourceInv, Unpublished, Published
    <3>3. QED
      BY <3>1, <3>2 DEF Published, Earned
  <2>4. ASSUME final.outcome = "pass", setup.mode # "log-only"
        PROVE  /\ gate # Nothing /\ Trusted(gate) /\ gate.blocked = {}
               /\ \A c \in Controls : scans[c] = "success"
    <3>1. src.result = "success" /\ (src.verdict = "PASS" \/ src.mode = "log-only")
      BY <2>1, <2>4, Verdicts
    <3>2. Published(src) /\ Earned
      BY <3>1 DEF SourceInv, Unpublished, Published
    <3>3. PublishedVerdict = "PASS"
      BY <2>4, <3>1, <3>2 DEF Published
    <3>4. gate # Nothing /\ gate.blocked = {}
      BY <3>3 DEF PublishedVerdict, Verdict
    <3>5. QED
      BY <3>2, <3>4 DEF Earned, Trusted
  <2>5. QED
    BY <1>1, <2>2, <2>3, <2>4 DEF GreenIsDeserved
<1>4. QED
  BY <1>2, <1>3

\* A red gate turns green only through the approval of the very gate that was
\* evaluated, and what the delegated job reports is the broker's word for good
\* (final-gate.mjs decideSourceGate, break-glass-result.mjs deriveBreakGlassResult).
THEOREM GreenIsEarned == Spec => []GreenIsDeserved
<1>1. RunInv => GreenIsDeserved
  BY GreenFollows
<1>2. QED
  BY <1>1, Safe, PTL

\* No approver is asked and no role assumed for a gate that is not overridable;
\* fabricated findings keep away from production's role and from its function as the
\* inputs write it, and in the delegated job under any spelling
\* (break-glass-evidence.mjs revalidateGateForBreakGlass, resolveBrokerRoute).
THEOREM NoCredentialUnasked == Spec => []CredentialsAreGuarded
<1>1. RunInv => CredentialsAreGuarded
  BY DEF RunInv, RequestInv, Filing, RoleInv, CredentialsAreGuarded
<1>2. QED
  BY <1>1, Safe, PTL

\* A delegated request is filed for the evaluated gate, whatever evidence other
\* attempts left in the run's artifacts (break-glass-evidence.mjs).
THEOREM AskedForTheEvaluated == Spec => EvaluatedGateIsAskedFor
<1>1. ASSUME RunInv, [Next]_vars, NEW a \in Attempts, broker[a].status = "absent",
             broker'[a].status # "absent", review.place = "delegated"
      PROVE  broker'[a].gate = src.digest
  <2>1. broker[a] = Absent
    BY <1>1 DEF RunInv, RequestInv
  <2>2. ~Settled
    BY <1>1, <2>1 DEF Settled, Absent
  <2>3. ~(\/ UNCHANGED broker \/ Tick \/ FetchStatus
          \/ \E b \in Attempts : Finalize(b) \/ \E d \in {"approve", "deny"} : Decide(b, d))
    BY <1>1, <2>2, BrokerSteps DEF RunInv
  <2>4. Request
    BY <1>1, <2>3 DEF Next, vars, SourceJobs, Scan, EvaluateNothing, Evaluate, Enforce, LoseSource,
       ReviewSteps, StartDelegated, Examine, AssumeRole, StartPoll, CheckDeadline, Wake, ExitPoll,
       EndInJob, EndDelegated, Cancel, OnlyReview, FinalGate, Rerun
  <2>5. review.pc = "request" /\ broker'[a].gate = review.gate
    BY <1>1, <2>3, <2>4, RequestEffect DEF RunInv, TypeOK, Filed
  <2>6. QED
    BY <1>1, <2>5 DEF RunInv, ReviewInv, Accepted
<1>2. RunInv /\ [Next]_vars =>
        [\A a \in Attempts :
           /\ broker[a].status = "absent" /\ broker'[a].status # "absent"
           /\ review.place = "delegated"
           => broker'[a].gate = src.digest]_vars
  BY <1>1
<1>3. QED
  BY <1>2, Safe, PTL DEF Spec, EvaluatedGateIsAskedFor

-----------------------------------------------------------------------------
(* The broker's side refines the abstract life cycle.                      *)

StatusOf == [a \in Attempts |-> broker[a].status]
Choices == [a \in Attempts |-> broker[a].decision]

\* What one step does to one request, seen from the life cycle.
LifeStep(a) ==
  LET old == broker[a] new == broker'[a] IN
  \/ new.status = old.status /\ new.decision = old.decision
  \/ old.status = "absent" /\ new.status = "pending" /\ new.decision = old.decision
  \/ old.status = "pending" /\ new.status = "expired" /\ new.decision = old.decision
  \/ old.status = "pending" /\ new.status = "processing" /\ new.decision \in {"approve", "deny"}
  \/ /\ old.status = "processing" /\ new.status = Finalized(old.decision)
     /\ new.decision = old.decision

LEMMA OneLife ==
  ASSUME NEW a \in Attempts, LifeStep(a),
         \A b \in Attempts \ {a} :
           broker'[b].status = broker[b].status /\ broker'[b].decision = broker[b].decision
  PROVE  [Lifecycle!Next]_(Lifecycle!vars)
<1> DEFINE st == broker[a].status  stN == broker'[a].status
           ch == broker[a].decision  chN == broker'[a].decision
<1>1. /\ StatusOf' = [StatusOf EXCEPT ![a] = stN] /\ Choices' = [Choices EXCEPT ![a] = chN]
      /\ StatusOf[a] = st /\ Choices[a] = ch
  BY DEF StatusOf, Choices
<1>2. chN = ch => Choices' = Choices
  BY DEF Choices
<1>3. CASE stN = st /\ chN = ch
  <2>1. StatusOf' = StatusOf
    BY <1>3 DEF StatusOf
  <2>2. Choices' = Choices
    BY <1>3 DEF Choices
  <2>3. QED
    BY <2>1, <2>2 DEF Lifecycle!vars, StatusOf, Choices
<1>4. CASE st = "absent" /\ stN = "pending" /\ chN = ch
  <2>1. Lifecycle!File(a)
    BY <1>1, <1>2, <1>4 DEF Lifecycle!File, Lifecycle!Move, StatusOf, Choices
  <2>2. QED
    BY <2>1 DEF Lifecycle!Next
<1>5. CASE st = "pending" /\ stN = "expired" /\ chN = ch
  <2>1. Lifecycle!Expire(a)
    BY <1>1, <1>2, <1>5 DEF Lifecycle!Expire, Lifecycle!Move, StatusOf, Choices
  <2>2. QED
    BY <2>1 DEF Lifecycle!Next
<1>6. CASE st = "pending" /\ stN = "processing" /\ chN \in {"approve", "deny"}
  <2>1. PICK d \in {"approve", "deny"} : chN = d
    BY <1>6
  <2>2. Lifecycle!Claim(a, d)
    BY <1>1, <1>6, <2>1 DEF Lifecycle!Claim, Lifecycle!Move, StatusOf, Choices
  <2>3. QED
    BY <2>2 DEF Lifecycle!Next
<1>7. CASE st = "processing" /\ stN = Finalized(ch) /\ chN = ch
  <2>1. Lifecycle!Finalize(a)
    BY <1>1, <1>2, <1>7 DEF Lifecycle!Finalize, Lifecycle!Move, StatusOf, Choices
  <2>2. QED
    BY <2>1 DEF Lifecycle!Next
<1>8. QED
  BY <1>3, <1>4, <1>5, <1>6, <1>7 DEF LifeStep

\* Only one request moves at a time, and time moves none.
LEMMA LifeNext ==
  ASSUME RunInv, [Next]_vars
  PROVE  [Lifecycle!Next]_(Lifecycle!vars)
<1> USE DEF RunInv
<1>1. ASSUME \A a \in Attempts : /\ broker'[a].status = broker[a].status
                                 /\ broker'[a].decision = broker[a].decision
      PROVE  [Lifecycle!Next]_(Lifecycle!vars)
  BY <1>1 DEF Lifecycle!vars
<1>2. attempt \in Attempts /\ broker \in [Attempts -> Requests]
  BY DEF TypeOK
<1>3. CASE Request
  <2>1. broker[attempt] = Absent /\ (broker' = broker \/ broker' = [broker EXCEPT ![attempt] = Filed])
    BY <1>3, RequestEffect DEF UnfiledInv, Unfiled, RequestInv, TypeOK
  <2>2. LifeStep(attempt)
    BY <1>2, <2>1 DEF LifeStep, Absent, Filed
  <2>3. QED
    BY <1>2, <2>1, <2>2, OneLife
<1>4. CASE FetchStatus
  <2>1. \/ broker' = broker
        \/ /\ broker[attempt].status = "pending"
           /\ broker' = [broker EXCEPT ![attempt].status = "expired"]
    BY <1>4, FetchStatusEffect
  <2>2. LifeStep(attempt)
    BY <1>2, <2>1 DEF LifeStep, Requests
  <2>3. QED
    BY <1>2, <2>1, <2>2, OneLife
<1>5. CASE Tick
  BY <1>1, <1>5, TickEffect
<1>6. ASSUME NEW a \in Attempts, NEW d \in {"approve", "deny"}, Finalize(a) \/ Decide(a, d)
      PROVE  [Lifecycle!Next]_(Lifecycle!vars)
  <2>1. \A b \in Attempts \ {a} : broker'[b] = broker[b]
    BY <1>2, <1>6 DEF Finalize, Decide
  <2>2. LifeStep(a)
    BY <1>2, <1>6 DEF Finalize, Decide, LifeStep, Requests
  <2>3. QED
    BY <2>1, <2>2, OneLife
<1>7. CASE UNCHANGED broker
  BY <1>1, <1>7
<1>8. QED
  BY <1>3, <1>4, <1>5, <1>6, <1>7 DEF Next, vars, SourceJobs, Scan, EvaluateNothing, Evaluate,
     Enforce, LoseSource, ReviewSteps, StartDelegated, Examine, AssumeRole, StartPoll,
     CheckDeadline, Wake, ExitPoll, EndInJob, EndDelegated, Cancel, OnlyReview, FinalGate, Rerun

LEMMA LifeInit == Init => Lifecycle!Init
BY DEF Init, Absent, Lifecycle!Init

\* What the workflow makes of its requests, over every re-run, follows the life cycle
\* that the broker is proved to implement: whatever holds here of a decision holds
\* with that broker (break-glass-notify.mjs, break-glass-poll.mjs).
THEOREM Refines == Spec => LifecycleSpec
<1>1. RunInv /\ [Next]_vars => [Lifecycle!Next]_(Lifecycle!vars)
  BY LifeNext
<1>2. QED
  BY <1>1, LifeInit, Safe, PTL DEF Spec, LifecycleSpec, Lifecycle!Spec

=============================================================================
