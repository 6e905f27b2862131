-------------------------- MODULE BrokerRefinement --------------------------
(***************************************************************************)
(* The broker implements RequestLifecycle, proved for every instance: each *)
(* step of Broker is one step of the life cycle of one request, or leaves  *)
(* all life cycles alone.                                                  *)
(*                                                                         *)
(* And who decided: every decision in the table is that of a click by an   *)
(* approver of the request's own repository, made inside the approval      *)
(* window; and a claim is held by a click that will finalize it unless an  *)
(* invocation failed.                                                      *)
(***************************************************************************)
EXTENDS BrokerSafety

-----------------------------------------------------------------------------
(* Frames: one step concerns the life of one request.                      *)

LEMMA OneTableEntry ==
  ASSUME SafeInv, NEW r \in Requests, NEW i, TableBecomes(r, i)
  PROVE  \A q \in Requests \ {r} : table'[q] = table[q]
BY Entry DEF SafeInv

LEMMA OneRequest ==
  ASSUME SafeInv, [Next]_vars
  PROVE  \/ UNCHANGED <<table, notify>>
         \/ \E r \in Requests : \A q \in Requests \ {r} :
              table'[q] = table[q] /\ notify'[q] = notify[q]
<1> USE DEF SafeInv
<1>1. CASE NotifyMove
  <2>1. PICK r \in Requests :
          NotifyStep(r) \/ NotifyStops(r) \/ \E t \in Tokens : StartNotify(r, t)
    BY <1>1 DEF NotifyMove
  <2>2. \E l : NotifyBecomes(r, l)
    BY <2>1 DEF NotifyStep, StartNotify, Authenticate, PutPending, PostMessage, SetSlackRef, Rollback,
                NotifyStops
  <2>3. UNCHANGED table \/ \E i : TableBecomes(r, i)
    BY <2>1 DEF NotifyStep, StartNotify, Authenticate, PutPending, PostMessage, SetSlackRef, Rollback,
                NotifyStops
  <2>4. QED
    BY <2>2, <2>3, NotifyEntry, OneTableEntry
<1>2. CASE UNCHANGED notify
  <2>1. ASSUME NEW r \in Requests, NEW i, TableBecomes(r, i)
        PROVE  \E u \in Requests : \A q \in Requests \ {u} :
                 table'[q] = table[q] /\ notify'[q] = notify[q]
    BY <1>2, <2>1, OneTableEntry
  <2>2. CASE \E c \in Clicks : ExpireByClick(c) \/ Claim(c) \/ Finalize(c)
    <3>1. PICK c \in Clicks : ExpireByClick(c) \/ Claim(c) \/ Finalize(c)
      BY <2>2
    <3>2. click[c].req \in Requests
      BY <3>1 DEF ExpireByClick, Claim, Finalize, TypeInv, LocalsKnown
    <3>3. UNCHANGED table \/ \E i : TableBecomes(click[c].req, i)
      BY <3>1 DEF ExpireByClick, Claim, Finalize
    <3>4. QED
      BY <1>2, <2>1, <3>2, <3>3
  <2>3. CASE \E w \in Workers : ClaimSideEffects(w)
    <3>1. PICK w \in Workers : ClaimSideEffects(w)
      BY <2>3
    <3>2. worker[w].req \in Requests
      BY <3>1 DEF ClaimSideEffects, TypeInv, LocalsKnown
    <3>3. UNCHANGED table \/ \E i : TableBecomes(worker[w].req, i)
      BY <3>1 DEF ClaimSideEffects
    <3>4. QED
      BY <1>2, <2>1, <3>2, <3>3
  <2>4. CASE \E p \in Polls : ExpireByPoll(p)
    <3>1. PICK p \in Polls : ExpireByPoll(p)
      BY <2>4
    <3>2. poll[p].req \in Requests
      BY <3>1 DEF ExpireByPoll, TypeInv, LocalsKnown
    <3>3. \E i : TableBecomes(poll[p].req, i)
      BY <3>1 DEF ExpireByPoll
    <3>4. QED
      BY <1>2, <2>1, <3>2, <3>3
  <2>5. CASE \E r \in Requests : PutPending(r) \/ SetSlackRef(r) \/ Rollback(r)
    <3>1. PICK r \in Requests : PutPending(r) \/ SetSlackRef(r) \/ Rollback(r)
      BY <2>5
    <3>2. UNCHANGED table \/ \E i : TableBecomes(r, i)
      BY <3>1 DEF PutPending, SetSlackRef, Rollback
    <3>3. QED
      BY <1>2, <2>1, <3>2
  <2>6. QED
    BY <1>2, <2>2, <2>3, <2>4, <2>5, TableFrame DEF TableWrite
<1>3. QED
  BY <1>1, <1>2, Moves, ClickFrame, WorkerFrame, PollFrame, EnvironmentFrame

\* Only rollback withdraws a request, and only a pending one.
LEMMA Withdrawing ==
  ASSUME SafeInv, [Next]_vars, NEW r \in Requests
  PROVE  /\ notify[r].pc = "withdrawn" => notify'[r].pc = "withdrawn"
         /\ notify'[r].pc = "withdrawn" /\ notify[r].pc # "withdrawn" =>
              table[r].status = "pending" /\ table'[r] = NoItem
<1> USE DEF SafeInv
<1>1. CASE notify'[r] = notify[r]
  BY <1>1
<1>2. CASE notify'[r] # notify[r]
  <2>1. NotifyMove
    BY <1>2, Moves, ClickFrame, WorkerFrame, PollFrame, EnvironmentFrame
  <2>2. PICK q \in Requests :
          NotifyStep(q) \/ NotifyStops(q) \/ \E t \in Tokens : StartNotify(q, t)
    BY <2>1 DEF NotifyMove
  <2>3. \E l : NotifyBecomes(q, l)
    BY <2>2 DEF NotifyStep, StartNotify, Authenticate, PutPending, PostMessage, SetSlackRef, Rollback,
                NotifyStops
  <2>4. q = r
    BY <1>2, <2>3, NotifyEntry
  <2>5. notify[r] \in NotifyLocals
    BY DEF TypeInv, TypeOK
  <2>6. CASE Rollback(r)
    <3>1. notify[r].pc = "rollback"
      BY <2>6 DEF Rollback
    <3>2. CASE CanDelete(table[r]) /\ TableBecomes(r, NoItem)
      BY <3>1, <3>2, Entry DEF CanDelete
    <3>3. CASE NotifyBecomes(r, Goto(notify[r], "failed"))
      BY <2>5, <3>1, <3>3, NotifyEntry, NotifyFacts DEF NotifyPcs
    <3>4. QED
      BY <2>6, <3>1, <3>2, <3>3 DEF Rollback
  <2>7. CASE ~Rollback(r)
    <3>1. notify[r].pc # "withdrawn"
      BY <2>2, <2>4, <2>7 DEF NotifyStep, StartNotify, Authenticate, PutPending, PostMessage,
                              SetSlackRef, NotifyStops, NotifyActive
    <3>2. CASE \E t \in Tokens : StartNotify(r, t)
      BY <3>1, <3>2, NotifyEntry DEF StartNotify
    <3>3. CASE ~(\E t \in Tokens : StartNotify(r, t))
      <4>1. \E x \in NotifyPcs \ {"withdrawn"} : NotifyBecomes(r, Goto(notify[r], x))
        BY <2>2, <2>4, <2>7, <3>3 DEF NotifyStep, Authenticate, PutPending, PostMessage, SetSlackRef,
                                      NotifyStops, NotifyPcs
      <4>2. QED
        BY <2>5, <3>1, <4>1, NotifyEntry, NotifyFacts
    <3>4. QED
      BY <3>2, <3>3
  <2>8. QED
    BY <2>6, <2>7
<1>3. QED
  BY <1>1, <1>2

\* An audit comment is posted by a step that changes nothing else of a life.
LEMMA Auditing ==
  ASSUME SafeInv, [Next]_vars, audit' # audit
  PROVE  UNCHANGED <<table, notify>> /\ \E w \in Workers : Comments(w)
<1>1. WorkerMove
  BY Moves, NotifyFrame, ClickFrame, PollFrame, EnvironmentFrame
<1>2. UNCHANGED notify
  BY <1>1, WorkerFrame
<1>3. UNCHANGED table
  BY <1>1 DEF WorkerMove, WorkerStep, Deliver, ClaimSideEffects, ReadDecided, PostEffects, WorkerStops
<1>4. \E w \in Workers : Comments(w)
  BY WorkerChanges DEF Drops, Marks, Reads
<1>5. QED
  BY <1>2, <1>3, <1>4

-----------------------------------------------------------------------------
(* Steps of one life.                                                      *)

Choice(r) == table[r].doc.decision

\* How a step may move the phase and the decision of request r.
LifeStep(r) ==
  \/ Phase(r)' = Phase(r) /\ Choice(r)' = Choice(r)
  \/ Phase(r) = "absent" /\ Phase(r)' = "pending" /\ Choice(r)' = Choice(r)
  \/ Phase(r) = "pending" /\ Phase(r)' \in {"withdrawn", "expired"} /\ Choice(r)' = Choice(r)
  \/ Phase(r) = "pending" /\ Phase(r)' = "processing" /\ Choice(r)' \in Decisions
  \/ /\ Phase(r) = "processing" /\ Phase(r)' = Choice(r).verdict /\ Choice(r)' = Choice(r)

LEMMA LifeSteps ==
  ASSUME SafeInv, SafeInv', [Next]_vars, NEW r \in Requests
  PROVE  LifeStep(r)
<1> USE DEF SafeInv
<1>1. /\ ItemStep(r) /\ Filing(r) /\ ItemSound(table[r]) /\ table[r] \in Items
      /\ ItemSound(table'[r]) /\ table'[r] \in Items
  BY TableMoves DEF FilingInv, TypeInv, TypeOK, ItemStep
<1>2. CASE notify[r].pc = "withdrawn"
  <2>1. table[r] = NoItem /\ notify'[r].pc = "withdrawn" /\ table'[r] = NoItem
    BY <1>1, <1>2, Withdrawing, NewItemFacts DEF Filing, ItemStep, Evolves, Unfiled
  <2>2. QED
    BY <1>2, <2>1 DEF LifeStep, Phase, Choice
<1>3. CASE notify[r].pc # "withdrawn" /\ notify'[r].pc = "withdrawn"
  <2>1. table[r].status = "pending" /\ table'[r] = NoItem
    BY <1>3, Withdrawing
  <2>2. Choice(r) = NoDecision /\ Choice(r)' = NoDecision
    BY <1>1, <2>1, NewItemFacts DEF ItemSound, Choice
  <2>3. QED
    BY <1>3, <2>1, <2>2 DEF LifeStep, Phase
<1>4. CASE notify[r].pc # "withdrawn" /\ notify'[r].pc # "withdrawn"
  <2>1. Phase(r) = table[r].status /\ Phase(r)' = table'[r].status
    BY <1>4 DEF Phase
  <2>2. CASE Unfiled(r)
    <3>1. table'[r] = NoItem \/ table'[r].status = "pending"
      BY <1>1, <2>2 DEF ItemStep, Filing
    <3>2. table[r] = NoItem
      BY <1>1, <2>2 DEF Filing
    <3>3. QED
      BY <1>1, <2>1, <3>1, <3>2, NewItemFacts DEF LifeStep, Choice, ItemSound
  <2>3. CASE ~Unfiled(r)
    <3>1. Evolves(table[r], table'[r]) /\ (table'[r].status = "absent" => table[r].status = "absent")
      BY <1>1, <1>4, <2>3 DEF ItemStep
    <3>2. /\ table[r].status \in Statuses /\ table'[r].status \in Statuses
          /\ Choice(r)' # NoDecision => Choice(r)' \in Decisions
      BY <1>1, ItemFacts DEF Items, Docs, Choice
    <3>3. QED
      BY <1>1, <2>1, <3>1, <3>2 DEF LifeStep, Choice, Evolves, ItemSound, Finals, Verdicts, Statuses
  <2>4. QED
    BY <2>2, <2>3
<1>5. QED
  BY <1>2, <1>3, <1>4

-----------------------------------------------------------------------------
(* Refinement.                                                             *)

Phases == [r \in Requests |-> Phase(r)]
Choices == [r \in Requests |-> Choice(r)]

\* A step of one life is the life cycle's step, when nothing else moves.
LEMMA OneLife ==
  ASSUME SafeInv, NEW r \in Requests, LifeStep(r), UNCHANGED audit,
         \A q \in Requests \ {r} : Phase(q)' = Phase(q) /\ Choice(q)' = Choice(q)
  PROVE  [Lifecycle!Next]_(Lifecycle!vars)
<1>1. /\ Phases' = [Phases EXCEPT ![r] = Phase(r)']
      /\ Choices' = [Choices EXCEPT ![r] = Choice(r)']
      /\ Phases[r] = Phase(r) /\ Choices[r] = Choice(r)
  BY DEF Phases, Choices
<1>2. Choice(r)' = Choice(r) => Choices' = Choices
  BY <1>1 DEF Choices
<1>3. CASE Phase(r)' = Phase(r) /\ Choice(r)' = Choice(r)
  <2>1. Phases' = Phases
    BY <1>1, <1>3 DEF Phases
  <2>2. QED
    BY <1>2, <1>3, <2>1 DEF Lifecycle!vars, Phases, Choices, Choice
<1>4. CASE Phase(r) = "absent" /\ Phase(r)' = "pending" /\ Choice(r)' = Choice(r)
  <2>1. Lifecycle!File(r)
    BY <1>1, <1>2, <1>4 DEF Lifecycle!File, Lifecycle!Move, Phases, Choices, Choice
  <2>2. QED
    BY <2>1 DEF Lifecycle!Next
<1>5. CASE Phase(r) = "pending" /\ Phase(r)' = "withdrawn" /\ Choice(r)' = Choice(r)
  <2>1. Lifecycle!Withdraw(r)
    BY <1>1, <1>2, <1>5 DEF Lifecycle!Withdraw, Lifecycle!Move, Phases, Choices, Choice
  <2>2. QED
    BY <2>1 DEF Lifecycle!Next
<1>6. CASE Phase(r) = "pending" /\ Phase(r)' = "expired" /\ Choice(r)' = Choice(r)
  <2>1. Lifecycle!Expire(r)
    BY <1>1, <1>2, <1>6 DEF Lifecycle!Expire, Lifecycle!Move, Phases, Choices, Choice
  <2>2. QED
    BY <2>1 DEF Lifecycle!Next
<1>7. CASE Phase(r) = "pending" /\ Phase(r)' = "processing" /\ Choice(r)' \in Decisions
  <2>1. PICK d \in Decisions : Choice(r)' = d
    BY <1>7
  <2>2. Phases' = [Phases EXCEPT ![r] = "processing"] /\ Choices' = [Choices EXCEPT ![r] = d]
    BY <1>1, <1>7, <2>1
  <2>3. Lifecycle!Claim(r, d)
    BY <1>1, <1>7, <2>2 DEF Lifecycle!Claim, Lifecycle!Move, Phases, Choices, Choice
  <2>4. QED
    BY <2>3 DEF Lifecycle!Next
<1>8. CASE Phase(r) = "processing" /\ Phase(r)' = Choice(r).verdict /\ Choice(r)' = Choice(r)
  <2>1. Lifecycle!Finalize(r)
    BY <1>1, <1>2, <1>8 DEF Lifecycle!Finalize, Lifecycle!Move, Phases, Choices, Choice, Verdict
  <2>2. QED
    BY <2>1 DEF Lifecycle!Next
<1>9. QED
  BY <1>3, <1>4, <1>5, <1>6, <1>7, <1>8 DEF LifeStep

LEMMA AuditLife ==
  ASSUME SafeInv, NEW w \in Workers, Comments(w), UNCHANGED <<table, notify>>
  PROVE  Lifecycle!Next
<1> DEFINE r == worker[w].req
<1>1. /\ r \in Requests /\ table[r].sideEffects /\ audit[r].n = 0
      /\ worker[w].doc.decision = table[r].doc.decision
  BY DEF Comments, SafeInv, WorkerInv
<1>2. ItemSound(table[r]) /\ Filing(r)
  BY <1>1 DEF SafeInv, FilingInv
<1>3. Phase(r) \in {"approved", "denied"}
  BY <1>2, <1>1, NewItemFacts DEF Phase, ItemSound, Filing, Verdicts
<1>4. UNCHANGED <<Phases, Choices>>
  BY DEF Phases, Choices, Phase, Choice
<1>5. audit' = [audit EXCEPT ![r] = [n |-> 1, of |-> table[r].doc.decision]]
  BY <1>1 DEF Comments
<1>6. Lifecycle!Audit(r)
  BY <1>1, <1>3, <1>4, <1>5 DEF Lifecycle!Audit, Phases, Choices, Choice
<1>7. QED
  BY <1>1, <1>6 DEF Lifecycle!Next

LEMMA LifeNext ==
  ASSUME SafeInv, SafeInv', [Next]_vars
  PROVE  [Lifecycle!Next]_(Lifecycle!vars)
<1>1. CASE audit' # audit
  BY <1>1, Auditing, AuditLife
<1>2. CASE UNCHANGED audit /\ UNCHANGED <<table, notify>>
  BY <1>2 DEF Lifecycle!vars, Phase
<1>3. CASE UNCHANGED audit /\ ~UNCHANGED <<table, notify>>
  <2>1. PICK r \in Requests : \A q \in Requests \ {r} :
          table'[q] = table[q] /\ notify'[q] = notify[q]
    BY <1>3, OneRequest
  <2>2. \A q \in Requests \ {r} : Phase(q)' = Phase(q) /\ Choice(q)' = Choice(q)
    BY <2>1 DEF Phase, Choice
  <2>3. QED
    BY <1>3, <2>2, LifeSteps, OneLife
<1>4. QED
  BY <1>1, <1>2, <1>3

LEMMA LifeInit == Init => Lifecycle!Init
<1> SUFFICES ASSUME Init PROVE Lifecycle!Init
  OBVIOUS
<1>1. \A r \in Requests : Phase(r) = "absent" /\ table[r].doc.decision = NoDecision
  BY NewItemFacts DEF Init, Phase, NoNotify
<1>2. QED
  BY <1>1 DEF Init, Lifecycle!Init

\* Whatever the interleaving of invocations, the faults and the redeliveries,
\* each request's phase, decision and audit comments follow the life cycle.
THEOREM Refines == Spec => LifecycleSpec
<1>1. SafeInv /\ SafeInv' /\ [Next]_vars => [Lifecycle!Next]_(Lifecycle!vars)
  BY LifeNext
<1>2. QED
  BY <1>1, LifeInit, Safe, PTL DEF Spec, LifecycleSpec, Lifecycle!Spec

-----------------------------------------------------------------------------
(* Who decided.                                                            *)

\* Past the lookup.
Passed == {"decide", "expire", "claim", "finalize", "enqueue"}

\* Past the conditional write that claims.
Claimant(l) == l.pc \in {"finalize", "enqueue", "done"}

\* Click c is the one whose decision request r carries.
Vouches(c, r) ==
  /\ Claimant(click[c]) /\ click[c].req = r /\ click[c].decision = Choice(r)
  /\ ~click[c].barred /\ click[c].at < table[r].expiresAt

\* A user off the list stays off it, so a barred click never passes the lookup.
BarredInv ==
  /\ \A c \in Clicks : click[c].pc \in {"read", "lookup"} /\ click[c].barred =>
       click[c].decision.by \notin ListFor(click[c].req)
  /\ \A c \in Clicks : click[c].pc \in Passed => ~click[c].barred

VouchInv == \A r \in Requests : Choice(r) # NoDecision => \E c \in Clicks : Vouches(c, r)

AuthInv == SafeInv /\ BarredInv /\ VouchInv

-----------------------------------------------------------------------------
(* One click moves at a time.                                              *)

ClickActs(c) ==
  ClickStep(c) \/ ClickStops(c) \/ \E r \in Requests, d \in Decisions : Press(c, r, d)

LEMMA OneClick ==
  ASSUME SafeInv, [Next]_vars, NEW c \in Clicks, click'[c] # click[c]
  PROVE  ClickActs(c)
<1>1. ClickMove
  BY Moves, NotifyFrame, WorkerFrame, PollFrame, EnvironmentFrame
<1>2. PICK k \in Clicks : ClickActs(k)
  BY <1>1 DEF ClickMove, ClickActs
<1>3. \E l : ClickBecomes(k, l)
  BY <1>2 DEF ClickActs, ClickStep, Press, ReadRequest, Lookup, Decide, ExpireByClick, Claim,
              Finalize, Enqueue, ClickStops, Answer
<1>4. k = c
  BY <1>3, ClickEntry DEF SafeInv
<1>5. QED
  BY <1>2, <1>4

LEMMA AnswerLeaves ==
  ASSUME SafeInv, NEW c \in Clicks, NEW o \in Outcomes, Answer(c, o)
  PROVE  /\ click'[c].pc = "done" /\ click'[c].req = click[c].req
         /\ click'[c].decision = click[c].decision
         /\ click'[c].barred = click[c].barred /\ click'[c].at = click[c].at
<1>1. click'[c] = Answered(click[c], o) /\ click[c] \in ClickLocals
  BY ClickEntry DEF Answer, SafeInv, TypeInv, TypeOK
<1>2. QED
  BY <1>1, ClickFacts DEF SameClick

\* A click that has answered or is past its claim keeps what it stood for.
LEMMA ClaimantStays ==
  ASSUME SafeInv, [Next]_vars, NEW c \in Clicks, Claimant(click[c])
  PROVE  /\ Claimant(click'[c])
         /\ click'[c].req = click[c].req /\ click'[c].decision = click[c].decision
         /\ click'[c].barred = click[c].barred /\ click'[c].at = click[c].at
<1>1. CASE click'[c] = click[c]
  BY <1>1
<1>2. CASE click'[c] # click[c]
  <2>1. ClickActs(c) /\ click[c] \in ClickLocals
    BY <1>2, OneClick DEF SafeInv, TypeInv, TypeOK
  <2>2. \/ ClickBecomes(c, Goto(click[c], "enqueue"))
        \/ \E o \in Outcomes : Answer(c, o)
    BY <2>1 DEF Claimant, ClickActs, ClickStep, Press, ReadRequest, Lookup, Decide, ExpireByClick,
                Claim, Finalize, Enqueue, ClickStops, Outcomes
  <2>3. CASE ClickBecomes(c, Goto(click[c], "enqueue"))
    <3>1. click'[c] = Goto(click[c], "enqueue")
      BY <2>3, ClickEntry DEF SafeInv
    <3>2. QED
      BY <2>1, <3>1, ClickFacts DEF SameClick, ClickPcs, Claimant
  <2>4. CASE \E o \in Outcomes : Answer(c, o)
    BY <2>4, AnswerLeaves DEF Claimant
  <2>5. QED
    BY <2>2, <2>3, <2>4
<1>3. QED
  BY <1>1, <1>2

-----------------------------------------------------------------------------
(* The lookup.                                                             *)

ListNext(r) == approvers'[RepoOf[RunOf[notify'[r].token]]]

\* Lists only shrink, and a filed request keeps its repository.
LEMMA ListsShrink ==
  ASSUME SafeInv, [Next]_vars, NEW r \in Requests, ~Unfiled(r), NEW u, u \notin ListFor(r)
  PROVE  u \notin ListNext(r)
<1>1. notify'[r].token = notify[r].token /\ notify[r].token \in Tokens
  BY FiledStays DEF SafeInv, TypeInv, LocalsKnown, Unfiled
<1>2. RepoOfRequest(r) \in Repos
  BY <1>1, BrokerAssumption DEF RepoOfRequest, BrokerAssumption
<1>3. \A n \in Repos : approvers'[n] \subseteq approvers[n]
  <2>1. CASE \E n \in Repos, v \in Users : RemoveApprover(n, v)
    BY <2>1 DEF RemoveApprover, SafeInv, TypeInv, TypeOK
  <2>2. CASE ~(\E n \in Repos, v \in Users : RemoveApprover(n, v))
    BY <2>2, Moves, NotifyFrame, ClickFrame, WorkerFrame, PollFrame
    DEF Environment, Tick, vars
  <2>3. QED
    BY <2>1, <2>2
<1>4. QED
  BY <1>1, <1>2, <1>3 DEF ListFor, ListNext, RepoOfRequest

LEMMA BarredNext ==
  ASSUME SafeInv, BarredInv, [Next]_vars
  PROVE  BarredInv'
<1> USE DEF SafeInv
<1>1. ASSUME NEW c \in Clicks
      PROVE  /\ click'[c].pc \in {"read", "lookup"} /\ click'[c].barred =>
                  click'[c].decision.by \notin ListNext(click'[c].req)
             /\ click'[c].pc \in Passed => ~click'[c].barred
  <2> DEFINE r == click[c].req
  <2>0. /\ click[c] \in ClickLocals
        /\ click[c].pc # "idle" => r \in Requests /\ ~Unfiled(r)
    BY DEF TypeInv, TypeOK, LocalsKnown, ClickInv
  <2>1. CASE click'[c] = click[c]
    <3>1. CASE click[c].pc \in {"read", "lookup"} /\ click[c].barred
      <4>1. click[c].decision.by \notin ListFor(r) /\ r \in Requests /\ ~Unfiled(r)
        BY <2>0, <3>1 DEF BarredInv
      <4>2. click[c].decision.by \notin ListNext(r)
        BY <4>1, ListsShrink
      <4>3. QED
        BY <2>1, <3>1, <4>2 DEF Passed, ListNext, RepoOfRequest
    <3>2. QED
      BY <2>1, <3>1 DEF BarredInv
  <2>2. CASE \E q \in Requests, d \in Decisions : Press(c, q, d)
    <3>1. PICK q \in Requests, d \in Decisions : Press(c, q, d)
      BY <2>2
    <3> DEFINE b == d.by \notin approvers[RepoOfRequest(q)]
    <3>2. click'[c] = Pressed(q, d, b) /\ UNCHANGED <<approvers, notify>>
      BY <3>1, ClickEntry DEF Press
    <3>3. click'[c].pc = "read" /\ click'[c].req = q /\ click'[c].decision = d /\ click'[c].barred = b
      <4>1. b \in BOOLEAN
        OBVIOUS
      <4> HIDE DEF b
      <4>2. QED
        BY <3>2, <4>1, ClickFacts
    <3>4. QED
      BY <3>2, <3>3 DEF Passed, ListNext, RepoOfRequest
  <2>3. CASE ReadRequest(c)
    <3>1. click[c].pc = "read" /\ UNCHANGED <<approvers, notify>>
      BY <2>3 DEF ReadRequest
    <3>2. CASE Answer(c, "unauthorized")
      BY <3>2, AnswerLeaves DEF Outcomes, Passed
    <3>3. CASE ClickBecomes(c, Loaded(click[c], table[r].doc))
      <4>1. table[r].doc \in Docs
        BY <2>0, <3>1, ItemFacts DEF TypeInv, TypeOK
      <4>2. click'[c] = Loaded(click[c], table[r].doc)
        BY <3>3, ClickEntry
      <4>3. /\ click'[c].pc = "lookup" /\ click'[c].req = r
            /\ click'[c].decision = click[c].decision /\ click'[c].barred = click[c].barred
        BY <2>0, <4>1, <4>2, ClickFacts DEF SameClick
      <4>4. QED
        BY <3>1, <4>3 DEF BarredInv, Passed, ListFor, ListNext, RepoOfRequest
    <3>4. QED
      BY <2>3, <3>2, <3>3 DEF ReadRequest
  <2>4. CASE Lookup(c)
    <3>1. click[c].pc = "lookup"
      BY <2>4 DEF Lookup
    <3>2. CASE Answer(c, "unauthorized")
      BY <3>2, AnswerLeaves DEF Outcomes, Passed
    <3>3. CASE click[c].decision.by \in ListFor(r) /\ ClickBecomes(c, Goto(click[c], "decide"))
      <4>1. click'[c].pc = "decide" /\ click'[c].barred = click[c].barred
        BY <2>0, <3>3, ClickEntry, ClickFacts DEF SameClick, ClickPcs
      <4>2. QED
        BY <3>1, <3>3, <4>1 DEF BarredInv
    <3>4. QED
      BY <2>4, <3>2, <3>3 DEF Lookup
  \* Later steps carry the flag along.
  <2>5. CASE Decide(c) \/ ExpireByClick(c) \/ Claim(c) \/ Finalize(c) \/ Enqueue(c) \/ ClickStops(c)
    <3>1. now \in Nat /\ (click[c].pc # "idle" => click[c].decision \in Decisions)
      BY Bounds DEF TypeInv, TypeOK, LocalsKnown
    <3>2. CASE \E o \in Outcomes : Answer(c, o)
      BY <3>2, AnswerLeaves DEF Passed
    <3>3. CASE /\ click[c].pc \in Passed
               /\ \/ ClickBecomes(c, GotoAt(click[c], "expire", now))
                  \/ ClickBecomes(c, Decided(click[c], now))
                  \/ \E x \in ClickPcs \ {"read", "lookup"} : ClickBecomes(c, Goto(click[c], x))
      <4>1. \E l : /\ click'[c] = l /\ l.barred = click[c].barred
                   /\ l.pc \notin {"read", "lookup"}
        BY <2>0, <3>1, <3>3, ClickEntry, ClickFacts DEF SameClick, ClickPcs, Passed
      <4>2. QED
        BY <3>3, <4>1 DEF BarredInv
    <3>4. QED
      BY <2>5, <3>2, <3>3 DEF Decide, ExpireByClick, Claim, Finalize, Enqueue, ClickStops, Answer,
                              Outcomes, ClickPcs, Passed
  <2>6. QED
    BY <2>1, <2>2, <2>3, <2>4, <2>5, OneClick DEF ClickActs, ClickStep
<1>2. QED
  BY <1>1 DEF BarredInv, ListFor, ListNext, RepoOfRequest

-----------------------------------------------------------------------------
(* The claim.                                                              *)

\* Only a conditional claim puts a decision on a request.
LEMMA Claiming ==
  ASSUME SafeInv, SafeInv', [Next]_vars, NEW r \in Requests, Choice(r)' # Choice(r)
  PROVE  \E c \in Clicks :
           /\ Claim(c) /\ click[c].req = r /\ click[c].pc = "claim"
           /\ CanClaim(table[r], click[c].at)
           /\ click[c].doc = ClaimedDoc(table[r].doc, click[c].decision)
           /\ click[c].decision \in Decisions
           /\ table'[r] = Claimed(table[r], click[c].doc)
<1> USE DEF SafeInv
<1>1. Phase(r) = "pending" /\ Phase(r)' = "processing"
  BY LifeSteps DEF LifeStep
<1>2. table[r].status = "pending" /\ table'[r].status = "processing"
  BY <1>1 DEF Phase
<1>3. table[r] \in Items /\ ItemSound(table[r]) /\ Filing(r)
  BY DEF TypeInv, TypeOK, FilingInv
<1>4. ASSUME NEW q \in Requests, NEW i, TableBecomes(q, i)
      PROVE  q = r /\ table'[r] = i
  BY <1>2, <1>4, Entry
<1>5. ASSUME NEW q \in Requests, PutPending(q) \/ SetSlackRef(q) \/ Rollback(q) PROVE FALSE
  <2>1. CASE PutPending(q)
    <3>1. PICK window \in Timeouts : TableBecomes(q, PendingItem(now + window))
      BY <2>1 DEF PutPending
    <3>2. now + window \in Nat
      BY Bounds, BrokerAssumption DEF BrokerAssumption, TypeInv, TypeOK
    <3>3. QED
      BY <1>2, <1>4, <3>1, <3>2, NewItemFacts
  <2>2. CASE SetSlackRef(q)
    <3>1. TableBecomes(q, table[q]) \/ TableBecomes(q, Referenced(table[q]))
      BY <2>2 DEF SetSlackRef
    <3>2. QED
      BY <1>2, <1>3, <1>4, <3>1, WriteFacts
  <2>3. CASE Rollback(q)
    <3>1. UNCHANGED table \/ TableBecomes(q, NoItem)
      BY <2>3 DEF Rollback
    <3>2. QED
      BY <1>2, <1>4, <3>1, NewItemFacts
  <2>4. QED
    BY <1>5, <2>1, <2>2, <2>3
<1>6. ASSUME NEW c \in Clicks, ExpireByClick(c) PROVE FALSE
  <2>1. click[c].req \in Requests /\ ClickKnows(click[c], table[click[c].req])
    BY <1>6 DEF ExpireByClick, TypeInv, LocalsKnown, ClickInv
  <2>2. \/ TableBecomes(click[c].req, table[click[c].req])
        \/ TableBecomes(click[c].req, Expired(table[click[c].req], click[c].doc))
    BY <1>6 DEF ExpireByClick
  <2>3. click[c].req = r /\ click[c].doc = table[r].doc
    BY <1>2, <1>4, <1>6, <2>1, <2>2 DEF ExpireByClick, ClickKnows
  <2>4. QED
    BY <1>2, <1>3, <1>4, <2>2, <2>3, WriteFacts
<1>7. ASSUME NEW c \in Clicks, Finalize(c) PROVE FALSE
  <2>1. click[c].req \in Requests /\ table[click[c].req].status = "processing"
    BY <1>7 DEF Finalize, TypeInv, LocalsKnown, ClickInv, ClickKnows
  <2>2. UNCHANGED table \/ \E i : TableBecomes(click[c].req, i)
    BY <1>7 DEF Finalize
  <2>3. QED
    BY <1>2, <1>4, <2>1, <2>2
<1>8. ASSUME NEW w \in Workers, ClaimSideEffects(w) PROVE FALSE
  <2>1. worker[w].req \in Requests
    BY <1>8 DEF ClaimSideEffects, TypeInv, LocalsKnown
  <2>2. \/ UNCHANGED table
        \/ /\ CanDeliver(table[worker[w].req])
           /\ TableBecomes(worker[w].req, Delivered(table[worker[w].req]))
    BY <1>8 DEF ClaimSideEffects
  <2>3. QED
    BY <1>2, <1>4, <2>1, <2>2 DEF CanDeliver, Verdicts
<1>9. ASSUME NEW p \in Polls, ExpireByPoll(p) PROVE FALSE
  <2>1. poll[p].req \in Requests /\ PollKnows(poll[p], table[poll[p].req])
    BY <1>9 DEF ExpireByPoll, TypeInv, LocalsKnown, PollInv, Informed
  <2>2. \/ TableBecomes(poll[p].req, table[poll[p].req])
        \/ TableBecomes(poll[p].req, Expired(table[poll[p].req], poll[p].doc))
    BY <1>9 DEF ExpireByPoll
  <2>3. poll[p].req = r /\ poll[p].doc = table[r].doc
    BY <1>2, <1>4, <1>9, <2>1, <2>2 DEF ExpireByPoll, PollKnows
  <2>4. QED
    BY <1>2, <1>3, <1>4, <2>2, <2>3, WriteFacts
<1>10. PICK c \in Clicks : Claim(c)
  BY <1>2, <1>5, <1>6, <1>7, <1>8, <1>9, TableFrame DEF TableWrite
<1>11. /\ click[c].req \in Requests /\ click[c].pc = "claim" /\ click[c].decision \in Decisions
       /\ ClickKnows(click[c], table[click[c].req])
  BY <1>10 DEF Claim, TypeInv, LocalsKnown, ClickInv
<1>12. /\ CanClaim(table[click[c].req], click[c].at)
       /\ TableBecomes(click[c].req, Claimed(table[click[c].req], click[c].doc))
  BY <1>2, <1>10 DEF Claim
<1>13. click[c].req = r /\ table'[r] = Claimed(table[r], click[c].doc)
  BY <1>4, <1>11, <1>12
<1>14. QED
  BY <1>2, <1>10, <1>11, <1>12, <1>13 DEF ClickKnows

\* What the winner of the claim is after it.
LEMMA Winner ==
  ASSUME SafeInv, NEW c \in Clicks, Claim(c), CanClaim(table[click[c].req], click[c].at)
  PROVE  /\ Claimant(click'[c]) /\ click'[c].req = click[c].req
         /\ click'[c].decision = click[c].decision
         /\ click'[c].barred = click[c].barred /\ click'[c].at = click[c].at
         /\ NoFault => click'[c].pc = "finalize"
<1> USE DEF SafeInv
<1>1. click[c] \in ClickLocals
  BY DEF TypeInv, TypeOK
<1>2. CASE ClickBecomes(c, Goto(click[c], "finalize"))
  <2>1. click'[c] = Goto(click[c], "finalize")
    BY <1>2, ClickEntry
  <2>2. QED
    BY <1>1, <2>1, ClickFacts DEF SameClick, ClickPcs, Claimant
<1>3. CASE Answer(c, "duplicate") /\ Fault
  <2>1. ~NoFault
    BY <1>3 DEF Fault, NoFault, TypeInv, TypeOK
  <2>2. QED
    BY <1>3, <2>1, AnswerLeaves DEF Outcomes, Claimant
<1>4. QED
  BY <1>2, <1>3 DEF Claim

LEMMA VouchNext ==
  ASSUME SafeInv, SafeInv', BarredInv, VouchInv, [Next]_vars
  PROVE  VouchInv'
<1> USE DEF SafeInv
<1>1. ASSUME NEW r \in Requests, Choice(r)' # NoDecision
      PROVE  \E c \in Clicks : Vouches(c, r)'
  <2>1. CASE Choice(r)' # Choice(r)
    <3>1. PICK c \in Clicks :
            /\ Claim(c) /\ click[c].req = r /\ click[c].pc = "claim"
            /\ CanClaim(table[r], click[c].at)
            /\ click[c].doc = ClaimedDoc(table[r].doc, click[c].decision)
            /\ click[c].decision \in Decisions
            /\ table'[r] = Claimed(table[r], click[c].doc)
      BY <2>1, Claiming
    <3>2. /\ table'[r].doc.decision = click[c].decision
          /\ table'[r].expiresAt = table[r].expiresAt
      <4>1. table[r] \in Items /\ table[r].doc \in Docs
        BY ItemFacts DEF TypeInv, TypeOK
      <4>2. /\ ClaimedDoc(table[r].doc, click[c].decision).decision = click[c].decision
        BY <3>1, <4>1, DocFacts
      <4>3. /\ Claimed(table[r], click[c].doc).doc = click[c].doc
            /\ Claimed(table[r], click[c].doc).expiresAt = table[r].expiresAt
        BY <4>1 DEF Claimed, Items
      <4>4. QED
        BY <3>1, <4>2, <4>3
    <3>3. ~click[c].barred /\ click[c].at < table[r].expiresAt
      <4>1. ~click[c].barred
        BY <3>1 DEF BarredInv, Passed
      <4>2. table[r].expiresAt \in Nat /\ click[c].at \in Nat
        BY DEF TypeInv, TypeOK, Items, ClickLocals
      <4>3. QED
        BY <3>1, <4>1, <4>2 DEF CanClaim
    <3>4. QED
      BY <3>1, <3>2, <3>3, Winner DEF Vouches, Choice
  <2>2. CASE Choice(r)' = Choice(r)
    <3>1. PICK c \in Clicks : Vouches(c, r)
      BY <1>1, <2>2 DEF VouchInv
    <3>2. table'[r].expiresAt = table[r].expiresAt
      <4>1. ItemStep(r) /\ ItemSound(table[r]) /\ ItemSound(table'[r]) /\ Filing(r)
        BY TableMoves DEF ItemStep, FilingInv
      <4>2. table[r].status # "absent" /\ table'[r].status # "absent"
        BY <1>1, <2>2, <4>1 DEF ItemSound, Choice
      <4>3. QED
        BY <4>1, <4>2, NewItemFacts DEF ItemStep, Filing, Evolves
    <3>3. QED
      BY <2>2, <3>1, <3>2, ClaimantStays DEF Vouches, Choice
  <2>3. QED
    BY <2>1, <2>2
<1>2. QED
  BY <1>1 DEF VouchInv

\* Every decision in the table is that of a click on this request by a user on
\* the list of its own repository, on a clock reading inside its window.
THEOREM Authorized == Spec => []DecisionsAreAuthorized
<1>1. Init => AuthInv
  <2> SUFFICES ASSUME Init PROVE AuthInv
    OBVIOUS
  <2>1. BarredInv
    BY DEF Init, BarredInv, NoClick, Passed
  <2>2. VouchInv
    BY NewItemFacts DEF Init, VouchInv, Choice
  <2>3. QED
    BY <2>1, <2>2, SafeInit DEF AuthInv
<1>2. AuthInv /\ [Next]_vars => AuthInv'
  BY SafeNext, BarredNext, VouchNext DEF AuthInv
<1>3. AuthInv => DecisionsAreAuthorized
  BY DEF AuthInv, VouchInv, Vouches, Choice, DecisionsAreAuthorized
<1>4. QED
  BY <1>1, <1>2, <1>3, PTL DEF Spec

-----------------------------------------------------------------------------
(* The way from the claim to the final status.                             *)

LEMMA HolderNext ==
  ASSUME SafeInv, SafeInv', ProcessingHasItsClick, [Next]_vars
  PROVE  ProcessingHasItsClick'
<1> USE DEF SafeInv
<1> SUFFICES ASSUME NEW r \in Requests, table'[r].status = "processing", faults' = 0
             PROVE  \E c \in Clicks : /\ click'[c].pc = "finalize" /\ click'[c].req = r
                                      /\ click'[c].decision = table'[r].doc.decision
  BY DEF ProcessingHasItsClick
<1>1. faults = 0 /\ ~Fault
  <2>1. faults \in Nat
    BY Bounds DEF TypeInv, TypeOK
  <2>2. ~Fault
    BY <2>1 DEF Fault
  <2>3. faults' = faults \/ Fault
    BY DEF Next, vars, NoFault, StartNotify, NotifyStep, Authenticate, PutPending, PostMessage,
           SetSlackRef, Rollback, NotifyStops, Press, ClickStep, ReadRequest, Lookup, Decide,
           ExpireByClick, Claim, Finalize, Enqueue, ClickStops, Deliver, WorkerStep, ClaimSideEffects,
           ReadDecided, PostEffects, WorkerStops, StartPoll, PollStep, AuthenticatePoll, ReadStatus,
           ExpireByPoll, RereadStatus, PollStops, RemoveApprover, Tick
  <2>4. QED
    BY <2>2, <2>3
<1>2. ItemSound(table[r]) /\ ItemSound(table'[r]) /\ ItemStep(r) /\ Filing(r) /\ table[r] \in Items
  BY TableMoves DEF ItemStep, FilingInv, TypeInv, TypeOK
<1>3. CASE Choice(r)' # Choice(r)
  <2>1. PICK c \in Clicks :
          /\ Claim(c) /\ click[c].req = r
          /\ CanClaim(table[r], click[c].at)
          /\ click[c].doc = ClaimedDoc(table[r].doc, click[c].decision)
          /\ click[c].decision \in Decisions
          /\ table'[r] = Claimed(table[r], click[c].doc)
    BY <1>3, Claiming
  <2>2. table'[r].doc.decision = click[c].decision
    <3>1. table[r].doc \in Docs
      BY <1>2, ItemFacts
    <3>2. ClaimedDoc(table[r].doc, click[c].decision).decision = click[c].decision
      BY <2>1, <3>1, DocFacts
    <3>3. Claimed(table[r], click[c].doc).doc = click[c].doc
      BY <1>2 DEF Claimed, Items
    <3>4. QED
      BY <2>1, <3>2, <3>3
  <2>3. NoFault
    BY <1>1, <2>1 DEF Claim, NoFault
  <2>4. QED
    BY <2>1, <2>2, <2>3, Winner
<1>4. CASE Choice(r)' = Choice(r)
  <2>1. table[r].status = "processing"
    <3>1. Choice(r) # NoDecision
      BY <1>2, <1>4 DEF ItemSound, Choice
    <3>2. table[r].status \notin {"absent", "pending", "expired"}
      BY <1>2, <3>1 DEF ItemSound, Choice
    <3>3. ~Unfiled(r)
      BY <1>2, <3>2, NewItemFacts DEF Filing
    <3>4. table[r].status \notin Verdicts
      BY <1>2, <3>3 DEF ItemStep, Evolves, Finals, Verdicts
    <3>5. QED
      BY <1>2, <3>2, <3>4 DEF Items, Statuses, Verdicts
  <2>2. PICK c \in Clicks : /\ click[c].pc = "finalize" /\ click[c].req = r
                            /\ click[c].decision = table[r].doc.decision
    BY <1>1, <2>1 DEF ProcessingHasItsClick
  <2>3. click'[c] = click[c]
    <3>1. SUFFICES ASSUME click'[c] # click[c] PROVE FALSE
      OBVIOUS
    <3>2. ClickActs(c)
      BY <3>1, OneClick
    <3>3. Finalize(c)
      BY <1>1, <2>2, <3>2 DEF ClickActs, ClickStep, Press, ReadRequest, Lookup, Decide, ExpireByClick,
                              Claim, Enqueue, ClickStops
    <3>4. CanFinalize(table[r], click[c].decision.by)
      BY <1>2, <2>1, <2>2 DEF CanFinalize, ItemSound
    <3>5. TableBecomes(r, Finalized(table[r], FinalDoc(click[c].doc))) /\ click[c].doc = table[r].doc
      BY <2>2, <3>3, <3>4 DEF Finalize, ClickInv, ClickKnows
    <3>6. table'[r] = Finalized(table[r], FinalDoc(table[r].doc))
      BY <3>5, Entry
    <3>7. table'[r].status = table[r].doc.decision.verdict
      BY <1>2, <2>1, <3>6, WriteFacts
    <3>8. table[r].doc.decision \in Decisions
      BY <1>2, <2>1, ItemFacts DEF ItemSound, Docs
    <3>9. QED
      BY <3>7, <3>8, Distinct DEF Verdicts
  <2>4. QED
    BY <1>4, <2>2, <2>3 DEF Choice
<1>5. QED
  BY <1>3, <1>4

\* As long as nothing fails, a request in `processing' is about to be finalized
\* by the click that claimed it: no interleaving strands it.
THEOREM ClaimsHaveHolders == Spec => []ProcessingHasItsClick
<1>1. Init => SafeInv /\ ProcessingHasItsClick
  <2>1. Init => ProcessingHasItsClick
    BY NewItemFacts DEF Init, ProcessingHasItsClick
  <2>2. QED
    BY <2>1, SafeInit
<1>2. SafeInv /\ ProcessingHasItsClick /\ [Next]_vars => SafeInv' /\ ProcessingHasItsClick'
  BY SafeNext, HolderNext
<1>3. QED
  BY <1>1, <1>2, PTL DEF Spec

=============================================================================
