------------------------------- MODULE Broker -------------------------------
(***************************************************************************)
(* The break-glass broker (broker/): the CI function's notify and status   *)
(* handlers, the interactions function's click handler and its follow-up,  *)
(* all over one DynamoDB table of conditional writes.                      *)
(*                                                                         *)
(* Every store, Slack, GitHub or SSM call of a handler is a step of its    *)
(* own, so any interleaving of invocations is covered.  `notify', `click', *)
(* `worker' and `poll' hold the program counter and the locals of each     *)
(* invocation; `table', `spent', `live', `audit', `queue' and `approvers'  *)
(* are what the invocations share.                                         *)
(*                                                                         *)
(* Faults, at most MaxFaults of them:                                      *)
(*   - an invocation stops between two steps: the 20 s Lambda timeout, a   *)
(*     crash, or an exception the handler does not catch;                  *)
(*   - a conditional write is applied, its response is lost, and the SDK's *)
(*     retry fails on the condition the write itself made false;           *)
(*   - a call whose failure the handler catches fails, having taken effect *)
(*     or not.                                                             *)
(***************************************************************************)
EXTENDS BreakGlassStore, FiniteSets

CONSTANTS Requests,       \* notify invocations; each draws its own request UUID
          Clicks,         \* interaction invocations, one per button click
          Polls,          \* status invocations
          Workers,        \* follow-up invocations in flight at one time
          Tokens,         \* GitHub OIDC tokens (their jti)
          Runs,           \* run attempts that mint tokens
          RunOf,          \* RunOf[t]: the run attempt that token t proves
          Repos,          \* repositories (repository_id)
          RepoOf,         \* RepoOf[n]: the repository of run attempt n
          InitialApprovers, \* per repository, the list its SSM parameter holds
          Timeouts,       \* approval windows, after the clamp
          MaxTime,        \* bound on the clock
          MaxDeliveries,  \* bound on deliveries of one follow-up event
          MaxFaults,      \* bound on faults
          MaxRemovals     \* bound on approver removals

ASSUME BrokerAssumption ==
  /\ RunOf \in [Tokens -> Runs]
  /\ RepoOf \in [Runs -> Repos]
  /\ InitialApprovers \in [Repos -> SUBSET Users]
  /\ Timeouts \subseteq Nat \ {0}
  /\ MaxTime \in Nat /\ MaxDeliveries \in Nat /\ MaxFaults \in Nat /\ MaxRemovals \in Nat
  /\ Nothing \notin Users \cup Tokens \cup Requests
  /\ Requests \cap Polls = {}

VARIABLES
  now,        \* the clock
  table,      \* DynamoDB: the request items
  spent,      \* DynamoDB: per token, the invocation whose replay claim it holds
  live,       \* Slack: requests whose message still shows its buttons
  audit,      \* GitHub: audit comments per request, and what they state
  queue,      \* Lambda: deliveries left of each follow-up event
  approvers,  \* SSM: approver list per repository
  notify, click, worker, poll,   \* the invocations
  faults      \* faults so far

vars == <<now, table, spent, live, audit, queue, approvers,
          notify, click, worker, poll, faults>>

-----------------------------------------------------------------------------
(* The locals of an invocation, and how a step changes them.               *)

NotifyLocals == [pc : {"idle", "auth", "put", "post", "ref", "rollback",
                       "created", "failed", "withdrawn"},
                 token : Tokens \cup {Nothing}]
ClickLocals == [pc : {"idle", "read", "lookup", "decide", "expire", "claim",
                      "finalize", "enqueue", "done"},
                req : Requests \cup {Nothing}, decision : Decisions \cup {NoDecision},
                doc : Docs, at : Nat, barred : BOOLEAN,
                outcome : {"none", "unauthorized", "duplicate", "expired",
                           "decided", "failed"}]
WorkerLocals == [pc : {"idle", "claim", "get", "post"},
                 req : Requests \cup {Nothing}, doc : Docs, slackRef : BOOLEAN]
PollLocals == [pc : {"idle", "auth", "get", "expire", "reget", "done"},
               req : Requests \cup {Nothing}, token : Tokens \cup {Nothing},
               doc : Docs, at : Nat, view : Statuses \cup {"none", "refused"}]

NoNotify == [pc |-> "idle", token |-> Nothing]
NoClick == [pc |-> "idle", req |-> Nothing, decision |-> NoDecision, doc |-> NoDoc,
            at |-> 0, barred |-> FALSE, outcome |-> "none"]
Idle == [pc |-> "idle", req |-> Nothing, doc |-> NoDoc, slackRef |-> FALSE]
NoPoll == [pc |-> "idle", req |-> Nothing, token |-> Nothing, doc |-> NoDoc,
           at |-> 0, view |-> "none"]

Goto(l, pc) == [l EXCEPT !.pc = pc]
GotoAt(l, pc, at) == [l EXCEPT !.pc = pc, !.at = at]

Pressed(r, d, barred) ==
  [NoClick EXCEPT !.pc = "read", !.req = r, !.decision = d, !.barred = barred]
Loaded(l, doc) == [l EXCEPT !.pc = "lookup", !.doc = doc]
Decided(l, at) ==
  [l EXCEPT !.pc = "claim", !.doc = ClaimedDoc(l.doc, l.decision), !.at = at]
Answered(l, outcome) == [l EXCEPT !.pc = "done", !.outcome = outcome]

Taken(r) == [Idle EXCEPT !.pc = "claim", !.req = r]
Fetched(l, item) == [l EXCEPT !.pc = "post", !.doc = item.doc, !.slackRef = item.slackRef]

Asked(r, t) == [NoPoll EXCEPT !.pc = "auth", !.req = r, !.token = t]
Overdue(l, doc, at) == [l EXCEPT !.pc = "expire", !.doc = doc, !.at = at]
Viewed(l, view) == [l EXCEPT !.pc = "done", !.view = view]

(* Updates of one entry of the shared table and of one invocation.         *)
TableBecomes(r, item) == table' = [table EXCEPT ![r] = item]
NotifyBecomes(r, locals) == notify' = [notify EXCEPT ![r] = locals]
ClickBecomes(c, locals) == click' = [click EXCEPT ![c] = locals]
WorkerBecomes(w, locals) == worker' = [worker EXCEPT ![w] = locals]
PollBecomes(p, locals) == poll' = [poll EXCEPT ![p] = locals]

(* Faults.                                                                 *)
NoFault == UNCHANGED faults
Fault == faults < MaxFaults /\ faults' = faults + 1

-----------------------------------------------------------------------------
(* notify: the CI function files a request.                                *)

\* CI calls notify once per job; a retry uses a new token and follows a call
\* that failed.  The AWS CLI may resend the same event, token included.
MayNotify(r, t) ==
  \A q \in Requests \ {r} :
    notify[q].token # Nothing /\ RunOf[notify[q].token] = RunOf[t] =>
      notify[q].token = t \/ notify[q].pc \in {"failed", "withdrawn"}

StartNotify(r, t) ==
  /\ notify[r].pc = "idle"
  /\ MayNotify(r, t)
  /\ NotifyBecomes(r, [pc |-> "auth", token |-> t])
  /\ UNCHANGED <<now, table, spent, live, audit, queue, approvers, click, worker, poll, faults>>

\* Verify the token, then spend it, then bind the payload to it.  Refused
\* before the replay claim (400, 401), by it (401 token_replayed), after it (403).
Authenticate(r) ==
  LET t == notify[r].token IN
  /\ notify[r].pc = "auth"
  /\ \E next \in {"put", "failed"} :
       /\ NotifyBecomes(r, Goto(notify[r], next))
       /\ \/ /\ CanConsume(spent[t])
             /\ spent' = [spent EXCEPT ![t] = r]
             /\ NoFault
          \/ next = "failed" /\ UNCHANGED spent /\ NoFault
          \/ /\ next = "failed" /\ CanConsume(spent[t])
             /\ spent' = [spent EXCEPT ![t] = r]
             /\ Fault
  /\ UNCHANGED <<now, table, live, audit, queue, approvers, click, worker, poll>>

\* createPendingRequest and putPending.  A failed put throws out of the handler.
PutPending(r) ==
  /\ notify[r].pc = "put"
  /\ \E window \in Timeouts :
       TableBecomes(r, PendingItem(now + window))
  /\ \/ NotifyBecomes(r, Goto(notify[r], "post")) /\ NoFault
     \/ NotifyBecomes(r, Goto(notify[r], "failed")) /\ Fault
  /\ UNCHANGED <<now, spent, live, audit, queue, approvers, click, worker, poll>>

\* Slack posts the message, refuses it, or posts it and the answer is lost.
PostMessage(r) ==
  /\ notify[r].pc = "post"
  /\ \/ /\ live' = live \cup {r}
        /\ NotifyBecomes(r, Goto(notify[r], "ref")) /\ NoFault
     \/ /\ UNCHANGED live
        /\ NotifyBecomes(r, Goto(notify[r], "rollback")) /\ NoFault
     \/ /\ live' = live \cup {r}
        /\ NotifyBecomes(r, Goto(notify[r], "rollback")) /\ Fault
  /\ UNCHANGED <<now, table, spent, audit, queue, approvers, click, worker, poll>>

\* The message reference lives outside the document.  Any failure rolls back.
SetSlackRef(r) ==
  /\ notify[r].pc = "ref"
  /\ \/ /\ table[r].status # "absent"
        /\ TableBecomes(r, Referenced(table[r]))
        /\ NotifyBecomes(r, Goto(notify[r], "created")) /\ NoFault
     \/ /\ \E item \in {table[r], Referenced(table[r])} : TableBecomes(r, item)
        /\ NotifyBecomes(r, Goto(notify[r], "rollback")) /\ Fault
  /\ UNCHANGED <<now, spent, live, audit, queue, approvers, click, worker, poll>>

\* deletePending, whose failure is swallowed; 502 in every case.
Rollback(r) ==
  /\ notify[r].pc = "rollback"
  /\ \/ /\ CanDelete(table[r])
        /\ TableBecomes(r, NoItem)
        /\ NotifyBecomes(r, Goto(notify[r], "withdrawn")) /\ NoFault
     \/ /\ ~CanDelete(table[r])
        /\ NotifyBecomes(r, Goto(notify[r], "failed")) /\ NoFault
        /\ UNCHANGED table
     \/ /\ NotifyBecomes(r, Goto(notify[r], "failed")) /\ Fault
        /\ UNCHANGED table
  /\ UNCHANGED <<now, spent, live, audit, queue, approvers, click, worker, poll>>

NotifyActive(r) == notify[r].pc \in {"auth", "put", "post", "ref", "rollback"}

NotifyStops(r) ==
  /\ NotifyActive(r)
  /\ NotifyBecomes(r, Goto(notify[r], "failed"))
  /\ Fault
  /\ UNCHANGED <<now, table, spent, live, audit, queue, approvers, click, worker, poll>>

-----------------------------------------------------------------------------
(* handleInteraction: one click on a live message.  `barred' is a ghost:   *)
(* was the user off the request's list when the click arrived?             *)

\* The approver list of the repository whose token filed the request, read at
\* click time.  Variants: read once when the function starts; any list at all.
RepoOfRequest(r) == RepoOf[RunOf[notify[r].token]]
CachedList(r) == InitialApprovers[RepoOfRequest(r)]
AnyList(r) == UNION {approvers[n] : n \in Repos}
ListFor(r) == approvers[RepoOfRequest(r)]

Press(c, r, d) ==
  /\ click[c].pc = "idle"
  /\ r \in live
  /\ ClickBecomes(c, Pressed(r, d, d.by \notin approvers[RepoOfRequest(r)]))
  /\ UNCHANGED <<now, table, spent, live, audit, queue, approvers, notify, worker, poll, faults>>

Answer(c, outcome) ==
  ClickBecomes(c, Answered(click[c], outcome))

\* store.get.  Without an item there is no verified identity and no lookup.
ReadRequest(c) ==
  LET item == table[click[c].req] IN
  /\ click[c].pc = "read"
  /\ IF item.status = "absent"
       THEN Answer(c, "unauthorized")
       ELSE ClickBecomes(c, Loaded(click[c], item.doc))
  /\ UNCHANGED <<now, table, spent, live, audit, queue, approvers, notify, worker, poll, faults>>

\* approversFor: the request's own repository's list, or nobody when the
\* parameter is absent, empty, malformed or could not be read in time.
Lookup(c) ==
  /\ click[c].pc = "lookup"
  /\ \/ /\ click[c].decision.by \in ListFor(click[c].req)
        /\ ClickBecomes(c, Goto(click[c], "decide"))
     \/ Answer(c, "unauthorized")
  /\ UNCHANGED <<now, table, spent, live, audit, queue, approvers, notify, worker, poll, faults>>

\* claimDecision, on the document read earlier; its clock reading is kept for
\* the conditional write that follows.
Decide(c) ==
  /\ click[c].pc = "decide"
  /\ LET overdue == click[c].doc.expiresAt <= now IN
     \/ /\ overdue
        /\ ClickBecomes(c, GotoAt(click[c], "expire", now))
     \/ /\ ~overdue /\ click[c].doc.status # "pending"
        /\ Answer(c, "duplicate")
     \/ /\ ~overdue /\ click[c].doc.status = "pending"
        /\ ClickBecomes(c, Decided(click[c], now))
  /\ UNCHANGED <<now, table, spent, live, audit, queue, approvers, notify, worker, poll, faults>>

\* store.expire: losing the race is harmless.
ExpireByClick(c) ==
  LET r == click[c].req IN
  /\ click[c].pc = "expire"
  /\ TableBecomes(r, IF CanExpire(table[r], click[c].at)
                       THEN Expired(table[r], click[c].doc) ELSE table[r])
  /\ Answer(c, "expired")
  /\ UNCHANGED <<now, spent, live, audit, queue, approvers, notify, worker, poll, faults>>

\* store.claim.  A failed condition is answered as a duplicate: someone else
\* committed first, or the write was this invocation's own, retried.
Claim(c) ==
  LET r == click[c].req IN
  /\ click[c].pc = "claim"
  /\ \/ /\ CanClaim(table[r], click[c].at)
        /\ TableBecomes(r, Claimed(table[r], click[c].doc))
        /\ \/ ClickBecomes(c, Goto(click[c], "finalize")) /\ NoFault
           \/ Answer(c, "duplicate") /\ Fault
     \/ /\ ~CanClaim(table[r], click[c].at)
        /\ Answer(c, "duplicate") /\ NoFault
        /\ UNCHANGED table
  /\ UNCHANGED <<now, spent, live, audit, queue, approvers, notify, worker, poll>>

\* store.finalize.  A failed condition throws out of the handler.
Finalize(c) ==
  LET r == click[c].req IN
  /\ click[c].pc = "finalize"
  /\ \/ /\ CanFinalize(table[r], click[c].decision.by)
        /\ TableBecomes(r, Finalized(table[r], FinalDoc(click[c].doc)))
        /\ \/ ClickBecomes(c, Goto(click[c], "enqueue")) /\ NoFault
           \/ Answer(c, "failed") /\ Fault
     \/ /\ ~CanFinalize(table[r], click[c].decision.by)
        /\ Answer(c, "failed") /\ NoFault
        /\ UNCHANGED table
  /\ UNCHANGED <<now, spent, live, audit, queue, approvers, notify, worker, poll>>

\* enqueueSelf, or the follow-up run inline when it fails (it may have been
\* enqueued even so); asynchronous events are delivered at least once.
Enqueue(c) ==
  /\ click[c].pc = "enqueue"
  /\ \E n \in 1..MaxDeliveries :
       queue' = [queue EXCEPT ![click[c].req] = @ + n]
  /\ Answer(c, "decided")
  /\ UNCHANGED <<now, table, spent, live, audit, approvers, notify, worker, poll, faults>>

ClickActive(c) == click[c].pc \notin {"idle", "done"}

ClickStops(c) ==
  /\ ClickActive(c)
  /\ Answer(c, "failed")
  /\ Fault
  /\ UNCHANGED <<now, table, spent, live, audit, queue, approvers, notify, worker, poll>>

-----------------------------------------------------------------------------
(* runFollowUp: the audit comment and the message update.                  *)

Deliver(w, r) ==
  /\ worker[w].pc = "idle"
  /\ queue[r] > 0
  /\ queue' = [queue EXCEPT ![r] = @ - 1]
  /\ WorkerBecomes(w, Taken(r))
  /\ UNCHANGED <<now, table, spent, live, audit, approvers, notify, click, poll, faults>>

\* claimSideEffects: the one-shot guard against a second delivery.
ClaimSideEffects(w) ==
  LET r == worker[w].req IN
  /\ worker[w].pc = "claim"
  /\ \/ /\ CanDeliver(table[r])
        /\ TableBecomes(r, Delivered(table[r]))
        /\ \/ WorkerBecomes(w, Goto(worker[w], "get")) /\ NoFault
           \/ WorkerBecomes(w, Idle) /\ Fault
     \/ /\ ~CanDeliver(table[r])
        /\ WorkerBecomes(w, Idle) /\ NoFault
        /\ UNCHANGED table
  /\ UNCHANGED <<now, spent, live, audit, queue, approvers, notify, click, poll>>

ReadDecided(w) ==
  LET item == table[worker[w].req] IN
  /\ worker[w].pc = "get"
  /\ WorkerBecomes(w, Fetched(worker[w], item))
  /\ UNCHANGED <<now, table, spent, live, audit, queue, approvers, notify, click, poll, faults>>

\* Both effects are tried; a failure of either is only logged.
PostEffects(w) ==
  LET r == worker[w].req
      commented == [audit EXCEPT ![r] = [n |-> @.n + 1, of |-> worker[w].doc.decision]]
      updated == IF worker[w].slackRef THEN live \ {r} ELSE live IN
  /\ worker[w].pc = "post"
  /\ \/ audit' = commented /\ live' = updated /\ NoFault
     \/ audit' \in {audit, commented} /\ live' \in {live, updated} /\ Fault
  /\ WorkerBecomes(w, Idle)
  /\ UNCHANGED <<now, table, spent, queue, approvers, notify, click, poll>>

WorkerStops(w) ==
  /\ worker[w].pc # "idle"
  /\ WorkerBecomes(w, Idle)
  /\ Fault
  /\ UNCHANGED <<now, table, spent, live, audit, queue, approvers, notify, click, poll>>

-----------------------------------------------------------------------------
(* status: the CI function answers a poll.                                 *)

\* Any run may name any request: a request id alone is not authorization.
StartPoll(p, r, t) ==
  /\ poll[p].pc = "idle"
  /\ notify[r].pc # "idle"
  /\ PollBecomes(p, Asked(r, t))
  /\ UNCHANGED <<now, table, spent, live, audit, queue, approvers, notify, click, worker, faults>>

Refuse(p) == PollBecomes(p, Viewed(poll[p], "refused"))

AuthenticatePoll(p) ==
  LET t == poll[p].token IN
  /\ poll[p].pc = "auth"
  /\ \/ /\ CanConsume(spent[t])
        /\ spent' = [spent EXCEPT ![t] = p]
        /\ \/ PollBecomes(p, Goto(poll[p], "get")) /\ NoFault
           \/ Refuse(p) /\ Fault
     \/ Refuse(p) /\ UNCHANGED spent /\ NoFault
  /\ UNCHANGED <<now, table, live, audit, queue, approvers, notify, click, worker>>

\* 404 for no request, 403 for another run's, the stored status otherwise;
\* a pending request past its window is expired first.
ReadStatus(p) ==
  LET r == poll[p].req
      item == table[r] IN
  /\ poll[p].pc = "get"
  /\ \/ /\ \/ item.status = "absent"
           \/ RunOf[notify[r].token] # RunOf[poll[p].token]
        /\ Refuse(p)
     \/ /\ item.status # "absent"
        /\ RunOf[notify[r].token] = RunOf[poll[p].token]
        /\ IF item.doc.status = "pending" /\ item.doc.expiresAt <= now
             THEN PollBecomes(p, Overdue(poll[p], item.doc, now))
             ELSE PollBecomes(p, Viewed(GotoAt(poll[p], "done", now), item.doc.status))
  /\ UNCHANGED <<now, table, spent, live, audit, queue, approvers, notify, click, worker, faults>>

ExpireByPoll(p) ==
  LET r == poll[p].req IN
  /\ poll[p].pc = "expire"
  /\ TableBecomes(r, IF CanExpire(table[r], poll[p].at)
                       THEN Expired(table[r], poll[p].doc) ELSE table[r])
  /\ PollBecomes(p, Goto(poll[p], "reget"))
  /\ UNCHANGED <<now, spent, live, audit, queue, approvers, notify, click, worker, faults>>

\* statusView of the fresh item; of a request deleted meanwhile, it throws.
RereadStatus(p) ==
  LET status == table[poll[p].req].doc.status IN
  /\ poll[p].pc = "reget"
  /\ PollBecomes(p, Viewed(poll[p], IF status = "absent" THEN "refused" ELSE status))
  /\ UNCHANGED <<now, table, spent, live, audit, queue, approvers, notify, click, worker, faults>>

PollStops(p) ==
  /\ poll[p].pc \notin {"idle", "done"}
  /\ Refuse(p)
  /\ Fault
  /\ UNCHANGED <<now, table, spent, live, audit, queue, approvers, notify, click, worker>>

-----------------------------------------------------------------------------
(* The environment.                                                        *)

Tick ==
  /\ now < MaxTime
  /\ now' = now + 1
  /\ UNCHANGED <<table, spent, live, audit, queue, approvers, notify, click, worker, poll, faults>>

\* An operator edits a repository's SSM parameter.
RemoveApprover(n, u) ==
  /\ u \in approvers[n]
  /\ Cardinality({k \in Repos \X Users : k[2] \in InitialApprovers[k[1]] \ approvers[k[1]]})
       < MaxRemovals
  /\ approvers' = [approvers EXCEPT ![n] = @ \ {u}]
  /\ UNCHANGED <<now, table, spent, live, audit, queue, notify, click, worker, poll, faults>>

-----------------------------------------------------------------------------
Init ==
  /\ now = 0
  /\ table = [r \in Requests |-> NoItem]
  /\ spent = [t \in Tokens |-> Nothing]
  /\ live = {}
  /\ audit = [r \in Requests |-> [n |-> 0, of |-> NoDecision]]
  /\ queue = [r \in Requests |-> 0]
  /\ approvers = InitialApprovers
  /\ notify = [r \in Requests |-> NoNotify]
  /\ click = [c \in Clicks |-> NoClick]
  /\ worker = [w \in Workers |-> Idle]
  /\ poll = [p \in Polls |-> NoPoll]
  /\ faults = 0

NotifyStep(r) ==
  Authenticate(r) \/ PutPending(r) \/ PostMessage(r) \/ SetSlackRef(r) \/ Rollback(r)
ClickStep(c) ==
  \/ ReadRequest(c) \/ Lookup(c) \/ Decide(c)
  \/ ExpireByClick(c) \/ Claim(c) \/ Finalize(c) \/ Enqueue(c)
WorkerStep(w) == ClaimSideEffects(w) \/ ReadDecided(w) \/ PostEffects(w)
PollStep(p) ==
  AuthenticatePoll(p) \/ ReadStatus(p) \/ ExpireByPoll(p) \/ RereadStatus(p)

Next ==
  \/ \E r \in Requests :
       \/ \E t \in Tokens : StartNotify(r, t)
       \/ NotifyStep(r) \/ NotifyStops(r)
  \/ \E c \in Clicks :
       \/ \E r \in Requests, d \in Decisions : Press(c, r, d)
       \/ ClickStep(c) \/ ClickStops(c)
  \/ \E w \in Workers :
       \/ \E r \in Requests : Deliver(w, r)
       \/ WorkerStep(w) \/ WorkerStops(w)
  \/ \E p \in Polls :
       \/ \E r \in Requests, t \in Tokens : StartPoll(p, r, t)
       \/ PollStep(p) \/ PollStops(p)
  \/ \E n \in Repos, u \in Users : RemoveApprover(n, u)
  \/ Tick

Spec == Init /\ [][Next]_vars

\* A started invocation keeps running, and a queued event is delivered: Lambda
\* runs what it accepted.  Nobody has to call, click, poll or edit a list.
Fairness ==
  /\ \A r \in Requests : WF_vars(NotifyStep(r))
  /\ \A c \in Clicks : WF_vars(ClickStep(c))
  /\ \A w \in Workers : WF_vars(WorkerStep(w))
  /\ \A r \in Requests : WF_vars(\E w \in Workers : Deliver(w, r))
  /\ \A p \in Polls : WF_vars(PollStep(p))

FairSpec == Spec /\ Fairness

-----------------------------------------------------------------------------
(* Properties.                                                             *)

Audits == [n : Nat, of : Decisions \cup {NoDecision}]

TypeOK ==
  /\ now \in 0..MaxTime
  /\ table \in [Requests -> Items]
  /\ spent \in [Tokens -> Requests \cup Polls \cup {Nothing}]
  /\ live \subseteq Requests
  /\ audit \in [Requests -> Audits]
  /\ queue \in [Requests -> Nat]
  /\ approvers \in [Repos -> SUBSET Users]
  /\ notify \in [Requests -> NotifyLocals]
  /\ click \in [Clicks -> ClickLocals]
  /\ worker \in [Workers -> WorkerLocals]
  /\ poll \in [Polls -> PollLocals]
  /\ faults \in 0..MaxFaults

\* Conditional writes test attributes while every reader parses the document,
\* and each write sets both by hand: whatever the order of claims, expiries and
\* finalizations, the two never disagree.
DocumentMirrorsAttributes ==
  \A r \in Requests :
    LET item == table[r] IN
    /\ item.doc.status = item.status
    /\ item.doc.expiresAt = item.expiresAt
    /\ item.claimUser = IF item.status = "processing" THEN item.doc.decision.by ELSE Nothing
    /\ item.doc.decision = NoDecision
         <=> item.status \in {"absent", "pending", "expired"}

\* However often the AWS CLI resends a notify event, and with whatever other
\* uses of the token in between, a token stands behind at most one request.
OneRequestPerToken ==
  \A r \in Requests :
    table[r].status # "absent" => spent[notify[r].token] = r

\* Every decision in the table is that of a click on this request, by a user
\* who was on the list of the request's own repository when the click arrived
\* or later, on a clock reading inside the approval window: a removed approver
\* and another repository's approver never decide, even by racing clicks.
DecisionsAreAuthorized ==
  \A r \in Requests :
    table[r].doc.decision # NoDecision =>
      \E c \in Clicks :
        /\ click[c].req = r /\ click[c].decision = table[r].doc.decision
        /\ ~click[c].barred /\ click[c].at < table[r].expiresAt

\* A final answer given to a poll stays true: a request reported as expired is
\* not approved by a click that read it earlier, nor the other way round.
PollAnswersStand ==
  \A p \in Polls :
    poll[p].view \in Verdicts \cup {"expired"} =>
      table[poll[p].req].status = poll[p].view

\* A poll whose clock reading is past the window never answers `pending',
\* whoever wins the race to expire or decide the request.
NoPendingAnswerPastWindow ==
  \A p \in Polls :
    poll[p].view = "pending" /\ table[poll[p].req] # NoItem =>
      poll[p].at < table[poll[p].req].expiresAt

\* Re-delivered follow-up events, the inline fallback and concurrent workers
\* post at most one audit comment, and it states the stored decision.
AuditStatesDecision ==
  \A r \in Requests :
    /\ audit[r].n <= 1
    /\ audit[r].n = 1 => /\ table[r].status \in Verdicts
                        /\ audit[r].of = table[r].doc.decision

\* A request that notify took back has no decision and no audit comment, even
\* when an approver clicked its message before the rollback.
WithdrawnLeavesNoTrace ==
  \A r \in Requests :
    notify[r].pc = "withdrawn" => table[r] = NoItem /\ audit[r].n = 0

\* Short of a fault, a request is in `processing' only while the click that
\* claimed it is about to finalize it.
ProcessingHasItsClick ==
  \A r \in Requests :
    table[r].status = "processing" /\ faults = 0 =>
      \E c \in Clicks : /\ click[c].pc = "finalize" /\ click[c].req = r
                        /\ click[c].decision = table[r].doc.decision

\* Once claimed, a request keeps its decision, becomes final only as that
\* decision, and a final status never changes.
DecisionsStand ==
  [][\A r \in Requests :
       /\ table[r].doc.decision # NoDecision =>
            /\ table'[r].doc.decision = table[r].doc.decision
            /\ table'[r].status \in {table[r].status, table[r].doc.decision.verdict}
       /\ table[r].status = "expired" => table'[r].status = "expired"]_vars

\* What notify's comment says of a retry: after a failure while storing or
\* posting, a run never ends up with two requests an approver can act on.
OneApprovableRequestPerRun ==
  \A q, r \in Requests :
    /\ {q, r} \subseteq live
    /\ table[q].status = "pending" /\ table[r].status = "pending"
    /\ RunOf[notify[q].token] = RunOf[notify[r].token]
    => q = r

\* Unless something fails, a claimed request becomes final.
ClaimsSettle ==
  \A r \in Requests :
    table[r].status = "processing" ~> table[r].status \in Verdicts \/ faults > 0

\* Unless something fails, every decision gets its audit comment.
DecisionsAreAudited ==
  \A r \in Requests : table[r].status \in Verdicts ~> audit[r].n = 1 \/ faults > 0

-----------------------------------------------------------------------------
(* The broker implements the life cycle it promises.                       *)

Phase(r) == IF notify[r].pc = "withdrawn" THEN "withdrawn" ELSE table[r].status

Lifecycle == INSTANCE RequestLifecycle WITH
  phase <- [r \in Requests |-> Phase(r)],
  decision <- [r \in Requests |-> table[r].doc.decision],
  audits <- audit

LifecycleSpec == Lifecycle!Spec

=============================================================================
