---------------------------- MODULE BrokerSafety ----------------------------
(***************************************************************************)
(* Type correctness and the safety properties of Broker, for every number  *)
(* of requests, clicks, polls, workers, tokens, users and faults, and every*)
(* clock bound.                                                            *)
(*                                                                         *)
(* The argument for safety: whatever the order of steps, an item only      *)
(* evolves along its life cycle (Evolves), and each invocation's stale copy*)
(* agrees with the item for as long as a conditional write could still use *)
(* the copy (ClickKnows, PollKnows, WorkerKnows).                          *)
(***************************************************************************)
EXTENDS Broker, TLAPS

-----------------------------------------------------------------------------
(* Type correctness, and what each local variable holds.                   *)

\* The click's copy of the document carries its own claim.
ClaimKept(l) ==
  l.pc \in {"claim", "finalize"} =>
    l.doc.status = "processing" /\ l.doc.decision = l.decision

\* An invocation that has started knows what it works on.
LocalsKnown ==
  /\ \A r \in Requests : notify[r].pc # "idle" => notify[r].token \in Tokens
  /\ \A c \in Clicks : click[c].pc # "idle" =>
       click[c].req \in Requests /\ click[c].decision \in Decisions
  /\ \A c \in Clicks : ClaimKept(click[c])
  /\ \A w \in Workers : worker[w].pc # "idle" => worker[w].req \in Requests
  /\ \A p \in Polls : poll[p].pc # "idle" =>
       poll[p].req \in Requests /\ poll[p].token \in Tokens

TypeInv == TypeOK /\ LocalsKnown

-----------------------------------------------------------------------------
(* Facts about single writes.                                              *)

LEMMA Bounds == MaxTime \in Nat /\ MaxFaults \in Nat
BY BrokerAssumption DEF BrokerAssumption

LEMMA FaultType ==
  ASSUME faults \in 0..MaxFaults, Fault \/ NoFault
  PROVE  faults' \in 0..MaxFaults
BY Bounds DEF Fault, NoFault

\* What a claim and its finalization leave in a document.
LEMMA DocFacts ==
  /\ \A d \in Docs, x \in Decisions :
       /\ ClaimedDoc(d, x) \in Docs
       /\ ClaimedDoc(d, x).status = "processing" /\ ClaimedDoc(d, x).decision = x
       /\ ClaimedDoc(d, x).expiresAt = d.expiresAt
  /\ \A d \in Docs : d.decision \in Decisions =>
       /\ FinalDoc(d) \in Docs /\ FinalDoc(d).status = d.decision.verdict
       /\ FinalDoc(d).decision = d.decision /\ FinalDoc(d).expiresAt = d.expiresAt
BY DEF ClaimedDoc, FinalDoc, Docs, Decisions, Verdicts, Statuses

\* What each write leaves in an item.
LEMMA ItemFacts ==
  /\ NoItem \in Items
  /\ \A e \in Nat : PendingItem(e) \in Items
  /\ \A i \in Items, d \in Docs :
       /\ Claimed(i, d) \in Items
       /\ Finalized(i, d) \in Items /\ Expired(i, d) \in Items
  /\ \A i \in Items :
       /\ Referenced(i) \in Items /\ Delivered(i) \in Items
       /\ i.doc \in Docs /\ i.doc.status \in Statuses /\ i.slackRef \in BOOLEAN
<1>1. NoItem \in Items
  BY DEF NoItem, NoDoc, NoDecision, Items, Docs, Decisions, Verdicts, Statuses
<1>2. ASSUME NEW e \in Nat PROVE PendingItem(e) \in Items
  BY DEF PendingItem, NoItem, NoDoc, NoDecision, Items, Docs, Decisions, Verdicts, Statuses
<1>3. ASSUME NEW i \in Items, NEW d \in Docs PROVE Claimed(i, d) \in Items
  <2>1. d.decision.by \in Users \cup {Nothing} /\ d.status \in Statuses
    BY DEF Docs, Decisions, NoDecision
  <2>2. QED
    BY <2>1 DEF Claimed, Items
<1>4. ASSUME NEW i \in Items, NEW d \in Docs
      PROVE  Finalized(i, d) \in Items /\ Expired(i, d) \in Items
  BY DEF Finalized, Expired, Items, Docs, Decisions, Verdicts, Statuses
<1>5. ASSUME NEW i \in Items
      PROVE  /\ Referenced(i) \in Items /\ Delivered(i) \in Items
             /\ i.doc \in Docs /\ i.doc.status \in Statuses /\ i.slackRef \in BOOLEAN
  BY DEF Referenced, Delivered, Items, Docs, Decisions, Verdicts, Statuses
<1>6. QED
  BY <1>1, <1>2, <1>3, <1>4, <1>5

ClickPcs == {"idle", "read", "lookup", "decide", "expire", "claim", "finalize", "enqueue", "done"}
NotifyPcs == {"idle", "auth", "put", "post", "ref", "rollback", "created", "failed", "withdrawn"}
WorkerPcs == {"idle", "claim", "get", "post"}
PollPcs == {"idle", "auth", "get", "expire", "reget", "done"}
Outcomes == {"none", "unauthorized", "duplicate", "expired", "decided", "failed"}

\* Two locals of a click on the same request, for the same decision.
SameClick(l, m) ==
  m.req = l.req /\ m.decision = l.decision /\ m.barred = l.barred

\* What each step leaves in the locals of its invocation.
LEMMA ClickFacts ==
  /\ \A r \in Requests, d \in Decisions, b \in BOOLEAN :
       /\ Pressed(r, d, b) \in ClickLocals
       /\ Pressed(r, d, b).pc = "read" /\ Pressed(r, d, b).req = r
       /\ Pressed(r, d, b).decision = d /\ Pressed(r, d, b).barred = b
  /\ \A l \in ClickLocals :
       /\ \A x \in ClickPcs :
            /\ Goto(l, x) \in ClickLocals /\ Goto(l, x).pc = x
            /\ SameClick(l, Goto(l, x)) /\ Goto(l, x).at = l.at /\ Goto(l, x).doc = l.doc
       /\ \A x \in ClickPcs, n \in Nat :
            /\ GotoAt(l, x, n) \in ClickLocals /\ GotoAt(l, x, n).pc = x
            /\ SameClick(l, GotoAt(l, x, n)) /\ GotoAt(l, x, n).at = n /\ GotoAt(l, x, n).doc = l.doc
       /\ \A d \in Docs :
            /\ Loaded(l, d) \in ClickLocals /\ Loaded(l, d).pc = "lookup"
            /\ SameClick(l, Loaded(l, d)) /\ Loaded(l, d).at = l.at
            /\ Loaded(l, d).doc = d
       /\ l.decision \in Decisions => \A n \in Nat :
            /\ Decided(l, n) \in ClickLocals /\ Decided(l, n).pc = "claim"
            /\ SameClick(l, Decided(l, n)) /\ Decided(l, n).at = n
            /\ Decided(l, n).doc = ClaimedDoc(l.doc, l.decision)
       /\ \A o \in Outcomes :
            /\ Answered(l, o) \in ClickLocals /\ Answered(l, o).pc = "done"
            /\ SameClick(l, Answered(l, o)) /\ Answered(l, o).at = l.at
<1>1. ASSUME NEW r \in Requests, NEW d \in Decisions, NEW b \in BOOLEAN
      PROVE  /\ Pressed(r, d, b) \in ClickLocals
             /\ Pressed(r, d, b).pc = "read" /\ Pressed(r, d, b).req = r
             /\ Pressed(r, d, b).decision = d /\ Pressed(r, d, b).barred = b
  BY DEF Pressed, NoClick, NoDoc, Docs, Statuses, NoDecision, ClickLocals, ClickPcs, Outcomes, SameClick
<1>2. ASSUME NEW l \in ClickLocals, NEW x \in ClickPcs
      PROVE  /\ Goto(l, x) \in ClickLocals /\ Goto(l, x).pc = x
             /\ SameClick(l, Goto(l, x)) /\ Goto(l, x).at = l.at /\ Goto(l, x).doc = l.doc
  BY DEF Goto, ClickLocals, ClickPcs, Outcomes, SameClick
<1>3. ASSUME NEW l \in ClickLocals, NEW x \in ClickPcs, NEW n \in Nat
      PROVE  /\ GotoAt(l, x, n) \in ClickLocals /\ GotoAt(l, x, n).pc = x
             /\ SameClick(l, GotoAt(l, x, n)) /\ GotoAt(l, x, n).at = n /\ GotoAt(l, x, n).doc = l.doc
  BY DEF GotoAt, ClickLocals, ClickPcs, Outcomes, SameClick
<1>4. ASSUME NEW l \in ClickLocals, NEW d \in Docs
      PROVE  /\ Loaded(l, d) \in ClickLocals /\ Loaded(l, d).pc = "lookup"
             /\ SameClick(l, Loaded(l, d)) /\ Loaded(l, d).at = l.at
             /\ Loaded(l, d).doc = d
  BY DEF Loaded, ClickLocals, ClickPcs, Outcomes, SameClick
<1>5. ASSUME NEW l \in ClickLocals, NEW o \in Outcomes
      PROVE  /\ Answered(l, o) \in ClickLocals /\ Answered(l, o).pc = "done"
             /\ SameClick(l, Answered(l, o)) /\ Answered(l, o).at = l.at
  BY DEF Answered, ClickLocals, ClickPcs, Outcomes, SameClick
<1>6. ASSUME NEW l \in ClickLocals, l.decision \in Decisions, NEW n \in Nat
      PROVE  /\ Decided(l, n) \in ClickLocals /\ Decided(l, n).pc = "claim"
             /\ SameClick(l, Decided(l, n)) /\ Decided(l, n).at = n
             /\ Decided(l, n).doc = ClaimedDoc(l.doc, l.decision)
  <2>1. l.doc \in Docs
    BY DEF ClickLocals
  <2>2. ClaimedDoc(l.doc, l.decision) \in Docs
    BY <1>6, <2>1, DocFacts
  <2>3. QED
    BY <2>2 DEF Decided, ClickLocals, ClickPcs, Outcomes, SameClick
<1>7. QED
  BY <1>1, <1>2, <1>3, <1>4, <1>5, <1>6

LEMMA NotifyFacts ==
  \A l \in NotifyLocals, x \in NotifyPcs :
    Goto(l, x) \in NotifyLocals /\ Goto(l, x).pc = x /\ Goto(l, x).token = l.token
BY DEF NotifyLocals, NotifyPcs, Goto

LEMMA WorkerFacts ==
  /\ Idle \in WorkerLocals /\ Idle.pc = "idle"
  /\ \A r \in Requests :
       Taken(r) \in WorkerLocals /\ Taken(r).pc = "claim" /\ Taken(r).req = r
  /\ \A l \in WorkerLocals :
       /\ \A x \in WorkerPcs :
            Goto(l, x) \in WorkerLocals /\ Goto(l, x).pc = x /\ Goto(l, x).req = l.req
       /\ \A i \in Items :
            /\ Fetched(l, i) \in WorkerLocals /\ Fetched(l, i).pc = "post"
            /\ Fetched(l, i).req = l.req /\ Fetched(l, i).doc = i.doc
<1>1. Idle \in WorkerLocals /\ Idle.pc = "idle"
  BY DEF Idle, NoDoc, Docs, Statuses, NoDecision, WorkerLocals, WorkerPcs
<1>2. ASSUME NEW r \in Requests
      PROVE  Taken(r) \in WorkerLocals /\ Taken(r).pc = "claim" /\ Taken(r).req = r
  BY <1>1 DEF Taken, Idle, WorkerLocals, WorkerPcs
<1>3. ASSUME NEW l \in WorkerLocals, NEW x \in WorkerPcs
      PROVE  Goto(l, x) \in WorkerLocals /\ Goto(l, x).pc = x /\ Goto(l, x).req = l.req
  BY DEF Goto, WorkerLocals, WorkerPcs
<1>4. ASSUME NEW l \in WorkerLocals, NEW i \in Items
      PROVE  /\ Fetched(l, i) \in WorkerLocals /\ Fetched(l, i).pc = "post"
             /\ Fetched(l, i).req = l.req /\ Fetched(l, i).doc = i.doc
  <2>1. i.doc \in Docs /\ i.slackRef \in BOOLEAN
    BY ItemFacts
  <2>2. QED
    BY <2>1 DEF Fetched, WorkerLocals, WorkerPcs
<1>5. QED
  BY <1>1, <1>2, <1>3, <1>4

\* Two locals of a poll with the same request and token.
SamePoll(l, m) == m.req = l.req /\ m.token = l.token

LEMMA PollFacts ==
  /\ \A r \in Requests, t \in Tokens :
       /\ Asked(r, t) \in PollLocals /\ Asked(r, t).pc = "auth"
       /\ Asked(r, t).req = r /\ Asked(r, t).token = t /\ Asked(r, t).view = "none"
  /\ \A l \in PollLocals :
       /\ \A x \in PollPcs :
            /\ Goto(l, x) \in PollLocals /\ Goto(l, x).pc = x /\ SamePoll(l, Goto(l, x))
            /\ Goto(l, x).at = l.at /\ Goto(l, x).view = l.view
       /\ \A x \in PollPcs, n \in Nat :
            /\ GotoAt(l, x, n) \in PollLocals /\ GotoAt(l, x, n).pc = x
            /\ SamePoll(l, GotoAt(l, x, n))
            /\ GotoAt(l, x, n).at = n /\ GotoAt(l, x, n).view = l.view
       /\ \A d \in Docs, n \in Nat :
            /\ Overdue(l, d, n) \in PollLocals /\ Overdue(l, d, n).pc = "expire"
            /\ SamePoll(l, Overdue(l, d, n)) /\ Overdue(l, d, n).doc = d
            /\ Overdue(l, d, n).at = n /\ Overdue(l, d, n).view = l.view
       /\ \A v \in Statuses \cup {"refused"} :
            /\ Viewed(l, v) \in PollLocals /\ Viewed(l, v).pc = "done"
            /\ SamePoll(l, Viewed(l, v))
            /\ Viewed(l, v).at = l.at /\ Viewed(l, v).view = v
<1>1. ASSUME NEW r \in Requests, NEW t \in Tokens
      PROVE  /\ Asked(r, t) \in PollLocals /\ Asked(r, t).pc = "auth"
             /\ Asked(r, t).req = r /\ Asked(r, t).token = t /\ Asked(r, t).view = "none"
  BY DEF Asked, NoPoll, PollLocals, NoDoc, Docs, Statuses
<1>2. ASSUME NEW l \in PollLocals, NEW x \in PollPcs
      PROVE  /\ Goto(l, x) \in PollLocals /\ Goto(l, x).pc = x /\ SamePoll(l, Goto(l, x))
             /\ Goto(l, x).at = l.at /\ Goto(l, x).view = l.view
  BY DEF Goto, PollLocals, PollPcs, SamePoll
<1>3. ASSUME NEW l \in PollLocals, NEW x \in PollPcs, NEW n \in Nat
      PROVE  /\ GotoAt(l, x, n) \in PollLocals /\ GotoAt(l, x, n).pc = x
             /\ SamePoll(l, GotoAt(l, x, n))
             /\ GotoAt(l, x, n).at = n /\ GotoAt(l, x, n).view = l.view
  BY DEF GotoAt, PollLocals, PollPcs, SamePoll
<1>4. ASSUME NEW l \in PollLocals, NEW v \in Statuses \cup {"refused"}
      PROVE  /\ Viewed(l, v) \in PollLocals /\ Viewed(l, v).pc = "done"
             /\ SamePoll(l, Viewed(l, v))
             /\ Viewed(l, v).at = l.at /\ Viewed(l, v).view = v
  BY DEF Viewed, PollLocals, SamePoll
<1>5. ASSUME NEW l \in PollLocals, NEW d \in Docs, NEW n \in Nat
      PROVE  /\ Overdue(l, d, n) \in PollLocals /\ Overdue(l, d, n).pc = "expire"
             /\ SamePoll(l, Overdue(l, d, n)) /\ Overdue(l, d, n).doc = d
             /\ Overdue(l, d, n).at = n /\ Overdue(l, d, n).view = l.view
  BY DEF Overdue, PollLocals, SamePoll
<1>6. QED
  BY <1>1, <1>2, <1>3, <1>4, <1>5

-----------------------------------------------------------------------------
(* Types.                                                                  *)

LEMMA NotifyType ==
  ASSUME TypeInv, NEW r \in Requests,
         NotifyStep(r) \/ NotifyStops(r) \/ \E t \in Tokens : StartNotify(r, t)
  PROVE  TypeInv'
<1>1. CASE \E t \in Tokens : StartNotify(r, t)
  <2> PICK t \in Tokens : StartNotify(r, t)
    BY <1>1
  <2>1. \E l \in NotifyLocals : NotifyBecomes(r, l) /\ l.token \in Tokens
    BY NotifyFacts DEF StartNotify, NotifyPcs, NotifyLocals
  <2>2. TypeOK'
    BY <2>1, FaultType DEF StartNotify, TypeInv, TypeOK, NotifyBecomes
  <2>3. LocalsKnown'
    BY <2>1 DEF StartNotify, TypeInv, TypeOK, LocalsKnown, NotifyBecomes
  <2>4. QED
    BY <2>2, <2>3 DEF TypeInv
<1>2. CASE Authenticate(r)
  <2>1. notify[r] \in NotifyLocals /\ notify[r].token \in Tokens
    BY <1>2 DEF Authenticate, TypeInv, TypeOK, LocalsKnown
  <2>2. \E l \in NotifyLocals : NotifyBecomes(r, l) /\ l.token \in Tokens
    BY <1>2, <2>1, NotifyFacts DEF Authenticate, NotifyPcs, NotifyLocals
  <2>3. spent' \in [Tokens -> Requests \cup Polls \cup {Nothing}]
    BY <1>2, <2>1 DEF Authenticate, TypeInv, TypeOK
  <2>4. TypeOK'
    BY <1>2, <2>2, <2>3, FaultType DEF Authenticate, TypeInv, TypeOK, NotifyBecomes
  <2>5. LocalsKnown'
    BY <1>2, <2>1, <2>2 DEF Authenticate, TypeInv, TypeOK, LocalsKnown, NotifyBecomes
  <2>6. QED
    BY <2>4, <2>5 DEF TypeInv
<1>3. CASE PutPending(r)
  <2>1. notify[r] \in NotifyLocals /\ notify[r].token \in Tokens
    BY <1>3 DEF PutPending, TypeInv, TypeOK, LocalsKnown
  <2>2. now \in Nat
    BY <1>3, <2>1, ItemFacts, Bounds DEF TypeInv, TypeOK
  <2>3. \E l \in NotifyLocals : NotifyBecomes(r, l) /\ l.token \in Tokens
    BY <1>3, <2>1, <2>2, NotifyFacts DEF PutPending, NotifyPcs, NotifyLocals
  <2>4. table' \in [Requests -> Items]
    <3>1. PICK window \in Timeouts : TableBecomes(r, PendingItem(now + window))
      BY <1>3 DEF PutPending
    <3>2. PendingItem(now + window) \in Items
      BY <2>2, ItemFacts, BrokerAssumption DEF BrokerAssumption
    <3>3. QED
      BY <3>1, <3>2 DEF TypeInv, TypeOK, TableBecomes
  <2>5. TypeOK'
    BY <1>3, <2>3, <2>4, FaultType DEF PutPending, TypeInv, TypeOK, NotifyBecomes
  <2>6. LocalsKnown'
    BY <1>3, <2>1, <2>3 DEF PutPending, TypeInv, TypeOK, LocalsKnown, NotifyBecomes
  <2>7. QED
    BY <2>5, <2>6 DEF TypeInv
<1>4. CASE PostMessage(r)
  <2>1. notify[r] \in NotifyLocals /\ notify[r].token \in Tokens
    BY <1>4 DEF PostMessage, TypeInv, TypeOK, LocalsKnown
  <2>2. \E l \in NotifyLocals : NotifyBecomes(r, l) /\ l.token \in Tokens
    BY <1>4, <2>1, NotifyFacts DEF PostMessage, NotifyPcs, NotifyLocals
  <2>3. live' \subseteq Requests
    BY <1>4, <2>1 DEF PostMessage, TypeInv, TypeOK
  <2>4. TypeOK'
    BY <1>4, <2>2, <2>3, FaultType DEF PostMessage, TypeInv, TypeOK, NotifyBecomes
  <2>5. LocalsKnown'
    BY <1>4, <2>1, <2>2 DEF PostMessage, TypeInv, TypeOK, LocalsKnown, NotifyBecomes
  <2>6. QED
    BY <2>4, <2>5 DEF TypeInv
<1>5. CASE SetSlackRef(r)
  <2>1. notify[r] \in NotifyLocals /\ notify[r].token \in Tokens
    BY <1>5 DEF SetSlackRef, TypeInv, TypeOK, LocalsKnown
  <2>2. \E l \in NotifyLocals : NotifyBecomes(r, l) /\ l.token \in Tokens
    BY <1>5, <2>1, NotifyFacts DEF SetSlackRef, NotifyPcs, NotifyLocals
  <2>3. table' \in [Requests -> Items]
    <3>1. table[r] \in Items /\ Referenced(table[r]) \in Items
      BY ItemFacts DEF TypeInv, TypeOK
    <3>2. \E item \in Items : TableBecomes(r, item)
      BY <1>5, <3>1 DEF SetSlackRef
    <3>3. QED
      BY <3>2 DEF TypeInv, TypeOK, TableBecomes
  <2>4. TypeOK'
    BY <1>5, <2>2, <2>3, FaultType DEF SetSlackRef, TypeInv, TypeOK, NotifyBecomes
  <2>5. LocalsKnown'
    BY <1>5, <2>1, <2>2 DEF SetSlackRef, TypeInv, TypeOK, LocalsKnown, NotifyBecomes
  <2>6. QED
    BY <2>4, <2>5 DEF TypeInv
<1>6. CASE Rollback(r)
  <2>1. notify[r] \in NotifyLocals /\ notify[r].token \in Tokens
    BY <1>6 DEF Rollback, TypeInv, TypeOK, LocalsKnown
  <2>2. \E l \in NotifyLocals : NotifyBecomes(r, l) /\ l.token \in Tokens
    BY <1>6, <2>1, NotifyFacts DEF Rollback, NotifyPcs, NotifyLocals
  <2>3. table' \in [Requests -> Items]
    BY <1>6, <2>1, ItemFacts DEF Rollback, TypeInv, TypeOK, TableBecomes
  <2>4. TypeOK'
    BY <1>6, <2>2, <2>3, FaultType DEF Rollback, TypeInv, TypeOK, NotifyBecomes
  <2>5. LocalsKnown'
    BY <1>6, <2>1, <2>2 DEF Rollback, TypeInv, TypeOK, LocalsKnown, NotifyBecomes
  <2>6. QED
    BY <2>4, <2>5 DEF TypeInv
<1>7. CASE NotifyStops(r)
  <2>1. notify[r] \in NotifyLocals /\ notify[r].token \in Tokens
    BY <1>7 DEF NotifyStops, NotifyActive, TypeInv, TypeOK, LocalsKnown
  <2>2. \E l \in NotifyLocals : NotifyBecomes(r, l) /\ l.token \in Tokens
    BY <1>7, <2>1, NotifyFacts DEF NotifyStops, NotifyPcs, NotifyLocals
  <2>3. TypeOK'
    BY <1>7, <2>2, FaultType DEF NotifyStops, TypeInv, TypeOK, NotifyBecomes
  <2>4. LocalsKnown'
    BY <1>7, <2>1, <2>2 DEF NotifyStops, TypeInv, TypeOK, LocalsKnown, NotifyBecomes
  <2>5. QED
    BY <2>3, <2>4 DEF TypeInv
<1>8. QED
  BY <1>1, <1>2, <1>3, <1>4, <1>5, <1>6, <1>7 DEF NotifyStep

\* The locals after a step: typed, on the same request, for the same decision.
ClickAdvances(c) ==
  \E l \in ClickLocals : ClickBecomes(c, l) /\ SameClick(click[c], l) /\ ClaimKept(l)

LEMMA Advancing ==
  ASSUME NEW c \in Clicks, click[c] \in ClickLocals
  PROVE  /\ \A o \in Outcomes : Answer(c, o) => ClickAdvances(c)
         /\ \A x \in ClickPcs \ {"claim", "finalize"} :
              ClickBecomes(c, Goto(click[c], x)) => ClickAdvances(c)
         /\ \A n \in Nat :
              ClickBecomes(c, GotoAt(click[c], "expire", n)) => ClickAdvances(c)
         /\ \A d \in Docs : ClickBecomes(c, Loaded(click[c], d)) => ClickAdvances(c)
         /\ click[c].pc = "claim" /\ ClaimKept(click[c]) =>
              (ClickBecomes(c, Goto(click[c], "finalize")) => ClickAdvances(c))
         /\ click[c].decision \in Decisions => \A n \in Nat :
              ClickBecomes(c, Decided(click[c], n)) => ClickAdvances(c)
<1>1. ASSUME NEW o \in Outcomes, Answer(c, o) PROVE ClickAdvances(c)
  <2>1. ClaimKept(Answered(click[c], o))
    BY ClickFacts DEF ClaimKept
  <2>2. QED
    BY <1>1, <2>1, ClickFacts DEF Answer, ClickAdvances
<1>2. ASSUME NEW x \in ClickPcs \ {"claim", "finalize"}, ClickBecomes(c, Goto(click[c], x))
      PROVE  ClickAdvances(c)
  <2>1. ClaimKept(Goto(click[c], x))
    BY ClickFacts DEF ClaimKept
  <2>2. QED
    BY <1>2, <2>1, ClickFacts DEF ClickAdvances
<1>3. ASSUME NEW n \in Nat, ClickBecomes(c, GotoAt(click[c], "expire", n))
      PROVE  ClickAdvances(c)
  <2>1. "expire" \in ClickPcs
    BY DEF ClickPcs
  <2>2. /\ GotoAt(click[c], "expire", n) \in ClickLocals
        /\ GotoAt(click[c], "expire", n).pc = "expire"
        /\ SameClick(click[c], GotoAt(click[c], "expire", n))
    BY <2>1, ClickFacts
  <2>3. ClaimKept(GotoAt(click[c], "expire", n))
    BY <2>2 DEF ClaimKept
  <2>4. QED
    BY <1>3, <2>2, <2>3 DEF ClickAdvances
<1>4. ASSUME NEW d \in Docs, ClickBecomes(c, Loaded(click[c], d)) PROVE ClickAdvances(c)
  <2>1. ClaimKept(Loaded(click[c], d))
    BY ClickFacts DEF ClaimKept
  <2>2. QED
    BY <1>4, <2>1, ClickFacts DEF ClickAdvances
<1>5. ASSUME click[c].pc = "claim", ClaimKept(click[c]), ClickBecomes(c, Goto(click[c], "finalize"))
      PROVE  ClickAdvances(c)
  <2>1. /\ Goto(click[c], "finalize") \in ClickLocals /\ SameClick(click[c], Goto(click[c], "finalize"))
        /\ Goto(click[c], "finalize").doc = click[c].doc
    BY ClickFacts, ZenonT(40) DEF ClickPcs
  <2>2. ClaimKept(Goto(click[c], "finalize"))
    BY <1>5, <2>1 DEF ClaimKept, SameClick
  <2>3. QED
    BY <1>5, <2>1, <2>2 DEF ClickAdvances
<1>6. ASSUME click[c].decision \in Decisions, NEW n \in Nat, ClickBecomes(c, Decided(click[c], n))
      PROVE  ClickAdvances(c)
  <2>1. /\ Decided(click[c], n) \in ClickLocals /\ SameClick(click[c], Decided(click[c], n))
        /\ Decided(click[c], n).doc = ClaimedDoc(click[c].doc, click[c].decision)
    BY <1>6, ClickFacts
  <2>2. click[c].doc \in Docs
    BY DEF ClickLocals
  <2>3. ClaimKept(Decided(click[c], n))
    BY <1>6, <2>1, <2>2, DocFacts DEF ClaimKept, SameClick
  <2>4. QED
    BY <1>6, <2>1, <2>3 DEF ClickAdvances
<1>7. QED
  BY <1>1, <1>2, <1>3, <1>4, <1>5, <1>6

LEMMA ClickType ==
  ASSUME TypeInv, NEW c \in Clicks,
         \/ ClickStep(c) \/ ClickStops(c)
         \/ \E r \in Requests, d \in Decisions : Press(c, r, d)
  PROVE  TypeInv'
<1>1. CASE \E r \in Requests, d \in Decisions : Press(c, r, d)
  <2> PICK r \in Requests, d \in Decisions : Press(c, r, d)
    BY <1>1
  <2>1. \E l \in ClickLocals : ClickBecomes(c, l) /\ l.req \in Requests /\ l.decision \in Decisions /\ ClaimKept(l)
    <3> DEFINE b == d.by \notin approvers[RepoOfRequest(r)]
    <3>1. b \in BOOLEAN
      OBVIOUS
    <3>2. Pressed(r, d, b) \in ClickLocals /\ Pressed(r, d, b).req = r /\ Pressed(r, d, b).decision = d
      <4> HIDE DEF b
      <4> QED
        BY <3>1, ClickFacts
    <3>3. ClickBecomes(c, Pressed(r, d, b))
      BY DEF Press
    <3>4. ClaimKept(Pressed(r, d, b))
      <4> HIDE DEF b
      <4> QED
        BY <3>1, ClickFacts DEF ClaimKept
    <3> HIDE DEF b
    <3> QED
      BY <3>2, <3>3, <3>4
  <2>2. TypeOK'
    BY <2>1, FaultType DEF Press, TypeInv, TypeOK, ClickBecomes, ClickAdvances
  <2>3. LocalsKnown'
    BY <2>1 DEF Press, TypeInv, TypeOK, LocalsKnown, ClickBecomes, ClickAdvances
  <2>4. QED
    BY <2>2, <2>3 DEF TypeInv
<1>2. CASE ReadRequest(c)
  <2>1. click[c] \in ClickLocals /\ click[c].req \in Requests /\ click[c].decision \in Decisions
    BY <1>2 DEF ReadRequest, TypeInv, TypeOK, LocalsKnown
  <2>2. table[click[c].req].doc \in Docs
    BY <1>2, <2>1, ItemFacts, Bounds DEF TypeInv, TypeOK
  <2>3. ClickAdvances(c)
    BY <1>2, <2>1, <2>2, Advancing DEF ReadRequest, Outcomes, ClickPcs
  <2>4. TypeOK'
    BY <1>2, <2>3, FaultType DEF ReadRequest, TypeInv, TypeOK, ClickBecomes, ClickAdvances
  <2>5. LocalsKnown'
    BY <1>2, <2>1, <2>3 DEF ReadRequest, TypeInv, TypeOK, LocalsKnown, ClickBecomes, SameClick, ClickAdvances
  <2>6. QED
    BY <2>4, <2>5 DEF TypeInv
<1>3. CASE Lookup(c)
  <2>1. click[c] \in ClickLocals /\ click[c].req \in Requests /\ click[c].decision \in Decisions
    BY <1>3 DEF Lookup, TypeInv, TypeOK, LocalsKnown
  <2>2. ClickAdvances(c)
    BY <1>3, <2>1, Advancing DEF Lookup, Outcomes, ClickPcs
  <2>3. TypeOK'
    BY <1>3, <2>2, FaultType DEF Lookup, TypeInv, TypeOK, ClickBecomes, ClickAdvances
  <2>4. LocalsKnown'
    BY <1>3, <2>1, <2>2 DEF Lookup, TypeInv, TypeOK, LocalsKnown, ClickBecomes, SameClick, ClickAdvances
  <2>5. QED
    BY <2>3, <2>4 DEF TypeInv
<1>4. CASE Decide(c)
  <2>1. click[c] \in ClickLocals /\ click[c].req \in Requests /\ click[c].decision \in Decisions
    BY <1>4 DEF Decide, TypeInv, TypeOK, LocalsKnown
  <2>2. now \in Nat
    BY <1>4, <2>1, ItemFacts, Bounds DEF TypeInv, TypeOK
  <2>3. ClickAdvances(c)
    <3>1. \/ ClickBecomes(c, GotoAt(click[c], "expire", now))
          \/ ClickBecomes(c, Answered(click[c], "duplicate"))
          \/ ClickBecomes(c, Decided(click[c], now))
      BY <1>4 DEF Decide, Answer
    <3>2. QED
      BY <2>1, <2>2, <3>1, Advancing DEF Answer, Outcomes
  <2>4. TypeOK'
    BY <1>4, <2>3, FaultType DEF Decide, TypeInv, TypeOK, ClickBecomes, ClickAdvances
  <2>5. LocalsKnown'
    BY <1>4, <2>1, <2>3 DEF Decide, TypeInv, TypeOK, LocalsKnown, ClickBecomes, SameClick, ClickAdvances
  <2>6. QED
    BY <2>4, <2>5 DEF TypeInv
<1>5. CASE ExpireByClick(c)
  <2>1. click[c] \in ClickLocals /\ click[c].req \in Requests /\ click[c].decision \in Decisions
    BY <1>5 DEF ExpireByClick, TypeInv, TypeOK, LocalsKnown
  <2>2. table[click[c].req] \in Items /\ click[c].doc \in Docs
    BY <2>1 DEF TypeInv, TypeOK, ClickLocals
  <2>3. ClickAdvances(c)
    BY <1>5, <2>1, <2>2, Advancing DEF ExpireByClick, Outcomes, ClickPcs
  <2>4. table' \in [Requests -> Items]
    BY <1>5, <2>1, <2>2, ItemFacts DEF ExpireByClick, TypeInv, TypeOK, TableBecomes
  <2>5. TypeOK'
    BY <1>5, <2>3, <2>4, FaultType DEF ExpireByClick, TypeInv, TypeOK, ClickBecomes, ClickAdvances
  <2>6. LocalsKnown'
    BY <1>5, <2>1, <2>3 DEF ExpireByClick, TypeInv, TypeOK, LocalsKnown, ClickBecomes, SameClick, ClickAdvances
  <2>7. QED
    BY <2>5, <2>6 DEF TypeInv
<1>6. CASE Claim(c)
  <2>1. click[c] \in ClickLocals /\ click[c].req \in Requests /\ click[c].decision \in Decisions
    BY <1>6 DEF Claim, TypeInv, TypeOK, LocalsKnown
  <2>2. table[click[c].req] \in Items /\ click[c].doc \in Docs
    BY <2>1 DEF TypeInv, TypeOK, ClickLocals
  <2>3. ClickAdvances(c)
    BY <1>6, <2>1, <2>2, Advancing DEF Claim, TypeInv, LocalsKnown, Outcomes, ClickPcs
  <2>4. table' \in [Requests -> Items]
    BY <1>6, <2>1, <2>2, ItemFacts DEF Claim, TypeInv, TypeOK, TableBecomes
  <2>5. TypeOK'
    BY <1>6, <2>3, <2>4, FaultType DEF Claim, TypeInv, TypeOK, ClickBecomes, ClickAdvances
  <2>6. LocalsKnown'
    BY <1>6, <2>1, <2>3 DEF Claim, TypeInv, TypeOK, LocalsKnown, ClickBecomes, SameClick, ClickAdvances
  <2>7. QED
    BY <2>5, <2>6 DEF TypeInv
<1>7. CASE Finalize(c)
  <2>1. click[c] \in ClickLocals /\ click[c].req \in Requests /\ click[c].decision \in Decisions
    BY <1>7 DEF Finalize, TypeInv, TypeOK, LocalsKnown
  <2>2. table[click[c].req] \in Items /\ click[c].doc \in Docs
    BY <2>1 DEF TypeInv, TypeOK, ClickLocals
  <2>3. ClickAdvances(c)
    BY <1>7, <2>1, <2>2, Advancing DEF Finalize, Outcomes, ClickPcs
  <2>4. table' \in [Requests -> Items]
    <3>1. FinalDoc(click[c].doc) \in Docs
      BY <1>7, <2>1, <2>2, DocFacts DEF Finalize, TypeInv, LocalsKnown, ClaimKept
    <3>2. Finalized(table[click[c].req], FinalDoc(click[c].doc)) \in Items
      BY <2>2, <3>1, ItemFacts
    <3>3. QED
      BY <1>7, <2>1, <3>2 DEF Finalize, TypeInv, TypeOK, TableBecomes
  <2>5. TypeOK'
    BY <1>7, <2>3, <2>4, FaultType DEF Finalize, TypeInv, TypeOK, ClickBecomes, ClickAdvances
  <2>6. LocalsKnown'
    BY <1>7, <2>1, <2>3 DEF Finalize, TypeInv, TypeOK, LocalsKnown, ClickBecomes, SameClick, ClickAdvances
  <2>7. QED
    BY <2>5, <2>6 DEF TypeInv
<1>8. CASE Enqueue(c)
  <2>1. click[c] \in ClickLocals /\ click[c].req \in Requests /\ click[c].decision \in Decisions
    BY <1>8 DEF Enqueue, TypeInv, TypeOK, LocalsKnown
  <2>2. ClickAdvances(c)
    BY <1>8, <2>1, Advancing DEF Enqueue, Outcomes, ClickPcs
  <2>3. queue' \in [Requests -> Nat]
    BY <1>8, <2>1 DEF Enqueue, TypeInv, TypeOK
  <2>4. TypeOK'
    BY <1>8, <2>2, <2>3, FaultType DEF Enqueue, TypeInv, TypeOK, ClickBecomes, ClickAdvances
  <2>5. LocalsKnown'
    BY <1>8, <2>1, <2>2 DEF Enqueue, TypeInv, TypeOK, LocalsKnown, ClickBecomes, SameClick, ClickAdvances
  <2>6. QED
    BY <2>4, <2>5 DEF TypeInv
<1>9. CASE ClickStops(c)
  <2>1. click[c] \in ClickLocals /\ click[c].req \in Requests /\ click[c].decision \in Decisions
    BY <1>9 DEF ClickStops, ClickActive, TypeInv, TypeOK, LocalsKnown
  <2>2. ClickAdvances(c)
    BY <1>9, <2>1, Advancing DEF ClickStops, Outcomes, ClickPcs
  <2>3. TypeOK'
    BY <1>9, <2>2, FaultType DEF ClickStops, TypeInv, TypeOK, ClickBecomes, ClickAdvances
  <2>4. LocalsKnown'
    BY <1>9, <2>1, <2>2 DEF ClickStops, TypeInv, TypeOK, LocalsKnown, ClickBecomes, SameClick, ClickAdvances
  <2>5. QED
    BY <2>3, <2>4 DEF TypeInv
<1>10. QED
  BY <1>1, <1>2, <1>3, <1>4, <1>5, <1>6, <1>7, <1>8, <1>9 DEF ClickStep

LEMMA WorkerType ==
  ASSUME TypeInv, NEW w \in Workers,
         WorkerStep(w) \/ WorkerStops(w) \/ \E r \in Requests : Deliver(w, r)
  PROVE  TypeInv'
<1>1. CASE \E r \in Requests : Deliver(w, r)
  <2> PICK r \in Requests : Deliver(w, r)
    BY <1>1
  <2>1. \E l \in WorkerLocals : WorkerBecomes(w, l) /\ (l.pc # "idle" => l.req \in Requests)
    BY WorkerFacts DEF Deliver, WorkerPcs
  <2>2. queue' \in [Requests -> Nat]
    BY DEF Deliver, TypeInv, TypeOK
  <2>3. TypeOK'
    BY <2>1, <2>2, FaultType DEF Deliver, TypeInv, TypeOK, WorkerBecomes
  <2>4. LocalsKnown'
    BY <2>1 DEF Deliver, TypeInv, TypeOK, LocalsKnown, WorkerBecomes
  <2>5. QED
    BY <2>3, <2>4 DEF TypeInv
<1>2. CASE ClaimSideEffects(w)
  <2>1. worker[w] \in WorkerLocals /\ worker[w].req \in Requests
    BY <1>2 DEF ClaimSideEffects, TypeInv, TypeOK, LocalsKnown
  <2>2. table[worker[w].req] \in Items
    BY <1>2, <2>1, ItemFacts, Bounds DEF TypeInv, TypeOK
  <2>3. \E l \in WorkerLocals : WorkerBecomes(w, l) /\ (l.pc # "idle" => l.req \in Requests)
    BY <1>2, <2>1, <2>2, WorkerFacts DEF ClaimSideEffects, WorkerPcs
  <2>4. table' \in [Requests -> Items]
    BY <1>2, <2>1, <2>2, ItemFacts DEF ClaimSideEffects, TypeInv, TypeOK, TableBecomes
  <2>5. TypeOK'
    BY <1>2, <2>3, <2>4, FaultType DEF ClaimSideEffects, TypeInv, TypeOK, WorkerBecomes
  <2>6. LocalsKnown'
    BY <1>2, <2>1, <2>3 DEF ClaimSideEffects, TypeInv, TypeOK, LocalsKnown, WorkerBecomes
  <2>7. QED
    BY <2>5, <2>6 DEF TypeInv
<1>3. CASE ReadDecided(w)
  <2>1. worker[w] \in WorkerLocals /\ worker[w].req \in Requests
    BY <1>3 DEF ReadDecided, TypeInv, TypeOK, LocalsKnown
  <2>2. table[worker[w].req] \in Items
    BY <1>3, <2>1, ItemFacts, Bounds DEF TypeInv, TypeOK
  <2>3. \E l \in WorkerLocals : WorkerBecomes(w, l) /\ (l.pc # "idle" => l.req \in Requests)
    <3>1. WorkerBecomes(w, Fetched(worker[w], table[worker[w].req]))
      BY <1>3 DEF ReadDecided
    <3>2. QED
      BY <2>1, <2>2, <3>1, WorkerFacts
  <2>4. TypeOK'
    BY <1>3, <2>3, FaultType DEF ReadDecided, TypeInv, TypeOK, WorkerBecomes
  <2>5. LocalsKnown'
    BY <1>3, <2>1, <2>3 DEF ReadDecided, TypeInv, TypeOK, LocalsKnown, WorkerBecomes
  <2>6. QED
    BY <2>4, <2>5 DEF TypeInv
<1>4. CASE PostEffects(w)
  <2>1. worker[w] \in WorkerLocals /\ worker[w].req \in Requests
    BY <1>4 DEF PostEffects, TypeInv, TypeOK, LocalsKnown
  <2>2. worker[w].doc.decision \in Decisions \cup {NoDecision}
    BY <2>1 DEF WorkerLocals, Docs
  <2>3. \E l \in WorkerLocals : WorkerBecomes(w, l) /\ (l.pc # "idle" => l.req \in Requests)
    BY <1>4, <2>1, <2>2, WorkerFacts DEF PostEffects, WorkerPcs
  <2>4. audit' \in [Requests -> Audits]
    BY <1>4, <2>1, <2>2 DEF PostEffects, TypeInv, TypeOK, Audits
  <2>5. live' \subseteq Requests
    BY <1>4, <2>1, <2>2 DEF PostEffects, TypeInv, TypeOK
  <2>6. TypeOK'
    BY <1>4, <2>3, <2>4, <2>5, FaultType DEF PostEffects, TypeInv, TypeOK, WorkerBecomes
  <2>7. LocalsKnown'
    BY <1>4, <2>1, <2>3 DEF PostEffects, TypeInv, TypeOK, LocalsKnown, WorkerBecomes
  <2>8. QED
    BY <2>6, <2>7 DEF TypeInv
<1>5. CASE WorkerStops(w)
  <2>1. worker[w] \in WorkerLocals /\ worker[w].req \in Requests
    BY <1>5 DEF WorkerStops, TypeInv, TypeOK, LocalsKnown
  <2>2. \E l \in WorkerLocals : WorkerBecomes(w, l) /\ (l.pc # "idle" => l.req \in Requests)
    BY <1>5, <2>1, WorkerFacts DEF WorkerStops, WorkerPcs
  <2>3. TypeOK'
    BY <1>5, <2>2, FaultType DEF WorkerStops, TypeInv, TypeOK, WorkerBecomes
  <2>4. LocalsKnown'
    BY <1>5, <2>1, <2>2 DEF WorkerStops, TypeInv, TypeOK, LocalsKnown, WorkerBecomes
  <2>5. QED
    BY <2>3, <2>4 DEF TypeInv
<1>6. QED
  BY <1>1, <1>2, <1>3, <1>4, <1>5 DEF WorkerStep

LEMMA PollType ==
  ASSUME TypeInv, NEW p \in Polls,
         \/ PollStep(p) \/ PollStops(p)
         \/ \E r \in Requests, t \in Tokens : StartPoll(p, r, t)
  PROVE  TypeInv'
<1>1. CASE \E r \in Requests, t \in Tokens : StartPoll(p, r, t)
  <2> PICK r \in Requests, t \in Tokens : StartPoll(p, r, t)
    BY <1>1
  <2>1. \E l \in PollLocals : PollBecomes(p, l) /\ l.req \in Requests /\ l.token \in Tokens
    BY PollFacts DEF StartPoll, Refuse, PollPcs
  <2>2. TypeOK'
    BY <2>1, FaultType DEF StartPoll, TypeInv, TypeOK, PollBecomes
  <2>3. LocalsKnown'
    BY <2>1 DEF StartPoll, TypeInv, TypeOK, LocalsKnown, PollBecomes
  <2>4. QED
    BY <2>2, <2>3 DEF TypeInv
<1>2. CASE AuthenticatePoll(p)
  <2>1. poll[p] \in PollLocals /\ poll[p].req \in Requests /\ poll[p].token \in Tokens
    BY <1>2 DEF AuthenticatePoll, TypeInv, TypeOK, LocalsKnown
  <2>2. \E l \in PollLocals : PollBecomes(p, l) /\ SamePoll(poll[p], l)
    BY <1>2, <2>1, PollFacts DEF AuthenticatePoll, Refuse, PollPcs
  <2>3. spent' \in [Tokens -> Requests \cup Polls \cup {Nothing}]
    BY <1>2, <2>1 DEF AuthenticatePoll, TypeInv, TypeOK
  <2>4. TypeOK'
    BY <1>2, <2>2, <2>3, FaultType DEF AuthenticatePoll, TypeInv, TypeOK, PollBecomes
  <2>5. LocalsKnown'
    BY <1>2, <2>1, <2>2 DEF AuthenticatePoll, TypeInv, TypeOK, LocalsKnown, PollBecomes, SamePoll
  <2>6. QED
    BY <2>4, <2>5 DEF TypeInv
<1>3. CASE ReadStatus(p)
  <2>1. poll[p] \in PollLocals /\ poll[p].req \in Requests /\ poll[p].token \in Tokens
    BY <1>3 DEF ReadStatus, TypeInv, TypeOK, LocalsKnown
  <2>2. now \in Nat
    BY <1>3, <2>1, ItemFacts, Bounds DEF TypeInv, TypeOK
  <2>3. table[poll[p].req].doc \in Docs /\ table[poll[p].req].doc.status \in Statuses
    BY <1>3, <2>1, <2>2, ItemFacts, Bounds DEF TypeInv, TypeOK
  <2>4. \E l \in PollLocals : PollBecomes(p, l) /\ SamePoll(poll[p], l)
    <3> DEFINE status == table[poll[p].req].doc.status
    <3>1. \/ PollBecomes(p, Viewed(poll[p], "refused"))
          \/ PollBecomes(p, Overdue(poll[p], table[poll[p].req].doc, now))
          \/ PollBecomes(p, Viewed(GotoAt(poll[p], "done", now), status))
      BY <1>3 DEF ReadStatus, Refuse
    <3>2. CASE PollBecomes(p, Viewed(poll[p], "refused"))
      BY <2>1, <3>2, PollFacts
    <3>3. CASE PollBecomes(p, Overdue(poll[p], table[poll[p].req].doc, now))
      BY <2>1, <2>2, <2>3, <3>3, PollFacts
    <3>4. CASE PollBecomes(p, Viewed(GotoAt(poll[p], "done", now), status))
      <4>1. GotoAt(poll[p], "done", now) \in PollLocals /\ SamePoll(poll[p], GotoAt(poll[p], "done", now))
        BY <2>1, <2>2, PollFacts DEF PollPcs
      <4>2. /\ Viewed(GotoAt(poll[p], "done", now), status) \in PollLocals
            /\ SamePoll(GotoAt(poll[p], "done", now), Viewed(GotoAt(poll[p], "done", now), status))
        BY <4>1, <2>3, PollFacts
      <4>3. SamePoll(poll[p], Viewed(GotoAt(poll[p], "done", now), status))
        BY <4>1, <4>2 DEF SamePoll
      <4>4. QED
        BY <4>2, <4>3, <3>4
    <3>5. QED
      BY <3>1, <3>2, <3>3, <3>4
  <2>5. TypeOK'
    BY <1>3, <2>4, FaultType DEF ReadStatus, TypeInv, TypeOK, PollBecomes
  <2>6. LocalsKnown'
    BY <1>3, <2>1, <2>4 DEF ReadStatus, TypeInv, TypeOK, LocalsKnown, PollBecomes, SamePoll
  <2>7. QED
    BY <2>5, <2>6 DEF TypeInv
<1>4. CASE ExpireByPoll(p)
  <2>1. poll[p] \in PollLocals /\ poll[p].req \in Requests /\ poll[p].token \in Tokens
    BY <1>4 DEF ExpireByPoll, TypeInv, TypeOK, LocalsKnown
  <2>2. table[poll[p].req] \in Items /\ poll[p].doc \in Docs
    BY <2>1 DEF TypeInv, TypeOK, PollLocals
  <2>3. \E l \in PollLocals : PollBecomes(p, l) /\ SamePoll(poll[p], l)
    BY <1>4, <2>1, <2>2, PollFacts DEF ExpireByPoll, Refuse, PollPcs
  <2>4. table' \in [Requests -> Items]
    BY <1>4, <2>1, <2>2, ItemFacts DEF ExpireByPoll, TypeInv, TypeOK, TableBecomes
  <2>5. TypeOK'
    BY <1>4, <2>3, <2>4, FaultType DEF ExpireByPoll, TypeInv, TypeOK, PollBecomes
  <2>6. LocalsKnown'
    BY <1>4, <2>1, <2>3 DEF ExpireByPoll, TypeInv, TypeOK, LocalsKnown, PollBecomes, SamePoll
  <2>7. QED
    BY <2>5, <2>6 DEF TypeInv
<1>5. CASE RereadStatus(p)
  <2>1. poll[p] \in PollLocals /\ poll[p].req \in Requests /\ poll[p].token \in Tokens
    BY <1>5 DEF RereadStatus, TypeInv, TypeOK, LocalsKnown
  <2>2. table[poll[p].req].doc.status \in Statuses
    BY <1>5, <2>1, ItemFacts, Bounds DEF TypeInv, TypeOK
  <2>3. \E l \in PollLocals : PollBecomes(p, l) /\ SamePoll(poll[p], l)
    BY <1>5, <2>1, <2>2, PollFacts DEF RereadStatus, Refuse, PollPcs
  <2>4. TypeOK'
    BY <1>5, <2>3, FaultType DEF RereadStatus, TypeInv, TypeOK, PollBecomes
  <2>5. LocalsKnown'
    BY <1>5, <2>1, <2>3 DEF RereadStatus, TypeInv, TypeOK, LocalsKnown, PollBecomes, SamePoll
  <2>6. QED
    BY <2>4, <2>5 DEF TypeInv
<1>6. CASE PollStops(p)
  <2>1. poll[p] \in PollLocals /\ poll[p].req \in Requests /\ poll[p].token \in Tokens
    BY <1>6 DEF PollStops, TypeInv, TypeOK, LocalsKnown
  <2>2. \E l \in PollLocals : PollBecomes(p, l) /\ SamePoll(poll[p], l)
    BY <1>6, <2>1, PollFacts DEF PollStops, Refuse, PollPcs
  <2>3. TypeOK'
    BY <1>6, <2>2, FaultType DEF PollStops, TypeInv, TypeOK, PollBecomes
  <2>4. LocalsKnown'
    BY <1>6, <2>1, <2>2 DEF PollStops, TypeInv, TypeOK, LocalsKnown, PollBecomes, SamePoll
  <2>5. QED
    BY <2>3, <2>4 DEF TypeInv
<1>7. QED
  BY <1>1, <1>2, <1>3, <1>4, <1>5, <1>6 DEF PollStep

LEMMA InitType == Init => TypeInv
<1> SUFFICES ASSUME Init PROVE TypeInv
  OBVIOUS
<1>1. NoNotify \in NotifyLocals /\ NoClick \in ClickLocals /\ NoPoll \in PollLocals
  BY DEF NoNotify, NoClick, NoPoll, NotifyLocals, ClickLocals, PollLocals, NoDoc, Docs, Statuses
<1>2. TypeOK
  BY <1>1, ItemFacts, WorkerFacts, Bounds, BrokerAssumption
  DEF Init, TypeOK, BrokerAssumption, Audits
<1>3. LocalsKnown
  BY DEF Init, LocalsKnown, NoNotify, NoClick, Idle, NoPoll, ClaimKept
<1>4. QED
  BY <1>2, <1>3 DEF TypeInv

LEMMA NextType == TypeInv /\ [Next]_vars => TypeInv'
<1> SUFFICES ASSUME TypeInv, [Next]_vars PROVE TypeInv'
  OBVIOUS
<1>1. CASE \E n \in Repos, u \in Users : RemoveApprover(n, u)
  BY <1>1 DEF RemoveApprover, TypeInv, TypeOK, LocalsKnown
<1>2. CASE Tick
  BY <1>2, Bounds DEF Tick, TypeInv, TypeOK, LocalsKnown
<1>3. CASE UNCHANGED vars
  BY <1>3 DEF vars, TypeInv, TypeOK, LocalsKnown
<1>4. QED
  BY <1>1, <1>2, <1>3, NotifyType, ClickType, WorkerType, PollType DEF Next

\* Every variable keeps its type, and an invocation in progress knows its
\* request: no handler step uses a local before it is set.
THEOREM TypeCorrect == Spec => []TypeOK
<1>1. Spec => []TypeInv
  BY InitType, NextType, PTL DEF Spec
<1>2. TypeInv => TypeOK
  BY DEF TypeInv
<1>3. QED
  BY <1>1, <1>2, PTL

-----------------------------------------------------------------------------
(* The inductive invariant.                                                *)

Finals == Verdicts \cup {"expired"}

\* One item taken alone.
ItemSound(i) ==
  /\ i.doc.status = i.status
  /\ i.doc.expiresAt = i.expiresAt
  /\ i.claimUser = IF i.status = "processing" THEN i.doc.decision.by ELSE Nothing
  /\ i.doc.decision = NoDecision <=> i.status \in {"absent", "pending", "expired"}
  /\ i.status \in Verdicts => i.doc.decision.verdict = i.status
  /\ i.sideEffects => i.status \in Verdicts
  /\ i.status = "absent" => i = NoItem

\* What a step may make of a filed item.
Evolves(i, j) ==
  /\ j.status = "pending" => i.status = "pending" /\ j.doc = i.doc
  /\ i.status \in Finals => j.status = i.status /\ j.doc = i.doc
  /\ i.status = "processing" =>
       /\ j.status \in {"processing", i.doc.decision.verdict}
       /\ j.doc.decision = i.doc.decision
       /\ j.status = "processing" => j.doc = i.doc
  /\ i.status = "absent" => j = i
  /\ j.status \in Verdicts => i.status \in Verdicts \cup {"processing"}
  /\ i.sideEffects => j.sideEffects
  /\ j.status # "absent" => j.expiresAt = i.expiresAt

Unfiled(r) == notify[r].pc \in {"idle", "auth", "put"}
FiledNext(r) == notify'[r].pc \notin {"idle", "auth", "put"}

\* What notify's program counter says of the table, of Slack and of the token.
Filing(r) ==
  /\ Unfiled(r) => table[r] = NoItem /\ r \notin live
  /\ notify[r].pc = "withdrawn" => table[r] = NoItem
  /\ notify[r].pc \in {"post", "ref", "rollback"} => table[r].status # "absent"
  /\ notify[r].pc = "put" \/ table[r].status # "absent" => spent[notify[r].token] = r

FilingInv == \A r \in Requests : Filing(r)

\* A click's copy is the item's document for as long as it could be written,
\* and a click about to finalize holds the claim that is in the table.
ClickKnows(l, i) ==
  /\ l.pc \in {"lookup", "decide", "expire"} /\ i.status = "pending" => l.doc = i.doc
  /\ l.pc = "claim" /\ i.status = "pending" => l.doc = ClaimedDoc(i.doc, l.decision)
  /\ l.pc = "finalize" => i.status = "processing" /\ i.doc = l.doc

ClickInv ==
  /\ \A c \in Clicks : click[c].pc # "idle" =>
       ~Unfiled(click[c].req) /\ ClickKnows(click[c], table[click[c].req])
  /\ \A c, k \in Clicks :
       click[c].pc = "finalize" /\ click[k].pc = "finalize" /\ click[c].req = click[k].req
         => c = k

\* A poll that found the window closed leaves no pending request behind it,
\* and a final answer is the item's status.
PollKnows(l, i) ==
  /\ l.pc = "expire" => l.doc.expiresAt <= l.at
  /\ l.pc = "expire" /\ i.status = "pending" => l.doc = i.doc
  /\ l.pc = "reget" => i.status # "pending"
  /\ l.view \in Finals => i.status = l.view
  /\ l.view = "pending" /\ i.status # "absent" => l.at < i.expiresAt

Informed(l) == l.pc \in {"expire", "reget"} \/ (l.pc = "done" /\ l.view # "refused")

PollInv ==
  \A p \in Polls :
    /\ poll[p].pc # "done" => poll[p].view = "none"
    /\ Informed(poll[p]) =>
         ~Unfiled(poll[p].req) /\ PollKnows(poll[p], table[poll[p].req])

\* The worker that won the one-shot mark is alone and has not commented yet.
WorkerInv ==
  /\ \A w \in Workers : worker[w].pc \in {"get", "post"} =>
       /\ table[worker[w].req].sideEffects /\ audit[worker[w].req].n = 0
       /\ worker[w].pc = "post" => worker[w].doc.decision = table[worker[w].req].doc.decision
  /\ \A w, v \in Workers :
       worker[w].pc \in {"get", "post"} /\ worker[v].pc \in {"get", "post"}
         /\ worker[w].req = worker[v].req => w = v

AuditInv ==
  \A r \in Requests :
    /\ audit[r].n \in {0, 1}
    /\ audit[r].n = 0 => audit[r].of = NoDecision
    /\ audit[r].n = 1 => table[r].sideEffects /\ audit[r].of = table[r].doc.decision

SafeInv ==
  /\ TypeInv
  /\ \A r \in Requests : ItemSound(table[r])
  /\ FilingInv /\ ClickInv /\ PollInv /\ WorkerInv /\ AuditInv

-----------------------------------------------------------------------------
(* Single writes.                                                          *)

LEMMA Distinct == /\ Nothing \notin Users
                  /\ NoDecision \notin Decisions
                  /\ \A d \in Decisions : d # NoDecision /\ d.by \in Users /\ d.verdict \in Verdicts
BY BrokerAssumption DEF BrokerAssumption, NoDecision, Decisions, Verdicts

\* Each write the handlers make keeps an item sound and lets it evolve.
LEMMA WriteFacts ==
  ASSUME NEW i \in Items, ItemSound(i)
  PROVE  /\ Evolves(i, i)
         /\ i.status # "absent" =>
              /\ ItemSound(Referenced(i)) /\ Evolves(i, Referenced(i))
              /\ Referenced(i).status = i.status
         /\ i.status = "pending" => Evolves(i, NoItem)
         /\ i.status = "pending" =>
              /\ ItemSound(Expired(i, i.doc)) /\ Evolves(i, Expired(i, i.doc))
              /\ Expired(i, i.doc).status = "expired"
         /\ i.status = "pending" => \A d \in Decisions :
              LET j == Claimed(i, ClaimedDoc(i.doc, d)) IN
              /\ ItemSound(j) /\ Evolves(i, j)
              /\ j.status = "processing" /\ j.doc = ClaimedDoc(i.doc, d) /\ j.claimUser = d.by
         /\ i.status = "processing" =>
              LET j == Finalized(i, FinalDoc(i.doc)) IN
              /\ ItemSound(j) /\ Evolves(i, j)
              /\ j.status = i.doc.decision.verdict
         /\ CanDeliver(i) =>
              /\ ItemSound(Delivered(i)) /\ Evolves(i, Delivered(i))
              /\ Delivered(i).sideEffects /\ Delivered(i).status = i.status
<1>1. Evolves(i, i)
  BY DEF Evolves, Items, ItemSound
<1>2. ASSUME i.status # "absent"
      PROVE  /\ ItemSound(Referenced(i)) /\ Evolves(i, Referenced(i))
             /\ Referenced(i).status = i.status
  BY <1>2 DEF Referenced, ItemSound, Evolves, Items
<1>3. ASSUME i.status = "pending" PROVE Evolves(i, NoItem)
  <2>1. i.sideEffects = FALSE
    BY <1>3 DEF ItemSound, Items, Verdicts
  <2>2. QED
    BY <1>3, <2>1 DEF NoItem, NoDoc, Evolves, Verdicts, Finals
<1>4. ASSUME i.status = "pending"
      PROVE  /\ ItemSound(Expired(i, i.doc)) /\ Evolves(i, Expired(i, i.doc))
             /\ Expired(i, i.doc).status = "expired"
  <2>1. i.sideEffects = FALSE
    BY <1>4 DEF ItemSound, Items, Verdicts
  <2>2. ItemSound(Expired(i, i.doc))
    BY <1>4, <2>1 DEF Expired, ItemSound, Items, Docs, Verdicts
  <2>3. Evolves(i, Expired(i, i.doc)) /\ Expired(i, i.doc).status = "expired"
    BY <1>4, <2>1 DEF Expired, Evolves, Items, Docs, Verdicts, Finals
  <2>4. QED
    BY <2>2, <2>3
<1>5. ASSUME i.status = "pending", NEW d \in Decisions
      PROVE  LET j == Claimed(i, ClaimedDoc(i.doc, d)) IN
             /\ ItemSound(j) /\ Evolves(i, j)
             /\ j.status = "processing" /\ j.doc = ClaimedDoc(i.doc, d) /\ j.claimUser = d.by
  <2> DEFINE j == Claimed(i, ClaimedDoc(i.doc, d))
  <2>1. i.sideEffects = FALSE /\ i.doc \in Docs /\ i.doc.expiresAt = i.expiresAt
    BY <1>5 DEF ItemSound, Items, Verdicts
  <2>2. /\ ClaimedDoc(i.doc, d).status = "processing" /\ ClaimedDoc(i.doc, d).decision = d
        /\ ClaimedDoc(i.doc, d).expiresAt = i.expiresAt
    BY <2>1, DocFacts
  <2>3. /\ j.status = "processing" /\ j.claimUser = d.by /\ j.doc = ClaimedDoc(i.doc, d)
        /\ j.expiresAt = i.expiresAt /\ j.sideEffects = FALSE
    BY <2>1, <2>2 DEF Claimed, Items
  <2>4. ItemSound(j)
    BY <2>2, <2>3, Distinct DEF ItemSound, Verdicts
  <2>5. Evolves(i, j)
    BY <1>5, <2>1, <2>3 DEF Evolves, Verdicts, Finals
  <2>6. QED
    BY <2>3, <2>4, <2>5
<1>6. ASSUME i.status = "processing"
      PROVE  LET j == Finalized(i, FinalDoc(i.doc)) IN
             /\ ItemSound(j) /\ Evolves(i, j)
             /\ j.status = i.doc.decision.verdict
  <2> DEFINE j == Finalized(i, FinalDoc(i.doc))
  <2>1. /\ i.sideEffects = FALSE /\ i.doc \in Docs /\ i.doc.expiresAt = i.expiresAt
        /\ i.doc.decision # NoDecision
    BY <1>6 DEF ItemSound, Items, Verdicts
  <2>2. i.doc.decision \in Decisions
    BY <2>1 DEF Docs
  <2>3. /\ FinalDoc(i.doc).status = i.doc.decision.verdict /\ FinalDoc(i.doc).decision = i.doc.decision
        /\ FinalDoc(i.doc).expiresAt = i.expiresAt
    BY <2>1, <2>2, DocFacts
  <2>4. /\ j.status = i.doc.decision.verdict /\ j.claimUser = Nothing /\ j.doc = FinalDoc(i.doc)
        /\ j.expiresAt = i.expiresAt /\ j.sideEffects = FALSE
    BY <2>1, <2>3 DEF Finalized, Items
  <2>5. i.doc.decision.verdict \in {"approved", "denied"}
    BY <2>2, Distinct DEF Verdicts
  <2>6. ItemSound(j)
    BY <2>1, <2>3, <2>4, <2>5 DEF ItemSound, Verdicts
  <2>7. Evolves(i, j)
    BY <1>6, <2>1, <2>3, <2>4, <2>5 DEF Evolves, Verdicts, Finals
  <2>8. QED
    BY <2>4, <2>6, <2>7
<1>7. ASSUME CanDeliver(i)
      PROVE  /\ ItemSound(Delivered(i)) /\ Evolves(i, Delivered(i))
             /\ Delivered(i).sideEffects /\ Delivered(i).status = i.status
  BY <1>7 DEF CanDeliver, Delivered, ItemSound, Evolves, Items, Verdicts
<1>8. QED
  BY <1>1, <1>2, <1>3, <1>4, <1>5, <1>6, <1>7

LEMMA NewItemFacts ==
  /\ ItemSound(NoItem) /\ NoItem.status = "absent" /\ NoItem.sideEffects = FALSE
  /\ NoItem.doc.decision = NoDecision
  /\ \A e \in Nat : /\ ItemSound(PendingItem(e)) /\ PendingItem(e).status = "pending"
                   /\ PendingItem(e).sideEffects = FALSE
BY DEF ItemSound, NoItem, NoDoc, PendingItem, Verdicts

-----------------------------------------------------------------------------
(* Who changes what.                                                       *)

LEMMA Entry ==
  ASSUME TypeInv, NEW r \in Requests, NEW i, TableBecomes(r, i)
  PROVE  table'[r] = i /\ \A q \in Requests \ {r} : table'[q] = table[q]
BY DEF TypeInv, TypeOK, TableBecomes

LEMMA NotifyEntry ==
  ASSUME TypeInv, NEW r \in Requests, NEW l, NotifyBecomes(r, l)
  PROVE  notify'[r] = l /\ \A q \in Requests \ {r} : notify'[q] = notify[q]
BY DEF TypeInv, TypeOK, NotifyBecomes

LEMMA ClickEntry ==
  ASSUME TypeInv, NEW c \in Clicks, NEW l, ClickBecomes(c, l)
  PROVE  click'[c] = l /\ \A k \in Clicks \ {c} : click'[k] = click[k]
BY DEF TypeInv, TypeOK, ClickBecomes

LEMMA WorkerEntry ==
  ASSUME TypeInv, NEW w \in Workers, NEW l, WorkerBecomes(w, l)
  PROVE  worker'[w] = l /\ \A v \in Workers \ {w} : worker'[v] = worker[v]
BY DEF TypeInv, TypeOK, WorkerBecomes

LEMMA PollEntry ==
  ASSUME TypeInv, NEW p \in Polls, NEW l, PollBecomes(p, l)
  PROVE  poll'[p] = l /\ \A o \in Polls \ {p} : poll'[o] = poll[o]
BY DEF TypeInv, TypeOK, PollBecomes

TableWrite ==
  \/ \E r \in Requests : PutPending(r) \/ SetSlackRef(r) \/ Rollback(r)
  \/ \E c \in Clicks : ExpireByClick(c) \/ Claim(c) \/ Finalize(c)
  \/ \E w \in Workers : ClaimSideEffects(w)
  \/ \E p \in Polls : ExpireByPoll(p)

NotifyMove ==
  \E r \in Requests :
    NotifyStep(r) \/ NotifyStops(r) \/ \E t \in Tokens : StartNotify(r, t)
ClickMove ==
  \E c \in Clicks :
    ClickStep(c) \/ ClickStops(c) \/ \E r \in Requests, d \in Decisions : Press(c, r, d)
WorkerMove ==
  \E w \in Workers : WorkerStep(w) \/ WorkerStops(w) \/ \E r \in Requests : Deliver(w, r)
PollMove ==
  \E p \in Polls :
    PollStep(p) \/ PollStops(p) \/ \E r \in Requests, t \in Tokens : StartPoll(p, r, t)
Environment == Tick \/ (\E n \in Repos, u \in Users : RemoveApprover(n, u)) \/ UNCHANGED vars

LEMMA Moves ==
  ASSUME [Next]_vars
  PROVE  NotifyMove \/ ClickMove \/ WorkerMove \/ PollMove \/ Environment
BY DEF Next, NotifyMove, ClickMove, WorkerMove, PollMove, Environment

LEMMA NotifyFrame ==
  ASSUME NotifyMove
  PROVE  UNCHANGED <<audit, queue, approvers, click, worker, poll, now>>
BY DEF NotifyMove, NotifyStep, StartNotify, Authenticate, PutPending, PostMessage, SetSlackRef,
       Rollback, NotifyStops

LEMMA ClickFrame ==
  ASSUME ClickMove
  PROVE  UNCHANGED <<now, spent, live, audit, approvers, notify, worker, poll>>
BY DEF ClickMove, ClickStep, Press, ReadRequest, Lookup, Decide, ExpireByClick, Claim, Finalize,
       Enqueue, ClickStops

LEMMA WorkerFrame ==
  ASSUME WorkerMove
  PROVE  UNCHANGED <<now, spent, approvers, notify, click, poll>>
BY DEF WorkerMove, WorkerStep, Deliver, ClaimSideEffects, ReadDecided, PostEffects, WorkerStops

LEMMA PollFrame ==
  ASSUME PollMove
  PROVE  UNCHANGED <<now, live, audit, queue, approvers, notify, click, worker>>
BY DEF PollMove, PollStep, StartPoll, AuthenticatePoll, ReadStatus, ExpireByPoll, RereadStatus,
       PollStops

LEMMA EnvironmentFrame ==
  ASSUME Environment
  PROVE  UNCHANGED <<table, spent, live, audit, queue, notify, click, worker, poll, faults>>
BY DEF Environment, Tick, RemoveApprover, vars

LEMMA TableFrame ==
  ASSUME [Next]_vars
  PROVE  TableWrite \/ UNCHANGED table
<1>1. CASE NotifyMove
  BY <1>1 DEF NotifyMove, NotifyStep, StartNotify, Authenticate, PostMessage, NotifyStops, TableWrite
<1>2. CASE ClickMove
  BY <1>2 DEF ClickMove, ClickStep, Press, ReadRequest, Lookup, Decide, Enqueue, ClickStops, TableWrite
<1>3. CASE WorkerMove
  BY <1>3 DEF WorkerMove, WorkerStep, Deliver, ReadDecided, PostEffects, WorkerStops, TableWrite
<1>4. CASE PollMove
  BY <1>4 DEF PollMove, PollStep, StartPoll, AuthenticatePoll, ReadStatus, RereadStatus, PollStops,
              TableWrite
<1>5. CASE Environment
  BY <1>5, EnvironmentFrame
<1>6. QED
  BY <1>1, <1>2, <1>3, <1>4, <1>5, Moves

-----------------------------------------------------------------------------
(* What a step does to an item.                                            *)

\* The click that holds a claim stops being about to finalize it.
Releases(k, r) ==
  click[k].pc = "finalize" /\ click[k].req = r /\ click'[k].pc # "finalize"

\* All a step can do to the item of request r.
ItemStep(r) ==
  /\ ItemSound(table'[r])
  /\ ~Unfiled(r) => Evolves(table[r], table'[r])
  /\ Unfiled(r) =>
       \/ table'[r] = NoItem
       \/ notify[r].pc = "put" /\ ~Unfiled(r)' /\ table'[r].status = "pending"
  /\ table[r].status = "processing" /\ table'[r].status # "processing" =>
       \E k \in Clicks : Releases(k, r)
  /\ table[r].status # "absent" /\ table'[r].status = "absent" => notify'[r].pc = "withdrawn"

LEMMA SameItem ==
  ASSUME SafeInv, NEW r \in Requests, table'[r] = table[r]
  PROVE  ItemStep(r)
<1>1. table[r] \in Items /\ ItemSound(table[r])
  BY DEF SafeInv, TypeInv, TypeOK
<1>2. Evolves(table[r], table'[r])
  BY <1>1, WriteFacts
<1>3. QED
  BY <1>1, <1>2 DEF ItemStep, SafeInv, FilingInv, Filing

\* A write of one entry is a step of that entry; the others stay.
LEMMA OneItem ==
  ASSUME SafeInv, NEW r \in Requests, NEW i, TableBecomes(r, i),
         table'[r] = i => ItemStep(r)
  PROVE  \A q \in Requests : ItemStep(q)
<1>1. table'[r] = i /\ \A q \in Requests \ {r} : table'[q] = table[q]
  BY Entry DEF SafeInv
<1>2. QED
  BY <1>1, SameItem

LEMMA TableMoves ==
  ASSUME SafeInv, [Next]_vars
  PROVE  \A r \in Requests : ItemStep(r)
<1> USE DEF SafeInv
<1> \A r \in Requests : table[r] \in Items /\ ItemSound(table[r])
  BY DEF TypeInv, TypeOK
<1>1. CASE UNCHANGED table
  BY <1>1, SameItem
<1>2. ASSUME NEW r \in Requests, PutPending(r) PROVE \A q \in Requests : ItemStep(q)
  <2>1. PICK window \in Timeouts : TableBecomes(r, PendingItem(now + window))
    BY <1>2 DEF PutPending
  <2>2. now + window \in Nat
    BY Bounds, BrokerAssumption DEF BrokerAssumption, TypeInv, TypeOK
  <2>3. ItemSound(PendingItem(now + window)) /\ PendingItem(now + window).status = "pending"
    BY <2>2, NewItemFacts
  <2>4. notify[r] \in NotifyLocals /\ notify[r].pc = "put"
    BY <1>2 DEF PutPending, TypeInv, TypeOK
  <2>5. \E x \in {"post", "failed"} : NotifyBecomes(r, Goto(notify[r], x))
    BY <1>2 DEF PutPending
  <2>6. ~Unfiled(r)'
    BY <2>4, <2>5, NotifyFacts DEF NotifyPcs, NotifyBecomes, Unfiled, TypeInv, TypeOK
  <2>7. Unfiled(r) /\ table[r] = NoItem
    BY <2>4 DEF Unfiled, FilingInv, Filing
  <2>8. table'[r] = PendingItem(now + window) => ItemStep(r)
    BY <2>3, <2>4, <2>6, <2>7, NewItemFacts DEF ItemStep
  <2>9. QED
    BY <2>1, <2>8, OneItem
<1>3. ASSUME NEW r \in Requests, SetSlackRef(r) PROVE \A q \in Requests : ItemStep(q)
  <2>1. ~Unfiled(r) /\ table[r].status # "absent"
    BY <1>3 DEF SetSlackRef, Unfiled, FilingInv, Filing
  <2>2. /\ ItemSound(Referenced(table[r])) /\ Evolves(table[r], Referenced(table[r]))
        /\ Referenced(table[r]).status = table[r].status
    BY <2>1, WriteFacts
  <2>3. table'[r] = Referenced(table[r]) => ItemStep(r)
    BY <2>1, <2>2 DEF ItemStep
  <2>4. TableBecomes(r, table[r]) \/ TableBecomes(r, Referenced(table[r]))
    BY <1>3 DEF SetSlackRef
  <2>5. QED
    BY <2>3, <2>4, OneItem, SameItem
<1>4. ASSUME NEW r \in Requests, Rollback(r) PROVE \A q \in Requests : ItemStep(q)
  <2>1. CASE UNCHANGED table
    BY <2>1, SameItem
  <2>2. CASE /\ CanDelete(table[r]) /\ TableBecomes(r, NoItem)
             /\ NotifyBecomes(r, Goto(notify[r], "withdrawn"))
    <3>1. ~Unfiled(r) /\ table[r].status = "pending"
      BY <1>4, <2>2 DEF Rollback, Unfiled, CanDelete
    <3>2. Evolves(table[r], NoItem)
      BY <3>1, WriteFacts
    <3>3. notify'[r].pc = "withdrawn"
      <4>1. notify[r] \in NotifyLocals
        BY DEF TypeInv, TypeOK
      <4>2. NotifyBecomes(r, Goto(notify[r], "withdrawn"))
        BY <2>2
      <4>3. QED
        BY <4>1, <4>2, NotifyEntry, NotifyFacts DEF NotifyPcs
    <3>4. table'[r] = NoItem => ItemStep(r)
      BY <3>1, <3>2, <3>3, NewItemFacts DEF ItemStep
    <3>5. QED
      BY <2>2, <3>4, OneItem
  <2>3. QED
    BY <1>4, <2>1, <2>2 DEF Rollback
<1>5. ASSUME NEW c \in Clicks, ExpireByClick(c) PROVE \A q \in Requests : ItemStep(q)
  <2> DEFINE r == click[c].req
  <2>1. r \in Requests /\ ~Unfiled(r) /\ ClickKnows(click[c], table[r]) /\ click[c].pc = "expire"
    BY <1>5 DEF ExpireByClick, ClickInv, TypeInv, LocalsKnown
  <2>2. CASE CanExpire(table[r], click[c].at)
    <3>1. table[r].status = "pending" /\ click[c].doc = table[r].doc
      BY <2>1, <2>2 DEF CanExpire, ClickKnows
    <3>2. /\ ItemSound(Expired(table[r], table[r].doc)) /\ Evolves(table[r], Expired(table[r], table[r].doc))
          /\ Expired(table[r], table[r].doc).status = "expired"
      BY <2>1, <3>1, WriteFacts
    <3>3. table'[r] = Expired(table[r], table[r].doc) => ItemStep(r)
      BY <2>1, <3>1, <3>2 DEF ItemStep
    <3>4. TableBecomes(r, Expired(table[r], table[r].doc))
      BY <1>5, <2>2, <3>1 DEF ExpireByClick
    <3>5. QED
      BY <2>1, <3>3, <3>4, OneItem
  <2>3. CASE ~CanExpire(table[r], click[c].at)
    <3>1. TableBecomes(r, table[r])
      BY <1>5, <2>3 DEF ExpireByClick
    <3>2. QED
      BY <2>1, <3>1, OneItem, SameItem
  <2>4. QED
    BY <2>2, <2>3
<1>6. ASSUME NEW c \in Clicks, Claim(c) PROVE \A q \in Requests : ItemStep(q)
  <2> DEFINE r == click[c].req
  <2>1. r \in Requests /\ ~Unfiled(r) /\ ClickKnows(click[c], table[r]) /\ click[c].pc = "claim"
        /\ click[c].decision \in Decisions
    BY <1>6 DEF Claim, ClickInv, TypeInv, LocalsKnown
  <2>2. CASE UNCHANGED table
    BY <2>2, SameItem
  <2>3. CASE CanClaim(table[r], click[c].at) /\ TableBecomes(r, Claimed(table[r], click[c].doc))
    <3> DEFINE j == Claimed(table[r], ClaimedDoc(table[r].doc, click[c].decision))
    <3>1. table[r].status = "pending" /\ click[c].doc = ClaimedDoc(table[r].doc, click[c].decision)
      BY <2>1, <2>3 DEF CanClaim, ClickKnows
    <3>2. ItemSound(j) /\ Evolves(table[r], j) /\ j.status = "processing"
      BY <2>1, <3>1, WriteFacts
    <3>3. TableBecomes(r, j)
      BY <2>3, <3>1
    <3> HIDE DEF j
    <3>4. table'[r] = j => ItemStep(r)
      BY <2>1, <3>1, <3>2 DEF ItemStep
    <3>5. QED
      BY <2>1, <3>3, <3>4, OneItem
  <2>4. QED
    BY <1>6, <2>2, <2>3 DEF Claim
<1>7. ASSUME NEW c \in Clicks, Finalize(c) PROVE \A q \in Requests : ItemStep(q)
  <2> DEFINE r == click[c].req
  <2>1. r \in Requests /\ ~Unfiled(r) /\ ClickKnows(click[c], table[r]) /\ click[c].pc = "finalize"
        /\ click[c] \in ClickLocals
    BY <1>7 DEF Finalize, ClickInv, TypeInv, TypeOK, LocalsKnown
  <2>2. table[r].status = "processing" /\ click[c].doc = table[r].doc
    BY <2>1 DEF ClickKnows
  <2>3. CASE UNCHANGED table
    BY <2>3, SameItem
  <2>4. CASE TableBecomes(r, Finalized(table[r], FinalDoc(click[c].doc)))
    <3> DEFINE j == Finalized(table[r], FinalDoc(table[r].doc))
    <3>1. ItemSound(j) /\ Evolves(table[r], j) /\ j.status # "absent"
      <4>1. table[r].doc \in Docs /\ table[r].doc.decision # NoDecision
        BY <2>1, <2>2, ItemFacts DEF ItemSound
      <4>2. table[r].doc.decision.verdict \in Verdicts
        BY <4>1, Distinct DEF Docs
      <4>3. QED
        BY <2>1, <2>2, <4>2, WriteFacts DEF Verdicts
    <3>2. TableBecomes(r, j)
      BY <2>2, <2>4
    <3>3. click'[c].pc # "finalize"
      <4>1. ClickBecomes(c, Goto(click[c], "enqueue")) \/ ClickBecomes(c, Answered(click[c], "failed"))
        BY <1>7 DEF Finalize, Answer
      <4>2. Goto(click[c], "enqueue").pc = "enqueue" /\ Answered(click[c], "failed").pc = "done"
        BY <2>1, ClickFacts DEF ClickPcs, Outcomes
      <4>3. QED
        BY <4>1, <4>2, ClickEntry
    <3> HIDE DEF j
    <3>4. table'[r] = j => ItemStep(r)
      BY <2>1, <3>1, <3>3 DEF ItemStep, Releases
    <3>5. QED
      BY <2>1, <3>2, <3>4, OneItem
  <2>5. QED
    BY <1>7, <2>3, <2>4 DEF Finalize
<1>8. ASSUME NEW w \in Workers, ClaimSideEffects(w) PROVE \A q \in Requests : ItemStep(q)
  <2> DEFINE r == worker[w].req
  <2>1. r \in Requests
    BY <1>8 DEF ClaimSideEffects, TypeInv, LocalsKnown
  <2>2. CASE UNCHANGED table
    BY <2>2, SameItem
  <2>3. CASE CanDeliver(table[r]) /\ TableBecomes(r, Delivered(table[r]))
    <3>1. /\ ItemSound(Delivered(table[r])) /\ Evolves(table[r], Delivered(table[r]))
          /\ Delivered(table[r]).status = table[r].status
      BY <2>1, <2>3, WriteFacts
    <3>2. ~Unfiled(r)
      BY <2>1, <2>3, NewItemFacts DEF FilingInv, Filing, CanDeliver, Verdicts
    <3>3. table'[r] = Delivered(table[r]) => ItemStep(r)
      BY <3>1, <3>2 DEF ItemStep
    <3>4. QED
      BY <2>1, <2>3, <3>3, OneItem
  <2>4. QED
    BY <1>8, <2>2, <2>3 DEF ClaimSideEffects
<1>9. ASSUME NEW p \in Polls, ExpireByPoll(p) PROVE \A q \in Requests : ItemStep(q)
  <2> DEFINE r == poll[p].req
  <2>1. r \in Requests /\ ~Unfiled(r) /\ PollKnows(poll[p], table[r]) /\ poll[p].pc = "expire"
    BY <1>9 DEF ExpireByPoll, PollInv, Informed, TypeInv, LocalsKnown
  <2>2. CASE CanExpire(table[r], poll[p].at)
    <3>1. table[r].status = "pending" /\ poll[p].doc = table[r].doc
      BY <2>1, <2>2 DEF CanExpire, PollKnows
    <3>2. /\ ItemSound(Expired(table[r], table[r].doc)) /\ Evolves(table[r], Expired(table[r], table[r].doc))
          /\ Expired(table[r], table[r].doc).status = "expired"
      BY <2>1, <3>1, WriteFacts
    <3>3. table'[r] = Expired(table[r], table[r].doc) => ItemStep(r)
      BY <2>1, <3>1, <3>2 DEF ItemStep
    <3>4. TableBecomes(r, Expired(table[r], table[r].doc))
      BY <1>9, <2>2, <3>1 DEF ExpireByPoll
    <3>5. QED
      BY <2>1, <3>3, <3>4, OneItem
  <2>3. CASE ~CanExpire(table[r], poll[p].at)
    <3>1. TableBecomes(r, table[r])
      BY <1>9, <2>3 DEF ExpireByPoll
    <3>2. QED
      BY <2>1, <3>1, OneItem, SameItem
  <2>4. QED
    BY <2>2, <2>3
<1>10. QED
  BY <1>1, <1>2, <1>3, <1>4, <1>5, <1>6, <1>7, <1>8, <1>9, TableFrame DEF TableWrite

-----------------------------------------------------------------------------
(* Filing.                                                                 *)

\* A spent token stays with its holder.
LEMMA SpentStands ==
  ASSUME SafeInv, [Next]_vars, NEW t \in Tokens, spent[t] # Nothing
  PROVE  spent'[t] = spent[t]
<1>1. CASE NotifyMove
  <2>1. PICK r \in Requests :
          NotifyStep(r) \/ NotifyStops(r) \/ \E u \in Tokens : StartNotify(r, u)
    BY <1>1 DEF NotifyMove
  <2>2. CASE Authenticate(r)
    BY <2>2 DEF Authenticate, CanConsume, SafeInv, TypeInv, TypeOK
  <2>3. CASE ~Authenticate(r)
    BY <2>1, <2>3 DEF NotifyStep, StartNotify, PutPending, PostMessage, SetSlackRef, Rollback,
                      NotifyStops
  <2>4. QED
    BY <2>2, <2>3
<1>2. CASE PollMove
  <2>1. PICK p \in Polls :
          PollStep(p) \/ PollStops(p) \/ \E r \in Requests, u \in Tokens : StartPoll(p, r, u)
    BY <1>2 DEF PollMove
  <2>2. CASE AuthenticatePoll(p)
    BY <2>2 DEF AuthenticatePoll, CanConsume, SafeInv, TypeInv, TypeOK
  <2>3. CASE ~AuthenticatePoll(p)
    BY <2>1, <2>3 DEF PollStep, StartPoll, ReadStatus, ExpireByPoll, RereadStatus, PollStops
  <2>4. QED
    BY <2>2, <2>3
<1>3. QED
  BY <1>1, <1>2, Moves, ClickFrame, WorkerFrame, EnvironmentFrame

\* Messages appear only by PostMessage.
LEMMA LiveGrows ==
  ASSUME SafeInv, [Next]_vars, NEW r \in Requests, r \in live', ~PostMessage(r)
  PROVE  r \in live
<1>1. CASE NotifyMove
  <2>1. PICK q \in Requests :
          NotifyStep(q) \/ NotifyStops(q) \/ \E u \in Tokens : StartNotify(q, u)
    BY <1>1 DEF NotifyMove
  <2>2. CASE PostMessage(q)
    BY <2>2 DEF PostMessage
  <2>3. CASE ~PostMessage(q)
    BY <2>1, <2>3 DEF NotifyStep, StartNotify, Authenticate, PutPending, SetSlackRef, Rollback,
                      NotifyStops
  <2>4. QED
    BY <2>2, <2>3
<1>2. CASE WorkerMove
  BY <1>2 DEF WorkerMove, WorkerStep, Deliver, ClaimSideEffects, ReadDecided, PostEffects, WorkerStops
<1>3. QED
  BY <1>1, <1>2, Moves, ClickFrame, PollFrame, EnvironmentFrame

\* A request whose notify does not move keeps its part of the invariant.
LEMMA FilingKept ==
  ASSUME SafeInv, [Next]_vars, NEW r \in Requests, notify'[r] = notify[r],
         r \in live' => r \in live
  PROVE  Filing(r)'
<1>1. ItemStep(r) /\ Filing(r) /\ (Unfiled(r)' <=> Unfiled(r))
  BY TableMoves DEF SafeInv, FilingInv, Unfiled
<1>2. Unfiled(r)' => table'[r] = NoItem /\ r \notin live'
  BY <1>1 DEF ItemStep, Filing
<1>3. notify'[r].pc = "withdrawn" => table'[r] = NoItem
  BY <1>1, NewItemFacts DEF ItemStep, Filing, Evolves, Unfiled
<1>4. notify'[r].pc \in {"post", "ref", "rollback"} => table'[r].status # "absent"
  BY <1>1 DEF ItemStep, Filing
<1>5. ASSUME notify'[r].pc = "put" \/ table'[r].status # "absent"
      PROVE  spent'[notify'[r].token] = r
  <2>1. notify[r].pc = "put" \/ table[r].status # "absent"
    BY <1>1, <1>5, NewItemFacts DEF ItemStep, Evolves, Filing, Unfiled
  <2>2. spent[notify[r].token] = r /\ notify[r].pc # "idle"
    BY <1>1, <2>1, NewItemFacts DEF Filing, Unfiled
  <2>3. notify[r].token \in Tokens /\ r # Nothing
    BY <2>2, BrokerAssumption DEF SafeInv, TypeInv, LocalsKnown, BrokerAssumption
  <2>4. QED
    BY <2>2, <2>3, SpentStands
<1>6. QED
  BY <1>2, <1>3, <1>4, <1>5 DEF Filing

LEMMA FilingNext ==
  ASSUME SafeInv, [Next]_vars
  PROVE  FilingInv'
<1> USE DEF SafeInv
<1> SUFFICES ASSUME NEW r \in Requests PROVE Filing(r)'
  BY DEF FilingInv
<1>0. Filing(r) /\ ItemStep(r) /\ notify[r] \in NotifyLocals
  BY TableMoves DEF FilingInv, TypeInv, TypeOK
<1>1. CASE notify'[r] = notify[r]
  <2>1. ~PostMessage(r)
    <3>1. SUFFICES ASSUME PostMessage(r) PROVE FALSE
      OBVIOUS
    <3>2. \E x \in {"ref", "rollback"} : NotifyBecomes(r, Goto(notify[r], x))
      BY <3>1 DEF PostMessage
    <3>3. notify'[r].pc \in {"ref", "rollback"}
      BY <1>0, <3>2, NotifyEntry, NotifyFacts DEF NotifyPcs
    <3>4. QED
      BY <1>1, <3>1, <3>3 DEF PostMessage
  <2>2. QED
    BY <1>1, <2>1, LiveGrows, FilingKept
<1>2. CASE \E t \in Tokens : StartNotify(r, t)
  <2>1. PICK t \in Tokens : StartNotify(r, t)
    BY <1>2
  <2>2. notify'[r].pc = "auth" /\ notify[r].pc = "idle" /\ UNCHANGED <<table, live>>
    BY <2>1, NotifyEntry DEF StartNotify
  <2>3. QED
    BY <1>0, <2>2, NewItemFacts DEF Filing, Unfiled
<1>3. CASE Authenticate(r)
  <2>1. PICK next \in {"put", "failed"} :
          /\ NotifyBecomes(r, Goto(notify[r], next))
          /\ next = "put" => spent' = [spent EXCEPT ![notify[r].token] = r]
    BY <1>3 DEF Authenticate
  <2>2. notify'[r].pc = next /\ notify'[r].token = notify[r].token
    BY <1>0, <2>1, NotifyEntry, NotifyFacts DEF NotifyPcs
  <2>3. notify[r].pc = "auth" /\ notify[r].token \in Tokens /\ UNCHANGED <<table, live>>
    BY <1>3 DEF Authenticate, TypeInv, LocalsKnown
  <2>4. next = "put" => spent'[notify[r].token] = r
    BY <2>1, <2>3 DEF TypeInv, TypeOK
  <2>5. QED
    BY <1>0, <2>2, <2>3, <2>4, NewItemFacts DEF Filing, Unfiled
<1>4. CASE PutPending(r)
  <2>1. PICK x \in {"post", "failed"} : NotifyBecomes(r, Goto(notify[r], x))
    BY <1>4 DEF PutPending
  <2>2. notify'[r].pc = x /\ notify'[r].token = notify[r].token
    BY <1>0, <2>1, NotifyEntry, NotifyFacts DEF NotifyPcs
  <2>3. notify[r].pc = "put" /\ UNCHANGED spent
    BY <1>4 DEF PutPending
  <2>4. PICK window \in Timeouts : TableBecomes(r, PendingItem(now + window))
    BY <1>4 DEF PutPending
  <2>5. table'[r].status = "pending"
    <3>1. now + window \in Nat
      BY Bounds, BrokerAssumption DEF BrokerAssumption, TypeInv, TypeOK
    <3>2. QED
      BY <2>4, <3>1, Entry, NewItemFacts
  <2>6. QED
    BY <1>0, <2>2, <2>3, <2>5 DEF Filing, Unfiled
<1>5. CASE PostMessage(r)
  <2>1. PICK x \in {"ref", "rollback"} : NotifyBecomes(r, Goto(notify[r], x))
    BY <1>5 DEF PostMessage
  <2>2. notify'[r].pc = x /\ notify'[r].token = notify[r].token
    BY <1>0, <2>1, NotifyEntry, NotifyFacts DEF NotifyPcs
  <2>3. notify[r].pc = "post" /\ UNCHANGED <<table, spent>>
    BY <1>5 DEF PostMessage
  <2>4. QED
    BY <1>0, <2>2, <2>3 DEF Filing, Unfiled
<1>6. CASE SetSlackRef(r)
  <2>1. PICK x \in {"created", "rollback"} : NotifyBecomes(r, Goto(notify[r], x))
    BY <1>6 DEF SetSlackRef
  <2>2. notify'[r].pc = x /\ notify'[r].token = notify[r].token
    BY <1>0, <2>1, NotifyEntry, NotifyFacts DEF NotifyPcs
  <2>3. notify[r].pc = "ref" /\ UNCHANGED spent
    BY <1>6 DEF SetSlackRef
  <2>4. table'[r].status # "absent"
    BY <1>0, <2>2, <2>3 DEF ItemStep, Filing
  <2>5. QED
    BY <1>0, <2>2, <2>3, <2>4 DEF Filing, Unfiled
<1>7. CASE Rollback(r)
  <2>1. PICK x \in {"withdrawn", "failed"} :
          /\ NotifyBecomes(r, Goto(notify[r], x))
          /\ IF x = "withdrawn" THEN TableBecomes(r, NoItem) ELSE UNCHANGED table
    BY <1>7 DEF Rollback
  <2>2. notify'[r].pc = x /\ notify'[r].token = notify[r].token
    BY <1>0, <2>1, NotifyEntry, NotifyFacts DEF NotifyPcs
  <2>3. notify[r].pc = "rollback" /\ UNCHANGED spent
    BY <1>7 DEF Rollback
  <2>4. x = "withdrawn" => table'[r] = NoItem
    BY <2>1, Entry
  <2>5. QED
    BY <1>0, <2>1, <2>2, <2>3, <2>4, NewItemFacts DEF Filing, Unfiled
<1>8. CASE NotifyStops(r)
  <2>1. notify'[r].pc = "failed" /\ notify'[r].token = notify[r].token
    BY <1>0, <1>8, NotifyEntry, NotifyFacts DEF NotifyStops, NotifyPcs
  <2>2. UNCHANGED <<table, spent>> /\ notify[r].pc \in {"auth", "put", "post", "ref", "rollback"}
    BY <1>8 DEF NotifyStops, NotifyActive
  <2>3. QED
    BY <1>0, <2>1, <2>2 DEF Filing, Unfiled
<1>9. CASE \A q \in Requests : NotifyStep(q) \/ NotifyStops(q) \/ (\E t \in Tokens : StartNotify(q, t)) => q # r
  <2>1. notify'[r] = notify[r]
    <3>1. CASE NotifyMove
      <4>1. PICK q \in Requests :
              NotifyStep(q) \/ NotifyStops(q) \/ \E t \in Tokens : StartNotify(q, t)
        BY <3>1 DEF NotifyMove
      <4>2. \E l : NotifyBecomes(q, l)
        BY <4>1 DEF NotifyStep, StartNotify, Authenticate, PutPending, PostMessage, SetSlackRef,
                    Rollback, NotifyStops
      <4>3. QED
        BY <1>9, <4>1, <4>2, NotifyEntry
    <3>2. QED
      BY <3>1, Moves, ClickFrame, WorkerFrame, PollFrame, EnvironmentFrame
  <2>2. QED
    BY <1>1, <2>1
<1>10. QED
  BY <1>2, <1>3, <1>4, <1>5, <1>6, <1>7, <1>8, <1>9 DEF NotifyStep

\* A filed request stays filed, under the same token.
LEMMA FiledStays ==
  ASSUME SafeInv, [Next]_vars, NEW r \in Requests, notify[r].pc # "idle"
  PROVE  /\ notify'[r].pc # "idle" /\ notify'[r].token = notify[r].token
         /\ ~Unfiled(r) => ~Unfiled(r)'
<1>1. CASE NotifyMove
  <2>1. PICK q \in Requests :
          NotifyStep(q) \/ NotifyStops(q) \/ \E t \in Tokens : StartNotify(q, t)
    BY <1>1 DEF NotifyMove
  <2>2. CASE q = r
    <3>1. \E x \in NotifyPcs \ {"idle"} :
            /\ NotifyBecomes(r, Goto(notify[r], x))
            /\ ~Unfiled(r) => x \notin {"auth", "put"}
      <4>1. CASE \E t \in Tokens : StartNotify(r, t)
        BY <4>1 DEF StartNotify
      <4>2. CASE Authenticate(r)
        BY <4>2 DEF Authenticate, NotifyPcs, Unfiled
      <4>3. CASE PutPending(r)
        BY <4>3 DEF PutPending, NotifyPcs, Unfiled
      <4>4. CASE PostMessage(r)
        BY <4>4 DEF PostMessage, NotifyPcs, Unfiled
      <4>5. CASE SetSlackRef(r)
        BY <4>5 DEF SetSlackRef, NotifyPcs, Unfiled
      <4>6. CASE Rollback(r)
        BY <4>6 DEF Rollback, NotifyPcs, Unfiled
      <4>7. CASE NotifyStops(r)
        BY <4>7 DEF NotifyStops, NotifyPcs, Unfiled
      <4>8. QED
        BY <2>1, <2>2, <4>1, <4>2, <4>3, <4>4, <4>5, <4>6, <4>7 DEF NotifyStep
    <3>2. notify[r] \in NotifyLocals
      BY DEF SafeInv, TypeInv, TypeOK
    <3>3. QED
      BY <3>1, <3>2, NotifyEntry, NotifyFacts DEF SafeInv, Unfiled
  <2>3. CASE q # r
    <3>1. \E l : NotifyBecomes(q, l)
      BY <2>1 DEF NotifyStep, StartNotify, Authenticate, PutPending, PostMessage, SetSlackRef,
                  Rollback, NotifyStops
    <3>2. QED
      BY <2>3, <3>1, NotifyEntry DEF SafeInv, Unfiled
  <2>4. QED
    BY <2>2, <2>3
<1>2. QED
  BY <1>1, Moves, ClickFrame, WorkerFrame, PollFrame, EnvironmentFrame DEF Unfiled

-----------------------------------------------------------------------------
(* Clicks.                                                                 *)

\* The item's evolution never makes a click's knowledge wrong.
LEMMA KnowledgeKept ==
  ASSUME SafeInv, [Next]_vars, NEW c \in Clicks, click'[c] = click[c], click[c].pc # "idle"
  PROVE  FiledNext(click[c].req) /\ ClickKnows(click[c], table'[click[c].req])
<1> DEFINE r == click[c].req
<1>1. r \in Requests /\ ~Unfiled(r) /\ ClickKnows(click[c], table[r])
  BY DEF SafeInv, TypeInv, LocalsKnown, ClickInv
<1> HIDE DEF r
<1>2. ItemStep(r) /\ FiledNext(r)
  <2>1. ItemStep(r)
    BY <1>1, TableMoves
  <2>2. notify[r].pc # "idle"
    BY <1>1 DEF Unfiled
  <2>3. FiledNext(r)
    BY <1>1, <2>2, FiledStays DEF Unfiled, FiledNext
  <2>4. QED
    BY <2>1, <2>3
<1> USE DEF r
<1>3. Evolves(table[r], table'[r])
  BY <1>1, <1>2 DEF ItemStep
<1>4. click[c].pc = "finalize" => table'[r].status = "processing"
  <2>1. SUFFICES ASSUME click[c].pc = "finalize", table'[r].status # "processing" PROVE FALSE
    OBVIOUS
  <2>2. PICK k \in Clicks : Releases(k, r)
    BY <1>1, <1>2, <2>1 DEF ItemStep, ClickKnows
  <2>3. k = c
    BY <2>1, <2>2 DEF Releases, SafeInv, ClickInv
  <2>4. QED
    BY <2>1, <2>2, <2>3 DEF Releases
<1>5. ClickKnows(click[c], table'[r])
  BY <1>1, <1>3, <1>4 DEF ClickKnows, Evolves
<1>6. QED
  BY <1>2, <1>5

\* What a click's step leaves: same request, and knowledge of its item.
ClickLands(c) ==
  /\ click'[c].req \in Requests
  /\ FiledNext(click'[c].req)
  /\ ClickKnows(click'[c], table'[click'[c].req])
  /\ click'[c].pc = "finalize" =>
       click'[c].req = click[c].req /\ table[click[c].req].status = "pending"

LEMMA Landing ==
  ASSUME SafeInv, [Next]_vars, NEW c \in Clicks, NEW l \in ClickLocals, ClickBecomes(c, l),
         click[c].pc # "idle", l.req = click[c].req,
         ClickKnows(l, table'[l.req]),
         l.pc = "finalize" => table[l.req].status = "pending"
  PROVE  ClickLands(c)
<1>1. l.req \in Requests /\ ~Unfiled(l.req)
  BY DEF SafeInv, TypeInv, LocalsKnown, ClickInv
<1>2. FiledNext(l.req)
  BY <1>1, FiledStays DEF Unfiled, FiledNext
<1>3. click'[c] = l
  BY ClickEntry DEF SafeInv
<1>4. QED
  BY <1>1, <1>2, <1>3 DEF ClickLands

LEMMA Answering ==
  ASSUME SafeInv, [Next]_vars, NEW c \in Clicks, NEW o \in Outcomes, Answer(c, o),
         click[c].pc # "idle"
  PROVE  ClickLands(c)
<1> DEFINE l == Answered(click[c], o)
<1>1. l \in ClickLocals /\ l.pc = "done" /\ l.req = click[c].req
  BY ClickFacts DEF SafeInv, TypeInv, TypeOK, SameClick
<1>2. ClickBecomes(c, l)
  BY DEF Answer
<1>3. ClickKnows(l, table'[l.req])
  BY <1>1 DEF ClickKnows
<1>4. QED
  BY <1>1, <1>2, <1>3, Landing

\* Every step of a click lands.
LEMMA ClickMoves ==
  ASSUME SafeInv, [Next]_vars, NEW c \in Clicks,
         \/ ClickStep(c) \/ ClickStops(c)
         \/ \E r \in Requests, d \in Decisions : Press(c, r, d)
  PROVE  ClickLands(c)
<1> USE DEF SafeInv
<1> DEFINE r == click[c].req
<1>0. /\ click[c] \in ClickLocals
      /\ click[c].pc # "idle" =>
           /\ r \in Requests /\ click[c].decision \in Decisions /\ table[r] \in Items
           /\ table[r].doc \in Docs /\ ItemSound(table[r])
           /\ ClickKnows(click[c], table[r])
  BY ItemFacts DEF TypeInv, TypeOK, LocalsKnown, ClickInv
<1>1. CASE \E q \in Requests, d \in Decisions : Press(c, q, d)
  <2>1. PICK q \in Requests, d \in Decisions : Press(c, q, d)
    BY <1>1
  <2> DEFINE b == d.by \notin approvers[RepoOfRequest(q)]
  <2>2. b \in BOOLEAN /\ ClickBecomes(c, Pressed(q, d, b)) /\ q \in live /\ UNCHANGED notify
    BY <2>1 DEF Press
  <2> HIDE DEF b
  <2>3. click'[c] = Pressed(q, d, b) /\ click'[c].req = q /\ click'[c].pc = "read"
    BY <2>2, ClickEntry, ClickFacts
  <2>4. FiledNext(q)
    BY <2>2 DEF FilingInv, Filing, Unfiled, FiledNext
  <2>5. QED
    BY <2>3, <2>4 DEF ClickLands, ClickKnows
<1>2. CASE ReadRequest(c)
  <2>1. click[c].pc = "read" /\ UNCHANGED table
    BY <1>2 DEF ReadRequest
  <2>2. CASE Answer(c, "unauthorized")
    BY <2>1, <2>2, Answering DEF Outcomes
  <2>3. CASE ClickBecomes(c, Loaded(click[c], table[r].doc))
    <3> DEFINE l == Loaded(click[c], table[r].doc)
    <3>1. /\ l \in ClickLocals /\ l.pc = "lookup" /\ l.req = r /\ l.doc = table[r].doc
      BY <1>0, <2>1, ClickFacts DEF SameClick
    <3>2. ClickKnows(l, table'[l.req])
      BY <2>1, <3>1 DEF ClickKnows
    <3>3. QED
      BY <2>1, <2>3, <3>1, <3>2, Landing
  <2>4. QED
    BY <1>2, <2>2, <2>3 DEF ReadRequest
<1>3. CASE Lookup(c)
  <2>1. click[c].pc = "lookup" /\ UNCHANGED table
    BY <1>3 DEF Lookup
  <2>2. CASE Answer(c, "unauthorized")
    BY <2>1, <2>2, Answering DEF Outcomes
  <2>3. CASE ClickBecomes(c, Goto(click[c], "decide"))
    <3> DEFINE l == Goto(click[c], "decide")
    <3>1. l \in ClickLocals /\ l.pc = "decide" /\ l.req = r /\ l.doc = click[c].doc
      BY <1>0, <2>1, ClickFacts DEF SameClick, ClickPcs
    <3>2. ClickKnows(l, table'[l.req])
      BY <1>0, <2>1, <3>1 DEF ClickKnows
    <3>3. QED
      BY <2>1, <2>3, <3>1, <3>2, Landing
  <2>4. QED
    BY <1>3, <2>2, <2>3 DEF Lookup
<1>4. CASE Decide(c)
  <2>1. click[c].pc = "decide" /\ UNCHANGED table /\ now \in Nat
    BY <1>4, Bounds DEF Decide, TypeInv, TypeOK
  <2>2. CASE Answer(c, "duplicate")
    BY <2>1, <2>2, Answering DEF Outcomes
  <2>3. CASE ClickBecomes(c, GotoAt(click[c], "expire", now))
    <3> DEFINE l == GotoAt(click[c], "expire", now)
    <3>1. l \in ClickLocals /\ l.pc = "expire" /\ l.req = r /\ l.doc = click[c].doc
      BY <1>0, <2>1, ClickFacts DEF SameClick, ClickPcs
    <3>2. ClickKnows(l, table'[l.req])
      BY <1>0, <2>1, <3>1 DEF ClickKnows
    <3>3. QED
      BY <2>1, <2>3, <3>1, <3>2, Landing
  <2>4. CASE ClickBecomes(c, Decided(click[c], now))
    <3> DEFINE l == Decided(click[c], now)
    <3>1. /\ l \in ClickLocals /\ l.pc = "claim" /\ l.req = r /\ l.decision = click[c].decision
          /\ l.doc = ClaimedDoc(click[c].doc, click[c].decision)
      BY <1>0, <2>1, ClickFacts DEF SameClick
    <3>2. ClickKnows(l, table'[l.req])
      BY <1>0, <2>1, <3>1 DEF ClickKnows
    <3>3. QED
      BY <2>1, <2>4, <3>1, <3>2, Landing
  <2>5. QED
    BY <1>4, <2>2, <2>3, <2>4 DEF Decide
<1>5. CASE ExpireByClick(c)
  BY <1>5, Answering DEF ExpireByClick, Outcomes
<1>6. CASE Claim(c)
  <2>1. click[c].pc = "claim"
    BY <1>6 DEF Claim
  <2>2. CASE Answer(c, "duplicate")
    BY <2>1, <2>2, Answering DEF Outcomes
  <2>3. CASE /\ CanClaim(table[r], click[c].at) /\ ClickBecomes(c, Goto(click[c], "finalize"))
             /\ TableBecomes(r, Claimed(table[r], click[c].doc))
    <3> DEFINE l == Goto(click[c], "finalize")
               j == Claimed(table[r], ClaimedDoc(table[r].doc, click[c].decision))
    <3>1. l \in ClickLocals /\ l.pc = "finalize" /\ l.req = r /\ l.doc = click[c].doc
      BY <1>0, <2>1, ClickFacts DEF SameClick, ClickPcs
    <3>2. table[r].status = "pending" /\ click[c].doc = ClaimedDoc(table[r].doc, click[c].decision)
      BY <1>0, <2>1, <2>3 DEF CanClaim, ClickKnows
    <3>3. j.status = "processing" /\ j.doc = click[c].doc
      BY <1>0, <2>1, <3>2, WriteFacts
    <3>4. table'[r] = j
      BY <1>0, <2>1, <2>3, <3>2, Entry
    <3>5. ClickKnows(l, table'[l.req])
      BY <3>1, <3>3, <3>4 DEF ClickKnows
    <3>6. QED
      BY <2>1, <2>3, <3>1, <3>2, <3>5, Landing
  <2>4. QED
    BY <1>6, <2>2, <2>3 DEF Claim
<1>7. CASE Finalize(c)
  <2>1. click[c].pc = "finalize"
    BY <1>7 DEF Finalize
  <2>2. CASE Answer(c, "failed")
    BY <2>1, <2>2, Answering DEF Outcomes
  <2>3. CASE ClickBecomes(c, Goto(click[c], "enqueue"))
    <3> DEFINE l == Goto(click[c], "enqueue")
    <3>1. l \in ClickLocals /\ l.pc = "enqueue" /\ l.req = r
      BY <1>0, <2>1, ClickFacts DEF SameClick, ClickPcs
    <3>2. ClickKnows(l, table'[l.req])
      BY <3>1 DEF ClickKnows
    <3>3. QED
      BY <2>1, <2>3, <3>1, <3>2, Landing
  <2>4. QED
    BY <1>7, <2>2, <2>3 DEF Finalize
<1>8. CASE Enqueue(c)
  BY <1>8, Answering DEF Enqueue, Outcomes
<1>9. CASE ClickStops(c)
  BY <1>9, Answering DEF ClickStops, ClickActive, Outcomes
<1>10. QED
  BY <1>1, <1>2, <1>3, <1>4, <1>5, <1>6, <1>7, <1>8, <1>9 DEF ClickStep

LEMMA ClickChanges ==
  ASSUME SafeInv, [Next]_vars, NEW c \in Clicks
  PROVE  click'[c] = click[c] \/ ClickLands(c)
<1>1. CASE ClickMove
  <2>1. PICK k \in Clicks :
          ClickStep(k) \/ ClickStops(k) \/ \E r \in Requests, d \in Decisions : Press(k, r, d)
    BY <1>1 DEF ClickMove
  <2>2. CASE k = c
    BY <2>1, <2>2, ClickMoves
  <2>3. CASE k # c
    <3>1. \E l : ClickBecomes(k, l)
      BY <2>1 DEF ClickStep, Press, ReadRequest, Lookup, Decide, ExpireByClick, Claim, Finalize,
                  Enqueue, ClickStops, Answer
    <3>2. QED
      BY <2>3, <3>1, ClickEntry DEF SafeInv
  <2>4. QED
    BY <2>2, <2>3
<1>2. QED
  BY <1>1, Moves, NotifyFrame, WorkerFrame, PollFrame, EnvironmentFrame

LEMMA ClickNext ==
  ASSUME SafeInv, [Next]_vars
  PROVE  ClickInv'
<1>1. ASSUME NEW c \in Clicks, click'[c].pc # "idle"
      PROVE  FiledNext(click'[c].req) /\ ClickKnows(click'[c], table'[click'[c].req])
  BY <1>1, ClickChanges, KnowledgeKept DEF ClickLands
<1>2. ASSUME NEW c \in Clicks, NEW k \in Clicks, c # k,
             click'[c].pc = "finalize", click'[k].pc = "finalize", click'[c].req = click'[k].req
      PROVE  FALSE
  \* Two claims: one of the clicks moved, and found the item pending.
  <2>1. ASSUME NEW x \in Clicks, NEW y \in Clicks, x # y,
               click'[x].pc = "finalize", click'[y].pc = "finalize", click'[x].req = click'[y].req,
               ClickLands(x)
        PROVE  FALSE
    <3>1. click'[x].req = click[x].req /\ table[click[x].req].status = "pending"
      BY <2>1 DEF ClickLands
    <3>2. CASE click'[y] = click[y]
      <4>1. table[click[y].req].status = "processing"
        BY <2>1, <3>2 DEF SafeInv, ClickInv, ClickKnows
      <4>2. QED
        BY <2>1, <3>1, <3>2, <4>1
    <3>3. CASE click'[y] # click[y]
      <4>1. ClickMove
        BY <3>3, Moves, NotifyFrame, WorkerFrame, PollFrame, EnvironmentFrame
      <4>2. PICK z \in Clicks : \E l : ClickBecomes(z, l)
        BY <4>1 DEF ClickMove, ClickStep, Press, ReadRequest, Lookup, Decide, ExpireByClick, Claim,
                    Finalize, Enqueue, ClickStops, Answer
      <4>3. z = y
        BY <3>3, <4>2, ClickEntry DEF SafeInv
      <4>4. click'[x] = click[x]
        BY <2>1, <4>2, <4>3, ClickEntry DEF SafeInv
      <4>5. table[click[x].req].status = "processing"
        BY <2>1, <4>4 DEF SafeInv, ClickInv, ClickKnows
      <4>6. QED
        BY <3>1, <4>5
    <3>4. QED
      BY <3>2, <3>3
  <2>2. CASE ClickLands(c) \/ ClickLands(k)
    BY <1>2, <2>1, <2>2
  <2>3. CASE click'[c] = click[c] /\ click'[k] = click[k]
    BY <1>2, <2>3 DEF SafeInv, ClickInv
  <2>4. QED
    BY <2>2, <2>3, ClickChanges
<1>3. QED
  BY <1>1, <1>2 DEF ClickInv, FiledNext, Unfiled

-----------------------------------------------------------------------------
(* Polls.                                                                  *)

\* What a poll's step leaves.
PollLands(p) ==
  /\ poll'[p].pc # "done" => poll'[p].view = "none"
  /\ Informed(poll'[p]) =>
       FiledNext(poll'[p].req) /\ PollKnows(poll'[p], table'[poll'[p].req])

LEMMA PollKnowledgeKept ==
  ASSUME SafeInv, [Next]_vars, NEW p \in Polls, poll'[p] = poll[p]
  PROVE  PollLands(p)
<1> DEFINE r == poll[p].req
<1>0. SUFFICES ASSUME Informed(poll[p])
               PROVE  FiledNext(r) /\ PollKnows(poll[p], table'[r])
  BY DEF PollLands, SafeInv, PollInv
<1>1. r \in Requests /\ ~Unfiled(r) /\ PollKnows(poll[p], table[r])
  BY <1>0 DEF SafeInv, TypeInv, LocalsKnown, PollInv, Informed
<1> HIDE DEF r
<1>2. ItemStep(r)
  BY <1>1, TableMoves
<1>3. notify[r].pc # "idle"
  BY <1>1 DEF Unfiled
<1>4. FiledNext(r)
  BY <1>1, <1>3, FiledStays DEF Unfiled, FiledNext
<1>5. Evolves(table[r], table'[r])
  BY <1>1, <1>2 DEF ItemStep
<1>6. PollKnows(poll[p], table'[r])
  BY <1>1, <1>5, NewItemFacts DEF PollKnows, Evolves
<1>7. QED
  BY <1>4, <1>6

LEMMA Refusing ==
  ASSUME SafeInv, NEW p \in Polls, Refuse(p)
  PROVE  PollLands(p)
<1>1. Viewed(poll[p], "refused").pc = "done" /\ Viewed(poll[p], "refused").view = "refused"
  BY PollFacts DEF SafeInv, TypeInv, TypeOK
<1>2. poll'[p] = Viewed(poll[p], "refused")
  BY PollEntry DEF Refuse, SafeInv
<1>3. QED
  BY <1>1, <1>2 DEF PollLands, Informed

LEMMA PollMoves ==
  ASSUME SafeInv, [Next]_vars, NEW p \in Polls,
         \/ PollStep(p) \/ PollStops(p)
         \/ \E r \in Requests, t \in Tokens : StartPoll(p, r, t)
  PROVE  PollLands(p)
<1> USE DEF SafeInv
<1> DEFINE r == poll[p].req
<1>0. /\ poll[p] \in PollLocals /\ now \in Nat
      /\ poll[p].pc # "idle" =>
           r \in Requests /\ table[r] \in Items /\ ItemSound(table[r]) /\ Filing(r)
      /\ poll[p].pc # "done" => poll[p].view = "none"
  <2>1. poll[p] \in PollLocals /\ now \in Nat
    BY Bounds DEF TypeInv, TypeOK
  <2>2. poll[p].pc # "idle" => r \in Requests
    BY DEF TypeInv, LocalsKnown
  <2>3. \A q \in Requests : table[q] \in Items /\ ItemSound(table[q]) /\ Filing(q)
    BY DEF TypeInv, TypeOK, FilingInv
  <2>4. poll[p].pc # "done" => poll[p].view = "none"
    BY DEF PollInv
  <2>5. QED
    BY <2>1, <2>2, <2>3, <2>4
<1>1. CASE \E q \in Requests, t \in Tokens : StartPoll(p, q, t)
  <2>1. PICK q \in Requests, t \in Tokens : StartPoll(p, q, t)
    BY <1>1
  <2>2. poll'[p] = Asked(q, t)
    BY <2>1, PollEntry DEF StartPoll
  <2>3. QED
    BY <2>2, PollFacts DEF PollLands, Informed
<1>2. CASE AuthenticatePoll(p)
  <2>1. CASE PollBecomes(p, Goto(poll[p], "get"))
    <3>1. poll'[p] = Goto(poll[p], "get") /\ poll[p].pc # "done"
      BY <1>2, <2>1, PollEntry DEF AuthenticatePoll
    <3>2. poll'[p].pc = "get" /\ poll'[p].view = poll[p].view
      BY <1>0, <3>1, PollFacts DEF PollPcs
    <3>3. QED
      BY <1>0, <3>1, <3>2 DEF PollLands, Informed
  <2>2. QED
    BY <1>2, <2>1, Refusing DEF AuthenticatePoll
<1>3. CASE ReadStatus(p)
  <2>1. poll[p].pc = "get" /\ UNCHANGED <<table, notify>>
    BY <1>3 DEF ReadStatus
  <2>2. CASE Refuse(p)
    BY <2>2, Refusing
  <2>3. CASE table[r].status # "absent" /\ ~Refuse(p)
    <3> DEFINE d == table[r].doc
    <3>1. /\ d \in Docs /\ d.status \in Statuses /\ d.status = table[r].status
          /\ d.expiresAt = table[r].expiresAt /\ d.expiresAt \in Nat
      BY <1>0, <2>1, ItemFacts DEF ItemSound, Docs
    <3>2. FiledNext(r)
      BY <1>0, <2>1, <2>3, NewItemFacts DEF Filing, Unfiled, FiledNext
    <3>3. CASE PollBecomes(p, Overdue(poll[p], d, now)) /\ d.expiresAt <= now
      <4>1. poll'[p] = Overdue(poll[p], d, now)
        BY <3>3, PollEntry
      <4>2. /\ poll'[p].pc = "expire" /\ poll'[p].req = r /\ poll'[p].doc = d
            /\ poll'[p].at = now /\ poll'[p].view = "none"
        <5>1. poll[p] \in PollLocals /\ now \in Nat /\ d \in Docs /\ poll[p].view = "none"
          BY <1>0, <2>1, <3>1
        <5> HIDE DEF d, r
        <5>2. /\ Overdue(poll[p], d, now).pc = "expire" /\ SamePoll(poll[p], Overdue(poll[p], d, now))
              /\ Overdue(poll[p], d, now).doc = d /\ Overdue(poll[p], d, now).at = now
              /\ Overdue(poll[p], d, now).view = poll[p].view
          BY <5>1, PollFacts
        <5>3. QED
          BY <4>1, <5>1, <5>2 DEF SamePoll, r
      <4>3. PollKnows(poll'[p], table'[r])
        BY <2>1, <3>3, <4>2 DEF PollKnows, Finals, Verdicts
      <4>4. QED
        BY <3>2, <4>2, <4>3 DEF PollLands
    <3>4. CASE /\ PollBecomes(p, Viewed(GotoAt(poll[p], "done", now), d.status))
               /\ ~(d.status = "pending" /\ d.expiresAt <= now)
      <4> DEFINE l == GotoAt(poll[p], "done", now)
      <4>1. l \in PollLocals /\ l.at = now /\ l.req = r
        <5>1. poll[p] \in PollLocals /\ now \in Nat /\ "done" \in PollPcs
          BY <1>0 DEF PollPcs
        <5>2. l \in PollLocals /\ l.at = now /\ SamePoll(poll[p], l)
          BY <5>1, PollFacts
        <5>3. QED
          BY <5>2 DEF SamePoll
      <4>2. poll'[p] = Viewed(l, d.status)
        BY <3>4, PollEntry
      <4> HIDE DEF l
      <4>3. /\ poll'[p].pc = "done" /\ poll'[p].req = r /\ poll'[p].at = now
            /\ poll'[p].view = d.status
        BY <3>1, <4>1, <4>2, PollFacts DEF SamePoll
      <4>4. PollKnows(poll'[p], table'[r])
        BY <1>0, <2>1, <3>1, <3>4, <4>3 DEF PollKnows
      <4>5. QED
        BY <3>2, <4>3, <4>4 DEF PollLands
    <3>5. QED
      BY <1>3, <2>3, <3>3, <3>4 DEF ReadStatus
  <2>4. QED
    BY <1>3, <2>2, <2>3 DEF ReadStatus
<1>4. CASE ExpireByPoll(p)
  <2>1. /\ poll[p].pc = "expire" /\ r \in Requests /\ ~Unfiled(r) /\ PollKnows(poll[p], table[r])
        /\ poll[p].view = "none"
    BY <1>4 DEF ExpireByPoll, PollInv, Informed, TypeInv, LocalsKnown
  <2>2. poll'[p] = Goto(poll[p], "reget") /\ UNCHANGED notify
    BY <1>4, PollEntry DEF ExpireByPoll
  <2>3. /\ poll'[p].pc = "reget" /\ poll'[p].req = r /\ poll'[p].view = "none"
    BY <1>0, <2>1, <2>2, PollFacts DEF SamePoll, PollPcs
  <2>4. table'[r].status # "pending"
    <3>1. CASE table[r].status = "pending"
      <4>1. CanExpire(table[r], poll[p].at) /\ poll[p].doc = table[r].doc
        BY <1>0, <2>1, <3>1 DEF CanExpire, PollKnows, ItemSound
      <4>2. table'[r] = Expired(table[r], table[r].doc)
        BY <1>4, <2>1, <4>1, Entry DEF ExpireByPoll
      <4>3. QED
        BY <1>0, <2>1, <3>1, <4>2, WriteFacts
    <3>2. CASE table[r].status # "pending"
      <4>1. table'[r] = table[r]
        BY <1>4, <2>1, <3>2, Entry DEF ExpireByPoll, CanExpire
      <4>2. QED
        BY <3>2, <4>1
    <3>3. QED
      BY <3>1, <3>2
  <2>5. PollKnows(poll'[p], table'[r])
    BY <2>3, <2>4 DEF PollKnows, Finals, Verdicts
  <2>6. FiledNext(r)
    BY <2>1, <2>2 DEF Unfiled, FiledNext
  <2>7. QED
    BY <2>3, <2>5, <2>6 DEF PollLands
<1>5. CASE RereadStatus(p)
  <2>1. /\ poll[p].pc = "reget" /\ r \in Requests /\ ~Unfiled(r) /\ PollKnows(poll[p], table[r])
        /\ UNCHANGED <<table, notify>>
    BY <1>5 DEF RereadStatus, PollInv, Informed, TypeInv, LocalsKnown
  <2> DEFINE status == table[r].doc.status
  <2>2. status \in Statuses /\ status = table[r].status
    BY <1>0, <2>1, ItemFacts DEF ItemSound
  <2>3. CASE status = "absent"
    <3>1. Refuse(p)
      BY <1>5, <2>3 DEF RereadStatus, Refuse
    <3>2. QED
      BY <3>1, Refusing
  <2>4. CASE status # "absent"
    <3>1. poll'[p] = Viewed(poll[p], status)
      BY <1>5, <2>4, PollEntry DEF RereadStatus
    <3>2. poll'[p].pc = "done" /\ poll'[p].req = r /\ poll'[p].view = status
      BY <1>0, <2>2, <3>1, PollFacts DEF SamePoll
    <3>3. status # "pending"
      BY <2>1, <2>2 DEF PollKnows
    <3>4. PollKnows(poll'[p], table'[r])
      BY <2>1, <2>2, <3>2, <3>3 DEF PollKnows
    <3>5. FiledNext(r)
      BY <2>1 DEF Unfiled, FiledNext
    <3>6. QED
      BY <3>2, <3>4, <3>5 DEF PollLands
  <2>5. QED
    BY <2>3, <2>4
<1>6. CASE PollStops(p)
  BY <1>6, Refusing DEF PollStops
<1>7. QED
  BY <1>1, <1>2, <1>3, <1>4, <1>5, <1>6 DEF PollStep

LEMMA PollNext ==
  ASSUME SafeInv, [Next]_vars
  PROVE  PollInv'
<1>1. ASSUME NEW p \in Polls PROVE PollLands(p)
  <2>1. CASE poll'[p] = poll[p]
    BY <2>1, PollKnowledgeKept
  <2>2. CASE poll'[p] # poll[p]
    <3>1. PollMove
      BY <2>2, Moves, NotifyFrame, ClickFrame, WorkerFrame, EnvironmentFrame
    <3>2. PICK o \in Polls :
            PollStep(o) \/ PollStops(o) \/ \E r \in Requests, t \in Tokens : StartPoll(o, r, t)
      BY <3>1 DEF PollMove
    <3>3. \E l : PollBecomes(o, l)
      BY <3>2 DEF PollStep, StartPoll, AuthenticatePoll, ReadStatus, ExpireByPoll, RereadStatus,
                  PollStops, Refuse
    <3>4. o = p
      BY <2>2, <3>3, PollEntry DEF SafeInv
    <3>5. QED
      BY <3>2, <3>4, PollMoves
  <2>3. QED
    BY <2>1, <2>2
<1>2. QED
  BY <1>1 DEF PollInv, PollLands, FiledNext, Unfiled

-----------------------------------------------------------------------------
(* Workers and audit comments.                                             *)

\* The mark of the one-shot guard and the decision it was set for stand.
LEMMA MarkStands ==
  ASSUME SafeInv, [Next]_vars, NEW r \in Requests, table[r].sideEffects
  PROVE  table'[r].sideEffects /\ table'[r].doc = table[r].doc
<1>1. ItemSound(table[r]) /\ Filing(r) /\ ItemStep(r)
  BY TableMoves DEF SafeInv, FilingInv
<1>2. table[r].status \in Finals /\ table[r].status # "absent"
  BY <1>1 DEF ItemSound, Finals, Verdicts
<1>3. Evolves(table[r], table'[r])
  BY <1>1, <1>2, NewItemFacts DEF ItemStep, Filing
<1>4. QED
  BY <1>2, <1>3 DEF Evolves

Carrying(l) == l.pc \in {"get", "post"}

\* What one worker's step does, to itself and to the comments.
Drops(w) == ~Carrying(worker'[w]) /\ UNCHANGED audit
Marks(w) ==
  /\ worker'[w].pc = "get" /\ worker'[w].req = worker[w].req /\ worker[w].req \in Requests
  /\ ~table[worker[w].req].sideEffects /\ table'[worker[w].req].sideEffects
  /\ UNCHANGED audit
Reads(w) ==
  /\ worker[w].pc = "get" /\ worker'[w].pc = "post"
  /\ worker'[w].req = worker[w].req /\ worker[w].req \in Requests
  /\ worker'[w].doc = table[worker[w].req].doc
  /\ UNCHANGED audit
Comments(w) ==
  /\ worker[w].pc = "post" /\ worker'[w].pc = "idle" /\ worker[w].req \in Requests
  /\ audit' = [audit EXCEPT ![worker[w].req] = [n |-> @.n + 1, of |-> worker[w].doc.decision]]

LEMMA WorkerMoves ==
  ASSUME SafeInv, NEW w \in Workers,
         WorkerStep(w) \/ WorkerStops(w) \/ \E r \in Requests : Deliver(w, r)
  PROVE  /\ \A v \in Workers \ {w} : worker'[v] = worker[v]
         /\ Drops(w) \/ Marks(w) \/ Reads(w) \/ Comments(w)
<1> USE DEF SafeInv
<1>0. /\ worker[w] \in WorkerLocals
      /\ worker[w].pc # "idle" => worker[w].req \in Requests /\ table[worker[w].req] \in Items
  BY DEF TypeInv, TypeOK, LocalsKnown
<1>1. ASSUME NEW l, WorkerBecomes(w, l)
      PROVE  worker'[w] = l /\ \A v \in Workers \ {w} : worker'[v] = worker[v]
  BY <1>1, WorkerEntry
<1>2. ASSUME WorkerBecomes(w, Idle)
      PROVE  worker'[w].pc = "idle" /\ \A v \in Workers \ {w} : worker'[v] = worker[v]
  BY <1>1, <1>2, WorkerFacts
<1>3. CASE \E r \in Requests : Deliver(w, r)
  <2>1. PICK r \in Requests : Deliver(w, r)
    BY <1>3
  <2>2. worker'[w].pc = "claim" /\ \A v \in Workers \ {w} : worker'[v] = worker[v]
    BY <1>1, <2>1, WorkerFacts DEF Deliver
  <2>3. QED
    BY <2>1, <2>2 DEF Deliver, Drops, Carrying
<1>4. CASE ClaimSideEffects(w)
  <2> DEFINE r == worker[w].req
  <2>1. r \in Requests /\ table[r] \in Items /\ ItemSound(table[r])
    BY <1>0, <1>4 DEF ClaimSideEffects
  <2>2. CASE WorkerBecomes(w, Idle)
    BY <1>2, <1>4, <2>2 DEF ClaimSideEffects, Drops, Carrying
  <2>3. CASE /\ CanDeliver(table[r]) /\ TableBecomes(r, Delivered(table[r]))
             /\ WorkerBecomes(w, Goto(worker[w], "get"))
    <3>1. worker'[w] = Goto(worker[w], "get") /\ \A v \in Workers \ {w} : worker'[v] = worker[v]
      BY <1>1, <2>3
    <3>2. worker'[w].pc = "get" /\ worker'[w].req = r
      BY <1>0, <3>1, WorkerFacts DEF WorkerPcs
    <3>3. ~table[r].sideEffects /\ table'[r].sideEffects
      BY <2>1, <2>3, Entry, WriteFacts DEF CanDeliver
    <3>4. QED
      BY <1>4, <2>1, <3>1, <3>2, <3>3 DEF ClaimSideEffects, Marks
  <2>4. QED
    BY <1>4, <2>2, <2>3 DEF ClaimSideEffects
<1>5. CASE ReadDecided(w)
  <2> DEFINE i == table[worker[w].req]
  <2>1. worker[w].pc = "get" /\ worker[w].req \in Requests /\ i \in Items
    BY <1>0, <1>5 DEF ReadDecided
  <2>2. worker'[w] = Fetched(worker[w], i) /\ \A v \in Workers \ {w} : worker'[v] = worker[v]
    BY <1>1, <1>5 DEF ReadDecided
  <2>3. worker'[w].pc = "post" /\ worker'[w].req = worker[w].req /\ worker'[w].doc = i.doc
    BY <1>0, <2>1, <2>2, WorkerFacts
  <2>4. QED
    BY <1>5, <2>1, <2>2, <2>3 DEF ReadDecided, Reads
<1>6. CASE PostEffects(w)
  <2>1. worker'[w].pc = "idle" /\ \A v \in Workers \ {w} : worker'[v] = worker[v]
    BY <1>2, <1>6 DEF PostEffects
  <2>2. QED
    BY <1>0, <1>6, <2>1 DEF PostEffects, Comments, Drops, Carrying
<1>7. CASE WorkerStops(w)
  BY <1>2, <1>7 DEF WorkerStops, Drops, Carrying
<1>8. QED
  BY <1>3, <1>4, <1>5, <1>6, <1>7 DEF WorkerStep

LEMMA WorkerChanges ==
  ASSUME SafeInv, [Next]_vars
  PROVE  \/ UNCHANGED <<worker, audit>>
         \/ \E w \in Workers :
              /\ \A v \in Workers \ {w} : worker'[v] = worker[v]
              /\ Drops(w) \/ Marks(w) \/ Reads(w) \/ Comments(w)
BY WorkerMoves, Moves, NotifyFrame, ClickFrame, PollFrame, EnvironmentFrame DEF WorkerMove

\* The comment of a request changes only by the worker that carries it.
LEMMA CommentFrame ==
  ASSUME SafeInv, NEW w \in Workers, Comments(w)
  PROVE  /\ audit'[worker[w].req].n = audit[worker[w].req].n + 1
         /\ audit'[worker[w].req].of = worker[w].doc.decision
         /\ \A r \in Requests \ {worker[w].req} : audit'[r] = audit[r]
BY DEF Comments, SafeInv, TypeInv, TypeOK

LEMMA WorkerNext ==
  ASSUME SafeInv, [Next]_vars
  PROVE  WorkerInv'
<1> USE DEF SafeInv
<1>1. CASE UNCHANGED <<worker, audit>>
  <2>1. ASSUME NEW w \in Workers, Carrying(worker[w])
        PROVE  /\ table'[worker[w].req].sideEffects
               /\ table'[worker[w].req].doc = table[worker[w].req].doc
    BY <2>1, MarkStands DEF WorkerInv, TypeInv, LocalsKnown, Carrying
  <2>2. QED
    BY <1>1, <2>1 DEF WorkerInv, Carrying
<1>2. ASSUME NEW w \in Workers, \A v \in Workers \ {w} : worker'[v] = worker[v],
             Drops(w) \/ Marks(w) \/ Reads(w) \/ Comments(w)
      PROVE  WorkerInv'
  \* No other worker carries the request w marks or comments on.
  <2>1. ASSUME NEW v \in Workers, v # w, Carrying(worker[v])
        PROVE  /\ worker[v].req \in Requests /\ worker'[v] = worker[v]
               /\ table'[worker[v].req].sideEffects
               /\ table'[worker[v].req].doc = table[worker[v].req].doc
               /\ audit'[worker[v].req].n = 0
               /\ Carrying(worker'[w]) => worker'[w].req # worker[v].req
    <3>1. worker[v].req \in Requests /\ table[worker[v].req].sideEffects
          /\ audit[worker[v].req].n = 0 /\ worker'[v] = worker[v]
      BY <1>2, <2>1 DEF WorkerInv, TypeInv, LocalsKnown, Carrying
    <3>2. Carrying(worker[w]) => worker[w].req # worker[v].req
      BY <2>1 DEF WorkerInv, Carrying
    <3>3. audit'[worker[v].req].n = 0
      BY <1>2, <3>1, <3>2, CommentFrame DEF Drops, Marks, Reads, Comments, Carrying
    <3>4. Carrying(worker'[w]) => worker'[w].req # worker[v].req
      BY <1>2, <3>1, <3>2 DEF Drops, Marks, Reads, Comments, Carrying
    <3>5. QED
      BY <3>1, <3>3, <3>4, MarkStands
  <2>2. ASSUME Carrying(worker'[w])
        PROVE  /\ table'[worker'[w].req].sideEffects /\ audit'[worker'[w].req].n = 0
               /\ worker'[w].pc = "post" =>
                    worker'[w].doc.decision = table'[worker'[w].req].doc.decision
    <3>1. CASE Marks(w)
      BY <3>1 DEF Marks, AuditInv
    <3>2. CASE Reads(w)
      <4>1. table[worker[w].req].sideEffects /\ audit[worker[w].req].n = 0
        BY <3>2 DEF Reads, WorkerInv
      <4>2. QED
        BY <3>2, <4>1, MarkStands DEF Reads
    <3>3. QED
      BY <1>2, <2>2, <3>1, <3>2 DEF Drops, Comments, Carrying
  <2>3. ASSUME NEW v \in Workers, Carrying(worker'[v])
        PROVE  /\ table'[worker'[v].req].sideEffects /\ audit'[worker'[v].req].n = 0
               /\ worker'[v].pc = "post" =>
                    worker'[v].doc.decision = table'[worker'[v].req].doc.decision
    <3>1. CASE v = w
      BY <2>2, <2>3, <3>1
    <3>2. CASE v # w
      <4>1. worker'[v] = worker[v] /\ Carrying(worker[v])
        BY <1>2, <2>3, <3>2
      <4>2. worker[v].pc = "post" => worker[v].doc.decision = table[worker[v].req].doc.decision
        BY <4>1 DEF WorkerInv, Carrying
      <4>3. QED
        BY <2>1, <3>2, <4>1, <4>2
    <3>3. QED
      BY <3>1, <3>2
  <2>4. ASSUME NEW u \in Workers, NEW v \in Workers, Carrying(worker'[u]), Carrying(worker'[v]),
               worker'[u].req = worker'[v].req, u # v
        PROVE  FALSE
    <3>1. CASE u # w /\ v # w
      BY <1>2, <2>4, <3>1 DEF WorkerInv, Carrying
    <3>2. CASE u = w
      BY <1>2, <2>1, <2>4, <3>2
    <3>3. CASE v = w
      BY <1>2, <2>1, <2>4, <3>3
    <3>4. QED
      BY <3>1, <3>2, <3>3
  <2>5. QED
    BY <2>3, <2>4 DEF WorkerInv, Carrying
<1>3. QED
  BY <1>1, <1>2, WorkerChanges

LEMMA AuditNext ==
  ASSUME SafeInv, [Next]_vars
  PROVE  AuditInv'
<1> USE DEF SafeInv
<1>1. ASSUME NEW r \in Requests, audit'[r] = audit[r]
      PROVE  /\ audit'[r].n \in {0, 1}
             /\ audit'[r].n = 0 => audit'[r].of = NoDecision
             /\ audit'[r].n = 1 => table'[r].sideEffects /\ audit'[r].of = table'[r].doc.decision
  BY <1>1, MarkStands DEF AuditInv
<1>2. ASSUME NEW w \in Workers, Comments(w)
      PROVE  LET r == worker[w].req IN
             /\ audit'[r].n = 1
             /\ table'[r].sideEffects /\ audit'[r].of = table'[r].doc.decision
  <2> DEFINE r == worker[w].req
  <2>1. /\ r \in Requests /\ table[r].sideEffects /\ audit[r].n = 0
        /\ worker[w].doc.decision = table[r].doc.decision
    BY <1>2 DEF Comments, WorkerInv
  <2>2. QED
    BY <1>2, <2>1, CommentFrame, MarkStands
<1>3. ASSUME NEW r \in Requests
      PROVE  /\ audit'[r].n \in {0, 1}
             /\ audit'[r].n = 0 => audit'[r].of = NoDecision
             /\ audit'[r].n = 1 => table'[r].sideEffects /\ audit'[r].of = table'[r].doc.decision
  <2>1. CASE audit'[r] = audit[r]
    BY <1>1, <2>1
  <2>2. CASE audit'[r] # audit[r]
    <3>1. PICK w \in Workers : Comments(w)
      BY <2>2, WorkerChanges DEF Drops, Marks, Reads
    <3>2. r = worker[w].req
      BY <2>2, <3>1, CommentFrame
    <3>3. QED
      BY <1>2, <3>1, <3>2
  <2>3. QED
    BY <2>1, <2>2
<1>4. QED
  BY <1>3 DEF AuditInv

-----------------------------------------------------------------------------
(* The invariant.                                                          *)

LEMMA SafeInit == Init => SafeInv
<1> SUFFICES ASSUME Init PROVE SafeInv
  OBVIOUS
<1>1. TypeInv
  BY InitType
<1>2. \A r \in Requests : table[r] = NoItem /\ ItemSound(table[r])
  BY NewItemFacts DEF Init
<1>3. FilingInv
  BY <1>2, NewItemFacts DEF Init, FilingInv, Filing, NoNotify, Unfiled
<1>4. ClickInv /\ PollInv
  BY DEF Init, ClickInv, PollInv, NoClick, NoPoll, Informed
<1>5. WorkerInv /\ AuditInv
  BY DEF Init, WorkerInv, AuditInv, Idle
<1>6. QED
  BY <1>1, <1>2, <1>3, <1>4, <1>5 DEF SafeInv

LEMMA SafeNext == SafeInv /\ [Next]_vars => SafeInv'
<1> SUFFICES ASSUME SafeInv, [Next]_vars PROVE SafeInv'
  OBVIOUS
<1>1. TypeInv'
  BY NextType DEF SafeInv
<1>2. (\A r \in Requests : ItemSound(table[r]))'
  BY TableMoves DEF ItemStep
<1>3. QED
  BY <1>1, <1>2, FilingNext, ClickNext, PollNext, WorkerNext, AuditNext DEF SafeInv

\* The inductive invariant holds in every reachable state: items follow their
\* life cycle, and the copies that invocations hold across their store calls
\* agree with the items for as long as a conditional write may use them.
THEOREM Safe == Spec => []SafeInv
BY SafeInit, SafeNext, PTL DEF Spec

-----------------------------------------------------------------------------
(* What it implies.                                                        *)

\* The attributes that conditional writes test and the document that readers
\* parse never disagree, although each handler writes both by hand from a copy
\* it read before other handlers' writes.
THEOREM MirrorsHold == Spec => []DocumentMirrorsAttributes
<1>1. SafeInv => DocumentMirrorsAttributes
  BY DEF SafeInv, ItemSound, DocumentMirrorsAttributes
<1>2. QED
  BY <1>1, Safe, PTL

\* A token stands behind at most one request, however often it is resent.
THEOREM TokensAreSpentOnce == Spec => []OneRequestPerToken
<1>1. SafeInv => OneRequestPerToken
  BY DEF SafeInv, FilingInv, Filing, OneRequestPerToken
<1>2. QED
  BY <1>1, Safe, PTL

\* A final answer a poll received stays the request's status.
THEOREM AnswersStand == Spec => []PollAnswersStand
<1>1. SafeInv => PollAnswersStand
  <2> SUFFICES ASSUME SafeInv, NEW p \in Polls, poll[p].view \in Finals
               PROVE  table[poll[p].req].status = poll[p].view
    BY DEF PollAnswersStand, Finals
  <2>1. poll[p].pc = "done" /\ poll[p].view # "refused"
    BY DEF SafeInv, PollInv, Finals, Verdicts
  <2>2. QED
    BY <2>1 DEF SafeInv, PollInv, Informed, PollKnows
<1>2. QED
  BY <1>1, Safe, PTL

\* A poll that read its clock past the approval window never answers pending.
THEOREM WindowsClose == Spec => []NoPendingAnswerPastWindow
<1>1. SafeInv => NoPendingAnswerPastWindow
  <2> SUFFICES ASSUME SafeInv, NEW p \in Polls, poll[p].view = "pending",
                      table[poll[p].req] # NoItem
               PROVE  poll[p].at < table[poll[p].req].expiresAt
    BY DEF NoPendingAnswerPastWindow
  <2>1. poll[p].pc = "done"
    BY DEF SafeInv, PollInv
  <2>2. poll[p].req \in Requests
    BY <2>1 DEF SafeInv, TypeInv, LocalsKnown
  <2>3. table[poll[p].req].status # "absent"
    BY <2>2 DEF SafeInv, ItemSound
  <2>4. QED
    BY <2>1, <2>3 DEF SafeInv, PollInv, Informed, PollKnows
<1>2. QED
  BY <1>1, Safe, PTL

\* At most one audit comment is posted for a request, and it states the
\* decision that the table holds.
THEOREM AuditsAreTrue == Spec => []AuditStatesDecision
<1>1. SafeInv => AuditStatesDecision
  BY DEF SafeInv, AuditInv, AuditStatesDecision, ItemSound
<1>2. QED
  BY <1>1, Safe, PTL

\* A withdrawn request left no item, decision or audit comment behind.
THEOREM WithdrawalsAreClean == Spec => []WithdrawnLeavesNoTrace
<1>1. SafeInv => WithdrawnLeavesNoTrace
  BY NewItemFacts DEF SafeInv, AuditInv, FilingInv, Filing, WithdrawnLeavesNoTrace
<1>2. QED
  BY <1>1, Safe, PTL

\* A claimed decision is never replaced, becomes final only as itself, and a
\* final status never changes.
THEOREM DecisionsAreFinal == Spec => DecisionsStand
<1>1. SafeInv /\ [Next]_vars =>
        [\A r \in Requests :
           /\ table[r].doc.decision # NoDecision =>
                /\ table'[r].doc.decision = table[r].doc.decision
                /\ table'[r].status \in {table[r].status, table[r].doc.decision.verdict}
           /\ table[r].status = "expired" => table'[r].status = "expired"]_vars
  <2> SUFFICES ASSUME SafeInv, [Next]_vars, NEW r \in Requests
               PROVE  /\ table[r].doc.decision # NoDecision =>
                           /\ table'[r].doc.decision = table[r].doc.decision
                           /\ table'[r].status \in {table[r].status, table[r].doc.decision.verdict}
                      /\ table[r].status = "expired" => table'[r].status = "expired"
    OBVIOUS
  <2>1. ItemStep(r) /\ Filing(r) /\ ItemSound(table[r]) /\ table[r] \in Items
    BY TableMoves DEF SafeInv, FilingInv, TypeInv, TypeOK
  <2>2. CASE Unfiled(r)
    BY <2>1, <2>2, NewItemFacts DEF Filing
  <2>3. CASE ~Unfiled(r)
    <3>1. Evolves(table[r], table'[r])
      BY <2>1, <2>3 DEF ItemStep
    <3>2. table[r].doc.decision # NoDecision => table[r].status \in {"processing", "approved", "denied"}
      BY <2>1, ItemFacts DEF ItemSound, Items, Statuses
    <3>3. QED
      BY <3>1, <3>2 DEF Evolves, Finals, Verdicts
  <2>4. QED
    BY <2>2, <2>3
<1>2. QED
  BY <1>1, Safe, PTL DEF Spec, DecisionsStand

=============================================================================
