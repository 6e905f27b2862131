--------------------------- MODULE EcrPollProofs ---------------------------
(***************************************************************************)
(* No report leaves out a finding, for any scans, findings and timing: the *)
(* settling time and Inspector's order are enough.  The invariant carries  *)
(* what each question answered so far is worth when the next one is asked. *)
(***************************************************************************)
EXTENDS EcrPoll, FiniteSetTheorems, TLAPS

Scans == 1 .. MaxScans
Scan == [done : BOOLEAN, at : Nat, found : SUBSET Findings]
EcrStatuses == Pending \cup {None, "COMPLETE", "FAILED"}
Answer == [scan : 0 .. MaxScans, status : EcrStatuses, attached : BOOLEAN,
           counted : Nat, listed : SUBSET Findings]
Knowledge == [covered : BOOLEAN, scannedAt : Nat, lists : SUBSET Findings]
Poller == [at : {"ask", "settle", "coverage", "findings", "delay", "ended"}, attempt : Nat,
           scan : 0 .. MaxScans, outcome : {None, "report", "error", "limit"},
           report : [scan : 0 .. MaxScans, findings : SUBSET Findings]]

Types ==
  /\ now \in Nat /\ scans \in [Scans -> Scan] /\ ecr \in Answer
  /\ inspector \in Knowledge /\ poll \in Poller

\* What ECR answers of the latest scan.
EcrInv ==
  /\ ecr.status \in Pending => ecr.scan \in Scans /\ ~scans[ecr.scan].done
  /\ ecr.status = "COMPLETE" => ecr.scan \in Scans /\ scans[ecr.scan].done
  /\ ecr.attached => /\ ecr.status = "COMPLETE" /\ ecr.listed \subseteq scans[ecr.scan].found
                     /\ ecr.counted = Cardinality(scans[ecr.scan].found)
  /\ \A n \in Scans : n > ecr.scan => ~scans[n].done

\* What Inspector promises of a scan that it has not listed.
InspectorInv == \A n \in Scans : ~Listed(n) /\ Covers(n) => now <= scans[n].at + Lag

\* What the poller has learnt on its way to the next question.
PollInv ==
  /\ poll.at \in {"settle", "coverage", "findings"} => poll.scan \in Scans /\ scans[poll.scan].done
  /\ poll.at = "coverage" => now >= scans[poll.scan].at + Settle
  /\ poll.at = "findings" => Listed(poll.scan)
  /\ ReportsAreComplete

IInv == Types /\ EcrInv /\ InspectorInv /\ PollInv

LEMMA InitIInv == Init => IInv
<1> SUFFICES ASSUME Init PROVE IInv
  OBVIOUS
<1> USE ScanAssumption
<1>1. Types
  BY DEF Init, Types, Scans, Scan, Answer, EcrStatuses, Knowledge, Poller, NoReport
<1>2. EcrInv /\ InspectorInv /\ PollInv
  BY DEF Init, EcrInv, InspectorInv, PollInv, Listed, ReportsAreComplete, Scans, Pending, None
<1>3. QED
  BY <1>1, <1>2 DEF IInv

LEMMA Same ==
  ASSUME NEW n \in Scans, scans' = scans, inspector' = inspector
  PROVE  Listed(n)' = Listed(n)
BY DEF Listed

-----------------------------------------------------------------------------
(* The services                                                            *)

LEMMA StartScanIInv == ASSUME IInv, StartScan PROVE IInv'
<1> USE ScanAssumption DEF IInv
<1>1. PICK status \in Pending :
        ecr' = [scan |-> ecr.scan + 1, status |-> status, attached |-> FALSE, counted |-> 0, listed |-> {}]
  BY DEF StartScan
<1>2. /\ ecr.scan < MaxScans /\ UNCHANGED <<now, scans, inspector, poll>>
      /\ ecr.scan \in 0 .. MaxScans
  BY DEF StartScan, Types, Answer
<1>3. Types'
  BY <1>1, <1>2 DEF Types, Answer, EcrStatuses
<1>4. EcrInv'
  <2>1. ecr.scan + 1 \in Scans /\ ~scans[ecr.scan + 1].done
    BY <1>2 DEF EcrInv, Scans
  <2>2. status # "COMPLETE"
    BY DEF Pending
  <2>3. \A n \in Scans : n > ecr.scan + 1 => ~scans[n].done
    BY <1>2 DEF EcrInv, Scans
  <2>4. QED
    BY <1>1, <1>2, <2>1, <2>2, <2>3 DEF EcrInv
<1>5. InspectorInv' /\ PollInv'
  BY <1>2 DEF InspectorInv, PollInv, Listed, Covers, ReportsAreComplete
<1>6. QED
  BY <1>3, <1>4, <1>5

LEMMA AttachIInv == ASSUME IInv, Attach PROVE IInv'
<1> USE ScanAssumption DEF IInv
<1>1. PICK listed \in SUBSET scans[ecr.scan].found :
        ecr' = [ecr EXCEPT !.attached = TRUE, !.listed = listed,
                           !.counted = Cardinality(scans[ecr.scan].found)]
  BY DEF Attach
<1>2. ecr.status = "COMPLETE" /\ UNCHANGED <<now, scans, inspector, poll>>
  BY DEF Attach
<1>3. ecr.scan \in Scans /\ scans[ecr.scan].done /\ scans[ecr.scan].found \subseteq Findings
  BY <1>2 DEF EcrInv, Types, Scan
<1>4. Cardinality(scans[ecr.scan].found) \in Nat
  BY <1>3, FS_Subset, FS_CardinalityType
<1>5. Types'
  BY <1>1, <1>2, <1>3, <1>4 DEF Types, Answer
<1>6. EcrInv'
  <2>1. /\ ecr'.scan = ecr.scan /\ ecr'.status = "COMPLETE" /\ ecr'.listed = listed
        /\ ecr'.counted = Cardinality(scans[ecr.scan].found)
    BY <1>1, <1>2 DEF Types, Answer
  <2>2. "COMPLETE" \notin Pending
    BY DEF Pending
  <2>3. QED
    BY <1>2, <1>3, <2>1, <2>2 DEF EcrInv
<1>7. InspectorInv' /\ PollInv'
  BY <1>2 DEF InspectorInv, PollInv, Listed, Covers, ReportsAreComplete
<1>8. QED
  BY <1>5, <1>6, <1>7

\* A scan that completes was not done before, so that nobody relies on it yet.
LEMMA CompleteScanIInv == ASSUME IInv, CompleteScan PROVE IInv'
<1> USE ScanAssumption DEF IInv
<1>1. ecr.status \in Pending /\ UNCHANGED <<now, inspector, poll>>
  BY DEF CompleteScan
<1>2. ecr.scan \in Scans /\ ~scans[ecr.scan].done /\ ~ecr.attached
  BY <1>1 DEF EcrInv, Pending
<1>3. CASE ecr' = [ecr EXCEPT !.status = "FAILED"] /\ UNCHANGED scans
  <2>1. Types'
    BY <1>1, <1>3 DEF Types, Answer, EcrStatuses
  <2>2. ecr'.status = "FAILED" /\ ecr'.scan = ecr.scan /\ ~ecr'.attached
    BY <1>2, <1>3 DEF Types, Answer
  <2>3. "FAILED" \notin Pending
    BY DEF Pending
  <2>4. EcrInv'
    BY <1>3, <2>2, <2>3 DEF EcrInv
  <2>5. InspectorInv' /\ PollInv'
    BY <1>1, <1>3 DEF InspectorInv, PollInv, Listed, Covers, ReportsAreComplete
  <2>6. QED
    BY <2>1, <2>4, <2>5
<1>4. CASE \E found \in SUBSET Findings :
             /\ scans' = [scans EXCEPT ![ecr.scan] = [done |-> TRUE, at |-> now, found |-> found]]
             /\ \/ ecr' = [ecr EXCEPT !.status = "COMPLETE"]
                \/ ecr' = [ecr EXCEPT !.status = "COMPLETE", !.attached = TRUE,
                                      !.counted = Cardinality(found), !.listed = found]
  <2>1. PICK found \in SUBSET Findings :
             /\ scans' = [scans EXCEPT ![ecr.scan] = [done |-> TRUE, at |-> now, found |-> found]]
             /\ \/ ecr' = [ecr EXCEPT !.status = "COMPLETE"]
                \/ ecr' = [ecr EXCEPT !.status = "COMPLETE", !.attached = TRUE,
                                      !.counted = Cardinality(found), !.listed = found]
    BY <1>4
  <2>2. Cardinality(found) \in Nat
    BY FS_Subset, FS_CardinalityType
  <2>3. /\ scans'[ecr.scan] = [done |-> TRUE, at |-> now, found |-> found]
        /\ \A n \in Scans : n # ecr.scan => scans'[n] = scans[n]
    BY <1>2, <2>1 DEF Types
  <2>4. [done |-> TRUE, at |-> now, found |-> found] \in Scan
    BY DEF Types, Scan
  <2>5. Types'
    BY <1>1, <2>1, <2>2, <2>4 DEF Types, Answer, EcrStatuses
  <2>6. /\ ecr'.status = "COMPLETE" /\ ecr'.scan = ecr.scan
        /\ ecr'.attached => ecr'.listed = found /\ ecr'.counted = Cardinality(found)
    BY <1>2, <2>1 DEF Types, Answer
  <2>7. "COMPLETE" \notin Pending
    BY DEF Pending
  <2>8. EcrInv'
    <3>1. \A n \in Scans : n > ecr.scan => ~scans'[n].done
      BY <1>2, <2>3 DEF EcrInv, Scans
    <3>2. QED
      BY <1>2, <2>3, <2>6, <2>7, <3>1 DEF EcrInv
  <2>9. InspectorInv'
    <3>1. \A n \in Scans : n # ecr.scan => Listed(n)' = Listed(n)
      BY <1>1, <2>3 DEF Listed
    <3>2. now <= now + Lag
      BY DEF Types
    <3>3. QED
      BY <1>1, <2>3, <3>1, <3>2 DEF InspectorInv, Covers
  <2>10. PollInv'
    <3>1. poll.at \in {"settle", "coverage", "findings"} => poll.scan # ecr.scan
      BY <1>2 DEF PollInv
    <3>2. ReportsAreComplete'
      BY <1>1, <1>2, <2>3 DEF PollInv, ReportsAreComplete, Scans
    <3>3. \A n \in Scans : n # ecr.scan => Listed(n)' = Listed(n)
      BY <1>1, <2>3 DEF Listed
    <3>4. QED
      BY <1>1, <2>3, <3>1, <3>2, <3>3 DEF PollInv
  <2>11. QED
    BY <2>5, <2>8, <2>9, <2>10
<1>5. QED
  BY <1>3, <1>4 DEF CompleteScan

LEMMA ListFindingsIInv == ASSUME IInv, ListFindings PROVE IInv'
<1> USE ScanAssumption DEF IInv
<1>1. PICK n \in Scans :
        ~Listed(n) /\ inspector' = [inspector EXCEPT !.lists = @ \cup scans[n].found]
  BY DEF ListFindings, Scans
<1>2. UNCHANGED <<now, scans, ecr, poll>>
  BY DEF ListFindings
<1>3. /\ inspector'.covered = inspector.covered /\ inspector'.scannedAt = inspector.scannedAt
      /\ inspector.lists \subseteq inspector'.lists
  BY <1>1 DEF Types, Knowledge
<1>4. Types'
  BY <1>1, <1>2 DEF Types, Knowledge, Scan
<1>5. \A m \in Scans : Listed(m) => Listed(m)'
  BY <1>2, <1>3 DEF Listed
<1>6. EcrInv' /\ InspectorInv'
  BY <1>2, <1>3, <1>5 DEF EcrInv, InspectorInv, Covers
<1>7. PollInv'
  BY <1>2, <1>5 DEF PollInv, ReportsAreComplete
<1>8. QED
  BY <1>4, <1>6, <1>7

LEMMA CoverImageIInv == ASSUME IInv, CoverImage PROVE IInv'
<1> USE ScanAssumption DEF IInv
<1>1. /\ inspector' = [inspector EXCEPT !.covered = TRUE, !.scannedAt = now]
      /\ UNCHANGED <<now, scans, ecr, poll>>
  BY DEF CoverImage
<1>2. inspector'.lists = inspector.lists
  BY <1>1 DEF Types, Knowledge
<1>3. Types'
  BY <1>1 DEF Types, Knowledge
<1>4. \A n \in Scans : Listed(n)' = Listed(n)
  BY <1>1, <1>2 DEF Listed
<1>5. \A n \in Scans : ~Listed(n) => now <= scans[n].at + Lag
  BY DEF CoverImage, Scans
<1>6. EcrInv' /\ InspectorInv'
  BY <1>1, <1>4, <1>5 DEF EcrInv, InspectorInv
<1>7. PollInv'
  BY <1>1, <1>4 DEF PollInv, ReportsAreComplete
<1>8. QED
  BY <1>3, <1>6, <1>7

LEMMA TickIInv == ASSUME IInv, Tick PROVE IInv'
<1> USE ScanAssumption DEF IInv
<1>1. now' = now + 1 /\ UNCHANGED <<scans, ecr, inspector, poll>>
  BY DEF Tick
<1>2. Types'
  BY <1>1 DEF Types
<1>3. \A n \in Scans : Listed(n)' = Listed(n) /\ Covers(n)' = Covers(n)
  BY <1>1 DEF Listed, Covers
<1>4. \A n \in Scans : scans[n].at \in Nat
  BY DEF Types, Scan
<1>5. InspectorInv'
  <2>1. \A n \in Scans : ~Listed(n) /\ Covers(n) => now < scans[n].at + Lag
    BY DEF Tick, Scans
  <2>2. \A n \in Scans : now < scans[n].at + Lag => now + 1 <= scans[n].at + Lag
    BY <1>4 DEF Types
  <2>3. QED
    BY <1>1, <1>3, <2>1, <2>2 DEF InspectorInv
<1>6. EcrInv' /\ PollInv'
  <2>1. poll.at = "coverage" => now + 1 >= scans[poll.scan].at + Settle
    BY <1>4 DEF PollInv, Types
  <2>2. QED
    BY <1>1, <1>3, <2>1 DEF EcrInv, PollInv, ReportsAreComplete
<1>7. QED
  BY <1>2, <1>5, <1>6

-----------------------------------------------------------------------------
(* The poller                                                              *)

\* A step of the poller keeps what is not about it.
LEMMA PollStep ==
  ASSUME IInv, UNCHANGED <<now, scans, ecr, inspector>>, poll' \in Poller, PollInv'
  PROVE  IInv'
<1>1. EcrInv' /\ InspectorInv'
  BY DEF IInv, EcrInv, InspectorInv, Listed, Covers
<1>2. QED
  BY <1>1 DEF IInv, Types

\* Whatever was learnt is forgotten when an attempt ends without a report.
LEMMA RetryIInv ==
  ASSUME IInv, UNCHANGED <<now, scans, ecr, inspector>>, poll.at # "ended",
         End("error", NoReport) \/ Retry
  PROVE  IInv'
<1>1. NoReport \in [scan : 0 .. MaxScans, findings : SUBSET Findings]
  BY ScanAssumption DEF NoReport
<1>2. CASE poll' = [poll EXCEPT !.at = "delay"]
  <2>1. poll' \in Poller /\ poll'.at = "delay" /\ poll'.outcome = poll.outcome /\ poll'.report = poll.report
    BY <1>2 DEF IInv, Types, Poller
  <2>2. QED
    BY <2>1, PollStep DEF IInv, PollInv, ReportsAreComplete
<1>3. CASE \E outcome \in {"error", "limit"} :
             poll' = [poll EXCEPT !.at = "ended", !.outcome = outcome, !.report = NoReport]
  <2>1. PICK outcome \in {"error", "limit"} :
             poll' = [poll EXCEPT !.at = "ended", !.outcome = outcome, !.report = NoReport]
    BY <1>3
  <2>2. poll' \in Poller /\ poll'.at = "ended" /\ poll'.outcome = outcome
    BY <1>1, <2>1 DEF IInv, Types, Poller
  <2>3. outcome # "report"
    OBVIOUS
  <2>4. PollInv'
    BY <2>2, <2>3 DEF PollInv, ReportsAreComplete
  <2>5. QED
    BY <2>2, <2>4, PollStep
<1>4. QED
  BY <1>2, <1>3 DEF Retry, End, Goto

LEMMA GotoIInv ==
  ASSUME IInv, UNCHANGED <<now, scans, ecr, inspector>>,
         NEW at \in {"settle", "coverage", "findings", "ask"}, NEW n \in 0 .. MaxScans,
         poll' = [poll EXCEPT !.at = at, !.scan = n] \/ (at = "ask" /\
           poll' = [poll EXCEPT !.at = at, !.attempt = @ + 1, !.scan = n]),
         at # "ask" => n \in Scans /\ scans[n].done,
         at = "coverage" => now >= scans[n].at + Settle,
         at = "findings" => Listed(n)
  PROVE  IInv'
<1>1. /\ poll' \in Poller /\ poll'.at = at /\ poll'.scan = n
      /\ poll'.outcome = poll.outcome /\ poll'.report = poll.report
  <2>1. PICK k \in Nat : poll' = [poll EXCEPT !.at = at, !.attempt = k, !.scan = n]
    <3>1. poll.attempt \in Nat /\ poll.attempt + 1 \in Nat
      BY DEF IInv, Types, Poller
    <3>2. CASE poll' = [poll EXCEPT !.at = at, !.scan = n]
      <4>1. poll' = [poll EXCEPT !.at = at, !.attempt = poll.attempt, !.scan = n]
        BY <3>2 DEF IInv, Types, Poller
      <4>2. QED
        BY <3>1, <4>1
    <3>3. CASE poll' = [poll EXCEPT !.at = at, !.attempt = @ + 1, !.scan = n]
      BY <3>1, <3>3
    <3>4. QED
      BY <3>2, <3>3
  <2>2. QED
    BY <2>1 DEF IInv, Types, Poller
<1>2. ReportsAreComplete'
  BY <1>1 DEF IInv, PollInv, ReportsAreComplete
<1>3. Listed(n)' = Listed(n)
  BY DEF Listed
<1>4. PollInv'
  BY <1>1, <1>2, <1>3 DEF PollInv
<1>5. QED
  BY <1>1, <1>4, PollStep

LEMMA ReportIInv ==
  ASSUME IInv, UNCHANGED <<now, scans, ecr, inspector>>, NEW n \in Scans,
         scans[n].done, End("report", [scan |-> n, findings |-> scans[n].found])
  PROVE  IInv'
<1>1. [scan |-> n, findings |-> scans[n].found] \in [scan : 0 .. MaxScans, findings : SUBSET Findings]
  BY DEF IInv, Types, Scan, Scans
<1>2. /\ poll' \in Poller /\ poll'.at = "ended"
      /\ poll'.report = [scan |-> n, findings |-> scans[n].found]
  BY <1>1 DEF IInv, Types, Poller, End
<1>3. PollInv'
  BY <1>2 DEF PollInv, ReportsAreComplete, Scans
<1>4. QED
  BY <1>2, <1>3, PollStep

\* Of a part of a finite set with as many members nothing is missing.
LEMMA AskIInv == ASSUME IInv, Ask PROVE IInv'
<1> USE ScanAssumption
<1>1. poll.at = "ask" /\ UNCHANGED <<now, scans, ecr, inspector>>
  BY DEF Ask
<1>2. CASE ecr.status = "COMPLETE" /\ ecr.attached /\ Normalize
  <2>1. /\ ecr.scan \in Scans /\ scans[ecr.scan].done
        /\ ecr.listed \subseteq scans[ecr.scan].found
        /\ ecr.counted = Cardinality(scans[ecr.scan].found)
        /\ scans[ecr.scan].found \subseteq Findings
    BY <1>2 DEF IInv, EcrInv, Types, Scan
  <2>2. CASE Reconciled
    <3>1. IsFiniteSet(scans[ecr.scan].found)
      BY <2>1, FS_Subset
    <3>2. ecr.listed = scans[ecr.scan].found
      BY <2>1, <2>2, <3>1, FS_Subset DEF Reconciled
    <3>3. QED
      BY <1>1, <1>2, <2>1, <2>2, <3>2, ReportIInv DEF Normalize
  <2>3. CASE ~Reconciled
    BY <1>1, <1>2, <2>3, RetryIInv DEF Normalize
  <2>4. QED
    BY <2>2, <2>3
<1>3. CASE ecr.status = "COMPLETE" /\ poll' = [poll EXCEPT !.at = "settle", !.scan = ecr.scan]
  <2>1. ecr.scan \in Scans /\ scans[ecr.scan].done /\ ecr.scan \in 0 .. MaxScans
    BY <1>3 DEF IInv, EcrInv, Types, Answer
  <2>2. QED
    BY <1>1, <1>3, <2>1, GotoIInv
<1>4. CASE Retry \/ End("error", NoReport)
  BY <1>1, <1>4, RetryIInv
<1>5. QED
  BY <1>2, <1>3, <1>4 DEF Ask

LEMMA ConfirmIInv ==
  ASSUME IInv, CheckSettled \/ CheckCoverage \/ CheckFindings
  PROVE  IInv'
<1> USE ScanAssumption
<1>1. /\ poll.at \in {"settle", "coverage", "findings"} /\ poll.at # "ended"
      /\ UNCHANGED <<now, scans, ecr, inspector>>
  BY DEF CheckSettled, CheckCoverage, CheckFindings
<1>2. /\ poll.scan \in Scans /\ scans[poll.scan].done /\ scans[poll.scan].at \in Nat
      /\ poll.scan \in 0 .. MaxScans /\ now \in Nat
  BY <1>1 DEF IInv, PollInv, Types, Scan, Poller
<1>3. \A at : Goto(at) => poll' = [poll EXCEPT !.at = at, !.scan = poll.scan]
  BY DEF Goto, IInv, Types, Poller
<1>4. CASE Retry
  BY <1>1, <1>4, RetryIInv
<1>5. CASE CheckSettled /\ Settled /\ Goto("coverage")
  <2>1. now >= scans[poll.scan].at + Settle
    BY <1>5 DEF Settled
  <2>2. poll' = [poll EXCEPT !.at = "coverage", !.scan = poll.scan]
    BY <1>3, <1>5
  <2>3. QED
    BY <1>1, <1>2, <2>1, <2>2, GotoIInv
<1>6. CASE CheckCoverage /\ CoveredSince /\ Goto("findings")
  <2>1. now >= scans[poll.scan].at + Settle
    BY <1>6 DEF CheckCoverage, IInv, PollInv
  <2>2. Covers(poll.scan)
    BY <1>6 DEF CoveredSince
  <2>3. ~(now <= scans[poll.scan].at + Lag)
    BY <1>2, <2>1
  <2>4. Listed(poll.scan)
    BY <1>2, <2>2, <2>3 DEF IInv, InspectorInv
  <2>5. poll' = [poll EXCEPT !.at = "findings", !.scan = poll.scan]
    BY <1>3, <1>6
  <2>6. QED
    BY <1>1, <1>2, <2>4, <2>5, GotoIInv
<1>7. CASE CheckFindings /\ inspector.lists = {} /\ End("report", [scan |-> poll.scan, findings |-> {}])
  <2>1. scans[poll.scan].found = {}
    BY <1>2, <1>7 DEF CheckFindings, IInv, PollInv, Listed
  <2>2. QED
    BY <1>1, <1>2, <1>7, <2>1, ReportIInv
<1>8. QED
  BY <1>4, <1>5, <1>6, <1>7 DEF CheckSettled, CheckCoverage, CheckFindings

LEMMA NextIInv == ASSUME IInv, [Next]_vars PROVE IInv'
<1>1. CASE AskFails \/ InspectorFails
  <2>1. poll.at # "ended" /\ UNCHANGED <<now, scans, ecr, inspector>>
        /\ (End("error", NoReport) \/ Retry)
    BY <1>1 DEF AskFails, InspectorFails
  <2>2. QED
    BY <2>1, RetryIInv
<1>2. CASE Wake
  <2>1. 0 \in 0 .. MaxScans
    BY ScanAssumption
  <2>2. QED
    BY <1>2, <2>1, GotoIInv DEF Wake
<1>3. CASE UNCHANGED vars
  BY <1>3 DEF vars, IInv, Types, EcrInv, InspectorInv, PollInv, Listed, Covers, ReportsAreComplete
<1>4. QED
  BY <1>1, <1>2, <1>3, AskIInv, ConfirmIInv, StartScanIInv, CompleteScanIInv, AttachIInv,
     ListFindingsIInv, CoverImageIInv, TickIInv DEF Next, Poll, Services

\* Every reachable state satisfies the invariant.
THEOREM Polls == Spec => []IInv
BY InitIInv, NextIInv, PTL DEF Spec

\* No report of poll-ecr-scan.mjs leaves out a finding of the scan it is about.
THEOREM NothingIsLeftOut == Spec => []ReportsAreComplete
<1>1. IInv => ReportsAreComplete
  BY DEF IInv, PollInv
<1>2. QED
  BY <1>1, Polls, PTL

=============================================================================
