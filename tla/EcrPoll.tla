------------------------------- MODULE EcrPoll -------------------------------
(***************************************************************************)
(* poll-ecr-scan.mjs: wait for the registry's scan of one pushed image,    *)
(* polled by digest, and return its findings.  ECR answers COMPLETE before *)
(* the findings are attached, and the body of a clean enhanced scan never  *)
(* changes again, so that Inspector is asked.  Both services are the       *)
(* environment; the image may be scanned again meanwhile.                  *)
(*                                                                         *)
(* A finding is a model value: which severity it has, and the fields of a  *)
(* finding the normalizer refuses, are abstracted.                         *)
(***************************************************************************)
EXTENDS Naturals, FiniteSets

CONSTANTS Findings,    \* what a scan can find
          MaxScans,    \* bound on scans of the image
          MaxTime,     \* bound on the clock
          MaxAttempts, \* --max-attempts
          Settle,      \* CLEAN_SETTLE_SECONDS
          Lag          \* Inspector lists a scan's findings within this of its completion,
                       \* or later, but then before its coverage says the scan took place

ASSUME ScanAssumption ==
  /\ IsFiniteSet(Findings) /\ MaxScans \in Nat /\ MaxAttempts \in Nat \ {0}
  /\ Settle \in Nat /\ Lag \in Nat /\ Lag < Settle

VARIABLES now,
          scans,     \* of each scan, once it is complete: its time and findings
          ecr,       \* what describe-image-scan-findings answers
          inspector, \* what list-coverage and list-findings answer
          poll       \* the poller

vars == <<now, scans, ecr, inspector, poll>>

None == "none"
Pending == {"PENDING", "IN_PROGRESS", "ACTIVE"}
NoReport == [scan |-> 0, findings |-> {}]

Init ==
  /\ now = 0
  /\ scans = [n \in 1 .. MaxScans |-> [done |-> FALSE, at |-> 0, found |-> {}]]
  /\ ecr = [scan |-> 0, status |-> None, attached |-> FALSE, counted |-> 0, listed |-> {}]
  /\ inspector = [covered |-> FALSE, scannedAt |-> 0, lists |-> {}]
  /\ poll = [at |-> "ask", attempt |-> 1, scan |-> 0, outcome |-> None, report |-> NoReport]

-----------------------------------------------------------------------------
(* The registry and Inspector                                              *)

StartScan ==
  /\ ecr.scan < MaxScans /\ ecr.status \notin Pending
  /\ \E status \in Pending :
       ecr' = [scan |-> ecr.scan + 1, status |-> status, attached |-> FALSE, counted |-> 0, listed |-> {}]
  /\ UNCHANGED <<now, scans, inspector, poll>>

\* The findings of a basic scan come with it, those of an enhanced one later.
CompleteScan ==
  /\ ecr.status \in Pending
  /\ \/ \E found \in SUBSET Findings :
          /\ scans' = [scans EXCEPT ![ecr.scan] = [done |-> TRUE, at |-> now, found |-> found]]
          /\ \/ ecr' = [ecr EXCEPT !.status = "COMPLETE"]
             \/ ecr' = [ecr EXCEPT !.status = "COMPLETE", !.attached = TRUE,
                                   !.counted = Cardinality(found), !.listed = found]
     \/ ecr' = [ecr EXCEPT !.status = "FAILED"] /\ UNCHANGED scans
  /\ UNCHANGED <<now, inspector, poll>>

\* ECR attaches the counts, with all or some of the findings.
Attach ==
  /\ ecr.status = "COMPLETE"
  /\ \E listed \in SUBSET scans[ecr.scan].found :
       /\ ecr.listed \subseteq listed
       /\ ecr' = [ecr EXCEPT !.attached = TRUE, !.listed = listed,
                             !.counted = Cardinality(scans[ecr.scan].found)]
  /\ UNCHANGED <<now, scans, inspector, poll>>

Listed(n) == scans[n].done => scans[n].found \subseteq inspector.lists
Covers(n) == inspector.covered /\ inspector.scannedAt >= scans[n].at

\* Inspector lists what a scan found.
ListFindings ==
  /\ \E n \in 1 .. MaxScans :
       /\ ~Listed(n)
       /\ inspector' = [inspector EXCEPT !.lists = @ \cup scans[n].found]
  /\ UNCHANGED <<now, scans, ecr, poll>>

\* Inspector's coverage says that it scanned the image now.
CoverImage ==
  /\ \A n \in 1 .. MaxScans : ~Listed(n) => now <= scans[n].at + Lag
  /\ inspector' = [inspector EXCEPT !.covered = TRUE, !.scannedAt = now]
  /\ UNCHANGED <<now, scans, ecr, poll>>

\* Time does not pass what Inspector promises.
Tick ==
  /\ now < MaxTime
  /\ \A n \in 1 .. MaxScans : ~Listed(n) /\ Covers(n) => now < scans[n].at + Lag
  /\ now' = now + 1
  /\ UNCHANGED <<scans, ecr, inspector, poll>>

-----------------------------------------------------------------------------
(* The poller                                                              *)

End(outcome, report) ==
  poll' = [poll EXCEPT !.at = "ended", !.outcome = outcome, !.report = report]
Goto(at) == poll' = [poll EXCEPT !.at = at]

\* One attempt is used up; after the last the poll fails.
Retry == IF poll.attempt = MaxAttempts THEN End("limit", NoReport) ELSE Goto("delay")

\* describe-image-scan-findings fails: for good, or for this attempt.
AskFails ==
  /\ poll.at = "ask"
  /\ End("error", NoReport) \/ Retry
  /\ UNCHANGED <<now, scans, ecr, inspector>>

\* normalizeEcrResponse: the findings that are listed must be as many as ECR counts.
Reconciled == Cardinality(ecr.listed) = ecr.counted

Normalize ==
  IF Reconciled THEN End("report", [scan |-> ecr.scan, findings |-> ecr.listed])
  ELSE End("error", NoReport)

Ask ==
  /\ poll.at = "ask"
  /\ \/ ecr.status = "COMPLETE" /\ ecr.attached /\ Normalize
     \/ ecr.status = "COMPLETE" /\ ~ecr.attached
        /\ poll' = [poll EXCEPT !.at = "settle", !.scan = ecr.scan]
     \/ ecr.status \in Pending \cup {None} /\ Retry
     \/ ecr.status = "FAILED" /\ End("error", NoReport)
  /\ UNCHANGED <<now, scans, ecr, inspector>>

\* confirmCleanEnhancedScan: not before the scan has settled, ...
SettledAtOnce == TRUE
Settled == now >= scans[poll.scan].at + Settle

CheckSettled ==
  /\ poll.at = "settle"
  /\ IF Settled THEN Goto("coverage") ELSE Retry
  /\ UNCHANGED <<now, scans, ecr, inspector>>

\* ... not unless Inspector scanned the image since ...
CoveredEver == inspector.covered
CoveredSince == Covers(poll.scan)

CheckCoverage ==
  /\ poll.at = "coverage"
  /\ \/ CoveredSince /\ Goto("findings")
     \/ ~CoveredSince /\ Retry
  /\ UNCHANGED <<now, scans, ecr, inspector>>

\* ... and lists nothing.
CheckFindings ==
  /\ poll.at = "findings"
  /\ IF inspector.lists = {} THEN End("report", [scan |-> poll.scan, findings |-> {}]) ELSE Retry
  /\ UNCHANGED <<now, scans, ecr, inspector>>

\* Inspector cannot be asked: for good, or for this attempt.
InspectorFails ==
  /\ poll.at \in {"coverage", "findings"}
  /\ End("error", NoReport) \/ Retry
  /\ UNCHANGED <<now, scans, ecr, inspector>>

WakeUncounted ==
  /\ poll.at = "delay" /\ poll' = [poll EXCEPT !.at = "ask", !.scan = 0]
  /\ UNCHANGED <<now, scans, ecr, inspector>>

Wake ==
  /\ poll.at = "delay"
  /\ poll' = [poll EXCEPT !.at = "ask", !.attempt = @ + 1, !.scan = 0]
  /\ UNCHANGED <<now, scans, ecr, inspector>>

Poll == AskFails \/ Ask \/ CheckSettled \/ CheckCoverage \/ CheckFindings \/ InspectorFails \/ Wake
Services == StartScan \/ CompleteScan \/ Attach \/ ListFindings \/ CoverImage \/ Tick

Next == Poll \/ Services

\* The process runs; nothing is asked of the services.
Spec == Init /\ [][Next]_vars /\ WF_vars(Poll)

-----------------------------------------------------------------------------
TypeOK ==
  /\ now \in 0 .. MaxTime
  /\ \A n \in 1 .. MaxScans : scans[n].found \subseteq Findings /\ scans[n].at \in 0 .. now
  /\ ecr.scan \in 0 .. MaxScans /\ ecr.status \in Pending \cup {None, "COMPLETE", "FAILED"}
  /\ inspector.scannedAt \in 0 .. now /\ inspector.lists \subseteq Findings
  /\ poll.at \in {"ask", "settle", "coverage", "findings", "delay", "ended"}
  /\ poll.attempt \in 1 .. MaxAttempts /\ poll.scan \in 0 .. MaxScans

\* A report is that of a completed scan, with everything it found: an enhanced
\* scan whose findings are not attached yet, that ECR lists in part, or that
\* Inspector has not caught up with, is never reported clean.
ReportsAreComplete ==
  poll.outcome = "report" =>
    /\ poll.report.scan \in 1 .. MaxScans
    /\ scans[poll.report.scan].done
    /\ poll.report.findings = scans[poll.report.scan].found

\* A poll ends, with a report or without, whatever the services answer.
PollEnds == <>(poll.at = "ended")

=============================================================================
