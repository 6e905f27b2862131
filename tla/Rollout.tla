------------------------------- MODULE Rollout ------------------------------
(***************************************************************************)
(* The rollout of the gate into a repository with ssd-onboard (onboarding/ *)
(* cli.mjs and lib/): onboard, init, render, baseline prepare, baseline    *)
(* accept and promote write the configuration, the generated files and the *)
(* accepted Semgrep baseline in one checkout, and runs of the generated    *)
(* workflow on GitHub supply the candidate for that baseline.  Meanwhile   *)
(* people edit files, commit and move the checkout, and a command may die  *)
(* between two writes or within one: nothing is ever rolled back.          *)
(*                                                                         *)
(* The rulesets, roots and ignore patterns of Semgrep are one scope.  The  *)
(* findings of a scan are modelled by what was scanned.  A symbolic link   *)
(* is one that dangles: it reads as no file and refuses every write.  The  *)
(* reads of a command before it asks, and those after, are one step each.  *)
(***************************************************************************)
EXTENDS Naturals, Sequences, FiniteSets

CONSTANTS
  Histories,    \* commits to begin with
  Partials,     \* answers given to onboard and init
  Scopes,       \* what Semgrep scans
  MaxCommits,   \* bound on commits
  MaxRuns,      \* bound on runs
  MaxTroubles   \* bound on edits by people and commands that die

VARIABLES
  tree,      \* the checkout's files
  head,      \* the commit it is at
  commits,   \* per commit: its files and branch
  runs,      \* runs of the security workflow, with their artifacts
  command,   \* the command under way: its step, and what it knows
  troubles   \* edits and dead commands so far

rolloutVars == <<tree, head, commits, runs, command, troubles>>

Gate == INSTANCE SourcePolicy

-----------------------------------------------------------------------------
(* Files.                                                                  *)

Tracked == {"config", "security", "delivery", "ignore", "baseline"}
Candidates == {"candidate", "provenance"}
Paths == Tracked \cup Candidates

NoFile == [kind |-> "none"]
Human == [kind |-> "human"]
Torn == [kind |-> "torn"]
Link == [kind |-> "link"]

Generated(view) == [kind |-> "generated", view |-> view, intact |-> TRUE]
Document(scan) == [kind |-> "document", scan |-> scan, edited |-> FALSE]
Provenance(scan) ==
  [kind |-> "provenance", scan |-> scan, document |-> Document(scan), edited |-> FALSE]

Content(t, p) == IF t[p] = Link THEN NoFile ELSE t[p]
Exists(t, p) == Content(t, p) # NoFile

ConfigValid(c) == c.kind = "config" /\ (c.gate = "enforce" => c.base = "accepted")

\* A bug to check the properties against: the bootstrap stays on offer once accepted.
BootstrapWhileLogOnly(c) == c.gate = "log-only"
BootstrapAvailable(c) == c.base = "absent" /\ c.gate = "log-only"

\* What a configuration may say; the answers given to onboard may leave the baseline out.
Configurations(bases) ==
  [kind : {"config"}, gate : {"log-only", "enforce"}, base : bases, scope : Scopes,
   ecr : BOOLEAN]
ConfigRead(t) == t["config"].kind = "config" => t["config"] \in Configurations({"absent", "accepted"})

\* Nobody commits a baseline that dangles: see the README.
ASSUME RolloutAssumption ==
  /\ {MaxCommits, MaxRuns, MaxTroubles} \subseteq Nat
  /\ Partials \subseteq Configurations({"absent", "accepted", "unsaid"})
  /\ \A h \in Histories :
       /\ h \in Seq({h[i] : i \in DOMAIN h}) /\ h # << >>
       /\ \A i \in DOMAIN h : ConfigRead(h[i].tree) /\ h[i].tree["baseline"] # Link

SecurityView(c) ==
  [gate |-> c.gate, base |-> c.base, bootstrap |-> BootstrapAvailable(c), scope |-> c.scope]
DeliveryView(c) == [gate |-> "enforce", base |-> c.base, bootstrap |-> FALSE, scope |-> c.scope]
IgnoreView(c) == [gate |-> "none", base |-> "none", bootstrap |-> FALSE, scope |-> c.scope]

\* A bug to check the properties against: a delivery workflow is made in every mode.
RenderWithDelivery(c) ==
  [p \in {"security", "ignore"} \cup (IF c.ecr THEN {"delivery"} ELSE {}) |->
     Generated(CASE p = "security" -> SecurityView(c)
                 [] p = "delivery" -> DeliveryView(c)
                 [] p = "ignore" -> IgnoreView(c))]

\* Delivery is generated only while the gate enforces.
RenderAll(c) ==
  [p \in {"security", "ignore"} \cup
         (IF c.ecr /\ c.gate = "enforce" THEN {"delivery"} ELSE {}) |->
     Generated(CASE p = "security" -> SecurityView(c)
                 [] p = "delivery" -> DeliveryView(c)
                 [] p = "ignore" -> IgnoreView(c))]

-----------------------------------------------------------------------------
(* What may be written.                                                    *)

\* A bug to check the properties against: the marker is believed without its digest.
PlanByMarker(t, p, new, named) ==
  LET current == Content(t, p)
  IN CASE current = NoFile -> "create"
       [] current = new -> "unchanged"
       [] current \notin {NoFile, new} /\ current.kind = "generated" -> "update"
       [] OTHER -> IF p \in named THEN "named" ELSE "conflict"

\* What render may do to a file; `named' are the paths given to --force and --adopt.
PlanWrite(t, p, new, named) ==
  LET current == Content(t, p)
  IN CASE current = NoFile -> "create"
       [] current = new -> "unchanged"
       [] current \notin {NoFile, new} /\ current.kind = "generated" /\ current.intact -> "update"
       [] OTHER -> IF p \in named THEN "named" ELSE "conflict"

PlanWrites(t, c, named) ==
  [p \in DOMAIN RenderAll(c) |-> PlanWrite(t, p, RenderAll(c)[p], named)]
WriteConflicts(t, c, named) ==
  \E p \in DOMAIN RenderAll(c) : PlanWrites(t, c, named)[p] = "conflict"

\* Generated files that are no longer produced.
Stale(t, c) ==
  {p \in {"delivery", "ignore"} \ DOMAIN RenderAll(c) : Content(t, p).kind = "generated"}

Write(p, new) == [path |-> p, content |-> new, exclusive |-> FALSE]
WriteNew(p, new) == [path |-> p, content |-> new, exclusive |-> TRUE]
Remove(p) == [path |-> p, content |-> NoFile, exclusive |-> FALSE]

\* The writes of a plan, in the order they are rendered in.
ApplyWrites(t, c, named) ==
  LET plan == PlanWrites(t, c, named)
      Wanted(p) == IF p \in DOMAIN plan /\ plan[p] # "unchanged"
                   THEN <<Write(p, RenderAll(c)[p])>> ELSE << >>
  IN Wanted("security") \o Wanted("delivery") \o Wanted("ignore")

-----------------------------------------------------------------------------
(* The baseline's life cycle.                                              *)

\* A baseline that is there already may say less than a candidate must.
BaselineValid(file, c) ==
  file.kind = "document" /\ (file.scan.known => file.scan.scope = c.scope)
CandidateValid(file, c) == BaselineValid(file, c) /\ file.scan.known

\* A bug to check the properties against: a baseline nobody declared is no problem.
RolloutUnsuspecting(t, c) ==
  CASE c.base = "absent" -> IF Exists(t, "candidate") THEN "candidate-downloaded" ELSE "onboarding"
    [] c.base = "accepted" -> IF ~BaselineValid(Content(t, "baseline"), c) THEN "inconsistent"
                              ELSE IF c.gate = "enforce" THEN "enforcing" ELSE "baseline-accepted"

\* Derived from the configuration and the files, never stored.
RolloutState(t, c) ==
  CASE c.base = "absent" /\ Exists(t, "baseline") -> "inconsistent"
    [] c.base = "absent" /\ ~Exists(t, "baseline") ->
         IF Exists(t, "candidate") THEN "candidate-downloaded" ELSE "onboarding"
    [] c.base = "accepted" -> IF ~BaselineValid(Content(t, "baseline"), c) THEN "inconsistent"
                              ELSE IF c.gate = "enforce" THEN "enforcing" ELSE "baseline-accepted"

\* analyze: what keeps anything from being generated.
Blocking(t, c, named) ==
  \/ ~ConfigValid(c)
  \/ RolloutState(t, c) = "inconsistent"
  \/ WriteConflicts(t, c, named)
Drift(t, c) ==
  \/ \E p \in DOMAIN RenderAll(c) : PlanWrites(t, c, {})[p] # "unchanged"
  \/ Stale(t, c) # {}
Validates(t) ==
  LET c == Content(t, "config")
  IN c.kind = "config" /\ ~Blocking(t, c, {}) /\ ~Drift(t, c)

\* A bug to check the properties against: the record is not held against the bytes.
IntegrityOfRecord(record, file) == record.kind = "provenance" /\ ~record.edited

\* The record is whole, and covers exactly these bytes, of a trusted bootstrap.
ProvenanceIntegrity(record, file) ==
  record.kind = "provenance" /\ ~record.edited /\ record.document = file

\* The record is of this repository as it is configured.
ProvenanceBound(record, c) ==
  /\ record.scan.event = "workflow_dispatch" /\ record.scan.branch = "main"
  /\ record.scan.scope = c.scope

\* Files git does not track do not count.
Clean(t, at) ==
  \A p \in Tracked : commits[at].tree[p] # NoFile => t[p] = commits[at].tree[p]

\* A bug to check the properties against: the scanned commit need not be checked out.
CheckoutBoundLoosely(record, t, at) ==
  Clean(t, at) /\ Content(t, "ignore") = record.scan.ignore

\* And of exactly this checkout.
CheckoutBound(record, t, at) ==
  record.scan.commit = at /\ Clean(t, at) /\ Content(t, "ignore") = record.scan.ignore

-----------------------------------------------------------------------------
(* Commands.                                                               *)

NoCommand == [step |-> "none"]

\* What a command has read, and what is left for it to do.
Begun(step, name, config, named, todo) ==
  [step |-> step, name |-> name, config |-> config, named |-> named, todo |-> todo,
   head |-> head, seen |-> tree]

NoneRunning == command = NoCommand
Config == Content(tree, "config")
Ask(name, config, named, todo) == command' = Begun("asked", name, config, named, todo)
Carry(name, config, named, todo) ==
  command' = IF todo = << >> THEN NoCommand ELSE Begun("write", name, config, named, todo)
OnlyCommand == UNCHANGED <<tree, head, commits, runs, troubles>>

RolloutInit ==
  /\ commits \in Histories /\ head = Len(commits)
  /\ tree = [p \in Paths |-> IF p \in Tracked THEN commits[head].tree[p] ELSE NoFile]
  /\ runs = {} /\ command = NoCommand /\ troubles = 0

\* The configuration that the answers make; an existing baseline is adopted explicitly.
Decided(partial) == partial.base # "unsaid" \/ ~Exists(tree, "baseline")
BuildConfig(partial) ==
  [partial EXCEPT !.base = IF @ = "unsaid" THEN "absent" ELSE @]

\* onboard: the configuration, exclusively, and every file, once all of it would validate.
Onboard(partial, named) ==
  LET c == BuildConfig(partial)
  IN /\ NoneRunning /\ ~Exists(tree, "config")
     /\ Decided(partial) /\ ~Blocking(tree, c, named)
     /\ Ask("onboard", c, named, <<WriteNew("config", c)>> \o ApplyWrites(tree, c, named))
     /\ OnlyCommand

\* init: the configuration alone, anew only with --overwrite.
InitConfig(partial, overwrite) ==
  LET c == BuildConfig(partial)
  IN /\ NoneRunning /\ Exists(tree, "config") => overwrite
     /\ Decided(partial) /\ ConfigValid(c)
     /\ Ask("init", c, {}, <<Write("config", c)>>)
     /\ OnlyCommand

\* render asks nothing.  A stale file somebody edited is not pruned unless named.
Render(named, prune) ==
  LET gone == {p \in Stale(tree, Config) : prune /\ (tree[p].intact \/ p \in named)}
      Removal(p) == IF p \in gone THEN <<Remove(p)>> ELSE << >>
  IN /\ NoneRunning /\ Config.kind = "config" /\ ~Blocking(tree, Config, named)
     /\ Carry("render", Config, named, ApplyWrites(tree, Config, named)
                                             \o Removal("delivery") \o Removal("ignore"))
     /\ OnlyCommand

\* baseline prepare: a successful full scan of the default branch, its artifact checked
\* against the run and the configuration.
Prepare(run, replace) ==
  /\ NoneRunning /\ ConfigValid(Config) /\ Config.base = "absent" /\ ~Exists(tree, "baseline")
  /\ Exists(tree, "candidate") => replace
  /\ run.scan.event = "workflow_dispatch" /\ run.scan.branch = "main"
  /\ run.conclusion = "success" /\ run.trusted /\ run.bootstrap
  /\ CandidateValid(Document(run.scan), Config)
  /\ ProvenanceIntegrity(Provenance(run.scan), Document(run.scan))
  /\ ProvenanceBound(Provenance(run.scan), Config)
  /\ Carry("prepare", Config, {}, <<Write("candidate", Document(run.scan)),
                                    Write("provenance", Provenance(run.scan))>>)
  /\ OnlyCommand

\* baseline accept, up to the question: the candidate is bound to exactly this checkout.
Accept ==
  LET candidate == Content(tree, "candidate")
      record == Content(tree, "provenance")
  IN /\ NoneRunning /\ Config.kind = "config" /\ ~Blocking(tree, Config, {})
     /\ Config.base = "absent" /\ ~Exists(tree, "baseline")
     /\ candidate.kind = "document" /\ CandidateValid(candidate, Config)
     /\ ProvenanceIntegrity(record, candidate)
     /\ ProvenanceBound(record, Config) /\ CheckoutBound(record, tree, head)
     /\ Ask("accept", Config, {}, <<candidate>>)
     /\ OnlyCommand

\* promote --enforce, up to the question: its plan is made before it.
Promote ==
  LET next == [Config EXCEPT !.gate = "enforce"]
  IN /\ NoneRunning /\ Config.kind = "config" /\ ~Blocking(tree, Config, {})
     /\ RolloutState(tree, Config) = "baseline-accepted"
     /\ ConfigValid(next) /\ ~WriteConflicts(tree, next, {})
     /\ Ask("promote", Config, {}, <<Write("config", next)>> \o ApplyWrites(tree, next, {}))
     /\ OnlyCommand

\* The exact number of findings is typed.  The files are planned after that, before any
\* write, for the configuration that was read at the beginning.
AcceptConfirmed ==
  LET next == [command.config EXCEPT !.base = "accepted"]
  IN IF WriteConflicts(tree, next, {}) THEN command' = NoCommand
     ELSE command' = [command EXCEPT !.step = "write", !.seen = tree,
            !.todo = <<WriteNew("baseline", command.todo[1]),
                       Remove("provenance"), Remove("candidate"), Write("config", next)>>
                     \o ApplyWrites(tree, next, {})]

\* onboard proves every path confined before its first write.
Confirmed ==
  IF command.name = "onboard" /\ \E i \in DOMAIN command.todo : tree[command.todo[i].path] = Link
  THEN command' = NoCommand
  ELSE command' = [command EXCEPT !.step = "write"]

Answer ==
  /\ command.step = "asked"
  /\ \/ command' = NoCommand
     \/ command.name = "accept" /\ AcceptConfirmed
     \/ command.name # "accept" /\ Confirmed
  /\ OnlyCommand

\* A bug to check the properties against: an existing file is truncated like any other.
WritableOver(w) == tree[w.path] # Link
Writable(w) == tree[w.path] # Link /\ (w.exclusive => tree[w.path] = NoFile)

\* One write or removal.  One that is refused ends the command; what was written stays.
WriteNext ==
  LET w == Head(command.todo)
      rest == Tail(command.todo)
  IN /\ command.step = "write"
     /\ IF Writable(w)
        THEN /\ tree' = [tree EXCEPT ![w.path] = w.content]
             /\ command' = IF rest = << >> THEN NoCommand ELSE [command EXCEPT !.todo = rest]
        ELSE command' = NoCommand /\ UNCHANGED tree
     /\ UNCHANGED <<head, commits, runs, troubles>>

\* What a write that is cut short leaves; a generated file may lose its marker or not.
Remains(content) ==
  IF content.kind = "generated" THEN {[content EXCEPT !.intact = FALSE], Human} ELSE {Torn}

\* The process dies, in the middle of a write or between two.
Die ==
  /\ command # NoCommand /\ troubles < MaxTroubles
  /\ troubles' = troubles + 1 /\ command' = NoCommand
  /\ \/ UNCHANGED tree
     \/ /\ command.step = "write" /\ Writable(Head(command.todo))
        /\ Head(command.todo).content # NoFile
        /\ \E r \in Remains(Head(command.todo).content) :
             tree' = [tree EXCEPT ![Head(command.todo).path] = r]
  /\ UNCHANGED <<head, commits, runs>>

-----------------------------------------------------------------------------
(* Everybody else.                                                         *)

\* A generated file that somebody makes scan something else.
Rescoped(file, s) == [file EXCEPT !.intact = FALSE, !.view.scope = s]

\* Somebody edits, replaces or removes one file.
Edited(p, file) ==
  CASE p = "config" -> {c \in Configurations({"absent", "accepted"}) :
                          c.ecr = (file.kind = "config" /\ file.ecr)}
    [] p = "baseline" -> {NoFile} \cup
         {Document([known |-> FALSE, scope |-> s]) : s \in Scopes}
    [] p \in Candidates -> {NoFile} \cup
         (IF file.kind \in {"document", "provenance"} THEN {[file EXCEPT !.edited = TRUE]} ELSE {})
    [] OTHER -> {NoFile, Human} \cup
         (IF file.kind = "generated"
          THEN {Rescoped(file, s) : s \in Scopes} ELSE {})

EditByHand(p) ==
  /\ troubles < MaxTroubles /\ troubles' = troubles + 1
  /\ \E file \in Edited(p, tree[p]) : tree' = [tree EXCEPT ![p] = file]
  /\ UNCHANGED <<head, commits, runs, command>>

Commit(branch) ==
  /\ NoneRunning /\ Len(commits) < MaxCommits /\ tree["security"].kind = "generated"
  /\ \E p \in Tracked : tree[p] # commits[head].tree[p]
  /\ commits' = Append(commits, [branch |-> branch, tree |-> [p \in Tracked |-> tree[p]]])
  /\ head' = Len(commits) + 1
  /\ UNCHANGED <<tree, runs, command, troubles>>

\* git keeps untracked files, and refuses to overwrite them or local changes.
SwitchTo(n) ==
  /\ n # head /\ Clean(tree, head)
  /\ \A p \in Tracked : commits[head].tree[p] = NoFile => tree[p] = NoFile
  /\ head' = n
  /\ tree' = [p \in Paths |-> IF p \in Tracked THEN commits[n].tree[p] ELSE tree[p]]
  /\ UNCHANGED <<commits, runs, command, troubles>>

\* What lies at the baseline's path, as the gate reads it.
BaselineEntry(file) ==
  [state |-> CASE file = NoFile -> "missing"
               [] file.kind = "document" -> "ok"
               [] OTHER -> "malformed",
   accepted |-> {}]

\* External: a run of a commit's security workflow, on GitHub.  A scan on a schedule or
\* by dispatch is full; only dispatch can tick the bootstrap, while the workflow offers it.
\* At most one thing goes wrong in a run.
RunWorkflow(n, event, flaw) ==
  LET at == commits[n].tree
      view == at["security"].view
      bootstrap == event = "workflow_dispatch" /\ view.bootstrap /\ flaw # "unticked"
      entry == BaselineEntry(at["baseline"])
      trusted == /\ flaw # "unhealthy"
                 /\ Gate!BaselineReads(entry, bootstrap, view.base) /\ Gate!BaselineSound(entry)
  IN /\ Cardinality(runs) < MaxRuns
     /\ at["security"].kind = "generated"
     /\ event = "workflow_dispatch" => view.bootstrap
     /\ runs' = runs \cup
          {[id |-> Cardinality(runs) + 1,
            conclusion |-> IF flaw = "failed" THEN "failure" ELSE "success",
            trusted |-> trusted, bootstrap |-> bootstrap,
            scan |-> [known |-> TRUE, commit |-> n, event |-> event,
                      branch |-> commits[n].branch, scope |-> view.scope,
                      ignore |-> Content(at, "ignore")]]}
     /\ UNCHANGED <<tree, head, commits, command, troubles>>

Naming == {{}, {"security"}, {"delivery"}}

RolloutNext ==
  \/ \E partial \in Partials :
       (\E named \in Naming : Onboard(partial, named)) \/ \E o \in BOOLEAN : InitConfig(partial, o)
  \/ \E named \in Naming, prune \in BOOLEAN : Render(named, prune)
  \/ \E run \in runs, replace \in BOOLEAN : Prepare(run, replace)
  \/ Accept \/ Promote \/ Answer \/ WriteNext \/ Die
  \/ \E p \in Paths : EditByHand(p)
  \/ \E branch \in {"main", "other"} : Commit(branch)
  \/ \E n \in DOMAIN commits :
       \/ SwitchTo(n)
       \/ \E event \in {"workflow_dispatch", "schedule"},
             flaw \in {"none", "unticked", "unhealthy", "failed"} : RunWorkflow(n, event, flaw)

RolloutSpec == RolloutInit /\ [][RolloutNext]_rolloutVars

-----------------------------------------------------------------------------
(* Properties.                                                             *)

\* A write of a command, as opposed to an edit.
CommandWrites(p) == command' # command /\ tree'[p] # tree[p]

\* A baseline that accept installs is the one shown when the operator was asked, all of
\* it or an unreadable part: the findings of a successful and trusted bootstrap of the
\* default branch, of the very commit that was checked out without changes then, over the
\* scope that was configured; and it replaces no baseline, even one that came meanwhile.
BaselineIsReviewed ==
  [][CommandWrites("baseline") =>
       /\ tree["baseline"] = NoFile
       /\ \/ tree'["baseline"] = Torn
          \/ \E run \in runs :
               /\ tree'["baseline"] = Document(run.scan)
               /\ run.conclusion = "success" /\ run.trusted /\ run.bootstrap
               /\ run.scan.branch = "main" /\ run.scan.commit = command.head
               /\ run.scan.scope = command.config.scope
               /\ Content(commits[command.head].tree, "ignore") = run.scan.ignore]_rolloutVars

\* What a person wrote is never overwritten or removed by a command that was not given
\* the file's name, unless it was written after the command had looked.
EditsSurvive ==
  [][\A p \in {"security", "delivery", "ignore"} :
       LET mine == tree[p].kind = "human" \/ (tree[p].kind = "generated" /\ ~tree[p].intact)
       IN CommandWrites(p) /\ mine =>
            p \in command.named \/ command.seen[p] # tree[p]]_rolloutVars

\* Files that validate are files the gate can run with, whatever was edited and wherever
\* a command died: its baseline is there and readable exactly when the workflow says that
\* one was accepted, an enforcing gate has one, a bootstrap is on offer only to a
\* repository that has none, and delivery is in place only behind an enforcing gate.
ValidatedIsSound ==
  Validates(tree) =>
    LET view == tree["security"].view
        entry == BaselineEntry(tree["baseline"])
    IN /\ \A bootstrap \in {FALSE, view.bootstrap} :
            Gate!BaselineReads(entry, bootstrap, view.base) /\ Gate!BaselineSound(entry)
       /\ view.gate = "enforce" => view.base = "accepted"
       /\ tree["delivery"].kind = "generated" => view.gate = "enforce"
       /\ tree["config"].ecr /\ view.gate = "enforce" => tree["delivery"].kind = "generated"

=============================================================================
