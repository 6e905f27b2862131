------------------------------ MODULE MCDelivery ----------------------------
(***************************************************************************)
(* One run for the machines of delivery: the source scan and its gate, and *)
(* the release of an image.  Each behaviour moves one of them, the other   *)
(* keeps one initial state: their state spaces add up.                     *)
(***************************************************************************)
EXTENDS SourceScan, Release, TLC

VARIABLE machine   \* the machine that moves

-----------------------------------------------------------------------------
(* Commits for SourceScan.                                                 *)

POCPolicy ==
  [state |-> "ok", thresholds |-> [critical |-> 90, high |-> 70, medium |-> 40],
   semgrep |-> [ERROR |-> "high", WARNING |-> "medium", INFO |-> "info"],
   breakGlass |-> [k \in BreakGlassKeys |->
                     IF k \in {"sast_new", "dependency_with_fix"} THEN "ELIGIBLE" ELSE "NEVER"],
   rules |-> [r \in PolicyRules |->
     CASE r \in {<<"secrets", s, "any">> : s \in {"verified", "demo_dummy"}} -> "BLOCK"
       [] r[3] \in {"with_fix", "new"} -> "BLOCK"
       [] r[2] = "malicious_package" -> "BLOCK"
       [] r[3] = "no_fix" -> "EXCEPTION"
       [] OTHER -> "LOG"]]

\* npm's database need not know an advisory that OSV's does.
Advisory(id, severity, fix, malicious, scores) ==
  [id |-> id, severity |-> severity, fix |-> fix, malicious |-> malicious, scores |-> scores,
   npm |-> id # "osv-only"]

Lock(d, n, p) == [dir |-> d, name |-> n, place |-> p]
Pkg(d) == <<d, "package-lock.json">>

\* A repository without dependencies, secrets or findings.
Clean ==
  [policy |-> POCPolicy, declared |-> "accepted", bootstrap |-> FALSE,
   baseline |-> [state |-> "ok", accepted |-> {"old"}], rulesets |-> TRUE,
   requirements |-> FALSE, python |-> <<>>, tracked |-> {}, ignored |-> {},
   advisories |-> << >>, patterns |-> {}, credentials |-> {}, code |-> {}]

Roots(advisories, ignored) ==
  [Clean EXCEPT !.tracked = {Lock(".", "package-lock.json", "plain"),
                             Lock("app", "package-lock.json", "plain"),
                             Lock("app", "npm-shrinkwrap.json", "plain"),
                             Lock("app/node_modules/x", "package-lock.json", "node_modules")},
                !.ignored = ignored, !.advisories = advisories]
Shrink == <<"app", "npm-shrinkwrap.json">>
Both(top, app) == [l \in {Pkg("."), Shrink} |-> IF l = Shrink THEN app ELSE top]

MCCheckouts ==
  { Clean,
    \* a nested root that the recursive OSV-Scanner run leaves out
    Roots(Both({}, {Advisory("osv-only", "high", "other-package", FALSE, {60, 75})}), {"app"}),
    Roots(Both({Advisory("a", "moderate", "yes", FALSE, {40})},
               {Advisory("m", "critical", "no", TRUE, {})}), {}),
    Roots(Both({Advisory("a", "critical", "no", FALSE, {90})}, {}), {}),
    \* a lockfile behind a symbolic link, and a path that leaves the checkout
    [Clean EXCEPT !.tracked = {Lock("app", "package-lock.json", "linked-directory")},
                  !.advisories = [l \in {Pkg("app")} |->
                                    {Advisory("a", "high", "yes", FALSE, {})}]],
    [Clean EXCEPT !.tracked = {Lock("../x", "package-lock.json", "parent")},
                  !.advisories = [l \in {Pkg("../x")} |-> {}]],
    \* a malicious package that npm does not know, and a policy that only logs such
    [Roots(Both({}, {Advisory("osv-only", "critical", "yes", TRUE, {})}), {})
       EXCEPT !.policy.rules[<<"dependencies", "malicious_package", "any">>] = "LOG"],
    [Clean EXCEPT !.requirements = TRUE,
                  !.python = << [package |-> "p", id |-> "PYSEC", malicious |-> FALSE,
                                 fix |-> "yes"],
                                [package |-> "p", id |-> "PYSEC", malicious |-> FALSE,
                                 fix |-> "yes"] >>],
    [Clean EXCEPT !.credentials = {[id |-> "aws", verified |-> TRUE]},
                  !.code = {[fingerprint |-> "new", severity |-> "ERROR"]}],
    [Clean EXCEPT !.patterns = {[id |-> "key", demo |-> FALSE]},
                  !.credentials = {[id |-> "aws", verified |-> FALSE]}],
    [Clean EXCEPT !.code = {[fingerprint |-> "new", severity |-> "ERROR"],
                            [fingerprint |-> "old", severity |-> "critical"]}],
    [Clean EXCEPT !.code = {[fingerprint |-> "old", severity |-> "critical"],
                            [fingerprint |-> "new", severity |-> "INFO"]}],
    [Clean EXCEPT !.code = {[fingerprint |-> "new", severity |-> "INVENTORY"]}],
    \* inputs of the gate that contradict each other
    [Clean EXCEPT !.baseline = [state |-> "shapeless"]],
    [Clean EXCEPT !.declared = "absent"],
    [Clean EXCEPT !.declared = "absent", !.baseline = NoFile, !.bootstrap = TRUE,
                  !.code = {[fingerprint |-> "new", severity |-> "ERROR"]}],
    [Clean EXCEPT !.declared = "unspecified", !.baseline = NoFile],
    [Clean EXCEPT !.declared = "approved"],
    [Clean EXCEPT !.policy.thresholds.high = 95],
    [Clean EXCEPT !.policy.breakGlass["verified_secrets"] = "ELIGIBLE",
                  !.credentials = {[id |-> "aws", verified |-> TRUE]}],
    [Clean EXCEPT !.rulesets = FALSE] }

-----------------------------------------------------------------------------
(* Runs for Release.                                                       *)

Vuln(id, severity, fix) ==
  [id |-> id, package |-> "p", severity |-> severity, fix |-> fix, trivy |-> id # "new"]
Image(name, vulns) ==
  [name |-> name, vulns |-> vulns, secrets |-> {}, family |-> "alpine", endOfLife |-> FALSE]
CleanImage == Image("clean", <<Vuln("l", "INFORMATIONAL", "NO")>>)
MCOtherImage == [Image("other", <<>>) EXCEPT !.secrets = {"token"}]

MCPolicy == [rule \in ImageRules |-> RequiredAction(rule)]

Skipped == [result |-> "skipped", status |-> Unset, delivered |-> Unset, digest |-> Unset]
Approved == [result |-> "success", status |-> "approved", delivered |-> TRUE, digest |-> "gate"]

Passed ==
  [result |-> "success", gateJob |-> "success", verdict |-> "PASS", mode |-> "enforce",
   trusted |-> TRUE, eligible |-> FALSE, delegated |-> FALSE,
   controls |-> [c \in ScanControls |-> "success"], digest |-> "gate"]
Block == [Passed EXCEPT !.result = "failure", !.gateJob = "failure", !.verdict = "BLOCK",
                        !.eligible = TRUE, !.delegated = TRUE]

Run == [capabilities |-> [artifact |-> "container", registry |-> "ecr",
                          deploy |-> "framework-gated"],
        breakGlass |-> TRUE, strict |-> TRUE, phase |-> "delivery", exemptions |-> <<>>,
        now |-> 1]

Plain ==
  [image |-> CleanImage, mode |-> "enforce", policy |-> MCPolicy, enhanced |-> TRUE,
   configured |-> TRUE, source |-> Passed, review |-> Skipped, run |-> Run]

Delegated(source, review) == [Plain EXCEPT !.source = source, !.review = review]

Exemption(expires, owner) ==
  [control |-> "gated-deploy", owner |-> owner, reason |-> "migration", expires |-> expires]

MCDeliveries ==
  { Plain,
    [Plain EXCEPT !.image = Image("fixable", <<Vuln("h", "HIGH", "PARTIAL")>>)],
    \* known to the registry alone
    [Plain EXCEPT !.image = Image("published", <<Vuln("new", "HIGH", "PARTIAL")>>)],
    [Plain EXCEPT !.image = Image("unfixable", <<Vuln("c", "CRITICAL", "NO")>>)],
    [Plain EXCEPT !.image = Image("unfixable", <<Vuln("c", "CRITICAL", "NO")>>),
                  !.enhanced = FALSE],
    [Plain EXCEPT !.image = Image("untriaged", <<Vuln("u", "UNTRIAGED", "YES"),
                                                 Vuln("m", "MEDIUM", "YES")>>)],
    [Plain EXCEPT !.image.secrets = {"token"}],
    [Plain EXCEPT !.image.endOfLife = TRUE],
    [Plain EXCEPT !.image = Image("fixable", <<Vuln("h", "HIGH", "YES")>>),
                  !.mode = "log-only", !.source = [Block EXCEPT !.mode = "log-only",
                    !.result = "success", !.gateJob = "success", !.delegated = FALSE]],
    [Plain EXCEPT !.policy[<<"high", "any">>] = "LOG"],
    [Plain EXCEPT !.configured = FALSE],
    Delegated(Block, Approved),
    Delegated(Block, [Approved EXCEPT !.digest = "another gate"]),
    Delegated(Block, [Approved EXCEPT !.result = "failure", !.status = "denied"]),
    Delegated(Block, Skipped),
    Delegated([Block EXCEPT !.controls["sast"] = "failure", !.trusted = FALSE,
                            !.eligible = FALSE, !.delegated = FALSE], Skipped),
    Delegated([Block EXCEPT !.controls["sast"] = "failure"], Approved),
    \* an approval inside the source gate's own job
    Delegated([Block EXCEPT !.result = "success", !.gateJob = "success",
                            !.delegated = FALSE], Skipped),
    [Plain EXCEPT !.run.phase = "pr"],
    [Plain EXCEPT !.run.strict = FALSE],
    [Plain EXCEPT !.run.exemptions = <<Exemption(0, "team"), Exemption(2, "team")>>],
    [Plain EXCEPT !.run.exemptions = <<Exemption(2, Unset)>>],
    [Plain EXCEPT !.run.capabilities.registry = "none"] }
\* The other run ships too, beside a run that may have been approved, or ends early.
OtherRun == [Plain EXCEPT !.image = Image("other-run", <<>>)]
MCDel ==
  {("one" :> d) @@ ("other" :> [OtherRun EXCEPT !.configured = FALSE]) : d \in MCDeliveries}
  \cup {("one" :> d) @@ ("other" :> OtherRun) : d \in {Plain, Delegated(Block, Approved)}}

-----------------------------------------------------------------------------
MachineInit ==
  /\ machine \in {"scan", "release"}
  /\ ScanInit /\ (machine # "scan" => checkout = Clean)
  /\ ReleaseInit /\ (machine # "release" => delivery = ("one" :> Plain) @@ ("other" :> OtherRun))

MachineNext ==
  \/ machine = "scan" /\ ScanNext /\ UNCHANGED <<machine, releaseVars>>
  \/ machine = "release" /\ ReleaseNext /\ UNCHANGED <<machine, scanVars>>

DeliverySpec == MachineInit /\ [][MachineNext]_<<machine, scanVars, releaseVars>>
=============================================================================
