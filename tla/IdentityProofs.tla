--------------------------- MODULE IdentityProofs ---------------------------
(***************************************************************************)
(* How a caller is known.  A token is accepted once, for every set of      *)
(* tokens and invocations and every clock skew and pause that the replay   *)
(* record's grace covers.  The key cache is sound for every schedule of the*)
(* issuer's keys, every number of callers and every choice of intervals; its*)
(* strengthening says what a cached key set, and one on its way, tell of the*)
(* issuer's keys.  And the commands that judge the account say only what   *)
(* they have seen, for every account, every policy in it, and any calls    *)
(* unanswered or changes by others meanwhile.                              *)
(***************************************************************************)
EXTENDS JwksCache, TokenLedger, AwsVerify, TLAPS

-----------------------------------------------------------------------------
(* The replay ledger.                                                      *)

LEMMA InitInv == LedgerInit => Inv
BY TokenAssumption DEF LedgerInit, Inv, LedgerTypeOK, AcceptedOnce

LEMMA VerifyInv ==
  ASSUME Inv, NEW i \in Invocations, Verify(i)
  PROVE  Inv'
<1>1. PICK clock \in time - MaxLag .. time + MaxLag :
        state' = [state EXCEPT ![i] = IF Valid(token[i], clock) THEN "verified" ELSE "rejected"]
  BY DEF Verify
<1>2. LedgerTypeOK'
  BY <1>1 DEF Verify, Inv, LedgerTypeOK
<1>3. state'[i] = "verified" => time < Expires[token[i]] + MaxLag
  BY <1>1, TokenAssumption DEF Valid, Inv, LedgerTypeOK
<1>4. QED
  BY <1>1, <1>2, <1>3 DEF Verify, Inv, LedgerTypeOK, AcceptedOnce

\* The put comes at most MaxPause after a verification whose clock was at most
\* MaxLag behind: within the grace, so an accepted token's record is still there.
LEMMA SpendInv ==
  ASSUME Inv, NEW i \in Invocations, Spend(i)
  PROVE  Inv'
<1>1. LedgerTypeOK'
  BY DEF Spend, Inv, LedgerTypeOK
<1>2. time <= Expires[token[i]] + Grace
  BY TokenAssumption, GraceAssumption DEF Spend, Alive, Inv, LedgerTypeOK
<1>3. ASSUME NEW j \in Invocations, state[j] = "accepted", token[j] = token[i]
      PROVE  token[i] \in records
  BY <1>2, <1>3, TokenAssumption DEF Inv, LedgerTypeOK
<1>4. AcceptedOnce'
  BY <1>3 DEF Spend, Inv, LedgerTypeOK, AcceptedOnce
<1>5. QED
  BY <1>1, <1>4 DEF Spend, Inv, LedgerTypeOK

LEMMA DeleteInv ==
  ASSUME Inv, NEW t \in Tokens, Delete(t)
  PROVE  Inv'
BY DEF Delete, Deletable, Inv, LedgerTypeOK, AcceptedOnce

LEMMA TickInv ==
  ASSUME Inv, Pass
  PROVE  Inv'
BY TokenAssumption DEF Pass, Inv, LedgerTypeOK, AcceptedOnce

\* The ledger's strengthened invariant (dynamodb-store.mjs consumeTokenId, with
\* the verifier's clock checks) holds in every reachable state.
THEOREM Ledger == LedgerSpec => []Inv
<1>1. ASSUME Inv, [LedgerNext]_ledgerVars
      PROVE  Inv'
  <2>1. CASE \E i \in Invocations : Verify(i) \/ Spend(i)
    BY <1>1, <2>1, VerifyInv, SpendInv
  <2>2. CASE \E t \in Tokens : Delete(t)
    BY <1>1, <2>2, DeleteInv
  <2>3. CASE Pass
    BY <1>1, <2>3, TickInv
  <2>4. CASE UNCHANGED ledgerVars
    BY <1>1, <2>4 DEF ledgerVars, Inv, LedgerTypeOK, AcceptedOnce
  <2>5. QED
    BY <1>1, <2>1, <2>2, <2>3, <2>4 DEF LedgerNext
<1>2. QED
  BY <1>1, InitInv, PTL DEF LedgerSpec

\* No two invocations ever have the same token accepted: consumeTokenId and the
\* record's ttl keep their promise under GraceAssumption.
THEOREM TokensAreAcceptedOnce == LedgerSpec => []AcceptedOnce
<1>1. Inv => AcceptedOnce
  BY DEF Inv
<1>2. QED
  BY <1>1, Ledger, PTL

-----------------------------------------------------------------------------
(* The key cache.                                                          *)

Clocks ==
  /\ fetchedAt <= now /\ lastAttemptAt <= now
  /\ \A c \in Callers : call[c].at <= now
  /\ inFlight => now <= lastAttemptAt + FetchTimeout

\* An answer on its way was given during the fetch.
BodyInv ==
  body.some =>
    /\ inFlight
    /\ \A k \in body.kids : From[k] <= now /\ lastAttemptAt < Until[k]
    /\ \A k \in Kids \ body.kids : lastAttemptAt < From[k] \/ Until[k] <= now

\* The cached keys were published at most one fetch before they arrived ...
KeysInv ==
  keys.some =>
    \A k \in keys.kids : From[k] <= fetchedAt /\ fetchedAt < Until[k] + FetchTimeout

\* ... and, after a fetch that ended well, are all the keys there were.
AttemptInv ==
  ~failed /\ ~inFlight =>
    IF keys.some
    THEN /\ lastAttemptAt <= fetchedAt
         /\ \A k \in Kids \ keys.kids : lastAttemptAt < From[k] \/ Until[k] <= fetchedAt
    ELSE lastAttemptAt = 0 - Ttl

IInv == TypeOK /\ Clocks /\ BodyInv /\ KeysInv /\ AttemptInv /\ WithdrawnKeysDie

LEMMA NoKeysFacts == NoKeys \in KeySet /\ NoKeys.some = FALSE
BY DEF NoKeys, KeySet

LEMMA KeySetFacts ==
  ASSUME NEW K \in KeySet
  PROVE  K.some \in BOOLEAN /\ K.kids \subseteq Kids
BY DEF KeySet

LEMMA InitIInv == Init => IInv
<1> SUFFICES ASSUME Init PROVE IInv
  OBVIOUS
<1>1. \A c \in Callers : call[c].state = "idle" /\ call[c].at = 0
  BY DEF Init
<1>2. call \in [Callers -> [state : {"idle", "waiting", "accepted", "unknown_kid", "unavailable"},
                           kid : Kids, at : Nat]]
  BY DEF Init
<1>3. TypeOK
  <2>1. /\ now = 0 /\ keys = NoKeys /\ fetchedAt = 0 /\ lastAttemptAt = 0 - Ttl
        /\ inFlight = FALSE /\ body = NoKeys /\ failed = FALSE
    BY DEF Init
  <2>2. 0 - Ttl \in Int
    BY JwksAssumption
  <2>3. /\ now \in Nat /\ fetchedAt \in Nat /\ lastAttemptAt \in Int
        /\ inFlight \in BOOLEAN /\ failed \in BOOLEAN
    BY <2>1, <2>2
  <2>4. keys \in KeySet /\ body \in KeySet
    BY <2>1, NoKeysFacts
  <2>5. QED
    BY <1>2, <2>3, <2>4, Zenon DEF TypeOK
<1>4. Clocks /\ BodyInv /\ KeysInv /\ AttemptInv
  BY <1>1, NoKeysFacts, JwksAssumption DEF Init, Clocks, BodyInv, KeysInv, AttemptInv
<1>5. WithdrawnKeysDie
  BY <1>1 DEF WithdrawnKeysDie
<1>6. QED
  BY <1>3, <1>4, <1>5 DEF IInv

\* What refresh does to the fetch, whether it joins one or begins one.
LEMMA RefreshFacts ==
  ASSUME IInv, Refresh, now' = now
  PROVE  /\ inFlight' = TRUE /\ body' \in KeySet /\ lastAttemptAt' \in Int
         /\ lastAttemptAt' <= now /\ now <= lastAttemptAt' + FetchTimeout
         /\ BodyInv'
<1>1. CASE inFlight
  BY <1>1 DEF Refresh, IInv, TypeOK, Clocks, BodyInv
<1>2. CASE ~inFlight
  <2>1. lastAttemptAt' = now /\ inFlight' = TRUE /\ body' = NoKeys
    BY <1>2 DEF Refresh
  <2>2. BodyInv'
    BY <2>1, NoKeysFacts DEF BodyInv
  <2>3. QED
    BY <2>1, <2>2, NoKeysFacts, JwksAssumption DEF IInv, TypeOK
<1>3. QED
  BY <1>1, <1>2

\* A caller that awaits the fetch, whatever became of the cached keys.
LEMMA WaitIInv ==
  ASSUME IInv, NEW c \in Callers, NEW k \in Kids,
         now' = now, fetchedAt' = fetchedAt, failed' = failed,
         Refresh, Step(c, "waiting", k), keys' \in KeySet, KeysInv'
  PROVE  IInv'
<1>1. /\ inFlight' = TRUE /\ body' \in KeySet /\ lastAttemptAt' \in Int
      /\ lastAttemptAt' <= now /\ now <= lastAttemptAt' + FetchTimeout
      /\ BodyInv'
  BY RefreshFacts
<1>2. call' = [call EXCEPT ![c] = [state |-> "waiting", kid |-> k, at |-> now]]
  BY DEF Step
<1>3. TypeOK'
  BY <1>1, <1>2 DEF IInv, TypeOK
<1>4. Clocks'
  BY <1>1, <1>2 DEF IInv, TypeOK, Clocks
<1>5. WithdrawnKeysDie'
  BY <1>2 DEF IInv, TypeOK, WithdrawnKeysDie
<1>6. AttemptInv'
  BY <1>1 DEF AttemptInv
<1>7. QED
  BY <1>1, <1>3, <1>4, <1>5, <1>6 DEF IInv

LEMMA GetKeyIInv ==
  ASSUME IInv, NEW c \in Callers, NEW k \in Kids, GetKey(c, k)
  PROVE  IInv'
<1>1. now' = now /\ fetchedAt' = fetchedAt /\ failed' = failed
  BY DEF GetKey
<1>2. CASE Stale /\ keys' = NoKeys /\ Refresh /\ Step(c, "waiting", k)
  <2>1. keys' \in KeySet /\ KeysInv'
    BY <1>2, NoKeysFacts DEF KeysInv
  <2>2. QED
    BY <1>1, <1>2, <2>1, WaitIInv
<1>3. CASE /\ ~Stale /\ k \in keys.kids
           /\ Step(c, "accepted", k) /\ UNCHANGED <<keys, lastAttemptAt, inFlight, body>>
  <2>1. From[k] <= now /\ now < Until[k] + Ttl + FetchTimeout
    BY <1>3, JwksAssumption DEF Stale, IInv, TypeOK, Clocks, KeysInv, KeySet
  <2>2. WithdrawnKeysDie'
    BY <1>3, <2>1 DEF Step, IInv, TypeOK, WithdrawnKeysDie
  <2>3. QED
    BY <1>1, <1>3, <2>2 DEF Step, IInv, TypeOK, Clocks, BodyInv, KeysInv, AttemptInv
<1>4. CASE /\ ~Stale /\ k \notin keys.kids /\ Throttled
           /\ Step(c, "unknown_kid", k) /\ UNCHANGED <<keys, lastAttemptAt, inFlight, body>>
  BY <1>1, <1>4
  DEF Step, IInv, TypeOK, Clocks, BodyInv, KeysInv, AttemptInv, WithdrawnKeysDie
<1>5. CASE /\ ~Stale /\ k \notin keys.kids /\ ~Throttled
           /\ Refresh /\ Step(c, "waiting", k) /\ UNCHANGED keys
  <2>1. keys' \in KeySet /\ KeysInv'
    BY <1>1, <1>5 DEF IInv, TypeOK, KeysInv
  <2>2. QED
    BY <1>1, <1>5, <2>1, WaitIInv
<1>6. QED
  BY <1>2, <1>3, <1>4, <1>5 DEF GetKey

LEMMA RespondIInv ==
  ASSUME IInv, Respond
  PROVE  IInv'
<1>1. body' \in KeySet /\ BodyInv'
  BY JwksAssumption DEF Respond, Keys, KeySet, Published, IInv, TypeOK, Clocks, BodyInv
<1>2. QED
  BY <1>1 DEF Respond, IInv, TypeOK, Clocks, KeysInv, AttemptInv, WithdrawnKeysDie

LEMMA LoadedIInv ==
  ASSUME IInv, Loaded
  PROVE  IInv'
<1>1. call' = [c \in Callers |->
                 IF call[c].state = "waiting"
                 THEN [state |-> IF call[c].kid \in body.kids
                                   THEN "accepted" ELSE "unknown_kid",
                       kid |-> call[c].kid, at |-> now]
                 ELSE call[c]]
  BY DEF Loaded, Resume
<1>2. TypeOK'
  BY <1>1 DEF Loaded, IInv, TypeOK, NoKeys, KeySet
<1>3. ASSUME NEW k \in body.kids
      PROVE  /\ From[k] <= now /\ now < Until[k] + FetchTimeout
             /\ now < Until[k] + Ttl + FetchTimeout
  <2>1. k \in Kids /\ Until[k] \in Nat
    BY <1>3, KeySetFacts, JwksAssumption DEF IInv, TypeOK
  <2>2. From[k] <= now /\ lastAttemptAt < Until[k] /\ now <= lastAttemptAt + FetchTimeout
    BY <1>3 DEF Loaded, IInv, Clocks, BodyInv
  <2>3. QED
    BY <2>1, <2>2, JwksAssumption DEF IInv, TypeOK
<1>4. WithdrawnKeysDie'
  BY <1>1, <1>3 DEF IInv, TypeOK, WithdrawnKeysDie
<1>5. KeysInv' /\ AttemptInv' /\ BodyInv'
  BY <1>3 DEF Loaded, IInv, Clocks, BodyInv, KeysInv, AttemptInv, NoKeys
<1>6. Clocks'
  <2>1. \A c \in Callers : call'[c].at <= now
    BY <1>1 DEF IInv, TypeOK, Clocks
  <2>2. fetchedAt' = now /\ now' = now /\ lastAttemptAt' = lastAttemptAt /\ inFlight' = FALSE
    BY DEF Loaded
  <2>3. QED
    BY <2>1, <2>2 DEF IInv, TypeOK, Clocks
<1>7. QED
  BY <1>2, <1>4, <1>5, <1>6 DEF IInv

LEMMA LoadFailedIInv ==
  ASSUME IInv, LoadFailed
  PROVE  IInv'
<1>1. call' = [c \in Callers |->
                 IF call[c].state = "waiting"
                 THEN [state |-> "unavailable", kid |-> call[c].kid, at |-> now]
                 ELSE call[c]]
  BY DEF LoadFailed, Resume
<1>2. TypeOK' /\ Clocks' /\ WithdrawnKeysDie'
  <2>1. TypeOK'
    BY <1>1, NoKeysFacts DEF LoadFailed, IInv, TypeOK
  <2>2. \A c \in Callers : call'[c].at <= now
    BY <1>1 DEF IInv, TypeOK, Clocks
  <2>3. Clocks'
    BY <2>2 DEF LoadFailed, IInv, TypeOK, Clocks
  <2>4. WithdrawnKeysDie'
    BY <1>1 DEF IInv, TypeOK, WithdrawnKeysDie
  <2>5. QED
    BY <2>1, <2>3, <2>4
<1>3. QED
  BY <1>2 DEF LoadFailed, IInv, BodyInv, KeysInv, AttemptInv, NoKeys

LEMMA TickIInv ==
  ASSUME IInv, Tick
  PROVE  IInv'
<1>1. TypeOK' /\ Clocks' /\ KeysInv' /\ AttemptInv' /\ WithdrawnKeysDie'
  BY DEF Tick, cache, IInv, TypeOK, Clocks, KeysInv, AttemptInv, WithdrawnKeysDie
<1>2. BodyInv'
  BY JwksAssumption DEF Tick, cache, IInv, TypeOK, BodyInv, KeySet
<1>3. QED
  BY <1>1, <1>2 DEF IInv

LEMMA NextIInv ==
  ASSUME IInv, [Next]_vars
  PROVE  IInv'
<1>1. CASE \E c \in Callers, k \in Kids : GetKey(c, k)
  BY <1>1, GetKeyIInv
<1>2. CASE UNCHANGED vars
  BY <1>2 DEF vars, IInv, TypeOK, Clocks, BodyInv, KeysInv, AttemptInv, WithdrawnKeysDie
<1>3. QED
  BY <1>1, <1>2, RespondIInv, LoadedIInv, LoadFailedIInv, TickIInv DEF Next

\* The cache's inductive invariant (createJwksCache).
THEOREM CacheInv == Spec => []IInv
BY InitIInv, NextIInv, PTL DEF Spec

\* While fetches succeed they are MinRefreshInterval apart: the throttle on
\* unknown kids and the time to live together bound what tokens can cause.
THEOREM Spacing == Spec => FetchesAreSpaced
<1>1. ASSUME IInv, [Next]_vars, lastAttemptAt' # lastAttemptAt, ~failed
      PROVE  lastAttemptAt' - lastAttemptAt >= MinRefreshInterval
  <2>1. PICK c \in Callers, k \in Kids : GetKey(c, k)
    BY <1>1 DEF Next, Respond, Loaded, LoadFailed, Tick, cache, vars
  <2>2. ~inFlight /\ lastAttemptAt' = now
    BY <1>1, <2>1 DEF GetKey, Refresh
  <2>3. Stale \/ ~Throttled
    BY <1>1, <2>1 DEF GetKey
  <2>4. CASE ~Throttled
    BY <1>1, <2>2, <2>4, JwksAssumption DEF Throttled, IInv, TypeOK
  <2>5. CASE Stale
    BY <1>1, <2>2, <2>5, JwksAssumption, IntervalAssumption
    DEF Stale, IInv, TypeOK, Clocks, AttemptInv
  <2>6. QED
    BY <2>3, <2>4, <2>5
<1>2. IInv /\ [Next]_vars
        => [lastAttemptAt' # lastAttemptAt /\ ~failed
              => lastAttemptAt' - lastAttemptAt >= MinRefreshInterval]_vars
  BY <1>1
<1>3. QED
  BY <1>2, CacheInv, PTL DEF Spec, FetchesAreSpaced

\* A kid that the issuer publishes is called unknown only just after it was
\* published, or around a fetch that failed or is not back.
THEOREM RotationIsSeen == Spec => RotatedKeysAreFound
<1> DEFINE Excused(k) == \/ now < From[k] + MinRefreshInterval
                         \/ now <= From[k] + FetchTimeout
                         \/ failed' \/ inFlight'
<1>1. ASSUME IInv, [Next]_vars, NEW c \in Callers, call'[c] # call[c],
             call'[c].state = "unknown_kid", call'[c].kid \in Published
      PROVE  Excused(call'[c].kid)
  <2> DEFINE k == call'[c].kid
  <2>1. k \in Kids /\ From[k] <= now /\ now < Until[k] /\ From[k] \in Nat /\ Until[k] \in Nat
    BY <1>1, JwksAssumption DEF Published
  <2>2. CASE \E d \in Callers, l \in Kids : GetKey(d, l)
    <3>1. PICK d \in Callers, l \in Kids : GetKey(d, l)
      BY <2>2
    <3>2. PICK s : s \in {"waiting", "accepted", "unknown_kid"} /\ Step(d, s, l)
      BY <3>1 DEF GetKey
    <3>3. c = d /\ k = l /\ s = "unknown_kid"
      BY <1>1, <3>2 DEF Step, IInv, TypeOK
    <3>4. /\ ~Stale /\ k \notin keys.kids /\ Throttled
          /\ inFlight' = inFlight /\ failed' = failed
      BY <1>1, <3>1, <3>3 DEF GetKey, Step, IInv, TypeOK
    <3>5. QED
      BY <1>1, <2>1, <3>4, JwksAssumption
      DEF Stale, Throttled, IInv, TypeOK, Clocks, AttemptInv
  <2>3. CASE Loaded
    <3>1. k \notin body.kids /\ body.some /\ inFlight
      BY <1>1, <2>3 DEF Loaded, Resume, IInv, TypeOK
    <3>2. QED
      BY <1>1, <2>1, <3>1, JwksAssumption DEF IInv, TypeOK, Clocks, BodyInv
  <2>4. CASE LoadFailed
    BY <2>4 DEF LoadFailed
  <2>5. QED
    BY <1>1, <2>2, <2>3, <2>4 DEF Next, Respond, Tick, vars
<1>2. IInv /\ [Next]_vars
        => [\A c \in Callers :
              LET k == call'[c].kid IN
              /\ call'[c] # call[c] /\ call'[c].state = "unknown_kid"
              /\ k \in Published
              => \/ now < From[k] + MinRefreshInterval
                 \/ now <= From[k] + FetchTimeout
                 \/ failed' \/ inFlight']_vars
  BY <1>1
<1>3. QED
  BY <1>2, CacheInv, PTL DEF Spec, RotatedKeysAreFound

\* No caller is given a key that was withdrawn more than Ttl + FetchTimeout ago.
THEOREM NoWithdrawnKey == Spec => []WithdrawnKeysDie
<1>1. IInv => WithdrawnKeysDie
  BY DEF IInv
<1>2. QED
  BY <1>1, CacheInv, PTL

-----------------------------------------------------------------------------
(* Findings and checks.                                                    *)

Clean(findings) == "FAIL" \notin findings /\ "NOT VERIFIED" \notin findings
Passes(c) == c.status # "FAIL" /\ (c.status = "NOT VERIFIED" => ~c.required)

LEMMA WorstFails ==
  ASSUME NEW findings, "FAIL" \in findings
  PROVE  Worst(findings) = "FAIL"
<1>1. \A t \in findings \cup {"PASS"} : Outranks("FAIL", t)
  BY DEF Outranks
<1>2. \A s \in findings \cup {"PASS"} : Outranks(s, "FAIL") => s = "FAIL"
  BY DEF Outranks
<1>3. QED
  BY <1>1, <1>2 DEF Worst

LEMMA WorstOpen ==
  ASSUME NEW findings, findings \subseteq Severities, "NOT VERIFIED" \in findings
  PROVE  Worst(findings) \in {"FAIL", "NOT VERIFIED"}
<1>1. CASE "FAIL" \in findings
  BY <1>1, WorstFails
<1>2. CASE "FAIL" \notin findings
  <2>1. \A t \in findings : Outranks("NOT VERIFIED", t)
    BY <1>2 DEF Outranks, Severities
  <2>2. \A s \in findings \cup {"PASS"} :
          Outranks(s, "NOT VERIFIED") => s \in {"FAIL", "NOT VERIFIED"}
    BY DEF Outranks
  <2>3. QED
    BY <2>1, <2>2 DEF Worst
<1>3. QED
  BY <1>1, <1>2

LEMMA WorstMild ==
  ASSUME NEW findings, findings \subseteq Severities, Clean(findings)
  PROVE  Worst(findings) \in {"PASS", "WARN"}
<1>1. findings \subseteq {"PASS", "WARN"}
  BY DEF Clean, Severities
<1>2. \E s \in findings \cup {"PASS"} : \A t \in findings : Outranks(s, t)
  <2>1. CASE "WARN" \in findings
    BY <1>1, <2>1 DEF Outranks
  <2>2. CASE "WARN" \notin findings
    <3>1. \A t \in findings : t = "PASS"
      BY <1>1, <2>2
    <3>2. \A t \in findings : Outranks("PASS", t)
      BY <3>1 DEF Outranks
    <3>3. QED
      BY <3>2
  <2>3. QED
    BY <2>1, <2>2
<1>3. Worst(findings) \in findings \cup {"PASS"}
  BY <1>2 DEF Worst
<1>4. QED
  BY <1>1, <1>3

LEMMA RequiredPasses ==
  ASSUME NEW findings, findings \subseteq Severities
  PROVE  Passes(Check(findings, TRUE)) <=> Clean(findings)
<1>1. ASSUME Clean(findings) PROVE Passes(Check(findings, TRUE))
  BY <1>1, WorstMild DEF Passes, Check
<1>2. ASSUME ~Clean(findings) PROVE ~Passes(Check(findings, TRUE))
  BY <1>2, WorstFails, WorstOpen DEF Passes, Check, Clean
<1>3. QED
  BY <1>1, <1>2

LEMMA OptionalPasses ==
  ASSUME NEW findings, findings \subseteq Severities, "FAIL" \notin findings
  PROVE  Passes(Check(findings, FALSE))
<1>1. CASE "NOT VERIFIED" \in findings
  <2>1. \E s \in findings \cup {"PASS"} : \A t \in findings : Outranks(s, t)
    BY <1>1 DEF Outranks, Severities
  <2>2. Worst(findings) \in findings \cup {"PASS"}
    BY <2>1 DEF Worst
  <2>3. QED
    BY <2>2 DEF Passes, Check
<1>2. CASE "NOT VERIFIED" \notin findings
  BY <1>2, WorstMild DEF Passes, Check, Clean
<1>3. QED
  BY <1>1, <1>2

LEMMA SuccessMeansPasses ==
  ASSUME NEW checks
  PROVE  OutcomeOf(checks) \in {0, 1} /\ (OutcomeOf(checks) = 0 <=> \A c \in checks : Passes(c))
<1>1. CASE \A c \in checks : Passes(c)
  BY <1>1 DEF OutcomeOf, Passes
<1>2. ASSUME NEW c \in checks, ~Passes(c)
      PROVE  OutcomeOf(checks) = 1
  BY <1>2 DEF OutcomeOf, Passes
<1>3. QED
  BY <1>1, <1>2

-----------------------------------------------------------------------------
(* Trust.                                                                  *)

LEMMA EntryExact ==
  ASSUME NEW e, NEW context, "FAIL" \notin EntryFindings(e, context)
  PROVE  \A v \in e.values : /\ ~(e.op = "StringLike" /\ Wild(e.key, v))
                             /\ "FAIL" \notin ClassifyValue(e.key, v, context)
BY DEF EntryFindings

\* An acceptable entry for the audience lets nothing else in.
LEMMA AudienceExact ==
  ASSUME NEW e, NEW context, e.key = "aud", "FAIL" \notin EntryFindings(e, context),
         NEW aud, AudSatisfies(e, aud)
  PROVE  aud = "sts"
<1>1. PICK v \in e.values : Component(e.op, v, aud)
  BY DEF AudSatisfies
<1>2. v = "sts" /\ ~(e.op = "StringLike" /\ v = "*")
  BY EntryExact DEF Wild, ClassifyValue, When
<1>3. QED
  BY <1>1, <1>2 DEF Component

\* An acceptable entry for the subject lets nothing else in.
LEMMA SubjectExact ==
  ASSUME NEW e, NEW context, e.key = "sub", "FAIL" \notin EntryFindings(e, context),
         NEW s, SubSatisfies(e, s)
  PROVE  s.repo # "other" /\ s.context = context
<1>1. PICK v \in e.values : Component(e.op, v.repo, s.repo) /\ Component(e.op, v.context, s.context)
  BY DEF SubSatisfies
<1>2. /\ ~(e.op = "StringLike" /\ (v.repo = "*" \/ v.context = "*"))
      /\ "FAIL" \notin ClassifySubject(v, context)
  BY EntryExact DEF Wild, ClassifyValue
<1>3. v.repo \in {"ours", "OURS", "ours-by-id", "others-by-id"} /\ v.context = context
  BY <1>2 DEF ClassifySubject, When
<1>4. QED
  BY <1>1, <1>2, <1>3 DEF Component

\* A key without an acceptable entry is a failure.
LEMMA BoundToEntry ==
  ASSUME NEW entries, NEW context, "FAIL" \notin BoundKey(entries, context).findings
  PROVE  \E e \in entries : "FAIL" \notin EntryFindings(e, context)
<1> DEFINE acceptable == {e \in entries : "FAIL" \notin EntryFindings(e, context)}
           all == UNION {EntryFindings(e, context) : e \in entries}
<1>1. CASE acceptable = {}
  <2>1. BoundKey(entries, context).findings = {"FAIL"} \cup all
    BY <1>1 DEF BoundKey
  <2>2. QED
    BY <2>1
<1>2. QED
  BY <1>1

\* A statement that evaluates without failure admits only the intended runs.
LEMMA AdmitsIntended ==
  ASSUME NEW stmt, NEW context, "FAIL" \notin EvaluateOidcStatement(stmt, context).findings,
         NEW aud, NEW s, NEW other, AdmitsToken(stmt, aud, s, other)
  PROVE  aud = "sts" /\ s.repo # "other" /\ s.context = context
<1> DEFINE known == {e \in stmt.entries : e.op \in Supported}
           audience == {e \in known : e.key = "aud"}
           subject == {e \in known : e.key = "sub"}
<1>1. /\ "FAIL" \notin BoundKey(audience, context).findings
      /\ "FAIL" \notin BoundKey(subject, context).findings
  BY DEF EvaluateOidcStatement
<1>2. PICK a \in audience : "FAIL" \notin EntryFindings(a, context)
  BY <1>1, BoundToEntry
<1>3. PICK b \in subject : "FAIL" \notin EntryFindings(b, context)
  BY <1>1, BoundToEntry
<1>4. AudSatisfies(a, aud) /\ SubSatisfies(b, s)
  BY <1>2, <1>3 DEF AdmitsToken
<1>5. QED
  BY <1>2, <1>3, <1>4, AudienceExact, SubjectExact

\* For every trust policy: no failure means that only intended runs assume the role.
LEMMA TrustIsBounded ==
  ASSUME NEW trust, NEW context, "FAIL" \notin EvaluateTrust(trust, context)
  PROVE  OnlyIntended(trust, context)
<1>1. \A stmt \in trust : "FAIL" \notin StatementFindings(stmt, context)
  BY DEF EvaluateTrust
<1>2. ASSUME NEW stmt \in trust, stmt.effect = "Allow"
      PROVE  /\ stmt.evaluated
             /\ stmt.actions # {} => "FAIL" \notin PrincipalFindings(stmt)
             /\ TrustsProvider(stmt) =>
                  "FAIL" \notin EvaluateOidcStatement(stmt, context).findings
  <2>1. "FAIL" \notin StatementFindings(stmt, context)
    BY <1>1
  <2>2. stmt.evaluated
    BY <1>2, <2>1 DEF StatementFindings
  <2>3. CASE stmt.actions = {}
    BY <2>2, <2>3 DEF TrustsProvider
  <2>4. CASE stmt.actions # {}
    <3>1. StatementFindings(stmt, context) =
            PrincipalFindings(stmt)
            \cup IF TrustsProvider(stmt) THEN EvaluateOidcStatement(stmt, context).findings
                 ELSE {}
      BY <1>2, <2>2, <2>4 DEF StatementFindings
    <3>2. QED
      BY <2>1, <2>2, <3>1
  <2>5. QED
    BY <2>3, <2>4
<1>3. \A stmt \in trust : stmt.effect = "Allow" /\ stmt.actions # {} =>
        stmt.principals \cap {"anyone", "other-account", "other-provider"} = {}
  BY <1>2 DEF PrincipalFindings, When
<1>4. ASSUME NEW aud, NEW s, NEW other, NEW stmt \in trust,
             stmt.effect = "Allow", AdmitsToken(stmt, aud, s, other)
      PROVE  aud = "sts" /\ s.repo # "other" /\ s.context = context
  <2>1. "web-identity" \in stmt.actions /\ stmt.principals \cap {"provider", "anyone"} # {}
    BY <1>4 DEF AdmitsToken
  <2>2. "anyone" \notin stmt.principals
    BY <1>3, <1>4, <2>1
  <2>3. TrustsProvider(stmt)
    BY <1>2, <1>4, <2>1, <2>2 DEF TrustsProvider
  <2>4. QED
    BY <1>2, <1>4, <2>3, AdmitsIntended
<1>5. QED
  BY <1>3, <1>4 DEF OnlyIntended, Assumes

\* The generated trust policy is found sound.
LEMMA GeneratedTrust ==
  ASSUME NEW context \in Contexts
  PROVE  EvaluateTrust(BuildTrust(context), context) = {}
<1> DEFINE a == Entry("StringEquals", "aud", {"sts"})
           ours == Subject("ours", context)
           b == Entry("StringEquals", "sub", {ours})
           stmt == [effect |-> "Allow", evaluated |-> TRUE, principals |-> {"provider"},
                    actions |-> {"web-identity"}, entries |-> {a, b}]
<1>1. BuildTrust(context) = {stmt}
  BY DEF BuildTrust
<1>2. /\ a.op = "StringEquals" /\ a.key = "aud" /\ a.values = {"sts"}
      /\ b.op = "StringEquals" /\ b.key = "sub" /\ b.values = {ours}
      /\ ours.repo = "ours" /\ ours.context = context
  BY DEF Entry, Subject
<1>3. EntryFindings(a, context) = {} /\ EntryFindings(b, context) = {}
  <2>1. EntryFindings(a, context) = {}
    BY <1>2 DEF EntryFindings, ClassifyValue, When
  <2>2. ClassifySubject(ours, context) = {}
    BY <1>2 DEF ClassifySubject, When
  <2>3. EntryFindings(b, context) = {}
    BY <1>2, <2>2 DEF EntryFindings, ClassifyValue, When
  <2>4. QED
    BY <2>1, <2>3
<1> HIDE DEF a, b, ours
<1>4. ASSUME NEW e \in {a, b}
      PROVE  BoundKey({e}, context) = [bounded |-> TRUE, findings |-> {}]
  <2>1. {x \in {e} : "FAIL" \notin EntryFindings(x, context)} = {e} /\ e.op # "StringLike"
    BY <1>2, <1>3
  <2>2. QED
    BY <1>3, <2>1 DEF BoundKey, When
<1>5. /\ {x \in stmt.entries : x.op \in Supported} = stmt.entries
      /\ {x \in stmt.entries : x.key = "aud"} = {a}
      /\ {x \in stmt.entries : x.key = "sub"} = {b}
  BY <1>2 DEF Supported
<1>6. AudSatisfies(a, "sts") /\ SubSatisfies(b, ours)
  BY <1>2 DEF AudSatisfies, SubSatisfies, Component
<1>7. /\ EvaluateOidcStatement(stmt, context).findings = {}
      /\ EvaluateOidcStatement(stmt, context).reachable
  <2>1. \A e \in stmt.entries : e.key \in {"aud", "sub"} /\ e.op \in Supported
    BY <1>2 DEF Supported
  <2>2. ours \in {Subject("ours", context)}
    BY DEF ours
  <2> DEFINE known == {x \in stmt.entries : x.op \in Supported}
             audience == {x \in known : x.key = "aud"}
             subject == {x \in known : x.key = "sub"}
             exact == UNION {x.values : x \in subject}
             candidates == {Subject("ours", context)}
               \cup {v \in exact : ~Wild("sub", v) /\ "FAIL" \notin ClassifySubject(v, context)}
  <2>3. known = stmt.entries /\ audience = {a} /\ subject = {b}
    BY <1>5
  <2>4. ours \in candidates
    BY <2>2
  <2> HIDE DEF stmt
  <2>5. EvaluateOidcStatement(stmt, context) =
          [findings |-> When(known # stmt.entries, "FAIL")
              \cup When(\E e \in known : e.key \notin {"aud", "sub"}, "WARN")
              \cup BoundKey(audience, context).findings \cup BoundKey(subject, context).findings,
           reachable |-> /\ BoundKey(audience, context).bounded
                         /\ BoundKey(subject, context).bounded
                         /\ \A e \in audience : AudSatisfies(e, "sts")
                         /\ \E x \in candidates : \A e \in subject : SubSatisfies(e, x)]
    BY Zenon DEF EvaluateOidcStatement
  <2> HIDE DEF known, audience, subject, candidates
  <2>6. /\ BoundKey(audience, context) = [bounded |-> TRUE, findings |-> {}]
        /\ BoundKey(subject, context) = [bounded |-> TRUE, findings |-> {}]
    BY <1>4, <2>3
  <2>7. ~ \E e \in known : e.key \notin {"aud", "sub"}
    BY <2>1, <2>3
  <2>8. QED
    BY <1>6, <2>3, <2>4, <2>5, <2>6, <2>7 DEF When
<1>8. TrustsProvider(stmt) /\ PrincipalFindings(stmt) = {}
  BY DEF TrustsProvider, PrincipalFindings, When
<1>9. StatementFindings(stmt, context) = {}
  BY <1>7, <1>8 DEF StatementFindings
<1>10. QED
  BY <1>1, <1>7, <1>8, <1>9 DEF EvaluateTrust

-----------------------------------------------------------------------------
(* Permissions.                                                            *)

\* What the documents do not grant, not even conditionally, is never effective.
LEMMA UngrantedIsIneffective ==
  ASSUME NEW role, NEW u, NEW held \in BOOLEAN,
         Grants(role.policies, u) \notin {"allowed", "conditional"}
  PROVE  ~Effective(role, u, held)
<1> DEFINE matching == {stmt \in role.policies : Matches(stmt, u)}
           denies == {stmt \in matching : stmt.effect = "Deny"}
           allows == matching \ denies
<1>1. CASE \E d \in denies : ~d.conditional
  BY <1>1 DEF Effective
<1>2. CASE ~ \E d \in denies : ~d.conditional
  <2>1. allows = {}
    BY <1>2, Zenon DEF Grants
  <2>2. QED
    BY <2>1 DEF Effective
<1>3. QED
  BY <1>1, <1>2

\* What the simulator denies, and not for want of a condition's value, is never effective.
LEMMA DenialIsProof ==
  ASSUME NEW role, NEW u, NEW held \in BOOLEAN, ProvenDenied(Simulated(role, u))
  PROVE  ~Effective(role, u, held)
<1>1. CASE \E d \in role.policies : Matches(d, u) /\ d.effect = "Deny" /\ ~d.conditional
  BY <1>1 DEF Effective
<1>2. CASE ~ \E d \in role.policies : Matches(d, u) /\ d.effect = "Deny" /\ ~d.conditional
  <2>1. /\ ~Effective(role, u, FALSE)
        /\ ~ \E stmt \in role.policies : Matches(stmt, u) /\ stmt.conditional
    BY <1>2 DEF ProvenDenied, Simulated
  <2>2. {stmt \in role.policies : Matches(stmt, u) /\ (stmt.conditional => held)}
          = {stmt \in role.policies : Matches(stmt, u) /\ (stmt.conditional => FALSE)}
    BY <2>1
  <2>3. QED
    BY <2>1, <2>2 DEF Effective
<1>3. QED
  BY <1>1, <1>2

LEMMA AllowedIsEffective ==
  ASSUME NEW role, NEW u, Simulated(role, u).decision = "allowed"
  PROVE  Effective(role, u, FALSE)
BY DEF Simulated

LEMMA BreadthBounds ==
  ASSUME NEW k, NEW role, NEW complete, Clean(Breadth(k, role.policies, complete))
  PROVE  complete /\ Bounded(role, FailingUses(Forbidden(k)))
<1>1. complete
  BY DEF Clean, Breadth, When
<1>2. ASSUME NEW u \in FailingUses(Forbidden(k))
      PROVE  Grants(role.policies, u) \notin {"allowed", "conditional"}
  <2>1. PICK p \in Forbidden(k) : p[1] = u /\ p[2] = "FAIL"
    BY DEF FailingUses
  <2>2. Grants(role.policies, u) \in {"allowed", "conditional"} =>
          "FAIL" \in Breadth(k, role.policies, complete)
    BY <2>1 DEF Breadth
  <2>3. QED
    BY <2>2 DEF Clean
<1>3. QED
  BY <1>1, <1>2, UngrantedIsIneffective DEF Bounded

Units(k, enhanced) == {r[1] : r \in Required(k, enhanced)}
Knowledge == {"yes", "no", "unknown"}
RoleKinds == {"push", "deploy", "instance"}

LEMMA PairFields ==
  ASSUME NEW a, NEW x, NEW s, NEW p, p = <<On(a, x), s>>
  PROVE  p[1] = On(p[1].action, p[1].resource) /\ p[2] = s
<1>1. p[1] = On(a, x) /\ p[2] = s
  OBVIOUS
<1>2. On(a, x).action = a /\ On(a, x).resource = x
  BY DEF On
<1>3. QED
  BY <1>1, <1>2

LEMMA ProbesAre ==
  ASSUME NEW k \in RoleKinds, NEW p \in DeniedProbes(k)
  PROVE  p[1] = On(p[1].action, p[1].resource) /\ p[2] \in Severities
<1>1. \/ p = <<On("send", "instance"), "FAIL">> \/ p = <<On("push", "other-repository"), "FAIL">>
      \/ p = <<On("pass-role", "account"), "FAIL">> \/ p = <<On("push", "repository"), "FAIL">>
      \/ p = <<On("send", "other-instance"), "FAIL">>
      \/ p = <<On("send", "other-document"), "WARN">>
      \/ p = <<On("push", "repository"), "WARN">>
      \/ p = <<On("assume-role", "other-role"), "FAIL">>
      \/ p = <<On("rewrite", "self"), "FAIL">> \/ p = <<On("set-scanning", "account"), "FAIL">>
  <2>1. p \in Forbidden(k) \/ p \in {<<On("assume-role", "other-role"), "FAIL">>,
          <<On("rewrite", "self"), "FAIL">>, <<On("set-scanning", "account"), "FAIL">>}
    BY DEF DeniedProbes
  <2>2. QED
    BY <2>1 DEF Forbidden, RoleKinds
<1>2. QED
  <2> HIDE DEF On
  <2>1. \A a, x, s : p = <<On(a, x), s>> =>
          p[1] = On(p[1].action, p[1].resource) /\ p[2] = s
    BY PairFields
  <2>2. QED
    BY <1>1, <2>1, ZenonT(30) DEF Severities

LEMMA UnitsTyped ==
  ASSUME NEW k \in RoleKinds, NEW enhanced \in Knowledge
  PROVE  /\ \A u \in Units(k, enhanced) : u = On(u.action, u.resource) /\ u.action \in Actions
         /\ \A p \in DeniedProbes(k) : p[1] \notin Units(k, enhanced)
                                       /\ p[1] = On(p[1].action, p[1].resource)
                                       /\ p[2] \in Severities
         /\ Forbidden(k) \subseteq DeniedProbes(k)
         /\ \A r \in Required(k, enhanced) : r[2] \in {Certain, Possible}
         /\ Required(k, "no") \subseteq Required(k, enhanced)
<1> USE DEF RoleKinds, Knowledge, Required, On
<1>1. \A u \in Units(k, enhanced) : u = On(u.action, u.resource) /\ u.action \in Actions
  BY DEF Units, Actions
<1>2. ASSUME NEW p \in DeniedProbes(k)
      PROVE  p[1] = On(p[1].action, p[1].resource) /\ p[2] \in Severities
  BY ProbesAre
<1>3. \A p \in DeniedProbes(k), r \in Required(k, enhanced) : p[1] # r[1]
  <2>1. CASE k = "push"
    BY <2>1 DEF DeniedProbes, Forbidden
  <2>2. CASE k = "deploy"
    BY <2>2 DEF DeniedProbes, Forbidden
  <2>3. CASE k = "instance"
    BY <2>3 DEF DeniedProbes, Forbidden
  <2>4. QED
    BY <2>1, <2>2, <2>3
<1>4. Forbidden(k) \subseteq DeniedProbes(k)
  BY DEF DeniedProbes
<1>5. \A r \in Required(k, enhanced) : r[2] \in {Certain, Possible}
  BY DEF Certain, Possible
<1>6. Required(k, "no") \subseteq Required(k, enhanced)
  OBVIOUS
<1>7. QED
  BY <1>1, <1>2, <1>3, <1>4, <1>5, <1>6 DEF Units

\* The generated policy matches what the role is for, and nothing else.
LEMMA GeneratedPolicy ==
  ASSUME NEW k \in RoleKinds, NEW enhanced \in Knowledge
  PROVE  /\ \A stmt \in RolePolicy(k, enhanced) :
              stmt.effect = "Allow" /\ Direct(stmt) /\ ~stmt.conditional
         /\ \A u : u = On(u.action, u.resource) =>
              ((\E stmt \in RolePolicy(k, enhanced) : Matches(stmt, u))
                 <=> u \in Units(k, enhanced))
         /\ Administrators(RolePolicy(k, enhanced)) = {}
<1> DEFINE units == Units(k, enhanced)
           stmtOf(x) == [effect |-> "Allow",
                         actions |-> {u.action : u \in {v \in units : v.resource = x}},
                         butActions |-> FALSE, resources |-> {x}, butResources |-> FALSE,
                         conditional |-> FALSE]
<1>1. RolePolicy(k, enhanced) = {stmtOf(x) : x \in {u.resource : u \in units}}
  BY DEF RolePolicy, Units
<1>2. \A u, v \in units : u.action = v.action /\ u.resource = v.resource => u = v
  BY UnitsTyped
<1>3. \A u \in units : u = On(u.action, u.resource)
  BY UnitsTyped
<1> HIDE DEF units
<1>4. \A stmt \in RolePolicy(k, enhanced) :
        stmt.effect = "Allow" /\ Direct(stmt) /\ ~stmt.conditional
  BY <1>1 DEF Direct
<1>5. ASSUME NEW u, u = On(u.action, u.resource)
      PROVE  (\E stmt \in RolePolicy(k, enhanced) : Matches(stmt, u)) <=> u \in units
  <2>1. \A x : Matches(stmtOf(x), u) <=>
          u.resource = x /\ \E v \in units : v.resource = x /\ v.action = u.action
    BY DEF Matches, Covers
  <2>2. ASSUME NEW v \in units, v.resource = u.resource, v.action = u.action
        PROVE  v = u
    BY <1>3, <1>5, <2>2
  <2> HIDE DEF stmtOf
  <2>3. ASSUME u \in units PROVE \E stmt \in RolePolicy(k, enhanced) : Matches(stmt, u)
    BY <1>1, <2>1, <2>3
  <2>4. ASSUME NEW stmt \in RolePolicy(k, enhanced), Matches(stmt, u) PROVE u \in units
    BY <1>1, <2>1, <2>2, <2>4
  <2>5. QED
    BY <2>3, <2>4
<1>6. Administrators(RolePolicy(k, enhanced)) = {}
  <2>1. \A x : stmtOf(x).resources # Resources /\ ~stmtOf(x).butActions
    BY DEF Resources
  <2> HIDE DEF stmtOf
  <2>2. QED
    BY <1>1, <2>1 DEF Administrators
<1>7. QED
  BY <1>4, <1>5, <1>6 DEF units

\* So a role that was generated does what it is for, and nothing that it must not do.
LEMMA GeneratedRole ==
  ASSUME NEW role, NEW k \in RoleKinds, NEW enhanced \in Knowledge,
         role.policies = RolePolicy(k, enhanced), role.boundary = Actions
  PROVE  /\ \A r \in Required(k, enhanced) :
              /\ Simulated(role, r[1]).decision = "allowed"
              /\ Grants(role.policies, r[1]) = "allowed"
         /\ \A p \in DeniedProbes(k) :
              /\ Simulated(role, p[1]).decision = "implicitDeny"
              /\ ~Simulated(role, p[1]).missing
              /\ Grants(role.policies, p[1]) = "not-granted"
         /\ Administrators(role.policies) = {}
<1>1. \A stmt \in role.policies : stmt.effect = "Allow" /\ Direct(stmt) /\ ~stmt.conditional
  BY GeneratedPolicy
<1>2. ASSUME NEW u, u \in Units(k, enhanced)
      PROVE  Simulated(role, u).decision = "allowed" /\ Grants(role.policies, u) = "allowed"
  <2>1. PICK stmt \in role.policies : Matches(stmt, u)
    BY <1>2, GeneratedPolicy, UnitsTyped
  <2>2. u.action \in Actions
    BY <1>2, UnitsTyped
  <2>3. Effective(role, u, FALSE)
    BY <1>1, <2>1, <2>2 DEF Effective
  <2>4. Simulated(role, u).decision = "allowed"
    BY <1>1, <2>3 DEF Simulated
  <2>5. Grants(role.policies, u) = "allowed"
    BY <1>1, <2>1 DEF Grants
  <2>6. QED
    BY <2>4, <2>5
<1>3. ASSUME NEW p \in DeniedProbes(k)
      PROVE  /\ Simulated(role, p[1]).decision = "implicitDeny"
             /\ ~Simulated(role, p[1]).missing
             /\ Grants(role.policies, p[1]) = "not-granted"
  <2>1. ~ \E stmt \in role.policies : Matches(stmt, p[1])
    BY GeneratedPolicy, UnitsTyped
  <2>2. ~Effective(role, p[1], FALSE)
    BY <2>1 DEF Effective
  <2>3. QED
    BY <2>1, <2>2 DEF Simulated, Grants
<1>4. QED
  BY <1>2, <1>3, GeneratedPolicy DEF Units

-----------------------------------------------------------------------------
(* What a passing check has seen.                                          *)

RunTyped ==
  /\ run.command \in {"doctor", "verify"} /\ run.managed \in Managed
  /\ run.environment \in BOOLEAN

LEMMA NoFailure ==
  ASSUME NEW findings, NEW required, Passes(Check(findings, required))
  PROVE  "FAIL" \notin findings
BY WorstFails DEF Passes, Check

LEMMA EnhancedKnown == Enhanced \in Knowledge
BY DEF Enhanced, Knowledge

LEMMA DeliveryKinds == DeliveryRoles \subseteq RoleKinds
BY DEF DeliveryRoles, RoleKinds

LEMMA BreadthTyped ==
  ASSUME NEW k \in RoleKinds, NEW stmts, NEW complete
  PROVE  Breadth(k, stmts, complete) \subseteq Severities
<1>1. \A p \in Forbidden(k) : p[2] \in Severities
  BY ProbesAre DEF DeniedProbes
<1>2. When(Administrators(stmts) # {}, "FAIL") \subseteq Severities
      /\ When(~complete, "NOT VERIFIED") \subseteq Severities
  BY DEF When, Severities
<1>3. QED
  BY <1>1, <1>2 DEF Breadth

LEMMA AccessTyped ==
  ASSUME NEW k \in RoleKinds
  PROVE  /\ RequiredAccess(k) \subseteq Severities
         /\ DeniedAccess(k) \subseteq Severities
         /\ PermissionsCheck(k) \subseteq Severities
<1>1. RequiredAccess(k) \subseteq Severities
  BY DEF RequiredAccess, When, Severities
<1>2. DeniedAccess(k) \subseteq Severities
  <2>1. \A p \in DeniedProbes(k) : p[2] \in Severities
    BY ProbesAre
  <2>2. "NOT VERIFIED" \in Severities
    BY DEF Severities
  <2> DEFINE finding(p) ==
               LET s == Simulation(k, p[1]) IN
               IF ProvenDenied(s) THEN {}
               ELSE {IF s.decision = "allowed" \/ p[2] = "WARN" THEN p[2] ELSE "NOT VERIFIED"}
             probed == UNION {finding(p) : p \in DeniedProbes(k)}
             documents == IF k = "instance" THEN {} ELSE Breadth(k, Statements(k), Complete(k))
  <2>3. \A p \in DeniedProbes(k) : finding(p) \subseteq Severities
    BY <2>1, <2>2
  <2>4. documents \subseteq Severities
    BY BreadthTyped
  <2>5. DeniedAccess(k) = IF ~Simulates(k) THEN {"NOT VERIFIED"} ELSE probed \cup documents
    BY DEF DeniedAccess
  <2> HIDE DEF finding, documents
  <2>6. QED
    BY <2>2, <2>3, <2>4, <2>5
<1>3. PermissionsCheck(k) \subseteq Severities
  <2>1. ASSUME NEW stmts, NEW complete, NEW enhanced, NEW denies
        PROVE  Missing(k, stmts, complete, enhanced, denies) \subseteq Severities
    BY DEF Missing, When, Severities
  <2>2. \A condition : When(condition, "WARN") \subseteq Severities
    BY DEF When, Severities
  <2>3. QED
    BY <2>1, <2>2, BreadthTyped DEF PermissionsCheck
<1>4. QED
  BY <1>1, <1>2, <1>3

LEMMA AnswersSeen ==
  ASSUME account \in Seq(Worlds)
  PROVE  /\ \A r : Answered(r) => At(r) \in seen
         /\ seen \subseteq Worlds
BY DEF Answered, At, seen

LEMMA ProviderSeen ==
  ASSUME account \in Seq(Worlds), Passes(ProviderCheck)
  PROVE  \E w \in seen : w.provider \in {"ours", "more-audiences"}
<1> DEFINE r == <<"provider", Account>>
           p == At(r).provider
           findings == IF ~Answered(r) THEN {"NOT VERIFIED"}
                       ELSE When(p \in {"absent", "other-account", "no-audience"}, "FAIL")
                            \cup When(p = "more-audiences", "WARN")
<1>1. ProviderCheck = Check(findings, TRUE)
  BY DEF ProviderCheck
<1>2. Clean(findings)
  BY <1>1, RequiredPasses DEF Severities, When
<1>3. Answered(r) /\ p \notin {"absent", "other-account", "no-audience"}
  BY <1>2 DEF Clean, When
<1>4. QED
  BY <1>3, AnswersSeen, AwsVerifyAssumption

LEMMA TrustSeen ==
  ASSUME account \in Seq(Worlds), NEW k \in DeliveryRoles,
         Passes(RoleCheck(k)), Passes(TrustCheck(k))
  PROVE  /\ RoleThere(k)
         /\ \E w \in seen : /\ w.roles[k].exists /\ w.roles[k].sameArn
                            /\ OnlyIntended(w.roles[k].trust, Intended(k))
<1> DEFINE r == <<"role", k>>
           findings == IF ~Answered(r) THEN {"NOT VERIFIED"} ELSE When(~RoleThere(k), "FAIL")
<1>1. RoleThere(k)
  <2>1. RoleCheck(k) = Check(findings, TRUE)
    BY DEF RoleCheck
  <2>2. Clean(findings)
    BY <2>1, RequiredPasses DEF Severities, When
  <2>3. QED
    BY <2>2 DEF Clean, When
<1>2. TrustCheck(k) =
        Check(EvaluateTrust(At(r).roles[k].trust, Intended(k))
              \cup When(k = "deploy" /\ ~run.environment, "WARN"), TRUE)
  BY <1>1 DEF TrustCheck
<1>3. "FAIL" \notin EvaluateTrust(At(r).roles[k].trust, Intended(k))
  BY <1>2, NoFailure
<1>4. OnlyIntended(At(r).roles[k].trust, Intended(k))
  BY <1>3, TrustIsBounded
<1>5. At(r) \in seen /\ At(r).roles[k].exists /\ At(r).roles[k].sameArn
  BY <1>1, AnswersSeen DEF RoleThere, RoleRead
<1>6. QED
  BY <1>1, <1>4, <1>5

\* Doctor: the documents were read whole, and grant nothing that is forbidden.
LEMMA DocumentsBound ==
  ASSUME account \in Seq(Worlds), NEW k \in DeliveryRoles, RoleThere(k),
         Passes(Check(IF RoleThere(k) THEN PermissionsCheck(k) ELSE {"NOT VERIFIED"}, TRUE))
  PROVE  \E w \in seen : Bounded(w.roles[k], FailingUses(Forbidden(k)))
<1> DEFINE w == At(<<"policies", k>>)
<1>1. Clean(PermissionsCheck(k))
  BY AccessTyped, RequiredPasses, DeliveryKinds
<1>2. Clean(Breadth(k, Statements(k), Complete(k)))
  BY <1>1 DEF PermissionsCheck, Clean
<1>3. Complete(k)
  BY <1>2 DEF Breadth, Clean, When
<1>4. Statements(k) = w.roles[k].policies
  BY <1>3 DEF Statements
<1>5. Bounded(w.roles[k], FailingUses(Forbidden(k)))
  BY <1>2, <1>4, BreadthBounds
<1>6. QED
  BY <1>3, <1>5, AnswersSeen DEF Complete

\* Verify: every probe was simulated, and denied for a reason that holds.
LEMMA SimulationBounds ==
  ASSUME account \in Seq(Worlds), NEW k \in DeliveryRoles,
         Passes(Check(DeniedAccess(k), TRUE))
  PROVE  Simulates(k) /\ \E w \in seen : Bounded(w.roles[k], FailingUses(DeniedProbes(k)))
<1> DEFINE w == At(<<"simulation", k>>)
<1>1. Clean(DeniedAccess(k))
  BY AccessTyped, RequiredPasses, DeliveryKinds
<1>2. Simulates(k)
  BY <1>1 DEF DeniedAccess, Clean
<1>3. ASSUME NEW u \in FailingUses(DeniedProbes(k))
      PROVE  ProvenDenied(Simulated(w.roles[k], u))
  <2>1. PICK p \in DeniedProbes(k) : p[1] = u /\ p[2] = "FAIL"
    BY DEF FailingUses
  <2> DEFINE s == Simulation(k, p[1])
  <2>2. ~ProvenDenied(s) =>
          (IF s.decision = "allowed" \/ p[2] = "WARN" THEN p[2] ELSE "NOT VERIFIED")
            \in DeniedAccess(k)
    BY <1>2, <2>1 DEF DeniedAccess
  <2>3. ProvenDenied(s)
    BY <1>1, <2>1, <2>2 DEF Clean
  <2>4. QED
    BY <2>1, <2>3 DEF Simulation
<1>4. Bounded(w.roles[k], FailingUses(DeniedProbes(k)))
  BY <1>3, DenialIsProof DEF Bounded
<1>5. QED
  BY <1>2, <1>4, AnswersSeen DEF Simulates

LEMMA SimulationGrants ==
  ASSUME account \in Seq(Worlds), NEW k \in DeliveryRoles,
         Passes(Check(RequiredAccess(k), TRUE))
  PROVE  \E w \in seen : \A r \in Required(k, "no") :
           \E held \in BOOLEAN : Effective(w.roles[k], r[1], held)
<1> DEFINE w == At(<<"simulation", k>>)
<1>1. Clean(RequiredAccess(k))
  BY AccessTyped, RequiredPasses, DeliveryKinds
<1>2. Simulates(k)
  BY <1>1 DEF RequiredAccess, Clean
<1>3. ASSUME NEW r \in Required(k, "no")
      PROVE  Effective(w.roles[k], r[1], FALSE)
  <2> DEFINE s == Simulation(k, r[1])
  <2>1. r \in Required(k, Enhanced)
    BY UnitsTyped, EnhancedKnown, DeliveryKinds
  <2>2. When(s.decision # "allowed",
             IF s.missing \/ r[2] = Possible THEN "NOT VERIFIED" ELSE "FAIL")
          \subseteq RequiredAccess(k)
    BY <1>2, <2>1 DEF RequiredAccess
  <2>3. s.decision = "allowed"
    BY <1>1, <2>2 DEF Clean, When
  <2>4. QED
    BY <2>3, AllowedIsEffective DEF Simulation
<1>4. QED
  BY <1>2, <1>3, AnswersSeen DEF Simulates

LEMMA SeparationSeen ==
  ASSUME account \in Seq(Worlds), Passes(SeparationCheck), RoleThere("push"), RoleThere("deploy")
  PROVE  \E v, w \in seen : v.roles["push"].id # w.roles["deploy"].id
<1> DEFINE v == At(<<"role", "push">>)
           w == At(<<"role", "deploy">>)
           one == v.roles["push"].id = w.roles["deploy"].id
<1>1. v \in seen /\ w \in seen
  BY AnswersSeen DEF RoleThere, RoleRead
<1>2. ~one
  <2>1. ASSUME one PROVE FALSE
    <3> DEFINE apart == IF ~RoleThere("push") \/ ~RoleThere("deploy") THEN {"NOT VERIFIED"}
                        ELSE When(one, "FAIL")
               jobs == UNION { IF ~Simulates(x[1]) THEN {"NOT VERIFIED"}
                               ELSE When(Simulation(x[1], x[2]).decision = "allowed", "FAIL")
                               : x \in {<<"push", On("send", "instance")>>,
                                        <<"deploy", On("push", "repository")>>} }
    <3>1. SeparationCheck = Check(apart \cup jobs, TRUE)
      BY DEF SeparationCheck
    <3>2. "FAIL" \in apart
      BY <2>1 DEF When
    <3> HIDE DEF apart, jobs
    <3>3. QED
      BY <3>1, <3>2, NoFailure
  <2>2. QED
    BY <2>1
<1>3. QED
  BY <1>1, <1>2

\* What covers the repository without scanning on push covers it with it.
LEMMA CoveredMore ==
  ASSUME NEW scanning, NEW less, NEW more, Covered(scanning, less), less => more
  PROVE  Covered(scanning, more)
BY DEF Covered

LEMMA ScanningSeen ==
  ASSUME account \in Seq(Worlds), Passes(ScanningCheck)
  PROVE  /\ \E v, w \in seen : Covered(w.scanning, v.repository.scanOnPush)
         /\ Enhanced # "yes" => \E w \in seen : w.scanning.type = "BASIC"
<1> DEFINE r == <<"scanning", Account>>
           repository == <<"repository", Account>>
           s == At(r).scanning
           onPush == RepositoryThere /\ At(repository).repository.scanOnPush
           unsupported == \E rule \in s.rules :
             \/ rule.matches = "unknown"
             \/ rule.matches = "yes" /\ rule.frequency \notin Uses(s.type)
           findings == IF ~Answered(r) \/ Enhanced = "unknown" THEN {"NOT VERIFIED"}
                       ELSE IF Covered(s, onPush)
                       THEN When(unsupported \/ ~Covered(s, FALSE), "WARN")
                       ELSE {IF unsupported THEN "NOT VERIFIED" ELSE "FAIL"}
<1>1. ScanningCheck = Check(findings, TRUE)
  BY DEF ScanningCheck
<1> HIDE DEF onPush, unsupported
<1>2. Clean(findings)
  <2>1. findings \subseteq Severities
    BY DEF Severities, When
  <2>2. QED
    BY <1>1, <2>1, RequiredPasses
<1>3. Answered(r) /\ Enhanced # "unknown" /\ Covered(s, onPush)
  BY <1>2 DEF Clean
<1>4. At(r) \in seen
  BY <1>3, AnswersSeen
<1>5. \E v \in seen : onPush => v.repository.scanOnPush
  BY <1>4, AnswersSeen DEF onPush, RepositoryThere
<1>6. Enhanced # "yes" => At(r).scanning.type = "BASIC"
  BY <1>3 DEF Enhanced
<1>7. QED
  BY <1>3, <1>4, <1>5, <1>6, CoveredMore

LEMMA ScannerSeen ==
  ASSUME account \in Seq(Worlds), Enhanced = "yes", \A c \in InspectorChecks : Passes(c)
  PROVE  \E w \in seen : w.inspector.enabled
<1> DEFINE a == <<"inspector", Account>>
           c == <<"coverage", Account>>
           lenient == IF run.command = "doctor" THEN "WARN" ELSE "NOT VERIFIED"
           enabled == IF ~Answered(a) THEN {"NOT VERIFIED"}
                      ELSE When(~At(a).inspector.enabled, "FAIL")
           listed == IF ~Answered(c) THEN {lenient}
                      ELSE When(At(c).inspector.records = {}, lenient)
                           \cup When("INACTIVE" \in At(c).inspector.records, "FAIL")
<1>1. InspectorChecks = {Check(enabled \cup listed, TRUE)}
  BY DEF InspectorChecks
<1>2. enabled \subseteq Severities /\ listed \subseteq Severities
  BY DEF Severities, When
<1>3. Clean(enabled)
  <2> HIDE DEF enabled, listed
  <2>1. Clean(enabled \cup listed)
    BY <1>1, <1>2, RequiredPasses
  <2>2. QED
    BY <2>1 DEF Clean
<1>4. Answered(a) /\ At(a).inspector.enabled
  BY <1>3 DEF Clean, When
<1>5. QED
  BY <1>4, AnswersSeen

LEMMA InstanceSeen ==
  ASSUME account \in Seq(Worlds), \A c \in InstanceChecks : Passes(c)
  PROVE  (\E w \in seen : w.instance = "running") /\ (\E w \in seen : w.agent = "Online")
<1> DEFINE r == <<"instance", Account>>
           running == IF ~Answered(r) THEN {"NOT VERIFIED"}
                      ELSE When(At(r).instance # "running", "FAIL")
           online == IF ~Answered(<<"agent", Account>>) THEN {"NOT VERIFIED"}
                     ELSE When(~Online, "FAIL")
<1>1. Check(running, TRUE) \in InstanceChecks /\ Check(online, TRUE) \in InstanceChecks
  BY DEF InstanceChecks
<1>2. running \subseteq Severities /\ online \subseteq Severities
  BY DEF Severities, When
<1>3. Clean(running) /\ Clean(online)
  BY <1>1, <1>2, RequiredPasses
<1>4. Answered(r) /\ At(r).instance = "running" /\ Online
  BY <1>3 DEF Clean, When
<1>5. QED
  BY <1>4, AnswersSeen DEF Online

LEMMA OwnerSeen ==
  ASSUME account \in Seq(Worlds), NEW x, x \in run.managed, Passes(OwnershipCheck(x))
  PROVE  /\ \E w \in seen : w.owner[x] \in {"ours", "misplaced"}
         /\ x \in DeliveryRoles /\ RoleThere(x) => \E w \in seen : w.consumer[x] # "other"
         /\ x = "repository" /\ Told("tags") =>
              \E w \in seen : w.repository.exists /\ w.consumer["repository"] # "other"
<1> DEFINE r == <<"stacks", Account>>
           there == CASE x = "provider" -> /\ Answered(<<"provider", Account>>)
                                           /\ At(<<"provider", Account>>).provider # "absent"
                      [] x = "repository" -> RepositoryThere
                      [] OTHER -> RoleThere(x)
           findings == IF ~there \/ ~Answered(r) THEN {"NOT VERIFIED"}
                       ELSE When(~Owned(At(r).owner[x]) \/ OfAnother(x), "FAIL")
<1>1. OwnershipCheck(x) = Check(findings, TRUE)
  BY Zenon DEF OwnershipCheck
<1> HIDE DEF there
<1>2. Clean(findings)
  BY <1>1, RequiredPasses DEF Severities, When
<1>3. Answered(r) /\ Owned(At(r).owner[x]) /\ ~OfAnother(x)
  BY <1>2 DEF Clean, When
<1>4. \E w \in seen : w.owner[x] \in {"ours", "misplaced"}
  BY <1>3, AnswersSeen DEF Owned
<1>5. x \in DeliveryRoles /\ RoleThere(x) => \E w \in seen : w.consumer[x] # "other"
  BY <1>3, AnswersSeen DEF OfAnother, RoleThere, RoleRead
<1>6. x = "repository" /\ Told("tags") =>
        \E w \in seen : w.repository.exists /\ w.consumer["repository"] # "other"
  BY <1>3, AnswersSeen DEF OfAnother, Told
<1>7. QED
  BY <1>4, <1>5, <1>6

LEMMA RepositoryHolds ==
  ASSUME account \in Seq(Worlds), \A c \in RepositoryChecks : Passes(c)
  PROVE  /\ \E w \in seen : w.repository.exists
         /\ Told("repository-policy") =>
              \E w \in seen : w.repository.exists /\ w.repository.policy \notin {"public", "malformed"}
<1> DEFINE r == <<"repository", Account>>
           p == <<"repository-policy", Account>>
           policy == At(p).repository.policy
           read == PolicyFindings(Told("repository-policy"), policy)
           first == IF ~Answered(r) THEN {"NOT VERIFIED"}
                    ELSE IF ~At(r).repository.exists THEN {"FAIL"}
                    ELSE read \cup When(run.command = "verify" /\ ~At(r).repository.sameArn, "FAIL")
<1>1. Check(first, TRUE) \in RepositoryChecks
  BY DEF RepositoryChecks
<1>2. read \subseteq Severities
  BY DEF Severities, When, PolicyFindings
<1> HIDE DEF read
<1>3. first \subseteq Severities
  BY <1>2 DEF Severities, When
<1> HIDE DEF first
<1>4. Clean(first)
  BY <1>1, <1>3, RequiredPasses
<1>5. Answered(r) /\ At(r).repository.exists /\ Clean(read)
  BY <1>4 DEF Clean, first
<1>6. Told("repository-policy") => policy \notin {"public", "malformed"}
  BY <1>5 DEF Clean, read, PolicyFindings, When
<1>7. Told("repository-policy") => At(p) \in seen /\ At(p).repository.exists
  BY AnswersSeen DEF Told
<1>8. QED
  BY <1>5, <1>6, <1>7, AnswersSeen

\* If every check passes, the boundary held.
LEMMA PassesMeanBoundary ==
  ASSUME account \in Seq(Worlds), RunTyped, \A c \in Checks : Passes(c)
  PROVE  BoundarySeen /\ RepositorySeen
<1>1. /\ Passes(ProviderCheck) /\ Passes(ScanningCheck)
      /\ \A c \in RepositoryChecks : Passes(c)
      /\ \A c \in InspectorChecks : Passes(c)
      /\ \A c \in InstanceChecks : Passes(c)
      /\ \A k \in DeliveryRoles : \A c \in RoleChecks(k) : Passes(c)
      /\ run.command = "verify" => Passes(SeparationCheck)
      /\ \A x \in {"provider", "repository", "push", "deploy"} : Passes(OwnershipCheck(x))
  BY DEF Checks
<1>2. \A k \in DeliveryRoles : RoleThere(k) /\ Passes(RoleCheck(k)) /\ Passes(TrustCheck(k))
  BY <1>1, TrustSeen DEF RoleChecks
<1>3. ASSUME NEW k \in DeliveryRoles
      PROVE  LET uses == IF run.command = "verify" THEN DeniedProbes(k) ELSE Forbidden(k) IN
             /\ \E w \in seen : /\ w.roles[k].exists /\ w.roles[k].sameArn
                                /\ OnlyIntended(w.roles[k].trust, Intended(k))
             /\ \E w \in seen : Bounded(w.roles[k], FailingUses(uses))
             /\ run.command = "verify" =>
                  \E w \in seen : \A r \in Required(k, "no") :
                    \E held \in BOOLEAN : Effective(w.roles[k], r[1], held)
  <2>1. \E w \in seen : /\ w.roles[k].exists /\ w.roles[k].sameArn
                        /\ OnlyIntended(w.roles[k].trust, Intended(k))
    BY <1>2, TrustSeen
  <2>2. CASE run.command = "verify"
    <3>1. Passes(Check(RequiredAccess(k), TRUE)) /\ Passes(Check(DeniedAccess(k), TRUE))
      BY <1>1, <2>2 DEF RoleChecks
    <3>2. QED
      BY <2>1, <2>2, <3>1, SimulationBounds, SimulationGrants
  <2>3. CASE run.command = "doctor"
    <3>1. Passes(Check(IF RoleThere(k) THEN PermissionsCheck(k) ELSE {"NOT VERIFIED"}, TRUE))
      BY <1>1, <2>3 DEF RoleChecks
    <3>2. QED
      BY <1>2, <2>1, <2>3, <3>1, DocumentsBound
  <2>4. QED
    BY <2>2, <2>3 DEF RunTyped
<1>4. run.command = "verify" => \E v, w \in seen : v.roles["push"].id # w.roles["deploy"].id
  BY <1>1, <1>2, SeparationSeen DEF DeliveryRoles
<1>5. \A x \in run.managed : \E w \in seen : w.owner[x] \in {"ours", "misplaced"}
  BY <1>1, OwnerSeen, AwsVerifyAssumption DEF RunTyped
<1>6. \A x \in run.managed \cap DeliveryRoles : \E w \in seen : w.consumer[x] # "other"
  BY <1>1, <1>2, OwnerSeen, AwsVerifyAssumption DEF RunTyped
<1>7. BoundarySeen
  BY <1>1, <1>3, <1>4, <1>5, <1>6, ProviderSeen, ScanningSeen, ScannerSeen, InstanceSeen
  DEF BoundarySeen, Sometime
<1>8. RepositorySeen
  BY <1>1, OwnerSeen, RepositoryHolds DEF RepositorySeen, Sometime
<1>9. QED
  BY <1>7, <1>8

-----------------------------------------------------------------------------
(* What was just deployed passes.                                          *)

\* What a command that reads Fresh asks for.
Asked(r) ==
  /\ r[1] \in {"inspector", "coverage"} => Fresh.scanning.type = "ENHANCED"
  /\ r = <<"simulation", "instance">> => run.command = "verify"
FreshEnhanced == IF Fresh.scanning.type = "ENHANCED" THEN "yes" ELSE "no"

\* Every answer is Fresh, and everything that was asked for was answered.
ReadWhole ==
  /\ run.environment
  /\ \A r : Answered(r) => At(r) = Fresh
  /\ \A r \in ReadSet : Asked(r) => Answered(r)

LEMMA ReadsAre ==
  /\ Len(Reads) = 20 /\ DOMAIN Reads = 1 .. 20
  /\ ReadSet =
      {<<"provider", Account>>, <<"repository", Account>>, <<"repository-policy", Account>>,
       <<"tags", Account>>, <<"scanning", Account>>,
       <<"inspector", Account>>, <<"coverage", Account>>,
       <<"role", "push">>, <<"policies", "push">>, <<"simulation", "push">>,
       <<"role", "deploy">>, <<"policies", "deploy">>, <<"simulation", "deploy">>,
       <<"instance", Account>>, <<"agent", Account>>, <<"profile", Account>>,
       <<"role", "instance">>, <<"policies", "instance">>, <<"simulation", "instance">>,
       <<"stacks", Account>>}
<1>1. Len(Reads) = 20 /\ DOMAIN Reads = 1 .. 20
  BY DEF Reads
<1>2. QED
  BY <1>1 DEF ReadSet, Reads

AccountReads == {"provider", "repository", "repository-policy", "tags", "scanning", "instance",
                 "agent", "profile", "stacks"}

LEMMA FreshAnswers ==
  ASSUME ReadWhole
  PROVE  /\ \A x \in AccountReads :
              Answered(<<x, Account>>) /\ At(<<x, Account>>) = Fresh
         /\ \A x \in {"role", "policies"}, k \in RoleKinds :
              Answered(<<x, k>>) /\ At(<<x, k>>) = Fresh
         /\ \A k \in RoleKinds : k \in DeliveryRoles \/ run.command = "verify" =>
              Answered(<<"simulation", k>>) /\ At(<<"simulation", k>>) = Fresh
         /\ Fresh.scanning.type = "ENHANCED" =>
              \A x \in {"inspector", "coverage"} :
                Answered(<<x, Account>>) /\ At(<<x, Account>>) = Fresh
<1>1. ASSUME NEW x \in AccountReads
      PROVE  Answered(<<x, Account>>)
  <2>1. <<x, Account>> \in ReadSet /\ Asked(<<x, Account>>)
    BY ReadsAre DEF Asked, Account, AccountReads
  <2>2. QED
    BY <2>1 DEF ReadWhole
<1>2. ASSUME NEW x \in {"role", "policies"}, NEW k \in RoleKinds
      PROVE  Answered(<<x, k>>)
  <2>1. <<x, k>> \in ReadSet /\ Asked(<<x, k>>)
    BY ReadsAre DEF Asked, RoleKinds
  <2>2. QED
    BY <2>1 DEF ReadWhole
<1>3. ASSUME NEW k \in RoleKinds, k \in DeliveryRoles \/ run.command = "verify"
      PROVE  Answered(<<"simulation", k>>)
  <2>1. <<"simulation", k>> \in ReadSet /\ Asked(<<"simulation", k>>)
    BY <1>3, ReadsAre DEF Asked, RoleKinds, DeliveryRoles
  <2>2. QED
    BY <2>1 DEF ReadWhole
<1>4. ASSUME Fresh.scanning.type = "ENHANCED", NEW x \in {"inspector", "coverage"}
      PROVE  Answered(<<x, Account>>)
  <2>1. <<x, Account>> \in ReadSet /\ Asked(<<x, Account>>)
    BY <1>4, ReadsAre DEF Asked, Account
  <2>2. QED
    BY <2>1 DEF ReadWhole
<1>5. QED
  BY <1>1, <1>2, <1>3, <1>4 DEF ReadWhole

LEMMA FreshRoles ==
  ASSUME NEW k \in RoleKinds
  PROVE  /\ Fresh.roles[k].exists /\ Fresh.roles[k].sameArn /\ Fresh.roles[k].boundary = Actions
         /\ Fresh.roles[k].policies = RolePolicy(k, FreshEnhanced)
         /\ k \in DeliveryRoles => Fresh.roles[k].trust = BuildTrust(IntendedContext(k, TRUE))
BY FreshAssumption DEF AsGenerated, FreshEnhanced, RoleKinds

LEMMA FreshKnown ==
  ASSUME ReadWhole
  PROVE  Enhanced = FreshEnhanced /\ FreshEnhanced \in Knowledge \ {"unknown"}
<1>1. Fresh.scanning.type \in {"BASIC", "ENHANCED"}
  BY FreshAssumption DEF AsGenerated
<1>2. QED
  BY <1>1, FreshAnswers DEF Enhanced, FreshEnhanced, Knowledge, AccountReads

LEMMA FreshStatements ==
  ASSUME ReadWhole, NEW k \in RoleKinds
  PROVE  /\ RoleRead(k) /\ RoleThere(k) /\ Complete(k)
         /\ Statements(k) = Fresh.roles[k].policies
         /\ k \in DeliveryRoles \/ run.command = "verify" =>
              Simulates(k) /\ \A u : Simulation(k, u) = Simulated(Fresh.roles[k], u)
<1>1. RoleRead(k) /\ RoleThere(k)
  BY FreshAnswers, FreshRoles DEF RoleRead, RoleThere
<1>2. Complete(k) /\ Statements(k) = Fresh.roles[k].policies
  BY FreshAnswers, FreshRoles DEF Complete, Statements
<1>3. ASSUME k \in DeliveryRoles \/ run.command = "verify"
      PROVE  Simulates(k) /\ \A u : Simulation(k, u) = Simulated(Fresh.roles[k], u)
  BY <1>3, FreshAnswers, FreshRoles DEF Simulates, Simulation
<1>4. QED
  BY <1>1, <1>2, <1>3

LEMMA FreshDoes ==
  ASSUME NEW k \in RoleKinds, ReadWhole
  PROVE  /\ \A r \in Required(k, FreshEnhanced) :
              /\ Simulated(Fresh.roles[k], r[1]).decision = "allowed"
              /\ Grants(Fresh.roles[k].policies, r[1]) = "allowed"
         /\ \A p \in DeniedProbes(k) :
              /\ Simulated(Fresh.roles[k], p[1]).decision = "implicitDeny"
              /\ ~Simulated(Fresh.roles[k], p[1]).missing
              /\ Grants(Fresh.roles[k].policies, p[1]) = "not-granted"
         /\ Administrators(Fresh.roles[k].policies) = {}
<1> DEFINE role == Fresh.roles[k]
<1>1. /\ role.policies = RolePolicy(k, FreshEnhanced) /\ role.boundary = Actions
      /\ FreshEnhanced \in Knowledge
  BY FreshRoles, FreshKnown
<1> HIDE DEF role
<1>2. /\ \A r \in Required(k, FreshEnhanced) :
           /\ Simulated(role, r[1]).decision = "allowed"
           /\ Grants(role.policies, r[1]) = "allowed"
      /\ \A p \in DeniedProbes(k) :
           /\ Simulated(role, p[1]).decision = "implicitDeny"
           /\ ~Simulated(role, p[1]).missing
           /\ Grants(role.policies, p[1]) = "not-granted"
      /\ Administrators(role.policies) = {}
  BY <1>1, GeneratedRole
<1>3. QED
  BY <1>2, Zenon DEF role

LEMMA FreshBreadth ==
  ASSUME ReadWhole, NEW k \in RoleKinds
  PROVE  Breadth(k, Statements(k), Complete(k)) = {}
<1>1. Complete(k) /\ Statements(k) = Fresh.roles[k].policies
  BY FreshStatements
<1>2. \A p \in Forbidden(k) : Grants(Statements(k), p[1]) \notin {"allowed", "conditional"}
  BY <1>1, FreshDoes DEF DeniedProbes
<1>3. Administrators(Statements(k)) = {}
  BY <1>1, FreshDoes
<1>4. QED
  BY <1>1, <1>2, <1>3 DEF Breadth, When

LEMMA FreshAccess ==
  ASSUME ReadWhole, NEW k \in RoleKinds
  PROVE  /\ Clean(PermissionsCheck(k))
         /\ k \in DeliveryRoles \/ run.command = "verify" =>
              Clean(RequiredAccess(k) \cup DeniedAccess(k))
<1>1. /\ Enhanced = FreshEnhanced /\ Statements(k) = Fresh.roles[k].policies
      /\ Breadth(k, Statements(k), Complete(k)) = {}
  BY FreshKnown, FreshStatements, FreshBreadth
<1>2. Clean(PermissionsCheck(k))
  <2> DEFINE denies == IF k = "instance" \/ ~Simulates(k) THEN {}
                       ELSE {r[1] : r \in {q \in Required(k, Enhanced) :
                               q[2] = Certain /\ Simulation(k, q[1]).decision # "allowed"}}
             narrow == When(/\ k \in DeliveryRoles /\ ~Simulates(k)
                            /\ At(<<"role", k>>).roles[k].boundary # Actions, "WARN")
             missing == Missing(k, Statements(k), Complete(k), Enhanced, denies)
  <2>1. denies = {}
    <3>1. CASE k = "instance"
      BY <3>1
    <3>2. CASE k # "instance"
      <4>1. k \in DeliveryRoles
        BY <3>2 DEF DeliveryRoles, RoleKinds
      <4>2. \A q \in Required(k, Enhanced) : Simulation(k, q[1]).decision = "allowed"
        BY <1>1, <4>1, FreshDoes, FreshStatements
      <4>3. QED
        BY <4>2
    <3>3. QED
      BY <3>1, <3>2
  <2>2. missing = {}
    <3> HIDE DEF denies
    <3>1. \A r \in Required(k, Enhanced) :
            Grants(Statements(k), r[1]) = "allowed" /\ When(r[1] \in denies, "FAIL") = {}
      BY <1>1, <2>1, FreshDoes DEF When
    <3>2. QED
      BY <3>1 DEF Missing
  <2>3. narrow \subseteq {"WARN"}
    BY DEF When
  <2>4. PermissionsCheck(k) = missing \cup Breadth(k, Statements(k), Complete(k)) \cup narrow
    BY DEF PermissionsCheck
  <2> HIDE DEF missing, narrow
  <2>5. QED
    BY <1>1, <2>2, <2>3, <2>4 DEF Clean
<1>3. ASSUME k \in DeliveryRoles \/ run.command = "verify"
      PROVE  RequiredAccess(k) = {} /\ DeniedAccess(k) = {}
  <2>1. Simulates(k) /\ \A u : Simulation(k, u) = Simulated(Fresh.roles[k], u)
    BY <1>3, FreshStatements
  <2>2. \A r \in Required(k, Enhanced) : Simulation(k, r[1]).decision = "allowed"
    BY <1>1, <2>1, FreshDoes
  <2>3. RequiredAccess(k) = {}
    BY <2>1, <2>2 DEF RequiredAccess, When
  <2>4. \A p \in DeniedProbes(k) : ProvenDenied(Simulation(k, p[1]))
    BY <2>1, FreshDoes DEF ProvenDenied
  <2>5. DeniedAccess(k) = {}
    BY <1>1, <2>1, <2>4 DEF DeniedAccess
  <2>6. QED
    BY <2>3, <2>5
<1>4. QED
  BY <1>2, <1>3 DEF Clean

LEMMA FreshResources ==
  ASSUME ReadWhole
  PROVE  /\ Passes(ProviderCheck) /\ Passes(SubjectFormatCheck) /\ Passes(ScanningCheck)
         /\ \A c \in RepositoryChecks : Passes(c)
         /\ \A c \in InspectorChecks : Passes(c)
<1> DEFINE repository == [exists |-> TRUE, sameArn |-> TRUE, policy |-> "none", immutable |-> TRUE,
                          scanOnPush |-> TRUE, encrypted |-> TRUE]
<1>1. /\ Fresh.provider = "ours" /\ Fresh.repository = repository
      /\ Fresh.scanning.type \in {"BASIC", "ENHANCED"} /\ Covered(Fresh.scanning, TRUE)
      /\ Fresh.inspector.enabled /\ Fresh.inspector.records = {"ACTIVE"}
  BY FreshAssumption DEF AsGenerated
<1>2. /\ repository.exists /\ repository.sameArn /\ repository.policy = "none" /\ repository.immutable
      /\ repository.scanOnPush /\ repository.encrypted
  OBVIOUS
<1> HIDE DEF repository
<1>3. ASSUME NEW findings, findings \subseteq {"WARN"}, NEW required \in BOOLEAN
      PROVE  Passes(Check(findings, required))
  BY <1>3, RequiredPasses, OptionalPasses DEF Clean, Severities
<1>4. Passes(ProviderCheck)
  <2>1. ProviderCheck = Check({}, TRUE)
    BY <1>1, FreshAnswers DEF ProviderCheck, When, AccountReads
  <2>2. QED
    BY <1>3, <2>1
<1>5. Passes(SubjectFormatCheck)
  BY OptionalPasses DEF SubjectFormatCheck, Severities
<1>6. Passes(ScanningCheck)
  <2> DEFINE s == At(<<"scanning", Account>>).scanning
             here == <<"repository", Account>>
             onPush == RepositoryThere /\ At(here).repository.scanOnPush
             unsupported == \E rule \in s.rules :
               \/ rule.matches = "unknown"
               \/ rule.matches = "yes" /\ rule.frequency \notin Uses(s.type)
             findings == IF ~Answered(<<"scanning", Account>>) \/ Enhanced = "unknown"
                         THEN {"NOT VERIFIED"}
                         ELSE IF Covered(s, onPush)
                         THEN When(unsupported \/ ~Covered(s, FALSE), "WARN")
                         ELSE {IF unsupported THEN "NOT VERIFIED" ELSE "FAIL"}
  <2>1. ScanningCheck = Check(findings, TRUE)
    BY DEF ScanningCheck
  <2>2. onPush /\ s = Fresh.scanning /\ Answered(<<"scanning", Account>>)
    BY <1>1, <1>2, FreshAnswers DEF AccountReads, RepositoryThere
  <2> HIDE DEF onPush, unsupported, s
  <2>3. Covered(s, onPush)
    BY <1>1, <2>2, CoveredMore
  <2>4. findings \subseteq {"WARN"}
    BY <2>2, <2>3, FreshKnown DEF When
  <2>5. QED
    BY <1>3, <2>1, <2>4
<1>7. \A c \in RepositoryChecks : Passes(c)
  <2> DEFINE r == <<"repository", Account>>
             repo == At(r).repository
             verify == run.command = "verify"
             managed == verify /\ "repository" \in run.managed
             there == RepositoryThere
             p == <<"repository-policy", Account>>
             first == IF ~Answered(r) THEN {"NOT VERIFIED"}
                      ELSE IF ~repo.exists THEN {"FAIL"}
                      ELSE PolicyFindings(Told("repository-policy"), At(p).repository.policy)
                           \cup When(verify /\ ~repo.sameArn, "FAIL")
             second == IF ~there THEN {"NOT VERIFIED"}
                       ELSE When(~repo.immutable, IF managed THEN "FAIL" ELSE "WARN")
             third == IF ~there THEN {"NOT VERIFIED"}
                      ELSE When(~repo.scanOnPush \/ ~repo.encrypted, "FAIL")
  <2>1. RepositoryChecks = {Check(first, TRUE), Check(second, managed)}
          \cup IF ~managed THEN {} ELSE {Check(third, TRUE)}
    BY DEF RepositoryChecks
  <2>2. Answered(r) /\ repo = repository /\ At(p).repository = repository
    BY <1>1, FreshAnswers DEF AccountReads
  <2>3. there
    BY <1>2, <2>2 DEF RepositoryThere
  <2>4. PolicyFindings(Told("repository-policy"), At(p).repository.policy) = {}
    BY <1>2, <2>2 DEF PolicyFindings, When
  <2> HIDE DEF repo, managed, verify, there, p
  <2>5. first = {} /\ second = {} /\ third = {} /\ managed \in BOOLEAN
    BY <1>2, <2>2, <2>3, <2>4 DEF When, managed
  <2> HIDE DEF first, second, third
  <2>6. QED
    BY <1>3, <2>1, <2>5
<1>8. \A c \in InspectorChecks : Passes(c)
  <2>1. CASE Enhanced # "yes"
    BY <2>1 DEF InspectorChecks
  <2>2. CASE Enhanced = "yes"
    <3>1. Fresh.scanning.type = "ENHANCED"
      BY <2>2, FreshKnown DEF FreshEnhanced
    <3> DEFINE a == <<"inspector", Account>>
               c == <<"coverage", Account>>
               lenient == IF run.command = "doctor" THEN "WARN" ELSE "NOT VERIFIED"
               enabled == IF ~Answered(a) THEN {"NOT VERIFIED"}
                          ELSE When(~At(a).inspector.enabled, "FAIL")
               listed == IF ~Answered(c) THEN {lenient}
                          ELSE When(At(c).inspector.records = {}, lenient)
                               \cup When("INACTIVE" \in At(c).inspector.records, "FAIL")
    <3>2. InspectorChecks = {Check(enabled \cup listed, TRUE)}
      BY <2>2 DEF InspectorChecks
    <3>3. Answered(a) /\ At(a) = Fresh /\ Answered(c) /\ At(c) = Fresh
      BY <3>1, FreshAnswers
    <3>4. At(c).inspector.records # {} /\ "INACTIVE" \notin At(c).inspector.records
      BY <1>1, <3>3
    <3>5. listed = {}
      BY <3>3, <3>4 DEF When
    <3>6. enabled = {}
      BY <1>1, <3>3 DEF When
    <3> HIDE DEF enabled, listed
    <3>7. QED
      BY <1>3, <3>2, <3>5, <3>6
  <2>3. QED
    BY <2>1, <2>2
<1>9. QED
  BY <1>4, <1>5, <1>6, <1>7, <1>8

LEMMA FreshDelivery ==
  ASSUME ReadWhole, NEW k \in DeliveryRoles, run.command \in {"doctor", "verify"}
  PROVE  \A c \in RoleChecks(k) : Passes(c)
<1>1. /\ k \in RoleKinds /\ Answered(<<"role", k>>) /\ At(<<"role", k>>) = Fresh
      /\ RoleThere(k)
  BY FreshAnswers, FreshStatements, DeliveryKinds
<1>2. Passes(RoleCheck(k))
  <2>1. RoleCheck(k) = Check({}, TRUE)
    BY <1>1 DEF RoleCheck, When
  <2>2. QED
    BY <2>1, RequiredPasses DEF Clean
<1>3. Passes(TrustCheck(k))
  <2>1. Fresh.roles[k].trust = BuildTrust(Intended(k)) /\ Intended(k) \in Contexts
    BY <1>1, FreshRoles DEF ReadWhole, Intended, IntendedContext, Contexts
  <2>2. EvaluateTrust(Fresh.roles[k].trust, Intended(k)) = {}
    BY <2>1, GeneratedTrust
  <2>3. TrustCheck(k) = Check({}, TRUE)
    BY <1>1, <2>2 DEF TrustCheck, When, ReadWhole
  <2>4. QED
    BY <2>3, RequiredPasses DEF Clean
<1>4. ASSUME run.command = "doctor"
      PROVE  Passes(Check(IF RoleThere(k) THEN PermissionsCheck(k) ELSE {"NOT VERIFIED"}, TRUE))
  BY <1>1, FreshAccess, AccessTyped, RequiredPasses
<1>5. Passes(Check(RequiredAccess(k), TRUE)) /\ Passes(Check(DeniedAccess(k), TRUE))
  <2>1. Clean(RequiredAccess(k)) /\ Clean(DeniedAccess(k))
    BY <1>1, FreshAccess DEF Clean
  <2>2. QED
    BY <1>1, <2>1, AccessTyped, RequiredPasses
<1>6. QED
  BY <1>2, <1>3, <1>4, <1>5 DEF RoleChecks

LEMMA FreshSeparation ==
  ASSUME ReadWhole
  PROVE  Passes(SeparationCheck)
<1> DEFINE one == At(<<"role", "push">>).roles["push"].id
                  = At(<<"role", "deploy">>).roles["deploy"].id
           apart == IF ~RoleThere("push") \/ ~RoleThere("deploy") THEN {"NOT VERIFIED"}
                    ELSE When(one, "FAIL")
           jobs == UNION { IF ~Simulates(x[1]) THEN {"NOT VERIFIED"}
                           ELSE When(Simulation(x[1], x[2]).decision = "allowed", "FAIL")
                           : x \in {<<"push", On("send", "instance")>>,
                                    <<"deploy", On("push", "repository")>>} }
<1>1. SeparationCheck = Check(apart \cup jobs, TRUE)
  BY DEF SeparationCheck
<1>2. apart = {}
  <2>1. ~one
    BY FreshAnswers, FreshAssumption DEF AsGenerated, RoleKinds
  <2>2. RoleThere("push") /\ RoleThere("deploy")
    BY FreshStatements DEF RoleKinds
  <2>3. QED
    BY <2>1, <2>2 DEF When
<1>3. jobs = {}
  <2>1. ASSUME NEW x \in {<<"push", On("send", "instance")>>, <<"deploy", On("push", "repository")>>}
        PROVE  Simulates(x[1]) /\ Simulation(x[1], x[2]).decision # "allowed"
    <3>1. x[1] \in DeliveryRoles /\ x[1] \in RoleKinds
      BY DEF DeliveryRoles, RoleKinds
    <3>2. <<x[2], "FAIL">> \in DeniedProbes(x[1])
      <4>1. CASE x = <<"push", On("send", "instance")>>
        BY <4>1 DEF DeniedProbes, Forbidden
      <4>2. CASE x = <<"deploy", On("push", "repository")>>
        BY <4>2 DEF DeniedProbes, Forbidden
      <4>3. QED
        BY <4>1, <4>2
    <3>3. Simulated(Fresh.roles[x[1]], x[2]).decision = "implicitDeny"
      <4>1. Simulated(Fresh.roles[x[1]], (<<x[2], "FAIL">>)[1]).decision = "implicitDeny"
        BY <3>1, <3>2, FreshDoes
      <4>2. QED
        BY <4>1
    <3>4. QED
      BY <3>1, <3>3, FreshStatements
  <2>2. QED
    BY <2>1 DEF When
<1> HIDE DEF apart, jobs
<1>4. QED
  BY <1>1, <1>2, <1>3, RequiredPasses DEF Clean

LEMMA FreshInstance ==
  ASSUME ReadWhole
  PROVE  \A c \in InstanceChecks : Passes(c)
<1> DEFINE r == <<"instance", Account>>
           profile == <<"profile", Account>>
           running == IF ~Answered(r) THEN {"NOT VERIFIED"}
                      ELSE When(At(r).instance # "running", "FAIL")
           online == IF ~Answered(<<"agent", Account>>) THEN {"NOT VERIFIED"}
                     ELSE When(~Online, "FAIL")
           role == IF ~Answered(r) \/ At(r).instance = "absent" THEN {"NOT VERIFIED"}
                   ELSE IF At(r).profile # "ours" THEN {"FAIL"}
                   ELSE IF ~Answered(profile) THEN {"NOT VERIFIED"}
                   ELSE IF ~ProfileRole THEN {"FAIL"}
                   ELSE IF ~RoleRead("instance") THEN {"NOT VERIFIED"}
                   ELSE IF /\ run.command = "verify" /\ Complete("instance")
                           /\ Administrators(Statements("instance")) = {}
                   THEN RequiredAccess("instance") \cup DeniedAccess("instance")
                   ELSE PermissionsCheck("instance")
<1>1. InstanceChecks = {Check(running, TRUE), Check(online, TRUE), Check(role, TRUE)}
  BY DEF InstanceChecks
<1>2. /\ Fresh.instance = "running" /\ Fresh.agent = "Online" /\ Fresh.profile = "ours"
      /\ Fresh.profileRoles = 1
  BY FreshAssumption DEF AsGenerated
<1>3. running = {} /\ online = {}
  BY <1>2, FreshAnswers DEF When, Online, AccountReads
<1>4. "instance" \in RoleKinds
  BY DEF RoleKinds
<1>5. /\ Answered(r) /\ At(r) = Fresh /\ Answered(profile) /\ ProfileRole
      /\ RoleRead("instance")
  BY <1>2, <1>4, FreshAnswers, FreshStatements DEF ProfileRole, AccountReads
<1>6. role = IF /\ run.command = "verify" /\ Complete("instance")
                /\ Administrators(Statements("instance")) = {}
             THEN RequiredAccess("instance") \cup DeniedAccess("instance")
             ELSE PermissionsCheck("instance")
  BY <1>2, <1>5
<1> HIDE DEF role
<1>7. role \subseteq Severities /\ Clean(role)
  BY <1>4, <1>6, AccessTyped, FreshAccess
<1>8. QED
  BY <1>1, <1>3, <1>7, RequiredPasses DEF Clean

LEMMA FreshOwned ==
  ASSUME ReadWhole, NEW x \in {"provider", "repository", "push", "deploy"}
  PROVE  Passes(OwnershipCheck(x))
<1> DEFINE r == <<"stacks", Account>>
           there == CASE x = "provider" -> /\ Answered(<<"provider", Account>>)
                                           /\ At(<<"provider", Account>>).provider # "absent"
                      [] x = "repository" -> RepositoryThere
                      [] OTHER -> RoleThere(x)
           managed == x \in run.managed
           findings == IF ~there \/ ~Answered(r) THEN {"NOT VERIFIED"}
                       ELSE IF managed THEN When(~Owned(At(r).owner[x]) \/ OfAnother(x), "FAIL")
                       ELSE When(At(r).owner[x] # "others" /\ ~OfAnother(x), "WARN")
<1>1. OwnershipCheck(x) = Check(findings, managed)
  BY Zenon DEF OwnershipCheck
<1>2. /\ Fresh.provider = "ours" /\ Fresh.repository.exists /\ Fresh.owner[x] = "ours"
  BY FreshAssumption DEF AsGenerated
<1>3. there /\ Answered(r) /\ At(r) = Fresh
  BY <1>2, FreshAnswers, FreshStatements DEF RoleKinds, AccountReads, RepositoryThere
<1>4. ~OfAnother(x)
  <2>1. \A y \in {"repository", "push", "deploy"} : Fresh.consumer[y] # "other"
    BY FreshAssumption DEF AsGenerated
  <2>2. At(<<"tags", Account>>) = Fresh /\ \A k \in DeliveryRoles : At(<<"role", k>>) = Fresh
    BY FreshAnswers DEF AccountReads, DeliveryRoles, RoleKinds
  <2>3. QED
    BY <2>1, <2>2 DEF OfAnother, DeliveryRoles
<1> HIDE DEF there, managed
<1>5. findings \subseteq {"WARN"}
  BY <1>2, <1>3, <1>4 DEF When, Owned
<1> HIDE DEF findings
<1>6. managed \in BOOLEAN
  BY DEF managed
<1>7. QED
  BY <1>1, <1>5, <1>6, RequiredPasses, OptionalPasses DEF Clean, Severities

LEMMA FreshPasses ==
  ASSUME ReadWhole, run.command \in {"doctor", "verify"}
  PROVE  \A c \in Checks : Passes(c)
<1> DEFINE delivery == UNION {RoleChecks(k) : k \in DeliveryRoles}
           separation == IF run.command = "verify" THEN {SeparationCheck} ELSE {}
           ownership == {OwnershipCheck(x) : x \in {"provider", "repository", "push", "deploy"}}
<1>1. Checks = {ProviderCheck, SubjectFormatCheck, ScanningCheck} \cup RepositoryChecks
                 \cup InspectorChecks \cup InstanceChecks \cup delivery
                 \cup separation \cup ownership
  BY DEF Checks
<1>2. \A c \in delivery : Passes(c)
  BY FreshDelivery
<1>3. \A c \in separation : Passes(c)
  BY FreshSeparation
<1>4. \A c \in ownership : Passes(c)
  BY FreshOwned
<1> HIDE DEF delivery, separation, ownership
<1>5. QED
  BY <1>1, <1>2, <1>3, <1>4, FreshResources, FreshInstance

-----------------------------------------------------------------------------
(* The run.                                                                *)

\* What an undisturbed run has read so far, if the account is the one just deployed.
ReadSoFar ==
  upsets = 0 /\ seen = {Fresh} =>
    \A i \in 1 .. 20 : i < run.next /\ Asked(Reads[i]) => Answered(Reads[i])

ReadinessInv ==
  /\ account \in Seq(Worlds) /\ Len(account) > 0 /\ upsets \in Nat
  /\ run \in [command : {"doctor", "verify"}, managed : Managed, environment : BOOLEAN,
              next : 1 .. 22, exit : {0, 1, Running}]
  /\ answers \in [ReadSet -> Nat]
  /\ run.exit # Running => run.next = 22
  /\ ReadSoFar
  /\ ReadinessIsReal

LEMMA ReadsAt ==
  /\ Reads[1] = <<"provider", Account>> /\ Reads[2] = <<"repository", Account>>
  /\ Reads[3] = <<"repository-policy", Account>> /\ Reads[4] = <<"tags", Account>>
  /\ Reads[5] = <<"scanning", Account>> /\ Reads[6] = <<"inspector", Account>>
  /\ Reads[7] = <<"coverage", Account>>
  /\ Reads[8] = <<"role", "push">> /\ Reads[9] = <<"policies", "push">>
  /\ Reads[10] = <<"simulation", "push">>
  /\ Reads[11] = <<"role", "deploy">> /\ Reads[12] = <<"policies", "deploy">>
  /\ Reads[13] = <<"simulation", "deploy">>
  /\ Reads[14] = <<"instance", Account>> /\ Reads[15] = <<"agent", Account>>
  /\ Reads[16] = <<"profile", Account>>
  /\ Reads[17] = <<"role", "instance">> /\ Reads[18] = <<"policies", "instance">>
  /\ Reads[19] = <<"simulation", "instance">> /\ Reads[20] = <<"stacks", Account>>
BY DEF Reads

LEMMA FreshOnly ==
  ASSUME seen = {Fresh}
  PROVE  \A r : Answered(r) => At(r) = Fresh
BY DEF Answered, At, seen

\* What is asked for is asked: what it depends on was answered before.
LEMMA AsksInOrder ==
  ASSUME seen = {Fresh}, NEW n \in 1 .. 20, Asked(Reads[n]),
         \A i \in 1 .. 20 : i < n /\ Asked(Reads[i]) => Answered(Reads[i])
  PROVE  Asks(Reads[n])
<1>1. \A i \in 1 .. 20 : i < n /\ Asked(Reads[i]) => Answered(Reads[i]) /\ At(Reads[i]) = Fresh
  BY FreshOnly
<1>2. /\ \A k \in RoleKinds : Fresh.roles[k].exists /\ Fresh.roles[k].sameArn
      /\ Fresh.profile = "ours" /\ Fresh.profileRoles = 1
  BY FreshRoles, FreshAssumption DEF AsGenerated
<1>3. n \in {3, 4} \/ n \in {1, 2, 5, 8, 11, 14, 15, 20} \/ n \in {6, 7} \/ n \in {9, 10}
      \/ n \in {12, 13} \/ n = 16 \/ n = 17 \/ n \in {18, 19}
  OBVIOUS
<1>4. CASE n \in {1, 2, 5, 8, 11, 14, 15, 20}
  BY <1>4, ReadsAt DEF Asks, Account
<1>5. CASE n \in {6, 7}
  <2>1. Answered(<<"scanning", Account>>) /\ At(<<"scanning", Account>>) = Fresh
    <3>1. Asked(Reads[5]) /\ 5 < n
      BY <1>5, ReadsAt DEF Asked
    <3>2. Answered(Reads[5]) /\ At(Reads[5]) = Fresh
      BY <1>1, <3>1
    <3>3. QED
      BY <3>2, ReadsAt
  <2>2. Fresh.scanning.type = "ENHANCED"
    BY <1>5, ReadsAt DEF Asked
  <2>3. Enhanced = "yes"
    BY <2>1, <2>2 DEF Enhanced
  <2>4. QED
    BY <1>5, <2>3, ReadsAt DEF Asks
<1>6. CASE n \in {9, 10}
  <2>1. Answered(<<"role", "push">>) /\ At(<<"role", "push">>) = Fresh
    <3>1. Asked(Reads[8]) /\ 8 < n
      BY <1>6, ReadsAt DEF Asked
    <3>2. Answered(Reads[8]) /\ At(Reads[8]) = Fresh
      BY <1>1, <3>1
    <3>3. QED
      BY <3>2, ReadsAt
  <2>2. RoleThere("push")
    BY <1>2, <2>1 DEF RoleThere, RoleRead, RoleKinds
  <2>3. QED
    BY <1>6, <2>2, ReadsAt DEF Asks
<1>7. CASE n \in {12, 13}
  <2>1. Answered(<<"role", "deploy">>) /\ At(<<"role", "deploy">>) = Fresh
    <3>1. Asked(Reads[11]) /\ 11 < n
      BY <1>7, ReadsAt DEF Asked
    <3>2. Answered(Reads[11]) /\ At(Reads[11]) = Fresh
      BY <1>1, <3>1
    <3>3. QED
      BY <3>2, ReadsAt
  <2>2. RoleThere("deploy")
    BY <1>2, <2>1 DEF RoleThere, RoleRead, RoleKinds
  <2>3. QED
    BY <1>7, <2>2, ReadsAt DEF Asks
<1>8. CASE n = 16
  <2>1. Answered(<<"instance", Account>>) /\ At(<<"instance", Account>>) = Fresh
    <3>1. Asked(Reads[14]) /\ 14 < n
      BY <1>8, ReadsAt DEF Asked
    <3>2. Answered(Reads[14]) /\ At(Reads[14]) = Fresh
      BY <1>1, <3>1
    <3>3. QED
      BY <3>2, ReadsAt
  <2>2. QED
    BY <1>2, <1>8, <2>1, ReadsAt DEF Asks
<1>9. CASE n = 17
  <2>1. Answered(<<"profile", Account>>) /\ At(<<"profile", Account>>) = Fresh
    <3>1. Asked(Reads[16]) /\ 16 < n
      BY <1>9, ReadsAt DEF Asked
    <3>2. Answered(Reads[16]) /\ At(Reads[16]) = Fresh
      BY <1>1, <3>1
    <3>3. QED
      BY <3>2, ReadsAt
  <2>2. ProfileRole
    BY <1>2, <2>1 DEF ProfileRole
  <2>3. QED
    BY <1>9, <2>2, ReadsAt DEF Asks
<1>10. CASE n \in {18, 19}
  <2>1. Answered(<<"role", "instance">>) /\ At(<<"role", "instance">>) = Fresh
    <3>1. Asked(Reads[17]) /\ 17 < n
      BY <1>10, ReadsAt DEF Asked
    <3>2. Answered(Reads[17]) /\ At(Reads[17]) = Fresh
      BY <1>1, <3>1
    <3>3. QED
      BY <3>2, ReadsAt
  <2>2. RoleRead("instance")
    BY <1>2, <2>1 DEF RoleRead, RoleKinds
  <2>3. n = 19 => run.command = "verify"
    BY ReadsAt DEF Asked
  <2>4. QED
    BY <1>10, <2>2, <2>3, ReadsAt DEF Asks
<1>11. CASE n \in {3, 4}
  <2>1. Answered(<<"repository", Account>>) /\ At(<<"repository", Account>>) = Fresh
    <3>1. Asked(Reads[2]) /\ 2 < n
      BY <1>11, ReadsAt DEF Asked
    <3>2. Answered(Reads[2]) /\ At(Reads[2]) = Fresh
      BY <1>1, <3>1
    <3>3. QED
      BY <3>2, ReadsAt
  <2>2. RepositoryThere
    BY <2>1, FreshAssumption DEF RepositoryThere, AsGenerated
  <2>3. QED
    BY <1>11, <2>2, ReadsAt DEF Asks
<1>12. QED
  BY <1>3, <1>4, <1>5, <1>6, <1>7, <1>8, <1>9, <1>10, <1>11

\* The invariant does not depend on how far the run is.
LEMMA SameBoundary ==
  ASSUME UNCHANGED <<account, answers>>, run'.command = run.command,
         run'.managed = run.managed, run'.environment = run.environment
  PROVE  (BoundarySeen' <=> BoundarySeen) /\ (RepositorySeen' <=> RepositorySeen)
<1>1. seen' = seen /\ \A k : Intended(k)' = Intended(k)
  BY DEF seen, Intended
<1>2. \A what : Told(what)' <=> Told(what)
  BY DEF Told, Answered, At
<1>3. BoundarySeen' <=> BoundarySeen
  BY <1>1 DEF BoundarySeen, Sometime
<1>4. RepositorySeen' <=> RepositorySeen
  BY <1>1, <1>2 DEF RepositorySeen, Sometime
<1>5. QED
  BY <1>3, <1>4

\* The run is a record of its fields, and one that goes on has no exit code.
LEMMA RunFields ==
  ASSUME ReadinessInv
  PROVE  /\ run.command \in {"doctor", "verify"} /\ run.managed \in Managed
         /\ run.environment \in BOOLEAN /\ run.next \in 1 .. 22
         /\ run.exit \in {0, 1, Running} /\ (run.next # 22 => run.exit = Running)
         /\ ReadSoFar
         /\ \A m \in 1 .. 22, e \in {0, 1, Running} :
              [run EXCEPT !.next = m, !.exit = e] \in
                [command : {"doctor", "verify"}, managed : Managed, environment : BOOLEAN,
                 next : 1 .. 22, exit : {0, 1, Running}]
BY DEF ReadinessInv

LEMMA InitVerify == AwsVerifyInit => ReadinessInv
<1> SUFFICES ASSUME AwsVerifyInit PROVE ReadinessInv
  OBVIOUS
<1>1. PICK w \in Worlds : account = <<w>>
  BY DEF AwsVerifyInit
<1>2. /\ run \in [command : {"doctor", "verify"}, managed : Managed, environment : BOOLEAN,
                  next : {1}, exit : {Running}]
      /\ upsets = 0 /\ answers \in [ReadSet -> Nat]
  BY DEF AwsVerifyInit, Unasked
<1>3. account \in Seq(Worlds) /\ Len(account) > 0
  BY <1>1
<1>4. ReadSoFar
  BY <1>2 DEF ReadSoFar
<1>5. ReadinessIsReal
  BY <1>2 DEF ReadinessIsReal, Running
<1>6. QED
  BY <1>2, <1>3, <1>4, <1>5 DEF ReadinessInv, Running

LEMMA ReadVerify == ReadinessInv /\ Read => ReadinessInv'
<1> SUFFICES ASSUME ReadinessInv, Read PROVE ReadinessInv'
  OBVIOUS
<1> DEFINE n == run.next
           r == Reads[n]
<1>1. /\ n \in 1 .. 20 /\ run' = [run EXCEPT !.next = n + 1] /\ UNCHANGED account
      /\ r \in ReadSet
  BY ReadsAre DEF Read, ReadSet
<1>2. /\ run.exit = Running /\ run'.exit = Running /\ run'.next = n + 1
      /\ run'.command = run.command
      /\ run' \in [command : {"doctor", "verify"}, managed : Managed, environment : BOOLEAN,
                   next : 1 .. 22, exit : {0, 1, Running}]
  <2>1. run.exit = Running /\ n + 1 \in 1 .. 22
    BY <1>1, RunFields
  <2>2. run' = [run EXCEPT !.next = n + 1, !.exit = Running]
    BY <1>1, <2>1 DEF ReadinessInv
  <2>3. run' \in [command : {"doctor", "verify"}, managed : Managed, environment : BOOLEAN,
                 next : 1 .. 22, exit : {0, 1, Running}]
    BY <2>1, <2>2, RunFields
  <2>4. run'.exit = Running /\ run'.next = n + 1 /\ run'.command = run.command
    BY <2>2 DEF ReadinessInv
  <2>5. QED
    BY <2>1, <2>3, <2>4
<1>3. /\ upsets' \in Nat /\ answers' \in [ReadSet -> Nat]
      /\ upsets' = 0 => upsets = 0 /\ (Asks(r) => answers' = [answers EXCEPT ![r] = Len(account)])
                      /\ (~Asks(r) => answers' = answers)
  BY <1>1, AwsVerifyAssumption DEF Read, ReadinessInv, Unanswered
<1>4. ASSUME upsets' = 0, seen' = {Fresh}, NEW i \in 1 .. 20, i < n + 1, Asked(Reads[i])'
      PROVE  Answered(Reads[i])'
  <2>1. seen = {Fresh} /\ Asked(Reads[i]) /\ upsets = 0
    <3>1. seen' = seen /\ (Asked(Reads[i])' <=> Asked(Reads[i]))
      BY <1>1, <1>2 DEF seen, Asked
    <3>2. QED
      BY <1>3, <1>4, <3>1
  <2>2. \A j \in 1 .. 20 : j < n /\ Asked(Reads[j]) => Answered(Reads[j])
    BY <2>1, RunFields DEF ReadSoFar
  <2>3. Reads[i] \in ReadSet /\ Len(account) \in DOMAIN account
    BY ReadsAre, SMTT(30) DEF ReadSet, ReadinessInv
  <2>4. CASE i = n
    <3>1. Asks(r)
      BY <1>1, <2>1, <2>2, <2>4, AsksInOrder
    <3>2. answers'[Reads[i]] = Len(account)
      BY <1>1, <1>3, <1>4, <2>4, <3>1 DEF ReadinessInv
    <3>3. QED
      BY <1>1, <2>3, <3>2 DEF Answered
  <2>5. CASE i < n
    <3>1. answers[Reads[i]] \in DOMAIN account
      BY <2>1, <2>2, <2>5 DEF Answered
    <3>2. answers'[Reads[i]] \in {answers[Reads[i]], Len(account)}
      BY <1>1, <1>3, <1>4, <2>3 DEF ReadinessInv
    <3>3. QED
      BY <1>1, <2>3, <3>1, <3>2 DEF Answered
  <2>6. QED
    BY <1>1, <1>4, <2>4, <2>5
<1>5. ReadSoFar'
  BY <1>2, <1>4 DEF ReadSoFar
<1>6. ReadinessIsReal'
  BY <1>2 DEF ReadinessIsReal, Running
<1>7. QED
  BY <1>1, <1>2, <1>3, <1>5, <1>6 DEF ReadinessInv

LEMMA ReportVerify == ReadinessInv /\ Report => ReadinessInv'
<1> SUFFICES ASSUME ReadinessInv, Report PROVE ReadinessInv'
  OBVIOUS
<1>1. /\ run.next = 21 /\ run' = [run EXCEPT !.next = 22, !.exit = OutcomeOf(Checks)]
      /\ UNCHANGED <<account, answers, upsets>>
  BY ReadsAre DEF Report
<1>2. OutcomeOf(Checks) \in {0, 1} /\ (OutcomeOf(Checks) = 0 <=> \A c \in Checks : Passes(c))
  BY SuccessMeansPasses
<1>3. /\ run'.next = 22 /\ run'.exit = OutcomeOf(Checks) /\ run'.command = run.command
      /\ run'.managed = run.managed /\ run'.environment = run.environment
      /\ run' \in [command : {"doctor", "verify"}, managed : Managed, environment : BOOLEAN,
                   next : 1 .. 22, exit : {0, 1, Running}]
  <2> DEFINE code == OutcomeOf(Checks)
  <2>1. code \in {0, 1, Running}
    BY <1>2
  <2> HIDE DEF code
  <2>2. run' = [run EXCEPT !.next = 22, !.exit = code]
    BY <1>1 DEF code
  <2>3. run' \in [command : {"doctor", "verify"}, managed : Managed, environment : BOOLEAN,
                 next : 1 .. 22, exit : {0, 1, Running}]
    <3>1. ASSUME NEW e \in {0, 1, Running}
          PROVE  [run EXCEPT !.next = 22, !.exit = e] \in
                   [command : {"doctor", "verify"}, managed : Managed, environment : BOOLEAN,
                    next : 1 .. 22, exit : {0, 1, Running}]
      <4>1. 22 \in 1 .. 22
        OBVIOUS
      <4>2. QED
        BY <4>1, RunFields
    <3>2. QED
      BY <2>1, <2>2, <3>1
  <2>4. /\ run'.next = 22 /\ run'.exit = code /\ run'.command = run.command
        /\ run'.managed = run.managed /\ run'.environment = run.environment
    BY <2>2 DEF ReadinessInv
  <2>5. QED
    BY <2>3, <2>4 DEF code
<1>4. ASSUME run'.exit = 0 PROVE (BoundarySeen /\ RepositorySeen)'
  <2>1. BoundarySeen /\ RepositorySeen
    BY <1>2, <1>3, <1>4, PassesMeanBoundary, RunFields DEF ReadinessInv, RunTyped
  <2>2. QED
    BY <1>1, <1>3, <2>1, SameBoundary
<1>5. ASSUME seen = {Fresh}, upsets = 0, run.environment PROVE OutcomeOf(Checks) = 0
  <2>1. \A r \in ReadSet : \E i \in 1 .. 20 : r = Reads[i]
    BY ReadsAre DEF ReadSet
  <2>2. \A i \in 1 .. 20 : Asked(Reads[i]) => Answered(Reads[i])
    BY <1>1, <1>5, RunFields, SMTT(30) DEF ReadSoFar
  <2>3. ReadWhole
    BY <1>5, <2>1, <2>2, FreshOnly DEF ReadWhole
  <2>4. QED
    BY <1>2, <2>3, FreshPasses, RunFields
<1>6. ReadSoFar'
  <2>1. ASSUME upsets' = 0, seen' = {Fresh}, NEW i \in 1 .. 20, Asked(Reads[i])'
        PROVE  Answered(Reads[i])'
    <3>1. seen = {Fresh} /\ upsets = 0 /\ Asked(Reads[i])
      BY <1>1, <1>3, <2>1 DEF seen, Asked
    <3>2. Answered(Reads[i])
      BY <1>1, <3>1, RunFields, SMTT(30) DEF ReadSoFar
    <3>3. QED
      BY <1>1, <3>2 DEF Answered
  <2>2. QED
    BY <2>1 DEF ReadSoFar
<1>7. ReadinessIsReal'
  <2>1. seen' = seen
    BY <1>1 DEF seen
  <2>2. ASSUME run'.exit = 1 PROVE seen # {Fresh} \/ upsets > 0 \/ ~run.environment
    BY <1>3, <1>5, <2>2 DEF ReadinessInv
  <2>3. QED
    BY <1>1, <1>3, <1>4, <2>1, <2>2 DEF ReadinessIsReal
<1>8. QED
  BY <1>1, <1>3, <1>6, <1>7 DEF ReadinessInv

LEMMA OthersVerify == ReadinessInv /\ OthersChangeAccount => ReadinessInv'
<1> SUFFICES ASSUME ReadinessInv, OthersChangeAccount PROVE ReadinessInv'
  OBVIOUS
<1>1. PICK w \in Worlds : account' = Append(account, w)
  BY AwsVerifyAssumption DEF OthersChangeAccount
<1>2. account' \in Seq(Worlds) /\ Len(account') > 0
  BY <1>1 DEF ReadinessInv
<1>3. upsets' \in Nat /\ upsets' > 0 /\ UNCHANGED <<run, answers>> /\ run.next \in 1 .. 20
  BY ReadsAre DEF OthersChangeAccount, ReadinessInv
<1>4. ReadSoFar' /\ ReadinessIsReal'
  BY <1>3, SMTT(30) DEF ReadSoFar, ReadinessIsReal, ReadinessInv, Running
<1>5. QED
  BY <1>2, <1>3, <1>4 DEF ReadinessInv

LEMMA StutterVerify == ReadinessInv /\ UNCHANGED awsVerifyVars => ReadinessInv'
<1> SUFFICES ASSUME ReadinessInv, UNCHANGED awsVerifyVars PROVE ReadinessInv'
  OBVIOUS
<1>1. UNCHANGED <<account, run, answers, upsets>>
  BY DEF awsVerifyVars
<1>2. /\ seen' = seen /\ (BoundarySeen' <=> BoundarySeen)
      /\ (RepositorySeen' <=> RepositorySeen)
  BY <1>1, SameBoundary DEF seen
<1>3. ReadSoFar' /\ ReadinessIsReal'
  BY <1>1, <1>2 DEF ReadinessInv, ReadSoFar, ReadinessIsReal, Asked, Answered
<1>4. QED
  BY <1>1, <1>3 DEF ReadinessInv

\* doctor and verify say only what they have seen, whatever the account holds, whatever is
\* not answered and however often others change it.
THEOREM ReadinessHolds == AwsVerifySpec => []ReadinessIsReal
<1>1. ReadinessInv /\ [AwsVerifyNext]_awsVerifyVars => ReadinessInv'
  BY ReadVerify, ReportVerify, OthersVerify, StutterVerify DEF AwsVerifyNext
<1>2. ReadinessInv => ReadinessIsReal
  BY DEF ReadinessInv
<1>3. QED
  BY InitVerify, <1>1, <1>2, PTL DEF AwsVerifySpec

=============================================================================
