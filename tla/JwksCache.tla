------------------------------ MODULE JwksCache -----------------------------
(***************************************************************************)
(* The broker's cache of GitHub's signing keys (createJwksCache): one      *)
(* shared fetch, a time to live after which the keys are dropped, and a    *)
(* throttle on the fetches that a token with an unknown key may cause.     *)
(*                                                                         *)
(* The issuer publishes key k from From[k] until Until[k], for good: a key *)
(* that is withdrawn does not come back.  A kid that no key ever had is a  *)
(* k whose interval is empty.                                              *)
(***************************************************************************)
EXTENDS Integers

CONSTANTS Kids,                \* key identifiers that tokens name
          Callers,             \* concurrent getKey calls
          From, Until,         \* when the issuer publishes each key
          Ttl,                 \* JWKS_TTL_MS
          MinRefreshInterval,  \* JWKS_MIN_REFRESH_INTERVAL_MS
          FetchTimeout,        \* JWKS_FETCH_TIMEOUT_MS
          MaxTime              \* bound on the clock

ASSUME JwksAssumption ==
  /\ From \in [Kids -> Nat] /\ Until \in [Kids -> Nat]
  /\ Ttl \in Nat \ {0} /\ MinRefreshInterval \in Nat /\ FetchTimeout \in Nat
  /\ MaxTime \in Nat

\* The two constants' order: 60 s against 10 minutes.
ASSUME IntervalAssumption == MinRefreshInterval <= Ttl

VARIABLES now,
          keys,           \* the cached key set, or NoKeys
          fetchedAt,      \* when they arrived
          lastAttemptAt,  \* when the last fetch began
          inFlight,       \* a fetch is under way
          body,           \* what the issuer answered it, NoKeys until it has
          failed,         \* the last fetch that ended failed
          call            \* of each caller: its state, kid and last step

vars == <<now, keys, fetchedAt, lastAttemptAt, inFlight, body, failed, call>>

cache == <<keys, fetchedAt, lastAttemptAt, inFlight, body, failed>>

\* A key set, by its kids; NoKeys where there is none (null).
KeySet == [some : BOOLEAN, kids : SUBSET Kids]
NoKeys == [some |-> FALSE, kids |-> {}]
Keys(S) == [some |-> TRUE, kids |-> S]

Published == {k \in Kids : From[k] <= now /\ now < Until[k]}

\* -Infinity in the code: an attempt that no throttle can still count.
Init ==
  /\ now = 0 /\ keys = NoKeys /\ fetchedAt = 0
  /\ lastAttemptAt = 0 - Ttl
  /\ inFlight = FALSE /\ body = NoKeys /\ failed = FALSE
  /\ call \in [Callers -> [state : {"idle"}, kid : Kids, at : {0}]]

Step(c, s, k) == call' = [call EXCEPT ![c] = [state |-> s, kid |-> k, at |-> now]]

StaleOnlyIfUnloaded == ~keys.some
Stale == ~keys.some \/ now - fetchedAt >= Ttl

ThrottledNever == FALSE
ThrottledSinceFetch == now - fetchedAt < Ttl
Throttled == now - lastAttemptAt < MinRefreshInterval

\* refresh: joins the fetch under way, or begins one.
Refresh ==
  IF inFlight THEN UNCHANGED <<lastAttemptAt, inFlight, body>>
  ELSE lastAttemptAt' = now /\ inFlight' = TRUE /\ body' = NoKeys

\* getKey, up to the point where it answers or awaits the fetch.
GetKey(c, k) ==
  /\ call[c].state # "waiting"
  /\ \/ /\ Stale
        /\ keys' = NoKeys /\ Refresh /\ Step(c, "waiting", k)
     \/ /\ ~Stale /\ k \in keys.kids
        /\ Step(c, "accepted", k) /\ UNCHANGED <<keys, lastAttemptAt, inFlight, body>>
     \/ /\ ~Stale /\ k \notin keys.kids /\ Throttled
        /\ Step(c, "unknown_kid", k) /\ UNCHANGED <<keys, lastAttemptAt, inFlight, body>>
     \/ /\ ~Stale /\ k \notin keys.kids /\ ~Throttled
        /\ Refresh /\ Step(c, "waiting", k) /\ UNCHANGED keys
  /\ UNCHANGED <<now, fetchedAt, failed>>

\* The issuer answers with the keys it publishes at that moment; the answer
\* may take the rest of the fetch's time to arrive.
Respond ==
  /\ inFlight /\ ~body.some
  /\ body' = Keys(Published)
  /\ UNCHANGED <<now, keys, fetchedAt, lastAttemptAt, inFlight, failed, call>>

\* The callers that await the fetch run before anything else does.
Resume(accepted, otherwise) ==
  call' = [c \in Callers |->
             IF call[c].state = "waiting"
             THEN [state |-> IF call[c].kid \in accepted THEN "accepted" ELSE otherwise,
                   kid |-> call[c].kid, at |-> now]
             ELSE call[c]]

\* load ends well: the keys are replaced, and only now counted as fetched.
Loaded ==
  /\ inFlight /\ body.some
  /\ keys' = body /\ fetchedAt' = now
  /\ inFlight' = FALSE /\ body' = NoKeys /\ failed' = FALSE
  /\ Resume(body.kids, "unknown_kid")
  /\ UNCHANGED <<now, lastAttemptAt>>

\* An error status, a malformed or oversized document, a lost connection or the
\* timeout: the cached keys, if any, stay.
LoadFailed ==
  /\ inFlight
  /\ inFlight' = FALSE /\ body' = NoKeys /\ failed' = TRUE
  /\ Resume({}, "unavailable")
  /\ UNCHANGED <<now, keys, fetchedAt, lastAttemptAt>>

\* A fetch is aborted after FetchTimeout.
Tick ==
  /\ now < MaxTime /\ now' = now + 1
  /\ inFlight => now' <= lastAttemptAt + FetchTimeout
  /\ UNCHANGED <<cache, call>>

Next ==
  \/ \E c \in Callers, k \in Kids : GetKey(c, k)
  \/ Respond
  \/ Loaded
  \/ LoadFailed
  \/ Tick

Spec == Init /\ [][Next]_vars

-----------------------------------------------------------------------------
TypeOK ==
  /\ now \in Nat /\ fetchedAt \in Nat /\ lastAttemptAt \in Int
  /\ keys \in KeySet /\ body \in KeySet
  /\ inFlight \in BOOLEAN /\ failed \in BOOLEAN
  /\ call \in [Callers -> [state : {"idle", "waiting", "accepted", "unknown_kid", "unavailable"},
                           kid : Kids, at : Nat]]

\* A withdrawn key dies: a caller is given a key only if the issuer published it
\* once, and at most the time to live and one fetch ago.
WithdrawnKeysDie ==
  \A c \in Callers : call[c].state = "accepted" =>
    /\ From[call[c].kid] <= call[c].at
    /\ call[c].at < Until[call[c].kid] + Ttl + FetchTimeout

\* A rotated-in key is found: a kid is called unknown while the issuer publishes
\* it only within the throttle's interval (or one fetch) of its publication, or
\* when the fetch that should have brought it failed or is not back yet.
RotatedKeysAreFound ==
  [][\A c \in Callers :
       LET k == call'[c].kid IN
       /\ call'[c] # call[c] /\ call'[c].state = "unknown_kid"
       /\ k \in Published
       => \/ now < From[k] + MinRefreshInterval
          \/ now <= From[k] + FetchTimeout
          \/ failed' \/ inFlight']_vars

\* While fetches succeed they are MinRefreshInterval apart, whatever kids the
\* tokens name and however many callers there are.
FetchesAreSpaced ==
  [][lastAttemptAt' # lastAttemptAt /\ ~failed
       => lastAttemptAt' - lastAttemptAt >= MinRefreshInterval]_vars

\* The comment on JWKS_MIN_REFRESH_INTERVAL_MS, which makes no exception for
\* failing fetches: a token whose kid the issuer never published forces at most
\* one fetch per interval.
UnknownKidsAreThrottled ==
  [][\A c \in Callers :
       /\ lastAttemptAt' # lastAttemptAt
       /\ call'[c] # call[c] /\ From[call'[c].kid] >= Until[call'[c].kid]
       => lastAttemptAt' - lastAttemptAt >= MinRefreshInterval]_vars

=============================================================================
