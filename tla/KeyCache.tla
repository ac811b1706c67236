------------------------------ MODULE KeyCache ------------------------------
(* The signing-key cache of chat/keycloak_auth.go.  Requests look a key up *)
(* in a cache that one mutex guards; a request that misses takes a gate    *)
(* that lets one of them fetch at a time, looks again, and fetches the     *)
(* issuer's key set with its own context.  A key is a key ID with its      *)
(* algorithm: a token that names a known ID with another algorithm asks    *)
(* for a key that the issuer never publishes.  Times are kept as what is   *)
(* left of them, and ages up to the largest that a property tells apart.   *)
(* A look at the clock is one step with the look at the cache after it.    *)
EXTENDS Integers

CONSTANTS
  Nothing,
  Key,
  Request,
  Life,       \* jwksCacheLifetime
  Interval,   \* jwksRefreshMinInterval
  Timeout     \* jwksFetchTimeout

\* 5 minutes, 30 seconds and 5 seconds in the code.
ASSUME KeyCacheAssumption ==
  /\ Nothing \notin Request \cup Key
  /\ Timeout \in Nat /\ Interval \in Nat /\ Life \in Nat
  /\ Timeout < Interval /\ Interval < Life

VARIABLES
  status,       \* what the issuer does with a key: future, published, retired
  age,          \* the time since it last changed that, up to Horizon
  keys,         \* a.keys
  cacheExpiry,  \* the time left until a.cacheExpiry
  nextRefresh,  \* the time left until a.nextRefresh
  fetchGate,    \* the request in the gate while it fetches
  requests,
  answered,     \* whether the issuer has answered the fetch in flight
  document,     \* with which keys
  last,         \* the time since the last fetch started, up to Interval
  previous,     \* ghost: the same of the last but one
  failed        \* ghost: whether the last fetch that ended failed

issuer == <<status, age>>
cache == <<keys, cacheExpiry, nextRefresh>>
flight == <<answered, document>>
ghosts == <<last, previous, failed>>
kvars == <<issuer, cache, fetchGate, requests, flight, ghosts>>

\* How far back a property looks.
Horizon == Life + Timeout

Answers == {"served", "unknown", "failed"}

KTypeOK ==
  /\ status \in [Key -> {"future", "published", "retired"}]
  /\ age \in [Key -> 0..Horizon]
  /\ keys \subseteq Key
  /\ cacheExpiry \in 0..Life
  /\ nextRefresh \in 0..Interval
  /\ fetchGate \in Request \cup {Nothing}
  /\ requests \in [Request -> [pc: {"idle", "waiting", "fetching"} \cup Answers,
                               key: Key \cup {Nothing}, keepCooldown: BOOLEAN]]
  /\ answered \in BOOLEAN
  /\ document \subseteq Key
  /\ last \in 0..Interval
  /\ previous \in 0..Interval
  /\ failed \in BOOLEAN

NoLookup == [pc |-> "idle", key |-> Nothing, keepCooldown |-> FALSE]

KInit ==
  /\ status \in [Key -> {"future", "published"}]
  /\ age = [k \in Key |-> 0]
  /\ keys = {} /\ cacheExpiry = 0 /\ nextRefresh = 0
  /\ fetchGate = Nothing
  /\ requests = [r \in Request |-> NoLookup]
  /\ answered = FALSE /\ document = {}
  /\ last = Interval /\ previous = Interval /\ failed = FALSE

----------------------------------------------------------------------------
(* The issuer and the clock.                                               *)

Publish(k) ==
  /\ status[k] = "future"
  /\ status' = [status EXCEPT ![k] = "published"]
  /\ age' = [age EXCEPT ![k] = 0]
  /\ UNCHANGED <<cache, fetchGate, requests, flight, ghosts>>

Retire(k) ==
  /\ status[k] = "published"
  /\ status' = [status EXCEPT ![k] = "retired"]
  /\ age' = [age EXCEPT ![k] = 0]
  /\ UNCHANGED <<cache, fetchGate, requests, flight, ghosts>>

\* The issuer answers with the keys it publishes now.
Answer ==
  /\ fetchGate # Nothing /\ ~answered
  /\ answered' = TRUE
  /\ document' = {k \in Key : status[k] = "published"}
  /\ UNCHANGED <<issuer, cache, fetchGate, requests, ghosts>>

Older(t, cap) == IF t < cap THEN t + 1 ELSE t
Sooner(t) == IF t > 0 THEN t - 1 ELSE t

\* Time passes.  A fetch does not outlast its timeout.
Tick ==
  /\ fetchGate # Nothing => last < Timeout
  /\ age' = [k \in Key |-> Older(age[k], Horizon)]
  /\ cacheExpiry' = Sooner(cacheExpiry)
  /\ nextRefresh' = Sooner(nextRefresh)
  /\ last' = Older(last, Interval)
  /\ previous' = Older(previous, Interval)
  /\ UNCHANGED <<status, keys, fetchGate, requests, flight, failed>>

----------------------------------------------------------------------------
(* key.                                                                    *)

fresh == cacheExpiry > 0
cooldown == nextRefresh > 0

\* Mutant of Usable: keys are used for as long as they are in the map.
UsableForever(k) == k \in keys

Usable(k) == fresh /\ k \in keys

\* The request leaves key, with or without one.
ReturnKey(r, answer) ==
  requests' = [requests EXCEPT ![r].pc = answer, ![r].keepCooldown = FALSE]

\* The first look, by a request for k; it returns, or goes to wait at the gate.
LookUp(r, k) ==
  /\ requests[r].pc = "idle"
  /\ requests' =
       [requests EXCEPT ![r].pc = IF Usable(k) THEN "served"
                                  ELSE IF cooldown THEN "unknown" ELSE "waiting",
                        ![r].key = k]
  /\ UNCHANGED <<issuer, cache, fetchGate, flight, ghosts>>

\* The second look, in the gate, finds the key or finds the cooldown on.
EnterServed(r) ==
  /\ requests[r].pc = "waiting" /\ fetchGate = Nothing
  /\ Usable(requests[r].key)
  /\ ReturnKey(r, "served")
  /\ UNCHANGED <<issuer, cache, fetchGate, flight, ghosts>>

\* Mutant of EnterUnknown: a refusal starts the cooldown again.
EnterUnknownAgain(r) ==
  /\ requests[r].pc = "waiting" /\ fetchGate = Nothing
  /\ ~Usable(requests[r].key) /\ cooldown
  /\ ReturnKey(r, "unknown")
  /\ nextRefresh' = Interval
  /\ UNCHANGED <<issuer, keys, cacheExpiry, fetchGate, flight, ghosts>>

EnterUnknown(r) ==
  /\ requests[r].pc = "waiting" /\ fetchGate = Nothing
  /\ ~Usable(requests[r].key) /\ cooldown
  /\ ReturnKey(r, "unknown")
  /\ UNCHANGED <<issuer, cache, fetchGate, flight, ghosts>>

\* Neither: the request starts a fetch, and with it the cooldown.
EnterFetch(r) ==
  /\ requests[r].pc = "waiting" /\ fetchGate = Nothing
  /\ ~Usable(requests[r].key) /\ ~cooldown
  /\ requests' = [requests EXCEPT ![r].pc = "fetching", ![r].keepCooldown = fresh]
  /\ fetchGate' = r
  /\ nextRefresh' = Interval
  /\ last' = 0 /\ previous' = last
  /\ UNCHANGED <<issuer, keys, cacheExpiry, flight, failed>>

\* The gate is open again, and what was in transit is gone.
Landed == fetchGate' = Nothing /\ answered' = FALSE /\ document' = {}

\* Mutant of Clears: the cooldown ends with every fetch that finds its key.
ClearsAlways(r) == requests[r].key \in document

\* The cooldown ends early when the fetch filled an expired cache and found its key.
Clears(r) == requests[r].key \in document /\ ~requests[r].keepCooldown

\* A document with usable keys replaces the cache.
Fetched(r) ==
  /\ requests[r].pc = "fetching"
  /\ answered /\ document # {}
  /\ keys' = document
  /\ cacheExpiry' = Life
  /\ nextRefresh' = IF Clears(r) THEN 0 ELSE nextRefresh
  /\ ReturnKey(r, IF requests[r].key \in document THEN "served" ELSE "unknown")
  /\ Landed
  /\ failed' = FALSE
  /\ UNCHANGED <<issuer, last, previous>>

\* Mutant of FetchFailed: the gate is not opened on the error path.
FetchFailedInside(r) ==
  /\ requests[r].pc = "fetching"
  /\ ReturnKey(r, "failed")
  /\ failed' = TRUE
  /\ UNCHANGED <<issuer, cache, fetchGate, flight, last, previous>>

\* No answer in time, an answer that is not usable, or a client that is gone: the
\* cooldown stays.
FetchFailed(r) ==
  /\ requests[r].pc = "fetching"
  /\ ReturnKey(r, "failed")
  /\ Landed
  /\ failed' = TRUE
  /\ UNCHANGED <<issuer, cache, last, previous>>

\* The client of a request that waits at the gate is gone.
Cancel(r) ==
  /\ requests[r].pc = "waiting"
  /\ ReturnKey(r, "failed")
  /\ UNCHANGED <<issuer, cache, fetchGate, flight, ghosts>>

\* A later request takes the place of one that was answered.
Leave(r) ==
  /\ requests[r].pc \in Answers
  /\ requests' = [requests EXCEPT ![r] = NoLookup]
  /\ UNCHANGED <<issuer, cache, fetchGate, flight, ghosts>>

Enter(r) == EnterServed(r) \/ EnterUnknown(r) \/ EnterFetch(r)
End(r) == Fetched(r) \/ FetchFailed(r)

KNext ==
  \/ Tick \/ Answer
  \/ \E k \in Key : Publish(k) \/ Retire(k)
  \/ \E r \in Request :
       \/ \E k \in Key : LookUp(r, k)
       \/ Enter(r) \/ End(r) \/ Cancel(r) \/ Leave(r)

KSpec == KInit /\ [][KNext]_kvars

\* A channel serves its senders in turn, and a fetch has a timeout.
KFairness == \A r \in Request : SF_kvars(Enter(r)) /\ WF_kvars(End(r))

KFairSpec == KSpec /\ KFairness

----------------------------------------------------------------------------
(* What every step preserves.                                              *)

\* The request that fetches is the one in the gate; its fetch is not older than the
\* timeout, and nothing is in transit when there is none.
GateHeld ==
  /\ \A r \in Request :
       /\ requests[r].pc = "fetching" <=> fetchGate = r
       /\ requests[r].pc \in {"waiting", "fetching"} => requests[r].key \in Key
  /\ IF fetchGate = Nothing THEN ~answered /\ document = {}
     ELSE last <= Timeout /\ nextRefresh = Interval - last

\* What is cached or in transit was published when the issuer was asked.
OncePublished ==
  /\ \A k \in keys :
       /\ status[k] # "future"
       /\ status[k] = "retired" /\ fresh => cacheExpiry + age[k] <= Life + Timeout
  /\ \A k \in document :
       status[k] # "future" /\ (status[k] = "retired" => age[k] <= last)

\* What was published before the last fetch came with it, if it brought anything.
NothingMissed ==
  \A k \in Key : status[k] = "published" /\ age[k] > last =>
    IF fetchGate # Nothing THEN answered => k \in document
    ELSE ~failed /\ last < Interval => k \in keys

\* The cooldown runs from the last fetch, or was ended by one that filled the cache.
CooldownRuns ==
  /\ nextRefresh \in {0, Interval - last}
  /\ last <= previous
  /\ fetchGate = Nothing /\ last < Interval /\ (~failed \/ nextRefresh = 0) =>
       cacheExpiry >= Life - last
  /\ fetchGate = Nothing /\ nextRefresh = 0 => previous = Interval
  /\ \A r \in Request :
       requests[r].pc = "fetching" /\ ~requests[r].keepCooldown => previous = Interval

KInv == KTypeOK /\ GateHeld /\ OncePublished /\ NothingMissed /\ CooldownRuns

----------------------------------------------------------------------------
(* Properties.                                                             *)

\* Request r is given this answer in this step.
Gets(r, answer) == requests[r].pc # answer /\ requests'[r].pc = answer

\* "caches keys briefly" (docs/task-6-auth.md): a key that a request is given has been
\* published by the issuer less than a cache lifetime and a fetch timeout ago, whichever
\* way the fetch, the expiry and the retirement of the key interleave.
NoneStale ==
  [][\A r \in Request : Gets(r, "served") =>
       LET k == requests'[r].key
       IN status[k] = "published" \/ (status[k] = "retired" /\ age[k] < Life + Timeout)]_kvars

\* "A new kid can refresh the key set for a normal Keycloak rotation"
\* (docs/task-6-auth.md): a request for a key that has been published for the refresh
\* interval is only told that the key is unknown while a fetch is in flight or after one
\* that failed.
TrustedSoon ==
  [][\A r \in Request : Gets(r, "unknown") =>
       LET k == requests'[r].key
       IN \/ status[k] # "published"
          \/ age[k] < Interval
          \/ fetchGate \notin {Nothing, r}
          \/ failed]_kvars

\* "random unknown IDs cannot trigger unbounded JWKS traffic" (docs/task-6-auth.md): of
\* three fetches in a row the last starts at least a refresh interval after the first,
\* although a fetch that fills an expired cache ends the cooldown.
FetchRate ==
  [][\A r \in Request : Gets(r, "fetching") => previous = Interval]_kvars

\* Every request that waits at the gate or fetches is answered.
Answered ==
  \A r \in Request : requests[r].pc \in {"waiting", "fetching"} ~> requests[r].pc \in Answers
============================================================================
