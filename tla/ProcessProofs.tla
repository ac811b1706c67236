--------------------------- MODULE ProcessProofs ---------------------------
(* Proofs about what processes keep in memory and rely on beside the       *)
(* conversation: the wait group that a drain waits for (Drain), the key    *)
(* cache (KeyCache), and the definition sets that replicas load (Rollout). *)
(* For any number of submissions, keys, requests, digests, conversations,  *)
(* replicas and activations, any bundles and any binaries.                 *)
EXTENDS Drain, KeyCache, Rollout, FiniteSetTheorems, TLAPS

----------------------------------------------------------------------------
(* Drain.                                                                  *)

\* The set that the wait group counts is finite, and empty when the count is zero.
LEMMA CountedSet ==
  /\ IsFiniteSet(Working)
  /\ Cardinality(Working) \in Nat
  /\ Cardinality(Working) = 0 <=> Working = {}
<1>1. Working \subseteq Job
  BY Zenon DEF Working
<1>2. IsFiniteSet(Working)
  BY <1>1, FS_Subset, DrainAssumption, Zenon
<1> QED BY <1>2, FS_CardinalityType, FS_EmptySet, Zenon

\* Submit passes the gate: its count is new.
LEMMA Counted ==
  ASSUME DTypeOK, NEW k \in Job, submits[k] = "resolving",
         submits' = [submits EXCEPT ![k] = "admitting"], runs' = runs + 1
  PROVE  runs' = Cardinality(Working')
<1>1. k \notin Working /\ Working' = Working \cup {k}
  BY Zenon DEF DTypeOK, Working
<1> QED BY <1>1, CountedSet, FS_AddElement, Zenon DEF DTypeOK

\* A submission or a worker is over: its count is let go.
LEMMA Released ==
  ASSUME DTypeOK, NEW k \in Working, Done(k)
  PROVE  runs' = Cardinality(Working') /\ Working' \subseteq Working
<1>1. Working' = Working \ {k}
  BY Zenon DEF DTypeOK, Working, Done
<1> QED BY <1>1, CountedSet, FS_RemoveElement, Zenon DEF DTypeOK, Done

\* The invariant holds of every step, and once the drain reported success a step
\* writes nothing.
LEMMA DrainStep ==
  ASSUME DInv, [DrainNext]_dvars
  PROVE  DInv' /\ (drained = "ok" => UNCHANGED <<run, reaping>>)
<1> DTypeOK
  BY Zenon DEF DInv
<1>1. CASE UNCHANGED dvars
  <2> USE DEF dvars, responses, process
  <2>1. Working' = Working
    BY <1>1, Zenon DEF Working
  <2>2. DTypeOK'
    BY <1>1, <2>1, ZenonT(30) DEF DTypeOK
  <2> QED BY <1>1, <2>1, <2>2, Zenon DEF DInv
\* A handler that is not counted, before the gate and at it.
<1>2. ASSUME NEW k \in Job, Arrive(k) \/ ResolveFails(k) \/ Submit(k)
      PROVE  DInv' /\ UNCHANGED <<run, reaping>>
  <2>1. CASE Submit(k) /\ ~draining
    <3>1. submits' = [submits EXCEPT ![k] = "admitting"] /\ runs' = runs + 1
      BY <2>1, Zenon DEF Submit, Gate
    <3>2. runs' = Cardinality(Working')
      BY <2>1, <3>1, Counted, Zenon DEF Submit
    <3> QED BY <2>1, <3>1, <3>2, Zenon DEF Submit, DInv, DTypeOK, responses, process
  <2>2. CASE ~(Submit(k) /\ ~draining)
    <3>1. /\ submits[k] \in {"new", "resolving"}
          /\ submits' \in {[submits EXCEPT ![k] = "resolving"], [submits EXCEPT ![k] = "rejected"]}
          /\ UNCHANGED <<run, runs, draining, cancelled, reaping, responses, process>>
      BY <1>2, <2>2, Zenon DEF Arrive, ResolveFails, Submit, Gate
    <3>2. Working' = Working
      BY <3>1, Zenon DEF DTypeOK, Working
    <3>3. submits' \in [Job -> {"new", "resolving", "rejected", "admitting", "claiming",
                                "running", "writing", "over"}]
      BY <3>1, Zenon DEF DTypeOK
    <3>4. DTypeOK'
      BY <3>1, <3>2, <3>3, ZenonT(30) DEF DTypeOK, responses, process
    <3> QED BY <3>1, <3>2, <3>4, Zenon DEF DInv, process
  <2> QED BY <2>1, <2>2, Zenon
\* A job that goes on: then the drain has not ended well.
<1>3. ASSUME NEW k \in Job,
             AdmitCommits(k) \/ ClaimCommits(k) \/ CallFails(k) \/ Work(k)
      PROVE  DInv' /\ drained # "ok"
  <2> USE DEF AdmitCommits, ClaimCommits, Following, CallFails, Work, WorkerCalls, WorkerReturns,
              WorkerEnds
  <2>1. k \in Working
    BY <1>3, Zenon DEF Working
  <2>2. drained # "ok" /\ main # "reaper"
    BY <2>1, Zenon DEF DInv
  <2>3. UNCHANGED <<draining, cancelled, reaping, reads, cut, process>> /\ streams \subseteq streams'
    BY <1>3, Zenon DEF responses
  <2>4. runs' = Cardinality(Working')
    <3>1. CASE Done(k)
      BY <2>1, <3>1, Released, Zenon
    <3>2. CASE submits' \in {[submits EXCEPT ![k] = "claiming"], [submits EXCEPT ![k] = "running"],
                             [submits EXCEPT ![k] = "writing"]}
               /\ runs' = runs
      <4>1. Working' = Working
        BY <2>1, <3>2, Zenon DEF DTypeOK, Working
      <4> QED BY <3>2, <4>1, Zenon DEF DTypeOK
    <3> QED BY <1>3, <3>1, <3>2, Zenon
  <2>5. /\ submits' \in [Job -> {"new", "resolving", "rejected", "admitting", "claiming", "running",
                                "writing", "over"}]
        /\ run' \in [Job -> {"none", "pending", "running", "ended"}]
        /\ streams' \subseteq Job \cup {Remote}
    BY <1>3, Zenon DEF Done, DTypeOK, responses
  <2>6. DTypeOK'
    BY <2>3, <2>4, <2>5, ZenonT(30) DEF DTypeOK, process
  <2> QED BY <2>2, <2>3, <2>6, Zenon DEF DInv, process
<1>4. ASSUME UNCHANGED <<submits, run, runs>>
      PROVE  Working' = Working
  BY <1>4, Zenon DEF Working
<1>5. CASE Follow \/ \E x \in Job \cup {Remote} : Response(x)
  <2>1. UNCHANGED <<submits, run, runs, draining, cancelled, reaping, cut, process>>
    BY <1>5, Zenon DEF Follow, Response, Poll, PollReturns, StreamEnds
  <2>2. streams' \subseteq Job \cup {Remote} /\ reads' \subseteq streams'
    BY <1>5, Zenon DEF Follow, Response, Poll, PollReturns, StreamEnds, DTypeOK
  <2>3. DTypeOK'
    BY <1>4, <2>1, <2>2, ZenonT(30) DEF DTypeOK, process
  <2> QED BY <1>4, <2>1, <2>3, Zenon DEF DInv, process
<1>6. CASE ReapTick
  <2>1. DTypeOK'
    BY <1>4, <1>6, ZenonT(30) DEF ReapTick, DTypeOK, responses, process
  <2> QED BY <1>4, <1>6, <2>1, Zenon DEF ReapTick, DInv, process
<1>7. CASE BeginDrain \/ ServeFails \/ GraceOver \/ CloseServer \/ ServerShutdown \/ Joined
           \/ MainReturns
  <2> USE DEF responses
  <2>1. CASE BeginDrain
    BY <1>4, <2>1, Zenon DEF BeginDrain, DInv, DTypeOK
  <2>2. CASE ServeFails \/ Joined
    <3>1. Return /\ main \notin {"draining", "reaper"}
      BY <2>2, Zenon DEF ServeFails, Joined
    <3>2. DTypeOK'
      BY <1>4, <3>1, Zenon DEF Return, DTypeOK
    <3> QED BY <1>4, <3>1, <3>2, Zenon DEF Return, DInv
  <2>3. CASE GraceOver
    BY <1>4, <2>3, Zenon DEF GraceOver, DInv, DTypeOK
  <2>4. CASE CloseServer
    BY <1>4, <2>4, Zenon DEF CloseServer, DInv, DTypeOK
  <2>5. CASE ServerShutdown
    BY <1>4, <2>5, Zenon DEF ServerShutdown, DInv, DTypeOK
  <2>6. CASE MainReturns
    BY <1>4, <2>6, Zenon DEF MainReturns, DInv, DTypeOK
  <2> QED BY <1>7, <2>1, <2>2, <2>3, <2>4, <2>5, <2>6, Zenon
<1>8. CASE DrainDone
  <2>1. Working = {}
    BY <1>8, CountedSet, Zenon DEF DrainDone, DTypeOK
  <2> QED BY <1>4, <1>8, <2>1, Zenon DEF DrainDone, DInv, DTypeOK, responses
<1>9. CASE DrainReaper
  BY <1>4, <1>9, Zenon DEF DrainReaper, DInv, DTypeOK, responses
<1>10. CASE DrainLate
  BY <1>4, <1>10, Zenon DEF DrainLate, DInv, DTypeOK, responses
<1> QED BY <1>1, <1>2, <1>3, <1>5, <1>6, <1>7, <1>8, <1>9, <1>10, Zenon
        DEF DrainNext, Submission, Shutdown

\* Drain's success means what it says, for any number of submissions and whatever the
\* database and the clients do: nothing of the replica is at work, nothing is written.
THEOREM DrainIsQuiet == DrainSpec => QuietOnceDrained
<1>1. DInit => DInv
  <2> SUFFICES ASSUME DInit PROVE DInv
    BY Zenon
  <2>1. Working = {}
    BY Zenon DEF DInit, Working
  <2> QED BY <2>1, CountedSet, Zenon DEF DInit, DInv, DTypeOK
<1>2. DInv /\ [DrainNext]_dvars => DInv'
  BY DrainStep, Zenon
<1>3. DInv /\ [DrainNext]_dvars =>
        [drained = "ok" => Working = {} /\ ~reaping /\ UNCHANGED <<run, reaping>>]_dvars
  BY DrainStep, Zenon DEF DInv
<1> QED BY <1>1, <1>2, <1>3, PTL DEF DrainSpec, QuietOnceDrained

----------------------------------------------------------------------------
(* KeyCache: KInv is preserved by every step.                              *)

USE KeyCacheAssumption

\* The cache starts empty, with no fetch behind it.
LEMMA InitKInv == KInit => KInv
<1> SUFFICES ASSUME KInit PROVE KInv
  BY Zenon
<1>1. KTypeOK
  <2>1. status \in [Key -> {"future", "published", "retired"}]
    BY Zenon DEF KInit
  <2>2. age \in [Key -> 0..Horizon]
    BY DEF KInit, Horizon
  <2>3. requests \in [Request -> [pc: {"idle", "waiting", "fetching"} \cup Answers,
                                 key: Key \cup {Nothing}, keepCooldown: BOOLEAN]]
    BY Zenon DEF KInit, NoLookup
  <2>4. answered \in BOOLEAN /\ failed \in BOOLEAN
    BY Zenon DEF KInit
  <2>5. /\ keys \subseteq Key /\ document \subseteq Key /\ fetchGate \in Request \cup {Nothing}
        /\ cacheExpiry \in 0..Life /\ nextRefresh \in 0..Interval
        /\ last \in 0..Interval /\ previous \in 0..Interval
    BY DEF KInit
  <2> QED
    BY <2>1, <2>2, <2>3, <2>4, <2>5, Zenon DEF KTypeOK
<1>2. GateHeld
  BY Zenon DEF KInit, GateHeld, NoLookup
<1>3. OncePublished /\ NothingMissed
  BY DEF KInit, OncePublished, NothingMissed
<1>4. CooldownRuns
  BY DEF KInit, CooldownRuns, NoLookup
<1> QED
  BY <1>1, <1>2, <1>3, <1>4, Zenon DEF KInv

\* The clock: timers and ages move together until they are at their ends.
LEMMA TickKInv == KInv /\ Tick => KInv'
<1> SUFFICES ASSUME KInv, Tick PROVE KInv'
  BY Zenon
<1> USE DEF KInv, Tick, Older, Sooner, Horizon, flight
<1>1. KTypeOK'
  BY DEF KTypeOK
<1>2. GateHeld'
  BY DEF KTypeOK, GateHeld
<1>3. OncePublished'
  BY DEF KTypeOK, GateHeld, OncePublished, fresh
<1>4. NothingMissed'
  BY DEF KTypeOK, GateHeld, NothingMissed
<1>5. CooldownRuns'
  BY DEF KTypeOK, GateHeld, CooldownRuns
<1> QED
  BY <1>1, <1>2, <1>3, <1>4, <1>5, Zenon

\* The issuer publishes and retires keys: a key that changes is as young as can be.
LEMMA IssuerKInv == ASSUME NEW k \in Key, KInv, Publish(k) \/ Retire(k) PROVE KInv'
<1> USE DEF KInv, Publish, Retire, cache, flight, ghosts
<1>1. KTypeOK'
  BY DEF KTypeOK, Horizon
<1>2. GateHeld'
  BY DEF GateHeld
<1>3. OncePublished'
  BY DEF KTypeOK, OncePublished, fresh
<1>4. NothingMissed'
  BY DEF KTypeOK, NothingMissed
<1>5. CooldownRuns'
  BY Zenon DEF CooldownRuns
<1> QED
  BY <1>1, <1>2, <1>3, <1>4, <1>5, Zenon

\* The issuer answers with everything it publishes.
LEMMA AnswerKInv == KInv /\ Answer => KInv'
<1> SUFFICES ASSUME KInv, Answer PROVE KInv'
  BY Zenon
<1> USE DEF KInv, Answer, issuer, cache, ghosts
<1>1. KTypeOK'
  BY Zenon DEF KTypeOK
<1>2. GateHeld'
  BY Zenon DEF GateHeld
<1>3. OncePublished'
  BY Zenon DEF KTypeOK, OncePublished, fresh
<1>4. NothingMissed'
  BY Zenon DEF KTypeOK, NothingMissed
<1>5. CooldownRuns'
  BY Zenon DEF CooldownRuns
<1> QED
  BY <1>1, <1>2, <1>3, <1>4, <1>5, Zenon

\* A step that only moves one request, neither into the gate nor out of it.
LEMMA RequestKInv ==
  ASSUME NEW r \in Request, NEW q, KInv, requests' = [requests EXCEPT ![r] = q],
         q \in [pc: {"idle", "waiting"} \cup Answers, key: Key \cup {Nothing}, keepCooldown: BOOLEAN],
         requests[r].pc # "fetching", q.pc = "waiting" => q.key \in Key,
         UNCHANGED <<issuer, cache, fetchGate, flight, ghosts>>
  PROVE  KInv'
<1> USE DEF KInv, issuer, cache, flight, ghosts
<1>0. q.pc # "fetching"
  BY Zenon DEF Answers
<1>1. KTypeOK'
  BY Zenon DEF KTypeOK
<1>2. GateHeld'
  BY <1>0, Zenon DEF KTypeOK, GateHeld
<1>3. OncePublished'
  BY Zenon DEF OncePublished, fresh
<1>4. NothingMissed'
  BY Zenon DEF NothingMissed
<1>5. CooldownRuns'
  BY <1>0, Zenon DEF KTypeOK, CooldownRuns
<1> QED
  BY <1>1, <1>2, <1>3, <1>4, <1>5, Zenon

\* What the first look does to the requests.
LEMMA LookUpMoves ==
  ASSUME NEW r \in Request, NEW k \in Key, KTypeOK, LookUp(r, k)
  PROVE  /\ requests'[r].pc \in {"served", "unknown", "waiting"}
         /\ requests'[r].key = k
         /\ \A p \in Request : p # r => requests'[p] = requests[p]
<1> DEFINE pc == IF Usable(k) THEN "served" ELSE IF cooldown THEN "unknown" ELSE "waiting"
<1>1. pc \in {"served", "unknown", "waiting"}
  BY Zenon
<1>2. requests' = [requests EXCEPT ![r].pc = pc, ![r].key = k]
  BY Zenon DEF LookUp
<1> HIDE DEF pc
<1> QED
  BY <1>1, <1>2, Zenon DEF KTypeOK

\* A look at the cache that starts no fetch, a request that gives up, one that leaves.
LEMMA LookKInv ==
  ASSUME NEW r \in Request, KInv,
         \/ \E k \in Key : LookUp(r, k)
         \/ EnterServed(r) \/ EnterUnknown(r) \/ Cancel(r) \/ Leave(r)
  PROVE  KInv'
<1> DEFINE q == requests'[r]
<1>1. requests' = [requests EXCEPT ![r] = q]
  BY Zenon DEF KInv, KTypeOK, LookUp, EnterServed, EnterUnknown, Cancel, Leave, ReturnKey
<1>2. q \in [pc: {"idle", "waiting"} \cup Answers, key: Key \cup {Nothing}, keepCooldown: BOOLEAN]
  <2>1. requests[r] \in [pc: {"idle", "waiting", "fetching"} \cup Answers,
                         key: Key \cup {Nothing}, keepCooldown: BOOLEAN]
    BY Zenon DEF KInv, KTypeOK
  <2>2. CASE \E k \in Key : LookUp(r, k)
    <3> PICK k \in Key : LookUp(r, k)
      BY <2>2, Zenon
    <3>1. /\ q.pc \in {"idle", "waiting"} \cup Answers /\ q.key = k
          /\ q = [requests[r] EXCEPT !.pc = q.pc, !.key = k]
      BY Zenon DEF KInv, KTypeOK, LookUp, Answers
    <3> QED
      BY <2>1, <3>1, Zenon
  <2>3. CASE EnterServed(r) \/ EnterUnknown(r) \/ Cancel(r)
    <3>1. \E answer \in Answers : q = [requests[r] EXCEPT !.pc = answer, !.keepCooldown = FALSE]
      BY <2>3, Zenon DEF KInv, KTypeOK, EnterServed, EnterUnknown, Cancel, ReturnKey, Answers
    <3> HIDE DEF q
    <3> QED
      BY <2>1, <3>1, Zenon
  <2>4. CASE Leave(r)
    BY <2>4, Zenon DEF KInv, KTypeOK, Leave, NoLookup
  <2> QED
    BY <2>2, <2>3, <2>4, Zenon
<1>3. requests[r].pc # "fetching" /\ UNCHANGED <<issuer, cache, fetchGate, flight, ghosts>>
  BY Zenon DEF LookUp, EnterServed, EnterUnknown, Cancel, Leave, Answers
<1>4. q.pc = "waiting" => q.key \in Key
  <2>1. CASE \E k \in Key : LookUp(r, k)
    BY <2>1, LookUpMoves, Zenon DEF KInv
  <2>2. CASE EnterServed(r) \/ EnterUnknown(r) \/ Cancel(r) \/ Leave(r)
    BY <2>2 DEF KInv, KTypeOK, EnterServed, EnterUnknown, Cancel, Leave, ReturnKey, NoLookup
  <2> QED
    BY <2>1, <2>2, Zenon
<1> HIDE DEF q
<1> QED
  BY <1>1, <1>2, <1>3, <1>4, RequestKInv, Zenon

\* A fetch starts: the cooldown is over, and when the cache is not fresh the last fetch is
\* a refresh interval ago.
LEMMA FetchKInv == ASSUME NEW r \in Request, KInv, EnterFetch(r) PROVE KInv'
<1> USE DEF KInv, EnterFetch, issuer, flight, cooldown
<1>0. fresh \in BOOLEAN
  BY DEF fresh
<1>1. KTypeOK'
  <2>1. requests' \in [Request -> [pc: {"idle", "waiting", "fetching"} \cup Answers,
                                  key: Key \cup {Nothing}, keepCooldown: BOOLEAN]]
    <3> DEFINE q == [requests[r] EXCEPT !.pc = "fetching", !.keepCooldown = fresh]
    <3>1. q \in [pc: {"idle", "waiting", "fetching"} \cup Answers,
                 key: Key \cup {Nothing}, keepCooldown: BOOLEAN]
      BY <1>0, ZenonT(30) DEF KTypeOK
    <3>2. requests' = [requests EXCEPT ![r] = q]
      BY Zenon DEF KTypeOK
    <3> HIDE DEF q
    <3> QED
      BY <3>1, <3>2, Zenon DEF KTypeOK
  <2> QED
    BY <2>1 DEF KTypeOK
<1> USE DEF fresh
<1>2. GateHeld'
  BY DEF KTypeOK, GateHeld
<1>3. OncePublished'
  BY Zenon DEF KTypeOK, GateHeld, OncePublished
<1>4. NothingMissed'
  BY Zenon DEF KTypeOK, GateHeld, NothingMissed
<1>5. CooldownRuns'
  <2>1. last < Interval => cacheExpiry > 0
    BY DEF KTypeOK, CooldownRuns
  <2>2. ASSUME NEW p \in Request, requests'[p].pc = "fetching" PROVE p = r
    BY <2>2, Zenon DEF KTypeOK, GateHeld
  <2>3. requests'[r].keepCooldown = (cacheExpiry > 0)
    BY Zenon DEF KTypeOK
  <2> QED
    BY <2>1, <2>2, <2>3 DEF KTypeOK, CooldownRuns
<1> QED
  BY <1>1, <1>2, <1>3, <1>4, <1>5, Zenon

\* A fetch ends and the gate is open.
LEMMA LandedKInv ==
  ASSUME NEW r \in Request, KInv, Fetched(r) \/ FetchFailed(r)
  PROVE  KInv'
<1> USE DEF KInv, Fetched, FetchFailed, ReturnKey, Landed, Clears, issuer, cache
<1>0. fetchGate = r /\ fetchGate # Nothing
  BY Zenon DEF GateHeld
<1>1. KTypeOK'
  <2>1. requests' \in [Request -> [pc: {"idle", "waiting", "fetching"} \cup Answers,
                                  key: Key \cup {Nothing}, keepCooldown: BOOLEAN]]
    BY DEF KTypeOK, Answers
  <2>2. answered' \in BOOLEAN /\ failed' \in BOOLEAN
    BY Zenon
  <2> QED
    BY <2>1, <2>2 DEF KTypeOK
<1>2. GateHeld'
  BY <1>0 DEF KTypeOK, GateHeld
<1>3. OncePublished'
  BY <1>0 DEF KTypeOK, GateHeld, OncePublished, fresh
<1>4. NothingMissed'
  BY <1>0, Zenon DEF KTypeOK, GateHeld, NothingMissed
<1>5. CooldownRuns'
  <2>1. \A p \in Request : requests'[p].pc # "fetching"
    BY <1>0 DEF KTypeOK, GateHeld
  <2>2. last <= Timeout /\ nextRefresh = Interval - last
    BY <1>0, Zenon DEF GateHeld
  <2> QED
    BY <2>1, <2>2, <1>0 DEF KTypeOK, CooldownRuns
<1> QED
  BY <1>1, <1>2, <1>3, <1>4, <1>5, Zenon

\* KInv is an invariant of the cache.
LEMMA KInvariant == KSpec => []KInv
<1>1. KInv /\ [KNext]_kvars => KInv'
  <2> SUFFICES ASSUME KInv, [KNext]_kvars PROVE KInv'
    BY Zenon
  <2>1. CASE UNCHANGED kvars
    BY <2>1, Zenon DEF KInv, KTypeOK, GateHeld, OncePublished, NothingMissed, CooldownRuns, fresh,
                kvars, issuer, cache, flight, ghosts
  <2>2. CASE Tick
    BY <2>2, TickKInv, Zenon
  <2>3. CASE Answer
    BY <2>3, AnswerKInv, Zenon
  <2>4. CASE \E k \in Key : Publish(k) \/ Retire(k)
    BY <2>4, IssuerKInv, Zenon
  <2>5. ASSUME NEW r \in Request,
               (\E k \in Key : LookUp(r, k)) \/ Enter(r) \/ End(r) \/ Cancel(r) \/ Leave(r)
        PROVE  KInv'
    BY <2>5, LookKInv, FetchKInv, LandedKInv, Zenon DEF Enter, End
  <2> QED
    BY <2>1, <2>2, <2>3, <2>4, <2>5, Zenon DEF KNext
<1> QED
  BY <1>1, InitKInv, PTL DEF KSpec

\* What a request is given: only these steps do, with the cache or the document at hand.
LEMMA ServedFrom ==
  ASSUME NEW r \in Request, KInv, [KNext]_kvars, Gets(r, "served")
  PROVE  LET k == requests'[r].key
         IN k \in Key /\ (Usable(k) \/ (fetchGate = r /\ k \in document))
<1> USE DEF Gets
<1>1. requests' # requests
  BY Zenon
<1>2. PICK p \in Request : (\E k \in Key : LookUp(p, k)) \/ Enter(p) \/ End(p) \/ Cancel(p) \/ Leave(p)
  BY <1>1, Zenon DEF KNext, kvars, Tick, Answer, Publish, Retire
<1>3. p = r
  BY <1>2, Zenon
      DEF KInv, KTypeOK, LookUp, Enter, EnterServed, EnterUnknown, EnterFetch, End, Fetched,
              FetchFailed, Cancel, Leave, ReturnKey
<1>4. CASE \E k \in Key : LookUp(r, k)
  BY <1>4 DEF KInv, KTypeOK, LookUp
<1>5. CASE EnterServed(r)
  BY <1>5, Zenon DEF KInv, KTypeOK, EnterServed, ReturnKey, Usable
<1>6. CASE Fetched(r)
  BY <1>6 DEF KInv, KTypeOK, GateHeld, Fetched, ReturnKey
<1>7. CASE EnterUnknown(r) \/ EnterFetch(r) \/ FetchFailed(r) \/ Cancel(r) \/ Leave(r)
  BY <1>7
      DEF KInv, KTypeOK, EnterUnknown, EnterFetch, FetchFailed, Cancel, Leave, ReturnKey, NoLookup
<1> QED
  BY <1>2, <1>3, <1>4, <1>5, <1>6, <1>7, ZenonT(30) DEF Enter, End

\* A request that is told that its key is unknown: the cooldown is on, or the document
\* that it fetched does not have the key.
LEMMA RefusedBy ==
  ASSUME NEW r \in Request, KInv, [KNext]_kvars, Gets(r, "unknown")
  PROVE  LET k == requests'[r].key
         IN /\ k \in Key
            /\ \/ ~Usable(k) /\ cooldown /\ fetchGate # r
               \/ fetchGate = r /\ answered /\ k \notin document
<1> USE DEF Gets
<1>1. requests' # requests
  BY Zenon
<1>2. PICK p \in Request : (\E k \in Key : LookUp(p, k)) \/ Enter(p) \/ End(p) \/ Cancel(p) \/ Leave(p)
  BY <1>1, Zenon DEF KNext, kvars, Tick, Answer, Publish, Retire
<1>3. p = r
  BY <1>2, Zenon
      DEF KInv, KTypeOK, LookUp, Enter, EnterServed, EnterUnknown, EnterFetch, End, Fetched,
              FetchFailed, Cancel, Leave, ReturnKey
<1>4. CASE \E k \in Key : LookUp(r, k)
  BY <1>4 DEF KInv, KTypeOK, GateHeld, LookUp
<1>5. CASE EnterUnknown(r)
  BY <1>5 DEF KInv, KTypeOK, GateHeld, EnterUnknown, ReturnKey
<1>6. CASE Fetched(r)
  BY <1>6 DEF KInv, KTypeOK, GateHeld, Fetched, ReturnKey
<1>7. CASE EnterServed(r) \/ EnterFetch(r) \/ FetchFailed(r) \/ Cancel(r) \/ Leave(r)
  BY <1>7
      DEF KInv, KTypeOK, EnterServed, EnterFetch, FetchFailed, Cancel, Leave, ReturnKey, NoLookup
<1> QED
  BY <1>2, <1>3, <1>4, <1>5, <1>6, <1>7, ZenonT(30) DEF Enter, End

\* No request is given a key that the issuer retired a cache lifetime and a fetch timeout
\* ago (key, fetchKeys).
THEOREM KeysAreRecent == KSpec => NoneStale
<1>1. KInv /\ [KNext]_kvars =>
        [\A r \in Request : Gets(r, "served") =>
           LET k == requests'[r].key
           IN status[k] = "published" \/ (status[k] = "retired" /\ age[k] < Life + Timeout)]_kvars
  <2> SUFFICES ASSUME KInv, [KNext]_kvars, NEW r \in Request, Gets(r, "served")
               PROVE  LET k == requests'[r].key
                      IN status[k] = "published" \/ (status[k] = "retired" /\ age[k] < Life + Timeout)
    BY Zenon
  <2> DEFINE k == requests'[r].key
  <2>1. k \in Key /\ (Usable(k) \/ (fetchGate = r /\ k \in document))
    BY ServedFrom, Zenon
  <2> HIDE DEF k
  <2>2. status[k] \in {"published", "retired"}
    BY <2>1, Zenon DEF KInv, KTypeOK, OncePublished, Usable
  <2>3. Usable(k) /\ status[k] = "retired" => age[k] < Life + Timeout
    BY <2>1 DEF KInv, KTypeOK, OncePublished, Usable, fresh, Horizon
  <2>4. fetchGate = r /\ k \in document /\ status[k] = "retired" => age[k] < Life + Timeout
    BY <2>1 DEF KInv, KTypeOK, GateHeld, OncePublished, Horizon
  <2> QED
    BY <2>1, <2>2, <2>3, <2>4, Zenon DEF k
<1> QED
  BY <1>1, KInvariant, PTL DEF KSpec, NoneStale

\* A key that has been published for a refresh interval is only refused while a fetch is
\* in flight or after one that failed (key, nextRefresh).
THEOREM NewKeysAreFound == KSpec => TrustedSoon
<1>1. KInv /\ [KNext]_kvars =>
        [\A r \in Request : Gets(r, "unknown") =>
           LET k == requests'[r].key
           IN \/ status[k] # "published"
              \/ age[k] < Interval
              \/ fetchGate \notin {Nothing, r}
              \/ failed]_kvars
  <2> SUFFICES ASSUME KInv, [KNext]_kvars, NEW r \in Request, Gets(r, "unknown")
               PROVE  LET k == requests'[r].key
                      IN \/ status[k] # "published"
                         \/ age[k] < Interval
                         \/ fetchGate \notin {Nothing, r}
                         \/ failed
    BY Zenon
  <2> DEFINE k == requests'[r].key
  <2>1. /\ k \in Key
        /\ \/ ~Usable(k) /\ cooldown /\ fetchGate # r
           \/ fetchGate = r /\ answered /\ k \notin document
    BY RefusedBy, Zenon
  <2> HIDE DEF k
  <2>2. ~Usable(k) /\ cooldown /\ status[k] = "published" /\ fetchGate = Nothing /\ ~failed =>
          age[k] < Interval
    <3> SUFFICES ASSUME cooldown, status[k] = "published", fetchGate = Nothing, ~failed,
                        age[k] >= Interval
                 PROVE  Usable(k)
      BY <2>1 DEF KInv, KTypeOK, Horizon
    <3>1. last < Interval
      BY DEF KInv, KTypeOK, CooldownRuns, cooldown
    <3>2. k \in keys
      BY <2>1, <3>1 DEF KInv, KTypeOK, NothingMissed, Horizon
    <3>3. fresh
      BY <3>1 DEF KInv, KTypeOK, CooldownRuns, fresh
    <3> QED
      BY <3>2, <3>3, Zenon DEF Usable
  <2>3. fetchGate = r /\ answered /\ k \notin document /\ status[k] = "published" =>
          age[k] < Interval
    BY <2>1 DEF KInv, KTypeOK, GateHeld, NothingMissed, Horizon
  <2> QED
    BY <2>1, <2>2, <2>3, Zenon DEF k
<1> QED
  BY <1>1, KInvariant, PTL DEF KSpec, TrustedSoon

\* Of three fetches in a row the last starts a refresh interval after the first (key,
\* keepCooldown).
THEOREM FetchesAreRare == KSpec => FetchRate
<1>1. KInv /\ [KNext]_kvars =>
        [\A r \in Request : Gets(r, "fetching") => previous = Interval]_kvars
  <2> SUFFICES ASSUME KInv, [KNext]_kvars, NEW r \in Request, Gets(r, "fetching")
               PROVE  previous = Interval
    BY Zenon
  <2>1. requests' # requests
    BY Zenon DEF Gets
  <2>2. PICK p \in Request : (\E k \in Key : LookUp(p, k)) \/ Enter(p) \/ End(p) \/ Cancel(p) \/ Leave(p)
    BY <2>1, Zenon DEF KNext, kvars, Tick, Answer, Publish, Retire
  <2>3. EnterFetch(p)
    <3>1. ~\E k \in Key : LookUp(p, k)
      BY LookUpMoves, Zenon DEF KInv, Gets
    <3>2. ~EnterServed(p) /\ ~EnterUnknown(p) /\ ~FetchFailed(p) /\ ~Cancel(p) /\ ~Leave(p)
      BY
          DEF KInv, KTypeOK, EnterServed, EnterUnknown, FetchFailed, Cancel, Leave, ReturnKey,
            NoLookup, Gets
    <3>3. ~Fetched(p)
      BY Zenon DEF KInv, KTypeOK, Fetched, ReturnKey, Gets
    <3> QED
      BY <2>2, <3>1, <3>2, <3>3, Zenon DEF Enter, End
  <2> QED
    BY <2>3 DEF KInv, KTypeOK, CooldownRuns, EnterFetch, cooldown
<1> QED
  BY <1>1, KInvariant, PTL DEF KSpec, FetchRate

HIDE KeyCacheAssumption

----------------------------------------------------------------------------
(* Rows.                                                                    *)

\* A run that begins keeps the conversation's pin and call.
LEMMA BegunRow ==
  ASSUME NEW thread \in ThreadState, NEW mode \in {"plain", "reply"}, NEW r \in Replica
  PROVE  LET b == Begun(thread, mode, r)
         IN /\ b \in ThreadState /\ b.run = mode /\ b.phase = "resolve" /\ b.attempt = 1
            /\ b.pin = thread.pin /\ b.call = thread.call /\ ~b.waiting
<1> DEFINE b1 == [thread EXCEPT !.run = mode]
           b2 == [b1 EXCEPT !.phase = "resolve"]
           b3 == [b2 EXCEPT !.on = r]
           b4 == [b3 EXCEPT !.missing = None]
           b5 == [b4 EXCEPT !.attempt = 1]
           b6 == [b5 EXCEPT !.waiting = FALSE]
<1>1. /\ b1 \in ThreadState /\ b1.pin = thread.pin /\ b1.call = thread.call /\ b1.run = mode
  BY AttemptsAssumption, Zenon DEF ThreadState
<1> HIDE DEF b1
<1>2. /\ b2 \in ThreadState /\ b2.pin = thread.pin /\ b2.call = thread.call /\ b2.run = mode
      /\ b2.phase = "resolve"
  BY <1>1, AttemptsAssumption, Zenon DEF ThreadState
<1> HIDE DEF b2
<1>3. /\ b3 \in ThreadState /\ b3.pin = thread.pin /\ b3.call = thread.call /\ b3.run = mode
      /\ b3.phase = "resolve" /\ b3.on = r
  BY <1>2, AttemptsAssumption, Zenon DEF ThreadState
<1> HIDE DEF b3
<1>4. /\ b4 \in ThreadState /\ b4.pin = thread.pin /\ b4.call = thread.call /\ b4.run = mode
      /\ b4.phase = "resolve" /\ b4.on = r /\ b4.missing = None
  BY <1>3, AttemptsAssumption, Zenon DEF ThreadState
<1> HIDE DEF b4
<1>5. /\ b5 \in ThreadState /\ b5.pin = thread.pin /\ b5.call = thread.call /\ b5.run = mode
      /\ b5.phase = "resolve" /\ b5.on = r /\ b5.missing = None /\ b5.attempt = 1
  BY <1>4, AttemptsAssumption DEF ThreadState
<1> HIDE DEF b5
<1>6. /\ b6 \in ThreadState /\ b6.pin = thread.pin /\ b6.call = thread.call /\ b6.run = mode
      /\ b6.phase = "resolve" /\ b6.on = r /\ b6.missing = None /\ b6.attempt = 1
      /\ b6.waiting = FALSE
  BY <1>5, AttemptsAssumption, Zenon DEF ThreadState
<1> HIDE DEF b6
<1>7. Begun(thread, mode, r) = b6
  BY Zenon DEF Begun, b1, b2, b3, b4, b5, b6
<1> QED BY <1>6, <1>7, Zenon

\* A run that is bound only changes its pin and phase.
LEMMA BoundRow ==
  ASSUME NEW thread \in ThreadState, NEW d \in Digest
  PROVE  LET b == Bound(thread, d)
         IN /\ b \in ThreadState /\ b.pin = d /\ b.phase = "bound" /\ b.run = thread.run
            /\ b.call = thread.call /\ b.waiting = thread.waiting
<1> DEFINE b1 == [thread EXCEPT !.pin = d]
           b2 == [b1 EXCEPT !.phase = "bound"]
           b3 == [b2 EXCEPT !.attempt = 0]
<1>1. /\ b1 \in ThreadState /\ b1.run = thread.run /\ b1.call = thread.call
      /\ b1.waiting = thread.waiting /\ b1.pin = d
  BY AttemptsAssumption, Zenon DEF ThreadState
<1> HIDE DEF b1
<1>2. /\ b2 \in ThreadState /\ b2.run = thread.run /\ b2.call = thread.call
      /\ b2.waiting = thread.waiting /\ b2.pin = d /\ b2.phase = "bound"
  BY <1>1, AttemptsAssumption, Zenon DEF ThreadState
<1> HIDE DEF b2
<1>3. /\ b3 \in ThreadState /\ b3.run = thread.run /\ b3.call = thread.call
      /\ b3.waiting = thread.waiting /\ b3.pin = d /\ b3.phase = "bound" /\ b3.attempt = 0
  BY <1>2, AttemptsAssumption DEF ThreadState
<1> HIDE DEF b3
<1>4. Bound(thread, d) = b3
  BY Zenon DEF Bound, b1, b2, b3
<1> QED BY <1>3, <1>4, Zenon

\* A run that lacks a set, and one that tries again, keep the pin.
LEMMA LackingRow ==
  ASSUME NEW thread \in ThreadState, NEW d \in Digest
  PROVE  LET b == Lacking(thread, d)
         IN /\ b \in ThreadState /\ b.pin = thread.pin /\ b.phase = "load" /\ b.run = thread.run
            /\ b.call = thread.call /\ b.waiting = thread.waiting /\ b.attempt = thread.attempt
BY Zenon DEF Lacking, ThreadState

\* A retry of the binding keeps everything but the phase and the count.
LEMMA RetryingRow ==
  ASSUME NEW thread \in ThreadState, thread.attempt < BindingAttempts
  PROVE  LET b == Retrying(thread)
         IN /\ b \in ThreadState /\ b.pin = thread.pin /\ b.phase = "resolve" /\ b.run = thread.run
            /\ b.call = thread.call /\ b.waiting = thread.waiting
<1> DEFINE b1 == [thread EXCEPT !.missing = None]
           b2 == [b1 EXCEPT !.phase = "resolve"]
           b3 == [b2 EXCEPT !.attempt = @ + 1]
<1>1. /\ b1 \in ThreadState /\ b1.pin = thread.pin /\ b1.run = thread.run
      /\ b1.call = thread.call /\ b1.waiting = thread.waiting /\ b1.attempt = thread.attempt
      /\ b1.missing = None
  BY AttemptsAssumption, Zenon DEF ThreadState
<1> HIDE DEF b1
<1>2. /\ b2 \in ThreadState /\ b2.pin = thread.pin /\ b2.run = thread.run
      /\ b2.call = thread.call /\ b2.waiting = thread.waiting /\ b2.attempt = thread.attempt
      /\ b2.missing = None /\ b2.phase = "resolve"
  BY <1>1, AttemptsAssumption, Zenon DEF ThreadState
<1> HIDE DEF b2
<1>3. /\ b3 \in ThreadState /\ b3.pin = thread.pin /\ b3.run = thread.run
      /\ b3.call = thread.call /\ b3.waiting = thread.waiting
      /\ b3.attempt = thread.attempt + 1 /\ b3.missing = None /\ b3.phase = "resolve"
  BY <1>2, AttemptsAssumption DEF ThreadState
<1> HIDE DEF b3
<1>4. Retrying(thread) = b3
  BY Zenon DEF Retrying, b1, b2, b3
<1> QED BY <1>3, <1>4, Zenon

\* A run that is over keeps the conversation's pin and call.
LEMMA OverRow ==
  ASSUME NEW thread \in ThreadState
  PROVE  LET b == Over(thread)
         IN /\ b \in ThreadState /\ b.pin = thread.pin /\ b.phase = "resolve" /\ b.run = "none"
            /\ b.call = thread.call /\ b.waiting = thread.waiting
<1> DEFINE b1 == [thread EXCEPT !.run = "none"]
           b2 == [b1 EXCEPT !.phase = "resolve"]
           b3 == [b2 EXCEPT !.on = None]
           b4 == [b3 EXCEPT !.missing = None]
           b5 == [b4 EXCEPT !.attempt = 0]
<1>1. /\ b1 \in ThreadState /\ b1.pin = thread.pin /\ b1.call = thread.call
      /\ b1.waiting = thread.waiting /\ b1.run = "none"
  BY AttemptsAssumption, Zenon DEF ThreadState
<1> HIDE DEF b1
<1>2. /\ b2 \in ThreadState /\ b2.pin = thread.pin /\ b2.call = thread.call
      /\ b2.waiting = thread.waiting /\ b2.run = "none" /\ b2.phase = "resolve"
  BY <1>1, AttemptsAssumption, Zenon DEF ThreadState
<1> HIDE DEF b2
<1>3. /\ b3 \in ThreadState /\ b3.pin = thread.pin /\ b3.call = thread.call
      /\ b3.waiting = thread.waiting /\ b3.run = "none" /\ b3.phase = "resolve" /\ b3.on = None
  BY <1>2, AttemptsAssumption, Zenon DEF ThreadState
<1> HIDE DEF b3
<1>4. /\ b4 \in ThreadState /\ b4.pin = thread.pin /\ b4.call = thread.call
      /\ b4.waiting = thread.waiting /\ b4.run = "none" /\ b4.phase = "resolve" /\ b4.on = None
      /\ b4.missing = None
  BY <1>3, AttemptsAssumption, Zenon DEF ThreadState
<1> HIDE DEF b4
<1>5. /\ b5 \in ThreadState /\ b5.pin = thread.pin /\ b5.call = thread.call
      /\ b5.waiting = thread.waiting /\ b5.run = "none" /\ b5.phase = "resolve" /\ b5.on = None
      /\ b5.missing = None /\ b5.attempt = 0
  BY <1>4, AttemptsAssumption DEF ThreadState
<1> HIDE DEF b5
<1>6. Over(thread) = b5
  BY Zenon DEF Over, b1, b2, b3, b4, b5
<1> QED BY <1>5, <1>6, Zenon

\* Starting or ending a call, and asking or not asking, change one field.
LEMMA CallingRow ==
  ASSUME NEW thread \in ThreadState, NEW call \in {"none", "dispatching", "unknown"}
  PROVE  LET b == Calling(thread, call)
         IN /\ b \in ThreadState /\ b.pin = thread.pin /\ b.phase = thread.phase /\ b.run = thread.run
            /\ b.call = call /\ b.waiting = thread.waiting /\ b.attempt = thread.attempt
BY Zenon DEF Calling, ThreadState

\* Opening or closing a wait keeps everything else.
LEMMA AskingRow ==
  ASSUME NEW thread \in ThreadState, NEW w \in BOOLEAN
  PROVE  LET b == Asking(thread, w)
         IN /\ b \in ThreadState /\ b.pin = thread.pin /\ b.phase = thread.phase /\ b.run = thread.run
            /\ b.call = thread.call /\ b.waiting = w /\ b.attempt = thread.attempt
BY Zenon DEF Asking, ThreadState

\* The states an `activate` process can be put in.
LEMMA ActivationRows ==
  ASSUME NEW row \in ActivationState
  PROVE  /\ NewActivation \in ActivationState
         /\ NewActivation.pc = "put" /\ NewActivation.loaded = {}
         /\ \A v \in Verdict :
              /\ Exited(v) \in ActivationState
              /\ Exited(v).pc = "done" /\ Exited(v).loaded = {} /\ Exited(v).verdict = v
         /\ \A pc \in {"current", "referenced", "again"} :
              /\ Sent(row, pc) \in ActivationState
              /\ Sent(row, pc).pc = pc /\ Sent(row, pc).loaded = row.loaded
         /\ \A d \in Digest \cup {None}, pc \in {"referenced", "history"} :
              /\ Expecting(row, d, pc) \in ActivationState
              /\ Expecting(row, d, pc).pc = pc /\ Expecting(row, d, pc).loaded = row.loaded
         /\ \A D \in SUBSET Digest :
              /\ Loaded(row, D) \in ActivationState
              /\ Loaded(row, D).pc = "commit" /\ Loaded(row, D).loaded = row.loaded \cup D
         /\ row.attempt + 1 # ActivateAttempts =>
              /\ Repeated(row) \in ActivationState
              /\ Repeated(row).pc = "current" /\ Repeated(row).loaded = row.loaded
<1>0. 0 \in 0..(ActivateAttempts - 1)
  BY AttemptsAssumption
<1>1. NewActivation \in ActivationState /\ NewActivation.pc = "put" /\ NewActivation.loaded = {}
  <2> DEFINE none == {}
  <2>1. none \in SUBSET Digest
    BY Zenon
  <2> HIDE DEF none
  <2>2. [pc |-> "put", expected |-> None, attempt |-> 0, loaded |-> none, verdict |-> ""]
          \in ActivationState
    BY <1>0, <2>1, Zenon DEF ActivationState, Verdict
  <2> QED BY <2>2, Zenon DEF NewActivation, none
<1>2. ASSUME NEW v \in Verdict
      PROVE  /\ Exited(v) \in ActivationState
             /\ Exited(v).pc = "done" /\ Exited(v).loaded = {} /\ Exited(v).verdict = v
  <2> DEFINE b1 == [NewActivation EXCEPT !.pc = "done"]
  <2>1. b1 \in ActivationState /\ b1.pc = "done" /\ b1.loaded = NewActivation.loaded
    BY <1>1, Zenon DEF ActivationState
  <2> QED BY <1>1, <2>1, Zenon DEF ActivationState, Exited
<1>3. ASSUME NEW pc \in {"current", "referenced", "again"}
      PROVE  /\ Sent(row, pc) \in ActivationState
             /\ Sent(row, pc).pc = pc /\ Sent(row, pc).loaded = row.loaded
  BY Zenon DEF ActivationState, Sent
<1>4. ASSUME NEW d \in Digest \cup {None}, NEW pc \in {"referenced", "history"}
      PROVE  /\ Expecting(row, d, pc) \in ActivationState
             /\ Expecting(row, d, pc).pc = pc /\ Expecting(row, d, pc).loaded = row.loaded
  <2> DEFINE b1 == [row EXCEPT !.expected = d]
  <2>1. b1 \in ActivationState /\ b1.loaded = row.loaded
    BY Zenon DEF ActivationState
  <2> QED BY <2>1, Zenon DEF ActivationState, Expecting
<1>5. ASSUME NEW D \in SUBSET Digest
      PROVE  /\ Loaded(row, D) \in ActivationState
             /\ Loaded(row, D).pc = "commit" /\ Loaded(row, D).loaded = row.loaded \cup D
  <2> DEFINE b1 == [row EXCEPT !.pc = "commit"]
  <2>1. b1 \in ActivationState /\ b1.loaded = row.loaded /\ b1.pc = "commit"
    BY Zenon DEF ActivationState
  <2> QED BY <2>1, Zenon DEF ActivationState, Loaded
<1>6. ASSUME row.attempt + 1 # ActivateAttempts
      PROVE  /\ Repeated(row) \in ActivationState
             /\ Repeated(row).pc = "current" /\ Repeated(row).loaded = row.loaded
  <2> DEFINE b1 == [row EXCEPT !.pc = "current"]
  <2>1. b1 \in ActivationState /\ b1.loaded = row.loaded /\ b1.pc = "current"
          /\ b1.attempt = row.attempt
    BY Zenon DEF ActivationState
  <2>2. row.attempt + 1 \in 0..(ActivateAttempts - 1)
    BY <1>6, AttemptsAssumption DEF ActivationState
  <2> QED BY <2>1, <2>2, Zenon DEF ActivationState, Repeated
<1> QED BY <1>1, <1>2, <1>3, <1>4, <1>5, <1>6, Zenon

----------------------------------------------------------------------------
(* A step of one conversation, of one activation, of one replica.           *)

\* A conversation may be put in any well-typed state whose pin was activated, and which
\* is not bound or held without one.
LEMMA ThreadStep ==
  ASSUME Grounded, NEW t \in Thread, NEW x \in ThreadState,
         threads' = [threads EXCEPT ![t] = x],
         x.pin # None => x.pin \in activated,
         x.phase = "load" => x.attempt < BindingAttempts,
         (x.phase = "bound" \/ x.waiting \/ x.run = "reply" \/ x.call # "none") => x.pin # None,
         served' \in [Replica -> SUBSET Digest],
         \A r \in Replica : served'[r] \subseteq stored \cap Compiles[r],
         UNCHANGED <<stored, activated, current, probes, activations>>
  PROVE  Grounded'
<1>1. \A u \in Thread : threads'[u] = IF u = t THEN x ELSE threads[u]
  BY Zenon DEF Grounded, RTypeOK
<1>2. RTypeOK'
  BY <1>1, Zenon DEF Grounded, RTypeOK
<1>3. AllStored'
  BY <1>1 DEF Grounded, AllStored
<1>4. StepsGrounded'
  BY <1>1, Zenon DEF Grounded, StepsGrounded, Held, At
<1> QED BY <1>2, <1>3, <1>4, Zenon DEF Grounded

\* An activation may be put in any well-typed state in which what it loaded loads, and
\* includes its candidate when it is about to commit.
LEMMA ActivationStep ==
  ASSUME Grounded, NEW a \in Activation, NEW x \in ActivationState,
         activations' = [activations EXCEPT ![a] = x],
         x.loaded \subseteq stored \cap Compiles[a],
         x.pc = "commit" => Candidate[a] \in x.loaded,
         stored \subseteq stored', stored' \subseteq Digest,
         activated \subseteq activated', activated' \subseteq stored',
         current' \in activated' \cup {None},
         UNCHANGED <<threads, served, probes>>
  PROVE  Grounded'
<1>1. \A b \in Activation : activations'[b] = IF b = a THEN x ELSE activations[b]
  BY Zenon DEF Grounded, RTypeOK
<1>2. RTypeOK'
  BY <1>1, Zenon DEF Grounded, RTypeOK
<1>3. AllStored'
  BY <1>1, Zenon DEF Grounded, AllStored
<1>4. StepsGrounded'
  BY <1>1, Zenon DEF Grounded, StepsGrounded, Held, At
<1> QED BY <1>2, <1>3, <1>4, Zenon DEF Grounded

\* What is referenced can be any digest, but not None.
LEMMA ReferencedDigests ==
  ASSUME Grounded
  PROVE  referencedDigests \in SUBSET Digest
BY Zenon DEF Grounded, RTypeOK, referencedDigests, ThreadState

\* Every step of an `activate` process keeps Grounded.
LEMMA ActivateKeeps ==
  ASSUME Grounded, NEW a \in Activation, Activate(a) \/ Restart(a)
  PROVE  Grounded'
<1> DEFINE row == activations[a]
<1>t. /\ row \in ActivationState /\ row.loaded \subseteq stored \cap Compiles[a]
      /\ row.pc = "commit" => Candidate[a] \in row.loaded
      /\ Candidate[a] \in Digest /\ stored \subseteq Digest /\ activated \subseteq stored
      /\ current \in activated \cup {None} /\ current \in Digest \cup {None}
  BY CandidateAssumption, Zenon DEF Grounded, RTypeOK, AllStored, StepsGrounded, At
<1> HIDE DEF row
<1>x. ASSUME NEW v \in Verdict, Exit(a, v), UNCHANGED stored, UNCHANGED <<threads, served, probes>>,
             activated \subseteq activated', activated' \subseteq stored,
             current' \in activated' \cup {None}
      PROVE  Grounded'
  <2>1. Exited(v) \in ActivationState /\ Exited(v).pc = "done" /\ Exited(v).loaded = {}
    BY <1>t, ActivationRows, Zenon
  <2>2. activations' = [activations EXCEPT ![a] = Exited(v)]
    BY <1>x, Zenon DEF Exit
  <2> QED BY <1>t, <1>x, <2>1, <2>2, ActivationStep, Zenon
<1>g. ASSUME NEW pc \in {"current", "referenced", "again"}, Goto(a, pc),
             stored \subseteq stored', stored' \subseteq Digest,
             UNCHANGED <<activated, current, threads, served, probes>>
      PROVE  Grounded'
  <2> DEFINE x == Sent(row, pc)
  <2>1. x \in ActivationState /\ x.pc = pc /\ x.loaded = row.loaded
    BY <1>t, ActivationRows, Zenon
  <2>2. activations' = [activations EXCEPT ![a] = x]
    BY <1>g, Zenon DEF Goto, row
  <2> HIDE DEF x
  <2> QED BY <1>t, <1>g, <2>1, <2>2, ActivationStep, Zenon
<1>1. CASE PutDefinitionSet(a)
  <2>1. CASE Candidate[a] \in Compiles[a]
    BY <1>1, <1>g, <1>t, <2>1, Zenon DEF PutDefinitionSet
  <2>2. CASE Candidate[a] \notin Compiles[a]
    BY <1>1, <1>x, <1>t, <2>2, Zenon DEF PutDefinitionSet, Verdict
  <2> QED BY <2>1, <2>2, Zenon
<1>2. CASE CurrentDefinition(a)
  <2>1. CASE current = Candidate[a]
    BY <1>2, <1>x, <1>t, <2>1, Zenon DEF CurrentDefinition, Verdict
  <2>2. CASE current # Candidate[a]
    <3> DEFINE pc == AfterCurrent(a)
               x == Expecting(row, current, pc)
    <3>1. pc \in {"referenced", "history"}
      BY Zenon DEF AfterCurrent
    <3> HIDE DEF pc
    <3>r. \A d \in Digest \cup {None}, q \in {"referenced", "history"} :
            /\ Expecting(row, d, q) \in ActivationState
            /\ Expecting(row, d, q).pc = q /\ Expecting(row, d, q).loaded = row.loaded
      BY <1>t, ActivationRows, Zenon
    <3>c. current \in Digest \cup {None}
      BY <1>t, Zenon
    <3>2. x \in ActivationState /\ x.pc = pc /\ x.loaded = row.loaded
      BY <3>1, <3>c, <3>r, Zenon
    <3>3. activations' = [activations EXCEPT ![a] = x]
      BY <1>2, <2>2, Zenon DEF CurrentDefinition, row, pc
    <3> HIDE DEF x
    <3>4. UNCHANGED <<stored, activated, current, threads, served, probes>>
      BY <1>2, Zenon DEF CurrentDefinition
    <3> QED BY <1>t, <3>1, <3>2, <3>3, <3>4, ActivationStep, Zenon
  <2> QED BY <2>1, <2>2, Zenon
<1>3. CASE DefinitionActivated(a)
  <2>1. CASE Candidate[a] \in activated
    BY <1>3, <1>x, <1>t, <2>1, Zenon DEF DefinitionActivated, Verdict
  <2>2. CASE Candidate[a] \notin activated
    BY <1>3, <1>g, <1>t, <2>2, Zenon DEF DefinitionActivated
  <2> QED BY <2>1, <2>2, Zenon
<1>4. CASE ReferencedDefinitions(a)
  <2> DEFINE needed == referencedDigests \cup {Candidate[a]}
  <2>1. needed \in SUBSET Digest
    BY <1>t, ReferencedDigests, Zenon
  <2>2. CASE \A d \in needed : Loads(a, d)
    <3> DEFINE x == Loaded(row, needed)
    <3>1. needed \subseteq stored \cap Compiles[a] /\ Candidate[a] \in needed
      BY <2>2, Zenon DEF Loads
    <3>2. activations' = [activations EXCEPT ![a] = x]
      BY <1>4, <2>2, Zenon DEF ReferencedDefinitions, row
    <3> HIDE DEF needed
    <3>r. \A D \in SUBSET Digest :
            /\ Loaded(row, D) \in ActivationState
            /\ Loaded(row, D).pc = "commit" /\ Loaded(row, D).loaded = row.loaded \cup D
      BY <1>t, ActivationRows, Zenon
    <3>3. x \in ActivationState /\ x.pc = "commit" /\ x.loaded = row.loaded \cup needed
      BY <2>1, <3>r, Zenon
    <3> HIDE DEF x
    <3>4. UNCHANGED <<stored, activated, current, threads, served, probes>>
      BY <1>4, Zenon DEF ReferencedDefinitions
    <3> QED BY <1>t, <3>1, <3>2, <3>3, <3>4, ActivationStep, Zenon
  <2>3. CASE \E d \in needed : ~Loads(a, d)
    BY <1>4, <1>x, <1>t, <2>3, Zenon DEF ReferencedDefinitions, Verdict
  <2> QED BY <2>2, <2>3, Zenon
<1>5. CASE activate(a)
  <2>0. Candidate[a] \in stored
    BY <1>t, <1>5, Zenon DEF activate, At, row
  <2>1. ASSUME markActivated(a)
        PROVE  /\ activated \subseteq activated' /\ activated' \subseteq stored
               /\ Candidate[a] \in activated'
    BY <1>t, <2>0, <2>1, Zenon DEF markActivated
  <2>2. CASE current = Candidate[a]
    BY <1>5, <1>x, <1>t, <2>1, <2>2, Zenon DEF activate, Verdict
  <2>3. CASE current # Candidate[a] /\ ActivatedBefore(a)
    BY <1>5, <1>g, <1>t, <2>3, Zenon DEF activate
  <2>4. CASE current # Candidate[a] /\ ~ActivatedBefore(a) /\ Unmoved(a)
    BY <1>5, <1>x, <1>t, <2>1, <2>4, Zenon DEF activate, Verdict
  <2>5. CASE current # Candidate[a] /\ ~ActivatedBefore(a) /\ ~Unmoved(a)
    <3>1. TryAgain(a) /\ UNCHANGED <<stored, activated, current, threads, served, probes>>
      BY <1>5, <2>5, Zenon DEF activate
    <3>2. CASE row.attempt + 1 = ActivateAttempts
      BY <1>x, <1>t, <3>1, <3>2, Zenon DEF TryAgain, Verdict, row
    <3>3. CASE row.attempt + 1 # ActivateAttempts
      <4> DEFINE x == Repeated(row)
      <4>1. x \in ActivationState /\ x.pc = "current" /\ x.loaded = row.loaded
        BY <1>t, <3>3, ActivationRows, Zenon
      <4>2. activations' = [activations EXCEPT ![a] = x]
        BY <3>1, <3>3, Zenon DEF TryAgain, row
      <4> HIDE DEF x
      <4> QED BY <1>t, <3>1, <4>1, <4>2, ActivationStep, Zenon
    <3> QED BY <3>2, <3>3, Zenon
  <2> QED BY <2>2, <2>3, <2>4, <2>5, Zenon
<1>6. CASE ReadAgain(a)
  BY <1>6, <1>x, <1>t, Zenon DEF ReadAgain, Verdict
<1>7. CASE Restart(a)
  <2>1. NewActivation \in ActivationState /\ NewActivation.pc = "put" /\ NewActivation.loaded = {}
    BY <1>t, ActivationRows, Zenon
  <2>2. /\ activations' = [activations EXCEPT ![a] = NewActivation]
        /\ UNCHANGED <<stored, activated, current, threads, served, probes>>
    BY <1>7, Zenon DEF Restart
  <2> HIDE DEF NewActivation
  <2> QED BY <1>t, <2>1, <2>2, ActivationStep, Zenon
<1> QED BY <1>1, <1>2, <1>3, <1>4, <1>5, <1>6, <1>7, Zenon DEF Activate

\* Every step of a conversation keeps Grounded.
LEMMA ConverseKeeps ==
  ASSUME Grounded, NEW t \in Thread, Converse(t)
  PROVE  Grounded'
<1> DEFINE row == threads[t]
<1>t. /\ row \in ThreadState
      /\ row.pin # None => row.pin \in activated
      /\ row.phase = "load" => row.attempt < BindingAttempts
      /\ (row.phase = "bound" \/ row.waiting \/ row.run = "reply" \/ row.call # "none") => row.pin # None
      /\ served \in [Replica -> SUBSET Digest]
      /\ \A r \in Replica : served[r] \subseteq stored \cap Compiles[r]
      /\ activated \subseteq Digest /\ (current # None => current \in activated)
  BY Zenon DEF Grounded, RTypeOK, AllStored, StepsGrounded, Held
<1>f. row.on \in Replica \cup {None} /\ row.call \in {"none", "dispatching", "unknown"}
  BY <1>t, Zenon DEF ThreadState
<1>o. ASSUME threads' = [threads EXCEPT ![t] = Over(row)],
             UNCHANGED <<stored, activated, current, served, probes, activations>>
      PROVE  Grounded'
  <2> HIDE DEF row
  <2> QED BY <1>t, <1>o, OverRow, ThreadStep, Zenon
<1>1. ASSUME NEW r \in Replica, Message(t, r)
      PROVE  Grounded'
  <2>1. /\ threads' = [threads EXCEPT ![t] = Begun(row, "plain", r)]
        /\ UNCHANGED <<stored, activated, current, served, probes, activations>>
    BY <1>1, Zenon DEF Message
  <2> HIDE DEF row
  <2> QED BY <1>t, <2>1, BegunRow, ThreadStep, ZenonT(40)
<1>2. ASSUME NEW r \in Replica, Reply(t, r)
      PROVE  Grounded'
  <2>1. /\ threads' = [threads EXCEPT ![t] = Begun(row, "reply", r)] /\ row.waiting
        /\ UNCHANGED <<stored, activated, current, served, probes, activations>>
    BY <1>2, Zenon DEF Reply
  <2> DEFINE x == Begun(row, "reply", r)
  <2>2. threads' = [threads EXCEPT ![t] = x]
    BY <2>1, Zenon
  <2> HIDE DEF row
  <2>3. x \in ThreadState /\ x.phase = "resolve" /\ x.pin = row.pin
    BY <1>t, BegunRow, Zenon
  <2> HIDE DEF x
  <2> QED BY <1>t, <2>1, <2>2, <2>3, ThreadStep, Zenon
<1>3. CASE ResolveDefinition(t)
  <2>0. /\ row.on \in Replica
        /\ UNCHANGED <<stored, activated, current, served, probes, activations>>
    BY <1>3, <1>f, Zenon DEF ResolveDefinition, InPhase
  <2>1. Wanted(t) # None => Wanted(t) \in activated
    BY <1>t, Zenon DEF Wanted
  <2>2. CASE Wanted(t) \in served[row.on]
    <3>1. Wanted(t) \in Digest
      BY <1>t, <2>0, <2>2, Zenon
    <3>2. Wanted(t) \in activated
      BY <2>1, <3>1, DigestAssumption, Zenon
    <3>3. threads' = [threads EXCEPT ![t] = Bound(row, Wanted(t))]
      BY <1>3, <2>2, Zenon DEF ResolveDefinition
    <3>4. Wanted(t) # None
      BY <3>1, DigestAssumption, Zenon
    <3> HIDE DEF row
    <3> QED BY <1>t, <2>0, <3>1, <3>2, <3>3, <3>4, BoundRow, ThreadStep, Zenon
  <2>3. CASE Wanted(t) \notin served[row.on] /\ (Wanted(t) = None \/ row.attempt >= BindingAttempts)
    <3>1. row.attempt \in Nat /\ BindingAttempts \in Nat
      BY <1>t, AttemptsAssumption DEF ThreadState
    <3>2. threads' = [threads EXCEPT ![t] = Over(row)]
      BY <1>3, <2>3, <3>1 DEF ResolveDefinition
    <3> QED BY <1>o, <2>0, <3>2, Zenon
  <2>4. CASE /\ Wanted(t) \notin served[row.on]
             /\ Wanted(t) # None /\ row.attempt < BindingAttempts
    <3>1. row.attempt \in Nat /\ BindingAttempts \in Nat
      BY <1>t, AttemptsAssumption DEF ThreadState
    <3>2. threads' = [threads EXCEPT ![t] = Lacking(row, Wanted(t))]
      BY <1>3, <2>4, <3>1 DEF ResolveDefinition
    <3>3. Wanted(t) \in Digest
      BY <1>t, <2>1, <2>4, Zenon
    <3> HIDE DEF row
    <3> QED BY <1>t, <2>0, <2>4, <3>2, <3>3, LackingRow, ThreadStep, ZenonT(40)
  <2>5. row.attempt >= BindingAttempts \/ row.attempt < BindingAttempts
    BY <1>t, AttemptsAssumption DEF ThreadState
  <2> QED BY <2>2, <2>3, <2>4, <2>5, Zenon
<1>4. CASE LoadMissing(t)
  <2>0. /\ row.on \in Replica /\ row.phase = "load"
        /\ UNCHANGED <<stored, activated, current, probes, activations>>
    BY <1>4, <1>f, Zenon DEF LoadMissing, InPhase
  <2>1. CASE Loads(row.on, row.missing)
    <3>1. /\ threads' = [threads EXCEPT ![t] = Retrying(row)]
          /\ served' = [served EXCEPT ![row.on] = @ \cup {row.missing}]
      BY <1>4, <2>1, Zenon DEF LoadMissing, Cache
    <3>2. row.missing \in stored \cap Compiles[row.on] /\ stored \subseteq Digest
      BY <2>1, Zenon DEF Loads, Grounded, RTypeOK
    <3> HIDE DEF row
    <3>3. /\ served' \in [Replica -> SUBSET Digest]
          /\ \A r \in Replica : served'[r] \subseteq stored \cap Compiles[r]
      BY <1>t, <2>0, <3>1, <3>2, Zenon
    <3> QED BY <1>t, <2>0, <3>1, <3>3, RetryingRow, ThreadStep, Zenon
  <2>2. CASE ~Loads(row.on, row.missing)
    <3>1. threads' = [threads EXCEPT ![t] = Over(row)] /\ UNCHANGED served
      BY <1>4, <2>2, Zenon DEF LoadMissing
    <3> QED BY <1>o, <2>0, <3>1, Zenon
  <2> QED BY <2>1, <2>2, Zenon
<1>5. CASE BeginAttempt(t)
  <2>1. /\ threads' = [threads EXCEPT ![t] = Calling(row, "dispatching")] /\ row.phase = "bound"
        /\ UNCHANGED <<stored, activated, current, served, probes, activations>>
    BY <1>5, Zenon DEF BeginAttempt, InPhase
  <2> DEFINE x == Calling(row, "dispatching")
  <2>2. threads' = [threads EXCEPT ![t] = x]
    BY <2>1, Zenon
  <2> HIDE DEF row
  <2>3. x \in ThreadState /\ x.phase = "bound" /\ x.pin = row.pin
    BY <1>t, <2>1, CallingRow, Zenon
  <2> HIDE DEF x
  <2> QED BY <1>t, <2>1, <2>2, <2>3, ThreadStep, Zenon
<1>6. CASE EndAttempt(t)
  <2>1. PICK call \in {"none", "unknown"} : threads' = [threads EXCEPT ![t] = Calling(row, call)]
    BY <1>6, Zenon DEF EndAttempt
  <2>2. /\ row.phase = "bound"
        /\ UNCHANGED <<stored, activated, current, served, probes, activations>>
    BY <1>6, Zenon DEF EndAttempt, InPhase
  <2> DEFINE x == Calling(row, call)
  <2>3. threads' = [threads EXCEPT ![t] = x]
    BY <2>1, Zenon
  <2> HIDE DEF row
  <2>4. x \in ThreadState /\ x.phase = "bound" /\ x.pin = row.pin
    BY <1>t, <2>2, CallingRow
  <2> HIDE DEF x
  <2> QED BY <1>t, <2>2, <2>3, <2>4, ThreadStep, Zenon
<1>7. CASE Wait(t)
  <2>1. /\ threads' = [threads EXCEPT ![t] = Asking(Over(row), TRUE)] /\ row.phase = "bound"
        /\ UNCHANGED <<stored, activated, current, served, probes, activations>>
    BY <1>7, Zenon DEF Wait, InPhase
  <2> HIDE DEF row
  <2>2. /\ Over(row) \in ThreadState /\ Over(row).pin = row.pin /\ Over(row).phase = "resolve"
    BY <1>t, OverRow, Zenon
  <2> QED BY <1>t, <2>1, <2>2, AskingRow, ThreadStep, Zenon
<1>8. CASE EndRun(t)
  <2> DEFINE call == markUnknown(row.call)
  <2>1. /\ threads' = [threads EXCEPT ![t] = Calling(Asking(Over(row), FALSE), call)]
        /\ UNCHANGED <<stored, activated, current, served, probes, activations>>
    BY <1>8, Zenon DEF EndRun
  <2>2. call \in {"none", "dispatching", "unknown"} /\ (call # "none" => row.call # "none")
    BY <1>f, Zenon DEF markUnknown
  <2> HIDE DEF row, call
  <2>3. /\ Over(row) \in ThreadState /\ Over(row).pin = row.pin /\ Over(row).phase = "resolve"
        /\ Over(row).run = "none"
    BY <1>t, OverRow, Zenon
  <2> DEFINE x == Asking(Over(row), FALSE)
  <2>4. x \in ThreadState /\ x.pin = row.pin /\ x.phase = "resolve" /\ x.run = "none" /\ ~x.waiting
    BY <2>3, AskingRow, Zenon
  <2> HIDE DEF x
  <2> DEFINE y == Calling(x, call)
  <2>5. /\ y \in ThreadState /\ y.pin = row.pin /\ y.phase = "resolve" /\ y.run = "none"
        /\ ~y.waiting /\ y.call = call
    BY <2>2, <2>4, CallingRow
  <2>6. threads' = [threads EXCEPT ![t] = y]
    BY <2>1, Zenon DEF x
  <2> HIDE DEF y
  <2> QED BY <1>t, <2>1, <2>2, <2>5, <2>6, ThreadStep, Zenon
<1> QED BY <1>1, <1>2, <1>3, <1>4, <1>5, <1>6, <1>7, <1>8, Zenon DEF Converse

\* Every step of a replica keeps Grounded.
LEMMA ReplicaKeeps ==
  ASSUME Grounded, NEW r \in Replica, Ready(r) \/ Replace(r)
  PROVE  Grounded'
<1>1. ASSUME served' \in [Replica -> SUBSET Digest],
             \A q \in Replica : served'[q] \subseteq stored \cap Compiles[q],
             probes' \in [Replica -> ProbeState],
             UNCHANGED <<stored, activated, current, threads, activations>>
      PROVE  Grounded'
  <2>1. RTypeOK'
    BY <1>1, Zenon DEF Grounded, RTypeOK
  <2>2. AllStored'
    BY <1>1, Zenon DEF Grounded, AllStored
  <2>3. StepsGrounded'
    BY <1>1, Zenon DEF Grounded, StepsGrounded, Held, At
  <2> QED BY <2>1, <2>2, <2>3, Zenon DEF Grounded
<1>2. ASSUME NEW D, D \subseteq referencedDigests, \A d \in D : Loads(r, d), Cache(r, D)
      PROVE  /\ served' \in [Replica -> SUBSET Digest]
             /\ \A q \in Replica : served'[q] \subseteq stored \cap Compiles[q]
  <2>1. D \subseteq stored \cap Compiles[r] /\ D \subseteq Digest
    BY <1>2, ReferencedDigests, Zenon DEF Loads
  <2>2. served' = [served EXCEPT ![r] = @ \cup D]
    BY <1>2, Zenon DEF Cache
  <2> QED BY <2>1, <2>2, Zenon DEF Grounded, RTypeOK, AllStored
<1>3. CASE ReadyLoads(r)
  <2>1. probes' \in [Replica -> ProbeState]
    BY <1>3 DEF ReadyLoads, Grounded, RTypeOK, ProbeState, ProbeAnswer
  <2>2. PICK D \in SUBSET referencedDigests : (\A d \in D : Loads(r, d)) /\ Cache(r, D)
    BY <1>3, Zenon DEF ReadyLoads
  <2> QED BY <1>1, <1>2, <1>3, <2>1, <2>2, Zenon DEF ReadyLoads
<1>4. CASE DefinitionsReady(r)
  <2>1. probes' \in [Replica -> ProbeState]
    BY <1>4, Zenon DEF DefinitionsReady, Grounded, RTypeOK, ProbeState, ProbeAnswer
  <2> QED BY <1>1, <1>4, <2>1, Zenon DEF DefinitionsReady, Grounded, RTypeOK, AllStored
<1>5. CASE Replace(r)
  <2>1. /\ served' = [served EXCEPT ![r] = {}]
        /\ probes' = [probes EXCEPT ![r] = [phase |-> "load", answer |-> "none"]]
        /\ UNCHANGED <<stored, activated, current, activations>>
    BY <1>5, Zenon DEF Replace
  <2>2. \A t \in Thread :
          /\ threads'[t] \in ThreadState /\ threads'[t].pin = threads[t].pin
          /\ threads'[t].phase = threads[t].phase /\ threads'[t].attempt = threads[t].attempt
          /\ threads'[t].run = threads[t].run /\ threads'[t].waiting = threads[t].waiting
          /\ threads'[t].call = threads[t].call
    <3> TAKE t \in Thread
    <3>1. threads'[t] = IF threads[t].on = r THEN [threads[t] EXCEPT !.on = None] ELSE threads[t]
      BY <1>5, Zenon DEF Replace
    <3>2. threads[t] \in ThreadState
      BY Zenon DEF Grounded, RTypeOK
    <3> QED BY <3>1, <3>2, Zenon DEF ThreadState
  <2>3. DOMAIN threads' = Thread /\ threads' = [t \in Thread |-> threads'[t]]
    BY <1>5, Zenon DEF Replace
  <2>4. RTypeOK'
    BY <2>1, <2>2, <2>3, Zenon DEF Grounded, RTypeOK, ProbeState, ProbeAnswer
  <2>5. AllStored'
    BY <2>1, <2>2, Zenon DEF Grounded, RTypeOK, AllStored
  <2>6. StepsGrounded'
    BY <2>1, <2>2, Zenon DEF Grounded, StepsGrounded, Held, At
  <2> QED BY <2>4, <2>5, <2>6, Zenon DEF Grounded
<1> QED BY <1>3, <1>4, <1>5, Zenon DEF Ready

----------------------------------------------------------------------------
(* Theorems.                                                                *)

\* Nothing is loaded or pinned at first.
LEMMA InitGrounded == Init => Grounded
<1> SUFFICES ASSUME Init PROVE Grounded
  BY Zenon
<1>1. NoThread \in ThreadState /\ NoThread.pin = None /\ NoThread.phase = "resolve"
      /\ ~NoThread.waiting /\ NoThread.run = "none" /\ NoThread.call = "none"
  BY AttemptsAssumption DEF NoThread, ThreadState
<1>2. \A t \in Thread : threads[t] = NoThread
  BY Zenon DEF Init
<1>3. ASSUME NEW a \in Activation
      PROVE  /\ activations[a] \in ActivationState
             /\ activations[a].pc = "put" /\ activations[a].loaded \subseteq {}
  <2>1. 0 \in 0..(ActivateAttempts - 1)
    BY AttemptsAssumption
  <2>2. NewActivation.loaded \subseteq {} /\ NewActivation.pc = "put"
    BY Zenon DEF NewActivation
  <2> DEFINE none == {}
  <2>3. none \in SUBSET Digest
    BY Zenon
  <2> HIDE DEF none
  <2>4. [pc |-> "put", expected |-> None, attempt |-> 0, loaded |-> none, verdict |-> ""]
          \in ActivationState
    BY <2>1, <2>3, Zenon DEF ActivationState, Verdict
  <2>5. NewActivation \in ActivationState
    BY <2>4, Zenon DEF NewActivation, none
  <2>6. activations[a] = NewActivation
    BY Zenon DEF Init
  <2> QED BY <2>2, <2>5, <2>6, Zenon
<1>4. RTypeOK
  BY <1>1, <1>3, Zenon DEF Init, RTypeOK, ProbeState, ProbeAnswer
<1>5. AllStored
  BY <1>1, <1>2, <1>3, Zenon DEF Init, AllStored
<1>6. StepsGrounded
  BY <1>1, <1>2, <1>3, Zenon DEF StepsGrounded, Held, At
<1> QED BY <1>4, <1>5, <1>6, Zenon DEF Grounded

\* Every step leaves what is pinned, current or cached grounded in the store.
LEMMA NextGrounded == Grounded /\ [Next]_vars => Grounded'
<1> SUFFICES ASSUME Grounded, [Next]_vars PROVE Grounded'
  BY Zenon
<1>1. CASE \E a \in Activation : Activate(a) \/ Restart(a)
  BY <1>1, ActivateKeeps, Zenon
<1>2. CASE \E t \in Thread : Converse(t)
  BY <1>2, ConverseKeeps, Zenon
<1>3. CASE \E r \in Replica : Ready(r) \/ Replace(r)
  BY <1>3, ReplicaKeeps, Zenon
<1>4. CASE UNCHANGED vars
  BY <1>4, Zenon DEF vars, Grounded, RTypeOK, AllStored, StepsGrounded, Held, At
<1> QED BY <1>1, <1>2, <1>3, <1>4, Zenon DEF Next

\* What is pinned, current or cached is always grounded in the store.
LEMMA AlwaysGrounded == Spec => []Grounded
BY InitGrounded, NextGrounded, PTL DEF Spec

\* Pins, current and caches only ever hold sets that can be read back from the store.
THEOREM PinsLoadable == Spec => []AllStored
<1>1. Grounded => AllStored
  BY Zenon DEF Grounded
<1> QED BY <1>1, AlwaysGrounded, PTL

\* Only the commit of an activation moves current, and it moves it to its candidate,
\* having loaded everything that is referenced.
LEMMA CurrentMoves ==
  ASSUME Grounded, [Next]_vars, current' # current
  PROVE  \E a \in Activation :
           /\ At(a, "commit") /\ ~ActivatedBefore(a) /\ Unmoved(a)
           /\ current' = Candidate[a] /\ Exit(a, "activated")
<1>1. PICK a \in Activation : activate(a)
  <2>1. ASSUME NEW a \in Activation, Activate(a) \/ Restart(a) PROVE activate(a)
    BY <2>1, Zenon DEF Activate, Restart, PutDefinitionSet, CurrentDefinition, DefinitionActivated,
                ReferencedDefinitions, ReadAgain
  <2>2. ASSUME NEW t \in Thread, Converse(t) PROVE FALSE
    BY <2>2, Zenon DEF Converse, Message, Reply, ResolveDefinition, LoadMissing, BeginAttempt,
                EndAttempt, Wait, EndRun
  <2>3. ASSUME NEW r \in Replica, Ready(r) \/ Replace(r) PROVE FALSE
    BY <2>3, Zenon DEF Ready, ReadyLoads, DefinitionsReady, Replace
  <2>4. ~UNCHANGED vars
    BY Zenon DEF vars
  <2> QED BY <2>1, <2>2, <2>3, <2>4, Zenon DEF Next
<1>2. activate(a) => /\ At(a, "commit") /\ ~ActivatedBefore(a) /\ Unmoved(a)
                     /\ current' = Candidate[a] /\ Exit(a, "activated")
  BY Zenon DEF activate
<1> QED BY <1>1, <1>2, Zenon

\* The forward-only rule for every number of pods, releases and restarts: an activation
\* without --rollback never brings back a set that was current before.
THEOREM NeverBack == Spec => ForwardOnly
<1>1. Grounded /\ [Next]_vars
        => [current' # current /\ current' \in activated =>
              \E a \in Activation :
                Rollback[a] /\ At(a, "commit") /\ activations'[a].pc = "done"]_vars
  <2> SUFFICES ASSUME Grounded, [Next]_vars, current' # current, current' \in activated
               PROVE  \E a \in Activation :
                        Rollback[a] /\ At(a, "commit") /\ activations'[a].pc = "done"
    BY Zenon
  <2>1. PICK a \in Activation : /\ At(a, "commit") /\ ~ActivatedBefore(a)
                               /\ current' = Candidate[a] /\ Exit(a, "activated")
    BY CurrentMoves, Zenon
  <2>2. Rollback[a]
    BY <2>1, RollbackAssumption, Zenon DEF ActivatedBefore
  <2>3. activations'[a] = Exited("activated")
    BY <2>1, Zenon DEF Exit, Grounded, RTypeOK
  <2>4. Exited("activated").pc = "done"
    BY Zenon DEF Exited, NewActivation
  <2> QED BY <2>1, <2>2, <2>3, <2>4, Zenon
<1> QED BY <1>1, AlwaysGrounded, PTL DEF Spec, ForwardOnly

\* For every fleet: the set a release activates is one its binary compiles, together with
\* the set it replaces and the set of every conversation that is held.
THEOREM ActivatedServable == Spec => MoveServable
<1>1. Grounded /\ [Next]_vars
        => [current' # current =>
              \E a \in Activation :
                /\ activations'[a].verdict = "activated" /\ Candidate[a] = current'
                /\ \A t \in Thread :
                     Held(t) /\ threads[t].pin # None => threads[t].pin \in Compiles[a]
                /\ current \in Compiles[a] \cup {None}]_vars
  <2> SUFFICES ASSUME Grounded, [Next]_vars, current' # current
               PROVE  \E a \in Activation :
                /\ activations'[a].verdict = "activated" /\ Candidate[a] = current'
                /\ \A t \in Thread :
                     Held(t) /\ threads[t].pin # None => threads[t].pin \in Compiles[a]
                /\ current \in Compiles[a] \cup {None}
    BY Zenon
  <2>1. PICK a \in Activation : /\ Unmoved(a) /\ current' = Candidate[a]
                               /\ Exit(a, "activated")
    BY CurrentMoves, Zenon
  <2>2. activations'[a] = Exited("activated")
    BY <2>1, Zenon DEF Exit, Grounded, RTypeOK
  <2>3. Exited("activated").verdict = "activated"
    BY Zenon DEF Exited, NewActivation
  <2>4. referencedDigests \subseteq Compiles[a]
    BY <2>1, Zenon DEF Unmoved, Grounded, AllStored
  <2>5. \A t \in Thread : Held(t) /\ threads[t].pin # None => threads[t].pin \in referencedDigests
    BY Zenon DEF referencedDigests
  <2>6. current \in referencedDigests \cup {None}
    BY Zenon DEF referencedDigests
  <2> QED BY <2>1, <2>2, <2>3, <2>4, <2>5, <2>6, Zenon
<1> QED BY <1>1, AlwaysGrounded, PTL DEF Spec, MoveServable

\* No step of any process moves the pin of a conversation that is held.
LEMMA HeldPins ==
  ASSUME Grounded, [Next]_vars, NEW t \in Thread, Held(t)
  PROVE  threads'[t].pin = threads[t].pin
<1> DEFINE row == threads[t]
<1>1. row \in ThreadState /\ row.pin # None
  BY Zenon DEF Grounded, RTypeOK, StepsGrounded
<1>2. Wanted(t) = row.pin
  BY <1>1, Zenon DEF Wanted, Held, conversationIdle
<1>3. ASSUME NEW x, x.pin = row.pin, threads' = [threads EXCEPT ![t] = x]
      PROVE  threads'[t].pin = row.pin
  BY <1>3, Zenon DEF Grounded, RTypeOK
<1>4. ASSUME NEW u \in Thread, Converse(u), u # t PROVE threads'[t].pin = row.pin
  BY <1>4, Zenon DEF Converse, Message, Reply, ResolveDefinition, LoadMissing, BeginAttempt,
              EndAttempt, Wait, EndRun, Grounded, RTypeOK
<1>5. ASSUME Converse(t) PROVE threads'[t].pin = row.pin
  <2> HIDE DEF row
  <2>1. CASE \E r \in Replica : Message(t, r) \/ Reply(t, r)
    <3>1. PICK r \in Replica, mode \in {"plain", "reply"} :
            threads' = [threads EXCEPT ![t] = Begun(row, mode, r)]
      BY <2>1, Zenon DEF Message, Reply, row
    <3>2. Begun(row, mode, r).pin = row.pin
      BY <1>1, BegunRow, Zenon
    <3> QED BY <1>3, <3>1, <3>2, Zenon
  <2>2. CASE ResolveDefinition(t)
    <3>1. \/ threads' = [threads EXCEPT ![t] = Bound(row, row.pin)]
          \/ threads' = [threads EXCEPT ![t] = Over(row)]
          \/ threads' = [threads EXCEPT ![t] = Lacking(row, row.pin)]
      BY <1>2, <2>2, Zenon DEF ResolveDefinition, row
    <3>2. row.pin \in Digest
      BY <1>1, Zenon DEF ThreadState
    <3> QED BY <1>1, <1>3, <3>1, <3>2, BoundRow, OverRow, LackingRow
  <2>3. CASE LoadMissing(t)
    <3>1. \/ threads' = [threads EXCEPT ![t] = Retrying(row)]
          \/ threads' = [threads EXCEPT ![t] = Over(row)]
      BY <2>3, Zenon DEF LoadMissing, row
    <3>2. Retrying(row).pin = row.pin
      BY <1>1, Zenon DEF Retrying, ThreadState
    <3> QED BY <1>1, <1>3, <3>1, <3>2, OverRow, Zenon
  <2>4. CASE BeginAttempt(t) \/ EndAttempt(t)
    <3>1. PICK call \in {"none", "dispatching", "unknown"} :
            threads' = [threads EXCEPT ![t] = Calling(row, call)]
      BY <2>4, Zenon DEF BeginAttempt, EndAttempt, row
    <3> QED BY <1>1, <1>3, <3>1, CallingRow, Zenon
  <2>5. CASE Wait(t)
    <3>1. threads' = [threads EXCEPT ![t] = Asking(Over(row), TRUE)]
      BY <2>5, Zenon DEF Wait, row
    <3>2. Over(row) \in ThreadState /\ Over(row).pin = row.pin
      BY <1>1, OverRow, Zenon
    <3>3. Asking(Over(row), TRUE).pin = row.pin
      BY <3>2, AskingRow, Zenon
    <3> QED BY <1>3, <3>1, <3>3, Zenon
  <2>6. CASE EndRun(t)
    <3>1. threads' = [threads EXCEPT ![t] = Calling(Asking(Over(row), FALSE), markUnknown(row.call))]
      BY <2>6, Zenon DEF EndRun, row
    <3>2. markUnknown(row.call) \in {"none", "dispatching", "unknown"}
      BY <1>1, Zenon DEF markUnknown, ThreadState
    <3>3. Over(row) \in ThreadState /\ Over(row).pin = row.pin
      BY <1>1, OverRow, Zenon
    <3>4. Asking(Over(row), FALSE) \in ThreadState /\ Asking(Over(row), FALSE).pin = row.pin
      BY <3>3, AskingRow, Zenon
    <3>5. Calling(Asking(Over(row), FALSE), markUnknown(row.call)).pin = row.pin
      BY <3>2, <3>4, CallingRow, Zenon
    <3> QED BY <1>3, <3>1, <3>5, Zenon
  <2> QED BY <1>5, <2>1, <2>2, <2>3, <2>4, <2>5, <2>6, Zenon DEF Converse
<1>6. ASSUME NEW r \in Replica, Ready(r) \/ Replace(r) PROVE threads'[t].pin = row.pin
  BY <1>1, <1>6 DEF Ready, ReadyLoads, DefinitionsReady, Replace, ThreadState
<1>7. ASSUME NEW a \in Activation, Activate(a) \/ Restart(a) PROVE threads'[t].pin = row.pin
  BY <1>7, Zenon DEF Activate, Restart, PutDefinitionSet, CurrentDefinition, DefinitionActivated,
              ReferencedDefinitions, ReadAgain, activate
<1> QED BY <1>4, <1>5, <1>6, <1>7, Zenon DEF Next, vars

\* The set a wait, its continuation or an unresolved call is bound to never changes under it.
THEOREM PinsHold == Spec => PinKept
<1>1. Grounded /\ [Next]_vars
        => [\A t \in Thread : Held(t) => threads'[t].pin = threads[t].pin]_vars
  BY HeldPins, Zenon
<1> QED BY <1>1, AlwaysGrounded, PTL DEF Spec, PinKept
============================================================================
