---------------------------- MODULE MemoryProofs ----------------------------
(* What the conversation remembers: MInv, the memory of the stored history, of the waits   *)
(* and of the workers, through the steps of a running worker, the end of a run, waiting,   *)
(* completing, failing, sweeping and admitting, and the theorems that follow from it.      *)
EXTENDS WorkerProofs


----------------------------------------------------------------------------
(* Steps that leave the tables as they are, for all that is to be remembered. *)

\* A step after which the tables say the same of who ran, waited and was heard.
Quiet ==
  /\ \A x \in Command :
       /\ \/ runs'[x].state = runs[x].state
          \/ runs[x].state = "pending" /\ runs'[x].state = "running"
       /\ interactions'[x].state = interactions[x].state
       /\ interactions'[x].cont = interactions[x].cont
       /\ commands'[x].exec = commands[x].exec
       /\ commands'[x].reply = commands[x].reply
       /\ commands'[x].included = commands[x].included
  /\ history' = history
  /\ saved' = saved

\* A quiet step changes nothing that the memory of the conversation is measured by.
LEMMA QuietSets ==
  ASSUME TypeOK, RepliesMatch, Quiet
  PROVE  /\ InRequests' = InRequests
         /\ ToRemember' = ToRemember
         /\ \A r \in Command : /\ Heard(r)' = Heard(r)
                               /\ Unanswered(r)' <=> Unanswered(r)
                               /\ Besides(r)' = Besides(r)
<1>1. InRequests' = InRequests
  BY Zenon DEF Quiet, InRequests
<1>2. \A c \in InRequests : c \in Command /\ commands[c].exec \in Command
  BY Zenon DEF InRequests, RepliesMatch, TypeOK, CommandRow
<1>3. ToRemember' = ToRemember
  BY <1>1, <1>2 DEF Quiet, ToRemember
<1>4. ASSUME NEW r \in Command
      PROVE  Heard(r)' = Heard(r)
  BY <1>1, <1>2 DEF Quiet, Heard
<1>5. ASSUME NEW r \in Command
      PROVE  Unanswered(r)' <=> Unanswered(r)
  BY DEF Quiet, Unanswered, RepliesMatch
<1>6. ASSUME NEW r \in Command
      PROVE  Besides(r)' = Besides(r)
  BY <1>5, Zenon DEF Quiet, Besides
<1> QED BY <1>1, <1>3, <1>4, <1>5, <1>6, Zenon

\* Counting, as the library's theorems on finite sets give it.
Counting ==
  /\ IsFiniteSet({}) /\ Cardinality({}) = 0
  /\ \A S : IsFiniteSet(S) => Cardinality(S) \in Nat
  /\ \A S, T : IsFiniteSet(T) /\ S \subseteq T => IsFiniteSet(S) /\ Cardinality(S) <= Cardinality(T)
  /\ \A S, x : IsFiniteSet(S) =>
       /\ IsFiniteSet(S \cup {x})
       /\ x \notin S => Cardinality(S \cup {x}) = Cardinality(S) + 1

\* No element, one element more, and no more elements than another set.
LEMMA CountEmpty ==
  ASSUME Counting
  PROVE  IsFiniteSet({}) /\ Cardinality({}) = 0
BY Zenon DEF Counting

\* A finite set has a number of elements.
LEMMA CountType ==
  ASSUME Counting, NEW S, IsFiniteSet(S)
  PROVE  Cardinality(S) \in Nat
BY Zenon DEF Counting

\* A part of a finite set has no more elements.
LEMMA CountSubset ==
  ASSUME Counting, NEW T, IsFiniteSet(T), NEW S \in SUBSET T
  PROVE  /\ IsFiniteSet(S) /\ Cardinality(S) \in Nat /\ Cardinality(T) \in Nat
         /\ Cardinality(S) <= Cardinality(T)
BY Zenon DEF Counting

\* One element more.
LEMMA CountAdd ==
  ASSUME Counting, NEW S, IsFiniteSet(S), NEW x
  PROVE  /\ IsFiniteSet(S \cup {x})
         /\ x \notin S => Cardinality(S \cup {x}) = Cardinality(S) + 1
BY Zenon DEF Counting

\* How many proposals are open is a number.
LEMMA Counted ==
  ASSUME Counting, IsFiniteSet({i \in Command : interactions[i].state # "absent"})
  PROVE  /\ IsFiniteSet({i \in Command : Unanswered(i)})
         /\ Cardinality({i \in Command : Unanswered(i)}) \in Nat
         /\ \A r \in Command : /\ IsFiniteSet(Besides(r))
                               /\ Cardinality(Besides(r)) \in Nat
                               /\ Besides(r) \subseteq {i \in Command : Unanswered(i)}
<1>1. {i \in Command : Unanswered(i)} \subseteq {i \in Command : interactions[i].state # "absent"}
  BY Zenon DEF Unanswered
<1>2. IsFiniteSet({i \in Command : Unanswered(i)})
  BY <1>1, CountSubset, Zenon
<1>3. \A r \in Command : Besides(r) \subseteq {i \in Command : Unanswered(i)}
  BY Zenon DEF Besides
<1>4. \A r \in Command : IsFiniteSet(Besides(r))
  BY <1>2, <1>3, CountSubset, Zenon
<1> QED BY <1>2, <1>3, <1>4, CountType, Zenon

\* The same of the next state.
LEMMA CountedNext ==
  ASSUME Counting, IsFiniteSet({i \in Command : interactions[i].state # "absent"})'
  PROVE  IsFiniteSet({i \in Command : Unanswered(i)})'
<1> DEFINE A == {i \in Command : interactions[i].state # "absent"}
           V == {i \in Command : Unanswered(i)}
<1>1. V' \subseteq A'
  BY Zenon DEF Unanswered
<1> HIDE DEF V, A
<1>2. IsFiniteSet(A')
  BY Zenon DEF A
<1>3. IsFiniteSet(V')
  BY <1>1, <1>2, CountSubset, Zenon
<1> QED BY <1>3, Zenon DEF V

\* A quiet step keeps the memory if each running worker still carries what it should.
LEMMA QuietKeeps ==
  ASSUME TypeOK, MInv, Counting, Quiet,
         \A r \in Command : runs'[r].state = "running" =>
           \E w : workers'[r] = w /\ Carries(r, w)
  PROVE  MInv'
<1> RepliesMatch /\ history' = history /\ saved' = saved
  BY Zenon DEF MInv, Quiet
<1>1. /\ InRequests' = InRequests
      /\ ToRemember' = ToRemember
      /\ \A r \in Command : /\ Heard(r)' = Heard(r)
                            /\ Unanswered(r)' <=> Unanswered(r)
                            /\ Besides(r)' = Besides(r)
  BY QuietSets, Zenon
<1>2. RepliesMatch'
  <2>1. \A c \in Command : commands[c].reply # None => commands[c].reply \in Command
    BY Zenon DEF TypeOK, CommandRow
  <2>2. \A c \in Command :
          /\ commands'[c].exec = None => ~commands'[c].included
          /\ commands'[c].reply # None =>
               commands'[c].exec = c /\ interactions'[commands'[c].reply].cont = c
    BY <2>1 DEF RepliesMatch, Quiet
  <2>3. \A i \in Command :
          IF interactions'[i].state = "consumed"
          THEN interactions'[i].cont \in Command /\ commands'[interactions'[i].cont].reply = i
          ELSE interactions'[i].cont = None
    BY DEF RepliesMatch, Quiet
  <2> QED BY <2>2, <2>3, Zenon DEF RepliesMatch
<1>3. {i \in Command : interactions[i].state # "absent"}' = {i \in Command : interactions[i].state # "absent"}
  BY DEF Quiet
<1>4. {i \in Command : Unanswered(i)}' = {i \in Command : Unanswered(i)}
  BY <1>1, Zenon
<1>5. ProposalsAccounted'
  BY <1>4, Zenon DEF MInv, ProposalsAccounted
<1>6. RunsRemembered'
  <2>1. history.texts \subseteq InRequests /\ ToRemember \subseteq history.texts
    BY Zenon DEF MInv, RunsRemembered, InRequests, ToRemember
  <2>2. (history.texts \subseteq InRequests /\ ToRemember \subseteq history.texts)'
    BY <1>1, <2>1, Zenon
  <2> QED BY <2>2, Zenon DEF RunsRemembered, InRequests, ToRemember
<1>7. ASSUME NEW r \in Command
      PROVE  Stored(r)'
  <2>1. Stored(r)
    BY DEF MInv
  <2> QED BY <1>1, <2>1 DEF Stored, Quiet, Resumes, Live
<1>8. ASSUME NEW r \in Command, runs'[r].state = "running"
      PROVE  Carries(r, workers[r])'
  <2>1. PICK w : workers'[r] = w /\ Carries(r, w)
    BY <1>8, Zenon
  <2>2. Carries(r, w)'
    BY <1>1, <2>1 DEF Carries, Knows, Opened, AtHand
  <2> QED BY <2>1, <2>2 DEF Carries, Knows, Opened, AtHand
<1> QED BY <1>2, <1>3, <1>5, <1>6, <1>7, <1>8, Zenon DEF MInv, Quiet

----------------------------------------------------------------------------
(* What a worker has in memory, from one place to the next.                *)

\* execute, before the conversation loop.
LEMMA CarriesStarting ==
  ASSUME MInv, Counting, NEW r \in Command, NEW w, DOMAIN w = Slots, Carries(r, w), NEW d
  PROVE  /\ w.pc = "scope" => Carries(r, [w EXCEPT !.pc = "bind"])
         /\ w.pc = "bind" => Carries(r, [w EXCEPT !.pc = "start", !.digest = d])
         /\ w.pc = "start" => Carries(r, [w EXCEPT !.pc = "open", !.open = history.open,
                                                   !.texts = history.texts])
<1>1. ASSUME w.pc = "scope"
      PROVE  Carries(r, [w EXCEPT !.pc = "bind"])
  BY <1>1, Zenon DEF Carries, Knows, Opened, AtHand, Starting, Harness, Slots, NoWorker
<1>2. ASSUME w.pc = "bind"
      PROVE  Carries(r, [w EXCEPT !.pc = "start", !.digest = d])
  BY <1>2, Zenon DEF Carries, Knows, Opened, AtHand, Starting, Harness, Slots, NoWorker
<1>3. ASSUME w.pc = "start"
      PROVE  Carries(r, [w EXCEPT !.pc = "open", !.open = history.open, !.texts = history.texts])
  <2>1. history.open \in Int /\ history.texts \subseteq InRequests
    BY Zenon DEF MInv, RunsRemembered, InRequests
  <2> QED BY <1>3, <2>1, Zenon DEF Carries, Knows, Opened, AtHand, Starting, Harness, Slots, NoWorker
<1> QED BY <1>1, <1>2, <1>3, Zenon

\* Carries, of a worker that is in the conversation loop or done with it.
LEMMA CarriesOpened ==
  ASSUME NEW r \in Command, NEW w, Opened(w)
  PROVE  Carries(r, w) <=>
           /\ w.open \in Int /\ w.plan \in Nat
           /\ Knows(w) \subseteq InRequests
           /\ w.pc = "calls" => w.plan > 0
           /\ w.pc \notin {"calls", "call", "retry"} => w.plan = 0
           /\ w.open - AtHand(w) <= Cardinality(Besides(r))
           /\ Heard(r) \subseteq Knows(w)
           /\ ToRemember \subseteq w.texts
           /\ w.pc = "finish" /\ w.kept => ToRemember \subseteq w.texts
BY Zenon DEF Carries, Opened, Starting, Harness

\* Run, up to the first provider round.
LEMMA CarriesOpen ==
  ASSUME TypeOK, MInv, Counting, NEW r \in Command, NEW w, DOMAIN w = Slots, Carries(r, w), w.pc = "open",
         runs[r].state = "running",
         NEW i, i = commands[r].reply, NEW approved \in BOOLEAN
  PROVE  IF w.first /\ i # None
         THEN Carries(r, [w EXCEPT !.pc = IF approved THEN "approved" ELSE "invoke", !.round = 0,
                                   !.open = IF approved THEN saved[i].open ELSE saved[i].open - 1,
                                   !.texts = saved[i].texts, !.repairs = saved[i].repairs])
         ELSE Carries(r, [w EXCEPT !.pc = "invoke", !.round = 0, !.repairs = 1])
<1> DEFINE N == Cardinality(Besides(r))
<1>1. /\ N \in Nat /\ w.open \in Int /\ w.plan = 0 /\ history.open \in Int
      /\ history.texts \subseteq InRequests /\ ToRemember \subseteq history.texts
      /\ w.first => Heard(r) = {} /\ w.open = history.open /\ w.texts = history.texts
  BY Counted, Zenon DEF MInv, Carries, Starting, RunsRemembered, InRequests, ToRemember
<1>2. i # None => /\ history.open = saved[i].open /\ history.texts = saved[i].texts
                  /\ history.open <= N + 1
  BY Zenon DEF MInv, Stored, Resumes, Live
<1>3. i = None => history.open <= N
  BY Zenon DEF MInv, Stored, Live
<1>4. CASE w.first /\ i # None
  <2> DEFINE pc == IF approved THEN "approved" ELSE "invoke"
             open == IF approved THEN saved[i].open ELSE saved[i].open - 1
             v == [w EXCEPT !.pc = pc, !.round = 0, !.open = open,
                            !.texts = saved[i].texts, !.repairs = saved[i].repairs]
  <2>1. /\ v.pc = pc /\ v.open = open /\ v.texts = saved[i].texts /\ v.plan = w.plan
    BY Zenon DEF Slots, NoWorker
  <2>2. v.pc \in {"approved", "invoke"} /\ v.open \in Int /\ v.texts = history.texts
    BY <1>1, <1>2, <1>4, <2>1
  <2>3. Opened(v) /\ Knows(v) = history.texts
    BY <2>2, Zenon DEF Opened, Harness, Knows
  <2> HIDE DEF v
  <2>4. v.open - AtHand(v) <= N
    <3>1. w.plan = 0 /\ ~(0 > 0)
      BY <1>1
    <3>2. AtHand(v) = IF approved THEN 1 ELSE 0
      BY <2>1, <3>1, Zenon DEF AtHand
    <3>3. saved[i].open \in Int /\ N \in Nat /\ saved[i].open <= N + 1
      BY <1>1, <1>2, <1>4, Zenon
    <3>4. v.open = IF approved THEN saved[i].open ELSE saved[i].open - 1
      BY <2>1, Zenon
    <3> HIDE DEF N
    <3> QED BY <3>2, <3>3, <3>4
  <2>5. v.plan \in Nat /\ v.plan = 0
    BY <1>1, <2>1
  <2>6. Carries(r, v)
    BY <1>1, <1>4, <2>2, <2>3, <2>4, <2>5, CarriesOpened, ZenonT(30)
  <2> QED BY <1>4, <2>6, Zenon DEF v
<1>5. CASE ~(w.first /\ i # None)
  <2> DEFINE v == [w EXCEPT !.pc = "invoke", !.round = 0, !.repairs = 1]
  <2>1. v.pc = "invoke" /\ v.open = w.open /\ v.texts = w.texts /\ v.plan = w.plan
    BY Zenon DEF Slots, NoWorker
  <2>2. Opened(v) /\ Knows(v) = w.texts /\ AtHand(v) = 0
    BY <2>1, Zenon DEF Opened, Harness, Knows, AtHand
  <2>3. w.open <= N /\ Heard(r) \cup ToRemember \subseteq w.texts
    <3>1. CASE w.first
      BY <1>1, <1>3, <1>5, <3>1, Zenon
    <3>2. CASE ~w.first
      BY <1>1, <3>2 DEF Carries, Opened, AtHand, Knows
    <3> QED BY <3>1, <3>2, Zenon
  <2>4. w.texts \subseteq InRequests
    BY Zenon DEF Carries, Knows
  <2> HIDE DEF v
  <2>5. Carries(r, v)
    BY <1>1, <2>1, <2>2, <2>3, <2>4, CarriesOpened
  <2> QED BY <1>5, <2>5, Zenon DEF v
<1> QED BY <1>4, <1>5, ZenonT(30)

\* A provider round.
LEMMA CarriesRound ==
  ASSUME MInv, Counting, NEW r \in Command, NEW w, DOMAIN w = Slots, Carries(r, w),
         NEW S \in SUBSET Command
  PROVE  /\ w.pc = "invoke" =>
              Carries(r, [w EXCEPT !.pc = "request", !.pending = S, !.round = @ + 1])
         /\ w.pc = "request" /\ w.pending = {} => Carries(r, [w EXCEPT !.pc = "model"])
<1>1. ASSUME w.pc = "invoke"
      PROVE  Carries(r, [w EXCEPT !.pc = "request", !.pending = S, !.round = @ + 1])
  BY <1>1, Zenon DEF Carries, Knows, Opened, AtHand, Starting, Harness, Slots, NoWorker
<1>2. ASSUME w.pc = "request", w.pending = {}
      PROVE  Carries(r, [w EXCEPT !.pc = "model"])
  BY <1>2, Zenon DEF Carries, Knows, Opened, AtHand, Starting, Harness, Slots, NoWorker
<1> QED BY <1>1, <1>2, Zenon

\* The model answers.
LEMMA CarriesAnswer ==
  ASSUME MInv, Counting, NEW r \in Command, NEW w, DOMAIN w = Slots, Carries(r, w), w.pc = "model",
         NEW heard,
         heard = [w EXCEPT !.texts = @ \cup {c \in w.pending : commands[c].reply = None},
                           !.pending = {}]
  PROVE  /\ Carries(r, [heard EXCEPT !.pc = "finish", !.end = "completed"])
         /\ \A n \in 1..MaxCalls :
              Carries(r, [heard EXCEPT !.pc = "calls", !.plan = n, !.open = @ + n])
<1> DEFINE N == Cardinality(Besides(r))
           T == w.texts \cup {c \in w.pending : commands[c].reply = None}
<1>1. /\ DOMAIN heard = Slots /\ heard.texts = T /\ heard.open = w.open /\ heard.plan = w.plan
      /\ heard.pc = "model"
  BY Zenon DEF Slots, NoWorker
<1>2. /\ N \in Nat /\ w.open \in Int /\ w.plan = 0 /\ w.open <= N
      /\ w.texts \cup w.pending \subseteq InRequests
      /\ Heard(r) \subseteq w.texts \cup w.pending
      /\ ToRemember \subseteq w.texts
  BY Counted DEF MInv, Carries, Opened, AtHand, Knows, Harness
<1>3. T \subseteq InRequests /\ Heard(r) \cup ToRemember \subseteq T
  BY <1>2, Zenon DEF Heard, ToRemember
<1> HIDE DEF T
<1>4. Carries(r, [heard EXCEPT !.pc = "finish", !.end = "completed"])
  <2> DEFINE v == [heard EXCEPT !.pc = "finish", !.end = "completed"]
  <2>1. v.pc = "finish" /\ v.end = "completed" /\ v.texts = T /\ v.open = w.open /\ v.plan = 0
    BY <1>1, <1>2, Zenon DEF Slots, NoWorker
  <2> HIDE DEF v
  <2>2. Opened(v) /\ AtHand(v) = 0 /\ Knows(v) = T
    BY <2>1, Zenon DEF Opened, AtHand, Knows
  <2>3. v.plan \in Nat /\ v.open - AtHand(v) <= N
    BY <1>2, <2>1, <2>2
  <2>4. Carries(r, v)
    BY <1>2, <1>3, <2>1, <2>2, <2>3, CarriesOpened, ZenonT(30)
  <2> QED BY <2>4, Zenon DEF v
<1>5. ASSUME NEW n \in 1..MaxCalls
      PROVE  Carries(r, [heard EXCEPT !.pc = "calls", !.plan = n, !.open = @ + n])
  <2> DEFINE v == [heard EXCEPT !.pc = "calls", !.plan = n, !.open = @ + n]
  <2>1. v.pc = "calls" /\ v.texts = T /\ v.open = w.open + n /\ v.plan = n
    BY <1>1, <1>2, Zenon DEF Slots, NoWorker
  <2> HIDE DEF v
  <2>2. n \in Nat /\ n > 0
    BY BudgetAssumption
  <2>3. Opened(v) /\ AtHand(v) = n /\ Knows(v) = T
    BY <2>1, <2>2, Zenon DEF Opened, AtHand, Knows, Harness
  <2>4. v.open \in Int /\ v.open - AtHand(v) <= N
    BY <1>2, <2>1, <2>2, <2>3
  <2>5. Carries(r, v)
    BY <1>2, <1>3, <2>1, <2>2, <2>3, <2>4, CarriesOpened, ZenonT(30)
  <2> QED BY <2>5, Zenon DEF v
<1> QED BY <1>4, <1>5, Zenon

\* A proposal at hand gets its result.
LEMMA CarriesSettled ==
  ASSUME MInv, Counting, NEW r \in Command, NEW w, DOMAIN w = Slots, Carries(r, w),
         w.pc \in {"calls", "call", "approved", "rewait"}
  PROVE  /\ Carries(r, Settled(w))
         /\ Carries(r, [Settled(w) EXCEPT !.repairs = @ - 1])
<1> DEFINE N == Cardinality(Besides(r))
           plan == IF w.plan > 0 THEN w.plan - 1 ELSE 0
           pc == IF w.plan > 1 THEN "calls" ELSE "invoke"
<1>1. /\ N \in Nat /\ w.open \in Int /\ w.plan \in Nat /\ w.open - AtHand(w) <= N
      /\ AtHand(w) = IF w.plan > 0 THEN w.plan ELSE 1
      /\ w.texts \subseteq InRequests
      /\ Heard(r) \cup ToRemember \subseteq w.texts
  BY Counted DEF MInv, Carries, Opened, AtHand, Knows, Harness
<1>2. ASSUME NEW v, v \in {Settled(w), [Settled(w) EXCEPT !.repairs = @ - 1]}
      PROVE  Carries(r, v)
  <2>1. v.pc = pc /\ v.texts = w.texts /\ v.open = w.open - 1 /\ v.plan = plan
    BY <1>2, Zenon DEF Settled, Slots, NoWorker
  <2>2. pc \in {"calls", "invoke"} /\ (pc = "calls" => plan > 0) /\ plan \in Nat
        /\ (pc = "invoke" => plan = 0)
    BY <1>1
  <2>3. Opened(v) /\ Knows(v) = w.texts /\ AtHand(v) = plan
    BY <1>1, <2>1, <2>2, Zenon DEF Opened, AtHand, Knows, Harness
  <2>4. v.open - plan <= N
    BY <1>1, <2>1
  <2> HIDE DEF plan, pc
  <2>5. v.open \in Int
    BY <1>1, <2>1
  <2> QED BY <1>1, <2>1, <2>2, <2>3, <2>4, <2>5, CarriesOpened, ZenonT(30)
<1> QED BY <1>2, Zenon

\* An attempt is sent, or is to be repeated; an approval is asked for again; the
\* calls of a round are closed by steering; a further iteration.
LEMMA CarriesMoved ==
  ASSUME MInv, Counting, NEW r \in Command, NEW w, DOMAIN w = Slots, Carries(r, w), NEW k, NEW n
  PROVE  /\ w.pc \in {"calls", "approved", "retry"} =>
              Carries(r, [w EXCEPT !.pc = "call", !.call = k, !.attempt = n])
         /\ w.pc = "call" => Carries(r, [w EXCEPT !.pc = "retry"])
         /\ w.pc = "approved" => Carries(r, [w EXCEPT !.pc = "rewait"])
         /\ w.pc = "calls" =>
              Carries(r, [w EXCEPT !.pc = "invoke", !.open = @ - w.plan, !.plan = 0])
         /\ w.pc = "finish" /\ w.end = "completed" =>
              Carries(r, [w EXCEPT !.pc = "open", !.first = FALSE])
<1>0. Cardinality(Besides(r)) \in Nat
  BY Counted, Zenon DEF MInv
<1>1. ASSUME w.pc \in {"calls", "approved", "retry"}
      PROVE  Carries(r, [w EXCEPT !.pc = "call", !.call = k, !.attempt = n])
  BY <1>1 DEF Carries, Knows, Opened, AtHand, Starting, Harness, Slots, NoWorker
<1>2. ASSUME w.pc = "call"
      PROVE  Carries(r, [w EXCEPT !.pc = "retry"])
  BY <1>2, Zenon DEF Carries, Knows, Opened, AtHand, Starting, Harness, Slots, NoWorker
<1>3. ASSUME w.pc = "approved"
      PROVE  Carries(r, [w EXCEPT !.pc = "rewait"])
  BY <1>3, Zenon DEF Carries, Knows, Opened, AtHand, Starting, Harness, Slots, NoWorker
<1>4. ASSUME w.pc = "calls"
      PROVE  Carries(r, [w EXCEPT !.pc = "invoke", !.open = @ - w.plan, !.plan = 0])
  <2> DEFINE v == [w EXCEPT !.pc = "invoke", !.open = @ - w.plan, !.plan = 0]
  <2>1. v.pc = "invoke" /\ v.open = w.open - w.plan /\ v.plan = 0 /\ v.texts = w.texts
    BY Zenon DEF Slots, NoWorker
  <2>2. /\ w.open \in Int /\ w.plan \in Nat /\ w.open - w.plan <= Cardinality(Besides(r))
        /\ w.texts \subseteq InRequests
        /\ Heard(r) \cup ToRemember \subseteq w.texts
    BY <1>4, Zenon DEF Carries, Opened, AtHand, Knows, Harness
  <2>3. Opened(v) /\ AtHand(v) = 0 /\ Knows(v) = w.texts
    BY <2>1, Zenon DEF Opened, AtHand, Knows, Harness
  <2> HIDE DEF v
  <2>4. v.open \in Int /\ v.plan \in Nat /\ v.open - AtHand(v) <= Cardinality(Besides(r))
    BY <1>0, <2>1, <2>2, <2>3
  <2>5. Carries(r, v)
    BY <2>1, <2>2, <2>3, <2>4, CarriesOpened, ZenonT(30)
  <2> QED BY <2>5, Zenon DEF v
<1>5. ASSUME w.pc = "finish", w.end = "completed"
      PROVE  Carries(r, [w EXCEPT !.pc = "open", !.first = FALSE])
  BY <1>5, Zenon DEF Carries, Knows, Opened, AtHand, Starting, Harness, Slots, NoWorker
<1> QED BY <1>1, <1>2, <1>3, <1>4, <1>5, Zenon

\* A run that fails.
LEMMA CarriesFailing ==
  ASSUME NEW r \in Command, NEW w, Carries(r, w), NEW state, state # "completed",
         NEW kept, kept <=> w.pc \in Harness
  PROVE  Carries(r, [Failing(w, state) EXCEPT !.kept = kept])
<1> DEFINE v == [Failing(w, state) EXCEPT !.kept = kept]
<1>1. /\ v.pc = "finish" /\ v.end = state /\ v.kept = kept /\ v.open = 0 /\ v.plan = 0
      /\ v.texts = w.texts
  BY Zenon DEF Failing, NoWorker
<1>2. w.texts \subseteq InRequests
  BY Zenon DEF Carries, Knows
<1>3. w.pc \in Harness => ToRemember \subseteq w.texts
  BY Zenon DEF Carries, Opened, Knows
<1> HIDE DEF v
<1>4. Knows(v) = w.texts /\ ~Opened(v) /\ v.pc \notin Starting
  BY <1>1, Zenon DEF Knows, Opened, Starting, Harness
<1>5. v.kept => ToRemember \subseteq v.texts
  BY <1>1, <1>3, Zenon
<1>6. v.open \in Int /\ v.plan \in Nat
  BY <1>1
<1>7. Carries(r, v)
  BY <1>1, <1>2, <1>4, <1>5, <1>6, ZenonT(30) DEF Carries
<1> QED BY <1>7 DEF v

----------------------------------------------------------------------------
(* Steps of a worker that keep the memory of the conversation.             *)

\* Steps that end no run, ask nothing and send no message to the model.
Silent(o) ==
  \/ Scope(o) \/ Bind(o) \/ StartRun(o) \/ Open(o) \/ Invoke(o) \/ Respond(o)
  \/ AnswerLocally(o) \/ CallTool(o) \/ AskSteered(o) \/ ApprovedVanished(o) \/ ApprovedChanged(o)
  \/ AskAgainSteered(o) \/ CallApproved(o) \/ Return(o) \/ Repeat(o) \/ Stumble(o) \/ FollowUp(o)

\* A silent step is quiet.
LEMMA SilentQuiet ==
  ASSUME IInv, WInv, NEW o \in owners, Silent(o)
  PROVE  Quiet
<1> TypeOK /\ o.run \in Command /\ runs[o.run] \in RunRow
  BY Zenon DEF IInv, Lifecycle, TypeOK, Owner
<1>0. history' = history /\ saved' = saved
  BY Zenon
      DEF Silent, Scope, Bind, StartRun, Open, Invoke, Respond, AnswerLocally, CallTool, Send,
    AskSteered, ApprovedVanished, ApprovedChanged, AskAgainSteered, CallApproved, Return, Repeat,
    Stumble, FollowUp
<1>1. ASSUME \A x \in Command : runs'[x].state = runs[x].state,
             commands' = commands,
             \A x \in Command : interactions'[x].state = interactions[x].state
                                /\ interactions'[x].cont = interactions[x].cont
      PROVE  Quiet
  BY <1>0, <1>1, Zenon DEF Quiet
<1>2. CASE Scope(o)
  <2>1. PICK v \in Product : runs' = [runs EXCEPT ![o.run] = Scoped(runs[o.run], v)]
    BY <1>2, Zenon DEF Scope, RecordRunScope
  <2>2. \A x \in Command : runs'[x].state = runs[x].state
    <3>1. Scoped(runs[o.run], v).state = runs[o.run].state
      BY ScopedRow, Zenon
    <3> QED BY <2>1, <3>1, SameState, Zenon
  <2> QED BY <1>1, <1>2, <2>2, Zenon DEF Scope, RecordRunScope
<1>3. CASE StartRun(o)
  <2>1. workers[o.run].digest \in Digest
    BY <1>3, Zenon DEF StartRun, At, WInv, Placed
  <2>2. TargetJourney(o.run) \in Journey \cup {None}
    BY TargetAssumption, Zenon DEF TargetJourney, RunRow
  <2>3. runs' = [runs EXCEPT ![o.run] =
                   Started(runs[o.run], TargetJourney(o.run), workers[o.run].digest)]
    BY <1>3, Zenon DEF StartRun, Start
  <2>4. \A x \in Command : runs'[x].state = runs[x].state
    <3>1. Started(runs[o.run], TargetJourney(o.run), workers[o.run].digest).state = runs[o.run].state
      BY <2>1, <2>2, StartedRow, Zenon
    <3> QED BY <2>3, <3>1, SameState, Zenon
  <2> QED BY <1>1, <1>3, <2>4, Zenon DEF StartRun, Start
<1>4. ASSUME NEW i \in Command, NEW marker \in Marker, runs' = runs, commands' = commands,
             interactions' = [interactions EXCEPT ![i] = Marked(interactions[i], marker)]
      PROVE  Quiet
  <2>1. interactions[i] \in InteractionRow
    BY Zenon DEF TypeOK
  <2>2. \A x \in Command : interactions'[x].state = interactions[x].state
                           /\ interactions'[x].cont = interactions[x].cont
    BY <1>4, <2>1, MarkedRow DEF TypeOK
  <2> QED BY <1>1, <1>4, <2>2, Zenon
<1>5. CASE ApprovedVanished(o) \/ ApprovedChanged(o)
  <2>1. commands[o.run].reply \in Command /\ Supersede(o, commands[o.run].reply)
    BY <1>5, Zenon DEF ApprovedVanished, ApprovedChanged, At, WInv, Placed
  <2> QED BY <1>4, <2>1, "superseded" \in Marker, Zenon DEF Supersede, Marker
<1>6. CASE CallApproved(o)
  <2> DEFINE i == commands[o.run].reply
  <2>1. i \in Command
    BY <1>6, ZenonT(30) DEF CallApproved, At, WInv, Placed
  <2>2. PICK marker \in {"dispatched", "superseded"} :
          interactions' = [interactions EXCEPT ![i] = Marked(interactions[i], marker)]
    BY <1>6, Zenon DEF CallApproved, BeginApproved
  <2>3. runs' = runs /\ commands' = commands
    BY <1>6, Zenon DEF CallApproved, BeginApproved
  <2> QED BY <1>4, <2>1, <2>2, <2>3, ZenonT(30) DEF Marker
<1>7. CASE UNCHANGED <<runs, commands, interactions>>
  BY <1>1, <1>7, Zenon
<1>8. CASE Bind(o) \/ CallTool(o) \/ Return(o) \/ Repeat(o)
  BY <1>7, <1>8, Zenon
      DEF Bind, ResolveDefinition, CallTool, BeginUnapproved, Return, EndAttempt, Repeat,
    BeginRetry, vars
<1>9. CASE \/ Open(o) \/ Invoke(o) \/ Respond(o) \/ AnswerLocally(o) \/ AskSteered(o)
           \/ AskAgainSteered(o) \/ Stumble(o) \/ FollowUp(o)
  BY <1>7, <1>9, ZenonT(30)
      DEF Open, Invoke, Respond, AnswerLocally, AskSteered, AskAgainSteered, Stumble,
    FollowUp, vars
<1> QED BY <1>2, <1>3, <1>5, <1>6, <1>8, <1>9, ZenonT(30) DEF Silent

\* A silent step leaves its worker with what it should carry.
LEMMA SilentCarries ==
  ASSUME IInv, WInv, MInv, Counting, NEW o \in owners, Silent(o), runs[o.run].state = "running"
  PROVE  \E v : workers'[o.run] = v /\ Carries(o.run, v)
<1> TypeOK /\ o.run \in Command /\ DOMAIN workers = Command
  BY Zenon DEF IInv, Lifecycle, TypeOK, Owner, WInv
<1> DEFINE w == workers[o.run]
           i == commands[o.run].reply
<1>0. DOMAIN w = Slots /\ Carries(o.run, w) /\ Able(w, o.run)
  BY Zenon DEF MInv, WInv, Placed, Able
<1> DEFINE Goal == \E v : workers'[o.run] = v /\ Carries(o.run, v)
<1>1. ASSUME NEW v, Carries(o.run, v), Become(o, v)
      PROVE  Goal
  BY <1>1, Zenon DEF Become
<1> SUFFICES Goal
  BY Zenon
<1> HIDE DEF Goal
<1>2. CASE Scope(o)
  BY <1>0, <1>1, <1>2, CarriesStarting, Zenon DEF Scope, At
<1>3. CASE Bind(o)
  <2>1. PICK d : d = pin'
    BY Zenon
  <2>2. w.pc = "bind" /\ Become(o, [w EXCEPT !.pc = "start", !.digest = d])
    BY <1>3, <2>1, Zenon DEF Bind, At
  <2> QED BY <1>0, <1>1, <2>2, CarriesStarting, Zenon
<1>4. CASE StartRun(o)
  BY <1>0, <1>1, <1>4, CarriesStarting, Zenon DEF StartRun, At
<1>5. CASE Open(o)
  <2> DEFINE approved == commands[o.run].reason = "consumed"
             resumed == [w EXCEPT !.pc = IF approved THEN "approved" ELSE "invoke", !.round = 0,
                                  !.open = IF approved THEN saved[i].open ELSE saved[i].open - 1,
                                  !.texts = saved[i].texts, !.repairs = saved[i].repairs]
             opened == [w EXCEPT !.pc = "invoke", !.round = 0, !.repairs = 1]
  <2>1. w.pc = "open" /\ Become(o, IF w.first /\ i # None THEN resumed ELSE opened)
    BY <1>5, Zenon DEF Open, At
  <2>2. approved \in BOOLEAN
    BY Zenon
  <2>3. IF w.first /\ i # None THEN Carries(o.run, resumed) ELSE Carries(o.run, opened)
    <3> HIDE DEF approved
    <3> QED BY <1>0, <2>1, <2>2, CarriesOpen, ZenonT(30)
  <2> HIDE DEF resumed, opened
  <2>4. CASE w.first /\ i # None
    BY <1>1, <2>1, <2>3, <2>4, Zenon
  <2>5. CASE ~(w.first /\ i # None)
    BY <1>1, <2>1, <2>3, <2>5, Zenon
  <2> QED BY <2>4, <2>5, ZenonT(30)
<1>6. CASE Invoke(o)
  <2>1. Undrained(o.run) \in SUBSET Command
    BY Zenon DEF Undrained
  <2>2. w.pc = "invoke"
        /\ Become(o, [w EXCEPT !.pc = "request", !.pending = Undrained(o.run), !.round = @ + 1])
    BY <1>6, Zenon DEF Invoke, At
  <2> QED BY <1>0, <1>1, <2>1, <2>2, CarriesRound, Zenon
<1>7. CASE Respond(o)
  <2> DEFINE heard == [w EXCEPT !.texts = @ \cup {c \in w.pending : commands[c].reply = None},
                                !.pending = {}]
  <2>1. /\ w.pc = "model"
        /\ \/ Become(o, [heard EXCEPT !.pc = "finish", !.end = "completed"])
           \/ \E n \in 1..MaxCalls :
                Become(o, [heard EXCEPT !.pc = "calls", !.plan = n, !.open = @ + n])
    BY <1>7, Zenon DEF Respond, At
  <2>2. /\ Carries(o.run, [heard EXCEPT !.pc = "finish", !.end = "completed"])
        /\ \A n \in 1..MaxCalls :
             Carries(o.run, [heard EXCEPT !.pc = "calls", !.plan = n, !.open = @ + n])
    BY <1>0, <2>1, CarriesAnswer, Zenon
  <2> HIDE DEF heard
  <2> QED BY <1>1, <2>1, <2>2, Zenon
<1>8. CASE AnswerLocally(o) \/ ApprovedVanished(o) \/ AskAgainSteered(o)
  <2>1. w.pc \in {"calls", "call", "approved", "rewait"} /\ Become(o, Settled(w))
    BY <1>8, Zenon DEF AnswerLocally, ApprovedVanished, AskAgainSteered, At
  <2> QED BY <1>0, <1>1, <2>1, CarriesSettled, ZenonT(30)
<1>9. ASSUME NEW k, NEW n, Send(o, k, n, w), w.pc \in {"calls", "approved", "retry"}
      PROVE  Goal
  BY <1>0, <1>1, <1>9, CarriesMoved, Zenon DEF Send
<1>10. CASE CallTool(o) \/ CallApproved(o) \/ Repeat(o)
  <2>1. w.pc \in {"calls", "approved", "retry"} /\ \E k, n : Send(o, k, n, w)
    BY <1>10, Zenon DEF CallTool, CallApproved, Repeat, At
  <2> QED BY <1>9, <2>1, Zenon
<1>11. CASE AskSteered(o)
  BY <1>0, <1>1, <1>11, CarriesMoved, Zenon DEF AskSteered, At
<1>12. CASE ApprovedChanged(o)
  BY <1>0, <1>1, <1>12, CarriesMoved, ZenonT(30) DEF ApprovedChanged, At
<1>13. CASE Return(o)
  <2>1. w.pc = "call"
    BY <1>13, ZenonT(30) DEF Return, At
  <2>2. PICK outcome \in DOMAIN ToolEvent, forbidden \in BOOLEAN :
          Become(o, AfterAttempt(w, operations[w.call].policy, outcome, forbidden))
    BY <1>13, ZenonT(30) DEF Return
  <2> DEFINE after == AfterAttempt(w, operations[w.call].policy, outcome, forbidden)
  <2>3. after \in {Settled(w), Failing(w, "auth_required"), [w EXCEPT !.pc = "retry"],
                   Failing(w, "failed"), [Settled(w) EXCEPT !.repairs = @ - 1]}
    BY Zenon DEF AfterAttempt, ToolEvent
  <2> HIDE DEF after
  <2>4. Carries(o.run, Settled(w)) /\ Carries(o.run, [Settled(w) EXCEPT !.repairs = @ - 1])
    BY <1>0, <2>1, CarriesSettled, Zenon
  <2>5. Carries(o.run, [w EXCEPT !.pc = "retry"])
    BY <1>0, <2>1, CarriesMoved, Zenon
  <2>6. ASSUME NEW state \in {"failed", "auth_required"}
        PROVE  Carries(o.run, Failing(w, state))
    <3>1. Carries(o.run, [Failing(w, state) EXCEPT !.kept = TRUE])
      BY <1>0, <2>1, CarriesFailing, Zenon DEF Harness
    <3>2. [Failing(w, state) EXCEPT !.kept = TRUE] = Failing(w, state)
      BY Zenon DEF Failing, NoWorker
    <3> QED BY <3>1, <3>2, Zenon
  <2>7. Carries(o.run, after)
    BY <2>3, <2>4, <2>5, <2>6, Zenon
  <2> QED BY <1>1, <2>2, <2>7, ZenonT(30) DEF after
<1>14. CASE Stumble(o)
  <2>1. PICK state \in Failures(w.pc) : Become(o, [Failing(w, state) EXCEPT !.kept = w.pc \in Harness])
    BY <1>14, Zenon DEF Stumble
  <2>2. state # "completed"
    BY FailureAssumption, Zenon DEF Failures
  <2>3. PICK kept : kept = (w.pc \in Harness)
    BY Zenon
  <2>4. Carries(o.run, [Failing(w, state) EXCEPT !.kept = kept])
    BY <1>0, <2>2, <2>3, CarriesFailing, Zenon
  <2> QED BY <1>1, <2>1, <2>3, <2>4, Zenon
<1>15. CASE FollowUp(o)
  BY <1>0, <1>1, <1>15, CarriesMoved, Zenon DEF FollowUp, At
<1> QED BY <1>2, <1>3, <1>4, <1>5, <1>6, <1>7, <1>8, <1>10, <1>11, <1>12, <1>13, <1>14, <1>15,
    ZenonT(30)
        DEF Silent

\* A silent step keeps the memory.
LEMMA SilentKeeps ==
  ASSUME IInv, WInv, MInv, Counting, NEW o \in owners, Silent(o)
  PROVE  MInv'
<1> TypeOK /\ o.run \in Command
  BY Zenon DEF IInv, Lifecycle, TypeOK, Owner
<1>1. Quiet
  BY SilentQuiet, Zenon
<1>2. runs'[o.run].state = "running" => runs[o.run].state = "running"
  <2>1. CASE Scope(o) \/ StartRun(o)
    BY <2>1, Zenon DEF Scope, RecordRunScope, StartRun, Start, lockOwner
  <2>2. CASE ~(Scope(o) \/ StartRun(o))
    <3>1. runs' = runs
      BY <2>2, Zenon
          DEF Silent, Bind, ResolveDefinition, Open, Invoke, Respond, AnswerLocally, CallTool,
        BeginUnapproved, AskSteered, ApprovedVanished, ApprovedChanged, Supersede, AskAgainSteered,
        CallApproved, BeginApproved, Return, EndAttempt, Repeat, BeginRetry, Stumble, FollowUp, vars
    <3> QED BY <3>1, Zenon
  <2> QED BY <2>1, <2>2, Zenon
<1>3. Step(o)
  BY Zenon DEF Silent, Step
<1>4. ASSUME NEW r \in Command, runs'[r].state = "running"
      PROVE  \E w : workers'[r] = w /\ Carries(r, w)
  <2>1. CASE r = o.run
    BY <1>2, <1>4, <2>1, SilentCarries, Zenon
  <2>2. CASE r # o.run
    <3>1. workers'[r] = workers[r] /\ runs[r].state = "running"
      BY <1>3, <1>4, <2>2, OthersStay, Zenon
    <3> QED BY <3>1, Zenon DEF MInv
  <2> QED BY <2>1, <2>2, Zenon
<1> QED BY <1>1, <1>4, QuietKeeps, Zenon

\* Messages go into a request.
LEMMA IncludedKeeps ==
  ASSUME IInv, WInv, MInv, Counting, NEW o \in owners, OnDispatch(o)
  PROVE  MInv'
<1> TypeOK /\ o.run \in Command /\ DOMAIN workers = Command /\ None \notin Command
  BY NoneAssumption, Zenon DEF IInv, Lifecycle, TypeOK, Owner, WInv
<1> DEFINE r == o.run
           w == workers[r]
           S == w.pending
           v == [w EXCEPT !.pc = "model"]
<1>1. /\ w.pc = "request" /\ runs[r].state = "running" /\ runs' = runs /\ history' = history
      /\ saved' = saved /\ interactions' = interactions
      /\ workers' = [workers EXCEPT ![r] = v]
  BY Zenon DEF OnDispatch, At, Become, Included, lockOwner, vars
<1>2. DOMAIN w = Slots /\ Carries(r, w)
  BY <1>1, Zenon DEF MInv, WInv, Placed
<1>3. workers'[r] = v /\ \A x \in Command : x # r => workers'[x] = workers[x]
  BY <1>1, Zenon
<1>4. v.pc = "model" /\ v.open = w.open /\ v.plan = w.plan /\ v.texts = w.texts
      /\ v.pending = S /\ v.first = w.first
  BY <1>2, Zenon DEF Slots, NoWorker
<1>5. CASE S = {}
  <2>1. commands' = commands
    BY <1>5, Zenon DEF OnDispatch, vars
  <2>2. Quiet
    BY <1>1, <2>1, Zenon DEF Quiet
  <2>3. Carries(r, v)
    BY <1>1, <1>2, <1>5, CarriesRound, ZenonT(30)
  <2> HIDE DEF v
  <2>4. \A x \in Command : runs'[x].state = "running" => \E u : workers'[x] = u /\ Carries(x, u)
    BY <1>1, <1>3, <2>3, Zenon DEF MInv
  <2> QED BY <2>2, <2>4, QuietKeeps, Zenon
<1>6. CASE S # {}
  <2>1. /\ S \subseteq Undrained(r)
        /\ commands' = [c \in Command |-> IF c \in S THEN InRequest(commands[c]) ELSE commands[c]]
    BY <1>6, Zenon DEF OnDispatch, Included
  <2>2. \A c \in Command :
          /\ commands'[c].exec = commands[c].exec
          /\ commands'[c].reply = commands[c].reply
          /\ c \in S => commands'[c].included /\ commands[c].exec = r
          /\ c \notin S => commands'[c] = commands[c]
    BY <2>1, InRequestRow, Zenon DEF TypeOK, Undrained
  <2>3. S \subseteq Command
    BY <2>1, Zenon DEF Undrained
  <2>4. InRequests' = InRequests \cup S /\ InRequests \subseteq Command
    BY <2>2, <2>3, Zenon DEF InRequests
  <2>5. ToRemember' = ToRemember
    <3>1. ASSUME NEW c \in Command
          PROVE  (c \in ToRemember)' <=> c \in ToRemember
      BY <1>1, <2>2, <2>3, <2>4, ZenonT(30) DEF ToRemember
    <3>2. ToRemember \subseteq Command /\ ToRemember' \subseteq Command
      BY DEF ToRemember, InRequests
    <3> QED BY <3>1, <3>2, Zenon
  <2>6. Heard(r)' \subseteq Heard(r) \cup S
    BY <2>2, <2>3, <2>4, Zenon DEF Heard
  <2>7. \A x \in Command : x # r => Heard(x)' = Heard(x)
    BY <2>2, <2>3, <2>4 DEF Heard
  <2>8. \A x \in Command : (Unanswered(x)' <=> Unanswered(x)) /\ Besides(x)' = Besides(x)
    BY <1>1, Zenon DEF Unanswered, Besides
  <2>9. RepliesMatch'
    <3>1. RepliesMatch
      BY Zenon DEF MInv
    <3>2. \A c \in Command : commands'[c].exec = None => ~commands'[c].included
      BY <2>2, <3>1 DEF RepliesMatch
    <3>3. \A c \in Command : commands'[c].reply # None =>
            commands'[c].exec = c /\ interactions'[commands'[c].reply].cont = c
      <4> SUFFICES ASSUME NEW c \in Command, commands[c].reply # None
                   PROVE  commands[c].exec = c /\ interactions[commands[c].reply].cont = c
        BY <1>1, <2>2, Zenon
      <4> QED BY <3>1, Zenon DEF RepliesMatch
    <3>4. \A i \in Command :
            IF interactions[i].state = "consumed"
            THEN interactions[i].cont \in Command /\ commands'[interactions[i].cont].reply = i
            ELSE interactions[i].cont = None
      BY <2>2, <3>1 DEF RepliesMatch
    <3> QED BY <1>1, <3>2, <3>3, <3>4, ZenonT(30) DEF RepliesMatch
  <2>10. {i \in Command : Unanswered(i)}' = {i \in Command : Unanswered(i)}
    BY <2>8, Zenon
  <2>11. ProposalsAccounted'
    BY <1>1, <2>10, Zenon DEF MInv, ProposalsAccounted
  <2>12. RunsRemembered'
    <3>1. history.texts \subseteq InRequests /\ ToRemember \subseteq history.texts
      BY Zenon DEF MInv, RunsRemembered, InRequests, ToRemember
    <3>2. (history.texts \subseteq InRequests /\ ToRemember \subseteq history.texts)'
      BY <1>1, <2>4, <2>5, <3>1, ZenonT(30)
    <3> QED BY <3>2, Zenon DEF RunsRemembered, InRequests, ToRemember
  <2>13. ASSUME NEW x \in Command
         PROVE  Stored(x)'
    <3>1. runs'[x].state \in {"absent", "pending"} => x # r
      BY <1>1, ZenonT(30)
    <3>2. commands'[x].reply = commands[x].reply /\ Besides(x)' = Besides(x)
      BY <2>2, <2>8, ZenonT(30)
    <3>3. Stored(x)
      BY DEF MInv
    <3> QED BY <1>1, <2>7, <3>1, <3>2, <3>3, ZenonT(30) DEF Stored, Resumes
  <2>14. Carries(r, workers[r])'
    <3> DEFINE N == Cardinality(Besides(r))
    <3>1. /\ w.open \in Int /\ w.plan = 0 /\ w.open - 0 <= N
          /\ w.texts \subseteq InRequests
          /\ Heard(r) \subseteq w.texts /\ ToRemember \subseteq w.texts
      BY <1>1, <1>2, ZenonT(30) DEF Carries, Knows, Opened, AtHand, Harness
    <3> HIDE DEF v
    <3>2. /\ workers'[r].pc = "model" /\ workers'[r].open = w.open /\ workers'[r].plan = 0
          /\ workers'[r].texts = w.texts /\ workers'[r].pending = S
      BY <1>3, <1>4, <3>1, Zenon
    <3>3. /\ Opened(workers[r])' /\ AtHand(workers[r])' = 0 /\ Knows(workers[r])' = w.texts \cup S
      BY <3>2, ZenonT(30) DEF Opened, AtHand, Knows, Harness
    <3>4. /\ (Heard(r) \subseteq Knows(workers[r]))'
          /\ (Knows(workers[r]) \subseteq InRequests)'
          /\ (ToRemember \subseteq workers[r].texts)'
          /\ Besides(r)' = Besides(r)
      BY <2>4, <2>5, <2>6, <2>8, <3>1, <3>2, <3>3, ZenonT(30)
    <3>5. (workers[r].open - AtHand(workers[r]) <= Cardinality(Besides(r)))'
      BY <3>1, <3>2, <3>3, <3>4, ZenonT(30)
    <3>6. (workers[r].open \in Int /\ workers[r].plan \in Nat /\ workers[r].plan = 0)'
      BY <3>1, <3>2
    <3>7. (workers[r].pc = "model" /\ workers[r].pc \notin Starting)'
      BY <3>2, Zenon DEF Starting
    <3> QED BY <3>4, <3>5, <3>6, <3>7, ZenonT(30) DEF Carries
  <2>15. ASSUME NEW x \in Command, runs'[x].state = "running"
         PROVE  Carries(x, workers[x])'
    <3>1. CASE x = r
      BY <2>14, <3>1, Zenon
    <3>2. CASE x # r
      BY <1>1, <2>15, <3>2, ZenonT(30) DEF IInv, Lifecycle, Exclusive, Busy, Live
    <3> QED BY <3>1, <3>2, Zenon
  <2> QED BY <1>1, <2>9, <2>11, <2>12, <2>13, <2>15, ZenonT(30) DEF MInv
<1> QED BY <1>5, <1>6, Zenon

----------------------------------------------------------------------------
(* A run stops: it waits, has completed or has failed.                     *)

\* r is the only busy run and stops; the tables keep what they say of everybody else.
Stops(r) ==
  /\ runs[r].state = "running"
  /\ runs'[r].state \notin {"absent"} \cup Live
  /\ \A x \in Command :
       /\ x # r => runs'[x] = runs[x] /\ interactions'[x] = interactions[x]
       /\ commands'[x].exec = commands[x].exec
       /\ commands'[x].reply = commands[x].reply
       /\ commands'[x].included = commands[x].included
  /\ \/ interactions'[r] = interactions[r]
     \/ interactions'[r].state = "pending" /\ interactions'[r].cont = None

\* What a run that stops adds to what must be remembered, and to the waits.
LEMMA StopsSets ==
  ASSUME IInv, MInv, Counting, NEW r \in Command, Stops(r)
  PROVE  /\ InRequests' = InRequests
         /\ \A x \in Command : Heard(x)' = Heard(x)
         /\ ToRemember' \subseteq ToRemember \cup Heard(r)
         /\ runs'[r].state \notin {"completed", "awaiting_input"} => ToRemember' = ToRemember
         /\ Besides(r)' = Besides(r)
         /\ Besides(r) \subseteq {i \in Command : Unanswered(i)}'
         /\ interactions'[r].state = "pending" => r \in {i \in Command : Unanswered(i)}'
         /\ runs'[r].state # "completed" =>
              {i \in Command : Unanswered(i)} \subseteq {i \in Command : Unanswered(i)}'
         /\ IsFiniteSet({i \in Command : interactions[i].state # "absent"})'
         /\ RepliesMatch'
         /\ \A x \in Command : x # r => runs[x].state \notin Live
                                        /\ interactions[x].state # "pending"
         /\ interactions[r] = NoInteraction
<1> TypeOK /\ Lifecycle /\ RepliesMatch /\ None \notin Command
  BY NoneAssumption, Zenon DEF IInv, Lifecycle, MInv
<1>1. \A x \in Command : x # r => runs[x].state \notin Live /\ interactions[x].state # "pending"
  BY Zenon DEF Stops, Lifecycle, Exclusive, Busy, Live
<1>2. interactions[r] = NoInteraction /\ interactions[r].state = "absent"
      /\ interactions[r].cont = None
  BY BlankRows, Zenon DEF Stops, Lifecycle, RunsConsistent, Live
<1>3. InRequests' = InRequests /\ InRequests \subseteq Command
  BY Zenon DEF Stops, InRequests
<1>4. \A x \in Command : Heard(x)' = Heard(x)
  BY <1>3 DEF Stops, Heard
<1>5. \A c \in InRequests : commands[c].exec \in Command
  BY <1>3, Zenon DEF InRequests, RepliesMatch, TypeOK, CommandRow
<1>6. ToRemember' \subseteq ToRemember \cup Heard(r)
  <2>1. ASSUME NEW c \in InRequests, c \in ToRemember'
        PROVE  c \in ToRemember \cup Heard(r)
    <3>1. /\ commands[c].reply = None /\ commands[c].exec \in Command
          /\ runs'[commands[c].exec].state \in {"completed", "awaiting_input"}
      BY <1>3, <1>5, <2>1, ZenonT(30) DEF Stops, ToRemember
    <3>2. CASE commands[c].exec = r
      BY <3>1, <3>2, Zenon DEF Heard
    <3>3. CASE commands[c].exec # r
      BY <3>1, <3>3, Zenon DEF Stops, ToRemember
    <3> QED BY <3>2, <3>3, Zenon
  <2> QED BY <1>3, <2>1 DEF ToRemember
<1>7. runs'[r].state \notin {"completed", "awaiting_input"} => ToRemember' = ToRemember
  <2>1. ASSUME NEW c \in InRequests, runs'[r].state \notin {"completed", "awaiting_input"}
        PROVE  c \in ToRemember' <=> c \in ToRemember
    BY <1>3, <1>5, <2>1 DEF Stops, ToRemember
  <2> QED BY <1>3, <2>1 DEF ToRemember
<1>8. \A i \in Command : interactions[i].state = "consumed" => interactions[i].cont \in Command
  BY Zenon DEF RepliesMatch
<1>9. \A i \in Command : i # r /\ interactions[i].cont # r => (Unanswered(i)' <=> Unanswered(i))
  BY <1>8 DEF Stops, Unanswered
<1>10. Besides(r)' = Besides(r)
  BY <1>9, Zenon DEF Stops, Besides
<1>11. Besides(r) \subseteq {i \in Command : Unanswered(i)}'
  BY <1>9, Zenon DEF Besides
<1>12. interactions'[r].state = "pending" => r \in {i \in Command : Unanswered(i)}'
  BY Zenon DEF Unanswered
<1>13. ASSUME runs'[r].state # "completed"
       PROVE  {i \in Command : Unanswered(i)} \subseteq {i \in Command : Unanswered(i)}'
  BY <1>2, <1>8, <1>13 DEF Stops, Unanswered
<1>14. IsFiniteSet({i \in Command : interactions[i].state # "absent"})'
  <2> DEFINE A == {i \in Command : interactions[i].state # "absent"}
  <2>1. IsFiniteSet(A)
    BY Zenon DEF MInv
  <2>2. IsFiniteSet(A \cup {r})
    BY <2>1, CountAdd, Zenon
  <2>3. A' \subseteq A \cup {r}
    BY Zenon DEF Stops
  <2> HIDE DEF A
  <2>4. IsFiniteSet(A')
    BY <2>2, <2>3, CountSubset, ZenonT(30)
  <2> QED BY <2>4, Zenon DEF A
<1>15. RepliesMatch'
  <2>0. \A c \in Command : commands[c].reply # None => commands[c].reply \in Command
    BY ZenonT(30) DEF TypeOK, CommandRow
  <2>1. \A c \in Command :
          /\ commands[c].reply # None => commands[c].reply \in Command /\ commands[c].reply # r
          /\ commands'[c].exec = None => ~commands'[c].included
    <3>1. \A c \in Command : commands[c].reply # None => commands[c].reply # r
      BY <1>2, Zenon DEF RepliesMatch
    <3>2. \A c \in Command : commands'[c].exec = None => ~commands'[c].included
      BY Zenon DEF Stops, RepliesMatch
    <3> QED BY <2>0, <3>1, <3>2, Zenon
  <2>2. \A c \in Command : commands'[c].reply # None =>
          commands'[c].exec = c /\ interactions'[commands'[c].reply].cont = c
    BY <2>1 DEF Stops, RepliesMatch
  <2>3. \A i \in Command :
          IF interactions'[i].state = "consumed"
          THEN interactions'[i].cont \in Command /\ commands'[interactions'[i].cont].reply = i
          ELSE interactions'[i].cont = None
    <3> TAKE i \in Command
    <3>1. CASE i = r
      BY <1>2, <3>1, Zenon DEF Stops
    <3>2. CASE i # r
      BY <3>2, ZenonT(30) DEF Stops, RepliesMatch
    <3> QED BY <3>1, <3>2, Zenon
  <2> QED BY <2>1, <2>2, <2>3, Zenon DEF RepliesMatch
<1> QED BY <1>1, <1>2, <1>3, <1>4, <1>6, <1>7, <1>10, <1>11, <1>12, <1>13, <1>14, <1>15,
    ZenonT(30)

\* A run that stops keeps the memory if what it stores accounts for what it adds.
LEMMA StopsKeeps ==
  ASSUME IInv, MInv, Counting, NEW r \in Command, Stops(r),
         history'.open \in Int, DOMAIN saved' = Command, \A x \in Command : saved'[x].open \in Int,
         history'.open <= Cardinality({i \in Command : Unanswered(i)})',
         history'.texts \subseteq InRequests, ToRemember' \subseteq history'.texts,
         interactions'[r].state = "pending" =>
           Resumes(r)' /\ history'.open <= Cardinality(Besides(r)) + 1
  PROVE  MInv'
<1>1. /\ InRequests' = InRequests
      /\ \A x \in Command : Heard(x)' = Heard(x)
      /\ Besides(r)' = Besides(r)
      /\ IsFiniteSet({i \in Command : interactions[i].state # "absent"})'
      /\ RepliesMatch'
      /\ \A x \in Command : x # r => runs[x].state \notin Live /\ interactions[x].state # "pending"
  BY StopsSets, Zenon
<1>2. ProposalsAccounted'
  BY ZenonT(30) DEF ProposalsAccounted
<1>3. RunsRemembered'
  <2>1. (history.texts \subseteq InRequests /\ ToRemember \subseteq history.texts)'
    BY <1>1, Zenon
  <2> QED BY <2>1, Zenon DEF RunsRemembered, InRequests, ToRemember
<1>4. ASSUME NEW x \in Command
      PROVE  Stored(x)' /\ runs'[x].state # "running"
  <2>1. CASE x = r
    <3>1. runs'[x].state \notin {"absent"} \cup Live
      BY <2>1, ZenonT(30) DEF Stops
    <3> QED BY <1>1, <2>1, <3>1, Zenon DEF Stored, Live
  <2>2. CASE x # r
    <3>1. runs'[x] = runs[x] /\ interactions'[x] = interactions[x] /\ runs[x].state \notin Live
          /\ interactions[x].state # "pending" /\ Heard(x)' = Heard(x)
      BY <1>1, <2>2, ZenonT(30) DEF Stops
    <3> QED BY <3>1, ZenonT(30) DEF MInv, Stored, Live
  <2> QED BY <2>1, <2>2, ZenonT(30)
<1> QED BY <1>1, <1>2, <1>3, <1>4, Zenon DEF MInv

\* Disposing of a command says nothing about its having been in a request.
LEMMA DisposedIncluded ==
  ASSUME TypeOK, NEW R \in SUBSET Command, NEW why \in {"interrupted"} \cup FailureStates,
         NEW x \in Command
  PROVE  /\ disposePending(R, why)[x].exec = commands[x].exec
         /\ disposePending(R, why)[x].reply = commands[x].reply
         /\ disposePending(R, why)[x].included = commands[x].included
<1>1. commands[x] \in CommandRow
  BY Zenon DEF TypeOK
<1>2. Disposed(commands[x], why).included = commands[x].included
  BY <1>1, ZenonT(30) DEF Disposed, CommandRow
<1> QED BY <1>1, <1>2, DisposeRows DEF disposePending

----------------------------------------------------------------------------
(* A run stops: it waits, has completed or has failed.                     *)

\* A wait is stored with the proposal it is about, and all it has heard.
LEMMA WaitKeeps ==
  ASSUME IInv, WInv, MInv, Counting, NEW o \in owners, Ask(o) \/ AskAgain(o)
  PROVE  MInv'
<1> TypeOK /\ o.run \in Command /\ None \notin Command
  BY NoneAssumption, ZenonT(30) DEF IInv, Lifecycle, TypeOK, Owner
<1> DEFINE r == o.run
           w == workers[r]
           N == Cardinality(Besides(r))
<1>1. PICK kind, k, j, s : Wait(o, kind, k, j, s)
  BY Zenon DEF Ask, AskAgain
<1>2. /\ runs[r].state = "running"
      /\ runs' = [runs EXCEPT ![r] = Suspended(runs[r])]
      /\ commands' = commands
      /\ \A x \in Command : x # r => interactions'[x] = interactions[x]
      /\ interactions'[r].state = "pending" /\ interactions'[r].cont = None
  BY <1>1, ZenonT(30) DEF Wait, lockOwner, TypeOK
<1>3. runs'[r].state = "awaiting_input" /\ \A x \in Command : x # r => runs'[x] = runs[x]
  BY <1>2, SuspendedRow, ZenonT(30) DEF TypeOK
<1>4. Stops(r)
  BY <1>2, <1>3, ZenonT(30) DEF Stops, Live
<1>5. Carries(r, w) /\ N \in Nat
  BY <1>2, Counted, ZenonT(30) DEF MInv
<1>6. PICK open : /\ open \in Int /\ open <= N + 1
                  /\ Checkpointed(o, open)
                  /\ w.pc \in {"calls", "rewait"}
  <2>1. CASE Ask(o)
    <3>1. w.pc = "calls" /\ Checkpointed(o, w.open - (w.plan - 1))
      BY <2>1, ZenonT(30) DEF Ask, At
    <3>2. w.open \in Int /\ w.plan \in Nat /\ w.open - w.plan <= N
      BY <1>5, <3>1, ZenonT(30) DEF Carries, Opened, Harness, AtHand
    <3>3. w.open - (w.plan - 1) \in Int /\ w.open - (w.plan - 1) <= N + 1
      BY <1>5, <3>2
    <3> QED BY <3>1, <3>3, ZenonT(30)
  <2>2. CASE AskAgain(o)
    <3>1. w.pc = "rewait" /\ Checkpointed(o, w.open)
      BY <2>2, ZenonT(30) DEF AskAgain, At
    <3>2. w.open \in Int /\ w.open - 1 <= N
      BY <1>5, <3>1, ZenonT(30) DEF Carries, Opened, Harness, AtHand
    <3>3. w.open <= N + 1
      BY <1>5, <3>2, SMTT(30)
    <3> QED BY <3>1, <3>2, <3>3, ZenonT(30)
  <2> QED BY <2>1, <2>2, Zenon
<1>7. /\ history'.open = open /\ history'.texts = w.texts
      /\ saved' = [saved EXCEPT ![r] = [open |-> open, texts |-> w.texts, repairs |-> w.repairs]]
  BY <1>6, ZenonT(30) DEF Checkpointed
<1>8. w.texts \subseteq InRequests /\ ToRemember \cup Heard(r) \subseteq w.texts
  BY <1>5, <1>6, ZenonT(30) DEF Carries, Opened, Harness, Knows
<1>9. DOMAIN saved = Command
  BY Zenon DEF MInv
<1>10. DOMAIN saved' = Command /\ saved'[r].open = open /\ saved'[r].texts = w.texts
       /\ \A x \in Command : x # r => saved'[x] = saved[x]
  BY <1>7, <1>9, ZenonT(30)
<1>11. \A x \in Command : saved'[x].open \in Int
  BY <1>6, <1>10, ZenonT(30) DEF MInv
<1>12. Resumes(r)'
  BY <1>7, <1>10, Zenon DEF Resumes
<1>13. open <= Cardinality({i \in Command : Unanswered(i)})'
  <2> DEFINE V == {i \in Command : Unanswered(i)}
  <2>1. r \notin Besides(r) /\ Besides(r) \cup {r} \subseteq V'
    BY <1>2, <1>4, StopsSets, ZenonT(30) DEF Besides
  <2>2. IsFiniteSet(Besides(r)) /\ IsFiniteSet(V')
    <3>1. IsFiniteSet({i \in Command : interactions[i].state # "absent"})'
      BY <1>4, StopsSets, ZenonT(30)
    <3>2. IsFiniteSet(V')
      BY <3>1, CountedNext, ZenonT(30)
    <3> QED BY <3>2, Counted, ZenonT(30) DEF MInv
  <2> HIDE DEF V
  <2>3. Cardinality(Besides(r) \cup {r}) = N + 1 /\ Cardinality(Besides(r) \cup {r}) <= Cardinality(V')
    BY <2>1, <2>2, CountAdd, CountSubset, ZenonT(30)
  <2>4. Cardinality(V') \in Nat
    BY <2>2, CountType, ZenonT(30)
  <2>5. open <= Cardinality(V')
    BY <1>5, <1>6, <2>3, <2>4
  <2> QED BY <2>5, Zenon DEF V
<1>14. ToRemember' \subseteq w.texts
  BY <1>4, <1>8, StopsSets, ZenonT(30)
<1> QED BY <1>4, <1>6, <1>7, <1>8, <1>10, <1>11, <1>12, <1>13, <1>14, StopsKeeps, ZenonT(30)

\* A completed run stores what it knows; whatever it was asked is settled.
LEMMA CompleteKeeps ==
  ASSUME IInv, WInv, MInv, Counting, NEW o \in owners, FinishCompleted(o)
  PROVE  MInv'
<1> TypeOK /\ o.run \in Command
  BY ZenonT(30) DEF IInv, Lifecycle, TypeOK, Owner
<1> DEFINE r == o.run
           w == workers[r]
           N == Cardinality(Besides(r))
           V == {i \in Command : Unanswered(i)}
<1>1. /\ runs[r].state = "running" /\ w.pc = "finish" /\ w.end = "completed"
      /\ runs' = [runs EXCEPT ![r] = Ended(runs[r], "completed")]
      /\ commands' = commands /\ interactions' = interactions
      /\ history'.open = w.open /\ history'.texts = w.texts /\ saved' = saved
  BY ZenonT(30) DEF FinishCompleted, Complete, lockOwner, At
<1>2. runs'[r].state = "completed" /\ \A x \in Command : x # r => runs'[x] = runs[x]
  BY <1>1, EndedRow, ZenonT(30) DEF TypeOK, Terminal
<1>3. Stops(r)
  BY <1>1, <1>2, ZenonT(30) DEF Stops, Live
<1>4. Carries(r, w) /\ N \in Nat /\ DOMAIN saved = Command
      /\ \A x \in Command : saved[x].open \in Int
  BY <1>1, Counted, Zenon DEF MInv
<1>5. /\ w.open \in Int /\ w.open - 0 <= N /\ w.texts \subseteq InRequests
      /\ ToRemember \cup Heard(r) \subseteq w.texts
  BY <1>1, <1>4, ZenonT(30) DEF Carries, Opened, AtHand, Knows
<1>6. w.open <= Cardinality(V')
  <2>1. Besides(r) \subseteq V' /\ IsFiniteSet({i \in Command : interactions[i].state # "absent"})'
    BY <1>3, StopsSets, Zenon
  <2>2. IsFiniteSet(V')
    BY <2>1, CountedNext, ZenonT(30)
  <2> HIDE DEF V
  <2>3. N <= Cardinality(V') /\ Cardinality(V') \in Nat
    BY <2>1, <2>2, CountSubset, ZenonT(30)
  <2> QED BY <1>4, <1>5, <2>3, SMTT(30)
<1>7. ToRemember' \subseteq w.texts
  BY <1>3, <1>5, StopsSets, Zenon
<1>8. interactions'[r].state # "pending"
  <2>1. interactions[r] = NoInteraction
    BY <1>3, StopsSets, Zenon
  <2> QED BY <1>1, <2>1, BlankRows, Zenon
<1> QED BY <1>1, <1>3, <1>4, <1>5, <1>6, <1>7, <1>8, StopsKeeps, ZenonT(30)

\* A failing run closes every proposal, or leaves the history as it was.
LEMMA FailKeeps ==
  ASSUME IInv, WInv, MInv, Counting, NEW o \in owners, FinishFailed(o)
  PROVE  MInv'
<1> TypeOK /\ o.run \in Command /\ {o.run} \in SUBSET Command
  BY Zenon DEF IInv, Lifecycle, TypeOK, Owner
<1> DEFINE r == o.run
           w == workers[r]
           V == {i \in Command : Unanswered(i)}
<1>1. /\ runs[r].state = "running" /\ w.pc = "finish" /\ w.end # "completed"
      /\ runs' = [runs EXCEPT ![r] = Ended(runs[r], w.end)]
      /\ commands' = disposePending({r}, w.end) /\ interactions' = interactions
      /\ \/ w.kept /\ history' = [open |-> 0, texts |-> w.texts]
         \/ history' = history
      /\ saved' = saved
  BY ZenonT(30) DEF FinishFailed, Fail, lockOwner, At
<1>2. w.end \in FailureStates /\ w.end \in Terminal /\ w.end \notin {"completed", "awaiting_input"}
      /\ w.end \notin {"absent"} \cup Live
  BY <1>1, FailureAssumption, ZenonT(30) DEF WInv, Placed, Terminal, Live
<1>3. runs'[r].state = w.end /\ \A x \in Command : x # r => runs'[x] = runs[x]
  BY <1>1, <1>2, EndedRow, Zenon DEF TypeOK
<1>4. \A x \in Command :
        /\ commands'[x].exec = commands[x].exec
        /\ commands'[x].reply = commands[x].reply
        /\ commands'[x].included = commands[x].included
  BY <1>1, <1>2, DisposedIncluded, ZenonT(30)
<1>5. Stops(r)
  BY <1>1, <1>2, <1>3, <1>4, Zenon DEF Stops
<1>6. Carries(r, w) /\ DOMAIN saved = Command /\ history.open \in Int
      /\ \A x \in Command : saved[x].open \in Int
  BY <1>1, Zenon DEF MInv
<1>7. ToRemember' = ToRemember
  BY <1>2, <1>3, <1>5, StopsSets, ZenonT(30)
<1>8. V \subseteq V' /\ IsFiniteSet(V')
  <2>1. IsFiniteSet({i \in Command : interactions[i].state # "absent"})' /\ V \subseteq V'
    BY <1>2, <1>3, <1>5, StopsSets, ZenonT(30)
  <2> QED BY <2>1, CountedNext, ZenonT(30)
<1>9. /\ history.open <= Cardinality(V) /\ Cardinality(V) \in Nat
      /\ history.texts \subseteq InRequests /\ ToRemember \subseteq history.texts
  BY Counted, ZenonT(30) DEF MInv, ProposalsAccounted, RunsRemembered, InRequests, ToRemember
<1> HIDE DEF V
<1>10. Cardinality(V) <= Cardinality(V') /\ Cardinality(V') \in Nat
  BY <1>8, CountSubset, ZenonT(30)
<1>11. history'.open \in Int /\ history'.open <= Cardinality(V')
  BY <1>1, <1>6, <1>9, <1>10, SMTT(30)
<1>12. history'.texts \subseteq InRequests /\ ToRemember' \subseteq history'.texts
  <2>1. w.texts \subseteq InRequests /\ (w.kept => ToRemember \subseteq w.texts)
    BY <1>1, <1>6, ZenonT(30) DEF Carries, Knows
  <2>2. history'.texts = history.texts \/ (w.kept /\ history'.texts = w.texts)
    BY <1>1, SMTT(30)
  <2>3. CASE history'.texts = history.texts
    BY <1>7, <1>9, <2>3, Zenon
  <2>4. CASE w.kept /\ history'.texts = w.texts
    BY <1>7, <2>1, <2>4, Zenon
  <2> QED BY <2>2, <2>3, <2>4, Zenon
<1>13. interactions'[r].state # "pending"
  <2>1. interactions[r] = NoInteraction
    BY <1>5, StopsSets, ZenonT(30)
  <2> QED BY <1>1, <2>1, BlankRows, Zenon
<1> QED BY <1>1, <1>5, <1>6, <1>11, <1>12, <1>13, StopsKeeps, ZenonT(30) DEF V

----------------------------------------------------------------------------
(* What has timed out is swept, and a message may be admitted.             *)

\* Overdue waits expire, at most one live run is interrupted, at most one command is new.
Sweeps ==
  /\ \A x \in Command :
       /\ IF x \in Overdue
          THEN /\ runs[x].state = "awaiting_input" /\ runs'[x].state = "failed"
               /\ interactions'[x].state = "expired"
               /\ interactions'[x].cont = interactions[x].cont
          ELSE /\ interactions'[x] = interactions[x]
               /\ \/ runs'[x].state = runs[x].state
                  \/ runs[x].state \in Live /\ runs'[x].state = "interrupted"
                  \/ commands[x].exec = None /\ runs'[x].state = "pending"
       /\ \/ /\ commands'[x].exec = commands[x].exec
             /\ commands'[x].reply = commands[x].reply
             /\ commands'[x].included = commands[x].included
          \/ commands[x].exec = None /\ commands'[x].reply = None /\ ~commands'[x].included
  /\ history' = HistorySwept
  /\ saved' = saved
  /\ workers' = workers

\* What a sweep takes from what must be remembered, and from the waits.
LEMMA SweepsSets ==
  ASSUME IInv, WInv, MInv, Counting, Sweeps
  PROVE  /\ InRequests' = InRequests
         /\ \A x \in Command : Heard(x)' = Heard(x)
         /\ ToRemember' \subseteq ToRemember
         /\ {i \in Command : Unanswered(i)}' = {i \in Command : Unanswered(i)} \ Overdue
         /\ \A x \in Command : Besides(x)' = Besides(x) \ Overdue
         /\ {i \in Command : interactions[i].state # "absent"}'
              = {i \in Command : interactions[i].state # "absent"}
         /\ RepliesMatch'
<1> TypeOK /\ Lifecycle /\ RepliesMatch /\ None \notin Command
  BY NoneAssumption, Zenon DEF IInv, Lifecycle, MInv
<1>0. \A c \in Command : commands[c].exec = None => commands[c].reply = None /\ ~commands[c].included
  BY Zenon DEF WInv, Written, RepliesMatch
<1>1. \A i \in Command : interactions[i].state = "consumed" =>
        /\ interactions[i].cont \in Command /\ commands[interactions[i].cont].exec # None
        /\ commands[interactions[i].cont].reply = i
  BY <1>0, Zenon DEF RepliesMatch
<1>2. InRequests' = InRequests /\ InRequests \subseteq Command
  BY <1>0, Zenon DEF Sweeps, InRequests
<1>3. \A c \in InRequests :
        /\ commands[c].exec \in Command /\ commands'[c].exec = commands[c].exec
        /\ commands'[c].reply = commands[c].reply
  <2>1. \A c \in InRequests : commands[c].exec # None
    BY <1>0, Zenon DEF InRequests
  <2> QED BY <1>2, <2>1, Zenon DEF Sweeps, TypeOK, CommandRow
<1>4. \A x \in Command : Heard(x)' = Heard(x)
  BY <1>2, <1>3, Zenon DEF Heard
<1>5. \A x \in Command : runs'[x].state \in {"completed", "awaiting_input"} =>
        runs[x].state = runs'[x].state
  BY Zenon DEF Sweeps
<1>6. ToRemember' \subseteq ToRemember
  BY <1>2, <1>3, <1>5 DEF ToRemember
<1>7. \A i \in Overdue : interactions[i].state = "pending" /\ i \in Command
  BY Zenon DEF Overdue
<1>8. \A x \in Command : runs'[x].state = "completed" <=> runs[x].state = "completed"
  BY Zenon DEF Sweeps, Lifecycle, RunsConsistent, Live
<1>9. \A i \in Command : Unanswered(i)' <=> Unanswered(i) /\ i \notin Overdue
  <2> TAKE i \in Command
  <2>1. CASE i \in Overdue
    BY <2>1, Zenon DEF Sweeps, Unanswered
  <2>2. CASE i \notin Overdue
    <3>1. interactions'[i] = interactions[i]
      BY <2>2, Zenon DEF Sweeps
    <3> QED BY <1>1, <1>8, <2>2, <3>1, ZenonT(30) DEF Unanswered
  <2> QED BY <2>1, <2>2, Zenon
<1>10. {i \in Command : Unanswered(i)}' = {i \in Command : Unanswered(i)} \ Overdue
  BY <1>9, Zenon
<1>11. \A i \in Command : interactions'[i].cont = interactions[i].cont
  BY Zenon DEF Sweeps
<1>12. \A x \in Command : Besides(x)' = Besides(x) \ Overdue
  BY <1>9, <1>11, Zenon DEF Besides
<1>13. {i \in Command : interactions[i].state # "absent"}'
         = {i \in Command : interactions[i].state # "absent"}
  BY <1>7, Zenon DEF Sweeps
<1>14. RepliesMatch'
  <2>1. \A c \in Command : commands[c].reply # None => commands[c].reply \in Command
    BY Zenon DEF TypeOK, CommandRow
  <2>2. \A c \in Command : commands'[c].exec = None => ~commands'[c].included
    BY <1>0, Zenon DEF Sweeps
  <2>3. \A c \in Command : commands'[c].reply # None =>
          commands'[c].exec = c /\ interactions'[commands'[c].reply].cont = c
    BY <1>11, <2>1 DEF Sweeps, RepliesMatch
  <2>4. \A i \in Command :
          IF interactions'[i].state = "consumed"
          THEN interactions'[i].cont \in Command /\ commands'[interactions'[i].cont].reply = i
          ELSE interactions'[i].cont = None
    <3> TAKE i \in Command
    <3>1. CASE i \in Overdue
      BY <1>7, <3>1, ZenonT(30) DEF Sweeps, RepliesMatch
    <3>2. CASE i \notin Overdue
      <4>1. interactions'[i] = interactions[i]
        BY <3>2, Zenon DEF Sweeps
      <4>2. ASSUME interactions[i].state = "consumed"
            PROVE  commands'[interactions[i].cont].reply = i
        BY <1>1, <4>2, Zenon DEF Sweeps
      <4> QED BY <4>1, <4>2, Zenon DEF RepliesMatch
    <3> QED BY <3>1, <3>2, Zenon
  <2> QED BY <2>2, <2>3, <2>4, Zenon DEF RepliesMatch
<1> QED BY <1>2, <1>4, <1>6, <1>10, <1>12, <1>13, <1>14, Zenon

\* The history after the sweep has at most as many open proposals as there are waits
\* to account for them, and its texts.
LEMMA SweepsHistory ==
  ASSUME IInv, WInv, MInv, Counting, Sweeps
  PROVE  /\ history'.open \in Int
         /\ history'.texts = history.texts
         /\ history'.open <= Cardinality({i \in Command : Unanswered(i)})'
<1> Lifecycle
  BY Zenon DEF IInv
<1> DEFINE A == {i \in Command : interactions[i].state # "absent"}
           V == {i \in Command : Unanswered(i)}
<1>1. V' = V \ Overdue /\ IsFiniteSet(V) /\ history' = HistorySwept /\ history.open \in Int
      /\ history.open <= Cardinality(V)
  BY SweepsSets, Counted, ZenonT(30) DEF MInv, Sweeps, ProposalsAccounted
<1>2. CASE Overdue = {}
  BY <1>1, <1>2, ZenonT(30) DEF HistorySwept
<1>3. CASE Overdue # {}
  <2> DEFINE i == CHOOSE x \in Overdue : TRUE
  <2>1. i \in Overdue
    BY <1>3, Zenon
  <2> HIDE DEF i
  <2>2. i \in Command /\ interactions[i].state = "pending"
    BY <2>1, Zenon DEF Overdue
  <2>3. Overdue = {i}
    BY <2>1, ZenonT(30) DEF Overdue, Lifecycle, Exclusive, Busy
  <2>4. /\ history.open = saved[i].open /\ history.texts = saved[i].texts
        /\ history.open <= Cardinality(Besides(i)) + 1
    BY <2>2, ZenonT(30) DEF MInv, Stored, Resumes
  <2>5. history'.open = history.open - 1 /\ history'.texts = history.texts
    BY <1>1, <1>3, <2>4, Zenon DEF HistorySwept, i
  <2>6. Besides(i) \subseteq V \ Overdue
    BY <2>3, Zenon DEF Besides
  <2> HIDE DEF V
  <2>7. IsFiniteSet(V \ Overdue)
    BY <1>1, CountSubset, Zenon
  <2>8. /\ Cardinality(Besides(i)) <= Cardinality(V \ Overdue)
        /\ Cardinality(Besides(i)) \in Nat /\ Cardinality(V \ Overdue) \in Nat
    BY <2>6, <2>7, CountSubset, Zenon
  <2>9. history'.open <= Cardinality(V')
    BY <1>1, <2>4, <2>5, <2>8, SMTT(30)
  <2> QED BY <1>1, <2>5, <2>9 DEF V
<1> QED BY <1>2, <1>3, Zenon

\* A sweep keeps the memory: HistorySwept closes the proposals of what has expired.
LEMMA SweepsKeeps ==
  ASSUME IInv, WInv, MInv, Counting, Sweeps
  PROVE  MInv'
<1> TypeOK /\ Lifecycle /\ RepliesMatch /\ None \notin Command
  BY NoneAssumption, Zenon DEF IInv, Lifecycle, MInv
<1>1. /\ InRequests' = InRequests
      /\ \A x \in Command : Heard(x)' = Heard(x)
      /\ ToRemember' \subseteq ToRemember
      /\ {i \in Command : Unanswered(i)}' = {i \in Command : Unanswered(i)} \ Overdue
      /\ \A x \in Command : Besides(x)' = Besides(x) \ Overdue
      /\ {i \in Command : interactions[i].state # "absent"}'
           = {i \in Command : interactions[i].state # "absent"}
      /\ RepliesMatch'
  BY SweepsSets, ZenonT(30)
<1>2. /\ history'.open \in Int /\ history'.texts = history.texts
      /\ history'.open <= Cardinality({i \in Command : Unanswered(i)})'
  BY SweepsHistory, Zenon
<1>3. saved' = saved /\ workers' = workers /\ DOMAIN saved = Command
      /\ \A x \in Command : saved[x].open \in Int
  BY Zenon DEF MInv, Sweeps
<1>4. ProposalsAccounted'
  BY <1>2, Zenon DEF ProposalsAccounted
<1>5. RunsRemembered'
  <2>1. history.texts \subseteq InRequests /\ ToRemember \subseteq history.texts
    BY Zenon DEF MInv, RunsRemembered, InRequests, ToRemember
  <2>2. (history.texts \subseteq InRequests /\ ToRemember \subseteq history.texts)'
    BY <1>1, <1>2, <2>1, Zenon
  <2> QED BY <2>2, ZenonT(30) DEF RunsRemembered, InRequests, ToRemember
\* Whatever is still busy was so before, and then nothing has timed out.
<1>6. ASSUME NEW x \in Command, Busy(x), x \notin Overdue
      PROVE  Overdue = {} /\ history' = history /\ \A y \in Command : Besides(y)' = Besides(y)
  <2>1. Overdue = {}
    BY <1>6, Zenon DEF Overdue, Lifecycle, Exclusive, Busy
  <2>2. history' = history
    BY <2>1, Zenon DEF Sweeps, HistorySwept
  <2> QED BY <1>1, <2>1, <2>2, Zenon
<1>7. ASSUME NEW x \in Command, commands[x].exec = None, runs'[x].state = "pending"
      PROVE  Stored(x)' /\ runs'[x].state # "running"
  <2>1. runs[x].state = "absent" /\ interactions[x] = NoInteraction /\ commands'[x].reply = None
    BY <1>7, Zenon DEF Lifecycle, RunsConsistent, Sweeps, WInv, Written
  <2>2. interactions[x].state = "absent" /\ x \notin Overdue
    BY <2>1, BlankRows, ZenonT(30) DEF Overdue
  <2>3. interactions'[x].state = "absent"
    BY <2>2, ZenonT(30) DEF Sweeps
  <2>4. Heard(x)' = {}
    BY <1>1, <2>1, ZenonT(30) DEF MInv, Stored
  <2>5. \A i \in Command : interactions[i].cont # x
    BY <1>7, Zenon DEF RepliesMatch, WInv, Written
  <2>6. Besides(x) = {i \in Command : Unanswered(i)}
    BY <2>2, <2>5, ZenonT(30) DEF Besides, Unanswered
  <2>7. Besides(x)' = {i \in Command : Unanswered(i)}'
    BY <1>1, <2>6, Zenon
  <2> QED BY <1>2, <1>7, <2>1, <2>3, <2>4, <2>7, Zenon DEF Stored, Live
<1>8. ASSUME NEW x \in Command, ~(commands[x].exec = None /\ runs'[x].state = "pending")
      PROVE  Stored(x)' /\ (runs'[x].state = "running" => Carries(x, workers[x])')
  <2>1. runs'[x].state \in {"absent"} \cup Live =>
          /\ runs'[x].state = runs[x].state /\ x \notin Overdue
    BY <1>8, Zenon DEF Sweeps, Live
  <2>2. interactions'[x].state = "pending" =>
          interactions[x].state = "pending" /\ x \notin Overdue
    BY Zenon DEF Sweeps
  <2>3. commands'[x].reply = commands[x].reply
    BY Zenon DEF Sweeps, WInv, Written
  <2>4. runs'[x].state \in {"absent", "pending"} => Heard(x)' = {}
    BY <1>1, <2>1, Zenon DEF MInv, Stored, Live
  <2>5. ASSUME runs'[x].state \in Live \/ interactions'[x].state = "pending"
        PROVE  /\ Busy(x) /\ history' = history /\ Besides(x)' = Besides(x)
    <3>1. Busy(x) /\ x \notin Overdue
      BY <2>1, <2>2, <2>5, ZenonT(30) DEF Busy
    <3> QED BY <1>6, <3>1, Zenon
  <2>6. Stored(x)'
    <3>1. Stored(x)
      BY Zenon DEF MInv
    <3> QED BY <1>3, <2>1, <2>2, <2>3, <2>4, <2>5, <3>1, ZenonT(30) DEF Stored, Resumes
  <2>7. ASSUME runs'[x].state = "running"
        PROVE  Carries(x, workers[x])'
    <3>1. Carries(x, workers[x]) /\ history' = history /\ Besides(x)' = Besides(x)
      BY <2>1, <2>5, <2>7, ZenonT(30) DEF MInv, Live
    <3>2. Heard(x)' = Heard(x)
      BY <1>1, Zenon
    <3> QED BY <1>1, <1>3, <3>1, <3>2, Zenon DEF Carries, Knows, Opened, AtHand
  <2> QED BY <2>6, <2>7, Zenon
<1>9. IsFiniteSet({i \in Command : interactions[i].state # "absent"})'
  BY <1>1, Zenon DEF MInv
<1>10. ASSUME NEW x \in Command
       PROVE  Stored(x)' /\ (runs'[x].state = "running" => Carries(x, workers[x])')
  BY <1>7, <1>8, ZenonT(30)
<1> QED BY <1>1, <1>2, <1>3, <1>4, <1>5, <1>9, <1>10, ZenonT(30) DEF MInv

\* A reply: what was open besides the wait stays open besides its continuation.
LEMMA ReplyKeeps ==
  ASSUME IInv, WInv, MInv, Counting, NEW c \in Command, NEW i \in Command, NEW approve \in BOOLEAN,
         ReplyInTime(c, i, approve), history' = history, saved' = saved
  PROVE  MInv'
<1> TypeOK /\ Lifecycle /\ RepliesMatch /\ None \notin Command
  BY NoneAssumption, Zenon DEF IInv, Lifecycle, MInv
<1> DEFINE A == {x \in Command : interactions[x].state # "absent"}
           V == {x \in Command : Unanswered(x)}
           B == Besides(i)
<1>1. /\ commands[c].exec = None /\ interactions[i].state = "pending"
      /\ \A x \in Command : x # c => commands'[x] = commands[x]
      /\ \A x \in Command : x # i => interactions'[x] = interactions[x]
      /\ \A x \in Command : x # c /\ x # i => runs'[x] = runs[x]
  BY Zenon DEF ReplyInTime, TypeOK
<1>2. runs[c].state = "absent" /\ interactions[c].state = "absent" /\ commands[c].reply = None
      /\ ~commands[c].included /\ c # i
  BY <1>1, BlankRows, Zenon DEF Lifecycle, RunsConsistent, WInv, Written, RepliesMatch
<1>3. /\ commands'[c].exec = c /\ commands'[c].reply = i /\ ~commands'[c].included
  BY Zenon DEF ReplyInTime, Accepted, TypeOK
<1>4. /\ interactions'[i].state = "consumed" /\ interactions'[i].cont = c
  <2>1. interactions'[i] =
          Consumed(interactions[i], c, approve /\ interactions[i].kind = "approval")
    BY ZenonT(30) DEF ReplyInTime, TypeOK
  <2>2. interactions[i] \in InteractionRow
    BY Zenon DEF TypeOK
  <2> QED BY <2>1, <2>2, Zenon DEF Consumed, InteractionRow
<1>5. runs[i].state = "awaiting_input" /\ runs'[i].state = "completed"
      /\ runs'[c].state = "pending"
  <2>1. runs[i].state = "awaiting_input"
    BY <1>1, ZenonT(30) DEF Lifecycle, WaitsMatch
  <2>2. runs'[i] = Ended(runs[i], "completed")
    BY <1>2, <2>1, ZenonT(30) DEF ReplyInTime
  <2>3. runs'[i].state = "completed"
    BY <2>2, EndedRow DEF TypeOK, Terminal
  <2> QED BY <2>1, <2>3, Zenon DEF ReplyInTime, FreshRun
<1>6. \A x \in Command : x # i => runs[x].state \notin Live /\ interactions[x].state # "pending"
  BY <1>1, Zenon DEF Lifecycle, Exclusive, Busy
<1>7. \A x \in Command : interactions[x].cont # c
  BY <1>2, Zenon DEF RepliesMatch
<1>8. \A x \in Command : x # i /\ interactions[x].state = "consumed" =>
        interactions[x].cont \in Command /\ interactions[x].cont # c
  BY <1>7, Zenon DEF RepliesMatch
<1>9. \A x \in Command : x # i => (Unanswered(x)' <=> Unanswered(x) /\ interactions[x].cont # i)
  <2> TAKE x \in Command
  <2> HAVE x # i
  <2> QED BY <1>1, <1>5, <1>6, <1>8 DEF Unanswered
<1>10. V' = B \cup {i}
  <2>1. Unanswered(i)'
    BY <1>4, <1>5, Zenon DEF Unanswered
  <2> QED BY <1>9, <2>1, Zenon DEF Besides
<1>11. Besides(c)' = B
  <2>1. ~Unanswered(c)
    BY <1>2, Zenon DEF Unanswered
  <2>2. \A x \in Command : x \notin {c, i} =>
          (Unanswered(x)' /\ interactions'[x].cont # c <=> Unanswered(x) /\ interactions[x].cont # i)
    BY <1>1, <1>7, <1>9, ZenonT(30)
  <2> QED BY <1>2, <1>4, <2>1, <2>2, ZenonT(30) DEF Besides
<1>12. InRequests' = InRequests /\ c \notin InRequests /\ InRequests \subseteq Command
  BY <1>1, <1>2, <1>3, Zenon DEF InRequests
<1>13. \A x \in InRequests : commands'[x] = commands[x] /\ commands[x].exec \in Command
                             /\ commands[x].exec # None
  BY <1>1, <1>12, ZenonT(30) DEF InRequests, RepliesMatch, TypeOK, CommandRow
<1>14. \A x \in Command : Heard(x)' = Heard(x)
  BY <1>12, <1>13, Zenon DEF Heard
<1>15. \A x \in Command : runs'[x].state \in {"completed", "awaiting_input"} <=>
                          runs[x].state \in {"completed", "awaiting_input"}
  BY <1>1, <1>2, <1>5, ZenonT(30)
<1>16. ToRemember' = ToRemember
  BY <1>12, <1>13, <1>15, Zenon DEF ToRemember
<1>17. /\ Resumes(i) /\ history.open \in Int /\ history.open <= Cardinality(B) + 1
       /\ Cardinality(B) \in Nat /\ IsFiniteSet(B)
  BY <1>1, Counted, Zenon DEF MInv, Stored
<1>18. ProposalsAccounted'
  <2>1. i \notin B
    BY Zenon DEF Besides
  <2>2. Cardinality(B \cup {i}) = Cardinality(B) + 1
    BY <1>17, <2>1, CountAdd, Zenon
  <2>3. history'.open <= Cardinality(V')
    BY <1>10, <1>17, <2>2, ZenonT(30)
  <2> QED BY <2>3, Zenon DEF ProposalsAccounted
<1>19. RunsRemembered'
  <2>1. history.texts \subseteq InRequests /\ ToRemember \subseteq history.texts
    BY Zenon DEF MInv, RunsRemembered, InRequests, ToRemember
  <2>2. (history.texts \subseteq InRequests /\ ToRemember \subseteq history.texts)'
    BY <1>12, <1>16, <2>1, ZenonT(30)
  <2> QED BY <2>2, Zenon DEF RunsRemembered, InRequests, ToRemember
<1>20. RepliesMatch'
  <2>1. \A x \in Command : commands[x].reply # None =>
          commands[x].reply \in Command /\ commands[x].reply # i
    <3>1. \A x \in Command : commands[x].reply # None => commands[x].reply \in Command
      BY Zenon DEF TypeOK, CommandRow
    <3>2. interactions[i].cont = None
      BY <1>1, Zenon DEF RepliesMatch
    <3> QED BY <3>1, <3>2, Zenon DEF RepliesMatch
  <2>2. \A x \in Command : commands'[x].exec = None => ~commands'[x].included
    BY <1>1, <1>3, ZenonT(30) DEF RepliesMatch
  <2>3. \A x \in Command : commands'[x].reply # None =>
          commands'[x].exec = x /\ interactions'[commands'[x].reply].cont = x
    <3>1. ASSUME NEW x \in Command, x # c, commands'[x].reply # None
          PROVE  commands'[x].exec = x /\ interactions'[commands'[x].reply].cont = x
      <4>1. commands[x].exec = x /\ interactions[commands[x].reply].cont = x
            /\ commands'[x] = commands[x] /\ commands[x].reply # None
        BY <1>1, <3>1, Zenon DEF RepliesMatch
      <4>2. interactions'[commands[x].reply] = interactions[commands[x].reply]
        BY <1>1, <2>1, <4>1, Zenon
      <4> QED BY <4>1, <4>2, Zenon
    <3> QED BY <1>3, <1>4, <3>1, ZenonT(30)
  <2>4. \A x \in Command :
          IF interactions'[x].state = "consumed"
          THEN interactions'[x].cont \in Command /\ commands'[interactions'[x].cont].reply = x
          ELSE interactions'[x].cont = None
    BY <1>1, <1>3, <1>4, <1>7 DEF RepliesMatch
  <2> QED BY <2>2, <2>3, <2>4, ZenonT(30) DEF RepliesMatch
<1>21. IsFiniteSet(A')
  <2>1. A' = A /\ IsFiniteSet(A)
    BY <1>1, <1>4, ZenonT(30) DEF MInv
  <2> QED BY <2>1, Zenon
<1>22. ASSUME NEW x \in Command
       PROVE  Stored(x)' /\ runs'[x].state # "running"
  <2>1. CASE x = c
    <3>1. Resumes(commands[c].reply)'
      BY <1>3, <1>17, ZenonT(30) DEF Resumes
    <3>2. interactions'[c].state # "pending" /\ Heard(c)' = {}
      BY <1>1, <1>2, <1>14, Zenon DEF MInv, Stored
    <3> QED BY <1>3, <1>5, <1>11, <1>17, <2>1, <3>1, <3>2, Zenon DEF Stored, Live
  <2>2. CASE x # c
    <3>1. interactions'[x].state # "pending" /\ runs'[x].state \notin Live
      BY <1>1, <1>4, <1>5, <1>6, <2>2, Zenon DEF Live
    <3>2. runs'[x].state \in {"absent", "pending"} => runs[x].state = runs'[x].state
      BY <1>1, <1>5, <2>2, ZenonT(30)
    <3> QED BY <1>14, <3>1, <3>2, Zenon DEF MInv, Stored, Live
  <2> QED BY <2>1, <2>2, Zenon
<1> QED BY <1>17, <1>18, <1>19, <1>20, <1>21, <1>22, Zenon DEF MInv

----------------------------------------------------------------------------
(* Every step.                                                             *)

\* Admitting a message sweeps first.
LEMMA AdmitSweeps ==
  ASSUME IInv, NEW c \in Command, NEW p \in Replica, Submit(c, p)
  PROVE  Sweeps
<1> TypeOK /\ Lifecycle /\ Lost \in SUBSET Lost /\ Lost \in SUBSET Command
  BY Zenon DEF IInv, Lifecycle, Lost
<1> DEFINE swept == RunsSwept(Lost)
           disposed == disposePending(Lost, "interrupted")
<1>1. /\ commands[c].exec = None /\ interactions' = expireInteractions
      /\ history' = HistorySwept /\ saved' = saved /\ workers' = workers
  BY Zenon DEF Submit, Admit
<1>2. /\ runs' = swept \/ runs' = [swept EXCEPT ![c] = FreshRun(None, None)]
      /\ \E r \in Command : \E why : commands' = [disposed EXCEPT ![c] = Accepted(r, None, why)]
  BY ZenonT(30) DEF Submit, Admit
<1>3. DOMAIN swept = Command /\ DOMAIN disposed = Command
  BY Zenon DEF RunsSwept, disposePending
<1>4. \A x \in Command :
        /\ x \in Lost => swept[x].state = "interrupted" /\ runs[x].state \in Live
        /\ x \in Overdue => swept[x].state = "failed" /\ runs[x].state = "awaiting_input"
        /\ x \notin Lost /\ x \notin Overdue => swept[x] = runs[x]
        /\ x \notin Overdue => expireInteractions[x] = interactions[x]
        /\ x \in Lost => x \notin Overdue
  BY SweepRows, Zenon DEF Lost
<1>5. \A x \in Overdue : expireInteractions[x].state = "expired"
                         /\ expireInteractions[x].cont = interactions[x].cont
  BY ExpiredRow, Zenon DEF expireInteractions, Overdue, TypeOK
<1>6. \A x \in Command :
        /\ disposed[x].exec = commands[x].exec
        /\ disposed[x].reply = commands[x].reply
        /\ disposed[x].included = commands[x].included
  BY DisposedIncluded, Zenon
<1>7. FreshRun(None, None).state = "pending"
  BY Zenon DEF FreshRun
<1>8. c \notin Overdue
  BY <1>1, BlankRows, Zenon DEF Overdue, Lifecycle, RunsConsistent
<1> HIDE DEF swept, disposed
<1>9. \A x \in Command : x # c => commands'[x] = disposed[x]
  BY <1>2, <1>3, Zenon
<1>10. commands'[c].reply = None /\ ~commands'[c].included
  <2>1. PICK r, why : commands'[c] = Accepted(r, None, why)
    BY <1>2, <1>3
  <2>2. Accepted(r, None, why).reply = None /\ ~Accepted(r, None, why).included
    BY Zenon DEF Accepted
  <2> QED BY <2>1, <2>2, Zenon
<1>11. \A x \in Command : runs'[x] = swept[x] \/ (x = c /\ runs'[x].state = "pending")
  <2>1. CASE runs' = swept
    BY <2>1, Zenon
  <2>2. CASE runs' = [swept EXCEPT ![c] = FreshRun(None, None)]
    <3>1. runs'[c] = FreshRun(None, None) /\ \A x \in Command : x # c => runs'[x] = swept[x]
      BY <1>3, <2>2, ZenonT(30)
    <3> QED BY <1>7, <3>1, Zenon
  <2> QED BY <1>2, <2>1, <2>2, Zenon
<1>12. ASSUME NEW x \in Command
       PROVE  IF x \in Overdue
              THEN /\ runs[x].state = "awaiting_input" /\ runs'[x].state = "failed"
                   /\ interactions'[x].state = "expired"
                   /\ interactions'[x].cont = interactions[x].cont
              ELSE /\ interactions'[x] = interactions[x]
                   /\ \/ runs'[x].state = runs[x].state
                      \/ runs[x].state \in Live /\ runs'[x].state = "interrupted"
                      \/ commands[x].exec = None /\ runs'[x].state = "pending"
  BY <1>1, <1>4, <1>5, <1>8, <1>11, ZenonT(30)
<1>13. ASSUME NEW x \in Command
       PROVE  \/ /\ commands'[x].exec = commands[x].exec
                 /\ commands'[x].reply = commands[x].reply
                 /\ commands'[x].included = commands[x].included
              \/ commands[x].exec = None /\ commands'[x].reply = None /\ ~commands'[x].included
  <2>1. CASE x = c
    BY <1>1, <1>10, <2>1, ZenonT(30)
  <2>2. CASE x # c
    BY <1>6, <1>9, <2>2, ZenonT(30)
  <2> QED BY <2>1, <2>2, ZenonT(30)
<1> QED BY <1>1, <1>12, <1>13, ZenonT(30) DEF Sweeps

\* The reaper, and a reply that comes too late, sweep.
LEMMA ReapSweeps ==
  ASSUME IInv, NEW R \in SUBSET Lost, runs' = RunsSwept(R), interactions' = expireInteractions,
         \/ commands' = commands
         \/ commands' = disposePending(R, "interrupted"),
         history' = HistorySwept, saved' = saved, workers' = workers
  PROVE  Sweeps
<1> TypeOK /\ Lifecycle /\ R \in SUBSET Command
  BY Zenon DEF IInv, Lifecycle, Lost
<1>1. \A x \in Command :
        /\ x \in R => runs'[x].state = "interrupted" /\ runs[x].state \in Live
        /\ x \in Overdue => runs'[x].state = "failed" /\ runs[x].state = "awaiting_input"
        /\ x \notin R /\ x \notin Overdue => runs'[x] = runs[x]
        /\ x \notin Overdue => interactions'[x] = interactions[x]
        /\ x \in R => x \notin Overdue
  BY SweepRows, Zenon DEF Lost
<1>2. \A x \in Overdue : interactions'[x].state = "expired"
                         /\ interactions'[x].cont = interactions[x].cont
  BY ExpiredRow, Zenon DEF expireInteractions, Overdue, TypeOK
<1>3. ASSUME NEW x \in Command
      PROVE  /\ commands'[x].exec = commands[x].exec
             /\ commands'[x].reply = commands[x].reply
             /\ commands'[x].included = commands[x].included
  BY DisposedIncluded
<1> QED BY <1>1, <1>2, <1>3, ZenonT(30) DEF Sweeps

\* Every step keeps the memory.
LEMMA MemoryKept ==
  ASSUME IInv, WInv, MInv, Counting, [WNext]_allvars
  PROVE  MInv'
<1> TypeOK /\ Lifecycle /\ DOMAIN workers = Command
  BY Zenon DEF IInv, Lifecycle, WInv
<1>1. ASSUME UNCHANGED <<commands, history, saved, workers>>,
             \A x \in Command : runs'[x].state = runs[x].state,
             \A x \in Command : interactions'[x].state = interactions[x].state
                                /\ interactions'[x].cont = interactions[x].cont
      PROVE  MInv'
  <2>1. Quiet
    BY <1>1, Zenon DEF Quiet
  <2>2. \A r \in Command : runs'[r].state = "running" => \E w : workers'[r] = w /\ Carries(r, w)
    BY <1>1, ZenonT(30) DEF MInv
  <2> QED BY <2>1, <2>2, QuietKeeps, ZenonT(30)
<1>2. CASE UNCHANGED <<vars, history, saved, workers>>
  BY <1>1, <1>2, Zenon DEF vars
<1>3. ASSUME NEW c \in Command, NEW p \in Replica, Submit(c, p)
      PROVE  MInv'
  BY <1>3, AdmitSweeps, SweepsKeeps, Zenon
<1>4. ASSUME NEW c \in Command, NEW p \in Replica, NEW i \in Command, NEW approve \in BOOLEAN,
             SubmitReply(c, p, i, approve)
      PROVE  MInv'
  <2>1. CASE ReplyInTime(c, i, approve) /\ history' = history /\ saved' = saved
    BY <2>1, ReplyKeeps, Zenon
  <2>2. CASE ReplyTooLate(c, i) /\ history' = HistorySwept /\ saved' = saved /\ workers' = workers
    <3>1. {} \in SUBSET Lost /\ runs' = RunsSwept({}) /\ interactions' = expireInteractions
          /\ commands' = commands
      BY <2>2, Zenon DEF ReplyTooLate
    <3>2. Sweeps
      BY <2>2, <3>1, ReapSweeps, Zenon
    <3> QED BY <3>2, SweepsKeeps, ZenonT(30)
  <2> QED BY <1>4, <2>1, <2>2, Zenon DEF SubmitReply
<1>5. ASSUME NEW c \in Command, NEW p \in Replica, StartWorker(c, p)
      PROVE  MInv'
  <2> DEFINE w == [NoWorker EXCEPT !.pc = "scope"]
  <2>1. /\ runs[c].state = "pending" /\ runs' = [runs EXCEPT ![c] = Claimed(runs[c], p, epoch + 1)]
        /\ UNCHANGED <<commands, interactions, history, saved>>
        /\ workers' = [workers EXCEPT ![c] = w]
    BY <1>5, Zenon DEF StartWorker, Claim
  <2>2. Claimed(runs[c], p, epoch + 1).state = "running"
    BY ClaimedRow DEF TypeOK
  <2>3. Quiet
    BY <2>1, <2>2, Zenon DEF Quiet, TypeOK
  <2>4. Heard(c) = {}
    BY <2>1, Zenon DEF MInv, Stored
  <2>5. /\ w.pc = "scope" /\ w.open = 0 /\ w.plan = 0 /\ w.first /\ w.texts = {}
    BY Zenon DEF NoWorker
  <2> HIDE DEF w
  <2>6. Carries(c, w)
    <3>1. w.open \in Int /\ w.plan \in Nat
      BY <2>5
    <3>2. Knows(w) = {} /\ ~Opened(w)
      BY <2>5, Zenon DEF Knows, Opened, Harness
    <3> QED BY <2>4, <2>5, <3>1, <3>2, ZenonT(30) DEF Carries
  <2>7. \A r \in Command : runs'[r].state = "running" => \E u : workers'[r] = u /\ Carries(r, u)
    BY <2>1, <2>6, Zenon DEF MInv, TypeOK
  <2> QED BY <2>3, <2>7, QuietKeeps, Zenon
<1>6. ASSUME NEW r \in Command, Reaper(r)
      PROVE  MInv'
  <2> DEFINE R == {r} \cap Lost
  <2>1. /\ R \in SUBSET Lost /\ runs' = RunsSwept(R) /\ interactions' = expireInteractions
        /\ commands' = disposePending(R, "interrupted")
        /\ history' = HistorySwept /\ saved' = saved /\ workers' = workers
    BY <1>6, Zenon DEF Reaper, Reap
  <2> HIDE DEF R
  <2>2. Sweeps
    BY <2>1, ReapSweeps, Zenon
  <2> QED BY <2>2, SweepsKeeps, Zenon
<1>7. ASSUME NEW x \in Command, Clock(x)
      PROVE  MInv'
  <2>1. CASE LeaseTick(x)
    <3>1. /\ UNCHANGED <<commands, interactions, history, saved, workers>>
          /\ runs' = [runs EXCEPT ![x] = Leased(runs[x], runs[x].lease - 1)]
      BY <1>7, <2>1 DEF Clock, wvars, LeaseTick
    <3>2. \A r \in Command : runs'[r].state = runs[r].state
      BY <2>1, <3>1, LeaseTicked, LeaseStates, ZenonT(30)
    <3> QED BY <1>1, <3>1, <3>2, ZenonT(30)
  <2>2. CASE InteractionTimeout(x)
    <3>1. /\ UNCHANGED <<commands, runs, history, saved, workers>>
          /\ interactions' = [interactions EXCEPT ![x] = TimedOut(interactions[x])]
      BY <1>7, <2>2, Zenon DEF Clock, wvars, InteractionTimeout
    <3>2. \A i \in Command : interactions'[i].state = interactions[i].state
                             /\ interactions'[i].cont = interactions[i].cont
      BY <3>1, TimedOutRow DEF TypeOK
    <3> QED BY <1>1, <3>1, <3>2, Zenon
  <2> QED BY <1>7, <2>1, <2>2, Zenon DEF Clock
<1>8. ASSUME NEW o \in owners, Heartbeat(o)
      PROVE  MInv'
  <2>1. /\ UNCHANGED <<commands, interactions, history, saved, workers>> /\ o.run \in Command
        /\ runs' = [runs EXCEPT ![o.run] = Leased(runs[o.run], Lease)]
        /\ Lease \in 0..Lease
    BY <1>8, LeaseAssumption DEF Heartbeat, wvars, Renew, TypeOK, Owner
  <2>2. \A r \in Command : runs'[r].state = runs[r].state
    BY <2>1, LeaseStates, ZenonT(30)
  <2> QED BY <1>1, <2>1, <2>2, Zenon
<1>9. ASSUME NEW o \in owners, Lose(o)
      PROVE  MInv'
  <2>1. /\ UNCHANGED <<vars, history, saved>>
        /\ workers' = [workers EXCEPT ![o.run] = Gone]
    BY <1>9, Zenon DEF Lose, Become
  <2>2. Quiet
    BY <2>1, Zenon DEF Quiet, vars
  <2>3. Gone.pc = "gone" /\ Gone.open = 0 /\ Gone.plan = 0 /\ Gone.texts = {}
    BY Zenon DEF Gone, NoWorker
  <2>4. \A r \in Command : Carries(r, Gone)
    <3>1. Gone.open \in Int /\ Gone.plan \in Nat
      BY <2>3
    <3>2. Knows(Gone) = {} /\ ~Opened(Gone) /\ Gone.pc \notin Starting
      BY <2>3, Zenon DEF Knows, Opened, Harness, Starting
    <3> QED BY <2>3, <3>1, <3>2, ZenonT(30) DEF Carries
  <2>5. \A r \in Command : runs'[r].state = "running" => \E u : workers'[r] = u /\ Carries(r, u)
    BY <2>1, <2>4, Zenon DEF MInv, vars
  <2> QED BY <2>2, <2>5, QuietKeeps, Zenon
<1>10. ASSUME NEW o \in owners, Step(o)
       PROVE  MInv'
  <2>1. CASE Silent(o)
    BY <2>1, SilentKeeps, Zenon
  <2>2. CASE OnDispatch(o)
    BY <2>2, IncludedKeeps, Zenon
  <2>3. CASE Ask(o) \/ AskAgain(o)
    BY <2>3, WaitKeeps, Zenon
  <2>4. CASE FinishCompleted(o)
    BY <2>4, CompleteKeeps, Zenon
  <2>5. CASE FinishFailed(o)
    BY <2>5, FailKeeps, Zenon
  <2> QED BY <1>10, <2>1, <2>2, <2>3, <2>4, <2>5, Zenon DEF Step, Silent
<1>11. ASSUME NEW c \in Command, NEW p \in Replica, Client(c, p)
       PROVE  MInv'
  BY <1>2, <1>3, <1>4, <1>5, <1>11, Zenon DEF Client, Resubmit, Abandon
<1>12. ASSUME NEW k \in Call, NEW n \in 1..2, Tool(k, n)
       PROVE  MInv'
  BY <1>2, <1>12, Zenon DEF Tool
<1>13. CASE UNCHANGED allvars
  BY <1>2, <1>13, Zenon DEF allvars, wvars
<1> QED BY <1>6, <1>7, <1>8, <1>9, <1>10, <1>11, <1>12, <1>13, Zenon DEF WNext, Server

\* A new conversation has nothing to remember.
LEMMA MemoryInit ==
  ASSUME WInit, Counting
  PROVE  MInv
<1>1. /\ runs = [c \in Command |-> NoRun] /\ commands = [c \in Command |-> NoCommand]
      /\ interactions = [c \in Command |-> NoInteraction]
      /\ history.open = 0 /\ history.texts = {}
      /\ saved = [r \in Command |-> [open |-> 0, texts |-> {}, repairs |-> 1]]
  BY ZenonT(30) DEF WInit, Init
<1>2. /\ NoRun.state = "absent" /\ NoCommand.exec = None /\ NoCommand.reply = None
      /\ ~NoCommand.included /\ NoInteraction.state = "absent" /\ NoInteraction.cont = None
  BY Zenon DEF NoRun, NoCommand, NoInteraction
<1>3. InRequests = {}
  BY <1>1, <1>2, ZenonT(30) DEF InRequests
<1>4. {i \in Command : interactions[i].state # "absent"} = {} /\ {i \in Command : Unanswered(i)} = {}
  BY <1>1, <1>2, ZenonT(30) DEF Unanswered
<1>5. RepliesMatch
  BY <1>1, <1>2, ZenonT(30) DEF RepliesMatch
<1>6. ProposalsAccounted
  BY <1>1, <1>4, CountEmpty, SMTT(30) DEF ProposalsAccounted
<1>7. RunsRemembered
  BY <1>1, <1>2, ZenonT(30) DEF RunsRemembered
<1>8. ASSUME NEW r \in Command
      PROVE  saved[r].open \in Int /\ Stored(r) /\ runs[r].state # "running"
  <2>1. runs[r].state = "absent" /\ interactions[r].state = "absent" /\ saved[r].open = 0
    BY <1>1, <1>2, ZenonT(30)
  <2>2. Heard(r) = {}
    BY <1>3, Zenon DEF Heard
  <2> QED BY <2>1, <2>2, SMTT(30) DEF Stored, Live
<1>9. history.open \in Int /\ DOMAIN saved = Command
  BY <1>1
<1>10. IsFiniteSet({i \in Command : interactions[i].state # "absent"})
  <2>1. IsFiniteSet({})
    BY CountEmpty, Zenon
  <2> QED BY <1>4, <2>1, Zenon
<1> QED BY <1>5, <1>6, <1>7, <1>8, <1>9, <1>10, Zenon DEF MInv

\* The memory is always kept.
LEMMA MemoryInvariant ==
  ASSUME Counting
  PROVE  WSpec => []MInv
<1>1. WInit => Init /\ IInv /\ WInv /\ MInv
  BY WorkerInit, MemoryInit, Zenon
<1>2. IInv /\ WInv /\ [WNext]_allvars => [Next]_vars /\ WInv'
  BY StepsImplement, PlacedStep, Zenon
<1>3. IInv /\ [Next]_vars => IInv'
  BY InvariantStep, Zenon
<1>4. IInv /\ WInv /\ MInv /\ [WNext]_allvars => MInv'
  BY MemoryKept, Zenon
<1> QED BY <1>1, <1>2, <1>3, <1>4, PTL DEF WSpec

----------------------------------------------------------------------------
(* What has been assumed of counting so far is a theorem about finite sets.  *)
(* The library comes in only here: no step above needs more than Counting.   *)

Finite == INSTANCE FiniteSetTheorems

\* The library's notions of a finite set and its size are the model's.
LEMMA SameCounts ==
  /\ \A S : Finite!IsFiniteSet(S) = IsFiniteSet(S)
  /\ \A S : Finite!Cardinality(S) = Cardinality(S)
<1>1. ASSUME NEW S
      PROVE  Finite!IsFiniteSet(S) = IsFiniteSet(S)
  BY Zenon DEF Finite!IsFiniteSet, IsFiniteSet
<1>2. ASSUME NEW S
      PROVE  Finite!Cardinality(S) = Cardinality(S)
  BY <1>1, Zenon DEF Finite!Cardinality, Cardinality
<1> QED BY <1>1, <1>2, Zenon

\* Finite sets count the way the lemmas above take them to.
LEMMA CountingHolds == Counting
<1>1. IsFiniteSet({}) /\ Cardinality({}) = 0
  BY Finite!FS_EmptySet, SameCounts, Zenon
<1>2. ASSUME NEW S, IsFiniteSet(S)
      PROVE  Cardinality(S) \in Nat
  BY <1>2, Finite!FS_CardinalityType, SameCounts, Zenon
<1>3. ASSUME NEW S, NEW T, IsFiniteSet(T), S \subseteq T
      PROVE  IsFiniteSet(S) /\ Cardinality(S) <= Cardinality(T)
  BY <1>3, Finite!FS_Subset, SameCounts, Zenon
<1>4. ASSUME NEW S, NEW x, IsFiniteSet(S)
      PROVE  /\ IsFiniteSet(S \cup {x})
             /\ x \notin S => Cardinality(S \cup {x}) = Cardinality(S) + 1
  BY <1>4, Finite!FS_AddElement, SameCounts, Zenon
<1> QED BY <1>1, <1>2, <1>3, <1>4, Zenon DEF Counting

\* Whatever stops a conversation in the middle of a tool proposal, the proposals
\* left open in the stored history are the ones a wait accounts for: completing,
\* failing, expiring, replying and asking again close all the others.
THEOREM ProposalsAreAccounted == WSpec => []ProposalsAccounted
<1>1. MInv => ProposalsAccounted
  BY Zenon DEF MInv
<1> QED BY <1>1, CountingHolds, MemoryInvariant, PTL

\* The stored history forgets no message that a completed or waiting run was
\* given, through steering, waits, replies, expiry and failed turns, and invents none.
THEOREM NothingForgotten == WSpec => []RunsRemembered
<1>1. MInv => RunsRemembered
  BY Zenon DEF MInv
<1> QED BY <1>1, CountingHolds, MemoryInvariant, PTL
=============================================================================
