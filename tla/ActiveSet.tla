----------------------------- MODULE ActiveSet -----------------------------
(***************************************************************************)
(* The active journeys of one conversation: the least-recently-used set of *)
(* internal/journeys, the column that keeps it (internal/journal) and the  *)
(* runs that change it (converse, activate, touch and flush of             *)
(* internal/runtime).                                                      *)
(*                                                                         *)
(* A run computes on a copy in memory and writes it in transactions of its *)
(* own.  It may lose its ownership between any two of them, and go on with *)
(* a write that it still means to make while a later run is at work.       *)
(* Of a wait, an approval and a call only the journey matters here: it     *)
(* says what is pinned.  Which alias the model calls, and whether a        *)
(* resource exists, is the model's choice.                                 *)
(***************************************************************************)
EXTENDS Naturals, Sequences, FiniteSets, Functions

CONSTANTS
  None,
  Journey,
  MaxLimit,       \* the largest max_active_journeys of a tenant (4 in the code)
  Alias,
  Offers,         \* the aliases of each journey
  Reachable       \* the sets of journeys that may resolve for a user

ASSUME LimitAssumption == MaxLimit \in Nat \ {0}
ASSUME JourneyAssumption ==
  None \notin Journey /\ IsFiniteSet(Journey) /\ Reachable \subseteq SUBSET Journey
ASSUME OffersAssumption == Offers \in [Journey -> SUBSET Alias]

VARIABLES
  stored,         \* agent_conversations.active_journeys, least recently used first
  recency,        \* ghost: all journeys in the order of their last use that was written
  conv,           \* the live run
  late,           \* what a run that lost its ownership has still to write
  wait,           \* the pending interaction: its kind and its journey
  decided,        \* the journey of the approval the live run has still to use
  dispatching,    \* the journey of the call in flight
  unknown         \* the journeys with a call of unknown outcome

avars == <<stored, recency, conv, late, wait, decided, dispatching, unknown>>

MaybeJourney == Journey \cup {None}
Order == Seq(Journey)

\* Where a run is.  Preparing is converse, Harness is runHarness.
Preparing == {"read", "write"}
Settled == {"approved", "rewait", "model", "activating", "activate", "ask", "finish"}
Harness == Settled \cup {"call", "calls", "flush"}

\* active and persisted are the fields of conversation; planned is the active
\* order when the round was planned; next is what activate is going to write;
\* recent is a ghost: recency with the uses that are not written yet.
ConvState ==
  [pc: {"idle"} \cup Preparing \cup Harness, continuation: BOOLEAN, target: MaybeJourney,
   approved: MaybeJourney, limit: 0..MaxLimit, available: SUBSET Journey, active: Order,
   persisted: Order, planned: Order, next: Order, asks: MaybeJourney, recent: Order]

Idle ==
  [pc |-> "idle", continuation |-> FALSE, target |-> None, approved |-> None, limit |-> 0,
   available |-> {}, active |-> <<>>, persisted |-> <<>>, planned |-> <<>>, next |-> <<>>,
   asks |-> None, recent |-> <<>>]

NoWait == [kind |-> "none", journey |-> None]

ATypeOK ==
  /\ stored \in Order
  /\ recency \in Order
  /\ conv \in ConvState
  /\ late = None \/ late \in Order
  /\ wait \in [kind: {"none", "clarification", "approval"}, journey: MaybeJourney]
  /\ decided \in MaybeJourney
  /\ dispatching \in MaybeJourney
  /\ unknown \subseteq Journey

AInit ==
  /\ stored = <<>>
  /\ recency = CHOOSE order \in [1..Cardinality(Journey) -> Journey] : IsInjective(order)
  /\ conv = Idle
  /\ late = None
  /\ wait = NoWait
  /\ decided = None
  /\ dispatching = None
  /\ unknown = {}

----------------------------------------------------------------------------
(* internal/journeys: the set, least recently used first.                  *)

\* A set of positions as a sequence, and what an order keeps at the positions of T's members.
Ascending(P) ==
  CHOOSE at \in [1..Cardinality(P) -> P] : \A m, n \in DOMAIN at : m < n => at[m] < at[n]
Keep(ids, T) ==
  LET at == Ascending({i \in DOMAIN ids : ids[i] \in T}) IN [n \in DOMAIN at |-> ids[at[n]]]

RemoveAll(ids, S) == Keep(ids, Journey \ S)

\* Ghost: the order of last use after a use of j.
Used(ids, j) == Append(RemoveAll(ids, {j}), j)

\* No-op when j is absent, and when it is last already.
Touch(ids, j) == IF j \in Range(ids) THEN Append(RemoveAll(ids, {j}), j) ELSE ids

Unpinned(ids, pinned) == RemoveAll(ids, pinned)

\* Mutant of victims: the most recently used go first.
VictimsLatest(ids, max, pinned) ==
  LET free == Unpinned(ids, pinned)
      excess == IF Len(ids) > max THEN Len(ids) - max ELSE 0
  IN Range(SubSeq(free, IF excess < Len(free) THEN Len(free) - excess + 1 ELSE 1, Len(free)))

\* The least recently used unpinned journeys that must go for Len(ids) <= max.
victims(ids, max, pinned) ==
  LET free == Unpinned(ids, pinned)
      excess == IF Len(ids) > max THEN Len(ids) - max ELSE 0
  IN Range(SubSeq(free, 1, IF excess < Len(free) THEN excess ELSE Len(free)))

\* Mutant of Fit: the limit is only applied by activations.
FitNothing(ids, limit, pinned) == ids

Fit(ids, limit, pinned) == RemoveAll(ids, victims(ids, limit, pinned))

\* Whether the victims make room for one more journey.
Refused(ids, j, limit, pinned) ==
  j \notin Range(ids) /\ Len(ids) - Cardinality(victims(ids, limit - 1, pinned)) >= limit

\* What Activate leaves when it is not refused.
Activate(ids, j, limit, pinned) ==
  IF j \in Range(ids) THEN Touch(ids, j)
  ELSE Append(RemoveAll(ids, victims(ids, limit - 1, pinned)), j)

----------------------------------------------------------------------------
(* internal/journal: the fenced read and write.                            *)

\* ActiveJourneys: pending approvals, the decided one of this run, unresolved calls.
pinned ==
  ((IF wait.kind = "approval" THEN {wait.journey} ELSE {})
    \cup {decided, dispatching} \cup unknown) \ {None}

\* Refused (ErrOwnership) for a caller that is not the owner any more.
SetActiveJourneys(owns, ids) == stored' = IF owns THEN ids ELSE stored

\* The live run writes, and with the order the uses it stands for.
Save(ids) == SetActiveJourneys(TRUE, ids) /\ recency' = conv.recent

----------------------------------------------------------------------------
(* A run begins.                                                           *)

\* A message is admitted and claimed when nothing is going on; after a call of
\* unknown outcome Start refuses every run.
Message(target) ==
  /\ conv.pc = "idle"
  /\ wait = NoWait /\ unknown = {}
  /\ conv' = [Idle EXCEPT !.pc = "read", !.target = target]
  /\ UNCHANGED <<stored, recency, late, wait, decided, dispatching, unknown>>

\* A reply's run has the journey of its interaction for a target.
Reply(approve) ==
  /\ conv.pc = "idle"
  /\ wait # NoWait
  /\ approve => wait.kind = "approval"
  /\ wait' = NoWait
  /\ decided' = IF approve THEN wait.journey ELSE None
  /\ conv' = [Idle EXCEPT !.pc = "read", !.continuation = TRUE, !.target = wait.journey,
                            !.approved = decided']
  /\ UNCHANGED <<stored, recency, late, dispatching, unknown>>

Expire ==
  /\ wait # NoWait
  /\ wait' = NoWait
  /\ UNCHANGED <<stored, recency, conv, late, decided, dispatching, unknown>>

\* Mutant of RunOver: an approval stays decided when the run that was to use it ends.
RunOverDecided ==
  /\ dispatching' = None
  /\ unknown' = unknown \cup ({dispatching} \ {None})
  /\ UNCHANGED decided

\* The run is over: a call in flight is of unknown outcome from now on, and an
\* approval that was not used is no later run's.
RunOver ==
  /\ decided' = None
  /\ dispatching' = None
  /\ unknown' = unknown \cup ({dispatching} \ {None})

----------------------------------------------------------------------------
(* converse.                                                               *)

\* A target is activated, unless a continuation's has become unavailable.
Targets(c, available) == c.target # None /\ (c.continuation => c.target \in available)

\* The stored set without what is unavailable and beyond the limit, then the target.
PrepareFor(limit, available) ==
  LET c == conv
      kept == Fit(RemoveAll(stored, Journey \ available), limit, pinned)
      prepared == [c EXCEPT !.pc = "write", !.limit = limit, !.available = available]
  IN \/ /\ ~Targets(c, available)
        /\ conv' = [prepared EXCEPT !.active = kept, !.recent = recency]
     \/ /\ Targets(c, available) /\ c.target \in available
        /\ ~Refused(kept, c.target, limit, pinned)
        /\ conv' = [prepared EXCEPT !.active = Activate(kept, c.target, limit, pinned),
                                    !.recent = Used(recency, c.target)]

\* The limit is resolved once per run, what is available once per Run.
Prepare ==
  /\ conv.pc = "read"
  /\ \E limit \in IF conv.limit = 0 THEN 1..MaxLimit ELSE {conv.limit}, available \in Reachable :
       PrepareFor(limit, available)
  /\ UNCHANGED <<stored, recency, late, wait, decided, dispatching, unknown>>

\* What was prepared is written; runHarness takes it for what is persisted.
Prepared ==
  LET c == conv IN
     /\ c.pc = "write"
     /\ Save(c.active)
     /\ conv' = [c EXCEPT !.pc = IF c.approved # None THEN "approved" ELSE "model",
                            !.persisted = c.active]
     /\ UNCHANGED <<late, wait, decided, dispatching, unknown>>

----------------------------------------------------------------------------
(* runHarness: the approved call of a continuation.                        *)

\* The tool is not available any more; the approval is superseded.
ApprovedVanished ==
  LET c == conv IN
     /\ c.pc = "approved"
     /\ c.approved \notin c.available
     /\ decided' = None
     /\ conv' = [c EXCEPT !.pc = "flush"]
     /\ UNCHANGED <<stored, recency, late, wait, dispatching, unknown>>

\* It resolves to something else: superseded, and asked for again.
ApprovedChanged ==
  LET c == conv IN
     /\ c.pc = "approved"
     /\ c.approved \in c.available
     /\ decided' = None
     /\ conv' = [c EXCEPT !.pc = "rewait", !.asks = c.approved]
     /\ UNCHANGED <<stored, recency, late, wait, dispatching, unknown>>

\* The approval is used: BeginAttempt marks it dispatched.
CallApproved ==
  LET c == conv IN
     /\ c.pc = "approved"
     /\ c.approved \in c.available
     /\ decided' = None
     /\ dispatching' = c.approved
     /\ conv' = [c EXCEPT !.pc = "call", !.active = Touch(@, c.approved),
                            !.recent = Used(@, c.approved)]
     /\ UNCHANGED <<stored, recency, late, wait, unknown>>

----------------------------------------------------------------------------
(* runHarness: rounds.                                                     *)

\* The model proposes calls.  A response with an activation is only that
\* (planCalls): the calls beside it are not executed.
Respond ==
  /\ conv.pc = "model"
  /\ \E pc \in {"calls", "activating", "finish"} :
       conv' = [conv EXCEPT !.pc = pc, !.planned = conv.active, !.asks = None]
  /\ UNCHANGED <<stored, recency, late, wait, decided, dispatching, unknown>>

\* Where planCalls lets a call other than an activation be executed.
Executes(pc) == pc = "calls"

\* Mutant of owningJourney: any journey of the definition set that offers the alias.
OwnerAnywhere(ids, a) == CHOOSE j \in Journey : a \in Offers[j]

\* The owner of an alias: the most recently used journey that offers it.
owningJourney(ids, a) ==
  LET offering == Keep(ids, {j \in Journey : a \in Offers[j]}) IN offering[Len(offering)]
Owned(ids, a) == \E j \in Range(ids) : a \in Offers[j]

CallAlias ==
  LET c == conv IN
     /\ c.pc = "calls"
     /\ \E a \in Alias :
          LET j == owningJourney(c.planned, a)
          IN /\ Owned(c.planned, a)
             /\ dispatching' = j
             /\ conv' = [c EXCEPT !.pc = "call", !.active = Touch(@, j), !.recent = Used(@, j)]
     /\ UNCHANGED <<stored, recency, late, wait, decided, unknown>>

\* guardedCall returns with a result; an approved call is not part of a round.
Return ==
  LET c == conv IN
     /\ c.pc = "call"
     /\ dispatching' = None
     /\ conv' = [c EXCEPT !.pc = IF c.approved = None THEN "calls" ELSE "flush",
                            !.approved = None]
     /\ UNCHANGED <<stored, recency, late, wait, decided, unknown>>

\* It returns with an error: nothing is known of the call, or it was refused.
ReturnFailed ==
  /\ conv.pc = "call"
  /\ decided' = None /\ dispatching' = None
  /\ unknown' \in {unknown, unknown \cup {dispatching}}
  /\ conv' = Idle
  /\ UNCHANGED <<stored, recency, late, wait>>

ReadResource(j) ==
  LET c == conv IN
     /\ Executes(c.pc)
     /\ j \in Range(c.active)
     /\ conv' = [c EXCEPT !.active = Touch(@, j), !.recent = Used(@, j)]
     /\ UNCHANGED <<stored, recency, late, wait, decided, dispatching, unknown>>

\* activate, its read: it starts from the stored set.
ActivateJourney(j) ==
  LET c == conv IN
     /\ c.pc = "activating"
     /\ j \in c.available
     /\ ~Refused(stored, j, c.limit, pinned)
     /\ conv' = [c EXCEPT !.pc = "activate", !.next = Activate(stored, j, c.limit, pinned),
                            !.recent = Used(@, j)]
     /\ UNCHANGED <<stored, recency, late, wait, decided, dispatching, unknown>>

\* activate, its write.
Activated ==
  LET c == conv IN
     /\ c.pc = "activate"
     /\ Save(c.next)
     /\ conv' = [c EXCEPT !.pc = "activating", !.active = c.next, !.persisted = c.next,
                            !.next = <<>>]
     /\ UNCHANGED <<late, wait, decided, dispatching, unknown>>

\* The round is over when each of its calls has a result.
RoundEnds ==
  /\ conv.pc \in {"calls", "activating"}
  /\ conv' = [conv EXCEPT !.pc = "flush"]
  /\ UNCHANGED <<stored, recency, late, wait, decided, dispatching, unknown>>

\* flush writes an order that touches have changed.
Flushed(pc, j) ==
  LET c == conv IN
     /\ IF c.active = c.persisted THEN UNCHANGED <<stored, recency>>
        ELSE Save(c.active)
     /\ conv' = [c EXCEPT !.pc = pc, !.persisted = c.active, !.planned = <<>>,
                            !.approved = None, !.asks = j]
     /\ UNCHANGED <<late, wait, decided, dispatching, unknown>>

\* Mutant of Flush: the order is written when the run waits or answers.
FlushLater ==
  /\ conv.pc = "flush"
  /\ conv' = [conv EXCEPT !.pc = "model", !.planned = <<>>, !.approved = None]
  /\ UNCHANGED <<stored, recency, late, wait, decided, dispatching, unknown>>

Flush == conv.pc = "flush" /\ Flushed("model", None)

\* A question, or a call that needs approval: flushed first.
Ask ==
  /\ conv.pc = "calls"
  /\ \E a \in Alias \cup {None} :
       /\ a # None => Owned(conv.planned, a)
       /\ Flushed("ask", IF a = None THEN None ELSE owningJourney(conv.planned, a))

\* Wait: a clarification belongs to the run's journey.
Wait ==
  LET c == conv IN
     /\ c.pc \in {"ask", "rewait"}
     /\ wait' = IF c.asks = None THEN [kind |-> "clarification", journey |-> c.target]
                ELSE [kind |-> "approval", journey |-> c.asks]
     /\ RunOver
     /\ conv' = Idle
     /\ UNCHANGED <<stored, recency, late>>

\* Steering arrived first, so the wait is off and the loop goes on.
Steered ==
  /\ conv.pc \in {"ask", "rewait"}
  /\ conv' = [conv EXCEPT !.pc = "flush", !.asks = None]
  /\ UNCHANGED <<stored, recency, late, wait, decided, dispatching, unknown>>

----------------------------------------------------------------------------
(* A run ends.                                                             *)

\* Finish; or a message arrived first, and Run starts over in the same run.
Finish ==
  /\ conv.pc = "finish"
  /\ \/ RunOver /\ conv' = Idle
     \/ /\ conv' = [conv EXCEPT !.pc = "read", !.active = <<>>, !.persisted = <<>>,
                                !.recent = <<>>, !.available = {}]
        /\ UNCHANGED <<decided, dispatching, unknown>>
  /\ UNCHANGED <<stored, recency, late, wait>>

\* Any error ends the run.
Fail ==
  /\ conv.pc # "idle"
  /\ RunOver
  /\ conv' = Idle
  /\ UNCHANGED <<stored, recency, late, wait>>

\* The lease runs out, and the worker goes on with the write that comes next.
Reap ==
  /\ conv.pc \notin {"idle", "read"}
  /\ RunOver
  /\ conv' = Idle
  /\ late' = IF conv.pc = "activate" THEN conv.next ELSE conv.active
  /\ UNCHANGED <<stored, recency, wait>>

\* The write of a worker that is not the owner any more.
LateWrite ==
  /\ late # None
  /\ SetActiveJourneys(FALSE, late)
  /\ late' = None
  /\ UNCHANGED <<recency, conv, wait, decided, dispatching, unknown>>

ANext ==
  \/ \E target \in MaybeJourney : Message(target)
  \/ \E approve \in BOOLEAN : Reply(approve)
  \/ Expire
  \/ Prepare \/ Prepared
  \/ ApprovedVanished \/ ApprovedChanged \/ CallApproved
  \/ Respond \/ CallAlias \/ Return \/ ReturnFailed
  \/ \E j \in Journey : ReadResource(j) \/ ActivateJourney(j)
  \/ Activated \/ RoundEnds \/ Flush
  \/ Ask \/ Wait \/ Steered
  \/ Finish \/ Fail \/ Reap \/ LateWrite

ASpec == AInit /\ [][ANext]_avars

----------------------------------------------------------------------------
(* What every step preserves.                                              *)

Fields == DOMAIN Idle
Shape == conv = [f \in Fields |-> conv[f]]

\* A run has at most one thing that pins a journey: the approval it continues, until it
\* uses it, or the call it is in.  Nothing is pinned when a run starts but its target.
OnePin ==
  /\ conv.pc = "idle" => decided = None /\ dispatching = None
  /\ conv.pc # "idle" => wait = NoWait
  /\ conv.pc # "idle" \/ wait # NoWait => unknown = {}
  /\ decided # None =>
       /\ conv.pc \in Preparing \cup {"approved"}
       /\ decided = conv.target /\ decided = conv.approved
  /\ dispatching # None => conv.pc = "call"

----------------------------------------------------------------------------
(* Properties.                                                             *)

\* "The persisted set equals the in-memory one (every change is written)"
\* (interactions.go, activate): whenever the owner of the conversation asks the
\* model, activates, waits or finishes, what is stored is what it has in memory,
\* so an activation that starts from the stored set forgets no use of a journey.
SavedOrder ==
  /\ conv.pc \in Harness => conv.persisted = stored
  /\ conv.pc \in Settled => conv.active = stored

\* "a journey with an open approval [...] is pinned and stays active" (CONTEXT.md): the
\* journey of a pending approval is in the stored set, and so is the one of an approval
\* that its continuation has still to use, unless the journey has become unavailable.
PinnedActive ==
  /\ wait.kind = "approval" => wait.journey \in Range(stored)
  /\ conv.pc \in Harness /\ decided \in conv.available => decided \in Range(stored)

\* A run never has more active journeys than its limit, although pinned journeys may
\* not be evicted and a tenant's limit may have been lowered since the last run.
WithinLimit ==
  conv.pc \in Harness => Len(conv.active) <= conv.limit

\* No activation is refused: nothing is pinned while the model activates journeys, and
\* a run that starts has at most its own target pinned.
NoneRefused ==
  /\ conv.pc \in {"model", "activating"} => pinned = {}
  /\ conv.pc = "read" => pinned \subseteq {conv.target}

LastUse(order, j) == CHOOSE i \in DOMAIN order : order[i] = j

\* "Use is true LRU" (design.md): a journey that loses its place although it is
\* available was last used, by an activation, a dispatched call or a resource that was
\* read, before every journey that keeps one.
EvictsOldest ==
  [][\A j \in Range(stored) \ Range(stored'), k \in Range(stored') :
       j \in conv.available => LastUse(recency', j) < LastUse(recency', k)]_avars

----------------------------------------------------------------------------
(* What makes them inductive.                                              *)

\* j was last used before k.
Before(order, j, k) == \E m, n \in DOMAIN order : m < n /\ order[m] = j /\ order[n] = k

\* The order of last use of all journeys, and a set in that order.
Complete(order) == order \in Order /\ Range(order) = Journey /\ IsInjective(order)
Ranked(ids, order) ==
  /\ ids \in Order /\ IsInjective(ids)
  /\ \A m, n \in DOMAIN ids : m < n => Before(order, ids[m], ids[n])

\* What the next write drops of the stored set is older than what it keeps.
DropsOldest(ids) ==
  \A j \in Range(stored) \ Range(ids), k \in Range(ids) :
    j \in conv.available => Before(conv.recent, j, k)

Kinds ==
  /\ {wait.journey, conv.target, conv.approved, conv.asks} \subseteq MaybeJourney
  /\ conv.available \subseteq Journey
  /\ conv.limit \in Nat

\* The stored set, and the ones that a run has in memory and is going to write, are in
\* the order of last use and within the limit.
InOrder ==
  /\ Complete(recency) /\ Ranked(stored, recency)
  /\ conv.pc \in {"write"} \cup Harness =>
       Complete(conv.recent) /\ conv.limit # 0 /\ Len(conv.active) <= conv.limit
  /\ conv.pc \in {"write"} \cup (Harness \ {"activate"}) => Ranked(conv.active, conv.recent)
  /\ conv.pc = "write" => DropsOldest(conv.active)
  /\ conv.pc \in Harness => Range(conv.active) = Range(conv.persisted)
  /\ conv.pc = "activate" =>
       Ranked(conv.next, conv.recent) /\ Len(conv.next) <= conv.limit /\ DropsOldest(conv.next)

\* What a run continues or asks for is active while it is open.
OpenActive ==
  /\ conv.pc \in {"read", "write", "approved"} => decided = conv.approved
  /\ conv.approved # None =>
       conv.pc \in {"read", "write", "approved", "rewait", "call", "flush"}
  /\ conv.pc = "write" /\ decided \in conv.available => decided \in Range(conv.active)
  /\ conv.pc \in {"calls", "call"} /\ conv.approved = None =>
       conv.planned \in Order /\ Range(conv.planned) \subseteq Range(conv.active)
  /\ conv.pc \in {"ask", "rewait"} /\ conv.asks # None => conv.asks \in Range(stored)

AInv == Shape /\ SavedOrder /\ OnePin /\ Kinds /\ InOrder /\ OpenActive /\ PinnedActive
============================================================================
