------------------------------ MODULE Trimming ------------------------------
(* The history of a provider request: trimHistory (runtime/history.go) as  *)
(* invoke (runtime/interactions.go) uses it.  The conversation's history   *)
(* grows by what invoke admits, by what the model answers and by results;  *)
(* only the request is trimmed.  A size is the share of a message in the   *)
(* estimate of its tokens.                                                 *)
EXTENDS Naturals, Sequences, FiniteSets, FiniteSetsExt

CONSTANTS
  CallId,
  Size,         \* sizes of messages
  Budget,       \* history budgets; 0 disables trimming
  MaxMessages,  \* bound on the length of a history
  MaxAdmitted   \* bound on the commands that one request admits

VARIABLES
  history,    \* messages: role, calls, result (a set of at most one call ID), size
  request,    \* the positions in history of the messages that were sent
  protected,  \* the call of the interaction that the run continues
  budget,
  admitted    \* how many messages at the end of history are new in this request

tvars == <<history, request, protected, budget, admitted>>

Message ==
  [role: {"user", "assistant", "tool"}, calls: SUBSET CallId, result: SUBSET CallId, size: Size]

TrimTypeOK ==
  /\ history \in Seq(Message)
  /\ request \subseteq DOMAIN history
  /\ protected \subseteq CallId
  /\ budget \in Budget
  /\ admitted \in 0..MaxAdmitted

----------------------------------------------------------------------------
(* trimHistory.                                                            *)

estimateTokens(h, kept) == MapThenSumSet(LAMBDA i : h[i].size, kept)

\* Turns count from 0; a turn starts at each user message but a first one.
turnOf(h, i) == Cardinality({k \in 2..i : h[k].role = "user"})
Turns(h) == 0..turnOf(h, Len(h))

\* The last call before message i that it has the result of; 0 when there is none.
CallOf(h, i) == Max({0} \cup {c \in 1..(i - 1) : h[c].calls \cap h[i].result # {}})

\* Mutant of Merge: a result that lies in a later turn than its call is not followed.
MergeNothing(unit, from, to) == unit

\* The turns after from, up to the one of the result, join from's unit.
Merge(unit, from, to) ==
  [t \in DOMAIN unit |-> IF from < t /\ t <= to THEN unit[from] ELSE unit[t]]

\* The lowest turn of the unit of each turn, after all messages.
Unit(h) ==
  LET after[i \in 0..Len(h)] ==
        IF i = 0 THEN [t \in Turns(h) |-> t]
        ELSE IF CallOf(h, i) = 0 THEN after[i - 1]
        ELSE Merge(after[i - 1], turnOf(h, CallOf(h, i)), turnOf(h, i))
  IN after[Len(h)]

\* The latest turn, and the turns of protected calls.
keep(h, safe) ==
  {turnOf(h, Len(h))} \cup {turnOf(h, i) : i \in {i \in DOMAIN h : h[i].calls \cap safe # {}}}

\* The turns that are dropped: unit by unit, oldest first, until the rest fits.
Dropped(h, limit, safe) ==
  LET unit == Unit(h)
      unitKept == {unit[t] : t \in keep(h, safe)}
      block(t) == {u \in Turns(h) : u >= t /\ \A v \in t..u : unit[v] = unit[t]}
      starts(t) == t = 0 \/ unit[t - 1] # unit[t]
      fits(gone) == estimateTokens(h, {i \in DOMAIN h : turnOf(h, i) \notin gone}) <= limit
      after[t \in 0..(turnOf(h, Len(h)) + 1)] ==
        IF t = 0 THEN {}
        ELSE IF ~starts(t - 1) \/ fits(after[t - 1]) \/ unit[t - 1] \in unitKept THEN after[t - 1]
        ELSE after[t - 1] \cup block(t - 1)
  IN after[turnOf(h, Len(h)) + 1]

\* The positions of what is left.
trimHistory(h, limit, safe) ==
  IF limit = 0 \/ h = <<>> THEN DOMAIN h
  ELSE LET gone == Dropped(h, limit, safe) IN {i \in DOMAIN h : turnOf(h, i) \notin gone}

----------------------------------------------------------------------------
(* invoke and what comes between two requests.                             *)

TrimInit ==
  /\ history = <<>> /\ request = {} /\ protected = {} /\ admitted = 0
  /\ budget \in Budget

User(size) == [role |-> "user", calls |-> {}, result |-> {}, size |-> size]
Called(h) == UNION {h[i].calls : i \in DOMAIN h}
Open(h) == Called(h) \ UNION {h[i].result : i \in DOMAIN h}

\* A request goes out when there is something new: admitted commands, or results, which
\* precede them.
invoke(sizes, safe) ==
  /\ request = {}
  /\ Len(history) + Len(sizes) < MaxMessages
  /\ sizes # <<>> \/ (history # <<>> /\ history[Len(history)].role = "tool")
  /\ safe \subseteq Called(history)
  /\ history' = history \o [n \in DOMAIN sizes |-> User(sizes[n])]
  /\ protected' = safe
  /\ admitted' = Len(sizes)
  /\ request' = trimHistory(history', budget, safe)
  /\ UNCHANGED budget

\* The model answers, with calls or without.
Response(calls, size) ==
  /\ request # {}
  /\ calls \cap Called(history) = {}
  /\ history' = Append(history, [role |-> "assistant", calls |-> calls, result |-> {}, size |-> size])
  /\ request' = {} /\ admitted' = 0
  /\ UNCHANGED <<protected, budget>>

\* The request fails: history is what it was before it.
RequestFails ==
  /\ request # {}
  /\ history' = SubSeq(history, 1, Len(history) - admitted)
  /\ request' = {} /\ admitted' = 0
  /\ UNCHANGED <<protected, budget>>

\* A call gets its result: at once, by a reply, or when a later run closes it.
resultMessage(id, size) ==
  /\ request = {}
  /\ Len(history) < MaxMessages
  /\ id \in Open(history)
  /\ history' = Append(history, [role |-> "tool", calls |-> {}, result |-> {id}, size |-> size])
  /\ UNCHANGED <<request, protected, budget, admitted>>

TrimNext ==
  \/ \E n \in 0..MaxAdmitted : \E sizes \in [1..n -> Size] :
       \E safe \in {{}} \cup {{id} : id \in CallId} : invoke(sizes, safe)
  \/ \E calls \in SUBSET CallId, size \in Size : Response(calls, size)
  \/ RequestFails
  \/ \E id \in CallId, size \in Size : resultMessage(id, size)

TrimSpec == TrimInit /\ [][TrimNext]_tvars

----------------------------------------------------------------------------
(* Properties.                                                             *)

\* "A call and its result are never split" (history.go): a request has the result of a
\* call exactly when it has the call, wherever later turns, other pairs, protected calls
\* and the budget put the cut.
PairsIntact ==
  request # {} =>
    \A i \in DOMAIN history : CallOf(history, i) # 0 =>
      (i \in request <=> CallOf(history, i) \in request)

Sent(t) == \E i \in request : turnOf(history, i) = t

\* Turns no pair lets apart: a call before each boundary between them has its result after.
Together(t, u) ==
  \A b \in (Min({t, u}) + 1)..Max({t, u}) :
    \E i \in DOMAIN history :
      /\ CallOf(history, i) # 0
      /\ turnOf(history, CallOf(history, i)) < b /\ b <= turnOf(history, i)

MayGo(t) ==
  \A u \in Turns(history) : Together(t, u) =>
    /\ u # turnOf(history, Len(history))
    /\ \A i \in DOMAIN history : turnOf(history, i) = u => history[i].calls \cap protected = {}

TurnSize(T) == estimateTokens(history, {i \in DOMAIN history : turnOf(history, i) \in T})

\* "drops the oldest whole turns [...] until the estimate fits budget" (history.go): the
\* request has whole turns, the latest and the protected ones among them; of those that
\* may go the oldest go first; none goes that did not have to, and when the request is
\* still over the budget none that may go is left.
DropsOldest ==
  request # {} =>
    LET sent == {t \in Turns(history) : Sent(t)}
        gone == Turns(history) \ sent
    IN /\ request = {i \in DOMAIN history : turnOf(history, i) \in sent}
       /\ \A t \in gone : MayGo(t) /\ \A u \in 0..t : MayGo(u) => u \in gone
       /\ gone # {} =>
            /\ budget > 0
            /\ TurnSize(sent \cup {t \in gone : Together(t, Max(gone))}) > budget
       /\ budget > 0 /\ TurnSize(sent) > budget => \A t \in sent : ~MayGo(t)

\* What invoke sends is the history as trimHistory's comment promises it: no call is
\* parted from its result, and whole turns go, the oldest first, as few as will do.
TrimsAsSaid == PairsIntact /\ DropsOldest
============================================================================
