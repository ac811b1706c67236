---------------------------- MODULE Resolution ----------------------------
(***************************************************************************)
(* How the journeys of a definition set are matched with the tools that a  *)
(* tenant's server lists: Resolve and CheckPolicies of internal/catalog,   *)
(* the alias table of its open, and the checks of the compiler             *)
(* (internal/definitions) that decide which sets there are.                *)
(*                                                                         *)
(* A behaviour is one tools/list result that grows tool by tool; what is   *)
(* served is a function of it.  An operation key is a model value, and its *)
(* derived alias AliasFor[key] need not be its own.  The reasons why a     *)
(* journey is unavailable are a set; their order and wording are left out. *)
(***************************************************************************)
EXTENDS Naturals, Sequences, FiniteSets, FiniteSetsExt

CONSTANTS
  None,
  Key,            \* operation keys
  Tag,
  AliasFor,       \* the alias derived from each key
  BadAlias,       \* aliases that are malformed or belong to the runtime
  Sets,           \* sequences of journeys, some of which compile
  Listable,       \* what a tool of the server may look like
  MaxListed       \* a bound on the tools of a server

Class == {"read_only", "idempotent", "effectful"}
Tool == [key: Key \cup {None}, hint: BOOLEAN, tags: SUBSET Tag]

ASSUME AliasAssumption == DOMAIN AliasFor = Key
ASSUME ListableAssumption == Listable \subseteq Tool /\ MaxListed \in Nat

VARIABLES
  set,            \* the journeys of the definition set
  listed          \* tools/list: a tool's position stands for its remote name

resvars == <<set, listed>>

\* A selector: <<>> for ops makes it a tag selector.  A journey: its selectors, the keys it
\* denies, max_tools, and whether the product version is in its range.
op(s) == s.ops # <<>>
Selectors(j) == {j.tools[n] : n \in DOMAIN j.tools}
SelectorAlias(s) == IF s.alias = None THEN AliasFor[s.ops[1]] ELSE s.alias

----------------------------------------------------------------------------
(* The compiler.                                                           *)

OpsOf(s) == {s.ops[n] : n \in DOMAIN s.ops}

\* Within a journey no key is named twice or denied too, and no alias is bad or used twice.
compileTools(j) ==
  /\ \A m, n \in DOMAIN j.tools : LET s == j.tools[m]
                                      t == j.tools[n]
                                  IN op(s) /\ op(t) /\ m # n =>
                                       /\ OpsOf(s) \cap OpsOf(t) = {}
                                       /\ SelectorAlias(s) # SelectorAlias(t)
  /\ \A s \in Selectors(j) :
       /\ op(s) => /\ Cardinality(OpsOf(s)) = Len(s.ops)
                   /\ OpsOf(s) \cap j.deny = {}
                   /\ SelectorAlias(s) \notin BadAlias
                   /\ Len(s.ops) > 1 => s.alias # None
       /\ ~op(s) => s.tags # {} /\ s.alias = None /\ s.class = None

ClassOf(s) == IF s.class = None THEN "effectful" ELSE s.class
Approves(class, required) == class # "read_only" \/ required

OpSelectors == {s \in UNION {Selectors(set[i]) : i \in DOMAIN set} : op(s)}

\* One alias names the same alternatives in all journeys.
checkAliasOps ==
  \A s, t \in OpSelectors : SelectorAlias(s) = SelectorAlias(t) => s.ops = t.ops

\* One key has the same policy in all journeys.
checkPolicyConflicts ==
  \A s, t \in OpSelectors : OpsOf(s) \cap OpsOf(t) # {} =>
    /\ ClassOf(s) = ClassOf(t)
    /\ Approves(ClassOf(s), s.approval) = Approves(ClassOf(t), t.approval)

Compile ==
  /\ \A i \in DOMAIN set : compileTools(set[i])
  /\ checkAliasOps
  /\ checkPolicyConflicts

----------------------------------------------------------------------------
(* Resolve, for one journey.                                               *)

\* The tools a journey may select: keyed and not denied.
Selectable(j) == {i \in DOMAIN listed : listed[i].key \notin j.deny \cup {None}}

Candidates(j, s, key) ==
  {i \in Selectable(j) : listed[i].key = key /\ (s.hint => listed[i].hint)}

\* The first alternative with a candidate wins.
OpMatch(j, s) ==
  LET offered == {n \in DOMAIN s.ops : Candidates(j, s, s.ops[n]) # {}}
  IN IF offered = {} THEN {} ELSE Candidates(j, s, s.ops[Min(offered)])

\* A tag selector adds every tool that has all its tags.
TagMatch(j, s) ==
  {i \in Selectable(j) : (s.hint => listed[i].hint) /\ s.tags \subseteq listed[i].tags}

Picks(j, s) ==
  LET match == OpMatch(j, s)
  IN IF ~op(s) THEN TagMatch(j, s) ELSE IF Cardinality(match) = 1 THEN match ELSE {}

Selected(j) == UNION {Picks(j, s) : s \in Selectors(j)}

\* The op selector that chose tool i, if any; the compiler leaves at most one.
Choosers(j, i) == {s \in Selectors(j) : op(s) /\ i \in Picks(j, s)}
Chooser(j, i) == CHOOSE s \in Choosers(j, i) : TRUE

AliasOf(j, i) ==
  IF Choosers(j, i) = {} THEN AliasFor[listed[i].key] ELSE SelectorAlias(Chooser(j, i))

ToolClass(j, i) == IF Choosers(j, i) = {} THEN "effectful" ELSE ClassOf(Chooser(j, i))

\* Mutant: only the op selector that chose the tool may ask for approval.
ApprovalByOp(j, i) == \E s \in Choosers(j, i) : s.approval

\* Any selector that matches may ask for approval.
Approval(j, i) == \E s \in Selectors(j) : i \in Picks(j, s) /\ s.approval

\* The reasons against serving a journey.
Missing(j) == \E s \in Selectors(j) : op(s) /\ OpMatch(j, s) = {}
Ambiguous(j) ==
  \/ \E s \in Selectors(j) : op(s) /\ Cardinality(OpMatch(j, s)) > 1
  \/ \E i, k \in Selected(j) : i # k /\ listed[i].key = listed[k].key
Collision(j) ==
  \E i, k \in Selected(j) : listed[i].key # listed[k].key /\ AliasOf(j, i) = AliasOf(j, k)

Malformed(j) == \E i \in Selected(j) : AliasOf(j, i) \in BadAlias

Unavailable(j) ==
  \/ ~j.inRange
  \/ Missing(j) \/ Ambiguous(j) \/ Collision(j) \/ Malformed(j)
  \/ Cardinality(Selected(j)) > j.max

\* What the model gets to see of tool i.
Served(j, i) ==
  [alias |-> AliasOf(j, i), name |-> i, key |-> listed[i].key, class |-> ToolClass(j, i),
   approval |-> Approves(ToolClass(j, i), Approval(j, i))]

Resolve(j) == IF Unavailable(j) THEN {} ELSE {Served(j, i) : i \in Selected(j)}

----------------------------------------------------------------------------
(* All journeys together.                                                  *)

Resolved == {i \in DOMAIN set : ~Unavailable(set[i])}
AllTools == UNION {Resolve(set[i]) : i \in Resolved}

Policy(t) == <<t.class, t.approval>>
Conflicts(t, u) == (t.key = u.key \/ t.alias = u.alias) /\ Policy(t) # Policy(u)

\* Mutant: policies are left to the compiler, which does not see what tags match.
AllPass(i) == i \in Resolved

\* A journey that shares a key or an alias under another policy is not served.
CheckPolicies(i) ==
  i \in Resolved /\ \A t \in Resolve(set[i]), u \in AllTools : ~Conflicts(t, u)

Available == {i \in DOMAIN set : CheckPolicies(i)}
Bound == UNION {Resolve(set[i]) : i \in Available}

\* open builds one alias table for all journeys and fails if an alias is two tools.
Opens == \A t, u \in Bound : t.alias = u.alias => t.name = u.name

----------------------------------------------------------------------------
ResInit == set \in Sets /\ Compile /\ listed = <<>>

\* The server has one tool more.
Advertise(t) ==
  /\ Len(listed) < MaxListed
  /\ listed' = Append(listed, t)
  /\ UNCHANGED set

ResNext == \E t \in Listable : Advertise(t)
ResSpec == ResInit /\ [][ResNext]_resvars

----------------------------------------------------------------------------
(* Properties.                                                             *)

\* The runtime looks a call's policy up by journey and alias and then calls by alias alone
\* (Binding.Tool, Binding.Call).  Both come to the same tool under the same policy, in
\* whichever of the available journeys the call was made.
CallsWhatWasChecked ==
  Opens => \A i, k \in Available : \A t \in Resolve(set[i]), u \in Resolve(set[k]) :
             t.alias = u.alias \/ t.name = u.name =>
               t.name = u.name /\ Policy(t) = Policy(u) /\ (i = k => t = u)

\* "The platform owns the selectors and a policy overlay that can only narrow" (design.md):
\* a tool runs without approval only where an op selector calls its operation read-only, and
\* then no selector of any available journey that matches it asks for approval.
OnlyNarrows ==
  LET available == Available
  IN \A i \in available : \A t \in Resolve(set[i]) : ~t.approval =>
       /\ \E s \in Selectors(set[i]) : t.key \in OpsOf(s) /\ s.class = "read_only"
       /\ \A k \in available : \A s \in Selectors(set[k]) :
            t.name \in Picks(set[k], s) => ~s.approval
============================================================================
