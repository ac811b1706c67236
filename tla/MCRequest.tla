----------------------------- MODULE MCRequest -----------------------------
(* What a provider request is made of, for TLC: the tools that the catalog *)
(* resolved (Resolution) and the history that fits the budget (Trimming).  *)
(* Neither depends on the other, so a behaviour explores one of the two.   *)
EXTENDS Resolution, Trimming, TLC

CONSTANTS k1, k2, k3, x1, x2, bad, g, c1, c2

\* The first two keys differ in a character that the alias has no room for;
\* the third has no usable alias of its own.
Squeezed == k1 :> x1 @@ k2 :> x1 @@ k3 :> bad

Ops(ops, alias, hint, class, approval) ==
  [ops |-> ops, tags |-> {}, alias |-> alias, hint |-> hint, class |-> class,
   approval |-> approval]
Tags(hint, approval) ==
  [ops |-> <<>>, tags |-> {g}, alias |-> None, hint |-> hint, class |-> None,
   approval |-> approval]

OpSelector ==
  {Ops(<<k1>>, None, FALSE, class, approval) : class \in {None, "read_only"}, approval \in BOOLEAN}
  \cup {Ops(<<k2>>, None, FALSE, "read_only", FALSE), Ops(<<k1, k3>>, x2, TRUE, "read_only", FALSE)}
TagSelector == {Tags(FALSE, approval) : approval \in BOOLEAN}

Journey(tools, deny, max) == [tools |-> tools, deny |-> deny, max |-> max, inRange |-> TRUE]

\* One or two selectors, the second of which goes by tag; and one for another version.
Journeys ==
  {Journey(<<s>>, {}, 2) : s \in OpSelector}
  \cup {Journey(<<s>>, {}, 2) : s \in TagSelector}
  \cup {Journey(<<s>>, {k1}, 1) : s \in TagSelector}
  \cup {Journey(<<s, t>>, {}, 2) : s \in OpSelector, t \in TagSelector}
  \cup {[Journey(<<s>>, {}, 2) EXCEPT !.inRange = FALSE] : s \in TagSelector}

\* The order of the journeys makes no difference.
Pairs == {<<i, k>> \in Journeys \X Journeys : Len(i.tools) <= Len(k.tools)}

Listings ==
  [key: {k1}, hint: BOOLEAN, tags: {{}, {g}}]
  \cup [key: {k2, k3}, hint: {FALSE}, tags: {{}, {g}}]
  \cup [key: {None}, hint: {FALSE}, tags: {{g}}]

Idle == set = <<>> /\ listed = <<>>
Empty == history = <<>> /\ request = {} /\ protected = {} /\ budget = 0 /\ admitted = 0

RequestInit == (ResInit /\ Empty) \/ (TrimInit /\ Idle)
RequestNext ==
  \/ set # <<>> /\ ResNext /\ UNCHANGED tvars
  \/ set = <<>> /\ TrimNext /\ UNCHANGED resvars
RequestSpec == RequestInit /\ [][RequestNext]_<<resvars, tvars>>
============================================================================
