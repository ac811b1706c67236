-------------------------- MODULE ActiveSetProofs --------------------------
(* Proofs about ActiveSet, for any finite set of journeys, any limit and any *)
(* aliases.  The order in memory is the stored one wherever the runtime      *)
(* relies on it, no activation finds its limit taken, the set stays within   *)
(* its limit, what is pinned stays active, and what is evicted was used      *)
(* before what stays.                                                        *)
EXTENDS ActiveSet, FiniteSetTheorems, TLAPS

----------------------------------------------------------------------------
(* Orders.                                                                   *)

\* A function on 1..n is a sequence of length n.
LEMMA FunctionIsSequence ==
  ASSUME NEW S, NEW n \in Nat, NEW f \in [1..n -> S]
  PROVE  f \in Seq(S) /\ Len(f) = n
OBVIOUS

\* What the elements of an order are.
LEMMA OrderRange ==
  ASSUME NEW ids \in Order
  PROVE  /\ Len(ids) \in Nat /\ DOMAIN ids = 1..Len(ids) /\ Range(ids) \subseteq Journey
         /\ \A i \in DOMAIN ids : ids[i] \in Journey /\ ids[i] \in Range(ids)
BY DEF Order, Range

\* A finite set of positions has a sequence that lists all of them in their order.
LEMMA AscendingLists ==
  ASSUME NEW n \in Nat, NEW P \in SUBSET (1..n)
  PROVE  /\ IsFiniteSet(P) /\ Cardinality(P) \in Nat
         /\ Ascending(P) \in [1..Cardinality(P) -> P]
         /\ \A x, y \in 1..Cardinality(P) : x < y => Ascending(P)[x] < Ascending(P)[y]
         /\ Range(Ascending(P)) = P
<1> DEFINE upto(i) == {m \in P : m <= i}
           rank == [i \in P |-> Cardinality(upto(i))]
           c == Cardinality(P)
<1>0. \A i \in P : i \in Nat
  OBVIOUS
<1>1. IsFiniteSet(P) /\ c \in Nat
  <2>1. IsFiniteSet(1..n)
    BY FS_Interval
  <2> QED
    BY <2>1, FS_Subset, FS_CardinalityType, Zenon
<1>2. \A i \in P : IsFiniteSet(upto(i)) /\ Cardinality(upto(i)) \in 1..c
  <2> SUFFICES ASSUME NEW i \in P PROVE IsFiniteSet(upto(i)) /\ Cardinality(upto(i)) \in 1..c
    BY Zenon
  <2>1. upto(i) \subseteq P /\ i \in upto(i)
    OBVIOUS
  <2>2. IsFiniteSet(upto(i)) /\ Cardinality(upto(i)) <= c /\ Cardinality(upto(i)) \in Nat
    BY <1>1, <2>1, FS_Subset, FS_CardinalityType
  <2>3. Cardinality(upto(i)) # 0
    BY <2>1, <2>2, FS_EmptySet, Zenon
  <2> HIDE DEF upto, c
  <2> QED
    BY <1>1, <2>2, <2>3
<1>3. \A i, k \in P : i < k => rank[i] < rank[k]
  <2> SUFFICES ASSUME NEW i \in P, NEW k \in P, i < k PROVE Cardinality(upto(i)) < Cardinality(upto(k))
    BY Zenon
  <2>1. upto(i) \subseteq upto(k) /\ k \in upto(k) /\ k \notin upto(i)
    <3>1. i \in Nat /\ k \in Nat
      BY <1>0, Zenon
    <3>2. k <= k /\ ~(k <= i)
      BY <3>1
    <3>3. ASSUME NEW m \in P, m <= i PROVE m <= k
      <4>1. m \in Nat
        BY <1>0, Zenon
      <4> QED
        BY <3>1, <3>3, <4>1
    <3> QED
      BY <3>2, <3>3, Zenon
  <2>2. Cardinality(upto(i)) <= Cardinality(upto(k)) /\ Cardinality(upto(k)) # Cardinality(upto(i))
    BY <1>2, <2>1, FS_Subset, Zenon
  <2> HIDE DEF upto, c
  <2> QED
    BY <1>2, <2>2
<1>4. rank \in [P -> 1..c] /\ \A x \in 1..c : x \in Nat
  <2>1. rank \in [P -> 1..c]
    BY <1>2, Zenon
  <2> HIDE DEF rank, c
  <2>2. \A x \in 1..c : x \in Nat
    BY <1>1
  <2> QED
    BY <2>1, <2>2, Zenon
<1> HIDE DEF rank, c
<1>5. rank \in Injection(P, 1..c)
  BY <1>3, <1>4 DEF Injection, IsInjective
<1>6. IsFiniteSet(1..c) /\ Cardinality(1..c) = c
  BY <1>1, FS_Interval
<1>7. rank \in Surjection(P, 1..c)
  BY <1>5, <1>6, FS_Injection, Zenon DEF c
<1>8. \E at \in [1..c -> P] : \A x, y \in DOMAIN at : x < y => at[x] < at[y]
  <2> DEFINE at == [x \in 1..c |-> CHOOSE i \in P : rank[i] = x]
  <2>1. \A x \in 1..c : at[x] \in P /\ rank[at[x]] = x
    BY <1>7, Zenon DEF Surjection
  <2>2. at \in [1..c -> P]
    BY <2>1, Zenon
  <2> HIDE DEF at
  <2>3. \A x, y \in 1..c : x < y => at[x] < at[y]
    <3> SUFFICES ASSUME NEW x \in 1..c, NEW y \in 1..c, x < y, ~(at[x] < at[y]) PROVE FALSE
      BY Zenon
    <3>1. at[x] \in P /\ at[y] \in P /\ rank[at[x]] = x /\ rank[at[y]] = y
      BY <2>1, Zenon
    <3>2. at[x] \in Nat /\ at[y] \in Nat /\ x \in Nat /\ y \in Nat
      BY <1>0, <1>4, <3>1, Zenon
    <3>3. at[y] < at[x] \/ at[y] = at[x]
      BY <3>2
    <3>4. at[y] < at[x] => y < x
      BY <1>3, <3>1, Zenon
    <3> QED
      BY <3>1, <3>2, <3>3, <3>4
  <2> QED
    BY <2>2, <2>3, Zenon
<1>9. /\ Ascending(P) \in [1..c -> P]
      /\ \A x, y \in 1..c : x < y => Ascending(P)[x] < Ascending(P)[y]
  BY <1>8, Zenon DEF Ascending, c
<1>10. Ascending(P) \in Injection(1..c, P)
  <2> DEFINE at == Ascending(P)
  <2> HIDE DEF at
  <2>1. \A x, y \in 1..c : x # y => at[x] # at[y]
    <3> SUFFICES ASSUME NEW x \in 1..c, NEW y \in 1..c, x # y PROVE at[x] # at[y]
      BY Zenon
    <3>1. x < y \/ y < x
      BY <1>1
    <3>2. at[x] < at[y] \/ at[y] < at[x]
      BY <1>9, <3>1, Zenon DEF at
    <3>3. at[x] \in Nat /\ at[y] \in Nat
      BY <1>0, <1>9, Zenon DEF at
    <3> QED
      BY <3>2, <3>3
  <2> QED
    BY <1>9, <2>1, Zenon DEF Injection, IsInjective, at
<1>11. Ascending(P) \in Surjection(1..c, P)
  BY <1>1, <1>6, <1>10, FS_Injection, Zenon DEF c
<1> QED
  BY <1>1, <1>9, <1>11, Zenon DEF Surjection, Range, c

\* What an order keeps: the members of T, at ascending positions of the order (Remove).
LEMMA Kept ==
  ASSUME NEW ids \in Order, NEW T
  PROVE  /\ Keep(ids, T) \in Order
         /\ Range(Keep(ids, T)) = Range(ids) \cap T
         /\ \E at \in [DOMAIN Keep(ids, T) -> DOMAIN ids] :
              /\ \A x, y \in DOMAIN at : x < y => at[x] < at[y]
              /\ \A x \in DOMAIN at : Keep(ids, T)[x] = ids[at[x]]
<1> DEFINE P == {i \in DOMAIN ids : ids[i] \in T}
           at == Ascending(P)
           c == Cardinality(P)
<1>1. Len(ids) \in Nat /\ DOMAIN ids = 1..Len(ids) /\ \A i \in DOMAIN ids : ids[i] \in Journey
  BY OrderRange, Zenon
<1>2. P \in SUBSET (1..Len(ids))
  BY <1>1, Zenon
<1> HIDE DEF P
<1>3. /\ c \in Nat /\ at \in [1..c -> P] /\ Range(at) = P
      /\ \A x, y \in 1..c : x < y => at[x] < at[y]
  BY <1>1, <1>2, AscendingLists, Zenon
<1> HIDE DEF at, c
<1>4. Keep(ids, T) = [x \in 1..c |-> ids[at[x]]]
  BY <1>3, Zenon DEF Keep, P, at
<1> DEFINE kept == Keep(ids, T)
<1> HIDE DEF kept
<1>5. \A x \in 1..c : at[x] \in DOMAIN ids /\ ids[at[x]] \in Journey \cap T
  BY <1>1, <1>3, Zenon DEF P
<1>6. kept \in [1..c -> Journey] /\ DOMAIN kept = 1..c /\ \A x \in 1..c : kept[x] = ids[at[x]]
  BY <1>4, <1>5, Zenon DEF kept
<1>7. kept \in Order
  BY <1>3, <1>6, FunctionIsSequence, Zenon DEF Order
<1>8. Range(kept) = Range(ids) \cap T
  <2>1. \A v \in Range(kept) : v \in Range(ids) \cap T
    BY <1>5, <1>6, Zenon DEF Range
  <2>2. ASSUME NEW v \in Range(ids) \cap T PROVE v \in Range(kept)
    <3>1. PICK i \in DOMAIN ids : ids[i] = v
      BY Zenon DEF Range
    <3>2. i \in Range(at)
      BY <1>3, <3>1, Zenon DEF P
    <3>3. PICK x \in 1..c : at[x] = i
      BY <1>3, <3>2, Zenon DEF Range
    <3> QED
      BY <1>6, <3>1, <3>3, Zenon DEF Range
  <2> QED
    BY <2>1, <2>2, Zenon
<1>9. at \in [DOMAIN kept -> DOMAIN ids] /\ DOMAIN at = DOMAIN kept
  BY <1>3, <1>5, <1>6, Zenon
<1> QED
  BY <1>3, <1>6, <1>7, <1>8, <1>9, Zenon DEF kept

\* An order without repetitions has as many elements as positions.
LEMMA Counted ==
  ASSUME NEW ids \in Order, IsInjective(ids)
  PROVE  IsFiniteSet(Range(ids)) /\ Cardinality(Range(ids)) = Len(ids)
<1>1. Len(ids) \in Nat /\ DOMAIN ids = 1..Len(ids) /\ ids \in [1..Len(ids) -> Range(ids)]
  BY DEF Order, Range
<1>2. ids \in Bijection(1..Len(ids), Range(ids))
  BY <1>1, Zenon DEF Bijection, Injection, Surjection, Range
<1>3. IsFiniteSet(1..Len(ids)) /\ Cardinality(1..Len(ids)) = Len(ids)
  BY <1>1, FS_Interval
<1> QED
  BY <1>2, <1>3, FS_Bijection, Zenon DEF ExistsBijection

\* What is kept of a set in the order of last use is in that order.
LEMMA KeptRanked ==
  ASSUME NEW ids \in Order, NEW T, IsInjective(ids)
  PROVE  /\ IsInjective(Keep(ids, T))
         /\ \A j, k : Before(Keep(ids, T), j, k) <=> Before(ids, j, k) /\ j \in T /\ k \in T
<1> DEFINE kept == Keep(ids, T)
<1>1. /\ kept \in Order /\ Range(kept) = Range(ids) \cap T
      /\ \E at \in [DOMAIN kept -> DOMAIN ids] :
           /\ \A x, y \in DOMAIN at : x < y => at[x] < at[y]
           /\ \A x \in DOMAIN at : kept[x] = ids[at[x]]
  BY Kept
<1> HIDE DEF kept
<1>2. PICK at \in [DOMAIN kept -> DOMAIN ids] :
        /\ \A x, y \in DOMAIN at : x < y => at[x] < at[y]
        /\ \A x \in DOMAIN at : kept[x] = ids[at[x]]
  BY <1>1, Zenon
<1>3. DOMAIN at = DOMAIN kept /\ (\A x \in DOMAIN kept : x \in Nat) /\ (\A i \in DOMAIN ids : i \in Nat)
  BY <1>1 DEF Order
<1>4. \A x, y \in DOMAIN kept : at[x] = at[y] => x = y
  <2> SUFFICES ASSUME NEW x \in DOMAIN kept, NEW y \in DOMAIN kept, at[x] = at[y] PROVE x = y
    BY Zenon
  <2>1. x \in Nat /\ y \in Nat /\ at[x] \in Nat
    BY <1>3, Zenon
  <2>2. x < y \/ y < x \/ x = y
    BY <2>1
  <2>3. ~(at[x] < at[x])
    BY <2>1
  <2> QED
    BY <1>2, <1>3, <2>2, <2>3, Zenon
<1>5. IsInjective(kept)
  <2> SUFFICES ASSUME NEW x \in DOMAIN kept, NEW y \in DOMAIN kept, kept[x] = kept[y]
               PROVE  x = y
    BY Zenon DEF IsInjective
  <2>1. ids[at[x]] = ids[at[y]] /\ at[x] \in DOMAIN ids /\ at[y] \in DOMAIN ids
    BY <1>2, <1>3, Zenon
  <2> QED
    BY <1>4, <2>1, Zenon DEF IsInjective
<1>6. ASSUME NEW j, NEW k, Before(kept, j, k)
      PROVE  Before(ids, j, k) /\ j \in T /\ k \in T
  <2>1. PICK x, y \in DOMAIN kept : x < y /\ kept[x] = j /\ kept[y] = k
    BY <1>6, Zenon DEF Before
  <2>2. at[x] < at[y] /\ ids[at[x]] = j /\ ids[at[y]] = k
    BY <1>2, <1>3, <2>1, Zenon
  <2>3. at[x] \in DOMAIN ids /\ at[y] \in DOMAIN ids /\ j \in Range(kept) /\ k \in Range(kept)
    BY <2>1, Zenon DEF Range
  <2> QED
    BY <1>1, <2>2, <2>3, Zenon DEF Before
<1>7. ASSUME NEW j, NEW k, Before(ids, j, k), j \in T, k \in T
      PROVE  Before(kept, j, k)
  <2>1. PICK m, n \in DOMAIN ids : m < n /\ ids[m] = j /\ ids[n] = k
    BY <1>7, Zenon DEF Before
  <2>2. j \in Range(kept) /\ k \in Range(kept)
    BY <1>1, <1>7, <2>1, Zenon DEF Range
  <2>3. PICK x, y \in DOMAIN kept : kept[x] = j /\ kept[y] = k
    BY <2>2, Zenon DEF Range
  <2>4. at[x] = m /\ at[y] = n
    <3>1. at[x] \in DOMAIN ids /\ at[y] \in DOMAIN ids /\ ids[at[x]] = j /\ ids[at[y]] = k
      BY <1>2, <1>3, <2>3, Zenon
    <3> QED
      BY <2>1, <3>1, Zenon DEF IsInjective
  <2>5. m \in Nat /\ n \in Nat /\ x \in Nat /\ y \in Nat
    BY <1>3, Zenon
  <2>6. ~(y < x) /\ x # y
    <3>1. ~(n < m) /\ m # n
      BY <2>1, <2>5
    <3> QED
      BY <1>2, <1>3, <2>4, <3>1, Zenon
  <2>7. x < y
    BY <2>5, <2>6
  <2> QED
    BY <2>3, <2>7, Zenon DEF Before
<1> QED
  BY <1>5, <1>6, <1>7, Zenon DEF kept

\* What j appended to an order makes of it.
LEMMA Appended ==
  ASSUME NEW ids \in Order, NEW j \in Journey
  PROVE  /\ Append(ids, j) \in Order /\ Len(Append(ids, j)) = Len(ids) + 1
         /\ Range(Append(ids, j)) = Range(ids) \cup {j}
         /\ IsInjective(ids) /\ j \notin Range(ids) => IsInjective(Append(ids, j))
         /\ \A a, b : Before(Append(ids, j), a, b) <=>
                        Before(ids, a, b) \/ (a \in Range(ids) /\ b = j)
<1> DEFINE s == Append(ids, j)
           l == Len(ids)
<1>1. /\ l \in Nat /\ DOMAIN ids = 1..l
      /\ s \in Order /\ Len(s) = l + 1 /\ DOMAIN s = 1..(l + 1)
      /\ s[l + 1] = j /\ \A i \in 1..l : s[i] = ids[i]
  BY DEF Order
<1>2. 1..(l + 1) = 1..l \cup {l + 1} /\ l + 1 \notin 1..l /\ (\A i \in 1..l : i < l + 1 /\ ~(l + 1 < i))
      /\ ~(l + 1 < l + 1)
  BY <1>1
<1> HIDE DEF s, l
<1>3. Range(s) = Range(ids) \cup {j}
  <2>1. \A v \in Range(s) : v \in Range(ids) \cup {j}
    BY <1>1, <1>2, Zenon DEF Range
  <2>2. \A v \in Range(ids) : v \in Range(s)
    BY <1>1, <1>2, Zenon DEF Range
  <2>3. j \in Range(s)
    BY <1>1, <1>2, Zenon DEF Range
  <2> QED
    BY <2>1, <2>2, <2>3, Zenon
<1>4. ASSUME IsInjective(ids), j \notin Range(ids) PROVE IsInjective(s)
  <2> SUFFICES ASSUME NEW x \in 1..(l + 1), NEW y \in 1..(l + 1), s[x] = s[y] PROVE x = y
    BY <1>1, Zenon DEF IsInjective
  <2>1. CASE x \in 1..l /\ y \in 1..l
    BY <1>1, <1>4, <2>1, Zenon DEF IsInjective
  <2>2. ASSUME NEW z \in 1..l PROVE s[z] # j
    BY <1>1, <1>4, <2>2, Zenon DEF Range
  <2> QED
    BY <1>1, <1>2, <2>1, <2>2, Zenon
<1>5. ASSUME NEW a, NEW b, Before(s, a, b) PROVE Before(ids, a, b) \/ (a \in Range(ids) /\ b = j)
  <2>1. PICK m, n \in 1..(l + 1) : m < n /\ s[m] = a /\ s[n] = b
    BY <1>1, <1>5, Zenon DEF Before
  <2>2. m \in 1..l
    BY <1>2, <2>1, Zenon
  <2>3. a = ids[m] /\ m \in DOMAIN ids
    BY <1>1, <2>1, <2>2, Zenon
  <2>4. CASE n \in 1..l
    BY <1>1, <2>1, <2>3, <2>4, Zenon DEF Before
  <2>5. CASE n = l + 1
    BY <1>1, <2>1, <2>3, <2>5, Zenon DEF Range
  <2> QED
    BY <1>2, <2>4, <2>5, Zenon
<1>6. ASSUME NEW a, NEW b, Before(ids, a, b) PROVE Before(s, a, b)
  <2>1. PICK m, n \in 1..l : m < n /\ ids[m] = a /\ ids[n] = b
    BY <1>1, <1>6, Zenon DEF Before
  <2> QED
    BY <1>1, <1>2, <2>1, Zenon DEF Before
<1>7. ASSUME NEW a \in Range(ids) PROVE Before(s, a, j)
  <2>1. PICK m \in 1..l : ids[m] = a
    BY <1>1, Zenon DEF Range
  <2> QED
    BY <1>1, <1>2, <2>1, Zenon DEF Before
<1>8. \A a, b : Before(s, a, b) <=> Before(ids, a, b) \/ (a \in Range(ids) /\ b = j)
  BY <1>5, <1>6, <1>7
<1> QED
  BY <1>1, <1>3, <1>4, <1>8, Zenon DEF s, l

\* What is left of an order when the members of V are removed (Remove).
LEMMA Removed ==
  ASSUME NEW ids \in Order, NEW V, IsInjective(ids)
  PROVE  /\ RemoveAll(ids, V) \in Order /\ IsInjective(RemoveAll(ids, V))
         /\ Range(RemoveAll(ids, V)) = Range(ids) \ V
         /\ Len(RemoveAll(ids, V)) = Len(ids) - Cardinality(Range(ids) \cap V)
         /\ \A a, b : Before(RemoveAll(ids, V), a, b) <=> Before(ids, a, b) /\ a \notin V /\ b \notin V
<1> DEFINE left == RemoveAll(ids, V)
<1>1. left \in Order /\ Range(left) = Range(ids) \ V
  <2>1. left \in Order /\ Range(left) = Range(ids) \cap (Journey \ V)
    BY Kept, Zenon DEF RemoveAll
  <2>2. Range(ids) \subseteq Journey
    BY OrderRange, Zenon
  <2> HIDE DEF left
  <2> QED
    BY <2>1, <2>2, Zenon
<1>2. IsInjective(left)
  BY KeptRanked, Zenon DEF RemoveAll
<1>3. \A a, b : Before(ids, a, b) => a \in Journey /\ b \in Journey
  BY OrderRange, Zenon DEF Before
<1>4. \A a, b : Before(left, a, b) <=> Before(ids, a, b) /\ a \notin V /\ b \notin V
  <2>1. \A a, b : Before(left, a, b) <=> Before(ids, a, b) /\ a \in Journey \ V /\ b \in Journey \ V
    BY KeptRanked, Zenon DEF RemoveAll
  <2> QED
    BY <1>3, <2>1, Zenon
<1> HIDE DEF left
<1>5. /\ IsFiniteSet(Range(ids)) /\ Cardinality(Range(ids)) = Len(ids)
      /\ Cardinality(Range(left)) = Len(left)
  BY <1>1, <1>2, Counted, Zenon
<1>6. Cardinality(Range(ids) \ V) = Cardinality(Range(ids)) - Cardinality(Range(ids) \cap V)
  BY <1>5, FS_Difference, Zenon
<1> QED
  BY <1>1, <1>2, <1>4, <1>5, <1>6, Zenon DEF left

\* What is put back in its place.
LEMMA PutBack ==
  ASSUME NEW S, NEW j \in S
  PROVE  (S \ {j}) \cup {j} = S
OBVIOUS

\* A set in the order of last use, said of its members.
LEMMA RankedOrder ==
  ASSUME NEW ids, NEW order
  PROVE  Ranked(ids, order) <=>
           /\ ids \in Order /\ IsInjective(ids)
           /\ \A a, b : Before(ids, a, b) => Before(order, a, b)
BY DEF Ranked, Before

\* A use of j makes it the last one and leaves the order of the others (Touch).
LEMMA UsedOrder ==
  ASSUME NEW order, Complete(order), NEW j \in Journey
  PROVE  /\ Complete(Used(order, j))
         /\ \A a \in Journey \ {j} : Before(Used(order, j), a, j)
         /\ \A a, b : Before(order, a, b) /\ a # j /\ b # j => Before(Used(order, j), a, b)
<1> DEFINE rest == RemoveAll(order, {j})
<1>1. order \in Order /\ IsInjective(order) /\ Range(order) = Journey
  BY Zenon DEF Complete
<1>2. /\ rest \in Order /\ IsInjective(rest) /\ Range(rest) = Journey \ {j}
      /\ \A a, b : Before(rest, a, b) <=> Before(order, a, b) /\ a \notin {j} /\ b \notin {j}
  BY <1>1, Removed, Zenon
<1> HIDE DEF rest
<1>3. Used(order, j) = Append(rest, j)
  BY Zenon DEF Used, rest
<1>4. /\ Append(rest, j) \in Order /\ IsInjective(Append(rest, j))
      /\ Range(Append(rest, j)) = Range(rest) \cup {j}
      /\ \A a, b : Before(Append(rest, j), a, b) <=> Before(rest, a, b) \/ (a \in Range(rest) /\ b = j)
  BY <1>2, Appended, Zenon
<1>5. Range(Append(rest, j)) = Journey
  BY <1>2, <1>4, PutBack, Zenon
<1> QED
  BY <1>2, <1>3, <1>4, <1>5 DEF Complete

\* A touch, or the activation of an active journey, keeps the set and its order.
LEMMA TouchRanked ==
  ASSUME NEW ids, NEW order, Complete(order), Ranked(ids, order), NEW j \in Range(ids)
  PROVE  /\ Ranked(Touch(ids, j), Used(order, j))
         /\ Range(Touch(ids, j)) = Range(ids) /\ Len(Touch(ids, j)) = Len(ids)
<1> DEFINE rest == RemoveAll(ids, {j})
<1>1. ids \in Order /\ IsInjective(ids) /\ j \in Journey
  BY OrderRange, Zenon DEF Ranked
<1>2. /\ rest \in Order /\ IsInjective(rest) /\ Range(rest) = Range(ids) \ {j}
      /\ Len(rest) = Len(ids) - Cardinality(Range(ids) \cap {j})
      /\ \A a, b : Before(rest, a, b) <=> Before(ids, a, b) /\ a \notin {j} /\ b \notin {j}
  BY <1>1, Removed, Zenon
<1>3. Cardinality(Range(ids) \cap {j}) = 1
  <2>1. Range(ids) \cap {j} = {j}
    BY Zenon
  <2> QED
    BY <2>1, FS_Singleton, Zenon
<1> HIDE DEF rest
<1>4. Touch(ids, j) = Append(rest, j)
  BY Zenon DEF Touch, rest
<1>5. /\ Append(rest, j) \in Order /\ IsInjective(Append(rest, j))
      /\ Range(Append(rest, j)) = Range(rest) \cup {j}
      /\ Len(Append(rest, j)) = Len(rest) + 1
      /\ \A a, b : Before(Append(rest, j), a, b) <=> Before(rest, a, b) \/ (a \in Range(rest) /\ b = j)
  BY <1>1, <1>2, Appended, Zenon
<1>6. Len(Append(rest, j)) = Len(ids)
  <2>1. Len(ids) \in Nat
    BY <1>1, OrderRange, Zenon
  <2> QED
    BY <1>2, <1>3, <1>5, <2>1
<1>7. ASSUME NEW a, NEW b, Before(Append(rest, j), a, b) PROVE Before(Used(order, j), a, b)
  <2>1. CASE Before(rest, a, b)
    BY <1>1, <1>2, <2>1, RankedOrder, UsedOrder, Zenon
  <2>2. CASE a \in Range(rest) /\ b = j
    BY <1>1, <1>2, <2>2, OrderRange, UsedOrder, Zenon
  <2> QED
    BY <1>5, <1>7, <2>1, <2>2
<1>8. Range(Append(rest, j)) = Range(ids)
  BY <1>2, <1>5, PutBack, Zenon
<1>9. Ranked(Append(rest, j), Used(order, j))
  BY <1>5, <1>7, RankedOrder
<1> QED
  BY <1>4, <1>6, <1>8, <1>9, Zenon

\* The victims are all there are, or as many as there are too many.
LEMMA VictimsCount ==
  ASSUME NEW n \in Nat, NEW max \in Nat, NEW l \in Nat
  PROVE  LET excess == IF n > max THEN n - max ELSE 0
             c == IF excess < l THEN excess ELSE l
         IN c \in 0..l /\ (c = l \/ c >= n - max)
OBVIOUS

\* The first elements of an order.
LEMMA FirstElements ==
  ASSUME NEW ids \in Order, NEW c \in 0..Len(ids)
  PROVE  /\ SubSeq(ids, 1, c) \in Order /\ Len(SubSeq(ids, 1, c)) = c
         /\ DOMAIN SubSeq(ids, 1, c) = 1..c
         /\ \A i \in 1..c : SubSeq(ids, 1, c)[i] = ids[i]
BY DEF Order

\* Of the positions of an order the first come before the others.
LEMMA FirstPositions ==
  ASSUME NEW l \in Nat, NEW c \in 0..l
  PROVE  /\ c \in Nat /\ (\A i \in 1..c : i \in 1..l /\ i \in Nat)
         /\ \A i \in 1..c, k \in 1..l : k \notin 1..c => i < k
OBVIOUS

\* The victims are unpinned, older than the unpinned ones that stay, and as many as
\* there are too many, unless too many are pinned.
LEMMA VictimsOldest ==
  ASSUME NEW ids \in Order, IsInjective(ids), NEW max \in Nat, NEW pins
  PROVE  LET gone == victims(ids, max, pins)
         IN /\ gone \subseteq Range(ids) \ pins
            /\ IsFiniteSet(gone) /\ Cardinality(gone) \in Nat
            /\ \/ Cardinality(gone) >= Len(ids) - max
               \/ gone = Range(ids) \ pins
            /\ \A a \in gone, b \in (Range(ids) \ pins) \ gone : Before(ids, a, b)
<1> DEFINE free == Unpinned(ids, pins)
           l == Len(free)
           excess == IF Len(ids) > max THEN Len(ids) - max ELSE 0
           c == IF excess < l THEN excess ELSE l
           first == SubSeq(free, 1, c)
<1>1. /\ free \in Order /\ IsInjective(free) /\ Range(free) = Range(ids) \ pins
      /\ \A a, b : Before(free, a, b) <=> Before(ids, a, b) /\ a \notin pins /\ b \notin pins
  BY Removed, Zenon DEF Unpinned
<1> HIDE DEF free
<1>2. l \in Nat /\ Len(ids) \in Nat /\ DOMAIN free = 1..l
  BY <1>1, OrderRange, Zenon
<1>3. victims(ids, max, pins) = Range(first)
  BY Zenon DEF victims, free
<1>4. c \in 0..l /\ (c = l \/ c >= Len(ids) - max)
  <2> HIDE DEF l
  <2> QED
    BY <1>2, VictimsCount, Zenon
<1> HIDE DEF c, l
<1>5. /\ first \in Order /\ Len(first) = c /\ DOMAIN first = 1..c
      /\ \A i \in 1..c : first[i] = free[i]
  BY <1>1, <1>4, FirstElements, Zenon DEF l
<1> HIDE DEF first
<1>6. /\ c \in Nat /\ (\A i \in 1..c : i \in 1..l /\ i \in Nat)
      /\ \A i \in 1..c, k \in 1..l : k \notin 1..c => i < k
  BY <1>2, <1>4, FirstPositions, Zenon
<1>7. IsInjective(first)
  BY <1>1, <1>2, <1>5, <1>6, Zenon DEF IsInjective
<1>8. IsFiniteSet(Range(first)) /\ Cardinality(Range(first)) = c
  BY <1>5, <1>7, Counted, Zenon
<1>9. \A v \in Range(first) : \E i \in 1..c : v = free[i]
  BY <1>5, Zenon DEF Range
<1>10. Range(first) \subseteq Range(free)
  BY <1>2, <1>6, <1>9, Zenon DEF Range
<1>11. ASSUME NEW a \in Range(first), NEW b \in Range(free) \ Range(first)
       PROVE  Before(ids, a, b)
  <2>1. PICK i \in 1..c : a = free[i]
    BY <1>9, Zenon
  <2>2. PICK k \in 1..l : b = free[k]
    BY <1>2, Zenon DEF Range
  <2>3. k \notin 1..c
    BY <1>5, <2>2, Zenon DEF Range
  <2>4. Before(free, a, b)
    BY <1>2, <1>6, <2>1, <2>2, <2>3, Zenon DEF Before
  <2> QED
    BY <1>1, <2>4, Zenon
<1>12. CASE c = l
  <2>1. Range(first) = Range(free)
    BY <1>2, <1>5, <1>10, <1>12, Zenon DEF Range
  <2> QED
    BY <1>1, <1>3, <1>6, <1>8, <1>10, <1>11, <2>1, Zenon
<1>13. CASE c >= Len(ids) - max
  BY <1>1, <1>3, <1>6, <1>8, <1>10, <1>11, <1>13, Zenon
<1> QED
  BY <1>4, <1>12, <1>13, Zenon

\* What is left of a set in the order of last use without the members of V.
LEMMA RemovedRanked ==
  ASSUME NEW ids, NEW order, Ranked(ids, order), NEW V
  PROVE  Ranked(RemoveAll(ids, V), order) /\ Range(RemoveAll(ids, V)) = Range(ids) \ V
<1>1. ids \in Order /\ IsInjective(ids) /\ \A a, b : Before(ids, a, b) => Before(order, a, b)
  BY RankedOrder
<1>2. /\ RemoveAll(ids, V) \in Order /\ IsInjective(RemoveAll(ids, V))
      /\ Range(RemoveAll(ids, V)) = Range(ids) \ V
      /\ \A a, b : Before(RemoveAll(ids, V), a, b) <=> Before(ids, a, b) /\ a \notin V /\ b \notin V
  BY <1>1, Removed, Zenon
<1>3. \A a, b : Before(RemoveAll(ids, V), a, b) => Before(order, a, b)
  BY <1>1, <1>2, Zenon
<1> QED
  BY <1>2, <1>3, RankedOrder, Zenon

\* A set with at most one member has at most one position.
LEMMA AtMostOne ==
  ASSUME NEW ids \in Order, IsInjective(ids), NEW t, Range(ids) \subseteq {t}
  PROVE  Len(ids) <= 1
<1>1. Cardinality(Range(ids)) = Len(ids) /\ Len(ids) \in Nat
  BY Counted, OrderRange, Zenon
<1>2. IsFiniteSet({t}) /\ Cardinality({t}) = 1
  BY FS_Singleton, Zenon
<1>3. Cardinality(Range(ids)) <= Cardinality({t})
  BY <1>2, FS_Subset, Zenon
<1> QED
  BY <1>1, <1>2, <1>3, Zenon

\* Fit leaves at most limit journeys when at most one is pinned, and drops none that was
\* used after an unpinned one that stays.
LEMMA FitWithin ==
  ASSUME NEW ids, NEW order, Ranked(ids, order), NEW limit \in Nat \ {0},
         NEW pins, NEW t, pins \subseteq {t}
  PROVE  LET kept == Fit(ids, limit, pins)
         IN /\ Ranked(kept, order) /\ Range(kept) \subseteq Range(ids) /\ Len(kept) <= limit
            /\ \A a \in Range(ids) \ Range(kept), b \in Range(kept) \ {t} : Before(order, a, b)
<1> DEFINE gone == victims(ids, limit, pins)
           kept == Fit(ids, limit, pins)
<1>1. ids \in Order /\ IsInjective(ids) /\ \A a, b : Before(ids, a, b) => Before(order, a, b)
  BY RankedOrder
<1>2. /\ gone \subseteq Range(ids) \ pins
      /\ IsFiniteSet(gone) /\ Cardinality(gone) \in Nat
      /\ Cardinality(gone) >= Len(ids) - limit \/ gone = Range(ids) \ pins
      /\ \A a \in gone, b \in (Range(ids) \ pins) \ gone : Before(ids, a, b)
  BY <1>1, VictimsOldest, Zenon
<1> HIDE DEF gone
<1>3. kept = RemoveAll(ids, gone)
  BY Zenon DEF Fit, gone
<1> HIDE DEF kept
<1>4. Ranked(kept, order) /\ Range(kept) = Range(ids) \ gone
  BY <1>3, RemovedRanked, Zenon
<1>5. kept \in Order /\ IsInjective(kept) /\ Len(kept) = Len(ids) - Cardinality(gone)
  <2>1. Range(ids) \cap gone = gone
    BY <1>2, Zenon
  <2>2. Len(kept) = Len(ids) - Cardinality(Range(ids) \cap gone)
    BY <1>1, <1>3, Removed, Zenon
  <2> QED
    BY <1>4, <2>1, <2>2, Zenon DEF Ranked
<1>6. Len(kept) <= limit
  <2>1. Len(ids) \in Nat /\ Len(kept) \in Nat
    BY <1>1, <1>5, OrderRange, Zenon
  <2>2. CASE Cardinality(gone) >= Len(ids) - limit
    BY <1>2, <1>5, <2>1, <2>2
  <2>3. CASE gone = Range(ids) \ pins
    <3>1. Range(kept) \subseteq {t}
      BY <1>4, <2>3, Zenon
    <3>2. Len(kept) <= 1
      BY <1>5, <3>1, AtMostOne, Zenon
    <3> QED
      BY <2>1, <3>2
  <2> QED
    BY <1>2, <2>2, <2>3, Zenon
<1>7. ASSUME NEW a \in Range(ids) \ Range(kept), NEW b \in Range(kept) \ {t}
      PROVE  Before(order, a, b)
  <2>1. a \in gone /\ b \in (Range(ids) \ pins) \ gone
    BY <1>4, Zenon
  <2> QED
    BY <1>1, <1>2, <2>1, Zenon
<1> QED
  BY <1>4, <1>6, <1>7, Zenon DEF kept

\* Activate makes j the last one within the limit, and drops none that was used after
\* one that stays, when no other journey is pinned.
LEMMA ActivateWithin ==
  ASSUME NEW ids, NEW order, Complete(order), Ranked(ids, order),
         NEW limit \in Nat \ {0}, Len(ids) <= limit, NEW j \in Journey,
         NEW pins, pins \subseteq {j}, ~Refused(ids, j, limit, pins)
  PROVE  LET next == Activate(ids, j, limit, pins)
         IN /\ Ranked(next, Used(order, j)) /\ Len(next) <= limit
            /\ j \in Range(next) /\ Range(next) \subseteq Range(ids) \cup {j}
            /\ \A a \in Range(ids) \ Range(next), b \in Range(next) :
                 Before(Used(order, j), a, b)
<1>1. CASE j \in Range(ids)
  <2>1. Activate(ids, j, limit, pins) = Touch(ids, j)
    BY <1>1, Zenon DEF Activate
  <2>2. /\ Ranked(Touch(ids, j), Used(order, j))
        /\ Range(Touch(ids, j)) = Range(ids) /\ Len(Touch(ids, j)) = Len(ids)
    BY <1>1, TouchRanked, Zenon
  <2> QED
    BY <1>1, <2>1, <2>2, Zenon
<1>2. CASE j \notin Range(ids)
  <2> DEFINE max == limit - 1
             gone == victims(ids, max, pins)
             rest == RemoveAll(ids, gone)
  <2>1. ids \in Order /\ IsInjective(ids) /\ \A a, b : Before(ids, a, b) => Before(order, a, b)
    BY RankedOrder
  <2>2. max \in Nat
    OBVIOUS
  <2> HIDE DEF max
  <2>3. /\ gone \subseteq Range(ids) \ pins
        /\ IsFiniteSet(gone) /\ Cardinality(gone) \in Nat
        /\ \A a \in gone, b \in (Range(ids) \ pins) \ gone : Before(ids, a, b)
    BY <2>1, <2>2, VictimsOldest, Zenon
  <2>4. ~(Len(ids) - Cardinality(gone) >= limit)
    BY <1>2, Zenon DEF Refused, max
  <2>5. Activate(ids, j, limit, pins) = Append(rest, j)
    BY <1>2, Zenon DEF Activate, max
  <2> HIDE DEF gone
  <2>6. /\ rest \in Order /\ IsInjective(rest) /\ Range(rest) = Range(ids) \ gone
        /\ Len(rest) = Len(ids) - Cardinality(Range(ids) \cap gone)
        /\ \A a, b : Before(rest, a, b) <=> Before(ids, a, b) /\ a \notin gone /\ b \notin gone
    BY <2>1, Removed, Zenon
  <2> HIDE DEF rest
  <2> DEFINE next == Append(rest, j)
  <2>7. /\ next \in Order /\ Len(next) = Len(rest) + 1 /\ Range(next) = Range(rest) \cup {j}
        /\ j \notin Range(rest) => IsInjective(next)
        /\ \A a, b : Before(next, a, b) <=> Before(rest, a, b) \/ (a \in Range(rest) /\ b = j)
    BY <2>6, Appended, Zenon
  <2> HIDE DEF next
  <2>8. j \notin Range(rest) /\ Range(ids) \cap gone = gone /\ Range(rest) \subseteq Journey
    BY <1>2, <2>1, <2>3, <2>6, OrderRange, Zenon
  <2>9. Len(next) <= limit
    <3>1. Len(ids) \in Nat
      BY <2>1, OrderRange, Zenon
    <3>2. Len(next) = Len(ids) - Cardinality(gone) + 1
      BY <2>6, <2>7, <2>8, Zenon
    <3> QED
      BY <2>3, <2>4, <3>1, <3>2
  <2>10. ASSUME NEW a, NEW b, Before(next, a, b) PROVE Before(Used(order, j), a, b)
    <3>1. CASE Before(rest, a, b)
      <4>1. a \in Range(rest) /\ b \in Range(rest)
        BY <3>1, Zenon DEF Before, Range
      <4>2. a # j /\ b # j
        BY <2>8, <4>1, Zenon
      <4> QED
        BY <2>1, <2>6, <3>1, <4>2, UsedOrder, Zenon
    <3>2. CASE a \in Range(rest) /\ b = j
      <4>1. a \in Journey \ {j}
        BY <2>8, <3>2, Zenon
      <4> QED
        BY <3>2, <4>1, UsedOrder, Zenon
    <3> QED
      BY <2>7, <2>10, <3>1, <3>2
  <2>11. Ranked(next, Used(order, j))
    BY <2>7, <2>8, <2>10, RankedOrder
  <2>12. ASSUME NEW a \in Range(ids) \ Range(next), NEW b \in Range(next)
         PROVE  Before(Used(order, j), a, b)
    <3>1. a \in gone /\ a # j /\ a \in Journey
      BY <2>1, <2>6, <2>7, OrderRange, Zenon
    <3>2. CASE b = j
      BY <3>1, <3>2, UsedOrder, Zenon
    <3>3. CASE b # j
      <4>1. b \in (Range(ids) \ pins) \ gone
        BY <2>6, <2>7, <3>3, Zenon
      <4>2. Before(order, a, b)
        BY <2>1, <2>3, <3>1, <4>1, Zenon
      <4> QED
        BY <3>1, <3>3, <4>2, UsedOrder, Zenon
    <3> QED
      BY <3>2, <3>3, Zenon
  <2>13. j \in Range(next) /\ Range(next) \subseteq Range(ids) \cup {j}
    BY <2>6, <2>7, Zenon
  <2> QED
    BY <2>5, <2>9, <2>11, <2>12, <2>13, Zenon DEF next
<1> QED
  BY <1>1, <1>2, Zenon

\* The owner of an alias is active (owningJourney).
LEMMA OwnerActive ==
  ASSUME NEW ids \in Order, NEW a, Owned(ids, a)
  PROVE  owningJourney(ids, a) \in Range(ids)
<1> DEFINE T == {j \in Journey : a \in Offers[j]}
           offering == Keep(ids, T)
<1>1. PICK j \in Range(ids) : a \in Offers[j]
  BY Zenon DEF Owned
<1>2. j \in T
  BY <1>1, OrderRange, Zenon
<1> HIDE DEF T
<1>3. offering \in Order /\ Range(offering) = Range(ids) \cap T
  BY Kept, Zenon
<1> HIDE DEF offering
<1>4. PICK i \in DOMAIN offering : offering[i] = j
  BY <1>2, <1>3, Zenon DEF Range
<1>5. Len(offering) \in DOMAIN offering
  <2>1. Len(offering) \in Nat /\ DOMAIN offering = 1..Len(offering)
    BY <1>3, OrderRange, Zenon
  <2> QED
    BY <1>4, <2>1
<1>6. offering[Len(offering)] \in Range(ids)
  BY <1>3, <1>5, Zenon DEF Range
<1> QED
  BY <1>6, Zenon DEF owningJourney, offering, T

\* converse, before the target: what stays of the stored set is available, within the
\* limit and no older than what went, but for the run's target.
LEMMA KeptWithin ==
  ASSUME NEW ids, NEW order, Ranked(ids, order), NEW limit \in Nat \ {0},
         NEW available \in SUBSET Journey, NEW pins, NEW t, pins \subseteq {t}
  PROVE  LET kept == Fit(RemoveAll(ids, Journey \ available), limit, pins)
         IN /\ Ranked(kept, order) /\ Len(kept) <= limit
            /\ Range(kept) \subseteq available
            /\ \A a \in (Range(ids) \ Range(kept)) \cap available, b \in Range(kept) \ {t} :
                 Before(order, a, b)
<1> DEFINE base == RemoveAll(ids, Journey \ available)
           kept == Fit(base, limit, pins)
<1>1. Ranked(base, order) /\ Range(base) = Range(ids) \ (Journey \ available)
  BY RemovedRanked, Zenon
<1> HIDE DEF base
<1>2. /\ Ranked(kept, order) /\ Range(kept) \subseteq Range(base) /\ Len(kept) <= limit
      /\ \A a \in Range(base) \ Range(kept), b \in Range(kept) \ {t} : Before(order, a, b)
  BY <1>1, FitWithin, Zenon
<1> HIDE DEF kept
<1>3. Range(ids) \subseteq Journey
  BY OrderRange, Zenon DEF Ranked
<1>4. Range(base) = Range(ids) \cap available
  BY <1>1, <1>3, Zenon
<1>5. Range(kept) \subseteq available
  BY <1>2, <1>4, Zenon
<1>6. \A a \in (Range(ids) \ Range(kept)) \cap available, b \in Range(kept) \ {t} :
        Before(order, a, b)
  BY <1>2, <1>4, Zenon
<1> QED
  BY <1>2, <1>5, <1>6, Zenon DEF kept, base

\* converse, with its target: the set is within the limit, has the target, and what of the
\* available journeys went was used before all that stay.
LEMMA PreparedWithin ==
  ASSUME NEW ids, NEW order, Complete(order), Ranked(ids, order), NEW limit \in Nat \ {0},
         NEW available \in SUBSET Journey, NEW t \in available, NEW pins, pins \subseteq {t},
         ~Refused(Fit(RemoveAll(ids, Journey \ available), limit, pins), t, limit, pins)
  PROVE  LET active == Activate(Fit(RemoveAll(ids, Journey \ available), limit, pins), t, limit, pins)
         IN /\ Ranked(active, Used(order, t)) /\ Len(active) <= limit /\ t \in Range(active)
            /\ \A a \in (Range(ids) \ Range(active)) \cap available, b \in Range(active) :
                 Before(Used(order, t), a, b)
<1> DEFINE kept == Fit(RemoveAll(ids, Journey \ available), limit, pins)
           active == Activate(kept, t, limit, pins)
<1>1. /\ Ranked(kept, order) /\ Len(kept) <= limit
      /\ \A a \in (Range(ids) \ Range(kept)) \cap available, b \in Range(kept) \ {t} :
           Before(order, a, b)
  BY KeptWithin, Zenon
<1>2. ~Refused(kept, t, limit, pins)
  BY Zenon
<1> HIDE DEF kept
<1>3. t \in Journey
  BY Zenon
<1>4. /\ Ranked(active, Used(order, t)) /\ Len(active) <= limit
      /\ t \in Range(active) /\ Range(active) \subseteq Range(kept) \cup {t}
      /\ \A a \in Range(kept) \ Range(active), b \in Range(active) : Before(Used(order, t), a, b)
  BY <1>1, <1>2, <1>3, ActivateWithin, Zenon
<1> HIDE DEF active
<1>5. ASSUME NEW a \in (Range(ids) \ Range(active)) \cap available, NEW b \in Range(active)
      PROVE  Before(Used(order, t), a, b)
  <2>1. a # t /\ a \in Journey
    BY <1>4, Zenon
  <2>2. CASE a \in Range(kept)
    BY <1>4, <2>2, Zenon
  <2>3. CASE b = t
    BY <1>3, <2>1, <2>3, UsedOrder, Zenon
  <2>4. CASE a \notin Range(kept) /\ b # t
    <3>1. Before(order, a, b)
      BY <1>1, <1>4, <2>4, Zenon
    <3> QED
      BY <1>3, <2>1, <2>4, <3>1, UsedOrder, Zenon
  <2> QED
    BY <2>2, <2>3, <2>4, Zenon
<1> QED
  BY <1>4, <1>5, Zenon DEF active, kept

----------------------------------------------------------------------------
(* The order in memory and the pins, whatever the operators on orders do.    *)

USE DEF Fields, Idle

\* What a step that moves the live run on without writing keeps of the order.
SInv == Shape /\ SavedOrder

\* The run starts with nothing in memory.
LEMMA InitSInv == AInit => SInv
<1>1. Idle = [f \in Fields |-> Idle[f]] /\ Idle.pc = "idle"
  BY Zenon
<1> QED
  BY <1>1, Zenon DEF AInit, SInv, Shape, SavedOrder, Harness, Settled

\* Before runHarness, and when the run ends, nothing is claimed of the order.
LEMMA OutsideSInv ==
  ASSUME SInv,
         \/ \E target \in MaybeJourney : Message(target)
         \/ \E approve \in BOOLEAN : Reply(approve)
         \/ Prepare \/ ReturnFailed \/ Wait \/ Finish \/ Fail \/ Reap
  PROVE  SInv'
<1> USE DEF SInv, Shape, SavedOrder, Harness, Settled
<1>1. CASE \E target \in MaybeJourney : Message(target)
  BY <1>1, ZenonT(30) DEF Message
<1>2. CASE \E approve \in BOOLEAN : Reply(approve)
  BY <1>2, ZenonT(30) DEF Reply
<1>3. CASE Prepare
  <2>1. PICK limit, available : PrepareFor(limit, available)
    BY <1>3, Zenon DEF Prepare
  <2>2. PICK active, recent :
          conv' = [[conv EXCEPT !.pc = "write", !.limit = limit, !.available = available]
                     EXCEPT !.active = active, !.recent = recent]
    BY <2>1, Zenon DEF PrepareFor
  <2> QED
    BY <2>2, Zenon
<1>4. CASE ReturnFailed \/ Wait \/ Fail \/ Reap
  BY <1>4 DEF ReturnFailed, Wait, Fail, Reap
<1>5. CASE Finish
  <2>1. CASE conv' = Idle
    BY <2>1, Zenon
  <2>2. CASE conv' # Idle
    BY <1>5, <2>2, ZenonT(30) DEF Finish
  <2> QED
    BY <2>1, <2>2, Zenon
<1> QED
  BY <1>1, <1>2, <1>3, <1>4, <1>5, Zenon

\* Steps of runHarness that write nothing: one that changes the order in memory leads to a
\* place where it is not relied on.
LEMMA HarnessSInv ==
  ASSUME SInv,
         \/ ApprovedVanished \/ ApprovedChanged \/ CallApproved
         \/ Respond \/ CallAlias \/ Return \/ RoundEnds \/ Steered
         \/ \E j \in Journey : ReadResource(j) \/ ActivateJourney(j)
  PROVE  SInv'
<1> USE DEF SInv, Shape, SavedOrder, Harness, Settled
<1>1. CASE ApprovedVanished \/ ApprovedChanged \/ CallApproved
  BY <1>1, Zenon DEF ApprovedVanished, ApprovedChanged, CallApproved
<1>2. CASE Respond
  BY <1>2, ZenonT(30) DEF Respond
<1>3. CASE CallAlias
  BY <1>3, Zenon DEF CallAlias
<1>4. CASE Return
  BY <1>4, Zenon DEF Return
<1>5. CASE RoundEnds \/ Steered
  BY <1>5, ZenonT(30) DEF RoundEnds, Steered
<1>6. CASE \E j \in Journey : ReadResource(j)
  BY <1>6, Zenon DEF ReadResource, Executes
<1>7. CASE \E j \in Journey : ActivateJourney(j)
  BY <1>7, ZenonT(30) DEF ActivateJourney
<1> QED
  BY <1>1, <1>2, <1>3, <1>4, <1>5, <1>6, <1>7, Zenon

\* Steps that write: what is written is what is in memory.
LEMMA WriteSInv ==
  ASSUME SInv, Prepared \/ Activated \/ Flush \/ Ask
  PROVE  SInv'
<1> USE DEF SInv, Shape, SavedOrder, Harness, Settled, Save, SetActiveJourneys
<1>1. CASE Prepared
  BY <1>1, Zenon DEF Prepared
<1>2. CASE Activated
  BY <1>2, Zenon DEF Activated
<1>3. ASSUME NEW pc \in {"model", "ask"}, NEW j, conv.pc \in Harness, Flushed(pc, j) PROVE SInv'
  BY <1>3, ZenonT(30) DEF Flushed
<1> QED
  BY <1>1, <1>2, <1>3, Zenon DEF Flush, Ask

\* Every step keeps it.
LEMMA SInvariant == ASpec => []SInv
<1>1. SInv /\ [ANext]_avars => SInv'
  <2> SUFFICES ASSUME SInv, [ANext]_avars PROVE SInv'
    BY Zenon
  <2>1. CASE UNCHANGED avars
    BY <2>1, Zenon DEF avars, SInv, Shape, SavedOrder
  <2>2. CASE Expire
    BY <2>2, Zenon DEF Expire, SInv, Shape, SavedOrder
  <2>3. CASE LateWrite
    BY <2>3, Zenon DEF LateWrite, SetActiveJourneys, SInv, Shape, SavedOrder
  <2> QED
    BY <2>1, <2>2, <2>3, OutsideSInv, HarnessSInv, WriteSInv, Zenon DEF ANext
<1> QED
  BY <1>1, InitSInv, PTL DEF ASpec

\* What the conversation's owner has in memory is what is stored, wherever a run asks the
\* model, activates, waits or finishes (conversation.flush, activate).
THEOREM MemoryIsStored == ASpec => []SavedOrder
<1>1. SInv => SavedOrder
  BY Zenon DEF SInv
<1> QED
  BY <1>1, SInvariant, PTL

PInv == Shape /\ OnePin

\* Nothing is pinned in a new conversation.
LEMMA InitPInv == AInit => PInv
<1>1. Idle = [f \in Fields |-> Idle[f]] /\ Idle.pc = "idle"
  BY Zenon
<1> QED
  BY <1>1, Zenon DEF AInit, PInv, Shape, OnePin

\* A run starts, converse prepares it, and what pins a journey is its target's approval.
LEMMA StartPInv ==
  ASSUME PInv,
         \/ \E target \in MaybeJourney : Message(target)
         \/ \E approve \in BOOLEAN : Reply(approve)
         \/ Expire \/ Prepare \/ Prepared
  PROVE  PInv'
<1> USE DEF PInv, Shape, OnePin, Preparing
<1>1. CASE \E target \in MaybeJourney : Message(target)
  BY <1>1, Zenon DEF Message
<1>2. CASE \E approve \in BOOLEAN : Reply(approve)
  BY <1>2, Zenon DEF Reply
<1>3. CASE Expire
  BY <1>3, Zenon DEF Expire
<1>4. CASE Prepare
  <2>1. PICK limit, available : PrepareFor(limit, available)
    BY <1>4, Zenon DEF Prepare
  <2>2. PICK active, recent :
          conv' = [[conv EXCEPT !.pc = "write", !.limit = limit, !.available = available]
                     EXCEPT !.active = active, !.recent = recent]
    BY <2>1, Zenon DEF PrepareFor
  <2>3. conv.pc = "read" /\ UNCHANGED <<wait, decided, dispatching, unknown>>
    BY <1>4, Zenon DEF Prepare
  <2> QED
    BY <2>2, <2>3, Zenon
<1>5. CASE Prepared
  BY <1>5, Zenon DEF Prepared
<1> QED
  BY <1>1, <1>2, <1>3, <1>4, <1>5, ZenonT(30)

\* The steps of runHarness: an approval is used or superseded first, and a call that was
\* dispatched returns before anything else is done.
LEMMA HarnessPInv ==
  ASSUME PInv,
         \/ ApprovedVanished \/ ApprovedChanged \/ CallApproved
         \/ Respond \/ CallAlias \/ Return \/ RoundEnds \/ Steered
         \/ \E j \in Journey : ReadResource(j) \/ ActivateJourney(j)
         \/ Activated \/ Flush \/ Ask
  PROVE  PInv'
<1> USE DEF PInv, Shape, OnePin, Preparing
<1>1. CASE ApprovedVanished \/ ApprovedChanged \/ CallApproved
  BY <1>1, Zenon DEF ApprovedVanished, ApprovedChanged, CallApproved
<1>2. CASE Respond
  BY <1>2, Zenon DEF Respond
<1>3. CASE CallAlias
  BY <1>3, Zenon DEF CallAlias
<1>4. CASE Return
  BY <1>4, Zenon DEF Return
<1>5. CASE RoundEnds \/ Steered
  BY <1>5, Zenon DEF RoundEnds, Steered
<1>6. CASE \E j \in Journey : ReadResource(j) \/ ActivateJourney(j)
  BY <1>6, Zenon DEF ReadResource, Executes, ActivateJourney
<1>7. CASE Activated
  BY <1>7, Zenon DEF Activated
<1>8. ASSUME NEW pc \in {"model", "ask"}, NEW j, conv.pc \in {"flush", "calls"}, Flushed(pc, j)
      PROVE  PInv'
  BY <1>8, ZenonT(30) DEF Flushed
<1> HIDE DEF PInv, Shape, OnePin, Preparing
<1>9. CASE Flush
  BY <1>8, <1>9 DEF Flush
<1>10. CASE Ask
  <2>1. conv.pc = "calls" /\ \E j : Flushed("ask", j)
    BY <1>10, ZenonT(30) DEF Ask
  <2> QED
    BY <1>8, <2>1
<1> QED
  BY <1>1, <1>2, <1>3, <1>4, <1>5, <1>6, <1>7, <1>9, <1>10, Zenon

\* A run ends: what it had pinned is released, or of unknown outcome with no wait beside it.
LEMMA EndPInv ==
  ASSUME PInv, ReturnFailed \/ Wait \/ Finish \/ Fail \/ Reap \/ LateWrite
  PROVE  PInv'
<1> USE DEF PInv, Shape, OnePin, Preparing, RunOver
<1>1. CASE ReturnFailed \/ Fail \/ Reap
  BY <1>1 DEF ReturnFailed, Fail, Reap
<1>2. CASE Wait
  BY <1>2, Zenon DEF Wait
<1>3. CASE Finish
  <2>1. CASE conv' = Idle
    BY <1>3, <2>1, Zenon DEF Finish
  <2>2. CASE conv' # Idle
    BY <1>3, <2>2, ZenonT(30) DEF Finish
  <2> QED
    BY <2>1, <2>2, Zenon
<1>4. CASE LateWrite
  BY <1>4, Zenon DEF LateWrite
<1> QED
  BY <1>1, <1>2, <1>3, <1>4, Zenon

\* Every step keeps it.
LEMMA PInvariant == ASpec => []PInv
<1>1. PInv /\ [ANext]_avars => PInv'
  <2> SUFFICES ASSUME PInv, [ANext]_avars PROVE PInv'
    BY Zenon
  <2>1. CASE UNCHANGED avars
    BY <2>1, Zenon DEF avars, PInv, Shape, OnePin
  <2> QED
    BY <2>1, StartPInv, HarnessPInv, EndPInv, Zenon DEF ANext
<1> QED
  BY <1>1, InitPInv, PTL DEF ASpec

\* No activation finds its limit taken by pinned journeys (converse, activate): nothing is
\* pinned while the model activates, and only its target when a run starts.
THEOREM ActivationsSucceed == ASpec => []NoneRefused
<1>1. PInv => NoneRefused
  BY DEF PInv, OnePin, NoneRefused, pinned, NoWait, Preparing
<1> QED
  BY <1>1, PInvariant, PTL

----------------------------------------------------------------------------
(* The limit, the order of eviction and what is pinned.                      *)

HIDE DEF Fields, Idle

\* What AInv adds to the invariants above.
More == Kinds /\ InOrder /\ OpenActive /\ PinnedActive

\* An idle run.
LEMMA IdleFields ==
  /\ Idle.pc = "idle" /\ Idle.approved = None /\ Idle.target = None /\ Idle.asks = None
  /\ Idle.available = {} /\ Idle.limit = 0 /\ Idle.continuation = FALSE
BY Zenon DEF Idle

\* In the beginning any order of the journeys is as good as another.
LEMMA InitMore == AInit => More
<1> SUFFICES ASSUME AInit PROVE More
  BY Zenon
<1> DEFINE c == Cardinality(Journey)
           orders == {order \in [1..c -> Journey] : IsInjective(order)}
<1>1. IsFiniteSet(Journey) /\ c \in Nat /\ ExistsBijection(1..c, Journey)
  BY JourneyAssumption, FS_CardinalityType, Zenon
<1>2. recency \in [1..c -> Journey] /\ IsInjective(recency)
  <2>1. \E order \in [1..c -> Journey] : IsInjective(order)
    BY <1>1, Zenon DEF ExistsBijection, Bijection, Injection
  <2> QED
    BY <2>1, Zenon DEF AInit
<1> HIDE DEF c
<1>3. IsFiniteSet(1..c) /\ Cardinality(1..c) = c
  BY <1>1, FS_Interval
<1>4. recency \in Surjection(1..c, Journey)
  <2>1. recency \in Injection(1..c, Journey)
    BY <1>2, Zenon DEF Injection
  <2> QED
    BY <1>1, <1>3, <2>1, FS_Injection, Zenon DEF c
<1>5. Complete(recency)
  <2>1. recency \in Order
    BY <1>1, <1>2, FunctionIsSequence, Zenon DEF Order
  <2>2. Range(recency) = Journey
    BY <1>2, <1>4, Zenon DEF Surjection, Range
  <2> QED
    BY <1>2, <2>1, <2>2, Zenon DEF Complete
<1>6. Ranked(stored, recency)
  <2>1. stored = <<>> /\ <<>> \in Order /\ DOMAIN <<>> = {}
    BY DEF AInit, Order
  <2> QED
    BY <2>1, Zenon DEF Ranked, IsInjective
<1>7. conv = Idle /\ wait.kind = "none" /\ wait.journey = None /\ decided = None
  BY Zenon DEF AInit, NoWait
<1>8. Kinds
  BY <1>7, IdleFields DEF Kinds, MaybeJourney
<1>9. InOrder
  BY <1>5, <1>6, <1>7, IdleFields DEF InOrder, Harness, Settled
<1>10. OpenActive /\ PinnedActive
  BY <1>7, IdleFields DEF OpenActive, PinnedActive, Harness, Settled
<1> QED
  BY <1>8, <1>9, <1>10, Zenon DEF More

\* Where no run is in converse or runHarness nothing is claimed but of what is stored.
LEMMA OutsideMore ==
  ASSUME AInv, conv'.pc \in {"idle", "read"}, UNCHANGED <<stored, recency>>, Kinds',
         conv'.pc = "read" => decided' = conv'.approved,
         conv'.pc = "idle" => conv'.approved = None,
         wait'.kind = "approval" => wait'.journey \in Range(stored)
  PROVE  More'
<1>1. InOrder'
  BY DEF AInv, InOrder, Harness, Settled
<1>2. OpenActive'
  BY DEF OpenActive
<1>3. PinnedActive'
  BY DEF PinnedActive, Harness, Settled
<1> QED
  BY <1>1, <1>2, <1>3, Zenon DEF More

\* A message or a reply starts a run, a wait expires, and a late write is refused.
LEMMA StartMore ==
  ASSUME AInv,
         \/ \E target \in MaybeJourney : Message(target)
         \/ \E approve \in BOOLEAN : Reply(approve)
  PROVE  More'
<1>1. CASE \E target \in MaybeJourney : Message(target)
  <2>1. PICK target \in MaybeJourney : Message(target)
    BY <1>1, Zenon
  <2>2. /\ conv'.pc = "read" /\ conv'.target = target /\ conv'.approved = None
        /\ conv'.asks = None /\ conv'.available = {} /\ conv'.limit = 0
    BY <2>1, Zenon DEF Message, Idle
  <2>3. UNCHANGED <<stored, recency, wait, decided>> /\ conv.pc = "idle"
    BY <2>1, Zenon DEF Message
  <2>4. decided = None /\ Kinds /\ PinnedActive
    BY <2>3, Zenon DEF AInv, OnePin
  <2>5. Kinds'
    BY <2>2, <2>3, <2>4 DEF Kinds, MaybeJourney
  <2> QED
    BY <2>2, <2>3, <2>4, <2>5, OutsideMore DEF PinnedActive
<1>2. CASE \E approve \in BOOLEAN : Reply(approve)
  <2>1. PICK approve \in BOOLEAN : Reply(approve)
    BY <1>2, Zenon
  <2>2. /\ conv'.pc = "read" /\ conv'.target = wait.journey /\ conv'.approved = decided'
        /\ conv'.asks = None /\ conv'.available = {} /\ conv'.limit = 0
    BY <2>1, Zenon DEF Reply, Idle
  <2>3. /\ UNCHANGED <<stored, recency>> /\ wait'.kind = "none" /\ wait'.journey = None
        /\ decided' \in {wait.journey, None}
    BY <2>1, Zenon DEF Reply, NoWait
  <2>4. Kinds
    BY Zenon DEF AInv
  <2>5. Kinds'
    BY <2>2, <2>3, <2>4 DEF Kinds, MaybeJourney
  <2> QED
    BY <2>2, <2>3, <2>5, OutsideMore
<1> QED
  BY <1>1, <1>2, Zenon

\* The run ends, waiting or not.
LEMMA EndMore ==
  ASSUME AInv, ReturnFailed \/ Wait \/ Finish \/ Fail \/ Reap
  PROVE  More'
<1> USE IdleFields
<1>1. ASSUME conv' = Idle, UNCHANGED <<stored, recency, wait>> PROVE More'
  <2>1. Kinds' /\ PinnedActive
    BY <1>1 DEF AInv, Kinds, MaybeJourney
  <2> QED
    BY <1>1, <2>1, OutsideMore DEF PinnedActive
<1>2. CASE ReturnFailed \/ Fail \/ Reap
  <2>1. conv' = Idle /\ UNCHANGED <<stored, recency, wait>>
    BY <1>2, Zenon DEF ReturnFailed, Fail, Reap
  <2> QED
    BY <1>1, <2>1, Zenon
<1>3. CASE Finish
  <2>1. CASE conv' = Idle
    BY <1>1, <1>3, <2>1, Zenon DEF Finish
  <2>2. CASE conv' # Idle
    <3>1. /\ conv'.pc = "read" /\ conv'.target = conv.target /\ conv'.approved = conv.approved
          /\ conv'.asks = conv.asks /\ conv'.available = {} /\ conv'.limit = conv.limit
      BY <1>3, <2>2, ZenonT(30) DEF Finish, AInv, Shape, Fields, Idle
    <3>2. conv.pc = "finish" /\ UNCHANGED <<stored, recency, wait, decided>>
      BY <1>3, <2>2, Zenon DEF Finish
    <3>3. OpenActive /\ OnePin /\ Kinds /\ PinnedActive
      BY Zenon DEF AInv
    <3>4. conv.approved = None /\ decided = None
      BY <3>2, <3>3 DEF OpenActive, OnePin, Preparing
    <3>5. Kinds'
      BY <3>1, <3>2, <3>3 DEF Kinds
    <3> QED
      BY <3>1, <3>2, <3>3, <3>4, <3>5, OutsideMore DEF PinnedActive
  <2> QED
    BY <2>1, <2>2, Zenon
<1>4. CASE Wait
  <2>1. conv' = Idle /\ UNCHANGED <<stored, recency>> /\ conv.pc \in {"ask", "rewait"}
    BY <1>4, Zenon DEF Wait
  <2>2. \/ wait'.kind = "clarification" /\ wait'.journey = conv.target
        \/ wait'.kind = "approval" /\ wait'.journey = conv.asks /\ conv.asks # None
    BY <1>4, Zenon DEF Wait
  <2>3. Kinds /\ OpenActive
    BY Zenon DEF AInv
  <2>4. Kinds'
    BY <2>1, <2>2, <2>3 DEF Kinds, MaybeJourney
  <2> QED
    BY <2>1, <2>2, <2>3, <2>4, OutsideMore DEF OpenActive
<1> QED
  BY <1>2, <1>3, <1>4, Zenon

\* A wait expires, and a late write is refused.
LEMMA AsideMore ==
  ASSUME AInv, Expire \/ LateWrite \/ UNCHANGED avars
  PROVE  More'
<1>1. UNCHANGED <<stored, recency, conv, decided>>
  BY Zenon DEF Expire, LateWrite, SetActiveJourneys, avars
<1>2. wait' \in {wait, NoWait}
  BY Zenon DEF Expire, LateWrite, avars
<1>3. Kinds'
  BY <1>1, <1>2 DEF AInv, Kinds, NoWait, MaybeJourney
<1>4. InOrder' /\ OpenActive'
  BY <1>1, Zenon DEF AInv, InOrder, OpenActive, DropsOldest
<1>5. PinnedActive'
  BY <1>1, <1>2 DEF AInv, PinnedActive, NoWait
<1> QED
  BY <1>3, <1>4, <1>5, Zenon DEF More

\* converse computes the active set.
LEMMA PrepareMore ==
  ASSUME AInv, Prepare
  PROVE  More'
<1> DEFINE c == conv
           t == conv.target
<1>1. /\ c.pc = "read" /\ UNCHANGED <<stored, recency, wait, decided, dispatching, unknown>>
      /\ \E limit \in IF c.limit = 0 THEN 1..MaxLimit ELSE {c.limit}, available \in Reachable :
           PrepareFor(limit, available)
  BY Zenon DEF Prepare
<1>2. PICK limit \in IF c.limit = 0 THEN 1..MaxLimit ELSE {c.limit}, available \in Reachable :
        PrepareFor(limit, available)
  BY <1>1, Zenon
<1>3. Kinds /\ InOrder /\ OpenActive /\ PinnedActive /\ OnePin /\ Shape
  BY Zenon DEF AInv
<1>4. limit \in Nat \ {0} /\ available \in SUBSET Journey
  BY <1>2, <1>3, LimitAssumption, JourneyAssumption DEF Kinds
<1>5. pinned \subseteq {t}
  BY <1>1, <1>3 DEF OnePin, pinned, NoWait, Preparing
<1> DEFINE kept == Fit(RemoveAll(stored, Journey \ available), limit, pinned)
           active == Activate(kept, t, limit, pinned)
<1>6. Complete(recency) /\ Ranked(stored, recency)
  BY <1>3, Zenon DEF InOrder
<1>7. ASSUME NEW ids, NEW uses,
             conv' = [[conv EXCEPT !.pc = "write", !.limit = limit, !.available = available]
                        EXCEPT !.active = ids, !.recent = uses],
             Complete(uses), Ranked(ids, uses), Len(ids) <= limit,
             \A a \in (Range(stored) \ Range(ids)) \cap available, b \in Range(ids) :
               Before(uses, a, b),
             decided \in available => decided \in Range(ids)
      PROVE  More'
  <2>1. /\ conv'.pc = "write" /\ conv'.limit = limit /\ conv'.available = available
        /\ conv'.active = ids /\ conv'.recent = uses
        /\ conv'.target = conv.target /\ conv'.approved = conv.approved /\ conv'.asks = conv.asks
    BY <1>3, <1>7, Zenon DEF Shape, Fields, Idle
  <2>2. Kinds'
    BY <1>1, <1>3, <1>4, <2>1 DEF Kinds
  <2>3. InOrder'
    BY <1>1, <1>4, <1>6, <1>7, <2>1 DEF InOrder, DropsOldest, Harness, Settled
  <2>4. OpenActive'
    BY <1>1, <1>3, <1>7, <2>1 DEF OpenActive
  <2>5. PinnedActive'
    BY <1>1, <1>3, <2>1 DEF PinnedActive, Harness, Settled
  <2> QED
    BY <2>2, <2>3, <2>4, <2>5, Zenon DEF More
<1>8. CASE ~Targets(c, available)
  <2>1. conv' = [[conv EXCEPT !.pc = "write", !.limit = limit, !.available = available]
                   EXCEPT !.active = kept, !.recent = recency]
    BY <1>2, <1>8, Zenon DEF PrepareFor
  <2>2. /\ Ranked(kept, recency) /\ Len(kept) <= limit /\ Range(kept) \subseteq available
        /\ \A a \in (Range(stored) \ Range(kept)) \cap available, b \in Range(kept) \ {t} :
             Before(recency, a, b)
    BY <1>4, <1>5, <1>6, KeptWithin, Zenon
  <2> HIDE DEF kept
  <2>3. t \notin available
    BY <1>4, <1>8, JourneyAssumption, Zenon DEF Targets
  <2>4. decided \notin available
    BY <1>3, <1>4, <2>3, JourneyAssumption, Zenon DEF OnePin
  <2>5. \A a \in (Range(stored) \ Range(kept)) \cap available, b \in Range(kept) :
          Before(recency, a, b)
    BY <2>2, <2>3, Zenon
  <2> QED
    BY <1>6, <1>7, <2>1, <2>2, <2>4, <2>5, Zenon
<1>9. CASE Targets(c, available)
  <2>1. /\ t \in available /\ ~Refused(kept, t, limit, pinned)
        /\ conv' = [[conv EXCEPT !.pc = "write", !.limit = limit, !.available = available]
                      EXCEPT !.active = active, !.recent = Used(recency, t)]
    BY <1>2, <1>9, Zenon DEF PrepareFor
  <2>2. /\ Ranked(active, Used(recency, t)) /\ Len(active) <= limit /\ t \in Range(active)
        /\ \A a \in (Range(stored) \ Range(active)) \cap available, b \in Range(active) :
             Before(Used(recency, t), a, b)
    BY <1>4, <1>5, <1>6, <2>1, PreparedWithin, Zenon
  <2> HIDE DEF active
  <2>3. Complete(Used(recency, t))
    BY <1>4, <1>6, <2>1, UsedOrder, Zenon
  <2>4. decided \in available => decided = t
    BY <1>3, <1>4, JourneyAssumption, Zenon DEF OnePin
  <2> QED
    BY <1>7, <2>1, <2>2, <2>3, <2>4, Zenon
<1> QED
  BY <1>8, <1>9, Zenon

\* The set that converse prepared is written.
LEMMA PreparedMore ==
  ASSUME AInv, Prepared
  PROVE  More'
<1>1. Kinds /\ InOrder /\ OpenActive /\ PinnedActive /\ OnePin /\ Shape
  BY Zenon DEF AInv
<1>2. /\ conv.pc = "write" /\ UNCHANGED <<wait, decided>>
      /\ stored' = conv.active /\ recency' = conv.recent
  BY Zenon DEF Prepared, Save, SetActiveJourneys
<1>3. /\ conv'.pc = IF conv.approved # None THEN "approved" ELSE "model"
      /\ conv'.persisted = conv.active /\ conv'.active = conv.active
      /\ conv'.limit = conv.limit /\ conv'.available = conv.available /\ conv'.recent = conv.recent
      /\ conv'.target = conv.target /\ conv'.approved = conv.approved /\ conv'.asks = conv.asks
  BY <1>1, Zenon DEF Prepared, Shape, Fields, Idle
<1>4. Kinds'
  BY <1>1, <1>2, <1>3, Zenon DEF Kinds
<1>5. /\ Complete(conv.recent) /\ Ranked(conv.active, conv.recent)
      /\ Len(conv.active) <= conv.limit /\ conv.limit # 0
  BY <1>1, <1>2 DEF InOrder
<1>6. InOrder'
  BY <1>2, <1>3, <1>5 DEF InOrder
<1>7. OpenActive'
  BY <1>1, <1>2, <1>3 DEF OpenActive
<1>8. wait = NoWait /\ (decided \in conv.available => decided \in Range(conv.active))
  BY <1>1, <1>2 DEF OnePin, OpenActive
<1>9. PinnedActive'
  BY <1>2, <1>3, <1>8 DEF PinnedActive, NoWait
<1> QED
  BY <1>4, <1>6, <1>7, <1>9, Zenon DEF More

\* A use of an active journey moves it to the end of the order in memory.
LEMMA TouchedMore ==
  ASSUME AInv, conv.pc \in {"approved", "calls"}, NEW j \in Range(conv.active),
         conv'.pc \in {"call", "calls"}, UNCHANGED <<stored, recency, wait>>,
         conv'.active = Touch(conv.active, j), conv'.recent = Used(conv.recent, j),
         conv'.persisted = conv.persisted, conv'.limit = conv.limit,
         conv'.available = conv.available, conv'.target = conv.target,
         conv'.approved = conv.approved, conv'.asks = conv.asks, conv'.planned = conv.planned,
         conv.approved # None => conv'.pc = "call",
         conv.pc = "approved" => conv.approved # None, decided' = None
  PROVE  More'
<1>1. Kinds /\ InOrder /\ OpenActive /\ PinnedActive /\ OnePin
  BY Zenon DEF AInv
<1>2. /\ Complete(conv.recent) /\ Ranked(conv.active, conv.recent)
      /\ Len(conv.active) <= conv.limit /\ Range(conv.active) = Range(conv.persisted)
      /\ conv.limit # 0
  BY <1>1 DEF InOrder, Harness, Settled
<1>3. j \in Journey
  BY <1>2, OrderRange, Zenon DEF Ranked
<1>4. /\ Ranked(conv'.active, conv'.recent) /\ Range(conv'.active) = Range(conv.active)
      /\ Len(conv'.active) = Len(conv.active) /\ Complete(conv'.recent)
  BY <1>2, <1>3, TouchRanked, UsedOrder, Zenon
<1>5. Kinds'
  BY <1>1, Zenon DEF Kinds
<1>6. InOrder'
  BY <1>1, <1>2, <1>4 DEF InOrder
<1>7. OpenActive'
  BY <1>1, <1>4 DEF OpenActive
<1>8. PinnedActive'
  BY <1>1, JourneyAssumption DEF PinnedActive, Kinds
<1> QED
  BY <1>5, <1>6, <1>7, <1>8, Zenon DEF More

\* The uses of journeys: the approved call, a call, a resource that is read.
LEMMA UseMore ==
  ASSUME AInv, CallApproved \/ CallAlias \/ \E j \in Journey : ReadResource(j)
  PROVE  More'
<1>1. Kinds /\ InOrder /\ OpenActive /\ PinnedActive /\ OnePin /\ Shape /\ SavedOrder
  BY Zenon DEF AInv
<1>2. CASE CallApproved
  <2>1. /\ conv.pc = "approved" /\ conv.approved \in conv.available
        /\ UNCHANGED <<stored, recency, wait>> /\ decided' = None
    BY <1>2, Zenon DEF CallApproved
  <2>2. /\ conv'.pc = "call" /\ conv'.active = Touch(conv.active, conv.approved)
        /\ conv'.recent = Used(conv.recent, conv.approved)
        /\ conv'.persisted = conv.persisted /\ conv'.limit = conv.limit
        /\ conv'.available = conv.available /\ conv'.target = conv.target
        /\ conv'.approved = conv.approved /\ conv'.asks = conv.asks /\ conv'.planned = conv.planned
    BY <1>1, <1>2, Zenon DEF CallApproved, Shape, Fields, Idle
  <2>3. conv.approved # None
    BY <1>1, <2>1, JourneyAssumption, Zenon DEF Kinds
  <2>4. conv.approved \in Range(conv.active)
    BY <1>1, <2>1 DEF OpenActive, PinnedActive, SavedOrder, Harness, Settled
  <2> QED
    BY <2>1, <2>2, <2>3, <2>4, TouchedMore
<1>3. ASSUME conv.pc = "calls" PROVE conv.approved = None /\ decided = None
  BY <1>1, <1>3 DEF OpenActive, OnePin, Preparing
<1>4. CASE CallAlias
  <2>1. PICK a \in Alias :
          /\ Owned(conv.planned, a)
          /\ conv' = [conv EXCEPT !.pc = "call",
                                  !.active = Touch(@, owningJourney(conv.planned, a)),
                                  !.recent = Used(@, owningJourney(conv.planned, a))]
    BY <1>4, Zenon DEF CallAlias
  <2>2. conv.pc = "calls" /\ UNCHANGED <<stored, recency, wait, decided>>
    BY <1>4, Zenon DEF CallAlias
  <2>3. conv.planned \in Order /\ Range(conv.planned) \subseteq Range(conv.active)
    BY <1>1, <1>3, <2>2 DEF OpenActive
  <2>4. owningJourney(conv.planned, a) \in Range(conv.active)
    BY <2>1, <2>3, OwnerActive, Zenon
  <2> DEFINE j == owningJourney(conv.planned, a)
  <2> HIDE DEF j
  <2>5. /\ conv'.pc = "call" /\ conv'.active = Touch(conv.active, j)
        /\ conv'.recent = Used(conv.recent, j)
        /\ conv'.persisted = conv.persisted /\ conv'.limit = conv.limit
        /\ conv'.available = conv.available /\ conv'.target = conv.target
        /\ conv'.approved = conv.approved /\ conv'.asks = conv.asks /\ conv'.planned = conv.planned
    BY <1>1, <2>1, Zenon DEF Shape, Fields, Idle, j
  <2>6. j \in Range(conv.active)
    BY <2>4, Zenon DEF j
  <2> QED
    BY <1>3, <2>2, <2>5, <2>6, TouchedMore
<1>5. CASE \E j \in Journey : ReadResource(j)
  <2>1. PICK j \in Journey : ReadResource(j)
    BY <1>5, Zenon
  <2>2. /\ conv.pc = "calls" /\ j \in Range(conv.active)
        /\ UNCHANGED <<stored, recency, wait, decided>>
    BY <2>1, Zenon DEF ReadResource, Executes
  <2>3. /\ conv'.pc = "calls" /\ conv'.active = Touch(conv.active, j)
        /\ conv'.recent = Used(conv.recent, j)
        /\ conv'.persisted = conv.persisted /\ conv'.limit = conv.limit
        /\ conv'.available = conv.available /\ conv'.target = conv.target
        /\ conv'.approved = conv.approved /\ conv'.asks = conv.asks /\ conv'.planned = conv.planned
    BY <1>1, <2>1, <2>2, Zenon DEF ReadResource, Shape, Fields, Idle
  <2> QED
    BY <1>3, <2>2, <2>3, TouchedMore
<1> QED
  BY <1>2, <1>4, <1>5, Zenon

\* Steps of runHarness that leave the orders alone.
LEMMA MovedMore ==
  ASSUME AInv, conv.pc \in Harness \ {"activate"}, conv'.pc \in Harness \ {"activate"},
         UNCHANGED <<stored, recency, wait>>,
         conv'.active = conv.active, conv'.recent = conv.recent,
         conv'.persisted = conv.persisted, conv'.limit = conv.limit,
         conv'.available = conv.available, conv'.target = conv.target,
         {conv'.approved, conv'.asks} \subseteq MaybeJourney,
         decided' = None, OpenActive'
  PROVE  More'
<1>1. Kinds /\ InOrder /\ OpenActive /\ PinnedActive /\ OnePin
  BY Zenon DEF AInv
<1>2. Kinds'
  BY <1>1 DEF Kinds
<1>3. InOrder'
  BY <1>1 DEF InOrder, Harness, Settled
<1>4. PinnedActive'
  BY <1>1, JourneyAssumption DEF PinnedActive, Kinds
<1> QED
  BY <1>2, <1>3, <1>4, Zenon DEF More

\* An approval that is superseded, a response, a call that returns, and the end of a round.
LEMMA HarnessMore ==
  ASSUME AInv,
         ApprovedVanished \/ ApprovedChanged \/ Respond \/ Return \/ RoundEnds \/ Steered
  PROVE  More'
<1>1. Kinds /\ InOrder /\ OpenActive /\ PinnedActive /\ OnePin /\ Shape /\ SavedOrder
  BY Zenon DEF AInv
<1>2. CASE ApprovedVanished
  <2>1. conv.pc = "approved" /\ UNCHANGED <<stored, recency, wait>> /\ decided' = None
    BY <1>2, Zenon DEF ApprovedVanished
  <2>2. /\ conv'.pc = "flush" /\ conv'.active = conv.active /\ conv'.recent = conv.recent
        /\ conv'.persisted = conv.persisted /\ conv'.limit = conv.limit
        /\ conv'.available = conv.available /\ conv'.target = conv.target
        /\ conv'.approved = conv.approved /\ conv'.asks = conv.asks
    BY <1>1, <1>2, Zenon DEF ApprovedVanished, Shape, Fields, Idle
  <2>3. OpenActive' /\ {conv'.approved, conv'.asks} \subseteq MaybeJourney
    BY <1>1, <2>1, <2>2 DEF OpenActive, Kinds
  <2> QED
    BY <2>1, <2>2, <2>3, MovedMore DEF Harness, Settled
<1>3. CASE ApprovedChanged
  <2>1. /\ conv.pc = "approved" /\ conv.approved \in conv.available
        /\ UNCHANGED <<stored, recency, wait>> /\ decided' = None
    BY <1>3, Zenon DEF ApprovedChanged
  <2>2. /\ conv'.pc = "rewait" /\ conv'.active = conv.active /\ conv'.recent = conv.recent
        /\ conv'.persisted = conv.persisted /\ conv'.limit = conv.limit
        /\ conv'.available = conv.available /\ conv'.target = conv.target
        /\ conv'.approved = conv.approved /\ conv'.asks = conv.approved
    BY <1>1, <1>3, Zenon DEF ApprovedChanged, Shape, Fields, Idle
  <2>3. conv.approved \in Range(stored)
    BY <1>1, <2>1 DEF OpenActive, PinnedActive, Harness, Settled
  <2>4. OpenActive' /\ {conv'.approved, conv'.asks} \subseteq MaybeJourney
    BY <1>1, <2>1, <2>2, <2>3 DEF OpenActive, Kinds
  <2> QED
    BY <2>1, <2>2, <2>4, MovedMore DEF Harness, Settled
<1>4. CASE Respond
  <2>1. PICK pc \in {"calls", "activating", "finish"} :
          conv' = [conv EXCEPT !.pc = pc, !.planned = conv.active, !.asks = None]
    BY <1>4, Zenon DEF Respond
  <2>2. conv.pc = "model" /\ UNCHANGED <<stored, recency, wait, decided>>
    BY <1>4, Zenon DEF Respond
  <2>3. /\ conv'.pc = pc /\ conv'.active = conv.active /\ conv'.recent = conv.recent
        /\ conv'.persisted = conv.persisted /\ conv'.limit = conv.limit
        /\ conv'.available = conv.available /\ conv'.target = conv.target
        /\ conv'.approved = conv.approved /\ conv'.asks = None /\ conv'.planned = conv.active
    BY <1>1, <2>1, Zenon DEF Shape, Fields, Idle
  <2>4. conv.approved = None /\ decided = None /\ conv.active \in Order
    BY <1>1, <2>2 DEF OpenActive, OnePin, Preparing, InOrder, Harness, Settled, Ranked
  <2>5. OpenActive' /\ {conv'.approved, conv'.asks} \subseteq MaybeJourney
    BY <2>3, <2>4 DEF OpenActive, MaybeJourney
  <2>6. pc \in Harness \ {"activate"}
    BY DEF Harness, Settled
  <2> QED
    BY <2>2, <2>3, <2>4, <2>5, <2>6, MovedMore DEF Harness, Settled
<1>5. CASE Return
  <2>1. conv.pc = "call" /\ UNCHANGED <<stored, recency, wait, decided>>
    BY <1>5, Zenon DEF Return
  <2>2. /\ conv'.pc = IF conv.approved = None THEN "calls" ELSE "flush"
        /\ conv'.active = conv.active /\ conv'.recent = conv.recent
        /\ conv'.persisted = conv.persisted /\ conv'.limit = conv.limit
        /\ conv'.available = conv.available /\ conv'.target = conv.target
        /\ conv'.approved = None /\ conv'.asks = conv.asks /\ conv'.planned = conv.planned
    BY <1>1, <1>5, Zenon DEF Return, Shape, Fields, Idle
  <2>3. decided = None
    BY <1>1, <2>1 DEF OnePin, Preparing
  <2>4. OpenActive' /\ {conv'.approved, conv'.asks} \subseteq MaybeJourney
    BY <1>1, <2>1, <2>2 DEF OpenActive, Kinds, MaybeJourney
  <2> QED
    BY <2>1, <2>2, <2>3, <2>4, MovedMore DEF Harness, Settled
<1>6. CASE RoundEnds \/ Steered
  <2>1. /\ conv.pc \in {"calls", "activating", "ask", "rewait"}
        /\ UNCHANGED <<stored, recency, wait, decided>>
    BY <1>6, Zenon DEF RoundEnds, Steered
  <2>2. /\ conv'.pc = "flush" /\ conv'.active = conv.active /\ conv'.recent = conv.recent
        /\ conv'.persisted = conv.persisted /\ conv'.limit = conv.limit
        /\ conv'.available = conv.available /\ conv'.target = conv.target
        /\ conv'.approved = conv.approved /\ conv'.asks \in {conv.asks, None}
    BY <1>1, <1>6, ZenonT(30) DEF RoundEnds, Steered, Shape, Fields, Idle
  <2>3. decided = None
    BY <1>1, <2>1 DEF OnePin, Preparing
  <2>4. OpenActive' /\ {conv'.approved, conv'.asks} \subseteq MaybeJourney
    BY <1>1, <2>1, <2>2 DEF OpenActive, Kinds, MaybeJourney
  <2> QED
    BY <2>1, <2>2, <2>3, <2>4, MovedMore DEF Harness, Settled
<1> QED
  BY <1>2, <1>3, <1>4, <1>5, <1>6, Zenon

\* An activation starts from the stored set, and writes what it has computed.
LEMMA ActivationMore ==
  ASSUME AInv, Activated \/ \E j \in Journey : ActivateJourney(j)
  PROVE  More'
<1>1. Kinds /\ InOrder /\ OpenActive /\ PinnedActive /\ OnePin /\ Shape /\ SavedOrder
  BY Zenon DEF AInv
<1>2. CASE \E j \in Journey : ActivateJourney(j)
  <2>1. PICK j \in Journey : ActivateJourney(j)
    BY <1>2, Zenon
  <2> DEFINE next == Activate(stored, j, conv.limit, pinned)
  <2>2. /\ conv.pc = "activating" /\ ~Refused(stored, j, conv.limit, pinned)
        /\ UNCHANGED <<stored, recency, wait, decided>>
    BY <2>1, Zenon DEF ActivateJourney
  <2>3. /\ conv'.pc = "activate" /\ conv'.next = next /\ conv'.recent = Used(conv.recent, j)
        /\ conv'.active = conv.active
        /\ conv'.persisted = conv.persisted /\ conv'.limit = conv.limit
        /\ conv'.available = conv.available /\ conv'.target = conv.target
        /\ conv'.approved = conv.approved /\ conv'.asks = conv.asks
    BY <1>1, <2>1, ZenonT(30) DEF ActivateJourney, Shape, Fields, Idle
  <2>4. /\ Complete(conv.recent) /\ conv.limit # 0 /\ Len(conv.active) <= conv.limit
        /\ Ranked(conv.active, conv.recent) /\ Range(conv.active) = Range(conv.persisted)
    BY <1>1, <2>2 DEF InOrder, Harness, Settled
  <2>5. conv.active = stored /\ conv.limit \in Nat \ {0} /\ decided = None
    BY <1>1, <2>2, <2>4 DEF SavedOrder, Harness, Settled, Kinds, OnePin, Preparing
  <2>6. pinned \subseteq {j}
    BY <1>1, <2>2 DEF OnePin, pinned, NoWait, Preparing
  <2>7. /\ Ranked(next, Used(conv.recent, j)) /\ Len(next) <= conv.limit
        /\ \A a \in Range(stored) \ Range(next), b \in Range(next) :
             Before(Used(conv.recent, j), a, b)
    <3>1. Ranked(stored, conv.recent) /\ Len(stored) <= conv.limit
      BY <2>4, <2>5, Zenon
    <3> QED
      BY <2>2, <2>4, <2>5, <2>6, <3>1, ActivateWithin, Zenon
  <2>8. Complete(Used(conv.recent, j))
    BY <2>4, UsedOrder, Zenon
  <2> HIDE DEF next
  <2>9. Kinds'
    BY <1>1, <2>2, <2>3, Zenon DEF Kinds
  <2>10. InOrder'
    BY <1>1, <2>2, <2>3, <2>4, <2>7, <2>8 DEF InOrder, DropsOldest
  <2>11. OpenActive'
    BY <1>1, <2>2, <2>3 DEF OpenActive
  <2>12. PinnedActive'
    BY <1>1, <2>2, <2>3, <2>5, JourneyAssumption DEF PinnedActive, Kinds
  <2> QED
    BY <2>9, <2>10, <2>11, <2>12, Zenon DEF More
<1>3. CASE Activated
  <2>1. /\ conv.pc = "activate" /\ UNCHANGED <<wait, decided>>
        /\ stored' = conv.next /\ recency' = conv.recent
    BY <1>3, Zenon DEF Activated, Save, SetActiveJourneys
  <2>2. /\ conv'.pc = "activating" /\ conv'.active = conv.next /\ conv'.persisted = conv.next
        /\ conv'.recent = conv.recent /\ conv'.limit = conv.limit
        /\ conv'.available = conv.available /\ conv'.target = conv.target
        /\ conv'.approved = conv.approved /\ conv'.asks = conv.asks
    BY <1>1, <1>3, Zenon DEF Activated, Shape, Fields, Idle
  <2>3. /\ Complete(conv.recent) /\ conv.limit # 0 /\ Len(conv.next) <= conv.limit
        /\ Ranked(conv.next, conv.recent)
    BY <1>1, <2>1 DEF InOrder, Harness, Settled
  <2>4. decided = None /\ wait = NoWait /\ conv.approved = None
    BY <1>1, <2>1 DEF OnePin, Preparing, OpenActive
  <2>5. Kinds'
    BY <1>1, <2>1, <2>2, Zenon DEF Kinds
  <2>6. InOrder'
    BY <2>1, <2>2, <2>3 DEF InOrder
  <2>7. OpenActive'
    BY <2>2, <2>4 DEF OpenActive
  <2>8. PinnedActive'
    BY <1>1, <2>1, <2>2, <2>4, JourneyAssumption DEF PinnedActive, Kinds, NoWait
  <2> QED
    BY <2>5, <2>6, <2>7, <2>8, Zenon DEF More
<1> QED
  BY <1>2, <1>3, Zenon

\* flush writes the order in memory, at the end of a round and before a wait.
LEMMA FlushMore ==
  ASSUME AInv, Flush \/ Ask
  PROVE  More'
<1>1. Kinds /\ InOrder /\ OpenActive /\ PinnedActive /\ OnePin /\ Shape /\ SavedOrder
  BY Zenon DEF AInv
<1>2. ASSUME NEW pc \in {"model", "ask"}, NEW j \in MaybeJourney, conv.pc \in {"flush", "calls"},
             Flushed(pc, j), pc = "ask" /\ j # None => j \in Range(conv.active)
      PROVE  More'
  <2>1. /\ conv'.pc = pc /\ conv'.active = conv.active /\ conv'.persisted = conv.active
        /\ conv'.recent = conv.recent /\ conv'.limit = conv.limit
        /\ conv'.available = conv.available /\ conv'.target = conv.target
        /\ conv'.approved = None /\ conv'.asks = j
    BY <1>1, <1>2, ZenonT(30) DEF Flushed, Shape, Fields, Idle
  <2>2. /\ UNCHANGED <<wait, decided>>
        /\ \/ conv.active = conv.persisted /\ UNCHANGED <<stored, recency>>
           \/ stored' = conv.active /\ recency' = conv.recent
    BY <1>2, Zenon DEF Flushed, Save, SetActiveJourneys
  <2>3. /\ Complete(conv.recent) /\ conv.limit # 0 /\ Len(conv.active) <= conv.limit
        /\ Ranked(conv.active, conv.recent) /\ Complete(recency) /\ Ranked(stored, recency)
    BY <1>1, <1>2 DEF InOrder, Harness, Settled
  <2>4. stored' = conv.active /\ conv.persisted = stored
    BY <1>1, <1>2, <2>2 DEF SavedOrder, Harness, Settled
  <2>5. Complete(recency') /\ Ranked(stored', recency')
    BY <2>2, <2>3, Zenon
  <2>6. decided = None /\ wait = NoWait
    BY <1>1, <1>2 DEF OnePin, Preparing
  <2>7. Kinds'
    BY <1>1, <2>1, <2>2 DEF Kinds, MaybeJourney
  <2>8. InOrder'
    BY <1>2, <2>1, <2>3, <2>5 DEF InOrder
  <2>9. OpenActive'
    BY <1>2, <2>1, <2>4 DEF OpenActive
  <2>10. PinnedActive'
    BY <1>1, <2>1, <2>2, <2>6, JourneyAssumption DEF PinnedActive, Kinds, NoWait
  <2> QED
    BY <2>7, <2>8, <2>9, <2>10, Zenon DEF More
<1>3. CASE Flush
  BY <1>2, <1>3 DEF Flush, MaybeJourney
<1>4. CASE Ask
  <2>1. PICK a \in Alias \cup {None} :
          /\ a # None => Owned(conv.planned, a)
          /\ Flushed("ask", IF a = None THEN None ELSE owningJourney(conv.planned, a))
    BY <1>4, Zenon DEF Ask
  <2>2. conv.pc = "calls"
    BY <1>4, Zenon DEF Ask
  <2>3. conv.planned \in Order /\ Range(conv.planned) \subseteq Range(conv.active)
    BY <1>1, <2>2 DEF OpenActive
  <2>4. CASE a = None
    BY <1>2, <2>1, <2>2, <2>4 DEF MaybeJourney
  <2>5. CASE a # None
    <3>1. /\ owningJourney(conv.planned, a) \in Range(conv.planned)
          /\ Range(conv.planned) \subseteq Journey
      BY <2>1, <2>3, <2>5, OwnerActive, OrderRange, Zenon
    <3>2. owningJourney(conv.planned, a) \in MaybeJourney
      BY <3>1, Zenon DEF MaybeJourney
    <3> DEFINE j == owningJourney(conv.planned, a)
    <3>3. Flushed("ask", j) /\ j \in Range(conv.active)
      BY <2>1, <2>3, <2>5, <3>1, Zenon
    <3> HIDE DEF j
    <3> QED
      BY <1>2, <2>2, <3>2, <3>3 DEF j
  <2> QED
    BY <2>4, <2>5, Zenon
<1> QED
  BY <1>3, <1>4, Zenon

\* The invariant holds of every step.
LEMMA AInvariant == ASpec => []AInv
<1>1. AInv /\ SInv' /\ PInv' /\ [ANext]_avars => AInv'
  <2> SUFFICES ASSUME AInv, SInv', PInv', [ANext]_avars PROVE More'
    BY Zenon DEF AInv, SInv, PInv, More
  <2> QED
    BY AsideMore, StartMore, EndMore, PrepareMore, PreparedMore, UseMore, HarnessMore,
       ActivationMore, FlushMore, ZenonT(30) DEF ANext
<1>2. SInv /\ PInv /\ More => AInv
  BY Zenon DEF AInv, SInv, PInv, More
<1> QED
  BY <1>1, <1>2, InitSInv, InitPInv, InitMore, SInvariant, PInvariant, PTL DEF ASpec

\* The journey of an open approval stays active, and the one of an approval that its run
\* has still to use, while it is available (ActiveJourneys, victims).
THEOREM PinnedStays == ASpec => []PinnedActive
<1>1. AInv => PinnedActive
  BY Zenon DEF AInv
<1> QED
  BY <1>1, AInvariant, PTL

\* A run never has more active journeys than its limit (Fit, Activate).
THEOREM LimitKept == ASpec => []WithinLimit
<1>1. AInv => WithinLimit
  BY Zenon DEF AInv, InOrder, WithinLimit
<1> QED
  BY <1>1, AInvariant, PTL

\* Of the available journeys the least recently used are evicted (victims), although a
\* run decides in memory and writes later.
THEOREM LeastRecentlyUsedGo == ASpec => EvictsOldest
<1>1. AInv /\ AInv' /\ [ANext]_avars =>
        [\A j \in Range(stored) \ Range(stored'), k \in Range(stored') :
           j \in conv.available => LastUse(recency', j) < LastUse(recency', k)]_avars
  <2> SUFFICES ASSUME AInv, AInv', [ANext]_avars,
                      NEW j \in Range(stored) \ Range(stored'), NEW k \in Range(stored'),
                      j \in conv.available
               PROVE  LastUse(recency', j) < LastUse(recency', k)
    BY Zenon
  <2>1. InOrder /\ SavedOrder /\ Complete(recency')
    BY Zenon DEF AInv, InOrder
  <2>2. stored' # stored
    BY Zenon
  <2>3. Prepared \/ Activated \/ \E pc \in {"model", "ask"} : \E i : conv.pc \in Harness /\ Flushed(pc, i)
    <3>1. ~(\E target \in MaybeJourney : Message(target)) /\ ~(\E approve \in BOOLEAN : Reply(approve))
      BY <2>2, Zenon DEF Message, Reply
    <3>2. ~Expire /\ ~Prepare /\ ~ApprovedVanished /\ ~ApprovedChanged /\ ~CallApproved
      BY <2>2, Zenon DEF Expire, Prepare, ApprovedVanished, ApprovedChanged, CallApproved
    <3>3. ~Respond /\ ~CallAlias /\ ~Return /\ ~ReturnFailed /\ ~RoundEnds
      BY <2>2, Zenon DEF Respond, CallAlias, Return, ReturnFailed, RoundEnds
    <3>4. ~(\E i \in Journey : ReadResource(i) \/ ActivateJourney(i))
      BY <2>2, Zenon DEF ReadResource, ActivateJourney
    <3>5. ~Wait /\ ~Steered /\ ~Finish /\ ~Fail /\ ~Reap /\ ~LateWrite /\ avars' # avars
      BY <2>2, Zenon DEF Wait, Steered, Finish, Fail, Reap, LateWrite, SetActiveJourneys, avars
    <3>6. Prepared \/ Activated \/ Flush \/ Ask
      BY <3>1, <3>2, <3>3, <3>4, <3>5, Zenon DEF ANext
    <3> QED
      BY <3>6 DEF Flush, Ask, Harness
  <2>4. Before(recency', j, k)
    <3>1. CASE Prepared
      <4>1. conv.pc = "write" /\ stored' = conv.active /\ recency' = conv.recent
        BY <3>1, Zenon DEF Prepared, Save, SetActiveJourneys
      <4> QED
        BY <2>1, <4>1, Zenon DEF InOrder, DropsOldest
    <3>2. CASE Activated
      <4>1. conv.pc = "activate" /\ stored' = conv.next /\ recency' = conv.recent
        BY <3>2, Zenon DEF Activated, Save, SetActiveJourneys
      <4> QED
        BY <2>1, <4>1, Zenon DEF InOrder, DropsOldest
    <3>3. CASE \E pc \in {"model", "ask"} : \E i : conv.pc \in Harness /\ Flushed(pc, i)
      <4>1. stored' = conv.active /\ conv.pc \in Harness
        BY <2>2, <3>3, Zenon DEF Flushed, Save, SetActiveJourneys
      <4>2. Range(stored') = Range(stored)
        BY <2>1, <4>1, Zenon DEF InOrder, SavedOrder
      <4> QED
        BY <4>2, Zenon
    <3> QED
      BY <2>3, <3>1, <3>2, <3>3, Zenon
  <2>5. PICK m, n \in DOMAIN recency' : m < n /\ recency'[m] = j /\ recency'[n] = k
    BY <2>4, Zenon DEF Before
  <2>6. LastUse(recency', j) = m /\ LastUse(recency', k) = n
    <3> DEFINE order == recency'
    <3>1. IsInjective(order) /\ m \in DOMAIN order /\ n \in DOMAIN order /\ order[m] = j /\ order[n] = k
      BY <2>1, <2>5, Zenon DEF Complete
    <3> HIDE DEF order
    <3>2. LastUse(order, j) = m /\ LastUse(order, k) = n
      BY <3>1, Zenon DEF LastUse, IsInjective
    <3> QED
      BY <3>2, Zenon DEF order
  <2> QED
    BY <2>5, <2>6, Zenon
<1> QED
  BY <1>1, AInvariant, PTL DEF ASpec, EvictsOldest
============================================================================
