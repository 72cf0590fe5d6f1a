---------------------------- MODULE MutexProofs ----------------------------
(***************************************************************************)
(* Proofs about module Mutex, for every number of tasks and mutexes and    *)
(* every assignment of priorities.                                         *)
(***************************************************************************)
EXTENDS Mutex, FiniteSetTheorems, SequenceTheorems, WellFoundedInduction, TLAPS

-----------------------------------------------------------------------------
(* The order of the numbers. *)

Below == OpToRel(<, Nat)

LEMMA Smaller == \A m, n \in Nat : n < m => <<n, m>> \in Below
<1> SUFFICES ASSUME NEW m \in Nat, NEW n \in Nat, n < m PROVE <<n, m>> \in Below
  OBVIOUS
<1>1. Below = {ss \in Nat \X Nat : ss[1] < ss[2]}
  BY Zenon DEF Below, OpToRel
<1> QED
  BY <1>1

LEMMA Least ==
    ASSUME NEW T \in SUBSET Nat, T # {}
    PROVE  \E m \in T : \A n \in T : m <= n
<1>1. IsWellFoundedOn(Below, Nat)
  BY NatLessThanWellFounded, Zenon DEF Below
<1>2. PICK m \in T : \A n \in T : <<n, m>> \notin Below
  <2> HIDE DEF Below
  <2> QED
    BY <1>1, WFMin, Zenon
<1>3. ASSUME NEW n \in T PROVE m <= n
  <2> HIDE DEF Below
  <2>1. ~(n < m)
    BY <1>2, Smaller
  <2> QED
    BY <2>1
<1> QED
  BY <1>3

LEMMA Induction ==
    ASSUME NEW G \in SUBSET Nat, 0 \in G, \A n \in G : n + 1 \in G
    PROVE  G = Nat
<1> SUFFICES ASSUME Nat \ G # {} PROVE FALSE
  OBVIOUS
<1>1. PICK m \in Nat \ G : \A n \in Nat \ G : m <= n
  BY Least
<1>2. m # 0 /\ m - 1 \in Nat
  BY <1>1
<1>3. m - 1 \in G
  BY <1>1, <1>2
<1> QED
  BY <1>1, <1>3

(* How many elements of a set of numbers are smaller than i.               *)
Rank(S, i) == Cardinality({j \in S : j < i})

LEMMA RankGrows ==
    ASSUME NEW S \in SUBSET Nat, IsFiniteSet(S), NEW i \in S
    PROVE  /\ Rank(S, i) \in Nat /\ Rank(S, i) < Cardinality(S)
           /\ \A k \in S : i < k => Rank(S, i) < Rank(S, k)
<1> DEFINE L(k) == {j \in S : j < k}
<1>1. \A k \in S : IsFiniteSet(L(k)) /\ Cardinality(L(k)) \in Nat
  <2>1. \A k \in S : L(k) \in SUBSET S
    OBVIOUS
  <2> QED
    BY <2>1, FS_Subset, FS_CardinalityType
<1>2. ASSUME NEW T \in SUBSET S, L(i) \subseteq T, i \in T
      PROVE  Cardinality(L(i)) < Cardinality(T)
  <2>1. IsFiniteSet(T) /\ Cardinality(T) \in Nat
    BY FS_Subset, FS_CardinalityType
  <2>2. L(i) \subseteq T \ {i} /\ IsFiniteSet(T \ {i})
    BY <1>2, <2>1, FS_Subset
  <2>3. Cardinality(L(i)) <= Cardinality(T \ {i})
    BY <2>2, FS_Subset
  <2>4. Cardinality(T \ {i}) = Cardinality(T) - 1
    BY <1>2, <2>1, FS_RemoveElement
  <2> QED
    BY <1>1, <2>1, <2>3, <2>4
<1>3. Cardinality(L(i)) < Cardinality(S)
  <2>1. S \in SUBSET S /\ L(i) \subseteq S /\ i \in S
    OBVIOUS
  <2> HIDE DEF L
  <2> QED
    BY <1>2, <2>1
<1>4. ASSUME NEW k \in S, i < k PROVE Cardinality(L(i)) < Cardinality(L(k))
  <2>1. ASSUME NEW j \in L(i) PROVE j \in L(k)
    <3>1. j \in S /\ j < i /\ j \in Nat /\ i \in Nat /\ k \in Nat
      BY <2>1
    <3> QED
      BY <1>4, <3>1
  <2>2. L(k) \in SUBSET S /\ L(i) \subseteq L(k) /\ i \in L(k)
    BY <1>4, <2>1
  <2> HIDE DEF L
  <2> QED
    BY <1>2, <2>2
<1> QED
  BY <1>1, <1>3, <1>4 DEF Rank

(* Every rank below the size of the set is that of an element.             *)
LEMMA Ranked ==
    ASSUME NEW S \in SUBSET Nat, IsFiniteSet(S), NEW k \in 0 .. Cardinality(S) - 1
    PROVE  \E i \in S : Rank(S, i) = k
<1> DEFINE G == {n \in Nat : n < Cardinality(S) => \E i \in S : Rank(S, i) = n}
<1>0. Cardinality(S) \in Nat
  BY FS_CardinalityType
<1>1. 0 \in G
  <2> SUFFICES ASSUME 0 < Cardinality(S) PROVE \E i \in S : Rank(S, i) = 0
    OBVIOUS
  <2>1. S # {}
    BY FS_EmptySet
  <2>2. PICK i \in S : \A j \in S : i <= j
    BY <2>1, Least
  <2>3. {j \in S : j < i} = {}
    <3>1. ASSUME NEW j \in S PROVE ~(j < i)
      <4>1. i <= j /\ i \in Nat /\ j \in Nat
        BY <2>2
      <4> QED
        BY <4>1
    <3> QED
      BY <3>1
  <2>4. Rank(S, i) = 0
    BY <2>3, FS_EmptySet DEF Rank
  <2> QED
    BY <2>4
<1>2. ASSUME NEW n \in G PROVE n + 1 \in G
  <2> SUFFICES ASSUME n + 1 < Cardinality(S) PROVE \E i \in S : Rank(S, i) = n + 1
    OBVIOUS
  <2>1. PICK i \in S : Rank(S, i) = n
    BY <1>0
  <2> DEFINE Lower == {j \in S : j < i}
             Upper == {j \in S : i < j}
  <2>2. /\ IsFiniteSet(Lower) /\ IsFiniteSet(Lower \cup {i}) /\ i \notin Lower
        /\ Cardinality(Lower) = n /\ Cardinality(Lower \cup {i}) = n + 1
    <3>1. Lower \in SUBSET S /\ Lower \cup {i} \in SUBSET S /\ i \notin Lower
      OBVIOUS
    <3>2. IsFiniteSet(Lower) /\ IsFiniteSet(Lower \cup {i})
      BY <3>1, FS_Subset
    <3>3. Cardinality(Lower) = n
      BY <2>1 DEF Rank
    <3>4. Cardinality(Lower \cup {i}) = Cardinality(Lower) + 1
      BY <3>1, <3>2, FS_AddElement
    <3> QED
      BY <3>1, <3>2, <3>3, <3>4
  <2>3. Upper # {}
    <3>1. ASSUME Upper = {}, NEW j \in S PROVE j \in Lower \cup {i}
      <4>1. i \in Nat /\ j \in Nat /\ ~(i < j)
        BY <3>1
      <4>2. j < i \/ j = i
        BY <4>1
      <4> QED
        BY <4>2
    <3>2. Upper = {} => S = Lower \cup {i}
      BY <3>1
    <3>3. n \in Nat /\ n + 1 < Cardinality(S)
      OBVIOUS
    <3> HIDE DEF Lower, Upper
    <3>4. ASSUME Upper = {} PROVE FALSE
      <4>1. Cardinality(S) = n + 1
        BY <2>2, <3>2, <3>4
      <4> QED
        BY <3>3, <4>1
    <3> QED
      BY <3>4
  <2>4. PICK succ \in Upper : \A j \in Upper : succ <= j
    BY <2>3, Least
  <2>5. succ \in S /\ {j \in S : j < succ} = Lower \cup {i}
    <3>1. ASSUME NEW j \in S PROVE j < succ <=> j < i \/ j = i
      <4>1. i \in Nat /\ j \in Nat /\ succ \in Nat /\ i < succ /\ (i < j => succ <= j)
        BY <2>4
      <4> QED
        BY <4>1
    <3> QED
      BY <3>1
  <2>6. Rank(S, succ) = n + 1
    BY <2>2, <2>5 DEF Rank
  <2> QED
    BY <2>5, <2>6
<1>3. G = Nat
  <2>1. G \in SUBSET Nat
    OBVIOUS
  <2> HIDE DEF G
  <2> QED
    BY <1>1, <1>2, <2>1, Induction
<1>4. k \in Nat /\ k < Cardinality(S)
  BY <1>0
<1> QED
  BY <1>3, <1>4

-----------------------------------------------------------------------------
(* Event lists. *)

Members(list) == {list[i] : i \in DOMAIN list}

NoneTwice(list) == \A i, j \in DOMAIN list : list[i] = list[j] => i = j

(* From the highest to the lowest of the priorities that tasks have of     *)
(* their own.                                                              *)
Sorted(list) ==
    \A i, j \in DOMAIN list : i <= j => uxBasePriority[list[i]] >= uxBasePriority[list[j]]

LEMMA WaitersAre == \A m \in Mutexes : Waiters(m) = Members(waiting[m])
BY DEF Waiters, Members

(* The positions of the tasks that stay, in their order.                   *)
LEMMA WithoutIs ==
    ASSUME NEW list \in Seq(Task), NEW E
    PROVE  \E n \in Nat : \E p \in [1 .. n -> 1 .. Len(list)] :
              /\ Without(list, E) = [k \in 1 .. n |-> list[p[k]]]
              /\ \A k, l \in 1 .. n : k < l => p[k] < p[l]
              /\ \A k \in 1 .. n : list[p[k]] \notin E
              /\ \A i \in 1 .. Len(list) : list[i] \notin E => \E k \in 1 .. n : p[k] = i
<1> DEFINE stay == {i \in DOMAIN list : list[i] \notin E}
           n == Cardinality(stay)
           p == [k \in 1 .. n |-> CHOOSE i \in stay : Rank(stay, i) = k - 1]
<1>1. /\ stay \in SUBSET Nat /\ stay \subseteq 1 .. Len(list) /\ IsFiniteSet(stay)
      /\ n \in Nat
  <2>1. DOMAIN list = 1 .. Len(list) /\ Len(list) \in Nat
    BY LenProperties
  <2>2. IsFiniteSet(1 .. Len(list))
    BY <2>1, FS_Interval
  <2>3. stay \subseteq 1 .. Len(list) /\ stay \in SUBSET Nat
    BY <2>1
  <2> QED
    BY <2>2, <2>3, FS_Subset, FS_CardinalityType
<1>2. Without(list, E) = [k \in 1 .. n |-> list[p[k]]]
  <2>1. Without(list, E) =
           [k \in 1 .. n |-> list[CHOOSE i \in stay : Rank(stay, i) = k - 1]]
    BY DEF Without, Rank
  <2> HIDE DEF stay, n
  <2> QED
    BY <2>1
<1> HIDE DEF stay, n
<1>3. ASSUME NEW k \in 1 .. n PROVE p[k] \in stay /\ Rank(stay, p[k]) = k - 1
  <2>1. k - 1 \in 0 .. n - 1
    BY <1>1
  <2>2. \E i \in stay : Rank(stay, i) = k - 1
    BY <1>1, <2>1, Ranked DEF n
  <2> QED
    BY <2>2
<1> HIDE DEF p
<1>4. p \in [1 .. n -> 1 .. Len(list)]
  <2>1. p \in [1 .. n -> stay]
    <3>1. p = [k \in 1 .. n |-> p[k]]
      BY DEF p
    <3> QED
      BY <1>3, <3>1
  <2> QED
    BY <1>1, <2>1
<1>5. ASSUME NEW k \in 1 .. n, NEW l \in 1 .. n, k < l PROVE p[k] < p[l]
  <2>1. /\ p[k] \in stay /\ p[l] \in stay /\ p[k] \in Nat /\ p[l] \in Nat
        /\ Rank(stay, p[k]) = k - 1 /\ Rank(stay, p[l]) = l - 1
    BY <1>1, <1>3
  <2>2. p[l] < p[k] => l - 1 < k - 1
    BY <1>1, <2>1, RankGrows
  <2>3. p[l] # p[k]
    BY <1>1, <1>5, <2>1
  <2> QED
    BY <1>1, <1>5, <2>1, <2>2, <2>3
<1>6. \A k \in 1 .. n : list[p[k]] \notin E
  BY <1>3 DEF stay
<1>7. ASSUME NEW i \in 1 .. Len(list), list[i] \notin E PROVE \E k \in 1 .. n : p[k] = i
  <2>1. i \in stay /\ i \in Nat
    BY <1>7, LenProperties DEF stay
  <2>2. Rank(stay, i) \in Nat /\ Rank(stay, i) < n
    BY <1>1, <2>1, RankGrows DEF n
  <2> DEFINE k == Rank(stay, i) + 1
  <2>3. k \in 1 .. n /\ k - 1 = Rank(stay, i)
    BY <1>1, <2>2
  <2> HIDE DEF k
  <2>4. p[k] \in stay /\ Rank(stay, p[k]) = Rank(stay, i) /\ p[k] \in Nat
    BY <1>1, <1>3, <2>3
  <2>5. ~(p[k] < i) /\ ~(i < p[k])
    <3>1. /\ p[k] < i => Rank(stay, p[k]) < Rank(stay, i)
          /\ i < p[k] => Rank(stay, i) < Rank(stay, p[k])
      BY <1>1, <2>1, <2>4, RankGrows
    <3> QED
      BY <2>2, <2>4, <3>1
  <2> QED
    BY <2>1, <2>3, <2>4, <2>5
<1> QED
  BY <1>1, <1>2, <1>4, <1>5, <1>6, <1>7

LEMMA WithoutFacts ==
    ASSUME NEW list \in Seq(Task), NEW E
    PROVE  /\ Without(list, E) \in Seq(Task)
           /\ Members(Without(list, E)) = Members(list) \ E
           /\ NoneTwice(list) => NoneTwice(Without(list, E))
           /\ Sorted(list) => Sorted(Without(list, E))
<1> DEFINE r == Without(list, E)
<1>0. PICK n \in Nat : \E p \in [1 .. n -> 1 .. Len(list)] :
              /\ r = [k \in 1 .. n |-> list[p[k]]]
              /\ \A k, l \in 1 .. n : k < l => p[k] < p[l]
              /\ \A k \in 1 .. n : list[p[k]] \notin E
              /\ \A i \in 1 .. Len(list) : list[i] \notin E => \E k \in 1 .. n : p[k] = i
  BY WithoutIs
<1>1. PICK p \in [1 .. n -> 1 .. Len(list)] :
              /\ r = [k \in 1 .. n |-> list[p[k]]]
              /\ \A k, l \in 1 .. n : k < l => p[k] < p[l]
              /\ \A k \in 1 .. n : list[p[k]] \notin E
              /\ \A i \in 1 .. Len(list) : list[i] \notin E => \E k \in 1 .. n : p[k] = i
  BY <1>0
<1> HIDE DEF r
<1>2. /\ DOMAIN list = 1 .. Len(list) /\ Len(list) \in Nat
      /\ \A i \in 1 .. Len(list) : list[i] \in Task
  BY LenProperties, ElementOfSeq
<1>3. /\ r \in [1 .. n -> Task] /\ DOMAIN r = 1 .. n
      /\ \A k \in 1 .. n : r[k] = list[p[k]] /\ p[k] \in DOMAIN list
  BY <1>1, <1>2
<1>4. r \in Seq(Task)
  BY <1>3, SeqDef
<1>5. Members(r) = Members(list) \ E
  <2>1. ASSUME NEW u \in Members(r) PROVE u \in Members(list) \ E
    <3>1. PICK k \in 1 .. n : u = r[k]
      BY <1>3, <2>1 DEF Members
    <3> QED
      BY <1>1, <1>3, <3>1 DEF Members
  <2>2. ASSUME NEW u \in Members(list) \ E PROVE u \in Members(r)
    <3>1. PICK i \in 1 .. Len(list) : u = list[i]
      BY <1>2, <2>2 DEF Members
    <3>2. PICK k \in 1 .. n : p[k] = i
      BY <1>1, <2>2, <3>1
    <3> QED
      BY <1>3, <3>1, <3>2 DEF Members
  <2> QED
    BY <2>1, <2>2
<1>6. ASSUME NoneTwice(list) PROVE NoneTwice(r)
  <2> SUFFICES ASSUME NEW k \in 1 .. n, NEW l \in 1 .. n, r[k] = r[l] PROVE k = l
    BY <1>3 DEF NoneTwice
  <2>1. p[k] = p[l] /\ p[k] \in Nat /\ p[l] \in Nat
    BY <1>2, <1>3, <1>6 DEF NoneTwice
  <2>2. ~(k < l) /\ ~(l < k)
    BY <1>1, <2>1
  <2> QED
    BY <2>2
<1>7. ASSUME Sorted(list) PROVE Sorted(r)
  <2> SUFFICES ASSUME NEW k \in 1 .. n, NEW l \in 1 .. n, k <= l
               PROVE  uxBasePriority[r[k]] >= uxBasePriority[r[l]]
    BY <1>3 DEF Sorted
  <2>1. k < l => p[k] < p[l]
    BY <1>1
  <2>2. p[k] <= p[l]
    BY <1>2, <1>3, <2>1
  <2> QED
    BY <1>3, <1>7, <2>2 DEF Sorted
<1> QED
  BY <1>4, <1>5, <1>6, <1>7 DEF r

(* The head leaves. *)
LEMMA TailFacts ==
    ASSUME NEW list \in Seq(Task), list # <<>>, NoneTwice(list)
    PROVE  /\ Tail(list) \in Seq(Task) /\ Head(list) \in Members(list)
           /\ Members(Tail(list)) = Members(list) \ {Head(list)}
           /\ NoneTwice(Tail(list))
           /\ Sorted(list) => /\ Sorted(Tail(list))
                              /\ \A u \in Members(list) :
                                    uxBasePriority[Head(list)] >= uxBasePriority[u]
<1>1. /\ DOMAIN list = 1 .. Len(list) /\ Len(list) \in Nat /\ Len(list) # 0
      /\ Head(list) = list[1] /\ Tail(list) \in Seq(Task) /\ Len(Tail(list)) = Len(list) - 1
      /\ \A i \in 1 .. Len(list) - 1 : Tail(list)[i] = list[i + 1]
  BY LenProperties, EmptySeq, HeadTailProperties
<1>2. DOMAIN Tail(list) = 1 .. Len(list) - 1
  BY <1>1, LenProperties
<1>3. 1 \in 1 .. Len(list) /\ \A i \in 1 .. Len(list) - 1 : i + 1 \in 1 .. Len(list)
  BY <1>1
<1>4. Members(Tail(list)) = Members(list) \ {Head(list)}
  <2>1. ASSUME NEW u \in Members(Tail(list)) PROVE u \in Members(list) \ {Head(list)}
    <3>1. PICK i \in 1 .. Len(list) - 1 : u = list[i + 1]
      BY <1>1, <1>2, <2>1 DEF Members
    <3>2. i + 1 # 1 /\ i + 1 \in DOMAIN list
      BY <1>1, <1>3
    <3> QED
      BY <1>1, <1>3, <3>1, <3>2 DEF Members, NoneTwice
  <2>2. ASSUME NEW u \in Members(list) \ {Head(list)} PROVE u \in Members(Tail(list))
    <3>1. PICK i \in 1 .. Len(list) : u = list[i] /\ i # 1
      BY <1>1, <2>2 DEF Members
    <3>2. i - 1 \in 1 .. Len(list) - 1 /\ (i - 1) + 1 = i
      BY <1>1, <3>1
    <3>3. Tail(list)[i - 1] = u
      BY <1>1, <3>1, <3>2
    <3> QED
      BY <1>2, <3>2, <3>3 DEF Members
  <2> QED
    BY <2>1, <2>2
<1>5. NoneTwice(Tail(list))
  <2> SUFFICES ASSUME NEW i \in 1 .. Len(list) - 1, NEW j \in 1 .. Len(list) - 1,
                      Tail(list)[i] = Tail(list)[j]
               PROVE  i = j
    BY <1>2 DEF NoneTwice
  <2>1. i + 1 = j + 1
    BY <1>1, <1>3 DEF NoneTwice
  <2> QED
    BY <1>1, <2>1
<1>6. ASSUME Sorted(list) PROVE Sorted(Tail(list))
  <2> SUFFICES ASSUME NEW i \in 1 .. Len(list) - 1, NEW j \in 1 .. Len(list) - 1, i <= j
               PROVE  uxBasePriority[Tail(list)[i]] >= uxBasePriority[Tail(list)[j]]
    BY <1>2 DEF Sorted
  <2>1. i + 1 <= j + 1
    BY <1>1
  <2>2. uxBasePriority[list[i + 1]] >= uxBasePriority[list[j + 1]]
    BY <1>1, <1>3, <1>6, <2>1 DEF Sorted
  <2> QED
    BY <1>1, <2>2
<1>7. ASSUME Sorted(list), NEW u \in Members(list)
      PROVE  uxBasePriority[Head(list)] >= uxBasePriority[u]
  <2>1. PICK i \in 1 .. Len(list) : u = list[i]
    BY <1>1, <1>7 DEF Members
  <2>2. 1 <= i
    BY <1>1
  <2> QED
    BY <1>1, <1>3, <1>7, <2>1, <2>2 DEF Sorted
<1>8. Head(list) \in Members(list)
  BY <1>1, <1>3 DEF Members
<1> QED
  BY <1>1, <1>4, <1>5, <1>6, <1>7, <1>8


LEMMA HeadOfMany ==
    ASSUME NEW list \in Seq(Task), list # <<>>
    PROVE  Members(list) # {}
<1>1. Len(list) \in Nat \ {0} /\ DOMAIN list = 1 .. Len(list)
  BY EmptySeq, LenProperties
<1>2. 1 \in DOMAIN list
  BY <1>1
<1> QED
  BY <1>2 DEF Members

(* The place that vListInsert finds for t.                                 *)
LEMMA InsertIs ==
    ASSUME NEW list \in Seq(Task), NEW t \in Task, uxPriority \in [Task -> Nat]
    PROVE  /\ vListInsert(list, t) \in Seq(Task)
           /\ Len(vListInsert(list, t)) = Len(list) + 1
           /\ \E a \in 1 .. Len(list) + 1 :
                 /\ \A i \in 1 .. Len(list) + 1 :
                       vListInsert(list, t)[i] = IF i < a THEN list[i]
                                                 ELSE IF i = a THEN t ELSE list[i - 1]
                 /\ \A i \in 1 .. a - 1 : uxPriority[list[i]] >= uxPriority[t]
                 /\ a <= Len(list) => uxPriority[list[a]] < uxPriority[t]
<1> DEFINE later == {i \in DOMAIN list : uxPriority[list[i]] < uxPriority[t]}
           first == CHOOSE i \in later : \A j \in later : i <= j
           at == IF later = {} THEN Len(list) + 1 ELSE first
           r == vListInsert(list, t)
           front == SubSeq(list, 1, at - 1)
           back == SubSeq(list, at, Len(list))
<1>1. /\ DOMAIN list = 1 .. Len(list) /\ Len(list) \in Nat
      /\ \A i \in 1 .. Len(list) : list[i] \in Task
  BY LenProperties, ElementOfSeq
<1>2. later \in SUBSET Nat /\ later \subseteq 1 .. Len(list)
  BY <1>1
<1>3. r = (front \o <<t>>) \o back
  BY DEF vListInsert
<1>4. later # {} => first \in later /\ \A j \in later : first <= j
  <2> HIDE DEF later
  <2>1. later # {} => \E i \in later : \A j \in later : i <= j
    BY <1>2, Least
  <2> QED
    BY <2>1
<1>5. /\ at \in 1 .. Len(list) + 1
      /\ at <= Len(list) => at \in later
      /\ \A i \in 1 .. at - 1 : i \in 1 .. Len(list) /\ i \notin later
  <2>1. CASE later = {}
    <3> HIDE DEF later, first
    <3>1. at = Len(list) + 1
      BY <2>1
    <3> HIDE DEF at
    <3> QED
      BY <1>1, <2>1, <3>1
  <2>2. CASE later # {}
    <3>1. at = first /\ first \in later /\ first \in 1 .. Len(list)
      <4> HIDE DEF later, first
      <4> QED
        BY <1>2, <1>4, <2>2
    <3> HIDE DEF later, first
    <3> HIDE DEF at
    <3>2. ASSUME NEW i \in 1 .. at - 1 PROVE i \in 1 .. Len(list) /\ i \notin later
      <4>1. i < first /\ i \in 1 .. Len(list) /\ ~(first <= i)
        BY <1>1, <3>1, <3>2
      <4> QED
        BY <1>4, <2>2, <4>1
    <3> QED
      BY <1>1, <3>1, <3>2
  <2> QED
    BY <2>1, <2>2
<1> HIDE DEF at, first, r
<1>6. /\ front \in Seq(Task) /\ Len(front) = at - 1
      /\ \A i \in 1 .. at - 1 : front[i] = list[i]
  <2>1. 1 \in Int /\ at - 1 \in Int /\ \A i \in 1 .. at - 1 : list[i] \in Task
    BY <1>1, <1>5
  <2>2. /\ front \in Seq(Task) /\ Len(front) = (IF 1 <= at - 1 THEN (at - 1) - 1 + 1 ELSE 0)
        /\ \A i \in 1 .. (at - 1) - 1 + 1 : front[i] = list[1 + i - 1]
    BY <2>1, SubSeqProperties
  <2> HIDE DEF front
  <2> QED
    BY <1>1, <1>5, <2>2
<1>7. /\ back \in Seq(Task) /\ Len(back) = Len(list) - at + 1
      /\ \A i \in 1 .. Len(list) - at + 1 : back[i] = list[at + i - 1]
  <2>1. at \in Int /\ Len(list) \in Int /\ \A i \in at .. Len(list) : list[i] \in Task
    BY <1>1, <1>5
  <2>2. /\ back \in Seq(Task)
        /\ Len(back) = (IF at <= Len(list) THEN Len(list) - at + 1 ELSE 0)
        /\ \A i \in 1 .. Len(list) - at + 1 : back[i] = list[at + i - 1]
    BY <2>1, SubSeqProperties
  <2> HIDE DEF back
  <2> QED
    BY <1>1, <1>5, <2>2
<1> HIDE DEF front, back
<1>8. /\ front \o <<t>> \in Seq(Task) /\ Len(front \o <<t>>) = at
      /\ \A i \in 1 .. at : (front \o <<t>>)[i] = IF i < at THEN list[i] ELSE t
  <2>1. <<t>> \in Seq(Task) /\ Len(<<t>>) = 1 /\ <<t>>[1] = t
    OBVIOUS
  <2>2. /\ front \o <<t>> \in Seq(Task) /\ Len(front \o <<t>>) = Len(front) + Len(<<t>>)
        /\ \A i \in 1 .. Len(front) + Len(<<t>>) :
              (front \o <<t>>)[i] = IF i <= Len(front) THEN front[i] ELSE <<t>>[i - Len(front)]
    BY <1>6, <2>1, ConcatProperties
  <2> QED
    BY <1>1, <1>5, <1>6, <2>1, <2>2
<1>9. /\ r \in Seq(Task) /\ Len(r) = Len(list) + 1
      /\ \A i \in 1 .. Len(list) + 1 :
            r[i] = IF i < at THEN list[i] ELSE IF i = at THEN t ELSE list[i - 1]
  <2> DEFINE f == front \o <<t>>
  <2>1. /\ f \in Seq(Task) /\ Len(f) = at
        /\ \A i \in 1 .. at : f[i] = IF i < at THEN list[i] ELSE t
    BY <1>8
  <2>2. r = f \o back
    BY <1>3
  <2> HIDE DEF f
  <2>3. /\ r \in Seq(Task) /\ Len(r) = Len(f) + Len(back)
        /\ \A i \in 1 .. Len(f) + Len(back) :
              r[i] = IF i <= Len(f) THEN f[i] ELSE back[i - Len(f)]
    BY <1>7, <2>1, <2>2, ConcatProperties
  <2>4. Len(r) = Len(list) + 1
    BY <1>1, <1>5, <1>7, <2>1, <2>3
  <2>5. ASSUME NEW i \in 1 .. Len(list) + 1
        PROVE  r[i] = IF i < at THEN list[i] ELSE IF i = at THEN t ELSE list[i - 1]
    <3>1. CASE i <= at
      BY <1>1, <1>5, <1>7, <2>1, <2>3, <3>1
    <3>2. CASE i > at
      <4>1. i - at \in 1 .. Len(list) - at + 1 /\ at + (i - at) - 1 = i - 1
        BY <1>1, <1>5, <3>2
      <4>2. r[i] = back[i - at]
        BY <1>1, <1>5, <1>7, <2>1, <2>3, <3>2
      <4>3. back[i - at] = list[i - 1]
        BY <1>7, <4>1
      <4> QED
        BY <1>1, <1>5, <3>2, <4>2, <4>3
    <3> QED
      BY <1>1, <1>5, <3>1, <3>2
  <2> QED
    BY <2>3, <2>4, <2>5
<1>10. \A i \in 1 .. at - 1 : uxPriority[list[i]] >= uxPriority[t]
  <2>1. ASSUME NEW i \in 1 .. at - 1 PROVE uxPriority[list[i]] >= uxPriority[t]
    <3>1. i \in 1 .. Len(list) /\ ~(uxPriority[list[i]] < uxPriority[t])
      BY <1>1, <1>5
    <3>2. uxPriority[list[i]] \in Nat /\ uxPriority[t] \in Nat
      BY <1>1, <3>1
    <3> QED
      BY <3>1, <3>2
  <2> QED
    BY <2>1
<1>11. at <= Len(list) => uxPriority[list[at]] < uxPriority[t]
  BY <1>5
<1> HIDE DEF later
<1> QED
  BY <1>5, <1>9, <1>10, <1>11 DEF r

LEMMA InsertFacts ==
    ASSUME NEW list \in Seq(Task), NEW t \in Task, uxPriority \in [Task -> Nat]
    PROVE  /\ vListInsert(list, t) \in Seq(Task)
           /\ Members(vListInsert(list, t)) = Members(list) \cup {t}
           /\ NoneTwice(list) /\ t \notin Members(list) => NoneTwice(vListInsert(list, t))
           /\ Sorted(list) /\ (\A u \in Members(list) \cup {t} :
                                  uxPriority[u] = uxBasePriority[u])
                 => Sorted(vListInsert(list, t))
<1> DEFINE r == vListInsert(list, t)
<1> HIDE DEF r
<1>1. PICK a \in 1 .. Len(list) + 1 :
                 /\ \A i \in 1 .. Len(list) + 1 :
                       r[i] = IF i < a THEN list[i] ELSE IF i = a THEN t ELSE list[i - 1]
                 /\ \A i \in 1 .. a - 1 : uxPriority[list[i]] >= uxPriority[t]
                 /\ a <= Len(list) => uxPriority[list[a]] < uxPriority[t]
  BY InsertIs DEF r
<1>2. r \in Seq(Task) /\ Len(r) = Len(list) + 1
  BY InsertIs DEF r
<1>3. /\ DOMAIN list = 1 .. Len(list) /\ Len(list) \in Nat
      /\ \A i \in 1 .. Len(list) : list[i] \in Task
      /\ DOMAIN r = 1 .. Len(list) + 1
  BY <1>2, LenProperties, ElementOfSeq
(* Where the tasks of r stand in list.                                     *)
<1> DEFINE q(i) == IF i < a THEN i ELSE i - 1
<1>4. ASSUME NEW i \in 1 .. Len(list) + 1, i # a
      PROVE  q(i) \in 1 .. Len(list) /\ r[i] = list[q(i)] /\ (i < a => q(i) < a)
             /\ (i > a => q(i) >= a)
  <2>1. CASE i < a
    BY <1>1, <1>3, <1>4, <2>1
  <2>2. CASE i > a
    BY <1>1, <1>3, <1>4, <2>2
  <2> QED
    BY <1>3, <1>4, <2>1, <2>2
<1>5. r[a] = t
  BY <1>1, <1>3
<1>6. Members(r) = Members(list) \cup {t}
  <2>1. ASSUME NEW u \in Members(r) PROVE u \in Members(list) \cup {t}
    <3>1. PICK i \in 1 .. Len(list) + 1 : u = r[i]
      BY <1>3, <2>1 DEF Members
    <3>2. CASE i = a
      BY <1>5, <3>1, <3>2
    <3>3. CASE i # a
      <4>1. q(i) \in 1 .. Len(list) /\ r[i] = list[q(i)]
        BY <1>4, <3>3
      <4> HIDE DEF q
      <4> QED
        BY <1>3, <3>1, <4>1 DEF Members
    <3> QED
      BY <3>2, <3>3
  <2>2. ASSUME NEW u \in Members(list) \cup {t} PROVE u \in Members(r)
    <3>1. CASE u = t
      BY <1>3, <1>5, <3>1 DEF Members
    <3>2. CASE u \in Members(list)
      <4>1. PICK i \in 1 .. Len(list) : u = list[i]
        BY <1>3, <3>2 DEF Members
      <4> DEFINE k == IF i < a THEN i ELSE i + 1
      <4>2. k \in 1 .. Len(list) + 1 /\ r[k] = list[i]
        <5>1. CASE i < a
          BY <1>1, <1>3, <5>1
        <5>2. CASE i >= a
          <6>1. k = i + 1 /\ k > a /\ k \in 1 .. Len(list) + 1 /\ k - 1 = i
            BY <1>3, <5>2
          <6> HIDE DEF k
          <6> QED
            BY <1>1, <1>3, <6>1
        <5> QED
          BY <1>3, <5>1, <5>2
      <4> HIDE DEF k
      <4> QED
        BY <1>3, <4>1, <4>2 DEF Members
    <3> QED
      BY <2>2, <3>1, <3>2
  <2> QED
    BY <2>1, <2>2
<1>7. ASSUME NoneTwice(list), t \notin Members(list) PROVE NoneTwice(r)
  <2> SUFFICES ASSUME NEW i \in 1 .. Len(list) + 1, NEW j \in 1 .. Len(list) + 1,
                      r[i] = r[j]
               PROVE  i = j
    BY <1>3 DEF NoneTwice
  <2>1. ASSUME NEW k \in 1 .. Len(list) + 1, k # a PROVE r[k] # t
    <3>1. q(k) \in DOMAIN list /\ r[k] = list[q(k)]
      BY <1>3, <1>4, <2>1
    <3> HIDE DEF q
    <3> QED
      BY <1>7, <3>1 DEF Members
  <2>2. CASE i = a \/ j = a
    BY <1>5, <2>1, <2>2
  <2>3. CASE i # a /\ j # a
    <3>1. /\ q(i) \in DOMAIN list /\ r[i] = list[q(i)]
          /\ q(j) \in DOMAIN list /\ r[j] = list[q(j)]
          /\ i < a => q(i) < a
          /\ i > a => q(i) >= a
          /\ j < a => q(j) < a
          /\ j > a => q(j) >= a
      BY <1>3, <1>4, <2>3
    <3>2. q(i) = q(j)
      <4> HIDE DEF q
      <4> QED
        BY <1>7, <3>1 DEF NoneTwice
    <3> QED
      BY <1>3, <2>3, <3>1, <3>2
  <2> QED
    BY <2>2, <2>3
<1>8. ASSUME Sorted(list), \A u \in Members(list) \cup {t} : uxPriority[u] = uxBasePriority[u]
      PROVE  Sorted(r)
  <2>1. /\ \A i \in 1 .. Len(list) : uxBasePriority[list[i]] \in Nat
        /\ uxBasePriority[t] \in Nat
    BY <1>3, MutexAssumption
  <2>2. /\ \A i \in 1 .. Len(list) : uxPriority[list[i]] = uxBasePriority[list[i]]
        /\ uxPriority[t] = uxBasePriority[t]
    BY <1>3, <1>8 DEF Members
  <2>3. ASSUME NEW i \in 1 .. Len(list), i < a
        PROVE  uxBasePriority[list[i]] >= uxBasePriority[t]
    <3>1. i \in 1 .. a - 1
      BY <1>3, <2>3
    <3> QED
      BY <1>1, <2>2, <3>1
  <2>4. ASSUME NEW i \in 1 .. Len(list), i >= a
        PROVE  uxBasePriority[t] >= uxBasePriority[list[i]]
    <3>1. a \in 1 .. Len(list) /\ a <= Len(list)
      BY <1>3, <2>4
    <3>2. uxBasePriority[list[a]] < uxBasePriority[t]
      BY <1>1, <2>2, <3>1
    <3>3. uxBasePriority[list[a]] >= uxBasePriority[list[i]]
      BY <1>3, <1>8, <2>4, <3>1 DEF Sorted
    <3> QED
      BY <2>1, <3>1, <3>2, <3>3
  <2> SUFFICES ASSUME NEW i \in 1 .. Len(list) + 1, NEW j \in 1 .. Len(list) + 1, i <= j
               PROVE  uxBasePriority[r[i]] >= uxBasePriority[r[j]]
    BY <1>3 DEF Sorted
  <2>5. CASE i = a /\ j = a
    BY <1>5, <2>1, <2>5
  <2>6. CASE i = a /\ j # a
    <3>1. q(j) \in 1 .. Len(list) /\ r[j] = list[q(j)] /\ q(j) >= a
      BY <1>3, <1>4, <2>6
    <3> HIDE DEF q
    <3> QED
      BY <1>5, <2>4, <2>6, <3>1
  <2>7. CASE i # a /\ j = a
    <3>1. q(i) \in 1 .. Len(list) /\ r[i] = list[q(i)] /\ q(i) < a
      BY <1>3, <1>4, <2>7
    <3> HIDE DEF q
    <3> QED
      BY <1>5, <2>3, <2>7, <3>1
  <2>8. CASE i # a /\ j # a
    <3>1. /\ q(i) \in 1 .. Len(list) /\ r[i] = list[q(i)]
          /\ q(j) \in 1 .. Len(list) /\ r[j] = list[q(j)]
      BY <1>4, <2>8
    <3>2. q(i) <= q(j)
      BY <1>3, <2>8
    <3> HIDE DEF q
    <3> QED
      BY <1>3, <1>8, <3>1, <3>2 DEF Sorted
  <2> QED
    BY <2>5, <2>6, <2>7, <2>8
<1> QED
  BY <1>2, <1>6, <1>7, <1>8 DEF r


-----------------------------------------------------------------------------
(* The inductive invariant, for tasks that use any mutexes. *)

(* Those who have called xSemaphoreTake.                                   *)
Calling == {"try", "block", "blocked", "recheck", "settle"}

(* A task is in one take, of a mutex it does not hold, or in none.         *)
InCall ==
    \A t \in Task :
        /\ pc[t] \in Calling => mutex[t] \in Uses[t] /\ xMutexHolder[mutex[t]] # t
        /\ pc[t] \notin Calling => /\ mutex[t] = None /\ ~xInheritanceOccurred[t]
                                   /\ xTimeOut[t] = "unset"
        /\ pc[t] = "blocked" => xTimeOut[t] = "running"
        /\ pc[t] = "block" => xTimeOut[t] \in {"running", "expired"} /\ wait[t] # "none"
        /\ xInheritanceOccurred[t] => wait[t] # "none"

(* The event lists hold tasks that are blocked on their mutex, each once.  *)
Queued ==
    \A m \in Mutexes :
        /\ \A t \in Members(waiting[m]) : pc[t] = "blocked" /\ mutex[t] = m
        /\ NoneTwice(waiting[m])

(* A held recursive mutex has been counted, and no other.                  *)
Counted ==
    \A m \in Mutexes :
        IF m \in Recursive /\ xMutexHolder[m] # None THEN uxRecursiveCallCount[m] >= 1
                                                     ELSE uxRecursiveCallCount[m] = 0

Held(t) == {m \in Mutexes : xMutexHolder[m] = t}

(* The counts of the held mutexes are right, and finite.                   *)
HeldCounted ==
    \A t \in Task : IsFiniteSet(Held(t)) /\ uxMutexesHeld[t] = Cardinality(Held(t))

PriorityKept ==
    \A t \in Task : /\ uxMutexesHeld[t] = 0 => uxPriority[t] = uxBasePriority[t]
                    /\ uxPriority[t] >= uxBasePriority[t]

Inv ==
    TypeOK /\ InCall /\ Queued /\ Counted /\ HeldCounted /\ PriorityKept /\ GiveReachesWaiter

(* The application does not change the mutexes its tasks use.              *)
LEMMA UsesFixed == [Next]_vars => UNCHANGED Uses
BY DEF Next, vars, Begin, TakeAgain, xQueueSemaphoreTake, Block, Recheck, Settle, Give,
       GiveInner, vTaskDelay, xTaskIncrementTick

(* The running task goes on, or the system stops, or a highest one runs.   *)
Runs ==
    \/ pxCurrentTCB' = pxCurrentTCB
    \/ pxCurrentTCB' = None
    \/ pxCurrentTCB' \in HighestPriorityReady'

(* All ready tasks have their bit, so the selection is right if it finds   *)
(* any task.                                                               *)
LEMMA YieldsToTask ==
    ASSUME NEW required, YieldIf(required)
    PROVE  /\ Runs /\ uxTopReadyPriority' = ReadyBits
           /\ required => pxCurrentTCB' = None \/ pxCurrentTCB' \in HighestPriorityReady'
<1>1. CASE ~required
  BY <1>1 DEF YieldIf, Runs
<1>2. CASE required
  <2>1. /\ uxTopReadyPriority' = ReadyBits
        /\ pxCurrentTCB' \in taskSELECT_HIGHEST_PRIORITY_TASK'
    BY <1>2 DEF YieldIf
  <2>2. \A u \in Task : Ready(u)' => uxPriority'[u] \in uxTopReadyPriority'
    BY <2>1 DEF ReadyBits, ReadyPriorities
  <2>3. \/ pxCurrentTCB' = None
        \/ /\ pxCurrentTCB' \in Task /\ Ready(pxCurrentTCB)'
           /\ \A p \in uxTopReadyPriority' : p <= uxPriority'[pxCurrentTCB']
    BY <2>1 DEF taskSELECT_HIGHEST_PRIORITY_TASK
  <2> QED
    BY <2>1, <2>2, <2>3 DEF Runs, HighestPriorityReady
<1> QED
  BY <1>1, <1>2

LEMMA NoneIsNone == None \notin Task /\ None \notin Mutexes
BY MutexAssumption

(* What a task may hold is among what it uses, where it matters: a task in *)
(* a call names a mutex.                                                   *)
LEMMA CallersMutex ==
    ASSUME TypeOK, InCall, NEW t \in Task, pc[t] \in Calling
    PROVE  mutex[t] \in Mutexes /\ mutex[t] # None
<1>1. Uses[t] \subseteq Mutexes
  BY MutexAssumption DEF TypeOK
<1> QED
  BY <1>1, NoneIsNone DEF InCall

LEMMA HolderHolds ==
    ASSUME TypeOK, HeldCounted, NEW m \in Mutexes, xMutexHolder[m] # None
    PROVE  /\ xMutexHolder[m] \in Task
           /\ uxMutexesHeld[xMutexHolder[m]] \in Nat /\ uxMutexesHeld[xMutexHolder[m]] >= 1
<1>1. xMutexHolder[m] \in Task /\ uxMutexesHeld[xMutexHolder[m]] \in Nat
  BY DEF TypeOK
<1> DEFINE H == Held(xMutexHolder[m])
<1>2. m \in H
  BY DEF Held
<1>3. IsFiniteSet(H) /\ uxMutexesHeld[xMutexHolder[m]] = Cardinality(H)
  BY <1>1 DEF HeldCounted
<1> HIDE DEF H
<1>4. Cardinality(H) # 0
  BY <1>2, <1>3, FS_EmptySet
<1> QED
  BY <1>1, <1>3, <1>4

-----------------------------------------------------------------------------
(* Types *)

LEMMA PriorityTypes ==
    ASSUME TypeOK
    PROVE  /\ \A h, t \in Task : Inherited(h, t) \in [Task -> Nat]
           /\ \A t \in Task : Disinherited(t) \in [Task -> Nat]
           /\ \A m \in Mutexes : DisinheritedAfterTimeout(m) \in [Task -> Nat]
<1>1. uxPriority \in [Task -> Nat] /\ uxBasePriority \in [Task -> Nat]
  BY MutexAssumption DEF TypeOK
<1>2. \A m \in Mutexes : HighestWaiting(m) \in Nat
  <2>1. \A m \in Mutexes : waiting[m] \in Seq(Task)
    BY DEF TypeOK
  <2>2. \A m \in Mutexes : waiting[m] # <<>> => Head(waiting[m]) \in Task
    BY <2>1, HeadTailProperties
  <2> QED
    BY <1>1, <2>2 DEF HighestWaiting
<1>3. \A p, q \in Nat : Higher(p, q) \in Nat
  BY DEF Higher
<1>4. \A h, t \in Task : Inherited(h, t) \in [Task -> Nat]
  BY <1>1, <1>3 DEF Inherited
<1>5. \A t \in Task : Disinherited(t) \in [Task -> Nat]
  BY <1>1 DEF Disinherited
<1>6. \A m \in Mutexes : DisinheritedAfterTimeout(m) \in [Task -> Nat]
  BY <1>1, <1>2, <1>3 DEF DisinheritedAfterTimeout
<1> QED
  BY <1>4, <1>5, <1>6

LEMMA BitTypes ==
    ASSUME TypeOK, uxPriority' \in [Task -> Nat],
           uxTopReadyPriority' \in {uxTopReadyPriority, ReadyBits,
                                    uxTopReadyPriority \cup ReadyPriorities'}
    PROVE  uxTopReadyPriority' \subseteq Nat
<1>1. ReadyPriorities' \subseteq Nat
  BY DEF ReadyPriorities
<1> QED
  BY <1>1 DEF TypeOK, ReadyBits

LEMMA TypesStep == ASSUME Inv, [Next]_vars PROVE TypeOK'
<1> USE DEF Inv
<1>0. UNCHANGED Uses
  BY UsesFixed
<1> USE <1>0
<1>1. TypeOK /\ InCall /\ Queued /\ Counted /\ HeldCounted
  OBVIOUS
<1>2. \A m \in Mutexes : waiting[m] \in Seq(Task)
  BY DEF TypeOK
<1>3. \A m \in Mutexes : waiting[m] # <<>> =>
         Tail(waiting[m]) \in Seq(Task) /\ Head(waiting[m]) \in Task
  BY <1>2, HeadTailProperties
<1>4. ASSUME NEW t \in Task, Begin(t) PROVE TypeOK'
  <2>1. PICK m \in Uses[t], w \in Waits : /\ mutex' = [mutex EXCEPT ![t] = m]
                                          /\ wait' = [wait EXCEPT ![t] = w]
    BY <1>4 DEF Begin
  <2>2. m \in Mutexes /\ w \in {"none", "finite", "forever"}
    BY MutexAssumption DEF TypeOK
  <2> QED
    BY <1>4, <2>1, <2>2 DEF Begin, TypeOK, Goto
<1>5. ASSUME NEW t \in Task, TakeAgain(t) PROVE TypeOK'
  <2>1. PICK m \in Recursive : /\ uxRecursiveCallCount[m] < MaxDepth
                               /\ uxRecursiveCallCount' = [uxRecursiveCallCount EXCEPT ![m] = @ + 1]
    BY <1>5 DEF TakeAgain
  <2>2. m \in Mutexes /\ MaxDepth \in Nat
    BY MutexAssumption
  <2>3. uxRecursiveCallCount' \in [Mutexes -> 0 .. MaxDepth]
    BY <2>1, <2>2 DEF TypeOK
  <2> QED
    BY <1>5, <2>3 DEF TakeAgain, TypeOK
<1>6. ASSUME NEW t \in Task, xQueueSemaphoreTake(t) PROVE TypeOK'
  <2>1. mutex[t] \in Mutexes
    BY <1>6, CallersMutex DEF xQueueSemaphoreTake, Calling
  <2>2. uxRecursiveCallCount' \in [Mutexes -> 0 .. MaxDepth]
    <3>1. MaxDepth \in Nat /\ MaxDepth >= 1
      BY MutexAssumption
    <3>2. xMutexHolder[mutex[t]] = None => uxRecursiveCallCount[mutex[t]] = 0
      BY <2>1 DEF Counted
    <3>3. FirstTake(mutex[t]) \in 0 .. 1
      BY DEF FirstTake
    <3>4. uxRecursiveCallCount \in [Mutexes -> 0 .. MaxDepth]
      BY DEF TypeOK
    <3>5. CASE /\ xMutexHolder[mutex[t]] = None
               /\ uxRecursiveCallCount' = [uxRecursiveCallCount EXCEPT ![mutex[t]] =
                                             @ + FirstTake(mutex[t])]
      <4>1. uxRecursiveCallCount[mutex[t]] + FirstTake(mutex[t]) \in 0 .. MaxDepth
        BY <3>1, <3>2, <3>3, <3>5
      <4> QED
        BY <2>1, <3>4, <3>5, <4>1
    <3>6. CASE UNCHANGED uxRecursiveCallCount
      BY <3>4, <3>6
    <3> QED
      BY <1>6, <3>5, <3>6 DEF xQueueSemaphoreTake
  <2>3. xMutexHolder' \in [Mutexes -> Task \cup {None}] /\ uxMutexesHeld' \in [Task -> Nat]
    <3>1. CASE /\ xMutexHolder' = [xMutexHolder EXCEPT ![mutex[t]] = t]
               /\ uxMutexesHeld' = [uxMutexesHeld EXCEPT ![t] = @ + 1]
      BY <2>1, <3>1 DEF TypeOK
    <3>2. CASE UNCHANGED <<xMutexHolder, uxMutexesHeld>>
      BY <3>2 DEF TypeOK
    <3> QED
      BY <1>6, <3>1, <3>2 DEF xQueueSemaphoreTake
  <2>4. /\ pc' \in [Task -> Calling \cup {"app", "asleep"}]
        /\ mutex' \in [Task -> Mutexes \cup {None}]
        /\ wait' \in [Task -> {"none", "finite", "forever"}]
        /\ xTimeOut' \in [Task -> {"unset", "running", "expired", "passed"}]
        /\ xInheritanceOccurred' \in [Task -> BOOLEAN]
    <3>1. CASE Return(t)
      BY <3>1 DEF TypeOK, Return, Goto, Calling
    <3>2. CASE /\ xTimeOut' = [xTimeOut EXCEPT ![t] = IF @ = "unset" THEN "running" ELSE @]
               /\ Goto(t, "block")
               /\ UNCHANGED <<mutex, wait, xInheritanceOccurred>>
      BY <3>2 DEF TypeOK, Goto, Calling
    <3>3. CASE UNCHANGED <<pc, mutex, wait, xTimeOut, xInheritanceOccurred>>
      BY <3>3 DEF TypeOK, Calling
    <3> QED
      BY <1>6, <3>1, <3>2, <3>3 DEF xQueueSemaphoreTake
  <2>5. pxCurrentTCB' \in Task \cup {None}
    BY <1>6 DEF xQueueSemaphoreTake
  <2> QED
    BY <1>6, <2>2, <2>3, <2>4, <2>5 DEF xQueueSemaphoreTake, TypeOK, Calling
<1>7. ASSUME NEW t \in Task, Block(t) PROVE TypeOK'
  <2>1. mutex[t] \in Mutexes
    BY <1>7, CallersMutex DEF Block, Calling
  <2>2. xMutexHolder[mutex[t]] # None => xMutexHolder[mutex[t]] \in Task
    BY <2>1 DEF TypeOK
  <2>3. uxPriority' \in [Task -> Nat]
    <3>1. \/ UNCHANGED uxPriority
          \/ /\ xMutexHolder[mutex[t]] # None
             /\ uxPriority' = Inherited(xMutexHolder[mutex[t]], t)
      BY <1>7 DEF Block
    <3>2. uxPriority \in [Task -> Nat]
      BY DEF TypeOK
    <3> QED
      BY <2>2, <3>1, <3>2, PriorityTypes
  <2>4. waiting' \in [Mutexes -> Seq(Task)]
    <3>1. vListInsert(waiting[mutex[t]], t) \in Seq(Task)
      BY <1>2, <2>1, InsertFacts DEF TypeOK
    <3> QED
      BY <1>7, <3>1 DEF Block, TypeOK
  <2>5. pxCurrentTCB' \in Task \cup {None} /\ uxTopReadyPriority' \subseteq Nat
    <3>1. Runs /\ uxTopReadyPriority' \in {uxTopReadyPriority, ReadyBits}
      BY <1>7, YieldsToTask DEF Block, Runs
    <3> QED
      BY <2>3, <3>1, BitTypes DEF Runs, HighestPriorityReady, TypeOK
  <2>6. xInheritanceOccurred' \in [Task -> BOOLEAN]
    <3>1. \A h : Inherits(h, t) \in BOOLEAN
      BY DEF Inherits
    <3> QED
      BY <1>7, <3>1 DEF Block, TypeOK
  <2> QED
    BY <1>7, <2>3, <2>4, <2>5, <2>6 DEF Block, TypeOK, Goto
<1>8. ASSUME NEW t \in Task, Recheck(t) PROVE TypeOK'
  BY <1>8 DEF Recheck, TypeOK, Return, Goto
<1>9. ASSUME NEW t \in Task, Settle(t) PROVE TypeOK'
  <2>1. mutex[t] \in Mutexes
    BY <1>9, CallersMutex DEF Settle, Calling
  <2>2. uxPriority' \in [Task -> Nat]
    BY <1>9, <2>1, PriorityTypes DEF Settle
  <2>3. uxTopReadyPriority' \subseteq Nat
    BY <1>9, <2>2, BitTypes DEF Settle
  <2> QED
    BY <1>9, <2>2, <2>3 DEF Settle, TypeOK, Return, Goto
<1>10. ASSUME NEW t \in Task, Give(t) PROVE TypeOK'
  <2>1. PICK m \in Mutexes :
          /\ xMutexHolder[m] = t
          /\ xMutexHolder' = [xMutexHolder EXCEPT ![m] = None]
          /\ uxRecursiveCallCount' = [uxRecursiveCallCount EXCEPT ![m] = 0]
          /\ uxPriority' = Disinherited(t)
          /\ IF Wakes(t, m)
               THEN /\ waiting' = [waiting EXCEPT ![m] = Tail(@)]
                    /\ Goto(Head(waiting[m]), "try")
               ELSE UNCHANGED <<waiting, pc>>
          /\ YieldIf(GiveYields(t, m))
    BY <1>10 DEF Give
  <2>2. uxMutexesHeld' \in [Task -> Nat]
    <3>1. uxMutexesHeld[t] \in Nat /\ uxMutexesHeld[t] >= 1
      BY <2>1, HolderHolds, NoneIsNone
    <3> QED
      BY <1>10, <3>1 DEF Give, TypeOK
  <2>3. uxRecursiveCallCount' \in [Mutexes -> 0 .. MaxDepth]
    <3>1. MaxDepth \in Nat
      BY MutexAssumption
    <3> QED
      BY <2>1, <3>1 DEF TypeOK
  <2>4. waiting' \in [Mutexes -> Seq(Task)] /\ pc' \in [Task -> Calling \cup {"app", "asleep"}]
    <3>1. CASE Wakes(t, m)
      <4>1. Head(waiting[m]) \in Task /\ Tail(waiting[m]) \in Seq(Task)
        BY <1>3, <3>1 DEF Wakes
      <4>2. /\ waiting' = [waiting EXCEPT ![m] = Tail(@)]
            /\ pc' = [pc EXCEPT ![Head(waiting[m])] = "try"]
        BY <2>1, <3>1 DEF Goto
      <4> QED
        BY <4>1, <4>2 DEF TypeOK, Calling
    <3>2. CASE ~Wakes(t, m)
      BY <2>1, <3>2 DEF TypeOK, Calling
    <3> QED
      BY <3>1, <3>2
  <2>5. uxPriority' \in [Task -> Nat]
    BY <2>1, PriorityTypes
  <2>6. pxCurrentTCB' \in Task \cup {None} /\ uxTopReadyPriority' \subseteq Nat
    <3>1. Runs /\ uxTopReadyPriority' = ReadyBits
      BY <2>1, YieldsToTask
    <3> QED
      BY <2>5, <3>1, BitTypes DEF Runs, HighestPriorityReady, TypeOK
  <2>7. xMutexHolder' \in [Mutexes -> Task \cup {None}]
    BY <2>1 DEF TypeOK
  <2> QED
    BY <1>10, <2>2, <2>3, <2>4, <2>5, <2>6, <2>7 DEF Give, TypeOK, Calling
<1>11. ASSUME NEW t \in Task, GiveInner(t) PROVE TypeOK'
  <2>1. PICK m \in Recursive :
               /\ xMutexHolder[m] = t /\ uxRecursiveCallCount[m] # 1
               /\ uxRecursiveCallCount' = [uxRecursiveCallCount EXCEPT ![m] = @ - 1]
    BY <1>11 DEF GiveInner
  <2>2. m \in Mutexes /\ MaxDepth \in Nat
    BY MutexAssumption
  <2>3. uxRecursiveCallCount[m] >= 1
    BY <2>1, <2>2, NoneIsNone DEF Counted
  <2>4. uxRecursiveCallCount' \in [Mutexes -> 0 .. MaxDepth]
    BY <2>1, <2>2, <2>3 DEF TypeOK
  <2> QED
    BY <1>11, <2>4 DEF GiveInner, TypeOK
<1>12. ASSUME NEW t \in Task, vTaskDelay(t) PROVE TypeOK'
  <2>1. pxCurrentTCB' \in Task \cup {None} /\ uxTopReadyPriority' \subseteq Nat
    <3>1. Runs /\ uxTopReadyPriority' = ReadyBits /\ UNCHANGED uxPriority
      BY <1>12, YieldsToTask DEF vTaskDelay
    <3> QED
      BY <3>1, BitTypes DEF Runs, HighestPriorityReady, TypeOK
  <2> QED
    BY <1>12, <2>1 DEF vTaskDelay, TypeOK, Goto
<1>13. ASSUME xTaskIncrementTick PROVE TypeOK'
  <2>1. pxCurrentTCB' \in Task \cup {None} /\ uxTopReadyPriority' \subseteq Nat
    <3>1. Runs /\ uxTopReadyPriority' = ReadyBits /\ UNCHANGED uxPriority
      BY <1>13, YieldsToTask DEF xTaskIncrementTick
    <3> QED
      BY <3>1, BitTypes DEF Runs, HighestPriorityReady, TypeOK
  <2>2. waiting' \in [Mutexes -> Seq(Task)]
    <3>1. PICK E : waiting' = [m \in Mutexes |-> Without(waiting[m], E)]
      BY <1>13 DEF xTaskIncrementTick
    <3>2. \A m \in Mutexes : Without(waiting[m], E) \in Seq(Task)
      BY <1>2, WithoutFacts
    <3> QED
      BY <3>1, <3>2
  <2> QED
    BY <1>13, <2>1, <2>2 DEF xTaskIncrementTick, TypeOK
<1>14. CASE UNCHANGED vars
  BY <1>14 DEF vars, TypeOK
<1> QED
  BY <1>4, <1>5, <1>6, <1>7, <1>8, <1>9, <1>10, <1>11, <1>12, <1>13, <1>14 DEF Next


-----------------------------------------------------------------------------
(* Calls and event lists *)

(* What each step does to the calls of the tasks.                          *)
LEMMA CallsStep == ASSUME Inv, [Next]_vars PROVE InCall'
<1> USE DEF Inv
<1>0. UNCHANGED Uses
  BY UsesFixed
<1> USE <1>0
<1>1. TypeOK /\ InCall /\ Queued
  OBVIOUS
<1>2. \A u \in Task : pc[u] \in Calling => mutex[u] \in Mutexes /\ mutex[u] # None
  BY CallersMutex
<1>3. \A m \in Mutexes : waiting[m] # <<>> =>
         /\ Head(waiting[m]) \in Task /\ Head(waiting[m]) \in Members(waiting[m])
         /\ pc[Head(waiting[m])] = "blocked" /\ mutex[Head(waiting[m])] = m
  <2>1. \A m \in Mutexes : waiting[m] \in Seq(Task)
    BY DEF TypeOK
  <2> QED
    BY <2>1, TailFacts, HeadTailProperties DEF Queued
<1>4. ASSUME NEW t \in Task, Begin(t) PROVE InCall'
  <2>1. PICK m \in Uses[t], w \in Waits : /\ xMutexHolder[m] # t
                                          /\ mutex' = [mutex EXCEPT ![t] = m]
                                          /\ wait' = [wait EXCEPT ![t] = w]
    BY <1>4 DEF Begin
  <2>2. /\ pc[t] = "app" /\ pc' = [pc EXCEPT ![t] = "try"]
        /\ UNCHANGED <<xMutexHolder, xTimeOut, xInheritanceOccurred>>
    BY <1>4 DEF Begin, Goto
  <2> QED
    BY <2>1, <2>2 DEF InCall, TypeOK, Calling
<1>5. ASSUME NEW t \in Task, TakeAgain(t) \/ GiveInner(t) PROVE InCall'
  <2>1. UNCHANGED <<pc, mutex, wait, xTimeOut, xInheritanceOccurred, xMutexHolder>>
    BY <1>5 DEF TakeAgain, GiveInner
  <2> QED
    BY <2>1 DEF InCall
<1>6. ASSUME NEW t \in Task, Return(t),
             \/ UNCHANGED xMutexHolder
             \/ \E m \in Mutexes : /\ xMutexHolder[m] = None
                                   /\ xMutexHolder' = [xMutexHolder EXCEPT ![m] = t]
      PROVE  InCall'
  <2>1. \A u \in Task : u # t =>
          /\ pc'[u] = pc[u] /\ mutex'[u] = mutex[u] /\ wait'[u] = wait[u]
          /\ xTimeOut'[u] = xTimeOut[u] /\ xInheritanceOccurred'[u] = xInheritanceOccurred[u]
    BY <1>6 DEF Return, Goto, TypeOK
  <2>2. /\ pc'[t] = "app" /\ mutex'[t] = None /\ wait'[t] = "none"
        /\ xTimeOut'[t] = "unset" /\ xInheritanceOccurred'[t] = FALSE
    BY <1>6 DEF Return, Goto, TypeOK
  <2>3. \A u \in Task : u # t /\ pc[u] \in Calling => xMutexHolder'[mutex[u]] # u
    BY <1>2, <1>6 DEF InCall, TypeOK
  <2>4. ASSUME NEW u \in Task PROVE InCall!(u)'
    <3>1. CASE u = t
      BY <2>2, <3>1 DEF Calling
    <3>2. CASE u # t
      BY <2>1, <2>3, <3>2 DEF InCall
    <3> QED
      BY <3>1, <3>2
  <2> QED
    BY <2>4 DEF InCall
<1>7. ASSUME NEW t \in Task, xQueueSemaphoreTake(t) PROVE InCall'
  <2>1. mutex[t] \in Mutexes
    BY <1>2, <1>7 DEF xQueueSemaphoreTake, Calling
  <2>2. CASE Return(t)
    BY <1>6, <1>7, <2>1, <2>2 DEF xQueueSemaphoreTake
  <2>3. CASE UNCHANGED <<pc, mutex, wait, xTimeOut, xInheritanceOccurred, xMutexHolder>>
    BY <2>3 DEF InCall
  <2>4. CASE /\ ~Return(t)
             /\ ~UNCHANGED <<pc, mutex, wait, xTimeOut, xInheritanceOccurred, xMutexHolder>>
    <3>1. /\ pc[t] = "try" /\ wait[t] # "none" /\ xTimeOut[t] # "passed"
          /\ xTimeOut' = [xTimeOut EXCEPT ![t] = IF @ = "unset" THEN "running" ELSE @]
          /\ pc' = [pc EXCEPT ![t] = "block"]
          /\ UNCHANGED <<mutex, wait, xInheritanceOccurred, xMutexHolder>>
      BY <1>7, <2>4 DEF xQueueSemaphoreTake, Goto, GivesUp
    <3> QED
      BY <3>1 DEF InCall, TypeOK, Calling
  <2> QED
    BY <2>2, <2>3, <2>4
<1>8. ASSUME NEW t \in Task, Block(t) PROVE InCall'
  <2>1. /\ pc[t] = "block" /\ pc' \in {[pc EXCEPT ![t] = "recheck"], [pc EXCEPT ![t] = "try"],
                                       [pc EXCEPT ![t] = "blocked"]}
        /\ pc' = [pc EXCEPT ![t] = "blocked"] => UNCHANGED xTimeOut /\ xTimeOut[t] = "running"
        /\ xTimeOut' = xTimeOut \/ xTimeOut' = [xTimeOut EXCEPT ![t] = "passed"]
        /\ UNCHANGED <<mutex, wait, xMutexHolder>>
        /\ \A u \in Task : u # t => xInheritanceOccurred'[u] = xInheritanceOccurred[u]
    BY <1>8 DEF Block, Goto, TypeOK
  <2>2. wait[t] # "none"
    BY <2>1 DEF InCall
  <2>3. /\ pc'[t] \in {"recheck", "try", "blocked"}
        /\ pc'[t] = "blocked" => xTimeOut'[t] = "running"
        /\ \A u \in Task : u # t => pc'[u] = pc[u] /\ xTimeOut'[u] = xTimeOut[u]
    BY <2>1 DEF TypeOK
  <2>4. ASSUME NEW u \in Task PROVE InCall!(u)'
    <3>1. CASE u = t
      BY <2>1, <2>2, <2>3, <3>1 DEF InCall, Calling
    <3>2. CASE u # t
      BY <2>1, <2>3, <3>2 DEF InCall
    <3> QED
      BY <3>1, <3>2
  <2> QED
    BY <2>4 DEF InCall
<1>9. ASSUME NEW t \in Task, Recheck(t) PROVE InCall'
  <2>1. CASE Return(t)
    BY <1>6, <1>9, <2>1 DEF Recheck
  <2>2. CASE ~Return(t)
    <3>1. /\ pc[t] = "recheck"
          /\ pc' \in {[pc EXCEPT ![t] = "try"], [pc EXCEPT ![t] = "settle"]}
          /\ UNCHANGED <<mutex, wait, xTimeOut, xInheritanceOccurred, xMutexHolder>>
      BY <1>9, <2>2 DEF Recheck, Goto
    <3> QED
      BY <3>1 DEF InCall, TypeOK, Calling
  <2> QED
    BY <2>1, <2>2
<1>10. ASSUME NEW t \in Task, Settle(t) PROVE InCall'
  BY <1>6, <1>10 DEF Settle
<1>11. ASSUME NEW t \in Task, Give(t) PROVE InCall'
  <2>1. PICK m \in Mutexes :
          /\ xMutexHolder' = [xMutexHolder EXCEPT ![m] = None]
          /\ \/ waiting[m] # <<>> /\ pc' = [pc EXCEPT ![Head(waiting[m])] = "try"]
             \/ UNCHANGED pc
    BY <1>11 DEF Give, Goto, Wakes
  <2>2. UNCHANGED <<mutex, wait, xTimeOut, xInheritanceOccurred>>
    BY <1>11 DEF Give
  <2>3. \A u \in Task : /\ pc'[u] \in Calling <=> pc[u] \in Calling
                        /\ pc'[u] = pc[u] \/ pc'[u] = "try"
    BY <1>3, <2>1 DEF TypeOK, Calling
  <2>4. \A u \in Task : pc[u] \in Calling => xMutexHolder'[mutex[u]] # u
    BY <1>2, <2>1, NoneIsNone DEF InCall, TypeOK
  <2> QED
    BY <2>2, <2>3, <2>4 DEF InCall, Calling
<1>12. ASSUME NEW t \in Task, vTaskDelay(t) PROVE InCall'
  <2>1. /\ pc[t] = "app" /\ pc' = [pc EXCEPT ![t] = "asleep"]
        /\ UNCHANGED <<mutex, wait, xTimeOut, xInheritanceOccurred, xMutexHolder>>
    BY <1>12 DEF vTaskDelay, Goto
  <2> QED
    BY <2>1 DEF InCall, TypeOK, Calling
<1>13. ASSUME xTaskIncrementTick PROVE InCall'
  <2>1. PICK E \in SUBSET {t \in Task : Timed(t)} :
           /\ pc' = [t \in Task |-> IF t \in E /\ pc[t] = "asleep" THEN "app"
                                ELSE IF t \in E /\ pc[t] = "blocked" THEN "try" ELSE pc[t]]
           /\ xTimeOut' = [t \in Task |-> IF t \in E /\ pc[t] # "asleep" THEN "expired"
                                      ELSE xTimeOut[t]]
           /\ UNCHANGED <<mutex, wait, xInheritanceOccurred, xMutexHolder>>
    BY <1>13 DEF xTaskIncrementTick
  <2>2. ASSUME NEW u \in Task
        PROVE  /\ pc'[u] \in Calling <=> pc[u] \in Calling
               /\ pc'[u] = pc[u] \/ pc'[u] \in {"app", "try"}
               /\ xTimeOut'[u] = xTimeOut[u] \/ (xTimeOut'[u] = "expired" /\ pc[u] \in Calling)
               /\ pc'[u] = "blocked" => xTimeOut'[u] = xTimeOut[u]
               /\ pc'[u] = "block" => xTimeOut'[u] \in {"running", "expired"}
    <3>1. u \in E => Timed(u)
      BY <2>1
    <3>2. u \in E /\ pc[u] # "asleep" => pc[u] \in Calling
      BY <3>1 DEF Timed, InCall
    <3> QED
      BY <2>1, <3>2 DEF TypeOK, Calling, InCall
  <2> QED
    BY <2>1, <2>2 DEF InCall, Calling
<1>14. CASE UNCHANGED vars
  BY <1>14 DEF vars, InCall
<1> QED
  BY <1>4, <1>5, <1>7, <1>8, <1>9, <1>10, <1>11, <1>12, <1>13, <1>14 DEF Next

(* A step that leaves the event lists, and the tasks in them, alone.       *)
LEMMA QueuedKept ==
    ASSUME TypeOK, Queued, NEW t \in Task, pc[t] # "blocked", UNCHANGED waiting,
           \A u \in Task : u # t => pc'[u] = pc[u] /\ mutex'[u] = mutex[u]
    PROVE  Queued'
<1>1. \A m \in Mutexes : waiting[m] \in Seq(Task)
  BY DEF TypeOK
<1>2. \A m \in Mutexes : \A u \in Members(waiting[m]) : u \in Task /\ u # t
  BY <1>1, LenProperties, ElementOfSeq DEF Members, Queued
<1> QED
  BY <1>2 DEF Queued

LEMMA QueuedStep == ASSUME Inv, [Next]_vars PROVE Queued'
<1> USE DEF Inv
<1>1. TypeOK /\ InCall /\ Queued
  OBVIOUS
<1>2. /\ \A m \in Mutexes : waiting[m] \in Seq(Task)
      /\ \A m \in Mutexes : \A u \in Members(waiting[m]) : u \in Task
      /\ \A m \in Mutexes : NoneTwice(waiting[m])
  <2>1. \A m \in Mutexes : waiting[m] \in Seq(Task)
    BY DEF TypeOK
  <2> QED
    BY <2>1, LenProperties, ElementOfSeq DEF Members, Queued
<1>3. ASSUME NEW t \in Task, Begin(t) \/ Recheck(t) \/ Settle(t) \/ vTaskDelay(t)
             \/ TakeAgain(t) \/ GiveInner(t) \/ xQueueSemaphoreTake(t)
      PROVE  Queued'
  <2>1. pc[t] # "blocked" /\ UNCHANGED waiting
    BY <1>3 DEF Begin, Recheck, Settle, vTaskDelay, TakeAgain, GiveInner, xQueueSemaphoreTake
  <2>2. \A u \in Task : u # t => pc'[u] = pc[u]
    BY <1>3 DEF Begin, Recheck, Settle, vTaskDelay, TakeAgain, GiveInner, xQueueSemaphoreTake,
                Return, Goto, TypeOK
  <2>3. \A u \in Task : u # t => mutex'[u] = mutex[u]
    BY <1>3 DEF Begin, Recheck, Settle, vTaskDelay, TakeAgain, GiveInner, xQueueSemaphoreTake,
                Return, TypeOK
  <2> QED
    BY <2>1, <2>2, <2>3, QueuedKept
<1>4. ASSUME NEW t \in Task, Block(t) PROVE Queued'
  <2>1. CASE UNCHANGED waiting
    <3>1. pc[t] # "blocked" /\ \A u \in Task : u # t => pc'[u] = pc[u] /\ mutex'[u] = mutex[u]
      BY <1>4 DEF Block, Goto, TypeOK
    <3> QED
      BY <2>1, <3>1, QueuedKept
  <2>2. CASE ~UNCHANGED waiting
    <3>1. /\ pc[t] = "block" /\ UNCHANGED mutex
          /\ waiting' = [waiting EXCEPT ![mutex[t]] = vListInsert(@, t)]
          /\ pc' = [pc EXCEPT ![t] = "blocked"]
      BY <1>4, <2>2 DEF Block, Goto
    <3>2. mutex[t] \in Mutexes
      BY <3>1, CallersMutex DEF Calling
    <3>3. \A m \in Mutexes : t \notin Members(waiting[m])
      BY <3>1 DEF Queued
    <3>4. /\ Members(vListInsert(waiting[mutex[t]], t)) = Members(waiting[mutex[t]]) \cup {t}
          /\ NoneTwice(vListInsert(waiting[mutex[t]], t))
      BY <1>2, <3>2, <3>3, InsertFacts DEF TypeOK
    <3>5. ASSUME NEW m \in Mutexes PROVE Queued!(m)'
      <4>1. CASE m = mutex[t]
        <5>1. waiting'[m] = vListInsert(waiting[mutex[t]], t)
          BY <3>1, <3>2, <4>1 DEF TypeOK
        <5>2. Members(waiting'[m]) = Members(waiting[m]) \cup {t} /\ NoneTwice(waiting'[m])
          BY <3>4, <4>1, <5>1
        <5>3. \A u \in Members(waiting[m]) : pc'[u] = "blocked" /\ mutex'[u] = m
          BY <1>2, <3>1, <3>3 DEF Queued, TypeOK
        <5>4. pc'[t] = "blocked" /\ mutex'[t] = m
          BY <3>1, <4>1 DEF TypeOK
        <5> QED
          BY <5>2, <5>3, <5>4
      <4>2. CASE m # mutex[t]
        <5>1. waiting'[m] = waiting[m]
          BY <3>1, <4>2 DEF TypeOK
        <5>2. \A u \in Members(waiting[m]) : pc'[u] = "blocked" /\ mutex'[u] = m
          BY <1>2, <3>1, <3>3 DEF Queued, TypeOK
        <5> QED
          BY <1>2, <5>1, <5>2
      <4> QED
        BY <4>1, <4>2
    <3> QED
      BY <3>5 DEF Queued
  <2> QED
    BY <2>1, <2>2
<1>5. ASSUME NEW t \in Task, Give(t) PROVE Queued'
  <2>1. PICK m \in Mutexes :
          IF Wakes(t, m)
               THEN /\ waiting' = [waiting EXCEPT ![m] = Tail(@)]
                    /\ Goto(Head(waiting[m]), "try")
               ELSE UNCHANGED <<waiting, pc>>
    BY <1>5 DEF Give
  <2>2. UNCHANGED mutex
    BY <1>5 DEF Give
  <2>3. CASE ~Wakes(t, m)
    BY <2>1, <2>2, <2>3 DEF Queued
  <2>4. CASE Wakes(t, m)
    <3> DEFINE head == Head(waiting[m])
    <3>1. waiting[m] # <<>> /\ waiting[m] \in Seq(Task) /\ NoneTwice(waiting[m])
      BY <1>2, <2>4 DEF Wakes
    <3>2. /\ head \in Members(waiting[m])
          /\ Members(Tail(waiting[m])) = Members(waiting[m]) \ {head}
          /\ NoneTwice(Tail(waiting[m]))
      BY <3>1, TailFacts
    <3>3. /\ waiting' = [waiting EXCEPT ![m] = Tail(@)]
          /\ pc' = [pc EXCEPT ![head] = "try"]
      BY <2>1, <2>4 DEF Goto
    <3> HIDE DEF head
    <3>4. ASSUME NEW n \in Mutexes PROVE Queued!(n)'
      <4>1. /\ Members(waiting'[n]) \subseteq Members(waiting[n]) \ {head}
            /\ NoneTwice(waiting'[n])
        <5>1. CASE n = m
          BY <3>2, <3>3, <5>1 DEF TypeOK
        <5>2. CASE n # m
          <6>1. waiting'[n] = waiting[n] /\ head \notin Members(waiting[n])
            BY <3>2, <3>3, <5>2 DEF TypeOK, Queued
          <6> QED
            BY <1>2, <6>1
        <5> QED
          BY <5>1, <5>2
      <4>2. \A u \in Members(waiting[n]) \ {head} : pc'[u] = "blocked" /\ mutex'[u] = n
        BY <1>2, <2>2, <3>3 DEF TypeOK, Queued
      <4> QED
        BY <4>1, <4>2
    <3> QED
      BY <3>4 DEF Queued
  <2> QED
    BY <2>3, <2>4
<1>6. ASSUME xTaskIncrementTick PROVE Queued'
  <2>1. PICK E \in SUBSET {t \in Task : Timed(t)} :
           /\ pc' = [t \in Task |-> IF t \in E /\ pc[t] = "asleep" THEN "app"
                                ELSE IF t \in E /\ pc[t] = "blocked" THEN "try" ELSE pc[t]]
           /\ waiting' = [m \in Mutexes |-> Without(waiting[m], E)]
           /\ UNCHANGED mutex
    BY <1>6 DEF xTaskIncrementTick
  <2>2. ASSUME NEW m \in Mutexes PROVE Queued!(m)'
    <3>1. waiting'[m] = Without(waiting[m], E) /\ waiting[m] \in Seq(Task)
      BY <1>2, <2>1
    <3>2. Members(waiting'[m]) = Members(waiting[m]) \ E /\ NoneTwice(waiting'[m])
      BY <1>2, <3>1, WithoutFacts
    <3>3. \A u \in Members(waiting[m]) \ E : pc'[u] = "blocked" /\ mutex'[u] = m
      BY <1>2, <2>1 DEF TypeOK, Queued
    <3> QED
      BY <3>2, <3>3
  <2> QED
    BY <2>2 DEF Queued
<1>7. CASE UNCHANGED vars
  BY <1>7 DEF vars, Queued
<1> QED
  BY <1>3, <1>4, <1>5, <1>6, <1>7 DEF Next


-----------------------------------------------------------------------------
(* Counts and priorities *)

(* The mutex that a give returns, and what else the step does.             *)
LEMMA GiveIs ==
    ASSUME TypeOK, NEW t \in Task, Give(t)
    PROVE  /\ pxCurrentTCB = t /\ pc[t] = "app"
           /\ UNCHANGED <<mutex, wait, xTimeOut, xInheritanceOccurred>>
           /\ uxMutexesHeld' = [uxMutexesHeld EXCEPT ![t] = @ - 1]
           /\ uxPriority' = Disinherited(t)
           /\ \E m \in Mutexes :
                 /\ xMutexHolder[m] = t
                 /\ xMutexHolder' = [xMutexHolder EXCEPT ![m] = None]
                 /\ uxRecursiveCallCount' = [uxRecursiveCallCount EXCEPT ![m] = 0]
                 /\ YieldIf(GiveYields(t, m))
                 /\ waiting[m] = <<>> => UNCHANGED <<waiting, pc>>
                 /\ waiting[m] # <<>> =>
                       /\ waiting' = [waiting EXCEPT ![m] = Tail(@)]
                       /\ pc' = [pc EXCEPT ![Head(waiting[m])] = "try"]
BY DEF Give, Goto, Wakes

(* What a take does to the mutex.                                          *)
LEMMA TakeIs ==
    ASSUME NEW t \in Task, xQueueSemaphoreTake(t)
    PROVE  /\ pxCurrentTCB = t /\ pc[t] = "try"
           /\ UNCHANGED <<uxPriority, waiting>>
           /\ pxCurrentTCB' = pxCurrentTCB \/ pxCurrentTCB' = None
           /\ \/ /\ xMutexHolder[mutex[t]] = None
                 /\ xMutexHolder' = [xMutexHolder EXCEPT ![mutex[t]] = t]
                 /\ uxMutexesHeld' = [uxMutexesHeld EXCEPT ![t] = @ + 1]
                 /\ uxRecursiveCallCount' = [uxRecursiveCallCount EXCEPT ![mutex[t]] =
                                                @ + FirstTake(mutex[t])]
                 /\ Return(t)
              \/ /\ xMutexHolder[mutex[t]] # None
                 /\ UNCHANGED <<xMutexHolder, uxMutexesHeld, uxRecursiveCallCount>>
                 /\ ~xInheritanceOccurred[t]
                 /\ Return(t)
              \/ /\ xMutexHolder[mutex[t]] # None
                 /\ UNCHANGED <<xMutexHolder, uxMutexesHeld, uxRecursiveCallCount, pc, mutex,
                                wait, xTimeOut, xInheritanceOccurred>>
              \/ /\ xMutexHolder[mutex[t]] # None
                 /\ UNCHANGED <<xMutexHolder, uxMutexesHeld, uxRecursiveCallCount>>
                 /\ xTimeOut' = [xTimeOut EXCEPT ![t] = IF @ = "unset" THEN "running" ELSE @]
                 /\ pc' = [pc EXCEPT ![t] = "block"]
                 /\ UNCHANGED <<mutex, wait, xInheritanceOccurred>>
BY DEF xQueueSemaphoreTake, Goto

LEMMA CountedStep == ASSUME Inv, [Next]_vars PROVE Counted'
<1> USE DEF Inv
<1>1. /\ TypeOK /\ Counted /\ Recursive \subseteq Mutexes
      /\ \A m \in Mutexes : uxRecursiveCallCount[m] \in Nat
  BY MutexAssumption DEF TypeOK
<1>2. ASSUME UNCHANGED <<xMutexHolder, uxRecursiveCallCount>> PROVE Counted'
  BY <1>2 DEF Counted
<1>3. ASSUME NEW t \in Task,
             Begin(t) \/ Block(t) \/ Recheck(t) \/ Settle(t) \/ vTaskDelay(t)
      PROVE  Counted'
  BY <1>2, <1>3 DEF Begin, Block, Recheck, Settle, vTaskDelay
<1>4. ASSUME NEW t \in Task, TakeAgain(t) PROVE Counted'
  <2>1. PICK m \in Recursive :
             /\ xMutexHolder[m] = t
             /\ uxRecursiveCallCount' = [uxRecursiveCallCount EXCEPT ![m] = @ + 1]
             /\ UNCHANGED xMutexHolder
    BY <1>4 DEF TakeAgain
  <2>2. m \in Mutexes /\ uxRecursiveCallCount'[m] >= 1 /\ xMutexHolder[m] # None
    BY <1>1, <2>1, NoneIsNone DEF TypeOK
  <2>3. \A n \in Mutexes : n # m => uxRecursiveCallCount'[n] = uxRecursiveCallCount[n]
    BY <2>1 DEF TypeOK
  <2> QED
    BY <2>1, <2>2, <2>3 DEF Counted
<1>5. ASSUME NEW t \in Task, GiveInner(t) PROVE Counted'
  <2>1. PICK m \in Recursive :
             /\ xMutexHolder[m] = t /\ uxRecursiveCallCount[m] # 1
             /\ uxRecursiveCallCount' = [uxRecursiveCallCount EXCEPT ![m] = @ - 1]
             /\ UNCHANGED xMutexHolder
    BY <1>5 DEF GiveInner
  <2>2. m \in Mutexes /\ uxRecursiveCallCount[m] >= 1 /\ xMutexHolder[m] # None
    BY <1>1, <2>1, NoneIsNone DEF Counted
  <2>3. uxRecursiveCallCount'[m] >= 1
    <3>1. uxRecursiveCallCount'[m] = uxRecursiveCallCount[m] - 1
      BY <2>1, <2>2 DEF TypeOK
    <3> QED
      BY <1>1, <2>1, <2>2, <3>1
  <2>4. \A n \in Mutexes : n # m => uxRecursiveCallCount'[n] = uxRecursiveCallCount[n]
    BY <2>1 DEF TypeOK
  <2> QED
    BY <2>1, <2>2, <2>3, <2>4 DEF Counted
<1>6. ASSUME NEW t \in Task, xQueueSemaphoreTake(t) PROVE Counted'
  <2>1. CASE UNCHANGED <<xMutexHolder, uxRecursiveCallCount>>
    BY <1>2, <2>1
  <2>2. CASE ~UNCHANGED <<xMutexHolder, uxRecursiveCallCount>>
    <3> DEFINE m == mutex[t]
    <3>1. /\ xMutexHolder[m] = None /\ pc[t] = "try"
          /\ xMutexHolder' = [xMutexHolder EXCEPT ![m] = t]
          /\ uxRecursiveCallCount' = [uxRecursiveCallCount EXCEPT ![m] = @ + FirstTake(m)]
      BY <1>6, <2>2, TakeIs
    <3>2. m \in Mutexes
      BY <3>1, CallersMutex DEF Calling
    <3> HIDE DEF m
    <3>3. uxRecursiveCallCount[m] = 0 /\ t # None
      BY <3>1, <3>2, NoneIsNone DEF Counted
    <3>4. uxRecursiveCallCount'[m] = FirstTake(m) /\ FirstTake(m) \in {0, 1}
      <4>1. uxRecursiveCallCount'[m] = 0 + FirstTake(m) /\ FirstTake(m) \in {0, 1}
        BY <3>1, <3>2, <3>3 DEF TypeOK, FirstTake
      <4> QED
        BY <4>1
    <3>5. \A n \in Mutexes : n # m => /\ uxRecursiveCallCount'[n] = uxRecursiveCallCount[n]
                                      /\ xMutexHolder'[n] = xMutexHolder[n]
      BY <3>1 DEF TypeOK
    <3>6. IF m \in Recursive /\ xMutexHolder'[m] # None THEN uxRecursiveCallCount'[m] >= 1
                                                         ELSE uxRecursiveCallCount'[m] = 0
      <4>1. xMutexHolder'[m] = t
        BY <3>1, <3>2 DEF TypeOK
      <4> QED
        BY <3>3, <3>4, <4>1 DEF FirstTake
    <3> QED
      BY <3>5, <3>6 DEF Counted
  <2> QED
    BY <2>1, <2>2
<1>7. ASSUME NEW t \in Task, Give(t) PROVE Counted'
  <2>1. PICK m \in Mutexes :
                 /\ xMutexHolder' = [xMutexHolder EXCEPT ![m] = None]
                 /\ uxRecursiveCallCount' = [uxRecursiveCallCount EXCEPT ![m] = 0]
    BY <1>7, GiveIs
  <2> QED
    BY <2>1 DEF Counted, TypeOK
<1>8. CASE xTaskIncrementTick
  BY <1>2, <1>8 DEF xTaskIncrementTick
<1>9. CASE UNCHANGED vars
  BY <1>2, <1>9 DEF vars
<1> QED
  BY <1>3, <1>4, <1>5, <1>6, <1>7, <1>8, <1>9 DEF Next

LEMMA HeldStep == ASSUME Inv, [Next]_vars PROVE HeldCounted'
<1> USE DEF Inv
<1>1. TypeOK /\ HeldCounted
  OBVIOUS
<1>2. ASSUME UNCHANGED <<xMutexHolder, uxMutexesHeld>> PROVE HeldCounted'
  BY <1>2 DEF HeldCounted, Held
<1>3. ASSUME NEW t \in Task,
             \/ Begin(t) \/ TakeAgain(t) \/ Block(t) \/ Recheck(t) \/ Settle(t)
             \/ GiveInner(t) \/ vTaskDelay(t)
      PROVE  HeldCounted'
  BY <1>2, <1>3 DEF Begin, TakeAgain, Block, Recheck, Settle, GiveInner, vTaskDelay
<1>4. ASSUME NEW t \in Task, xQueueSemaphoreTake(t) PROVE HeldCounted'
  <2>1. CASE UNCHANGED <<xMutexHolder, uxMutexesHeld>>
    BY <1>2, <2>1
  <2>2. CASE ~UNCHANGED <<xMutexHolder, uxMutexesHeld>>
    <3> DEFINE m == mutex[t]
    <3>1. /\ xMutexHolder[m] = None /\ pc[t] = "try"
          /\ xMutexHolder' = [xMutexHolder EXCEPT ![m] = t]
          /\ uxMutexesHeld' = [uxMutexesHeld EXCEPT ![t] = @ + 1]
      BY <1>4, <2>2, TakeIs
    <3>2. m \in Mutexes /\ t # None
      BY <3>1, CallersMutex, NoneIsNone DEF Calling
    <3> HIDE DEF m
    <3>3. /\ Held(t)' = Held(t) \cup {m} /\ m \notin Held(t)
          /\ \A u \in Task : u # t => Held(u)' = Held(u)
      BY <3>1, <3>2, NoneIsNone DEF Held, TypeOK
    <3>4. IsFiniteSet(Held(t)) /\ uxMutexesHeld[t] = Cardinality(Held(t))
      BY DEF HeldCounted
    <3>5. IsFiniteSet(Held(t)') /\ Cardinality(Held(t)') = Cardinality(Held(t)) + 1
      BY <3>3, <3>4, FS_AddElement
    <3>6. /\ uxMutexesHeld'[t] = uxMutexesHeld[t] + 1
          /\ \A u \in Task : u # t => uxMutexesHeld'[u] = uxMutexesHeld[u]
      BY <3>1 DEF TypeOK
    <3> QED
      BY <3>3, <3>4, <3>5, <3>6 DEF HeldCounted
  <2> QED
    BY <2>1, <2>2
<1>5. ASSUME NEW t \in Task, Give(t) PROVE HeldCounted'
  <2>1. PICK m \in Mutexes : /\ xMutexHolder[m] = t
                             /\ xMutexHolder' = [xMutexHolder EXCEPT ![m] = None]
    BY <1>5, GiveIs
  <2>2. uxMutexesHeld' = [uxMutexesHeld EXCEPT ![t] = @ - 1]
    BY <1>5, GiveIs
  <2>3. /\ Held(t)' = Held(t) \ {m} /\ m \in Held(t)
        /\ \A u \in Task : u # t => Held(u)' = Held(u)
    BY <2>1, NoneIsNone DEF Held, TypeOK
  <2>4. IsFiniteSet(Held(t)) /\ uxMutexesHeld[t] = Cardinality(Held(t))
    BY DEF HeldCounted
  <2>5. IsFiniteSet(Held(t)') /\ Cardinality(Held(t)') = Cardinality(Held(t)) - 1
    BY <2>3, <2>4, FS_RemoveElement
  <2>6. /\ uxMutexesHeld'[t] = uxMutexesHeld[t] - 1
        /\ \A u \in Task : u # t => uxMutexesHeld'[u] = uxMutexesHeld[u]
    BY <2>2 DEF TypeOK
  <2> QED
    BY <2>3, <2>4, <2>5, <2>6 DEF HeldCounted
<1>6. CASE xTaskIncrementTick
  BY <1>2, <1>6 DEF xTaskIncrementTick
<1>7. CASE UNCHANGED vars
  BY <1>2, <1>7 DEF vars
<1> QED
  BY <1>3, <1>4, <1>5, <1>6, <1>7 DEF Next

LEMMA PriorityStep == ASSUME Inv, [Next]_vars PROVE PriorityKept'
<1> USE DEF Inv
<1>1. TypeOK /\ PriorityKept /\ HeldCounted
  OBVIOUS
<1>2. /\ uxPriority \in [Task -> Nat] /\ uxBasePriority \in [Task -> Nat]
      /\ uxMutexesHeld \in [Task -> Nat]
  BY MutexAssumption DEF TypeOK
<1>3. ASSUME UNCHANGED <<uxPriority, uxMutexesHeld>> PROVE PriorityKept'
  BY <1>3 DEF PriorityKept
<1>4. ASSUME NEW t \in Task,
             Begin(t) \/ TakeAgain(t) \/ Recheck(t) \/ GiveInner(t) \/ vTaskDelay(t)
      PROVE  PriorityKept'
  BY <1>3, <1>4 DEF Begin, TakeAgain, Recheck, GiveInner, vTaskDelay
<1>5. ASSUME NEW t \in Task, xQueueSemaphoreTake(t) PROVE PriorityKept'
  <2>1. /\ UNCHANGED uxPriority
        /\ uxMutexesHeld' = uxMutexesHeld \/ uxMutexesHeld' = [uxMutexesHeld EXCEPT ![t] = @ + 1]
    BY <1>5, TakeIs
  <2>2. \A u \in Task : uxMutexesHeld'[u] = 0 => uxMutexesHeld[u] = 0
    BY <1>2, <2>1
  <2> QED
    BY <2>1, <2>2 DEF PriorityKept
<1>6. ASSUME NEW t \in Task, Block(t) PROVE PriorityKept'
  <2>1. CASE UNCHANGED uxPriority
    BY <1>3, <1>6, <2>1 DEF Block
  <2>2. CASE ~UNCHANGED uxPriority
    <3> DEFINE h == xMutexHolder[mutex[t]]
    <3>1. /\ pc[t] = "block" /\ h # None /\ UNCHANGED uxMutexesHeld
          /\ uxPriority' = [uxPriority EXCEPT ![h] = Higher(@, uxPriority[t])]
      BY <1>6, <2>2 DEF Block, Inherited
    <3>2. mutex[t] \in Mutexes
      BY <3>1, CallersMutex DEF Calling
    <3>3. h \in Task /\ uxMutexesHeld[h] # 0
      BY <3>1, <3>2, HolderHolds
    <3> HIDE DEF h
    <3>4. ASSUME NEW u \in Task
          PROVE  /\ uxMutexesHeld'[u] = 0 => uxPriority'[u] = uxBasePriority[u]
                 /\ uxPriority'[u] >= uxBasePriority[u]
      <4>1. CASE u = h
        <5>1. uxPriority'[h] = Higher(uxPriority[h], uxPriority[t])
          BY <1>2, <3>1, <3>3
        <5>2. uxPriority[h] >= uxBasePriority[h]
          BY <3>3 DEF PriorityKept
        <5> QED
          BY <1>2, <3>1, <3>3, <4>1, <5>1, <5>2 DEF Higher
      <4>2. CASE u # h
        BY <1>2, <3>1, <4>2 DEF PriorityKept
      <4> QED
        BY <4>1, <4>2
    <3> QED
      BY <3>4 DEF PriorityKept
  <2> QED
    BY <2>1, <2>2
<1>7. ASSUME NEW t \in Task, Settle(t) PROVE PriorityKept'
  <2>1. CASE UNCHANGED uxPriority
    BY <1>3, <1>7, <2>1 DEF Settle
  <2>2. CASE ~UNCHANGED uxPriority
    <3> DEFINE m == mutex[t]
               h == xMutexHolder[m]
    <3>1. /\ pc[t] = "settle" /\ h # None /\ uxMutexesHeld[h] = 1 /\ UNCHANGED uxMutexesHeld
          /\ uxPriority' = [uxPriority EXCEPT ![h] =
                              Higher(uxBasePriority[h], HighestWaiting(m))]
      BY <1>7, <2>2 DEF Settle, DisinheritedAfterTimeout
    <3>2. m \in Mutexes
      BY <3>1, CallersMutex DEF Calling
    <3>3. h \in Task /\ HighestWaiting(m) \in Nat
      <4>1. waiting[m] \in Seq(Task) /\ h \in Task
        BY <3>1, <3>2 DEF TypeOK
      <4>2. waiting[m] # <<>> => Head(waiting[m]) \in Task
        BY <4>1, HeadTailProperties
      <4> QED
        BY <1>2, <4>1, <4>2 DEF HighestWaiting
    <3> HIDE DEF m, h
    <3>4. ASSUME NEW u \in Task
          PROVE  /\ uxMutexesHeld'[u] = 0 => uxPriority'[u] = uxBasePriority[u]
                 /\ uxPriority'[u] >= uxBasePriority[u]
      <4>1. CASE u = h
        <5>1. uxPriority'[h] = Higher(uxBasePriority[h], HighestWaiting(m))
          BY <1>2, <3>1, <3>3
        <5>2. Higher(uxBasePriority[h], HighestWaiting(m)) >= uxBasePriority[h]
          BY <1>2, <3>3 DEF Higher
        <5> QED
          BY <3>1, <4>1, <5>1, <5>2
      <4>2. CASE u # h
        BY <1>2, <3>1, <4>2 DEF PriorityKept
      <4> QED
        BY <4>1, <4>2
    <3> QED
      BY <3>4 DEF PriorityKept
  <2> QED
    BY <2>1, <2>2
<1>8. ASSUME NEW t \in Task, Give(t) PROVE PriorityKept'
  <2>1. /\ uxPriority' = Disinherited(t)
        /\ uxMutexesHeld' = [uxMutexesHeld EXCEPT ![t] = @ - 1]
    BY <1>8, GiveIs
  <2>2. uxMutexesHeld[t] >= 1
    BY <1>8, GiveIs, HolderHolds, NoneIsNone
  <2>3. /\ \A u \in Task : u # t => /\ uxPriority'[u] = uxPriority[u]
                                    /\ uxMutexesHeld'[u] = uxMutexesHeld[u]
        /\ uxMutexesHeld'[t] = uxMutexesHeld[t] - 1
        /\ uxPriority'[t] \in {uxPriority[t], uxBasePriority[t]}
        /\ uxMutexesHeld[t] = 1 => uxPriority'[t] = uxBasePriority[t]
    BY <1>2, <2>1 DEF Disinherited, DropsPriority
  <2>4. uxMutexesHeld'[t] = 0 => uxMutexesHeld[t] = 1
    BY <1>2, <2>2, <2>3
  <2>5. uxPriority'[t] >= uxBasePriority[t]
    BY <1>2, <2>3 DEF PriorityKept
  <2> QED
    BY <2>3, <2>4, <2>5 DEF PriorityKept
<1>9. CASE xTaskIncrementTick
  BY <1>3, <1>9 DEF xTaskIncrementTick
<1>10. CASE UNCHANGED vars
  BY <1>3, <1>10 DEF vars
<1> QED
  BY <1>4, <1>5, <1>6, <1>7, <1>8, <1>9, <1>10 DEF Next


-----------------------------------------------------------------------------
(* A give reaches a waiter *)

(* Those on their way to take mutex m.                                     *)
Coming(t, m) == mutex[t] = m /\ pc[t] \in {"try", "block", "recheck"}

(* A step that finds mutex m available, with tasks waiting for it: those   *)
(* on their way still are.                                                 *)
StaysFree(m) ==
    /\ xMutexHolder[m] = None /\ waiting[m] # <<>>
    /\ Members(waiting'[m]) \subseteq Members(waiting[m])
    /\ \A t \in Task : Coming(t, m) => Coming(t, m)'
    /\ Runs

(* One that makes it available: the first that waits is on its way.        *)
BecomesFree(t, m) ==
    /\ Give(t) /\ xMutexHolder[m] = t /\ waiting[m] # <<>>
    /\ waiting'[m] = Tail(waiting[m])
    /\ \E u \in Task : u = Head(waiting[m]) /\ mutex'[u] = m /\ pc'[u] = "try"
    /\ YieldIf(GiveYields(t, m))

LEMMA FreeIs ==
    ASSUME Inv, [Next]_vars,
           NEW m \in Mutexes, xMutexHolder'[m] = None, waiting'[m] # <<>>
    PROVE  StaysFree(m) \/ \E t \in Task : BecomesFree(t, m)
<1> USE DEF Inv
<1>1. TypeOK /\ InCall /\ Queued
  OBVIOUS
<1>2. ASSUME xMutexHolder[m] = None, UNCHANGED waiting,
             NEW t \in Task, Coming(t, m) => Coming(t, m)',
             \A u \in Task : u # t => pc'[u] = pc[u] /\ mutex'[u] = mutex[u],
             Runs
      PROVE  StaysFree(m)
  BY <1>2 DEF Coming, StaysFree
<1>3. ASSUME NEW t \in Task, Begin(t) \/ TakeAgain(t) \/ GiveInner(t) \/ Settle(t) \/ vTaskDelay(t)
      PROVE  StaysFree(m)
  <2>1. /\ pc[t] \in {"app", "settle"} /\ UNCHANGED <<xMutexHolder, waiting>>
        /\ \A u \in Task : u # t => pc'[u] = pc[u]
    BY <1>3 DEF Begin, TakeAgain, GiveInner, Settle, vTaskDelay, Goto, Return, TypeOK
  <2>2. \A u \in Task : u # t => mutex'[u] = mutex[u]
    BY <1>3 DEF Begin, TakeAgain, GiveInner, Settle, vTaskDelay, Return, TypeOK
  <2>3. Runs
    BY <1>3, YieldsToTask DEF Begin, TakeAgain, GiveInner, Settle, vTaskDelay, Runs
  <2>4. ~Coming(t, m)
    BY <2>1 DEF Coming
  <2> QED
    BY <1>2, <2>1, <2>2, <2>3, <2>4
<1>4. ASSUME NEW t \in Task, xQueueSemaphoreTake(t) PROVE StaysFree(m)
  <2>1. /\ pc[t] = "try" /\ UNCHANGED waiting /\ Runs
        /\ xMutexHolder' \in {xMutexHolder, [xMutexHolder EXCEPT ![mutex[t]] = t]}
        /\ xMutexHolder[mutex[t]] = None => xMutexHolder' = [xMutexHolder EXCEPT ![mutex[t]] = t]
    BY <1>4, TakeIs DEF Runs
  <2>2. \A u \in Task : u # t => pc'[u] = pc[u] /\ mutex'[u] = mutex[u]
    BY <1>4 DEF xQueueSemaphoreTake, Return, Goto, TypeOK
  <2>3. xMutexHolder[m] = None /\ m # mutex[t]
    BY <2>1, NoneIsNone DEF TypeOK
  <2>4. ~Coming(t, m)
    BY <2>3 DEF Coming
  <2> QED
    BY <1>2, <2>1, <2>2, <2>3, <2>4
<1>5. ASSUME NEW t \in Task, Block(t) PROVE StaysFree(m)
  <2>1. UNCHANGED <<mutex, xMutexHolder>> /\ pc[t] = "block"
    BY <1>5 DEF Block
  <2>2. \A u \in Task : u # t => pc'[u] = pc[u]
    BY <1>5 DEF Block, Goto, TypeOK
  <2>3. Runs
    BY <1>5, YieldsToTask DEF Block, Runs
  <2>4. CASE UNCHANGED waiting /\ pc'[t] \in {"recheck", "try"}
    BY <1>2, <2>1, <2>2, <2>3, <2>4 DEF Coming
  <2>5. CASE ~(UNCHANGED waiting /\ pc'[t] \in {"recheck", "try"})
    <3>1. /\ xMutexHolder[mutex[t]] # None
          /\ waiting' = [waiting EXCEPT ![mutex[t]] = vListInsert(@, t)]
      BY <1>5, <2>5 DEF Block, Goto, TypeOK
    <3>2. m # mutex[t] /\ waiting'[m] = waiting[m]
      BY <2>1, <3>1 DEF TypeOK
    <3>3. ~Coming(t, m)
      BY <3>2 DEF Coming
    <3> QED
      BY <2>1, <2>2, <2>3, <3>2, <3>3 DEF Coming, StaysFree
  <2> QED
    BY <2>4, <2>5
<1>6. ASSUME NEW t \in Task, Recheck(t) PROVE StaysFree(m)
  <2>1. pc[t] = "recheck" /\ UNCHANGED <<waiting, xMutexHolder>> /\ Runs
    BY <1>6 DEF Recheck, Runs
  <2>2. \A u \in Task : u # t => pc'[u] = pc[u] /\ mutex'[u] = mutex[u]
    BY <1>6 DEF Recheck, Return, Goto, TypeOK
  <2>3. ASSUME mutex[t] = m PROVE Coming(t, m)'
    <3>1. pc'[t] = "try" /\ UNCHANGED mutex
      BY <1>6, <2>1, <2>3 DEF Recheck, Goto, TypeOK
    <3> QED
      BY <2>3, <3>1 DEF Coming
  <2>4. Coming(t, m) => Coming(t, m)'
    BY <2>3 DEF Coming
  <2> QED
    BY <1>2, <2>1, <2>2, <2>4
<1>7. ASSUME NEW t \in Task, Give(t) PROVE StaysFree(m) \/ BecomesFree(t, m)
  <2>1. PICK n \in Mutexes :
                 /\ xMutexHolder[n] = t
                 /\ xMutexHolder' = [xMutexHolder EXCEPT ![n] = None]
                 /\ YieldIf(GiveYields(t, n))
                 /\ waiting[n] = <<>> => UNCHANGED <<waiting, pc>>
                 /\ waiting[n] # <<>> =>
                       /\ waiting' = [waiting EXCEPT ![n] = Tail(@)]
                       /\ pc' = [pc EXCEPT ![Head(waiting[n])] = "try"]
    BY <1>7, GiveIs
  <2>2. UNCHANGED mutex
    BY <1>7, GiveIs
  <2>3. waiting[n] \in Seq(Task) /\ NoneTwice(waiting[n])
    BY DEF TypeOK, Queued
  <2>4. waiting[n] # <<>> => /\ Head(waiting[n]) \in Task
                             /\ mutex[Head(waiting[n])] = n /\ pc[Head(waiting[n])] = "blocked"
    BY <2>3, TailFacts, HeadTailProperties DEF Queued
  <2>5. CASE m = n
    <3>1. waiting[n] # <<>>
      BY <2>1, <2>5
    <3>2. pc'[Head(waiting[n])] = "try" /\ waiting'[n] = Tail(waiting[n])
      BY <2>1, <2>4, <3>1 DEF TypeOK
    <3> QED
      BY <1>7, <2>1, <2>2, <2>4, <2>5, <3>1, <3>2 DEF BecomesFree
  <2>6. CASE m # n
    <3>1. xMutexHolder[m] = None /\ waiting'[m] = waiting[m]
      BY <2>1, <2>6 DEF TypeOK
    <3>2. \A u \in Task : Coming(u, m) => pc'[u] = pc[u]
      BY <2>1, <2>4 DEF Coming, TypeOK
    <3>3. Runs
      BY <2>1, YieldsToTask
    <3> QED
      BY <2>2, <3>1, <3>2, <3>3 DEF Coming, StaysFree
  <2> QED
    BY <2>5, <2>6
<1>8. ASSUME xTaskIncrementTick PROVE StaysFree(m)
  <2>1. PICK E \in SUBSET {t \in Task : Timed(t)} :
           /\ pc' = [t \in Task |-> IF t \in E /\ pc[t] = "asleep" THEN "app"
                                ELSE IF t \in E /\ pc[t] = "blocked" THEN "try" ELSE pc[t]]
           /\ waiting' = [n \in Mutexes |-> Without(waiting[n], E)]
           /\ UNCHANGED <<mutex, xMutexHolder>>
    BY <1>8 DEF xTaskIncrementTick
  <2>2. Runs
    BY <1>8, YieldsToTask DEF xTaskIncrementTick
  <2>3. waiting[m] # <<>> /\ Members(waiting'[m]) \subseteq Members(waiting[m])
    <3>1. waiting'[m] = Without(waiting[m], E) /\ waiting[m] \in Seq(Task)
      BY <2>1 DEF TypeOK
    <3>2. waiting'[m] \in Seq(Task) /\ Members(waiting'[m]) \subseteq Members(waiting[m])
      BY <3>1, WithoutFacts
    <3>3. Members(waiting'[m]) # {}
      BY <3>2, HeadOfMany
    <3>4. Members(<<>>) = {}
      BY DEF Members
    <3> QED
      BY <3>2, <3>3, <3>4
  <2>4. \A u \in Task : Coming(u, m) => Coming(u, m)'
    BY <2>1 DEF Coming
  <2> QED
    BY <2>1, <2>2, <2>3, <2>4 DEF StaysFree
<1>9. ASSUME UNCHANGED vars PROVE StaysFree(m)
  BY <1>9 DEF vars, Coming, StaysFree, Runs
<1> QED
  BY <1>3, <1>4, <1>5, <1>6, <1>7, <1>8, <1>9 DEF Next

LEMMA ReachStep == ASSUME Inv, [Next]_vars PROVE GiveReachesWaiter'
<1> SUFFICES ASSUME NEW m \in Mutexes, xMutexHolder'[m] = None, waiting'[m] # <<>>
             PROVE  \E t \in Task : Coming(t, m)'
  BY DEF GiveReachesWaiter, Coming
<1>1. CASE StaysFree(m)
  <2>1. PICK t \in Task : Coming(t, m)
    BY <1>1 DEF StaysFree, Inv, GiveReachesWaiter, Coming
  <2> QED
    BY <1>1, <2>1 DEF StaysFree
<1>2. ASSUME NEW t \in Task, BecomesFree(t, m) PROVE \E u \in Task : Coming(u, m)'
  BY <1>2 DEF BecomesFree, Coming
<1> QED
  BY <1>1, <1>2, FreeIs

-----------------------------------------------------------------------------
(* The theorems, for tasks that use any mutexes *)

LEMMA InitCorrect == ASSUME Init PROVE Inv
<1>1. TypeOK
  <2>1. uxBasePriority \in [Task -> Nat] /\ MaxDepth \in Nat
    BY MutexAssumption
  <2>2. pxCurrentTCB \in Task
    BY DEF Init, HighestPriorityReady
  <2>3. \A m \in Mutexes : waiting[m] = <<>> /\ <<>> \in Seq(Task)
    BY EmptySeq DEF Init
  <2>4. waiting \in [Mutexes -> Seq(Task)]
    BY <2>3 DEF Init
  <2>5. uxTopReadyPriority \subseteq Nat
    BY <2>1 DEF Init, ReadyPriorities
  <2> QED
    BY <2>1, <2>2, <2>4, <2>5 DEF Init, TypeOK
<1>2. InCall
  BY DEF Init, InCall, Calling
<1>3. Queued
  <2>1. \A m \in Mutexes : waiting[m] = <<>>
    BY DEF Init
  <2>2. DOMAIN <<>> = {}
    OBVIOUS
  <2> QED
    BY <2>1, <2>2 DEF Queued, Members, NoneTwice
<1>4. Counted
  BY DEF Init, Counted
<1>5. HeldCounted
  <2>1. \A t \in Task : Held(t) = {} /\ uxMutexesHeld[t] = 0
    BY NoneIsNone DEF Init, Held
  <2> QED
    BY <2>1, FS_EmptySet DEF HeldCounted
<1>6. PriorityKept
  BY MutexAssumption DEF Init, PriorityKept
<1>7. GiveReachesWaiter
  BY DEF Init, GiveReachesWaiter
<1> QED
  BY <1>1, <1>2, <1>3, <1>4, <1>5, <1>6, <1>7 DEF Inv

LEMMA StepCorrect == ASSUME Inv, [Next]_vars PROVE Inv'
BY TypesStep, CallsStep, QueuedStep, CountedStep, HeldStep, PriorityStep, ReachStep DEF Inv

(* Tasks take and give mutexes, time out, and wait behind each other, in   *)
(* any order: the inductive invariant holds throughout.                    *)
THEOREM MutexesCorrect == Spec => []Inv
<1>1. Init => Inv
  BY InitCorrect
<1>2. Inv /\ [Next]_vars => Inv'
  BY StepCorrect
<1> QED
  BY <1>1, <1>2, PTL DEF Spec

(* The variables keep their types: no count of takes or of held mutexes    *)
(* goes below zero (queue.c:612, tasks.c:4060).                            *)
THEOREM TypeCorrect == Spec => []TypeOK
<1>1. Inv => TypeOK
  BY DEF Inv
<1> QED
  BY <1>1, MutexesCorrect, PTL

(* A task that holds no mutex has its own priority again, whatever was     *)
(* lent to it and whoever gave up (xTaskPriorityDisinherit and             *)
(* vTaskPriorityDisinheritAfterTimeout).                                   *)
THEOREM PrioritiesSettle == Spec => []PrioritySettled
<1>1. Inv => PrioritySettled
  BY DEF Inv, HeldCounted, PriorityKept, PrioritySettled, Held
<1> QED
  BY <1>1, MutexesCorrect, PTL

(* While tasks wait for a mutex that nobody holds, one is on its way to    *)
(* take it: the give, the time-outs and the takes of others lose none      *)
(* (xQueueGenericSend, xQueueSemaphoreTake).                               *)
THEOREM GivesReach == Spec => []GiveReachesWaiter
<1>1. Inv => GiveReachesWaiter
  BY DEF Inv
<1> QED
  BY <1>1, MutexesCorrect, PTL


-----------------------------------------------------------------------------
(* Tasks that use one mutex each.  Nobody waits for a mutex while he holds *)
(* one, so those who wait have the priority of their own, by which the     *)
(* event lists are sorted; what remains to be shown is that the mutex goes *)
(* to the right one.                                                       *)

Owned == \A m \in Mutexes : xMutexHolder[m] # None => m \in Uses[xMutexHolder[m]]

Ordered == \A m \in Mutexes : Sorted(waiting[m])

(* One on its way to m that is not below those who wait for it.            *)
Served(m) ==
    \E t \in Task : /\ Coming(t, m)
                    /\ \A u \in Members(waiting[m]) : uxBasePriority[t] >= uxBasePriority[u]

(* The running task, if it may take m, is not below them either.           *)
RunnerFirst(m) ==
    pxCurrentTCB # None /\ m \in Uses[pxCurrentTCB] =>
        \A u \in Members(waiting[m]) : uxBasePriority[pxCurrentTCB] >= uxBasePriority[u]

FreeServed ==
    \A m \in Mutexes :
        xMutexHolder[m] = None /\ waiting[m] # <<>> => Served(m) /\ RunnerFirst(m)

HolderHigh ==
    \A m \in Mutexes : \A u \in Members(waiting[m]) :
        xMutexHolder[m] # None => uxPriority[xMutexHolder[m]] >= uxBasePriority[u]

(* A task that waits for a lower one has had it inherit.                   *)
WaiterLent ==
    \A m \in Mutexes : \A u \in Members(waiting[m]) :
        xMutexHolder[m] # None /\ uxBasePriority[u] > uxBasePriority[xMutexHolder[m]]
            => xInheritanceOccurred[u]

(* Who has lent a holder of m its priority, and will take it back.         *)
Lends(u, m) ==
    /\ mutex[u] = m /\ xInheritanceOccurred[u]
    /\ ~(pc[u] = "try" /\ xTimeOut[u] = "passed")
    /\ uxBasePriority[u] = uxPriority[xMutexHolder[m]]

LoanLent ==
    \A m \in Mutexes :
        xMutexHolder[m] # None /\ uxPriority[xMutexHolder[m]] > uxBasePriority[xMutexHolder[m]]
            => \E u \in Task : Lends(u, m)

InvOne ==
    Inv /\ Owned /\ Ordered /\ FreeServed /\ HolderHigh /\ WaiterLent /\ LoanLent

(* A holder holds one.                                                     *)
LEMMA HoldsOne ==
    ASSUME OneMutexEach, Inv, Owned, NEW m \in Mutexes, xMutexHolder[m] # None
    PROVE  /\ xMutexHolder[m] \in Task /\ uxMutexesHeld[xMutexHolder[m]] = 1
           /\ \A n \in Mutexes : xMutexHolder[n] = xMutexHolder[m] => n = m
<1>1. xMutexHolder[m] \in Task
  BY DEF Inv, TypeOK
<1>2. \A n \in Mutexes : xMutexHolder[n] = xMutexHolder[m] => n = m
  BY <1>1, NoneIsNone DEF Owned, OneMutexEach
<1>3. Held(xMutexHolder[m]) = {m}
  BY <1>2 DEF Held
<1>4. uxMutexesHeld[xMutexHolder[m]] = Cardinality(Held(xMutexHolder[m]))
  BY <1>1 DEF Inv, HeldCounted
<1>5. Cardinality({m}) = 1
  BY FS_Singleton
<1> QED
  BY <1>1, <1>2, <1>3, <1>4, <1>5

(* One that may take a mutex and does not hold it holds nothing.           *)
LEMMA HoldsNone ==
    OneMutexEach /\ Inv /\ Owned =>
        \A t \in Task : \A m \in Uses[t] :
            xMutexHolder[m] # t => /\ \A n \in Mutexes : xMutexHolder[n] # t
                                   /\ uxPriority[t] = uxBasePriority[t]
<1> SUFFICES ASSUME OneMutexEach, Inv, Owned,
                    NEW t \in Task, NEW m \in Uses[t], xMutexHolder[m] # t
             PROVE  /\ \A n \in Mutexes : xMutexHolder[n] # t
                    /\ uxPriority[t] = uxBasePriority[t]
  OBVIOUS
<1>1. \A n \in Mutexes : xMutexHolder[n] # t
  BY NoneIsNone DEF Owned, OneMutexEach
<1>2. Held(t) = {}
  BY <1>1 DEF Held
<1>3. uxMutexesHeld[t] = Cardinality(Held(t))
  BY DEF Inv, HeldCounted
<1>4. uxMutexesHeld[t] = 0
  BY <1>2, <1>3, FS_EmptySet
<1> QED
  BY <1>1, <1>4 DEF Inv, PriorityKept

LEMMA CallerAtBase ==
    ASSUME OneMutexEach, Inv, Owned, NEW t \in Task, pc[t] \in Calling
    PROVE  /\ mutex[t] \in Mutexes /\ mutex[t] \in Uses[t] /\ mutex[t] # None
           /\ \A n \in Mutexes : xMutexHolder[n] # t
           /\ uxPriority[t] = uxBasePriority[t]
<1>1. mutex[t] \in Uses[t] /\ xMutexHolder[mutex[t]] # t
  BY DEF Inv, InCall
<1>2. mutex[t] \in Mutexes /\ mutex[t] # None
  BY CallersMutex DEF Inv
<1> QED
  BY <1>1, <1>2, HoldsNone

LEMMA WaiterFacts ==
    ASSUME OneMutexEach, Inv, Owned, NEW m \in Mutexes, NEW u \in Members(waiting[m])
    PROVE  /\ u \in Task /\ pc[u] = "blocked" /\ mutex[u] = m /\ xTimeOut[u] = "running"
           /\ uxPriority[u] = uxBasePriority[u] /\ \A n \in Mutexes : xMutexHolder[n] # u
<1>1. waiting[m] \in Seq(Task)
  BY DEF Inv, TypeOK
<1>2. u \in Task
  BY <1>1, LenProperties, ElementOfSeq DEF Members
<1>3. pc[u] = "blocked" /\ mutex[u] = m
  BY DEF Inv, Queued
<1>4. pc[u] \in Calling /\ xTimeOut[u] = "running"
  BY <1>2, <1>3 DEF Inv, InCall, Calling
<1> QED
  BY <1>2, <1>3, <1>4, CallerAtBase

(* The scheduler prefers the running task to the one on its way.           *)
LEMMA RunnerIsFirst ==
    OneMutexEach /\ Inv /\ Owned /\ pxCurrentTCB \in HighestPriorityReady =>
        \A m \in Mutexes : xMutexHolder[m] = None /\ Served(m) => RunnerFirst(m)
<1> SUFFICES ASSUME OneMutexEach, Inv, Owned, pxCurrentTCB \in HighestPriorityReady,
                    NEW m \in Mutexes, xMutexHolder[m] = None, Served(m),
                    m \in Uses[pxCurrentTCB], NEW u \in Members(waiting[m])
             PROVE  uxBasePriority[pxCurrentTCB] >= uxBasePriority[u]
  BY DEF RunnerFirst
<1>1. PICK t \in Task : Coming(t, m) /\ uxBasePriority[t] >= uxBasePriority[u]
  BY DEF Served
<1>2. pc[t] \in Calling /\ Ready(t)
  BY <1>1 DEF Coming, Calling, Ready
<1>3. uxPriority[t] = uxBasePriority[t]
  BY <1>2, CallerAtBase
<1>4. pxCurrentTCB \in Task /\ uxPriority[t] <= uxPriority[pxCurrentTCB]
  BY <1>2 DEF HighestPriorityReady
<1>5. uxPriority[pxCurrentTCB] = uxBasePriority[pxCurrentTCB]
  BY <1>4, HoldsNone, NoneIsNone
<1>6. /\ uxBasePriority[t] \in Nat /\ uxBasePriority[u] \in Nat
      /\ uxBasePriority[pxCurrentTCB] \in Nat
  BY <1>4, WaiterFacts, MutexAssumption
<1> QED
  BY <1>1, <1>3, <1>4, <1>5, <1>6

LEMMA OneMutexStays == [Next]_vars => (OneMutexEach <=> OneMutexEach')
BY UsesFixed DEF OneMutexEach

LEMMA RunnerIsFirstNext ==
    OneMutexEach' /\ Inv' /\ Owned' /\ (pxCurrentTCB \in HighestPriorityReady)' =>
        \A m \in Mutexes : xMutexHolder'[m] = None /\ Served(m)' => RunnerFirst(m)'
<1>1. OneMutexEach' /\ Inv' /\ Owned' /\ (pxCurrentTCB \in HighestPriorityReady)' =>
        (\A m \in Mutexes : xMutexHolder[m] = None /\ Served(m) => RunnerFirst(m))'
  BY RunnerIsFirst, PTL
<1> QED
  BY <1>1

LEMMA OwnedStep == ASSUME OneMutexEach, InvOne, [Next]_vars PROVE Owned'
<1> USE DEF InvOne
<1>0. UNCHANGED Uses
  BY UsesFixed
<1> USE <1>0
<1>1. ASSUME UNCHANGED xMutexHolder PROVE Owned'
  BY <1>1 DEF Owned
<1>2. ASSUME NEW t \in Task,
             \/ Begin(t) \/ TakeAgain(t) \/ Block(t) \/ Recheck(t) \/ Settle(t)
             \/ GiveInner(t) \/ vTaskDelay(t)
      PROVE  Owned'
  BY <1>1, <1>2 DEF Begin, TakeAgain, Block, Recheck, Settle, GiveInner, vTaskDelay
<1>3. ASSUME NEW t \in Task, xQueueSemaphoreTake(t) PROVE Owned'
  <2>1. /\ pc[t] \in Calling
        /\ xMutexHolder' \in {xMutexHolder, [xMutexHolder EXCEPT ![mutex[t]] = t]}
    BY <1>3, TakeIs DEF Calling
  <2>2. mutex[t] \in Uses[t] /\ mutex[t] \in Mutexes
    BY <2>1, CallerAtBase
  <2> QED
    BY <2>1, <2>2 DEF Owned, Inv, TypeOK
<1>4. ASSUME NEW t \in Task, Give(t) PROVE Owned'
  <2>1. PICK m \in Mutexes : xMutexHolder' = [xMutexHolder EXCEPT ![m] = None]
    BY <1>4, GiveIs DEF Inv
  <2> QED
    BY <2>1 DEF Owned, Inv, TypeOK
<1>5. CASE xTaskIncrementTick
  BY <1>1, <1>5 DEF xTaskIncrementTick
<1>6. CASE UNCHANGED vars
  BY <1>1, <1>6 DEF vars
<1> QED
  BY <1>2, <1>3, <1>4, <1>5, <1>6 DEF Next

LEMMA OrderedStep == ASSUME OneMutexEach, InvOne, [Next]_vars PROVE Ordered'
<1> USE DEF InvOne
<1>1. ASSUME UNCHANGED waiting PROVE Ordered'
  BY <1>1 DEF Ordered
<1>2. \A m \in Mutexes : waiting[m] \in Seq(Task) /\ NoneTwice(waiting[m]) /\ Sorted(waiting[m])
  BY DEF Ordered, Inv, TypeOK, Queued
<1>3. ASSUME NEW t \in Task,
             \/ Begin(t) \/ TakeAgain(t) \/ xQueueSemaphoreTake(t) \/ Recheck(t) \/ Settle(t)
             \/ GiveInner(t) \/ vTaskDelay(t)
      PROVE  Ordered'
  BY <1>1, <1>3 DEF Begin, TakeAgain, xQueueSemaphoreTake, Recheck, Settle, GiveInner, vTaskDelay
<1>4. ASSUME NEW t \in Task, Block(t) PROVE Ordered'
  <2>1. CASE UNCHANGED waiting
    BY <1>1, <2>1
  <2>2. CASE ~UNCHANGED waiting
    <3>1. /\ pc[t] \in Calling
          /\ waiting' = [waiting EXCEPT ![mutex[t]] = vListInsert(@, t)]
      BY <1>4, <2>2 DEF Block, Calling
    <3>2. mutex[t] \in Mutexes /\ uxPriority[t] = uxBasePriority[t]
      BY <3>1, CallerAtBase
    <3>3. \A u \in Members(waiting[mutex[t]]) : uxPriority[u] = uxBasePriority[u]
      BY <3>2, WaiterFacts
    <3>4. uxPriority \in [Task -> Nat]
      BY DEF Inv, TypeOK
    <3>5. Sorted(vListInsert(waiting[mutex[t]], t))
      BY <1>2, <3>2, <3>3, <3>4, InsertFacts
    <3>6. \A m \in Mutexes : waiting'[m] = waiting[m] \/ waiting'[m] = vListInsert(waiting[mutex[t]], t)
      BY <3>1, <3>2 DEF Inv, TypeOK
    <3> QED
      BY <1>2, <3>5, <3>6 DEF Ordered
  <2> QED
    BY <2>1, <2>2
<1>5. ASSUME NEW t \in Task, Give(t) PROVE Ordered'
  <2>1. PICK m \in Mutexes :
                 /\ waiting[m] = <<>> => UNCHANGED waiting
                 /\ waiting[m] # <<>> => waiting' = [waiting EXCEPT ![m] = Tail(@)]
    BY <1>5, GiveIs DEF Inv
  <2>2. CASE waiting[m] = <<>>
    BY <1>1, <2>1, <2>2
  <2>3. CASE waiting[m] # <<>>
    <3>1. Sorted(Tail(waiting[m]))
      BY <1>2, <2>3, TailFacts
    <3>2. \A n \in Mutexes : waiting'[n] = waiting[n] \/ waiting'[n] = Tail(waiting[m])
      BY <2>1, <2>3 DEF Inv, TypeOK
    <3> QED
      BY <1>2, <3>1, <3>2 DEF Ordered
  <2> QED
    BY <2>2, <2>3
<1>6. ASSUME xTaskIncrementTick PROVE Ordered'
  <2>1. PICK E : waiting' = [m \in Mutexes |-> Without(waiting[m], E)]
    BY <1>6 DEF xTaskIncrementTick
  <2>2. \A m \in Mutexes : Sorted(Without(waiting[m], E))
    BY <1>2, WithoutFacts
  <2> QED
    BY <2>1, <2>2 DEF Ordered
<1>7. CASE UNCHANGED vars
  BY <1>1, <1>7 DEF vars
<1> QED
  BY <1>3, <1>4, <1>5, <1>6, <1>7 DEF Next


LEMMA FreeServedStep == ASSUME OneMutexEach, InvOne, [Next]_vars PROVE FreeServed'
<1> USE DEF InvOne
<1>1. Inv /\ Owned /\ Inv' /\ Owned'
  BY StepCorrect, OwnedStep
<1>2. uxBasePriority \in [Task -> Nat] /\ uxPriority \in [Task -> Nat]
  BY MutexAssumption DEF Inv, TypeOK
<1> SUFFICES ASSUME NEW m \in Mutexes, xMutexHolder'[m] = None, waiting'[m] # <<>>
             PROVE  Served(m)' /\ RunnerFirst(m)'
  BY DEF FreeServed
<1>3. (pxCurrentTCB \in HighestPriorityReady)' /\ Served(m)' => RunnerFirst(m)'
  BY <1>1, OneMutexStays, RunnerIsFirstNext
<1>0. /\ UNCHANGED Uses
      /\ pxCurrentTCB' = None => RunnerFirst(m)'
  BY UsesFixed DEF RunnerFirst
<1>4. CASE StaysFree(m)
  <2>1. Served(m) /\ RunnerFirst(m)
    BY <1>4 DEF StaysFree, FreeServed
  <2>2. Served(m)'
    BY <1>4, <2>1 DEF StaysFree, Served
  <2>3. CASE pxCurrentTCB' = pxCurrentTCB
    BY <1>0, <1>4, <2>1, <2>2, <2>3 DEF StaysFree, RunnerFirst
  <2> QED
    BY <1>0, <1>3, <1>4, <2>2, <2>3 DEF StaysFree, Runs
<1>5. ASSUME NEW t \in Task, BecomesFree(t, m) PROVE Served(m)' /\ RunnerFirst(m)'
  <2>0. PICK head \in Task : head = Head(waiting[m]) /\ mutex'[head] = m /\ pc'[head] = "try"
    BY <1>5 DEF BecomesFree
  <2>1. /\ xMutexHolder[m] = t /\ waiting[m] # <<>> /\ waiting'[m] = Tail(waiting[m])
        /\ YieldIf(GiveYields(t, m)) /\ pxCurrentTCB = t
    BY <1>5, GiveIs DEF BecomesFree, Inv
  <2>2. waiting[m] \in Seq(Task) /\ NoneTwice(waiting[m]) /\ Sorted(waiting[m])
    BY DEF Ordered, Inv, TypeOK, Queued
  <2>3. /\ head \in Members(waiting[m]) /\ Members(waiting'[m]) \subseteq Members(waiting[m])
        /\ \A u \in Members(waiting[m]) : uxBasePriority[head] >= uxBasePriority[u]
    BY <2>0, <2>1, <2>2, TailFacts
  <2>4. uxPriority[head] = uxBasePriority[head]
    BY <1>1, <2>3, WaiterFacts
  <2>5. Served(m)'
    <3>1. Coming(head, m)'
      BY <2>0 DEF Coming
    <3> QED
      BY <2>3, <3>1 DEF Served
  <2>6. CASE (pxCurrentTCB \in HighestPriorityReady)'
    BY <1>3, <2>5, <2>6
  <2>8. CASE pxCurrentTCB' = None
    BY <1>0, <2>5, <2>8
  <2>7. CASE ~(pxCurrentTCB \in HighestPriorityReady)' /\ pxCurrentTCB' # None
    <3>1. UNCHANGED pxCurrentTCB /\ ~GiveYields(t, m)
      BY <2>1, <2>7, YieldsToTask DEF Runs
    <3>2. ~(uxPriority[head] > Disinherited(t)[t])
      BY <2>0, <2>1, <3>1 DEF GiveYields, Wakes
    <3>3. uxMutexesHeld[t] = 1
      BY <1>1, <2>1, HoldsOne, NoneIsNone
    <3>4. Disinherited(t)[t] = uxBasePriority[t]
      BY <1>2, <3>3 DEF Disinherited, DropsPriority
    <3>5. uxBasePriority[t] >= uxBasePriority[head]
      BY <1>2, <2>1, <2>4, <3>2, <3>4
    <3>6. ASSUME NEW u \in Members(waiting'[m]) PROVE uxBasePriority[t] >= uxBasePriority[u]
      <4>1. u \in Task /\ uxBasePriority[head] >= uxBasePriority[u]
        BY <1>1, <2>3, WaiterFacts
      <4>2. uxBasePriority[u] \in Nat /\ uxBasePriority[head] \in Nat /\ uxBasePriority[t] \in Nat
        BY <1>2, <2>1, <4>1
      <4> QED
        BY <3>5, <4>1, <4>2
    <3> QED
      BY <1>0, <2>1, <2>5, <3>1, <3>6 DEF RunnerFirst
  <2> QED
    BY <2>6, <2>7, <2>8
<1> QED
  BY <1>4, <1>5, FreeIs

-----------------------------------------------------------------------------
(* The holder, its waiters and its loan *)

(* Who joins an event list has the holder inherit.                         *)
LEMMA NewWaiter ==
    ASSUME Inv, [Next]_vars, NEW m \in Mutexes,
           NEW u \in Members(waiting'[m]), u \notin Members(waiting[m])
    PROVE  /\ u \in Task /\ pc[u] = "block" /\ mutex[u] = m
           /\ xMutexHolder[m] # None /\ UNCHANGED xMutexHolder
           /\ uxPriority' = Inherited(xMutexHolder[m], u)
           /\ xInheritanceOccurred' =
                 [xInheritanceOccurred EXCEPT ![u] = Inherits(xMutexHolder[m], u)]
<1> USE DEF Inv
<1>1. waiting[m] \in Seq(Task) /\ NoneTwice(waiting[m]) /\ waiting'[m] # waiting[m]
  BY DEF TypeOK, Queued
<1>2. ASSUME NEW t \in Task, Block(t)
      PROVE  /\ u \in Task /\ pc[u] = "block" /\ mutex[u] = m
             /\ xMutexHolder[m] # None /\ UNCHANGED xMutexHolder
             /\ uxPriority' = Inherited(xMutexHolder[m], u)
             /\ xInheritanceOccurred' =
                   [xInheritanceOccurred EXCEPT ![u] = Inherits(xMutexHolder[m], u)]
  <2>1. ~UNCHANGED waiting
    BY <1>1
  <2>2. /\ pc[t] = "block" /\ UNCHANGED xMutexHolder /\ xMutexHolder[mutex[t]] # None
        /\ waiting' = [waiting EXCEPT ![mutex[t]] = vListInsert(@, t)]
        /\ uxPriority' = Inherited(xMutexHolder[mutex[t]], t)
        /\ xInheritanceOccurred' =
              [xInheritanceOccurred EXCEPT ![t] = Inherits(xMutexHolder[mutex[t]], t)]
    BY <1>2, <2>1 DEF Block
  <2>3. mutex[t] = m /\ waiting'[m] = vListInsert(waiting[m], t)
    BY <1>1, <2>2 DEF TypeOK
  <2>4. Members(waiting'[m]) = Members(waiting[m]) \cup {t}
    BY <1>1, <2>3, InsertFacts DEF TypeOK
  <2> QED
    BY <2>2, <2>3, <2>4
<1>3. ASSUME NEW t \in Task, Give(t) PROVE FALSE
  <2>1. PICK n \in Mutexes :
                 /\ waiting[n] = <<>> => UNCHANGED waiting
                 /\ waiting[n] # <<>> => waiting' = [waiting EXCEPT ![n] = Tail(@)]
    BY <1>3, GiveIs
  <2>2. waiting[m] # <<>> /\ waiting'[m] = Tail(waiting[m])
    BY <1>1, <2>1 DEF TypeOK
  <2> QED
    BY <1>1, <2>2, TailFacts
<1>4. ASSUME xTaskIncrementTick PROVE FALSE
  <2>1. PICK E : waiting' = [n \in Mutexes |-> Without(waiting[n], E)]
    BY <1>4 DEF xTaskIncrementTick
  <2>2. waiting'[m] = Without(waiting[m], E)
    BY <2>1
  <2> QED
    BY <1>1, <2>2, WithoutFacts
<1>5. ASSUME NEW t \in Task,
             \/ Begin(t) \/ TakeAgain(t) \/ xQueueSemaphoreTake(t) \/ Recheck(t) \/ Settle(t)
             \/ GiveInner(t) \/ vTaskDelay(t)
      PROVE  FALSE
  BY <1>1, <1>5 DEF Begin, TakeAgain, xQueueSemaphoreTake, Recheck, Settle, GiveInner, vTaskDelay
<1> QED
  BY <1>1, <1>2, <1>3, <1>4, <1>5 DEF Next, vars

(* The mutex keeps its holder, or is taken by the running task.            *)
LEMMA NewHolder ==
    ASSUME Inv, [Next]_vars, NEW m \in Mutexes, xMutexHolder'[m] # None
    PROVE  \/ xMutexHolder'[m] = xMutexHolder[m]
           \/ /\ xMutexHolder[m] = None /\ xMutexHolder'[m] = pxCurrentTCB
              /\ pxCurrentTCB \in Task
              /\ pc[pxCurrentTCB] \in Calling /\ mutex[pxCurrentTCB] = m
              /\ UNCHANGED <<uxPriority, waiting>>
<1> USE DEF Inv
<1>1. ASSUME NEW t \in Task, xQueueSemaphoreTake(t), xMutexHolder'[m] # xMutexHolder[m]
      PROVE  /\ xMutexHolder[m] = None /\ xMutexHolder'[m] = pxCurrentTCB
             /\ pxCurrentTCB \in Task
             /\ pc[pxCurrentTCB] \in Calling /\ mutex[pxCurrentTCB] = m
             /\ UNCHANGED <<uxPriority, waiting>>
  <2>1. /\ xMutexHolder[mutex[t]] = None
        /\ xMutexHolder' = [xMutexHolder EXCEPT ![mutex[t]] = t]
        /\ pc[t] = "try" /\ pxCurrentTCB = t /\ UNCHANGED <<uxPriority, waiting>>
    BY <1>1, TakeIs
  <2> QED
    BY <1>1, <2>1 DEF TypeOK, Calling
<1>2. ASSUME NEW t \in Task, Give(t) PROVE xMutexHolder'[m] = xMutexHolder[m]
  <2>1. PICK n \in Mutexes : xMutexHolder' = [xMutexHolder EXCEPT ![n] = None]
    BY <1>2, GiveIs
  <2> QED
    BY <2>1 DEF TypeOK
<1>3. ASSUME NEW t \in Task,
             \/ Begin(t) \/ TakeAgain(t) \/ Block(t) \/ Recheck(t) \/ Settle(t)
             \/ GiveInner(t) \/ vTaskDelay(t)
      PROVE  UNCHANGED xMutexHolder
  BY <1>3 DEF Begin, TakeAgain, Block, Recheck, Settle, GiveInner, vTaskDelay
<1>4. ASSUME xTaskIncrementTick PROVE UNCHANGED xMutexHolder
  BY <1>4 DEF xTaskIncrementTick
<1> QED
  BY <1>1, <1>2, <1>3, <1>4 DEF Next, vars

(* While it holds the mutex its priority does not drop, unless a task that *)
(* has timed out takes it back.                                            *)
SettledTo(h, m) ==
    /\ uxPriority'[h] = Higher(uxBasePriority[h], HighestWaiting(m))
    /\ UNCHANGED <<xMutexHolder, waiting>>

LEMMA HolderPriority ==
    ASSUME OneMutexEach, InvOne, [Next]_vars, NEW m \in Mutexes,
           xMutexHolder[m] # None, xMutexHolder'[m] = xMutexHolder[m]
    PROVE  \/ uxPriority'[xMutexHolder[m]] >= uxPriority[xMutexHolder[m]]
           \/ SettledTo(xMutexHolder[m], m)
<1> USE DEF InvOne
<1> DEFINE h == xMutexHolder[m]
<1>1. /\ h \in Task /\ uxMutexesHeld[h] = 1
      /\ \A n \in Mutexes : xMutexHolder[n] = h => n = m
  BY HoldsOne
<1>2. uxPriority \in [Task -> Nat] /\ uxPriority[h] \in Nat
  BY <1>1 DEF Inv, TypeOK
<1>3. ASSUME UNCHANGED uxPriority PROVE uxPriority'[h] >= uxPriority[h]
  BY <1>2, <1>3
<1>4. ASSUME NEW t \in Task, Block(t) PROVE uxPriority'[h] >= uxPriority[h]
  <2>1. UNCHANGED uxPriority \/ uxPriority' = Inherited(xMutexHolder[mutex[t]], t)
    BY <1>4 DEF Block
  <2>2. \A p, q \in Nat : Higher(p, q) >= p
    BY DEF Higher
  <2>3. uxPriority' = Inherited(xMutexHolder[mutex[t]], t) =>
           uxPriority'[h] \in {uxPriority[h], Higher(uxPriority[h], uxPriority[t])}
    BY <1>1, <1>2 DEF Inherited
  <2> QED
    BY <1>2, <1>3, <2>1, <2>2, <2>3
<1>5. ASSUME NEW t \in Task, Settle(t)
      PROVE  uxPriority'[h] >= uxPriority[h] \/ SettledTo(h, m)
  <2>1. /\ pc[t] \in Calling /\ UNCHANGED <<xMutexHolder, waiting>>
        /\ uxPriority' = DisinheritedAfterTimeout(mutex[t])
    BY <1>5 DEF Settle, Calling
  <2>2. mutex[t] \in Mutexes
    BY <2>1, CallerAtBase
  <2>3. CASE mutex[t] = m
    BY <1>1, <1>2, <2>1, <2>3 DEF DisinheritedAfterTimeout, SettledTo
  <2>4. CASE mutex[t] # m
    <3>1. xMutexHolder[mutex[t]] # h
      BY <1>1, <2>2, <2>4
    <3>2. uxPriority'[h] = uxPriority[h]
      BY <1>1, <1>2, <2>1, <3>1 DEF DisinheritedAfterTimeout
    <3> QED
      BY <1>2, <3>2
  <2> QED
    BY <2>3, <2>4
<1>6. ASSUME NEW t \in Task, Give(t) PROVE uxPriority'[h] >= uxPriority[h]
  <2>1. PICK n \in Mutexes : /\ xMutexHolder[n] = t
                             /\ xMutexHolder' = [xMutexHolder EXCEPT ![n] = None]
    BY <1>6, GiveIs DEF Inv
  <2>2. t # h
    BY <1>1, <2>1 DEF Inv, TypeOK
  <2>3. uxPriority'[h] = uxPriority[h]
    BY <1>1, <1>2, <1>6, <2>2, GiveIs DEF Inv, Disinherited
  <2> QED
    BY <1>2, <2>3
<1>7. ASSUME NEW t \in Task,
             \/ Begin(t) \/ TakeAgain(t) \/ xQueueSemaphoreTake(t) \/ Recheck(t)
             \/ GiveInner(t) \/ vTaskDelay(t)
      PROVE  uxPriority'[h] >= uxPriority[h]
  BY <1>3, <1>7 DEF Begin, TakeAgain, xQueueSemaphoreTake, Recheck, GiveInner, vTaskDelay
<1>8. ASSUME xTaskIncrementTick PROVE uxPriority'[h] >= uxPriority[h]
  BY <1>3, <1>8 DEF xTaskIncrementTick
<1>9. ASSUME UNCHANGED vars PROVE uxPriority'[h] >= uxPriority[h]
  BY <1>3, <1>9 DEF vars
<1> QED
  BY <1>4, <1>5, <1>6, <1>7, <1>8, <1>9 DEF Next

(* The head of an event list is the highest that waits.                    *)
LEMMA HighestIs ==
    ASSUME OneMutexEach, InvOne, NEW m \in Mutexes, waiting[m] # <<>>
    PROVE  /\ Head(waiting[m]) \in Members(waiting[m])
           /\ HighestWaiting(m) = uxBasePriority[Head(waiting[m])]
           /\ \A u \in Members(waiting[m]) : HighestWaiting(m) >= uxBasePriority[u]
<1>1. waiting[m] \in Seq(Task) /\ NoneTwice(waiting[m]) /\ Sorted(waiting[m])
  BY DEF InvOne, Ordered, Inv, TypeOK, Queued
<1>2. /\ Head(waiting[m]) \in Members(waiting[m])
      /\ \A u \in Members(waiting[m]) : uxBasePriority[Head(waiting[m])] >= uxBasePriority[u]
  BY <1>1, TailFacts
<1>3. uxPriority[Head(waiting[m])] = uxBasePriority[Head(waiting[m])]
  BY <1>2, WaiterFacts DEF InvOne
<1> QED
  BY <1>2, <1>3 DEF HighestWaiting

LEMMA HolderStep == ASSUME OneMutexEach, InvOne, [Next]_vars PROVE HolderHigh'
<1> USE DEF InvOne
<1>1. uxBasePriority \in [Task -> Nat] /\ uxPriority \in [Task -> Nat] /\ uxPriority' \in [Task -> Nat]
  BY StepCorrect, MutexAssumption DEF Inv, TypeOK
<1>2. \A p, q \in Nat : Higher(p, q) >= p /\ Higher(p, q) >= q
  BY DEF Higher
<1> SUFFICES ASSUME NEW m \in Mutexes, NEW u \in Members(waiting'[m]), xMutexHolder'[m] # None
             PROVE  uxPriority'[xMutexHolder'[m]] >= uxBasePriority[u]
  BY DEF HolderHigh
<1>3. CASE xMutexHolder'[m] = xMutexHolder[m]
  <2> DEFINE h == xMutexHolder[m]
  <2>1. h \in Task
    BY <1>3 DEF Inv, TypeOK
  <2>2. CASE u \notin Members(waiting[m])
    <3>1. u \in Task /\ pc[u] \in Calling /\ uxPriority' = Inherited(h, u)
      BY <2>2, NewWaiter DEF Calling
    <3>2. uxPriority[u] = uxBasePriority[u]
      BY <3>1, CallerAtBase
    <3>3. uxPriority'[h] = Higher(uxPriority[h], uxPriority[u])
      BY <1>1, <2>1, <3>1 DEF Inherited
    <3> QED
      BY <1>1, <1>2, <1>3, <2>1, <3>1, <3>2, <3>3
  <2>3. CASE u \in Members(waiting[m])
    <3>1. u \in Task /\ uxPriority[h] >= uxBasePriority[u]
      BY <1>3, <2>3, WaiterFacts DEF HolderHigh
    <3>2. CASE uxPriority'[h] >= uxPriority[h]
      BY <1>1, <1>3, <2>1, <3>1, <3>2
    <3>3. CASE SettledTo(h, m)
      <4>1. waiting[m] # <<>>
        BY <2>3 DEF Members
      <4>2. /\ HighestWaiting(m) >= uxBasePriority[u]
            /\ HighestWaiting(m) \in Nat
        <5>1. /\ Head(waiting[m]) \in Members(waiting[m])
              /\ HighestWaiting(m) = uxBasePriority[Head(waiting[m])]
              /\ HighestWaiting(m) >= uxBasePriority[u]
          BY <2>3, <4>1, HighestIs
        <5>2. Head(waiting[m]) \in Task
          BY <5>1, WaiterFacts
        <5> QED
          BY <1>1, <5>1, <5>2
      <4>3. uxPriority'[h] >= HighestWaiting(m)
        BY <1>1, <1>2, <2>1, <3>3, <4>2 DEF SettledTo
      <4> QED
        BY <1>1, <1>3, <2>1, <3>1, <4>2, <4>3
    <3> QED
      BY <1>3, <3>2, <3>3, HolderPriority
  <2> QED
    BY <2>2, <2>3
<1>4. CASE xMutexHolder'[m] # xMutexHolder[m]
  <2>1. /\ xMutexHolder[m] = None /\ xMutexHolder'[m] = pxCurrentTCB /\ pxCurrentTCB \in Task
        /\ pc[pxCurrentTCB] \in Calling /\ mutex[pxCurrentTCB] = m
        /\ UNCHANGED <<uxPriority, waiting>>
    BY <1>4, NewHolder
  <2>2. m \in Uses[pxCurrentTCB] /\ uxPriority[pxCurrentTCB] = uxBasePriority[pxCurrentTCB]
    BY <2>1, CallerAtBase
  <2>3. waiting[m] # <<>> /\ u \in Members(waiting[m])
    BY <2>1 DEF Members
  <2>4. uxBasePriority[pxCurrentTCB] >= uxBasePriority[u]
    BY <2>1, <2>2, <2>3 DEF FreeServed, RunnerFirst
  <2> QED
    BY <2>1, <2>2, <2>4
<1> QED
  BY <1>3, <1>4

LEMMA LentStep == ASSUME OneMutexEach, InvOne, [Next]_vars PROVE WaiterLent'
<1> USE DEF InvOne
<1>1. uxBasePriority \in [Task -> Nat]
  BY MutexAssumption
<1> SUFFICES ASSUME NEW m \in Mutexes, NEW u \in Members(waiting'[m]), xMutexHolder'[m] # None,
                    uxBasePriority[u] > uxBasePriority[xMutexHolder'[m]]
             PROVE  xInheritanceOccurred'[u]
  BY DEF WaiterLent
<1>2. CASE xMutexHolder'[m] = xMutexHolder[m] /\ u \notin Members(waiting[m])
  <2>1. /\ u \in Task /\ pc[u] \in Calling
        /\ xInheritanceOccurred' =
              [xInheritanceOccurred EXCEPT ![u] = Inherits(xMutexHolder[m], u)]
    BY <1>2, NewWaiter DEF Calling
  <2>2. uxPriority[u] = uxBasePriority[u] /\ xMutexHolder[m] \in Task
    BY <1>2, <2>1, CallerAtBase DEF Inv, TypeOK
  <2>3. Inherits(xMutexHolder[m], u)
    BY <1>1, <1>2, <2>1, <2>2 DEF Inherits
  <2> QED
    BY <2>1, <2>3 DEF Inv, TypeOK
<1>3. CASE xMutexHolder'[m] = xMutexHolder[m] /\ u \in Members(waiting[m])
  <2>1. xInheritanceOccurred[u] /\ u \in Task /\ pc[u] = "blocked"
    BY <1>3, WaiterFacts DEF WaiterLent
  <2>2. ASSUME NEW t \in Task, Return(t) \/ Block(t), pc[t] # "blocked"
        PROVE  xInheritanceOccurred'[u] = xInheritanceOccurred[u]
    BY <2>1, <2>2 DEF Return, Block, Inv, TypeOK
  <2>3. ASSUME NEW t \in Task, xQueueSemaphoreTake(t) \/ Recheck(t) \/ Settle(t) \/ Block(t)
        PROVE  xInheritanceOccurred'[u] = xInheritanceOccurred[u]
    BY <2>2, <2>3 DEF xQueueSemaphoreTake, Recheck, Settle, Block
  <2>4. ASSUME NEW t \in Task,
               Begin(t) \/ TakeAgain(t) \/ Give(t) \/ GiveInner(t) \/ vTaskDelay(t)
        PROVE  xInheritanceOccurred'[u] = xInheritanceOccurred[u]
    BY <2>4 DEF Begin, TakeAgain, Give, GiveInner, vTaskDelay
  <2> QED
    BY <2>1, <2>3, <2>4 DEF Next, vars, xTaskIncrementTick
<1>4. CASE xMutexHolder'[m] # xMutexHolder[m]
  <2>1. /\ xMutexHolder[m] = None /\ xMutexHolder'[m] = pxCurrentTCB /\ pxCurrentTCB \in Task
        /\ pc[pxCurrentTCB] \in Calling /\ mutex[pxCurrentTCB] = m /\ UNCHANGED waiting
    BY <1>4, NewHolder
  <2>2. m \in Uses[pxCurrentTCB]
    BY <2>1, CallerAtBase
  <2>3. waiting[m] # <<>> /\ u \in Members(waiting[m]) /\ u \in Task
    BY <2>1, WaiterFacts DEF Members
  <2>4. uxBasePriority[pxCurrentTCB] >= uxBasePriority[u]
    BY <2>1, <2>2, <2>3 DEF FreeServed, RunnerFirst
  <2> QED
    BY <1>1, <2>1, <2>3, <2>4
<1> QED
  BY <1>2, <1>3, <1>4


(* A loan whose holder keeps its priority stays with its lender.           *)
LEMMA LoanKept ==
    ASSUME LoanLent, NEW m \in Mutexes,
           xMutexHolder'[m] = xMutexHolder[m], xMutexHolder[m] # None,
           uxPriority'[xMutexHolder[m]] = uxPriority[xMutexHolder[m]],
           uxPriority'[xMutexHolder[m]] > uxBasePriority[xMutexHolder[m]],
           \A u \in Task : Lends(u, m) =>
               /\ mutex'[u] = m /\ xInheritanceOccurred'[u]
               /\ ~(pc'[u] = "try" /\ xTimeOut'[u] = "passed")
    PROVE  \E u \in Task : Lends(u, m)'
<1>1. PICK u \in Task : Lends(u, m)
  BY DEF LoanLent
<1> QED
  BY <1>1 DEF Lends

LEMMA LoanStep == ASSUME OneMutexEach, InvOne, [Next]_vars PROVE LoanLent'
<1> USE DEF InvOne
<1>1. /\ uxBasePriority \in [Task -> Nat] /\ uxPriority \in [Task -> Nat]
      /\ uxPriority' \in [Task -> Nat] /\ TypeOK
  BY StepCorrect, MutexAssumption DEF Inv, TypeOK
<1> SUFFICES ASSUME NEW m \in Mutexes, xMutexHolder'[m] # None,
                    uxPriority'[xMutexHolder'[m]] > uxBasePriority[xMutexHolder'[m]]
             PROVE  \E u \in Task : Lends(u, m)'
  BY DEF LoanLent
<1>2. xMutexHolder'[m] = xMutexHolder[m]
  <2> SUFFICES ASSUME xMutexHolder'[m] # xMutexHolder[m] PROVE FALSE
    OBVIOUS
  <2>1. /\ xMutexHolder'[m] = pxCurrentTCB /\ pxCurrentTCB \in Task
        /\ pc[pxCurrentTCB] \in Calling /\ UNCHANGED uxPriority
    BY NewHolder
  <2>2. uxPriority[pxCurrentTCB] = uxBasePriority[pxCurrentTCB]
    BY <2>1, CallerAtBase
  <2> QED
    BY <1>1, <2>1, <2>2
<1> DEFINE h == xMutexHolder[m]
<1>3. h # None /\ h \in Task /\ uxPriority'[h] > uxBasePriority[h]
  BY <1>2 DEF Inv, TypeOK
<1> HIDE DEF h
(* Steps of one task that leave the priority of the holder alone.          *)
<1>4. ASSUME uxPriority'[h] = uxPriority[h], NEW t \in Task,
             \A u \in Task : u # t =>
                 /\ mutex'[u] = mutex[u] /\ xInheritanceOccurred'[u] = xInheritanceOccurred[u]
                 /\ pc'[u] = pc[u] /\ xTimeOut'[u] = xTimeOut[u],
             Lends(t, m) => /\ mutex'[t] = m /\ xInheritanceOccurred'[t]
                            /\ ~(pc'[t] = "try" /\ xTimeOut'[t] = "passed")
      PROVE  \E u \in Task : Lends(u, m)'
  <2>1. \A u \in Task : Lends(u, m) =>
               /\ mutex'[u] = m /\ xInheritanceOccurred'[u]
               /\ ~(pc'[u] = "try" /\ xTimeOut'[u] = "passed")
    BY <1>4 DEF Lends
  <2> QED
    BY <1>2, <1>3, <1>4, <2>1, LoanKept DEF h
<1>5. ASSUME NEW t \in Task, Return(t), UNCHANGED uxPriority, ~Lends(t, m)
      PROVE  \E u \in Task : Lends(u, m)'
  <2>1. \A u \in Task : u # t =>
           /\ mutex'[u] = mutex[u] /\ xInheritanceOccurred'[u] = xInheritanceOccurred[u]
           /\ pc'[u] = pc[u] /\ xTimeOut'[u] = xTimeOut[u]
    BY <1>1, <1>5 DEF Return, Goto, TypeOK
  <2> QED
    BY <1>4, <1>5, <2>1
<1>6. ASSUME NEW t \in Task, Begin(t) \/ TakeAgain(t) \/ GiveInner(t) \/ vTaskDelay(t)
      PROVE  \E u \in Task : Lends(u, m)'
  <2>1. /\ UNCHANGED <<uxPriority, xInheritanceOccurred, xTimeOut>> /\ pc[t] = "app"
        /\ \A u \in Task : u # t => pc'[u] = pc[u]
        /\ \A u \in Task : u # t => mutex'[u] = mutex[u]
    BY <1>1, <1>6 DEF Begin, TakeAgain, GiveInner, vTaskDelay, Goto, TypeOK
  <2>2. ~Lends(t, m)
    BY <2>1 DEF Lends, Inv, InCall, Calling
  <2> QED
    BY <1>4, <2>1, <2>2
<1>7. ASSUME NEW t \in Task, xQueueSemaphoreTake(t) PROVE \E u \in Task : Lends(u, m)'
  <2>0. pc[t] = "try" /\ UNCHANGED uxPriority
    BY <1>7, TakeIs
  <2>1. CASE /\ xMutexHolder[mutex[t]] = None
             /\ Return(t)
    <3>1. ~Lends(t, m)
      BY <1>3, <2>1 DEF Lends, h
    <3> QED
      BY <1>5, <2>0, <2>1, <3>1
  <2>2. CASE ~xInheritanceOccurred[t] /\ Return(t)
    <3>1. ~Lends(t, m)
      BY <2>2 DEF Lends
    <3> QED
      BY <1>5, <2>0, <2>2, <3>1
  <2>4. CASE UNCHANGED <<pc, mutex, wait, xTimeOut, xInheritanceOccurred>>
    BY <1>4, <2>0, <2>4 DEF Lends
  <2>3. CASE /\ xTimeOut' = [xTimeOut EXCEPT ![t] = IF @ = "unset" THEN "running" ELSE @]
             /\ pc' = [pc EXCEPT ![t] = "block"]
             /\ UNCHANGED <<mutex, wait, xInheritanceOccurred>>
    <3>1. \A u \in Task : u # t => pc'[u] = pc[u] /\ xTimeOut'[u] = xTimeOut[u]
      BY <1>1, <2>3 DEF TypeOK
    <3>2. pc'[t] = "block"
      BY <1>1, <2>3 DEF TypeOK
    <3>3. Lends(t, m) => /\ mutex'[t] = m /\ xInheritanceOccurred'[t]
                         /\ ~(pc'[t] = "try" /\ xTimeOut'[t] = "passed")
      BY <2>3, <3>2 DEF Lends
    <3> QED
      BY <1>4, <2>0, <2>3, <3>1, <3>3
  <2> QED
    BY <1>7, <2>1, <2>2, <2>3, <2>4, TakeIs
<1>8. ASSUME NEW t \in Task, Block(t) PROVE \E u \in Task : Lends(u, m)'
  <2>1. /\ pc[t] = "block" /\ UNCHANGED mutex
        /\ \A u \in Task : u # t =>
              /\ xInheritanceOccurred'[u] = xInheritanceOccurred[u]
              /\ pc'[u] = pc[u] /\ xTimeOut'[u] = xTimeOut[u]
    BY <1>1, <1>8 DEF Block, Goto, TypeOK
  <2>2. CASE UNCHANGED <<uxPriority, xInheritanceOccurred>> /\ pc'[t] = "recheck"
    BY <1>4, <2>1, <2>2 DEF Lends
  <2>3. CASE /\ UNCHANGED <<uxPriority, xInheritanceOccurred, xTimeOut>>
             /\ xTimeOut[t] = "running"
    BY <1>4, <2>1, <2>3 DEF Lends
  <2>4. CASE /\ xMutexHolder[mutex[t]] # None /\ pc'[t] = "blocked"
             /\ uxPriority' = Inherited(xMutexHolder[mutex[t]], t)
             /\ xInheritanceOccurred' =
                   [xInheritanceOccurred EXCEPT ![t] = Inherits(xMutexHolder[mutex[t]], t)]
    <3>1. mutex[t] \in Mutexes /\ uxPriority[t] = uxBasePriority[t]
      BY <2>1, CallerAtBase DEF Calling
    <3>2. CASE mutex[t] # m
      <4>1. xMutexHolder[mutex[t]] # h
        BY <1>3, <3>1, <3>2, HoldsOne DEF h
      <4>2. uxPriority'[h] = uxPriority[h]
        BY <1>1, <1>3, <2>4, <4>1 DEF Inherited
      <4>3. ~Lends(t, m)
        BY <3>2 DEF Lends
      <4> QED
        BY <1>4, <2>1, <4>2, <4>3
    <3>3. CASE mutex[t] = m
      <4>1. /\ uxPriority'[h] = Higher(uxPriority[h], uxPriority[t])
            /\ xInheritanceOccurred'[t] = Inherits(h, t)
        BY <1>1, <1>3, <2>4, <3>3 DEF Inherited, TypeOK, h
      <4>2. /\ uxPriority[h] \in Nat /\ uxPriority[t] \in Nat /\ uxBasePriority[h] \in Nat
            /\ uxPriority[h] >= uxBasePriority[h]
        BY <1>1, <1>3 DEF Inv, PriorityKept
      <4>3. CASE uxPriority[h] < uxPriority[t]
        <5>1. Inherits(h, t) /\ uxPriority'[h] = uxBasePriority[t]
          BY <3>1, <4>1, <4>2, <4>3 DEF Inherits, Higher
        <5> QED
          BY <1>2, <2>1, <2>4, <3>3, <4>1, <5>1 DEF Lends, h
      <4>4. CASE ~(uxPriority[h] < uxPriority[t])
        <5>1. uxPriority'[h] = uxPriority[h]
          BY <4>1, <4>2, <4>4 DEF Higher
        <5>2. Lends(t, m) => xInheritanceOccurred'[t]
          <6> SUFFICES ASSUME Lends(t, m) PROVE Inherits(h, t)
            BY <4>1
          <6>1. uxPriority[t] = uxPriority[h]
            BY <3>1 DEF Lends, h
          <6>2. uxBasePriority[h] < uxPriority[t]
            BY <1>3, <4>2, <5>1, <6>1
          <6> QED
            BY <6>2 DEF Inherits
        <5> QED
          BY <1>4, <2>1, <2>4, <3>3, <5>1, <5>2
      <4> QED
        BY <4>3, <4>4
    <3> QED
      BY <3>2, <3>3
  <2> QED
    BY <1>1, <1>8, <2>2, <2>3, <2>4 DEF Block, Goto, TypeOK
<1>9. ASSUME NEW t \in Task, Recheck(t) PROVE \E u \in Task : Lends(u, m)'
  <2>1. UNCHANGED uxPriority /\ pc[t] = "recheck"
    BY <1>9 DEF Recheck
  <2>2. CASE ~xInheritanceOccurred[t] /\ Return(t)
    BY <1>5, <2>1, <2>2 DEF Lends
  <2>3. CASE /\ UNCHANGED <<mutex, xTimeOut, xInheritanceOccurred>>
             /\ pc' = [pc EXCEPT ![t] = IF xMutexHolder[mutex[t]] = None THEN "try" ELSE "settle"]
    <3>1. \A u \in Task : u # t => pc'[u] = pc[u]
      BY <1>1, <2>3 DEF TypeOK
    <3>2. mutex[t] = m => pc'[t] = "settle"
      BY <1>1, <1>3, <2>3 DEF TypeOK, h
    <3> QED
      BY <1>4, <2>1, <2>3, <3>1, <3>2 DEF Lends
  <2> QED
    BY <1>9, <2>2, <2>3 DEF Recheck, Goto
<1>10. ASSUME NEW t \in Task, Settle(t) PROVE \E u \in Task : Lends(u, m)'
  <2>1. /\ pc[t] = "settle" /\ uxPriority' = DisinheritedAfterTimeout(mutex[t])
        /\ \A u \in Task : u # t =>
              /\ mutex'[u] = mutex[u] /\ xInheritanceOccurred'[u] = xInheritanceOccurred[u]
              /\ pc'[u] = pc[u] /\ xTimeOut'[u] = xTimeOut[u]
    BY <1>1, <1>10 DEF Settle, Return, Goto, TypeOK
  <2>2. mutex[t] \in Mutexes
    BY <2>1, CallerAtBase DEF Calling
  <2>3. CASE mutex[t] # m
    <3>1. xMutexHolder[mutex[t]] # h
      BY <1>3, <2>2, <2>3, HoldsOne DEF h
    <3>2. uxPriority'[h] = uxPriority[h]
      BY <1>1, <1>3, <2>1, <3>1 DEF DisinheritedAfterTimeout
    <3>3. ~Lends(t, m)
      BY <2>3 DEF Lends
    <3> QED
      BY <1>4, <2>1, <3>2, <3>3
  <2>4. CASE mutex[t] = m
    <3>1. uxPriority'[h] = Higher(uxBasePriority[h], HighestWaiting(m))
      <4>1. uxMutexesHeld[h] = 1
        BY <1>3, HoldsOne DEF h
      <4> QED
        BY <1>1, <1>3, <2>1, <2>4, <4>1 DEF DisinheritedAfterTimeout, h
    <3>2. waiting[m] # <<>>
      <4> SUFFICES ASSUME waiting[m] = <<>> PROVE FALSE
        OBVIOUS
      <4>1. Higher(uxBasePriority[h], 0) = uxBasePriority[h]
        BY <1>1, <1>3 DEF Higher
      <4> QED
        BY <1>1, <1>3, <3>1, <4>1 DEF HighestWaiting
    <3> DEFINE v == Head(waiting[m])
    <3>3. v \in Members(waiting[m]) /\ HighestWaiting(m) = uxBasePriority[v]
      BY <3>2, HighestIs
    <3> HIDE DEF v
    <3>4. v \in Task /\ pc[v] = "blocked" /\ mutex[v] = m
      BY <3>3, WaiterFacts
    <3>5. uxBasePriority[v] > uxBasePriority[h] /\ uxPriority'[h] = uxBasePriority[v]
      BY <1>1, <1>3, <3>1, <3>3, <3>4 DEF Higher
    <3>6. xInheritanceOccurred[v]
      BY <1>3, <3>3, <3>5 DEF WaiterLent, h
    <3>7. v # t
      BY <2>1, <3>4
    <3>9. mutex'[v] = m /\ xInheritanceOccurred'[v] /\ pc'[v] = "blocked"
      BY <2>1, <3>4, <3>6, <3>7
    <3> QED
      BY <1>2, <3>4, <3>5, <3>9 DEF Lends, h
  <2> QED
    BY <2>3, <2>4
<1>11. ASSUME NEW t \in Task, Give(t) PROVE \E u \in Task : Lends(u, m)'
  <2>1. PICK n \in Mutexes :
                 /\ xMutexHolder[n] = t
                 /\ xMutexHolder' = [xMutexHolder EXCEPT ![n] = None]
                 /\ waiting[n] = <<>> => UNCHANGED pc
                 /\ waiting[n] # <<>> => pc' = [pc EXCEPT ![Head(waiting[n])] = "try"]
    BY <1>1, <1>11, GiveIs
  <2>2. /\ UNCHANGED <<mutex, xTimeOut, xInheritanceOccurred>>
        /\ uxPriority' = Disinherited(t)
    BY <1>1, <1>11, GiveIs
  <2>3. n # m /\ t # None
    BY <1>1, <1>2, <1>3, <2>1, NoneIsNone DEF TypeOK, h
  <2>4. t # h
    BY <1>3, <2>1, <2>3, HoldsOne DEF h
  <2>5. uxPriority'[h] = uxPriority[h]
    BY <1>1, <1>3, <2>2, <2>4 DEF Disinherited
  <2>6. ASSUME waiting[n] # <<>>, NEW u \in Task, mutex[u] = m PROVE pc'[u] = pc[u]
    <3>1. Head(waiting[n]) \in Members(waiting[n])
      BY <2>6, HighestIs
    <3>2. mutex[Head(waiting[n])] = n
      BY <3>1, WaiterFacts
    <3> QED
      BY <1>1, <2>1, <2>3, <2>6, <3>2 DEF TypeOK
  <2>7. \A u \in Task : Lends(u, m) =>
               /\ mutex'[u] = m /\ xInheritanceOccurred'[u]
               /\ ~(pc'[u] = "try" /\ xTimeOut'[u] = "passed")
    BY <2>1, <2>2, <2>6 DEF Lends
  <2> QED
    BY <1>2, <1>3, <2>5, <2>7, LoanKept DEF h
<1>12. CASE xTaskIncrementTick
  <2>1. PICK E \in SUBSET {t \in Task : Timed(t)} :
           /\ pc' = [t \in Task |-> IF t \in E /\ pc[t] = "asleep" THEN "app"
                                ELSE IF t \in E /\ pc[t] = "blocked" THEN "try" ELSE pc[t]]
           /\ xTimeOut' = [t \in Task |-> IF t \in E /\ pc[t] # "asleep" THEN "expired"
                                      ELSE xTimeOut[t]]
           /\ UNCHANGED <<mutex, xInheritanceOccurred, uxPriority>>
    BY <1>12 DEF xTaskIncrementTick
  <2>2. \A u \in Task : Lends(u, m) =>
               /\ mutex'[u] = m /\ xInheritanceOccurred'[u]
               /\ ~(pc'[u] = "try" /\ xTimeOut'[u] = "passed")
    BY <2>1 DEF Lends
  <2> QED
    BY <1>2, <1>3, <2>1, <2>2, LoanKept DEF h
<1>13. CASE UNCHANGED vars
  <2>1. \A u \in Task : Lends(u, m) =>
               /\ mutex'[u] = m /\ xInheritanceOccurred'[u]
               /\ ~(pc'[u] = "try" /\ xTimeOut'[u] = "passed")
    BY <1>13 DEF Lends, vars
  <2> QED
    BY <1>2, <1>3, <1>13, <2>1, LoanKept DEF h, vars
<1> QED
  BY <1>6, <1>7, <1>8, <1>9, <1>10, <1>11, <1>12, <1>13 DEF Next

-----------------------------------------------------------------------------
(* The scheduler's bitmap *)

(* Who is blocked is in the list of its mutex.                             *)
Listed == \A t \in Task : pc[t] = "blocked" => t \in Members(waiting[mutex[t]])

LEMMA ListedStep == ASSUME Inv, Listed, [Next]_vars PROVE Listed'
<1> USE DEF Inv
<1>1. /\ TypeOK /\ Queued
      /\ \A m \in Mutexes : waiting[m] \in Seq(Task) /\ NoneTwice(waiting[m])
  BY DEF TypeOK, Queued
<1>2. \A u \in Task : pc[u] = "blocked" => mutex[u] \in Mutexes
  BY CallersMutex DEF Calling
<1>3. ASSUME NEW t \in Task, UNCHANGED waiting, pc'[t] # "blocked",
             \A u \in Task : u # t => pc'[u] = pc[u] /\ mutex'[u] = mutex[u]
      PROVE  Listed'
  BY <1>3 DEF Listed
<1>4. ASSUME NEW t \in Task,
             \/ Begin(t) \/ TakeAgain(t) \/ xQueueSemaphoreTake(t) \/ Recheck(t) \/ Settle(t)
             \/ GiveInner(t) \/ vTaskDelay(t)
      PROVE  Listed'
  <2>1. UNCHANGED waiting /\ pc'[t] # "blocked" /\ \A u \in Task : u # t => pc'[u] = pc[u]
    BY <1>4 DEF Begin, TakeAgain, xQueueSemaphoreTake, Recheck, Settle, GiveInner, vTaskDelay,
                Goto, Return, TypeOK
  <2>2. \A u \in Task : u # t => mutex'[u] = mutex[u]
    BY <1>4 DEF Begin, TakeAgain, xQueueSemaphoreTake, Recheck, Settle, GiveInner, vTaskDelay,
                Return, TypeOK
  <2> QED
    BY <1>3, <2>1, <2>2
<1>5. ASSUME NEW t \in Task, Block(t) PROVE Listed'
  <2>1. /\ pc[t] = "block" /\ UNCHANGED mutex
        /\ \A u \in Task : u # t => pc'[u] = pc[u]
    BY <1>5 DEF Block, Goto, TypeOK
  <2>2. CASE UNCHANGED waiting /\ pc'[t] # "blocked"
    BY <1>3, <2>1, <2>2
  <2>3. CASE waiting' = [waiting EXCEPT ![mutex[t]] = vListInsert(@, t)]
    <3>1. mutex[t] \in Mutexes
      BY <2>1, CallersMutex DEF Calling
    <3>2. Members(vListInsert(waiting[mutex[t]], t)) = Members(waiting[mutex[t]]) \cup {t}
      BY <1>1, <3>1, InsertFacts DEF TypeOK
    <3>3. \A m \in Mutexes : /\ Members(waiting[m]) \subseteq Members(waiting'[m])
                             /\ m = mutex[t] => t \in Members(waiting'[m])
      BY <2>3, <3>1, <3>2 DEF TypeOK
    <3> QED
      BY <1>2, <2>1, <3>1, <3>3 DEF Listed
  <2> QED
    BY <1>1, <1>5, <2>2, <2>3 DEF Block, Goto, TypeOK
<1>6. ASSUME NEW t \in Task, Give(t) PROVE Listed'
  <2>1. PICK m \in Mutexes :
                 /\ waiting[m] = <<>> => UNCHANGED <<waiting, pc>>
                 /\ waiting[m] # <<>> =>
                       /\ waiting' = [waiting EXCEPT ![m] = Tail(@)]
                       /\ pc' = [pc EXCEPT ![Head(waiting[m])] = "try"]
    BY <1>6, GiveIs
  <2>2. UNCHANGED mutex
    BY <1>6, GiveIs
  <2>3. CASE waiting[m] = <<>>
    BY <2>1, <2>2, <2>3 DEF Listed
  <2>4. CASE waiting[m] # <<>>
    <3> DEFINE head == Head(waiting[m])
    <3>1. /\ head \in Task
          /\ Members(Tail(waiting[m])) = Members(waiting[m]) \ {head}
      BY <1>1, <2>4, TailFacts, HeadTailProperties
    <3>2. pc' = [pc EXCEPT ![head] = "try"] /\ waiting' = [waiting EXCEPT ![m] = Tail(@)]
      BY <2>1, <2>4
    <3> HIDE DEF head
    <3>3. \A n \in Mutexes : Members(waiting[n]) \ {head} \subseteq Members(waiting'[n])
      BY <3>1, <3>2 DEF TypeOK
    <3>4. \A u \in Task : pc'[u] = "blocked" => u # head /\ pc[u] = "blocked"
      BY <1>1, <3>1, <3>2 DEF TypeOK
    <3> QED
      BY <1>2, <2>2, <3>3, <3>4 DEF Listed
  <2> QED
    BY <2>3, <2>4
<1>7. ASSUME xTaskIncrementTick PROVE Listed'
  <2>1. PICK E \in SUBSET {t \in Task : Timed(t)} :
           /\ pc' = [t \in Task |-> IF t \in E /\ pc[t] = "asleep" THEN "app"
                                ELSE IF t \in E /\ pc[t] = "blocked" THEN "try" ELSE pc[t]]
           /\ waiting' = [m \in Mutexes |-> Without(waiting[m], E)]
           /\ UNCHANGED mutex
    BY <1>7 DEF xTaskIncrementTick
  <2>2. \A m \in Mutexes : Members(waiting'[m]) = Members(waiting[m]) \ E
    BY <1>1, <2>1, WithoutFacts
  <2>3. \A u \in Task : pc'[u] = "blocked" => u \notin E /\ pc[u] = "blocked"
    BY <2>1
  <2> QED
    BY <1>2, <2>1, <2>2, <2>3 DEF Listed
<1>8. CASE UNCHANGED vars
  BY <1>8 DEF vars, Listed
<1> QED
  BY <1>4, <1>5, <1>6, <1>7, <1>8 DEF Next

BitsRight == uxTopReadyPriority = ReadyPriorities

(* Only the holder's change of priority by a task that has timed out may   *)
(* leave a bit behind; another task of that priority is ready then: the    *)
(* one that lent it, which has timed out too.                              *)
LEMMA BitsStep ==
    ASSUME OneMutexEach, InvOne, Listed, BitsRight, [Next]_vars
    PROVE  BitsRight'
<1> USE DEF InvOne
<1>1. /\ TypeOK /\ uxBasePriority \in [Task -> Nat] /\ uxPriority \in [Task -> Nat]
      /\ pc \in [Task -> Calling \cup {"app", "asleep"}]
  BY MutexAssumption DEF Inv, TypeOK, Calling
<1>2. ASSUME NEW required, YieldIf(required) PROVE BitsRight'
  BY <1>2, YieldsToTask DEF BitsRight, ReadyBits
<1>3. ASSUME UNCHANGED <<uxPriority, uxTopReadyPriority>>,
             \A u \in Task : Ready(u)' <=> Ready(u)
      PROVE  BitsRight'
  BY <1>3 DEF BitsRight, ReadyPriorities
<1>4. ASSUME NEW t \in Task,
             \/ Begin(t) \/ TakeAgain(t) \/ xQueueSemaphoreTake(t) \/ Recheck(t) \/ GiveInner(t)
      PROVE  BitsRight'
  <2>1. UNCHANGED <<uxPriority, uxTopReadyPriority>>
    BY <1>4 DEF Begin, TakeAgain, xQueueSemaphoreTake, Recheck, GiveInner
  <2>2. /\ Ready(t) /\ pc'[t] \notin {"blocked", "asleep"}
        /\ \A u \in Task : u # t => pc'[u] = pc[u]
    BY <1>1, <1>4 DEF Begin, TakeAgain, xQueueSemaphoreTake, Recheck, GiveInner, Goto, Return,
                      Ready
  <2> QED
    BY <1>3, <2>1, <2>2 DEF Ready
<1>5. ASSUME NEW t \in Task, Block(t) PROVE BitsRight'
  <2>1. CASE YieldIf(TRUE)
    BY <1>2, <2>1
  <2>2. CASE ~YieldIf(TRUE)
    <3>1. /\ UNCHANGED <<uxPriority, uxTopReadyPriority>> /\ pc[t] = "block"
          /\ pc'[t] \in {"recheck", "try"}
          /\ \A u \in Task : u # t => pc'[u] = pc[u]
      BY <1>1, <1>5, <2>2 DEF Block, Goto
    <3> QED
      BY <1>3, <3>1 DEF Ready
  <2> QED
    BY <2>1, <2>2
<1>6. ASSUME NEW t \in Task, vTaskDelay(t) PROVE BitsRight'
  BY <1>2, <1>6 DEF vTaskDelay
<1>7. ASSUME NEW t \in Task, Give(t) PROVE BitsRight'
  BY <1>2, <1>7 DEF Give
<1>8. ASSUME xTaskIncrementTick PROVE BitsRight'
  BY <1>2, <1>8 DEF xTaskIncrementTick
<1>9. ASSUME NEW t \in Task, Settle(t) PROVE BitsRight'
  <2> DEFINE m == mutex[t]
             h == xMutexHolder[m]
  <2>1. /\ pc[t] = "settle" /\ uxPriority' = DisinheritedAfterTimeout(m)
        /\ uxTopReadyPriority' = uxTopReadyPriority \cup ReadyPriorities'
        /\ pc' = [pc EXCEPT ![t] = "app"]
    BY <1>9 DEF Settle, Return, Goto
  <2>2. m \in Mutexes /\ \A n \in Mutexes : xMutexHolder[n] # t
    BY <2>1, CallerAtBase DEF Calling
  <2>3. \A u \in Task : Ready(u)' <=> Ready(u)
    BY <1>1, <2>1 DEF Ready
  <2> SUFFICES ASSUME NEW u \in Task, Ready(u)
               PROVE  \E v \in Task : Ready(v)' /\ uxPriority'[v] = uxPriority[u]
    BY <2>1 DEF BitsRight, ReadyPriorities
  <2>4. CASE uxPriority'[u] = uxPriority[u]
    BY <2>3, <2>4
  <2>5. CASE uxPriority'[u] # uxPriority[u]
    <3>1. /\ u = h /\ h # None /\ \A v \in Task : v # h => uxPriority'[v] = uxPriority[v]
          /\ uxPriority'[h] = Higher(uxBasePriority[h], HighestWaiting(m))
      BY <1>1, <2>1, <2>5 DEF DisinheritedAfterTimeout
    <3> HIDE DEF m, h
    <3>2. uxPriority[h] >= uxBasePriority[h] /\ uxPriority[h] \in Nat /\ uxBasePriority[h] \in Nat
      BY <1>1, <3>1 DEF Inv, PriorityKept
    <3>3. waiting[m] # <<>> =>
             /\ HighestWaiting(m) \in Nat /\ uxPriority[h] >= HighestWaiting(m)
             /\ \A v \in Members(waiting[m]) : HighestWaiting(m) >= uxBasePriority[v]
      <4> SUFFICES ASSUME waiting[m] # <<>>
                   PROVE  /\ HighestWaiting(m) \in Nat /\ uxPriority[h] >= HighestWaiting(m)
                          /\ \A v \in Members(waiting[m]) : HighestWaiting(m) >= uxBasePriority[v]
        OBVIOUS
      <4>1. /\ Head(waiting[m]) \in Members(waiting[m])
            /\ HighestWaiting(m) = uxBasePriority[Head(waiting[m])]
            /\ \A v \in Members(waiting[m]) : HighestWaiting(m) >= uxBasePriority[v]
        BY <2>2, HighestIs
      <4>2. Head(waiting[m]) \in Task
        BY <2>2, <4>1, WaiterFacts
      <4> QED
        BY <1>1, <2>2, <3>1, <4>1, <4>2 DEF HolderHigh, h
    <3>4. waiting[m] = <<>> => HighestWaiting(m) = 0
      BY DEF HighestWaiting
    <3>5. uxPriority[h] > uxBasePriority[h]
      BY <2>5, <3>1, <3>2, <3>3, <3>4 DEF Higher
    <3>6. PICK v \in Task : Lends(v, m)
      BY <2>2, <3>1, <3>5 DEF LoanLent, h
    <3>7. mutex[v] = m /\ xInheritanceOccurred[v] /\ uxBasePriority[v] = uxPriority[h]
      BY <3>6 DEF Lends, h
    <3>8. v \notin Members(waiting[m])
      <4> SUFFICES ASSUME v \in Members(waiting[m]) PROVE FALSE
        OBVIOUS
      <4>1. waiting[m] # <<>>
        BY DEF Members
      <4> QED
        BY <1>1, <2>5, <3>1, <3>2, <3>3, <3>5, <3>7, <4>1 DEF Higher
    <3>9. pc[v] \in Calling /\ pc[v] # "blocked"
      BY <3>7, <3>8 DEF Listed, Inv, InCall
    <3>10. Ready(v) /\ v # h /\ uxPriority[v] = uxBasePriority[v]
      BY <2>2, <3>1, <3>9, CallerAtBase DEF Ready, Calling, h
    <3> QED
      BY <2>3, <3>1, <3>7, <3>10
  <2> QED
    BY <2>4, <2>5
<1>10. CASE UNCHANGED vars
  BY <1>3, <1>10 DEF vars, Ready
<1> QED
  BY <1>4, <1>5, <1>6, <1>7, <1>8, <1>9, <1>10 DEF Next

-----------------------------------------------------------------------------
(* The theorems, for tasks that use one mutex each *)

LEMMA InitCorrectOne == ASSUME Init PROVE InvOne
<1>1. \A m \in Mutexes : waiting[m] = <<>> /\ xMutexHolder[m] = None
  BY DEF Init
<1>2. Members(<<>>) = {} /\ Sorted(<<>>)
  BY DEF Members, Sorted
<1> QED
  BY <1>1, <1>2, InitCorrect
  DEF InvOne, Owned, Ordered, FreeServed, HolderHigh, WaiterLent, LoanLent

LEMMA StepCorrectOne == OneMutexEach /\ InvOne /\ [Next]_vars => InvOne'
BY StepCorrect, OwnedStep, OrderedStep, FreeServedStep, HolderStep, LentStep, LoanStep
DEF InvOne

(* Where each task uses one mutex, takes, gives and time-outs in any order *)
(* keep the inductive invariant of the inheritance.                        *)
THEOREM InheritanceCorrect == Spec => [](OneMutexEach => InvOne)
<1>1. Init => (OneMutexEach => InvOne)
  BY InitCorrectOne
<1>2. (OneMutexEach => InvOne) /\ [Next]_vars => (OneMutexEach => InvOne)'
  BY StepCorrectOne, OneMutexStays
<1> QED
  BY <1>1, <1>2, PTL DEF Spec

(* Priority inversion is bounded where each task uses one mutex: whoever   *)
(* waits for it, its holder runs at no lower priority, also after others   *)
(* have given up and after it was taken past those who wait                *)
(* (xTaskPriorityInherit, vTaskPriorityDisinheritAfterTimeout).            *)
THEOREM InversionBounded == Spec => []HolderInherits
<1>1. (OneMutexEach => InvOne) => HolderInherits
  <2> SUFFICES ASSUME OneMutexEach, InvOne, NEW m \in Mutexes, NEW t \in Waiters(m), xMutexHolder[m] # None
               PROVE  uxPriority[xMutexHolder[m]] >= uxPriority[t]
    BY DEF HolderInherits
  <2>1. t \in Members(waiting[m])
    BY WaitersAre
  <2>2. uxPriority[t] = uxBasePriority[t]
    BY <2>1, WaiterFacts DEF InvOne
  <2> QED
    BY <2>1, <2>2 DEF InvOne, HolderHigh
<1> QED
  BY <1>1, InheritanceCorrect, PTL

(* No loan of priority outlives its lenders, where each task uses one      *)
(* mutex: a holder runs above its own priority only while a task that high *)
(* waits, or is about to take the loan back (queue.c:1626-1640).           *)
THEOREM LoansReturned == Spec => []LoanReturned
<1>1. (OneMutexEach => InvOne) => LoanReturned
  <2> SUFFICES ASSUME OneMutexEach, InvOne, NEW t \in Task, NEW m \in Mutexes,
                      xMutexHolder[m] = t, uxPriority[t] > uxBasePriority[t]
               PROVE  \E u \in Lenders(m) : uxPriority[u] >= uxPriority[t]
    BY DEF LoanReturned
  <2>1. PICK u \in Task : Lends(u, m)
    BY NoneIsNone DEF InvOne, LoanLent
  <2>2. u \in Lenders(m) /\ uxBasePriority[u] = uxPriority[t]
    BY <2>1 DEF Lends, Lenders
  <2>3. uxPriority[u] >= uxBasePriority[u]
    BY DEF InvOne, Inv, PriorityKept
  <2>4. uxPriority[u] \in Nat /\ uxBasePriority[u] \in Nat /\ uxPriority[t] \in Nat
    BY MutexAssumption DEF InvOne, Inv, TypeOK
  <2> QED
    BY <2>2, <2>3, <2>4
<1> QED
  BY <1>1, InheritanceCorrect, PTL

(* The bitmap that selection relies on is right where each task uses one   *)
(* mutex: a bit is set exactly if a task of that priority is ready, so the *)
(* assertion at tasks.c:175 holds, whatever is lent, taken back and settled*)
(* after time-outs (taskRESET_READY_PRIORITY at tasks.c:3984, 4067, 4185). *)
THEOREM SelectionFinds == Spec => []ReadyBitsRight
<1> DEFINE J == OneMutexEach => Listed /\ BitsRight
<1>1. Init => J
  BY DEF Init, Listed, BitsRight
<1>2. (OneMutexEach => InvOne) /\ J /\ [Next]_vars => J'
  BY ListedStep, BitsStep, OneMutexStays DEF InvOne
<1>3. J => ReadyBitsRight
  BY DEF ReadyBitsRight, BitsRight
<1> HIDE DEF J
<1> QED
  BY <1>1, <1>2, <1>3, InheritanceCorrect, PTL DEF Spec

=============================================================================
