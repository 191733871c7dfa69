----------------------------- MODULE Bus_proofs -----------------------------
(***************************************************************************)
(* Proofs about Bus, for the bus of HTTPDisk with any sets of nodes and    *)
(* detachers, and that its list implements the table of UnitNumbers.       *)
(*                                                                         *)
(* Joined are the nodes which the program counters and references say are  *)
(* on the list.  The invariant relates them to the links: those of Joined  *)
(* and the head undo one another (Chained), and follow the unit numbers    *)
(* without leaving one out (Sorted).  It follows that a walk from the head *)
(* meets these nodes and no others (MembersAreJoined).  All this holds     *)
(* until a node is taken off which two detachers have found.               *)
(***************************************************************************)
EXTENDS Bus, FiniteSetTheorems, WellFoundedInduction, TLAPS

(* Inserted, not taken off by the detacher, nor by the clearing.           *)
Joined ==
  {n \in Node : /\ pc[n] \in {"link", "added"} /\ refs[n] = 2
                /\ \A d \in Detacher : target[d] = n => pc[d] # "unlink"}

Place == Joined \cup {Head}

(* The unit number of a place; the head is before the first of them.       *)
At(l) == IF l = Head THEN -1 ELSE num[l]

Shapes ==
  /\ flink \in [Link -> Link \cup {None}] /\ blink \in [Link -> Link \cup {None}]
  /\ num \in [Node -> Nat] /\ unit \in [Detacher -> Nat]
  /\ refs \in [Node -> 0 .. 2] /\ target \in [Detacher -> Node \cup {None}]
  /\ DOMAIN pc = Proc /\ walker \in Link /\ cleared \in Link

(* The references to a node, by how far its thread has got.                *)
References ==
  \A n \in Node :
    /\ pc[n] \in {"idle", "lock", "walk", "insert", "link", "added", "refused"}
    /\ pc[n] = "idle" => refs[n] = 1
    /\ pc[n] \in {"lock", "walk", "insert"} => refs[n] = 2
    /\ pc[n] = "refused" => refs[n] = 0

(* A detacher has a node which has the unit number it was asked for.  Two  *)
(* may have the same one, until one of them takes it off.                  *)
Targets ==
  \A d \in Detacher :
    /\ pc[d] \in {"idle", "find", "remove", "unlink", "delete"}
    /\ pc[d] \in {"idle", "find"} <=> target[d] = None
    /\ target[d] # None =>
         /\ pc[target[d]] \in {"link", "added"}
         /\ num[target[d]] = unit[d]
         /\ refs[target[d]] = IF pc[d] = "delete" THEN 1 ELSE 2
         /\ \A e \in Detacher \ {d} : target[e] = target[d] => pc[d] = "remove"

Chained ==
  \A l \in Place :
    /\ flink[l] \in Place /\ blink[l] \in Place
    /\ blink[flink[l]] = l /\ flink[blink[l]] = l

(* The next place has a greater number, and there is none between the two. *)
Sorted ==
  /\ \A l \in Place :
       /\ flink[l] # Head => At(l) < num[flink[l]]
       /\ \A n \in Joined :
            num[n] <= At(l) \/ (flink[l] # Head /\ num[flink[l]] <= num[n])
  /\ \A m, n \in Joined : num[m] = num[n] => m = n

(* Whoever walks has the lock.  One who adds a node has met all numbers    *)
(* below its own, and puts the node between two places.                    *)
Used == {num[n] : n \in Joined}

Walking ==
  /\ \A p \in Proc :
       pc[p] \in {"walk", "insert", "find"} => lock = p /\ walker \in Place
  /\ \A n \in Node :
       /\ pc[n] \in {"walk", "insert"} => \A v \in 0 .. num[n] - 1 : v \in Used
       /\ pc[n] = "lock" => num[n] = 0
       /\ pc[n] = "walk" => At(walker) = num[n] - 1
       /\ pc[n] = "insert" =>
            /\ At(blink[walker]) = num[n] - 1
            /\ walker # Head => num[walker] > num[n]

(* A bus is cleared once nobody works with it, from its first node on.     *)
Clearing ==
  /\ clearing \in {"no", "lock", "walk", "done"}
  /\ clearing # "no" => manager = "removed" /\ Closed
  /\ clearing \in {"no", "lock"} => cleared = Head
  /\ clearing = "walk" => flink[cleared] = flink[Head]
  /\ cleared # Head => refs[cleared] = 1 /\ pc[cleared] = "added"

IInv ==
  Shapes /\ References /\ Targets /\ Chained /\ Sorted /\ Walking /\ Clearing

(* The bus of HTTPDisk.  (With the detach request of AoE the list does not *)
(* keep what it promises: see Bus.)                                        *)
OfHTTPDisk == Driver = "HTTPDisk"

-----------------------------------------------------------------------------
(* The list                                                                *)

LEMMA Names ==
  /\ IsFiniteSet(Node) /\ Node \cap Detacher = {} /\ Proc = Node \cup Detacher
  /\ Link = Node \cup {Head} /\ Head \notin Proc
  /\ None \notin Proc /\ None # Head
BY NamesAssumption DEF Proc, Link

LEMMA InitIInv == Init => IInv
<1> SUFFICES ASSUME Init PROVE IInv
  OBVIOUS
<1>1. Joined = {} /\ Place = {Head}
  BY Names DEF Init, Joined, Place
<1>2. Shapes
  BY Names DEF Init, Shapes
<1>3. References /\ Targets
  BY Names DEF Init, References, Targets
<1>4. Chained /\ Sorted
  BY <1>1, Names DEF Init, Chained, Sorted
<1>5. Walking /\ Clearing
  BY Names DEF Init, Walking, Clearing
<1> QED
  BY <1>2, <1>3, <1>4, <1>5 DEF IInv

(* The list is as it was if its places and what they hold are.             *)
LEMMA SameList ==
  ASSUME Chained, Sorted, Joined' = Joined,
         \A l \in Place : flink'[l] = flink[l] /\ blink'[l] = blink[l],
         \A n \in Joined : num'[n] = num[n]
  PROVE  Chained' /\ Sorted' /\ Used' = Used
<1>1. Place' = Place
  BY DEF Place
<1>2. Chained'
  BY <1>1 DEF Chained
<1>3. \A l \in Place : At(l)' = At(l)
  BY DEF At, Place
<1>4. \A l \in Place : flink[l] # Head => num'[flink[l]] = num[flink[l]]
  BY DEF Chained, Place
<1>5. Sorted'
  BY <1>1, <1>3, <1>4 DEF Sorted
<1> QED
  BY <1>2, <1>5 DEF Used

(* Taking a node off the list.                                             *)
LEMMA RemoveFromList ==
  ASSUME Shapes, Chained, Sorted, NEW m \in Joined, Remove(m),
         Joined' = Joined \ {m}, num' = num
  PROVE  Chained' /\ Sorted'
<1> USE Names
<1>1. m \in Node /\ m # Head /\ Joined \subseteq Node /\ Place \subseteq Link
  BY DEF Joined, Place
<1>2. Place' = Place \ {m}
  BY <1>1 DEF Place
<1>3. /\ flink[m] \in Place /\ blink[m] \in Place
      /\ flink[m] # m /\ blink[m] # m
  BY <1>1 DEF Chained, Sorted, Place, At, Shapes
<1>4. /\ flink' = [flink EXCEPT ![blink[m]] = flink[m]]
      /\ blink' = [blink EXCEPT ![flink[m]] = blink[m]]
  BY DEF Remove
<1>5. \A l \in Place' :
        /\ flink'[l] = IF l = blink[m] THEN flink[m] ELSE flink[l]
        /\ blink'[l] = IF l = flink[m] THEN blink[m] ELSE blink[l]
  BY <1>1, <1>2, <1>4 DEF Shapes
<1>6. Chained'
  <2>1. flink[blink[m]] = m /\ blink[flink[m]] = m
    BY <1>1 DEF Chained, Place
  <2>2. \A l \in Place' : /\ l # blink[m] => flink[l] # m
                          /\ l # flink[m] => blink[l] # m
    BY <1>2 DEF Chained
  <2> QED
    BY <1>2, <1>3, <1>5, <2>1, <2>2 DEF Chained
<1>7. Sorted'
  <2>1. \A l \in Place' : At(l)' = At(l)
    BY DEF At
  <2>2. m \in Place /\ At(m) = num[m] /\ At(blink[m]) < num[m]
    <3>1. flink[blink[m]] = m
      BY DEF Chained, Place
    <3> QED
      BY <1>1, <1>3, <3>1 DEF Sorted, At, Place
  <2>3. \A l \in Place : At(l) \in Int
    BY <1>1 DEF At, Place, Shapes
  <2>4. \A n \in Joined : num[n] \in Nat
    BY <1>1 DEF Shapes
  <2>5. \A l \in Place : flink[l] # Head => flink[l] \in Joined
    BY DEF Chained, Place
  <2>6. flink[m] # Head => At(blink[m]) < num[flink[m]]
    BY <1>1, <1>3, <2>2, <2>3, <2>4, <2>5 DEF Sorted
  <2>7. ASSUME NEW n \in Joined \ {m}
        PROVE  num[n] <= At(blink[m]) \/ (flink[m] # Head /\ num[flink[m]] <= num[n])
    <3>1. num[n] # num[m]
      BY <2>7 DEF Sorted
    <3>2. num[n] <= At(blink[m]) \/ num[m] <= num[n]
      <4>1. flink[blink[m]] = m
        BY DEF Chained, Place
      <4> QED
        BY <1>3, <2>7, <4>1 DEF Sorted
    <3>3. num[n] <= num[m] \/ (flink[m] # Head /\ num[flink[m]] <= num[n])
      BY <2>2, <2>7 DEF Sorted
    <3> QED
      BY <2>2, <2>4, <3>1, <3>2, <3>3
  <2> QED
    BY <1>2, <1>5, <2>1, <2>6, <2>7 DEF Sorted
<1> QED
  BY <1>6, <1>7

(* Putting a node on the list, at the place where its number belongs.      *)
LEMMA InsertIntoList ==
  ASSUME Shapes, Chained, Sorted, NEW n \in Node \ Joined, NEW w \in Place,
         Insert(w, n), Joined' = Joined \cup {n}, num' = num,
         At(blink[w]) < num[n], w # Head => num[n] < num[w]
  PROVE  Chained' /\ Sorted'
<1> USE Names
<1> DEFINE b == blink[w]
<1>1. n \notin Place /\ n \in Link /\ Place \subseteq Link /\ Joined \subseteq Node
  BY DEF Place, Joined
<1>2. Place' = Place \cup {n}
  BY DEF Place
<1>3. b \in Place /\ flink[b] = w
  BY DEF Chained
<1>4. \A l \in Place' :
        /\ flink'[l] = IF l = b THEN n ELSE IF l = n THEN w ELSE flink[l]
        /\ blink'[l] = IF l = w THEN n ELSE IF l = n THEN b ELSE blink[l]
  BY <1>1, <1>2, <1>3 DEF Shapes, Insert
<1>5. Chained'
  <2>1. \A l \in Place : /\ l # b => flink[l] # w
                         /\ l # w => blink[l] # b
    BY <1>3 DEF Chained
  <2> QED
    BY <1>1, <1>2, <1>3, <1>4, <2>1 DEF Chained
<1>6. Sorted'
  <2>1. \A l \in Place' : At(l)' = At(l)
    BY DEF At
  <2>2. At(n) = num[n] /\ num[n] \in Nat
    BY <1>1 DEF At, Shapes
  <2>3. \A l \in Place : At(l) \in Int
    BY <1>1 DEF At, Place, Shapes
  <2>4. \A m \in Joined : /\ num[m] \in Nat /\ m # n
                          /\ num[m] <= At(b) \/ (w # Head /\ num[w] <= num[m])
    BY <1>1, <1>3 DEF Shapes, Sorted, Place
  <2>5. w # Head => w \in Joined
    BY DEF Place
  <2>6. \A m \in Joined : num[m] # num[n]
    BY <1>3, <2>2, <2>3, <2>4, <2>5
  <2>7. \A l \in Place' : flink'[l] # Head => At(l) < num[flink'[l]]
    BY <1>1, <1>2, <1>4, <2>2 DEF Sorted
  <2>8. ASSUME NEW l \in Place', NEW m \in Joined'
        PROVE  num[m] <= At(l) \/ (flink'[l] # Head /\ num[flink'[l]] <= num[m])
    <3>1. CASE l = b
      BY <1>1, <1>3, <1>4, <2>2, <2>3, <2>4, <2>5, <2>8, <3>1
    <3>2. CASE l = n
      BY <1>1, <1>3, <1>4, <2>2, <2>3, <2>4, <2>5, <2>8, <3>2
    <3>3. CASE l \in Place \ {b} /\ m # n
      BY <1>1, <1>4, <2>8, <3>3 DEF Sorted
    <3>4. CASE l \in Place \ {b} /\ m = n
      <4>1. flink'[l] = flink[l]
        BY <1>1, <1>4, <2>8, <3>4
      <4>2. CASE w # Head
        <5>1. num[w] <= At(l) \/ (flink[l] # Head /\ num[flink[l]] <= num[w])
          BY <2>5, <3>4, <4>2 DEF Sorted
        <5>2. CASE num[w] <= At(l)
          BY <2>2, <2>3, <2>4, <2>5, <3>4, <4>2, <5>2
        <5>3. CASE flink[l] # Head /\ num[flink[l]] <= num[w]
          <6>1. flink[l] \in Joined /\ flink[l] # w
            BY <1>3, <3>4, <5>3 DEF Chained, Place
          <6>2. num[flink[l]] # num[w]
            BY <2>5, <4>2, <6>1 DEF Sorted
          <6>3. num[flink[l]] <= At(b)
            BY <2>4, <2>5, <4>2, <5>3, <6>1, <6>2
          <6> QED
            BY <1>3, <2>2, <2>3, <2>4, <3>4, <4>1, <5>3, <6>1, <6>3
        <5> QED
          BY <5>1, <5>2, <5>3
      <4>3. CASE w = Head
        <5>1. flink[l] # Head
          BY <1>3, <3>4, <4>3 DEF Chained
        <5>2. flink[l] \in Joined
          BY <3>4, <5>1 DEF Chained, Place
        <5> QED
          BY <1>3, <2>2, <2>3, <2>4, <3>4, <4>1, <4>3, <5>1, <5>2
      <4> QED
        BY <4>2, <4>3
    <3> QED
      BY <1>2, <2>8, <3>1, <3>2, <3>3, <3>4
  <2> QED
    BY <2>1, <2>6, <2>7, <2>8 DEF Sorted
<1> QED
  BY <1>5, <1>6

(* A set of nodes has one with the smallest number.                        *)
LEMMA Smallest ==
  ASSUME num \in [Node -> Nat], NEW U \in SUBSET Node, U # {}
  PROVE  \E n \in U : \A m \in U : num[n] <= num[m]
<1> DEFINE Below(n) == {m \in Node : num[m] < num[n]}
           T == {Below(n) : n \in U}
<1>1. IsWellFoundedOn(StrictSubsetOrdering(Node), FiniteSubsetsOf(Node))
  BY FS_StrictSubsetOrderingWellFounded
<1>2. T \subseteq FiniteSubsetsOf(Node) /\ T # {}
  <2>1. \A n \in U : Below(n) \in SUBSET Node
    OBVIOUS
  <2>2. \A S \in SUBSET Node : S \in FiniteSubsetsOf(Node)
    BY Names, FS_Subset DEF FiniteSubsetsOf
  <2>3. PICK n \in U : TRUE
    OBVIOUS
  <2>4. Below(n) \in T
    OBVIOUS
  <2> QED
    BY <2>1, <2>2, <2>4
<1> HIDE DEF T
<1>3. PICK x \in T : \A y \in T : <<y, x>> \notin StrictSubsetOrdering(Node)
  BY <1>1, <1>2, WFMin
<1>4. PICK n \in U : x = Below(n)
  BY DEF T
<1>5. ASSUME NEW m \in U, num[m] < num[n]  PROVE FALSE
  <2>1. Below(m) \in T
    BY DEF T
  <2>2. Below(m) \subseteq Below(n) /\ m \in Below(n) \ Below(m)
    BY <1>5
  <2>3. <<Below(m), Below(n)>> \in StrictSubsetOrdering(Node)
    BY <2>2 DEF StrictSubsetOrdering
  <2> QED
    BY <1>3, <1>4, <2>1, <2>3
<1> QED
  BY <1>5

(* A walk from the head of the list meets the nodes which have joined.     *)
LEMMA MembersAreJoined ==
  ASSUME Shapes, Chained, Sorted  PROVE Members = Joined
<1> USE Names
<1>1. Joined \in SUBSET Node /\ Place = Joined \cup {Head}
  BY DEF Place, Joined
<1>2. ASSUME NEW n \in Members  PROVE n \in Joined
  <2>1. \A l \in Joined \cup {Head} : flink[l] \in Joined \cup {Head, None}
    BY <1>1 DEF Chained
  <2> QED
    BY <1>1, <1>2, <2>1 DEF Members
<1>3. ASSUME NEW S \in SUBSET Node,
             \A l \in S \cup {Head} : flink[l] \in S \cup {Head, None}
      PROVE  Joined \subseteq S
  <2> DEFINE U == Joined \ S
  <2>1. SUFFICES ASSUME U # {} PROVE FALSE
    OBVIOUS
  <2>2. PICK n \in U : \A m \in U : num[n] <= num[m]
    BY <2>1, Smallest DEF Shapes, Joined
  <2>3. blink[n] \in Place /\ flink[blink[n]] = n /\ n \in Node
    BY DEF Chained, Place, Joined
  <2>4. blink[n] \notin S \cup {Head}
    BY <1>3, <2>3
  <2>5. blink[n] \in U
    BY <1>1, <2>3, <2>4
  <2>6. num[blink[n]] < num[n]
    BY <1>1, <2>3, <2>5 DEF Sorted, At, Joined
  <2> QED
    BY <2>2, <2>5, <2>6 DEF Shapes, Joined
<1> QED
  BY <1>1, <1>2, <1>3 DEF Members

-----------------------------------------------------------------------------
(* The steps                                                               *)

(* What a step does to the table: nothing, or a node joins with the lowest *)
(* free number, or a node leaves.                                          *)
Joins(n) ==
  /\ Joined' = Joined \cup {n} /\ num' = num /\ Increment
  /\ num[n] \notin Used /\ \A v \in 0 .. num[n] - 1 : v \in Used

TableStep ==
  /\ overtaken' = overtaken
  /\ \/ /\ Joined' = Joined /\ nodeCount' = nodeCount
        /\ \A n \in Joined : num'[n] = num[n]
     \/ \E n \in Node \ Joined : Joins(n)
     \/ \E n \in Joined : Joined' = Joined \ {n} /\ num' = num /\ Decrement

(* Adding a node.                                                          *)
LEMMA AddNext ==
  ASSUME OfHTTPDisk, IInv, NEW n \in Node, Add(n)
  PROVE  IInv' /\ TableStep
<1> USE Names DEF IInv, Goto, list, nodes, walk, detach, clear, pnp
<1>0. n \in Proc /\ (\A d \in Detacher : d # n /\ d \in Proc) /\ Head # n
  OBVIOUS
<1>1. CASE CreateNode(n)
  <2> USE <1>1 DEF CreateNode, Blank
  <2>1. \A d \in Detacher : target[d] # n
    BY DEF Targets
  <2>2. Joined' = Joined /\ n \notin Place
    BY <1>0 DEF Joined, Place, Shapes
  <2>3. Shapes' /\ References' /\ Targets'
    BY <1>0, <2>1 DEF Shapes, References, Targets
  <2>4. Chained' /\ Sorted' /\ Used' = Used /\ Place' = Place
    BY <2>2, SameList DEF Shapes, Place, Joined
  <2>5. Walking'
    BY <1>0, <2>2, <2>4 DEF Walking, Shapes, At, Place, Chained, References
  <2>6. Clearing'
    BY <1>0, <2>2 DEF Clearing, Closed, Shapes, Place
  <2> QED
    BY <1>0, <2>2, <2>3, <2>4, <2>5, <2>6 DEF TableStep, Place, Shapes
<1>2. CASE AddNode(n)
  <2> USE <1>2 DEF AddNode, Dereference
  <2>1. clearing = "no" /\ cleared = Head
    BY DEF Open, Ioctl, OfHTTPDisk, Clearing
  <2>2. Joined' = Joined /\ n \notin Place
    BY <1>0 DEF Joined, Place, Shapes
  <2>3. Shapes' /\ References'
    BY <1>0 DEF OfHTTPDisk, Shapes, References
  <2>8. Targets'
    <3>1. \A d \in Detacher : pc'[d] = pc[d] /\ target[d] # n
      BY <1>0 DEF Shapes, Targets
    <3>2. \A m \in Node : m # n =>
            pc'[m] = pc[m] /\ num'[m] = num[m] /\ refs'[m] = refs[m]
      BY <1>0 DEF Shapes
    <3>3. \A d \in Detacher : target[d] \in Node \cup {None}
      BY DEF Shapes
    <3> QED
      BY <3>1, <3>2, <3>3 DEF Targets
  <2>4. Chained' /\ Sorted' /\ Used' = Used /\ Place' = Place
    BY <2>2, SameList DEF Shapes, Place, Joined
  <2>5. Walking'
    <3>1. /\ \A p \in Proc : p # n => pc'[p] = pc[p]
          /\ \A m \in Node : m # n => num'[m] = num[m]
          /\ pc'[n] \in {"lock", "refused"}
          /\ pc'[n] = "lock" => num'[n] = 0
      BY <1>0 DEF Shapes
    <3>2. \A l \in Place : num'[l] = num[l] \/ l = Head
      BY <2>2, <3>1 DEF Place, Joined
    <3>3. walker \in Place => /\ At(walker)' = At(walker)
                             /\ At(blink[walker])' = At(blink[walker])
      BY <3>2 DEF At, Chained
    <3>4. lock' = lock /\ walker' = walker
      OBVIOUS
    <3>5. \A p \in Proc : pc'[p] \in {"walk", "insert", "find"} =>
            /\ p # n /\ pc'[p] = pc[p] /\ lock' = p /\ walker' \in Place'
      BY <1>0, <2>4, <3>1, <3>4 DEF Walking
    <3>6. \A m \in Node : pc'[m] \in {"walk", "insert"} =>
            /\ m # n /\ pc'[m] = pc[m] /\ num'[m] = num[m]
            /\ At(walker)' = At(walker) /\ At(blink[walker])' = At(blink[walker])
            /\ walker # Head => num'[walker] = num[walker]
      BY <2>4, <3>1, <3>2, <3>3, <3>4, <3>5
    <3>7. \A m \in Node : pc'[m] = "lock" => num'[m] = 0
      BY <3>1 DEF Walking
    <3> QED
      BY <2>4, <3>4, <3>5, <3>6, <3>7 DEF Walking
  <2>6. Clearing'
    BY <2>1 DEF Clearing
  <2>7. TableStep
    <3>1. \A m \in Joined : m \in Node /\ m # n
      BY <2>2 DEF Joined, Place
    <3> QED
      BY <2>2, <3>1 DEF TableStep, Shapes
  <2> QED
    BY <2>3, <2>4, <2>5, <2>6, <2>7, <2>8
<1>3. CASE AddLock(n)
  <2> USE <1>3 DEF AddLock, Lock
  <2>1. clearing = "no" /\ cleared = Head
    BY <1>0 DEF Closed, Ioctl, OfHTTPDisk, Clearing
  <2>2. Joined' = Joined
    BY <1>0 DEF Joined, Place, Shapes
  <2>3. Shapes' /\ References' /\ Targets'
    BY <1>0 DEF Shapes, References, Targets
  <2>4. Chained' /\ Sorted' /\ Used' = Used /\ Place' = Place
    BY <2>2, SameList DEF Shapes, Place, Joined
  <2>5. Walking'
    BY <1>0, <2>2, <2>4 DEF Walking, Shapes, At, Place, Chained, References
  <2>6. Clearing'
    BY <2>1 DEF Clearing
  <2> QED
    BY <1>0, <2>2, <2>3, <2>4, <2>5, <2>6 DEF TableStep, Place, Shapes
<1>4. CASE AddWalk(n)
  <2> USE <1>4 DEF AddWalk
  <2>1. clearing = "no" /\ cleared = Head
    BY <1>0 DEF Closed, Ioctl, OfHTTPDisk, Clearing
  <2>2. Joined' = Joined /\ n \notin Place
    BY <1>0 DEF Joined, Place, Shapes
  <2>3. /\ walker \in Place /\ walker' = flink[walker] /\ walker' \in Place
        /\ blink[walker'] = walker /\ At(walker) = num[n] - 1 /\ num[n] \in Nat
    BY <1>0 DEF Walking, Chained, Shapes
  <2>4. walker' # Head => /\ At(walker) < num[walker'] /\ num[walker'] \in Nat
                          /\ walker' \in Joined
    BY <2>3 DEF Sorted, Place, Shapes, Joined
  <2>5. Shapes' /\ References' /\ Targets'
    BY <1>0, <2>3 DEF Shapes, References, Targets, Place, Joined
  <2>6. Chained' /\ Sorted' /\ Used' = Used /\ Place' = Place
    BY <2>2, SameList DEF Shapes, Place, Joined
  <2>7. Clearing'
    BY <2>1 DEF Clearing
  <2>8. CASE SlotBefore(n, walker')
    <3>1. walker' # Head => num[walker'] > num[n]
      BY <2>3, <2>4, <2>8 DEF SlotBefore, At
    <3>2. /\ num' = num /\ pc' = [pc EXCEPT ![n] = "insert"]
      BY <2>8
    <3> QED
      BY <1>0, <2>2, <2>3, <2>5, <2>6, <2>7, <3>1, <3>2
      DEF Walking, Shapes, At, TableStep
  <2>9. CASE ~SlotBefore(n, walker')
    <3>1. num[walker'] = num[n] /\ walker' \in Joined
      BY <2>3, <2>4, <2>9 DEF SlotBefore
    <3>2. /\ num' = [num EXCEPT ![n] = @ + 1] /\ pc' = pc
      BY <2>9
    <3>3. \A v \in 0 .. num'[n] - 1 : v \in Used
      BY <2>3, <3>1, <3>2 DEF Walking, Used, Shapes
    <3>4. At(walker)' = num'[n] - 1
      BY <1>0, <2>2, <2>3, <3>1, <3>2 DEF At, Joined, Shapes
    <3>5. Walking'
      BY <1>0, <2>2, <2>3, <2>6, <3>2, <3>3, <3>4
      DEF Walking, Shapes, At, Place, Chained
    <3>6. TableStep
      BY <1>0, <2>2, <3>2 DEF TableStep, Place, Shapes
    <3> QED
      BY <2>5, <2>6, <2>7, <3>5, <3>6
  <2> QED
    BY <2>8, <2>9
<1>5. CASE AddInsert(n)
  <2> USE <1>5 DEF AddInsert, Unlock
  <2>1. clearing = "no" /\ cleared = Head
    BY <1>0 DEF Closed, Ioctl, OfHTTPDisk, Clearing
  <2>2. Joined' = Joined \cup {n} /\ n \notin Place
    BY <1>0 DEF Joined, Place, Shapes, References, Targets
  <2>3. /\ walker \in Place /\ At(blink[walker]) < num[n]
        /\ walker # Head => num[n] < num[walker]
    BY <1>0 DEF Walking, Shapes
  <2>4. Chained' /\ Sorted'
    BY <2>2, <2>3, InsertIntoList DEF Place
  <2>5. Shapes' /\ References' /\ Targets'
    BY <1>0, <2>3 DEF Shapes, References, Targets, Place, Joined, Insert, Chained
  <2>6. Walking'
    BY <1>0 DEF Walking, Shapes
  <2>7. Clearing'
    BY <2>1 DEF Clearing
  <2>8. Joins(n)
    <3>1. blink[walker] \in Place /\ flink[blink[walker]] = walker
      BY <2>3 DEF Chained
    <3>2. \A m \in Joined : num[m] # num[n]
      BY <1>0, <2>3, <3>1 DEF Sorted, Shapes, Joined, Place, At
    <3> QED
      BY <1>0, <2>2, <3>2 DEF Joins, Walking, Used
  <2> QED
    BY <2>2, <2>4, <2>5, <2>6, <2>7, <2>8 DEF TableStep, Place
<1>6. CASE AddLinked(n)
  <2> USE <1>6 DEF AddLinked
  <2>1. clearing = "no" /\ cleared = Head
    BY <1>0 DEF Closed, Ioctl, OfHTTPDisk, Clearing
  <2>2. Joined' = Joined
    BY <1>0 DEF Joined, Place, Shapes
  <2>3. Shapes' /\ References' /\ Targets'
    BY <1>0 DEF Shapes, References, Targets
  <2>4. Chained' /\ Sorted' /\ Used' = Used /\ Place' = Place
    BY <2>2, SameList DEF Shapes, Place, Joined
  <2>5. Walking'
    BY <1>0, <2>2, <2>4 DEF Walking, Shapes, At, Place, Chained, References
  <2>6. Clearing'
    BY <2>1 DEF Clearing
  <2> QED
    BY <1>0, <2>2, <2>3, <2>4, <2>5, <2>6 DEF TableStep, Place, Shapes
<1> QED
  BY <1>1, <1>2, <1>3, <1>4, <1>5, <1>6 DEF Add

(* Detaching a unit.                                                       *)
LEMMA DetachNext ==
  ASSUME OfHTTPDisk, IInv, NEW d \in Detacher, Detach(d)
  PROVE  overtaken' \/ (IInv' /\ TableStep)
<1> USE Names DEF IInv, Goto, Return, list, nodes, walk, detach, clear, pnp
<1>0. /\ d \in Proc /\ (\A n \in Node : d # n /\ n \in Proc)
      /\ Head # d
  OBVIOUS
<1>1. ASSUME NEW u \in Unit, DetachStart(d, u)
      PROVE  IInv' /\ TableStep
  <2> USE <1>1 DEF DetachStart, Lock
  <2>1. clearing = "no" /\ cleared = Head /\ clearing' = "no" /\ cleared' = Head
    BY DEF Open, Ioctl, OfHTTPDisk, Clearing
  <2>2. Joined' = Joined
    BY <1>0 DEF Joined, Shapes
  <2>3. u \in Nat
    BY FS_CardinalityType DEF Unit
  <2>4. Shapes' /\ References' /\ Targets'
    BY <1>0, <2>3 DEF Shapes, References, Targets
  <2>5. Chained' /\ Sorted' /\ Used' = Used /\ Place' = Place
    BY <2>2, SameList DEF Shapes, Place, Joined
  <2>6. Walking'
    BY <1>0, <2>2, <2>5 DEF Walking, Shapes, Place
  <2> QED
    BY <2>1, <2>2, <2>3, <2>4, <2>5, <2>6 DEF Clearing, TableStep
<1>2. ASSUME DetachFind(d)  PROVE IInv' /\ TableStep
  <2> USE <1>2 DEF DetachFind, Unlock
  <2> DEFINE m == flink[walker]
  <2>1. clearing = "no" /\ cleared = Head
    BY <1>0 DEF Closed, Ioctl, OfHTTPDisk, Clearing
  <2>2. lock = d /\ walker \in Place /\ m \in Place /\ m \in Link
    BY <1>0 DEF Walking, Chained, Place, Joined
  <2>3. CASE StopsAt(d, m)
    <3>1. /\ target' = [target EXCEPT ![d] = IF m = Head THEN None ELSE m]
          /\ pc' = [pc EXCEPT ![d] = IF m = Head THEN "idle" ELSE "remove"]
          /\ unit' = [unit EXCEPT ![d] = IF m = Head THEN 0 ELSE @]
          /\ lock' = None /\ walker' = Head
      BY <2>2, <2>3 DEF Found, OfHTTPDisk, Shapes, Place, Joined
    <3>2. m # Head => m \in Joined /\ num[m] = unit[d]
      BY <2>2, <2>3 DEF StopsAt, Place
    <3>3. Joined' = Joined
      BY <1>0, <3>1 DEF Joined, Shapes, Targets
    <3>4. Shapes' /\ References'
      BY <1>0, <2>2, <3>1, <3>2 DEF Shapes, References, Joined
    <3>5. Targets'
      <4>1. \A e \in Detacher : target[e] = m /\ m # Head => pc[e] = "remove"
        BY <3>2 DEF Targets, Joined
      <4>2. pc[d] = "find" /\ target[d] = None
        BY DEF Targets
      <4>3. \A n \in Node : pc'[n] = pc[n] /\ num'[n] = num[n] /\ refs'[n] = refs[n]
        BY <1>0, <3>1 DEF Shapes
      <4>4. m # Head => /\ m \in Node /\ pc[m] \in {"link", "added"}
                        /\ refs[m] = 2 /\ num[m] = unit[d]
        BY <3>2 DEF Joined
      <4>5. \A e \in Detacher \ {d} : /\ pc'[e] = pc[e] /\ target'[e] = target[e]
                                      /\ unit'[e] = unit[e]
        BY <3>1 DEF Shapes
      <4>6. /\ m = Head => pc'[d] = "idle" /\ target'[d] = None
            /\ m # Head => pc'[d] = "remove" /\ target'[d] = m /\ unit'[d] = unit[d]
        BY <1>0, <3>1 DEF Shapes
      <4>7. \A e \in Detacher : target[e] \in Node \cup {None}
        BY DEF Shapes
      <4> QED
        BY <2>2, <4>1, <4>2, <4>3, <4>4, <4>5, <4>6, <4>7 DEF Targets
    <3>6. Chained' /\ Sorted' /\ Used' = Used /\ Place' = Place
      BY <3>3, SameList DEF Shapes, Place, Joined
    <3>7. Walking'
      BY <1>0, <2>2, <3>1 DEF Walking, Shapes
    <3> QED
      BY <2>1, <3>3, <3>4, <3>5, <3>6, <3>7 DEF Clearing, TableStep
  <2>4. CASE ~StopsAt(d, m)
    <3>1. /\ UNCHANGED <<unit, target, lock, pc>> /\ walker' = m
          /\ Joined' = Joined
      BY <2>4 DEF Joined
    <3>2. Shapes' /\ References' /\ Targets'
      BY <2>2, <3>1 DEF Shapes, References, Targets
    <3>3. Chained' /\ Sorted' /\ Used' = Used /\ Place' = Place
      BY <3>1, SameList DEF Shapes, Place, Joined
    <3>4. Walking'
      BY <1>0, <2>2, <3>1, <3>3 DEF Walking, Shapes
    <3> QED
      BY <2>1, <3>1, <3>2, <3>3, <3>4 DEF Clearing, TableStep
  <2> QED
    BY <2>3, <2>4
<1>3. ASSUME DetachRemove(d), ~Shared(d)  PROVE IInv' /\ TableStep
  <2> USE <1>3 DEF DetachRemove
  <2>1. clearing = "no" /\ cleared = Head
    BY <1>0 DEF Closed, Ioctl, OfHTTPDisk, Clearing
  <2>2. \A e \in Detacher : e # d => target[e] # target[d]
    BY DEF Shared
  <2>3. /\ target[d] \in Joined /\ target[d] \in Node
        /\ Joined' = Joined \ {target[d]}
    <3>1. target[d] \in Node /\ target[d] \in Joined
      BY <1>0, <2>2 DEF Joined, Shapes, Targets
    <3> QED
      BY <1>0, <2>2, <3>1 DEF Joined, Shapes
  <2>4. Chained' /\ Sorted'
    BY <2>3, RemoveFromList
  <2>5. flink[target[d]] \in Place /\ blink[target[d]] \in Place
    BY <2>3 DEF Chained, Place
  <2>6. Shapes' /\ References' /\ Targets'
    BY <1>0, <2>2, <2>3, <2>5
    DEF Shapes, References, Targets, Remove, Place, Joined
  <2>7. Walking'
    BY <1>0 DEF Walking, Shapes
  <2> QED
    BY <2>1, <2>3, <2>4, <2>6, <2>7 DEF Clearing, TableStep
<1>4. ASSUME DetachUnlinked(d)  PROVE IInv' /\ TableStep
  <2> USE <1>4 DEF DetachUnlinked, Dereference
  <2>1. clearing = "no" /\ cleared = Head
    BY <1>0 DEF Closed, Ioctl, OfHTTPDisk, Clearing
  <2>2. /\ target[d] \in Node /\ refs[target[d]] = 2 /\ target[d] \notin Place
        /\ refs' = [refs EXCEPT ![target[d]] = 1]
    <3>1. target[d] \in Node /\ refs[target[d]] = 2
      BY <1>0 DEF Shapes, Targets
    <3> QED
      BY <3>1 DEF Joined, Place
  <2>3. Joined' = Joined
    BY <1>0, <2>2 DEF Joined, Shapes
  <2>4. Shapes' /\ References' /\ Targets'
    BY <1>0, <2>2 DEF Shapes, References, Targets
  <2>5. Chained' /\ Sorted' /\ Used' = Used /\ Place' = Place
    BY <2>3, SameList DEF Shapes, Place, Joined
  <2>6. Walking'
    <3>1. \A l : At(l)' = At(l)
      BY DEF At
    <3> QED
      BY <1>0, <2>5, <3>1 DEF Walking, Shapes
  <2> QED
    BY <2>1, <2>2, <2>3, <2>4, <2>5, <2>6 DEF Clearing, TableStep
<1>5. ASSUME DetachDelete(d)  PROVE IInv' /\ TableStep
  <2> USE <1>5 DEF DetachDelete, Dereference, Blank
  <2>1. clearing = "no" /\ cleared = Head
    BY <1>0 DEF Closed, Ioctl, OfHTTPDisk, Clearing
  <2>2. /\ target[d] \in Node /\ refs[target[d]] = 1 /\ target[d] \notin Place
        /\ refs' = [refs EXCEPT ![target[d]] = 0]
    BY <1>0 DEF Shapes, Targets, Joined, Place, OfHTTPDisk
  <2>3. Joined' = Joined
    BY <1>0, <2>2 DEF Joined, Shapes
  <2>4. Shapes' /\ References' /\ Targets'
    BY <1>0, <2>2 DEF Shapes, References, Targets
  <2>5. Chained' /\ Sorted' /\ Used' = Used /\ Place' = Place
    BY <2>3, SameList DEF Shapes, Place, Joined
  <2>6. Walking'
    <3>1. \A l \in Node : l # target[d] => num'[l] = num[l]
      BY <2>2 DEF OfHTTPDisk, Shapes
    <3>2. Place \subseteq Node \cup {Head}
      BY DEF Place, Joined
    <3>3. \A l \in Place : num'[l] = num[l] \/ l = Head
      BY <2>2, <3>1, <3>2
    <3>4. /\ \A p \in Proc : p # d => pc'[p] = pc[p]
          /\ pc'[d] = "idle" /\ lock' = lock /\ walker' = walker
      BY <1>0 DEF Shapes
    <3>5. \A n \in Node : pc[n] \notin {"link", "added"} => num'[n] = num[n]
      BY <1>0, <3>1 DEF Targets
    <3>6. \A p \in Proc : pc'[p] \in {"walk", "insert", "find"} =>
            /\ p # d /\ pc'[p] = pc[p] /\ lock' = p /\ walker' \in Place'
      BY <2>5, <3>4 DEF Walking
    <3>7. \A l \in Place : At(l)' = At(l) /\ blink'[l] = blink[l] /\ blink[l] \in Place
      <4>1. \A l \in Place : l # target[d] /\ l \in Link
        BY <2>2, <3>2
      <4> QED
        BY <2>2, <3>3, <4>1 DEF At, OfHTTPDisk, Shapes, Chained
    <3>8. \A n \in Node : pc'[n] \in {"walk", "insert"} =>
            /\ pc'[n] = pc[n] /\ num'[n] = num[n]
            /\ At(walker)' = At(walker) /\ At(blink[walker])' = At(blink[walker])
            /\ walker # Head => num'[walker] = num[walker]
      <4> SUFFICES ASSUME NEW n \in Node, pc'[n] \in {"walk", "insert"}
                   PROVE  /\ pc'[n] = pc[n] /\ num'[n] = num[n]
                          /\ At(walker)' = At(walker)
                          /\ At(blink[walker])' = At(blink[walker])
                          /\ walker # Head => num'[walker] = num[walker]
        OBVIOUS
      <4>1. pc'[n] = pc[n] /\ walker \in Place
        BY <1>0, <2>5, <3>4, <3>6
      <4>2. num'[n] = num[n]
        BY <3>5, <4>1
      <4>3. /\ blink'[walker'] = blink[walker] /\ blink[walker] \in Place
            /\ At(blink[walker]) = IF blink[walker] = Head THEN -1 ELSE num'[blink[walker]]
        BY <3>3, <3>4, <3>7, <4>1 DEF At
      <4> QED
        BY <3>3, <3>4, <3>7, <4>1, <4>2, <4>3 DEF At
    <3>9. \A n \in Node : pc'[n] = "lock" => num'[n] = 0
      BY <1>0, <3>4, <3>5 DEF Walking
    <3> QED
      BY <2>5, <3>6, <3>8, <3>9 DEF Walking
  <2>7. TableStep
    <3>1. \A n \in Joined : n \in Node /\ n # target[d]
      BY <2>2 DEF Joined, Place
    <3> QED
      BY <2>2, <2>3, <3>1 DEF TableStep, OfHTTPDisk, Shapes
  <2> QED
    BY <2>1, <2>2, <2>3, <2>4, <2>5, <2>6, <2>7 DEF Clearing
<1>6. ASSUME DetachRemove(d), Shared(d)  PROVE overtaken'
  BY <1>6 DEF DetachRemove
<1> QED
  BY <1>1, <1>2, <1>3, <1>4, <1>5, <1>6 DEF Detach

(* A step which touches neither nodes nor processes.                       *)
LEMMA StillNext ==
  ASSUME IInv, UNCHANGED <<list, num, nodes, walk, detach, cleared>>, Clearing'
  PROVE  IInv' /\ TableStep
<1> USE DEF list, nodes, walk, detach, IInv
<1>1. Shapes' /\ References' /\ Targets'
  BY DEF Shapes, References, Targets
<1>2. Joined' = Joined
  BY DEF Joined
<1>3. Place' = Place
  BY <1>2 DEF Place
<1>4. Chained' /\ Sorted'
  BY <1>2, SameList
<1>5. \A l : At(l)' = At(l)
  BY DEF At
<1>6. Used' = Used
  BY <1>2 DEF Used
<1>7. Walking'
  BY <1>3, <1>5, <1>6 DEF Walking
<1> QED
  BY <1>1, <1>2, <1>4, <1>7 DEF TableStep

(* The PnP IRPs, and the clearing.                                         *)
LEMMA WindowsNext ==
  ASSUME IInv, Windows \/ ClearWait  PROVE IInv' /\ TableStep
<1> USE DEF IInv, list, nodes, walk, detach, clear, pnp
<1>1. CASE RemoveDevice
  <2>1. Clearing'
    BY <1>1 DEF RemoveDevice, Pnp, Clearing, Closed
  <2> QED
    BY <1>1, <2>1, StillNext DEF RemoveDevice, Pnp
<1>2. CASE ClearWait
  <2>1. Clearing'
    BY <1>2 DEF ClearWait, Clearing, Closed
  <2> QED
    BY <1>2, <2>1, StillNext DEF ClearWait
<1>3. CASE Windows /\ ~RemoveDevice
  <2> USE <1>3 DEF Windows, Pnp, StartDevice, QueryStop, CancelStop, StopDevice,
                  QueryRemove, CancelRemove, SurpriseRemoval
  <2>1. /\ UNCHANGED <<list, num, nodes, walk, detach, cleared>>
        /\ UNCHANGED clearing /\ manager # "removed"
    OBVIOUS
  <2>2. Clearing'
    BY <2>1 DEF Clearing
  <2> QED
    BY <2>1, <2>2, StillNext
<1> QED
  BY <1>1, <1>2, <1>3

LEMMA ClearNext ==
  ASSUME OfHTTPDisk, IInv, ClearWalk  PROVE IInv' /\ TableStep
<1> USE Names DEF IInv, ClearWalk, list, nodes, walk, detach, clear, pnp
<1> DEFINE m == flink[cleared]
<1>1. /\ m = flink[Head] /\ m \in Place /\ cleared' = m
      /\ m # Head => m \in Joined /\ m \in Node
  BY DEF Clearing, Chained, Place, Joined
<1>2. \A p \in Proc : pc[p] \in {"idle", "added", "refused"}
  BY DEF Clearing, Closed, Ioctl, OfHTTPDisk, Proc
<1>3. CASE m = Head
  <2>1. /\ UNCHANGED <<flink, blink, num, refs, pc, target, unit, walker, lock>>
        /\ UNCHANGED nodeCount
    BY <1>1, <1>3
  <2>2. Joined' = Joined /\ Place' = Place
    BY <2>1 DEF Joined, Place
  <2>3. Chained' /\ Sorted' /\ Used' = Used
    BY <2>1, <2>2, SameList
  <2>4. Shapes' /\ References' /\ Targets'
    BY <1>1, <1>3, <2>1 DEF Shapes, References, Targets
  <2>5. Walking'
    BY <1>2, <2>1, Names DEF Walking, Targets, References
  <2>6. Clearing'
    BY <1>1, <1>3, <2>1 DEF Clearing, Closed
  <2> QED
    BY <2>1, <2>2, <2>3, <2>4, <2>5, <2>6 DEF TableStep
<1>4. CASE m # Head
  <2>1. /\ Remove(m) /\ refs' = [refs EXCEPT ![m] = 1] /\ m \in Joined
        /\ UNCHANGED <<num, pc, target, unit, walker, lock, clearing, manager>>
    BY <1>1, <1>4 DEF Dereference, Joined
  <2>2. \A d \in Detacher : target[d] = None
    BY <1>2 DEF Targets, Proc
  <2>3. Joined' = Joined \ {m}
    BY <1>1, <2>1 DEF Joined, Shapes
  <2>4. Chained' /\ Sorted'
    BY <2>1, <2>3, RemoveFromList
  <2>5. flink[m] \in Place /\ blink[m] = Head /\ flink[m] # m
    BY <1>1, <1>4, <2>1 DEF Chained, Place, Sorted, At, Shapes
  <2>6. Shapes' /\ References' /\ Targets'
    BY <1>1, <1>2, <1>4, <2>1, <2>2, <2>5
    DEF Shapes, References, Targets, Remove, Place, Joined, Proc
  <2>7. Walking'
    BY <1>2, <2>1 DEF Walking, Targets, References, Proc
  <2>8. pc[m] = "added"
    BY <1>1, <1>2, <1>4, <2>1 DEF Joined, Proc
  <2>9. Clearing'
    BY <1>1, <1>4, <2>1, <2>5, <2>8 DEF Clearing, Closed, Remove, Shapes
  <2> QED
    BY <2>1, <2>3, <2>4, <2>6, <2>7, <2>9 DEF TableStep
<1> QED
  BY <1>3, <1>4

LEMMA NextIInv ==
  ASSUME OfHTTPDisk, IInv, ~overtaken, [Next]_vars
  PROVE  overtaken' \/ (IInv' /\ TableStep)
<1>1. CASE UNCHANGED vars
  <2>1. Clearing'
    BY <1>1 DEF vars, IInv, Clearing, Closed, list, nodes, pnp, clear, walk
  <2> QED
    BY <1>1, <2>1, StillNext DEF vars, clear
<1> QED
  BY <1>1, AddNext, DetachNext, WindowsNext, ClearNext DEF Next

(* Once a node was taken off for two detachers, nothing else happens.      *)
LEMMA StaysOvertaken ==
  ASSUME overtaken, [Next]_vars  PROVE overtaken'
<1>1. CASE UNCHANGED vars
  BY <1>1 DEF vars, detach
<1>2. CASE Next
  BY <1>2 DEF Next, DetachRemove
<1> QED
  BY <1>1, <1>2

Kept == overtaken \/ IInv

LEMMA KeptAlways ==
  ASSUME OfHTTPDisk PROVE Spec => []Kept
<1>1. Init => Kept
  BY InitIInv DEF Kept
<1>2. Kept /\ [Next]_vars => Kept'
  BY NextIInv, StaysOvertaken DEF Kept
<1> QED
  BY <1>1, <1>2, PTL DEF Spec

-----------------------------------------------------------------------------
(* The theorems                                                            *)

(* The list has a reference to each of its nodes (MembersReferenced).      *)
THEOREM ReferencesKept ==
  ASSUME OfHTTPDisk PROVE Spec => []MembersReferenced
<1>1. Kept => MembersReferenced
  BY MembersAreJoined DEF Kept, IInv, MembersReferenced, Joined
<1> QED
  BY <1>1, KeptAlways, PTL

(* A detacher has the node of the unit it was asked for, or none.          *)
THEOREM UnitIsDetached ==
  ASSUME OfHTTPDisk PROVE Spec => []DetachesTheUnit
<1>1. Kept => DetachesTheUnit
  <2> SUFFICES ASSUME IInv, NEW d \in Detacher, pc[d] = "remove"
               PROVE  target[d] \in Members /\ num[target[d]] = unit[d]
    BY DEF Kept, DetachesTheUnit
  <2>1. target[d] \in Node /\ target[d] # None
    BY DEF IInv, Targets, Shapes
  <2>2. /\ pc[target[d]] \in {"link", "added"} /\ refs[target[d]] = 2
        /\ num[target[d]] = unit[d]
        /\ \A e \in Detacher : target[e] = target[d] => pc[e] # "unlink"
    BY <2>1 DEF IInv, Targets
  <2>3. Members = Joined
    BY MembersAreJoined DEF IInv
  <2> QED
    BY <2>1, <2>2, <2>3 DEF Joined
<1> QED
  BY <1>1, KeptAlways, PTL

(* The links of the list undo one another.                                 *)
THEOREM ListIsRing ==
  ASSUME OfHTTPDisk PROVE Spec => []Ring
<1>1. Kept => Ring
  BY MembersAreJoined DEF Kept, IInv, Chained, Ring, Place
<1> QED
  BY <1>1, KeptAlways, PTL

LEMMA MembersNow == IInv => Members = Joined
BY MembersAreJoined DEF IInv

LEMMA MembersThen == (IInv => Members = Joined)'
BY MembersNow, PTL

LEMMA TableNext ==
  ASSUME OfHTTPDisk, IInv, IInv', TableStep, ~overtaken
  PROVE  [Table!Next]_<<[n \in Members |-> num[n]], overtaken>>
<1> DEFINE unit_ == [n \in Members |-> num[n]]
<1>1. Members = Joined /\ Members' = Joined'
  BY MembersNow, MembersThen
<1>2. ASSUME Joined' = Joined, \A n \in Joined : num'[n] = num[n]
      PROVE  unit_' = unit_
  BY <1>1, <1>2
<1>3. ASSUME NEW n \in Node \ Joined, Joins(n)  PROVE Table!Join(n)
  <2>1. DOMAIN unit_ = Joined /\ Table!InUse = Used
    BY <1>1 DEF Table!InUse, Used
  <2>2. num[n] \in {0} \cup {v + 1 : v \in Used}
    <3>1. num[n] \in Nat
      BY DEF IInv, Shapes
    <3>2. CASE num[n] > 0
      <4>1. num[n] - 1 \in Used /\ num[n] = (num[n] - 1) + 1
        BY <1>3, <3>1, <3>2 DEF Joins
      <4> QED
        BY <4>1
    <3> QED
      BY <3>1, <3>2
  <2>3. unit_' = [m \in Joined \cup {n} |-> IF m = n THEN num[n] ELSE unit_[m]]
    BY <1>1, <1>3 DEF Joins
  <2>4. /\ num[n] \notin Used /\ \A v \in 0 .. num[n] - 1 : v \in Used
        /\ n \notin Joined
    BY <1>3 DEF Joins
  <2>5. /\ n \notin DOMAIN unit_ /\ num[n] \in {0} \cup {v + 1 : v \in Table!InUse}
        /\ num[n] \notin Table!InUse
        /\ \A v \in 0 .. num[n] - 1 : v \in Table!InUse
        /\ unit_' = [m \in DOMAIN unit_ \cup {n} |-> IF m = n THEN num[n] ELSE unit_[m]]
    BY <2>1, <2>2, <2>3, <2>4
  <2> QED
    BY <2>5 DEF Table!Join
<1>4. ASSUME NEW n \in Joined, Joined' = Joined \ {n}, num' = num
      PROVE  Table!Leave(n)
  BY <1>1, <1>4 DEF Table!Leave
<1>5. ASSUME NEW n \in Node, Table!Join(n) \/ Table!Leave(n)
      PROVE  unit_' # unit_
  <2>1. DOMAIN unit_ = Members /\ DOMAIN unit_' = Members'
    OBVIOUS
  <2>2. CASE Table!Join(n)
    BY <2>1, <2>2 DEF Table!Join
  <2>3. CASE Table!Leave(n)
    BY <2>1, <2>3 DEF Table!Leave
  <2> QED
    BY <1>5, <2>2, <2>3
<1>6. overtaken' = overtaken
  BY DEF TableStep
<1>7. ASSUME NEW n \in Node, Table!Join(n) \/ Table!Leave(n)
      PROVE  Table!Next
  BY <1>5, <1>6, <1>7 DEF Table!Next, Table!Use
<1> QED
  BY <1>2, <1>3, <1>4, <1>6, <1>7 DEF TableStep, Joined

(* The list implements the table of unit numbers: a node gets the lowest   *)
(* free number and keeps it (ImplementsTable).                             *)
THEOREM ListIsTable ==
  ASSUME OfHTTPDisk PROVE Spec => ImplementsTable
<1>1. Init => Table!Init
  <2> SUFFICES ASSUME Init PROVE Table!Init
    OBVIOUS
  <2>1. Members = {}
    BY InitIInv, MembersAreJoined, Names DEF IInv, Joined, Init
  <2>2. overtaken = FALSE
    BY DEF Init
  <2> QED
    BY <2>1, <2>2 DEF Table!Init
<1>2. Kept /\ Kept' /\ [Next]_vars =>
        [Table!Next]_<<[n \in Members |-> num[n]], overtaken>>
  <2>1. ASSUME overtaken'  PROVE Table!Next
    BY <2>1 DEF Table!Next, Table!Misuse
  <2> QED
    BY <2>1, NextIInv, StaysOvertaken, TableNext DEF Kept
<1> QED
  BY <1>1, <1>2, KeptAlways, PTL DEF Spec, ImplementsTable, Table!Spec

(* No two nodes of the bus have one unit number.                           *)
THEOREM NumbersAreDistinct ==
  ASSUME OfHTTPDisk PROVE Spec => []Table!Distinct
<1>1. Kept => Table!Distinct
  BY MembersAreJoined DEF Kept, IInv, Sorted, Table!Distinct
<1> QED
  BY <1>1, KeptAlways, PTL

LEMMA CountNext ==
  ASSUME Cardinality(Node) < CountWidth, IInv, TableStep,
         nodeCount = Cardinality(Joined)
  PROVE  nodeCount' = Cardinality(Joined')
<1>0. TableStep
  OBVIOUS
<1>1. /\ Joined \in SUBSET Node
      /\ \A n \in Node \ Joined : Joined \cup {n} \in SUBSET Node
  BY DEF Joined
<1>2. /\ IsFiniteSet(Joined) /\ Cardinality(Joined) \in Nat
      /\ Cardinality(Node) \in Nat
      /\ Cardinality(Joined) <= Cardinality(Node)
  BY <1>1, Names, FS_Subset, FS_CardinalityType
<1>3. ASSUME NEW n \in Node \ Joined
      PROVE  /\ Cardinality(Joined \cup {n}) = Cardinality(Joined) + 1
             /\ Cardinality(Joined) + 1 <= Cardinality(Node)
  <2>1. Cardinality(Joined \cup {n}) =
          IF n \in Joined THEN Cardinality(Joined) ELSE Cardinality(Joined) + 1
    BY <1>2, FS_AddElement
  <2>2. Cardinality(Joined \cup {n}) <= Cardinality(Node)
    BY <1>1, Names, FS_Subset
  <2> QED
    BY <2>1, <2>2
<1>4. ASSUME NEW n \in Joined
      PROVE  /\ Cardinality(Joined \ {n}) = Cardinality(Joined) - 1
             /\ Cardinality(Joined) >= 1
  <2>1. Cardinality(Joined \ {n}) = Cardinality(Joined) - 1
    BY <1>2, FS_RemoveElement
  <2>2. Cardinality(Joined) # 0
    BY <1>2, FS_EmptySet
  <2> QED
    BY <1>2, <2>1, <2>2
<1>5. CASE \E n \in Node \ Joined : Joins(n)
  BY <1>2, <1>3, <1>5 DEF Joins, CountWidth, Increment
<1>6. CASE \E n \in Joined : Joined' = Joined \ {n} /\ num' = num /\ Decrement
  BY <1>2, <1>4, <1>6 DEF CountWidth, Decrement
<1> QED
  BY <1>0, <1>5, <1>6 DEF TableStep

(* "Inconsistent node list count!" is never asserted (CountIsLength), on a *)
(* bus with fewer nodes than NodeCount can count.                          *)
THEOREM CountIsRight ==
  ASSUME OfHTTPDisk, Cardinality(Node) < CountWidth
  PROVE  Spec => []CountIsLength
<1> DEFINE Counted == overtaken \/ nodeCount = Cardinality(Joined)
<1>1. Init => Counted
  <2> SUFFICES ASSUME Init PROVE Counted
    OBVIOUS
  <2>1. Joined = {}
    BY Names DEF Init, Joined
  <2> QED
    BY <2>1, FS_EmptySet DEF Init
<1>2. Kept /\ Counted /\ [Next]_vars => Counted'
  BY NextIInv, StaysOvertaken, CountNext DEF Kept
<1>3. Kept /\ Counted => CountIsLength
  BY MembersNow DEF Kept, CountIsLength
<1> HIDE DEF Counted
<1> QED
  BY <1>1, <1>2, <1>3, KeptAlways, PTL DEF Spec

=============================================================================
