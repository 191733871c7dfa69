----------------------------- MODULE ListLemmas -----------------------------
(***************************************************************************)
(* Lemmas about lists without duplicates, as the proofs about the queues   *)
(* and the lists of the drivers need them: what an addition, the removal   *)
(* of an element and the listing of a set leave of a list's elements and   *)
(* of their places.                                                        *)
(***************************************************************************)
EXTENDS Integers, Sequences, FiniteSets, SequencesExt,
        FiniteSetTheorems, SequenceTheorems, TLAPS

(* No element has two places.                                              *)
Distinct(s) == \A i, j \in 1 .. Len(s) : s[i] = s[j] => i = j

-----------------------------------------------------------------------------
(* The elements of a list are those at its places.                         *)
LEMMA Elements ==
  ASSUME NEW S, NEW s \in Seq(S)
  PROVE  /\ DOMAIN s = 1 .. Len(s) /\ Len(s) \in Nat
         /\ ToSet(s) = {s[i] : i \in 1 .. Len(s)}
         /\ ToSet(s) \subseteq S
BY LenProperties, ElementOfSeq DEF ToSet

(* The empty list.                                                         *)
LEMMA NoElements ==
  /\ ToSet(<<>>) = {} /\ Distinct(<<>>) /\ Len(<<>>) = 0
BY DEF ToSet, Distinct

(* An addition at the end.                                                 *)
LEMMA AppendElements ==
  ASSUME NEW S, NEW s \in Seq(S), NEW e \in S
  PROVE  /\ Append(s, e) \in Seq(S)
         /\ Len(Append(s, e)) = Len(s) + 1
         /\ ToSet(Append(s, e)) = ToSet(s) \cup {e}
         /\ Distinct(s) /\ e \notin ToSet(s) => Distinct(Append(s, e))
<1> DEFINE t == Append(s, e)
<1>1. /\ t \in Seq(S) /\ Len(t) = Len(s) + 1 /\ Len(s) \in Nat
      /\ t[Len(s) + 1] = e /\ \A i \in 1 .. Len(s) : t[i] = s[i]
  BY AppendProperties, LenProperties
<1>2. /\ ToSet(s) = {s[i] : i \in 1 .. Len(s)}
      /\ ToSet(t) = {t[i] : i \in 1 .. Len(s) + 1}
  BY <1>1, Elements
<1> HIDE DEF t
<1>3. ToSet(t) = ToSet(s) \cup {e}
  <2>1. \A x \in ToSet(t) : x \in ToSet(s) \cup {e}
    <3> SUFFICES ASSUME NEW i \in 1 .. Len(s) + 1
                 PROVE  t[i] \in ToSet(s) \cup {e}
      BY <1>2
    <3>1. CASE i = Len(s) + 1
      BY <3>1, <1>1
    <3>2. CASE i \in 1 .. Len(s)
      BY <3>2, <1>1, <1>2
    <3> QED
      BY <3>1, <3>2, <1>1
  <2>2. \A x \in ToSet(s) : x \in ToSet(t)
    BY <1>1, <1>2
  <2>3. e \in ToSet(t)
    BY <1>1, <1>2
  <2> QED
    BY <2>1, <2>2, <2>3
<1>4. ASSUME Distinct(s), e \notin ToSet(s)  PROVE Distinct(t)
  BY <1>1, <1>2, <1>4 DEF Distinct
<1> QED
  BY <1>1, <1>3, <1>4 DEF t

(* The removal of what is at a place, and the move of what follows.        *)
LEMMA RemoveAtPlaces ==
  ASSUME NEW S, NEW s \in Seq(S), NEW p \in 1 .. Len(s)
  PROVE  /\ RemoveAt(s, p) \in Seq(S)
         /\ Len(RemoveAt(s, p)) = Len(s) - 1
         /\ \A i \in 1 .. Len(s) - 1 :
              RemoveAt(s, p)[i] = IF i < p THEN s[i] ELSE s[i + 1]
<1> DEFINE a == SubSeq(s, 1, p - 1)
           b == SubSeq(s, p + 1, Len(s))
<1>1. Len(s) \in Nat /\ \A i \in 1 .. Len(s) : s[i] \in S
  BY LenProperties, ElementOfSeq
<1>2. /\ a \in Seq(S) /\ Len(a) = p - 1
      /\ \A i \in 1 .. p - 1 : a[i] = s[i]
  <2>1. 1 \in Int /\ p - 1 \in Int /\ \A i \in 1 .. p - 1 : s[i] \in S
    BY <1>1
  <2>2. /\ a \in Seq(S) /\ Len(a) = IF 1 <= p - 1 THEN p - 1 - 1 + 1 ELSE 0
        /\ \A i \in 1 .. p - 1 - 1 + 1 : a[i] = s[1 + i - 1]
    BY <2>1, SubSeqProperties
  <2> HIDE DEF a
  <2> QED
    BY <2>2, <1>1
<1>3. /\ b \in Seq(S) /\ Len(b) = Len(s) - p
      /\ \A i \in 1 .. Len(s) - p : b[i] = s[p + i]
  <2>1. p + 1 \in Int /\ Len(s) \in Int /\ \A i \in p + 1 .. Len(s) : s[i] \in S
    BY <1>1
  <2>2. /\ b \in Seq(S)
        /\ Len(b) = IF p + 1 <= Len(s) THEN Len(s) - (p + 1) + 1 ELSE 0
        /\ \A i \in 1 .. Len(s) - (p + 1) + 1 : b[i] = s[p + 1 + i - 1]
    BY <2>1, SubSeqProperties
  <2> HIDE DEF b
  <2> QED
    BY <2>2, <1>1
<1>4. RemoveAt(s, p) = a \o b
  BY DEF RemoveAt
<1> HIDE DEF a, b
<1>5. /\ a \o b \in Seq(S) /\ Len(a \o b) = Len(a) + Len(b)
      /\ \A i \in 1 .. Len(a) + Len(b) :
           (a \o b)[i] = IF i <= Len(a) THEN a[i] ELSE b[i - Len(a)]
  BY <1>2, <1>3, ConcatProperties
<1>6. ASSUME NEW i \in 1 .. Len(s) - 1
      PROVE  (a \o b)[i] = IF i < p THEN s[i] ELSE s[i + 1]
  <2>0. i \in 1 .. Len(a) + Len(b)
    BY <1>1, <1>2, <1>3
  <2>1. CASE i < p
    BY <2>0, <2>1, <1>1, <1>2, <1>5
  <2>2. CASE ~(i < p)
    <3>1. i - (p - 1) \in 1 .. Len(s) - p /\ ~(i <= Len(a))
      BY <2>2, <1>1, <1>2
    <3>2. (a \o b)[i] = b[i - (p - 1)]
      BY <2>0, <3>1, <1>2, <1>5
    <3>3. b[i - (p - 1)] = s[p + (i - (p - 1))]
      BY <3>1, <1>3
    <3> QED
      BY <3>2, <3>3, <2>2, <1>1
  <2> QED
    BY <2>1, <2>2
<1> QED
  BY <1>1, <1>2, <1>3, <1>4, <1>5, <1>6

(* The removal of what is at a place, from a list without duplicates.      *)
LEMMA RemoveAtElements ==
  ASSUME NEW S, NEW s \in Seq(S), NEW p \in 1 .. Len(s), Distinct(s)
  PROVE  /\ RemoveAt(s, p) \in Seq(S)
         /\ Distinct(RemoveAt(s, p))
         /\ ToSet(RemoveAt(s, p)) = ToSet(s) \ {s[p]}
         /\ Len(RemoveAt(s, p)) = Len(s) - 1
<1> DEFINE t == RemoveAt(s, p)
<1>1. /\ Len(s) \in Nat /\ ToSet(s) = {s[i] : i \in 1 .. Len(s)}
  BY Elements
<1>2. /\ t \in Seq(S) /\ Len(t) = Len(s) - 1
      /\ \A i \in 1 .. Len(s) - 1 : t[i] = IF i < p THEN s[i] ELSE s[i + 1]
  BY RemoveAtPlaces
<1>3. ToSet(t) = {t[i] : i \in 1 .. Len(s) - 1}
  BY <1>2, Elements
<1> HIDE DEF t
<1>4. Distinct(t)
  <2> SUFFICES ASSUME NEW i \in 1 .. Len(s) - 1, NEW j \in 1 .. Len(s) - 1,
                      t[i] = t[j]
               PROVE  i = j
    BY <1>2 DEF Distinct
  <2> DEFINE i1 == IF i < p THEN i ELSE i + 1
             j1 == IF j < p THEN j ELSE j + 1
  <2>1. i1 \in 1 .. Len(s) /\ j1 \in 1 .. Len(s) /\ s[i1] = s[j1]
    BY <1>1, <1>2
  <2>2. i1 = j1
    BY <2>1 DEF Distinct
  <2> QED
    BY <2>2, <1>1
<1>5. ToSet(t) = ToSet(s) \ {s[p]}
  <2>1. ASSUME NEW i \in 1 .. Len(s) - 1  PROVE t[i] \in ToSet(s) \ {s[p]}
    <3> DEFINE i1 == IF i < p THEN i ELSE i + 1
    <3>1. i1 \in 1 .. Len(s) /\ i1 # p /\ t[i] = s[i1]
      BY <1>1, <1>2
    <3>2. s[i1] # s[p]
      BY <3>1 DEF Distinct
    <3> QED
      BY <3>1, <3>2, <1>1
  <2>2. ASSUME NEW i \in 1 .. Len(s), s[i] # s[p]  PROVE s[i] \in ToSet(t)
    <3> DEFINE k == IF i < p THEN i ELSE i - 1
    <3>1. i # p
      BY <2>2
    <3>2. k \in 1 .. Len(s) - 1 /\ t[k] = s[i]
      BY <3>1, <1>1, <1>2
    <3> QED
      BY <3>2, <1>3
  <2> QED
    BY <2>1, <2>2, <1>1, <1>3
<1> QED
  BY <1>2, <1>4, <1>5 DEF t

(* The removal of an element from a list without duplicates.               *)
LEMMA RemoveFirstElements ==
  ASSUME NEW S, NEW s \in Seq(S), NEW e, Distinct(s)
  PROVE  /\ RemoveFirst(s, e) \in Seq(S)
         /\ Distinct(RemoveFirst(s, e))
         /\ ToSet(RemoveFirst(s, e)) = ToSet(s) \ {e}
         /\ Len(RemoveFirst(s, e)) = IF e \in ToSet(s) THEN Len(s) - 1 ELSE Len(s)
<1>1. /\ Len(s) \in Nat /\ ToSet(s) = {s[i] : i \in 1 .. Len(s)}
  BY Elements
<1>2. CASE e \notin ToSet(s)
  <2>1. RemoveFirst(s, e) = s
    BY <1>1, <1>2 DEF RemoveFirst
  <2> QED
    BY <2>1, <1>2
<1>3. CASE e \in ToSet(s)
  <2>1. PICK p \in 1 .. Len(s) : s[p] = e
    BY <1>1, <1>3
  <2>2. {i \in 1 .. Len(s) : s[i] = e} = {p}
    BY <2>1 DEF Distinct
  <2>3. Min({p}) = p
    BY <1>1 DEF Min
  <2>4. SelectInSeq(s, LAMBDA v : v = e) = p
    BY <2>2, <2>3 DEF SelectInSeq
  <2>5. RemoveFirst(s, e) = RemoveAt(s, p)
    BY <2>1, <2>4 DEF RemoveFirst
  <2>6. /\ RemoveAt(s, p) \in Seq(S) /\ Distinct(RemoveAt(s, p))
        /\ ToSet(RemoveAt(s, p)) = ToSet(s) \ {s[p]}
        /\ Len(RemoveAt(s, p)) = Len(s) - 1
    BY RemoveAtElements
  <2> QED
    BY <2>1, <2>5, <2>6, <1>3
<1> QED
  BY <1>2, <1>3

(* One list after another which shares no element with it.                 *)
LEMMA ConcatElements ==
  ASSUME NEW S, NEW s \in Seq(S), NEW t \in Seq(S), Distinct(s), Distinct(t),
         ToSet(s) \cap ToSet(t) = {}
  PROVE  /\ s \o t \in Seq(S)
         /\ Distinct(s \o t)
         /\ ToSet(s \o t) = ToSet(s) \cup ToSet(t)
<1> DEFINE u == s \o t
<1>1. /\ u \in Seq(S) /\ Len(u) = Len(s) + Len(t)
      /\ Len(s) \in Nat /\ Len(t) \in Nat
      /\ \A i \in 1 .. Len(s) + Len(t) :
           u[i] = IF i <= Len(s) THEN s[i] ELSE t[i - Len(s)]
  BY ConcatProperties, LenProperties
<1>2. /\ ToSet(s) = {s[i] : i \in 1 .. Len(s)}
      /\ ToSet(t) = {t[i] : i \in 1 .. Len(t)}
      /\ ToSet(u) = {u[i] : i \in 1 .. Len(s) + Len(t)}
  BY <1>1, Elements
<1> HIDE DEF u
<1>3. \A i \in 1 .. Len(s) : u[i] = s[i] /\ s[i] \in ToSet(s)
  BY <1>1, <1>2
<1>4. ASSUME NEW i \in Len(s) + 1 .. Len(s) + Len(t)
      PROVE  /\ i - Len(s) \in 1 .. Len(t) /\ u[i] = t[i - Len(s)]
             /\ u[i] \in ToSet(t)
  <2>1. i - Len(s) \in 1 .. Len(t) /\ u[i] = t[i - Len(s)]
    BY <1>1
  <2> QED
    BY <2>1, <1>2
<1>5. Distinct(u)
  <2> SUFFICES ASSUME NEW i \in 1 .. Len(s) + Len(t),
                      NEW j \in 1 .. Len(s) + Len(t), u[i] = u[j]
               PROVE  i = j
    BY <1>1 DEF Distinct
  <2>1. CASE i \in 1 .. Len(s) /\ j \in 1 .. Len(s)
    BY <1>3, <2>1 DEF Distinct
  <2>2. CASE ~(i \in 1 .. Len(s)) /\ ~(j \in 1 .. Len(s))
    <3>1. i - Len(s) = j - Len(s)
      BY <1>1, <1>4, <2>2 DEF Distinct
    <3> QED
      BY <3>1, <1>1
  <2>3. CASE (i \in 1 .. Len(s)) # (j \in 1 .. Len(s))
    <3>1. CASE i \in 1 .. Len(s)
      <4>1. j \in Len(s) + 1 .. Len(s) + Len(t)
        BY <3>1, <2>3, <1>1
      <4> QED
        BY <3>1, <4>1, <1>3, <1>4
    <3>2. CASE j \in 1 .. Len(s)
      <4>1. i \in Len(s) + 1 .. Len(s) + Len(t)
        BY <3>2, <2>3, <1>1
      <4> QED
        BY <3>2, <4>1, <1>3, <1>4
    <3> QED
      BY <3>1, <3>2, <2>3
  <2> QED
    BY <2>1, <2>2, <2>3
<1>6. ToSet(u) = ToSet(s) \cup ToSet(t)
  <2>1. ASSUME NEW i \in 1 .. Len(s) + Len(t)
        PROVE  u[i] \in ToSet(s) \cup ToSet(t)
    <3>1. i \in 1 .. Len(s) \/ i \in Len(s) + 1 .. Len(s) + Len(t)
      BY <1>1
    <3> QED
      BY <3>1, <1>3, <1>4
  <2>2. ASSUME NEW i \in 1 .. Len(s)  PROVE s[i] \in ToSet(u)
    <3>1. i \in 1 .. Len(s) + Len(t)
      BY <1>1
    <3> QED
      BY <3>1, <1>2, <1>3
  <2>3. ASSUME NEW i \in 1 .. Len(t)  PROVE t[i] \in ToSet(u)
    <3>1. i + Len(s) \in 1 .. Len(s) + Len(t) /\ u[i + Len(s)] = t[i]
      BY <1>1
    <3> QED
      BY <3>1, <1>2
  <2> QED
    BY <2>1, <2>2, <2>3, <1>2
<1> QED
  BY <1>1, <1>5, <1>6 DEF u

(* What is taken from the front of a queue without duplicates.             *)
LEMMA TakeFirst ==
  ASSUME NEW S, NEW s \in Seq(S), Distinct(s), s # <<>>
  PROVE  /\ Head(s) \in ToSet(s) /\ Head(s) \in S
         /\ Tail(s) \in Seq(S) /\ Distinct(Tail(s))
         /\ ToSet(Tail(s)) = ToSet(s) \ {Head(s)}
<1>1. /\ Len(s) \in Nat /\ Len(s) > 0 /\ Head(s) = s[1]
      /\ Tail(s) \in Seq(S) /\ Len(Tail(s)) = Len(s) - 1
      /\ \A i \in 1 .. Len(s) - 1 : Tail(s)[i] = s[i + 1]
  BY HeadTailProperties, LenProperties, EmptySeq
<1>2. /\ ToSet(s) = {s[i] : i \in 1 .. Len(s)}
      /\ ToSet(Tail(s)) = {Tail(s)[i] : i \in 1 .. Len(s) - 1}
  BY <1>1, Elements
<1>3. s[1] \in ToSet(s) /\ s[1] \in S
  BY <1>1, <1>2, ElementOfSeq
<1>4. Distinct(Tail(s))
  BY <1>1 DEF Distinct
<1>5. ASSUME NEW i \in 1 .. Len(s) - 1  PROVE Tail(s)[i] \in ToSet(s) \ {s[1]}
  BY <1>1, <1>2 DEF Distinct
<1>6. ASSUME NEW i \in 1 .. Len(s), s[i] # s[1]  PROVE s[i] \in ToSet(Tail(s))
  <2>1. i - 1 \in 1 .. Len(s) - 1 /\ Tail(s)[i - 1] = s[i]
    BY <1>1, <1>6
  <2> QED
    BY <1>2, <2>1
<1> QED
  BY <1>1, <1>2, <1>3, <1>4, <1>5, <1>6

(* A finite set has a list, and SetToSeq names one.                        *)
LEMMA SetToSeqElements ==
  ASSUME NEW S, NEW T \in SUBSET S, IsFiniteSet(T)
  PROVE  /\ SetToSeq(T) \in Seq(S)
         /\ Distinct(SetToSeq(T))
         /\ ToSet(SetToSeq(T)) = T
         /\ Len(SetToSeq(T)) = Cardinality(T)
<1> DEFINE n == Cardinality(T)
           s == SetToSeq(T)
<1>1. n \in Nat /\ ExistsBijection(1 .. n, T)
  BY FS_CardinalityType
<1>2. \E f \in [1 .. n -> T] : IsInjective(f)
  BY <1>1 DEF ExistsBijection, Bijection, Injection
<1>3. s \in [1 .. n -> T] /\ IsInjective(s)
  BY <1>2 DEF SetToSeq
<1> HIDE DEF s
<1>4. s \in Seq(T) /\ s \in Seq(S) /\ Len(s) = n
  <2>1. s \in Seq(T)
    BY <1>1, <1>3, SeqDef
  <2> QED
    BY <2>1, <1>1, <1>3, SeqMonotonic, LenProperties
<1>5. Distinct(s)
  BY <1>3, <1>4 DEF Distinct, IsInjective
<1>6. s \in Surjection(1 .. n, T)
  <2>1. s \in Injection(1 .. n, T)
    BY <1>3 DEF Injection
  <2>2. Cardinality(1 .. n) = n
    BY <1>1, FS_Interval
  <2> HIDE DEF n
  <2>3. Cardinality(1 .. n) = Cardinality(T) <=> s \in Surjection(1 .. n, T)
    BY <2>1, FS_Injection
  <2> QED
    BY <2>2, <2>3 DEF n
<1>7. ToSet(s) = T
  <2>1. ToSet(s) = {s[i] : i \in 1 .. n}
    BY <1>4, Elements
  <2> QED
    BY <2>1, <1>3, <1>6 DEF Surjection
<1> QED
  BY <1>4, <1>5, <1>7 DEF s

(* A list without duplicates is as long as the set of its elements.        *)
LEMMA LengthOfDistinct ==
  ASSUME NEW S, NEW s \in Seq(S), Distinct(s)
  PROVE  IsFiniteSet(ToSet(s)) /\ Cardinality(ToSet(s)) = Len(s)
<1>1. /\ Len(s) \in Nat /\ DOMAIN s = 1 .. Len(s)
      /\ ToSet(s) = {s[i] : i \in 1 .. Len(s)} /\ s \in [1 .. Len(s) -> S]
  BY Elements, LenProperties
<1>2. s \in [1 .. Len(s) -> ToSet(s)]
  BY <1>1
<1>3. s \in Bijection(1 .. Len(s), ToSet(s))
  BY <1>1, <1>2 DEF Distinct, Bijection, Injection, Surjection, IsInjective
<1>4. ExistsBijection(1 .. Len(s), ToSet(s))
  BY <1>3 DEF ExistsBijection
<1> QED
  BY <1>1, <1>4, FS_NatBijection, FS_CountingElements

(* A set has as many elements as one which it is listed from, each once.   *)
LEMMA SameCount ==
  ASSUME NEW S, NEW T, NEW f \in [S -> T], IsFiniteSet(S),
         \A x, y \in S : f[x] = f[y] => x = y,
         \A t \in T : \E x \in S : f[x] = t
  PROVE  IsFiniteSet(T) /\ Cardinality(T) = Cardinality(S)
<1>1. f \in Bijection(S, T)
  BY DEF Bijection, Injection, Surjection, IsInjective
<1>2. ExistsBijection(S, T)
  BY <1>1 DEF ExistsBijection
<1> QED
  BY <1>2, FS_Bijection
=============================================================================
