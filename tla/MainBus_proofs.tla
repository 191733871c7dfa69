--------------------------- MODULE MainBus_proofs ---------------------------
(***************************************************************************)
(* Proofs about MainBus, for every set of children and of callers and for  *)
(* every bound.                                                            *)
(*                                                                         *)
(* The inductive invariant has four parts, and each part is about a few    *)
(* variables: Driving for the creation of the bus (OneBus), PnpStates for  *)
(* the holding of IRPs (HeldUnlessStarted, which rests on Driving), Lists  *)
(* for the children (ListedIsAssigned) and Answered for the answers        *)
(* (ReferencesMatch, which rests on Lists).  A lemma for each part says    *)
(* which actions touch its variables; only these are looked at.            *)
(***************************************************************************)
EXTENDS MainBus, ListLemmas

Busy     == {p \in Caller : pc[p] \in {"create", "attach", "link"}}
AtWork   == {p \in Caller : pc[p] \in {"create", "attach", "link", "undo", "lost"}}
Counted  == IF fdo = "driven" \/ leaving THEN 1 ELSE 0

(* The callers are counted.  One of them at most has got past the count,   *)
(* and none while there is a bus or a removal has yet to be counted.       *)
Driving ==
  /\ pc \in [Caller -> {"load", "idle", "drive", "failed", "undo", "lost",
                        "create", "attach", "link"}]
  /\ fdo \in {"none", "made", "attached", "driven", "deleted"}
  /\ leaving \in BOOLEAN
  /\ creators = Cardinality(AtWork) + Counted
  /\ \A p, q \in Busy : p = q
  /\ Busy # {} => ~leaving /\ fdo # "driven"
  /\ leaving => fdo = "deleted"

(* What Windows believes of the device, and what the device knows.         *)
PnpStates ==
  /\ \A p \in Caller : /\ pc[p] = "attach" => held
                       /\ pc[p] = "link" => held /\ state = "Started"
  /\ fdo = "driven" =>
       /\ manager \in {"added", "stopping", "stopped", "removing", "surprised"}
            => held
       /\ manager \in {"added", "started"} => state = "Started"
       /\ manager \in {"stopping", "removing"} => old = "Started"
       /\ manager \in {"added", "started", "stopping", "stopped", "removing",
                       "surprised", "failed"}

(* A child is in the list once, and only if it exists.  One which was      *)
(* linked as a node and is not in the relations yet is not in the list.    *)
Lists ==
  /\ relations \in Seq(Child) \cup {None}
  /\ relations # None => Distinct(relations)
  /\ assigned = Listed \ Old
  /\ usage = Cardinality(assigned)
  /\ fdo = "none" => usage = 0
  /\ devices \subseteq Child /\ Listed \cup nodes \cup half \subseteq devices
  /\ nodes \cup half \subseteq Old
  /\ nodes \cap half \cap Listed = {}

(* An answer names each device once, and carries one reference to it.      *)
Answered ==
  /\ answer \in Seq(Object) \cup {None}
  /\ answer # None => Distinct(answer)
  /\ refs = [o \in Object |->
               IF answer # None /\ o \in ToSet(answer) THEN 1 ELSE 0]

-----------------------------------------------------------------------------
(* The names.                                                              *)
LEMMA Names ==
  /\ IsFiniteSet(Child) /\ IsFiniteSet(Caller) /\ Entry \in Caller
  /\ None \notin Seq(Child) /\ None \notin Seq(Object)
  /\ Child \subseteq Object /\ Higher \in Object /\ Higher \notin Child
  /\ Old \subseteq Child /\ Probed \subseteq Child /\ Probed \cap Old = {}
  /\ Requeued \cap Probed = {}
<1>1. Child \subseteq Object
  BY DEF Object
<1>2. \A s \in Seq(Child) : s \in Seq(Object)
  BY <1>1, SeqMonotonic
<1> QED
  BY <1>1, <1>2, NamesAssumption, CallersAssumption DEF Object

-----------------------------------------------------------------------------
(* The steps of those who create the bus and remove it.                    *)
LEMMA DrivingSteps ==
  ASSUME [Next]_vars
  PROVE  \/ UNCHANGED driving
         \/ EntryStart
         \/ \E p \in Caller : \/ \E ours \in BOOLEAN : DriveEnter(p, ours)
                              \/ DriveUndone(p) \/ DriveCreate(p)
                              \/ DriveAttach(p) \/ DriveLink(p)
         \/ BusGone \/ RemoveDevice \/ RemoveCounted
BY DEF Next, vars, Drive, Children, AnyQuery, PnP, AddDummy, AddDummyInThread,
       RemoveChild, LinkOld, AddOld, RemoveOld, DetachOld, Invalidate, Query,
       QueryFails, QueryCrashes, Probe, Consume, Changes, StartDevice, StartFails, QueryStop,
       CancelStop, Stop, QueryRemove, CancelRemove, SurpriseRemoval

(* A caller who goes to work is counted, and no more when it has stopped.  *)
LEMMA AtWorkCounts ==
  /\ IsFiniteSet(AtWork) /\ Cardinality(AtWork) \in Nat
  /\ \A p \in Caller :
       /\ AtWork' = AtWork \cup {p} /\ p \notin AtWork
            => Cardinality(AtWork') = Cardinality(AtWork) + 1
       /\ AtWork' = AtWork \ {p} /\ p \in AtWork
            => Cardinality(AtWork') = Cardinality(AtWork) - 1
<1>1. IsFiniteSet(AtWork) /\ Cardinality(AtWork) \in Nat
  BY Names, FS_Subset, FS_CardinalityType DEF AtWork
<1> HIDE DEF AtWork
<1> QED
  BY <1>1, FS_AddElement, FS_RemoveElement

LEMMA DrivingInit == Init => Driving
<1> SUFFICES ASSUME Init PROVE Driving
  OBVIOUS
<1>1. AtWork = {} /\ Busy = {}
  BY DEF AtWork, Busy, Init
<1>2. creators = Cardinality(AtWork) + Counted
  BY <1>1, FS_EmptySet DEF Init, Counted
<1> QED
  BY <1>1, <1>2 DEF Driving, Init

LEMMA DrivingNext == Driving /\ [Next]_vars => Driving'
<1> SUFFICES ASSUME Driving, [Next]_vars PROVE Driving'
  OBVIOUS
<1> USE DEF Driving, Counted
<1>1. CASE UNCHANGED driving
  BY <1>1 DEF driving, AtWork, Busy
<1>2. CASE EntryStart
  <2>1. AtWork' = AtWork /\ Busy' = Busy
    BY <1>2, Names DEF EntryStart, AtWork, Busy
  <2> QED
    BY <1>2, <2>1, Names DEF EntryStart, Busy
<1>3. ASSUME NEW p \in Caller, NEW ours \in BOOLEAN, DriveEnter(p, ours)
      PROVE  Driving'
  <2>1. AtWork' = AtWork \cup {p} /\ p \notin AtWork
    BY <1>3 DEF DriveEnter, Offers, AtWork
  <2>2. Cardinality(AtWork') = Cardinality(AtWork) + 1
        /\ Cardinality(AtWork) \in Nat
    BY <2>1, AtWorkCounts
  <2>3. creators' = Cardinality(AtWork') + Counted'
    BY <1>3, <2>2 DEF DriveEnter
  <2>4. CASE creators = 0 /\ ~ours
    <3>1. Cardinality(AtWork) = 0 /\ fdo # "driven" /\ ~leaving
      BY <2>2, <2>4
    <3>2. AtWork = {}
      BY <3>1, AtWorkCounts, FS_EmptySet
    <3>3. Busy' = {p} /\ pc'[p] = "create"
      BY <1>3, <2>4, <3>2 DEF DriveEnter, AtWork, Busy
    <3> QED
      BY <1>3, <2>3, <3>1, <3>3 DEF DriveEnter
  <2>5. CASE ~(creators = 0 /\ ~ours)
    <3>1. pc' = [pc EXCEPT ![p] = "undo"]
      <4>1. creators \in Nat /\ (creators + 1 > 1 \/ ours)
        BY <2>2, <2>5
      <4> QED
        BY <1>3, <4>1 DEF DriveEnter
    <3>2. Busy' = Busy
      BY <1>3, <3>1 DEF DriveEnter, Offers, Busy
    <3> QED
      BY <1>3, <2>3, <3>1, <3>2 DEF DriveEnter
  <2> QED
    BY <2>4, <2>5
<1>4. ASSUME NEW p \in Caller, DriveUndone(p)  PROVE Driving'
  <2>1. AtWork' = AtWork \ {p} /\ p \in AtWork /\ Busy' = Busy
    BY <1>4 DEF DriveUndone, AtWork, Busy
  <2>2. Cardinality(AtWork') = Cardinality(AtWork) - 1
        /\ Cardinality(AtWork) \in Nat
    BY <2>1, AtWorkCounts
  <2> QED
    BY <1>4, <2>1, <2>2 DEF DriveUndone
<1>5. ASSUME NEW p \in Caller, DriveCreate(p) \/ DriveAttach(p) \/ DriveLink(p)
      PROVE  Driving'
  <2>1. p \in Busy /\ Busy = {p} /\ p \in AtWork /\ ~leaving /\ ~leaving'
    BY <1>5 DEF DriveCreate, DriveAttach, DriveLink, Busy, AtWork
  <2>2. CASE pc'[p] # "idle"
    <3>1. AtWork' = AtWork /\ Busy' \subseteq {p}
      BY <1>5, <2>1, <2>2 DEF DriveCreate, DriveAttach, DriveLink, Busy, AtWork
    <3> QED
      BY <1>5, <2>1, <2>2, <3>1 DEF DriveCreate, DriveAttach, DriveLink
  <2>3. CASE pc'[p] = "idle"
    <3>1. DriveLink(p) /\ fdo' = "driven"
      BY <1>5, <2>3 DEF DriveCreate, DriveAttach, DriveLink
    <3>2. AtWork' = AtWork \ {p} /\ Busy' = {}
      BY <2>1, <2>3, <3>1 DEF DriveLink, Busy, AtWork
    <3>3. Cardinality(AtWork') = Cardinality(AtWork) - 1
          /\ Cardinality(AtWork) \in Nat
      BY <2>1, <3>2, AtWorkCounts
    <3> QED
      BY <2>1, <3>1, <3>2, <3>3 DEF DriveLink
  <2> QED
    BY <2>2, <2>3
<1>6. CASE BusGone
  <2>1. AtWork' = AtWork /\ Busy' = Busy
    BY <1>6 DEF BusGone, AtWork, Busy
  <2>2. creators' = Cardinality(AtWork') + Counted'
    BY <1>6, <2>1 DEF BusGone
  <2> QED
    BY <1>6, <2>1, <2>2 DEF BusGone
<1>7. CASE RemoveDevice
  <2>1. AtWork' = AtWork /\ Busy' = Busy
    BY <1>7 DEF RemoveDevice, AtWork, Busy
  <2>2. creators' = Cardinality(AtWork') + Counted' /\ Busy = {}
    BY <1>7, <2>1 DEF RemoveDevice
  <2> QED
    BY <1>7, <2>1, <2>2 DEF RemoveDevice
<1>8. CASE RemoveCounted
  <2>1. AtWork' = AtWork /\ Busy' = Busy
    BY <1>8 DEF RemoveCounted, AtWork, Busy
  <2>2. leaving /\ ~leaving' /\ fdo' = fdo /\ creators' = creators - 1
    BY <1>8 DEF RemoveCounted
  <2>3. creators' = Cardinality(AtWork') + Counted'
    <3>1. fdo = "deleted" /\ creators = Cardinality(AtWork) + 1
      BY <2>2
    <3> QED
      BY <2>1, <2>2, <3>1, AtWorkCounts
  <2> QED
    BY <1>8, <2>1, <2>3 DEF RemoveCounted
<1> QED
  BY DrivingSteps, <1>1, <1>2, <1>3, <1>4, <1>5, <1>6, <1>7, <1>8

(* At most one caller initializes WvBus, none while there is a bus, and    *)
(* the count says how many callers and buses there are.                    *)
THEOREM OneBusAlways == Spec => []OneBus
<1>1. Driving => OneBus
  <2> SUFFICES ASSUME Driving PROVE OneBus
    OBVIOUS
  <2>1. {p \in Caller : pc[p] \in {"create", "attach", "link"}} = Busy
    BY DEF Busy
  <2>2. Busy \cup {p \in Caller : pc[p] \in {"undo", "lost"}} = AtWork
    BY DEF Busy, AtWork
  <2>3. Busy = {} \/ \E p : Busy = {p}
    BY DEF Driving
  <2>4. /\ Cardinality(Busy) \in {0, 1}
        /\ Cardinality(Busy) = 1 => fdo # "driven"
    BY <2>3, FS_EmptySet, FS_Singleton DEF Driving
  <2>5. /\ creators = Cardinality(AtWork) + (IF fdo = "driven" \/ leaving THEN 1 ELSE 0)
        /\ Cardinality(Busy) + (IF fdo = "driven" THEN 1 ELSE 0) <= 1
    BY <2>4 DEF Driving, Counted
  <2> HIDE DEF Driving, Busy, AtWork
  <2> QED
    BY <2>1, <2>2, <2>5 DEF OneBus
<1> QED
  BY <1>1, DrivingInit, DrivingNext, PTL DEF Spec

-----------------------------------------------------------------------------
(* The steps which change the state of the device.                         *)
LEMMA PnpSteps ==
  ASSUME [Next]_vars
  PROVE  \/ UNCHANGED <<pc, fdo, pnp>>
         \/ EntryStart
         \/ \E p \in Caller : \/ \E ours \in BOOLEAN : DriveEnter(p, ours)
                              \/ DriveUndone(p) \/ DriveCreate(p)
                              \/ DriveAttach(p) \/ DriveLink(p)
         \/ BusGone \/ PnP
BY DEF Next, vars, driving, Drive, Children, AnyQuery, AddDummy,
       AddDummyInThread, RemoveChild, LinkOld, AddOld, RemoveOld, DetachOld,
       Invalidate, Query, QueryFails, QueryCrashes, Probe, Consume

LEMMA PnpInit == Init => PnpStates
BY DEF Init, PnpStates

LEMMA PnpNext == Driving /\ PnpStates /\ [Next]_vars => PnpStates'
<1> SUFFICES ASSUME Driving, PnpStates, [Next]_vars PROVE PnpStates'
  OBVIOUS
<1> USE DEF PnpStates
<1>1. CASE UNCHANGED <<pc, fdo, pnp>>
  BY <1>1 DEF pnp
<1>2. CASE EntryStart
  BY <1>2, Names DEF EntryStart, pnp, Driving
<1>3. ASSUME NEW p \in Caller,
             DriveUndone(p) \/ \E ours \in BOOLEAN : DriveEnter(p, ours)
      PROVE  PnpStates'
  BY <1>3 DEF DriveEnter, DriveUndone, pnp, Driving
<1>4. ASSUME NEW p \in Caller, DriveCreate(p) \/ DriveAttach(p) \/ DriveLink(p)
      PROVE  PnpStates'
  <2>1. Busy = {p} /\ fdo # "driven"
    BY <1>4 DEF DriveCreate, DriveAttach, DriveLink, Busy, Driving
  <2>2. \A q \in Caller \ {p} : pc[q] \notin {"attach", "link"} /\ pc'[q] = pc[q]
    BY <1>4, <2>1 DEF DriveCreate, DriveAttach, DriveLink, Busy, Driving
  <2>3. CASE DriveCreate(p)
    BY <2>1, <2>2, <2>3 DEF DriveCreate, Driving
  <2>4. CASE DriveAttach(p)
    BY <2>1, <2>2, <2>4 DEF DriveAttach, Driving
  <2>5. CASE DriveLink(p)
    BY <2>1, <2>2, <2>5 DEF DriveLink, Driving
  <2> QED
    BY <1>4, <2>3, <2>4, <2>5
<1>5. CASE BusGone
  BY <1>5 DEF BusGone, pnp
<1>6. CASE PnP
  <2>1. ASSUME fdo = "driven"
        PROVE  /\ \A p \in Caller : pc[p] \notin {"attach", "link"}
    BY <2>1 DEF Driving, Busy
  <2> QED
    BY <1>6, <2>1 DEF PnP, Changes, StartDevice, StartFails, QueryStop, CancelStop,
       Stop, QueryRemove, CancelRemove, SurpriseRemoval, RemoveDevice,
       RemoveCounted, driving, pnp
<1> QED
  BY PnpSteps, <1>1, <1>2, <1>3, <1>4, <1>5, <1>6

(* A bus which lets requests through is started, or has failed to start.   *)
THEOREM HeldAlways == Spec => []HeldUnlessStarted
<1>1. PnpStates => HeldUnlessStarted
  BY DEF PnpStates, HeldUnlessStarted
<1> QED
  BY <1>1, DrivingInit, DrivingNext, PnpInit, PnpNext, PTL DEF Spec

-----------------------------------------------------------------------------
(* The steps which change the children or free the name of the device.     *)
LEMMA ListsSteps ==
  ASSUME [Next]_vars
  PROVE  \/ UNCHANGED <<kids, fdo>>
         \/ \E p \in Caller : DriveCreate(p) \/ DriveAttach(p) \/ DriveLink(p)
         \/ BusGone \/ Children \/ AnyQuery \/ RemoveDevice
BY DEF Next, vars, driving, Drive, EntryStart, DriveEnter, DriveUndone, Consume,
       PnP, Changes, StartDevice, StartFails, QueryStop, CancelStop, Stop,
       QueryRemove, CancelRemove, SurpriseRemoval, RemoveCounted

(* What is added to a set and was not in it is counted.                    *)
LEMMA DisjointCount ==
  ASSUME NEW A \in SUBSET Child, NEW B \in SUBSET Child, A \cap B = {}
  PROVE  /\ Cardinality(A \cup B) = Cardinality(A) + Cardinality(B)
         /\ Cardinality(A) \in Nat /\ Cardinality(B) \in Nat
<1>1. IsFiniteSet(A) /\ IsFiniteSet(B)
  BY Names, FS_Subset
<1>2. Cardinality(A \cap B) = 0
  BY FS_EmptySet
<1>3. Cardinality(A) \in Nat /\ Cardinality(B) \in Nat
  BY <1>1, FS_CardinalityType
<1>4. Cardinality(A \cup B)
        = Cardinality(A) + Cardinality(B) - Cardinality(A \cap B)
  BY <1>1, FS_Union
<1> QED
  BY <1>2, <1>3, <1>4

(* The list after the probe, when that was due.                            *)
LEMMA ProbedList ==
  ASSUME Lists, NEW T \in Probes
  PROVE  /\ Begun(T) \in Seq(Child) /\ Distinct(Begun(T))
         /\ ToSet(Begun(T)) = Listed \cup T
         /\ T \subseteq Child /\ T \cap Listed = {} /\ T \cap Old = {}
<1>1. CASE relations = None
  <2>1. T \in SUBSET Child /\ IsFiniteSet(T) /\ T \cap Old = {}
    BY <1>1, Names, FS_Subset DEF Probes
  <2> QED
    BY <1>1, <2>1, SetToSeqElements DEF Begun, Listed
<1>2. CASE relations # None
  <2>1. T = {}
    BY <1>2 DEF Probes
  <2> QED
    BY <1>2, <2>1 DEF Lists, Begun, Listed
<1> QED
  BY <1>1, <1>2

(* A list which is the former one with some more children.                 *)
LEMMA Extended ==
  ASSUME Lists, NEW s \in Seq(Child), Distinct(s), relations' = s,
         NEW U \in SUBSET Child, ToSet(s) = Listed \cup U, U \cap Listed = {},
         Assign(U)
  PROVE  /\ relations' \in Seq(Child) /\ relations' # None /\ Distinct(relations')
         /\ Listed' = Listed \cup U
         /\ assigned' = Listed' \ Old
         /\ usage' = Cardinality(assigned')
<1>1. Listed' = Listed \cup U /\ relations' # None
  BY Names DEF Listed
<1>2. assigned' = Listed' \ Old /\ assigned' = assigned \cup (U \ Old)
  BY <1>1 DEF Lists, Assign
<1>3. /\ assigned \in SUBSET Child /\ U \ Old \in SUBSET Child
      /\ assigned \cap (U \ Old) = {}
  BY DEF Lists
<1>4. Cardinality(assigned \cup (U \ Old))
        = Cardinality(assigned) + Cardinality(U \ Old)
  BY <1>3, DisjointCount
<1> QED
  BY <1>1, <1>2, <1>4 DEF Lists, Assign

(* An addition, with the probe when that was due.                          *)
LEMMA AddToLists ==
  ASSUME Lists, NEW c \in Child \ Listed, NEW T \in Probes, c \notin T,
         AddTo(c, T)
  PROVE  /\ relations' \in Seq(Child) /\ relations' # None
         /\ Distinct(relations') /\ Listed' = Listed \cup T \cup {c}
         /\ assigned' = Listed' \ Old
         /\ usage' = Cardinality(assigned')
<1> DEFINE s == Append(Begun(T), c)
<1>1. /\ s \in Seq(Child) /\ Distinct(s) /\ relations' = s
      /\ ToSet(s) = Listed \cup (T \cup {c})
  BY ProbedList, AppendElements DEF AddTo
<1>2. /\ T \cup {c} \in SUBSET Child /\ (T \cup {c}) \cap Listed = {}
  BY ProbedList
<1>3. Assign(T \cup {c})
  BY DEF AddTo
<1> HIDE DEF s
<1> QED
  BY <1>1, <1>2, <1>3, Extended

(* The probe alone.                                                        *)
LEMMA ProbeLists ==
  ASSUME Lists, NEW T \in Probes, relations' = Begun(T), Assign(T)
  PROVE  /\ relations' \in Seq(Child) /\ relations' # None
         /\ Distinct(relations') /\ Listed' = Listed \cup T
         /\ assigned' = Listed' \ Old
         /\ usage' = Cardinality(assigned')
BY ProbedList, Extended

LEMMA ListsInit == Init => Lists
<1> SUFFICES ASSUME Init PROVE Lists
  OBVIOUS
<1>1. Listed = {}
  BY DEF Init, Listed
<1> QED
  BY <1>1, FS_EmptySet DEF Init, Lists

(* The additions.                                                          *)
LEMMA ListsAdd ==
  ASSUME Lists, NEW c \in Child,
         \/ AddDummy(c) \/ AddDummyInThread(c)
         \/ c \in Old /\ (AddOld(c) \/ LinkOld(c))
  PROVE  Lists'
<1> USE DEF Lists
<1>1. ASSUME c \notin devices, UNCHANGED <<driving, nodes, half>>, fdo # "none",
             \/ \E T \in Probes : /\ devices' = devices \cup T \cup {c}
                                  /\ AddTo(c, T) \/ AddFails(c, T)
             \/ NotBegun /\ devices' = devices \cup {c},
             c \notin Probed \ Old
      PROVE  Lists'
  <2>1. c \notin Listed /\ c \notin nodes \cup half
    BY <1>1
  <2>2. CASE NotBegun /\ devices' = devices \cup {c}
    BY <1>1, <2>1, <2>2 DEF NotBegun, driving, Listed
  <2>3. ASSUME NEW T \in Probes, devices' = devices \cup T \cup {c},
               AddTo(c, T) \/ AddFails(c, T)
        PROVE  Lists'
    <3>1. T \subseteq Child /\ T \cap half = {} /\ c \notin T
      BY <1>1, ProbedList DEF Probes
    <3>2. CASE AddTo(c, T)
      BY <1>1, <2>1, <2>3, <3>1, <3>2, AddToLists DEF driving
    <3>3. CASE AddFails(c, T)
      BY <1>1, <2>1, <2>3, <3>1, <3>3, ProbeLists DEF driving, AddFails
    <3> QED
      BY <2>3, <3>2, <3>3
  <2> QED
    BY <1>1, <2>2, <2>3
<1>2. ASSUME c \in Old, AddOld(c), NEW T \in Probes,
             devices' = devices \cup T, AddTo(c, T) \/ AddFails(c, T)
      PROVE  Lists'
  <2>1. c \notin Listed /\ c \in devices /\ c \notin T /\ T \subseteq Child
    BY <1>2, ProbedList DEF AddOld
  <2>2. T \cap half = {} /\ half' = half \ {c} /\ nodes' = nodes
        /\ fdo' = fdo /\ fdo # "none"
    BY <1>2, ProbedList DEF AddOld, Probes, driving, Alive
  <2>3. CASE AddTo(c, T)
    BY <1>2, <2>1, <2>2, <2>3, AddToLists
  <2>4. CASE AddFails(c, T)
    BY <1>2, <2>1, <2>2, <2>4, ProbeLists DEF AddFails
  <2> QED
    BY <1>2, <2>3, <2>4
<1>3. CASE AddDummy(c)
  <2>1. c \notin devices /\ fdo # "none" /\ c \notin Probed
    BY <1>3 DEF AddDummy, Alive
  <2> QED
    BY <1>1, <1>3, <2>1 DEF AddDummy
<1>4. CASE AddDummyInThread(c)
  <2>1. c \notin devices /\ fdo # "none" /\ c \notin Probed
    BY <1>4, Names DEF AddDummyInThread
  <2> QED
    BY <1>1, <1>4, <2>1 DEF AddDummyInThread
<1>5. CASE c \in Old /\ AddOld(c)
  <2>1. CASE NotBegun /\ devices' = devices
    BY <1>5, <2>1 DEF AddOld, NotBegun, driving, Listed
  <2> QED
    BY <1>2, <1>5, <2>1 DEF AddOld
<1>6. CASE c \in Old /\ LinkOld(c)
  BY <1>6 DEF LinkOld, driving, Listed
<1> QED
  BY <1>3, <1>4, <1>5, <1>6

(* The queries, whose probe adds too.                                      *)
LEMMA ListsQuery ==
  ASSUME Lists, AnyQuery
  PROVE  Lists'
<1>1. CASE QueryCrashes
  BY <1>1 DEF QueryCrashes, Lists, Listed, kids, driving
<1>2. ASSUME NEW T \in SUBSET Probed, Probe(T)  PROVE Lists'
  <2>1. /\ T \in Probes /\ relations' = Begun(T) /\ Assign(T)
        /\ devices' = devices \cup T /\ nodes' = nodes /\ half' = half
        /\ fdo = "driven" /\ fdo' = fdo
    BY <1>2 DEF Probe, CanQuery, driving
  <2>2. /\ relations' \in Seq(Child) /\ Distinct(relations')
        /\ Listed' = Listed \cup T /\ assigned' = Listed' \ Old
        /\ usage' = Cardinality(assigned')
    BY <2>1, ProbeLists
  <2>3. T \subseteq Child /\ T \cap (nodes \cap half) = {}
    BY <2>1, ProbedList DEF Probes, Lists
  <2> QED
    BY <2>1, <2>2, <2>3 DEF Lists
<1> QED
  BY <1>1, <1>2 DEF AnyQuery, Query, QueryFails

(* The removals and what goes before them.                                 *)
LEMMA ListsRemove ==
  ASSUME Lists, NEW c \in Child,
         \/ RemoveChild(c)
         \/ c \in Old /\ (RemoveOld(c) \/ \E large \in BOOLEAN : DetachOld(c, large))
  PROVE  Lists'
<1>1. ASSUME relations # None, relations' = Without(c, relations)
      PROVE  /\ relations' \in Seq(Child) /\ relations' # None
             /\ Distinct(relations') /\ Listed' = Listed \ {c}
  <2>1. relations \in Seq(Child) /\ Distinct(relations)
    BY <1>1 DEF Lists
  <2>2. relations' \in Seq(Child) /\ Distinct(relations')
        /\ ToSet(relations') = ToSet(relations) \ {c}
    BY <1>1, <2>1, RemoveFirstElements DEF Without
  <2> QED
    BY <1>1, <2>2, Names DEF Listed
<1>2. CASE RemoveChild(c)
  <2>1. c \in Listed \ Old /\ relations # None /\ c \in assigned
    BY <1>2 DEF RemoveChild, Lists, Listed
  <2>2. /\ relations' = Without(c, relations) /\ assigned' = assigned \ {c}
        /\ usage' = usage - Cardinality({c} \cap assigned)
        /\ devices' = devices \ {c} /\ nodes' = nodes /\ half' = half
        /\ fdo' = fdo /\ fdo # "none"
    BY <1>2 DEF RemoveChild, Unassign, Alive, driving
  <2>3. IsFiniteSet(assigned) /\ {c} \cap assigned = {c}
    BY <2>1, Names, FS_Subset DEF Lists
  <2>4. /\ Cardinality({c} \cap assigned) = 1
        /\ Cardinality(assigned \ {c}) = Cardinality(assigned) - 1
    BY <2>1, <2>3, FS_Singleton, FS_RemoveElement
  <2>5. usage' = Cardinality(assigned')
    BY <2>2, <2>4 DEF Lists
  <2> QED
    BY <1>1, <2>1, <2>2, <2>5 DEF Lists
<1>3. CASE c \in Old /\ RemoveOld(c)
  <2>1. /\ half' = half \ {c} /\ UNCHANGED <<assigned, usage, nodes, devices>>
        /\ fdo' = fdo
        /\ relations' = IF relations = None THEN None ELSE Without(c, relations)
    BY <1>3 DEF RemoveOld, driving
  <2>2. CASE relations = None
    BY <2>1, <2>2 DEF Lists, Listed
  <2>3. CASE relations # None
    BY <1>1, <1>3, <2>1, <2>3 DEF Lists
  <2> QED
    BY <2>2, <2>3
<1>4. CASE c \in Old /\ \E large \in BOOLEAN : DetachOld(c, large)
  BY <1>4 DEF DetachOld, Detachable, Lists, Listed, driving
<1> QED
  BY <1>2, <1>3, <1>4

LEMMA ListsNext == Driving /\ Lists /\ [Next]_vars => Lists'
<1> SUFFICES ASSUME Driving, Lists, [Next]_vars PROVE Lists'
  OBVIOUS
<1>1. CASE UNCHANGED <<kids, fdo>>
  BY <1>1 DEF Lists, Listed, kids
<1>2. ASSUME NEW p \in Caller, DriveCreate(p)  PROVE Lists'
  <2>1. CASE fdo = "none" /\ relations' = None
    <3>1. IsFiniteSet(assigned)
      BY Names, FS_Subset DEF Lists
    <3>2. assigned = {}
      BY <2>1, <3>1, FS_EmptySet DEF Lists
    <3> QED
      BY <1>2, <2>1, <3>2 DEF DriveCreate, Lists, Listed
  <2>2. CASE UNCHANGED <<fdo, relations>>
    BY <1>2, <2>2 DEF DriveCreate, Lists, Listed
  <2> QED
    BY <1>2, <2>1, <2>2 DEF DriveCreate
<1>3. ASSUME NEW p \in Caller, DriveAttach(p) \/ DriveLink(p)  PROVE Lists'
  BY <1>3 DEF DriveAttach, DriveLink, Lists, Listed, kids
<1>4. CASE BusGone
  BY <1>4 DEF BusGone, Lists, Listed, kids
<1>5. CASE Children
  <2>1. CASE Invalidate
    BY <2>1 DEF Invalidate, Lists, Listed, kids, driving
  <2> QED
    BY <1>5, <2>1, ListsAdd, ListsRemove, Names DEF Children
<1>6. CASE RemoveDevice
  <2>1. /\ relations' = None /\ assigned' = {} /\ devices' = devices \ assigned
        /\ usage' = usage - Cardinality(assigned) /\ fdo' = "deleted"
        /\ nodes' = nodes /\ half' = half
    BY <1>6 DEF RemoveDevice, Unassign
  <2>2. (nodes \cup half) \cap assigned = {}
    BY DEF Lists
  <2>3. usage' = Cardinality(assigned') /\ Listed' = {}
    <3>1. Cardinality(assigned) \in Nat /\ Cardinality({}) = 0
      BY Names, FS_Subset, FS_CardinalityType, FS_EmptySet DEF Lists
    <3> QED
      BY <2>1, <3>1 DEF Lists, Listed
  <2> QED
    BY <2>1, <2>2, <2>3 DEF Lists
<1> QED
  BY ListsSteps, ListsQuery, <1>1, <1>2, <1>3, <1>4, <1>5, <1>6
(* The list of children, their assignment and the usages they hold agree.  *)
THEOREM ListedAlways == Spec => []ListedIsAssigned
<1>1. Lists => ListedIsAssigned
  <2> SUFFICES ASSUME Lists PROVE ListedIsAssigned
    OBVIOUS
  <2>1. relations # None => Len(relations) = Cardinality(Listed)
    BY LengthOfDistinct DEF Lists, Listed
  <2> QED
    BY <2>1 DEF Lists, ListedIsAssigned
<1> QED
  BY <1>1, DrivingInit, DrivingNext, ListsInit, ListsNext, PTL DEF Spec

-----------------------------------------------------------------------------
(* The steps which give an answer and take it.                             *)
LEMMA AnswerSteps ==
  ASSUME [Next]_vars
  PROVE  \/ UNCHANGED <<refs, answer>>
         \/ \E T \in SUBSET Probed, above \in {<<>>, <<Higher>>} :
              Query(above, T) \/ QueryFails(above, T)
         \/ Consume
BY DEF Next, vars, asked, Drive, EntryStart, DriveEnter, DriveUndone,
       DriveCreate, DriveAttach, DriveLink, BusGone, Children, AnyQuery, PnP,
       AddDummy, AddDummyInThread, RemoveChild, LinkOld, AddOld, RemoveOld,
       DetachOld, Invalidate, QueryCrashes, Changes, StartDevice, StartFails,
       QueryStop, CancelStop, Stop, QueryRemove, CancelRemove,
       SurpriseRemoval, RemoveDevice, RemoveCounted

LEMMA AnsweredInit == Init => Answered
BY DEF Init, Answered

(* The driver above has none of the children, so what the merge yields has *)
(* no duplicates.                                                          *)
LEMMA Merged ==
  ASSUME NEW own \in Seq(Child), Distinct(own), NEW above \in {<<>>, <<Higher>>}
  PROVE  /\ own \o above \in Seq(Object) /\ Distinct(own \o above)
         /\ own \o above # None
         /\ ToSet(own \o above) = ToSet(own) \cup ToSet(above)
         /\ ToSet(own) \cap ToSet(above) = {}
<1>1. own \in Seq(Object) /\ Higher \in Object
  BY Names, SeqMonotonic
<1>2. CASE above = <<>>
  <2>1. ToSet(above) = {}
    BY <1>2 DEF ToSet
  <2> QED
    BY <1>1, <1>2, <2>1, ConcatEmptySeq, Names
<1>3. CASE above = <<Higher>>
  <2>1. own \o above = Append(own, Higher)
    BY <1>1, <1>3, AppendIsConcat
  <2>2. Higher \notin ToSet(own)
    BY Elements, Names
  <2>3. ToSet(above) = {Higher}
    BY <1>3 DEF ToSet
  <2> QED
    BY <2>1, <2>2, <2>3, <1>1, AppendElements, Names
<1> QED
  BY <1>2, <1>3

LEMMA AnsweredNext == Lists /\ Answered /\ [Next]_vars => Answered'
<1> SUFFICES ASSUME Lists, Answered, [Next]_vars PROVE Answered'
  OBVIOUS
<1>1. CASE UNCHANGED <<refs, answer>>
  BY <1>1 DEF Answered
<1>2. ASSUME NEW T \in SUBSET Probed, NEW above \in {<<>>, <<Higher>>},
             Query(above, T)
      PROVE  Answered'
  <2>1. /\ T \in Probes /\ answer = None /\ answer' = Begun(T) \o above
        /\ refs' = Referenced(Referenced(refs, above), Begun(T))
    BY <1>2 DEF Query, Probe, CanQuery, WvlMergeDeviceRelations
  <2>2. /\ answer' \in Seq(Object) /\ Distinct(answer') /\ answer' # None
    BY <2>1, ProbedList, Merged
  <2>3. refs = [o \in Object |-> 0]
    BY <2>1 DEF Answered
  <2>4. refs' = [o \in Object |-> IF o \in ToSet(answer') THEN 1 ELSE 0]
    <3>1. /\ ToSet(Begun(T) \o above) = ToSet(Begun(T)) \cup ToSet(above)
          /\ ToSet(Begun(T)) \cap ToSet(above) = {}
      BY <2>1, ProbedList, Merged
    <3>2. \A o \in Object :
            Referenced(Referenced(refs, above), Begun(T))[o]
              = IF o \in ToSet(Begun(T)) \cup ToSet(above) THEN 1 ELSE 0
      BY <2>3, <3>1 DEF Referenced
    <3> QED
      BY <2>1, <3>1, <3>2 DEF Referenced
  <2> QED
    BY <2>2, <2>4 DEF Answered
<1>3. ASSUME NEW T \in SUBSET Probed, NEW above \in {<<>>, <<Higher>>},
             QueryFails(above, T)
      PROVE  Answered'
  <2>1. /\ answer = None /\ answer' = None /\ refs' = FromAbove(above)
        /\ refs = [o \in Object |-> 0]
    BY <1>3 DEF QueryFails, Probe, CanQuery, Answered
  <2>2. refs' = [o \in Object |-> 0]
    BY <2>1 DEF FromAbove, Referenced, Dereferenced
  <2> QED
    BY <2>1, <2>2 DEF Answered
<1>4. CASE Consume
  BY <1>4 DEF Consume, Dereferenced, Answered
<1> QED
  BY AnswerSteps, <1>1, <1>2, <1>3, <1>4

(* The answers with Windows carry one reference to each device in them,    *)
(* and no other references are left behind.                                *)
THEOREM ReferencesAlways == Spec => []ReferencesMatch
<1>1. Answered => ReferencesMatch
  <2> SUFFICES ASSUME Answered, NEW o \in Object
               PROVE  refs[o] = Cardinality({i \in DOMAIN
                        (IF answer = None THEN <<>> ELSE answer) : answer[i] = o})
    BY DEF ReferencesMatch
  <2> DEFINE at == {i \in DOMAIN (IF answer = None THEN <<>> ELSE answer) :
                      answer[i] = o}
  <2>1. CASE answer = None
    <3>1. at = {}
      BY <2>1
    <3> QED
      BY <2>1, <3>1, FS_EmptySet DEF Answered
  <2>2. CASE answer # None
    <3>1. /\ DOMAIN answer = 1 .. Len(answer)
          /\ ToSet(answer) = {answer[i] : i \in 1 .. Len(answer)}
      BY <2>2, Elements DEF Answered
    <3>2. CASE o \notin ToSet(answer)
      <4>1. at = {}
        BY <2>2, <3>1, <3>2
      <4> QED
        BY <2>2, <3>2, <4>1, FS_EmptySet DEF Answered
    <3>3. CASE o \in ToSet(answer)
      <4>1. \E i : at = {i}
        BY <2>2, <3>1, <3>3 DEF Answered, Distinct
      <4> QED
        BY <2>2, <3>3, <4>1, FS_Singleton DEF Answered
    <3> QED
      BY <3>2, <3>3
  <2> QED
    BY <2>1, <2>2
<1> QED
  BY <1>1, DrivingInit, DrivingNext, ListsInit, ListsNext, AnsweredInit,
     AnsweredNext, PTL DEF Spec
=============================================================================
