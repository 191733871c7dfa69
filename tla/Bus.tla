-------------------------------- MODULE Bus --------------------------------
(***************************************************************************)
(* A bus of the bus library: its list of child nodes, its node count, and  *)
(* its PnP state (src/winvblock/libbus), used by the threads of a driver   *)
(* with such a bus (src/httpdisk/bus.c, src/aoe/bus.c).                    *)
(*                                                                         *)
(* The list is one of forward and backward links, walked one node at a     *)
(* time under the bus' lock, or without it where the code takes none.      *)
(* Each node is created and added by a thread of its own, and created anew *)
(* when it is gone; each detacher detaches units again and again; Windows  *)
(* sends the PnP IRPs.  One action is one step of a walk, or a change to   *)
(* the links under the lock.                                               *)
(***************************************************************************)
EXTENDS Integers, FiniteSets

CONSTANTS
  Node,      (* the child nodes                                            *)
  Detacher,  (* the threads which detach units                             *)
  Head,      (* BusPrivate_.Nodes, the head of the list                    *)
  None,      (* NULL                                                       *)
  Boot,      (* the nodes of boot-time devices                             *)
  Driver     (* "HTTPDisk" or "AoE": whose bus it is                       *)

Link == Node \cup {Head}
Proc == Node \cup Detacher
Unit == 0 .. Cardinality(Node) - 1

ASSUME NamesAssumption ==
  /\ IsFiniteSet(Node) /\ Node \cap Detacher = {}
  /\ Head \notin Proc /\ None \notin Proc \cup {Head}
ASSUME DriverAssumption == Driver \in {"HTTPDisk", "AoE"} /\ Boot \subseteq Node

VARIABLES
  flink,      (* Link.Flink of each node and of the head                   *)
  blink,      (* Link.Blink                                                *)
  num,        (* BusPrivate_.Num of each node                              *)
  linked,     (* Linked of each node                                       *)
  refs,       (* the references to the PDO of each node                    *)
  nodeCount,  (* BusPrivate_.NodeCount                                     *)
  lock,       (* the holder of NodeLock                                    *)
  walker,     (* where the walk of that holder is                          *)
  pc,         (* what each process does next                               *)
  unit,       (* the unit number a detacher was asked for                  *)
  target,     (* the node a detacher has found                             *)
  overtaken,  (* a detacher has taken off a node which another one has     *)
              (* found, too (history)                                      *)
  clearing,   (* how far WvlBusClear has got                               *)
  cleared,    (* where the walk of WvlBusClear is                          *)
  state,      (* State                                                     *)
  old,        (* OldState                                                  *)
  manager     (* the state of the bus device as Windows knows it           *)

list   == <<flink, blink, nodeCount>>
nodes  == <<linked, refs>>
walk   == <<lock, walker, pc>>
detach == <<unit, target, overtaken>>
clear  == <<clearing, cleared>>
pnp    == <<state, old, manager>>
vars   == <<list, num, nodes, walk, detach, clear, pnp>>

BusState == {"NotStarted", "Started", "StopPending", "Stopped", "RemovePending",
             "SurpriseRemovePending", "Deleted"}

(* WvlBusInit, and the State which the driver gives its bus at once.       *)
Init ==
  /\ flink = [l \in Link |-> IF l = Head THEN Head ELSE None]
  /\ blink = [l \in Link |-> IF l = Head THEN Head ELSE None]
  /\ num = [n \in Node |-> 0] /\ linked = [n \in Node |-> FALSE]
  /\ refs = [n \in Node |-> 1]
  /\ nodeCount = 0
  /\ lock = None /\ walker = Head
  /\ pc = [p \in Proc |-> "idle"]
  /\ unit = [d \in Detacher |-> 0] /\ target = [d \in Detacher |-> None]
  /\ overtaken = FALSE
  /\ clearing = "no" /\ cleared = Head
  /\ state = "Started" /\ old = "NotStarted" /\ manager = "stopped"

Goto(p, l) == pc' = [pc EXCEPT ![p] = l]

Lock(p) ==
  /\ lock = None
  /\ lock' = p
  /\ walker' = Head

Unlock == lock' = None /\ walker' = Head

(* NodeCount is a USHORT.                                                  *)
CountWidth == 65536
Increment == nodeCount' = (nodeCount + 1) % CountWidth
Decrement == nodeCount' = (nodeCount + CountWidth - 1) % CountWidth

(* InsertTailList(before, n)                                               *)
Insert(before, n) ==
  /\ flink' = [flink EXCEPT ![n] = before, ![blink[before]] = n]
  /\ blink' = [blink EXCEPT ![n] = blink[before], ![before] = n]

(* RemoveEntryList(n), which leaves the links of n itself alone.           *)
Remove(n) ==
  /\ flink' = [flink EXCEPT ![blink[n]] = flink[n]]
  /\ blink' = [blink EXCEPT ![flink[n]] = blink[n]]

(* Those which come to the bus with an IOCTL, and so have it open.  AoE's  *)
(* thread, which adds the disks it finds, needs no handle.                 *)
Ioctl == Detacher \cup IF Driver = "HTTPDisk" THEN Node ELSE {}

(* Windows removes a device once nobody has it open.                       *)
Open(p) == p \in Ioctl => manager # "removed"
Closed  == \A p \in Ioctl : pc[p] \in {"idle", "added", "refused"}

Dereference(n) == refs' = [refs EXCEPT ![n] = @ - 1]

(* What a node holds before it is added, and when its device was deleted.  *)
Blank(n) ==
  /\ num' = [num EXCEPT ![n] = 0]
  /\ linked' = [linked EXCEPT ![n] = FALSE]
  /\ flink' = [flink EXCEPT ![n] = None]
  /\ blink' = [blink EXCEPT ![n] = None]

-----------------------------------------------------------------------------
(* WvlBusAddNode and WvlBusAddNode_, for a node which was just created     *)

(* HttpdiskCreateDevice and WvlBusInitNode, for a device that is long gone.*)
CreateNode(n) ==
  /\ pc[n] \in {"added", "refused"} /\ refs[n] = 0
  /\ refs' = [refs EXCEPT ![n] = 1]
  /\ Blank(n)
  /\ Goto(n, "idle")
  /\ UNCHANGED <<nodeCount, lock, walker, detach, clear, pnp>>

(* Without a started bus HTTPDisk deletes the node's device; AoeBusAddDev  *)
(* does not look at the status, and the disk stays without a bus.          *)
(* Mutant: the PDO is not referenced. *)
AddNodeUnreferenced(n) ==
  /\ Open(n)
  /\ pc[n] = "idle" /\ state = "Started"
  /\ num' = [num EXCEPT ![n] = 0]
  /\ Goto(n, "lock")
  /\ UNCHANGED <<list, nodes, lock, walker, detach, clear, pnp>>

AddNode(n) ==
  /\ Open(n)
  /\ pc[n] = "idle"
  /\ \/ /\ state = "Started"
        /\ refs' = [refs EXCEPT ![n] = @ + 1]
        /\ num' = [num EXCEPT ![n] = 0]
        /\ Goto(n, "lock")
     \/ /\ state # "Started"
        /\ IF Driver = "HTTPDisk" THEN Dereference(n) ELSE UNCHANGED refs
        /\ Goto(n, "refused")
        /\ UNCHANGED num
  /\ UNCHANGED <<list, linked, lock, walker, detach, clear, pnp>>

AddLock(n) ==
  /\ pc[n] = "lock"
  /\ Lock(n)
  /\ Goto(n, "walk")
  /\ UNCHANGED <<list, num, nodes, detach, clear, pnp>>

(* The walk is over, the first node's unit number is not 0, or there is a  *)
(* gap before m.                                                           *)
(* Mutant: a gap is noticed one node too late. *)
SlotBeforeLate(n, m) == m # Head => num[m] > num[n] + 1

SlotBefore(n, m) ==
  m # Head => (num[m] # 0 /\ blink[m] = Head) \/ num[m] > num[n]

AddWalk(n) ==
  /\ pc[n] = "walk"
  /\ walker' = flink[walker]
  /\ \/ /\ SlotBefore(n, walker')
        /\ Goto(n, "insert")
        /\ UNCHANGED num
     \/ /\ ~SlotBefore(n, walker')
        /\ num' = [num EXCEPT ![n] = @ + 1]
        /\ UNCHANGED pc
  /\ UNCHANGED <<list, nodes, lock, detach, clear, pnp>>

AddInsert(n) ==
  /\ pc[n] = "insert"
  /\ Insert(walker, n)
  /\ Increment
  /\ Unlock
  /\ Goto(n, "link")
  /\ UNCHANGED <<num, nodes, detach, clear, pnp>>

AddLinked(n) ==
  /\ pc[n] = "link"
  /\ linked' = [linked EXCEPT ![n] = TRUE]
  /\ Goto(n, "added")
  /\ UNCHANGED <<list, num, refs, lock, walker, detach, clear, pnp>>

-----------------------------------------------------------------------------
(* HttpdiskBusRemove_ and AoeBusDevCtlDetach_: find a unit's node with the *)
(* bus locked, then WvlBusRemoveNode and WvlBusRemoveNode_                 *)

DetachStart(d, u) ==
  /\ Open(d)
  /\ pc[d] = "idle"
  /\ Lock(d)
  /\ unit' = [unit EXCEPT ![d] = u]
  /\ Goto(d, "find")
  /\ UNCHANGED <<list, num, nodes, target, overtaken, clear, pnp>>

(* The loop stops at a node which matches; the one of AoE only where that  *)
(* is a boot-time device.                                                  *)
(* Mutant: the list is taken to have no gaps. *)
StopsAtOrAfter(d, m) == m # Head => num[m] >= unit[d]

StopsAt(d, m) ==
  m # Head => num[m] = unit[d] /\ (Driver = "AoE" => m \in Boot)

(* What the loop has found when it stops at m.                             *)
Found(m) ==
  IF Driver = "AoE" THEN IF m = Head /\ walker # Head THEN walker ELSE None
                    ELSE IF m # Head THEN m ELSE None

(* The request is completed, and its unit number gone.                     *)
Return(d) ==
  /\ unit' = [unit EXCEPT ![d] = 0]
  /\ Goto(d, "idle")

DetachFind(d) ==
  /\ pc[d] = "find"
  /\ \/ /\ StopsAt(d, flink[walker])
        /\ target' = [target EXCEPT ![d] = Found(flink[walker])]
        /\ Unlock
        /\ IF target'[d] = None THEN Return(d) ELSE Goto(d, "remove") /\ UNCHANGED unit
     \/ /\ ~StopsAt(d, flink[walker])
        /\ walker' = flink[walker]
        /\ UNCHANGED <<unit, target, lock, pc>>
  /\ UNCHANGED <<list, num, nodes, overtaken, clear, pnp>>

(* Another detacher may have found the same node, since the bus was not    *)
(* locked in between.                                                      *)
Shared(d) == \E e \in Detacher \ {d} : target[e] = target[d]

DetachRemove(d) ==
  /\ pc[d] = "remove" /\ lock = None
  /\ Remove(target[d])
  /\ Decrement
  /\ IF Shared(d) THEN overtaken' = TRUE ELSE UNCHANGED overtaken
  /\ Goto(d, "unlink")
  /\ UNCHANGED <<num, nodes, lock, walker, unit, target, clear, pnp>>

DetachUnlinked(d) ==
  /\ pc[d] = "unlink"
  /\ linked' = [linked EXCEPT ![target[d]] = FALSE]
  /\ Dereference(target[d])
  /\ Goto(d, "delete")
  /\ UNCHANGED <<list, num, lock, walker, detach, clear, pnp>>

(* HTTPDisk deletes the node's device at once.                             *)
DetachDelete(d) ==
  /\ pc[d] = "delete"
  /\ IF Driver = "HTTPDisk"
     THEN Dereference(target[d]) /\ Blank(target[d])
     ELSE UNCHANGED <<nodes, num, flink, blink>>
  /\ target' = [target EXCEPT ![d] = None]
  /\ Return(d)
  /\ UNCHANGED <<nodeCount, lock, walker, overtaken, clear, pnp>>

-----------------------------------------------------------------------------
(* WvlBusPnp.  Windows sends one PnP IRP at a time, in its own order; the  *)
(* lower device is a dummy PDO, which always starts.                       *)

(* OldState and State, when the state is changed and when it is restored.  *)
Enter(s) == old' = state /\ state' = s

Restore == state' = old /\ UNCHANGED old

Pnp(from, to) ==
  /\ manager \in from
  /\ manager' = to
  /\ UNCHANGED <<list, num, nodes, walk, detach, cleared>>

StartDevice  == Pnp({"stopped"}, "started") /\ Enter("Started") /\ UNCHANGED clearing
QueryStop    == Pnp({"started"}, "stopPending") /\ Enter("StopPending") /\ UNCHANGED clearing
CancelStop   == Pnp({"stopPending"}, "started") /\ Restore /\ UNCHANGED clearing
StopDevice   == Pnp({"stopPending"}, "stopped") /\ Enter("Stopped") /\ UNCHANGED clearing
QueryRemove  == Pnp({"started"}, "removePending") /\ Enter("RemovePending") /\ UNCHANGED clearing
CancelRemove == Pnp({"removePending"}, "started") /\ Restore /\ UNCHANGED clearing

SurpriseRemoval ==
  /\ Pnp({"started", "stopPending", "removePending"}, "gone")
  /\ Enter("SurpriseRemovePending")
  /\ UNCHANGED clearing

(* WvlBusPnpRemoveDev, up to WvlBusClear.                                  *)
RemoveDevice ==
  /\ Closed
  /\ Pnp({"stopped", "removePending", "gone"}, "removed")
  /\ Enter("Deleted")
  /\ clearing' = "lock"

(* WvlBusClear waits for whoever works with the node list, ...             *)
ClearWait ==
  /\ clearing = "lock" /\ lock = None
  /\ clearing' = "walk"
  /\ UNCHANGED <<list, num, nodes, walk, detach, cleared, pnp>>

(* ... and removes the nodes without the lock.                             *)
ClearWalk ==
  /\ clearing = "walk"
  /\ cleared' = flink[cleared]
  /\ \/ /\ cleared' = Head
        /\ clearing' = "done"
        /\ UNCHANGED <<list, nodes>>
     \/ /\ cleared' # Head
        /\ Remove(cleared')
        /\ Decrement
        /\ linked' = [linked EXCEPT ![cleared'] = FALSE]
        /\ Dereference(cleared')
        /\ UNCHANGED clearing
  /\ UNCHANGED <<num, walk, detach, pnp>>

-----------------------------------------------------------------------------
Add(n) ==
  \/ CreateNode(n) \/ AddNode(n) \/ AddLock(n) \/ AddWalk(n) \/ AddInsert(n)
  \/ AddLinked(n)

Detach(d) ==
  \/ \E u \in Unit : DetachStart(d, u)
  \/ DetachFind(d) \/ DetachRemove(d) \/ DetachUnlinked(d) \/ DetachDelete(d)

Windows ==
  \/ StartDevice \/ QueryStop \/ CancelStop \/ StopDevice
  \/ QueryRemove \/ CancelRemove \/ SurpriseRemoval \/ RemoveDevice

(* Who was overtaken takes off the node once more, which may be another    *)
(* one by then, or freed.  What the links lead to after that is undefined, *)
(* and nobody walks along them.                                            *)
Next ==
  IF overtaken THEN \E d \in Detacher : DetachRemove(d)
  ELSE \/ \E n \in Node : Add(n)
       \/ \E d \in Detacher : Detach(d)
       \/ Windows \/ ClearWait \/ ClearWalk

Spec == Init /\ [][Next]_vars

-----------------------------------------------------------------------------
TypeOK ==
  /\ flink \in [Link -> Link \cup {None}] /\ blink \in [Link -> Link \cup {None}]
  /\ num \in [Node -> Unit] /\ linked \in [Node -> BOOLEAN]
  /\ refs \in [Node -> 0 .. 2]
  /\ nodeCount \in 0 .. CountWidth - 1
  /\ lock \in Proc \cup {None} /\ walker \in Link
  /\ pc \in [Proc -> {"idle", "lock", "walk", "insert", "link", "added", "refused",
                      "find", "remove", "unlink", "delete"}]
  /\ overtaken \in BOOLEAN /\ unit \in [Detacher -> Unit] /\ target \in [Detacher -> Node \cup {None}]
  /\ clearing \in {"no", "lock", "walk", "done"} /\ cleared \in Link
  /\ state \in BusState /\ old \in BusState
  /\ manager \in {"stopped", "started", "stopPending", "removePending", "gone",
                  "removed"}

(* The nodes which a walk from the head of the list meets.                 *)
Members ==
  {n \in Node : \A S \in SUBSET Node :
                  (\A l \in S \cup {Head} : flink[l] \in S \cup {Head, None}) => n \in S}

(* What follows holds until a node is taken off for two detachers, which   *)
(* HttpdiskBusRemove_ does not prevent: then the list promises nothing.    *)

(* The assertion in WvlBusPnpQueryDevRelations, which takes the count for  *)
(* the size of the array it fills with the nodes ("Inconsistent node list  *)
(* count!").  The list and the count are changed by three functions, one   *)
(* of them without the lock.                                               *)
CountIsLength == overtaken \/ nodeCount = Cardinality(Members)

(* The list is one ring: each of its links is undone by the other one.     *)
Ring == overtaken \/ \A l \in Members \cup {Head} : blink[flink[l]] = l

(* The list holds a reference to the PDO of each of its nodes, beside the  *)
(* one that goes with the deletion of the PDO; the last reference to a PDO *)
(* outlives its place in the list.                                         *)
MembersReferenced == overtaken \/ \A n \in Members : refs[n] = 2

(* A detached node's PDO is gone once its detacher is through with it.     *)
DetachedIsFreed ==
  clearing = "no" /\ ~overtaken => \A n \in Node :
    pc[n] \in {"link", "added"} /\ n \notin Members /\ (\A d \in Detacher : target[d] # n)
      => refs[n] = 0

(* The handlers look for the unit with the bus locked, and take its node   *)
(* off when they have locked it again: the node is still on the list then, *)
(* and still has the unit number which was asked for, whoever adds nodes,  *)
(* detaches others or stops the bus meanwhile.                             *)
DetachesTheUnit ==
  overtaken \/
  \A d \in Detacher :
    pc[d] = "remove" => target[d] \in Members /\ num[target[d]] = unit[d]

(* A bus which Windows has started, and which it did not stop since, takes *)
(* nodes: what the queries and their cancellations leave is the state from *)
(* before, although only one old state is kept.                            *)
StartedTakesNodes == manager = "started" => state = "Started"

(* The list is a table of unit numbers (module UnitNumbers): a node gets   *)
(* the lowest number that is free, and keeps it, as long as its users do   *)
(* not take a node off twice.                                              *)
Table == INSTANCE UnitNumbers
           WITH unit <- [n \in Members |-> num[n]], misused <- overtaken

ImplementsTable == Table!Spec

(* WvlBusClear: "Safe now, assuming no-one after us goes for the lock";    *)
(* its documentation says that the caller prevents this with the State.    *)
(* Nodes do not get into the list of a bus which was cleared.              *)
ClearedStaysEmpty == clearing = "done" => Members = {}

=============================================================================
