------------------------------ MODULE MainBus ------------------------------
(***************************************************************************)
(* The main bus (src/winvblock/mainbus): its creation by whoever drives a  *)
(* PDO with it, the list of its child devices, the references that answers *)
(* to IRP_MN_QUERY_DEVICE_RELATIONS carry, its PnP states with the holding *)
(* of IRPs, and its removal; with the attachment and the assignment of     *)
(* devices and the merging of relations of src/winvblock/driver.c.         *)
(*                                                                         *)
(* The list is touched by the thread of the bus device only, so a function *)
(* which is called in that thread is one action (DeviceThread has the      *)
(* queue in front of it).  The creation and what a caller does once the    *)
(* thread has answered run in other threads and are steps of their own.    *)
(***************************************************************************)
EXTENDS Integers, Sequences, FiniteSets, SequencesExt

CONSTANTS
  Child,      (* the child devices                                         *)
  Old,        (* those without a mini-driver, which are nodes of WvBus too *)
  Boot,       (* those of Old which are boot-time devices                  *)
  Probed,     (* those which the initial probe callbacks add               *)
  Requeued,   (* those whose request is held, then handled by the thread   *)
  Higher,     (* the child of a driver above, in its own relations         *)
  Caller,     (* the threads which drive a PDO with the bus                *)
  Entry,      (* the one of Caller which runs WvMainBusDriverEntry         *)
  MaxBuses,   (* bound: how often the bus is created                       *)
  MaxAdds,    (* bound: how often children are created                     *)
  None

Object == Child \cup {Higher}

ASSUME NamesAssumption ==
  /\ IsFiniteSet(Child) /\ Higher \notin Child
  /\ None \notin Object \cup Seq(Object)
  /\ Old \subseteq Child /\ Boot \subseteq Old
  /\ Probed \subseteq Child \ Old /\ Requeued \subseteq Child \ (Old \cup Probed)
ASSUME CallersAssumption == IsFiniteSet(Caller) /\ Entry \in Caller
ASSUME BoundsAssumption == MaxBuses \in Nat /\ MaxAdds \in Nat

VARIABLES
  pc,         (* how far each caller has got in WvMainBusDriveDevice, and  *)
              (* Entry in WvMainBusDriverEntry around it                   *)
  creators,   (* WvMainBusCreators                                         *)
  fdo,        (* WvBus.Fdo: "none", "made", "attached", "driven", and      *)
              (* "deleted" once the thread of the device was told to end   *)
  symlink,    (* whether the DosDevice link exists                         *)
  buses,      (* how often an FDO was created                              *)
  leaving,    (* the removal has yet to decrement the creators             *)
  state, old, (* WvBus.State, WvBus.OldState                               *)
  held,       (* CvWvMainBusFlagIrpsHeld                                   *)
  manager,    (* the state of the bus device as Windows knows it           *)
  relations,  (* bus->BusRelations: None, or the children                  *)
  assigned,   (* the children whose ParentBusDeviceObject is the bus       *)
  usage,      (* the usages of the bus device its children hold            *)
  nodes,      (* the nodes of WvBus                                        *)
  half,       (* those linked or unlinked, whose place in the relations    *)
              (* has yet to follow                                         *)
  devices,    (* the child devices which exist and were not deleted        *)
  adds,       (* how many were created                                     *)
  refs,       (* the references held for answers, of each object           *)
  answer,     (* the relations Windows has been given, or None             *)
  telling,    (* the callers' calls of IoInvalidateDeviceRelations to come *)
  invalid,    (* Windows was told that the relations have changed          *)
  unanswered, (* the last query of the relations has failed               *)
  known,      (* the children Windows knows of                             *)
  crashed     (* the thread has followed a null pointer, and the machine   *)
              (* has stopped                                               *)

driving == <<pc, creators, fdo, symlink, buses, leaving>>
pnp     == <<state, old, held, manager>>
kids    == <<relations, assigned, usage, nodes, half,
             devices, adds>>
told    == <<telling, invalid>>
asked   == <<refs, answer, unanswered, known, crashed>>
vars    == <<driving, pnp, kids, told, asked>>

Listed == IF relations = None THEN {} ELSE ToSet(relations)
Alive  == fdo \in {"driven", "deleted"}   (* the thread takes work items     *)

Init ==
  /\ pc = [p \in Caller |-> IF p = Entry THEN "load" ELSE "idle"]
  /\ creators = 0 /\ fdo = "none" /\ buses = 0
  /\ symlink = FALSE /\ leaving = FALSE
  /\ state = "NotStarted" /\ old = "NotStarted" /\ held = FALSE
  /\ manager = "absent"
  /\ relations = None /\ assigned = {} /\ usage = 0
  /\ nodes = {} /\ half = {} /\ devices = {} /\ adds = 0
  /\ refs = [o \in Object |-> 0] /\ answer = None
  /\ telling = 0 /\ invalid = FALSE /\ unanswered = FALSE /\ known = {}
  /\ crashed = FALSE

-----------------------------------------------------------------------------
(* WvMainBusDriverEntry and WvMainBusEstablish, up to the call of          *)
(* WvMainBusDriveDevice.  The mini-driver is registered, and from then on  *)
(* Windows can offer PDOs.  The Registry has PdoDone, and Entry is done    *)
(* ("idle"); or IoReportDetectedDevice makes a PDO ("drive"), or this or   *)
(* the registration fails, and nothing is left registered ("failed").      *)
EntryStart ==
  /\ pc[Entry] = "load"
  /\ \E to \in {"idle", "drive", "failed"} : pc' = [pc EXCEPT ![Entry] = to]
  /\ UNCHANGED <<creators, fdo, symlink, buses, leaving, pnp, kids, told, asked>>

(* Who may offer a PDO.  Windows does as long as the mini-driver is        *)
(* registered, Entry does once.                                            *)
Offers(p) ==
  /\ pc[p] = (IF p = Entry THEN "drive" ELSE "idle")
  /\ pc[Entry] \notin {"load", "failed"}

-----------------------------------------------------------------------------
(* WvMainBusDriveDevice, called by WvMainBusEstablish or by Windows        *)

(* Mutant: the count of those at work is not looked at.                    *)
DriveEnterUnchecked(p, ours) ==
  /\ Offers(p) /\ buses < MaxBuses
  /\ creators' = creators + 1
  /\ pc' = [pc EXCEPT ![p] = IF ours THEN "undo" ELSE "create"]
  /\ UNCHANGED <<fdo, symlink, buses, leaving, pnp, kids, told, asked>>

(* ours: the PDO is one of this driver's own.                              *)
DriveEnter(p, ours) ==
  /\ Offers(p) /\ buses < MaxBuses
  /\ creators' = creators + 1
  /\ pc' = [pc EXCEPT ![p] = IF creators + 1 > 1 \/ ours THEN "undo" ELSE "create"]
  /\ UNCHANGED <<fdo, symlink, buses, leaving, pnp, kids, told, asked>>

(* err_params, where every label ends.  With a failure, Entry deletes its  *)
(* PDO and deregisters the mini-driver.  But the status after a failure to *)
(* attach is still that of the creation ("lost"): the caller is told that  *)
(* the PDO is driven, and Entry keeps the mini-driver, and invalidates the *)
(* relations of a PDO which has none.                                      *)
DriveUndone(p) ==
  /\ pc[p] \in {"undo", "lost"}
  /\ creators' = creators - 1
  /\ pc' = [pc EXCEPT ![p] = IF p = Entry /\ pc[p] = "undo" THEN "failed" ELSE "idle"]
  /\ UNCHANGED <<fdo, symlink, buses, leaving, pnp, kids, told, asked>>

(* WvlBusInit empties the list of nodes, and the states.  The creation     *)
(* fails for want of memory, or because the device of an earlier bus still *)
(* has the name.                                                           *)
DriveCreate(p) ==
  /\ pc[p] = "create"
  /\ nodes' = {} /\ state' = "NotStarted" /\ old' = "NotStarted"
  /\ \/ /\ fdo = "none"
        /\ fdo' = "made" /\ buses' = buses + 1
        /\ held' = TRUE /\ relations' = None
        /\ pc' = [pc EXCEPT ![p] = "attach"]
     \/ /\ pc' = [pc EXCEPT ![p] = "undo"]
        /\ UNCHANGED <<fdo, buses, held, relations>>
  /\ UNCHANGED <<creators, symlink, leaving, manager, assigned, usage,
                 half, devices, adds, told, asked>>

(* WvlAttachDeviceToDeviceStack; its failure deletes the device (err_lower)*)
DriveAttach(p) ==
  /\ pc[p] = "attach"
  /\ \/ /\ fdo' = "attached" /\ state' = "Started"
        /\ pc' = [pc EXCEPT ![p] = "link"]
     \/ /\ fdo' = "deleted" /\ UNCHANGED state
        /\ pc' = [pc EXCEPT ![p] = "lost"]
  /\ UNCHANGED <<creators, symlink, buses, leaving, old, held, manager, kids,
                 told, asked>>

(* IoCreateSymbolicLink; its failure detaches and deletes the device       *)
(* (err_dos_symlink).  Entry goes on to invalidate the relations.          *)
DriveLink(p) ==
  /\ pc[p] = "link"
  /\ \/ /\ symlink' = TRUE /\ fdo' = "driven" /\ manager' = "added"
        /\ pc' = [pc EXCEPT ![p] = "idle"]
        /\ telling' = telling + (IF p = Entry THEN 1 ELSE 0)
        /\ UNCHANGED state
     \/ /\ fdo' = "deleted" /\ state' = "NotStarted"
        /\ pc' = [pc EXCEPT ![p] = "undo"]
        /\ UNCHANGED <<symlink, manager, telling>>
  /\ UNCHANGED <<creators, buses, leaving, old, held, kids, invalid, asked>>

(* The thread of a deleted device has ended and IoDeleteDevice has freed   *)
(* the name.                                                               *)
BusGone ==
  /\ fdo = "deleted" /\ usage = 0 /\ ~leaving
  /\ fdo' = "none"
  /\ UNCHANGED <<pc, creators, symlink, buses, leaving, pnp, kids, told, asked>>

-----------------------------------------------------------------------------
(* The children.  Each function yields the next value of a part of the     *)
(* state, so that one thread function can be made of several.              *)

(* The loop of WvMainBusRemoveDevice, which moves up what follows.         *)
Without(c, s) == RemoveFirst(s, c)

(* WvMainBusInitialBusRelations, when there is no list yet: each           *)
(* registered callback adds its child by a nested call, or fails to.       *)
Probes == IF relations = None THEN SUBSET (Probed \ devices) ELSE {{}}

(* The list after the probe, which was due if there was none before.       *)
Begun(T) == IF relations = None THEN SetToSeq(T) ELSE relations

(* WvlAssignDeviceToBus: the children without a mini-driver are not.       *)
Assign(S) ==
  /\ assigned' = assigned \cup (S \ Old)
  /\ usage' = usage + Cardinality(S \ Old)

(* WvMainBusAddDevice, when the probe has added T.                         *)
AddTo(c, T) ==
  /\ relations' = Append(Begun(T), c)
  /\ Assign(T \cup {c})

(* Mutant: the error labels leave the child assigned to the bus.           *)
AddFailsAssigned(c, T) ==
  /\ relations' = Begun(T)
  /\ Assign(T \cup {c})

(* err_dev_relations: no memory for the longer list, and the assignment is *)
(* undone; but the probe has taken place.                                  *)
AddFails(c, T) ==
  /\ relations' = Begun(T)
  /\ Assign(T)

(* err_wait and err_bus_relations: no memory for a list to begin with.     *)
NotBegun == UNCHANGED <<relations, assigned, usage>>

(* Mutant: the relations are not invalidated.                              *)
TellNobody == telling' = telling

(* What follows in WvlAddDeviceToMainBus and WvlRemoveDeviceFromMainBus    *)
(* when the thread has answered with success and the caller is another.    *)
Tell == telling' = telling + 1

(* WvDummyAdd and WvlAddDeviceToMainBus, for WvDummyIoctl and the buses of *)
(* AoE and HTTPDisk.  What the latter returns is not looked at.            *)
AddDummy(c) ==
  /\ Alive /\ c \notin Old \cup Requeued \cup Probed \cup devices /\ adds < MaxAdds
  /\ adds' = adds + 1
  /\ \/ \E T \in Probes :
          /\ devices' = devices \cup T \cup {c}
          /\ (AddTo(c, T) /\ Tell) \/ (AddFails(c, T) /\ UNCHANGED telling)
     \/ /\ NotBegun /\ devices' = devices \cup {c}
        /\ UNCHANGED telling
  /\ UNCHANGED <<driving, pnp, nodes, half, invalid, asked>>

(* The same request, when it was held: the thread of the bus handles it,   *)
(* and the relations are not invalidated.                                  *)
AddDummyInThread(c) ==
  /\ fdo = "driven" /\ ~held /\ c \in Requeued \ devices /\ adds < MaxAdds
  /\ adds' = adds + 1
  /\ \/ \E T \in Probes :
          /\ devices' = devices \cup T \cup {c}
          /\ AddTo(c, T) \/ AddFails(c, T)
     \/ NotBegun /\ devices' = devices \cup {c}
  /\ UNCHANGED <<driving, pnp, nodes, half, told, asked>>

(* WvBusAddDev: a device without a mini-driver becomes a node of WvBus,    *)
(* when the bus is started, and the relations are invalidated; then the    *)
(* thread is called, and they are invalidated again.  Failures are not     *)
(* looked at.                                                              *)
LinkOld(c) ==
  /\ fdo = "driven" /\ c \in Old \ devices /\ adds < MaxAdds
  /\ adds' = adds + 1 /\ devices' = devices \cup {c}
  /\ IF state = "Started"
     THEN nodes' = nodes \cup {c} /\ half' = half \cup {c} /\ invalid' = TRUE
     ELSE UNCHANGED <<nodes, half, invalid>>
  /\ UNCHANGED <<driving, pnp, relations, assigned, usage, telling,
                 asked>>

AddOld(c) ==
  /\ Alive /\ c \in half \cap nodes
  /\ half' = half \ {c}
  /\ \/ \E T \in Probes :
          /\ devices' = devices \cup T
          /\ (AddTo(c, T) /\ Tell) \/ (AddFails(c, T) /\ UNCHANGED telling)
     \/ NotBegun /\ UNCHANGED <<devices, telling>>
  /\ UNCHANGED <<driving, pnp, nodes, adds, invalid, asked>>

(* IoInvalidateDeviceRelations, by the caller of the thread.               *)
Invalidate ==
  /\ telling > 0
  /\ telling' = telling - 1 /\ invalid' = TRUE
  /\ UNCHANGED <<driving, pnp, kids, asked>>

(* The test of the buffer of IOCTL_FILE_DETACH: InputBufferLength has to   *)
(* be less than the size of a unit number.                                 *)
BufferAccepted(large) == ~large

(* What IOCTL_FILE_DETACH may name: a node which is no boot-time device.   *)
Detachable(c) == fdo = "driven" /\ ~held /\ c \in nodes \ (Boot \cup half)

(* WvMainBusDeviceControlDetach finds the node; WvBusRemoveDev unlinks it, *)
(* and the relations are invalidated before the child leaves them.  A      *)
(* request whose buffer is not accepted changes nothing.                   *)
DetachOld(c, large) ==
  /\ Detachable(c) /\ BufferAccepted(large)
  /\ nodes' = nodes \ {c} /\ half' = half \cup {c} /\ invalid' = TRUE
  /\ UNCHANGED <<driving, pnp, relations, assigned, usage, devices, adds,
                 telling, asked>>

(* WvMainBusRemoveDevice of a child which was never assigned: it leaves    *)
(* the list, but the function reports a failure, and nobody is told.       *)
RemoveOld(c) ==
  /\ Alive /\ c \in half \ nodes
  /\ half' = half \ {c}
  /\ relations' = IF relations = None THEN None ELSE Without(c, relations)
  /\ UNCHANGED <<driving, pnp, assigned, usage, nodes, devices, adds,
                 told, asked>>

(* WvlAssignDeviceToBus with no bus.                                       *)
Unassign(S) ==
  /\ assigned' = assigned \ S
  /\ usage' = usage - Cardinality(S \cap assigned)

(* WvlRemoveDeviceFromMainBus for a child of a mini-driver, by its owner,  *)
(* with WvlDeleteDevice.                                                   *)
RemoveChild(c) ==
  /\ Alive /\ c \in assigned
  /\ relations' = Without(c, relations) /\ Unassign({c})
  /\ devices' = devices \ {c}
  /\ Tell
  /\ UNCHANGED <<driving, pnp, nodes, half, adds, invalid, asked>>

-----------------------------------------------------------------------------
(* IRP_MN_QUERY_DEVICE_RELATIONS, in the thread                            *)

Present == manager \notin {"absent", "gone"}
CanQuery == fdo = "driven" /\ Present /\ answer = None

Referenced(r, seq)   == [o \in Object |-> r[o] + (IF o \in ToSet(seq) THEN 1 ELSE 0)]
Dereferenced(r, seq) == [o \in Object |-> r[o] - (IF o \in ToSet(seq) THEN 1 ELSE 0)]

(* WvlMergeDeviceRelations: a copy of both lists, for which there may be   *)
(* no memory, or the list from above when there is nothing to add to it.   *)
(* (An empty list from above is not told from none.)                       *)
WvlMergeDeviceRelations(own, above) == own \o above

NeedsCopy(own, above) == own # <<>> \/ above = <<>>

(* The probe which a query makes when there is no list yet.                *)
Probe(T) ==
  /\ CanQuery /\ T \in Probes
  /\ relations' = Begun(T) /\ Assign(T) /\ devices' = devices \cup T
  /\ invalid' = FALSE
  /\ UNCHANGED <<driving, pnp, nodes, half, adds, telling, known, crashed>>

(* above: what a driver above has put into the query, and has referenced.  *)
Query(above, T) ==
  /\ Probe(T)
  /\ answer' = WvlMergeDeviceRelations(Begun(T), above)
  /\ refs' = Referenced(Referenced(refs, above), Begun(T))
  /\ unanswered' = FALSE

(* Mutant: what came from above is freed, but stays referenced.            *)
FreedFromAbove(above) == Referenced(refs, above)

(* What came from above is dereferenced and freed.                         *)
FromAbove(above) == Dereferenced(Referenced(refs, above), above)

(* No memory for the copy.  Windows does not ask again by itself.          *)
QueryFails(above, T) ==
  /\ Probe(T) /\ NeedsCopy(Begun(T), above)
  /\ refs' = FromAbove(above)
  /\ unanswered' = TRUE
  /\ UNCHANGED answer

(* No memory for a list to begin with.  The query is completed, but the    *)
(* handler goes on: it merges no list with that from above, to reference   *)
(* the entries of no list, or to complete the query a second time.         *)
QueryCrashes ==
  /\ CanQuery /\ relations = None
  /\ invalid' = FALSE /\ unanswered' = TRUE /\ crashed' = TRUE
  /\ UNCHANGED <<driving, pnp, kids, telling, refs, answer, known>>

(* Windows compares the answer with what it knows, and gives back the      *)
(* references.                                                             *)
Consume ==
  /\ answer # None
  /\ known' = ToSet(answer) \cap Child
  /\ refs' = Dereferenced(refs, answer)
  /\ answer' = None
  /\ UNCHANGED <<driving, pnp, kids, told, unanswered, crashed>>

-----------------------------------------------------------------------------
(* The other PnP IRPs, in the thread.  Windows chooses them by the state   *)
(* it believes the device to be in.                                        *)

Changes(from, to, state1, old1, held1) ==
  /\ fdo = "driven" /\ manager \in from
  /\ manager' = to /\ state' = state1 /\ old' = old1 /\ held' = held1
  /\ UNCHANGED <<driving, kids, told, asked>>

StartDevice == Changes({"added", "stopped"}, "started", "Started", state, FALSE)

(* The lower device fails to start; the IRPs are no longer held all the    *)
(* same.                                                                   *)
StartFails ==
  Changes({"added", "stopped"}, "failed", state, old, FALSE)

QueryStop  == Changes({"started"}, "stopping", "StopPending", state, TRUE)
CancelStop == Changes({"stopping"}, "started", old, old, FALSE)
Stop       == Changes({"stopping"}, "stopped", "Stopped", state, TRUE)

(* Mutant: the query for the removal does not hold the IRPs.               *)
QueryRemoveOpen ==
  Changes({"started"}, "removing", "RemovePending", state, held)

QueryRemove ==
  Changes({"started"}, "removing", "RemovePending", state, TRUE)

CancelRemove == Changes({"removing"}, "started", old, old, FALSE)

SurpriseRemoval ==
  Changes({"started", "stopping", "stopped", "failed"}, "surprised",
          "SurpriseRemovePending", state, TRUE)

(* IRP_MN_REMOVE_DEVICE: each child is removed, and deleted if it has a    *)
(* mini-driver, the list freed; the FDO is detached and deleted.  The      *)
(* nodes of WvBus stay.  Windows forgets the children.                     *)
RemoveDevice ==
  /\ fdo = "driven" /\ manager \in {"removing", "surprised", "failed", "added"}
  /\ symlink' = FALSE /\ held' = TRUE
  /\ relations' = None /\ Unassign(assigned)
  /\ devices' = devices \ assigned
  /\ fdo' = "deleted" /\ leaving' = TRUE /\ manager' = "gone"
  /\ known' = {}
  /\ UNCHANGED <<pc, creators, buses, state, old, nodes, half, adds, told,
                 refs, answer, unanswered, crashed>>

(* The end of the handler, where the code has a note about the race.       *)
RemoveCounted ==
  /\ leaving
  /\ leaving' = FALSE /\ creators' = creators - 1
  /\ UNCHANGED <<pc, fdo, symlink, buses, pnp, kids, told, asked>>

-----------------------------------------------------------------------------
Drive ==
  \/ EntryStart
  \/ \E p \in Caller :
       \/ \E ours \in BOOLEAN : (p = Entry => ~ours) /\ DriveEnter(p, ours)
       \/ DriveUndone(p) \/ DriveCreate(p) \/ DriveAttach(p) \/ DriveLink(p)

Children ==
  \/ \E c \in Child : \/ AddDummy(c) \/ AddDummyInThread(c) \/ RemoveChild(c)
  \/ \E c \in Old : \/ LinkOld(c) \/ AddOld(c) \/ RemoveOld(c)
                    \/ \E large \in BOOLEAN : DetachOld(c, large)
  \/ Invalidate

AnyQuery ==
  \/ \E above \in {<<>>, <<Higher>>}, T \in SUBSET Probed :
       Query(above, T) \/ QueryFails(above, T)
  \/ QueryCrashes

PnP == \/ StartDevice \/ StartFails \/ QueryStop \/ CancelStop \/ Stop
       \/ QueryRemove \/ CancelRemove \/ SurpriseRemoval
       \/ RemoveDevice \/ RemoveCounted

Next == ~crashed /\ (Drive \/ BusGone \/ Children \/ AnyQuery \/ Consume \/ PnP)

Spec == Init /\ [][Next]_vars

(* A caller goes on after the thread has answered.  Windows asks for the   *)
(* relations once they were invalidated, and takes what it has got.        *)
Fairness ==
  /\ WF_vars(~crashed /\ Invalidate) /\ WF_vars(~crashed /\ Consume)
  /\ WF_vars(~crashed /\ invalid /\ AnyQuery)
FairSpec == Spec /\ Fairness

-----------------------------------------------------------------------------
(* The answers which are with Windows carry one reference to each device   *)
(* in them, and no other references are left behind: not by a query which  *)
(* finds no memory for its answer, not by a child which was removed        *)
(* meanwhile.  (Of a query which finds none for the first list nothing is  *)
(* said but that the machine stops.)                                       *)
ReferencesMatch ==
  \A o \in Object :
    refs[o] = Cardinality({i \in DOMAIN (IF answer = None THEN <<>> ELSE answer) :
                             answer[i] = o})

(* The list of children, their assignment to the bus and the usages they   *)
(* hold agree: no child is listed twice, none is lost by the probe within  *)
(* an addition, none stays assigned after a failure or the removal of the  *)
(* bus.                                                                    *)
ListedIsAssigned ==
  /\ assigned = Listed \ Old
  /\ relations # None => Len(relations) = Cardinality(Listed)
  /\ usage = Cardinality(assigned)

(* WvMainBusCreators counts those who are creating the bus and the bus     *)
(* itself until the end of its removal, and so lets at most one thread     *)
(* initialize WvBus, and none while there is a bus.                        *)
OneBus ==
  LET busy == {p \in Caller : pc[p] \in {"create", "attach", "link"}}
  IN  /\ creators = Cardinality(busy \cup {p \in Caller : pc[p] \in {"undo", "lost"}})
                    + (IF fdo = "driven" \/ leaving THEN 1 ELSE 0)
      /\ Cardinality(busy) + (IF fdo = "driven" THEN 1 ELSE 0) <= 1

(* Requests other than PnP are let through to a started bus only, unless   *)
(* it has failed to start.                                                 *)
HeldUnlessStarted ==
  fdo = "driven" /\ ~held /\ manager # "failed" => state = "Started"

(* A child which was added outside the thread of the bus becomes known to  *)
(* Windows, as long as it and the bus stay and no query fails.             *)
AddedIsReported ==
  \A c \in Child \ (Requeued \cup Probed) :
    c \in Listed ~> \/ c \in known \/ c \notin Listed
                    \/ fdo # "driven" \/ unanswered

(* What util/winvblk.c says of "detach": it detaches a disk.  A request    *)
(* which names a disk that can be detached, with the unit number in its    *)
(* buffer, is carried out.                                                 *)
RequestedIsDetached ==
  \A c \in Old : Detachable(c) => ENABLED DetachOld(c, TRUE)
=============================================================================
