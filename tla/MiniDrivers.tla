----------------------------- MODULE MiniDrivers -----------------------------
(***************************************************************************)
(* The registration list of the mini-drivers, the usage trackers which     *)
(* count their devices, and the unloading of the driver                    *)
(* (src/winvblock/driver.c).                                               *)
(*                                                                         *)
(* A mini-driver registers, has devices created for it by WvDriveDevice or *)
(* by the handler of a device it already has, and is deregistered by its   *)
(* Unload routine.  The internal mini-drivers share the driver object of   *)
(* the main driver and are unloaded by it; each external one is unloaded   *)
(* by Windows.  A usage tracker is a count and an event which are changed  *)
(* one after the other; so are the list and the event which says that it   *)
(* is empty.  One action is one of those changes.                          *)
(***************************************************************************)
EXTENDS Integers, Sequences, FiniteSets, SequencesExt

CONSTANTS
  Internal,  (* the internal mini-drivers                                  *)
  External,  (* the external mini-drivers                                  *)
  Dev,       (* devices                                                    *)
  Main,      (* the unloading of the main driver                           *)
  None       (* NULL                                                       *)

Drv      == Internal \cup External
Unloader == External \cup {Main}

ASSUME NamesAssumption ==
  /\ Internal \cap External = {} /\ Main \notin Drv
  /\ None \notin Drv \cup Dev
  /\ IsFiniteSet(Dev) /\ IsFiniteSet(Drv)

VARIABLES
  list,          (* WvRegisteredMiniDrivers->List                          *)
  lock,          (* WvDriveDevice holds WvRegisteredMiniDrivers->Lock      *)
  at,            (* the place in the list where WvDriveDevice is           *)
  made,          (* the device which the AddDevice routine there creates   *)
  deregistered,  (* WvMiniDriversDeregistered is signalled                 *)
  count,         (* Usage->UsageCount of a mini-driver                     *)
  zero,          (* Usage->ZeroUsage of a mini-driver is signalled         *)
  mem,           (* the memory of a mini-driver                            *)
  reg,           (* how far the registration of a mini-driver has got      *)
  dev,           (* how far the life of a device has got                   *)
  of,            (* the MiniDriver of a device                             *)
  by,            (* the device whose handler creates a device              *)
  unl,           (* how far an unloading has got                           *)
  target         (* the mini-driver an unloading is about                  *)

driving == <<at, made>>
usage   == <<count, zero>>
devices == <<dev, of, by>>
vars    == <<list, lock, driving, deregistered, usage, mem, reg, devices, unl,
             target>>

(* A device between the return of IoCreateDevice and its IoDeleteDevice.   *)
Creating == {"inc", "clear"}
Existing == Creating \cup {"up"}

Init ==
  /\ list = <<>> /\ lock = FALSE /\ at = 0 /\ made = None
  /\ deregistered = TRUE
  /\ count = [d \in Drv |-> 0] /\ zero = [d \in Drv |-> FALSE]
  /\ mem = [d \in Drv |-> "none"] /\ reg = [d \in Drv |-> "idle"]
  /\ dev = [v \in Dev |-> "none"] /\ of = [v \in Dev |-> None]
  /\ by  = [v \in Dev |-> None]
  /\ unl = [u \in Unloader |-> "idle"] /\ target = [u \in Unloader |-> None]

-----------------------------------------------------------------------------
(* WvlRegisterMiniDriver                                                   *)

(* A driver which uses the main driver is loaded after the DriverEntry of  *)
(* that, and not while that unloads.                                       *)
Register(d) ==
  /\ reg[d] = "idle" /\ unl[Main] = "idle"
  /\ d \in External => \A m \in Internal : reg[m] = "done"
  /\ reg' = [reg EXCEPT ![d] = "append"]
  /\ mem' = [mem EXCEPT ![d] = "allocated"]
  /\ zero' = [zero EXCEPT ![d] = TRUE]
  /\ UNCHANGED <<list, lock, driving, deregistered, count, devices, unl, target>>

RegisterAppend(d) ==
  /\ reg[d] = "append" /\ ~lock
  /\ list' = Append(list, d)
  /\ reg' = [reg EXCEPT ![d] = "clear"]
  /\ UNCHANGED <<lock, driving, deregistered, usage, mem, devices, unl, target>>

RegisterClear(d) ==
  /\ reg[d] = "clear"
  /\ deregistered' = FALSE
  /\ reg' = [reg EXCEPT ![d] = "done"]
  /\ UNCHANGED <<list, lock, driving, usage, mem, devices, unl, target>>

-----------------------------------------------------------------------------
(* WvDriveDevice: the list is locked while its mini-drivers are tried      *)

DriveStart ==
  /\ ~lock
  /\ lock' = TRUE /\ at' = 1 /\ made' = None
  /\ UNCHANGED <<list, deregistered, usage, mem, reg, devices, unl, target>>

(* The AddDevice routine has returned, or never created a device.          *)
AddDeviceOver == \A v \in Dev : v = made => dev[v] \notin Creating

(* It does not drive the device, or there is none.                         *)
DriveRefused ==
  /\ lock /\ at <= Len(list) /\ AddDeviceOver
  /\ at' = at + 1 /\ made' = None
  /\ UNCHANGED <<list, lock, deregistered, usage, mem, reg, devices, unl, target>>

(* It creates a device: WvlCreateDevice, up to the usage of its mini-driver*)
DriveCreate(v) ==
  /\ lock /\ at <= Len(list) /\ made = None
  /\ dev[v] = "none"
  /\ dev' = [dev EXCEPT ![v] = "inc"]
  /\ of' = [of EXCEPT ![v] = list[at]]
  /\ made' = v
  /\ UNCHANGED <<list, lock, at, deregistered, usage, mem, reg, by, unl, target>>

(* It drives the device, or the list is at its end.                        *)
DriveEnd ==
  /\ lock /\ (at > Len(list) \/ made # None) /\ AddDeviceOver
  /\ lock' = FALSE
  /\ UNCHANGED <<list, driving, deregistered, usage, mem, reg, devices, unl,
                 target>>

-----------------------------------------------------------------------------
(* A device, from WvlCreateDevice to the end of WvDeviceThread             *)

(* The handler of a device w creates another device for their mini-driver, *)
(* as the main bus does with dummy devices.                                *)
CreateChild(v, w) ==
  /\ dev[v] = "none" /\ dev[w] = "up"
  /\ dev' = [dev EXCEPT ![v] = "inc"]
  /\ of' = [of EXCEPT ![v] = of[w]]
  /\ by' = [by EXCEPT ![v] = w]
  /\ UNCHANGED <<list, lock, driving, deregistered, usage, mem, reg, unl, target>>

(* WvlIncrementResourceUsage, in two steps.                                *)
IncrementUsage(v) ==
  /\ dev[v] = "inc"
  /\ count' = [count EXCEPT ![of[v]] = @ + 1]
  /\ dev' = [dev EXCEPT ![v] = IF count[of[v]] = 0 THEN "clear" ELSE "up"]
  /\ UNCHANGED <<list, lock, driving, deregistered, zero, mem, reg, of, by, unl,
                 target>>

ClearZeroUsage(v) ==
  /\ dev[v] = "clear"
  /\ zero' = [zero EXCEPT ![of[v]] = FALSE]
  /\ dev' = [dev EXCEPT ![v] = "up"]
  /\ UNCHANGED <<list, lock, driving, deregistered, count, mem, reg, of, by, unl,
                 target>>

(* WvDeviceThread: IoDeleteDevice, once no handler of the device runs.     *)
DeleteDevice(v) ==
  /\ dev[v] = "up"
  /\ \A w \in Dev : by[w] = v => dev[w] \notin Creating
  /\ dev' = [dev EXCEPT ![v] = "dec"]
  /\ UNCHANGED <<list, lock, driving, deregistered, usage, mem, reg, of, by, unl,
                 target>>

(* The usage count gets to zero with the decrement.                        *)
(* Mutant: the count before the decrement is looked at. *)
LastUsageBefore(d) == count[d] = 0

LastUsage(d) == count[d] = 1

(* WvlDecrementResourceUsage, in two steps.                                *)
DecrementUsage(v) ==
  /\ dev[v] = "dec"
  /\ count' = [count EXCEPT ![of[v]] = @ - 1]
  /\ dev' = [dev EXCEPT ![v] = IF LastUsage(of[v]) THEN "set" ELSE "gone"]
  /\ UNCHANGED <<list, lock, driving, deregistered, zero, mem, reg, of, by, unl,
                 target>>

SetZeroUsage(v) ==
  /\ dev[v] = "set"
  /\ zero' = [zero EXCEPT ![of[v]] = TRUE]
  /\ dev' = [dev EXCEPT ![v] = "gone"]
  /\ UNCHANGED <<list, lock, driving, deregistered, count, mem, reg, of, by, unl,
                 target>>

-----------------------------------------------------------------------------
(* WvUnloadMiniDriver, with WvlDeregisterMiniDriver as the Unload routine, *)
(* and WvDeregisterMiniDrivers of the main driver                          *)

(* The mini-drivers with the driver object which is unloaded.              *)
Own(u) == IF u = Main THEN Internal ELSE {u}

(* The places of those in the list.                                        *)
OwnPlaces(u) == {i \in 1 .. Len(list) : list[i] \in Own(u)}

(* A driver is unloaded once its DriverEntry is over; the main driver when *)
(* no DriverEntry of a driver which uses it runs.                          *)
UnloadStart(u) ==
  /\ unl[u] = "idle"
  /\ \A d \in Own(u) : reg[d] = "done"
  /\ u = Main => \A d \in Drv : reg[d] \in {"idle", "done"}
  /\ unl' = [unl EXCEPT ![u] = "find"]
  /\ UNCHANGED <<list, lock, driving, deregistered, usage, mem, reg, devices,
                 target>>

UnloadFind(u) ==
  /\ unl[u] = "find" /\ ~lock
  /\ \/ \E i \in OwnPlaces(u) :
          /\ \A j \in OwnPlaces(u) : i <= j
          /\ target' = [target EXCEPT ![u] = list[i]]
          /\ unl' = [unl EXCEPT ![u] = "remove"]
     \/ /\ OwnPlaces(u) = {}
        /\ unl' = [unl EXCEPT ![u] = IF u = Main THEN "waitAll" ELSE "done"]
        /\ UNCHANGED target
  /\ UNCHANGED <<list, lock, driving, deregistered, usage, mem, reg, devices>>

(* Mutant: the list is not locked. *)
DeregisterRemoveUnlocked(u) ==
  /\ unl[u] = "remove"
  /\ list' = RemoveFirst(list, target[u])
  /\ unl' = [unl EXCEPT ![u] = IF Len(list) = 1 THEN "set" ELSE "wait"]
  /\ UNCHANGED <<lock, driving, deregistered, usage, mem, reg, devices, target>>

(* WvlRemoveLockedListLink says whether the list has become empty.         *)
DeregisterRemove(u) ==
  /\ unl[u] = "remove" /\ ~lock
  /\ list' = RemoveFirst(list, target[u])
  /\ unl' = [unl EXCEPT ![u] = IF list' = <<>> THEN "set" ELSE "wait"]
  /\ UNCHANGED <<lock, driving, deregistered, usage, mem, reg, devices, target>>

(* Mutant: nobody is notified. *)
DeregisterKeep(u) ==
  /\ unl[u] = "set"
  /\ unl' = [unl EXCEPT ![u] = "wait"]
  /\ UNCHANGED <<list, lock, driving, deregistered, usage, mem, reg, devices,
                 target>>

DeregisterSet(u) ==
  /\ unl[u] = "set"
  /\ deregistered' = TRUE
  /\ unl' = [unl EXCEPT ![u] = "wait"]
  /\ UNCHANGED <<list, lock, driving, usage, mem, reg, devices, target>>

(* Wait for the zero usage, free the mini-driver; search the list anew.    *)
DeregisterFree(u) ==
  /\ unl[u] = "wait" /\ zero[target[u]]
  /\ mem' = [mem EXCEPT ![target[u]] = "freed"]
  /\ unl' = [unl EXCEPT ![u] = "find"]
  /\ UNCHANGED <<list, lock, driving, deregistered, usage, reg, devices, target>>

UnloadWaited ==
  /\ unl[Main] = "waitAll" /\ deregistered
  /\ unl' = [unl EXCEPT ![Main] = "done"]
  /\ UNCHANGED <<list, lock, driving, deregistered, usage, mem, reg, devices,
                 target>>

-----------------------------------------------------------------------------
Registration(d) == Register(d) \/ RegisterAppend(d) \/ RegisterClear(d)

TrackUsage(v) ==
  IncrementUsage(v) \/ ClearZeroUsage(v) \/ DecrementUsage(v) \/ SetZeroUsage(v)

Unloading(u) ==
  \/ UnloadFind(u) \/ DeregisterRemove(u) \/ DeregisterSet(u)
  \/ DeregisterFree(u) \/ (u = Main /\ UnloadWaited)

Next ==
  \/ \E d \in Drv : Registration(d)
  \/ DriveStart \/ DriveRefused \/ DriveEnd \/ \E v \in Dev : DriveCreate(v)
  \/ \E v \in Dev : TrackUsage(v) \/ DeleteDevice(v) \/ \E w \in Dev : CreateChild(v, w)
  \/ \E u \in Unloader : UnloadStart(u) \/ Unloading(u)

(* What has begun goes on; the list's lock is handed over fairly.  Nobody  *)
(* has to register, to unload, to ask for a device or to delete one.       *)
Fairness ==
  /\ \A d \in Drv : SF_vars(RegisterAppend(d)) /\ WF_vars(RegisterClear(d))
  /\ WF_vars(DriveRefused) /\ WF_vars(DriveEnd)
  /\ \A v \in Dev : WF_vars(TrackUsage(v))
  /\ \A u \in Unloader : SF_vars(Unloading(u))

Spec     == Init /\ [][Next]_vars
FairSpec == Spec /\ Fairness

-----------------------------------------------------------------------------
TypeOK ==
  /\ list \in Seq(Drv) /\ lock \in BOOLEAN
  /\ at \in Nat /\ made \in Dev \cup {None}
  /\ deregistered \in BOOLEAN
  /\ count \in [Drv -> Nat] /\ zero \in [Drv -> BOOLEAN]
  /\ mem \in [Drv -> {"none", "allocated", "freed"}]
  /\ reg \in [Drv -> {"idle", "append", "clear", "done"}]
  /\ dev \in [Dev -> Existing \cup {"none", "dec", "set", "gone"}]
  /\ of \in [Dev -> Drv \cup {None}] /\ by \in [Dev -> Dev \cup {None}]
  /\ unl \in [Unloader -> {"idle", "find", "remove", "set", "wait", "waitAll",
                           "done"}]
  /\ target \in [Unloader -> Drv \cup {None}]

(* The comment in WvDriveDevice: "We need to own the registered            *)
(* mini-drivers list until we've finished working with it".  A mini-driver *)
(* whose AddDevice routine runs is registered, and its memory is there.    *)
DrivenIsRegistered ==
  lock /\ made # None /\ ~AddDeviceOver =>
    /\ mem[of[made]] = "allocated"
    /\ \E i \in 1 .. Len(list) : list[i] = of[made]

(* The event of a usage tracker cannot stay clear for good: it is set when *)
(* the count is zero and nobody is about to set or to clear it.  (It may   *)
(* also be set when the count is not zero: see StallsUntilDeleted.)        *)
UnusedIsSignalled ==
  \A d \in Drv :
    mem[d] = "allocated" /\ count[d] = 0 =>
      zero[d] \/ \E v \in Dev : of[v] = d /\ dev[v] = "set"

(* The list cannot stay empty without the event which says so.             *)
EmptyIsSignalled ==
  list = <<>> =>
    \/ deregistered
    \/ \E u \in Unloader : unl[u] = "set"
    \/ \E d \in Drv : reg[d] = "clear"

(* The comment of WvDeregisterMiniDrivers: "Unload all internal            *)
(* mini-drivers and wait for all mini-drivers to be deregistered".  The    *)
(* event alone does not ensure it (a removal and a registration can touch  *)
(* it in the wrong order); that internal mini-drivers stay in the list     *)
(* until the main driver is unloaded does.                                 *)
AllDeregistered == unl[Main] = "done" => list = <<>>

Under(u) == unl[u] \notin {"idle", "done"}

(* From wherever an unloading of a mini-driver is, it ends, unless one of  *)
(* its devices still exists: it is never left waiting for an event which   *)
(* was lost.                                                               *)
UnloadEnds ==
  \A u \in External :
    Under(u) ~> unl[u] = "done" \/ \E v \in Dev : of[v] = u /\ dev[v] = "up"

(* The same of the unloading of the main driver, unless it has devices or  *)
(* an external mini-driver is registered.  Both hold again and again if    *)
(* the unloading does not end, since it is under way all the time.         *)
MainUnloadEnds ==
  Under(Main) ~>
    \/ unl[Main] = "done"
    \/ \E v \in Dev : of[v] \in Internal /\ dev[v] = "up"
    \/ \E i \in 1 .. Len(list) : list[i] \in External

(* The comment in WvDriveDevice: WvlDeregisterMiniDriver "will stall until *)
(* all of the mini-driver's devices have been deleted".                    *)
StallsUntilDeleted ==
  \A d \in Drv, v \in Dev : mem[d] = "freed" /\ of[v] = d => dev[v] \notin Existing

=============================================================================
