------------------------- MODULE MiniDrivers_proofs -------------------------
(***************************************************************************)
(* Proofs about MiniDrivers, for every set of mini-drivers and of devices. *)
(*                                                                         *)
(* The inductive invariant has three parts next to the types: Registered   *)
(* says which mini-drivers are in the list, Driven where WvDriveDevice is  *)
(* in it, and Counting what the usage counts count.                        *)
(*                                                                         *)
(* Below them: proofs about BootDisks, the mini-drivers of the boot        *)
(* loader's disks, for every chain of hooks; ChainInv is their invariant.  *)
(***************************************************************************)
EXTENDS MiniDrivers, BootDisks, ListLemmas

(* A device between the increment of its mini-driver's count and the       *)
(* decrement.                                                              *)
Using(d) == {v \in Dev : of[v] = d /\ dev[v] \in {"clear", "up", "dec"}}

(* A mini-driver is in the list once, from the second step of its          *)
(* registration to the second of its deregistration, and its memory is     *)
(* there until after that.  An unloading is about its own mini-drivers,    *)
(* which are all registered when it begins.                                *)
Registered ==
  /\ Distinct(list)
  /\ \A d \in Drv : d \in ToSet(list) => /\ reg[d] \in {"clear", "done"}
                                        /\ mem[d] = "allocated"
  /\ \A d \in Drv : /\ reg[d] = "append" => mem[d] = "allocated"
                    /\ reg[d] = "clear" => d \in ToSet(list)
  /\ \A u \in Unloader :
       /\ unl[u] # "idle" => \A d \in Own(u) : reg[d] = "done"
       /\ unl[u] \in {"remove", "set", "wait"} => target[u] \in Own(u)
       /\ unl[u] \in {"set", "wait"} => target[u] \notin ToSet(list)

(* While the list is locked, the device which an AddDevice routine creates *)
(* is of the mini-driver at the place where WvDriveDevice is.              *)
Driven ==
  /\ lock => at >= 1
  /\ made # None => dev[made] # "none"
  /\ lock /\ ~AddDeviceOver => at \in 1 .. Len(list) /\ list[at] = of[made]

(* The count of a mini-driver is that of its devices in use.               *)
Counting ==
  /\ \A d \in Drv : count[d] = Cardinality(Using(d))
  /\ \A v \in Dev : dev[v] # "none" => of[v] \in Drv

IInv == TypeOK /\ Registered /\ Driven /\ Counting

-----------------------------------------------------------------------------
(* The mini-drivers of different unloadings are different.                 *)
LEMMA Owners ==
  /\ IsFiniteSet(Dev) /\ None \notin Dev /\ None \notin Drv
  /\ \A u \in Unloader : Own(u) \subseteq Drv
  /\ \A u, w \in Unloader : u # w => Own(u) \cap Own(w) = {}
BY NamesAssumption DEF Own, Unloader, Drv

(* The devices of a mini-driver in use are finitely many.                  *)
LEMMA UsingCounts ==
  ASSUME NEW d
  PROVE  /\ IsFiniteSet(Using(d)) /\ Cardinality(Using(d)) \in Nat
         /\ Cardinality(Using(d)) = 0 <=> Using(d) = {}
<1>1. Using(d) \in SUBSET Dev
  BY DEF Using
<1> QED
  BY <1>1, Owners, FS_Subset, FS_CardinalityType, FS_EmptySet

LEMMA InitIInv == Init => IInv
<1> SUFFICES ASSUME Init PROVE IInv
  OBVIOUS
<1>1. TypeOK
  <2>1. list \in Seq(Drv)
    BY EmptySeq DEF Init
  <2> QED
    BY <2>1 DEF Init, TypeOK, Existing, Creating
<1>2. Registered
  BY NoElements DEF Init, Registered
<1>3. Driven
  BY DEF Init, Driven
<1>4. \A d : Using(d) = {}
  BY DEF Init, Using
<1>5. Counting
  BY <1>4, UsingCounts DEF Init, Counting
<1> QED
  BY <1>1, <1>2, <1>3, <1>5 DEF IInv

(* A step which leaves the list, the registrations and the unloadings, or  *)
(* the devices, alone.                                                     *)
LEMMA KeepsRegistered ==
  ASSUME Registered, UNCHANGED <<list, mem, reg, unl, target>>
  PROVE  Registered'
BY DEF Registered

LEMMA KeepsCounting ==
  ASSUME Counting, UNCHANGED <<count, dev, of>>
  PROVE  Counting'
BY DEF Counting, Using

LEMMA KeepsDriven ==
  ASSUME Driven, UNCHANGED <<list, lock, at, made, dev, of>>
  PROVE  Driven'
BY DEF Driven, AddDeviceOver

-----------------------------------------------------------------------------
(* Registration.                                                           *)
LEMMA StepRegister ==
  ASSUME IInv, NEW d \in Drv, Register(d)
  PROVE  IInv'
<1>1. TypeOK'
  BY DEF IInv, TypeOK, Register, driving, devices
<1>2. Registered'
  <2>1. d \notin ToSet(list) /\ \A u \in Unloader : d \in Own(u) => unl[u] = "idle"
    BY DEF IInv, Registered, Register
  <2> QED
    BY <2>1, Owners DEF IInv, TypeOK, Registered, Register
<1>3. Driven' /\ Counting'
  BY KeepsDriven, KeepsCounting DEF IInv, Register, driving, devices
<1> QED
  BY <1>1, <1>2, <1>3 DEF IInv

LEMMA StepRegisterAppend ==
  ASSUME IInv, NEW d \in Drv, RegisterAppend(d)
  PROVE  IInv'
<1>1. /\ list \in Seq(Drv) /\ list' = Append(list, d) /\ d \notin ToSet(list)
      /\ Distinct(list)
  BY DEF IInv, TypeOK, Registered, RegisterAppend
<1>2. /\ list' \in Seq(Drv) /\ Distinct(list') /\ ToSet(list') = ToSet(list) \cup {d}
  BY <1>1, AppendElements
<1>3. TypeOK'
  BY <1>2 DEF IInv, TypeOK, RegisterAppend, driving, usage, devices
<1>4. Registered'
  <2>1. \A u \in Unloader : d \in Own(u) => unl[u] = "idle"
    BY DEF IInv, Registered, RegisterAppend
  <2> QED
    BY <1>2, <2>1, Owners DEF IInv, TypeOK, Registered, RegisterAppend
<1>5. Driven' /\ Counting'
  <2>1. ~lock /\ ~lock'
    BY DEF RegisterAppend
  <2> QED
    BY <2>1, KeepsCounting
    DEF IInv, Driven, RegisterAppend, driving, usage, devices
<1> QED
  BY <1>3, <1>4, <1>5 DEF IInv

LEMMA StepRegisterClear ==
  ASSUME IInv, NEW d \in Drv, RegisterClear(d)
  PROVE  IInv'
<1>1. TypeOK'
  BY DEF IInv, TypeOK, RegisterClear, driving, usage, devices
<1>2. Registered'
  BY DEF IInv, TypeOK, Registered, RegisterClear
<1>3. Driven' /\ Counting'
  BY KeepsDriven, KeepsCounting DEF IInv, RegisterClear, driving, usage, devices
<1> QED
  BY <1>1, <1>2, <1>3 DEF IInv

-----------------------------------------------------------------------------
(* WvDriveDevice.                                                          *)
LEMMA StepDrive ==
  ASSUME IInv, DriveStart \/ DriveRefused \/ DriveEnd
  PROVE  IInv'
<1>1. TypeOK'
  <2>1. CASE DriveStart
    BY <2>1 DEF IInv, TypeOK, DriveStart, usage, devices
  <2>2. CASE DriveRefused
    BY <2>2 DEF IInv, TypeOK, DriveRefused, usage, devices
  <2>3. CASE DriveEnd
    BY <2>3 DEF IInv, TypeOK, DriveEnd, driving, usage, devices
  <2> QED
    BY <2>1, <2>2, <2>3
<1>2. Registered' /\ Counting'
  BY KeepsRegistered, KeepsCounting
  DEF IInv, DriveStart, DriveRefused, DriveEnd, driving, usage, devices
<1>3. Driven'
  BY Owners DEF IInv, TypeOK, Driven, DriveStart, DriveRefused, DriveEnd,
     AddDeviceOver, driving, devices
<1> QED
  BY <1>1, <1>2, <1>3 DEF IInv

LEMMA StepDriveCreate ==
  ASSUME IInv, NEW v \in Dev, DriveCreate(v)
  PROVE  IInv'
<1>1. at \in 1 .. Len(list) /\ list[at] \in Drv
  BY ElementOfSeq, LenProperties DEF IInv, TypeOK, Driven, DriveCreate
<1>2. TypeOK'
  BY <1>1 DEF IInv, TypeOK, DriveCreate, usage, Existing, Creating
<1>3. Registered'
  BY KeepsRegistered DEF IInv, DriveCreate
<1>4. Driven'
  BY <1>1, Owners DEF IInv, TypeOK, Driven, DriveCreate, AddDeviceOver
<1>5. Counting'
  <2>1. \A d : Using(d)' = Using(d)
    BY DEF IInv, TypeOK, DriveCreate, Using
  <2> QED
    BY <1>1, <2>1 DEF IInv, TypeOK, Counting, DriveCreate, usage
<1> QED
  BY <1>2, <1>3, <1>4, <1>5 DEF IInv

-----------------------------------------------------------------------------
(* The devices.                                                            *)
LEMMA StepCreateChild ==
  ASSUME IInv, NEW v \in Dev, NEW w \in Dev, CreateChild(v, w)
  PROVE  IInv'
<1>1. of[w] \in Drv /\ v # made
  BY Owners DEF IInv, Driven, Counting, CreateChild
<1>2. TypeOK'
  BY <1>1 DEF IInv, TypeOK, CreateChild, driving, usage, Existing, Creating
<1>3. Registered'
  BY KeepsRegistered DEF IInv, CreateChild
<1>4. Driven'
  BY <1>1, Owners DEF IInv, TypeOK, Driven, CreateChild, AddDeviceOver, driving
<1>5. Counting'
  <2>1. \A d : Using(d)' = Using(d)
    BY DEF IInv, TypeOK, CreateChild, Using
  <2> QED
    BY <1>1, <2>1 DEF IInv, TypeOK, Counting, CreateChild, usage
<1> QED
  BY <1>2, <1>3, <1>4, <1>5 DEF IInv

(* What the steps of a device which exists have in common.                 *)
LEMMA KeepsDrivenMoving ==
  ASSUME IInv, NEW v \in Dev, NEW s, s # "none",
         dev' = [dev EXCEPT ![v] = s], dev[v] \in {"inc", "clear", "up", "dec", "set"},
         s \in Creating => dev[v] \in Creating,
         UNCHANGED <<list, lock, at, made, of>>
  PROVE  Driven'
BY Owners DEF IInv, TypeOK, Driven, AddDeviceOver

LEMMA StepIncrementUsage ==
  ASSUME IInv, NEW v \in Dev, IncrementUsage(v)
  PROVE  IInv'
<1>1. PICK d \in Drv : d = of[v] /\ dev[v] = "inc" /\ count[d] \in Nat
  BY DEF IInv, TypeOK, Counting, IncrementUsage
<1>2. TypeOK'
  BY <1>1 DEF IInv, TypeOK, IncrementUsage, driving, Existing, Creating
<1>3. Registered'
  BY KeepsRegistered DEF IInv, IncrementUsage
<1>4. Driven'
  <2>1. PICK s \in {"clear", "up"} : dev' = [dev EXCEPT ![v] = s]
    BY DEF IncrementUsage
  <2> QED
    BY <1>1, <2>1, KeepsDrivenMoving DEF IncrementUsage, driving, Creating
<1>5. Counting'
  <2>1. /\ Using(d)' = Using(d) \cup {v} /\ v \notin Using(d)
        /\ \A e \in Drv \ {d} : Using(e)' = Using(e)
    BY <1>1 DEF IInv, TypeOK, IncrementUsage, Using
  <2>2. Cardinality(Using(d)') = Cardinality(Using(d)) + 1
    BY <2>1, UsingCounts, FS_AddElement
  <2>3. /\ count' = [count EXCEPT ![d] = @ + 1] /\ of' = of
        /\ \A w \in Dev : dev'[w] # "none" => dev[w] # "none"
    BY <1>1 DEF IInv, TypeOK, IncrementUsage
  <2>4. \A e \in Drv : count'[e] = Cardinality(Using(e)')
    <3>1. count'[d] = Cardinality(Using(d)')
      BY <1>1, <2>2, <2>3 DEF IInv, TypeOK, Counting
    <3>2. ASSUME NEW e \in Drv \ {d}  PROVE count'[e] = Cardinality(Using(e)')
      BY <2>1, <2>3 DEF IInv, TypeOK, Counting
    <3> QED
      BY <3>1, <3>2
  <2> QED
    BY <2>3, <2>4 DEF IInv, Counting
<1> QED
  BY <1>2, <1>3, <1>4, <1>5 DEF IInv

(* The count is not zero when it is decremented.                           *)
LEMMA StepDecrementUsage ==
  ASSUME IInv, NEW v \in Dev, DecrementUsage(v)
  PROVE  IInv'
<1>1. PICK d \in Drv : d = of[v] /\ dev[v] = "dec" /\ count[d] \in Nat
  BY DEF IInv, TypeOK, Counting, DecrementUsage
<1>2. v \in Using(d) /\ count[d] = Cardinality(Using(d))
  BY <1>1 DEF Using, IInv, Counting
<1>3. count[d] # 0
  BY <1>2, UsingCounts
<1>4. TypeOK'
  BY <1>1, <1>3 DEF IInv, TypeOK, DecrementUsage, driving, Existing, Creating
<1>5. Registered'
  BY KeepsRegistered DEF IInv, DecrementUsage
<1>6. Driven'
  <2>1. PICK s \in {"set", "gone"} : dev' = [dev EXCEPT ![v] = s]
    BY DEF DecrementUsage
  <2> QED
    BY <1>1, <2>1, KeepsDrivenMoving DEF DecrementUsage, driving, Creating
<1>7. Counting'
  <2>1. /\ Using(d)' = Using(d) \ {v}
        /\ \A e \in Drv \ {d} : Using(e)' = Using(e)
    BY <1>1 DEF IInv, TypeOK, DecrementUsage, Using
  <2>2. Cardinality(Using(d)') = Cardinality(Using(d)) - 1
    BY <1>2, <2>1, UsingCounts, FS_RemoveElement
  <2>3. /\ count' = [count EXCEPT ![d] = @ - 1] /\ of' = of
        /\ \A w \in Dev : dev'[w] # "none" => dev[w] # "none"
    BY <1>1 DEF IInv, TypeOK, DecrementUsage
  <2>4. \A e \in Drv : count'[e] = Cardinality(Using(e)')
    BY <1>1, <2>1, <2>2, <2>3 DEF IInv, TypeOK, Counting
  <2> QED
    BY <2>3, <2>4 DEF IInv, Counting
<1> QED
  BY <1>4, <1>5, <1>6, <1>7 DEF IInv

LEMMA StepMoves ==
  ASSUME IInv, NEW v \in Dev,
         ClearZeroUsage(v) \/ DeleteDevice(v) \/ SetZeroUsage(v)
  PROVE  IInv'
<1>1. PICK s \in {"up", "dec", "gone"} :
        /\ dev' = [dev EXCEPT ![v] = s]
        /\ s = "up" => dev[v] = "clear"
        /\ s = "dec" => dev[v] = "up"
        /\ s = "gone" => dev[v] = "set"
  BY DEF ClearZeroUsage, DeleteDevice, SetZeroUsage
<1>2. /\ UNCHANGED <<list, lock, at, made, deregistered, count, mem, reg, of,
                     by, unl, target>>
      /\ zero' = zero \/ \E z \in BOOLEAN : zero' = [zero EXCEPT ![of[v]] = z]
  BY DEF ClearZeroUsage, DeleteDevice, SetZeroUsage, driving, usage
<1>3. TypeOK'
  BY <1>1, <1>2 DEF IInv, TypeOK, Existing, Creating
<1>4. Registered'
  BY <1>2, KeepsRegistered DEF IInv
<1>5. Driven'
  BY <1>1, <1>2, KeepsDrivenMoving DEF Creating
<1>6. Counting'
  <2>1. \A d : Using(d)' = Using(d)
    BY <1>1, <1>2 DEF IInv, TypeOK, Using
  <2> QED
    BY <1>1, <1>2, <2>1 DEF IInv, TypeOK, Counting
<1> QED
  BY <1>3, <1>4, <1>5, <1>6 DEF IInv

-----------------------------------------------------------------------------
(* The unloading.                                                          *)
LEMMA StepUnloadStart ==
  ASSUME IInv, NEW u \in Unloader, UnloadStart(u)
  PROVE  IInv'
<1>1. TypeOK'
  BY DEF IInv, TypeOK, UnloadStart, driving, usage, devices
<1>2. Registered'
  BY DEF IInv, TypeOK, Registered, UnloadStart
<1>3. Driven' /\ Counting'
  BY KeepsDriven, KeepsCounting DEF IInv, UnloadStart, driving, usage, devices
<1> QED
  BY <1>1, <1>2, <1>3 DEF IInv

LEMMA StepUnloadFind ==
  ASSUME IInv, NEW u \in Unloader, UnloadFind(u)
  PROVE  IInv'
<1>1. \A i \in OwnPlaces(u) : list[i] \in Own(u) /\ list[i] \in Drv
  BY Owners DEF OwnPlaces
<1>2. TypeOK'
  BY <1>1 DEF IInv, TypeOK, UnloadFind, driving, usage, devices
<1>3. Registered'
  <2>1. PICK s : /\ unl' = [unl EXCEPT ![u] = s] /\ s \notin {"set", "wait"}
                 /\ s = "remove" => target'[u] \in Own(u)
    BY <1>1 DEF IInv, TypeOK, UnloadFind
  <2>2. \A w \in Unloader \ {u} : target'[w] = target[w]
    BY DEF IInv, TypeOK, UnloadFind
  <2>3. unl[u] = "find" /\ UNCHANGED <<list, mem, reg>>
    BY DEF UnloadFind
  <2> QED
    BY <2>1, <2>2, <2>3 DEF IInv, TypeOK, Registered
<1>4. Driven' /\ Counting'
  BY KeepsDriven, KeepsCounting DEF IInv, UnloadFind, driving, usage, devices
<1> QED
  BY <1>2, <1>3, <1>4 DEF IInv

LEMMA StepDeregisterRemove ==
  ASSUME IInv, NEW u \in Unloader, DeregisterRemove(u)
  PROVE  IInv'
<1>1. list \in Seq(Drv) /\ Distinct(list) /\ list' = RemoveFirst(list, target[u])
  BY DEF IInv, TypeOK, Registered, DeregisterRemove
<1>2. /\ list' \in Seq(Drv) /\ Distinct(list')
      /\ ToSet(list') = ToSet(list) \ {target[u]}
  BY <1>1, RemoveFirstElements
<1>3. /\ target[u] \in Own(u) /\ reg[target[u]] = "done"
      /\ unl' = [unl EXCEPT ![u] = IF list' = <<>> THEN "set" ELSE "wait"]
  BY DEF IInv, Registered, DeregisterRemove
<1>4. TypeOK'
  BY <1>2 DEF IInv, TypeOK, DeregisterRemove, driving, usage, devices
<1>5. Registered'
  BY <1>2, <1>3 DEF IInv, TypeOK, Registered, DeregisterRemove
<1>6. Driven' /\ Counting'
  <2>1. ~lock /\ ~lock'
    BY DEF DeregisterRemove
  <2> QED
    BY <2>1, KeepsCounting
    DEF IInv, Driven, DeregisterRemove, driving, usage, devices
<1> QED
  BY <1>4, <1>5, <1>6 DEF IInv

LEMMA StepDeregisterEnds ==
  ASSUME IInv, NEW u \in Unloader,
         DeregisterSet(u) \/ DeregisterFree(u) \/ (u = Main /\ UnloadWaited)
  PROVE  IInv'
<1>1. CASE DeregisterSet(u)
  <2>1. TypeOK' /\ Registered'
    BY <1>1 DEF IInv, TypeOK, Registered, DeregisterSet, driving, usage, devices
  <2> QED
    BY <1>1, <2>1, KeepsDriven, KeepsCounting
    DEF IInv, DeregisterSet, driving, usage, devices
<1>2. CASE DeregisterFree(u)
  <2>1. /\ target[u] \in Own(u) /\ target[u] \notin ToSet(list)
        /\ reg[target[u]] = "done" /\ target[u] \in Drv
    BY <1>2, Owners DEF IInv, Registered, DeregisterFree
  <2>2. TypeOK'
    BY <1>2, <2>1 DEF IInv, TypeOK, DeregisterFree, driving, usage, devices
  <2>3. Registered'
    BY <1>2, <2>1 DEF IInv, TypeOK, Registered, DeregisterFree
  <2> QED
    BY <1>2, <2>2, <2>3, KeepsDriven, KeepsCounting
    DEF IInv, DeregisterFree, driving, usage, devices
<1>3. CASE u = Main /\ UnloadWaited
  <2>1. TypeOK' /\ Registered'
    BY <1>3 DEF IInv, TypeOK, Registered, UnloadWaited, driving, usage, devices
  <2> QED
    BY <1>3, <2>1, KeepsDriven, KeepsCounting
    DEF IInv, UnloadWaited, driving, usage, devices
<1> QED
  BY <1>1, <1>2, <1>3

-----------------------------------------------------------------------------
LEMMA NextIInv == IInv /\ [Next]_vars => IInv'
<1> SUFFICES ASSUME IInv, [Next]_vars PROVE IInv'
  OBVIOUS
<1>1. CASE UNCHANGED vars
  <2>1. TypeOK'
    BY <1>1 DEF IInv, TypeOK, vars, driving, usage, devices
  <2> QED
    BY <1>1, <2>1, KeepsRegistered, KeepsDriven, KeepsCounting
    DEF IInv, vars, driving, usage, devices
<1>2. CASE Next
  BY <1>2, StepRegister, StepRegisterAppend, StepRegisterClear, StepDrive,
     StepDriveCreate, StepCreateChild, StepIncrementUsage, StepDecrementUsage,
     StepMoves, StepUnloadStart, StepUnloadFind, StepDeregisterRemove,
     StepDeregisterEnds
  DEF Next, Registration, TrackUsage, Unloading
<1> QED
  BY <1>1, <1>2

LEMMA Inductive == Spec => []IInv
BY InitIInv, NextIInv, PTL DEF Spec

(* The registrations, the counts and the unloadings are well typed; in     *)
(* particular no decrement takes a usage count below zero.                 *)
THEOREM Typing == Spec => []TypeOK
<1>1. IInv => TypeOK
  BY DEF IInv
<1> QED
  BY <1>1, Inductive, PTL

(* A mini-driver whose AddDevice routine runs stays in the list, and its   *)
(* memory is not freed.                                                    *)
THEOREM DrivenStaysRegistered == Spec => []DrivenIsRegistered
<1>1. IInv => DrivenIsRegistered
  <2> SUFFICES ASSUME IInv, lock, made # None, ~AddDeviceOver
               PROVE  /\ mem[of[made]] = "allocated"
                      /\ \E i \in 1 .. Len(list) : list[i] = of[made]
    BY DEF DrivenIsRegistered
  <2>1. at \in 1 .. Len(list) /\ list[at] = of[made] /\ list \in Seq(Drv)
    BY DEF IInv, Driven, TypeOK
  <2>2. list[at] \in ToSet(list) /\ list[at] \in Drv
    BY <2>1, Elements
  <2> QED
    BY <2>1, <2>2 DEF IInv, Registered
<1> QED
  BY <1>1, Inductive, PTL

-----------------------------------------------------------------------------
(* A usage tracker.  Only the last of the devices leaves the event to be   *)
(* set, and a device which is about to clear it is counted.                *)
LEMMA UnusedNext ==
  ASSUME IInv, IInv', UnusedIsSignalled, [Next]_vars
  PROVE  UnusedIsSignalled'
<1> SUFFICES ASSUME NEW d \in Drv, mem'[d] = "allocated", count'[d] = 0, ~zero'[d]
             PROVE  \E v \in Dev : of'[v] = d /\ dev'[v] = "set"
  BY DEF UnusedIsSignalled
<1> USE DEF UnusedIsSignalled
<1>1. CASE UNCHANGED <<count, zero, mem, dev, of>>
  BY <1>1
<1>2. ASSUME NEW e \in Drv, Register(e) 
      PROVE  \E v \in Dev : of'[v] = d /\ dev'[v] = "set"
  BY <1>2 DEF Register, IInv, TypeOK, devices
<1>3. ASSUME NEW v \in Dev, DriveCreate(v) \/ \E w \in Dev : CreateChild(v, w)
      PROVE  \E w \in Dev : of'[w] = d /\ dev'[w] = "set"
  BY <1>3 DEF DriveCreate, CreateChild, usage, IInv, TypeOK
<1>4. ASSUME NEW v \in Dev, IncrementUsage(v) \/ DecrementUsage(v)
      PROVE  \E w \in Dev : of'[w] = d /\ dev'[w] = "set"
  BY <1>4 DEF IncrementUsage, DecrementUsage, LastUsage, IInv, TypeOK, Counting
<1>5. ASSUME NEW v \in Dev, ClearZeroUsage(v)
      PROVE  \E w \in Dev : of'[w] = d /\ dev'[w] = "set"
  <2>1. of[v] = d => v \in Using(d)
    BY <1>5 DEF ClearZeroUsage, Using
  <2>2. count[d] # 0 \/ Using(d) = {}
    BY UsingCounts DEF IInv, Counting
  <2> QED
    BY <1>5, <2>1, <2>2 DEF ClearZeroUsage, IInv, TypeOK
<1>6. ASSUME NEW v \in Dev, DeleteDevice(v) \/ SetZeroUsage(v)
      PROVE  \E w \in Dev : of'[w] = d /\ dev'[w] = "set"
  BY <1>6 DEF DeleteDevice, SetZeroUsage, usage, IInv, TypeOK
<1>7. ASSUME NEW u \in Unloader, DeregisterFree(u)
      PROVE  \E w \in Dev : of'[w] = d /\ dev'[w] = "set"
  BY <1>7 DEF DeregisterFree, IInv, TypeOK, usage, devices
<1> QED
  BY <1>1, <1>2, <1>3, <1>4, <1>5, <1>6, <1>7
  DEF Next, vars, usage, devices, driving, Registration, RegisterAppend,
      RegisterClear, DriveStart, DriveRefused, DriveEnd, TrackUsage, UnloadStart,
      Unloading, UnloadFind, DeregisterRemove, DeregisterSet, UnloadWaited

(* The event of a usage tracker is not clear for good when nothing is used.*)
THEOREM UnusedStaysSignalled == Spec => []UnusedIsSignalled
<1>1. Init => UnusedIsSignalled
  BY DEF Init, UnusedIsSignalled
<1> QED
  BY <1>1, Inductive, UnusedNext, PTL DEF Spec

LEMMA EmptyNext ==
  ASSUME IInv, EmptyIsSignalled, [Next]_vars
  PROVE  EmptyIsSignalled'
<1> USE DEF EmptyIsSignalled, IInv, TypeOK
<1>1. ASSUME NEW d \in Drv, RegisterAppend(d)  PROVE EmptyIsSignalled'
  <2>1. list' # <<>>
    BY <1>1, AppendElements, NoElements DEF RegisterAppend
  <2> QED
    BY <2>1
<1>2. ASSUME NEW d \in Drv, RegisterClear(d)  PROVE EmptyIsSignalled'
  BY <1>2, NoElements DEF RegisterClear, Registered
<1>3. ASSUME NEW d \in Drv, Register(d)  PROVE EmptyIsSignalled'
  BY <1>3 DEF Register
<1>4. ASSUME NEW u \in Unloader,
             UnloadStart(u) \/ UnloadFind(u) \/ DeregisterRemove(u)
               \/ DeregisterSet(u) \/ DeregisterFree(u)
      PROVE  EmptyIsSignalled'
  BY <1>4 DEF UnloadStart, UnloadFind, DeregisterRemove, DeregisterSet,
     DeregisterFree
<1>5. CASE UnloadWaited
  BY <1>5 DEF UnloadWaited
<1>6. CASE UNCHANGED <<list, reg, unl, deregistered>>
  BY <1>6
<1> QED
  BY <1>1, <1>2, <1>3, <1>4, <1>5, <1>6
  DEF Next, vars, Registration, DriveStart, DriveRefused, DriveEnd, DriveCreate,
      TrackUsage, IncrementUsage, ClearZeroUsage, DecrementUsage, SetZeroUsage,
      CreateChild, DeleteDevice, Unloading

(* The list of mini-drivers is not empty for good without the event which  *)
(* says so.                                                                *)
THEOREM EmptyStaysSignalled == Spec => []EmptyIsSignalled
<1>1. Init => EmptyIsSignalled
  BY DEF Init, EmptyIsSignalled
<1> QED
  BY <1>1, Inductive, EmptyNext, PTL DEF Spec

-----------------------------------------------------------------------------
(* From here on there is an internal mini-driver, as the main bus is one.  *)

(* While the main driver is not unloaded, the internal mini-drivers stay   *)
(* in the list once they are, so the list does not get empty before; and   *)
(* then nobody registers any more.                                         *)
Closing ==
  /\ \A m \in Internal :
       unl[Main] = "idle" /\ reg[m] \in {"clear", "done"} => m \in ToSet(list)
  /\ \A d \in External : reg[d] # "idle" => \A m \in Internal : reg[m] = "done"
  /\ unl[Main] # "idle" => \A d \in Drv : reg[d] \in {"idle", "done"}
  /\ \A u \in Unloader : unl[u] = "set" => list = <<>> /\ unl[Main] # "idle"
  /\ deregistered /\ (\E m \in Internal : reg[m] = "done") => list = <<>>
  /\ AllDeregistered

LEMMA ClosingInit == Init => Closing
BY NamesAssumption DEF Init, Closing, AllDeregistered, Unloader, Drv

LEMMA ClosingNext ==
  ASSUME Internal # {}, IInv, Closing, [Next]_vars
  PROVE  Closing'
<1> USE DEF Closing, AllDeregistered
<1>0. /\ Main \in Unloader /\ Own(Main) = Internal /\ Internal \cap External = {}
      /\ \A u \in Unloader \ {Main} : Own(u) = {u} /\ u \in External
      /\ Drv = Internal \cup External
  BY NamesAssumption DEF Own, Unloader, Drv
<1>1. CASE UNCHANGED <<list, reg, unl, deregistered>>
  BY <1>1
<1>2. ASSUME NEW d \in Drv, Register(d)  PROVE Closing'
  BY <1>0, <1>2 DEF Register, IInv, TypeOK
<1>3. ASSUME NEW d \in Drv, RegisterAppend(d)  PROVE Closing'
  <2>1. ToSet(list') = ToSet(list) \cup {d}
    BY <1>3, AppendElements DEF RegisterAppend, IInv, TypeOK
  <2>2. unl[Main] = "idle" /\ \A u \in Unloader : unl[u] # "set"
    BY <1>0, <1>3 DEF RegisterAppend, IInv, TypeOK
  <2>3. ASSUME deregistered, NEW m \in Internal, reg'[m] = "done"
        PROVE  FALSE
    <3>1. reg[m] = "done"
      BY <1>3, <2>3 DEF RegisterAppend, IInv, TypeOK
    <3>2. m \in ToSet(list) /\ list = <<>>
      BY <2>2, <2>3, <3>1
    <3> QED
      BY <3>2, NoElements
  <2> QED
    BY <1>0, <1>3, <2>1, <2>2, <2>3 DEF RegisterAppend, IInv, TypeOK
<1>4. ASSUME NEW d \in Drv, RegisterClear(d)  PROVE Closing'
  BY <1>0, <1>4 DEF RegisterClear, IInv, TypeOK
<1>5. ASSUME NEW u \in Unloader, UnloadStart(u)  PROVE Closing'
  BY <1>0, <1>5 DEF UnloadStart, IInv, TypeOK
<1>6. ASSUME NEW u \in Unloader, UnloadFind(u)  PROVE Closing'
  BY <1>0, <1>6 DEF UnloadFind, IInv, TypeOK
<1>7. ASSUME NEW u \in Unloader, DeregisterRemove(u)  PROVE Closing'
  <2>1. /\ ToSet(list') = ToSet(list) \ {target[u]} /\ target[u] \in Own(u)
        /\ list = <<>> => list' = <<>>
    <3>1. list = <<>> => RemoveFirst(list, target[u]) = list
      BY NoElements DEF RemoveFirst
    <3> QED
      BY <1>7, <3>1, RemoveFirstElements DEF DeregisterRemove, IInv, TypeOK, Registered
  <2>2. CASE unl[Main] = "idle"
    <3>1. u # Main /\ target[u] = u /\ u \in External
      BY <1>0, <1>7, <2>1, <2>2 DEF DeregisterRemove
    <3>2. reg[u] = "done"
      BY <1>0, <1>7, <3>1 DEF DeregisterRemove, IInv, Registered
    <3>3. PICK m \in Internal : reg[m] = "done"
      BY <3>1, <3>2
    <3>4. m \in ToSet(list) /\ m # u
      BY <1>0, <2>2, <3>1, <3>3
    <3>5. list' # <<>>
      BY <2>1, <3>1, <3>4, NoElements
    <3> QED
      BY <1>0, <1>7, <2>1, <2>2, <3>1, <3>5 DEF DeregisterRemove, IInv, TypeOK
  <2>3. CASE unl[Main] # "idle"
    BY <1>0, <1>7, <2>1, <2>3 DEF DeregisterRemove, IInv, TypeOK
  <2> QED
    BY <2>2, <2>3
<1>8. ASSUME NEW u \in Unloader, DeregisterSet(u) \/ DeregisterFree(u)
      PROVE  Closing'
  BY <1>0, <1>8 DEF DeregisterSet, DeregisterFree, IInv, TypeOK
<1>9. CASE UnloadWaited
  <2>1. \A m \in Internal : reg[m] = "done"
    BY <1>0, <1>9 DEF UnloadWaited, IInv, Registered
  <2> QED
    BY <1>0, <1>9, <2>1 DEF UnloadWaited, IInv, TypeOK
<1> QED
  BY <1>1, <1>2, <1>3, <1>4, <1>5, <1>6, <1>7, <1>8, <1>9
  DEF Next, vars, Registration, DriveStart, DriveRefused, DriveEnd, DriveCreate,
      TrackUsage, IncrementUsage, ClearZeroUsage, DecrementUsage, SetZeroUsage,
      CreateChild, DeleteDevice, Unloading

(* When the main driver has unloaded no mini-driver is registered.  The    *)
(* event which it waits for does not ensure it by itself, see Closing.     *)
THEOREM NoneRegisteredAfterUnload ==
  ASSUME Internal # {}
  PROVE  Spec => []AllDeregistered
<1>1. IInv /\ Closing /\ [Next]_vars => Closing'
  BY ClosingNext
<1>2. Closing => AllDeregistered
  BY DEF Closing
<1> QED
  BY <1>1, <1>2, Inductive, ClosingInit, PTL DEF Spec

-----------------------------------------------------------------------------
(* The disks of the boot loader, which mini-drivers probe, claim and drive *)
(* (BootDisks), for every chain of hooks.                                  *)

(* A bus which PnP has started and not yet been told to be gone, and one   *)
(* which has not given up the claim of its hook.                           *)
Live(f)  == bus[f].at \in {"attached", "children"}
Holds(f) == bus[f].at \in {"attached", "children", "passed", "detached"}
Driving  == worker.at \in {"look", "claimed"}
Claiming(h) == worker.at = "claimed" /\ hook[worker.on] = h

Disks == UNION {Drives[h] : h \in Hook}

Device == [at : {"unborn", "attached", "children", "passed", "detached", "gone"},
           by : {"memdisk", "grub4dos", "other", Null}, pdo : Pdo \cup {Null},
           lower : Pdo \cup Fdo \cup {Null}]

ChainTypes ==
  /\ intact \in [Hook -> BOOLEAN] /\ claimed \in [Hook -> BOOLEAN]
  /\ hook \in [Pdo -> Hook \cup {Null}]
  /\ parent \in [Pdo -> Fdo \cup {MainBus, Null}]
  /\ known \subseteq Pdo /\ tried \subseteq Pdo
  /\ DOMAIN worker = {"at", "on", "left"}
  /\ bus \in [Fdo -> Device]
  /\ relations \in [Fdo -> Seq(Pdo \cup Disks)]
  /\ DOMAIN needed = Fdo
  /\ stack \in [Pdo -> Seq(Fdo)]

(* Nothing but mBFTs has been found before the hook at the vector is       *)
(* looked at, which is last.                                               *)
Probed ==
  /\ <<callbacks, entry>> \in {<< <<>>, <<"memdisk", "other">> >>,
                               << <<"memdisk">>, <<"other">> >>,
                               << <<"memdisk", "other">>, <<>> >>}
  /\ probe \in {<<"unprobed">>, <<"memdisk", "other">>, <<"memdisk">>, <<"other">>, <<>>}
  /\ probe # <<>> => /\ worker = Rest /\ \A f \in Fdo : bus[f].at = "unborn"
                     /\ \A q \in Pdo : hook[q] # Null => ~intact[hook[q]]

(* What PnP is at.                                                         *)
Worked ==
  /\ Driving =>
       /\ worker.on \in tried /\ parent[worker.on] # Null
       /\ \E f \in Fdo : bus[f].at = "unborn"
       /\ \A f \in Fdo : Live(f) => bus[f].pdo # worker.on
  /\ worker.at = "claimed" =>
       worker.left \in {Mini, <<"grub4dos", "other">>, <<"other">>}
  /\ worker.at = "look" =>
       worker.left \in {Mini, <<"grub4dos", "other">>, <<"other">>, <<>>}
  /\ \A f, g \in Fdo : bus[f].at = "children" =>
       /\ worker.at = "removing"
       /\ bus[g].at = "children" => g = f
       /\ Live(g) => bus[g].pdo \notin Children(f)

(* PDOs: where their hooks were found.                                     *)
Reported ==
  /\ \A q \in known : parent[q] # Null
  /\ \A q \in Pdo : /\ parent[q] # Null => hook[q] # Null
                    /\ parent[q] = MainBus => ~intact[hook[q]] \/ hook[q] = First
                    /\ \A f \in Fdo : parent[q] = f => hook[q] = Prev[HookOf(f)]
  /\ \A q \in Pdo, f \in Fdo : parent[q] = f <=> q \in ToSet(relations[f])
  /\ \A p, q \in Pdo : p # q /\ parent[p] # Null /\ parent[q] # Null => hook[p] # hook[q]

(* Buses: a PDO has one at a time for PnP, and it answers with each disk   *)
(* of its hook once and with one PDO.                                      *)
Answered ==
  \A f \in Fdo :
    /\ bus[f].at # "unborn" => bus[f].pdo \in Pdo /\ hook[bus[f].pdo] # Null
    /\ Live(f) => /\ bus[f].pdo \in tried /\ parent[bus[f].pdo] # Null
                  /\ \A g \in Fdo \ {f} : Live(g) => bus[f].pdo # bus[g].pdo
    /\ ~Live(f) => relations[f] = <<>>
    /\ Distinct(relations[f])
    /\ Live(f) => ToSet(relations[f]) \ Pdo \subseteq Drives[HookOf(f)]
    /\ Live(f) /\ bus[f].by = "memdisk" /\ Len(relations[f]) = 1 => Children(f) = {}
    /\ Live(f) /\ bus[f].by = "grub4dos" =>
         /\ needed[f] \ {"previous"} \subseteq Drives[HookOf(f)]
         /\ needed[f] \cap ToSet(relations[f]) \subseteq {"previous"}
         /\ "previous" \in needed[f] => Children(f) = {}

(* A claim has one holder: the worker which drives the hook, or a bus.     *)
Held ==
  /\ \A h \in Hook : Vendor[h] # "grub4dos" /\ Claiming(h) => claimed[h]
  /\ \A f \in Fdo : Holds(f) /\ Vendor[HookOf(f)] # "grub4dos" =>
       /\ claimed[HookOf(f)] /\ ~Claiming(HookOf(f))
       /\ \A g \in Fdo \ {f} : Holds(g) => HookOf(g) # HookOf(f)
       /\ bus[f].lower = bus[f].pdo

(* What is above a PDO are buses of it which are still attached.           *)
Stacked ==
  \A p \in Pdo : /\ Distinct(stack[p])
                 /\ \A f \in ToSet(stack[p]) : Above(f) /\ bus[f].pdo = p

ChainInv == ChainTypes /\ Probed /\ Worked /\ Reported /\ Answered /\ Held /\ Stacked

-----------------------------------------------------------------------------
LEMMA Minis ==
  /\ ToSet(Mini) = {"memdisk", "grub4dos", "other"}
  /\ Mini = <<"memdisk", "grub4dos", "other">>
BY DEF ToSet, Mini

-----------------------------------------------------------------------------
(* What the steps do                                                       *)

(* Nothing of what the invariant is about, but for the probe's progress.   *)
Quiet ==
  /\ UNCHANGED <<intact, claimed, hook, parent, known, tried, worker, bus, relations,
                 needed, stack>>
  /\ \/ UNCHANGED <<entry, callbacks, probe>>
     \/ /\ entry # <<>> /\ callbacks' = Append(callbacks, Head(entry))
        /\ entry' = Tail(entry) /\ UNCHANGED probe
     \/ /\ probe = <<"unprobed">> /\ probe' = callbacks /\ UNCHANGED <<entry, callbacks>>
     \/ /\ probe # <<>> /\ Head(probe) = "memdisk" /\ probe' = Tail(probe)
        /\ UNCHANGED <<entry, callbacks>>

NoPdo           == UNCHANGED <<hook, parent>>
NewPdo(p, h, b) == /\ p \in Pdo /\ hook[p] = Null /\ h \in Hook /\ intact[h]
                   /\ hook' = [hook EXCEPT ![p] = h] /\ parent' = [parent EXCEPT ![p] = b]

(* The main bus' probe finds a hook.                                       *)
Finds ==
  /\ probe # <<>> /\ UNCHANGED <<claimed, tried, worker, bus, relations, needed, stack>>
  /\ UNCHANGED <<entry, callbacks>>
  /\ \/ NoPdo /\ UNCHANGED <<intact, known>> /\ probe' \in {probe, <<>>}
     \/ \E p \in Pdo, h \in Hook, b \in {MainBus, Null} :
          /\ NewPdo(p, h, b)
          /\ known' = IF b = MainBus THEN known \cup {p} ELSE known
          /\ \/ intact' = [intact EXCEPT ![h] = FALSE] /\ probe' = probe
             \/ UNCHANGED intact /\ h = First /\ probe' = <<>>

LEMMA OffersNew ==
  ASSUME ChainTypes, NEW h \in Hook \cup {Null},
         NEW p \in Offers(h), NEW b, Create(p, h, b)
  PROVE  (p = Null /\ NoPdo) \/ (p # Null /\ NewPdo(p, h, b))
BY DEF Offers, Unborn, Create, NoPdo, NewPdo, ChainTypes

LEMMA FindsSteps ==
  ASSUME ChainTypes, Probed,
         (\E h \in Hook : CheckMbft(h)) \/ SafeHookInitialProbe
  PROVE  Finds
<1>0. /\ UNCHANGED <<claimed, tried, worker, bus, relations, needed, stack>>
      /\ UNCHANGED <<entry, callbacks>> /\ probe # <<>>
  BY DEF CheckMbft, SafeHookInitialProbe, buses, memory
<1>1. ASSUME NEW h \in Hook, CheckMbft(h)  PROVE Finds
  <2>1. PICK p \in Offers(h), added \in BOOLEAN :
          /\ Create(p, h, IF added THEN MainBus ELSE Null) /\ Mark(p, h)
          /\ known' = known \cup (IF added THEN {p} \ {Null} ELSE {})
    BY <1>1 DEF CheckMbft
  <2>2. probe' = probe
    BY <1>1 DEF CheckMbft
  <2>3. CASE p = Null
    <3>1. NoPdo
      BY <2>1, <2>3, OffersNew
    <3>2. known' = known /\ intact' = intact
      BY <2>1, <2>3 DEF Mark
    <3> QED
      BY <1>0, <2>2, <3>1, <3>2 DEF Finds
  <2>4. CASE p # Null
    <3> DEFINE b == IF added THEN MainBus ELSE Null
    <3>1. NewPdo(p, h, b)
      BY <2>1, <2>4, OffersNew
    <3>2. /\ known' = IF b = MainBus THEN known \cup {p} ELSE known
          /\ intact' = [intact EXCEPT ![h] = FALSE]
      BY <2>1, <2>4, ChainAssumption DEF Mark
    <3>3. p \in Pdo /\ b \in {MainBus, Null}
      BY <3>1 DEF NewPdo
    <3> HIDE DEF b
    <3> QED
      BY <1>0, <2>2, <3>1, <3>2, <3>3 DEF Finds
  <2> QED
    BY <2>3, <2>4
<1>2. CASE SafeHookInitialProbe
  <2>1. PICK p \in Offers(First), added \in BOOLEAN :
          /\ Create(p, First, IF added THEN MainBus ELSE Null)
          /\ known' = known \cup (IF added THEN {p} \ {Null} ELSE {})
    BY <1>2 DEF SafeHookInitialProbe
  <2>2. probe' = <<>> /\ intact' = intact
    <3>1. /\ Head(<<"memdisk", "other">>) = "memdisk" /\ Head(<<"memdisk">>) = "memdisk"
          /\ Head(<<"unprobed">>) = "unprobed" /\ Tail(<<"other">>) = <<>>
      OBVIOUS
    <3> QED
      BY <1>2, <3>1 DEF SafeHookInitialProbe, Probed, memory
  <2>3. CASE p = Null
    <3>1. NoPdo
      BY <2>1, <2>3, OffersNew, ChainAssumption
    <3>2. known' = known
      BY <2>1, <2>3
    <3> QED
      BY <1>0, <2>2, <3>1, <3>2 DEF Finds
  <2>4. CASE p # Null
    <3> DEFINE b == IF added THEN MainBus ELSE Null
    <3>1. NewPdo(p, First, b)
      BY <2>1, <2>4, OffersNew, ChainAssumption
    <3>2. known' = IF b = MainBus THEN known \cup {p} ELSE known
      BY <2>1, <2>4, ChainAssumption
    <3>3. p \in Pdo /\ b \in {MainBus, Null} /\ First \in Hook
      BY <3>1 DEF NewPdo
    <3> HIDE DEF b
    <3> QED
      BY <1>0, <2>2, <3>1, <3>2, <3>3 DEF Finds
  <2> QED
    BY <2>3, <2>4
<1> QED
  BY <1>1, <1>2

LEMMA QuietSteps ==
  ASSUME \/ MemdiskDriverEntry \/ SafeHookDriverEntry \/ InitialProbe
         \/ MemdiskProbeDone \/ UNCHANGED chainVars
  PROVE  Quiet
BY DEF MemdiskDriverEntry, SafeHookDriverEntry, RegisterProbe,
       InitialProbe, MemdiskProbeDone, chainVars, memory, pdos,
       buses, probing, Quiet

(* A mini-driver looks at a PDO, or the worker is done with it.            *)
LooksAt ==
  /\ Driving
  /\ UNCHANGED <<intact, entry, callbacks, probe, hook, parent, known, tried, bus,
                 relations, needed, stack>>
  /\ \/ worker' = Rest /\ worker.at = "look" /\ UNCHANGED claimed
     \/ /\ worker'.on = worker.on /\ DOMAIN worker' = {"at", "on", "left"}
        /\ worker'.left \in {Mini, <<"grub4dos", "other">>, <<"other">>, <<>>}
        /\ \/ /\ worker.at = "look" /\ worker'.at = "look"
              /\ \/ UNCHANGED claimed
                 \/ claimed' = [claimed EXCEPT ![hook[worker.on]] = TRUE]
           \/ /\ worker.at = "look" /\ worker'.at = "claimed" /\ worker'.left # <<>>
              /\ claimed' = [claimed EXCEPT ![hook[worker.on]] = TRUE]
              /\ ~claimed[hook[worker.on]] \/ Vendor[hook[worker.on]] = "grub4dos"
           \/ /\ worker.at = "claimed" /\ worker'.at = "look"
              /\ claimed' = [claimed EXCEPT ![hook[worker.on]] = FALSE]

LEMMA LooksAtSteps ==
  ASSUME ChainTypes, Worked,
         \/ \E m \in ToSet(Mini) : Refuse(m)
         \/ MemdiskDriveDevice \/ G4dDriveDevice \/ SafeHookDriveDevice
         \/ AttachFails \/ NobodyDrives
  PROVE  LooksAt
<1>0. UNCHANGED <<intact, entry, callbacks, probe, hook, parent, known, tried, bus,
                  relations, needed, stack>>
  BY DEF Refuse, MemdiskDriveDevice, G4dDriveDevice,
         SafeHookDriveDevice, AttachFails, NobodyDrives, probing,
         pdos, buses, memory
<1>1. ASSUME worker.at \in {"look", "claimed"}, worker.left # <<>>, NEW a \in {"look", "claimed"},
             worker' = [worker EXCEPT !.at = a, !.left = Tail(@)]
      PROVE  /\ worker'.on = worker.on /\ DOMAIN worker' = {"at", "on", "left"}
             /\ worker'.left \in {Mini, <<"grub4dos", "other">>, <<"other">>, <<>>}
             /\ worker'.at = a
  <2>1. worker.left \in {Mini, <<"grub4dos", "other">>, <<"other">>}
    BY <1>1 DEF Worked
  <2>2. /\ Tail(Mini) = <<"grub4dos", "other">>
        /\ Tail(<<"grub4dos", "other">>) = <<"other">> /\ Tail(<<"other">>) = <<>>
    BY DEF Mini
  <2> QED
    BY <1>1, <2>1, <2>2 DEF ChainTypes
<1>2. ASSUME worker.at = "look", worker.left # <<>>, worker' = [worker EXCEPT !.at = "claimed"]
      PROVE  /\ worker'.on = worker.on /\ DOMAIN worker' = {"at", "on", "left"}
             /\ worker'.left \in {Mini, <<"grub4dos", "other">>, <<"other">>, <<>>}
             /\ worker'.at = "claimed" /\ worker'.left # <<>>
  BY <1>2 DEF ChainTypes, Worked
<1>3. ASSUME worker.at = "look" \/ worker.at = "claimed"  PROVE worker.at = "claimed" => worker.left # <<>>
  BY Minis DEF Worked
<1>4. ASSUME NEW m, Refuse(m)  PROVE LooksAt
  BY <1>0, <1>1, <1>4 DEF Refuse, Looks, Next1, LooksAt, Driving, memory
<1>5. ASSUME \/ MemdiskDriveDevice \/ SafeHookDriveDevice  PROVE LooksAt
  BY <1>0, <1>1, <1>2, <1>5 DEF MemdiskDriveDevice, SafeHookDriveDevice,
     Looks, Next1, MayClaim, LooksAt, Driving
<1>6. CASE G4dDriveDevice
  BY <1>0, <1>2, <1>6 DEF G4dDriveDevice, Looks, IsGrub4dos, LooksAt, Driving
<1>7. CASE AttachFails
  BY <1>0, <1>1, <1>3, <1>7 DEF AttachFails, Next1, LooksAt, Driving
<1>8. CASE NobodyDrives
  BY <1>0, <1>8 DEF NobodyDrives, LooksAt, Driving, memory
<1> QED
  BY <1>4, <1>5, <1>6, <1>7, <1>8

(* A bus answers with its relations, after it has made disks and a PDO.    *)
Replies(f, disks, p) ==
  /\ worker.at = "idle" /\ bus[f].at = "attached"
  /\ UNCHANGED <<intact, claimed, entry, callbacks, probe, tried, worker, bus, stack>>
  /\ disks \subseteq Drives[HookOf(f)] /\ disks \cap ToSet(relations[f]) = {}
  /\ \/ p = Null /\ NoPdo
     \/ p # Null /\ NewPdo(p, Prev[HookOf(f)], f) /\ Children(f) = {}
  /\ relations' = [relations EXCEPT ![f] =
                     @ \o SetToSeq(disks) \o (IF p = Null THEN <<>> ELSE <<p>>)]
  /\ known' \subseteq known \cup (ToSet(relations'[f]) \cap Pdo)
  /\ bus[f].by = "memdisk" =>
       /\ disks = {} \/ relations[f] = <<>>
       /\ p # Null => Len(relations[f]) + Cardinality(disks) = 1
  /\ IF bus[f].by = "grub4dos"
     THEN needed' = [needed EXCEPT ![f] = @ \ (disks \cup IF p = Null THEN {} ELSE {"previous"})]
     ELSE needed' = needed

LEMMA RepliesSteps ==
  ASSUME ChainTypes, Answered,
         NEW f \in Fdo, QueryRelations(f)
  PROVE  \E disks \in SUBSET Drives[HookOf(f)], p \in Pdo \cup {Null} :
           Replies(f, disks, p)
<1>1. /\ worker.at = "idle" /\ bus[f].at = "attached"
      /\ UNCHANGED <<intact, claimed, entry, callbacks, probe, tried, worker, bus, stack>>
  <2>1. (\E m : Asked(f, m)) /\ \E disks, p, s : Answer(f, disks, p, s)
    <3>1. CASE MemdiskQueryRelations(f)
      BY <3>1 DEF MemdiskQueryRelations
    <3>2. CASE G4dQueryRelations(f)
      BY <3>2 DEF G4dQueryRelations
    <3>3. CASE SafeHookQueryRelations(f)
      BY <3>3 DEF SafeHookQueryRelations
    <3> QED
      BY <3>1, <3>2, <3>3 DEF QueryRelations
  <2> QED
    BY <2>1 DEF Asked, Answer, Rest, memory, probing
<1>2. Live(f) /\ Previous(f) = Prev[HookOf(f)]
  BY <1>1 DEF Live, Previous
<1>3. HookOf(f) \in Hook /\ Prev[HookOf(f)] \in Hook \cup {Null}
  <2>1. bus[f].pdo \in Pdo /\ hook[bus[f].pdo] # Null
    BY <1>1 DEF Answered
  <2>2. hook[bus[f].pdo] \in Hook
    BY <2>1 DEF ChainTypes
  <2> QED
    BY <2>2, ChainAssumption DEF HookOf
<1>4. relations[f] = <<>> => Children(f) = {} /\ ToSet(relations[f]) = {}
  BY NoElements DEF Children
<1>5. ASSUME NEW disks \in SUBSET Drives[HookOf(f)], NEW p,
             p \in Offers(Previous(f)) \/ p = Null,
             \E s : Answer(f, disks, p, s)
      PROVE  /\ \/ p = Null /\ NoPdo
                \/ p # Null /\ NewPdo(p, Prev[HookOf(f)], f)
             /\ p \in Pdo \cup {Null}
             /\ relations' = [relations EXCEPT ![f] =
                                @ \o SetToSeq(disks) \o (IF p = Null THEN <<>> ELSE <<p>>)]
             /\ known' \subseteq known \cup (ToSet(relations'[f]) \cap Pdo)
  <2>1. Create(p, Prev[HookOf(f)], f)
    BY <1>2, <1>5 DEF Answer
  <2>2. \/ p = Null /\ NoPdo
        \/ p # Null /\ NewPdo(p, Prev[HookOf(f)], f)
    <3>1. CASE p = Null
      BY <2>1, <3>1 DEF Create, NoPdo
    <3>2. CASE p # Null
      BY <1>2, <1>3, <1>5, <2>1, <3>2, OffersNew
    <3> QED
      BY <3>1, <3>2
  <2>3. p \in Pdo \cup {Null}
    BY <2>2 DEF NewPdo
  <2> QED
    BY <1>5, <2>2, <2>3 DEF Answer
<1>6. CASE MemdiskQueryRelations(f)
  <2>0. PICK disks \in CreateDisk(f) :
          \E p \in IF MemdiskGoesOn(f, disks)
                   THEN Offers(Previous(f)) ELSE {Null} :
            \E s : Answer(f, disks, p, s)
    BY <1>6 DEF MemdiskQueryRelations
  <2>1. PICK p \in IF MemdiskGoesOn(f, disks)
                  THEN Offers(Previous(f)) ELSE {Null} :
          \E s : Answer(f, disks, p, s)
    BY <2>0
  <2>2. /\ disks \in SUBSET Drives[HookOf(f)]
        /\ disks = {} \/ relations[f] = <<>>
    BY <2>0 DEF CreateDisk
  <2>3. /\ p \in Offers(Previous(f)) \/ p = Null
        /\ p # Null => Len(relations[f]) + Cardinality(disks) = 1
    BY <2>1 DEF MemdiskGoesOn
  <2>4. disks \cap ToSet(relations[f]) = {}
    BY <1>4, <2>2
  <2>5. p # Null => Children(f) = {}
    <3> SUFFICES ASSUME p # Null  PROVE Children(f) = {}
      OBVIOUS
    <3>1. CASE relations[f] = <<>>
      BY <1>4, <3>1
    <3>2. CASE relations[f] # <<>>
      <4>1. disks = {}
        BY <2>2, <3>2
      <4>2. Len(relations[f]) = 1
        <5>1. Cardinality(disks) = 0 /\ Len(relations[f]) \in Nat
          BY <4>1, FS_EmptySet DEF ChainTypes
        <5> QED
          BY <2>3, <5>1
      <4> QED
        BY <1>2, <1>6, <4>2 DEF Answered, MemdiskQueryRelations, Asked
    <3> QED
      BY <3>1, <3>2
  <2>6. bus[f].by = "memdisk" /\ needed' = needed
    BY <1>6 DEF MemdiskQueryRelations, Asked
  <2>7. Replies(f, disks, p) /\ p \in Pdo \cup {Null}
    BY <1>1, <1>5, <2>1, <2>2, <2>3, <2>4, <2>5, <2>6, ChainAssumption DEF Replies
  <2> QED
    BY <2>2, <2>7
<1>7. CASE G4dQueryRelations(f)
  <2>1. PICK disks \in ProcessSlots(f),
             p \in IF "previous" \in needed[f] THEN Offers(Previous(f)) ELSE {Null} :
          /\ needed' = [needed EXCEPT ![f] =
                          @ \ (disks \cup (IF p = Null THEN {} ELSE {"previous"}))]
          /\ \E s : Answer(f, disks, p, s)
    BY <1>7 DEF G4dQueryRelations
  <2>2. bus[f].by = "grub4dos"
    BY <1>7 DEF G4dQueryRelations, Asked
  <2>3. /\ needed[f] \ {"previous"} \subseteq Drives[HookOf(f)]
        /\ needed[f] \cap ToSet(relations[f]) \subseteq {"previous"}
        /\ "previous" \in needed[f] => Children(f) = {}
    BY <1>2, <2>2 DEF Answered
  <2>4. disks \in SUBSET Drives[HookOf(f)] /\ disks \cap ToSet(relations[f]) = {}
    BY <2>1, <2>3 DEF ProcessSlots
  <2>5. /\ p \in Offers(Previous(f)) \/ p = Null
        /\ p # Null => Children(f) = {}
    BY <2>1, <2>3
  <2>6. bus[f].by # "memdisk"
    BY <2>2
  <2>7. Replies(f, disks, p) /\ p \in Pdo \cup {Null}
    BY <1>1, <1>5, <2>1, <2>2, <2>4, <2>5, <2>6, ChainAssumption DEF Replies
  <2> QED
    BY <2>4, <2>7
<1>8. CASE SafeHookQueryRelations(f)
  <2>1. PICK p \in IF relations[f] = <<>> THEN Offers(Previous(f)) ELSE {Null} :
          \E s : Answer(f, {}, p, s)
    BY <1>8 DEF SafeHookQueryRelations
  <2>2. bus[f].by = "other" /\ needed' = needed
    BY <1>8 DEF SafeHookQueryRelations, Asked
  <2>3. /\ p \in Offers(Previous(f)) \/ p = Null
        /\ p # Null => Children(f) = {}
    BY <1>4, <2>1
  <2>4. bus[f].by # "memdisk" /\ bus[f].by # "grub4dos"
    BY <2>2
  <2>5. Replies(f, {}, p) /\ p \in Pdo \cup {Null}
    BY <1>1, <1>5, <2>1, <2>2, <2>3, <2>4, ChainAssumption DEF Replies
  <2> QED
    BY <2>5
<1> QED
  BY <1>6, <1>7, <1>8 DEF QueryRelations

LEMMA ConcatLength ==
  ASSUME NEW S, NEW s \in Seq(S), NEW t \in Seq(S)
  PROVE  Len(s \o t) = Len(s) + Len(t)
OBVIOUS

LEMMA ReplyRelations ==
  ASSUME ChainTypes, Answered, NEW f \in Fdo,
         NEW disks \in SUBSET Drives[HookOf(f)], NEW p \in Pdo \cup {Null},
         Replies(f, disks, p)
  PROVE  /\ HookOf(f) \in Hook /\ disks \cap Pdo = {}
         /\ relations'[f] \in Seq(Pdo \cup Disks) /\ Distinct(relations'[f])
         /\ ToSet(relations'[f]) = ToSet(relations[f]) \cup disks \cup ({p} \ {Null})
         /\ Cardinality(disks) \in Nat
         /\ Len(relations'[f]) = Len(relations[f]) + Cardinality(disks)
                                 + IF p = Null THEN 0 ELSE 1
         /\ \A g \in Fdo \ {f} : relations'[g] = relations[g]
<1> DEFINE R == Pdo \cup Disks
           r == relations[f]
           s == SetToSeq(disks)
           t == IF p = Null THEN <<>> ELSE <<p>>
<1>1. HookOf(f) \in Hook
  <2>1. bus[f].pdo \in Pdo /\ hook[bus[f].pdo] # Null
    BY DEF Answered, Replies
  <2> QED
    BY <2>1 DEF ChainTypes, HookOf
<1>2. disks \cap Pdo = {} /\ disks \subseteq R /\ IsFiniteSet(disks)
  <2>1. IsFiniteSet(Drives[HookOf(f)]) /\ Drives[HookOf(f)] \cap Pdo = {}
    BY <1>1, ChainAssumption
  <2>2. Drives[HookOf(f)] \subseteq Disks
    BY <1>1 DEF Disks
  <2> QED
    BY <2>1, <2>2, FS_Subset
<1>3. r \in Seq(R) /\ Distinct(r) /\ Len(r) \in Nat /\ relations' = [relations EXCEPT ![f] = r \o s \o t]
  BY DEF ChainTypes, Answered, Replies
<1>4. s \in Seq(R) /\ Distinct(s) /\ ToSet(s) = disks /\ Len(s) = Cardinality(disks)
  BY <1>2, SetToSeqElements
<1>5. Cardinality(disks) \in Nat
  BY <1>2, FS_CardinalityType
<1>6. /\ t \in Seq(R) /\ Distinct(t) /\ ToSet(t) = {p} \ {Null}
      /\ Len(t) = IF p = Null THEN 0 ELSE 1
  <2>1. CASE p = Null
    BY <2>1, NoElements
  <2>2. CASE p # Null
    BY <2>2 DEF Distinct, ToSet
  <2> QED
    BY <2>1, <2>2
<1>7. disks \cap ToSet(r) = {} /\ (p # Null => p \notin ToSet(r))
  BY DEF Replies, Children
<1> DEFINE q == r \o s
           u == q \o t
<1> HIDE DEF s, t, R, r
<1>8. q \in Seq(R) /\ Distinct(q) /\ ToSet(q) = ToSet(r) \cup disks
  BY <1>3, <1>4, <1>7, ConcatElements
<1>9. Len(q) = Len(r) + Len(s)
  BY <1>3, <1>4, ConcatLength
<1>10. ToSet(q) \cap ToSet(t) = {}
  BY <1>2, <1>6, <1>7, <1>8
<1>11. relations'[f] = u /\ \A g \in Fdo \ {f} : relations'[g] = relations[g]
  BY <1>3 DEF ChainTypes
<1> HIDE DEF q
<1>12. /\ u \in Seq(R) /\ Distinct(u)
       /\ ToSet(u) = ToSet(r) \cup disks \cup ({p} \ {Null})
  BY <1>6, <1>8, <1>10, ConcatElements
<1>13. Len(u) = Len(q) + Len(t)
  BY <1>6, <1>8, ConcatLength
<1> HIDE DEF u
<1>14. Len(u) = Len(r) + Cardinality(disks) + IF p = Null THEN 0 ELSE 1
  BY <1>3, <1>4, <1>5, <1>6, <1>9, <1>13
<1> USE DEF R, r
<1> QED
  BY <1>1, <1>2, <1>5, <1>11, <1>12, <1>14

(* The bus of a mini-driver is attached above what is above the PDO.       *)
Attaches(f, m) ==
  /\ worker.at = "claimed" /\ worker' = Rest
  /\ bus[f].at = "unborn" /\ m \in ToSet(Mini)
  /\ \E l \in Pdo \cup Fdo :
       /\ bus' = [bus EXCEPT ![f] = [at |-> "attached", by |-> m, pdo |-> worker.on, lower |-> l]]
       /\ stack[worker.on] = <<>> => l = worker.on
  /\ stack' = [stack EXCEPT ![worker.on] = Append(@, f)]
  /\ needed' = [needed EXCEPT ![f] = Drives[hook[worker.on]] \cup {"previous"}]
  /\ UNCHANGED <<intact, claimed, entry, callbacks, probe, hook, parent, known, tried,
                 relations>>

LEMMA AttachSteps ==
  ASSUME ChainTypes, Worked, Attach
  PROVE  \E f \in Fdo, m \in ToSet(Mini) : Attaches(f, m)
<1> DEFINE f == CHOOSE g \in Fdo : bus[g].at = "unborn"
           m == Head(worker.left)
           p == worker.on
           l == IF stack[p] = <<>> THEN p ELSE Last(stack[p])
<1>1. worker.at = "claimed" /\ p \in Pdo
  BY DEF Attach, Worked, Driving, ChainTypes
<1>2. f \in Fdo /\ bus[f].at = "unborn"
  BY <1>1 DEF Worked, Driving
<1>3. m \in ToSet(Mini)
  BY <1>1, Minis DEF Worked
<1>4. l \in Pdo \cup Fdo
  BY <1>1 DEF ChainTypes, Last
<1>5. /\ bus' = [bus EXCEPT ![f] = [at |-> "attached", by |-> m, pdo |-> p, lower |-> l]]
      /\ stack' = [stack EXCEPT ![p] = Append(@, f)]
      /\ needed' = [needed EXCEPT ![f] = Drives[hook[p]] \cup {"previous"}]
      /\ worker' = Rest
      /\ UNCHANGED <<intact, claimed, entry, callbacks, probe, hook, parent, known, tried,
                     relations>>
  BY DEF Attach, memory, probing, pdos
<1>6. stack[p] = <<>> => l = p
  OBVIOUS
<1> HIDE DEF f, m, l
<1>7. Attaches(f, m)
  BY <1>1, <1>2, <1>3, <1>4, <1>5, <1>6 DEF Attaches
<1> QED
  BY <1>2, <1>3, <1>7

LEMMA ChainSteps ==
  ASSUME ChainTypes, Probed, Worked, Answered, [ChainNext]_chainVars
  PROVE  \/ Quiet \/ Finds \/ LooksAt
         \/ \E p \in Pdo : DriveDevice(p)
         \/ \E f \in Fdo, m \in ToSet(Mini) : Attaches(f, m)
         \/ \E f \in Fdo : \E disks \in SUBSET Drives[HookOf(f)], p \in Pdo \cup {Null} :
              Replies(f, disks, p)
         \/ \E f \in Fdo : \/ SendRemove(f) \/ RemoveChildren(f)
                           \/ PassRemove(f) \/ Detach(f) \/ Unclaim(f)
<1>1. CASE Probes
  BY <1>1, QuietSteps, FindsSteps DEF Probes
<1>2. CASE Drive
  BY <1>2, LooksAtSteps, AttachSteps DEF Drive
<1>3. CASE \E f \in Fdo : QueryRelations(f)
  BY <1>3, RepliesSteps
<1>4. CASE UNCHANGED chainVars
  BY <1>4, QuietSteps
<1> QED
  BY <1>1, <1>2, <1>3, <1>4 DEF ChainNext

-----------------------------------------------------------------------------
(* The invariant is kept                                                   *)

(* What a step of the removal of a bus changes.                            *)
Removes(f) ==
  \/ SendRemove(f) \/ RemoveChildren(f) \/ PassRemove(f)
  \/ Detach(f) \/ Unclaim(f)

Onward(f) ==
  \/ bus[f].at = "attached" /\ SendRemove(f) /\ bus' = [bus EXCEPT ![f].at = "children"]
  \/ bus[f].at = "children" /\ RemoveChildren(f) /\ bus' = bus
  \/ bus[f].at = "children" /\ PassRemove(f) /\ bus' = [bus EXCEPT ![f].at = "passed"]
  \/ bus[f].at = "passed"   /\ Detach(f) /\ bus' = [bus EXCEPT ![f].at = "detached"]
  \/ bus[f].at = "detached" /\ Unclaim(f) /\ bus' = [bus EXCEPT ![f].at = "gone"]

LEMMA OnwardSteps ==
  ASSUME NEW f \in Fdo, Removes(f)
  PROVE  /\ Onward(f)
         /\ UNCHANGED <<intact, hook, entry, callbacks, probe, needed>>
<1>1. Onward(f)
  BY DEF Removes, Onward, SendRemove, RemoveChildren, PassRemove,
         Detach, Unclaim
<1>2. UNCHANGED <<intact, hook, entry, callbacks, probe, needed>>
  BY DEF Removes, SendRemove, RemoveChildren, PassRemove,
         Detach, Unclaim, memory, probing, pdos
<1> QED
  BY <1>1, <1>2

(* The part of a stack which is below a bus that is detached.              *)
LEMMA BelowElements ==
  ASSUME NEW S, NEW s \in Seq(S), Distinct(s), NEW f
  PROVE  LET t == IF Contains(s, f)
                  THEN SubSeq(s, 1, (CHOOSE i \in 1 .. Len(s) : s[i] = f) - 1) ELSE s
         IN  /\ t \in Seq(S) /\ Distinct(t) /\ ToSet(t) \subseteq ToSet(s) \ {f}
<1>0. DOMAIN s = 1 .. Len(s) /\ Len(s) \in Nat /\ ToSet(s) = {s[i] : i \in 1 .. Len(s)}
  BY Elements
<1>1. CASE Contains(s, f)
  <2> DEFINE k == CHOOSE i \in 1 .. Len(s) : s[i] = f
             t == SubSeq(s, 1, k - 1)
  <2>1. k \in 1 .. Len(s) /\ s[k] = f
    BY <1>0, <1>1 DEF Contains
  <2> HIDE DEF k
  <2>2. /\ t \in Seq(S) /\ Len(t) = k - 1 /\ \A i \in 1 .. k - 1 : t[i] = s[i]
    BY <2>1, <1>0
  <2> HIDE DEF t
  <2>3. ToSet(t) = {t[i] : i \in 1 .. k - 1}
    BY <2>2, Elements
  <2>4. \A i \in 1 .. k - 1 : i \in 1 .. Len(s) /\ i # k
    BY <2>1, <1>0
  <2>5. Distinct(t)
    BY <2>2, <2>4 DEF Distinct
  <2>6. ToSet(t) \subseteq ToSet(s) \ {f}
    BY <1>0, <2>1, <2>2, <2>3, <2>4 DEF Distinct
  <2> QED
    BY <1>1, <2>2, <2>5, <2>6 DEF t, k
<1>2. CASE ~Contains(s, f)
  <2>1. f \notin ToSet(s)
    BY <1>0, <1>2 DEF Contains
  <2> QED
    BY <1>2, <2>1
<1> QED
  BY <1>1, <1>2

LEMMA DetachStack ==
  ASSUME ChainTypes, Stacked, NEW f \in Fdo, bus[f].pdo \in Pdo, Detach(f)
  PROVE  \E t \in Seq(Fdo) :
           /\ stack' = [stack EXCEPT ![bus[f].pdo] = t]
           /\ Distinct(t) /\ ToSet(t) \subseteq ToSet(stack[bus[f].pdo]) \ {f}
<1> DEFINE s == stack[bus[f].pdo]
           t == IF Contains(s, f)
                THEN SubSeq(s, 1, (CHOOSE i \in 1 .. Len(s) : s[i] = f) - 1) ELSE s
<1>1. s \in Seq(Fdo) /\ Distinct(s)
  BY DEF ChainTypes, Stacked
<1>2. t \in Seq(Fdo) /\ Distinct(t) /\ ToSet(t) \subseteq ToSet(s) \ {f}
  <2> HIDE DEF s
  <2> QED
    BY <1>1, BelowElements
<1>3. stack' = [stack EXCEPT ![bus[f].pdo] = t]
  BY DEF Detach
<1> HIDE DEF t
<1> QED
  BY <1>2, <1>3

LEMMA PdoTypes ==
  ASSUME ChainTypes, NEW p, NEW h, NEW b \in Fdo \cup {MainBus, Null},
         NoPdo \/ NewPdo(p, h, b)
  PROVE  /\ hook' \in [Pdo -> Hook \cup {Null}]
         /\ parent' \in [Pdo -> Fdo \cup {MainBus, Null}]
<1>1. CASE NoPdo
  BY <1>1 DEF NoPdo, ChainTypes
<1>2. CASE NewPdo(p, h, b)
  BY <1>2 DEF NewPdo, ChainTypes
<1> QED
  BY <1>1, <1>2

LEMMA ChainTypesKept ==
  ASSUME ChainInv, [ChainNext]_chainVars
  PROVE  ChainTypes'
<1> USE DEF ChainInv
<1>1. CASE Quiet
  BY <1>1 DEF Quiet, ChainTypes
<1>2. CASE Finds
  <2>1. known' \subseteq Pdo
    BY <1>2 DEF Finds, ChainTypes
  <2>2. intact' \in [Hook -> BOOLEAN]
    BY <1>2 DEF Finds, ChainTypes
  <2>3. /\ hook' \in [Pdo -> Hook \cup {Null}]
        /\ parent' \in [Pdo -> Fdo \cup {MainBus, Null}]
    <3>1. \E p, h : \E b \in {MainBus, Null} : NoPdo \/ NewPdo(p, h, b)
      BY <1>2 DEF Finds
    <3> QED
      BY <3>1, PdoTypes
  <2> QED
    BY <1>2, <2>1, <2>2, <2>3 DEF Finds, ChainTypes
<1>3. CASE LooksAt
  <2>1. claimed' \in [Hook -> BOOLEAN]
    BY <1>3 DEF LooksAt, ChainTypes
  <2>2. DOMAIN worker' = {"at", "on", "left"}
    BY <1>3 DEF LooksAt, Rest
  <2> QED
    BY <1>3, <2>1, <2>2 DEF LooksAt, ChainTypes
<1>4. ASSUME NEW p \in Pdo, DriveDevice(p)  PROVE ChainTypes'
  BY <1>4 DEF DriveDevice, ChainTypes, memory, buses
<1>5. ASSUME NEW f \in Fdo, NEW m \in ToSet(Mini), Attaches(f, m)  PROVE ChainTypes'
  <2>1. worker.on \in Pdo
    BY <1>5 DEF Attaches, Worked, Driving, ChainTypes
  <2>2. stack' \in [Pdo -> Seq(Fdo)]
    BY <1>5, <2>1 DEF Attaches, ChainTypes
  <2>3. DOMAIN worker' = {"at", "on", "left"}
    BY <1>5 DEF Attaches, Rest
  <2>4. DOMAIN needed' = Fdo
    BY <1>5 DEF Attaches, ChainTypes
  <2>5. bus' \in [Fdo -> Device]
    BY <1>5, <2>1, Minis DEF Attaches, ChainTypes, Device
  <2> QED
    BY <1>5, <2>2, <2>3, <2>4, <2>5 DEF Attaches, ChainTypes
<1>6. ASSUME NEW f \in Fdo, NEW disks \in SUBSET Drives[HookOf(f)],
             NEW p \in Pdo \cup {Null}, Replies(f, disks, p)
      PROVE  ChainTypes'
  <2>1. relations' \in [Fdo -> Seq(Pdo \cup Disks)]
    <3>1. /\ relations'[f] \in Seq(Pdo \cup Disks)
          /\ \A g \in Fdo \ {f} : relations'[g] = relations[g]
      BY <1>6, ReplyRelations
    <3>2. \E x : relations' = [relations EXCEPT ![f] = x]
      BY <1>6 DEF Replies
    <3> QED
      BY <3>1, <3>2 DEF ChainTypes
  <2>2. known' \subseteq Pdo
    BY <1>6 DEF Replies, ChainTypes
  <2>3. DOMAIN needed' = Fdo
    BY <1>6 DEF Replies, ChainTypes
  <2>4. /\ hook' \in [Pdo -> Hook \cup {Null}]
        /\ parent' \in [Pdo -> Fdo \cup {MainBus, Null}]
    <3>1. NoPdo \/ NewPdo(p, Prev[HookOf(f)], f)
      BY <1>6 DEF Replies
    <3> QED
      BY <3>1, PdoTypes
  <2> QED
    BY <1>6, <2>1, <2>2, <2>3, <2>4 DEF Replies, ChainTypes
<1>7. ASSUME NEW f \in Fdo, Removes(f)  PROVE ChainTypes'
  <2>1. bus' \in [Fdo -> Device]
    <3>1. \E a \in {"children", "passed", "detached", "gone"} :
            bus' = bus \/ bus' = [bus EXCEPT ![f].at = a]
      <4>1. Onward(f)
        BY <1>7, OnwardSteps
      <4> QED
        BY <4>1 DEF Onward
    <3>2. bus \in [Fdo -> Device]
      BY DEF ChainTypes
    <3> QED
      BY <3>1, <3>2 DEF Device
  <2>2. UNCHANGED <<intact, hook>> /\ DOMAIN needed' = Fdo
    BY <1>7, OnwardSteps DEF ChainTypes
  <2>3. claimed' \in [Hook -> BOOLEAN]
    BY <1>7 DEF Removes, SendRemove, RemoveChildren, PassRemove,
           Detach, Unclaim, memory, ChainTypes
  <2>4. /\ parent' \in [Pdo -> Fdo \cup {MainBus, Null}]
        /\ known' \subseteq Pdo /\ tried' \subseteq Pdo
    BY <1>7 DEF Removes, SendRemove, RemoveChildren, PassRemove,
           Detach, Unclaim, pdos, ChainTypes
  <2>5. DOMAIN worker' = {"at", "on", "left"}
    BY <1>7 DEF Removes, SendRemove, RemoveChildren, PassRemove,
           Detach, Unclaim, ChainTypes, Rest
  <2>6. relations' \in [Fdo -> Seq(Pdo \cup Disks)]
    <3>1. relations' = relations \/ relations' = [relations EXCEPT ![f] = <<>>]
      BY <1>7 DEF Removes, SendRemove, RemoveChildren, PassRemove,
             Detach, Unclaim
    <3>2. <<>> \in Seq(Pdo \cup Disks)
      OBVIOUS
    <3>3. relations \in [Fdo -> Seq(Pdo \cup Disks)]
      BY DEF ChainTypes
    <3> QED
      BY <3>1, <3>2, <3>3
  <2>7. stack' \in [Pdo -> Seq(Fdo)]
    <3>1. CASE UNCHANGED stack
      BY <3>1 DEF ChainTypes
    <3>2. CASE Detach(f)
      <4>1. bus[f].pdo \in Pdo
        BY <3>2 DEF Detach, Answered
      <4>2. \E t \in Seq(Fdo) : stack' = [stack EXCEPT ![bus[f].pdo] = t]
        BY <3>2, <4>1, DetachStack
      <4>3. stack \in [Pdo -> Seq(Fdo)]
        BY DEF ChainTypes
      <4> QED
        BY <4>2, <4>3
    <3> QED
      BY <1>7, <3>1, <3>2 DEF Removes, SendRemove, RemoveChildren,
         PassRemove, Unclaim
  <2> QED
    BY <2>1, <2>2, <2>3, <2>4, <2>5, <2>6, <2>7 DEF ChainTypes
<1> QED
  BY <1>1, <1>2, <1>3, <1>4, <1>5, <1>6, <1>7, ChainSteps DEF Removes

LEMMA AppendSecond ==
  ASSUME NEW a, NEW b
  PROVE  Append(<<a>>, b) = <<a, b>>
<1> DEFINE t == Append(<<a>>, b)
<1>1. <<a>> \in Seq({a, b}) /\ b \in {a, b}
  OBVIOUS
<1>2. t \in Seq({a, b}) /\ Len(t) = 2 /\ t[1] = a /\ t[2] = b
  BY <1>1, AppendProperties
<1> HIDE DEF t
<1>3. t = <<a, b>>
  BY <1>2
<1> QED
  BY <1>3 DEF t

LEMMA ProbedKept ==
  ASSUME ChainInv, [ChainNext]_chainVars
  PROVE  Probed'
<1> USE DEF ChainInv
<1>1. CASE Quiet
  <2>1. UNCHANGED <<worker, bus, hook, intact>>
    BY <1>1 DEF Quiet
  <2>2. /\ probe' \in {<<"unprobed">>, <<"memdisk", "other">>, <<"memdisk">>, <<"other">>, <<>>}
        /\ probe' # <<>> => probe # <<>>
    <3>1. /\ Tail(<<"memdisk", "other">>) = <<"other">> /\ Tail(<<"memdisk">>) = <<>>
          /\ Head(<<"unprobed">>) = "unprobed" /\ Head(<<"other">>) = "other"
      OBVIOUS
    <3>2. CASE UNCHANGED probe
      BY <3>2 DEF Probed
    <3>3. CASE probe = <<"unprobed">> /\ probe' = callbacks
      BY <3>3 DEF Probed
    <3>4. CASE probe # <<>> /\ Head(probe) = "memdisk" /\ probe' = Tail(probe)
      BY <3>1, <3>4 DEF Probed
    <3> QED
      BY <1>1, <3>2, <3>3, <3>4 DEF Quiet
  <2>3. <<callbacks', entry'>> \in {<< <<>>, <<"memdisk", "other">> >>,
                                    << <<"memdisk">>, <<"other">> >>,
                                    << <<"memdisk", "other">>, <<>> >>}
    <3>1. CASE UNCHANGED <<entry, callbacks>>
      BY <3>1 DEF Probed
    <3>2. CASE entry # <<>> /\ callbacks' = Append(callbacks, Head(entry)) /\ entry' = Tail(entry)
      <4>0. /\ Append(<<>>, "memdisk") = <<"memdisk">>
            /\ Append(<<"memdisk">>, "other") = <<"memdisk", "other">>
        BY AppendSecond
      <4>1. /\ Tail(<<"memdisk", "other">>) = <<"other">> /\ Tail(<<"other">>) = <<>>
            /\ Head(<<"memdisk", "other">>) = "memdisk" /\ Head(<<"other">>) = "other"
        OBVIOUS
      <4>2. CASE callbacks = <<>> /\ entry = <<"memdisk", "other">>
        BY <3>2, <4>0, <4>1, <4>2
      <4>3. CASE callbacks = <<"memdisk">> /\ entry = <<"other">>
        BY <3>2, <4>0, <4>1, <4>3
      <4> QED
        BY <3>2, <4>2, <4>3 DEF Probed
    <3> QED
      BY <1>1, <3>1, <3>2 DEF Quiet
  <2> QED
    BY <2>1, <2>2, <2>3 DEF Probed
<1>2. CASE Finds
  <2>1. UNCHANGED <<worker, bus, entry, callbacks>> /\ probe # <<>> /\ probe' \in {probe, <<>>}
    BY <1>2 DEF Finds
  <2>2. ASSUME probe' # <<>>, NEW q \in Pdo, hook'[q] # Null
        PROVE  ~intact'[hook'[q]]
    <3>1. CASE NoPdo /\ UNCHANGED intact
      BY <2>1, <2>2, <3>1 DEF Probed, NoPdo
    <3>2. CASE \E p \in Pdo, h \in Hook, b \in {MainBus, Null} :
                 NewPdo(p, h, b) /\ intact' = [intact EXCEPT ![h] = FALSE]
      <4>1. PICK p \in Pdo, h \in Hook : /\ hook' = [hook EXCEPT ![p] = h]
                                          /\ intact' = [intact EXCEPT ![h] = FALSE]
        BY <3>2 DEF NewPdo
      <4>2. CASE q = p
        BY <4>1, <4>2 DEF ChainTypes
      <4>3. CASE q # p
        <5>1. hook'[q] = hook[q] /\ hook[q] \in Hook /\ ~intact[hook[q]]
          BY <2>1, <2>2, <4>1, <4>3 DEF Probed, ChainTypes
        <5> QED
          BY <4>1, <5>1 DEF ChainTypes
      <4> QED
        BY <4>2, <4>3
    <3> QED
      BY <1>2, <2>2, <3>1, <3>2 DEF Finds
  <2> QED
    BY <2>1, <2>2 DEF Probed
<1>3. ASSUME probe = <<>>, UNCHANGED <<entry, callbacks, probe>>  PROVE Probed'
  BY <1>3 DEF Probed
<1>4. worker # Rest \/ (\E f \in Fdo : bus[f].at # "unborn") => probe = <<>>
  BY DEF Probed
<1>5. CASE LooksAt
  BY <1>3, <1>4, <1>5 DEF LooksAt, Driving, Rest
<1>6. ASSUME NEW p \in Pdo, DriveDevice(p)  PROVE Probed'
  BY <1>3, <1>6 DEF DriveDevice, probing
<1>7. ASSUME NEW f \in Fdo, NEW m \in ToSet(Mini), Attaches(f, m)  PROVE Probed'
  BY <1>3, <1>4, <1>7 DEF Attaches, Rest
<1>8. ASSUME NEW f \in Fdo, NEW disks \in SUBSET Drives[HookOf(f)],
             NEW p \in Pdo \cup {Null}, Replies(f, disks, p)
      PROVE  Probed'
  BY <1>3, <1>4, <1>8 DEF Replies
<1>9. ASSUME NEW f \in Fdo, Removes(f)  PROVE Probed'
  <2>1. bus[f].at # "unborn" /\ UNCHANGED <<entry, callbacks, probe>>
    BY <1>9, OnwardSteps DEF Onward
  <2> QED
    BY <1>3, <1>4, <2>1
<1> QED
  BY <1>1, <1>2, <1>5, <1>6, <1>7, <1>8, <1>9, ChainSteps DEF Removes

LEMMA StackedKept ==
  ASSUME ChainInv, [ChainNext]_chainVars
  PROVE  Stacked'
<1> USE DEF ChainInv
<1>1. CASE UNCHANGED <<bus, stack>>
  BY <1>1 DEF Stacked, Above
<1>2. CASE Quiet \/ Finds \/ LooksAt \/ \E p \in Pdo : DriveDevice(p)
  BY <1>1, <1>2 DEF Quiet, Finds, LooksAt, DriveDevice, buses
<1>3. ASSUME NEW f \in Fdo, NEW m \in ToSet(Mini), Attaches(f, m)  PROVE Stacked'
  <2>0. worker.on \in Pdo /\ stack[worker.on] \in Seq(Fdo)
    BY <1>3 DEF Attaches, Worked, Driving, ChainTypes
  <2> DEFINE s == stack[worker.on]
  <2>1. Distinct(s) /\ f \notin ToSet(s)
    BY <1>3, <2>0 DEF Attaches, Stacked, Above
  <2>2. Distinct(Append(s, f)) /\ ToSet(Append(s, f)) = ToSet(s) \cup {f}
    BY <2>0, <2>1, AppendElements
  <2>3. stack'[worker.on] = Append(s, f) /\ \A p \in Pdo \ {worker.on} : stack'[p] = stack[p]
    BY <1>3, <2>0 DEF Attaches, ChainTypes
  <2>4. /\ bus'[f].at = "attached" /\ bus'[f].pdo = worker.on
        /\ \A g \in Fdo \ {f} : bus'[g] = bus[g]
    BY <1>3 DEF Attaches, ChainTypes
  <2>5. \A p \in Pdo : \A g \in ToSet(stack[p]) : g \in Fdo \ {f}
    <3>1. \A p \in Pdo : ToSet(stack[p]) \subseteq Fdo
      BY Elements DEF ChainTypes
    <3> QED
      BY <1>3, <3>1 DEF Stacked, Attaches, Above
  <2> HIDE DEF s
  <2>6. ASSUME NEW p \in Pdo
        PROVE  /\ Distinct(stack'[p])
               /\ \A g \in ToSet(stack'[p]) : Above(g)' /\ bus'[g].pdo = p
    <3>1. CASE p = worker.on
      <4>1. Distinct(stack'[p]) /\ ToSet(stack'[p]) = ToSet(s) \cup {f}
        BY <2>2, <2>3, <3>1
      <4>2. \A g \in ToSet(s) : g \in Fdo \ {f} /\ Above(g) /\ bus[g].pdo = worker.on
        BY <2>0, <2>5 DEF Stacked, s
      <4> QED
        BY <2>4, <3>1, <4>1, <4>2 DEF Above
    <3>2. CASE p # worker.on
      BY <2>3, <2>4, <2>5, <3>2 DEF Stacked, Above
    <3> QED
      BY <3>1, <3>2
  <2> QED
    BY <2>6 DEF Stacked
<1>4. ASSUME NEW f \in Fdo, NEW disks \in SUBSET Drives[HookOf(f)],
             NEW p \in Pdo \cup {Null}, Replies(f, disks, p)
      PROVE  Stacked'
  BY <1>1, <1>4 DEF Replies
<1>5. ASSUME NEW f \in Fdo, Removes(f)  PROVE Stacked'
  <2>1. CASE \/ SendRemove(f) \/ RemoveChildren(f) \/ PassRemove(f)
             \/ Unclaim(f)
    <3>1. UNCHANGED stack
      BY <2>1 DEF SendRemove, RemoveChildren, PassRemove, Unclaim
    <3>2. \A g \in Fdo : bus'[g].pdo = bus[g].pdo /\ (Above(g) => Above(g)')
      <4>1. \/ bus' = bus
            \/ bus[f].at = "attached" /\ bus' = [bus EXCEPT ![f].at = "children"]
            \/ bus[f].at = "children" /\ bus' = [bus EXCEPT ![f].at = "passed"]
            \/ bus[f].at = "detached" /\ bus' = [bus EXCEPT ![f].at = "gone"]
        BY <2>1 DEF SendRemove, RemoveChildren, PassRemove, Unclaim
      <4>2. bus \in [Fdo -> Device]
        BY DEF ChainTypes
      <4> QED
        BY <4>1, <4>2 DEF Above, Device
    <3>3. \A p \in Pdo : ToSet(stack[p]) \subseteq Fdo
      BY Elements DEF ChainTypes
    <3> QED
      BY <3>1, <3>2, <3>3 DEF Stacked
  <2>2. CASE Detach(f)
    <3>1. bus[f].pdo \in Pdo /\ bus' = [bus EXCEPT ![f].at = "detached"]
      BY <2>2 DEF Detach, Answered
    <3>2. PICK t \in Seq(Fdo) :
            /\ stack' = [stack EXCEPT ![bus[f].pdo] = t]
            /\ Distinct(t) /\ ToSet(t) \subseteq ToSet(stack[bus[f].pdo]) \ {f}
      BY <2>2, <3>1, DetachStack
    <3>3. \A g \in Fdo \ {f} : bus'[g] = bus[g]
      BY <3>1 DEF ChainTypes
    <3>4. \A p \in Pdo : ToSet(stack[p]) \subseteq Fdo
      BY Elements DEF ChainTypes
    <3>5. ASSUME NEW p \in Pdo
          PROVE  /\ Distinct(stack'[p])
                 /\ ToSet(stack'[p]) \subseteq ToSet(stack[p]) \ {f}
      <4>1. CASE p = bus[f].pdo
        BY <3>2, <4>1 DEF ChainTypes
      <4>2. CASE p # bus[f].pdo
        BY <3>2, <4>2 DEF ChainTypes, Stacked
      <4> QED
        BY <4>1, <4>2
    <3> QED
      BY <3>3, <3>4, <3>5 DEF Stacked, Above
  <2> QED
    BY <1>5, <2>1, <2>2 DEF Removes
<1> QED
  BY <1>2, <1>3, <1>4, <1>5, ChainSteps DEF Removes

(* A PDO keeps its hook, and a bus its PDO.                                *)
LEMMA HooksKept ==
  ASSUME ChainInv, [ChainNext]_chainVars
  PROVE  /\ \A q \in Pdo : hook[q] # Null => hook'[q] = hook[q]
         /\ \A f \in Fdo : bus[f].at # "unborn" =>
              /\ bus'[f].pdo = bus[f].pdo /\ bus'[f].by = bus[f].by
              /\ bus'[f].lower = bus[f].lower
              /\ HookOf(f) \in Hook /\ HookOf(f)' = HookOf(f)
<1> USE DEF ChainInv
<1>1. \A q \in Pdo : hook[q] # Null => hook'[q] = hook[q]
  <2>1. UNCHANGED hook \/ \E p, h, b : NewPdo(p, h, b)
    <3>1. CASE Quiet \/ Finds \/ LooksAt
      BY <3>1 DEF Quiet, Finds, LooksAt, NoPdo
    <3>2. ASSUME NEW p \in Pdo, DriveDevice(p)  PROVE UNCHANGED hook
      BY <3>2 DEF DriveDevice
    <3>3. ASSUME NEW f, NEW m, Attaches(f, m)  PROVE UNCHANGED hook
      BY <3>3 DEF Attaches
    <3>4. ASSUME NEW f, NEW disks, NEW p, Replies(f, disks, p)
          PROVE  UNCHANGED hook \/ NewPdo(p, Prev[HookOf(f)], f)
      BY <3>4 DEF Replies, NoPdo
    <3>5. ASSUME NEW f \in Fdo, Removes(f)  PROVE UNCHANGED hook
      BY <3>5, OnwardSteps
    <3> QED
      BY <3>1, <3>2, <3>3, <3>4, <3>5, ChainSteps DEF Removes
  <2> QED
    BY <2>1 DEF NewPdo, ChainTypes
<1>2. \A f \in Fdo : bus[f].at # "unborn" =>
        bus'[f].pdo = bus[f].pdo /\ bus'[f].by = bus[f].by /\ bus'[f].lower = bus[f].lower
  <2>0. bus \in [Fdo -> Device]
    BY DEF ChainTypes
  <2>1. \/ UNCHANGED bus
        \/ \E f \in Fdo : \E x : bus[f].at = "unborn" /\ bus' = [bus EXCEPT ![f] = x]
        \/ \E f \in Fdo : \E a : bus' = [bus EXCEPT ![f].at = a]
    <3>1. CASE Quiet \/ Finds \/ LooksAt
      BY <3>1 DEF Quiet, Finds, LooksAt
    <3>2. ASSUME NEW p \in Pdo, DriveDevice(p)  PROVE UNCHANGED bus
      BY <3>2 DEF DriveDevice, buses
    <3>3. ASSUME NEW f, NEW m, Attaches(f, m)
          PROVE  \E x : bus[f].at = "unborn" /\ bus' = [bus EXCEPT ![f] = x]
      BY <3>3 DEF Attaches
    <3>4. ASSUME NEW f, NEW disks, NEW p, Replies(f, disks, p)  PROVE UNCHANGED bus
      BY <3>4 DEF Replies
    <3>5. ASSUME NEW f \in Fdo, Removes(f)
          PROVE  UNCHANGED bus \/ \E a : bus' = [bus EXCEPT ![f].at = a]
      BY <3>5, OnwardSteps DEF Onward
    <3> QED
      BY <3>1, <3>2, <3>3, <3>4, <3>5, ChainSteps DEF Removes
  <2> QED
    BY <2>0, <2>1 DEF Device
<1>3. ASSUME NEW f \in Fdo, bus[f].at # "unborn"
      PROVE  HookOf(f) \in Hook /\ HookOf(f)' = HookOf(f)
  <2>1. bus[f].pdo \in Pdo /\ hook[bus[f].pdo] # Null
    BY <1>3 DEF Answered
  <2>2. hook[bus[f].pdo] \in Hook
    BY <2>1 DEF ChainTypes
  <2> QED
    BY <1>1, <1>2, <1>3, <2>1, <2>2 DEF HookOf
<1> QED
  BY <1>1, <1>2, <1>3

(* The PDO of the worker is still reported, so that it has a hook.         *)
LEMMA WorkersHook ==
  ASSUME ChainInv, Driving
  PROVE  worker.on \in Pdo /\ hook[worker.on] \in Hook
BY DEF ChainInv, Worked, Reported, ChainTypes

LEMMA WorkedKept ==
  ASSUME ChainInv, [ChainNext]_chainVars
  PROVE  Worked'
<1> USE DEF ChainInv
<1>0. bus \in [Fdo -> Device]
  BY DEF ChainTypes
<1>1. CASE Quiet
  BY <1>1 DEF Quiet, Worked, Driving, Live, Children
<1>2. CASE Finds
  <2>1. worker' = Rest /\ \A f \in Fdo : bus'[f].at = "unborn"
    BY <1>2 DEF Finds, Probed
  <2> QED
    BY <2>1 DEF Worked, Driving, Live, Rest
<1>3. CASE LooksAt
  <2>1. UNCHANGED <<bus, tried, parent, relations>> /\ Driving
    BY <1>3 DEF LooksAt
  <2>2. \A f \in Fdo : bus[f].at # "children"
    BY <2>1 DEF Worked, Driving
  <2>3. CASE worker' = Rest
    BY <2>1, <2>2, <2>3 DEF Worked, Driving, Rest
  <2>4. CASE worker' # Rest
    <3>1. /\ worker'.on = worker.on /\ worker'.at \in {"look", "claimed"}
          /\ worker'.left \in {Mini, <<"grub4dos", "other">>, <<"other">>, <<>>}
          /\ worker'.at = "claimed" => worker'.left # <<>>
      BY <1>3, <2>4 DEF LooksAt
    <3> QED
      BY <2>1, <2>2, <3>1 DEF Worked, Driving, Live
  <2> QED
    BY <2>3, <2>4
<1>4. ASSUME NEW p \in Pdo, DriveDevice(p)  PROVE Worked'
  <2>1. /\ worker.at = "idle" /\ p \in known /\ p \notin tried /\ tried' = tried \cup {p}
        /\ \E f \in Fdo : bus[f].at = "unborn"
        /\ worker' = [at |-> "look", on |-> p, left |-> Mini]
        /\ UNCHANGED <<bus, relations, parent>>
    BY <1>4 DEF DriveDevice, Rest, buses
  <2>2. parent[p] # Null /\ \A f \in Fdo : Live(f) => bus[f].pdo # p
    BY <2>1 DEF Reported, Answered
  <2>3. \A f \in Fdo : bus[f].at # "children"
    BY <2>1 DEF Worked
  <2> QED
    BY <2>1, <2>2, <2>3 DEF Worked, Driving, Live
<1>5. ASSUME NEW f \in Fdo, NEW m \in ToSet(Mini), Attaches(f, m)  PROVE Worked'
  <2>1. worker' = Rest /\ \A g \in Fdo : bus[g].at # "children"
    BY <1>5 DEF Attaches, Worked
  <2>2. \A g \in Fdo : bus'[g].at # "children"
    BY <1>0, <1>5, <2>1 DEF Attaches
  <2> QED
    BY <2>1, <2>2 DEF Worked, Driving, Rest
<1>6. ASSUME NEW f \in Fdo, NEW disks \in SUBSET Drives[HookOf(f)],
             NEW p \in Pdo \cup {Null}, Replies(f, disks, p)
      PROVE  Worked'
  <2>1. worker' = worker /\ bus' = bus /\ worker.at = "idle"
    BY <1>6 DEF Replies
  <2> QED
    BY <2>1 DEF Worked, Driving
<1>7. ASSUME NEW f \in Fdo, SendRemove(f)  PROVE Worked'
  <2>1. /\ worker.at = "idle" /\ worker'.at = "removing" /\ UNCHANGED relations
        /\ bus' = [bus EXCEPT ![f].at = "children"] /\ bus[f].at = "attached"
        /\ \A g \in Fdo : Live(g) => bus[g].pdo \notin Children(f)
    BY <1>7 DEF SendRemove, Rest, Live
  <2>2. \A g \in Fdo : /\ bus'[g].at = "children" => g = f
                       /\ bus'[g].pdo = bus[g].pdo /\ (Live(g)' => Live(g))
    BY <1>0, <2>1 DEF Worked, Live, Device
  <2>3. Children(f)' = Children(f)
    BY <2>1 DEF Children
  <2> QED
    BY <2>1, <2>2, <2>3 DEF Worked, Driving
<1>8. ASSUME NEW f \in Fdo, RemoveChildren(f)  PROVE Worked'
  <2>1. /\ worker' = worker /\ bus' = bus /\ bus[f].at = "children"
        /\ relations' = [relations EXCEPT ![f] = <<>>]
    BY <1>8 DEF RemoveChildren
  <2>2. worker.at = "removing" /\ \A g \in Fdo : bus[g].at = "children" => g = f
    BY <2>1 DEF Worked
  <2>3. Children(f)' = {}
    BY <2>1, NoElements DEF Children, ChainTypes
  <2> QED
    BY <2>1, <2>2, <2>3 DEF Worked, Driving
<1>9. ASSUME NEW f \in Fdo, PassRemove(f)  PROVE Worked'
  <2>1. /\ worker' = Rest /\ bus[f].at = "children"
        /\ bus' = [bus EXCEPT ![f].at = "passed"]
    BY <1>9 DEF PassRemove
  <2>2. \A g \in Fdo : bus'[g].at # "children"
    BY <1>0, <2>1 DEF Worked, Device
  <2> QED
    BY <2>1, <2>2 DEF Worked, Driving, Rest
<1>10. ASSUME NEW f \in Fdo, Detach(f) \/ Unclaim(f)  PROVE Worked'
  <2>1. /\ UNCHANGED <<worker, tried, parent, relations>>
        /\ bus[f].at \in {"passed", "detached"}
        /\ \E a \in {"detached", "gone"} : bus' = [bus EXCEPT ![f].at = a]
    BY <1>10 DEF Detach, Unclaim, pdos
  <2>2. \A g \in Fdo : /\ bus'[g].pdo = bus[g].pdo
                       /\ bus'[g].at = "children" <=> bus[g].at = "children"
                       /\ bus[g].at = "unborn" => bus'[g].at = "unborn"
                       /\ Live(g)' <=> Live(g)
    BY <1>0, <2>1 DEF Live, Device
  <2> QED
    BY <2>1, <2>2 DEF Worked, Driving, Children
<1> QED
  BY <1>1, <1>2, <1>3, <1>4, <1>5, <1>6, <1>7, <1>8, <1>9, <1>10, ChainSteps

LEMMA HeldKept ==
  ASSUME ChainInv, [ChainNext]_chainVars
  PROVE  Held'
<1> USE DEF ChainInv
<1>0. bus \in [Fdo -> Device] /\ claimed \in [Hook -> BOOLEAN]
  BY DEF ChainTypes
<1>a. ASSUME NEW f \in Fdo, Holds(f)
      PROVE  /\ HookOf(f) \in Hook /\ HookOf(f)' = HookOf(f)
             /\ bus'[f].pdo = bus[f].pdo /\ bus'[f].lower = bus[f].lower
  BY <1>a, HooksKept DEF Holds
<1>b. ASSUME UNCHANGED claimed, \A f \in Fdo : Holds(f)' => Holds(f),
             \A h \in Hook : Claiming(h)' => Claiming(h)
      PROVE  Held'
  BY <1>a, <1>b DEF Held
<1>1. CASE Quiet
  BY <1>1, <1>b DEF Quiet, Holds, Claiming
<1>2. CASE Finds
  <2>1. worker' = Rest /\ \A f \in Fdo : bus'[f].at = "unborn"
    BY <1>2 DEF Finds, Probed
  <2>2. (\A h \in Hook : ~Claiming(h)') /\ \A f \in Fdo : ~Holds(f)'
    BY <2>1 DEF Claiming, Holds, Rest
  <2> QED
    BY <2>2 DEF Held
<1>3. CASE LooksAt
  <2> DEFINE h == hook[worker.on]
  <2>1. h \in Hook /\ UNCHANGED <<bus, hook>>
    BY <1>3, WorkersHook DEF LooksAt
  <2>2. \A f \in Fdo : Holds(f)' <=> Holds(f)
    BY <2>1 DEF Holds
  <2>3. CASE UNCHANGED claimed /\ worker'.at # "claimed"
    BY <1>b, <2>2, <2>3 DEF Claiming
  <2>4. CASE worker'.at = "look" /\ claimed' = [claimed EXCEPT ![h] = TRUE]
    <3>1. \A k \in Hook : ~Claiming(k)' /\ (claimed[k] => claimed'[k])
      BY <1>0, <2>4 DEF Claiming
    <3> QED
      BY <1>a, <2>2, <3>1 DEF Held
  <2>5. CASE /\ worker'.at = "claimed" /\ worker'.on = worker.on
             /\ claimed' = [claimed EXCEPT ![h] = TRUE]
             /\ ~claimed[h] \/ Vendor[h] = "grub4dos"
    <3>1. \A k \in Hook : /\ Claiming(k)' => k = h
                          /\ claimed'[h] /\ (claimed[k] => claimed'[k])
      BY <1>0, <2>1, <2>5 DEF Claiming
    <3>2. \A f \in Fdo : Holds(f) /\ Vendor[HookOf(f)] # "grub4dos" => HookOf(f) # h
      BY <2>5 DEF Held
    <3> QED
      BY <1>a, <2>1, <2>2, <3>1, <3>2 DEF Held
  <2>6. CASE /\ worker.at = "claimed" /\ worker'.at = "look"
             /\ claimed' = [claimed EXCEPT ![h] = FALSE]
    <3>1. \A k \in Hook : ~Claiming(k)' /\ (claimed[k] /\ k # h => claimed'[k])
      BY <1>0, <2>6 DEF Claiming
    <3>2. Claiming(h)
      BY <2>6 DEF Claiming
    <3>3. \A f \in Fdo : Holds(f) /\ Vendor[HookOf(f)] # "grub4dos" => HookOf(f) # h
      BY <3>2 DEF Held
    <3> QED
      BY <1>a, <2>2, <3>1, <3>3 DEF Held
  <2> QED
    BY <1>3, <2>3, <2>4, <2>5, <2>6 DEF LooksAt, Rest
<1>4. ASSUME NEW p \in Pdo, DriveDevice(p)  PROVE Held'
  <2>1. UNCHANGED <<claimed, bus, hook>> /\ worker'.at = "look"
    BY <1>4 DEF DriveDevice, memory, buses
  <2> QED
    BY <1>b, <2>1 DEF Holds, Claiming
<1>5. ASSUME NEW f \in Fdo, NEW m \in ToSet(Mini), Attaches(f, m)  PROVE Held'
  <2> DEFINE h == hook[worker.on]
             s == stack[worker.on]
  <2>1. worker.on \in Pdo /\ h \in Hook /\ Claiming(h)
    BY <1>5, WorkersHook DEF Attaches, Driving, Claiming
  <2>2. UNCHANGED <<claimed, hook>> /\ \A k \in Hook : ~Claiming(k)'
    BY <1>5 DEF Attaches, Claiming, Rest
  <2>3. \A g \in Fdo \ {f} : bus'[g] = bus[g] /\ (Holds(g)' <=> Holds(g))
    BY <1>0, <1>5 DEF Attaches, Holds
  <2>4. bus'[f].pdo = worker.on /\ (s = <<>> => bus'[f].lower = worker.on)
    BY <1>0, <1>5 DEF Attaches
  <2>5. HookOf(f)' = h
    BY <2>2, <2>4 DEF HookOf
  <2>6. \A g \in Fdo : Holds(g) /\ Vendor[HookOf(g)] # "grub4dos" => HookOf(g) # h
    BY <2>1 DEF Held
  <2>7. ASSUME Vendor[h] # "grub4dos"
        PROVE  /\ claimed'[h] /\ bus'[f].lower = bus'[f].pdo
               /\ \A g \in Fdo \ {f} : Holds(g)' => HookOf(g)' # h
    <3>1. claimed'[h]
      BY <2>1, <2>2, <2>7 DEF Held
    <3>2. s = <<>>
      <4> SUFFICES ASSUME s # <<>>  PROVE FALSE
        OBVIOUS
      <4>1. s \in Seq(Fdo)
        BY <2>1 DEF ChainTypes
      <4>2. s[1] \in ToSet(s) /\ s[1] \in Fdo
        <5> HIDE DEF s
        <5>1. 1 \in 1 .. Len(s)
          BY <4>1
        <5> QED
          BY <4>1, <5>1, Elements
      <4>3. Above(s[1]) /\ bus[s[1]].pdo = worker.on
        BY <2>1, <4>2 DEF Stacked
      <4>4. Holds(s[1]) /\ HookOf(s[1]) = h
        BY <4>3 DEF Holds, Above, HookOf
      <4> QED
        BY <2>6, <2>7, <4>2, <4>4
    <3> QED
      BY <1>a, <2>3, <2>4, <2>6, <2>7, <3>1, <3>2
  <2> HIDE DEF h, s
  <2>8. ASSUME NEW g \in Fdo, Holds(g)', Vendor[HookOf(g)'] # "grub4dos"
        PROVE  /\ claimed'[HookOf(g)'] /\ bus'[g].lower = bus'[g].pdo
               /\ \A k \in Fdo \ {g} : Holds(k)' => HookOf(k)' # HookOf(g)'
    <3>1. CASE g = f
      BY <2>5, <2>7, <2>8, <3>1
    <3>2. CASE g # f
      <4>1. /\ Holds(g) /\ HookOf(g)' = HookOf(g)
            /\ HookOf(g) # h /\ claimed[HookOf(g)]
            /\ bus[g].lower = bus[g].pdo
            /\ \A k \in Fdo \ {g} : Holds(k) => HookOf(k) # HookOf(g)
        BY <1>a, <2>3, <2>6, <2>8, <3>2 DEF Held
      <4>2. \A k \in Fdo \ {g} : Holds(k)' => HookOf(k)' # HookOf(g)
        BY <1>a, <2>3, <2>5, <4>1
      <4> QED
        BY <2>2, <2>3, <3>2, <4>1, <4>2
    <3> QED
      BY <3>1, <3>2
  <2>9. \A g \in Fdo : Holds(g)' => HookOf(g)' \in Hook
    BY <1>a, <2>1, <2>3, <2>5 DEF h
  <2> QED
    BY <2>2, <2>8, <2>9 DEF Held
<1>6. ASSUME NEW f \in Fdo, NEW disks \in SUBSET Drives[HookOf(f)],
             NEW p \in Pdo \cup {Null}, Replies(f, disks, p)
      PROVE  Held'
  BY <1>6, <1>b DEF Replies, Holds, Claiming
<1>7. ASSUME NEW f \in Fdo, Removes(f), ~Unclaim(f)  PROVE Held'
  <2>1. /\ UNCHANGED <<claimed, hook>>
        /\ worker' = worker \/ worker'.at # "claimed"
    <3>1. CASE SendRemove(f)
      BY <3>1 DEF SendRemove, memory, pdos, Rest
    <3>2. CASE RemoveChildren(f)
      BY <3>2 DEF RemoveChildren, memory
    <3>3. CASE PassRemove(f)
      BY <3>3 DEF PassRemove, memory, Rest
    <3>4. CASE Detach(f)
      BY <3>4 DEF Detach, memory, pdos
    <3> QED
      BY <1>7, <3>1, <3>2, <3>3, <3>4 DEF Removes
  <2>2. \A g \in Fdo : Holds(g)' => Holds(g)
    <3>1. \/ bus' = bus
          \/ /\ bus[f].at \in {"attached", "children", "passed"}
             /\ \E a : bus' = [bus EXCEPT ![f].at = a]
      BY <1>7, OnwardSteps DEF Onward
    <3> QED
      BY <1>0, <3>1 DEF Holds, Device
  <2> QED
    BY <1>b, <2>1, <2>2 DEF Claiming
<1>8. ASSUME NEW f \in Fdo, Unclaim(f)  PROVE Held'
  <2> DEFINE h == HookOf(f)
  <2>1. /\ bus[f].at = "detached" /\ bus' = [bus EXCEPT ![f].at = "gone"]
        /\ UNCHANGED <<hook, worker>>
        /\ UNCHANGED claimed \/ claimed' = [claimed EXCEPT ![h] = FALSE]
    BY <1>8 DEF Unclaim, pdos
  <2>2. Holds(f) /\ \A g \in Fdo : Holds(g)' => g # f /\ Holds(g)
    BY <1>0, <2>1 DEF Holds, Device
  <2>3. \A k \in Hook : /\ Claiming(k)' <=> Claiming(k)
                        /\ claimed[k] /\ k # h => claimed'[k]
    BY <1>0, <2>1 DEF Claiming
  <2>4. \A k \in Hook : Vendor[k] # "grub4dos" /\ Claiming(k) => k # h
    BY <2>2 DEF Held
  <2>5. \A g \in Fdo : Holds(g)' /\ Vendor[HookOf(g)] # "grub4dos" => HookOf(g) # h
    BY <2>2 DEF Held
  <2> HIDE DEF h
  <2> QED
    BY <1>a, <2>2, <2>3, <2>4, <2>5 DEF Held
<1> QED
  BY <1>1, <1>2, <1>3, <1>4, <1>5, <1>6, <1>7, <1>8, ChainSteps DEF Removes

(* A PDO which a bus has reported is that of a bus which goes on.          *)
LEMMA ParentsLive ==
  ASSUME ChainInv, NEW q \in Pdo, NEW f \in Fdo, parent[q] = f
  PROVE  Live(f)
<1>1. q \in ToSet(relations[f])
  BY DEF ChainInv, Reported
<1> QED
  BY <1>1, NoElements DEF ChainInv, Answered

LEMMA ReportedKept ==
  ASSUME ChainInv, [ChainNext]_chainVars
  PROVE  Reported'
<1> USE DEF ChainInv
<1>0. /\ Null \notin Hook \cup Pdo \cup Fdo /\ MainBus \notin Fdo \cup {Null}
      /\ parent \in [Pdo -> Fdo \cup {MainBus, Null}] /\ hook \in [Pdo -> Hook \cup {Null}]
      /\ relations \in [Fdo -> Seq(Pdo \cup Disks)] /\ intact \in [Hook -> BOOLEAN]
  BY ChainAssumption DEF ChainTypes
<1>a. ASSUME NEW q \in Pdo, NEW g \in Fdo, parent[q] = g
      PROVE  Live(g) /\ HookOf(g)' = HookOf(g) /\ HookOf(g) \in Hook
  BY <1>a, ParentsLive, HooksKept DEF Live
<1>b. ASSUME UNCHANGED <<intact, hook, parent, relations, known>>  PROVE Reported'
  <2>1. \A q \in Pdo, g \in Fdo : parent'[q] = g => hook'[q] = Prev[HookOf(g)']
    BY <1>a, <1>b DEF Reported
  <2> QED
    BY <1>b, <2>1 DEF Reported
<1>1. CASE Quiet \/ LooksAt
  BY <1>1, <1>b DEF Quiet, LooksAt
<1>2. ASSUME NEW p \in Pdo, NEW h \in Hook, NEW b \in {MainBus, Null}, NewPdo(p, h, b),
             \A q \in Pdo : hook[q] # Null => ~intact[hook[q]], UNCHANGED relations,
             known' = IF b = MainBus THEN known \cup {p} ELSE known,
             \/ intact' = [intact EXCEPT ![h] = FALSE]
             \/ UNCHANGED intact /\ h = First
      PROVE  Reported'
  <2>1. /\ hook'[p] = h /\ parent'[p] = b /\ hook[p] = Null /\ intact[h]
        /\ \A q \in Pdo \ {p} : hook'[q] = hook[q] /\ parent'[q] = parent[q]
    BY <1>0, <1>2 DEF NewPdo
  <2>2. parent[p] = Null
    BY <2>1 DEF Reported
  <2>3. \A q \in known' : parent'[q] # Null
    BY <1>0, <1>2, <2>1, <2>2 DEF Reported, ChainTypes
  <2>4. \A q \in Pdo \ {p} : parent[q] # Null => hook[q] \in Hook /\ ~intact[hook[q]] /\ hook[q] # h
    BY <1>0, <1>2, <2>1 DEF Reported
  <2>5. (\A k \in Hook : ~intact[k] => ~intact'[k]) /\ (~intact'[h] \/ h = First)
    BY <1>0, <1>2
  <2>6. ASSUME NEW q \in Pdo
        PROVE  /\ parent'[q] # Null => hook'[q] # Null
               /\ parent'[q] = MainBus => ~intact'[hook'[q]] \/ hook'[q] = First
               /\ \A g \in Fdo : parent'[q] = g => hook'[q] = Prev[HookOf(g)']
    <3>1. CASE q = p
      BY <1>0, <1>2, <2>1, <2>5, <3>1
    <3>2. CASE q # p
      BY <1>a, <1>0, <2>1, <2>4, <2>5, <3>2 DEF Reported
    <3> QED
      BY <3>1, <3>2
  <2>7. \A q \in Pdo, f \in Fdo : parent'[q] = f <=> q \in ToSet(relations'[f])
    BY <1>0, <1>2, <2>1, <2>2 DEF Reported
  <2>8. \A q, r \in Pdo : q # r /\ parent'[q] # Null /\ parent'[r] # Null => hook'[q] # hook'[r]
    BY <2>1, <2>4 DEF Reported
  <2> QED
    BY <2>3, <2>6, <2>7, <2>8 DEF Reported
<1>3. CASE Finds
  <2>1. UNCHANGED relations /\ \A q \in Pdo : hook[q] # Null => ~intact[hook[q]]
    BY <1>3 DEF Finds, Probed
  <2>2. CASE NoPdo /\ UNCHANGED <<intact, known>>
    BY <1>b, <2>1, <2>2 DEF NoPdo
  <2>3. CASE \E p \in Pdo, h \in Hook, b \in {MainBus, Null} :
               /\ NewPdo(p, h, b)
               /\ known' = IF b = MainBus THEN known \cup {p} ELSE known
               /\ \/ intact' = [intact EXCEPT ![h] = FALSE]
                  \/ UNCHANGED intact /\ h = First
    <3>1. PICK p \in Pdo, h \in Hook, b \in {MainBus, Null} :
            /\ NewPdo(p, h, b)
            /\ known' = IF b = MainBus THEN known \cup {p} ELSE known
            /\ \/ intact' = [intact EXCEPT ![h] = FALSE]
               \/ UNCHANGED intact /\ h = First
      BY <2>3
    <3> QED
      BY <1>2, <2>1, <3>1
  <2> QED
    BY <1>3, <2>2, <2>3 DEF Finds
<1>4. ASSUME NEW p \in Pdo, DriveDevice(p)  PROVE Reported'
  BY <1>4, <1>b DEF DriveDevice, memory, buses
<1>5. ASSUME NEW f \in Fdo, NEW m \in ToSet(Mini), Attaches(f, m)  PROVE Reported'
  BY <1>5, <1>b DEF Attaches
<1>6. ASSUME NEW f \in Fdo, NEW disks \in SUBSET Drives[HookOf(f)],
             NEW p \in Pdo \cup {Null}, Replies(f, disks, p)
      PROVE  Reported'
  <2> DEFINE k == Prev[HookOf(f)]
  <2>1. /\ HookOf(f) \in Hook /\ disks \cap Pdo = {}
        /\ ToSet(relations'[f]) = ToSet(relations[f]) \cup disks \cup ({p} \ {Null})
        /\ \A g \in Fdo \ {f} : relations'[g] = relations[g]
    BY <1>6, ReplyRelations
  <2>2. /\ UNCHANGED intact /\ Live(f)
        /\ known' \subseteq known \cup (ToSet(relations'[f]) \cap Pdo)
        /\ \/ p = Null /\ NoPdo
           \/ p # Null /\ NewPdo(p, k, f) /\ Children(f) = {}
    BY <1>6 DEF Replies, Live
  <2>3. HookOf(f)' = HookOf(f)
    BY <2>2, HooksKept DEF Live
  <2>4. CASE p = Null /\ NoPdo
    <3>1. UNCHANGED <<hook, parent>>
      BY <2>4 DEF NoPdo
    <3>2. \A q \in Pdo, g \in Fdo : q \in ToSet(relations'[g]) <=> q \in ToSet(relations[g])
      BY <2>1, <2>4
    <3>3. \A q \in known' : parent'[q] # Null
      BY <1>0, <2>1, <2>2, <2>4, <3>1 DEF Reported
    <3>4. \A q \in Pdo, g \in Fdo : parent'[q] = g => hook'[q] = Prev[HookOf(g)']
      BY <1>a, <3>1 DEF Reported
    <3> QED
      BY <2>2, <3>1, <3>2, <3>3, <3>4 DEF Reported
  <2>5. CASE p # Null /\ NewPdo(p, k, f) /\ Children(f) = {}
    <3>1. /\ hook'[p] = k /\ parent'[p] = f /\ hook[p] = Null /\ k \in Hook /\ intact[k]
          /\ p \in Pdo
          /\ \A q \in Pdo \ {p} : hook'[q] = hook[q] /\ parent'[q] = parent[q]
      BY <1>0, <2>5 DEF NewPdo
    <3>2. parent[p] = Null
      BY <3>1 DEF Reported
    <3>3. \A q \in known' : parent'[q] # Null
      <4>1. \A q \in known : parent'[q] # Null
        BY <1>0, <3>1 DEF Reported, ChainTypes
      <4>2. \A q \in ToSet(relations'[f]) \cap Pdo : parent'[q] # Null
        BY <1>0, <2>1, <3>1 DEF Reported
      <4> QED
        BY <2>2, <4>1, <4>2
    <3>4. ASSUME NEW q \in Pdo \ {p}, parent[q] # Null  PROVE hook[q] # k
      <4> SUFFICES ASSUME hook[q] = k  PROVE FALSE
        OBVIOUS
      <4>1. parent[q] # MainBus
        <5>1. k # First
          BY <1>0, <2>1, <3>1, ChainAssumption
        <5> QED
          BY <3>1, <5>1 DEF Reported
      <4>2. parent[q] \in Fdo
        BY <1>0, <3>4, <4>1
      <4> PICK g \in Fdo : parent[q] = g
        BY <4>2
      <4>3. Live(g) /\ HookOf(g) \in Hook /\ Prev[HookOf(g)] = k
        BY <1>a, <4>2 DEF Reported
      <4>4. HookOf(g) = HookOf(f)
        BY <1>0, <2>1, <3>1, <4>3, ChainAssumption
      <4>5. bus[g].pdo = bus[f].pdo
        <5>1. /\ bus[f].pdo \in Pdo /\ parent[bus[f].pdo] # Null
              /\ bus[g].pdo \in Pdo /\ parent[bus[g].pdo] # Null
          BY <2>2, <4>2, <4>3 DEF Answered, Live
        <5> QED
          BY <4>4, <5>1 DEF Reported, HookOf
      <4>6. g = f
        BY <2>2, <4>2, <4>3, <4>5 DEF Answered
      <4>7. q \in Children(f)
        BY <4>6 DEF Reported, Children
      <4> QED
        BY <2>5, <4>7
    <3>5. ASSUME NEW q \in Pdo
          PROVE  /\ parent'[q] # Null => hook'[q] # Null
                 /\ parent'[q] = MainBus => ~intact'[hook'[q]] \/ hook'[q] = First
                 /\ \A g \in Fdo : parent'[q] = g => hook'[q] = Prev[HookOf(g)']
      <4>1. CASE q = p
        BY <1>0, <2>3, <3>1, <4>1
      <4>2. CASE q # p
        BY <1>a, <2>2, <3>1, <4>2 DEF Reported
      <4> QED
        BY <4>1, <4>2
    <3>6. \A q \in Pdo, g \in Fdo : parent'[q] = g <=> q \in ToSet(relations'[g])
      BY <1>0, <2>1, <3>1, <3>2 DEF Reported
    <3>7. \A q, r \in Pdo : q # r /\ parent'[q] # Null /\ parent'[r] # Null => hook'[q] # hook'[r]
      BY <3>1, <3>4 DEF Reported
    <3> QED
      BY <3>3, <3>5, <3>6, <3>7 DEF Reported
  <2> QED
    BY <2>2, <2>4, <2>5
<1>7. ASSUME NEW f \in Fdo, Removes(f), ~RemoveChildren(f)  PROVE Reported'
  <2>1. UNCHANGED <<parent, relations, known>>
    <3>1. CASE SendRemove(f)
      BY <3>1 DEF SendRemove, pdos
    <3>2. CASE PassRemove(f)
      BY <3>2 DEF PassRemove
    <3>3. CASE Detach(f)
      BY <3>3 DEF Detach, pdos
    <3>4. CASE Unclaim(f)
      BY <3>4 DEF Unclaim, pdos
    <3> QED
      BY <1>7, <3>1, <3>2, <3>3, <3>4 DEF Removes
  <2> QED
    BY <1>7, <1>b, <2>1, OnwardSteps
<1>8. ASSUME NEW f \in Fdo, RemoveChildren(f)  PROVE Reported'
  <2>1. /\ parent' = [q \in Pdo |-> IF q \in Children(f) THEN Null ELSE parent[q]]
        /\ known' = known \ Children(f) /\ relations' = [relations EXCEPT ![f] = <<>>]
        /\ UNCHANGED <<intact, hook>>
    BY <1>8 DEF RemoveChildren, memory
  <2>2. \A q \in Pdo : q \in Children(f) <=> parent[q] = f
    BY DEF Reported, Children
  <2>3. ToSet(relations'[f]) = {} /\ \A g \in Fdo \ {f} : relations'[g] = relations[g]
    BY <1>0, <2>1, NoElements
  <2>4. \A q \in Pdo : parent'[q] = IF parent[q] = f THEN Null ELSE parent[q]
    BY <2>1, <2>2
  <2>5. \A q \in known' : parent'[q] # Null
    BY <2>1, <2>2, <2>4 DEF Reported, ChainTypes
  <2>6. \A q \in Pdo, g \in Fdo : parent'[q] = g <=> q \in ToSet(relations'[g])
    <3> TAKE q \in Pdo, g \in Fdo
    <3>1. parent[q] = g <=> q \in ToSet(relations[g])
      BY DEF Reported
    <3>2. CASE g = f
      BY <1>0, <2>3, <2>4, <3>2
    <3>3. CASE g # f
      BY <1>0, <2>3, <2>4, <3>1, <3>3
    <3> QED
      BY <3>2, <3>3
  <2>7. \A q \in Pdo, g \in Fdo : parent'[q] = g => hook'[q] = Prev[HookOf(g)']
    BY <1>0, <1>a, <2>1, <2>4 DEF Reported
  <2> QED
    BY <1>0, <2>1, <2>4, <2>5, <2>6, <2>7 DEF Reported
<1> QED
  BY <1>1, <1>3, <1>4, <1>5, <1>6, <1>7, <1>8, ChainSteps DEF Removes

LEMMA AnsweredKept ==
  ASSUME ChainInv, [ChainNext]_chainVars
  PROVE  Answered'
<1> USE DEF ChainInv
<1>0. /\ bus \in [Fdo -> Device] /\ parent \in [Pdo -> Fdo \cup {MainBus, Null}]
      /\ relations \in [Fdo -> Seq(Pdo \cup Disks)] /\ DOMAIN needed = Fdo
      /\ Null \notin Hook \cup Pdo \cup Fdo
  BY ChainAssumption DEF ChainTypes
<1>a. ASSUME NEW f \in Fdo, bus[f].at # "unborn"
      PROVE  /\ bus'[f].pdo = bus[f].pdo /\ bus'[f].by = bus[f].by
             /\ HookOf(f)' = HookOf(f)
             /\ bus[f].pdo \in Pdo /\ hook'[bus[f].pdo] # Null
  BY <1>a, HooksKept DEF Answered
<1>b. ASSUME NEW f \in Fdo, relations'[f] = relations[f], needed'[f] = needed[f],
             bus[f].at = "unborn" => bus'[f].at = "unborn", Live(f)' => Live(f),
             ~Live(f)' => relations'[f] = <<>>,
             Live(f)' => bus[f].pdo \in tried' /\ parent'[bus[f].pdo] # Null,
             \A g \in Fdo : Live(g)' => Live(g)
      PROVE  /\ bus'[f].at # "unborn" => bus'[f].pdo \in Pdo /\ hook'[bus'[f].pdo] # Null
             /\ Live(f)' => /\ bus'[f].pdo \in tried' /\ parent'[bus'[f].pdo] # Null
                            /\ \A g \in Fdo \ {f} : Live(g)' => bus'[f].pdo # bus'[g].pdo
             /\ ~Live(f)' => relations'[f] = <<>>
             /\ Distinct(relations'[f])
             /\ Live(f)' => ToSet(relations'[f]) \ Pdo \subseteq Drives[HookOf(f)']
             /\ Live(f)' /\ bus'[f].by = "memdisk" /\ Len(relations'[f]) = 1
                  => Children(f)' = {}
             /\ Live(f)' /\ bus'[f].by = "grub4dos" =>
                  /\ needed'[f] \ {"previous"} \subseteq Drives[HookOf(f)']
                  /\ needed'[f] \cap ToSet(relations'[f]) \subseteq {"previous"}
                  /\ "previous" \in needed'[f] => Children(f)' = {}
  <2>1. \A g \in Fdo : Live(g)' => bus'[g].pdo = bus[g].pdo /\ Live(g)
    BY <1>a, <1>b DEF Live
  <2>2. Children(f)' = Children(f)
    BY <1>b DEF Children
  <2>3. bus[f].at # "unborn" =>
          /\ bus'[f].pdo = bus[f].pdo /\ bus'[f].by = bus[f].by
          /\ HookOf(f)' = HookOf(f)
          /\ bus[f].pdo \in Pdo /\ hook'[bus[f].pdo] # Null
    BY <1>a
  <2>4. Live(f) => bus[f].at # "unborn"
    BY DEF Live
  <2> QED
    BY <1>b, <2>1, <2>2, <2>3, <2>4 DEF Answered
<1>c. ASSUME UNCHANGED <<relations, needed>>,
             \A f \in Fdo : bus[f].at = "unborn" => bus'[f].at = "unborn",
             \A f \in Fdo : Live(f)' <=> Live(f),
             \A f \in Fdo : Live(f) => bus[f].pdo \in tried' /\ parent'[bus[f].pdo] # Null
      PROVE  Answered'
  <2>1. \A f \in Fdo : ~Live(f) => relations[f] = <<>>
    BY DEF Answered
  <2> QED
    BY <1>b, <1>c, <2>1 DEF Answered
<1>1. CASE Quiet \/ LooksAt
  BY <1>1, <1>c DEF Quiet, LooksAt, Answered, Live
<1>2. CASE Finds
  <2>1. UNCHANGED <<relations, needed, bus>> /\ \A f \in Fdo : bus[f].at = "unborn"
    BY <1>2 DEF Finds, Probed
  <2>2. \A f \in Fdo : ~Live(f) /\ ~Live(f)'
    BY <2>1 DEF Live
  <2> QED
    BY <1>c, <2>1, <2>2
<1>3. ASSUME NEW p \in Pdo, DriveDevice(p)  PROVE Answered'
  <2>1. UNCHANGED <<relations, needed, bus, parent>> /\ tried' = tried \cup {p}
    BY <1>3 DEF DriveDevice, buses
  <2>2. \A f \in Fdo : Live(f) => bus[f].pdo \in tried /\ parent[bus[f].pdo] # Null
    BY DEF Answered
  <2> QED
    BY <1>c, <2>1, <2>2 DEF Live
<1>4. ASSUME NEW f \in Fdo, NEW m \in ToSet(Mini), Attaches(f, m)  PROVE Answered'
  <2> DEFINE h == hook[worker.on]
  <2>0. Driving
    BY <1>4 DEF Attaches, Driving
  <2>1. /\ worker.on \in Pdo /\ h \in Hook /\ h # Null
        /\ worker.on \in tried /\ parent[worker.on] # Null
        /\ \A g \in Fdo : Live(g) => bus[g].pdo # worker.on
    BY <1>0, <2>0, WorkersHook DEF Worked
  <2>2. UNCHANGED <<relations, hook, parent, tried>>
    BY <1>4 DEF Attaches
  <2>3. /\ bus'[f].at = "attached" /\ bus'[f].pdo = worker.on
        /\ \A g \in Fdo \ {f} : bus'[g] = bus[g]
    BY <1>0, <1>4 DEF Attaches
  <2>4. /\ needed'[f] = Drives[h] \cup {"previous"}
        /\ \A g \in Fdo \ {f} : needed'[g] = needed[g]
    BY <1>0, <1>4 DEF Attaches
  <2>5. relations[f] = <<>>
    BY <1>4 DEF Attaches, Answered, Live
  <2>6. HookOf(f)' = h /\ Children(f)' = {} /\ ToSet(relations'[f]) = {}
    BY <2>2, <2>3, <2>5, NoElements DEF HookOf, Children
  <2>7. \A g \in Fdo \ {f} : Live(g)' <=> Live(g)
    BY <2>3 DEF Live
  <2> HIDE DEF h
  <2>8. Distinct(<<>>) /\ Len(<<>>) # 1
    BY DEF Distinct
  <2>9. ASSUME NEW g \in Fdo \ {f}
        PROVE  /\ bus'[g].at # "unborn" => bus'[g].pdo \in Pdo /\ hook'[bus'[g].pdo] # Null
               /\ Live(g)' => /\ bus'[g].pdo \in tried' /\ parent'[bus'[g].pdo] # Null
                              /\ \A k \in Fdo \ {g} : Live(k)' => bus'[g].pdo # bus'[k].pdo
    <3>1. /\ bus[g].at # "unborn" => bus[g].pdo \in Pdo /\ hook[bus[g].pdo] # Null
          /\ Live(g) => /\ bus[g].pdo \in tried /\ parent[bus[g].pdo] # Null
                        /\ \A k \in Fdo \ {g} : Live(k) => bus[g].pdo # bus[k].pdo
      BY DEF Answered
    <3> QED
      BY <2>1, <2>2, <2>3, <2>7, <3>1
  <2>10. ASSUME NEW g \in Fdo \ {f}
         PROVE  /\ ~Live(g)' => relations'[g] = <<>>
                /\ Distinct(relations'[g])
                /\ Live(g)' => ToSet(relations'[g]) \ Pdo \subseteq Drives[HookOf(g)']
                /\ Live(g)' /\ bus'[g].by = "memdisk" /\ Len(relations'[g]) = 1
                     => Children(g)' = {}
                /\ Live(g)' /\ bus'[g].by = "grub4dos" =>
                     /\ needed'[g] \ {"previous"} \subseteq Drives[HookOf(g)']
                     /\ needed'[g] \cap ToSet(relations'[g]) \subseteq {"previous"}
                     /\ "previous" \in needed'[g] => Children(g)' = {}
    <3>1. HookOf(g)' = HookOf(g) /\ Children(g)' = Children(g)
      BY <2>2, <2>3 DEF HookOf, Children
    <3> QED
      BY <2>2, <2>3, <2>4, <2>7, <3>1 DEF Answered
  <2>11. /\ bus'[f].pdo \in Pdo /\ hook'[bus'[f].pdo] # Null
         /\ bus'[f].pdo \in tried' /\ parent'[bus'[f].pdo] # Null
         /\ \A k \in Fdo \ {f} : Live(k)' => bus'[f].pdo # bus'[k].pdo
         /\ Live(f)'
    BY <2>1, <2>2, <2>3, <2>7 DEF h, Live
  <2>12. /\ Distinct(relations'[f]) /\ Len(relations'[f]) # 1
         /\ ToSet(relations'[f]) \ Pdo \subseteq Drives[HookOf(f)']
         /\ needed'[f] \ {"previous"} \subseteq Drives[HookOf(f)']
         /\ needed'[f] \cap ToSet(relations'[f]) \subseteq {"previous"}
         /\ Children(f)' = {}
    BY <2>2, <2>4, <2>5, <2>6, <2>8
  <2> QED
    BY <2>9, <2>10, <2>11, <2>12 DEF Answered
<1>5. ASSUME NEW f \in Fdo, NEW disks \in SUBSET Drives[HookOf(f)],
             NEW p \in Pdo \cup {Null}, Replies(f, disks, p)
      PROVE  Answered'
  <2>1. /\ HookOf(f) \in Hook /\ disks \cap Pdo = {}
        /\ relations'[f] \in Seq(Pdo \cup Disks) /\ Distinct(relations'[f])
        /\ ToSet(relations'[f]) = ToSet(relations[f]) \cup disks \cup ({p} \ {Null})
        /\ Cardinality(disks) \in Nat
        /\ Len(relations'[f]) = Len(relations[f]) + Cardinality(disks)
                                 + IF p = Null THEN 0 ELSE 1
        /\ \A g \in Fdo \ {f} : relations'[g] = relations[g]
    BY <1>5, ReplyRelations
  <2>2. /\ UNCHANGED <<bus, tried>> /\ bus[f].at = "attached"
        /\ \/ p = Null /\ NoPdo
           \/ p # Null /\ NewPdo(p, Prev[HookOf(f)], f)
        /\ bus[f].by = "memdisk" /\ p # Null => Len(relations[f]) + Cardinality(disks) = 1
        /\ IF bus[f].by = "grub4dos"
           THEN needed' = [needed EXCEPT ![f] = @ \ (disks \cup IF p = Null THEN {} ELSE {"previous"})]
           ELSE needed' = needed
    BY <1>5 DEF Replies
  <2>3. Live(f) /\ \A g \in Fdo : Live(g)' <=> Live(g)
    BY <2>2 DEF Live
  <2>4. \A q \in Pdo : parent[q] # Null => parent'[q] # Null
    BY <1>0, <2>2 DEF NoPdo, NewPdo
  <2>5. \A g \in Fdo : Live(g) => bus[g].pdo \in tried' /\ parent'[bus[g].pdo] # Null
    <3>1. \A g \in Fdo : Live(g) => bus[g].pdo \in Pdo
      BY DEF Answered, Live
    <3> QED
      BY <2>2, <2>4, <3>1 DEF Answered
  <2>6. ASSUME NEW g \in Fdo \ {f}
        PROVE  relations'[g] = relations[g] /\ needed'[g] = needed[g]
    BY <2>1, <2>2, <1>0
  <2>7. \A g \in Fdo : ~Live(g) => relations[g] = <<>>
    BY DEF Answered
  <2>8. HookOf(f)' = HookOf(f)
    BY <1>a, <2>2
  <2>9. IsFiniteSet(Drives[HookOf(f)]) /\ Drives[HookOf(f)] \cap Pdo = {}
    BY <2>1, ChainAssumption
  <2>10. p = Null => Children(f)' = Children(f)
    BY <2>1 DEF Children
  <2>11. ToSet(relations'[f]) \ Pdo \subseteq Drives[HookOf(f)']
    <3>1. ToSet(relations[f]) \ Pdo \subseteq Drives[HookOf(f)]
      BY <2>3 DEF Answered
    <3>2. ({p} \ {Null}) \subseteq Pdo
      OBVIOUS
    <3> QED
      BY <2>1, <2>8, <3>1, <3>2
  <2>12. bus[f].by = "memdisk" /\ Len(relations'[f]) = 1 => Children(f)' = {}
    <3> SUFFICES ASSUME bus[f].by = "memdisk", Len(relations'[f]) = 1
                 PROVE  Children(f)' = {}
      OBVIOUS
    <3>1. relations[f] \in Seq(Pdo \cup Disks) /\ Len(relations[f]) \in Nat
      BY <1>0
    <3> DEFINE l == Len(relations[f])
               c == Cardinality(disks)
    <3>2. p = Null /\ l \in {0, 1}
      <4>1. l \in Nat /\ c \in Nat /\ 1 = l + c + IF p = Null THEN 0 ELSE 1
        BY <2>1, <3>1
      <4>2. p # Null => l + c = 1
        BY <2>2
      <4> HIDE DEF l, c
      <4> QED
        BY <4>1, <4>2
    <3>3. CASE Len(relations[f]) = 0
      <4>1. relations[f] = <<>>
        BY <3>1, <3>3
      <4>2. Children(f) = {}
        BY <4>1, NoElements DEF Children
      <4> QED
        BY <2>10, <3>2, <4>2
    <3>4. CASE Len(relations[f]) = 1
      BY <2>3, <2>10, <3>2, <3>4 DEF Answered
    <3> QED
      BY <3>2, <3>3, <3>4
  <2>13. ASSUME bus[f].by = "grub4dos"
         PROVE  /\ needed'[f] \ {"previous"} \subseteq Drives[HookOf(f)']
                /\ needed'[f] \cap ToSet(relations'[f]) \subseteq {"previous"}
                /\ "previous" \in needed'[f] => Children(f)' = {}
    <3>1. needed'[f] = needed[f] \ (disks \cup IF p = Null THEN {} ELSE {"previous"})
      BY <1>0, <2>2, <2>13
    <3>2. /\ needed[f] \ {"previous"} \subseteq Drives[HookOf(f)]
          /\ needed[f] \cap ToSet(relations[f]) \subseteq {"previous"}
          /\ "previous" \in needed[f] => Children(f) = {}
      BY <2>3, <2>13 DEF Answered
    <3>3. ({p} \ {Null}) \cap Drives[HookOf(f)] = {}
      BY <2>9
    <3>4. needed'[f] \cap ToSet(relations'[f]) \subseteq {"previous"}
      BY <2>1, <3>1, <3>2, <3>3
    <3>5. "previous" \in needed'[f] => p = Null /\ "previous" \in needed[f]
      BY <3>1
    <3> QED
      BY <2>8, <2>10, <3>1, <3>2, <3>4, <3>5
  <2>14. /\ bus'[f].pdo \in Pdo /\ hook'[bus'[f].pdo] # Null
         /\ bus'[f].pdo \in tried' /\ parent'[bus'[f].pdo] # Null
         /\ \A g \in Fdo \ {f} : Live(g)' => bus'[f].pdo # bus'[g].pdo
    BY <1>a, <2>2, <2>3, <2>5 DEF Answered
  <2>15. \A g \in Fdo \ {f} : bus[g].at = "unborn" => bus'[g].at = "unborn"
    BY <2>2
  <2>16. bus'[f].by = bus[f].by /\ Distinct(relations'[f])
    BY <2>1, <2>2
  <2> QED
    BY <1>b, <2>3, <2>5, <2>6, <2>7, <2>11, <2>12, <2>13, <2>14, <2>15, <2>16 DEF Answered
<1>6. ASSUME NEW f \in Fdo, SendRemove(f) \/ Detach(f) \/ Unclaim(f)
      PROVE  Answered'
  <2>1. UNCHANGED <<relations, needed, tried, parent>>
    <3>1. CASE SendRemove(f)
      BY <3>1 DEF SendRemove, pdos
    <3>2. CASE Detach(f)
      BY <3>2 DEF Detach, pdos
    <3>3. CASE Unclaim(f)
      BY <3>3 DEF Unclaim, pdos
    <3> QED
      BY <1>6, <3>1, <3>2, <3>3
  <2>2. \/ bus[f].at = "attached" /\ bus' = [bus EXCEPT ![f].at = "children"]
        \/ bus[f].at = "passed"   /\ bus' = [bus EXCEPT ![f].at = "detached"]
        \/ bus[f].at = "detached" /\ bus' = [bus EXCEPT ![f].at = "gone"]
    BY <1>6 DEF SendRemove, Detach, Unclaim
  <2>3. \A g \in Fdo : Live(g)' <=> Live(g)
    <3>1. \A g \in Fdo \ {f} : bus'[g] = bus[g]
      BY <1>0, <2>2
    <3>2. CASE bus[f].at = "attached" /\ bus' = [bus EXCEPT ![f].at = "children"]
      BY <1>0, <3>1, <3>2 DEF Live, Device
    <3>3. CASE \/ bus[f].at = "passed"   /\ bus' = [bus EXCEPT ![f].at = "detached"]
               \/ bus[f].at = "detached" /\ bus' = [bus EXCEPT ![f].at = "gone"]
      <4>1. ~Live(f) /\ ~Live(f)'
        BY <1>0, <3>3 DEF Live, Device
      <4> QED
        BY <3>1, <4>1 DEF Live
    <3> QED
      BY <2>2, <3>2, <3>3
  <2>4. \A g \in Fdo : bus[g].at = "unborn" => bus'[g].at = "unborn"
    BY <1>0, <2>2
  <2>5. \A g \in Fdo : Live(g) => bus[g].pdo \in tried /\ parent[bus[g].pdo] # Null
    BY DEF Answered
  <2> QED
    BY <1>c, <2>1, <2>3, <2>4, <2>5
<1>7. ASSUME NEW f \in Fdo, RemoveChildren(f)  PROVE Answered'
  <2>1. /\ UNCHANGED <<bus, hook, needed>> /\ bus[f].at = "children"
        /\ parent' = [q \in Pdo |-> IF q \in Children(f) THEN Null ELSE parent[q]]
        /\ tried' = tried \ Children(f) /\ relations' = [relations EXCEPT ![f] = <<>>]
    BY <1>7 DEF RemoveChildren
  <2>2. \A g \in Fdo : Live(g)' <=> Live(g)
    BY <2>1 DEF Live
  <2>3. Live(f) /\ \A g \in Fdo : Live(g) => bus[g].pdo \notin Children(f)
    BY <2>1 DEF Worked, Live
  <2>4. \A g \in Fdo : Live(g) => bus[g].pdo \in tried' /\ parent'[bus[g].pdo] # Null
    <3>1. \A g \in Fdo : Live(g) =>
            bus[g].pdo \in Pdo /\ bus[g].pdo \in tried /\ parent[bus[g].pdo] # Null
      BY DEF Answered, Live
    <3> QED
      BY <2>1, <2>3, <3>1
  <2>5. relations'[f] = <<>> /\ \A g \in Fdo \ {f} : relations'[g] = relations[g]
    BY <1>0, <2>1
  <2>6. Children(f)' = {} /\ ToSet(relations'[f]) = {}
    BY <2>5, NoElements DEF Children
  <2>7. Distinct(<<>>) /\ Len(<<>>) # 1
    BY DEF Distinct
  <2>8. \A g \in Fdo : ~Live(g) => relations[g] = <<>>
    BY DEF Answered
  <2>9. HookOf(f)' = HookOf(f)
    BY <1>a, <2>1
  <2>10. bus'[f].by = "grub4dos" => needed'[f] \ {"previous"} \subseteq Drives[HookOf(f)']
    BY <2>1, <2>3, <2>9 DEF Answered
  <2>11. /\ bus'[f].pdo \in Pdo /\ hook'[bus'[f].pdo] # Null
         /\ bus'[f].pdo \in tried' /\ parent'[bus'[f].pdo] # Null
         /\ \A g \in Fdo \ {f} : Live(g)' => bus'[f].pdo # bus'[g].pdo
    BY <1>a, <2>1, <2>2, <2>3, <2>4 DEF Answered
  <2>12. ASSUME NEW g \in Fdo \ {f}
         PROVE  /\ relations'[g] = relations[g] /\ needed'[g] = needed[g]
                /\ bus[g].at = "unborn" => bus'[g].at = "unborn"
    BY <2>1, <2>5
  <2>13. /\ Distinct(relations'[f]) /\ Len(relations'[f]) # 1
         /\ ToSet(relations'[f]) \ Pdo \subseteq Drives[HookOf(f)']
         /\ needed'[f] \cap ToSet(relations'[f]) \subseteq {"previous"}
    BY <2>5, <2>6, <2>7
  <2> QED
    BY <1>b, <2>2, <2>3, <2>4, <2>6, <2>8, <2>10, <2>11, <2>12, <2>13 DEF Answered
<1>8. ASSUME NEW f \in Fdo, PassRemove(f)  PROVE Answered'
  <2>1. /\ bus' = [bus EXCEPT ![f].at = "passed"] /\ bus[f].at = "children"
        /\ relations[f] = <<>> /\ tried' = tried \ {bus[f].pdo}
        /\ UNCHANGED <<parent, relations, needed>>
    BY <1>8 DEF PassRemove
  <2>2. /\ Live(f) /\ ~Live(f)'
        /\ \A g \in Fdo \ {f} : Live(g)' <=> Live(g)
        /\ \A g \in Fdo : bus[g].at = "unborn" => bus'[g].at = "unborn"
    BY <1>0, <2>1 DEF Live, Device
  <2>3. \A g \in Fdo : Live(g)' => bus[g].pdo \in tried' /\ parent'[bus[g].pdo] # Null
    BY <2>1, <2>2 DEF Answered
  <2>4. \A g \in Fdo : ~Live(g)' => relations[g] = <<>>
    BY <2>1, <2>2 DEF Answered
  <2>5. \A g \in Fdo : Live(g)' => Live(g)
    BY <2>2
  <2> QED
    BY <1>b, <2>1, <2>2, <2>3, <2>4, <2>5 DEF Answered
<1> QED
  BY <1>1, <1>2, <1>3, <1>4, <1>5, <1>6, <1>7, <1>8, ChainSteps

LEMMA ChainBegins ==
  ASSUME ChainInit
  PROVE  ChainInv
<1>0. Null \notin Hook \cup Pdo \cup Fdo
  BY ChainAssumption
<1>1. /\ \A h \in Hook : intact[h] = TRUE /\ claimed[h] \in BOOLEAN
      /\ intact \in [Hook -> BOOLEAN] /\ claimed \in [Hook -> BOOLEAN]
  BY DEF ChainInit
<1>2. /\ callbacks = <<>> /\ entry = <<"memdisk", "other">> /\ probe = <<"unprobed">>
      /\ \A p \in Pdo : hook[p] = Null /\ parent[p] = Null /\ stack[p] = <<>>
      /\ known = {} /\ tried = {} /\ worker = Rest /\ worker.at = "idle"
      /\ \A f \in Fdo : bus[f].at = "unborn" /\ relations[f] = <<>>
  BY DEF ChainInit, Rest
<1>3. \A f \in Fdo : ~Live(f) /\ ~Holds(f) /\ ToSet(relations[f]) = {}
  BY <1>2, NoElements DEF Live, Holds
<1>4. Distinct(<<>>) /\ ToSet(<<>>) = {}
  BY NoElements DEF Distinct
<1>5. ~Driving /\ \A h \in Hook : ~Claiming(h)
  BY <1>2 DEF Driving, Claiming
<1>6. ChainTypes
  <2>1. bus \in [Fdo -> Device]
    BY DEF ChainInit, Device
  <2>2. DOMAIN worker = {"at", "on", "left"}
    BY <1>2 DEF Rest
  <2>3. <<>> \in Seq(Pdo \cup Disks) /\ <<>> \in Seq(Fdo)
    OBVIOUS
  <2>4. relations \in [Fdo -> Seq(Pdo \cup Disks)] /\ stack \in [Pdo -> Seq(Fdo)]
    BY <2>3 DEF ChainInit
  <2>5. /\ hook \in [Pdo -> Hook \cup {Null}] /\ parent \in [Pdo -> Fdo \cup {MainBus, Null}]
        /\ DOMAIN needed = Fdo
    BY DEF ChainInit
  <2> QED
    BY <1>1, <1>2, <2>1, <2>2, <2>4, <2>5 DEF ChainTypes
<1>7. Probed
  BY <1>2 DEF Probed
<1>8. Worked
  BY <1>2, <1>5 DEF Worked
<1>9. Reported
  BY <1>2, <1>3, ChainAssumption DEF Reported
<1>10. Answered
  BY <1>2, <1>3, <1>4 DEF Answered
<1>11. Held
  BY <1>3, <1>5 DEF Held
<1>12. Stacked
  BY <1>2, <1>4 DEF Stacked
<1> QED
  BY <1>6, <1>7, <1>8, <1>9, <1>10, <1>11, <1>12 DEF ChainInv

-----------------------------------------------------------------------------
(* The inductive invariant of the chain of safe hooks: what PnP's worker,  *)
(* the probes, the queries and the removals leave behind, in any order.    *)
THEOREM ChainInvariant ==
  ChainSpec => []ChainInv
<1>1. ChainInit => ChainInv
  BY ChainBegins
<1>2. ChainInv /\ [ChainNext]_chainVars => ChainInv'
  BY ChainTypesKept, ProbedKept, WorkedKept, ReportedKept, AnsweredKept, HeldKept,
     StackedKept DEF ChainInv
<1> QED
  BY <1>1, <1>2, PTL DEF ChainSpec

(* ClaimGuards, however long the chain: an attached bus of MEMDISK or of a *)
(* plain safe hook holds the claim of its hook, sits on the PDO itself and *)
(* is the only one to drive the hook (memdisk/probe.c, safehook/fdo.c).    *)
THEOREM ClaimsGuardHooks ==
  ChainSpec => []ClaimGuards
<1>1. ChainInv => ClaimGuards
  BY DEF ChainInv, Held, Holds, ClaimGuards, Above
<1> QED
  BY <1>1, ChainInvariant, PTL

(* ReportedOnce, for every chain and every order of probes, queries and    *)
(* removals: a hook has one PDO which is reported, and a disk is in the    *)
(* relations of one bus, once.                                             *)
THEOREM HooksReportedOnce ==
  ChainSpec => []ReportedOnce
<1>1. ASSUME ChainInv  PROVE ReportedOnce
  <2> USE <1>1 DEF ChainInv
  <2>1. \A p, q \in Pdo : p # q /\ parent[p] # Null /\ parent[q] # Null => hook[p] # hook[q]
    BY DEF Reported
  <2>2. ASSUME NEW f \in Fdo  PROVE IsInjective(relations[f])
    <3>1. Distinct(relations[f]) /\ DOMAIN relations[f] = 1 .. Len(relations[f])
      BY Elements DEF Answered, ChainTypes
    <3> QED
      BY <3>1 DEF Distinct, IsInjective
  <2>3. ASSUME NEW f \in Fdo, NEW g \in Fdo, f # g,
               NEW x \in ToSet(relations[f]) \cap ToSet(relations[g])
        PROVE  FALSE
    <3>1. Live(f) /\ Live(g)
      BY <2>3, NoElements DEF Answered
    <3>2. x \notin Pdo
      BY <2>3 DEF Reported
    <3>3. x \in Drives[HookOf(f)] /\ x \in Drives[HookOf(g)]
      BY <2>3, <3>1, <3>2 DEF Answered
    <3>4. /\ bus[f].pdo \in Pdo /\ parent[bus[f].pdo] # Null
          /\ bus[g].pdo \in Pdo /\ parent[bus[g].pdo] # Null
          /\ bus[f].pdo # bus[g].pdo
      BY <2>3, <3>1 DEF Answered, Live
    <3>5. HookOf(f) # HookOf(g)
      BY <2>1, <3>4 DEF HookOf
    <3>6. HookOf(f) \in Hook /\ HookOf(g) \in Hook
      BY <3>4 DEF Reported, ChainTypes, HookOf
    <3> QED
      BY <3>3, <3>5, <3>6, ChainAssumption
  <2> QED
    BY <2>1, <2>2, <2>3 DEF ReportedOnce
<1> QED
  BY <1>1, ChainInvariant, PTL

=============================================================================
