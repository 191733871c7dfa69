------------------------------ MODULE BootDisks ------------------------------
(***************************************************************************)
(* The disks of the boot loader: the chain of "safe" INT 0x13 hooks in low *)
(* memory, which three mini-drivers probe, claim and drive: MEMDISK        *)
(* (src/winvblock/memdisk), GRUB4DOS (src/winvblock/grub4dos) and, for any *)
(* other vendor, the safe hook driver (src/winvblock/safehook).  Each      *)
(* driven hook is a bus with the disks of the hook and the previous hook   *)
(* of the chain as its children.  PnP has one worker which drives devices, *)
(* queries their relations and removes them; the bus which it removes goes *)
(* on in a thread of its own.                                              *)
(***************************************************************************)
EXTENDS FiniteSets, SequencesExt

CONSTANTS
  Hook,     (* the safe hooks in low memory                                *)
  First,    (* the hook at the INT 0x13 vector, or Null                    *)
  Prev,     (* PrevHook: the next hook of the chain, or Null               *)
  Vendor,   (* VendorId: "memdisk", "grub4dos" or "other"                  *)
  Drives,   (* the disks a hook stands for                                 *)
  Mbft,     (* hooks which a valid mBFT points to                          *)
  Busy,     (* hooks which their boot loader has left claimed              *)
  Boot,     (* enumeration waits for the driver's entry, as during boot    *)
  Pdo,      (* bound: devices of hooks                                     *)
  Fdo,      (* bound: buses of hooks                                       *)
  MainBus, Null

(* A boot loader installs a hook before the one at the vector, which is    *)
(* then the hook's PrevHook: no hook is the previous one of two, and none  *)
(* that of the last.                                                       *)
ASSUME ChainAssumption ==
  /\ Prev \in [Hook -> Hook \cup {Null}] /\ First \in Hook \cup {Null}
  /\ \A h \in Hook : Prev[h] # Null =>
       Prev[h] # First /\ \A k \in Hook \ {h} : Prev[k] # Prev[h]
  /\ \A h, k \in Hook : h # k => Drives[h] \cap Drives[k] = {}
  /\ \A h \in Hook : IsFiniteSet(Drives[h]) /\ Drives[h] \cap Pdo = {}
  /\ Null \notin Hook \cup Pdo \cup Fdo /\ MainBus \notin Fdo \cup {Null}
  /\ \A h \in Hook : Vendor[h] = "memdisk" => h \in Mbft /\ Cardinality(Drives[h]) = 1

VARIABLES
  intact,    (* the hook's Signature                                        *)
  genuine,   (* a GRUB4DOS hook's VendorId, which is spoiled when it is busy*)
  claimed,   (* the lowest bit of the hook's Flags                          *)
  entry,     (* the probe callbacks which the entry has yet to register     *)
  callbacks, (* InitialProbeRegistrations                                   *)
  probe,     (* what remains of the main bus' initial probe                 *)
  mbfts,     (* what remains of the search for mBFTs                        *)
  hook,      (* the hook of a PDO                                           *)
  parent,    (* ParentBusDeviceObject                                       *)
  known,     (* PDOs which PnP has been told of                             *)
  tried,     (* PDOs which PnP has called AddDevice for                     *)
  worker,    (* what PnP is at                                              *)
  bus,       (* FDOs                                                        *)
  relations, (* BusRelations                                                *)
  needed,    (* NodesNeeded                                                 *)
  stack,     (* the FDOs above a PDO                                        *)
  failed,    (* something has failed or was removed                         *)
  undefined  (* an assertion has failed or freed memory was used            *)

memory  == <<intact, genuine, claimed>>
probing == <<entry, callbacks, probe, mbfts>>
pdos    == <<hook, parent, known, tried>>
buses   == <<bus, relations, needed, stack>>
chainVars == <<memory, probing, pdos, worker, buses, failed, undefined>>

Mini == <<"memdisk", "grub4dos", "other">>
Rest == [at |-> "idle", on |-> Null, left |-> <<>>]

ChainInit ==
  /\ intact = [h \in Hook |-> TRUE] /\ genuine = [h \in Hook |-> TRUE]
  /\ claimed = [h \in Hook |-> h \in Busy]
  /\ entry = <<"memdisk", "other">> /\ callbacks = <<>>
  /\ probe = <<"unprobed">> /\ mbfts = {}
  /\ hook = [p \in Pdo |-> Null] /\ parent = [p \in Pdo |-> Null]
  /\ known = {} /\ tried = {} /\ worker = Rest
  /\ bus = [f \in Fdo |-> [at |-> "unborn", by |-> Null, pdo |-> Null, lower |-> Null]]
  /\ relations = [f \in Fdo |-> <<>>] /\ needed = [f \in Fdo |-> {}]
  /\ stack = [p \in Pdo |-> <<>>]
  /\ failed = FALSE /\ undefined = FALSE

-----------------------------------------------------------------------------
(* The probe                                                               *)

(* WvlRegisterMainBusInitialProbeCallback: the callbacks keep their order. *)
RegisterProbe(m) ==
  /\ entry # <<>> /\ Head(entry) = m /\ ~undefined
  /\ callbacks' = Append(callbacks, m) /\ entry' = Tail(entry)
  /\ UNCHANGED <<memory, probe, mbfts, pdos, worker, buses, failed, undefined>>

MemdiskDriverEntry  == RegisterProbe("memdisk")
SafeHookDriverEntry == RegisterProbe("other")

(* The first query of the main bus' relations calls what is registered.    *)
InitialProbe ==
  /\ probe = <<"unprobed">> /\ ~undefined /\ (Boot => entry = <<>>)
  /\ probe' = callbacks
  /\ mbfts' = Mbft
  /\ failed' = (failed \/ entry # <<>>)
  /\ UNCHANGED <<memory, entry, callbacks, pdos, worker, buses, undefined>>

Unborn == {p \in Pdo : hook[p] = Null}

(* The PDOs which a probe for hook h may come up with: none when there is  *)
(* no hook, or when memory is short.                                       *)
Offers(h) ==
  {Null} \cup {p \in Unborn : h # Null /\ intact[h] /\ p = CHOOSE q \in Unborn : TRUE}

(* There is such a hook, and no PDO for it.                                *)
Short(h, p) == h # Null /\ p = Null /\ intact[h]

Create(p, h, b) ==
  /\ hook' = IF p = Null THEN hook ELSE [hook EXCEPT ![p] = h]
  /\ parent' = IF p = Null THEN parent ELSE [parent EXCEPT ![p] = b]

(* Mutant: the signature stays, and the chain finds the hook again.        *)
MarkNothing(p, h) == UNCHANGED intact

Mark(p, h) == intact' = IF p = Null THEN intact ELSE [intact EXCEPT ![h] = FALSE]

(* One mBFT: its hook becomes a child of the main bus and is marked, so    *)
(* that the chain ends there; the main bus may fail to add it.             *)
CheckMbft(h) ==
  /\ probe # <<>> /\ ~undefined /\ Head(probe) = "memdisk" /\ h \in mbfts
  /\ mbfts' = mbfts \ {h}
  /\ \E p \in Offers(h), added \in BOOLEAN :
       /\ Create(p, h, IF added THEN MainBus ELSE Null) /\ Mark(p, h)
       /\ known' = known \cup (IF added THEN {p} \ {Null} ELSE {})
       /\ failed' = (failed \/ Short(h, p) \/ ~added)
  /\ UNCHANGED <<genuine, claimed, entry, callbacks, probe, tried, worker, buses, undefined>>

MemdiskProbeDone ==
  /\ probe # <<>> /\ ~undefined /\ Head(probe) = "memdisk" /\ mbfts = {}
  /\ probe' = Tail(probe)
  /\ UNCHANGED <<memory, entry, callbacks, mbfts, pdos, worker, buses, failed, undefined>>

(* The hook at the vector becomes a child of the main bus.                 *)
SafeHookInitialProbe ==
  /\ probe # <<>> /\ ~undefined /\ Head(probe) = "other"
  /\ probe' = Tail(probe)
  /\ \E p \in Offers(First), added \in BOOLEAN :
       /\ Create(p, First, IF added THEN MainBus ELSE Null)
       /\ known' = known \cup (IF added THEN {p} \ {Null} ELSE {})
       /\ failed' = (failed \/ Short(First, p) \/ ~added)
  /\ UNCHANGED <<memory, entry, callbacks, mbfts, tried, worker, buses, undefined>>

-----------------------------------------------------------------------------
(* Driving                                                                 *)

(* PnP calls AddDevice, which offers the PDO to each mini-driver in turn.  *)
(* It hears of the probed ones when the main bus answers, after the probe. *)
DriveDevice(p) ==
  /\ worker = Rest /\ ~undefined /\ probe = <<>>
  /\ p \in known \ tried /\ \E f \in Fdo : bus[f].at = "unborn"
  /\ worker' = [at |-> "look", on |-> p, left |-> Mini] /\ tried' = tried \cup {p}
  /\ UNCHANGED <<memory, probing, hook, parent, known, buses, failed, undefined>>

Looks(m) == worker.at = "look" /\ ~undefined /\ worker.left # <<>> /\ Head(worker.left) = m
Next1    == [worker EXCEPT !.at = "look", !.left = Tail(@)]

IsMemdisk(h)  == Vendor[h] = "memdisk"
IsGrub4dos(h) == Vendor[h] = "grub4dos" /\ genuine[h]

(* Mutant: a hook which is claimed is driven all the same.                 *)
MayClaimAny(h) == TRUE

MayClaim(h) == ~claimed[h]

(* Low memory could not be mapped, or the hook is another vendor's.        *)
Refuse(m) ==
  LET h == hook[worker.on]
      mine == CASE m = "memdisk" -> IsMemdisk(h) [] m = "grub4dos" -> IsGrub4dos(h)
                [] OTHER -> TRUE IN
  /\ Looks(m)
  /\ worker' = Next1 /\ failed' = (failed \/ mine)
  /\ UNCHANGED <<memory, probing, pdos, buses, undefined>>

MemdiskDriveDevice ==
  LET h == hook[worker.on] IN
  /\ Looks("memdisk") /\ IsMemdisk(h)
  /\ claimed' = [claimed EXCEPT ![h] = TRUE]
  /\ worker' = IF MayClaim(h) THEN [worker EXCEPT !.at = "claimed"] ELSE Next1
  /\ failed' = (failed \/ ~MayClaim(h))
  /\ UNCHANGED <<intact, genuine, probing, pdos, buses, undefined>>

(* A claim which is there already is taken for that of the boot loader.    *)
G4dDriveDevice ==
  LET h == hook[worker.on] IN
  /\ Looks("grub4dos") /\ IsGrub4dos(h)
  /\ claimed' = [claimed EXCEPT ![h] = TRUE]
  /\ genuine' = [genuine EXCEPT ![h] = ~claimed[h]]
  /\ worker' = [worker EXCEPT !.at = "claimed"]
  /\ UNCHANGED <<intact, probing, pdos, buses, failed, undefined>>

SafeHookDriveDevice ==
  LET h == hook[worker.on] IN
  /\ Looks("other")
  /\ claimed' = [claimed EXCEPT ![h] = TRUE]
  /\ worker' = IF MayClaim(h) THEN [worker EXCEPT !.at = "claimed"] ELSE Next1
  /\ failed' = (failed \/ ~MayClaim(h))
  /\ UNCHANGED <<intact, genuine, probing, pdos, buses, undefined>>

(* The bus is created and attached above whatever is above the PDO.        *)
Attach ==
  LET p == worker.on
      f == CHOOSE g \in Fdo : bus[g].at = "unborn" IN
  /\ worker.at = "claimed" /\ ~undefined
  /\ bus' = [bus EXCEPT ![f] = [at |-> "attached", by |-> Head(worker.left), pdo |-> p,
               lower |-> IF stack[p] = <<>> THEN p ELSE Last(stack[p])]]
  /\ stack' = [stack EXCEPT ![p] = Append(@, f)]
  /\ needed' = [needed EXCEPT ![f] = Drives[hook[p]] \cup {"previous"}]
  /\ worker' = Rest
  /\ UNCHANGED <<memory, probing, pdos, relations, failed, undefined>>

(* The bus could not be created or attached: the claim is given up.        *)
AttachFails ==
  /\ worker.at = "claimed" /\ ~undefined
  /\ claimed' = [claimed EXCEPT ![hook[worker.on]] = FALSE]
  /\ worker' = Next1 /\ failed' = TRUE
  /\ UNCHANGED <<intact, genuine, probing, pdos, buses, undefined>>

NobodyDrives ==
  /\ worker.at = "look" /\ worker.left = <<>> /\ ~undefined
  /\ worker' = Rest
  /\ UNCHANGED <<memory, probing, pdos, buses, failed, undefined>>

-----------------------------------------------------------------------------
(* Relations                                                               *)

Asked(f, m) ==
  /\ worker = Rest /\ ~undefined /\ bus[f].at = "attached" /\ bus[f].by = m
  /\ f \in ToSet(stack[bus[f].pdo])

HookOf(f) == hook[bus[f].pdo]

(* An IRP goes down: below a bus should be its PDO, but an older bus of    *)
(* the same PDO, about to be freed, may be.                                *)
Down(f) == undefined' \in IF bus[f].lower \in Fdo THEN BOOLEAN ELSE {FALSE}

Previous(f) == Prev[HookOf(f)]

(* The bus has made these disks and this PDO of the previous hook, and     *)
(* answers with its relations unless it has no memory for the answer.      *)
Answer(f, made, p, short) ==
  /\ Create(p, Previous(f), f)
  /\ relations' = [relations EXCEPT ![f] = @ \o SetToSeq(made) \o (IF p = Null THEN <<>> ELSE <<p>>)]
  /\ \E ok \in BOOLEAN :
       /\ known' = known \cup (IF ok THEN ToSet(relations'[f]) \cap Pdo ELSE {})
       /\ failed' = (failed \/ short \/ ~ok)
  /\ Down(f)
  /\ UNCHANGED <<memory, probing, tried, worker, bus, stack>>

(* Mutant: the previous hook is left to a second query.                    *)
MemdiskGoesOnLater(f, made) == Len(relations[f]) = 1

MemdiskGoesOn(f, made) == Len(relations[f]) + Cardinality(made) = 1

(* The RAM disk, which may fail to be created.                             *)
CreateDisk(f) == {{}, IF relations[f] = <<>> THEN Drives[HookOf(f)] ELSE {}}

(* The disk first, then the previous hook: the count says what is done.    *)
MemdiskQueryRelations(f) ==
  /\ Asked(f, "memdisk")
  /\ \E made \in CreateDisk(f) :
     \E p \in IF MemdiskGoesOn(f, made) THEN Offers(Previous(f)) ELSE {Null} :
       Answer(f, made, p, \/ made = {} /\ relations[f] = <<>>
                          \/ (MemdiskGoesOn(f, made) /\ Short(Previous(f), p)))
  /\ UNCHANGED needed

(* A RAM disk or a file disk for each mapped slot without one.             *)
ProcessSlots(f) == SUBSET (needed[f] \ {"previous"})

(* The slots, then the previous hook.                                      *)
G4dQueryRelations(f) ==
  /\ Asked(f, "grub4dos")
  /\ \E made \in ProcessSlots(f) :
     \E p \in IF "previous" \in needed[f] THEN Offers(Previous(f)) ELSE {Null} :
       /\ needed' = [needed EXCEPT ![f] = @ \ (made \cup (IF p = Null THEN {} ELSE {"previous"}))]
       /\ Answer(f, made, p, \/ made # needed[f] \ {"previous"}
                          \/ ("previous" \in needed[f] /\ Short(Previous(f), p)))

SafeHookQueryRelations(f) ==
  /\ Asked(f, "other")
  /\ \E p \in IF relations[f] = <<>> THEN Offers(Previous(f)) ELSE {Null} :
       Answer(f, {}, p, relations[f] = <<>> /\ Short(Previous(f), p))
  /\ UNCHANGED needed

-----------------------------------------------------------------------------
(* Removal                                                                 *)

Children(f) == ToSet(relations[f]) \cap Pdo

(* PnP removes what is above the children, then sends the bus its IRP.     *)
SendRemove(f) ==
  LET p == bus[f].pdo IN
  /\ worker = Rest /\ ~undefined /\ bus[f].at = "attached"
  /\ stack[p] # <<>> /\ Last(stack[p]) = f
  /\ \A g \in Fdo : bus[g].at \in {"attached", "children"} => bus[g].pdo \notin Children(f)
  /\ bus' = [bus EXCEPT ![f].at = "children"]
  /\ worker' = [Rest EXCEPT !.at = "removing", !.on = p] /\ failed' = TRUE
  /\ UNCHANGED <<memory, probing, pdos, relations, needed, stack, undefined>>

(* The children are unlinked and deleted; a disk is no device of a         *)
(* mini-driver, and its deletion fails an assertion.                       *)
RemoveChildren(f) ==
  /\ bus[f].at = "children" /\ relations[f] # <<>> /\ ~undefined
  /\ parent' = [p \in Pdo |-> IF p \in Children(f) THEN Null ELSE parent[p]]
  /\ known' = known \ Children(f) /\ tried' = tried \ Children(f)
  /\ relations' = [relations EXCEPT ![f] = <<>>]
  /\ undefined' = (ToSet(relations[f]) \ Pdo # {})
  /\ UNCHANGED <<memory, probing, hook, worker, bus, needed, stack, failed>>

(* The IRP goes down and is complete: PnP may call AddDevice again.        *)
PassRemove(f) ==
  /\ bus[f].at = "children" /\ relations[f] = <<>> /\ ~undefined
  /\ bus' = [bus EXCEPT ![f].at = "passed"]
  /\ worker' = Rest /\ tried' = tried \ {bus[f].pdo} /\ Down(f)
  /\ UNCHANGED <<memory, probing, hook, parent, known, relations, needed, stack, failed>>

(* A PDO which its parent has deleted may be freed before it is used.      *)
MayBeFreed(f) == IF parent[bus[f].pdo] = Null THEN BOOLEAN ELSE {FALSE}

Detach(f) ==
  LET p == bus[f].pdo IN
  /\ bus[f].at = "passed" /\ ~undefined
  /\ bus' = [bus EXCEPT ![f].at = "detached"]
  /\ stack' = [stack EXCEPT ![p] =
       IF Contains(@, f) THEN SubSeq(@, 1, (CHOOSE i \in 1 .. Len(@) : @[i] = f) - 1) ELSE @]
  /\ undefined' \in MayBeFreed(f)
  /\ UNCHANGED <<memory, probing, pdos, worker, relations, needed, failed>>

(* The claim is given up, unless low memory cannot be mapped, and the      *)
(* vendor of a GRUB4DOS hook is restored.                                  *)
Unclaim(f) ==
  LET h == HookOf(f) IN
  /\ bus[f].at = "detached" /\ ~undefined
  /\ bus' = [bus EXCEPT ![f].at = "gone"]
  /\ \/ /\ claimed' = [claimed EXCEPT ![h] = FALSE]
        /\ genuine' = IF bus[f].by = "grub4dos" THEN [genuine EXCEPT ![h] = TRUE] ELSE genuine
     \/ UNCHANGED <<claimed, genuine>>
  /\ undefined' \in MayBeFreed(f)
  /\ UNCHANGED <<intact, probing, pdos, worker, relations, needed, stack, failed>>

-----------------------------------------------------------------------------
Probes == MemdiskDriverEntry \/ SafeHookDriverEntry \/ InitialProbe \/ (\E h \in Hook : CheckMbft(h))
            \/ MemdiskProbeDone \/ SafeHookInitialProbe

Drive == (\E p \in Pdo : DriveDevice(p)) \/ (\E m \in ToSet(Mini) : Refuse(m))
           \/ MemdiskDriveDevice \/ G4dDriveDevice \/ SafeHookDriveDevice
           \/ Attach \/ AttachFails \/ NobodyDrives

QueryRelations(f) == MemdiskQueryRelations(f) \/ G4dQueryRelations(f) \/ SafeHookQueryRelations(f)

ChainNext ==
  \/ Probes \/ Drive
  \/ \E f \in Fdo : QueryRelations(f) \/ SendRemove(f) \/ RemoveChildren(f)
                      \/ PassRemove(f) \/ Detach(f) \/ Unclaim(f)

ChainSpec == ChainInit /\ [][ChainNext]_chainVars

(* DriverEntry, the probe, the worker of PnP and the threads of buses go   *)
(* on; PnP asks a bus which it has started once.                           *)
ChainFairSpec ==
  /\ ChainSpec /\ WF_chainVars(Probes) /\ WF_chainVars(Drive)
  /\ \A f \in Fdo : WF_chainVars(relations[f] = <<>> /\ QueryRelations(f))

-----------------------------------------------------------------------------
(* Properties                                                              *)

Above(f) == bus[f].at \in {"attached", "children", "passed"}

ChainTypeOK ==
  /\ {intact, genuine, claimed} \subseteq [Hook -> BOOLEAN]
  /\ hook \in [Pdo -> Hook \cup {Null}] /\ parent \in [Pdo -> Fdo \cup {MainBus, Null}]
  /\ known \subseteq Pdo /\ tried \subseteq Pdo /\ worker.on \in Pdo \cup {Null}
  /\ \A f \in Fdo : ToSet(relations[f]) \subseteq Pdo \cup UNION {Drives[h] : h \in Hook}
  /\ {failed, undefined} \subseteq BOOLEAN

(* While a bus of MEMDISK or of a plain safe hook is attached, it holds    *)
(* the claim of its hook, sits on the PDO itself and is the only one to    *)
(* drive the hook, however a removal and a new AddDevice overlap.  (The    *)
(* hack of g4dbus.c gives all of this up for GRUB4DOS.)                    *)
ClaimGuards ==
  \A f \in Fdo : Above(f) /\ Vendor[HookOf(f)] # "grub4dos" =>
    /\ claimed[HookOf(f)] /\ bus[f].lower = bus[f].pdo
    /\ \A g \in Fdo \ {f} : Above(g) => HookOf(g) # HookOf(f)

(* A hook has one PDO and a disk is in the relations of one bus, once,     *)
(* though hooks are found by mBFT, from the vector and along the chain,    *)
(* and a query which had no memory is repeated.                            *)
ReportedOnce ==
  /\ \A p, q \in Pdo : p # q /\ parent[p] # Null /\ parent[q] # Null => hook[p] # hook[q]
  /\ \A f \in Fdo : IsInjective(relations[f])
  /\ \A f, g \in Fdo : f # g => ToSet(relations[f]) \cap ToSet(relations[g]) = {}

Found(h) ==
  \E f \in Fdo : /\ bus[f].at = "attached" /\ HookOf(f) = h
                 /\ Drives[h] \subseteq ToSet(relations[f])

(* Unless memory is short or something is removed, every hook is driven in *)
(* the end and every disk of the boot loader reported, with one query of   *)
(* each bus and wherever an mBFT cuts the chain.                           *)
EveryDiskFound == <>(failed \/ \A h \in Hook : Found(h))

(* WvlDeleteDevice is called for devices of mini-drivers, and no device    *)
(* which is freed is used.                                                 *)
NothingUndefined == ~undefined

=============================================================================
