# WinVBlock: TLA+ specifications and proofs

WinVBlock is a set of Windows drivers for virtual block devices: RAM disks,
file-backed disks, AoE (ATA over Ethernet) disks and HTTP disks. This directory
holds TLA+ models of its concurrent parts, the TLC configurations which check
them, and proofs for TLAPS. Paths below are relative to the repository, whose
code lies in `src/` (`src/winvblock`, `src/aoe`, `src/httpdisk`, ...).

Contents: [1 The system](#1-the-system) · [2 The modules](#2-the-modules) ·
[3 The runs](#3-the-runs) · [4 What the runs found](#4-what-the-runs-found) ·
[5 The proofs](#5-the-proofs) · [6 What is not modelled](#6-what-is-not-modelled) ·
[7 Plan](#7-plan)

## 1 The system

### 1.1 How the parts interact

Windows sends each request as an IRP to a device object. `driver.c` owns every
device object that belongs to a *mini-driver* (main bus, dummy, MEMDISK, GRUB4DOS,
file disk, RAM disk, safe hook). `WvDriverDispatchIrp` counts the IRP and either
calls the device's `IrpDispatch` routine in the caller's thread, or enqueues the
IRP to the device's thread. Each such device has one thread, `WvDeviceThread`.
A handler completes the IRP (`WvlPassIrpUp`), passes it to the lower device
(`WvlPassIrpDown`), enqueues it to its own device
(`WvlAddIrpToDeviceQueue`), or waits until it is the only active one
(`WvlWaitForActiveIrps`). The AoE and HTTPDisk drivers have older, separate
device extensions; what they share with the rest is `libbus`, `libdisk` and
`wvlib`.

Two kinds of lifetime cross. A device lives until its thread sees that it is
unlinked, unavailable and used by nobody but the thread; a mini-driver lives
until it is deregistered and its usage count, which counts its devices, is zero.

### 1.2 Inventory

| Component | State | Operations | Hard behaviour | What makes it correct |
|---|---|---|---|---|
| Device queue and thread (`winvblock/driver.c`, `include/driver.h`) | `Flags`, `ActiveIrpCount`, `IrpQueue`, `SentinelIrpLink`, three events, `Lock`, `Usage` | dispatch, enqueue, take, wait for active IRPs, call in thread, pass up/down, delete | the caller, the thread and lower drivers change count, flags and queue by Interlocked operations; the status waiter is on a caller's stack; a handler enqueues from the thread itself | each IRP has one owner; the count counts; nothing is left in the queue of a stopped thread; no lost wake-up; no pointer to a dead stack frame |
| Mini-driver registry (`driver.c`) | locked list, event, usage tracker per mini-driver | register, drive a device, create, delete, deregister, unload | count and event are not changed atomically; the unload waits without a timeout | whoever is driven is registered; an unload ends, and not while devices exist |
| Bus library (`winvblock/libbus`) | list of nodes, `NodeCount`, `Num`, `Linked`, `State`/`OldState` | add, remove, iterate, clear, PnP | state is checked before the lock; clear works without it; lookup and removal are two locked regions | unit numbers are unique and the lowest free ones; count = length; one reference per entry |
| Bus relations (`driver.c`) | `ParentBusDeviceObject`, `LowerDeviceObject`, `DEVICE_RELATIONS` | merge, attach, detach, assign | error paths with references taken | every reference is dropped once; assign and unassign balance the usage |
| Main bus (`winvblock/mainbus`) | children, PDO slots, `State`/`OldState`, held flag, creators | probe, add/remove child, PnP | creation in steps with error labels; IRPs held before start; creators race with probing | children are reported iff linked; a failure leaves nothing behind |
| Dummy devices (`mainbus/dummyirp.c`) | one PnP state | PnP | created by IOCTL, deleted by their parent | a deleted dummy is not reported |
| Disk library (`winvblock/libdisk`) | `State`/`OldState`, geometry | PnP, SCSI, IOCTL | sector arithmetic, states | no I/O beyond the end; state restored by cancellations |
| File disk (`winvblock/filedisk`) | file handle, PnP state, security context | open, I/O, hot-swap, PnP | I/O on the thread of another security context | I/O uses an open handle |
| RAM disk, MEMDISK, GRUB4DOS | none that changes after probing | probe, copy | boot-time structures | bounds of copies |
| Safe hook (`winvblock/safehook`) | chain of interrupt hooks | probe, walk, remove | chain in real-mode memory | removal leaves the chain intact |
| `wvlib` thread | state, work list, signal event | start, stop, add, get work item | start and work share one auto-reset event | no work item is lost; one stopper closes the handle |
| AoE driver (`aoe/driver.c`) | tag list, pending count, searches, targets, round-trip time | send, retry, reply, search, I/O | lost and late packets, identifiers which wrap, several locks | each request completes once; pending = tags which were sent |
| AoE bus (`aoe/bus.c`) | a `libbus` bus | IOCTLs, PnP | as `libbus` | as `libbus`; detaches the unit asked for |
| AoE protocol (`aoe/protocol.c`) | NDIS bindings | bind, unbind, send, receive | list walked without a lock; stop event | nothing is sent on a closed binding |
| HTTPDisk (`httpdisk/*.c`) | per disk: request list, thread, socket | connect, read, PnP | request thread and its termination | each request completes once |
| Old device/disk types, registry, debug, string, memory helpers | none or static | forwarding | — | — |
| Utilities, loader, network boot program | none | one IOCTL each; pre-Windows code | — | — |

`PROJECT.json` lists the same components with what is modelled of each, and the
hazards with the properties that cover them.

## 2 The modules

| Module | What it is |
|---|---|
| `DeviceThread`, `MCDeviceThread` | queue, serial mode and thread of one device |
| `DeviceThread_proofs` | theorems about it |
| `MiniDrivers`, `MCMiniDrivers` | registry, usage trackers, unloading |
| `MiniDrivers_proofs` | theorems about it, and about `BootDisks` |
| `Bus`, `MCBus` | a `libbus` bus with its linked list, PnP states, detachers |
| `UnitNumbers` | what that list promises (abstract specification of `Bus`) |
| `Bus_proofs` | theorems about the list, and that it implements the table |
| `MainBus`, `MCMainBus` | the main bus: creation, children, relations and references, PnP |
| `MainBus_proofs` | theorems about it |
| `BootDisks`, `MCBootDisks` | the chain of hooks of the boot loaders and the drivers which claim them |
| `FileDisk`, `MCFileDisk` | a file-backed disk on a thread of `wvlib`, with `libdisk`'s reads and writes |
| `Aoe`, `MCAoe` | the AoE driver: starting, tags, search, requests, stopping, unloading |
| `Protocol`, `MCProtocol` | the NDIS protocol under it |
| `HttpDisk`, `MCHttpDisk` | the HTTPDisk driver: bus, disks, request thread, sockets and TDI |
| `FileDisk_proofs`, `Aoe_proofs`, `HttpDisk_proofs` | theorems about these three, and that they implement `Irps`; `Aoe_proofs` also has those about `Protocol` |
| `Irps` | what a driver promises about its requests (abstract specification of `Aoe`, `HttpDisk`, `FileDisk`) |
| `Ladder` | calls made one after another with a way back from each |
| `ListLemmas` | lemmas about sequences without repetitions, which the proofs share |

In every module one action is one atomic access to shared state: an Interlocked
operation, an operation on an event, or a region under one lock in which nothing
else is shared (`MainBus` and `BootDisks` are coarser where all of it happens in one
thread). Labels in `pc` (and in `dec`, `reg`, `dev`, `unl`, `clearing`) say
how far a process has got in a C function. Definitions with the comment "Mutant"
are not part of the specifications: each is a definition with a plausible bug, by
which a property is shown to depend on the code.

### 2.1 DeviceThread

State: `flags` is `WV_DEV_EXT.Flags`; `count`, `one`, `arrival`, `queue`,
`sentinel`, `lock`, `usage` are the fields `ActiveIrpCount`, `ActiveIrpCountOne`,
`IrpArrival`, `IrpQueue`, `SentinelIrpLink`, `Lock` and `Usage->UsageCount`;
`slot[r]` is `DriverContext[3]` of a request, `done[p]` the event of the
`S_WVL_STATUS_WAITER` on the stack of process `p`. `st[r]` says where a request
is; it has no counterpart in the code, no guard of a code step reads it except
where it stands for a value the C function has in a local (`status`), and the
properties are stated with it. `held` is the main bus's `CvWvMainBusFlagIrpsHeld`.

| Code | Actions |
|---|---|
| `WvDriverDispatchIrp` | `DispatchIrp`, `ReadMode` |
| `WvMainBusIrpDispatch`, start of the PnP dispatcher | `Dispatch` |
| `WvDriverAddIrpToDeviceQueueInternal` | `AddMode`, `Add`, `AddTail`, `Bounce`, `Waited` |
| `WvIncrementActiveIrpCount`, `WvDecrementActiveIrpCount` | `Increment`, `Decrement`, `DecrementTest`, `DecrementXor`, `DecrementSet` |
| `WvlCallFunctionInDeviceThread` | `CallInThread`, `CallIncrement` |
| `WvlPassIrpUp`, `WvlPassIrpDown`, `WvIoCompletion` | `Handle`, `ThreadHandle`, `IoCompletion` |
| `WvDeviceThread` | `ThreadLoop`, `ThreadDrain`, `ThreadDrained`, `ThreadWake`, `ThreadYield`, `ThreadYielded`, `ThreadTake`, `ThreadExit`, `ThreadGone` |
| `WvProcessDeviceThreadWorkItem`, `WvProcessDeviceIrp` | `ThreadTake`, `ThreadHandle`, `ThreadSignal` |
| `WvlWaitForActiveIrps` | `CallInThread`, `WaitFlags`, `WaitCount`, `WaitXor`, `WaitOne` |
| `WvUnlinkDevice`, `WvlDeleteDevice` | `Unlink`, `DeleteDevice`, `DeleteDevicePoke` |
| usage taken and released by handlers | `TakeUsage`, `ReleaseUsage` |

The decrement of the count is one action with the change of the request's state;
the test, the toggling of the flag and the setting of the event which may follow
are steps of their own (`dec`). Inside the spin-lock (`Add`, `AddTail`) this
matters too: the flags are not protected by it. `Gone` lets a behaviour stutter
once the device object is deleted; callers which still hold a pointer stop there,
since what freed memory does has no meaning.

### 2.2 MiniDrivers

A usage tracker is a count and an event (`count`, `zero`), changed in two steps
on either side (`IncrementUsage`/`ClearZeroUsage`, `DecrementUsage`/`SetZeroUsage`).
So are the list and `WvMiniDriversDeregistered` (`RegisterAppend`/`RegisterClear`,
`DeregisterRemove`/`DeregisterSet`). `WvDriveDevice` keeps the lock over the calls
of the `AddDevice` routines: `DriveStart`, `DriveCreate`/`DriveRefused`, `DriveEnd`.
`UnloadStart`, `UnloadFind`, ..., `DeregisterFree` are `WvUnloadMiniDriver` with
`WvlDeregisterMiniDriver` as the mini-driver's Unload routine; `UnloadWaited` ends
`WvDeregisterMiniDrivers`. The guards of `Register` and `UnloadStart` about the
other drivers are rules of the Windows loader (a driver is loaded after, and
unloaded before, the driver whose exports it uses; its `DriverEntry` is over
before its Unload routine is called).

`UnloadEnds` and `MainUnloadEnds` say that an unloading ends, from wherever it is, unless a device of the mini-driver is up
or an external mini-driver is registered, now or later. An unloading which does not end is under way all the time, so that
each state of it asks anew: a device which was up once excuses nothing afterwards, and an unloading which waits for an event that was lost violates them.

### 2.3 Bus and UnitNumbers

`Bus` has the links `flink` and `blink` of the list, and walks it as the code
does, one node per step; `SlotBefore` is the test which ends the walk of
`WvlBusAddNode_`. A detacher is a thread with a request to detach a unit:
`HttpdiskBusRemove_`, or `AoeBusDevCtlDetach_` with `Driver = "AoE"`, where `StopsAt`
and `Found` differ. The PnP IRPs are actions of their own; `manager` is the state
of the device from the side of Windows, by which it chooses the next IRP: the
order (start, query, cancel or confirm, ...) and the rule that a device is
removed only after the last handle was closed are Windows' (`Pnp`, `Open`, `Closed`:
marked external). The loop of `WvlBusClear` runs without the lock, as in the code.
`CountWidth` is the width of the `USHORT` which counts the nodes.

Nothing keeps two detachers apart: `HttpdiskBusDevCtl_` serves each `IOCTL` in the thread of whoever sends it, and the bus is not locked
between the lookup of a unit and its removal. `overtaken` becomes true when a node is removed which another detacher has found as well (`Shared`);
what the code does to the list then, and when the second one removes it again, is followed (`DetachRemove` works on the links as they are), and
the properties are about the time before. `DetachDelete` leaves nothing in the node of a deleted device (`Blank`). When the bus refuses a node, HTTPDisk
deletes its device; `AoeBusAddDev` does not look at the status (`AddNode`).

`UnitNumbers` is what a user of the bus relies on: a table from nodes to unit
numbers, in which a node joins with the lowest free number and leaves, until its users take one node off twice (`misused`).
`Bus` implements it under the mapping `unit <- [n \in Members |-> num[n]], misused <- overtaken`, where
`Members` are the nodes a walk from the head meets, the least set which the links do not leave
(property `ImplementsTable`).

### 2.4 MainBus

`EntryStart` is `WvMainBusDriverEntry` and `WvMainBusEstablish` up to the PDO: the mini-driver is
registered and, unless the Registry says that this was done (`PdoDone`), a PDO is reported. From then on
Windows may offer PDOs too, one of the driver's own among them, and the creation races.
`WvMainBusDriveDevice` runs in the thread of any driver which drives a PDO with the
main bus: `DriveEnter`, `DriveCreate`, `DriveAttach`, `DriveLink`, `DriveUndone` are its steps,
`creators` is `WvMainBusCreators`. The failure to attach leaves a status of success, with which the caller goes on as if it had a bus (`"lost"`).
Functions called in the thread of the bus device are
one action each: `AddTo`/`AddFails`/`NotBegun` are the ends of `WvMainBusAddDevice` in its three uses (through
`WvlAddDeviceToMainBus`, from the thread by a held IOCTL, and by a probe callback: `Probes` are the
children which the callbacks add in `WvMainBusInitialBusRelations`, and stay added when what comes after it fails); `RemoveChild`, `RemoveOld`,
`DetachOld` (a refused request changes nothing), and one action per PnP IRP. What the caller does after the thread has
answered (`Invalidate`) is a step of its own.

A query of the relations is `Probe` and then `Query`, `QueryFails` or `QueryCrashes`. `WvlMergeDeviceRelations` makes a copy of both lists (`NeedsCopy`),
for which there may be no memory: what came from the driver above (`Higher`) is then dereferenced and freed (`FromAbove`), and the bus's own
children were not referenced yet. When there is no memory for the first list, the code completes the IRP and goes on without one, to a null pointer: `crashed`, after which
there is no step. `Consume` is Windows, which takes the references of an answer.

### 2.5 BootDisks

`intact`, `genuine`, `claimed` are the three fields of a hook in low memory which the code changes
(`Signature`, `VendorId`, the lowest bit of `Flags`). `entry`, `callbacks`, `probe`, `mbfts` are how far
`DriverEntry` has registered the probes and how far the initial probe of the main bus is. `worker`
is PnP: it calls the AddDevice routines of the three mini-drivers in order (`DriveDevice`, then
`Refuse` or one of `MemdiskDriveDevice`, `G4dDriveDevice`, `SafeHookDriveDevice`, then `Attach` or
`AttachFails`). A bus which is removed goes on in the thread of its device (`Detach`, `Unclaim`) after
PnP has its answer (`PassRemove`). `failed` says that memory was short or something was removed,
`undefined` that an assertion has failed or freed memory was used, where a behaviour ends.

### 2.6 FileDisk

`CreatePdo`, `StartWaited`, `OpenStart`, `OpenWaited`, `AddToBus`, `FindStart`, `Free`, ... are the
creators (`WvFilediskAttach` and `WvFilediskCreateG4dDisk` with `WvlThreadStart` inside); `AddItem`/`SignalItem`
is `WvlThreadAddItem`, whose two halves are two steps; `Wrapper`, `Wake`, `TakeItem`, `NoItem`, `Serve`, `Served`, `Close` are the thread.
`OpenFile`, `OpenFails`, `Opened`, `SizeFails` are the opening of a file. The search for a backing disk takes one candidate after another: `FindNames` gets their names,
`FindOpen` opens the next or fails to, `FindDiffers` closes one which is not the disk, `FindMatches` keeps it, `FindOver` is the end of the walk and `Retry` the next try.
`handles` counts what the thread has open, `status` is what the last call has returned. A request is clipped when it arrives and again when
the thread calls `WvlDiskScsi` for it (`Clip`; `Bytes` has the width of 32 bits, `Word`). `FreeFails` is the stop which finds no reference to the thread.
`Reinitialize` is `WvDriverReinitialize`, which waits for searches a limited number of times.

### 2.7 Aoe and Protocol

`list` is the list of tags with their identifiers, `wire` the packets which may still be answered,
`handling` the replies which have taken their tag and not yet done the rest: `aoe__reply` is
`ReplyTake`, then `ReplyIo` or `ReplySearch`, because it gives up `AoeLock_` in between. `ThreadWalk`
is one pass of `AoeThread_` over the list, which decides about the tags one after another: `Wants` is what it decides
about one, given the pending tags and identifiers so far, and `Walk` is the set of places where it sends; `Fresh` are the
identifiers which it gives to these. `SearchNic`, `SearchAsk`, `SearchFinish`, `SearchStopped` are
`AoeDiskInit_`, which runs in the thread of whoever mounts. A search which is done looks for its tag by its address, which may have been freed
and given to another tag since: `AtAddress` are the places where it can be found, its own (`Own`) or, once that is freed, that of any tag of another disk
(`Reused`); `mistaken` remembers the latter. `has` is what the driver holds; `Starts` is
the set of all ways in which the steps of `DriverEntry` can end, by `AoeCleanup`, which releases from a
label downwards as the `switch` does. The PDO which `AoeBusCreate` has the main bus report is on none of these labels, nor is it remembered: it stays in `has`.
`bus` is whether Windows could attach the bus to it. `Unload` is `AoeUnload_` up to `Protocol_Stop`: the tag of the probe is freed already, while replies still come in and
are compared with it (`IsProbe`, `IsOther`: either can be true); `ProtocolStopped` is the rest. The network loses packets, answers late and more than once.

`Protocol` has the list of bindings by its links, since it is walked without its lock (`ChainFrom` is what a walk from a context
meets, the least set which the links do not leave); `op` is a
thread which makes a packet step by step (`SendSteps`, `ReceiveSteps` with their ways back), `walk` a
broadcast, `used` what is taken from memory and pools, `flight` what NDIS has. The names of a binding and the adapter NDIS opens for it are not among the kinds
of memory which `used` counts (section 4). `Aoe` and `Protocol` meet in
`Protocol_Send` and `aoe__reply`; `Aoe` sees of the protocol only that a packet is lost or arrives.

### 2.8 HttpDisk

`held` is what a connection holds (memory, handles, objects), by which `connect` and `close` are functions
from what is held to the possible outcomes; `socket`, `stream` and `block` are the open connection of a
disk, the answers on it which were not read, and the block being fetched. `Start`, `Reach`, `Send`, `Recv`,
`More` and their failures are `HttpDiskGetBlock`; `Insert`/`Signal`, `Wake`, `Take`, `Finish`, `Terminate` are the
queue and the thread. `given` is what a request was completed with: the bytes it got, and how many it was told of, which are all that it has asked for when it is a SCSI read
(`HttpdiskIo_`), and those it got when it is a plain read (`Succeeded`). The server refuses, sends another header, sends less or more, or closes (`Answers`); a
receive call takes any part of what is on the connection (`Recv`, `More`), or nothing and for ever: `RecvReturns` has no fairness.
`Wide` is the build for amd64, where `socket` returns a pointer cut off to an `int`, so that what it has allocated is dropped, or cannot be found again.
`CreateFails` is the device which is deleted because its thread could not be referenced.

## 3 The runs

| Run | Instance | Shows |
|---|---|---|
| `device_core` | 1 I/O IRP, 1 PnP IRP, 1 work item, no holding, usage ≤ 2 | ownership, count, wake-ups and status waiters, for every order of the three with the deletion |
| `device_hold` | 2 I/O IRPs, 1 PnP IRP, main bus which holds IRPs | the sentinel under re-queueing from the thread |
| `device_live` | 1 I/O IRP, 1 work item, fairness | every queued request is processed; a deleted device goes |
| `minidrivers` | 1 internal, 1 external mini-driver, 2 devices, fairness | whoever is driven is registered; unloading ends |
| `bus_units` | HTTPDisk bus, 3 nodes, 2 detachers | references, the unit asked for, and the list implements the table, up to the first removal of a node which both have found |
| `mainbus` | 4 children, one of each kind, 2 callers, 2 buses, fairness | one bus, its list, assignments, usages, references, also of a query from a driver above; requests are held; what is added is reported |
| `mainbus_detach` | the same | counterexample, see section 4 |
| `bootdisks` | hooks g4d → memdisk → other, 3 disks, 4 PDOs, 4 buses, fairness | claims guard, nothing is reported twice, every disk is found |
| `filedisk` | 2 requests of 5 extents, a disk of 4 sectors, 2 candidates, fairness | the thread does not sleep with work to do, no handle is left open, items on stacks live, transfers fit, requests complete |
| `aoe` | 1 disk, 1 request of 2 sectors, fairness | counts, own answers, proven packet size, requests once and in the end, nothing held but the PDO of the bus |
| `protocol` | 2 contexts, 2 addresses, 1 thread which sends or receives, fairness | pools, broadcasts, the end of `Protocol_Stop` |
| `httpdisk` | 1 disk, a read and another request, 2 connections, x86, fairness | the bytes given are those of the request, nothing is left behind, requests complete if receive calls return |

**Bounds.** `Io`, `Pnp` and `Items` are sets of requests, each submitted once; the
properties relate at most a request, the thread, and one other request that is in
the way, and each of the three kinds of request meets each other. Two I/O IRPs
and a PnP IRP are needed for the sentinel: one is it, one passes it. `MaxUsage`
bounds `TakeUsage` (2: the thread and one more). Two devices are the least by
which an increment and a decrement of one tracker overlap, and by which one
device's handler creates another; one internal and one external
mini-driver have the two kinds of unloading overlap. Three nodes are the least with which a gap in the unit
numbers has a node on each side, and which is filled while another node is added. Two detachers are the least of which one overtakes the other.
Nodes are created again after they are gone, so the number of additions and
removals has no bound; the number of PnP transitions has none either.

`MainBus`: one of the two callers is the driver's entry, the other is Windows, which may offer PDOs again and again;
`MaxBuses` is 2, so that the bus is created again after its removal, and `MaxAdds` is 1, so that a list is a child
and the one which the probe adds within its addition (longer ones are left to the proofs); `Higher` is the child of a driver above. `BootDisks`: one hook of each vendor, in the order which has an mBFT in
the middle of the chain; `Busy` is the hook which its boot loader has left claimed, `Boot` makes enumeration wait for
the driver's entry; a fourth PDO and bus are for a hook which is found or driven twice. `FileDisk`: `MaxTries`
and `MaxRounds` are 2 for 10, `MaxNames` is 2, so that the last candidate can end otherwise than the one before; `Word` is 8 for 2^32, so that a product wraps with a disk of four sectors. `Aoe`:
`MtuSectors` is 2, so that the search tries a size which is right and one which is too large, and the request has one
part or two; `MaxPending` is 0 for 64, so that the second tag meets the limit; `MaxId` is 3, one more than the tags. With one disk a search cannot mistake a tag. `Protocol`: each context
lives once; `PoolSize` is what one received packet takes. `HttpDisk`: a block has two parts, so that it
can be cut off, and an answer which is too long has a third; two connections are one and the one which is opened when it fails. `Wide = FALSE` is the build for x86.

**Symmetry** is used in safety runs only, over requests of one kind, devices,
nodes, detachers; no definition chooses among them.
`bus_units` uses it with `ImplementsTable`, whose action part is a property of single
steps and whose abstract specification is symmetric in `Node` and has no fairness.

**Deadlock** is checked in the runs of `DeviceThread` without holding: until the
device is gone there is always something to do. With `MayHold` the device thread can wait for itself
(section 4), and there the check is off. The other modules have finitely many
drivers, devices and requests and really end; `FileDisk`, `BootDisks`, `HttpDisk` and `MainBus` also end where the next step would use
freed memory or a null pointer.

**Fairness.** `DeviceThread`: weak fairness for every thread which is inside the
driver, because Windows schedules every ready thread; for lower drivers, which
have to complete what they are passed; for the thread's waits, which have a timeout
of 30 seconds; for the release of a usage by its handler. Taking the
spin-lock in `Add` has strong fairness: it is a queue for few processors, and the
device thread releases it between any two requests. Nobody is obliged to submit
a request or to remove the device. `MiniDrivers`: what began continues; the two
places which take the list's lock have strong fairness (a kernel event
hands over in order of arrival). Nobody is obliged to delete a device, hence the
exceptions in `UnloadEnds` and `MainUnloadEnds`. In the other modules threads which
are inside the driver go on, and what lies outside answers: PnP asks for relations which were
invalidated, NDIS completes requests and unbinds a protocol which is deregistered. In `HttpDisk` the calls which
connect and send return, since the transport gives up on a server which does not acknowledge; those which receive wait without a timeout (`ktdi.c:684`), and have no
fairness: `EveryIrpCompletes` assumes that no receive call waits forever (`ServersAnswer`), and is violated without. In `Aoe` the thread (`ThreadWalk`) and the answer to a tag (`Answer`) have strong fairness: the adapter does not refuse forever,
and a server which is asked again and again answers some time, which is what a retry is for. Nobody is obliged
to mount, stop, delete or unload.

## 4 What the runs found

`mainbus_detach`: `WvMainBusDeviceControlDetach` accepts only buffers which are *smaller* than a unit number, so
it refuses each request of the utility.

The modules also state what the code does not ensure. These properties are in no run; TLC
finds each of them violated when it is the invariant (or the property) of the module's configuration, with the changes named here.

* `DeviceThread!ExclusiveAccess` (`MCDeviceThreadHold.cfg` with `MayHold = FALSE`): `WvlWaitForActiveIrps` can return while another IRP is with a lower driver.
  `ActiveIrpCountOne` is cleared only where the thread finds an empty queue, so that a signal for an earlier waiter
  is taken by a later one.
* `DeviceThread!ThreadNeverWaitsForItself` (`MCDeviceThreadHold.cfg`; `driver.c:1542`): serial mode overrides "do not wait"; the device thread, which puts a
  held IRP back, waits for itself. With `MayHold`, `StatusWaiterAlive` fails too (1549): a request put back keeps the pointer to
  its earlier status waiter, whose stack frame is gone.
* `DeviceThread!ThreadNotAlreadyStopped` (the same; 1665): the thread can notice the stop twice and fail its assertion.
* `MiniDrivers!StallsUntilDeleted`: the event of a usage tracker can be set while its count is not zero, so that a
  mini-driver is freed while it has a device.
* `Bus`: `overtaken` becomes true with two detachers. Two requests to detach one unit find one node and both remove it (`httpdisk/bus.c:399`): without the
  exception for this, `DetachesTheUnit` and `CountIsLength` are violated, and the second removal may be of memory which was freed.
* `Bus!DetachesTheUnit` with `Driver = "AoE"`: AoE's request detaches the last node of the bus and not the unit it names. `Bus!ClearedStaysEmpty`,
  likewise with one node: the thread which has found a disk can insert its node after `WvlBusClear`.
* `Aoe!PendingNotNegative` (`aoe/driver.c:619`): the clean-up of a search decrements the count also for a tag which was never sent. The limit
  then lets one more tag out; `NoPlaceLost` is the half which holds.
* `Protocol!NoneAfterStop`, `ContextsAlive`: a binding which is being made is appended after `Protocol_Stop` has found the list empty; a broadcast may stand on a
  context which is freed.
* `FileDisk!StarterIsWoken` (`wvlib/thread.c:155`): the event by which `WvlThreadStart` is told that the thread is ready is the one the thread itself waits for next. When the
  thread takes it first, the starter waits for good; nobody sets the event again, as the device is not reported yet.
* `FileDisk!DudIsNotUsed` (`filedisk/grub4dos.c:378`): when the last candidate could be opened but is not the right disk, its status is still success and its closed handle is used.
* `BootDisks!NothingUndefined`: the removal of a bus calls `WvlDeleteDevice` for RAM disks and file disks, which are no devices of a mini-driver
  (`memdisk/fdo.c:318`), and uses its PDO after the parent has deleted it.
* `HttpDisk!EveryIrpCompletes` without `ServersAnswer` (`httpdisk/ktdi.c:684`): a server which falls silent keeps the thread of the disk in a receive call, the requests behind it in the queue,
  and `HttpDiskDeleteDevice` in its wait for the thread.
* `HttpDisk!NothingLeftBehind` with `Wide = TRUE` (`httpdisk/ksocket.c:532`): `socket` returns the address of what it has allocated as `-(int) s`. On amd64, for
  which `makedriver.bat` builds as well, that is cut off: a handle which happens to be negative is taken for an error (`httpdisk.c:1272`, `1439`) and the memory stays; any other
  is turned into an address which is not the socket's.
* `HttpDisk!OwnBytes` without its condition that the request is a read (`httpdisk/httpdisk.c:963`): `HttpDiskGetBlock` returns success for a block which was cut off (`1640`), and `HttpdiskIo_`
  completes a SCSI read with the full length. What is told exceeds what was given; the rest of the buffer is what it was before.

Some steps are in the model as the code has them, and no property is about them:

* `MainBus!DriveUndone` (`mainbus/mainbus.c:259`): the failure to attach the FDO leaves a status of success. `WvMainBusEstablish` (359) goes on as if the PDO were driven, keeps the mini-driver
  registered, and Windows is told the same of a PDO which it has offered.
* `MainBus!QueryCrashes` (`mainbus/busirp.c:495`): when there is no memory for the first list of relations, the IRP is completed, and the handler goes on to merge and to reference
  the entries of a null pointer, or to complete the IRP again.
* `MainBus!StartFails` (`mainbus/busirp.c:222`): a bus which fails to start lets requests through; `HeldUnlessStarted` exempts it.
* `Aoe!AoeBusCreatePdo` (`aoe/bus.c:385`, where a comment says so) and `HttpDisk!HttpdiskBusCreatePdo` (`httpdisk/bus.c:102`): the PDO which the main bus reports for the bus is
  never taken back, neither when the driver cannot start nor when it is unloaded. `NothingHeld` and `NothingLeftBehind` are about all else.
* `Aoe!SearchFinish` (`aoe/driver.c:597`): the search compares a pointer which `aoe__reply` may have freed (1205). With two disks the memory may be a tag of the other one by then, which is
  taken out of the list and freed, so that its request is never completed. `TagCountAccurate` holds as long as this has not happened (`mistaken`); the run has one disk.
* `Aoe!IsProbe` (`aoe/driver.c:247`): `AoeCleanup_` frees the tag of the probe before it stops the protocol, and `aoe__reply` reads it (1014).
* `Bus!AddNode` (`aoe/bus.c:412`): `AoeBusAddDev` ignores that the bus has refused the disk, which then belongs to none.
* `Protocol!BindFails` (`aoe/protocol.c:675`): the names of the binding are freed although nothing has set them; if the memory was not zero by chance, that frees a wild pointer. Those of a
  binding which was made are never freed, and `PoolsAccurate` does not count them. `BindTake`: `NdisOpenAdapter` may return `STATUS_PENDING`, which is a success for `NT_SUCCESS`: the
  code uses the adapter at once. `Free`: `NdisCloseAdapter` may be pending when the context is freed (852).
* `FileDisk!FreeFails` (`wvlib/thread.c:214`) and `HttpDisk!CreateFails` (`httpdisk.c:418`): when the thread cannot be referenced, the device is deleted while its thread runs. `FileDisk!RemoveDevice`
  does the same with any disk.
* `HttpDisk!Linked` (`httpdisk/bus.c:225`): when the bus gets no link its device is deleted twice. `Aoe!DriverEntry` (`aoe/driver.c:233`): a thread without a reference runs
  after the driver is gone.
* Not modelled is `AoeBusDevCtlScan` (`aoe/driver.c:1637`): without memory for the answer it returns with `AoeTargetListLock_` held, and the next reply to a probe spins forever.

Where one of these uses freed memory, the behaviours of the model end there, or go on without the effect of it.

These limit the passing runs: the bus properties are about the time up to the first removal of a node which two detachers have found, `StatusWaiterAlive` about a device
which holds nothing, `BroadcastReachesAll` about a walk which did not meet a freed context, `HeldUnlessStarted` about a bus which has not failed to start, `ReferencesMatch` about a machine which
runs, `TagCountAccurate` about one disk, `NothingLeftBehind` about x86, `EveryIrpCompletes` of `HttpDisk` about receive calls which return.

## 5 The proofs

The proofs hold for every value of the constants which the assumptions of a module allow: `RequestsAssumption`, `NamesAssumption`,
`ParametersAssumption`, ... say that requests, devices and nodes are finite sets of distinct things, that `None` (NULL) is
none of them, and that numbers are natural ones; TLC evaluates them in each run. The bounds of the runs are constants like the others,
so that the theorems hold without them. `MiniDrivers_proofs` extends `BootDisks` beside `MiniDrivers`, and `Aoe_proofs` extends `Protocol` beside
`Aoe`; for this the definitions of `BootDisks` and `Protocol` have names of their own (`ChainSpec`, `NdisSpec`, `ChainInit`, ..., and `Null`
for NULL). `ChainAssumption` says what a boot loader does: it
installs its hook before the one at the vector, so that no hook is the previous one of two, nor is the one at the vector;
hooks have different disks, and a MEMDISK hook has one disk and a valid mBFT. Some theorems have a hypothesis of their own:
the two about status waiters that the device holds no requests back (`~MayHold`; with held requests they are false, section 4), the last one of
`MiniDrivers` that the main driver has a mini-driver of its own (it has five), and those of `Bus` that it is HTTPDisk's (`OfHTTPDisk`; with AoE's they are false, section 4).
Of the single theorems, `NothingStays` of `HttpDisk` assumes pointers of 32 bits (`~Wide`), `CountIsRight` fewer nodes than the `USHORT` counts, and `OneDiskIsSure` of `Aoe` one disk.

| Module | Theorem | Statement |
|---|---|---|
| `DeviceThread_proofs` | `Typing` | `TypeOK`; `count \in Nat` is what the assertions in the code state |
| | `CountIsAccurate`, `OneOwner` | `Accounting`, `Ownership` |
| | `NoneStranded`, `NoneAfterTheStop` | `NothingStranded`, and the action property `NoneAfterStop` |
| | `SleeperIsWoken`, `SentinelIsMet` | `PromptWake`, `SentinelInQueue` |
| | `WaitersAlive`, `WaitersRemembered` | `StatusWaiterAlive`, `WaiterRemembered` |
| `MiniDrivers_proofs` | `Typing`, `DrivenStaysRegistered` | `TypeOK`, `DrivenIsRegistered` |
| | `UnusedStaysSignalled`, `EmptyStaysSignalled` | the events cannot stay clear for good |
| | `NoneRegisteredAfterUnload` | `AllDeregistered` |
| | `ChainInvariant` | the inductive invariant of `BootDisks` |
| | `ClaimsGuardHooks`, `HooksReportedOnce` | `ClaimGuards`, `ReportedOnce` of `BootDisks` |
| `Bus_proofs` | `ReferencesKept`, `UnitIsDetached` | `MembersReferenced`, `DetachesTheUnit` |
| | `ListIsTable`, `NumbersAreDistinct` | `Bus` implements `UnitNumbers`, in which numbers are unique |
| | `ListIsRing`, `CountIsRight` | `Ring`, `CountIsLength` |
| `MainBus_proofs` | `OneBusAlways`, `HeldAlways` | `OneBus`, `HeldUnlessStarted` |
| | `ListedAlways`, `ReferencesAlways` | `ListedIsAssigned`, `ReferencesMatch` |
| `FileDisk_proofs` | `ItemsStayAlive`, `HandleIsKept` | `ItemsAlive`, `HandleKept` |
| | `TransfersFit`, `NoWakeupLost` | `TransferFits`, `WakeupKept` |
| | `RequestsServedOnce` | `FileDisk` implements `Irps` |
| `HttpDisk_proofs` | `BytesAreOwn`, `NothingStays`, `NoWakeupLost` | `OwnBytes`, `NothingLeftBehind`, `WakeupKept` |
| | `RequestsServedOnce` | `HttpDisk` implements `Irps` |
| `Aoe_proofs` | `CountStaysRight`, `PlacesAreKept` | `TagCountAccurate`, `NoPlaceLost` |
| | `AnswersAreOwn`, `SizeIsProven` | `OwnAnswer`, `ProvenSize` |
| | `OneDiskIsSure` | with one disk no search takes another's tag, so that `CountStaysRight`, which is `mistaken \/ TagCountAccurate`, has no exception |
| | `NothingStaysHeld`, `RequestsServedOnce` | `NothingHeld`; `Aoe` implements `Irps` |
| | `NdisInvariant` | the inductive invariant of `Protocol` |
| | `PoolsStayAccurate`, `BroadcastsReachAll` | `PoolsAccurate`, `BroadcastReachesAll` of `Protocol` |

For each module there is an inductive invariant, a proof that it holds initially and that every step keeps it (one step or lemma per action,
and under it one per conjunct which the action can disturb, or the other way round), and the properties follow. TLC has checked each part as an invariant
of the run of the module.

**DeviceThread.** `IInv == TypeOK /\ Accounting /\ Ownership /\ Stopping`, and each of its parts needs others. A decrement keeps `Accounting`, and the count
a natural number, only if the request it is about is counted; that is what
`Ownership` says of whoever performs it. `Ownership` needs the lock
(`LockHeld`): while the thread looks at the head of the queue no caller appends to
it. `Stopping` relates the flag, the local `stop`, the queue and the program counter of the
thread: `NothingStranded` follows from it and from `QueueOwns` (a queued request is in
the queue or with the thread), `NoneAfterStop` from `Accepting`. `PromptWake` is inductive with `IInv`: who adds to the queue of a sleeping thread has the lock, and signals before
it is released. `SentinelInQueue` needs `Refused`: who is about to append a request that is still active has found the flag cleared.
The status waiters need `Waits`, which says of each process that waits where its request is, and that the pointer in it
is its own.

**MiniDrivers.** `Registered` ties the list to the steps of registering and deregistering, and an unloading to its own mini-drivers;
`Driven` says what the lock is for, that the mini-driver at the place where `WvDriveDevice` stands stays there; `Counting` makes
the count that of the devices in use. `AllDeregistered` does not follow from the event, which a removal and a registration
can touch in the wrong order; `Closing` has what does ensure it: external mini-drivers register only while the internal ones are
registered, and these are not removed before the main driver is unloaded.

**Bus.** `Joined` are the nodes which program counters and references say are on the list. Two local facts are inductive: the links of these
nodes and the head undo one another (`Chained`), and the next place has the next greater number (`Sorted`). `Walking` says of a walk under the lock
that all numbers below the one it has arrived at are in use. That a walk from the head meets
exactly `Joined` (`MembersAreJoined`) is the only argument by induction: of the nodes it did not meet the one with the smallest number
(`Smallest`) would have a predecessor with a smaller one. `Clearing` says why the
clearing without the lock is alone, and that it always stands before the first node. Insertion is then `Join`, removal and each step of the clearing are
`Leave`, all else stutters. The number of detachers is any: `Targets` says that what a detacher has found is on the list with the number asked for, and that another has found it
too only while this one has not removed it, which holds until a removal of a node which is `Shared`. The invariant is therefore `Kept == overtaken \/ IInv`: `overtaken` stays true (`StaysOvertaken`), and the step which makes it true
needs no proof that it keeps `IInv`. `UnitNumbers` has the same exception (`Misuse`).

**MainBus.** `Driving` counts the callers within `WvMainBusDriveDevice` and has one of them at most past the count. `PnpStates` relates what Windows
believes to `State`, `OldState` and the flag. `Lists` says where a child can be while it is created (`nodes`, `half`), so that a probe within
an addition does not list it twice. `Answered` has an answer name each device once, the child of the driver above included, so that the references which `Query` takes, `FromAbove` gives back and `Consume` releases are those of the answer.

**FileDisk.** `Handled` has one work item at most, which is the creator's, and tells where the thread can be meanwhile; so the opening and the search find no
handle open (`Placed`). `HandleKept` is then inductive over the steps of the walk: a handle which is being matched is closed, or becomes the disk's. `Woken` covers the time from the thread's last look at its lists to its wait. `Queued` says who has a request,
`Moved` that a request in the queue asks for what the first clipping has left.

**HttpDisk.** `Streams` says what can still be read from the connection of a disk: between two blocks something which begins with no header, such as the end of an answer which was too long,
then perhaps the answer to the request which is being served. A reply must begin with a header (`Valid`), so that what is left from before is never taken for it; what is delivered is compared when the request is completed (`given`). `Holds` has a connection belong to one disk, `Fetches` a block to a
thread which is at work, `Owned` a request to the queue or the thread. The ways back of `HttpDiskConnect` are followed from a set of things held
to the next one.

**Aoe.** `Alone` says that the entries of the list differ in tags and in identifiers, `Answers` that a packet with
the identifier of a listed tag is that tag's (an identifier which is in use or on the wire is not given out again: `Fresh`), `Apart` that a tag is in the list or
with a handler. `Searches` limits the questions to a disk to the one which its state tells, and with it `Sized` follows the
packet size which was answered. A step changes the list in one of three ways (`Appends`, `Removes`, `Sends`), and `Counted` and
`NoPlaceLost` are proved for these. A search which takes another disk's tag makes `mistaken` true, and from then on only the count is given up. `NothingHeld` is independent: `Held`, with the outcomes
of `DriverEntry` and its ways back evaluated label by label.

**BootDisks.** The steps are first reduced to what they do to the parts of the invariant (`Quiet`, `Finds`, `LooksAt`, `Attaches`, `Replies`, and
those of a removal, `Onward`). `ClaimGuards` is not inductive: a bus keeps its claim until its thread has given it up, long after PnP has its answer, and
the mini-driver which looks at the PDO has the claim before there is a bus. `Held` gives each claim of a hook one holder, a bus from
its attachment to `Unclaim` or the worker (`Claiming`), which a second AddDevice of the PDO therefore cannot become; that the bus is
on the PDO itself follows with `Stacked`, as whatever is above the PDO holds the claim. `ReportedOnce` needs to know where a hook
was found (`Reported`): from the vector or an mBFT by the main bus, or as the previous one of the hook of a bus, of which there is one that
PnP knows (`Answered`, `Worked`). The main bus finds a hook by mBFT before it looks at the vector, and marks it (`Probed`), and a bus which
repeats a query tells by the count of its relations (MEMDISK, others) or by the nodes needed (GRUB4DOS) that it has
made the PDO.

**Protocol.** `Linking` has the list be a chain without a fork, which ends, of the contexts which are bound; that unlinking one takes nothing else out, and appending
one adds nothing else, are lemmas about the least set `ChainFrom`. `Opening` says that a context has no packets before it is opened, so that
`PoolsAccurate` counts from zero. `Reaching` is about a walk without the lock: what the broadcast must reach and is still bound was
tried, or is ahead of the walk, also when the walk stands on a context which was unlinked, since an unlinked context keeps its link.

**Only model-checked.**

* Liveness: the prover does not reason about fairness here, nor about `ENABLED`.
* Found to fail by TLC and not proved about: `Bus` with the detach request of AoE or after a removal of a node which two have found, `DeviceThread`'s waiters with held requests, `HttpDisk` on amd64.

## 6 What is not modelled

* Starting and stopping the device thread by hand (`WvStartDeviceThread`,
  `WvStopDeviceThread`), work items without a wait (no caller in the repository), and
  `WvlWaitForIrpCompletion`.
* Contents of IRPs and buffers; priorities and IRQLs; the length of timeouts; queries and
  device controls which only fill a buffer (`AoeBusDevCtlScan` and `Show`, `libbus` and `libdisk` queries, device text and identifiers).
* Accesses to freed memory: the model shows the state in which one
  would happen, and stops there.
* What NDIS does with an adapter whose closing is pending: it is assumed to indicate no packet on it. `Aoe` assumes that no reply is being handled when `Protocol_Stop` has returned, which `Protocol` does not
  ensure for a binding that is being made meanwhile (`NoneAfterStop`, section 4).
* `libbus`: a lower device which fails to start. `libdisk`: PnP states. Dummy devices: PnP states.
* `filedisk`: hot-swapping. `filedisk/pnp.c`, `filedisk/scsi.c`, `ramdisk/memdisk.c`, most of `safehook/pdo.c` and `WvlThreadTest`
  are reached by nothing in the repository.
* The components with status `not_modelled` in `PROJECT.json`: tools, registry, logging, pre-Windows code.
* No composition: `MainBus` assumes of `DeviceThread` that a function called in the thread of a device runs there alone (`Ownership`),
  `BootDisks` of `MainBus` that an added child is reported (`AddedIsReported`).

## 7 Plan

1. Proofs: `StartedTakesNodes` and `DetachedIsFreed` of `Bus`; `DudIsNotUsed` of `FileDisk` for
   the case in which it holds.
2. PnP states of disks (`libdisk`) and dummy devices, which share the shape of `MainBus`'s.
3. Grouped allocation (`WvlMemGroupAlloc`) as an algorithm.
4. An abstract request service above `DeviceThread`, with the refinement as a property and a theorem.
