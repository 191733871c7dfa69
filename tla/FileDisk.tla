------------------------------ MODULE FileDisk ------------------------------
(***************************************************************************)
(* A file-backed disk (src/winvblock/filedisk) with the thread library     *)
(* (wvlib/thread.c) and the SCSI reads and writes of libdisk: creating the *)
(* disk and its thread, opening the file or looking for the disk which a   *)
(* sector-mapped disk of GRUB4DOS lies on, serving requests in the thread, *)
(* stopping it, and the boot which waits for the search.                   *)
(*                                                                         *)
(* The thread takes work items and requests and waits for one event that   *)
(* everybody sets: whoever adds an item or a request, and the thread       *)
(* itself once, when it is ready.                                          *)
(***************************************************************************)
EXTENDS Naturals, Sequences, FiniteSets

CONSTANTS
  Irp,         (* requests                                                 *)
  Extent,      (* what a request may ask for: [start, count, length], in   *)
               (* sectors and, for the buffer, in bytes                    *)
  Size,        (* LBADiskSize                                              *)
  SectorSize,
  Word,        (* 2^32 in the code                                         *)
  MaxTries,    (* 10 in the code                                           *)
  MaxNames,    (* bound: the names of disks in one walk                    *)
  MaxRounds,   (* 10 in the code                                           *)
  None

ASSUME DiskAssumption ==
  /\ Size \in Nat /\ SectorSize \in Nat \ {0} /\ Word \in Nat \ {0}
  /\ MaxTries \in Nat /\ MaxNames \in Nat /\ MaxRounds \in Nat
  /\ Extent \subseteq [start : Nat, count : 0 .. Word - 1, length : 0 .. Word - 1]
  /\ None \notin {"file", "disk"}

VARIABLES
  kind,        (* "file" or "sector"                                       *)
  life,        (* of the device object                                     *)
  creator,     (* where WvFilediskAttach or WvFilediskCreateG4dDisk is     *)
  state,       (* Thread->State                                            *)
  signal,      (* Thread->Signal, which one wait resets                    *)
  items,       (* Thread->Main.Link: "open", "find" or "stop"              *)
  thread,      (* where the thread is                                      *)
  backing,     (* filedisk->file: None, the handle of the "file" or of the *)
               (* "disk", or one which is not open: "closed"               *)
  handles,     (* how many handles the thread has open                     *)
  opened,      (* what the opener has brought: None until it is complete   *)
  client,      (* filedisk->impersonation                                  *)
  tries,       (* count in WvFilediskG4dFindBackingDisk_                   *)
  names,       (* the names which it has yet to walk over                  *)
  status,      (* what its last call has returned                          *)
  findDisk,    (* WvFindDisk                                               *)
  boot,        (* how often WvDriverReinitialize was called, and its end   *)
  queue,       (* filedisk->Irps                                           *)
  caller,      (* where the dispatcher of a request is                     *)
  asked,       (* what a request asks for; its length is clipped           *)
  moved,       (* what was read or written for it, of how long a buffer    *)
  accepted,    (* requests which were marked pending                       *)
  completions  (* how often a request was completed                        *)

disk    == <<kind, life, creator>>
library == <<state, signal, items, thread>>
file    == <<backing, handles, opened, client>>
search  == <<tries, names, status, findDisk, boot>>
irps    == <<queue, caller, asked, moved, accepted, completions>>
vars    == <<disk, library, file, search, irps>>

Init ==
  /\ kind \in {"file", "sector"} /\ life = "none" /\ creator = "idle"
  /\ state = "NotStarted" /\ signal = FALSE /\ items = <<>> /\ thread = "none"
  /\ backing = None /\ handles = 0 /\ opened = None /\ client = FALSE
  /\ tries = 0 /\ names = 0 /\ status = "success"
  /\ findDisk = 0 /\ boot = [rounds |-> 0, over |-> FALSE]
  /\ queue = <<>> /\ caller = [r \in Irp |-> "out"]
  /\ asked = [r \in Irp |-> None] /\ moved = [r \in Irp |-> None]
  /\ accepted = {} /\ completions = [r \in Irp |-> 0]

-----------------------------------------------------------------------------
(* Creating the disk: WvFilediskCreatePdo and WvlThreadStart               *)

CreatePdo ==
  /\ life = "none"
  /\ life' = "made" /\ creator' = "awaiting"
  /\ state' = "Starting" /\ signal' = FALSE /\ thread' = "wrapper"
  /\ UNCHANGED <<kind, items, file, search, irps>>

(* The thread cannot be created: the device is deleted.                    *)
CreateFails ==
  /\ life = "none"
  /\ life' = "deleted" /\ creator' = "done"
  /\ UNCHANGED <<kind, library, file, search, irps>>

(* The creator waits for the event of which the thread says that it is     *)
(* ready, then resets it.  The thread may have taken it by then.           *)
StartWaited ==
  /\ creator = "awaiting" /\ signal
  /\ signal' = FALSE
  /\ creator' = "started"
  /\ UNCHANGED <<kind, life, state, items, thread, file, search, irps>>

(* WvlThreadAddItem, without the setting of the event.                     *)
AddItem(item) ==
  items' = IF state = "Started" THEN Append(items, item) ELSE items

(* The path and the security context of the client are made, and an item   *)
(* on the stack is added (WvFilediskOpen_).                                *)
OpenStart ==
  /\ creator = "started" /\ kind = "file"
  /\ \/ /\ client' = TRUE /\ AddItem("open") /\ creator' = "signals open"
     \/ /\ creator' = "freeing" /\ UNCHANGED <<client, items>>
  /\ UNCHANGED <<kind, life, state, signal, thread, backing, handles, opened,
                 search, irps>>

(* Mutant: the wait for the opener has a timeout.                          *)
OpenWaitedTimeout ==
  /\ creator = "waits open"
  /\ creator' = IF opened = "yes" THEN "adding" ELSE "freeing"
  /\ UNCHANGED <<kind, life, library, file, search, irps>>

OpenWaited ==
  /\ creator = "waits open" /\ opened # None
  /\ creator' = IF opened = "yes" THEN "adding" ELSE "freeing"
  /\ UNCHANGED <<kind, life, library, file, search, irps>>

(* WvBusAddDev, which fails when there is no main bus.                     *)
AddToBus ==
  /\ creator = "adding"
  /\ \/ creator' = "done" /\ life' = "listed"
     \/ creator' = "freeing" /\ UNCHANGED life
  /\ UNCHANGED <<kind, library, file, search, irps>>

(* WvFilediskG4dFindBackingDisk: the count for the boot, and the item.     *)
FindStart ==
  /\ creator = "started" /\ kind = "sector"
  /\ \/ /\ findDisk' = findDisk + 1 /\ AddItem("find")
        /\ creator' = "signals find"
     \/ creator' = "freeing" /\ UNCHANGED <<findDisk, items>>
  /\ UNCHANGED <<kind, life, state, signal, thread, file, tries, names, status,
                 boot, irps>>

(* WvlThreadSendStopAndWait finds no reference to the thread, what nobody  *)
(* looks at: the device is deleted and its thread runs on.                 *)
FreeFails ==
  /\ creator = "freeing"
  /\ creator' = "done" /\ life' = "deleted" /\ client' = FALSE
  /\ UNCHANGED <<kind, library, backing, handles, opened, search, irps>>

(* WvFilediskFree_: WvlThreadSendStopAndWait adds a stopper on the stack.  *)
Free ==
  /\ creator = "freeing"
  /\ AddItem("stop")
  /\ creator' = IF state = "Started" THEN "signals stop" ELSE "waits stop"
  /\ UNCHANGED <<kind, life, state, signal, thread, file, search, irps>>

Freed ==
  /\ creator = "waits stop" /\ thread = "ended"
  /\ creator' = "done" /\ life' = "deleted" /\ client' = FALSE
  /\ UNCHANGED <<kind, library, backing, handles, opened, search, irps>>

(* The end of WvlThreadAddItem.  A sector-mapped disk is reported now.     *)
SignalItem ==
  /\ creator \in {"signals open", "signals find", "signals stop"}
  /\ signal' = TRUE
  /\ creator' = CASE creator = "signals open" -> "waits open"
                  [] creator = "signals stop" -> "waits stop"
                  [] OTHER -> "done"
  /\ life' = IF creator = "signals find" THEN "listed" ELSE life
  /\ UNCHANGED <<kind, state, items, thread, file, search, irps>>

-----------------------------------------------------------------------------
(* The thread: WvlThreadWrapper and WvFilediskThread_                      *)

Wrapper ==
  /\ thread = "wrapper"
  /\ items' = <<>> /\ state' = "Started" /\ signal' = TRUE
  /\ thread' = "waiting"
  /\ UNCHANGED <<disk, file, search, irps>>

(* The event, or 30 seconds; it is reset once more.                        *)
Wake ==
  /\ thread = "waiting"
  /\ signal' = FALSE
  /\ thread' = "items"
  /\ UNCHANGED <<disk, state, items, file, search, irps>>

TakeItem ==
  /\ thread = "items" /\ items # <<>>
  /\ items' = Tail(items)
  /\ CASE Head(items) = "open" -> thread' = "opening" /\ UNCHANGED <<state, tries>>
       [] Head(items) = "find" -> thread' = "finding" /\ tries' = 0 /\ UNCHANGED state
       [] Head(items) = "stop" -> state' = "Stopping" /\ UNCHANGED <<thread, tries>>
  /\ UNCHANGED <<disk, signal, file, names, status, findDisk, boot, irps>>

NoItem ==
  /\ thread = "items" /\ items = <<>>
  /\ thread' = "irps"
  /\ UNCHANGED <<disk, state, signal, items, file, search, irps>>

(* WvFilediskOpenInThread_: the file is opened, in the name of the client, *)
(* and asked for its size.                                                 *)
OpenFile ==
  /\ thread = "opening"
  /\ handles' = handles + 1
  /\ thread' = "sizing"
  /\ UNCHANGED <<disk, state, signal, items, backing, opened, client, search, irps>>

(* No impersonation, or no file.                                           *)
OpenFails ==
  /\ thread = "opening"
  /\ opened' = "no"
  /\ thread' = "items"
  /\ UNCHANGED <<disk, state, signal, items, backing, handles, client, search,
                 irps>>

Opened ==
  /\ thread = "sizing"
  /\ backing' = "file" /\ opened' = "yes"
  /\ thread' = "items"
  /\ UNCHANGED <<disk, state, signal, items, handles, client, search, irps>>

(* err_query_info                                                          *)
SizeFails ==
  /\ thread = "sizing"
  /\ handles' = handles - 1 /\ opened' = "no"
  /\ thread' = "items"
  /\ UNCHANGED <<disk, state, signal, items, backing, client, search, irps>>

-----------------------------------------------------------------------------
(* WvFilediskG4dFindBackingDisk_: a walk over the names of the disks, for  *)
(* each try.                                                               *)

(* retry: after the last try the search ends, and the count for the boot   *)
(* stays.                                                                  *)
Retry ==
  /\ tries' = tries + 1
  /\ thread' = IF tries < MaxTries THEN "finding" ELSE "items"
  /\ UNCHANGED <<backing, findDisk>>

(* IoGetDeviceInterfaces, and its failure.                                 *)
FindNames ==
  /\ thread = "finding"
  /\ \/ /\ names' \in 0 .. MaxNames /\ status' = "success"
        /\ thread' = "walking"
        /\ UNCHANGED <<tries, backing, findDisk>>
     \/ Retry /\ UNCHANGED <<names, status>>
  /\ UNCHANGED <<disk, state, signal, items, handles, opened, client, boot, irps>>

(* ZwCreateFile of the next disk.                                          *)
FindOpen ==
  /\ thread = "walking" /\ names > 0
  /\ \/ /\ handles' = handles + 1 /\ status' = "success"
        /\ thread' = "matching"
        /\ UNCHANGED names
     \/ /\ names' = names - 1 /\ status' = "failure"
        /\ UNCHANGED <<handles, thread>>
  /\ UNCHANGED <<disk, state, signal, items, backing, opened, client, tries,
                 findDisk, boot, irps>>

(* Mutant: a disk which was opened stays open, whatever it is.             *)
FindDiffersOpen ==
  /\ thread = "matching"
  /\ names' = names - 1
  /\ thread' = "walking"
  /\ UNCHANGED <<disk, state, signal, items, file, tries, status, findDisk, boot,
                 irps>>

(* WvFilediskG4dCheckDiskMatch_: not the disk which is looked for.         *)
FindDiffers ==
  /\ thread = "matching"
  /\ handles' = handles - 1 /\ names' = names - 1
  /\ thread' = "walking"
  /\ UNCHANGED <<disk, state, signal, items, backing, opened, client, tries, status,
                 findDisk, boot, irps>>

(* What file holds is taken, and the boot need not wait.                   *)
Take(what) ==
  /\ backing' = what /\ findDisk' = findDisk - 1
  /\ thread' = "items"
  /\ UNCHANGED tries

FindMatches ==
  /\ thread = "matching"
  /\ Take("disk")
  /\ UNCHANGED <<disk, state, signal, items, handles, opened, client, names, status,
                 boot, irps>>

(* The end of the walk.  When the last disk was opened, did not match and  *)
(* was closed, or there was no disk at all, the status is a success, and   *)
(* what file holds is no open handle.                                      *)
FindOver ==
  /\ thread = "walking" /\ names = 0
  /\ IF status = "success" THEN Take("closed") ELSE Retry
  /\ UNCHANGED <<disk, state, signal, items, handles, opened, client, names, status,
                 boot, irps>>

-----------------------------------------------------------------------------
(* Requests: WvlDiskScsi and WvFilediskIo_                                 *)

Bytes(n) == (n * SectorSize) % Word

Lower(a, b) == IF a < b THEN a ELSE b

(* Mutant: the end of the disk is not looked at.                           *)
ClipLong(q) ==
  LET length == Bytes(q.count)
  IN IF q.start >= Size THEN 0
     ELSE IF length > q.length THEN q.length \div SectorSize ELSE q.count

(* The number of sectors: up to the end of the disk, and of the buffer.    *)
Clip(q) ==
  LET inside == IF q.start >= Size THEN 0
                ELSE Lower(q.count, Size - q.start)
  IN IF Bytes(inside) > q.length THEN q.length \div SectorSize ELSE inside

Clipped(q) == [q EXCEPT !.length = Bytes(Clip(q))]

New(r) == caller[r] = "out" /\ life = "listed"

(* Another command, or nothing to transfer.                                *)
Refuse(r) ==
  /\ New(r)
  /\ caller' = [caller EXCEPT ![r] = "done"]
  /\ completions' = [completions EXCEPT ![r] = @ + 1]
  /\ UNCHANGED <<disk, library, file, search, queue, asked, moved, accepted>>

(* Mutant: the request is not marked as pending.                           *)
InsertUnmarked(r, q) ==
  /\ New(r) /\ Clip(q) > 0
  /\ asked' = [asked EXCEPT ![r] = Clipped(q)]
  /\ moved' = [moved EXCEPT ![r] = [start |-> 0, bytes |-> 0, buffer |-> q.length]]
  /\ queue' = Append(queue, r)
  /\ caller' = [caller EXCEPT ![r] = "inserted"]
  /\ UNCHANGED <<disk, library, file, search, accepted, completions>>

Insert(r, q) ==
  /\ New(r) /\ Clip(q) > 0
  /\ asked' = [asked EXCEPT ![r] = Clipped(q)]
  /\ moved' = [moved EXCEPT ![r] = [start |-> 0, bytes |-> 0, buffer |-> q.length]]
  /\ accepted' = accepted \cup {r}
  /\ queue' = Append(queue, r)
  /\ caller' = [caller EXCEPT ![r] = "inserted"]
  /\ UNCHANGED <<disk, library, file, search, completions>>

Signal(r) ==
  /\ caller[r] = "inserted"
  /\ signal' = TRUE
  /\ caller' = [caller EXCEPT ![r] = "done"]
  /\ UNCHANGED <<disk, state, items, thread, file, search, queue, asked, moved,
                 accepted, completions>>

(* The thread takes a request and calls WvlDiskScsi again, which clips the *)
(* request again.  One which is not marked as pending is inserted again.   *)
Serve ==
  /\ thread = "irps" /\ queue # <<>>
  /\ LET r == Head(queue) IN
       IF r \in accepted
       THEN /\ queue' = Tail(queue)
            /\ asked' = [asked EXCEPT ![r] = None]
            /\ moved' = [moved EXCEPT ![r].start = asked[r].start,
                                      ![r].bytes = Bytes(Clip(asked[r]))]
            /\ completions' = [completions EXCEPT ![r] = @ + 1]
       ELSE queue' = Append(Tail(queue), r) /\ UNCHANGED <<asked, moved, completions>>
  /\ UNCHANGED <<disk, library, file, search, caller, accepted>>

(* Mutant: the event is reset when all is done, not before it is begun.    *)
ServedResets ==
  /\ thread = "irps" /\ queue = <<>>
  /\ signal' = FALSE
  /\ IF state = "Stopping"
     THEN state' = "Stopped" /\ thread' = "closing"
     ELSE UNCHANGED state /\ thread' = "waiting"
  /\ UNCHANGED <<disk, items, file, search, irps>>

Served ==
  /\ thread = "irps" /\ queue = <<>>
  /\ IF state = "Stopping"
     THEN state' = "Stopped" /\ thread' = "closing"
     ELSE UNCHANGED state /\ thread' = "waiting"
  /\ UNCHANGED <<disk, signal, items, file, search, irps>>

Close ==
  /\ thread = "closing"
  /\ handles' = handles - (IF backing \in {"file", "disk"} THEN 1 ELSE 0)
  /\ thread' = "ended"
  /\ UNCHANGED <<disk, state, signal, items, backing, opened, client, search, irps>>

-----------------------------------------------------------------------------
(* The end of a listed disk, and the boot                                  *)

(* WvBusRemoveDev of a node which is linked.                               *)
Detach ==
  /\ life = "listed" /\ kind = "file"
  /\ life' = "unlinked"
  /\ UNCHANGED <<kind, creator, library, file, search, irps>>

(* IRP_MN_REMOVE_DEVICE, which Windows sends once the requests are over:   *)
(* the device is deleted, and nobody has stopped its thread.               *)
RemoveDevice ==
  /\ life = "unlinked"
  /\ \A r \in Irp : caller[r] # "inserted" /\ (r \in accepted => completions[r] > 0)
  /\ life' = "deleted"
  /\ UNCHANGED <<kind, creator, library, file, search, irps>>

(* WvDriverReinitialize.                                                   *)
Reinitialize ==
  /\ ~boot.over
  /\ boot' = IF findDisk = 0 \/ boot.rounds >= MaxRounds
             THEN [boot EXCEPT !.over = TRUE]
             ELSE [boot EXCEPT !.rounds = @ + 1]
  /\ UNCHANGED <<disk, library, file, tries, names, status, findDisk, irps>>

-----------------------------------------------------------------------------
CreatorStep ==
  \/ CreatePdo \/ CreateFails \/ StartWaited \/ OpenStart \/ OpenWaited
  \/ AddToBus \/ FindStart \/ Free \/ FreeFails \/ Freed \/ SignalItem

(* The model ends where the thread would use a device which was deleted.   *)
ThreadStep ==
  /\ life # "deleted"
  /\ \/ Wrapper \/ Wake \/ TakeItem \/ NoItem
     \/ OpenFile \/ OpenFails \/ Opened \/ SizeFails
     \/ FindNames \/ FindOpen \/ FindDiffers \/ FindMatches \/ FindOver
     \/ Serve \/ Served \/ Close

CallerStep ==
  \E r \in Irp : Refuse(r) \/ (\E q \in Extent : Insert(r, q)) \/ Signal(r)

Next == \/ CreatorStep \/ ThreadStep \/ CallerStep
        \/ Detach \/ RemoveDevice \/ Reinitialize

Spec == Init /\ [][Next]_vars

(* The thread runs, and Windows calls a driver again which has asked for   *)
(* it.                                                                     *)
FairSpec == Spec /\ WF_vars(ThreadStep) /\ WF_vars(Reinitialize)

-----------------------------------------------------------------------------
(* While the thread waits with work to do, its event is set or about to be:*)
(* no request and no item waits for the 30 seconds to pass, although the   *)
(* event has three kinds of users and is reset twice.                      *)
WakeupKept ==
  thread = "waiting" /\ (items # <<>> \/ queue # <<>>) =>
    \/ signal \/ creator \in {"signals open", "signals find", "signals stop"}
    \/ \E r \in Irp : caller[r] = "inserted"

(* The items on the stack of a creator are used only while it waits.       *)
ItemsAlive ==
  /\ "open" \in {items[i] : i \in DOMAIN items} \/ thread \in {"opening", "sizing"}
       => creator \in {"signals open", "waits open"}
  /\ "stop" \in {items[i] : i \in DOMAIN items}
       => creator \in {"signals stop", "waits stop"}

(* One handle is open while the disk remembers one or the thread has one   *)
(* in hand, and none otherwise or once the thread has ended, whichever     *)
(* disks a walk could open or not, and at whichever step it or the opening *)
(* of a file fails.                                                        *)
HandleKept ==
  handles = IF \/ thread \in {"sizing", "matching"}
               \/ backing \in {"file", "disk"} /\ thread # "ended"
            THEN 1 ELSE 0

(* What is transferred lies within the disk and fits the buffer, although  *)
(* the request is clipped twice, the second time to the result of the      *)
(* first, and products wrap around.                                        *)
TransferFits ==
  \A r \in Irp : moved[r] # None =>
    /\ moved[r].bytes <= moved[r].buffer
    /\ moved[r].start * SectorSize + moved[r].bytes <= Size * SectorSize

(* A request which was put into the queue is completed, also one that      *)
(* comes while the thread is looking for the backing disk.                 *)
EveryIrpCompletes == \A r \in Irp : r \in accepted \/ caller[r] = "inserted"
                                      ~> completions[r] = 1

(* The boot does not wait forever for a disk which is never found.         *)
BootGoesOn == <>(boot.over)

(* Each request is accepted and completed at most once.                    *)
Requests == INSTANCE Irps
ImplementsIrps == Requests!Spec

(* "If we did not find the backing disk, we are a dud."                    *)
DudIsNotUsed == backing # "closed"

(* The creator which waits for the thread to be ready finds the event set, *)
(* or the thread has yet to set it: nobody else takes this wake-up.        *)
StarterIsWoken == creator = "awaiting" => signal \/ thread = "wrapper"
=============================================================================
