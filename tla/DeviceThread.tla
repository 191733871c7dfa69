---------------------------- MODULE DeviceThread ----------------------------
(***************************************************************************)
(* The IRP queue, the serial-IRP mode and the thread of one mini-driver    *)
(* device (WV_DEV_EXT, src/include/driver.h; functions of                  *)
(* src/winvblock/driver.c).                                                *)
(*                                                                         *)
(* Each request is an IRP or a work item, submitted once, by a thread of   *)
(* its own.  The device has one thread, which takes requests from the      *)
(* queue.  One action is one atomic access to shared state: an Interlocked *)
(* operation, an event operation, or a region under the device's spin-lock *)
(* in which nothing else is shared.                                        *)
(*                                                                         *)
(* The dispatcher reached through IrpDispatch is the main bus's            *)
(* (mainbus/busirp.c); with MayHold = FALSE it is that of a device which   *)
(* never holds IRPs (filedisk/pnp.c, memdisk/fdo.c, ...).                  *)
(***************************************************************************)
EXTENDS Integers, Sequences, FiniteSets

CONSTANTS
  Io,        (* the non-PnP IRPs sent to the device                        *)
  Pnp,       (* the PnP IRPs sent to the device                            *)
  Items,     (* the work items: calls of WvlWaitForActiveIrps, or of       *)
             (* WvlCallFunctionInDeviceThread with a function which calls  *)
             (* it, by other threads                                       *)
  Thread,    (* the device's thread                                        *)
  None,      (* NULL                                                       *)
  MayHold,   (* whether PnP handlers may set CvWvMainBusFlagIrpsHeld       *)
  MaxUsage   (* bound on Usage->UsageCount                                 *)

Req  == Io \cup Pnp \cup Items
Proc == Req \cup {Thread}

ASSUME RequestsAssumption ==
  /\ IsFiniteSet(Req)
  /\ Io \cap Pnp = {} /\ Io \cap Items = {} /\ Pnp \cap Items = {}
  /\ Thread \notin Req
  /\ None \notin Proc
ASSUME MayHoldAssumption  == MayHold \in BOOLEAN
ASSUME MaxUsageAssumption == MaxUsage \in Nat \ {0}

VARIABLES
  flags,     (* Flags: the CvWvlDeviceFlagXxx which are set                *)
  count,     (* ActiveIrpCount                                             *)
  one,       (* ActiveIrpCountOne is signalled                             *)
  arrival,   (* IrpArrival is signalled                                    *)
  queue,     (* IrpQueue                                                   *)
  sentinel,  (* SentinelIrpLink                                            *)
  lock,      (* the holder of Lock                                         *)
  usage,     (* Usage->UsageCount                                          *)
  held,      (* CvWvMainBusFlagIrpsHeld                                    *)
  st,        (* where each request is                                      *)
  dec,       (* how far WvDecrementActiveIrpCount has got for a request    *)
  slot,      (* DriverContext[3]: whose S_WVL_STATUS_WAITER it points to   *)
  done,      (* a process's S_WVL_STATUS_WAITER.Complete is signalled      *)
  wait,      (* a process's 'wait' argument                                *)
  internal,  (* a process's 'internal' argument                            *)
  pc,        (* what each process does next                                *)
  cur,       (* the thread's request ('link', 'irp', 'work_item')          *)
  waiter,    (* the thread's 'status_waiter'                               *)
  stop,      (* the thread's 'stop'                                        *)
  owner      (* how far the device's owner has got with its removal        *)

events == <<one, arrival>>
locals == <<cur, waiter, stop>>
args   == <<slot, done, wait, internal>>
vars   == <<flags, count, one, arrival, queue, sentinel, lock, usage, held,
            st, dec, slot, done, wait, internal, pc, cur, waiter, stop, owner>>

Flag        == {"Serial", "NeedSignal", "Avail", "Linked", "Thread"}
SerialFlags == {"Serial", "NeedSignal"}

(* Counted requests are those ActiveIrpCount must count.                   *)
Counted  == {"active", "pended"}
Finished == {"served", "rejected"}
St       == {"idle", "queued"} \cup Counted \cup Finished

CallerLabel == {"idle", "callInc", "readMode", "handling", "returned"}
AddLabel    == {"dispatch", "addMode", "add", "addTail", "bounce", "waiting"}
LockedLabel == {"drain", "drain2", "yield", "take"}
OwnsLabel   == {"waitFlags", "waitCount", "waitXor", "waitOne", "handle"}
ThreadLabel == LockedLabel \cup OwnsLabel \cup
               {"loop", "sleep", "yieldSleep", "settle", "signal", "exit", "zero",
                "gone"}

(* Where a caller, and the thread, work on an active request.              *)
ThreadActive == {"dispatch", "addMode", "add", "bounce"}
CallerActive == ThreadActive \cup {"readMode", "handling"}

(* Where the thread has taken a request which it did not count yet.        *)
TakenLabel == {"yield", "yieldSleep", "take"}

Toggle(f) == IF f \in flags THEN flags \ {f} ELSE flags \cup {f}

(* The request a process works on.                                         *)
Arg(p) == IF p = Thread THEN cur ELSE p

Goto(p, l) == pc' = [pc EXCEPT ![p] = l]

(* Where a process goes when the device's IrpDispatch returns.             *)
Return(p) == IF p = Thread THEN "settle" ELSE "returned"

(* The device object exists: IoDeleteDevice has not been called.           *)
Exists == pc[Thread] # "gone"

Init ==
  /\ flags = {"Avail", "Linked", "Thread"}
  /\ count = 0
  /\ one = FALSE /\ arrival = FALSE
  /\ queue = <<>> /\ sentinel = None /\ lock = None
  /\ usage = 1
  /\ held = MayHold
  /\ st   = [r \in Req |-> "idle"]
  /\ dec  = [r \in Req |-> "none"]
  /\ slot = [r \in Req |-> None]
  /\ done = [p \in Proc |-> FALSE]
  /\ wait = [p \in Proc |-> FALSE]
  /\ internal = [p \in Proc |-> FALSE]
  /\ pc = [p \in Proc |-> IF p = Thread THEN "loop" ELSE "idle"]
  /\ cur = None /\ waiter = None /\ stop = FALSE
  /\ owner = "linked"

-----------------------------------------------------------------------------
(* WvIncrementActiveIrpCount and WvDecrementActiveIrpCount                 *)

Increment(r) ==
  /\ count' = count + 1
  /\ st' = [st EXCEPT ![r] = "active"]

(* InterlockedDecrement.  Only the decrement to 1 has anything left to do. *)
Decrement(r, s) ==
  /\ count' = count - 1
  /\ st'  = [st EXCEPT ![r] = s]
  /\ dec' = [dec EXCEPT ![r] = IF count = 2 THEN "test" ELSE "none"]

DecrementTest(r) ==
  /\ dec[r] = "test"
  /\ dec' = [dec EXCEPT ![r] = IF "NeedSignal" \in flags THEN "xor" ELSE "none"]
  /\ UNCHANGED <<flags, count, events, queue, sentinel, lock, usage, held, st,
                 args, pc, locals, owner>>

DecrementXor(r) ==
  /\ dec[r] = "xor"
  /\ flags' = Toggle("NeedSignal")
  /\ dec' = [dec EXCEPT ![r] = "set"]
  /\ UNCHANGED <<count, events, queue, sentinel, lock, usage, held, st,
                 args, pc, locals, owner>>

DecrementSet(r) ==
  /\ dec[r] = "set"
  /\ one' = TRUE
  /\ dec' = [dec EXCEPT ![r] = "none"]
  /\ UNCHANGED <<flags, count, arrival, queue, sentinel, lock, usage, held, st,
                 args, pc, locals, owner>>

-----------------------------------------------------------------------------
(* Submitting a request, in the thread of whoever submits it               *)

(* WvDriverDispatchIrp: signal the intention, zero the driver's context.   *)
DispatchIrp(r) ==
  /\ Exists
  /\ r \in Io \cup Pnp /\ pc[r] = "idle"
  /\ Increment(r)
  /\ slot' = [slot EXCEPT ![r] = None]
  /\ Goto(r, "readMode")
  /\ UNCHANGED <<flags, events, queue, sentinel, lock, usage, held, dec, done,
                 wait, internal, locals, owner>>

(* WvDriverDispatchIrp: enqueue in serial mode, dispatch directly else.    *)
ReadMode(r) ==
  /\ Exists
  /\ pc[r] = "readMode"
  /\ \/ /\ "Serial" \in flags
        /\ wait' = [wait EXCEPT ![r] = TRUE]
        /\ internal' = [internal EXCEPT ![r] = TRUE]
        /\ Goto(r, "add")
     \/ /\ "Serial" \notin flags
        /\ Goto(r, "dispatch")
        /\ UNCHANGED <<wait, internal>>
  /\ UNCHANGED <<flags, count, events, queue, sentinel, lock, usage, held, st,
                 dec, slot, done, locals, owner>>

(* A thread other than the device's calls WvlWaitForActiveIrps, which asks *)
(* for the serial mode at once, or WvlCallFunctionInDeviceThread.          *)
CallInThread(r) ==
  /\ Exists
  /\ r \in Items /\ pc[r] = "idle"
  /\ flags' \in {flags, flags \cup SerialFlags}
  /\ Goto(r, "callInc")
  /\ UNCHANGED <<count, events, queue, sentinel, lock, usage, held, st, dec,
                 args, locals, owner>>

(* WvlCallFunctionInDeviceThread: signal the work item.                    *)
CallIncrement(r) ==
  /\ Exists
  /\ pc[r] = "callInc"
  /\ Increment(r)
  /\ wait' = [wait EXCEPT ![r] = TRUE]
  /\ internal' = [internal EXCEPT ![r] = TRUE]
  /\ Goto(r, "add")
  /\ UNCHANGED <<flags, events, queue, sentinel, lock, usage, held, dec, slot,
                 done, locals, owner>>

(* IrpDispatch of the device: WvMainBusIrpDispatch and the PnP dispatcher. *)
(* Outside the thread a PnP IRP is enqueued; a non-PnP IRP is enqueued,    *)
(* again if need be, while the device holds IRPs, and handled otherwise.   *)
Dispatch(p) ==
  /\ Exists
  /\ pc[p] = "dispatch"
  /\ \/ /\ Arg(p) \in Pnp /\ p = Thread
        /\ Goto(p, "waitFlags")
        /\ UNCHANGED <<wait, internal>>
     \/ /\ Arg(p) \in Pnp /\ p # Thread
        /\ wait' = [wait EXCEPT ![p] = TRUE]
        /\ internal' = [internal EXCEPT ![p] = FALSE]
        /\ Goto(p, "add")
     \/ /\ Arg(p) \in Io /\ held
        /\ wait' = [wait EXCEPT ![p] = FALSE]
        /\ internal' = [internal EXCEPT ![p] = FALSE]
        /\ Goto(p, "addMode")
     \/ /\ Arg(p) \in Io /\ ~held
        /\ Goto(p, IF p = Thread THEN "handle" ELSE "handling")
        /\ UNCHANGED <<wait, internal>>
  /\ UNCHANGED <<flags, count, events, queue, sentinel, lock, usage, held, st,
                 dec, slot, done, locals, owner>>

(* The handler of a non-PnP IRP: WvlPassIrpUp, or WvlPassIrpDown to a      *)
(* driver which completes the IRP later.                                   *)
Handle(r) ==
  /\ Exists
  /\ pc[r] = "handling"
  /\ \/ Decrement(r, "served")
     \/ /\ st' = [st EXCEPT ![r] = "pended"]
        /\ UNCHANGED <<count, dec>>
  /\ Goto(r, "returned")
  /\ UNCHANGED <<flags, events, queue, sentinel, lock, usage, held, args,
                 locals, owner>>

(* WvIoCompletion: a lower driver completes an IRP which was passed down.  *)
IoCompletion(r) ==
  /\ Exists
  /\ st[r] = "pended"
  /\ Decrement(r, "served")
  /\ UNCHANGED <<flags, events, queue, sentinel, lock, usage, held, args, pc,
                 locals, owner>>

-----------------------------------------------------------------------------
(* WvDriverAddIrpToDeviceQueueInternal, by a caller or by the thread       *)

(* Without 'wait', the serial mode overrides it.                           *)
AddMode(p) ==
  /\ Exists
  /\ pc[p] = "addMode"
  /\ wait' = [wait EXCEPT ![p] = "Serial" \in flags]
  /\ Goto(p, "add")
  /\ UNCHANGED <<flags, count, events, queue, sentinel, lock, usage, held, st,
                 dec, slot, done, internal, locals, owner>>

(* There is a thread to take a request from the queue.                     *)
(* Mutant: the flag is not checked. *)
AcceptingAlways == TRUE

Accepting == "Thread" \in flags

(* Prepare the status waiter, lock the device, and enqueue if there is     *)
(* still a thread to take the request from the queue.                      *)
Add(p) ==
  /\ Exists
  /\ pc[p] = "add" /\ lock = None
  /\ lock' = p
  /\ IF wait[p] THEN /\ slot' = [slot EXCEPT ![Arg(p)] = p]
                     /\ done' = [done EXCEPT ![p] = FALSE]
                ELSE UNCHANGED <<slot, done>>
  /\ \/ /\ Accepting
        /\ queue' = Append(queue, Arg(p))
        /\ Decrement(Arg(p), "queued")
     \/ /\ ~Accepting
        /\ UNCHANGED <<queue, count, st, dec>>
  /\ Goto(p, "addTail")
  /\ UNCHANGED <<flags, events, sentinel, usage, held, wait, internal, locals,
                 owner>>

(* The arrival of work, or a poke, is signalled to the thread.             *)
SignalArrival == arrival' = TRUE

(* Where a process goes once it has added its request, or could not.       *)
(* Mutant: the IRP is completed although it was enqueued. *)
AfterAddBounce(p) == "bounce"

AfterAdd(p) ==
  CASE st[Arg(p)] = "active" -> "bounce"
    [] st[Arg(p)] # "active" /\ wait[p] -> "waiting"
    [] OTHER -> Return(p)

(* Note the sentinel, signal the arrival, unlock; then wait or return.     *)
AddTail(p) ==
  /\ Exists
  /\ pc[p] = "addTail" /\ dec[Arg(p)] = "none"
  /\ sentinel' = IF ~internal[p] /\ ~wait[p] /\ sentinel = None
                 THEN Arg(p) ELSE sentinel
  /\ SignalArrival
  /\ lock' = None
  /\ Goto(p, AfterAdd(p))
  /\ UNCHANGED <<flags, count, one, queue, usage, held, st, dec, args, locals,
                 owner>>

(* STATUS_NO_SUCH_DEVICE: complete the IRP, or forget the work item.       *)
(* Mutant: the work item is still counted. *)
BounceUncounted(p) ==
  /\ Exists
  /\ pc[p] = "bounce"
  /\ st' = [st EXCEPT ![Arg(p)] = "rejected"]
  /\ Goto(p, Return(p))
  /\ UNCHANGED <<flags, count, events, queue, sentinel, lock, usage, held, dec,
                 args, locals, owner>>

Bounce(p) ==
  /\ Exists
  /\ pc[p] = "bounce"
  /\ Decrement(Arg(p), "rejected")
  /\ Goto(p, Return(p))
  /\ UNCHANGED <<flags, events, queue, sentinel, lock, usage, held, args,
                 locals, owner>>

(* The wait for the status of the request.                                 *)
(* Mutant: the wait has a timeout, and the waiter is gone after it. *)
WaitedTimeout(p) ==
  /\ pc[p] = "waiting"
  /\ Goto(p, Return(p))
  /\ UNCHANGED <<flags, count, events, queue, sentinel, lock, usage, held, st,
                 dec, args, locals, owner>>

Waited(p) ==
  /\ pc[p] = "waiting" /\ done[p]
  /\ Goto(p, Return(p))
  /\ UNCHANGED <<flags, count, events, queue, sentinel, lock, usage, held, st,
                 dec, args, locals, owner>>

-----------------------------------------------------------------------------
(* WvDeviceThread                                                          *)

(* The device is unavailable and unlinked, and only the thread uses it.    *)
(* Mutant: off by one, the thread's own usage is forgotten. *)
StopConditionUnused == flags \cap {"Avail", "Linked"} = {} /\ usage = 0

StopCondition == flags \cap {"Avail", "Linked"} = {} /\ usage = 1

(* Lock the device, remove the head of the queue, check for the stop.      *)
ThreadLoop ==
  /\ pc[Thread] = "loop" /\ lock = None
  /\ lock' = Thread
  /\ IF StopCondition THEN flags' = flags \ {"Thread"} /\ stop' = TRUE
                      ELSE UNCHANGED <<flags, stop>>
  /\ \/ /\ queue = <<>>
        /\ Goto(Thread, "drain")
        /\ UNCHANGED <<queue, cur>>
     \/ /\ queue # <<>>
        /\ cur' = Head(queue)
        /\ queue' = Tail(queue)
        /\ Goto(Thread, IF Head(queue) = sentinel THEN "yield" ELSE "take")
  /\ UNCHANGED <<count, events, sentinel, usage, held, st, dec, args, waiter,
                 owner>>

(* The queue is empty: leave the serial mode, ...                          *)
ThreadDrain ==
  /\ pc[Thread] = "drain"
  /\ flags' = flags \ SerialFlags
  /\ Goto(Thread, "drain2")
  /\ UNCHANGED <<count, events, queue, sentinel, lock, usage, held, st, dec,
                 args, locals, owner>>

(* ... clear the events and the sentinel, unlock; stop, or sleep.          *)
(* Mutant: the device is unlocked before the events are cleared. *)
ThreadDrainedUnlocked ==
  /\ pc[Thread] = "drain2"
  /\ \/ /\ lock = Thread
        /\ lock' = None
        /\ UNCHANGED <<events, sentinel, pc>>
     \/ /\ lock # Thread
        /\ one' = FALSE /\ arrival' = FALSE
        /\ sentinel' = None
        /\ Goto(Thread, IF stop THEN "exit" ELSE "sleep")
        /\ UNCHANGED lock
  /\ UNCHANGED <<flags, count, queue, usage, held, st, dec, args, locals, owner>>

ThreadDrained ==
  /\ pc[Thread] = "drain2"
  /\ one' = FALSE /\ arrival' = FALSE
  /\ sentinel' = None
  /\ lock' = None
  /\ Goto(Thread, IF stop THEN "exit" ELSE "sleep")
  /\ UNCHANGED <<flags, count, queue, usage, held, st, dec, args, locals, owner>>

(* IrpArrival, or the 30 seconds of the timeout.                           *)
ThreadWake ==
  /\ pc[Thread] = "sleep"
  /\ Goto(Thread, "loop")
  /\ UNCHANGED <<flags, count, events, queue, sentinel, lock, usage, held, st,
                 dec, args, locals, owner>>

(* The sentinel: let something else happen before its request is taken.    *)
(* Mutant: the sentinel is not cleared. *)
ThreadYieldKeep ==
  /\ pc[Thread] = "yield"
  /\ arrival' = FALSE
  /\ lock' = None
  /\ Goto(Thread, "yieldSleep")
  /\ UNCHANGED <<flags, count, one, queue, sentinel, usage, held, st, dec, args,
                 locals, owner>>

ThreadYield ==
  /\ pc[Thread] = "yield"
  /\ sentinel' = None /\ arrival' = FALSE
  /\ lock' = None
  /\ Goto(Thread, "yieldSleep")
  /\ UNCHANGED <<flags, count, one, queue, usage, held, st, dec, args, locals,
                 owner>>

ThreadYielded ==
  /\ pc[Thread] = "yieldSleep" /\ lock = None
  /\ lock' = Thread
  /\ Goto(Thread, "take")
  /\ UNCHANGED <<flags, count, events, queue, sentinel, usage, held, st, dec,
                 args, locals, owner>>

(* Count the request again, unlock, and process or reject it:              *)
(* WvProcessDeviceThreadWorkItem and WvProcessDeviceIrp.                   *)
ThreadTake ==
  /\ pc[Thread] = "take"
  /\ Increment(cur)
  /\ lock' = None
  /\ waiter' = slot[cur]
  /\ Goto(Thread, CASE stop -> "bounce"
                   [] ~stop /\ cur \in Items -> "waitFlags"
                   [] OTHER -> "dispatch")
  /\ UNCHANGED <<flags, events, queue, sentinel, usage, held, dec, args, cur,
                 stop, owner>>

(* WvlWaitForActiveIrps inside the thread.                                 *)
WaitFlags ==
  /\ pc[Thread] = "waitFlags"
  /\ flags' = flags \cup SerialFlags
  /\ Goto(Thread, "waitCount")
  /\ UNCHANGED <<count, events, queue, sentinel, lock, usage, held, st, dec,
                 args, locals, owner>>

(* Requests other than the one which waits are active.                     *)
(* Mutant: the waiting request itself is not reckoned with. *)
OthersActiveOrSelf == count # 0

OthersActive == count # 1

WaitCount ==
  /\ pc[Thread] = "waitCount"
  /\ Goto(Thread, IF OthersActive THEN "waitOne" ELSE "waitXor")
  /\ UNCHANGED <<flags, count, events, queue, sentinel, lock, usage, held, st,
                 dec, args, locals, owner>>

(* "It's just us, so the signal is no longer needed."                      *)
WaitXor ==
  /\ pc[Thread] = "waitXor"
  /\ flags' = Toggle("NeedSignal")
  /\ Goto(Thread, "handle")
  /\ UNCHANGED <<count, events, queue, sentinel, lock, usage, held, st, dec,
                 args, locals, owner>>

WaitOne ==
  /\ pc[Thread] = "waitOne" /\ one
  /\ Goto(Thread, "handle")
  /\ UNCHANGED <<flags, count, events, queue, sentinel, lock, usage, held, st,
                 dec, args, locals, owner>>

(* The work item's function, or the IRP's handler: a PnP handler sets or   *)
(* clears CvWvMainBusFlagIrpsHeld; an IRP is completed or passed down.     *)
ThreadHandle ==
  /\ pc[Thread] = "handle"
  /\ \/ /\ Decrement(cur, "served")
        /\ Goto(Thread, "settle")
     \/ /\ cur \notin Items
        /\ st' = [st EXCEPT ![cur] = "pended"]
        /\ Goto(Thread, "signal")
        /\ UNCHANGED <<count, dec>>
  /\ held' \in IF cur \in Pnp /\ MayHold THEN BOOLEAN ELSE {held}
  /\ UNCHANGED <<flags, events, queue, sentinel, lock, usage, args, locals,
                 owner>>

(* The status waiters which are signalled after a request.                 *)
Completed == {waiter} \ {None}

(* Hand the status to whoever waits for it, once the thread's own          *)
(* decrement, if it made one, is over.                                     *)
ThreadSignal ==
  /\ \/ pc[Thread] = "signal"
     \/ pc[Thread] = "settle" /\ dec[cur] = "none"
  /\ done' = [p \in Proc |-> done[p] \/ p \in Completed]
  /\ cur' = None /\ waiter' = None
  /\ Goto(Thread, "loop")
  /\ UNCHANGED <<flags, count, events, queue, sentinel, lock, usage, held, st,
                 dec, slot, wait, internal, stop, owner>>

(* The thread gives its usage up, waits for the others, deletes the device.*)
ThreadExit ==
  /\ pc[Thread] = "exit"
  /\ usage' = usage - 1
  /\ Goto(Thread, "zero")
  /\ UNCHANGED <<flags, count, events, queue, sentinel, lock, held, st, dec,
                 args, locals, owner>>

ThreadGone ==
  /\ pc[Thread] = "zero" /\ usage = 0
  /\ Goto(Thread, "gone")
  /\ UNCHANGED <<flags, count, events, queue, sentinel, lock, usage, held, st,
                 dec, args, locals, owner>>

-----------------------------------------------------------------------------
(* The device's owner and users                                            *)

(* WvlDetachDevice, or WvlAssignDeviceToBus without a parent.              *)
Unlink ==
  /\ owner = "linked"
  /\ flags' = flags \ {"Linked"}
  /\ owner' = "unlinked"
  /\ UNCHANGED <<count, events, queue, sentinel, lock, usage, held, st, dec,
                 args, pc, locals>>

(* WvlDeleteDevice: the device becomes unavailable, ...                    *)
DeleteDevice ==
  /\ owner = "unlinked"
  /\ flags' = flags \ {"Avail"}
  /\ owner' = "poking"
  /\ UNCHANGED <<count, events, queue, sentinel, lock, usage, held, st, dec,
                 args, pc, locals>>

(* ... and the thread is poked.                                            *)
DeleteDevicePoke ==
  /\ Exists
  /\ owner = "poking"
  /\ SignalArrival
  /\ owner' = "deleted"
  /\ UNCHANGED <<flags, count, one, queue, sentinel, lock, usage, held, st, dec,
                 args, pc, locals>>

(* A handler takes a usage of the device: a child is assigned to it        *)
(* (WvlAssignDeviceToBus), or it is surprise-removed.                      *)
TakeUsage ==
  /\ Exists
  /\ usage < MaxUsage
  /\ \E r \in Req : st[r] = "active"
  /\ usage' = usage + 1
  /\ UNCHANGED <<flags, count, events, queue, sentinel, lock, held, st, dec,
                 args, pc, locals, owner>>

(* The child is unassigned, or the removal is completed.                   *)
ReleaseUsage ==
  /\ Exists
  /\ usage > (IF pc[Thread] = "zero" THEN 0 ELSE 1)
  /\ usage' = usage - 1
  /\ UNCHANGED <<flags, count, events, queue, sentinel, lock, held, st, dec,
                 args, pc, locals, owner>>

(* The device is gone.  A caller which still holds a pointer to it stops   *)
(* here: what it would do to freed memory has no meaning.                  *)
Gone == ~Exists /\ UNCHANGED vars

-----------------------------------------------------------------------------
Caller(r) ==
  \/ DispatchIrp(r) \/ ReadMode(r) \/ CallInThread(r) \/ CallIncrement(r)
  \/ Handle(r) \/ IoCompletion(r)

AddIrp(p) ==
  Dispatch(p) \/ AddMode(p) \/ Add(p) \/ AddTail(p) \/ Bounce(p) \/ Waited(p)

DecrementSignal(r) == DecrementTest(r) \/ DecrementXor(r) \/ DecrementSet(r)

WaitForActiveIrps == WaitFlags \/ WaitCount \/ WaitXor \/ WaitOne

DeviceThread ==
  \/ ThreadLoop \/ ThreadDrain \/ ThreadDrained \/ ThreadWake
  \/ ThreadYield \/ ThreadYielded \/ ThreadTake \/ WaitForActiveIrps
  \/ ThreadHandle \/ ThreadSignal \/ ThreadExit \/ ThreadGone

Owner == Unlink \/ DeleteDevice \/ DeleteDevicePoke

Next ==
  \/ \E r \in Req : Caller(r) \/ DecrementSignal(r)
  \/ \E p \in Proc : AddIrp(p)
  \/ DeviceThread \/ Owner \/ TakeUsage \/ ReleaseUsage \/ Gone

(* Every thread which is in the driver goes on, lower drivers complete     *)
(* what they were passed, the thread's waits end by their timeout at the   *)
(* latest.  Nobody has to submit a request, or to remove the device.  The  *)
(* spin-lock and the events are handed over fairly.                        *)
Fairness ==
  /\ \A r \in Req :
       /\ WF_vars(ReadMode(r)) /\ WF_vars(CallIncrement(r))
       /\ WF_vars(Handle(r)) /\ WF_vars(IoCompletion(r))
       /\ WF_vars(DecrementSignal(r))
  /\ \A p \in Proc :
       /\ WF_vars(Dispatch(p)) /\ WF_vars(AddMode(p)) /\ SF_vars(Add(p))
       /\ WF_vars(AddTail(p)) /\ WF_vars(Bounce(p)) /\ WF_vars(Waited(p))
  /\ WF_vars(DeviceThread)
  /\ WF_vars(DeleteDevicePoke) /\ WF_vars(ReleaseUsage)

Spec     == Init /\ [][Next]_vars
FairSpec == Spec /\ Fairness

-----------------------------------------------------------------------------
TypeOK ==
  /\ flags \subseteq Flag
  /\ count \in Nat
  /\ one \in BOOLEAN /\ arrival \in BOOLEAN
  /\ queue \in Seq(Req)
  /\ sentinel \in Req \cup {None}
  /\ lock \in Proc \cup {None}
  /\ usage \in 0 .. MaxUsage
  /\ held \in BOOLEAN
  /\ st \in [Req -> St]
  /\ dec \in [Req -> {"none", "test", "xor", "set"}]
  /\ slot \in [Req -> Proc \cup {None}]
  /\ done \in [Proc -> BOOLEAN]
  /\ wait \in [Proc -> BOOLEAN] /\ internal \in [Proc -> BOOLEAN]
  /\ pc \in [Proc -> CallerLabel \cup AddLabel \cup ThreadLabel]
  /\ cur \in Req \cup {None}
  /\ waiter \in Proc \cup {None}
  /\ stop \in BOOLEAN
  /\ owner \in {"linked", "unlinked", "poking", "deleted"}

(***************************************************************************)
(* The active IRP count is the number of requests which were dispatched    *)
(* or taken from the queue and are not completed and not in the queue.     *)
(* The increments and decrements are spread over WvDriverDispatchIrp,      *)
(* WvlCallFunctionInDeviceThread, the queueing function, the device's      *)
(* thread, WvlPassIrpUp and the completion routine; the ASSERTs on the     *)
(* count in WvIncrementActiveIrpCount and WvDecrementActiveIrpCount rest   *)
(* on their balance.                                                       *)
(***************************************************************************)
Accounting == count = Cardinality({r \in Req : st[r] \in Counted})

(***************************************************************************)
(* Each request has one owner: its caller, a link of the queue, the        *)
(* thread, or a lower driver.  Nothing in the code says so: it follows     *)
(* from the device's lock and from the order in which the count, the queue *)
(* and the status are dealt with.  It is what keeps an IRP from being      *)
(* completed twice, or linked into the queue twice.                        *)
(***************************************************************************)
LockHeld ==
  /\ \A p \in Proc : pc[p] = "addTail" => lock = p
  /\ pc[Thread] \in LockedLabel => lock = Thread

CallerOwns ==
  \A r \in Req :
    /\ pc[r] \notin {"waiting", "returned"} => cur # r
    /\ pc[r] \in {"idle", "callInc"} => st[r] = "idle"
    /\ pc[r] \in CallerActive => st[r] = "active"
    /\ pc[r] = "addTail" => st[r] \in {"active", "queued"}
    /\ st[r] = "queued" => pc[r] \in {"addTail", "waiting", "returned"}

ThreadOwns ==
  /\ pc[Thread] \in TakenLabel => cur \in Req /\ st[cur] = "queued"
  /\ pc[Thread] \in OwnsLabel \cup ThreadActive => cur \in Req /\ st[cur] = "active"
  /\ pc[Thread] = "addTail" => cur \in Req /\ st[cur] \in {"active", "queued"}
  /\ pc[Thread] \in {"waiting", "settle", "signal"} => cur \in Req

QueueOwns ==
  /\ \A i \in 1 .. Len(queue) :
       /\ st[queue[i]] = "queued"
       /\ pc[Thread] \in TakenLabel => cur # queue[i]
       /\ \A j \in 1 .. Len(queue) : queue[i] = queue[j] => i = j
  /\ \A r \in Req : st[r] = "queued" =>
       \/ \E i \in 1 .. Len(queue) : queue[i] = r
       \/ cur = r /\ pc[Thread] \in TakenLabel

Ownership == LockHeld /\ CallerOwns /\ ThreadOwns /\ QueueOwns

(* What is known of a stop: the flag is cleared before 'stop' is set; the  *)
(* thread leaves its loop with an empty queue, and gives its usage up last.*)
Stopping ==
  /\ stop => "Thread" \notin flags
  /\ pc[Thread] \in {"drain", "drain2"} => queue = <<>>
  /\ pc[Thread] \in {"exit", "zero", "gone"} => stop /\ queue = <<>>
  /\ pc[Thread] \notin {"zero", "gone"} => usage > 0

(* The comment in WvDeviceThread: once the thread stops, "no more can be   *)
(* added": no request is, or gets, in the queue of a stopped thread, or    *)
(* waits in it to be taken.                                                *)
NothingStranded ==
  pc[Thread] \in {"exit", "zero", "gone"} =>
    /\ queue = <<>>
    /\ \A r \in Req : st[r] # "queued"

(* While the thread sleeps for lack of work, IrpArrival is signalled if    *)
(* there is work: a request never has to wait for the timeout there.       *)
PromptWake == pc[Thread] = "sleep" /\ lock = None /\ queue # <<>> => arrival

(* A thread waiting for a status is not forgotten: it is signalled, or its *)
(* request is in the queue or with the thread, with its status waiter.     *)
WaiterRemembered ==
  \A r \in Req :
    pc[r] = "waiting" /\ ~done[r] =>
      \/ st[r] = "queued" /\ slot[r] = r
      \/ cur = r /\ waiter = r

(* A thread which waited for the status of its request is released only    *)
(* when the request is no longer in the queue.                             *)
AnsweredAfterProcessing ==
  \A r \in Req : pc[r] = "returned" => st[r] \in Finished \cup {"pended"}

(* The thread signals the status waiter it found with its request only     *)
(* while the stack frame of that status waiter exists, as its process      *)
(* waits there.  The comment in the queueing function: the driver's        *)
(* context is zeroed so "the thread won't work with garbage".              *)
StatusWaiterAlive ==
  pc[Thread] \in OwnsLabel \cup {"dispatch", "bounce", "settle", "signal"} =>
    waiter = None \/ pc[waiter] = "waiting"

(* What WvlWaitForActiveIrps promises (include/driver.h): "all IRPs that   *)
(* came before the call have completed".  While the thread handles what    *)
(* waited, no other IRP is being handled or with a lower driver.  (An IRP  *)
(* which came after the call finds the serial mode, and is enqueued.)      *)
ExclusiveAccess ==
  pc[Thread] = "handle" /\ cur \notin Io =>
    \A r \in Req \ {cur} : st[r] # "pended" /\ pc[r] # "handling"

(* The sentinel is the link of a request in the queue, as long as requests *)
(* can be enqueued: a stale sentinel could never be met, and the queue     *)
(* would be looped over endlessly.                                         *)
SentinelInQueue ==
  sentinel # None /\ "Thread" \in flags =>
    \/ \E i \in 1 .. Len(queue) : queue[i] = sentinel
    \/ pc[Thread] = "yield" /\ cur = sentinel

(* Neither new IRPs nor new work items are allowed after the stop: the     *)
(* queue of a device without its thread flag never grows, and the flag     *)
(* never comes back.                                                       *)
NoneAfterStop ==
  [][ "Thread" \notin flags =>
        "Thread" \notin flags' /\ Len(queue') <= Len(queue) ]_vars

(* The thread does not wait for itself: the comment at the sentinel says   *)
(* that IRPs which keep re-adding themselves are looped over, with a pause *)
(* "to give a chance for something else to happen".                        *)
ThreadNeverWaitsForItself == pc[Thread] # "waiting"

(* The ASSERT in WvDeviceThread: the thread flag is still set when the     *)
(* thread notices that it has to stop.                                     *)
ThreadNotAlreadyStopped ==
  pc[Thread] = "loop" /\ lock = None /\ StopCondition => "Thread" \in flags

(* Every request that is enqueued is eventually processed or rejected.     *)
QueuedIsProcessed ==
  \A r \in Req : st[r] = "queued" ~> st[r] \in Finished \cup {"pended"}

(* A device which was unlinked and deleted is eventually gone.             *)
DeletedIsGone == owner \in {"poking", "deleted"} ~> ~Exists

=============================================================================
