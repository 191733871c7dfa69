------------------------ MODULE DeviceThread_proofs ------------------------
(***************************************************************************)
(* Proofs about DeviceThread, for every set of requests.                   *)
(*                                                                         *)
(* IInv is inductive: the type invariant, the count of the active          *)
(* requests, who owns each request, and what a stop implies.  Accounting   *)
(* needs Ownership (a request is counted, or not any more, by its owner    *)
(* only), and NothingStranded needs Stopping.  Beside IInv,                *)
(* SentinelInQueue needs Refused, and StatusWaiterAlive needs Waits.       *)
(***************************************************************************)
EXTENDS DeviceThread, FiniteSetTheorems, TLAPS

IInv == TypeOK /\ Accounting /\ Ownership /\ Stopping

ActiveSet == {r \in Req : st[r] \in Counted}

-----------------------------------------------------------------------------
(* The active requests are finitely many.                                  *)
LEMMA ActiveFinite ==
  IsFiniteSet(ActiveSet) /\ Cardinality(ActiveSet) \in Nat
<1>1. ActiveSet \subseteq Req
  BY DEF ActiveSet
<1> QED
  BY <1>1, RequestsAssumption, FS_Subset, FS_CardinalityType

(* A step of the owner of an uncounted request counts it.                  *)
LEMMA IncrementCounts ==
  ASSUME NEW r \in Req, TypeOK, Accounting, st[r] \notin Counted, Increment(r)
  PROVE  Accounting' /\ count' \in Nat
<1>1. ActiveSet' = ActiveSet \cup {r}
  BY DEF ActiveSet, TypeOK, Increment, Counted
<1>2. r \notin ActiveSet
  BY DEF ActiveSet
<1>3. Cardinality(ActiveSet') = Cardinality(ActiveSet) + 1
  BY <1>1, <1>2, ActiveFinite, FS_AddElement
<1> QED
  BY <1>3, ActiveFinite DEF Accounting, Increment, ActiveSet

(* A step of the owner of a counted request uncounts it.                   *)
LEMMA DecrementCounts ==
  ASSUME NEW r \in Req, NEW s \in St \ Counted, TypeOK, Accounting,
         st[r] \in Counted, Decrement(r, s)
  PROVE  Accounting' /\ count' \in Nat
<1>1. ActiveSet' = ActiveSet \ {r}
  BY DEF ActiveSet, TypeOK, Decrement
<1>2. r \in ActiveSet
  BY DEF ActiveSet
<1>3. /\ Cardinality(ActiveSet') = Cardinality(ActiveSet) - 1
      /\ Cardinality(ActiveSet') \in Nat
  <2>1. Cardinality(ActiveSet') = Cardinality(ActiveSet) - 1
    BY <1>1, <1>2, ActiveFinite, FS_RemoveElement
  <2>2. IsFiniteSet(ActiveSet')
    BY <1>1, ActiveFinite, FS_RemoveElement
  <2> QED
    BY <2>1, <2>2, FS_CardinalityType
<1> QED
  BY <1>3 DEF Accounting, Decrement, ActiveSet

(* Passing an active request down leaves it counted.                       *)
LEMMA PendCounts ==
  ASSUME NEW r \in Req, TypeOK, Accounting, st[r] = "active",
         st' = [st EXCEPT ![r] = "pended"], UNCHANGED count
  PROVE  Accounting'
<1>1. ActiveSet' = ActiveSet
  BY DEF ActiveSet, Counted
<1> QED
  BY <1>1 DEF Accounting, ActiveSet

(* The thread is a process, and so is whoever submits a request.           *)
LEMMA Processes ==
  Proc = Req \cup {Thread} /\ Thread \notin Req /\ None \notin Proc
BY RequestsAssumption DEF Proc

(* The head and the tail of a queue which is not empty.                    *)
LEMMA HeadTail ==
  ASSUME NEW S, NEW q \in Seq(S), q # <<>>
  PROVE  /\ Len(q) \in Nat /\ Len(q) > 0
         /\ Head(q) \in S /\ Head(q) = q[1]
         /\ Tail(q) \in Seq(S) /\ Len(Tail(q)) = Len(q) - 1
         /\ \A i \in 1 .. Len(Tail(q)) : Tail(q)[i] = q[i + 1]
<1>1. Len(q) \in Nat /\ Len(q) > 0 /\ Head(q) \in S /\ Head(q) = q[1]
  OBVIOUS
<1>2. Tail(q) \in Seq(S) /\ Len(Tail(q)) = Len(q) - 1
  BY <1>1
<1>3. \A i \in 1 .. Len(Tail(q)) : Tail(q)[i] = q[i + 1]
  BY <1>1, <1>2
<1> QED
  BY <1>1, <1>2, <1>3

(* The inductive invariant holds initially.                                *)
LEMMA InitIInv == Init => IInv
<1> SUFFICES ASSUME Init PROVE IInv
  OBVIOUS
<1>1. TypeOK
  <2>1. pc \in [Proc -> CallerLabel \cup AddLabel \cup ThreadLabel]
    BY DEF Init, CallerLabel, ThreadLabel
  <2>2. st \in [Req -> St] /\ flags \subseteq Flag
    BY DEF Init, St, Flag
  <2>3. /\ dec \in [Req -> {"none", "test", "xor", "set"}]
        /\ slot \in [Req -> Proc \cup {None}]
        /\ done \in [Proc -> BOOLEAN] /\ wait \in [Proc -> BOOLEAN]
        /\ internal \in [Proc -> BOOLEAN]
    BY DEF Init
  <2>4. /\ usage \in 0 .. MaxUsage /\ held \in BOOLEAN /\ count \in Nat
        /\ queue \in Seq(Req)
    BY MayHoldAssumption, MaxUsageAssumption DEF Init
  <2> QED
    BY <2>1, <2>2, <2>3, <2>4 DEF Init, TypeOK
<1>2. Accounting
  <2>1. ActiveSet = {}
    BY DEF Init, ActiveSet, Counted
  <2> QED
    BY <2>1, FS_EmptySet DEF Init, Accounting, ActiveSet
<1>3. Ownership
  BY Processes
  DEF Init, Ownership, LockHeld, CallerOwns, ThreadOwns, QueueOwns,
      LockedLabel, OwnsLabel, TakenLabel, ThreadActive, CallerActive
<1>4. Stopping
  BY Processes DEF Init, Stopping
<1> QED
  BY <1>1, <1>2, <1>3, <1>4 DEF IInv

(* DispatchIrp preserves IInv. A new IRP is counted by its caller.         *)
LEMMA StepDispatchIrp ==
  ASSUME NEW r \in Req, IInv, DispatchIrp(r) PROVE IInv'
<1> USE Processes DEF IInv, Goto, Arg, Exists, events, args, locals
<1>1. Accounting' /\ count' \in Nat
  <2>1. r \in Req /\ st[r] \notin Counted /\ Increment(r)
    BY DEF DispatchIrp, Ownership, CallerOwns, Counted
  <2> QED
    BY <2>1, IncrementCounts
<1>2. TypeOK'
  BY <1>1 DEF DispatchIrp, Increment, TypeOK, St, Counted, CallerLabel
<1>3. Ownership'
  BY DEF DispatchIrp, Increment, Ownership, LockHeld, CallerOwns, ThreadOwns,
         QueueOwns, TypeOK
<1>4. Stopping'
  BY DEF DispatchIrp, Stopping
<1> QED
  BY <1>1, <1>2, <1>3, <1>4

(* ReadMode preserves IInv. The caller keeps the IRP it has counted.       *)
LEMMA StepReadMode ==
  ASSUME NEW r \in Req, IInv, ReadMode(r) PROVE IInv'
<1> USE Processes DEF IInv, Goto, Arg, Exists, events, args, locals
<1>1. Accounting'
  BY DEF ReadMode, Accounting
<1>2. TypeOK'
  <2>1. wait' \in [Proc -> BOOLEAN] /\ internal' \in [Proc -> BOOLEAN]
    BY DEF ReadMode, TypeOK
  <2>2. pc' \in [Proc -> CallerLabel \cup AddLabel \cup ThreadLabel]
    BY DEF ReadMode, TypeOK, AddLabel
  <2> QED
    BY <2>1, <2>2 DEF ReadMode, TypeOK
<1>3. Ownership'
  BY DEF ReadMode, Ownership, LockHeld, CallerOwns, ThreadOwns, QueueOwns,
         TypeOK, Counted, CallerActive
<1>4. Stopping'
  BY DEF ReadMode, Stopping, TypeOK
<1> QED
  BY <1>1, <1>2, <1>3, <1>4

(* CallInThread preserves IInv. The item is not counted yet.               *)
LEMMA StepCallInThread ==
  ASSUME NEW r \in Req, IInv, CallInThread(r) PROVE IInv'
<1> USE Processes DEF IInv, Goto, Arg, Exists, events, args, locals
<1>1. Accounting'
  BY DEF CallInThread, Accounting
<1>2. TypeOK'
  BY DEF CallInThread, SerialFlags, TypeOK, Flag, CallerLabel
<1>3. Ownership'
  BY DEF CallInThread, Ownership, LockHeld, CallerOwns, ThreadOwns, QueueOwns,
         ThreadActive, CallerActive
<1>4. Stopping'
  BY DEF CallInThread, SerialFlags, Stopping
<1> QED
  BY <1>1, <1>2, <1>3, <1>4

(* CallIncrement preserves IInv. The item is counted by its caller.        *)
LEMMA StepCallIncrement ==
  ASSUME NEW r \in Req, IInv, CallIncrement(r) PROVE IInv'
<1> USE Processes DEF IInv, Goto, Arg, Exists, events, args, locals
<1>1. Accounting' /\ count' \in Nat
  <2>1. r \in Req /\ st[r] \notin Counted /\ Increment(r)
    BY DEF CallIncrement, Ownership, CallerOwns, Counted
  <2> QED
    BY <2>1, IncrementCounts
<1>2. TypeOK'
  BY <1>1 DEF CallIncrement, Increment, TypeOK, St, Counted, AddLabel
<1>3. Ownership'
  BY DEF CallIncrement, Increment, Ownership, LockHeld, CallerOwns, ThreadOwns,
         QueueOwns, TypeOK
<1>4. Stopping'
  BY DEF CallIncrement, Stopping
<1> QED
  BY <1>1, <1>2, <1>3, <1>4

(* Handle preserves IInv. The caller completes its IRP, or leaves it to a  *)
(* lower driver.                                                           *)
LEMMA StepHandle ==
  ASSUME NEW r \in Req, IInv, Handle(r) PROVE IInv'
<1> USE Processes DEF IInv, Goto, Arg, Exists, events, args, locals
<1>1. Accounting' /\ count' \in Nat
  <2>1. r \in Req /\ st[r] = "active"
    BY DEF Handle, Ownership, CallerOwns, CallerActive
  <2>2. CASE Decrement(r, "served")
    <3>1. st[r] \in Counted /\ "served" \in St \ Counted
      BY <2>1 DEF Counted, St, Finished
    <3> QED
      BY <2>1, <2>2, <3>1, DecrementCounts
  <2>3. CASE st' = [st EXCEPT ![r] = "pended"] /\ UNCHANGED count
    BY <2>1, <2>3, PendCounts DEF TypeOK
  <2> QED
    BY <2>2, <2>3 DEF Handle
<1>2. TypeOK'
  <2>1. st' \in [Req -> St]
    BY DEF Handle, Decrement, TypeOK, St, Counted, Finished
  <2>2. dec' \in [Req -> {"none", "test", "xor", "set"}]
    BY DEF Handle, Decrement, TypeOK
  <2>3. pc' \in [Proc -> CallerLabel \cup AddLabel \cup ThreadLabel]
    BY DEF Handle, TypeOK, CallerLabel
  <2> QED
    BY <1>1, <2>1, <2>2, <2>3 DEF Handle, TypeOK
<1>3. Ownership'
  BY DEF Handle, Decrement, Ownership, LockHeld, CallerOwns, ThreadOwns,
         QueueOwns, TypeOK, TakenLabel, ThreadActive, CallerActive
<1>4. Stopping'
  BY DEF Handle, Stopping
<1> QED
  BY <1>1, <1>2, <1>3, <1>4

(* IoCompletion preserves IInv. Only a lower driver has the IRP.           *)
LEMMA StepIoCompletion ==
  ASSUME NEW r \in Req, IInv, IoCompletion(r) PROVE IInv'
<1> USE Processes DEF IInv, Goto, Arg, Exists, events, args, locals
<1>1. Accounting' /\ count' \in Nat
  <2>1. st[r] \in Counted /\ Decrement(r, "served") /\ "served" \in St \ Counted
    BY DEF IoCompletion, Counted, St, Finished
  <2> QED
    BY <2>1, DecrementCounts
<1>2. TypeOK'
  BY <1>1 DEF IoCompletion, Decrement, TypeOK, St, Finished
<1>3. Ownership'
  BY DEF IoCompletion, Decrement, Ownership, LockHeld, CallerOwns, ThreadOwns,
         QueueOwns
<1>4. Stopping'
  BY DEF IoCompletion, Stopping
<1> QED
  BY <1>1, <1>2, <1>3, <1>4

(* DecrementTest preserves IInv.                                           *)
LEMMA StepDecrementTest ==
  ASSUME NEW r \in Req, IInv, DecrementTest(r) PROVE IInv'
<1> USE Processes DEF IInv, Goto, Arg, Exists, events, args, locals
<1>1. Accounting'
  BY DEF DecrementTest, Accounting
<1>2. TypeOK'
  BY DEF DecrementTest, TypeOK
<1>3. Ownership'
  BY DEF DecrementTest, Ownership, LockHeld, CallerOwns, ThreadOwns, QueueOwns
<1>4. Stopping'
  BY DEF DecrementTest, Stopping
<1> QED
  BY <1>1, <1>2, <1>3, <1>4

(* DecrementXor preserves IInv.                                            *)
LEMMA StepDecrementXor ==
  ASSUME NEW r \in Req, IInv, DecrementXor(r) PROVE IInv'
<1> USE Processes DEF IInv, Goto, Arg, Exists, events, args, locals
<1>1. Accounting'
  BY DEF DecrementXor, Accounting
<1>2. TypeOK'
  BY DEF DecrementXor, Toggle, TypeOK, Flag
<1>3. Ownership'
  BY DEF DecrementXor, Ownership, LockHeld, CallerOwns, ThreadOwns, QueueOwns
<1>4. Stopping'
  BY DEF DecrementXor, Toggle, Stopping
<1> QED
  BY <1>1, <1>2, <1>3, <1>4

(* DecrementSet preserves IInv.                                            *)
LEMMA StepDecrementSet ==
  ASSUME NEW r \in Req, IInv, DecrementSet(r) PROVE IInv'
<1> USE Processes DEF IInv, Goto, Arg, Exists, events, args, locals
<1>1. Accounting'
  BY DEF DecrementSet, Accounting
<1>2. TypeOK'
  BY DEF DecrementSet, TypeOK
<1>3. Ownership'
  BY DEF DecrementSet, Ownership, LockHeld, CallerOwns, ThreadOwns, QueueOwns
<1>4. Stopping'
  BY DEF DecrementSet, Stopping
<1> QED
  BY <1>1, <1>2, <1>3, <1>4

(* Dispatch preserves IInv. The request stays with the process which       *)
(* dispatches it.                                                          *)
LEMMA StepDispatch ==
  ASSUME NEW p \in Proc, IInv, Dispatch(p) PROVE IInv'
<1> USE Processes DEF IInv, Goto, Arg, Exists, events, args, locals
<1>1. Accounting'
  BY DEF Dispatch, Accounting
<1>2. TypeOK'
  <2>1. wait' \in [Proc -> BOOLEAN] /\ internal' \in [Proc -> BOOLEAN]
    BY DEF Dispatch, TypeOK
  <2>2. pc' \in [Proc -> CallerLabel \cup AddLabel \cup ThreadLabel]
    BY DEF Dispatch, TypeOK, OwnsLabel, CallerLabel, AddLabel, ThreadLabel
  <2> QED
    BY <2>1, <2>2 DEF Dispatch, TypeOK
<1>3. Ownership'
  BY DEF Dispatch, Ownership, LockHeld, CallerOwns, ThreadOwns, QueueOwns,
         TypeOK, LockedLabel, TakenLabel, ThreadActive, CallerActive
<1>4. Stopping'
  BY DEF Dispatch, Stopping, TypeOK
<1> QED
  BY <1>1, <1>2, <1>3, <1>4

(* AddMode preserves IInv.                                                 *)
LEMMA StepAddMode ==
  ASSUME NEW p \in Proc, IInv, AddMode(p) PROVE IInv'
<1> USE Processes DEF IInv, Goto, Arg, Exists, events, args, locals
<1>1. Accounting'
  BY DEF AddMode, Accounting
<1>2. TypeOK'
  BY DEF AddMode, TypeOK, AddLabel
<1>3. Ownership'
  BY DEF AddMode, Ownership, LockHeld, CallerOwns, ThreadOwns, QueueOwns,
         LockedLabel, TakenLabel, ThreadActive, CallerActive
<1>4. Stopping'
  BY DEF AddMode, Stopping
<1> QED
  BY <1>1, <1>2, <1>3, <1>4

(* Add preserves IInv. The request goes from its process to the queue, and *)
(* is uncounted; the lock keeps the thread away from the queue.            *)
LEMMA StepAdd ==
  ASSUME NEW p \in Proc, IInv, Add(p) PROVE IInv'
<1> USE Processes DEF IInv, Goto, Arg, Exists, events, args, locals
<1>0. Arg(p) \in Req /\ st[Arg(p)] = "active"
  BY DEF Add, Ownership, CallerOwns, ThreadOwns, ThreadActive, CallerActive
<1>1. Accounting' /\ count' \in Nat
  <2>1. CASE Accepting
    <3>1. /\ Arg(p) \in Req /\ st[Arg(p)] \in Counted
          /\ Decrement(Arg(p), "queued") /\ "queued" \in St \ Counted
      BY <1>0, <2>1 DEF Add, Counted, St
    <3> QED
      BY <3>1, DecrementCounts
  <2>2. CASE ~Accepting
    BY <2>2 DEF Add, Accounting, TypeOK
  <2> QED
    BY <2>1, <2>2
<1>2. TypeOK'
  <2>1. /\ lock' \in Proc \cup {None} /\ slot' \in [Req -> Proc \cup {None}]
        /\ done' \in [Proc -> BOOLEAN]
    <3>1. CASE wait[p]
      <4>1. /\ lock' = p /\ slot' = [slot EXCEPT ![Arg(p)] = p]
            /\ done' = [done EXCEPT ![p] = FALSE]
        BY <3>1 DEF Add
      <4> QED
        BY <4>1 DEF TypeOK
    <3>2. CASE ~wait[p]
      BY <3>2 DEF Add, TypeOK
    <3> QED
      BY <3>1, <3>2
  <2>2. queue' \in Seq(Req)
    BY <1>0 DEF Add, TypeOK
  <2>3. st' \in [Req -> St]
    BY DEF Add, Decrement, TypeOK, St
  <2>4. dec' \in [Req -> {"none", "test", "xor", "set"}]
    BY DEF Add, Decrement, TypeOK
  <2>5. pc' \in [Proc -> CallerLabel \cup AddLabel \cup ThreadLabel]
    BY DEF Add, TypeOK, AddLabel
  <2> QED
    BY <1>1, <2>1, <2>2, <2>3, <2>4, <2>5 DEF Add, TypeOK
<1>3. Ownership'
  <2>1. CASE Accepting
    <3> DEFINE a == Arg(p)
    <3>1. /\ queue' = Append(queue, a) /\ st' = [st EXCEPT ![a] = "queued"]
          /\ cur' = cur /\ lock = None /\ lock' = p
          /\ pc' = [pc EXCEPT ![p] = "addTail"] /\ pc[p] = "add"
      BY <2>1 DEF Add, Decrement
    <3>2. a \in Req /\ st[a] = "active" /\ (p # Thread => a = p) /\ (p = Thread => a = cur)
      BY <1>0
    <3>3. /\ Len(queue') = Len(queue) + 1 /\ Len(queue) \in Nat
          /\ queue'[Len(queue) + 1] = a
          /\ \A i \in 1 .. Len(queue) : queue'[i] = queue[i] /\ queue[i] \in Req
      BY <3>1, <3>2 DEF TypeOK
    <3> HIDE DEF a
    <3>4. LockHeld'
      BY <3>1 DEF LockHeld, Ownership
    <3>5. CallerOwns'
      BY <3>1, <3>2
      DEF CallerOwns, Ownership, TypeOK, ThreadActive, CallerActive
    <3>6. ThreadOwns'
      BY <3>1, <3>2
      DEF CallerOwns, ThreadOwns, Ownership, TypeOK, OwnsLabel, ThreadActive
    <3>7. QueueOwns'
      <4>1. ASSUME NEW i \in 1 .. Len(queue)
            PROVE  /\ queue[i] # a /\ queue'[i] = queue[i] /\ queue[i] \in Req
                   /\ st[queue[i]] = "queued" /\ st'[queue[i]] = "queued"
        BY <3>1, <3>2, <3>3 DEF Ownership, QueueOwns
      <4>2. \A i \in 1 .. Len(queue') :
              i \in 1 .. Len(queue) \/ i = Len(queue) + 1
        BY <3>3
      <4>3. st'[a] = "queued" /\ \A r \in Req : r # a => st'[r] = st[r]
        BY <3>1, <3>2 DEF TypeOK
      <4>4. pc'[Thread] \in TakenLabel => pc[Thread] \in TakenLabel /\ cur # a
        BY <3>1, <3>2 DEF TypeOK, TakenLabel, Ownership, ThreadOwns
      <4>5. pc[Thread] \in TakenLabel => pc'[Thread] \in TakenLabel
        BY <3>1 DEF TypeOK, TakenLabel
      <4>6. ASSUME NEW i \in 1 .. Len(queue')
            PROVE  /\ st'[queue'[i]] = "queued"
                   /\ pc'[Thread] \in TakenLabel => cur' # queue'[i]
        BY <3>1, <3>3, <4>1, <4>2, <4>3, <4>4, <4>6 DEF Ownership, QueueOwns
      <4>7. ASSUME NEW i \in 1 .. Len(queue'), NEW j \in 1 .. Len(queue'),
                   queue'[i] = queue'[j]
            PROVE  i = j
        BY <3>3, <4>1, <4>2, <4>7 DEF Ownership, QueueOwns
      <4>8. ASSUME NEW r \in Req, st'[r] = "queued"
            PROVE  \/ \E i \in 1 .. Len(queue') : queue'[i] = r
                   \/ cur' = r /\ pc'[Thread] \in TakenLabel
        <5>1. CASE r = a
          BY <5>1, <3>3
        <5>2. CASE r # a /\ cur = r /\ pc[Thread] \in TakenLabel
          BY <5>2, <3>1, <4>5
        <5>3. CASE r # a /\ \E i \in 1 .. Len(queue) : queue[i] = r
          BY <5>3, <3>3
        <5> QED
          BY <5>1, <5>2, <5>3, <4>3, <4>8 DEF Ownership, QueueOwns
      <4> QED
        BY <4>6, <4>7, <4>8 DEF QueueOwns
    <3> QED
      BY <3>4, <3>5, <3>6, <3>7 DEF Ownership
  <2>2. CASE ~Accepting
    BY <2>2, <1>0
    DEF Add, Ownership, LockHeld, CallerOwns, ThreadOwns, QueueOwns, TakenLabel
  <2> QED
    BY <2>1, <2>2
<1>4. Stopping'
  <2>1. pc[Thread] \in {"drain", "drain2", "exit", "zero", "gone"} => ~Accepting
    BY DEF Add, Accepting, Ownership, LockHeld, LockedLabel, Stopping
  <2> QED
    BY <2>1 DEF Add, Stopping
<1> QED
  BY <1>1, <1>2, <1>3, <1>4

(* AddTail preserves IInv. What was not enqueued is still the process's    *)
(* own.                                                                    *)
LEMMA StepAddTail ==
  ASSUME NEW p \in Proc, IInv, AddTail(p) PROVE IInv'
<1> USE Processes DEF IInv, Goto, Arg, Exists, events, args, locals
<1>1. Accounting'
  BY DEF AddTail, Accounting
<1>2. TypeOK'
  <2>1. AfterAdd(p) \in CallerLabel \cup AddLabel \cup ThreadLabel
    BY DEF AfterAdd, Return, CallerLabel, AddLabel, ThreadLabel
  <2>2. sentinel' \in Req \cup {None}
    BY DEF AddTail, TypeOK
  <2> QED
    BY <2>1, <2>2 DEF AddTail, SignalArrival, TypeOK
<1>3. Ownership'
  BY DEF AddTail, AfterAdd, Return, Ownership, LockHeld, CallerOwns,
         ThreadOwns, QueueOwns, TypeOK, LockedLabel, OwnsLabel, TakenLabel,
         ThreadActive, CallerActive
<1>4. Stopping'
  BY DEF AddTail, AfterAdd, Return, Stopping
<1> QED
  BY <1>1, <1>2, <1>3, <1>4

(* Bounce preserves IInv. The process rejects its own request.             *)
LEMMA StepBounce ==
  ASSUME NEW p \in Proc, IInv, Bounce(p) PROVE IInv'
<1> USE Processes DEF IInv, Goto, Arg, Exists, events, args, locals
<1>1. Accounting' /\ count' \in Nat
  <2>1. /\ Arg(p) \in Req /\ st[Arg(p)] \in Counted
        /\ Decrement(Arg(p), "rejected") /\ "rejected" \in St \ Counted
    BY DEF Bounce, Ownership, CallerOwns, ThreadOwns, ThreadActive,
           CallerActive, Counted, St, Finished
  <2> QED
    BY <2>1, DecrementCounts
<1>2. TypeOK'
  BY <1>1
  DEF Bounce, Decrement, Return, TypeOK, Ownership, ThreadOwns, St, Finished,
      CallerLabel, ThreadLabel, ThreadActive
<1>3. Ownership'
  BY DEF Bounce, Decrement, Return, Ownership, LockHeld, CallerOwns,
         ThreadOwns, QueueOwns, TypeOK, LockedLabel, OwnsLabel, TakenLabel,
         ThreadActive, CallerActive
<1>4. Stopping'
  BY DEF Bounce, Return, Stopping
<1> QED
  BY <1>1, <1>2, <1>3, <1>4

(* Waited preserves IInv.                                                  *)
LEMMA StepWaited ==
  ASSUME NEW p \in Proc, IInv, Waited(p) PROVE IInv'
<1> USE Processes DEF IInv, Goto, Arg, Exists, events, args, locals
<1>1. Accounting'
  BY DEF Waited, Accounting
<1>2. TypeOK'
  BY DEF Waited, Return, TypeOK, CallerLabel, ThreadLabel
<1>3. Ownership'
  BY DEF Waited, Return, Ownership, LockHeld, CallerOwns, ThreadOwns,
         QueueOwns, LockedLabel, OwnsLabel, TakenLabel, ThreadActive,
         CallerActive
<1>4. Stopping'
  BY DEF Waited, Return, Stopping
<1> QED
  BY <1>1, <1>2, <1>3, <1>4

(* ThreadLoop preserves IInv. The thread takes the head of the queue,      *)
(* whose caller waits or has returned.                                     *)
LEMMA StepThreadLoop ==
  ASSUME IInv, ThreadLoop PROVE IInv'
<1> USE Processes DEF IInv, Goto, Arg, Exists, events, args, locals
<1>1. Accounting'
  BY DEF ThreadLoop, Accounting
<1>2. TypeOK'
  <2>1. flags' \subseteq Flag /\ stop' \in BOOLEAN
    BY DEF ThreadLoop, TypeOK
  <2>2. queue' \in Seq(Req) /\ cur' \in Req \cup {None}
    <3>1. queue # <<>> => Tail(queue) \in Seq(Req) /\ Head(queue) \in Req
      BY HeadTail DEF TypeOK
    <3> QED
      BY <3>1 DEF ThreadLoop, TypeOK
  <2>3. pc' \in [Proc -> CallerLabel \cup AddLabel \cup ThreadLabel]
    BY DEF ThreadLoop, TypeOK, LockedLabel, ThreadLabel
  <2> QED
    BY <2>1, <2>2, <2>3 DEF ThreadLoop, TypeOK
<1>3. Ownership'
  <2>1. CASE queue = <<>>
    BY <2>1
    DEF ThreadLoop, Ownership, LockHeld, CallerOwns, ThreadOwns, QueueOwns,
        TypeOK, OwnsLabel, TakenLabel, ThreadActive
  <2>2. CASE queue # <<>>
    <3> DEFINE h == Head(queue)
    <3>1. /\ h \in Req /\ h = queue[1] /\ Len(queue) \in Nat /\ Len(queue) > 0
          /\ queue' = Tail(queue) /\ cur' = h /\ Len(queue') = Len(queue) - 1
          /\ \A i \in 1 .. Len(queue') : queue'[i] = queue[i + 1]
      <4>1. queue \in Seq(Req) /\ queue' = Tail(queue) /\ cur' = h
        BY <2>2 DEF ThreadLoop, TypeOK
      <4> QED
        BY <4>1, <2>2, HeadTail
    <3>2. st[h] = "queued" /\ pc[h] \in {"waiting", "returned"}
      BY <3>1 DEF ThreadLoop, Ownership, LockHeld, CallerOwns, QueueOwns
    <3>3. /\ pc' \in [Proc -> CallerLabel \cup AddLabel \cup ThreadLabel]
          /\ pc'[Thread] \in {"yield", "take"}
          /\ \A p \in Req : pc'[p] = pc[p]
          /\ st' = st /\ lock = None /\ lock' = Thread
      BY <1>2, <2>2 DEF ThreadLoop, TypeOK
    <3> HIDE DEF h
    <3>4. LockHeld'
      BY <3>3 DEF LockHeld, Ownership
    <3>5. CallerOwns'
      BY <3>1, <3>2, <3>3 DEF Ownership, CallerOwns
    <3>6. ThreadOwns'
      BY <3>1, <3>2, <3>3 DEF ThreadOwns, OwnsLabel, ThreadActive
    <3>7. QueueOwns'
      <4>1. ASSUME NEW i \in 1 .. Len(queue')
            PROVE  /\ i + 1 \in 1 .. Len(queue) /\ queue'[i] = queue[i + 1]
                   /\ st[queue[i + 1]] = "queued" /\ h # queue[i + 1]
        BY <3>1 DEF Ownership, QueueOwns
      <4>2. ASSUME NEW i \in 1 .. Len(queue'), NEW j \in 1 .. Len(queue'),
                   queue'[i] = queue'[j]
            PROVE  i = j
        <5>1. i + 1 \in 1 .. Len(queue) /\ j + 1 \in 1 .. Len(queue)
              /\ queue[i + 1] = queue[j + 1]
          BY <4>1, <4>2
        <5> QED
          BY <5>1 DEF Ownership, QueueOwns
      <4>3. ASSUME NEW r \in Req, st[r] = "queued", r # h
            PROVE  \E i \in 1 .. Len(queue') : queue'[i] = r
        <5>1. PICK k \in 1 .. Len(queue) : queue[k] = r
          BY <4>3 DEF Ownership, QueueOwns, ThreadLoop, TakenLabel
        <5>2. k - 1 \in 1 .. Len(queue') /\ queue'[k - 1] = r
          BY <3>1, <4>3, <5>1
        <5> QED
          BY <5>2
      <4> QED
        BY <3>1, <3>3, <4>1, <4>2, <4>3 DEF QueueOwns, TakenLabel
    <3> QED
      BY <3>4, <3>5, <3>6, <3>7 DEF Ownership
  <2> QED
    BY <2>1, <2>2
<1>4. Stopping'
  BY DEF ThreadLoop, Stopping, TypeOK
<1> QED
  BY <1>1, <1>2, <1>3, <1>4

(* ThreadDrain preserves IInv.                                             *)
LEMMA StepThreadDrain ==
  ASSUME IInv, ThreadDrain PROVE IInv'
<1> USE Processes DEF IInv, Goto, Arg, Exists, events, args, locals
<1>1. Accounting'
  BY DEF ThreadDrain, Accounting
<1>2. TypeOK'
  BY DEF ThreadDrain, SerialFlags, TypeOK, ThreadLabel, LockedLabel
<1>3. Ownership'
  BY DEF ThreadDrain, Ownership, LockHeld, CallerOwns, ThreadOwns, QueueOwns,
         LockedLabel, OwnsLabel, TakenLabel, ThreadActive
<1>4. Stopping'
  BY DEF ThreadDrain, Stopping
<1> QED
  BY <1>1, <1>2, <1>3, <1>4

(* ThreadDrained preserves IInv.                                           *)
LEMMA StepThreadDrained ==
  ASSUME IInv, ThreadDrained PROVE IInv'
<1> USE Processes DEF IInv, Goto, Arg, Exists, events, args, locals
<1>1. Accounting'
  BY DEF ThreadDrained, Accounting
<1>2. TypeOK'
  BY DEF ThreadDrained, TypeOK, ThreadLabel
<1>3. Ownership'
  BY DEF ThreadDrained, Ownership, LockHeld, CallerOwns, ThreadOwns, QueueOwns,
         TypeOK, LockedLabel, OwnsLabel, TakenLabel, ThreadActive
<1>4. Stopping'
  BY DEF ThreadDrained, Stopping
<1> QED
  BY <1>1, <1>2, <1>3, <1>4

(* ThreadWake preserves IInv.                                              *)
LEMMA StepThreadWake ==
  ASSUME IInv, ThreadWake PROVE IInv'
<1> USE Processes DEF IInv, Goto, Arg, Exists, events, args, locals
<1>1. Accounting'
  BY DEF ThreadWake, Accounting
<1>2. TypeOK'
  BY DEF ThreadWake, TypeOK, ThreadLabel
<1>3. Ownership'
  BY DEF ThreadWake, Ownership, LockHeld, CallerOwns, ThreadOwns, QueueOwns,
         LockedLabel, OwnsLabel, TakenLabel, ThreadActive
<1>4. Stopping'
  BY DEF ThreadWake, Stopping
<1> QED
  BY <1>1, <1>2, <1>3, <1>4

(* ThreadYield preserves IInv.                                             *)
LEMMA StepThreadYield ==
  ASSUME IInv, ThreadYield PROVE IInv'
<1> USE Processes DEF IInv, Goto, Arg, Exists, events, args, locals
<1>1. Accounting'
  BY DEF ThreadYield, Accounting
<1>2. TypeOK'
  BY DEF ThreadYield, TypeOK, ThreadLabel
<1>3. Ownership'
  BY DEF ThreadYield, Ownership, LockHeld, CallerOwns, ThreadOwns, QueueOwns,
         TypeOK, LockedLabel, OwnsLabel, TakenLabel, ThreadActive
<1>4. Stopping'
  BY DEF ThreadYield, Stopping
<1> QED
  BY <1>1, <1>2, <1>3, <1>4

(* ThreadYielded preserves IInv.                                           *)
LEMMA StepThreadYielded ==
  ASSUME IInv, ThreadYielded PROVE IInv'
<1> USE Processes DEF IInv, Goto, Arg, Exists, events, args, locals
<1>1. Accounting'
  BY DEF ThreadYielded, Accounting
<1>2. TypeOK'
  BY DEF ThreadYielded, TypeOK, ThreadLabel, LockedLabel
<1>3. Ownership'
  BY DEF ThreadYielded, Ownership, LockHeld, CallerOwns, ThreadOwns, QueueOwns,
         OwnsLabel, TakenLabel, ThreadActive
<1>4. Stopping'
  BY DEF ThreadYielded, Stopping
<1> QED
  BY <1>1, <1>2, <1>3, <1>4

(* ThreadTake preserves IInv. The request taken is counted again.          *)
LEMMA StepThreadTake ==
  ASSUME IInv, ThreadTake PROVE IInv'
<1> USE Processes DEF IInv, Goto, Arg, Exists, events, args, locals
<1>1. Accounting' /\ count' \in Nat
  <2>1. cur \in Req /\ st[cur] \notin Counted /\ Increment(cur)
    BY DEF ThreadTake, Ownership, ThreadOwns, TakenLabel, Counted
  <2> QED
    BY <2>1, IncrementCounts
<1>2. TypeOK'
  BY <1>1
  DEF ThreadTake, Increment, TypeOK, Ownership, ThreadOwns, St, Counted,
      AddLabel, ThreadLabel, OwnsLabel, TakenLabel
<1>3. Ownership'
  BY DEF ThreadTake, Increment, Ownership, LockHeld, CallerOwns, ThreadOwns,
         QueueOwns, TypeOK, LockedLabel, TakenLabel
<1>4. Stopping'
  BY DEF ThreadTake, Stopping
<1> QED
  BY <1>1, <1>2, <1>3, <1>4

(* WaitFlags preserves IInv.                                               *)
LEMMA StepWaitFlags ==
  ASSUME IInv, WaitFlags PROVE IInv'
<1> USE Processes DEF IInv, Goto, Arg, Exists, events, args, locals
<1>1. Accounting'
  BY DEF WaitFlags, Accounting
<1>2. TypeOK'
  BY DEF WaitFlags, SerialFlags, TypeOK, Flag, ThreadLabel, OwnsLabel
<1>3. Ownership'
  BY DEF WaitFlags, Ownership, LockHeld, CallerOwns, ThreadOwns, QueueOwns,
         LockedLabel, OwnsLabel, TakenLabel
<1>4. Stopping'
  BY DEF WaitFlags, SerialFlags, Stopping
<1> QED
  BY <1>1, <1>2, <1>3, <1>4

(* WaitCount preserves IInv.                                               *)
LEMMA StepWaitCount ==
  ASSUME IInv, WaitCount PROVE IInv'
<1> USE Processes DEF IInv, Goto, Arg, Exists, events, args, locals
<1>1. Accounting'
  BY DEF WaitCount, Accounting
<1>2. TypeOK'
  BY DEF WaitCount, TypeOK, ThreadLabel, OwnsLabel
<1>3. Ownership'
  BY DEF WaitCount, Ownership, LockHeld, CallerOwns, ThreadOwns, QueueOwns,
         LockedLabel, OwnsLabel, TakenLabel
<1>4. Stopping'
  BY DEF WaitCount, Stopping
<1> QED
  BY <1>1, <1>2, <1>3, <1>4

(* WaitXor preserves IInv.                                                 *)
LEMMA StepWaitXor ==
  ASSUME IInv, WaitXor PROVE IInv'
<1> USE Processes DEF IInv, Goto, Arg, Exists, events, args, locals
<1>1. Accounting'
  BY DEF WaitXor, Accounting
<1>2. TypeOK'
  BY DEF WaitXor, Toggle, TypeOK, Flag, ThreadLabel, OwnsLabel
<1>3. Ownership'
  BY DEF WaitXor, Ownership, LockHeld, CallerOwns, ThreadOwns, QueueOwns,
         LockedLabel, OwnsLabel, TakenLabel
<1>4. Stopping'
  BY DEF WaitXor, Toggle, Stopping
<1> QED
  BY <1>1, <1>2, <1>3, <1>4

(* WaitOne preserves IInv.                                                 *)
LEMMA StepWaitOne ==
  ASSUME IInv, WaitOne PROVE IInv'
<1> USE Processes DEF IInv, Goto, Arg, Exists, events, args, locals
<1>1. Accounting'
  BY DEF WaitOne, Accounting
<1>2. TypeOK'
  BY DEF WaitOne, TypeOK, ThreadLabel, OwnsLabel
<1>3. Ownership'
  BY DEF WaitOne, Ownership, LockHeld, CallerOwns, ThreadOwns, QueueOwns,
         LockedLabel, OwnsLabel, TakenLabel
<1>4. Stopping'
  BY DEF WaitOne, Stopping
<1> QED
  BY <1>1, <1>2, <1>3, <1>4

(* ThreadHandle preserves IInv. The thread completes its request, or       *)
(* leaves it to a lower driver.                                            *)
LEMMA StepThreadHandle ==
  ASSUME IInv, ThreadHandle PROVE IInv'
<1> USE Processes DEF IInv, Goto, Arg, Exists, events, args, locals
<1>1. Accounting' /\ count' \in Nat
  <2>1. cur \in Req /\ st[cur] = "active"
    BY DEF ThreadHandle, Ownership, ThreadOwns, OwnsLabel
  <2>2. CASE Decrement(cur, "served")
    <3>1. st[cur] \in Counted /\ "served" \in St \ Counted
      BY <2>1 DEF Counted, St, Finished
    <3> QED
      BY <2>1, <2>2, <3>1, DecrementCounts
  <2>3. CASE st' = [st EXCEPT ![cur] = "pended"] /\ UNCHANGED count
    BY <2>1, <2>3, PendCounts DEF TypeOK
  <2> QED
    BY <2>2, <2>3 DEF ThreadHandle
<1>2. TypeOK'
  <2>1. cur \in Req /\ held' \in BOOLEAN
    BY DEF ThreadHandle, TypeOK, Ownership, ThreadOwns, OwnsLabel
  <2>2. st' \in [Req -> St]
    BY <2>1 DEF ThreadHandle, Decrement, TypeOK, St, Counted, Finished
  <2>3. dec' \in [Req -> {"none", "test", "xor", "set"}]
    BY <2>1 DEF ThreadHandle, Decrement, TypeOK
  <2>4. pc' \in [Proc -> CallerLabel \cup AddLabel \cup ThreadLabel]
    BY DEF ThreadHandle, TypeOK, ThreadLabel
  <2> QED
    BY <1>1, <2>1, <2>2, <2>3, <2>4 DEF ThreadHandle, TypeOK
<1>3. Ownership'
  BY DEF ThreadHandle, Decrement, Ownership, LockHeld, CallerOwns, ThreadOwns,
         QueueOwns, TypeOK, LockedLabel, OwnsLabel, TakenLabel, ThreadActive,
         CallerActive
<1>4. Stopping'
  BY DEF ThreadHandle, Stopping, TypeOK
<1> QED
  BY <1>1, <1>2, <1>3, <1>4

(* ThreadSignal preserves IInv.                                            *)
LEMMA StepThreadSignal ==
  ASSUME IInv, ThreadSignal PROVE IInv'
<1> USE Processes DEF IInv, Goto, Arg, Exists, events, args, locals
<1>1. Accounting'
  BY DEF ThreadSignal, Accounting
<1>2. TypeOK'
  BY DEF ThreadSignal, TypeOK, ThreadLabel
<1>3. Ownership'
  BY DEF ThreadSignal, Ownership, LockHeld, CallerOwns, ThreadOwns, QueueOwns,
         TypeOK, LockedLabel, OwnsLabel, TakenLabel, ThreadActive
<1>4. Stopping'
  BY DEF ThreadSignal, Stopping
<1> QED
  BY <1>1, <1>2, <1>3, <1>4

(* ThreadExit preserves IInv. The thread's usage is still there to be      *)
(* given up.                                                               *)
LEMMA StepThreadExit ==
  ASSUME IInv, ThreadExit PROVE IInv'
<1> USE Processes DEF IInv, Goto, Arg, Exists, events, args, locals
<1>1. Accounting'
  BY DEF ThreadExit, Accounting
<1>2. TypeOK'
  BY MaxUsageAssumption DEF ThreadExit, TypeOK, Stopping, ThreadLabel
<1>3. Ownership'
  BY DEF ThreadExit, Ownership, LockHeld, CallerOwns, ThreadOwns, QueueOwns,
         LockedLabel, OwnsLabel, TakenLabel, ThreadActive
<1>4. Stopping'
  BY DEF ThreadExit, Stopping, TypeOK
<1> QED
  BY <1>1, <1>2, <1>3, <1>4

(* ThreadGone preserves IInv.                                              *)
LEMMA StepThreadGone ==
  ASSUME IInv, ThreadGone PROVE IInv'
<1> USE Processes DEF IInv, Goto, Arg, Exists, events, args, locals
<1>1. Accounting'
  BY DEF ThreadGone, Accounting
<1>2. TypeOK'
  BY DEF ThreadGone, TypeOK, ThreadLabel
<1>3. Ownership'
  BY DEF ThreadGone, Ownership, LockHeld, CallerOwns, ThreadOwns, QueueOwns,
         LockedLabel, OwnsLabel, TakenLabel, ThreadActive
<1>4. Stopping'
  BY DEF ThreadGone, Stopping
<1> QED
  BY <1>1, <1>2, <1>3, <1>4

(* Unlink preserves IInv.                                                  *)
LEMMA StepUnlink ==
  ASSUME IInv, Unlink PROVE IInv'
<1> USE Processes DEF IInv, Goto, Arg, Exists, events, args, locals
<1>1. Accounting'
  BY DEF Unlink, Accounting
<1>2. TypeOK'
  BY DEF Unlink, TypeOK
<1>3. Ownership'
  BY DEF Unlink, Ownership, LockHeld, CallerOwns, ThreadOwns, QueueOwns
<1>4. Stopping'
  BY DEF Unlink, Stopping
<1> QED
  BY <1>1, <1>2, <1>3, <1>4

(* DeleteDevice preserves IInv.                                            *)
LEMMA StepDeleteDevice ==
  ASSUME IInv, DeleteDevice PROVE IInv'
<1> USE Processes DEF IInv, Goto, Arg, Exists, events, args, locals
<1>1. Accounting'
  BY DEF DeleteDevice, Accounting
<1>2. TypeOK'
  BY DEF DeleteDevice, TypeOK
<1>3. Ownership'
  BY DEF DeleteDevice, Ownership, LockHeld, CallerOwns, ThreadOwns, QueueOwns
<1>4. Stopping'
  BY DEF DeleteDevice, Stopping
<1> QED
  BY <1>1, <1>2, <1>3, <1>4

(* DeleteDevicePoke preserves IInv.                                        *)
LEMMA StepDeleteDevicePoke ==
  ASSUME IInv, DeleteDevicePoke PROVE IInv'
<1> USE Processes DEF IInv, Goto, Arg, Exists, events, args, locals
<1>1. Accounting'
  BY DEF DeleteDevicePoke, Accounting
<1>2. TypeOK'
  BY DEF DeleteDevicePoke, SignalArrival, TypeOK
<1>3. Ownership'
  BY DEF DeleteDevicePoke, Ownership, LockHeld, CallerOwns, ThreadOwns,
         QueueOwns
<1>4. Stopping'
  BY DEF DeleteDevicePoke, Stopping
<1> QED
  BY <1>1, <1>2, <1>3, <1>4

(* TakeUsage preserves IInv.                                               *)
LEMMA StepTakeUsage ==
  ASSUME IInv, TakeUsage PROVE IInv'
<1> USE Processes DEF IInv, Goto, Arg, Exists, events, args, locals
<1>1. Accounting'
  BY DEF TakeUsage, Accounting
<1>2. TypeOK'
  BY MaxUsageAssumption DEF TakeUsage, TypeOK
<1>3. Ownership'
  BY DEF TakeUsage, Ownership, LockHeld, CallerOwns, ThreadOwns, QueueOwns
<1>4. Stopping'
  BY DEF TakeUsage, Stopping, TypeOK
<1> QED
  BY <1>1, <1>2, <1>3, <1>4

(* ReleaseUsage preserves IInv. Others give up usages other than the       *)
(* thread's.                                                               *)
LEMMA StepReleaseUsage ==
  ASSUME IInv, ReleaseUsage PROVE IInv'
<1> USE Processes DEF IInv, Goto, Arg, Exists, events, args, locals
<1>1. Accounting'
  BY DEF ReleaseUsage, Accounting
<1>2. TypeOK'
  BY MaxUsageAssumption DEF ReleaseUsage, TypeOK
<1>3. Ownership'
  BY DEF ReleaseUsage, Ownership, LockHeld, CallerOwns, ThreadOwns, QueueOwns
<1>4. Stopping'
  BY DEF ReleaseUsage, Stopping, TypeOK
<1> QED
  BY <1>1, <1>2, <1>3, <1>4

(* A step in which nothing happens.                                        *)
LEMMA StepStutter == ASSUME IInv, UNCHANGED vars PROVE IInv'
<1> USE DEF vars, events, args, locals
<1>1. TypeOK' /\ Accounting'
  BY DEF IInv, TypeOK, Accounting
<1>2. Ownership'
  BY DEF IInv, Ownership, LockHeld, CallerOwns, ThreadOwns, QueueOwns
<1>3. Stopping'
  BY DEF IInv, Stopping
<1> QED
  BY <1>1, <1>2, <1>3 DEF IInv

(* Every step preserves the inductive invariant.                           *)
LEMMA NextIInv == IInv /\ [Next]_vars => IInv'
<1> SUFFICES ASSUME IInv, [Next]_vars PROVE IInv'
  OBVIOUS
<1>1. ASSUME NEW r \in Req, Caller(r) \/ DecrementSignal(r) PROVE IInv'
  BY <1>1, StepDispatchIrp, StepReadMode, StepCallInThread, StepCallIncrement,
     StepHandle, StepIoCompletion, StepDecrementTest, StepDecrementXor,
     StepDecrementSet
  DEF Caller, DecrementSignal
<1>2. ASSUME NEW p \in Proc, AddIrp(p) PROVE IInv'
  BY <1>2, StepDispatch, StepAddMode, StepAdd, StepAddTail, StepBounce,
     StepWaited
  DEF AddIrp
<1>3. CASE DeviceThread
  BY <1>3, StepThreadLoop, StepThreadDrain, StepThreadDrained, StepThreadWake,
     StepThreadYield, StepThreadYielded, StepThreadTake, StepWaitFlags,
     StepWaitCount, StepWaitXor, StepWaitOne, StepThreadHandle,
     StepThreadSignal, StepThreadExit, StepThreadGone
  DEF DeviceThread, WaitForActiveIrps
<1>4. CASE Owner \/ TakeUsage \/ ReleaseUsage
  BY <1>4, StepUnlink, StepDeleteDevice, StepDeleteDevicePoke, StepTakeUsage,
     StepReleaseUsage
  DEF Owner
<1>5. CASE Gone \/ UNCHANGED vars
  BY <1>5, StepStutter DEF Gone
<1> QED
  BY <1>1, <1>2, <1>3, <1>4, <1>5 DEF Next

(* The inductive invariant is an invariant.                                *)
THEOREM Inductive == Spec => []IInv
<1> QED
  BY InitIInv, NextIInv, PTL DEF Spec

-----------------------------------------------------------------------------
(* Type correctness: in particular the active IRP count never gets below   *)
(* zero, which WvDecrementActiveIrpCount asserts, nor the usage count.     *)
THEOREM Typing == Spec => []TypeOK
<1>1. IInv => TypeOK
  BY DEF IInv
<1> QED
  BY <1>1, Inductive, PTL

(* The active IRP count is the number of active requests, through every    *)
(* queueing, rejection, processing and completion.                         *)
THEOREM CountIsAccurate == Spec => []Accounting
<1>1. IInv => Accounting
  BY DEF IInv
<1> QED
  BY <1>1, Inductive, PTL

(* No request has two owners, and none in the queue is lost or doubled.    *)
THEOREM OneOwner == Spec => []Ownership
<1>1. IInv => Ownership
  BY DEF IInv
<1> QED
  BY <1>1, Inductive, PTL

(* A thread which has left its loop has left nothing in the queue.         *)
THEOREM NoneStranded == Spec => []NothingStranded
<1>1. IInv => NothingStranded
  <2> SUFFICES ASSUME IInv, pc[Thread] \in {"exit", "zero", "gone"}
               PROVE  queue = <<>> /\ \A r \in Req : st[r] # "queued"
    BY DEF NothingStranded
  <2>1. queue = <<>> /\ Len(queue) = 0
    BY DEF IInv, Stopping
  <2>2. pc[Thread] \notin TakenLabel
    BY DEF TakenLabel
  <2> QED
    BY <2>1, <2>2 DEF IInv, Ownership, QueueOwns
<1> QED
  BY <1>1, Inductive, PTL

(* No step enqueues a request once the thread flag is clear, and no step   *)
(* sets the flag again.                                                    *)
THEOREM NoneAfterTheStop == Spec => NoneAfterStop
<1>1. ASSUME TypeOK, [Next]_vars, "Thread" \notin flags
      PROVE  "Thread" \notin flags' /\ Len(queue') <= Len(queue)
  <2>1. "Thread" \notin flags'
    BY <1>1
    DEF Next, Caller, DecrementSignal, AddIrp, DeviceThread, WaitForActiveIrps,
        Owner, Gone, vars, SerialFlags, Toggle, DispatchIrp, ReadMode,
        CallInThread, CallIncrement, Handle, IoCompletion, DecrementTest,
        DecrementXor, DecrementSet, Dispatch, AddMode, Add, AddTail, Bounce,
        Waited, ThreadLoop, ThreadDrain, ThreadDrained, ThreadWake,
        ThreadYield, ThreadYielded, ThreadTake, WaitFlags, WaitCount, WaitXor,
        WaitOne, ThreadHandle, ThreadSignal, ThreadExit, ThreadGone, Unlink,
        DeleteDevice, DeleteDevicePoke, TakeUsage, ReleaseUsage
  <2>2. queue' = queue \/ (queue # <<>> /\ queue' = Tail(queue))
    BY <1>1
    DEF Next, Caller, DecrementSignal, AddIrp, DeviceThread, WaitForActiveIrps,
        Owner, Gone, vars, Accepting, DispatchIrp, ReadMode, CallInThread,
        CallIncrement, Handle, IoCompletion, DecrementTest, DecrementXor,
        DecrementSet, Dispatch, AddMode, Add, AddTail, Bounce, Waited,
        ThreadLoop, ThreadDrain, ThreadDrained, ThreadWake, ThreadYield,
        ThreadYielded, ThreadTake, WaitFlags, WaitCount, WaitXor, WaitOne,
        ThreadHandle, ThreadSignal, ThreadExit, ThreadGone, Unlink,
        DeleteDevice, DeleteDevicePoke, TakeUsage, ReleaseUsage
  <2>3. queue # <<>> => Len(Tail(queue)) <= Len(queue) /\ Len(queue) \in Nat
    BY <1>1, HeadTail DEF TypeOK
  <2> QED
    BY <1>1, <2>1, <2>2, <2>3 DEF TypeOK
<1> QED
  BY <1>1, Typing, PTL DEF Spec, NoneAfterStop

-----------------------------------------------------------------------------
(* Waking the thread, the sentinel, and the status waiters                 *)

(* A process which has locked the device and could not enqueue its request *)
(* has found the thread flag clear: its request never is the sentinel of a *)
(* queue in use.                                                           *)
Refused ==
  \A p \in Proc :
    pc[p] = "addTail" /\ st[Arg(p)] = "active" => "Thread" \notin flags

(* Where the thread has a request whose status waiter it has taken over.   *)
ServesLabel == OwnsLabel \cup {"dispatch", "bounce", "settle", "signal"}

(* A device which never holds IRPs: whoever enqueues a request waits for   *)
(* it, and goes on waiting while it is in the queue or with the thread.    *)
Waits ==
  /\ ~held
  /\ pc[Thread] \notin {"addMode", "add", "addTail", "waiting"}
  /\ \A r \in Req :
       /\ pc[r] # "addMode"
       /\ pc[r] \in {"add", "addTail"} => wait[r]
       /\ pc[r] \notin {"waiting", "returned"} => ~done[r]
       /\ st[r] = "queued" =>
            slot[r] = r /\ pc[r] \in {"addTail", "waiting"} /\ ~done[r]
       /\ pc[r] = "waiting" /\ ~done[r] =>
            \/ st[r] = "queued"
            \/ cur = r /\ pc[Thread] \in ServesLabel
  /\ pc[Thread] \in ServesLabel =>
       waiter = cur /\ pc[cur] = "waiting" /\ ~done[cur] /\ st[cur] # "queued"

(* Whoever adds to the queue of a sleeping thread locks the device, and    *)
(* signals the arrival before it unlocks it; the thread falls asleep with  *)
(* an empty queue, and nothing else clears the signal.                     *)
LEMMA NextPromptWake ==
  ASSUME IInv, PromptWake, [Next]_vars PROVE PromptWake'
<1> USE Processes DEF IInv
<1>1. CASE ThreadDrained
  <2>1. queue' = <<>>
    BY <1>1 DEF ThreadDrained, Stopping
  <2> QED  BY <2>1 DEF PromptWake
<1>2. CASE \E p \in Proc : Add(p)
  <2>1. lock' # None
    BY <1>2 DEF Add
  <2> QED  BY <2>1 DEF PromptWake
<1>3. CASE \E p \in Proc : AddTail(p)
  <2>1. arrival'
    BY <1>3 DEF AddTail, SignalArrival
  <2> QED  BY <2>1 DEF PromptWake
<1>4. ASSUME ~ThreadDrained, ~ \E p \in Proc : Add(p) \/ AddTail(p),
             pc'[Thread] = "sleep"
      PROVE  /\ pc[Thread] = "sleep" /\ queue' = queue
             /\ lock' = None => lock = None
             /\ arrival => arrival'
  BY <1>4
  DEF TypeOK, Goto, Return, Next, Caller, DecrementSignal, AddIrp,
      DeviceThread, WaitForActiveIrps, Owner, Gone, vars, events, args, locals,
      SignalArrival, DispatchIrp, ReadMode, CallInThread, CallIncrement,
      Handle, IoCompletion, DecrementTest, DecrementXor, DecrementSet,
      Dispatch, AddMode, Bounce, Waited, ThreadLoop, ThreadDrain, ThreadWake,
      ThreadYield, ThreadYielded, ThreadTake, WaitFlags, WaitCount, WaitXor,
      WaitOne, ThreadHandle, ThreadSignal, ThreadExit, ThreadGone, Unlink,
      DeleteDevice, DeleteDevicePoke, TakeUsage, ReleaseUsage
<1> QED  BY <1>1, <1>2, <1>3, <1>4 DEF PromptWake

(* An Add which does not enqueue has found the flag clear, and the flag    *)
(* never comes back.                                                       *)
LEMMA NextRefused ==
  ASSUME IInv, Refused, [Next]_vars PROVE Refused'
BY Processes
DEF Refused, IInv, TypeOK, Ownership, LockHeld, CallerOwns, ThreadOwns, Goto,
    Return, AfterAdd, LockedLabel, Arg, CallerActive, ThreadActive, Accepting,
    Decrement, Increment, SerialFlags, Toggle, OwnsLabel, TakenLabel,
    Next, Caller, DecrementSignal, AddIrp, DeviceThread, WaitForActiveIrps,
    Owner, Gone, vars, events, args, locals, DispatchIrp, ReadMode,
    CallInThread, CallIncrement, Handle, IoCompletion, DecrementTest,
    DecrementXor, DecrementSet, Dispatch, AddMode, Add, AddTail, Bounce,
    Waited, ThreadLoop, ThreadDrain, ThreadDrained, ThreadWake, ThreadYield,
    ThreadYielded, ThreadTake, WaitFlags, WaitCount, WaitXor, WaitOne,
    ThreadHandle, ThreadSignal, ThreadExit, ThreadGone, Unlink, DeleteDevice,
    DeleteDevicePoke, TakeUsage, ReleaseUsage

(* Setting an entry of a Boolean table.                                    *)
LEMMA SetTrue ==
  ASSUME NEW S, NEW f \in [S -> BOOLEAN], NEW x \in S, NEW g,
         g = [f EXCEPT ![x] = TRUE]
  PROVE  g[x] /\ \A y \in S : f[y] => g[y]
BY Zenon

(* Each step of a device which never holds IRPs keeps its waiters waiting. *)
LEMMA NextWaits ==
  ASSUME ~MayHold, IInv, Waits, [Next]_vars PROVE Waits'
<1> USE Processes
    DEF Waits, ServesLabel, IInv, TypeOK, Ownership, LockHeld, CallerOwns,
        ThreadOwns, events, args, locals, Goto, Return, Exists, Arg, OwnsLabel
<1>1. ASSUME NEW r \in Req, Caller(r) \/ DecrementSignal(r) PROVE Waits'
  <2>1. CASE DispatchIrp(r)
    BY <2>1 DEF DispatchIrp, Increment
  <2>2. CASE ReadMode(r)
    <3>1. CASE "Serial" \in flags
      <4>1. wait' = [wait EXCEPT ![r] = TRUE] /\ pc' = [pc EXCEPT ![r] = "add"]
        BY <2>2, <3>1 DEF ReadMode
      <4>2. wait'[r] /\ \A q \in Req : wait[q] => wait'[q]
        BY <4>1, SetTrue
      <4> QED  BY <2>2, <4>1, <4>2 DEF ReadMode
    <3>2. CASE "Serial" \notin flags
      <4>1. wait' = wait /\ pc' = [pc EXCEPT ![r] = "dispatch"]
        BY <2>2, <3>2 DEF ReadMode
      <4> QED  BY <2>2, <4>1 DEF ReadMode
    <3> QED  BY <3>1, <3>2
  <2>3. CASE CallInThread(r)
    BY <2>3 DEF CallInThread
  <2>4. CASE CallIncrement(r)
    BY <2>4 DEF CallIncrement, Increment
  <2>5. CASE Handle(r)
    <3>1. /\ pc[r] = "handling" /\ pc' = [pc EXCEPT ![r] = "returned"]
          /\ \A q \in Req : q # r => st'[q] = st[q]
          /\ st'[r] # "queued"
          /\ UNCHANGED <<held, done, slot, wait, cur, waiter>>
      BY <2>5 DEF Handle, Decrement
    <3>2. pc[Thread] \in ServesLabel => cur \in Req \ {r}
      BY <3>1 DEF ThreadActive
    <3> QED  BY <3>1, <3>2
  <2>6. CASE IoCompletion(r)
    BY <2>6 DEF IoCompletion, Decrement
  <2>7. CASE DecrementTest(r)
    BY <2>7 DEF DecrementTest
  <2>8. CASE DecrementXor(r)
    BY <2>8 DEF DecrementXor
  <2>9. CASE DecrementSet(r)
    BY <2>9 DEF DecrementSet
  <2> QED  BY <1>1, <2>1, <2>2, <2>3, <2>4, <2>5, <2>6, <2>7, <2>8, <2>9
    DEF Caller, DecrementSignal
<1>2. ASSUME NEW p \in Proc, AddIrp(p) PROVE Waits'
  <2>1. CASE Dispatch(p)
    <3>1. CASE Arg(p) \in Pnp /\ p # Thread
      <4>1. wait' = [wait EXCEPT ![p] = TRUE] /\ pc' = [pc EXCEPT ![p] = "add"]
        BY <2>1, <3>1, RequestsAssumption DEF Dispatch
      <4>2. wait'[p] /\ \A q \in Req : wait[q] => wait'[q]
        BY <4>1, SetTrue
      <4> QED  BY <2>1, <3>1, <4>1, <4>2 DEF Dispatch
    <3>2. CASE ~(Arg(p) \in Pnp /\ p # Thread)
      <4>1. /\ wait' = wait
            /\ p # Thread => pc' = [pc EXCEPT ![p] = "handling"]
            /\ p = Thread => \/ pc' = [pc EXCEPT ![p] = "waitFlags"]
                            \/ pc' = [pc EXCEPT ![p] = "handle"]
        BY <2>1, <3>2 DEF Dispatch
      <4>2. /\ UNCHANGED <<held, done, st, slot, cur, waiter>>
            /\ pc[p] = "dispatch"
        BY <2>1 DEF Dispatch
      <4>3. CASE p # Thread
        <5>1. p \in Req /\ (pc[Thread] \in ServesLabel => cur \in Req \ {p})
          BY <4>2, <4>3 DEF ThreadActive
        <5>2. /\ pc'[p] = "handling" /\ pc'[Thread] = pc[Thread]
              /\ \A q \in Req : q # p => pc'[q] = pc[q]
          BY <4>1, <4>3, <5>1
        <5> QED  BY <4>1, <4>2, <5>1, <5>2
      <4>4. CASE p = Thread
        <5>1. /\ pc[Thread] \in ServesLabel /\ pc'[Thread] \in ServesLabel
              /\ cur \in Req
          BY <4>1, <4>2, <4>4 DEF ThreadActive
        <5>2. pc'[Thread] \notin {"addMode", "add", "addTail", "waiting"}
          BY <4>1, <4>4
        <5>3. \A q \in Req : pc'[q] = pc[q]
          BY <4>1, <4>4
        <5> QED  BY <4>1, <4>2, <5>1, <5>2, <5>3
      <4> QED  BY <4>3, <4>4
    <3> QED  BY <3>1, <3>2
  <2>2. CASE AddMode(p)
    BY <2>2 DEF AddMode
  <2>3. CASE Add(p)
    <3>1. p \in Req /\ wait[p]
      BY <2>3 DEF Add
    <3>2. /\ slot' = [slot EXCEPT ![p] = p]
          /\ done' = [done EXCEPT ![p] = FALSE]
          /\ pc' = [pc EXCEPT ![p] = "addTail"] /\ pc[p] = "add"
          /\ \A q \in Req : q # p => st'[q] = st[q]
      BY <2>3, <3>1 DEF Add, Decrement
    <3>3. ~done'[p] /\ \A q \in Proc : q # p => (done'[q] <=> done[q])
      BY <3>1, <3>2
    <3>4. slot'[p] = p /\ \A q \in Req : q # p => slot'[q] = slot[q]
      BY <3>1, <3>2
    <3>5. UNCHANGED <<held, wait, cur, waiter>>
      BY <2>3 DEF Add
    <3>6. pc[Thread] \in ServesLabel => cur \in Req \ {p}
      BY <3>1, <3>2 DEF ThreadActive
    <3> QED  BY <3>1, <3>2, <3>3, <3>4, <3>5, <3>6
  <2>4. CASE AddTail(p)
    BY <2>4 DEF AddTail, AfterAdd
  <2>5. CASE Bounce(p)
    BY <2>5 DEF Bounce, Decrement
  <2>6. CASE Waited(p)
    BY <2>6 DEF Waited
  <2> QED  BY <1>2, <2>1, <2>2, <2>3, <2>4, <2>5, <2>6 DEF AddIrp
<1>3. CASE DeviceThread
  <2>1. CASE ThreadLoop
    BY <2>1 DEF ThreadLoop
  <2>2. CASE ThreadDrain
    BY <2>2 DEF ThreadDrain
  <2>3. CASE ThreadDrained
    BY <2>3 DEF ThreadDrained
  <2>4. CASE ThreadWake
    BY <2>4 DEF ThreadWake
  <2>5. CASE ThreadYield
    BY <2>5 DEF ThreadYield
  <2>6. CASE ThreadYielded
    BY <2>6 DEF ThreadYielded
  <2>7. CASE ThreadTake
    BY <2>7 DEF ThreadTake, Increment, TakenLabel
  <2>8. CASE WaitFlags
    BY <2>8 DEF WaitFlags
  <2>9. CASE WaitCount
    BY <2>9 DEF WaitCount
  <2>10. CASE WaitXor
    BY <2>10 DEF WaitXor
  <2>11. CASE WaitOne
    BY <2>11 DEF WaitOne
  <2>12. CASE ThreadHandle
    BY <2>12 DEF ThreadHandle, Decrement
  <2>13. CASE ThreadSignal
    <3>1. pc[Thread] \in {"signal", "settle"} /\ cur \in Req /\ waiter = cur
      BY <2>13 DEF ThreadSignal
    <3>2. done' = [p \in Proc |-> done[p] \/ p \in {cur}]
      BY <2>13, <3>1 DEF ThreadSignal, Completed
    <3>3. done'[cur] /\ \A q \in Req : q # cur => (done'[q] <=> done[q])
      BY <3>1, <3>2
    <3>4. /\ pc' = [pc EXCEPT ![Thread] = "loop"]
          /\ UNCHANGED <<st, slot, wait, held>>
          /\ st[cur] # "queued"
      BY <2>13, <3>1 DEF ThreadSignal, CallerOwns
    <3> HIDE DEF Waits
    <3>5. \A r \in Req :
            /\ pc'[r] = pc[r] /\ pc[r] # "addMode"
            /\ pc[r] \in {"add", "addTail"} => wait'[r]
       BY <3>1, <3>4 DEF Waits
    <3> QED  BY <3>1, <3>3, <3>4, <3>5 DEF Waits
  <2>14. CASE ThreadExit
    BY <2>14 DEF ThreadExit
  <2>15. CASE ThreadGone
    BY <2>15 DEF ThreadGone
  <2> QED  BY <1>3, <2>1, <2>2, <2>3, <2>4, <2>5, <2>6, <2>7, <2>8, <2>9,
     <2>10, <2>11, <2>12, <2>13, <2>14, <2>15
    DEF DeviceThread, WaitForActiveIrps
<1>4. CASE Owner \/ TakeUsage \/ ReleaseUsage
  <2>1. CASE Unlink
    BY <2>1 DEF Unlink
  <2>2. CASE DeleteDevice
    BY <2>2 DEF DeleteDevice
  <2>3. CASE DeleteDevicePoke
    BY <2>3 DEF DeleteDevicePoke
  <2>4. CASE TakeUsage
    BY <2>4 DEF TakeUsage
  <2>5. CASE ReleaseUsage
    BY <2>5 DEF ReleaseUsage
  <2> QED  BY <1>4, <2>1, <2>2, <2>3, <2>4, <2>5 DEF Owner
<1>5. CASE Gone \/ UNCHANGED vars
  BY <1>5 DEF Gone, vars
<1> QED  BY <1>1, <1>2, <1>3, <1>4, <1>5 DEF Next

(* The sentinel leaves the queue with the thread, which then clears it.    *)
LEMMA NextSentinel ==
  ASSUME Refused, IInv, SentinelInQueue, [Next]_vars PROVE SentinelInQueue'
<1> USE Processes
    DEF SentinelInQueue, Refused, IInv, TypeOK, Ownership, LockHeld, events,
        args, locals, Goto, Return, Exists, Arg, LockedLabel
<1>1. ASSUME NEW r \in Req, Caller(r) \/ DecrementSignal(r)
      PROVE  SentinelInQueue'
  <2>1. CASE DispatchIrp(r)
    BY <2>1 DEF DispatchIrp, Increment
  <2>2. CASE ReadMode(r)
    BY <2>2 DEF ReadMode
  <2>3. CASE CallInThread(r)
    BY <2>3 DEF CallInThread, SerialFlags
  <2>4. CASE CallIncrement(r)
    BY <2>4 DEF CallIncrement, Increment
  <2>5. CASE Handle(r)
    BY <2>5 DEF Handle, Decrement
  <2>6. CASE IoCompletion(r)
    BY <2>6 DEF IoCompletion, Decrement
  <2>7. CASE DecrementTest(r)
    BY <2>7 DEF DecrementTest
  <2>8. CASE DecrementXor(r)
    BY <2>8 DEF DecrementXor, Toggle
  <2>9. CASE DecrementSet(r)
    BY <2>9 DEF DecrementSet
  <2> QED  BY <1>1, <2>1, <2>2, <2>3, <2>4, <2>5, <2>6, <2>7, <2>8, <2>9
    DEF Caller, DecrementSignal
<1>2. ASSUME NEW p \in Proc, AddIrp(p) PROVE SentinelInQueue'
  <2>1. CASE Dispatch(p)
    BY <2>1 DEF Dispatch
  <2>2. CASE AddMode(p)
    BY <2>2 DEF AddMode
  <2>3. CASE Add(p)
    BY <2>3 DEF Add, Accepting, Decrement
  <2>4. CASE AddTail(p)
    <3>1. /\ pc[p] = "addTail" /\ UNCHANGED <<queue, flags, cur, st>>
          /\ sentinel' = sentinel \/ sentinel' = Arg(p)
          /\ pc' = [pc EXCEPT ![p] = AfterAdd(p)]
      BY <2>4 DEF AddTail
    <3>2. lock = p /\ pc[Thread] \notin LockedLabel
      BY <3>1
    <3>3. CASE sentinel' = sentinel
      BY <3>1, <3>2, <3>3
    <3>4. CASE sentinel' = Arg(p) /\ "Thread" \in flags
      <4>1. Arg(p) \in Req /\ st[Arg(p)] = "queued"
        BY <3>1, <3>4 DEF CallerOwns, ThreadOwns
      <4>2. ~(cur = Arg(p) /\ pc[Thread] \in TakenLabel)
        BY <3>1, <3>2 DEF CallerOwns, TakenLabel
      <4>3. PICK i \in 1 .. Len(queue) : queue[i] = Arg(p)
        BY <4>1, <4>2 DEF QueueOwns
      <4> QED  BY <3>1, <3>4, <4>3
    <3> QED  BY <3>1, <3>3, <3>4
  <2>5. CASE Bounce(p)
    BY <2>5 DEF Bounce, Decrement
  <2>6. CASE Waited(p)
    BY <2>6 DEF Waited
  <2> QED  BY <1>2, <2>1, <2>2, <2>3, <2>4, <2>5, <2>6 DEF AddIrp
<1>3. CASE DeviceThread
  <2>1. CASE ThreadLoop
    <3>1. flags' \subseteq flags /\ sentinel' = sentinel /\ pc[Thread] = "loop"
      BY <2>1 DEF ThreadLoop
    <3>2. CASE queue = <<>>
      BY <2>1, <3>1, <3>2 DEF ThreadLoop
    <3>3. CASE queue # <<>>
      <4>1. /\ cur' = Head(queue) /\ queue' = Tail(queue)
            /\ pc' = [pc EXCEPT ![Thread] =
                       IF Head(queue) = sentinel THEN "yield" ELSE "take"]
        BY <2>1, <3>3 DEF ThreadLoop
      <4>2. CASE Head(queue) = sentinel
        BY <4>1, <4>2, <3>1
      <4>3. ASSUME Head(queue) # sentinel, NEW i \in 1 .. Len(queue),
                   queue[i] = sentinel
            PROVE  i - 1 \in 1 .. Len(queue') /\ queue'[i - 1] = sentinel
        <5>1. i # 1 /\ Len(Tail(queue)) = Len(queue) - 1 /\ Len(queue) \in Nat
          BY <4>3, <3>3, HeadTail
        <5>2. i - 1 \in 1 .. Len(Tail(queue))
          BY <5>1
        <5>3. Tail(queue)[i - 1] = queue[(i - 1) + 1]
          BY <5>2, <3>3, HeadTail
        <5> QED  BY <4>1, <4>3, <5>2, <5>3
      <4> QED  BY <3>1, <4>2, <4>3
    <3> QED  BY <3>2, <3>3
  <2>2. CASE ThreadDrain
    BY <2>2 DEF ThreadDrain, SerialFlags
  <2>3. CASE ThreadDrained
    BY <2>3 DEF ThreadDrained
  <2>4. CASE ThreadWake
    BY <2>4 DEF ThreadWake
  <2>5. CASE ThreadYield
    BY <2>5 DEF ThreadYield
  <2>6. CASE ThreadYielded
    BY <2>6 DEF ThreadYielded
  <2>7. CASE ThreadTake
    BY <2>7 DEF ThreadTake, Increment, TakenLabel
  <2>8. CASE WaitFlags
    BY <2>8 DEF WaitFlags, SerialFlags
  <2>9. CASE WaitCount
    BY <2>9 DEF WaitCount
  <2>10. CASE WaitXor
    BY <2>10 DEF WaitXor, Toggle
  <2>11. CASE WaitOne
    BY <2>11 DEF WaitOne
  <2>12. CASE ThreadHandle
    BY <2>12 DEF ThreadHandle, Decrement
  <2>13. CASE ThreadSignal
    BY <2>13 DEF ThreadSignal, Completed
  <2>14. CASE ThreadExit
    BY <2>14 DEF ThreadExit
  <2>15. CASE ThreadGone
    BY <2>15 DEF ThreadGone
  <2> QED  BY <1>3, <2>1, <2>2, <2>3, <2>4, <2>5, <2>6, <2>7, <2>8, <2>9,
     <2>10, <2>11, <2>12, <2>13, <2>14, <2>15
    DEF DeviceThread, WaitForActiveIrps
<1>4. CASE Owner \/ TakeUsage \/ ReleaseUsage
  <2>1. CASE Unlink
    BY <2>1 DEF Unlink
  <2>2. CASE DeleteDevice
    BY <2>2 DEF DeleteDevice
  <2>3. CASE DeleteDevicePoke
    BY <2>3 DEF DeleteDevicePoke, SignalArrival
  <2>4. CASE TakeUsage
    BY <2>4 DEF TakeUsage
  <2>5. CASE ReleaseUsage
    BY <2>5 DEF ReleaseUsage
  <2> QED  BY <1>4, <2>1, <2>2, <2>3, <2>4, <2>5 DEF Owner
<1>5. CASE Gone \/ UNCHANGED vars
  BY <1>5 DEF Gone, vars
<1> QED  BY <1>1, <1>2, <1>3, <1>4, <1>5 DEF Next

-----------------------------------------------------------------------------
(* What they need beside IInv holds initially.                             *)
LEMMA InitRest ==
  Init => PromptWake /\ Refused /\ SentinelInQueue /\ (~MayHold => Waits)
<1> SUFFICES ASSUME Init
             PROVE  /\ PromptWake /\ Refused /\ SentinelInQueue
                    /\ ~MayHold => Waits
  OBVIOUS
<1>1. pc[Thread] = "loop" /\ \A r \in Req : pc[r] = "idle" /\ ~done[r]
  BY Processes DEF Init
<1>2. Waits \/ MayHold
  BY <1>1, MayHoldAssumption DEF Init, Waits, ServesLabel, OwnsLabel
<1> QED
  BY <1>1, <1>2, Processes DEF Init, PromptWake, Refused, SentinelInQueue

(* A request in the queue of a sleeping thread never has to wait for the   *)
(* timeout of 30 seconds.                                                  *)
THEOREM SleeperIsWoken == Spec => []PromptWake
<1>1. Init => PromptWake
  BY InitRest
<1>2. IInv /\ PromptWake /\ [Next]_vars => PromptWake'
  BY NextPromptWake
<1> QED
  BY <1>1, <1>2, Inductive, PTL DEF Spec

(* The sentinel of a queue in use is met again: the thread does not go     *)
(* round the queue for ever without a pause.                               *)
THEOREM SentinelIsMet == Spec => []SentinelInQueue
<1>1. Init => Refused /\ SentinelInQueue
  BY InitRest
<1>2. IInv /\ Refused /\ SentinelInQueue /\ [Next]_vars
        => Refused' /\ SentinelInQueue'
  BY NextRefused, NextSentinel
<1> QED
  BY <1>1, <1>2, Inductive, PTL DEF Spec

(* The devices which never hold IRPs, whatever is sent to them: who        *)
(* enqueued a request waits for its status as long as the thread knows of  *)
(* that wait, and is not forgotten.                                        *)
LEMMA WaitsAlways == ASSUME ~MayHold PROVE Spec => []Waits
<1>1. Init => Waits
  BY InitRest
<1>2. IInv /\ Waits /\ [Next]_vars => Waits'
  BY NextWaits
<1> QED
  BY <1>1, <1>2, Inductive, PTL DEF Spec

(* The thread signals no status waiter whose stack frame is gone.          *)
THEOREM WaitersAlive == ASSUME ~MayHold PROVE Spec => []StatusWaiterAlive
<1>1. Waits => StatusWaiterAlive
  BY DEF Waits, StatusWaiterAlive, ServesLabel
<1> QED
  BY <1>1, WaitsAlways, PTL

(* No thread which waits for a status is forgotten by the device's thread. *)
THEOREM WaitersRemembered == ASSUME ~MayHold PROVE Spec => []WaiterRemembered
<1>1. Waits => WaiterRemembered
  BY DEF Waits, WaiterRemembered, ServesLabel
<1> QED
  BY <1>1, WaitsAlways, PTL

=============================================================================
