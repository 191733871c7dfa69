-------------------------- MODULE FileDisk_proofs --------------------------
(***************************************************************************)
(* Proofs about FileDisk, for every set of requests, every disk and every  *)
(* word, and that it implements Irps.                                      *)
(*                                                                         *)
(* The inductive invariant has four parts: Handled says where the creator, *)
(* the thread and its items can be at the same time (Placed, for           *)
(* ItemsAlive), which bears out the count of the handles (HandleKept),     *)
(* Woken what the event stands for (WakeupKept), Queued who has a request, *)
(* and Moved what it may transfer (TransferFits).                          *)
(***************************************************************************)
EXTENDS FileDisk, ListLemmas

Early   == {"idle", "awaiting", "started"}
Signals == {"signals open", "signals find", "signals stop"}

Opening == {"opening", "sizing"}
Finding == {"finding", "walking", "matching"}

(* There is one item at most, and it is the creator's.  The search and the *)
(* opening happen once, so that they replace no handle.                    *)
Placed ==
  /\ items \in {<<>>, <<"open">>, <<"find">>, <<"stop">>}
  /\ life = "none" => creator = "idle"
  /\ creator = "idle" => thread = "none"
  /\ creator \in Early \cup {"freeing", "adding"} =>
       items = <<>> /\ thread \notin Opening \cup Finding
  /\ creator \in Early => backing = None /\ opened = None
  /\ items = <<"open">> \/ thread \in Opening =>
       /\ creator \in {"signals open", "waits open"}
       /\ opened = None /\ backing = None
  /\ items = <<"find">> \/ thread \in Finding =>
       creator \in {"signals find", "done"} /\ backing = None
  /\ thread \in Opening \cup Finding => items = <<>>
  /\ items = <<"stop">> =>
       creator \in {"signals stop", "waits stop"} /\ state = "Started"
  /\ thread \in {"closing", "ended"} => state = "Stopped"

Handled == Placed /\ HandleKept

(* Who has a request.                                                      *)
Queued ==
  /\ queue \in Seq(Irp) /\ Distinct(queue)
  /\ accepted \subseteq Irp
  /\ completions \in [Irp -> Nat]
  /\ caller \in [Irp -> {"out", "inserted", "done"}]
  /\ life \in {"none", "made"} => queue = <<>>
  /\ creator \in {"idle", "awaiting"} => life \in {"none", "made"}
  /\ \A r \in ToSet(queue) :
       r \in accepted /\ completions[r] = 0 /\ caller[r] # "out"
  /\ \A r \in Irp : caller[r] = "out" => r \notin accepted /\ completions[r] = 0

(* A request in the queue asks for what the first clipping has left of it. *)
Moved ==
  /\ DOMAIN asked = Irp /\ DOMAIN moved = Irp
  /\ \A r \in ToSet(queue) : \E q \in Extent :
       /\ Clip(q) > 0 /\ asked[r] = Clipped(q)
       /\ moved[r] = [start |-> 0, bytes |-> 0, buffer |-> q.length]
  /\ TransferFits

(* An item or a request for which the thread does not look any more before *)
(* it waits has its event set, or about to be.                             *)
Woken ==
  /\ signal \in BOOLEAN
  /\ thread \in {"waiting", "irps"} /\ items # <<>> => signal \/ creator \in Signals
  /\ thread = "waiting" /\ queue # <<>> =>
       signal \/ \E r \in Irp : caller[r] = "inserted"

IInv == Handled /\ Queued /\ Moved /\ Woken

-----------------------------------------------------------------------------
(* The lists of items.                                                     *)
LEMMA OneItem ==
  /\ \A x : /\ Append(<<>>, x) = <<x>> /\ <<x>> # <<>>
           /\ Head(<<x>>) = x /\ Tail(<<x>>) = <<>>
           /\ {<<x>>[i] : i \in DOMAIN <<x>>} = {x}
  /\ {<<>>[i] : i \in DOMAIN <<>>} = {}
  /\ <<"open">> # <<"find">> /\ <<"open">> # <<"stop">> /\ <<"find">> # <<"stop">>
OBVIOUS

LEMMA HandledInit == Init => Handled
BY DiskAssumption DEF Init, Handled, Placed, HandleKept, Early, Opening, Finding

LEMMA PlacedCreator ==
  ASSUME Placed, CreatorStep
  PROVE  Placed'
<1> USE DEF Placed, Early, Opening, Finding, disk, library, file, search, irps
<1>1. CASE CreatePdo \/ CreateFails
  BY <1>1 DEF CreatePdo, CreateFails
<1>2. CASE StartWaited
  BY <1>2 DEF StartWaited
<1>3. CASE OpenStart
  BY <1>3, OneItem DEF OpenStart, AddItem
<1>4. CASE FindStart
  BY <1>4, OneItem DEF FindStart, AddItem
<1>5. CASE OpenWaited
  BY <1>5, OneItem DEF OpenWaited
<1>6. CASE AddToBus
  BY <1>6 DEF AddToBus
<1>7. CASE Free
  BY <1>7, OneItem DEF Free, AddItem
<1>8. CASE Freed
  BY <1>8, OneItem DEF Freed
<1>10. CASE FreeFails
  BY <1>10, OneItem DEF FreeFails
<1>9. CASE SignalItem
  BY <1>9, OneItem DEF SignalItem
<1> QED
  BY <1>1, <1>2, <1>3, <1>4, <1>5, <1>6, <1>7, <1>8, <1>9,
     <1>10 DEF CreatorStep

LEMMA PlacedThread ==
  ASSUME Placed, ThreadStep
  PROVE  Placed'
<1> USE DEF Placed, Early, Opening, Finding, disk, library, file, search, irps
<1>1. CASE Wrapper \/ Wake \/ NoItem
  BY <1>1, OneItem DEF Wrapper, Wake, NoItem
<1>2. CASE TakeItem
  <2>1. items' = <<>>
    BY <1>2, OneItem DEF TakeItem
  <2> QED
    BY <1>2, <2>1, OneItem DEF TakeItem
<1>3. CASE OpenFile \/ OpenFails \/ Opened \/ SizeFails
  BY <1>3, OneItem DEF OpenFile, OpenFails, Opened, SizeFails
<1>4. CASE FindNames \/ FindOpen
  BY <1>4, OneItem DEF FindNames, FindOpen, Retry
<1>8. CASE FindDiffers \/ FindMatches \/ FindOver
  BY <1>8, OneItem DEF FindDiffers, FindMatches, FindOver, Take, Retry
<1>5. CASE Serve
  BY <1>5 DEF Serve
<1>6. CASE Served
  BY <1>6, OneItem DEF Served
<1>7. CASE Close
  BY <1>7, OneItem DEF Close
<1> QED
  BY <1>1, <1>2, <1>3, <1>4, <1>5, <1>6, <1>7, <1>8 DEF ThreadStep

(* The steps which open a handle, close one, or remember one.              *)
LEMMA HandleSteps ==
  ASSUME Handled, [Next]_vars
  PROVE  HandleKept'
<1> USE DiskAssumption DEF Handled, HandleKept, disk, library, file, search
<1>1. CASE UNCHANGED <<handles, backing, thread>>
  BY <1>1
<1>2. CASE CreatorStep
  <2>1. CASE CreatePdo
    BY <2>1 DEF CreatePdo, Placed
  <2> QED
    BY <1>2, <2>1 DEF CreatorStep, CreateFails, StartWaited, OpenStart,
       OpenWaited, AddToBus, FindStart, Free, FreeFails, Freed, SignalItem
<1>3. CASE ThreadStep
  <2>1. CASE Wrapper \/ Wake \/ NoItem \/ OpenFails \/ FindNames
    BY <2>1 DEF Wrapper, Wake, NoItem, OpenFails, FindNames, Retry
  <2>2. CASE TakeItem
    <3>1. /\ thread = "items" /\ thread' \in {"opening", "finding", "items"}
          /\ UNCHANGED <<handles, backing>>
      BY <2>2, OneItem DEF TakeItem, Placed
    <3> QED
      BY <3>1
  <2>3. CASE OpenFile \/ FindOpen
    <3>1. backing = None /\ backing' = None /\ handles = 0
      BY <2>3 DEF OpenFile, FindOpen, Placed, Opening, Finding
    <3>2. \/ thread' \in {"sizing", "matching"} /\ handles' = 1
          \/ thread' = "walking" /\ handles' = 0
      BY <2>3, <3>1 DEF OpenFile, FindOpen
    <3> QED
      BY <3>1, <3>2
  <2>4. CASE Opened \/ FindMatches
    BY <2>4 DEF Opened, FindMatches, Take, Placed, Opening, Finding
  <2>5. CASE SizeFails \/ FindDiffers
    <3>1. backing = None /\ backing' = None /\ handles = 1
      BY <2>5 DEF SizeFails, FindDiffers, Placed, Opening, Finding
    <3>2. thread' \in {"items", "walking"} /\ handles' = 0
      BY <2>5, <3>1 DEF SizeFails, FindDiffers
    <3> QED
      BY <3>1, <3>2
  <2>7. CASE FindOver
    BY <2>7 DEF FindOver, Take, Retry, Placed, Finding
  <2>8. CASE Serve \/ Served
    BY <2>8 DEF Serve, Served
  <2>9. CASE Close
    BY <2>9 DEF Close
  <2> QED
    BY <1>3, <2>1, <2>2, <2>3, <2>4, <2>5, <2>7, <2>8, <2>9 DEF ThreadStep
<1>4. CASE CallerStep
  BY <1>4 DEF CallerStep, Refuse, Insert, Signal
<1> QED
  BY <1>1, <1>2, <1>3, <1>4
  DEF Next, vars, Detach, RemoveDevice, Reinitialize

LEMMA HandledNext ==
  ASSUME Handled, [Next]_vars
  PROVE  Handled'
<1>1. CASE /\ UNCHANGED <<creator, library, backing, opened>>
           /\ life' = "none" => life = "none"
  BY <1>1, HandleSteps DEF Handled, Placed, library
<1>2. CASE CallerStep
  <2>1. /\ UNCHANGED <<creator, state, items, thread, backing, opened>>
        /\ life' = life
    BY <1>2 DEF CallerStep, Refuse, Insert, Signal, disk, library, file
  <2> QED
    BY <2>1, HandleSteps DEF Handled, Placed
<1> QED
  BY <1>1, <1>2, PlacedCreator, PlacedThread, HandleSteps
  DEF Handled, Next, vars, Detach, RemoveDevice, Reinitialize, disk, library, file

LEMMA AlwaysHandled == Spec => []Handled
BY HandledInit, HandledNext, PTL DEF Spec

(* The items on the stack of a creator are used only while it waits.       *)
THEOREM ItemsStayAlive == Spec => []ItemsAlive
<1>1. Handled => ItemsAlive
  <2> SUFFICES ASSUME Handled PROVE ItemsAlive
    OBVIOUS
  <2> DEFINE there == {items[i] : i \in DOMAIN items}
  <2>1. /\ "open" \in there => items = <<"open">>
        /\ "stop" \in there => items = <<"stop">>
    <3>1. CASE items = <<>>
      BY <3>1, OneItem
    <3>2. ASSUME NEW x \in {"open", "find", "stop"}, items = <<x>>
          PROVE  there = {x}
      BY <3>2, OneItem
    <3> QED
      BY <3>1, <3>2 DEF Handled, Placed
  <2> QED
    BY <2>1 DEF Handled, Placed, ItemsAlive, Opening, Finding
<1> QED
  BY <1>1, AlwaysHandled, PTL

(* One handle is open while the disk remembers one or a step of opening or *)
(* searching has one in hand, and none in the end.                         *)
THEOREM HandleIsKept == Spec => []HandleKept
<1>1. Handled => HandleKept
  BY DEF Handled
<1> QED
  BY <1>1, AlwaysHandled, PTL

-----------------------------------------------------------------------------
(* The requests.                                                           *)
LEMMA QueuedInit == Init => Queued
<1> SUFFICES ASSUME Init PROVE Queued
  OBVIOUS
<1>1. queue \in Seq(Irp)
  BY EmptySeq DEF Init
<1> QED
  BY <1>1, NoElements DEF Init, Queued

LEMMA QueuedNext ==
  ASSUME Queued, [Next]_vars
  PROVE  Queued'
<1>1. CASE /\ UNCHANGED irps
           /\ life' \in {"none", "made"} => life \in {"none", "made"}
           /\ creator' \in {"idle", "awaiting"} => life' \in {"none", "made"}
  BY <1>1 DEF Queued, irps
<1>2. ASSUME NEW r \in Irp, Refuse(r)  PROVE Queued'
  <2>1. r \notin ToSet(queue) /\ r \notin accepted
    BY <1>2 DEF Refuse, New, Queued
  <2> QED
    BY <1>2, <2>1, Elements DEF Refuse, New, Queued, disk
<1>3. ASSUME NEW r \in Irp, NEW q \in Extent, Insert(r, q)  PROVE Queued'
  <2>1. r \notin ToSet(queue) /\ life = "listed" /\ completions[r] = 0
    BY <1>3 DEF Insert, New, Queued
  <2>2. /\ queue' \in Seq(Irp) /\ Distinct(queue')
        /\ ToSet(queue') = ToSet(queue) \cup {r}
    BY <1>3, <2>1, AppendElements DEF Insert, Queued
  <2> QED
    BY <1>3, <2>1, <2>2, Elements DEF Insert, Queued, disk
<1>4. ASSUME NEW r \in Irp, Signal(r)  PROVE Queued'
  BY <1>4, Elements DEF Signal, Queued, disk
<1>5. CASE Serve
  <2> DEFINE r == Head(queue)
  <2>1. /\ r \in ToSet(queue) /\ r \in Irp /\ r \in accepted
        /\ Tail(queue) \in Seq(Irp) /\ Distinct(Tail(queue))
        /\ ToSet(Tail(queue)) = ToSet(queue) \ {r}
    BY <1>5, TakeFirst DEF Serve, Queued
  <2> HIDE DEF r
  <2>2. /\ queue' = Tail(queue) /\ completions' = [completions EXCEPT ![r] = @ + 1]
        /\ UNCHANGED <<caller, accepted, life, creator>>
    BY <1>5, <2>1 DEF Serve, disk, r
  <2>3. caller[r] # "out" /\ queue # <<>>
    BY <1>5, <2>1 DEF Queued, Serve
  <2> QED
    BY <2>1, <2>2, <2>3, Elements DEF Queued
<1> QED
  BY <1>1, <1>2, <1>3, <1>4, <1>5
  DEF Next, vars, CreatorStep, ThreadStep, CallerStep, CreatePdo, CreateFails,
      StartWaited, OpenStart, OpenWaited, AddToBus, FindStart, Free, FreeFails,
      Freed, SignalItem, Wrapper, Wake, TakeItem, NoItem, OpenFile, OpenFails,
      Opened, SizeFails, FindNames, FindOpen, FindDiffers, FindMatches, FindOver,
      Served, Close, Detach, RemoveDevice, Reinitialize, disk, irps,
      Queued

LEMMA AlwaysQueued == Spec => []Queued
BY QueuedInit, QueuedNext, PTL DEF Spec

-----------------------------------------------------------------------------
(* What a request may transfer.                                            *)

(* Products with the size of a sector, and what division and wrapping      *)
(* around leave of them.                                                   *)
LEMMA Products ==
  ASSUME NEW n \in Nat \ {0}
  PROVE  /\ \A a \in Nat : /\ a * n \in Nat /\ (a * n) \div n = a
                           /\ a \div n \in Nat /\ (a \div n) * n <= a
                           /\ a % n \in Nat /\ a % n <= a
                           /\ a < n => a % n = a
         /\ \A a, b \in Nat : /\ a <= b => a * n <= b * n
                              /\ (a + b) * n = a * n + b * n
<1>1. ASSUME NEW a \in Nat
      PROVE  /\ a * n \in Nat /\ (a * n) \div n = a
             /\ a \div n \in Nat /\ (a \div n) * n <= a
             /\ a % n \in Nat /\ a % n <= a
             /\ a < n => a % n = a
  OBVIOUS
<1>2. ASSUME NEW a \in Nat, NEW b \in Nat
      PROVE  (a <= b => a * n <= b * n) /\ (a + b) * n = a * n + b * n
  OBVIOUS
<1> QED
  BY <1>1, <1>2

(* A number of sectors takes at most its product in bytes, and exactly     *)
(* that when it does not wrap around.                                      *)
LEMMA BytesOf ==
  ASSUME NEW n \in Nat
  PROVE  /\ Bytes(n) \in Nat /\ Bytes(n) <= n * SectorSize
         /\ n * SectorSize < Word => Bytes(n) = n * SectorSize
<1>1. n * SectorSize \in Nat
  BY Products, DiskAssumption
<1> QED
  BY <1>1, Products, DiskAssumption DEF Bytes

(* What the second clipping yields fits the buffer of the first, and lies  *)
(* within the disk.                                                        *)
LEMMA ClippedTwice ==
  ASSUME NEW q \in Extent, Clip(q) > 0
  PROVE  LET n == Bytes(Clip(Clipped(q)))
         IN  /\ n \in Nat /\ n <= q.length
             /\ q.start * SectorSize + n <= Size * SectorSize
<1> DEFINE inside == IF q.start >= Size THEN 0 ELSE Lower(q.count, Size - q.start)
           a == Clipped(q)
           first == Clip(q)
<1>0. /\ q.start \in Nat /\ q.count \in Nat /\ q.length \in Nat /\ q.length < Word
      /\ Size \in Nat /\ SectorSize \in Nat \ {0} /\ Word \in Nat \ {0}
      /\ q \in [start : Nat, count : Nat, length : Nat]
  BY DiskAssumption
<1>1. first = IF Bytes(inside) > q.length THEN q.length \div SectorSize ELSE inside
  BY DEF Clip
<1>2. a.start = q.start /\ a.count = q.count /\ a.length = Bytes(first)
  BY <1>0 DEF Clipped
<1>3. Clip(a) = IF Bytes(inside) > Bytes(first) THEN Bytes(first) \div SectorSize
                ELSE inside
  BY <1>2 DEF Clip
<1>4. inside \in Nat
  BY <1>0 DEF Lower
<1> HIDE DEF first, a
<1>5. q.start < Size /\ inside <= Size - q.start
  <2>1. CASE q.start >= Size
    <3>1. inside = 0 /\ Bytes(0) = 0
      BY <2>1, BytesOf, <1>0
    <3>2. first = 0
      BY <3>1, <1>0, <1>1
    <3> QED
      BY <3>2 DEF first
  <2>2. CASE ~(q.start >= Size)
    BY <2>2, <1>0 DEF Lower
  <2> QED
    BY <2>1, <2>2
<1> HIDE DEF inside
<1>6. (q.start + inside) * SectorSize <= Size * SectorSize
  <2>1. q.start + inside \in Nat /\ q.start + inside <= Size
    BY <1>0, <1>4, <1>5
  <2> QED
    BY <2>1, <1>0, Products
<1>7. q.start * SectorSize + inside * SectorSize <= Size * SectorSize
  BY <1>6, <1>0, <1>4, Products
<1>8. /\ Bytes(inside) \in Nat /\ Bytes(inside) <= inside * SectorSize
      /\ q.start * SectorSize \in Nat /\ inside * SectorSize \in Nat
      /\ Size * SectorSize \in Nat
  BY <1>0, <1>4, BytesOf, Products
<1>9. /\ Bytes(Clip(a)) \in Nat /\ Bytes(Clip(a)) <= q.length
      /\ Bytes(Clip(a)) <= inside * SectorSize
  <2>1. CASE Bytes(inside) <= q.length
    <3>1. first = inside
      BY <2>1, <1>0, <1>1, <1>8
    <3>2. Clip(a) = inside
      BY <3>1, <1>3, <1>8
    <3> QED
      BY <2>1, <3>2, <1>8
  <2>2. CASE Bytes(inside) > q.length
    <3>1. first = q.length \div SectorSize
      BY <2>2, <1>1
    <3>2. first \in Nat /\ first * SectorSize <= q.length /\ first * SectorSize \in Nat
      BY <3>1, <1>0, Products
    <3>3. Bytes(first) = first * SectorSize
      BY <3>2, <1>0, BytesOf
    <3>4. Bytes(inside) > Bytes(first) /\ Bytes(first) \div SectorSize = first
      BY <2>2, <3>2, <3>3, <1>0, <1>8, Products
    <3>5. Clip(a) = first
      BY <3>4, <1>3
    <3> QED
      BY <2>2, <3>2, <3>3, <3>5, <1>0, <1>8
  <2> QED
    BY <2>1, <2>2, <1>0, <1>8
<1> QED
  BY <1>0, <1>7, <1>8, <1>9 DEF a

LEMMA MovedInit == Init => Moved
BY NoElements DEF Init, Moved, TransferFits

LEMMA MovedNext ==
  ASSUME Queued, Moved, [Next]_vars
  PROVE  Moved'
<1>1. CASE UNCHANGED <<queue, asked, moved>>
  BY <1>1 DEF Moved, TransferFits
<1>2. ASSUME NEW r \in Irp, NEW q \in Extent, Insert(r, q)  PROVE Moved'
  <2>1. ToSet(queue') = ToSet(queue) \cup {r} /\ r \notin ToSet(queue)
    BY <1>2, AppendElements DEF Insert, New, Queued
  <2>2. q.length \in Nat /\ Size \in Nat /\ SectorSize \in Nat \ {0}
    BY DiskAssumption
  <2>3. /\ asked' = [asked EXCEPT ![r] = Clipped(q)] /\ Clip(q) > 0
        /\ moved' = [moved EXCEPT ![r] =
                       [start |-> 0, bytes |-> 0, buffer |-> q.length]]
    BY <1>2 DEF Insert
  <2>4. 0 * SectorSize + 0 <= Size * SectorSize /\ 0 <= q.length
    BY <2>2, Products
  <2>5. TransferFits'
    BY <2>3, <2>4 DEF Moved, TransferFits
  <2>6. ASSUME NEW x \in ToSet(queue')
        PROVE  \E p \in Extent :
                 /\ Clip(p) > 0 /\ asked'[x] = Clipped(p)
                 /\ moved'[x] = [start |-> 0, bytes |-> 0, buffer |-> p.length]
    <3>1. CASE x = r
      BY <2>3, <3>1 DEF Moved
    <3>2. CASE x # r
      BY <2>1, <2>3, <3>2 DEF Moved
    <3> QED
      BY <3>1, <3>2
  <2> QED
    BY <2>3, <2>5, <2>6 DEF Moved
<1>3. CASE Serve
  <2> DEFINE h == Head(queue)
  <2>1. PICK r \in Irp : r = h
    BY <1>3, TakeFirst DEF Serve, Queued
  <2>2. /\ r \in ToSet(queue) /\ r \in accepted
        /\ ToSet(Tail(queue)) = ToSet(queue) \ {r}
    BY <1>3, <2>1, TakeFirst DEF Serve, Queued
  <2>3. PICK q \in Extent :
          /\ Clip(q) > 0 /\ asked[r] = Clipped(q)
          /\ moved[r] = [start |-> 0, bytes |-> 0, buffer |-> q.length]
    BY <2>2 DEF Moved
  <2>4. /\ queue' = Tail(queue) /\ asked' = [asked EXCEPT ![r] = None]
        /\ moved' = [moved EXCEPT ![r].start = asked[r].start,
                                  ![r].bytes = Bytes(Clip(asked[r]))]
    BY <1>3, <2>1, <2>2 DEF Serve
  <2>5. asked[r].start = q.start
    BY <2>3, DiskAssumption DEF Clipped
  <2> DEFINE n == Bytes(Clip(Clipped(q)))
  <2>6. /\ moved'[r].start = q.start /\ moved'[r].bytes = n
        /\ moved'[r].buffer = q.length
        /\ \A x \in Irp \ {r} : moved'[x] = moved[x]
    BY <2>3, <2>4, <2>5 DEF Moved
  <2>7. n <= q.length /\ q.start * SectorSize + n <= Size * SectorSize
    BY <2>3, ClippedTwice
  <2> HIDE DEF n
  <2>8. TransferFits'
    BY <2>6, <2>7 DEF Moved, TransferFits
  <2>9. \A x \in ToSet(queue') :
          x # r /\ x \in ToSet(queue) /\ asked'[x] = asked[x] /\ moved'[x] = moved[x]
    <3>1. ToSet(queue') = ToSet(queue) \ {r} /\ ToSet(queue) \subseteq Irp
      BY <2>2, <2>4, Elements DEF Queued
    <3>2. \A x \in Irp \ {r} : asked'[x] = asked[x]
      BY <2>4 DEF Moved
    <3> QED
      BY <2>6, <3>1, <3>2
  <2>10. DOMAIN asked' = Irp /\ DOMAIN moved' = Irp
    BY <2>4 DEF Moved
  <2>11. ASSUME NEW x \in ToSet(queue')
         PROVE  \E p \in Extent :
                  /\ Clip(p) > 0 /\ asked'[x] = Clipped(p)
                  /\ moved'[x] = [start |-> 0, bytes |-> 0, buffer |-> p.length]
    BY <2>9 DEF Moved
  <2> QED
    BY <2>8, <2>10, <2>11 DEF Moved
<1> QED
  BY <1>1, <1>2, <1>3
  DEF Next, vars, CreatorStep, ThreadStep, CallerStep, CreatePdo, CreateFails,
      StartWaited, OpenStart, OpenWaited, AddToBus, FindStart, Free, FreeFails,
      Freed, SignalItem, Wrapper, Wake, TakeItem, NoItem, OpenFile, OpenFails,
      Opened, SizeFails, FindNames, FindOpen, FindDiffers, FindMatches, FindOver,
      Served, Close, Detach, RemoveDevice, Reinitialize, disk, irps,
      Refuse, Signal

(* What is transferred lies within the disk and fits the buffer.           *)
THEOREM TransfersFit == Spec => []TransferFits
<1>1. Moved => TransferFits
  BY DEF Moved
<1>2. Queued /\ Moved /\ [Next]_vars => Moved'
  BY MovedNext
<1> QED
  BY <1>1, <1>2, MovedInit, AlwaysQueued, PTL DEF Spec

-----------------------------------------------------------------------------
(* The event.                                                              *)
LEMMA WokenInit == Init => Woken
BY DEF Init, Woken

(* The creator takes the event only before it has added an item, and before*)
(* a request can come.                                                     *)
LEMMA WokenNext ==
  ASSUME Handled, Queued, Woken, [Next]_vars
  PROVE  Woken'
<1>1. CASE UNCHANGED <<signal, items, thread, queue, caller, creator>>
  BY <1>1 DEF Woken
<1>2. CASE CreatorStep
  <2>0. /\ creator \in Early => items = <<>>
        /\ life = "none" => creator = "idle"
        /\ creator \in {"idle", "awaiting"} => queue = <<>>
    BY DEF Handled, Placed, Queued
  <2> USE DEF Woken, disk, library, file, search, irps
  <2>1. CASE CreatePdo \/ CreateFails \/ StartWaited
    BY <2>0, <2>1 DEF CreatePdo, CreateFails, StartWaited, Early
  <2>2. CASE OpenStart \/ FindStart
    BY <2>0, <2>2 DEF OpenStart, FindStart, AddItem, Early, Signals
  <2>3. CASE Free
    BY <2>3 DEF Free, AddItem, Signals
  <2>4. CASE OpenWaited \/ AddToBus \/ FreeFails \/ Freed
    BY <2>4 DEF OpenWaited, AddToBus, FreeFails, Freed, Signals
  <2>5. CASE SignalItem
    BY <2>5 DEF SignalItem
  <2> QED
    BY <1>2, <2>1, <2>2, <2>3, <2>4, <2>5 DEF CreatorStep
<1>3. CASE ThreadStep
  <2> USE DEF Woken, disk, library, file, search, irps
  <2>1. CASE Wrapper \/ Wake \/ NoItem
    BY <2>1 DEF Wrapper, Wake, NoItem
  <2>2. CASE TakeItem
    <3>1. Head(items) \in {"open", "find", "stop"}
      BY <2>2, OneItem DEF TakeItem, Handled, Placed
    <3>2. thread' \in {"opening", "finding", "items"}
      BY <2>2, <3>1 DEF TakeItem
    <3> QED
      BY <2>2, <3>2 DEF TakeItem
  <2>3. CASE OpenFile \/ OpenFails \/ Opened \/ SizeFails
    BY <2>3 DEF OpenFile, OpenFails, Opened, SizeFails
  <2>6. CASE FindNames \/ FindOpen \/ FindDiffers \/ FindMatches \/ FindOver
    BY <2>6 DEF FindNames, FindOpen, FindDiffers, FindMatches, FindOver, Take, Retry
  <2>4. CASE Serve \/ Served \/ Close
    BY <2>4 DEF Serve, Served, Close
  <2> QED
    BY <1>3, <2>1, <2>2, <2>3, <2>4, <2>6 DEF ThreadStep
<1>4. ASSUME NEW r \in Irp, NEW q \in Extent, Insert(r, q)  PROVE Woken'
  <2>1. caller'[r] = "inserted"
    BY <1>4 DEF Insert, Queued
  <2> QED
    BY <1>4, <2>1 DEF Insert, Woken, disk, library
<1>5. ASSUME NEW r \in Irp, Signal(r)  PROVE Woken'
  BY <1>5 DEF Signal, Woken, disk
<1>6. ASSUME NEW r \in Irp, Refuse(r)  PROVE Woken'
  <2>1. \A x \in Irp : caller[x] = "inserted" => caller'[x] = "inserted"
    BY <1>6 DEF Refuse, New, Queued
  <2> QED
    BY <1>6, <2>1 DEF Refuse, Woken, disk, library
<1> QED
  BY <1>1, <1>2, <1>3, <1>4, <1>5, <1>6
  DEF Next, vars, CallerStep, Detach, RemoveDevice, Reinitialize, disk, library, irps

(* While the thread waits with work to do, its event is set or about to be.*)
THEOREM NoWakeupLost == Spec => []WakeupKept
<1>1. Woken => WakeupKept
  BY DEF Woken, WakeupKept, Signals
<1>2. Handled /\ Queued /\ Woken /\ [Next]_vars => Woken'
  BY WokenNext
<1> QED
  BY <1>1, <1>2, WokenInit, AlwaysHandled, AlwaysQueued, PTL DEF Spec

-----------------------------------------------------------------------------
(* The refinement: the insertion of a request is its acceptance, a refusal *)
(* and a turn of the thread are completions, and all else stutters.        *)
LEMMA RequestsInit == Init => Requests!Init
BY DEF Init, Requests!Init

LEMMA RequestsNext ==
  ASSUME Queued, [Next]_vars
  PROVE  [Requests!Next]_(Requests!vars)
<1> USE DEF Requests!vars, Requests!Next
<1>1. CASE UNCHANGED <<accepted, completions>>
  BY <1>1
<1>2. ASSUME NEW r \in Irp, NEW q \in Extent, Insert(r, q)
      PROVE  Requests!Accept(r)
  BY <1>2 DEF Insert, New, Queued, Requests!Accept
<1>3. ASSUME NEW r \in Irp, completions[r] = 0, UNCHANGED accepted,
             completions' = [completions EXCEPT ![r] = @ + 1]
      PROVE  Requests!Complete({r})
  <2>1. \A x \in Irp : completions'[x] = IF x = r THEN 1 ELSE completions[x]
    BY <1>3 DEF Queued
  <2>2. completions' = [x \in Irp |-> IF x \in {r} THEN 1 ELSE completions[x]]
    BY <1>3, <2>1 DEF Queued
  <2> QED
    BY <1>3, <2>2 DEF Requests!Complete
<1>4. ASSUME NEW r \in Irp, Refuse(r)  PROVE Requests!Complete({r})
  BY <1>3, <1>4 DEF Refuse, New, Queued
<1>5. CASE Serve
  <2>1. PICK r \in Irp : r = Head(queue)
    BY <1>5, TakeFirst DEF Serve, Queued
  <2>2. r \in ToSet(queue) /\ r \in accepted /\ completions[r] = 0
    BY <1>5, <2>1, TakeFirst DEF Serve, Queued
  <2>3. Requests!Complete({r})
    BY <1>3, <1>5, <2>1, <2>2 DEF Serve
  <2> QED
    BY <2>3
<1>6. CASE \E r \in Irp : Refuse(r) \/ \E q \in Extent : Insert(r, q)
  <2>1. \A r \in Irp : {r} \in SUBSET Irp
    OBVIOUS
  <2> QED
    BY <1>2, <1>4, <1>6, <2>1
<1> QED
  BY <1>1, <1>5, <1>6
  DEF Next, vars, CreatorStep, ThreadStep, CallerStep, CreatePdo, CreateFails,
      StartWaited, OpenStart, OpenWaited, AddToBus, FindStart, Free, FreeFails,
      Freed, SignalItem, Wrapper, Wake, TakeItem, NoItem, OpenFile, OpenFails,
      Opened, SizeFails, FindNames, FindOpen, FindDiffers, FindMatches, FindOver,
      Served, Close, Detach, RemoveDevice, Reinitialize, irps, Signal

(* Each request is accepted and completed at most once.                    *)
THEOREM RequestsServedOnce == Spec => ImplementsIrps
<1>1. Queued /\ [Next]_vars => [Requests!Next]_(Requests!vars)
  BY RequestsNext
<1> QED
  BY <1>1, RequestsInit, AlwaysQueued, PTL DEF Spec, ImplementsIrps, Requests!Spec
=============================================================================
