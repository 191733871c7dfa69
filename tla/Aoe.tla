--------------------------------- MODULE Aoe ---------------------------------
(***************************************************************************)
(* The AoE driver (src/aoe/driver.c): the list of tags, the thread which   *)
(* sends and sends again, the handler of replies, the search for the       *)
(* parameters of a disk, the requests, stopping and unloading; starting    *)
(* the driver and its bus (src/aoe/bus.c).                                 *)
(*                                                                         *)
(* A tag is one packet to be answered: a part of a request, or a question  *)
(* of a search.  Regions under AoeLock_, or under the spin-lock of a disk  *)
(* with at most one region under AoeLock_ inside, are one action.  The     *)
(* events AoeSignal_ and SearchEvent are left out: either wait ends by     *)
(* itself after some milliseconds, so they can only shorten it.  A packet  *)
(* on the wire can be lost, and answered late or more than once.           *)
(***************************************************************************)
EXTENDS Naturals, Integers, FiniteSets, Sequences, SequencesExt, Ladder

CONSTANTS
  Disk,        (* AoE disks                                                *)
  Irp,         (* requests to the disks                                    *)
  DiskOf,      (* the disk of a request                                    *)
  Sectors,     (* sector_count of a request                                *)
  MtuSectors,  (* sectors which fit into a packet                          *)
  MaxPending,  (* 64 in the code                                           *)
  MaxId,       (* bound: identifiers in use at one time                    *)
  None         (* no tag                                                   *)

ASSUME ParametersAssumption ==
  /\ IsFiniteSet(Disk) /\ IsFiniteSet(Irp)
  /\ DiskOf \in [Irp -> Disk] /\ Sectors \in [Irp -> Nat]
  /\ MtuSectors \in Nat \ {0} /\ MaxPending \in Nat /\ MaxId \in Nat \ {0}

VARIABLES
  list,        (* AoeTagListFirst_ ... AoeTagListLast_: tags and their Id  *)
  pending,     (* AoePendingTags_                                          *)
  wire,        (* packets which may still be answered, with their Id       *)
  handling,    (* replies whose tag is out of the list                     *)
  tagCount,    (* TagCount of a request                                    *)
  accepted,    (* requests which were marked pending                       *)
  completions, (* how often a request was completed                        *)
  disk,        (* how far AoeDiskInit_ has got with a disk                 *)
  search,      (* search_state of a disk                                   *)
  maxSectors,  (* MaxSectorsPerPacket of a disk                            *)
  proven,      (* the longest answer a disk has given (history)            *)
  searches,    (* AoeDiskSearchList_                                       *)
  probe,       (* AoeProbeTag_->Id                                         *)
  targets,     (* AoeTargetList_                                           *)
  thread,      (* AoeThread_ runs                                          *)
  stop,        (* AoeStop_, and whether the driver is started and unloaded *)
  has,         (* what the driver holds of Windows and of the protocol     *)
  bus,         (* AoeBusMain.Pdo, and whether the bus was attached to it   *)
  mistaken     (* a search took the tag of another disk for its own        *)
               (* (history)                                                *)

requests == <<tagCount, accepted, completions>>
finding  == <<disk, search, maxSectors, proven, searches>>
probing  == <<probe, targets>>
running  == <<thread, stop, has, bus, mistaken>>
vars == <<list, pending, wire, handling, requests, finding, probing, running>>

Id == 1 .. MaxId

(* The part of a request; or the number of sectors a search asks for: none *)
(* to identify the disk, one for the geometry, more to try a packet size.  *)
Size     == 0
Geometry == 1
IoTag(r, i)     == [type |-> "io", of |-> r, part |-> i]
SearchTag(d, n) == [type |-> "search", of |-> d, part |-> n]

TagDisk(t) == IF t.type = "io" THEN DiskOf[t.of] ELSE t.of
Probe      == [type |-> "probe", of |-> None, part |-> 0]

Listed   == {list[i].tag : i \in DOMAIN list}
Sent     == {list[i].tag : i \in {j \in DOMAIN list : list[j].id # 0}}
ListedIds == {e.id : e \in ToSet(list)}

Init ==
  /\ list = <<>> /\ pending = 0 /\ wire = {} /\ handling = {}
  /\ tagCount = [r \in Irp |-> 0]
  /\ accepted = {} /\ completions = [r \in Irp |-> 0]
  /\ disk = [d \in Disk |-> "none"]
  /\ search = [d \in Disk |-> "SearchNic"]
  /\ maxSectors = [d \in Disk |-> 0] /\ proven = [d \in Disk |-> 0]
  /\ searches = {} /\ probe = 0 /\ targets = {}
  /\ thread = FALSE /\ stop = "new" /\ has = {} /\ bus = "none"
  /\ mistaken = FALSE

-----------------------------------------------------------------------------
(* Starting the driver: DriverEntry                                        *)

(* The labels of AoeCleanup_: each releases what is below it, too.         *)
Release == <<
  [label |-> "All",            gives |-> {"threadRef"}],
  [label |-> "ThreadRef",      gives |-> {"thread"}],
  [label |-> "Thread",         gives |-> {"Fdo", "link"}],
  [label |-> "Bus",            gives |-> {"packet"}],
  [label |-> "ProbeTagPacket", gives |-> {"tag"}],
  [label |-> "ProbeTag",       gives |-> {"protocol"}]>>

From(label) == SelectInSeq(Release, LAMBDA r : r.label = label)

(* Mutant: each label is one line too low. *)
AoeCleanupBelow(h, label) ==
  h \ UNION {Release[i].gives : i \in From(label) + 1 .. Len(Release)}
AoeCleanup(h, label) ==
  h \ UNION {Release[i].gives : i \in From(label) .. Len(Release)}

(* The device of the bus is deleted when it gets no link.  The PDO, which  *)
(* the main bus is given at once, is on no label: nobody remembers it.     *)
AoeBusCreatePdo(h) == Tries(h, {"Pdo"})
AoeBusCreate(h) == Then(AoeBusCreatePdo(h), LAMBDA g : Tries(g, {"Fdo", "link"}))

OrCleanup(outcomes, label) ==
  {IF o.ok THEN o ELSE Fails(AoeCleanup(o.held, label)) : o \in outcomes}

Protocol(h)       == Tries(h, {"protocol"})
ProbeTag(h)       == OrCleanup(Tries(h, {"tag"}), "ProbeTag")
ProbeTagPacket(h) == OrCleanup(Tries(h, {"packet"}), "ProbeTagPacket")
TheBus(h)         == OrCleanup(AoeBusCreate(h), "Bus")
TheThread(h)      == OrCleanup(Tries(h, {"thread"}), "Thread")
ThreadRef(h)      == OrCleanup(Tries(h, {"threadRef"}), "ThreadRef")

Starts ==
  Then(Then(Then(Then(Then(Protocol({}), ProbeTag), ProbeTagPacket), TheBus),
            TheThread), ThreadRef)

NoDisks ==
  UNCHANGED <<list, pending, wire, handling, requests, finding, probing, mistaken>>

(* A thread without a reference is told to stop, but not waited for: what  *)
(* it does after the driver is gone is not modelled.                       *)
DriverEntry ==
  /\ stop = "new"
  /\ \E o \in Starts :
       /\ has' = IF o.ok THEN o.held \cup {"aBFT"} ELSE o.held
       /\ stop' = IF o.ok THEN "no" ELSE "unloaded"
       /\ thread' = o.ok
  /\ UNCHANGED bus /\ NoDisks

(* The disk of the boot firmware table, if there is one, is searched here. *)
DriverEntryReturns ==
  /\ "aBFT" \in has /\ \A d \in Disk : disk[d] # "searching"
  /\ has' = has \ {"aBFT"}
  /\ UNCHANGED <<thread, stop, bus>> /\ NoDisks

(* Windows attaches the bus to the PDO which the main bus has reported.    *)
(* One which could not be attached keeps its PDO, and refuses any other.   *)
AoeBusAttachFdo ==
  /\ {"Pdo", "Fdo"} \subseteq has /\ "aBFT" \notin has /\ stop = "no"
  /\ bus = "none"
  /\ \/ bus' = "attached" /\ has' = has \cup {"LowerDeviceObject"}
     \/ bus' = "failed" /\ UNCHANGED has
  /\ UNCHANGED <<thread, stop>> /\ NoDisks

-----------------------------------------------------------------------------
(* Searching a disk: AoeDiskInit_                                          *)

Create(d) ==
  /\ disk[d] = "none"
  /\ disk' = [disk EXCEPT ![d] = "searching"]
  /\ search' = [search EXCEPT ![d] = "SearchNic"]
  /\ maxSectors' = [maxSectors EXCEPT ![d] = 1]
  /\ searches' = searches \cup {d}
  /\ UNCHANGED <<list, pending, wire, handling, requests, proven, probing,
                 running>>

(* A disk is mounted by the boot firmware table, or by a request.          *)
BootMount(d) ==
  /\ "aBFT" \in has /\ \A e \in Disk : disk[e] = "none"
  /\ Create(d)

Mount(d) == "Fdo" \in has /\ Create(d)

(* The adapter is found, but there is no memory for the tag yet.           *)
SearchNic(d) ==
  /\ disk[d] = "searching" /\ stop = "no" /\ search[d] = "SearchNic"
  /\ search' = [search EXCEPT ![d] = "GetSize"]
  /\ UNCHANGED <<list, pending, wire, handling, requests, disk, maxSectors,
                 proven, searches, probing, running>>

Ask(d, n, next) ==
  /\ search' = [search EXCEPT ![d] = next]
  /\ list' = Append(list, [tag |-> SearchTag(d, n), id |-> 0])
  /\ UNCHANGED <<pending, wire, handling, requests, disk, proven, searches,
                 probing, running>>

SearchAsk(d) ==
  /\ disk[d] = "searching" /\ stop = "no"
  /\ \/ /\ search[d] \in {"SearchNic", "GetSize"}
        /\ Ask(d, Size, "GettingSize") /\ UNCHANGED maxSectors
     \/ /\ search[d] = "GetGeometry"
        /\ Ask(d, Geometry, "GettingGeometry") /\ UNCHANGED maxSectors
     \/ /\ search[d] = "GetMaxSects"
        /\ maxSectors' = [maxSectors EXCEPT ![d] = @ + 1]
        /\ Ask(d, maxSectors[d] + 1, "GettingMaxSects")

(* The search looks for its tag by its address.  That of a tag which was   *)
(* answered was freed: by now any tag of another disk can be there.        *)
Own(d, t)    == t.type = "search" /\ t.of = d
Freed(d)     == \A t \in Listed \cup {h.tag : h \in handling} : ~Own(d, t)
Reused(d)    == {i \in DOMAIN list : Freed(d) /\ TagDisk(list[i].tag) # d}
AtAddress(d) == {i \in DOMAIN list : Own(d, list[i].tag)} \cup Reused(d)

(* No answer in 250 ms: the size which was tried is too large.             *)
(* Mutant: the size is kept. *)
SizeAfterTimeoutKept(d) == maxSectors[d]
SizeAfterTimeout(d) ==
  IF search[d] = "GettingMaxSects" THEN maxSectors[d] - 1 ELSE maxSectors[d]

SearchFinish(d) ==
  /\ disk[d] = "searching" /\ stop = "no"
  /\ search[d] \in {"GettingMaxSects", "Done"}
  /\ maxSectors' = [maxSectors EXCEPT ![d] = SizeAfterTimeout(d)]
  /\ search' = [search EXCEPT ![d] = "Done"]
  /\ \/ /\ \A t \in Listed : ~Own(d, t)
        /\ UNCHANGED <<list, pending, mistaken>>
     \/ \E i \in AtAddress(d) :
          /\ list' = RemoveAt(list, i) /\ pending' = pending - 1
          /\ mistaken' = (mistaken \/ i \in Reused(d))
  /\ searches' = searches \ {d}
  /\ disk' = [disk EXCEPT ![d] = "ready"]
  /\ UNCHANGED <<wire, handling, requests, proven, probing, thread, stop, has, bus>>

(* The search ends, its entry and its tag stay.                            *)
SearchStopped(d) ==
  /\ disk[d] = "searching" /\ stop # "no"
  /\ disk' = [disk EXCEPT ![d] = "deleted"]
  /\ UNCHANGED <<list, pending, wire, handling, requests, search, maxSectors,
                 proven, searches, probing, running>>

-----------------------------------------------------------------------------
(* Requests: AoeDiskIo_                                                    *)

(* One tag for every MaxSectorsPerPacket sectors.                          *)
Parts(r) ==
  (Sectors[r] + maxSectors[DiskOf[r]] - 1) \div maxSectors[DiskOf[r]]

(* Windows has been told of the disk by a bus which it attached.           *)
New(r) ==
  /\ r \notin accepted /\ completions[r] = 0
  /\ disk[DiskOf[r]] = "ready" /\ bus = "attached"

Complete(r) == completions' = [completions EXCEPT ![r] = @ + 1]

(* The driver stops, the request is empty, or there is no memory for one   *)
(* of its tags: those which were built are freed.                          *)
DiskIoRefuse(r) ==
  /\ New(r) /\ stop \notin {"closing", "unloaded"}
  /\ Complete(r)
  /\ UNCHANGED <<list, pending, wire, handling, tagCount, accepted, finding,
                 probing, running>>

DiskIo(r) ==
  /\ New(r) /\ stop = "no" /\ Sectors[r] >= 1
  /\ tagCount' = [tagCount EXCEPT ![r] = Parts(r)]
  /\ list' = list \o [i \in 1 .. Parts(r) |-> [tag |-> IoTag(r, i), id |-> 0]]
  /\ accepted' = accepted \cup {r}
  /\ UNCHANGED <<pending, wire, handling, completions, finding, probing, running>>

-----------------------------------------------------------------------------
(* The thread: AoeThread_                                                  *)

(* NextTagId gives an identifier which is on no list and on no packet: 32  *)
(* bits are enough for a counter not to come back to one which is in use.  *)
Used == {p.id : p \in wire} \cup ListedIds \cup {probe}
Fresh(i, used) == i \in Id \ used /\ \A j \in Id \ used : i <= j

Packet(i, t) == [id |-> i, tag |-> t]

(* Whether the walk over the list sends the packet of a tag when it gets   *)
(* there: the tag was sent before and is due, or there is still a place    *)
(* for it, after those of the walk so far.                                 *)
Unsent    == {i \in DOMAIN list : list[i].id = 0}
Places(i) == pending + Cardinality({j \in Unsent : j < i})

Wants(due, i) ==
  \/ i \in Unsent /\ Places(i) <= MaxPending
  \/ i \notin Unsent /\ list[i].tag \in due

(* "due" are the tags whose time is over, "refused" the tag whose packet   *)
(* the adapter does not take, which ends the walk.                         *)
Walk(due, refused) ==
  {i \in DOMAIN list :
     Wants(due, i) /\ ~ \E j \in 1 .. i : Wants(due, j) /\ list[j].tag = refused}

(* Bound: there are identifiers for the tags which the walk sends.         *)
ThreadWalk(due, refused) ==
  /\ thread /\ stop # "unloaded" /\ list # <<>>
  /\ LET sends == Walk(due, refused)
         new   == sends \cap Unsent
     IN \E id \in [sends -> Id] :
          /\ \A i \in sends \ new : id[i] = list[i].id
          /\ \A i \in new : Fresh(id[i], Used \cup {id[j] : j \in {k \in new : k < i}})
          /\ list' = [i \in DOMAIN list |->
                       IF i \in new THEN [list[i] EXCEPT !.id = id[i]] ELSE list[i]]
          /\ wire' = wire \cup {Packet(id[i], list[i].tag) : i \in sends}
          /\ pending' = pending + Cardinality(new)
  /\ UNCHANGED <<handling, requests, finding, probing, running>>

(* Every ten seconds, or when a binding has been added.  Bound: no packet *)
(* of an earlier probe is on its way.                                      *)
ThreadProbe ==
  /\ thread /\ \A p \in wire : p.tag # Probe
  /\ \E i \in Id :
       Fresh(i, Used) /\ probe' = i /\ wire' = wire \cup {Packet(i, Probe)}
  /\ UNCHANGED <<list, pending, handling, requests, finding, targets, running>>

ThreadStop ==
  /\ thread /\ stop # "no"
  /\ thread' = FALSE
  /\ UNCHANGED <<stop, has, bus>> /\ NoDisks

-----------------------------------------------------------------------------
(* Replies: aoe__reply                                                     *)

(* The network: a packet is lost, or consumed by its reply, or answered    *)
(* once more later.                                                        *)
Lose(p) ==
  /\ p \in wire
  /\ wire' = wire \ {p}
  /\ UNCHANGED <<list, pending, handling, requests, finding, probing, running>>

AfterReply(p) == wire' \in {wire, wire \ {p}}

(* While the protocol is stopped, the tag of the probe is freed already:   *)
(* its identifier, which each reply is compared with, is any value.        *)
IsProbe(p) == "tag" \in has => p.tag = Probe /\ p.id = probe
IsOther(p) == "tag" \in has => p.id # probe

ReplyProbe(p, d) ==
  /\ p \in wire /\ stop # "unloaded" /\ IsProbe(p)
  /\ AfterReply(p)
  /\ targets' = targets \cup {d}
  /\ UNCHANGED <<list, pending, handling, requests, finding, probe, running>>

(* Mutant: the identifiers are not compared. *)
MatchesDisk(p, e) == e.id # 0 /\ p.tag # Probe /\ TagDisk(e.tag) = TagDisk(p.tag)
Matches(p, e) ==
  p.id = e.id /\ p.tag # Probe /\ TagDisk(e.tag) = TagDisk(p.tag)

Matching(p) == {i \in DOMAIN list : Matches(p, list[i])}

(* Mutant: the place of the tag among the sent ones stays taken. *)
PendingKept == pending
PendingAfter == pending - 1

(* The tag is found and taken out of the list.                             *)
ReplyTake(p) ==
  /\ p \in wire /\ stop # "unloaded" /\ IsOther(p)
  /\ \E i \in Matching(p) :
       /\ \A j \in Matching(p) : i <= j
       /\ list' = RemoveAt(list, i)
       /\ handling' = handling \cup {[tag |-> list[i].tag, answer |-> p.tag]}
  /\ pending' = PendingAfter
  /\ AfterReply(p)
  /\ UNCHANGED <<requests, finding, probing, running>>

(* The rest for a part of a request: the last reply completes it.          *)
(* Mutant: the first reply completes the request. *)
LastPartAny(r) == TRUE
(* Mutant: the count is looked at before it is decremented. *)
LastPartBefore(r) == tagCount[r] = 0
LastPart(r) == tagCount[r] = 1

ReplyIo(h) ==
  /\ h \in handling /\ h.tag.type = "io"
  /\ handling' = handling \ {h}
  /\ tagCount' = [tagCount EXCEPT ![h.tag.of] = @ - 1]
  /\ IF LastPart(h.tag.of) THEN Complete(h.tag.of) ELSE UNCHANGED completions
  /\ UNCHANGED <<list, pending, wire, accepted, finding, probing, running>>

(* The rest for a search, under the lock of the disk: the answer may be    *)
(* shorter than what was asked for.                                        *)
Learn(d, n) == proven' = [proven EXCEPT ![d] = IF n > @ THEN n ELSE @]

Learned(d, n) ==
  CASE search[d] = "GettingSize" ->
         search' = [search EXCEPT ![d] = "GetGeometry"]
         /\ UNCHANGED <<maxSectors, proven>>
    [] search[d] = "GettingGeometry" ->
         search' = [search EXCEPT ![d] = "GetMaxSects"]
         /\ Learn(d, n) /\ UNCHANGED maxSectors
    [] search[d] = "GettingMaxSects" ->
         \/ /\ search' = [search EXCEPT ![d] = "Done"]
            /\ maxSectors' = [maxSectors EXCEPT ![d] = @ - 1]
            /\ UNCHANGED proven
         \/ /\ search' = [search EXCEPT
                 ![d] = IF MtuSectors < maxSectors[d] + 1 THEN "Done"
                                                          ELSE "GetMaxSects"]
            /\ Learn(d, n) /\ UNCHANGED maxSectors
    [] OTHER -> UNCHANGED <<search, maxSectors, proven>>

ReplySearch(h) ==
  /\ h \in handling /\ h.tag.type = "search"
  /\ handling' = handling \ {h}
  /\ Learned(h.tag.of, h.answer.part)
  /\ UNCHANGED <<list, pending, wire, requests, disk, searches, probing, running>>

-----------------------------------------------------------------------------
(* Stopping and unloading                                                  *)

(* The bus is removed: its lower device is detached, and AoeStop waits for *)
(* the thread before the device of the bus is deleted.                     *)
Stop ==
  /\ stop = "no" /\ "LowerDeviceObject" \in has
  /\ stop' = "removing"
  /\ has' = has \ {"LowerDeviceObject"}
  /\ UNCHANGED <<thread, bus>> /\ NoDisks

Removed ==
  /\ stop = "removing" /\ ~thread
  /\ stop' = "stopping"
  /\ has' = has \ {"Fdo", "thread", "threadRef"}
  /\ UNCHANGED <<thread, bus>> /\ NoDisks

(* The driver is unloaded while its bus is not attached.                   *)
CleanupAll ==
  /\ stop = "no" /\ {"aBFT", "LowerDeviceObject"} \cap has = {}
  /\ stop' = "stopping"
  /\ UNCHANGED <<thread, has, bus>> /\ NoDisks

(* AoeUnload_: Windows unloads a driver which nobody is inside.  All but   *)
(* the protocol is released first, and replies still come in.              *)
Unload ==
  /\ stop = "stopping" /\ ~thread
  /\ \A d \in Disk : disk[d] # "searching"
  /\ stop' = "closing"
  /\ has' = AoeCleanup(has, "All") \cup {"protocol"}
  /\ UNCHANGED <<thread, bus>> /\ NoDisks

OfIrp(r) == {t \in Listed : t.type = "io" /\ t.of = r}

(* Those whose count goes to zero when their listed tags are cancelled.    *)
(* Mutant: a request which got one of its answers is forgotten. *)
CancelledWhole ==
  {r \in Irp : Cardinality(OfIrp(r)) = Sectors[r] /\ Sectors[r] > 0}
Cancelled == {r \in Irp : tagCount[r] > 0 /\ tagCount[r] = Cardinality(OfIrp(r))}

(* Protocol_Stop returns when no handler of a reply runs (assumed here:    *)
(* see Protocol), and what is left in the lists is freed.                  *)
ProtocolStopped ==
  /\ stop = "closing" /\ handling = {}
  /\ stop' = "unloaded"
  /\ list' = <<>> /\ wire' = {} /\ targets' = {} /\ probe' = 0 /\ searches' = {}
  /\ tagCount' = [r \in Irp |-> IF r \in Cancelled THEN 0 ELSE tagCount[r]]
  /\ completions' = [r \in Irp |-> IF r \in Cancelled THEN completions[r] + 1
                                                      ELSE completions[r]]
  /\ has' = AoeCleanup(has, "ProbeTag")
  /\ UNCHANGED <<pending, handling, accepted, disk, search, maxSectors, proven,
                 thread, bus, mistaken>>

-----------------------------------------------------------------------------
WalkSome == \E due \in SUBSET Sent : \E refused \in Listed \cup {None} :
              ThreadWalk(due, refused)
Handler  == \E h \in handling : ReplyIo(h) \/ ReplySearch(h)
Network  == \E p \in wire : Lose(p) \/ ReplyTake(p) \/ \E d \in Disk : ReplyProbe(p, d)
Search(d) == SearchNic(d) \/ SearchAsk(d) \/ SearchFinish(d) \/ SearchStopped(d)

Next ==
  \/ DriverEntry \/ DriverEntryReturns \/ AoeBusAttachFdo
  \/ \E d \in Disk : BootMount(d) \/ Mount(d) \/ Search(d)
  \/ \E r \in Irp : DiskIoRefuse(r) \/ DiskIo(r)
  \/ WalkSome \/ ThreadProbe \/ ThreadStop
  \/ Network \/ Handler
  \/ Stop \/ Removed \/ CleanupAll \/ Unload \/ ProtocolStopped

Spec == Init /\ [][Next]_vars

(* Fairness: the threads run; the adapter takes packets again and again,   *)
(* and the server answers a tag which is sent again and again; a packet    *)
(* nobody waits for vanishes.  Nobody is obliged to mount, stop or unload. *)
Tags ==
  UNION {{IoTag(r, i) : i \in 1 .. Sectors[r]} : r \in Irp} \cup
  UNION {{SearchTag(d, n) : n \in 0 .. MtuSectors} : d \in Disk}

Answer(t) == \E p \in wire : p.tag = t /\ Matching(p) # {} /\ ReplyTake(p)

Fairness ==
  /\ SF_vars(ThreadWalk(Sent, None)) /\ WF_vars(ThreadStop) /\ WF_vars(Handler)
  /\ \A d \in Disk : WF_vars(SearchAsk(d) \/ SearchFinish(d) \/ SearchStopped(d))
  /\ \A t \in Tags : SF_vars(Answer(t))
  /\ WF_vars(\E p \in wire : p.tag \notin Listed \cup {Probe} /\ Lose(p))

FairSpec == Spec /\ Fairness

-----------------------------------------------------------------------------
(* The count in a request is the number of its parts which are not         *)
(* answered: in the list or with a handler.  (AoeDiskIo_, aoe__reply and   *)
(* AoeUnload_ change it under different locks; a search which mistakes a   *)
(* part for its own tag leaves it too high.)                               *)
TagCountAccurate ==
  \A r \in Irp :
    tagCount[r] = Cardinality(OfIrp(r)) +
                  Cardinality({h \in handling : h.tag.type = "io" /\ h.tag.of = r})

(* No place among the pending tags is lost: what AoeThread_ counts is      *)
(* never more than the tags which are sent and listed, so sending goes on. *)
NoPlaceLost == stop # "unloaded" => pending <= Cardinality(Sent)

(* "AoePendingTags_ < 0!!" is never printed.                               *)
PendingNotNegative == pending >= 0

(* Late and repeated replies are not taken for the answer to another       *)
(* packet: no part of a buffer and no parameter comes from a wrong reply.  *)
OwnAnswer == \A h \in handling : h.answer = h.tag

(* A disk is used with a packet size which it has answered, and with the   *)
(* largest one, whatever was lost, late or short while it was searched.    *)
ProvenSize == \A d \in Disk : disk[d] = "ready" => maxSectors[d] = proven[d]

(* A driver which is unloaded, or which could not start, has given back    *)
(* everything it took but the PDO which it gave to the main bus, wherever  *)
(* the starting failed and whether its bus was removed before.             *)
(* (AoeCleanup_ falls from label to label.)                                *)
NothingHeld == stop = "unloaded" => has \subseteq {"Pdo"}

(* Each request is accepted and completed at most once.                    *)
Requests == INSTANCE Irps
ImplementsIrps == Requests!Spec

(* An accepted request is completed, unless the driver is stopped: then    *)
(* the unloading completes it.                                             *)
EveryIrpCompletes ==
  \A r \in Irp : r \in accepted ~> completions[r] > 0 \/ stop # "no"

(* A search whose adapter is found ends.                                   *)
SearchEnds == \A d \in Disk : search[d] = "GettingSize" ~> disk[d] # "searching"
=============================================================================
