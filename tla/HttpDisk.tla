------------------------------ MODULE HttpDisk ------------------------------
(***************************************************************************)
(* HTTP disks (src/httpdisk/): the driver and its bus; creating,           *)
(* connecting, listing and deleting a disk; the queue of its requests, its *)
(* thread, and the block which the thread fetches over a connection that   *)
(* is kept for the next block; the sockets, built on the TDI.              *)
(*                                                                         *)
(* A connection is modelled by what it holds (memory, handles, objects)    *)
(* and by the answers which the server has sent and the disk has not read: *)
(* a header, and the parts of the data.  Every call can fail, and the      *)
(* server can close the connection, refuse, or answer with less or more    *)
(* than it was asked for, or not at all.  Bytes beyond what was asked for  *)
(* are taken not to look like a header.                                    *)
(***************************************************************************)
EXTENDS Naturals, FiniteSets, Sequences, SequencesExt, Ladder

CONSTANTS
  Unit,        (* disks                                                    *)
  Irp,         (* requests to the disks                                    *)
  UnitOf,      (* the disk of a request                                    *)
  Kind,        (* what it may be: "read", "write", "scsi" or "control"     *)
  Parts,       (* the parts the data of a request arrives in               *)
  Conn,        (* names for connections                                    *)
  Wide,        (* built for amd64, where a pointer is wider than an int    *)
  None         (* no connection, no request                                *)

ASSUME HttpAssumption ==
  /\ UnitOf \in [Irp -> Unit] /\ Kind \in [Irp -> SUBSET {"read", "write", "scsi", "control"}]
  /\ Parts \in Nat \ {0} /\ Wide \in BOOLEAN
  /\ IsFiniteSet(Conn) /\ None \notin Conn \cup Irp

VARIABLES
  bus,         (* what the driver has of its bus                           *)
  life,        (* of the device object                                     *)
  media,       (* media_in_device                                          *)
  names,       (* host_name and file_name are allocated                    *)
  terminate,   (* terminate_thread                                         *)
  event,       (* request_event, which one wait resets                     *)
  queue,       (* list_head                                                *)
  thread,      (* HttpDiskThread                                           *)
  caller,      (* where the dispatcher of a request is                     *)
  accepted,    (* requests which were marked pending                       *)
  completions, (* how often a request was completed                        *)
  given,       (* what a request which has read was completed with         *)
  socket,      (* the connection of a disk                                 *)
  held,        (* what a connection holds                                  *)
  stream,      (* what the server has sent on a connection                 *)
  block        (* the block which is being fetched                         *)

device   == <<bus, life, media, names, terminate>>
answered == <<completions, given>>
irps     == <<caller, accepted, answered>>
sockets  == <<socket, held, stream>>
vars == <<device, event, queue, thread, irps, sockets, block>>

Idle == [irp |-> None, major |-> "none", at |-> "none", tries |-> 0, again |-> "no",
         got |-> <<>>]

(* The data in its buffer, and the length which it was told.               *)
Nothing == [major |-> "none", data |-> <<>>, told |-> 0]

Header(r) == <<r, 0>>
Other(r)  == <<r, Parts + 1>>
Data(r)   == [i \in 1 .. Parts |-> <<r, i>>]

Init ==
  /\ bus = {}
  /\ life = [u \in Unit |-> "none"] /\ media = [u \in Unit |-> FALSE]
  /\ names = [u \in Unit |-> FALSE] /\ terminate = [u \in Unit |-> FALSE]
  /\ event = [u \in Unit |-> FALSE] /\ queue = [u \in Unit |-> <<>>]
  /\ thread = [u \in Unit |-> "none"]
  /\ caller = [r \in Irp |-> "out"]
  /\ accepted = {} /\ completions = [r \in Irp |-> 0]
  /\ given = [r \in Irp |-> Nothing]
  /\ socket = [u \in Unit |-> None] /\ held = [c \in Conn |-> {}]
  /\ stream = [c \in Conn |-> <<>>]
  /\ block = [u \in Unit |-> Idle]

-----------------------------------------------------------------------------
(* The TDI                                                                 *)

(* A file of the transport is opened, and its object is referenced or the  *)
(* handle is closed.                                                       *)
Opens(h, handle, object) ==
  {Fails(h), Fails((h \cup {handle}) \ {handle}), Done(h \cup {handle, object})}

tdi_open_transport_address(h) == Opens(h, "addressHandle", "addressFileObject")

tdi_open_connection_endpoint(h) ==
  Opens(h, "connectionHandle", "connectionFileObject")

tdi_associate_address(h) == Tries(h, {"association"})
tdi_connect(h) == Tries(h, {"isConnected"})

(* Whether these two succeed is not looked at; the file is closed next.    *)
tdi_disassociate_address(h) == h \ {"association"}
tdi_disconnect(h) == h \ {"isConnected"}

tdi_send_stream(h) == Tries(h, {})
tdi_recv_stream(h) == Tries(h, {})

-----------------------------------------------------------------------------
(* Sockets                                                                 *)

Address == {"addressHandle", "addressFileObject"}
Endpoint == {"connectionHandle", "connectionFileObject", "association", "isConnected"}

(* The handle is the address of the socket, negated, as an int.  On x86 it *)
(* is positive, as the addresses of the kernel are negative.  On amd64 the *)
(* address is cut off, and when the handle is negative it is taken for an  *)
(* error; when it is positive the address is not that of the socket, which *)
(* leads to no defined behaviour.                                          *)
Socket == IF Wide THEN {Fails({}), Fails({"socket"})} ELSE Tries({}, {"socket"})

(* That the handler of disconnections could not be set is ignored.         *)
bind(h) == tdi_open_transport_address(h)

StreamSocket(h) == Tries(h, {"streamSocket"})

CloseEndpoint(h) ==
  tdi_disassociate_address(h) \ {"connectionFileObject", "connectionHandle"}

(* What the endpoint has is given back when a later call fails.            *)
OrUndone(outcomes) ==
  {IF o.ok THEN o ELSE Fails(CloseEndpoint(o.held)) : o \in outcomes}

Associated(h) == OrUndone(tdi_associate_address(h))
Connected(h) == OrUndone(tdi_connect(h))

connect(h) ==
  Then(Then(Then(Then(bind(h), StreamSocket), tdi_open_connection_endpoint),
       Associated), Connected)

(* The stream is only looked at when the socket was bound.                 *)
close(h) ==
  IF "addressFileObject" \in h
  THEN CloseEndpoint(tdi_disconnect(h)) \ (Address \cup {"streamSocket", "socket"})
  ELSE h \ {"socket"}

Closed(o) == [o EXCEPT !.held = close(@)]

(* A socket which could not be connected is closed.                        *)
ConnectOrClose(h) == {IF o.ok THEN o ELSE Closed(o) : o \in connect(h)}

(* Of those which hold nothing.                                            *)
Unused == {c \in Conn : held[c] = {}}

-----------------------------------------------------------------------------
(* The driver and its bus                                                  *)

FdoCreated == Tries({}, {"Fdo", "object"})

(* When there is no link, the pointer to the deleted object remains.       *)
Linked(h) == {Fails(h \ {"object"}), Done(h \cup {"link"})}

HttpdiskBusCreateFdo == Then(FdoCreated, Linked)

(* A dummy device of the main bus, which is never removed.                 *)
HttpdiskBusCreatePdo(h) == Tries(h, {"dummy"})

HttpdiskBusEstablish == Then(HttpdiskBusCreateFdo, HttpdiskBusCreatePdo)

HttpdiskBusDeleteFdo(h) ==
  IF "Fdo" \in h THEN h \ {"Fdo", "object", "link"} ELSE h

OtherThanBus == UNCHANGED <<life, media, names, terminate, event, queue, thread,
                            irps, sockets, block>>

(* When the bus is not established the driver cleans up as it does when it *)
(* is unloaded.                                                            *)
DriverEntry ==
  /\ bus = {}
  /\ \E o \in HttpdiskBusEstablish :
       bus' = IF o.ok THEN o.held \cup {"loaded"}
                      ELSE HttpdiskBusDeleteFdo(o.held) \cup {"unloaded"}
  /\ OtherThanBus

(* Once refused, the bus is never attached: the PDO is remembered.         *)
HttpdiskBusAttach ==
  /\ {"loaded", "Fdo"} \subseteq bus /\ "Pdo" \notin bus
  /\ \E attached \in {{}, {"LowerDeviceObject"}} : bus' = bus \cup {"Pdo"} \cup attached
  /\ OtherThanBus

(* Each request to the bus is over.                                        *)
NoRequest == \A u \in Unit : life[u] \in {"none", "listed", "deleted"}

(* Its removal: the library has detached it and let go of its disks.       *)
HttpdiskBusIrp ==
  /\ "LowerDeviceObject" \in bus /\ NoRequest
  /\ bus' = HttpdiskBusDeleteFdo(bus) \ {"LowerDeviceObject"}
  /\ OtherThanBus

(* The bus goes first, and the disks one after another.                    *)
HttpDiskUnload ==
  /\ "loaded" \in bus /\ NoRequest
  /\ bus' = (HttpdiskBusDeleteFdo(bus) \ {"loaded"}) \cup {"unloaded"}
  /\ OtherThanBus

-----------------------------------------------------------------------------
(* The life of a disk                                                      *)

(* When there is no memory for the device, or its thread cannot start, all *)
(* is as before.                                                           *)
Create(u) ==
  /\ life[u] = "none" /\ {"loaded", "Fdo"} \subseteq bus
  /\ life' = [life EXCEPT ![u] = "created"]
  /\ thread' = [thread EXCEPT ![u] = "waiting"]
  /\ UNCHANGED <<bus, media, names, terminate, event, queue, irps, sockets, block>>

(* There is no reference to the thread: it is told to end, and the device  *)
(* is deleted at once.  The thread uses it still, which leads to no defined*)
(* behaviour, and is not followed.                                         *)
CreateFails(u) ==
  /\ life[u] = "none" /\ {"loaded", "Fdo"} \subseteq bus
  /\ life' = [life EXCEPT ![u] = "deleted"]
  /\ thread' = [thread EXCEPT ![u] = "waiting"]
  /\ terminate' = [terminate EXCEPT ![u] = TRUE]
  /\ event' = [event EXCEPT ![u] = TRUE]
  /\ UNCHANGED <<bus, media, names, queue, irps, sockets, block>>

(* The server is asked for the size, over a connection of its own which is *)
(* closed at the end, and whenever something fails.                        *)
AskSize(h) ==
  LET Size(g) == Tries(g, {}) IN
  {Closed(o) : o \in
     Then(Then(Then(connect(h), tdi_send_stream), tdi_recv_stream), Size)}

HttpDiskGetHeader == Then(Socket, AskSize)

(* It is asked a second time when the first has failed; the names are      *)
(* given back when both have.                                              *)
Connect(u) ==
  /\ life[u] = "created" /\ ~media[u]
  /\ \E c \in Unused :
     \E o \in HttpDiskGetHeader :
       /\ held' = [held EXCEPT ![c] = o.held]
       /\ names' = [names EXCEPT ![u] = o.ok]
       /\ media' = [media EXCEPT ![u] = o.ok]
       /\ life' = [life EXCEPT ![u] = IF o.ok THEN @ ELSE "unconnected"]
  /\ UNCHANGED <<bus, terminate, event, queue, thread, irps, socket, stream, block>>

AddToBus(u) ==
  /\ life[u] = "created" /\ media[u]
  /\ life' = [life EXCEPT ![u] = "listed"]
  /\ UNCHANGED <<bus, media, names, terminate, event, queue, thread, irps,
                 sockets, block>>

(* Mutant: the connection is forgotten and not closed.                     *)
CloseForgets(u) ==
  /\ socket' = [socket EXCEPT ![u] = None]
  /\ UNCHANGED <<held, stream>>

Close(u) ==
  /\ held' = [c \in Conn |-> IF c = socket[u] THEN close(held[c]) ELSE held[c]]
  /\ stream' = [c \in Conn |-> IF c = socket[u] THEN <<>> ELSE stream[c]]
  /\ socket' = [socket EXCEPT ![u] = None]

(* The names are freed, and the connection is closed.                      *)
Disconnect(u) ==
  /\ media' = [media EXCEPT ![u] = FALSE]
  /\ names' = [names EXCEPT ![u] = FALSE]
  /\ Close(u)

(* By a request to the bus, by unloading, or since it was not connected or *)
(* could not be added to the bus.                                          *)
Delete(u) ==
  /\ \/ life[u] = "unconnected" \/ (life[u] = "created" /\ media[u])
     \/ life[u] = "listed" /\ ("Fdo" \in bus \/ "unloaded" \in bus)
  /\ life' = [life EXCEPT ![u] = "deleting"]
  /\ terminate' = [terminate EXCEPT ![u] = TRUE]
  /\ event' = [event EXCEPT ![u] = TRUE]
  /\ UNCHANGED <<bus, media, names, queue, thread, irps, sockets, block>>

Deleted(u) ==
  /\ life[u] = "deleting" /\ thread[u] = "ended"
  /\ life' = [life EXCEPT ![u] = "deleted"]
  /\ UNCHANGED <<bus, media, names, terminate, event, queue, thread, irps,
                 sockets, block>>

-----------------------------------------------------------------------------
(* Dispatching a request                                                   *)

Finish(r) == completions' = [completions EXCEPT ![r] = @ + 1]

(* Windows has a reference to the disk, which may be about to go.          *)
Enter(r) ==
  /\ caller[r] = "out" /\ life[UnitOf[r]] \in {"listed", "deleting"}
  /\ Kind[r] # {"control"} /\ media[UnitOf[r]]
  /\ caller' = [caller EXCEPT ![r] = "checked"]
  /\ UNCHANGED <<device, event, queue, thread, accepted, answered,
                 sockets, block>>

(* No medium, or nothing to read.                                          *)
Refuse(r) ==
  /\ caller[r] = "out" /\ life[UnitOf[r]] \in {"listed", "deleting"}
  /\ \/ ~media[UnitOf[r]] /\ Kind[r] # {"control"}
     \/ Kind[r] \cap {"read", "write"} # {}
  /\ caller' = [caller EXCEPT ![r] = "done"]
  /\ Finish(r)
  /\ UNCHANGED <<device, event, queue, thread, accepted, given, sockets, block>>

(* Answered at once, with a status which is the code's and the buffer's.   *)
Control(r) ==
  /\ caller[r] = "out" /\ life[UnitOf[r]] \in {"listed", "deleting"}
  /\ "control" \in Kind[r]
  /\ caller' = [caller EXCEPT ![r] = "done"]
  /\ Finish(r)
  /\ UNCHANGED <<device, event, queue, thread, accepted, given, sockets, block>>

Insert(r) ==
  /\ caller[r] = "checked"
  /\ caller' = [caller EXCEPT ![r] = "inserted"]
  /\ accepted' = accepted \cup {r}
  /\ queue' = [queue EXCEPT ![UnitOf[r]] = Append(@, r)]
  /\ UNCHANGED <<device, event, thread, answered, sockets, block>>

(* Mutant: the event is only set for the first request in the queue.       *)
SignalFirst(r) ==
  /\ caller[r] = "inserted"
  /\ caller' = [caller EXCEPT ![r] = "done"]
  /\ event' = [event EXCEPT ![UnitOf[r]] =
                 @ \/ (queue[UnitOf[r]] # <<>> /\ Head(queue[UnitOf[r]]) = r
                         /\ thread[UnitOf[r]] = "draining")]
  /\ UNCHANGED <<device, queue, thread, accepted, answered, sockets, block>>

Signal(r) ==
  /\ caller[r] = "inserted"
  /\ caller' = [caller EXCEPT ![r] = "done"]
  /\ event' = [event EXCEPT ![UnitOf[r]] = TRUE]
  /\ UNCHANGED <<device, queue, thread, accepted, answered, sockets, block>>

-----------------------------------------------------------------------------
(* The thread                                                              *)

Wake(u) ==
  /\ thread[u] = "waiting" /\ life[u] # "deleted" /\ event[u] /\ ~terminate[u]
  /\ event' = [event EXCEPT ![u] = FALSE]
  /\ thread' = [thread EXCEPT ![u] = "draining"]
  /\ UNCHANGED <<device, queue, irps, sockets, block>>

(* What is in the queue stays there.                                       *)
Terminate(u) ==
  /\ thread[u] = "waiting" /\ life[u] # "deleted" /\ event[u] /\ terminate[u]
  /\ event' = [event EXCEPT ![u] = FALSE]
  /\ thread' = [thread EXCEPT ![u] = "ended"]
  /\ IF media[u] THEN Disconnect(u) ELSE UNCHANGED <<media, names, sockets>>
  /\ UNCHANGED <<bus, life, terminate, queue, irps, block>>

Starting(r, major, tries) ==
  [irp |-> r, major |-> major, at |-> "start", tries |-> tries, again |-> "no",
   got |-> <<>>]

Take(u) ==
  /\ thread[u] = "draining" /\ block[u] = Idle /\ queue[u] # <<>>
  /\ queue' = [queue EXCEPT ![u] = Tail(@)]
  /\ LET r == Head(queue[u]) IN
       \/ /\ \E major \in Kind[r] \cap {"read", "scsi"} :
               block' = [block EXCEPT ![u] = Starting(r, major, 2)]
          /\ UNCHANGED answered
       \/ (* Writing is refused, and so are most commands of SCSI.         *)
          /\ Kind[r] \cap {"write", "scsi"} # {}
          /\ Finish(r) /\ UNCHANGED <<given, block>>
  /\ UNCHANGED <<device, event, thread, caller, accepted, sockets>>

Drained(u) ==
  /\ thread[u] = "draining" /\ block[u] = Idle /\ queue[u] = <<>>
  /\ thread' = [thread EXCEPT ![u] = "waiting"]
  /\ UNCHANGED <<device, event, queue, irps, sockets, block>>

-----------------------------------------------------------------------------
(* Fetching a block: HttpDiskGetBlock                                      *)

(* The second try begins anew; after that the request fails.               *)
Failed(u) ==
  LET b == block[u] IN
  IF b.tries > 1
  THEN /\ block' = [block EXCEPT ![u] = Starting(b.irp, b.major, b.tries - 1)]
       /\ UNCHANGED answered
  ELSE /\ block' = [block EXCEPT ![u] = Idle]
       /\ Finish(b.irp) /\ UNCHANGED given

(* A read is told how much it was given; HttpdiskIo_ tells a command of    *)
(* SCSI that it was given all that it asked for.                           *)
Succeeded(u, data) ==
  LET b == block[u] IN
  /\ block' = [block EXCEPT ![u] = Idle]
  /\ Finish(b.irp)
  /\ given' = [given EXCEPT ![b.irp] =
                 [major |-> b.major, data |-> data,
                  told |-> IF b.major = "scsi" THEN Parts ELSE Len(data)]]

At(u, step) == block' = [block EXCEPT ![u].at = step]

Fetching == UNCHANGED <<device, event, queue, thread, caller, accepted>>

Start(u) ==
  /\ block[u].at = "start"
  /\ \/ At(u, IF socket[u] = None THEN "connect" ELSE "send")
        /\ UNCHANGED answered
     \/ (* No memory for the buffer.                                       *)
        Failed(u)
  /\ Fetching /\ UNCHANGED sockets

Reached == Then(Socket, ConnectOrClose)

(* A socket for this block, and for the next ones.                         *)
Reach(u) ==
  /\ block[u].at = "connect"
  /\ \E c \in Unused :
     \E o \in Reached :
       IF o.ok
       THEN /\ held' = [held EXCEPT ![c] = o.held]
            /\ socket' = [socket EXCEPT ![u] = c]
            /\ stream' = [stream EXCEPT ![c] = <<>>]
            /\ At(u, "send") /\ UNCHANGED answered
       ELSE /\ held' = [held EXCEPT ![c] = o.held]
            /\ Failed(u) /\ UNCHANGED <<socket, stream>>
  /\ Fetching

(* What the server may send when it is asked for the data of r: all of it, *)
(* a part of it, more than it, nothing, or something else than a header and*)
(* its data.                                                               *)
Answers(r) ==
  {<<Header(r)>> \o SubSeq(Data(r), 1, n) : n \in 0 .. Parts}
    \cup {(<<Header(r)>> \o Data(r)) \o <<Other(r)>>, <<>>, <<Other(r)>>}

Send(u) ==
  /\ block[u].at = "send"
  /\ \E answer \in Answers(block[u].irp) :
       stream' = [stream EXCEPT ![socket[u]] = @ \o answer]
  /\ At(u, "recv")
  /\ Fetching /\ UNCHANGED <<answered, socket, held>>

(* The connection may have been closed since the last block: once, another *)
(* one is tried.                                                           *)
SendFails(u) ==
  /\ block[u].at = "send"
  /\ IF block[u].again = "no"
     THEN /\ block' = [block EXCEPT ![u].at = "connect", ![u].again = "send"]
          /\ UNCHANGED answered
     ELSE Failed(u)
  /\ Close(u) /\ Fetching

(* Mutant: after a failure the request is sent again on the connection.    *)
RecvFailsKeeps(u) ==
  /\ block[u].at = "recv"
  /\ IF block[u].again # "recv"
     THEN /\ block' = [block EXCEPT ![u].at = "send", ![u].again = "recv"]
          /\ UNCHANGED <<answered, sockets>>
     ELSE Failed(u) /\ Close(u)
  /\ Fetching

RecvFails(u) ==
  /\ block[u].at = "recv"
  /\ IF block[u].again # "recv"
     THEN /\ block' = [block EXCEPT ![u].at = "connect", ![u].again = "recv"]
          /\ UNCHANGED answered
     ELSE Failed(u)
  /\ Close(u) /\ Fetching

(* A header and no more data than was asked for.                           *)
Valid(s) == s # <<>> /\ Head(s)[2] = 0 /\ Len(s) <= Parts + 1

(* The first n pieces arrive; what follows them stays on the connection.   *)
Recv(u, n) ==
  LET c == socket[u]
      s == SubSeq(stream[c], 1, n)
  IN
  /\ block[u].at = "recv" /\ n <= Len(stream[c]) /\ Valid(s)
  /\ stream' = [stream EXCEPT ![c] = SubSeq(@, n + 1, Len(@))]
  /\ IF n = Parts + 1
     THEN Succeeded(u, Tail(s))
     ELSE /\ block' = [block EXCEPT ![u].at = "more", ![u].got = Tail(s)]
          /\ UNCHANGED answered
  /\ Fetching /\ UNCHANGED <<socket, held>>

RecvInvalid(u, n) ==
  /\ block[u].at = "recv"
  /\ n <= Len(stream[socket[u]]) /\ ~Valid(SubSeq(stream[socket[u]], 1, n))
  /\ Failed(u) /\ Close(u) /\ Fetching

More(u, n) ==
  LET c   == socket[u]
      got == block[u].got \o SubSeq(stream[c], 1, n)
  IN
  /\ block[u].at = "more" /\ n \in 1 .. Len(stream[c]) /\ Len(got) <= Parts
  /\ stream' = [stream EXCEPT ![c] = SubSeq(@, n + 1, Len(@))]
  /\ IF Len(got) = Parts
     THEN Succeeded(u, got)
     ELSE /\ block' = [block EXCEPT ![u].got = got]
          /\ UNCHANGED answered
  /\ Fetching /\ UNCHANGED <<socket, held>>

(* The call fails, the server has closed the connection, or there is more  *)
(* than was asked for.  The request succeeds with what it has got.         *)
MoreEnds(u) ==
  /\ block[u].at = "more"
  /\ Close(u) /\ Succeeded(u, block[u].got) /\ Fetching

(* A call of recv returns.                                                 *)
RecvReturns(u) ==
  \/ RecvFails(u) \/ MoreEnds(u)
  \/ \E n \in 0 .. Parts + 2 : Recv(u, n) \/ RecvInvalid(u, n) \/ More(u, n)

ThreadStep(u) ==
  \/ Wake(u) \/ Terminate(u) \/ Take(u) \/ Drained(u)
  \/ Start(u) \/ Reach(u) \/ Send(u) \/ SendFails(u)

BusStep == DriverEntry \/ HttpdiskBusAttach \/ HttpdiskBusIrp \/ HttpDiskUnload
UnitStep(u) ==
  \/ Create(u) \/ CreateFails(u) \/ Connect(u) \/ AddToBus(u)
  \/ Delete(u) \/ Deleted(u)
CallerStep(r) == Enter(r) \/ Refuse(r) \/ Control(r) \/ Insert(r) \/ Signal(r)

Next ==
  \/ BusStep
  \/ \E u \in Unit : UnitStep(u) \/ ThreadStep(u) \/ RecvReturns(u)
  \/ \E r \in Irp : CallerStep(r)

Spec == Init /\ [][Next]_vars

(* The thread runs, and a dispatcher which has inserted its request goes on*)
(* to set the event.  The calls which connect and send return, as the      *)
(* transport gives up on a server which does not acknowledge; those which  *)
(* receive wait without a limit, and nothing is assumed of them.           *)
Fairness ==
  /\ \A u \in Unit : WF_vars(ThreadStep(u)) /\ WF_vars(Deleted(u))
  /\ \A r \in Irp : WF_vars(Signal(r))

FairSpec == Spec /\ Fairness

-----------------------------------------------------------------------------
(* Properties                                                              *)

(* While requests are in the queue the thread is at work, or it will be    *)
(* woken, by an event which is set or by a dispatcher about to set it: no  *)
(* wake-up is lost between the thread finding the queue empty and waiting. *)
WakeupKept ==
  \A u \in Unit :
    queue[u] # <<>> /\ thread[u] = "waiting" =>
      \/ event[u]
      \/ \E r \in Irp : UnitOf[r] = u /\ caller[r] = "inserted"

(* What a request was completed with is what the server has sent for it,   *)
(* from its beginning and in order, though the connection is used for one  *)
(* block after another, what is left of an answer stays on it, and it is   *)
(* opened again when it fails; and a read is told how much that is.        *)
OwnBytes ==
  \A r \in Irp :
    /\ IsPrefix(given[r].data, Data(r))
    /\ given[r].major = "read" => given[r].told = Len(given[r].data)

(* Whatever call fails, and when the thread or the driver ends: memory,    *)
(* handles and objects of a connection are only held while a disk has it   *)
(* as its socket, which is then complete, and the device and the link of   *)
(* the bus only while the driver remembers the device.                     *)
NothingLeftBehind ==
  /\ \A c \in Conn :
       IF \E u \in Unit : socket[u] = c
       THEN held[c] = {"socket", "streamSocket"} \cup Address \cup Endpoint
       ELSE held[c] = {}
  /\ bus \cap {"object", "link"} # {} => {"Fdo", "object"} \subseteq bus

Abstract == INSTANCE Irps

(* A request is completed at most once, by whoever refuses it or by the    *)
(* thread, and never accepted after that.                                  *)
ImplementsIrps == Abstract!Spec

(* When a call which receives returns at last, with whatever the server or *)
(* the transport has for it.                                               *)
Receiving(u) == block[u].at \in {"recv", "more"}
ServersAnswer == \A u \in Unit : []<>(~Receiving(u))

(* A request which was put into the queue is completed, whatever the       *)
(* server answers, unless the disk is deleted.                             *)
EveryIrpCompletes ==
  ServersAnswer =>
    \A r \in Irp :
      r \in accepted
        ~> \/ completions[r] = 1
           \/ life[UnitOf[r]] \in {"deleting", "deleted"}
=============================================================================
