------------------------------ MODULE Protocol ------------------------------
(***************************************************************************)
(* The NDIS protocol of the AoE driver (src/aoe/protocol.c): network       *)
(* adapters are bound and unbound by NDIS while packets are sent to one of *)
(* them or to all and received from them, until the protocol is stopped.   *)
(* The list of bindings is changed under a spin lock and read without it,  *)
(* so it is modelled by its links.  The two names of a binding, which are  *)
(* allocated for a message and never freed, are left out.                  *)
(***************************************************************************)
EXTENDS Naturals, Sequences, FiniteSets

CONSTANTS
  Context,   (* binding contexts, each of which lives once                 *)
  Mac,       (* addresses of adapters                                      *)
  Op,        (* threads which send, or receive for NDIS                    *)
  PoolSize,  (* POOLSIZE                                                   *)
  Traffic,   (* bound: how many packets a context has in flight            *)
  Null       (* NULL                                                       *)

ASSUME PoolAssumption ==
  /\ PoolSize \in Nat /\ Traffic \in Nat
  /\ IsFiniteSet(Op) /\ Null \notin Context

VARIABLES
  protocol,  (* what NDIS knows: "none", "started" or "deregistered"       *)
  event,     (* Protocol_Globals_StopEvent, which one wait resets          *)
  stopper,   (* where Protocol_Stop is                                     *)
  first,     (* Protocol_Globals_BindingContextList                        *)
  next,      (* Context->Next                                              *)
  binding,   (* where Protocol_BindAdapter or Protocol_UnbindAdapter is    *)
  got,       (* what a context has of a binding                            *)
  reply,     (* Context->Event: its request is complete                      *)
  mac,       (* Context->Mac                                               *)
  op,        (* what a thread allocates, and how far it is                 *)
  walk,      (* the broadcast of a thread                                  *)
  used,      (* memory, packets and buffers in use for a context           *)
  flight     (* packets which NDIS has                                     *)

global  == <<protocol, event, stopper>>
links   == <<first, next>>
adapter == <<binding, got, reply, mac>>
traffic == <<op, walk, used, flight>>
ndisVars == <<global, links, adapter, traffic>>

Kind == {"data", "packets", "buffers"}

Idle   == [steps |-> <<>>, done |-> 0, on |-> Null]
NoWalk == [at |-> Null, must |-> {}, tried |-> {}, state |-> "none"]

NdisInit ==
  /\ protocol = "none" /\ event = FALSE /\ stopper = "idle"
  /\ first = Null /\ next = [c \in Context |-> Null]
  /\ binding = [c \in Context |-> "none"] /\ got = [c \in Context |-> {}]
  /\ reply = [c \in Context |-> FALSE] /\ mac = [c \in Context |-> Null]
  /\ op = [o \in Op |-> Idle] /\ walk = [o \in Op |-> NoWalk]
  /\ used = [c \in Context |-> [k \in Kind |-> 0]]
  /\ flight = [c \in Context |-> [send |-> 0, transfer |-> 0]]

-----------------------------------------------------------------------------
(* The list                                                                *)

(* What a walk meets which begins at c: the least set with c which no link *)
(* leaves.                                                                 *)
Closed(S) == \A x \in S : next[x] \in S \cup {Null}
ChainFrom(c) ==
  {d \in Context :
     \A S \in SUBSET Context : c \in S \cup {Null} /\ Closed(S) => d \in S}
Linked == ChainFrom(first)

(* The first context of an address, for Protocol_SearchNIC,                *)
(* Protocol_GetMTU and Protocol_Send; Null when there is none.             *)
Lookup(m) ==
  LET has == {c \in Linked : mac[c] = m}
  IN IF has = {} THEN Null ELSE CHOOSE c \in has : has \subseteq ChainFrom(c)

-----------------------------------------------------------------------------
(* Protocol_Start and Protocol_Stop                                        *)

Start ==
  /\ protocol = "none"
  /\ protocol' = "started" /\ event' = FALSE
  /\ UNCHANGED <<stopper, links, adapter, traffic>>

StopBegin ==
  /\ protocol = "started" /\ stopper = "idle"
  /\ event' = FALSE
  /\ stopper' = "deregistering"
  /\ UNCHANGED <<protocol, links, adapter, traffic>>

(* NdisDeregisterProtocol: from now on, NDIS ends the bindings.            *)
Deregister ==
  /\ stopper = "deregistering"
  /\ protocol' = "deregistered" /\ stopper' = "checking"
  /\ UNCHANGED <<event, links, adapter, traffic>>

(* Mutant: it waits also when there is no binding.                         *)
StopCheckWaits ==
  /\ stopper = "checking"
  /\ stopper' = "waiting"
  /\ UNCHANGED <<protocol, event, links, adapter, traffic>>

StopCheck ==
  /\ stopper = "checking"
  /\ stopper' = IF first # Null THEN "waiting" ELSE "done"
  /\ UNCHANGED <<protocol, event, links, adapter, traffic>>

StopWaited ==
  /\ stopper = "waiting" /\ event
  /\ stopper' = "done" /\ event' = FALSE
  /\ UNCHANGED <<protocol, links, adapter, traffic>>

-----------------------------------------------------------------------------
(* Protocol_BindAdapter                                                    *)

Bindings == {"context", "packet pool", "buffer pool", "adapter"}

Bind(c) ==
  /\ protocol = "started" /\ binding[c] = "none"
  /\ binding' = [binding EXCEPT ![c] = "opening"]
  /\ UNCHANGED <<global, links, got, reply, mac, traffic>>

(* The context, its pools and the adapter are taken in this order.  An     *)
(* open which is pending passes for a success (NT_SUCCESS), and the code   *)
(* goes on; should it fail after all, the requests do, which is not looked *)
(* at.                                                                     *)
BindTake(c) ==
  /\ binding[c] = "opening"
  /\ got' = [got EXCEPT ![c] =
               CASE "context" \notin @     -> {"context"}
                 [] "packet pool" \notin @ -> @ \cup {"packet pool"}
                 [] "buffer pool" \notin @ -> @ \cup {"buffer pool"}
                 [] OTHER                  -> @ \cup {"adapter"}]
  /\ binding' = [binding EXCEPT ![c] = IF got'[c] = Bindings THEN "mac" ELSE @]
  /\ UNCHANGED <<global, links, reply, mac, traffic>>

(* A step fails: those before it are undone.  After the last one the names *)
(* are freed, too, which have not been set; when the memory is not zero by *)
(* chance, that is the end of the system, and of the behaviour.            *)
BindFails(c) ==
  /\ binding[c] = "opening"
  /\ got' = [got EXCEPT ![c] = {}]
  /\ binding' = [binding EXCEPT ![c] = "gone"]
  /\ UNCHANGED <<global, links, reply, mac, traffic>>

(* After the address, the MTU and the filter.  A failure is not looked at: *)
(* the address is then what the memory had.                                *)
AfterRequest(c) ==
  /\ binding' = [binding EXCEPT ![c] =
                   CASE @ \in {"mac", "asked mac"} -> "mtu"
                     [] @ \in {"mtu", "asked mtu"} -> "filter"
                     [] OTHER                      -> "appending"]
  /\ IF binding[c] \in {"mac", "asked mac"}
     THEN \E m \in Mac : mac' = [mac EXCEPT ![c] = m]
     ELSE UNCHANGED mac
  /\ reply' = [reply EXCEPT ![c] = FALSE]

(* NdisRequest is done with a request at once, or it is pending.           *)
Request(c) ==
  /\ binding[c] \in {"mac", "mtu", "filter"}
  /\ \/ AfterRequest(c)
     \/ /\ binding' = [binding EXCEPT ![c] =
                         CASE @ = "mac" -> "asked mac"
                           [] @ = "mtu" -> "asked mtu"
                           [] OTHER     -> "asked filter"]
        /\ UNCHANGED <<reply, mac>>
  /\ UNCHANGED <<global, links, got, traffic>>

Requested(c) == binding[c] \in {"asked mac", "asked mtu", "asked filter"}

RequestComplete(c) ==
  /\ Requested(c) /\ ~reply[c]
  /\ reply' = [reply EXCEPT ![c] = TRUE]
  /\ UNCHANGED <<global, links, binding, got, mac, traffic>>

RequestWaited(c) ==
  /\ Requested(c) /\ reply[c]
  /\ AfterRequest(c)
  /\ UNCHANGED <<global, links, got, traffic>>

LastLinked == CHOOSE c \in Linked : next[c] = Null

AppendContext(c) ==
  /\ binding[c] = "appending"
  /\ IF first = Null THEN first' = c /\ UNCHANGED next
     ELSE next' = [next EXCEPT ![LastLinked] = c] /\ UNCHANGED first
  /\ binding' = [binding EXCEPT ![c] = "bound"]
  /\ UNCHANGED <<global, got, reply, mac, traffic>>

-----------------------------------------------------------------------------
(* Protocol_UnbindAdapter, which NDIS calls when an adapter goes or when   *)
(* the protocol is deregistered                                            *)

Previous(c) == CHOOSE p \in Linked : next[p] = c

(* Mutant: the context which is taken out of the list forgets the next one.*)
UnlinkClears(c) ==
  /\ binding[c] = "bound"
  /\ IF first = c THEN first' = next[c] /\ next' = [next EXCEPT ![c] = Null]
     ELSE next' = [next EXCEPT ![Previous(c)] = next[c], ![c] = Null] /\ UNCHANGED first
  /\ binding' = [binding EXCEPT ![c] = "closing"]
  /\ UNCHANGED <<global, got, reply, mac, traffic>>

Unlink(c) ==
  /\ binding[c] = "bound"
  /\ IF first = c THEN first' = next[c] /\ UNCHANGED next
     ELSE next' = [next EXCEPT ![Previous(c)] = next[c]] /\ UNCHANGED first
  /\ binding' = [binding EXCEPT ![c] = "closing"]
  /\ UNCHANGED <<global, got, reply, mac, traffic>>

(* The adapter is closed, and pools and context are freed.  Who still uses *)
(* the context is lost: what it does is undefined.  The code does not wait *)
(* for a close which is pending: NDIS is assumed to indicate no packet on  *)
(* an adapter which is being closed.                                       *)
Free(c) ==
  /\ binding[c] = "closing"
  /\ got' = [got EXCEPT ![c] = {}]
  /\ binding' = [binding EXCEPT ![c] = "freed"]
  /\ walk' = [o \in Op |-> IF c \in {walk[o].at, op[o].on}
                           THEN [walk[o] EXCEPT !.state = "lost"] ELSE walk[o]]
  /\ op' = [o \in Op |-> IF op[o].on = c THEN Idle ELSE op[o]]
  /\ UNCHANGED <<global, links, reply, mac, used, flight>>

UnbindSignal(c) ==
  /\ binding[c] = "freed"
  /\ event' = (event \/ first = Null)
  /\ binding' = [binding EXCEPT ![c] = "gone"]
  /\ UNCHANGED <<protocol, stopper, links, got, reply, mac, traffic>>

-----------------------------------------------------------------------------
(* Protocol_Send and Protocol_Receive                                      *)

(* What is allocated for a packet to send, and for one to receive: copies  *)
(* of the header and of the data, the packet, and a buffer for each copy.  *)
SendSteps    == <<"data", "packets", "buffers">>
ReceiveSteps == <<"data", "data", "packets", "buffers", "buffers">>

Cost(steps, n, k) == Cardinality({i \in 1 .. n : steps[i] = k})

CanWork(o) ==
  /\ op[o] = Idle /\ walk[o].state # "lost"
  /\ stopper # "done"

InFlight(c) == flight[c].send + flight[c].transfer

Begin(o, c, steps) == op' = [op EXCEPT ![o] = [steps |-> steps, done |-> 0, on |-> c]]

(* To one adapter: a packet which is not too long for it.                  *)
Send(o, m) ==
  /\ CanWork(o) /\ walk[o].state = "none"
  /\ Lookup(m) # Null /\ InFlight(Lookup(m)) < Traffic
  /\ Begin(o, Lookup(m), SendSteps)
  /\ UNCHANGED <<global, links, adapter, walk, used, flight>>

(* To the broadcast address: to each adapter in turn.                      *)
Broadcast(o) ==
  /\ CanWork(o) /\ walk[o].state = "none" /\ first # Null
  /\ walk' = [walk EXCEPT ![o] = [at |-> first, must |-> Linked, tried |-> {},
                                  state |-> "at"]]
  /\ UNCHANGED <<global, links, adapter, op, used, flight>>

(* The address of the context is looked up once more.                      *)
Visit(o) ==
  /\ CanWork(o) /\ walk[o].state = "at"
  /\ LET c == Lookup(mac[walk[o].at]) IN
       /\ walk' = [walk EXCEPT ![o].state = "next", ![o].tried = @ \cup ({c} \ {Null})]
       /\ IF c # Null /\ InFlight(c) < Traffic THEN Begin(o, c, SendSteps)
          ELSE UNCHANGED op
  /\ UNCHANGED <<global, links, adapter, used, flight>>

(* The next context may have been freed since this one left the list.      *)
Advance(o) ==
  /\ CanWork(o) /\ walk[o].state = "next"
  /\ LET c == next[walk[o].at] IN
       walk' = [walk EXCEPT ![o].at = c,
                            ![o].state = CASE c = Null -> "over"
                                           [] c # Null /\ got[c] = {} -> "lost"
                                           [] OTHER -> "at"]
  /\ UNCHANGED <<global, links, adapter, op, used, flight>>

BroadcastDone(o) ==
  /\ walk[o].state = "over"
  /\ walk' = [walk EXCEPT ![o] = NoWalk]
  /\ UNCHANGED <<global, links, adapter, op, used, flight>>

(* The adapter indicates a packet of which not all is in its lookahead.    *)
Receive(o, c) ==
  /\ CanWork(o) /\ walk[o].state = "none"
  /\ "adapter" \in got[c] /\ binding[c] # "closing" /\ InFlight(c) < Traffic
  /\ Begin(o, c, ReceiveSteps)
  /\ UNCHANGED <<global, links, adapter, walk, used, flight>>

(* The next allocation; a pool has PoolSize entries.                       *)
Allocate(o) ==
  /\ op[o].done < Len(op[o].steps)
  /\ LET c == op[o].on
         k == op[o].steps[op[o].done + 1]
     IN /\ k = "data" \/ used[c][k] < PoolSize
        /\ used' = [used EXCEPT ![c][k] = @ + 1]
        /\ op' = [op EXCEPT ![o].done = @ + 1]
  /\ UNCHANGED <<global, links, adapter, walk, flight>>

(* It fails: what was allocated for this packet is freed.                  *)
AllocateFails(o) ==
  /\ op[o].done < Len(op[o].steps)
  /\ used' = [used EXCEPT ![op[o].on] =
                [k \in Kind |-> @[k] - Cost(op[o].steps, op[o].done, k)]]
  /\ op' = [op EXCEPT ![o] = Idle]
  /\ UNCHANGED <<global, links, adapter, walk, flight>>

(* NdisSend and NdisTransferData take the packet.                          *)
Pass(o) ==
  /\ op[o] # Idle /\ op[o].done = Len(op[o].steps)
  /\ flight' = IF op[o].steps = SendSteps
               THEN [flight EXCEPT ![op[o].on].send = @ + 1]
               ELSE [flight EXCEPT ![op[o].on].transfer = @ + 1]
  /\ op' = [op EXCEPT ![o] = Idle]
  /\ UNCHANGED <<global, links, adapter, walk, used>>

SendComplete(c) ==
  /\ flight[c].send > 0
  /\ flight' = [flight EXCEPT ![c].send = @ - 1]
  /\ used' = [used EXCEPT ![c] = [k \in Kind |-> @[k] - Cost(SendSteps, 3, k)]]
  /\ UNCHANGED <<global, links, adapter, op, walk>>

(* Mutant: only the buffer at the front is taken off the packet.           *)
TransferDataCompleteFront(c) ==
  /\ flight[c].transfer > 0
  /\ flight' = [flight EXCEPT ![c].transfer = @ - 1]
  /\ used' = [used EXCEPT ![c] = [k \in Kind |-> @[k] - Cost(ReceiveSteps, 4, k)]]
  /\ UNCHANGED <<global, links, adapter, op, walk>>

(* Whatever the status, the data go to aoe__reply and all is freed.        *)
TransferDataComplete(c) ==
  /\ flight[c].transfer > 0
  /\ flight' = [flight EXCEPT ![c].transfer = @ - 1]
  /\ used' = [used EXCEPT ![c] = [k \in Kind |-> @[k] - Cost(ReceiveSteps, 5, k)]]
  /\ UNCHANGED <<global, links, adapter, op, walk>>
-----------------------------------------------------------------------------
BindStep(c) ==
  \/ BindTake(c) \/ Request(c) \/ RequestComplete(c) \/ RequestWaited(c)
  \/ AppendContext(c)

UnbindStep(c) == Unlink(c) \/ Free(c) \/ UnbindSignal(c)

OpStep(o) ==
  \/ \E m \in Mac : Send(o, m)
  \/ \E c \in Context : Receive(o, c)
  \/ Broadcast(o) \/ Visit(o) \/ Advance(o) \/ BroadcastDone(o)
  \/ Allocate(o) \/ AllocateFails(o) \/ Pass(o)

StopStep == Deregister \/ StopCheck \/ StopWaited

NdisNext ==
  \/ Start \/ StopBegin \/ StopStep
  \/ \E c \in Context : \/ Bind(c) \/ BindFails(c) \/ BindStep(c) \/ UnbindStep(c)
                        \/ SendComplete(c) \/ TransferDataComplete(c)
  \/ \E o \in Op : OpStep(o)

NdisSpec == NdisInit /\ [][NdisNext]_ndisVars

(* NDIS completes requests and, once the protocol is deregistered, unbinds *)
(* its adapters; and what has begun goes on.                               *)
NdisFairSpec ==
  /\ NdisSpec /\ WF_ndisVars(StopStep)
  /\ \A c \in Context :
       /\ WF_ndisVars(BindStep(c))
       /\ WF_ndisVars(protocol = "deregistered" /\ Unlink(c))
       /\ WF_ndisVars(Free(c) \/ UnbindSignal(c))

-----------------------------------------------------------------------------
(* The allocations of the packets which are being made on a context.       *)
Allocated(c, k) ==
  {s \in Op \X (1 .. Len(ReceiveSteps)) :
     /\ op[s[1]].on = c
     /\ s[2] <= op[s[1]].done /\ op[s[1]].steps[s[2]] = k}

(* Of each context which lives, as much memory and as many packets and     *)
(* buffers are in use as its packets need, those which a thread is making  *)
(* and those which NDIS has: whichever allocation fails and whoever        *)
(* completes a packet, nothing is lost or freed twice, so that the pools   *)
(* do not run dry.                                                         *)
PoolsAccurate ==
  \A c \in Context : got[c] # {} =>
    \A k \in Kind :
      used[c][k] = flight[c].send * Cost(SendSteps, Len(SendSteps), k)
                   + flight[c].transfer * Cost(ReceiveSteps, Len(ReceiveSteps), k)
                   + Cardinality(Allocated(c, k))

(* A broadcast, which walks the list without its lock while contexts join  *)
(* and leave it, reaches each adapter that was bound all the time, as long *)
(* as it did not stand on a context which was freed.                       *)
BroadcastReachesAll ==
  \A o \in Op : walk[o].state = "over" =>
    \A c \in walk[o].must \cap Linked : \E d \in walk[o].tried : mac[d] = mac[c]

(* Protocol_Stop returns, although it reads the list without the lock and  *)
(* those who empty the list do so some steps before they set the event.    *)
StopReturns == stopper = "deregistering" ~> stopper = "done"

(* What Protocol_Stop is for, and what it does not ensure: a binding which *)
(* was being made is appended after the list was found to be empty, and    *)
(* the event may be of an earlier emptiness.                               *)
NoneAfterStop == stopper = "done" => first = Null

(* What the walks without the lock do not ensure.                          *)
ContextsAlive == \A o \in Op : walk[o].state # "lost"
=============================================================================
