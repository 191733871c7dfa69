-------------------------- MODULE HttpDisk_proofs --------------------------
(***************************************************************************)
(* Proofs about HttpDisk, for every set of disks, requests and connections *)
(* and any number of parts, and that it implements Irps.                   *)
(*                                                                         *)
(* The inductive invariant has five parts: Fetches says where a thread and *)
(* its block can be, Owned who has a request, Holds what a connection and  *)
(* the bus hold (NothingLeftBehind), Streams what is on the connection of  *)
(* a disk at each step of its block (OwnBytes), and Woken what the event   *)
(* of a disk stands for (WakeupKept).                                      *)
(***************************************************************************)
EXTENDS HttpDisk, ListLemmas

Piece == Irp \X Nat
Step  == {"none", "start", "connect", "send", "recv", "more"}
Full  == {"socket", "streamSocket"} \cup Address \cup Endpoint

(* What a socket may leave which was not opened.                           *)
Left == IF Wide THEN {{}, {"socket"}} ELSE {{}}

Block == [irp : Irp \cup {None}, major : {"none", "read", "scsi"}, at : Step,
          tries : Nat, again : {"no", "send", "recv"}, got : Seq(Piece)]

(* The pieces of s are those of the answer to r, from the given one on: the*)
(* header, the data, and what is more than that.                           *)
Follows(s, r, first) ==
  /\ s \in Seq(Piece) /\ first + Len(s) <= Parts + 2
  /\ \A i \in 1 .. Len(s) : s[i] = <<r, first + i - 1>>

(* What is there begins with something else than a header.                 *)
Strange(s) == s # <<>> /\ s[1][2] # 0

-----------------------------------------------------------------------------
(* The inductive invariant                                                 *)

(* Only a thread which has been woken has a block.                         *)
Fetches ==
  /\ DOMAIN life = Unit /\ DOMAIN thread = Unit
  /\ block \in [Unit -> Block]
  /\ \A u \in Unit :
       /\ life[u] = "none" => thread[u] = "none"
       /\ block[u].at # "none" => thread[u] = "draining" /\ block[u].irp \in Irp
       /\ block[u].at = "none" => block[u] = Idle

(* Who has a request.                                                      *)
Owned ==
  /\ queue \in [Unit -> Seq(Irp)]
  /\ caller \in [Irp -> {"out", "checked", "inserted", "done"}]
  /\ accepted \subseteq Irp /\ completions \in [Irp -> Nat]
  /\ \A u \in Unit :
       /\ Distinct(queue[u])
       /\ \A r \in ToSet(queue[u]) :
            UnitOf[r] = u /\ r \in accepted /\ completions[r] = 0
       /\ block[u].irp \in Irp =>
            /\ UnitOf[block[u].irp] = u /\ block[u].irp \in accepted
            /\ completions[block[u].irp] = 0
            /\ block[u].irp \notin ToSet(queue[u])
  /\ \A r \in Irp : caller[r] \in {"out", "checked"} =>
       r \notin accepted /\ completions[r] = 0

(* A connection is of one disk at most.  That of none holds nothing, but   *)
(* for a socket whose handle was taken for an error.                       *)
Connections ==
  \A c \in Conn :
    IF \E u \in Unit : socket[u] = c THEN held[c] = Full ELSE held[c] \in Left

BusWhole == bus \cap {"object", "link"} # {} => {"Fdo", "object"} \subseteq bus

Holds ==
  /\ socket \in [Unit -> Conn \cup {None}]
  /\ held \in [Conn -> SUBSET Full]
  /\ \A u, v \in Unit : socket[u] = socket[v] => u = v \/ socket[u] = None
  /\ Connections /\ BusWhole

(* Between two blocks what is left to be read begins with no header: then  *)
(* the next answer is behind it, and cannot be read.                       *)
StreamOf(u) ==
  /\ block[u].at = "connect" => socket[u] = None
  /\ block[u].at \in {"send", "recv", "more"} => socket[u] # None
  /\ block[u].at \in {"none", "start", "send"} /\ socket[u] # None =>
       stream[socket[u]] = <<>> \/ Strange(stream[socket[u]])
  /\ block[u].at = "recv" =>
       Follows(stream[socket[u]], block[u].irp, 0) \/ Strange(stream[socket[u]])
  /\ block[u].at = "more" =>
       /\ Follows(block[u].got, block[u].irp, 1) /\ Len(block[u].got) <= Parts
       /\ Follows(stream[socket[u]], block[u].irp, Len(block[u].got) + 1)
  /\ block[u].at # "more" => block[u].got = <<>>

Own == DOMAIN given = Irp /\ OwnBytes

Streams ==
  /\ stream \in [Conn -> Seq(Piece)]
  /\ \A u \in Unit : StreamOf(u)
  /\ Own

(* Nobody is inside a disk which was not created yet.                      *)
Woken ==
  /\ DOMAIN event = Unit
  /\ \A r \in Irp : life[UnitOf[r]] = "none" => caller[r] \in {"out", "done"}
  /\ \A u \in Unit : life[u] = "none" => queue[u] = <<>>
  /\ WakeupKept

IInv == Fetches /\ Owned /\ Holds /\ Streams /\ Woken

-----------------------------------------------------------------------------
(* What is on a connection                                                 *)

(* Nothing has been read, or is left.                                      *)
LEMMA FollowsNothing ==
  ASSUME NEW r, NEW first \in 0 .. Parts + 2
  PROVE  Follows(<<>>, r, first)
BY EmptySeq, HttpAssumption DEF Follows

(* A stretch of the pieces follows from where it begins.                   *)
LEMMA FollowsStretch ==
  ASSUME NEW r, NEW first \in Nat, NEW s, Follows(s, r, first),
         NEW m \in 1 .. Len(s) + 1, NEW n \in m - 1 .. Len(s)
  PROVE  /\ Follows(SubSeq(s, m, n), r, first + m - 1)
         /\ Len(SubSeq(s, m, n)) = n - m + 1
<1> DEFINE t == SubSeq(s, m, n)
<1>1. /\ s \in Seq(Piece) /\ Len(s) \in Nat /\ Parts \in Nat
      /\ \A i \in 1 .. Len(s) : s[i] \in Piece
  BY LenProperties, ElementOfSeq, HttpAssumption DEF Follows
<1>2. m \in Int /\ n \in Int /\ \A i \in m .. n : s[i] \in Piece
  BY <1>1
<1>3. /\ t \in Seq(Piece) /\ Len(t) = IF m <= n THEN n - m + 1 ELSE 0
      /\ \A i \in 1 .. n - m + 1 : t[i] = s[m + i - 1]
  BY <1>2, SubSeqProperties
<1> HIDE DEF t
<1>4. Len(t) = n - m + 1
  BY <1>1, <1>3
<1>5. ASSUME NEW i \in 1 .. Len(t)  PROVE t[i] = <<r, (first + m - 1) + i - 1>>
  <2>1. m + i - 1 \in 1 .. Len(s) /\ t[i] = s[m + i - 1]
    BY <1>1, <1>3, <1>4
  <2>2. s[m + i - 1] = <<r, first + (m + i - 1) - 1>>
    BY <2>1 DEF Follows
  <2> QED
    BY <2>1, <2>2
<1> QED
  BY <1>1, <1>3, <1>4, <1>5 DEF Follows, t

(* The pieces behind the first one.                                        *)
LEMMA FollowsTail ==
  ASSUME NEW r, NEW first \in Nat, NEW s, Follows(s, r, first), s # <<>>
  PROVE  Follows(Tail(s), r, first + 1)
<1>1. /\ Tail(s) \in Seq(Piece) /\ Len(Tail(s)) = Len(s) - 1
      /\ \A i \in 1 .. Len(Tail(s)) : Tail(s)[i] = s[i + 1]
      /\ Len(s) \in Nat /\ Parts \in Nat
  BY HeadTailProperties, LenProperties, HttpAssumption DEF Follows
<1>2. ASSUME NEW i \in 1 .. Len(s) - 1  PROVE Tail(s)[i] = <<r, first + 1 + i - 1>>
  BY <1>1 DEF Follows
<1> QED
  BY <1>1, <1>2 DEF Follows

(* Two stretches which follow each other.                                  *)
LEMMA FollowsJoin ==
  ASSUME NEW r, NEW first \in Nat, NEW s, NEW t, Follows(s, r, first),
         Follows(t, r, first + Len(s))
  PROVE  Follows(s \o t, r, first) /\ Len(s \o t) = Len(s) + Len(t)
<1>1. /\ s \in Seq(Piece) /\ t \in Seq(Piece) /\ Len(s) \in Nat /\ Len(t) \in Nat
      /\ Parts \in Nat
  BY LenProperties, HttpAssumption DEF Follows
<1>2. /\ s \o t \in Seq(Piece) /\ Len(s \o t) = Len(s) + Len(t)
      /\ \A i \in 1 .. Len(s) + Len(t) :
           (s \o t)[i] = IF i <= Len(s) THEN s[i] ELSE t[i - Len(s)]
  BY <1>1, ConcatProperties
<1>3. ASSUME NEW i \in 1 .. Len(s) + Len(t)  PROVE (s \o t)[i] = <<r, first + i - 1>>
  <2>1. CASE i <= Len(s)
    BY <1>1, <1>2, <2>1 DEF Follows
  <2>2. CASE ~(i <= Len(s))
    <3>1. i - Len(s) \in 1 .. Len(t) /\ (s \o t)[i] = t[i - Len(s)]
      BY <1>1, <1>2, <2>2
    <3>2. t[i - Len(s)] = <<r, first + Len(s) + (i - Len(s)) - 1>>
      BY <3>1 DEF Follows
    <3> QED
      BY <1>1, <3>1, <3>2
  <2> QED
    BY <2>1, <2>2
<1>4. first + (Len(s) + Len(t)) <= Parts + 2
  BY <1>1 DEF Follows
<1> QED
  BY <1>1, <1>2, <1>3, <1>4 DEF Follows

(* What the server sends is the start of an answer, or something else.     *)
LEMMA AnswersFollow ==
  ASSUME NEW r \in Irp, NEW s \in Answers(r)
  PROVE  s \in Seq(Piece) /\ (Follows(s, r, 0) \/ Strange(s))
<1>1. /\ Parts \in Nat /\ Parts # 0 /\ 0 \in Nat /\ 1 \in Nat
      /\ Other(r) \in Piece /\ Header(r) \in Piece
  BY HttpAssumption DEF Other, Header, Piece
<1>2. CASE s = <<Other(r)>>
  BY <1>1, <1>2 DEF Other, Strange
<1>3. CASE s = <<>>
  BY <1>1, <1>3, FollowsNothing, EmptySeq
<1>4. Follows(<<Header(r)>>, r, 0) /\ Len(<<Header(r)>>) = 1
  BY <1>1 DEF Follows, Header
<1>5. Follows(Data(r), r, 1) /\ Len(Data(r)) = Parts
  <2>1. Data(r) \in Seq(Piece) /\ Len(Data(r)) = Parts
    <3>1. Data(r) \in [1 .. Parts -> Piece]
      BY <1>1 DEF Data, Piece
    <3> QED
      BY <1>1, <3>1, SeqDef, LenProperties
  <2> QED
    BY <1>1, <2>1 DEF Follows, Data
<1>6. ASSUME NEW t, Follows(t, r, 1)
      PROVE  /\ Follows(<<Header(r)>> \o t, r, 0)
             /\ Len(<<Header(r)>> \o t) = 1 + Len(t)
  <2> DEFINE h == <<Header(r)>>
             first == 0
  <2>1. /\ Follows(h, r, first) /\ Len(h) = 1 /\ first \in Nat
        /\ Follows(t, r, first + Len(h))
    BY <1>4, <1>6
  <2> HIDE DEF h, first
  <2>2. Follows(h \o t, r, first)
    BY <2>1, FollowsJoin
  <2>3. Len(h \o t) = Len(h) + Len(t)
    <3>1. h \in Seq(Piece) /\ t \in Seq(Piece)
      BY <2>1 DEF Follows
    <3> QED
      BY <3>1, ConcatProperties
  <2> QED
    BY <2>1, <2>2, <2>3 DEF h, first
<1>7. ASSUME NEW n \in 0 .. Parts, s = <<Header(r)>> \o SubSeq(Data(r), 1, n)
      PROVE  Follows(s, r, 0)
  <2>1. 1 \in 1 .. Len(Data(r)) + 1 /\ n \in 1 - 1 .. Len(Data(r))
    BY <1>1, <1>5
  <2>2. Follows(SubSeq(Data(r), 1, n), r, 1 + 1 - 1)
    BY <1>1, <1>5, <2>1, FollowsStretch
  <2> QED
    BY <1>6, <1>7, <2>2
<1>8. ASSUME s = (<<Header(r)>> \o Data(r)) \o <<Other(r)>>
      PROVE  Follows(s, r, 0)
  <2> DEFINE h == <<Header(r)>> \o Data(r)
  <2>1. Follows(h, r, 0) /\ Len(h) = 1 + Parts
    BY <1>5, <1>6
  <2>2. Follows(<<Other(r)>>, r, Parts + 1)
    BY <1>1 DEF Follows, Other
  <2> HIDE DEF h
  <2>3. Follows(<<Other(r)>>, r, 0 + Len(h))
    BY <1>1, <2>1, <2>2
  <2>4. Follows(h \o <<Other(r)>>, r, 0)
    BY <1>1, <2>1, <2>3, FollowsJoin
  <2> QED
    BY <1>8, <2>4 DEF h
<1> QED
  BY <1>2, <1>3, <1>7, <1>8 DEF Answers, Follows

(* The pieces from the first one on are a prefix of the data.              *)
LEMMA FollowsPrefix ==
  ASSUME NEW r \in Irp, NEW s, Follows(s, r, 1), Len(s) <= Parts
  PROVE  IsPrefix(s, Data(r))
<1>1. /\ s \in Seq(Piece) /\ Len(s) \in 0 .. Parts /\ Parts \in Nat
      /\ \A i \in 1 .. Len(s) : s[i] = <<r, i>> /\ s[i] \in Piece
  BY LenProperties, ElementOfSeq, HttpAssumption DEF Follows
<1>2. /\ Data(r) \in Seq(Piece) /\ Len(Data(r)) = Parts
      /\ \A i \in 1 .. Parts : Data(r)[i] = <<r, i>> /\ Data(r)[i] \in Piece
  <2>1. Data(r) \in [1 .. Parts -> Piece]
    BY <1>1 DEF Data, Piece
  <2>2. \A i \in 1 .. Parts : Data(r)[i] = <<r, i>>
    BY DEF Data
  <2> QED
    BY <1>1, <2>1, <2>2, SeqDef, LenProperties
<1> DEFINE n == Len(s)
           a == SubSeq(s, 1, n)
           b == SubSeq(Data(r), 1, n)
<1>3. 1 \in Int /\ n \in Int /\ n - 1 + 1 = n
  BY <1>1
<1>4. /\ a \in Seq(Piece) /\ Len(a) = IF 1 <= n THEN n - 1 + 1 ELSE 0
      /\ \A i \in 1 .. n - 1 + 1 : a[i] = s[1 + i - 1]
  BY <1>1, <1>3, SubSeqProperties
<1>5. /\ b \in Seq(Piece) /\ Len(b) = IF 1 <= n THEN n - 1 + 1 ELSE 0
      /\ \A i \in 1 .. n - 1 + 1 : b[i] = Data(r)[1 + i - 1]
  BY <1>1, <1>2, <1>3, SubSeqProperties
<1> HIDE DEF a, b
<1>6. a = b
  <2>1. Len(a) = n /\ Len(b) = n
    BY <1>1, <1>4, <1>5
  <2>2. \A i \in 1 .. n : a[i] = b[i]
    <3> SUFFICES ASSUME NEW i \in 1 .. n PROVE a[i] = b[i]
      OBVIOUS
    <3>1. i \in 1 .. n - 1 + 1 /\ i \in 1 .. Parts /\ 1 + i - 1 = i
      BY <1>1
    <3>2. a[i] = s[i] /\ b[i] = Data(r)[i]
      BY <3>1, <1>4, <1>5
    <3> QED
      BY <3>1, <3>2, <1>1, <1>2
  <2> QED
    BY <1>4, <1>5, <2>1, <2>2, SeqEqual
<1> QED
  BY <1>1, <1>2, <1>6 DEF IsPrefix, a, b

LEMMA EmptyPrefix == \A r : IsPrefix(<<>>, Data(r))
<1> TAKE r
<1>1. Data(r) = [i \in 1 .. Parts |-> <<r, i>>]
  BY DEF Data
<1>2. Len(Data(r)) = Parts /\ Parts \in Nat
  BY <1>1, HttpAssumption
<1>3. Len(<<>>) = 0 /\ 0 < 1
  OBVIOUS
<1>4. SubSeq(<<>>, 1, 0) = <<>> /\ SubSeq(Data(r), 1, 0) = <<>>
  BY <1>3, SubSeqEmpty
<1> QED
  BY <1>2, <1>3, <1>4 DEF IsPrefix

-----------------------------------------------------------------------------
(* What the ladders of calls leave                                         *)

LEMMA DoneOrFailed ==
  \A h : /\ Done(h).ok /\ Done(h).held = h
         /\ ~Fails(h).ok /\ Fails(h).held = h
BY DEF Done, Fails

(* What connect holds after its first steps.                               *)
Part1 == {"socket"} \cup Address
Part2 == Part1 \cup {"streamSocket"}
Part3 == Part2 \cup {"connectionHandle", "connectionFileObject"}
Part4 == Part3 \cup {"association"}

LEMMA Sockets ==
  \A o \in Socket : IF o.ok THEN o.held = {"socket"} ELSE o.held \in Left
<1>1. \A o \in Tries({}, {"socket"}) : o \in {Fails({}), Done({"socket"})}
  BY DEF Tries
<1> QED
  BY <1>1, DoneOrFailed DEF Socket, Left

LEMMA Bound ==
  \A o \in bind({"socket"}) : o \in {Fails({"socket"}), Done(Part1)}
<1>1. ({"socket"} \cup {"addressHandle"}) \ {"addressHandle"} = {"socket"}
  OBVIOUS
<1>2. {"socket"} \cup {"addressHandle", "addressFileObject"} = Part1
  BY DEF Address, Part1
<1> QED
  BY <1>1, <1>2 DEF bind, tdi_open_transport_address, Opens

(* What is left when a step of connect has failed, close gives back.       *)
LEMMA Given ==
  /\ close({}) = {} /\ close({"socket"}) = {} /\ close(Part1) = {}
  /\ close(Part2) = {} /\ close(Full) = {}
  /\ CloseEndpoint(Part3) = Part2 /\ CloseEndpoint(Part4) = Part2
  /\ Part4 \cup {"isConnected"} = Full
  /\ Full # {}
<1> USE DEF Full, Address, Endpoint, Part1, Part2, Part3, Part4, close,
            CloseEndpoint, tdi_disconnect, tdi_disassociate_address
<1>1. close({}) = {} /\ close({"socket"}) = {}
  OBVIOUS
<1>2. close(Part1) = {}
  OBVIOUS
<1>3. close(Part2) = {}
  OBVIOUS
<1>4. close(Full) = {}
  OBVIOUS
<1>5. CloseEndpoint(Part3) = Part2
  OBVIOUS
<1>6. CloseEndpoint(Part4) = Part2
  OBVIOUS
<1>7. Part4 \cup {"isConnected"} = Full /\ Full # {}
  OBVIOUS
<1> QED
  BY <1>1, <1>2, <1>3, <1>4, <1>5, <1>6, <1>7

LEMMA Connecting ==
  \A o \in connect({"socket"}) :
    o \in {Fails({"socket"}), Fails(Part1), Fails(Part2), Done(Full)}
<1> DEFINE A == Then(bind({"socket"}), StreamSocket)
           B == Then(A, tdi_open_connection_endpoint)
           C == Then(B, Associated)
<1> USE DoneOrFailed
<1>1. \A o \in A : o \in {Fails({"socket"}), Fails(Part1), Done(Part2)}
  <2>1. \A o \in StreamSocket(Part1) : o \in {Fails(Part1), Done(Part2)}
    BY DEF StreamSocket, Tries, Part2
  <2>2. \A o \in A : \E p \in bind({"socket"}) :
          o \in IF p.ok THEN StreamSocket(p.held) ELSE {p}
    BY DEF Then
  <2>3. ASSUME NEW p \in bind({"socket"}), NEW o,
               o \in IF p.ok THEN StreamSocket(p.held) ELSE {p}
        PROVE  o \in {Fails({"socket"}), Fails(Part1), Done(Part2)}
    <3>1. CASE p = Fails({"socket"})
      BY <2>3, <3>1
    <3>2. CASE p = Done(Part1)
      BY <2>1, <2>3, <3>2
    <3> QED
      BY <3>1, <3>2, Bound
  <2> QED
    BY <2>2, <2>3
<1>2. \A o \in B : o \in {Fails({"socket"}), Fails(Part1), Fails(Part2), Done(Part3)}
  <2>1. (Part2 \cup {"connectionHandle"}) \ {"connectionHandle"} = Part2
    BY DEF Part2, Part1, Address
  <2>2. \A o \in tdi_open_connection_endpoint(Part2) : o \in {Fails(Part2), Done(Part3)}
    BY <2>1 DEF tdi_open_connection_endpoint, Opens, Part3
  <2> HIDE DEF A
  <2> QED
    BY <1>1, <2>2 DEF Then
<1>3. \A o \in C : o \in {Fails({"socket"}), Fails(Part1), Fails(Part2), Done(Part4)}
  <2>1. \A o \in Associated(Part3) : o \in {Fails(Part2), Done(Part4)}
    BY Given DEF Associated, OrUndone, tdi_associate_address, Tries, Part4
  <2> HIDE DEF B
  <2> QED
    BY <1>2, <2>1 DEF Then
<1>4. \A o \in Connected(Part4) : o \in {Fails(Part2), Done(Full)}
  BY Given DEF Connected, OrUndone, tdi_connect, Tries
<1>5. connect({"socket"}) = Then(C, Connected)
  BY DEF connect
<1> HIDE DEF C
<1> QED
  BY <1>3, <1>4, <1>5 DEF Then

(* A socket is either connected, or what there is of it is given back.     *)
LEMMA Reaching ==
  \A o \in Reached : IF o.ok THEN o.held = Full ELSE o.held \in Left
<1>1. \A o \in ConnectOrClose({"socket"}) :
        IF o.ok THEN o.held = Full ELSE o.held = {}
  <2> SUFFICES ASSUME NEW p \in connect({"socket"})
               PROVE  IF p.ok THEN p.held = Full
                      ELSE ~Closed(p).ok /\ Closed(p).held = {}
    BY DEF ConnectOrClose
  <2>1. p \in {Fails({"socket"}), Fails(Part1), Fails(Part2), Done(Full)}
    BY Connecting
  <2>2. \A h : Closed(Fails(h)).held = close(h) /\ ~Closed(Fails(h)).ok
    BY DEF Closed, Fails
  <2> QED
    BY <2>1, <2>2, Given, DoneOrFailed
<1>2. {} \in Left
  BY DEF Left
<1> QED
  BY <1>1, <1>2, Sockets DEF Reached, Then

(* The question for the size leaves nothing, whether it is answered or not.*)
LEMMA Asking ==
  \A o \in HttpDiskGetHeader : o.held \in Left
<1> DEFINE Size(h) == Tries(h, {})
           A == Then(Then(Then(connect({"socket"}), tdi_send_stream), tdi_recv_stream),
                     Size)
<1> USE DoneOrFailed
<1>1. AskSize({"socket"}) = {Closed(o) : o \in A}
  BY DEF AskSize
<1>2. \A o \in connect({"socket"}) : \E h : o \in {Fails(h), Done(h)} /\ close(h) = {}
  BY Connecting, Given
<1>3. \A h : h \cup {} = h
  OBVIOUS
<1>4. \A o \in A : \E h : o \in {Fails(h), Done(h)} /\ close(h) = {}
  BY <1>2, <1>3 DEF Then, Tries, tdi_send_stream, tdi_recv_stream
<1> HIDE DEF A
<1>5. \A h : Closed(Fails(h)).held = close(h) /\ Closed(Done(h)).held = close(h)
  BY DEF Closed, Fails, Done
<1>6. \A o \in AskSize({"socket"}) : o.held = {}
  BY <1>1, <1>4, <1>5
<1>7. {} \in Left
  BY DEF Left
<1> SUFFICES ASSUME NEW o \in HttpDiskGetHeader PROVE o.held \in Left
  OBVIOUS
<1>8. PICK p \in Socket : o \in IF p.ok THEN AskSize(p.held) ELSE {p}
  BY DEF HttpDiskGetHeader, Then
<1> QED
  BY <1>6, <1>7, <1>8, Sockets

-----------------------------------------------------------------------------
(* A step of a block                                                       *)

(* The block goes on, or its request is completed.                         *)
Progress(u) ==
  \E x \in Block :
    /\ block' = [block EXCEPT ![u] = x]
    /\ \/ x.at # "none" /\ x.irp = block[u].irp /\ UNCHANGED completions
       \/ x = Idle /\ Finish(block[u].irp)

LEMMA BlockTypes ==
  /\ Idle \in Block /\ Idle.at = "none" /\ Idle.irp = None /\ Idle.got = <<>>
  /\ None \notin Irp
  /\ \A r \in Irp, m \in {"none", "read", "scsi"}, n \in Nat :
       /\ Starting(r, m, n) \in Block /\ Starting(r, m, n).irp = r
       /\ Starting(r, m, n).at = "start" /\ Starting(r, m, n).got = <<>>
BY EmptySeq, HttpAssumption DEF Idle, Starting, Block, Step

(* Nothing is given to a request.                                          *)
LEMMA OwnKept ==
  ASSUME Own, UNCHANGED given
  PROVE  Own'
BY DEF Own, OwnBytes

LEMMA FailedProgress ==
  ASSUME Fetches, Own, NEW u \in Unit, block[u].at # "none", Failed(u)
  PROVE  /\ Progress(u) /\ Own'
         /\ block' = [block EXCEPT ![u] = block'[u]]
         /\ block'[u].at \in {"start", "none"} /\ block'[u].got = <<>>
<1>1. /\ block[u].irp \in Irp /\ block[u].tries \in Nat /\ DOMAIN block = Unit
      /\ block[u].major \in {"none", "read", "scsi"}
  BY DEF Fetches, Block
<1> Own'
  BY OwnKept DEF Failed, answered
<1>2. CASE block[u].tries > 1
  <2> DEFINE x == Starting(block[u].irp, block[u].major, block[u].tries - 1)
  <2>1. block' = [block EXCEPT ![u] = x] /\ UNCHANGED completions
    BY <1>2 DEF Failed, answered
  <2>2. x \in Block /\ x.at = "start" /\ x.irp = block[u].irp /\ x.got = <<>>
    BY <1>1, <1>2, BlockTypes
  <2> HIDE DEF x
  <2> QED
    BY <1>1, <2>1, <2>2 DEF Progress
<1>3. CASE ~(block[u].tries > 1)
  <2>1. block' = [block EXCEPT ![u] = Idle] /\ Finish(block[u].irp)
    BY <1>3 DEF Failed
  <2> QED
    BY <1>1, <2>1, BlockTypes DEF Progress
<1> QED
  BY <1>2, <1>3

LEMMA SucceededProgress ==
  ASSUME Fetches, Own, NEW u \in Unit, block[u].at # "none",
         NEW data, IsPrefix(data, Data(block[u].irp)), Succeeded(u, data)
  PROVE  /\ Progress(u) /\ Own'
         /\ block' = [block EXCEPT ![u] = block'[u]]
         /\ block'[u].at = "none" /\ block'[u].got = <<>>
<1>1. DOMAIN block = Unit
  BY DEF Fetches
<1> DEFINE r == block[u].irp
           g == [major |-> block[u].major, data |-> data,
                 told |-> IF block[u].major = "scsi" THEN Parts ELSE Len(data)]
<1>2. given' = [given EXCEPT ![r] = g]
  BY DEF Succeeded
<1>3. g.data = data /\ (g.major = "read" => g.told = Len(g.data))
  OBVIOUS
<1> HIDE DEF g
<1>4. DOMAIN given' = Irp /\ \A x \in Irp : given'[x] = IF x = r THEN g ELSE given[x]
  BY <1>2 DEF Own
<1>5. Own'
  <2> SUFFICES ASSUME NEW x \in Irp
               PROVE  /\ IsPrefix(given'[x].data, Data(x))
                      /\ given'[x].major = "read" => given'[x].told = Len(given'[x].data)
    BY <1>4 DEF Own, OwnBytes
  <2>1. CASE x = r
    BY <1>3, <1>4, <2>1
  <2>2. CASE x # r
    BY <1>4, <2>2 DEF Own, OwnBytes
  <2> QED
    BY <2>1, <2>2
<1> QED
  BY <1>1, <1>5, BlockTypes DEF Succeeded, Progress

(* Where the block gets to, what has been read, and what was tried again.  *)
Moves(u, at, got, again) ==
  /\ block' = [block EXCEPT ![u].at = at, ![u].got = got, ![u].again = again]
  /\ UNCHANGED answered

LEMMA MovesProgress ==
  ASSUME Fetches, Own, NEW u \in Unit, block[u].at # "none",
         NEW at \in Step \ {"none"}, NEW got \in Seq(Piece),
         NEW again \in {"no", "send", "recv"}, Moves(u, at, got, again)
  PROVE  /\ Progress(u) /\ Own'
         /\ block' = [block EXCEPT ![u] = block'[u]]
         /\ block'[u].irp = block[u].irp
         /\ block'[u].at = at /\ block'[u].got = got
<1> DEFINE x == [block[u] EXCEPT !.at = at, !.got = got, !.again = again]
<1>1. block[u] \in Block /\ DOMAIN block = Unit
  BY DEF Fetches
<1>2. /\ x \in Block /\ x.at = at /\ x.got = got /\ x.irp = block[u].irp
      /\ block' = [block EXCEPT ![u] = x]
  BY <1>1 DEF Block, Moves
<1> HIDE DEF x
<1>3. Own'
  BY OwnKept DEF Moves, answered
<1> QED
  BY <1>1, <1>2, <1>3 DEF Progress, Moves, answered

(* A step of the fetching of a block.                                      *)
FetchStep(u) ==
  Start(u) \/ Reach(u) \/ Send(u) \/ SendFails(u) \/ RecvReturns(u)

(* What a step of a block may do to the connections.                       *)
SocketStep(u) ==
  \/ UNCHANGED sockets
  \/ Close(u)
  \/ socket[u] = None /\ \E c \in Unused :
       \/ /\ held' = [held EXCEPT ![c] = Full]
          /\ socket' = [socket EXCEPT ![u] = c]
          /\ stream' = [stream EXCEPT ![c] = <<>>]
       \/ /\ \E h \in Left : held' = [held EXCEPT ![c] = h]
          /\ UNCHANGED <<socket, stream>>
  \/ /\ socket[u] # None
     /\ \E s \in Seq(Piece) : stream' = [stream EXCEPT ![socket[u]] = s]
     /\ UNCHANGED <<socket, held>>

FetchEffect(u) ==
  /\ block[u].at # "none" /\ Fetching /\ Progress(u)
  /\ block' = [block EXCEPT ![u] = block'[u]]
  /\ SocketStep(u) /\ StreamOf(u)' /\ Own'

LEMMA AtMoves ==
  ASSUME Fetches, NEW u \in Unit, NEW at, At(u, at), UNCHANGED answered
  PROVE  Moves(u, at, block[u].got, block[u].again)
<1>1. block[u] \in Block /\ DOMAIN block = Unit
  BY DEF Fetches
<1> QED
  BY <1>1 DEF At, Moves, Block

LEMMA BlockOf ==
  ASSUME Fetches, NEW u \in Unit
  PROVE  /\ block[u].got \in Seq(Piece) /\ block[u].again \in {"no", "send", "recv"}
         /\ block[u].at # "none" => block[u].irp \in Irp
BY DEF Fetches, Block

LEMMA StartEffect ==
  ASSUME Fetches, Holds, Streams, NEW u \in Unit, Start(u)
  PROVE  FetchEffect(u)
<1> DEFINE at == IF socket[u] = None THEN "connect" ELSE "send"
<1>1. /\ block[u].at = "start" /\ UNCHANGED sockets /\ Fetching
      /\ block[u].got = <<>> /\ Own
      /\ socket[u] # None => stream[socket[u]] = <<>> \/ Strange(stream[socket[u]])
  BY DEF Start, Streams, StreamOf
<1>2. CASE At(u, at) /\ UNCHANGED answered
  <2>1. at \in Step \ {"none"} /\ at \in {"connect", "send"}
    BY DEF Step
  <2>2. Moves(u, at, block[u].got, block[u].again)
    BY <1>2, AtMoves
  <2>3. /\ Progress(u) /\ block' = [block EXCEPT ![u] = block'[u]] /\ Own'
        /\ block'[u].at = at /\ block'[u].got = <<>>
    BY <1>1, <2>1, <2>2, MovesProgress, BlockOf
  <2> QED
    BY <1>1, <2>3 DEF FetchEffect, SocketStep, StreamOf, sockets
<1>3. CASE Failed(u)
  BY <1>1, <1>3, FailedProgress DEF FetchEffect, SocketStep, StreamOf, sockets
<1> QED
  BY <1>2, <1>3 DEF Start

(* A connection which is closed has left nothing to be read.               *)
LEMMA ClosedStream ==
  ASSUME Holds, NEW u \in Unit, Close(u), block'[u].at \in {"none", "start", "connect"},
         block'[u].got = <<>>
  PROVE  SocketStep(u) /\ StreamOf(u)'
<1>1. socket'[u] = None
  BY DEF Close, Holds
<1> QED
  BY <1>1 DEF SocketStep, StreamOf

LEMMA ReachEffect ==
  ASSUME Fetches, Holds, Streams, NEW u \in Unit, Reach(u)
  PROVE  FetchEffect(u)
<1>1. /\ block[u].at = "connect" /\ Fetching /\ socket[u] = None
      /\ block[u].got = <<>> /\ Own
      /\ DOMAIN held = Conn /\ DOMAIN stream = Conn /\ DOMAIN socket = Unit
      /\ None \notin Conn
  BY HttpAssumption DEF Reach, Streams, StreamOf, Holds
<1>2. PICK c \in Unused : \E o \in Reached :
        IF o.ok
        THEN /\ held' = [held EXCEPT ![c] = o.held]
             /\ socket' = [socket EXCEPT ![u] = c]
             /\ stream' = [stream EXCEPT ![c] = <<>>]
             /\ At(u, "send") /\ UNCHANGED answered
        ELSE /\ held' = [held EXCEPT ![c] = o.held]
             /\ Failed(u) /\ UNCHANGED <<socket, stream>>
  BY DEF Reach
<1>3. c \in Conn
  BY DEF Unused
<1>4. CASE /\ held' = [held EXCEPT ![c] = Full]
           /\ socket' = [socket EXCEPT ![u] = c]
           /\ stream' = [stream EXCEPT ![c] = <<>>]
           /\ At(u, "send") /\ UNCHANGED answered
  <2>1. Moves(u, "send", block[u].got, block[u].again)
    BY <1>4, AtMoves
  <2>2. /\ Progress(u) /\ block' = [block EXCEPT ![u] = block'[u]] /\ Own'
        /\ block'[u].at = "send" /\ block'[u].got = <<>>
    BY <1>1, <2>1, MovesProgress, BlockOf DEF Step
  <2>3. socket'[u] = c /\ stream'[c] = <<>>
    BY <1>1, <1>3, <1>4
  <2>4. StreamOf(u)'
    BY <1>1, <1>3, <2>2, <2>3 DEF StreamOf
  <2>5. SocketStep(u)
    BY <1>1, <1>4 DEF SocketStep
  <2> QED
    BY <1>1, <2>2, <2>4, <2>5 DEF FetchEffect
<1>5. ASSUME NEW h \in Left, held' = [held EXCEPT ![c] = h],
             Failed(u), UNCHANGED <<socket, stream>>
      PROVE  FetchEffect(u)
  <2>1. /\ Progress(u) /\ block' = [block EXCEPT ![u] = block'[u]] /\ Own'
        /\ block'[u].at \in {"start", "none"} /\ block'[u].got = <<>>
    BY <1>1, <1>5, FailedProgress
  <2>2. StreamOf(u)'
    BY <1>1, <1>5, <2>1 DEF StreamOf
  <2>3. SocketStep(u)
    BY <1>1, <1>5 DEF SocketStep
  <2> QED
    BY <1>1, <2>1, <2>2, <2>3 DEF FetchEffect
<1> QED
  BY <1>2, <1>4, <1>5, Reaching

LEMMA SendEffect ==
  ASSUME Fetches, Holds, Streams, NEW u \in Unit, Send(u)
  PROVE  FetchEffect(u)
<1> DEFINE r == block[u].irp
           c == socket[u]
           old == stream[c]
<1>1. /\ block[u].at = "send" /\ Fetching /\ c # None /\ c \in Conn
      /\ old = <<>> \/ Strange(old)
      /\ old \in Seq(Piece) /\ block[u].got = <<>> /\ DOMAIN stream = Conn /\ r \in Irp
      /\ UNCHANGED <<answered, socket, held>> /\ At(u, "recv") /\ Own
  BY BlockOf DEF Send, Streams, StreamOf, Holds
<1>2. PICK answer \in Answers(r) : stream' = [stream EXCEPT ![c] = @ \o answer]
  BY DEF Send
<1> DEFINE all == old \o answer
<1>3. answer \in Seq(Piece) /\ (Follows(answer, r, 0) \/ Strange(answer))
  BY <1>1, AnswersFollow
<1>4. all \in Seq(Piece) /\ (Follows(all, r, 0) \/ Strange(all))
  <2>1. CASE old = <<>>
    <3>1. <<>> \o answer = answer
      BY <1>3, ConcatEmptySeq
    <3> QED
      BY <1>3, <2>1, <3>1
  <2>2. CASE Strange(old)
    <3>1. old # <<>> /\ old[1][2] # 0 /\ Len(old) \in Nat \ {0} /\ Len(answer) \in Nat
      BY <1>1, <1>3, <2>2, EmptySeq, LenProperties DEF Strange
    <3>2. /\ all \in Seq(Piece) /\ Len(all) = Len(old) + Len(answer)
          /\ \A i \in 1 .. Len(old) + Len(answer) :
               all[i] = IF i <= Len(old) THEN old[i] ELSE answer[i - Len(old)]
      BY <1>1, <1>3, ConcatProperties
    <3> HIDE DEF all, old
    <3>3. all[1] = old[1] /\ Len(all) # 0
      BY <3>1, <3>2
    <3>4. all # <<>>
      BY <3>2, <3>3, EmptySeq
    <3> QED
      BY <3>1, <3>2, <3>3, <3>4 DEF Strange
  <2> QED
    BY <1>1, <2>1, <2>2
<1>5. stream' = [stream EXCEPT ![c] = all] /\ stream'[c] = all
  BY <1>1, <1>2
<1>6. Moves(u, "recv", block[u].got, block[u].again)
  BY <1>1, AtMoves
<1>7. /\ Progress(u) /\ block' = [block EXCEPT ![u] = block'[u]] /\ Own'
      /\ block'[u].at = "recv" /\ block'[u].got = <<>> /\ block'[u].irp = r
  BY <1>1, <1>6, MovesProgress, BlockOf DEF Step
<1> HIDE DEF all
<1>8. StreamOf(u)'
  BY <1>1, <1>4, <1>5, <1>7 DEF StreamOf
<1>9. SocketStep(u)
  BY <1>1, <1>4, <1>5 DEF SocketStep
<1> QED
  BY <1>1, <1>7, <1>8, <1>9 DEF FetchEffect

LEMMA SendFailsEffect ==
  ASSUME Fetches, Holds, Streams, NEW u \in Unit, SendFails(u) \/ RecvFails(u)
  PROVE  FetchEffect(u)
<1>1. /\ block[u].at \in {"send", "recv"} /\ Fetching /\ Close(u)
      /\ block[u].got = <<>> /\ Own
  BY DEF SendFails, RecvFails, Streams, StreamOf
<1>2. CASE Failed(u)
  BY <1>1, <1>2, FailedProgress, ClosedStream DEF FetchEffect
<1>3. ASSUME NEW again \in {"send", "recv"}, UNCHANGED answered,
             block' = [block EXCEPT ![u].at = "connect", ![u].again = again]
      PROVE  FetchEffect(u)
  <2>1. block[u] \in Block /\ DOMAIN block = Unit
    BY DEF Fetches
  <2>2. Moves(u, "connect", block[u].got, again)
    BY <1>3, <2>1 DEF Moves, Block
  <2>3. /\ Progress(u) /\ block' = [block EXCEPT ![u] = block'[u]] /\ Own'
        /\ block'[u].at = "connect" /\ block'[u].got = <<>>
    BY <1>1, <2>2, MovesProgress, BlockOf DEF Step
  <2> QED
    BY <1>1, <2>3, ClosedStream DEF FetchEffect
<1> QED
  BY <1>2, <1>3 DEF SendFails, RecvFails

LEMMA RecvInvalidEffect ==
  ASSUME Fetches, Holds, Streams, NEW u \in Unit, NEW n, RecvInvalid(u, n)
  PROVE  FetchEffect(u)
BY FailedProgress, ClosedStream DEF FetchEffect, RecvInvalid, Streams

LEMMA MoreEndsEffect ==
  ASSUME Fetches, Holds, Streams, NEW u \in Unit, MoreEnds(u)
  PROVE  FetchEffect(u)
<1>1. /\ block[u].at = "more" /\ Fetching /\ Close(u) /\ Own
      /\ Succeeded(u, block[u].got) /\ block[u].irp \in Irp
  BY BlockOf DEF MoreEnds, Streams
<1>2. IsPrefix(block[u].got, Data(block[u].irp))
  BY <1>1, FollowsPrefix DEF Streams, StreamOf
<1> QED
  BY <1>1, <1>2, SucceededProgress, ClosedStream DEF FetchEffect

(* The pieces which arrive, and those which are left.                      *)
LEMMA Split ==
  ASSUME NEW r, NEW first \in Nat, NEW s, Follows(s, r, first), NEW n \in 0 .. Len(s)
  PROVE  /\ Follows(SubSeq(s, 1, n), r, first) /\ Len(SubSeq(s, 1, n)) = n
         /\ Follows(SubSeq(s, n + 1, Len(s)), r, first + n)
         /\ Len(SubSeq(s, n + 1, Len(s))) = Len(s) - n
<1>1. Len(s) \in Nat
  BY LenProperties DEF Follows
<1>2. 1 \in 1 .. Len(s) + 1 /\ n \in 1 - 1 .. Len(s)
  BY <1>1
<1>3. /\ Follows(SubSeq(s, 1, n), r, first + 1 - 1)
      /\ Len(SubSeq(s, 1, n)) = n - 1 + 1
  BY <1>2, FollowsStretch
<1> DEFINE m == n + 1
           l == Len(s)
<1>4. m \in 1 .. Len(s) + 1 /\ l \in m - 1 .. Len(s)
  BY <1>1
<1> HIDE DEF m, l
<1>5. /\ Follows(SubSeq(s, m, l), r, first + m - 1)
      /\ Len(SubSeq(s, m, l)) = l - m + 1
  BY <1>4, FollowsStretch
<1> USE DEF m, l
<1>6. first + 1 - 1 = first /\ first + (n + 1) - 1 = first + n
  OBVIOUS
<1> QED
  BY <1>1, <1>3, <1>5, <1>6

(* When all has arrived, nothing is left, or what is more than that.       *)
LEMMA RestLeft ==
  ASSUME NEW r, NEW s, Follows(s, r, Parts + 1)
  PROVE  s = <<>> \/ Strange(s)
<1>1. SUFFICES ASSUME s # <<>> PROVE s[1][2] # 0
  BY DEF Strange
<1>2. s \in Seq(Piece) /\ Len(s) \in Nat \ {0} /\ Parts \in Nat
  BY <1>1, EmptySeq, LenProperties, HttpAssumption DEF Follows
<1>3. s[1] = <<r, Parts + 1>>
  BY <1>2 DEF Follows
<1> QED
  BY <1>2, <1>3

(* A part of the stream of a disk is read.                                 *)
LEMMA ReadStep ==
  ASSUME Holds, Streams, NEW u \in Unit, socket[u] # None,
         NEW s \in Seq(Piece), stream' = [stream EXCEPT ![socket[u]] = s],
         UNCHANGED <<socket, held>>
  PROVE  SocketStep(u) /\ stream'[socket'[u]] = s
BY DEF SocketStep, Holds, Streams

LEMMA RecvEffect ==
  ASSUME Fetches, Holds, Streams, NEW u \in Unit, NEW n \in 0 .. Parts + 2, Recv(u, n)
  PROVE  FetchEffect(u)
<1> DEFINE r == block[u].irp
           c == socket[u]
           a == stream[c]
           s == SubSeq(a, 1, n)
           b == SubSeq(a, n + 1, Len(a))
<1>1. /\ block[u].at = "recv" /\ Fetching /\ c # None /\ c \in Conn /\ r \in Irp
      /\ a \in Seq(Piece) /\ Len(a) \in Nat /\ n \in 0 .. Len(a)
      /\ Follows(a, r, 0) \/ Strange(a)
      /\ UNCHANGED <<socket, held>> /\ stream' = [stream EXCEPT ![c] = b]
      /\ Valid(s) /\ Parts \in Nat \ {0} /\ block[u].got = <<>> /\ Own
  <2>1. /\ block[u].at = "recv" /\ Fetching /\ r \in Irp /\ block[u].got = <<>>
        /\ UNCHANGED <<socket, held>> /\ stream' = [stream EXCEPT ![c] = b]
        /\ Valid(s) /\ n <= Len(a) /\ Own
    BY BlockOf DEF Recv, Streams, StreamOf
  <2>2. /\ c # None /\ c \in Conn /\ a \in Seq(Piece)
        /\ Follows(a, r, 0) \/ Strange(a)
    BY <2>1 DEF Streams, StreamOf, Holds
  <2>3. Len(a) \in Nat /\ Parts \in Nat \ {0}
    BY <2>2, LenProperties, HttpAssumption
  <2> QED
    BY <2>1, <2>2, <2>3
<1>2. Follows(a, r, 0)
  <2> SUFFICES ASSUME Strange(a) PROVE FALSE
    BY <1>1
  <2>1. s # <<>> /\ Head(s)[2] = 0
    BY <1>1 DEF Valid
  <2>2. n # 0
    BY <2>1, SubSeqEmpty
  <2>3. 1 \in Int /\ n \in Int /\ \A i \in 1 .. n : a[i] \in Piece
    BY <1>1, ElementOfSeq
  <2>4. s \in Seq(Piece) /\ \A i \in 1 .. n - 1 + 1 : s[i] = a[1 + i - 1]
    BY <2>3, SubSeqProperties
  <2> HIDE DEF s, a
  <2>5. s[1] = a[1]
    <3>1. 1 \in 1 .. n - 1 + 1 /\ 1 + 1 - 1 = 1
      BY <1>1, <2>2
    <3> QED
      BY <2>4, <3>1
  <2>6. Head(s) = s[1]
    BY <2>1, <2>4, HeadTailProperties
  <2> QED
    BY <2>1, <2>5, <2>6 DEF Strange
<1>3. /\ Follows(s, r, 0) /\ Len(s) = n
      /\ Follows(b, r, n) /\ b \in Seq(Piece)
  <2>1. 0 \in Nat /\ 0 + n = n
    BY <1>1
  <2>2. Follows(s, r, 0) /\ Len(s) = n /\ Follows(b, r, 0 + n)
    BY <1>1, <1>2, <2>1, Split
  <2> QED
    BY <2>1, <2>2 DEF Follows
<1>4. SocketStep(u) /\ stream'[socket'[u]] = b
  BY <1>1, <1>3, ReadStep
<1>5. s # <<>>
  BY <1>1 DEF Valid
<1>6. /\ Follows(Tail(s), r, 1) /\ Tail(s) \in Seq(Piece) /\ Len(Tail(s)) = n - 1
      /\ n - 1 <= Parts
  <2>1. Follows(Tail(s), r, 0 + 1)
    BY <1>3, <1>5, FollowsTail
  <2>2. Len(Tail(s)) = Len(s) - 1
    BY <1>3, <1>5, HeadTailProperties DEF Follows
  <2>3. 0 + 1 = 1 /\ n <= Parts + 1
    BY <1>1, <1>3 DEF Valid
  <2> HIDE DEF s
  <2> QED
    BY <1>1, <1>3, <2>1, <2>2, <2>3 DEF Follows
<1>7. CASE n = Parts + 1 /\ Succeeded(u, Tail(s))
  <2>1. b = <<>> \/ Strange(b)
    BY <1>3, <1>7, RestLeft
  <2>2. IsPrefix(Tail(s), Data(r))
    <3> DEFINE data == Tail(s)
    <3>1. Follows(data, r, 1) /\ Len(data) <= Parts
      BY <1>6
    <3> HIDE DEF data
    <3>2. IsPrefix(data, Data(r))
      BY <1>1, <3>1, FollowsPrefix
    <3> QED
      BY <3>2 DEF data
  <2>3. /\ Progress(u) /\ block' = [block EXCEPT ![u] = block'[u]] /\ Own'
        /\ block'[u].at = "none" /\ block'[u].got = <<>>
    BY <1>1, <1>7, <2>2, SucceededProgress
  <2> HIDE DEF b
  <2>4. StreamOf(u)'
    BY <1>4, <2>1, <2>3 DEF StreamOf
  <2> QED
    BY <1>1, <1>4, <2>3, <2>4 DEF FetchEffect
<1>8. CASE /\ n # Parts + 1 /\ UNCHANGED answered
           /\ block' = [block EXCEPT ![u].at = "more", ![u].got = Tail(s)]
  <2>1. block[u] \in Block /\ DOMAIN block = Unit
    BY DEF Fetches
  <2> DEFINE got == Tail(s)
  <2> HIDE DEF s, b, got
  <2>2. Moves(u, "more", got, block[u].again)
    BY <1>8, <2>1 DEF Moves, Block, got
  <2>3. /\ Progress(u) /\ block' = [block EXCEPT ![u] = block'[u]] /\ Own'
        /\ block'[u].at = "more" /\ block'[u].got = got /\ block'[u].irp = r
    <3>1. got \in Seq(Piece)
      BY <1>6 DEF got
    <3> QED
      BY <1>1, <2>2, <3>1, MovesProgress, BlockOf DEF Step
  <2>4. Len(got) + 1 = n /\ Len(got) <= Parts
    BY <1>1, <1>6 DEF got
  <2>5. StreamOf(u)'
    BY <1>1, <1>3, <1>4, <1>6, <2>3, <2>4 DEF StreamOf, got
  <2> QED
    BY <1>1, <1>4, <2>3, <2>5 DEF FetchEffect
<1> QED
  BY <1>7, <1>8 DEF Recv

LEMMA MoreEffect ==
  ASSUME Fetches, Holds, Streams, NEW u \in Unit, NEW n \in 0 .. Parts + 2, More(u, n)
  PROVE  FetchEffect(u)
<1> DEFINE r == block[u].irp
           c == socket[u]
           a == stream[c]
           old == block[u].got
           s == SubSeq(a, 1, n)
           b == SubSeq(a, n + 1, Len(a))
           got == old \o s
<1>1. /\ block[u].at = "more" /\ Fetching /\ c # None /\ c \in Conn /\ r \in Irp
      /\ Follows(old, r, 1) /\ Follows(a, r, Len(old) + 1)
      /\ n \in 0 .. Len(a) /\ UNCHANGED <<socket, held>>
      /\ stream' = [stream EXCEPT ![c] = b]
      /\ Len(got) <= Parts /\ Own
  BY BlockOf DEF More, Streams, StreamOf, Holds
<1>2. Len(old) \in Nat /\ Parts \in Nat
  BY <1>1, LenProperties, HttpAssumption DEF Follows
<1>3. /\ Follows(s, r, Len(old) + 1) /\ Len(s) = n
      /\ Follows(b, r, Len(old) + 1 + n)
  <2> DEFINE next == Len(old) + 1
  <2>1. next \in Nat
    BY <1>2
  <2> HIDE DEF next, old, a
  <2>2. Follows(a, r, next) /\ n \in 0 .. Len(a)
    BY <1>1 DEF next
  <2>3. Follows(s, r, next) /\ Len(s) = n /\ Follows(b, r, next + n)
    BY <2>1, <2>2, Split
  <2> QED
    BY <2>3 DEF next
<1>4. Follows(got, r, 1) /\ Len(got) = Len(old) + n /\ got \in Seq(Piece)
      /\ b \in Seq(Piece)
  <2>1. Follows(s, r, 1 + Len(old))
    BY <1>2, <1>3
  <2>2. Follows(got, r, 1) /\ Len(got) = Len(old) + Len(s)
    BY <1>1, <2>1, FollowsJoin
  <2> QED
    BY <1>3, <2>2 DEF Follows
<1> HIDE DEF got, s, b
<1>5. Follows(b, r, Len(got) + 1)
  BY <1>1, <1>2, <1>3, <1>4
<1>6. SocketStep(u) /\ stream'[socket'[u]] = b
  BY <1>1, <1>4, ReadStep
<1>7. CASE Len(got) = Parts /\ Succeeded(u, got)
  <2>1. b = <<>> \/ Strange(b)
    BY <1>5, <1>7, RestLeft
  <2>2. IsPrefix(got, Data(r))
    BY <1>1, <1>4, FollowsPrefix
  <2>3. /\ Progress(u) /\ block' = [block EXCEPT ![u] = block'[u]] /\ Own'
        /\ block'[u].at = "none" /\ block'[u].got = <<>>
    BY <1>1, <1>7, <2>2, SucceededProgress
  <2>4. StreamOf(u)'
    BY <1>6, <2>1, <2>3 DEF StreamOf
  <2> QED
    BY <1>1, <1>6, <2>3, <2>4 DEF FetchEffect
<1>8. CASE block' = [block EXCEPT ![u].got = got] /\ UNCHANGED answered
  <2>1. block[u] \in Block /\ DOMAIN block = Unit
    BY DEF Fetches
  <2>2. Moves(u, "more", got, block[u].again)
    BY <1>1, <1>8, <2>1 DEF Moves, Block
  <2>3. /\ Progress(u) /\ block' = [block EXCEPT ![u] = block'[u]] /\ Own'
        /\ block'[u].at = "more" /\ block'[u].got = got /\ block'[u].irp = r
    <3>1. block[u].again \in {"no", "send", "recv"} /\ block[u].at # "none"
      BY <1>1, BlockOf
    <3>2. "more" \in Step \ {"none"} /\ got \in Seq(Piece)
      BY <1>4 DEF Step
    <3>3. Own
      BY <1>1
    <3> QED
      BY ONLY Fetches, u \in Unit, <2>2, <3>1, <3>2, <3>3, MovesProgress
  <2>4. StreamOf(u)'
    BY <1>1, <1>4, <1>5, <1>6, <2>3 DEF StreamOf
  <2> QED
    BY <1>1, <1>6, <2>3, <2>4 DEF FetchEffect
<1> QED
  BY <1>7, <1>8 DEF More, got, s

LEMMA FetchEffects ==
  ASSUME Fetches, Holds, Streams, NEW u \in Unit, FetchStep(u)
  PROVE  FetchEffect(u)
BY StartEffect, ReachEffect, SendEffect, SendFailsEffect, RecvEffect,
   RecvInvalidEffect, MoreEffect, MoreEndsEffect DEF FetchStep, RecvReturns

-----------------------------------------------------------------------------
(* The threads and their blocks                                            *)

LEMMA IInvInit == Init => IInv
<1> SUFFICES ASSUME Init PROVE IInv
  OBVIOUS
<1>1. Fetches
  BY BlockTypes DEF Init, Fetches
<1>2. Owned
  BY BlockTypes, EmptySeq, NoElements DEF Init, Owned
<1>3. Holds
  BY HttpAssumption DEF Init, Holds, Connections, BusWhole, Left
<1>4. Streams
  BY BlockTypes, EmptySeq, EmptyPrefix, HttpAssumption
  DEF Init, Streams, StreamOf, Own, OwnBytes, Nothing
<1>5. Woken
  BY DEF Init, Woken, WakeupKept
<1> QED
  BY <1>1, <1>2, <1>3, <1>4, <1>5 DEF IInv

(* The steps which take no part in the fetching of a block.                *)
LEMMA TakeFetches ==
  ASSUME Fetches, Owned, NEW u \in Unit, Take(u)
  PROVE  \E x \in Block :
           /\ block' = [block EXCEPT ![u] = x]
           /\ \/ /\ \E m \in {"none", "read", "scsi"} : x = Starting(Head(queue[u]), m, 2)
                 /\ UNCHANGED completions
              \/ x = block[u] /\ Finish(Head(queue[u]))
           /\ UNCHANGED given /\ block[u] = Idle
<1>1. Head(queue[u]) \in Irp
  BY TakeFirst DEF Take, Owned
<1>2. block[u] \in Block /\ block = [block EXCEPT ![u] = block[u]]
  BY DEF Fetches
<1>3. \/ /\ \E m \in {"none", "read", "scsi"} :
               block' = [block EXCEPT ![u] = Starting(Head(queue[u]), m, 2)]
         /\ UNCHANGED answered
      \/ Finish(Head(queue[u])) /\ UNCHANGED <<given, block>>
  BY DEF Take
<1> QED
  BY <1>1, <1>2, <1>3, BlockTypes DEF Take, answered

LEMMA FetchesNext ==
  ASSUME Fetches, Owned, Holds, Streams, [Next]_vars
  PROVE  Fetches'
<1> USE DEF Fetches
<1>1. CASE /\ UNCHANGED <<block, thread>>
           /\ \/ UNCHANGED life
              \/ \E u \in Unit, l \in {"unconnected", "created", "listed", "deleting",
                                       "deleted"} :
                   /\ life' = [life EXCEPT ![u] = l]
                   /\ life[u] # "none"
  BY <1>1
<1>2. ASSUME NEW u \in Unit, Create(u) \/ CreateFails(u)  PROVE Fetches'
  BY <1>2 DEF Create, CreateFails
<1>3. ASSUME NEW u \in Unit, Wake(u) \/ Terminate(u) \/ Drained(u)  PROVE Fetches'
  BY <1>3, BlockTypes DEF Wake, Terminate, Drained, device
<1>4. ASSUME NEW u \in Unit, Take(u)  PROVE Fetches'
  <2>1. PICK x \in Block :
          /\ block' = [block EXCEPT ![u] = x] /\ block[u] = Idle
          /\ (\E m \in {"none", "read", "scsi"} : x = Starting(Head(queue[u]), m, 2))
             \/ x = Idle
    BY <1>4, TakeFetches
  <2>2. thread[u] = "draining" /\ UNCHANGED <<life, thread>> /\ Head(queue[u]) \in Irp
    BY <1>4, TakeFirst DEF Take, device, Owned
  <2> QED
    BY <2>1, <2>2, BlockTypes
<1>5. ASSUME NEW u \in Unit, FetchStep(u)  PROVE Fetches'
  <2>1. FetchEffect(u)
    BY <1>5, FetchEffects
  <2>2. PICK x \in Block :
          /\ block' = [block EXCEPT ![u] = x]
          /\ (x.at # "none" /\ x.irp = block[u].irp) \/ x = Idle
    BY <2>1 DEF FetchEffect, Progress
  <2>3. UNCHANGED <<life, thread>> /\ block[u].at # "none"
    BY <2>1 DEF FetchEffect, Fetching, device
  <2> QED
    BY <2>2, <2>3, BlockTypes
<1>6. CASE BusStep
  BY <1>1, <1>6 DEF BusStep, DriverEntry, HttpdiskBusAttach, HttpdiskBusIrp,
     HttpDiskUnload, OtherThanBus
<1>7. ASSUME NEW u \in Unit, Connect(u) \/ AddToBus(u) \/ Delete(u) \/ Deleted(u)
      PROVE  Fetches'
  <2>1. UNCHANGED <<block, thread>>
    BY <1>7 DEF Connect, AddToBus, Delete, Deleted
  <2>2. CASE Connect(u)
    <3>1. life[u] = "created"
          /\ \E l \in {"created", "unconnected"} : life' = [life EXCEPT ![u] = l]
      BY <2>2 DEF Connect
    <3> QED
      BY <2>1, <3>1
  <2>3. CASE AddToBus(u) \/ Delete(u) \/ Deleted(u)
    BY <2>1, <2>3 DEF AddToBus, Delete, Deleted
  <2> QED
    BY <1>7, <2>2, <2>3
<1>8. CASE \E r \in Irp : CallerStep(r)
  BY <1>1, <1>8 DEF CallerStep, Enter, Refuse, Control, Insert, Signal, device
<1>9. CASE UNCHANGED vars
  BY <1>1, <1>9 DEF vars, device
<1> QED
  BY <1>2, <1>3, <1>4, <1>5, <1>6, <1>7, <1>8, <1>9 DEF Next, UnitStep, ThreadStep, FetchStep

-----------------------------------------------------------------------------
(* The requests                                                            *)

LEMMA OwnedNext ==
  ASSUME Fetches, Owned, Holds, Streams, [Next]_vars
  PROVE  Owned'
<1>1. CASE UNCHANGED <<queue, caller, accepted, completions, block>>
  BY <1>1 DEF Owned
<1>2. ASSUME NEW r \in Irp, Enter(r)  PROVE Owned'
  BY <1>2 DEF Enter, Owned, answered
<1>3. ASSUME NEW r \in Irp, Refuse(r) \/ Control(r)  PROVE Owned'
  <2>1. /\ caller[r] = "out" /\ caller' = [caller EXCEPT ![r] = "done"]
        /\ completions' = [completions EXCEPT ![r] = @ + 1]
        /\ UNCHANGED <<queue, accepted, block>>
    BY <1>3 DEF Refuse, Control, Finish
  <2>2. /\ r \notin accepted
        /\ \A u \in Unit : ToSet(queue[u]) \subseteq Irp
    BY <2>1, Elements DEF Owned
  <2> QED
    BY <2>1, <2>2 DEF Owned
<1>4. ASSUME NEW r \in Irp, Insert(r)  PROVE Owned'
  <2> DEFINE u == UnitOf[r]
  <2>1. /\ caller[r] = "checked" /\ caller' = [caller EXCEPT ![r] = "inserted"]
        /\ accepted' = accepted \cup {r} /\ UNCHANGED <<completions, block>>
        /\ queue' = [queue EXCEPT ![u] = Append(@, r)]
        /\ u \in Unit
    BY <1>4, HttpAssumption DEF Insert, answered
  <2>2. r \notin accepted /\ completions[r] = 0
    BY <2>1 DEF Owned
  <2>3. /\ \A v \in Unit : r \notin ToSet(queue[v]) /\ queue[v] \in Seq(Irp)
        /\ \A v \in Unit : block[v].irp # r
    BY <2>2 DEF Owned
  <2>4. /\ queue'[u] \in Seq(Irp) /\ Distinct(queue'[u])
        /\ ToSet(queue'[u]) = ToSet(queue[u]) \cup {r}
        /\ \A v \in Unit \ {u} : queue'[v] = queue[v]
    BY <2>1, <2>3, AppendElements DEF Owned
  <2> HIDE DEF u
  <2>5. queue' \in [Unit -> Seq(Irp)]
    BY <2>1, <2>3, <2>4 DEF Owned
  <2>6. \A v \in Unit : \A x \in ToSet(queue'[v]) :
          UnitOf[x] = v /\ x \in accepted' /\ completions'[x] = 0
    BY <2>1, <2>2, <2>4 DEF Owned, u
  <2>7. \A v \in Unit : block'[v].irp \in Irp => block'[v].irp \notin ToSet(queue'[v])
    BY <2>1, <2>3, <2>4 DEF Owned
  <2> QED
    BY <2>1, <2>2, <2>4, <2>5, <2>6, <2>7 DEF Owned
<1>5. ASSUME NEW r \in Irp, Signal(r)  PROVE Owned'
  BY <1>5 DEF Signal, Owned, answered
<1>6. ASSUME NEW u \in Unit, Take(u)  PROVE Owned'
  <2> DEFINE h == Head(queue[u])
  <2>1. PICK r \in Irp : r = h
    BY <1>6, TakeFirst DEF Take, Owned
  <2>2. /\ queue[u] \in Seq(Irp) /\ queue[u] # <<>> /\ Distinct(queue[u])
        /\ queue' = [queue EXCEPT ![u] = Tail(@)] /\ UNCHANGED <<caller, accepted>>
    BY <1>6 DEF Take, Owned
  <2>3. /\ r \in ToSet(queue[u])
        /\ queue'[u] \in Seq(Irp) /\ Distinct(queue'[u])
        /\ ToSet(queue'[u]) = ToSet(queue[u]) \ {r}
        /\ \A v \in Unit \ {u} : queue'[v] = queue[v]
    BY <2>1, <2>2, TakeFirst DEF Owned
  <2>4. UnitOf[r] = u /\ r \in accepted /\ completions[r] = 0
    BY <2>3 DEF Owned
  <2>5. PICK x \in Block :
          /\ block' = [block EXCEPT ![u] = x] /\ block[u] = Idle
          /\ \/ /\ \E m \in {"none", "read", "scsi"} : x = Starting(r, m, 2)
                /\ UNCHANGED completions
             \/ x = Idle /\ Finish(r)
    BY <1>6, <2>1, TakeFetches
  <2>6. /\ block'[u] = x /\ \A v \in Unit \ {u} : block'[v] = block[v]
    BY <2>5 DEF Fetches
  <2>7. caller[r] \notin {"out", "checked"}
    BY <2>4 DEF Owned
  <2> HIDE DEF h
  <2>8. queue' \in [Unit -> Seq(Irp)]
    BY <2>2, <2>3 DEF Owned
  <2>9. \A v \in Unit \ {u} : r \notin ToSet(queue[v]) /\ block[v].irp # r
    BY <2>4 DEF Owned
  <2>10. \A v \in Unit : Distinct(queue'[v]) /\ ToSet(queue'[v]) = ToSet(queue[v]) \ {r}
    <3> SUFFICES ASSUME NEW v \in Unit
                 PROVE  Distinct(queue'[v]) /\ ToSet(queue'[v]) = ToSet(queue[v]) \ {r}
      OBVIOUS
    <3>1. CASE v = u
      BY <2>3, <3>1
    <3>2. CASE v # u
      <4>1. queue'[v] = queue[v] /\ r \notin ToSet(queue[v]) /\ Distinct(queue[v])
        BY <2>3, <2>9, <3>2 DEF Owned
      <4> QED
        BY <4>1
    <3> QED
      BY <3>1, <3>2
  <2> DEFINE Rest == /\ completions' \in [Irp -> Nat]
                     /\ \A y \in Irp \ {r} : completions'[y] = completions[y]
                     /\ block'[u].irp \in Irp => block'[u].irp = r /\ completions'[r] = 0
  <2>11. Rest
    <3>1. CASE /\ \E m \in {"none", "read", "scsi"} : x = Starting(r, m, 2)
               /\ UNCHANGED completions
      BY <2>4, <2>6, <3>1, BlockTypes DEF Owned
    <3>2. CASE x = Idle /\ completions' = [completions EXCEPT ![r] = @ + 1]
      BY <2>6, <3>2, BlockTypes DEF Owned
    <3> QED
      BY <2>5, <3>1, <3>2 DEF Finish
  <2> HIDE DEF Rest
  <2>12. ASSUME NEW v \in Unit
         PROVE  /\ Distinct(queue'[v])
                /\ \A y \in ToSet(queue'[v]) :
                     UnitOf[y] = v /\ y \in accepted' /\ completions'[y] = 0
                /\ block'[v].irp \in Irp =>
                     /\ UnitOf[block'[v].irp] = v /\ block'[v].irp \in accepted'
                     /\ completions'[block'[v].irp] = 0
                     /\ block'[v].irp \notin ToSet(queue'[v])
    <3>1. \A y \in ToSet(queue'[v]) :
            UnitOf[y] = v /\ y \in accepted' /\ completions'[y] = 0
      <4>1. ToSet(queue[v]) \subseteq Irp
        BY Elements DEF Owned
      <4> QED
        BY <2>2, <2>10, <2>11, <4>1 DEF Owned, Rest
    <3>2. CASE v = u
      BY <2>2, <2>4, <2>10, <2>11, <3>1, <3>2 DEF Rest
    <3>3. CASE v # u
      <4>1. block'[v] = block[v] /\ block[v].irp # r
        BY <2>6, <2>9, <3>3
      <4> QED
        BY <2>2, <2>10, <2>11, <3>1, <4>1 DEF Owned, Rest
    <3> QED
      BY <3>2, <3>3
  <2>13. \A y \in Irp : caller'[y] \in {"out", "checked"} =>
           y \notin accepted' /\ completions'[y] = 0
    BY <2>2, <2>7, <2>11 DEF Owned, Rest
  <2> QED
    BY <2>2, <2>8, <2>11, <2>12, <2>13 DEF Owned, Rest
<1>7. ASSUME NEW u \in Unit, FetchStep(u)  PROVE Owned'
  <2>1. FetchEffect(u)
    BY <1>7, FetchEffects
  <2>2. UNCHANGED <<queue, caller, accepted>> /\ block[u].at # "none"
    BY <2>1 DEF FetchEffect, Fetching
  <2>3. PICK r \in Irp : r = block[u].irp
    BY <2>2 DEF Fetches
  <2>4. PICK x \in Block :
          /\ block' = [block EXCEPT ![u] = x]
          /\ \/ x.irp = r /\ UNCHANGED completions
             \/ x = Idle /\ Finish(r)
    BY <2>1, <2>3 DEF FetchEffect, Progress
  <2>5. /\ block'[u] = x /\ \A v \in Unit \ {u} : block'[v] = block[v]
    BY <2>4 DEF Fetches
  <2>6. /\ UnitOf[r] = u /\ r \in accepted /\ completions[r] = 0
        /\ r \notin ToSet(queue[u])
    BY <2>3 DEF Owned
  <2>7. caller[r] \notin {"out", "checked"}
    BY <2>6 DEF Owned
  <2>8. \A v \in Unit \ {u} : r \notin ToSet(queue[v]) /\ block[v].irp # r
    BY <2>6 DEF Owned
  <2>9. CASE x.irp = r /\ UNCHANGED completions
    BY <2>2, <2>3, <2>5, <2>9 DEF Owned
  <2>10. CASE x = Idle /\ completions' = [completions EXCEPT ![r] = @ + 1]
    <3>1. block'[u].irp \notin Irp
      BY <2>5, <2>10, BlockTypes
    <3> QED
      BY <2>2, <2>5, <2>6, <2>7, <2>8, <2>10, <3>1 DEF Owned
  <2> QED
    BY <2>4, <2>9, <2>10 DEF Finish
<1>8. CASE BusStep
  BY <1>1, <1>8 DEF BusStep, DriverEntry, HttpdiskBusAttach, HttpdiskBusIrp,
     HttpDiskUnload, OtherThanBus, irps, answered
<1> QED
  BY <1>1, <1>2, <1>3, <1>4, <1>5, <1>6, <1>7, <1>8
  DEF Next, vars, irps, answered, UnitStep, ThreadStep, FetchStep, CallerStep, Create,
      CreateFails, Connect, AddToBus, Delete, Deleted, Wake, Terminate, Drained

-----------------------------------------------------------------------------
(* The connections                                                         *)

(* A connection of no disk holds nothing, and that of a disk is complete.  *)
LEMMA HoldsStep ==
  ASSUME Holds, NEW u \in Unit, UNCHANGED bus,
         \/ SocketStep(u)
         \/ \E c \in Unused, h \in Left : held' = [held EXCEPT ![c] = h] /\ UNCHANGED socket
  PROVE  Holds'
<1> DEFINE Kept(c) == IF \E v \in Unit : socket[v] = c
                      THEN held[c] = Full ELSE held[c] \in Left
<1>0. {} \in Left /\ Left \subseteq SUBSET Full
  BY DEF Left, Full
<1>1. /\ socket \in [Unit -> Conn \cup {None}] /\ held \in [Conn -> SUBSET Full]
      /\ None \notin Conn
      /\ \A v, w \in Unit : socket[v] = socket[w] => v = w \/ socket[v] = None
      /\ \A c \in Conn : Kept(c)
  BY HttpAssumption DEF Holds, Connections
<1>2. ASSUME /\ socket' \in [Unit -> Conn \cup {None}] /\ held' \in [Conn -> SUBSET Full]
             /\ \A v, w \in Unit : socket'[v] = socket'[w] => v = w \/ socket'[v] = None
             /\ \A c \in Conn : Kept(c)'
      PROVE  Holds'
  BY <1>2 DEF Holds, Connections, BusWhole
<1>3. CASE UNCHANGED <<socket, held>>
  BY <1>1, <1>2, <1>3
<1>4. CASE Close(u)
  <2>1. /\ held' = [c \in Conn |-> IF c = socket[u] THEN close(held[c]) ELSE held[c]]
        /\ socket' = [socket EXCEPT ![u] = None]
    BY <1>4 DEF Close
  <2>2. /\ socket' \in [Unit -> Conn \cup {None}]
        /\ socket'[u] = None /\ \A v \in Unit \ {u} : socket'[v] = socket[v]
    BY <1>1, <2>1
  <2>3. ASSUME NEW c \in Conn PROVE Kept(c)'
    <3>1. CASE c = socket[u]
      <4>1. held'[c] = {}
        BY <1>1, <2>1, <3>1, Given
      <4>2. \A v \in Unit : socket'[v] # c
        BY <1>1, <2>2, <3>1
      <4> QED
        BY <1>0, <4>1, <4>2
    <3>2. CASE c # socket[u]
      <4>1. held'[c] = held[c] /\ \A v \in Unit : socket'[v] = c <=> socket[v] = c
        BY <1>1, <2>1, <2>2, <3>2
      <4> QED
        BY <1>1, <4>1
    <3> QED
      BY <3>1, <3>2
  <2>4. held' \in [Conn -> SUBSET Full]
    BY <1>1, <2>1, Given
  <2> QED
    BY <1>1, <1>2, <2>2, <2>3, <2>4
<1>5. ASSUME NEW c \in Unused, socket[u] = None, held' = [held EXCEPT ![c] = Full],
             socket' = [socket EXCEPT ![u] = c]
      PROVE  Holds'
  <2>1. c \in Conn /\ held[c] = {} /\ \A v \in Unit : socket[v] # c
    BY <1>1, Given DEF Unused
  <2>2. /\ socket' \in [Unit -> Conn \cup {None}] /\ held' \in [Conn -> SUBSET Full]
        /\ socket'[u] = c /\ \A v \in Unit \ {u} : socket'[v] = socket[v]
    BY <1>1, <1>5, <2>1
  <2>3. ASSUME NEW d \in Conn PROVE Kept(d)'
    <3>1. CASE d = c
      BY <1>1, <1>5, <2>1, <2>2, <3>1
    <3>2. CASE d # c
      <4>1. held'[d] = held[d] /\ \A v \in Unit : socket'[v] = d <=> socket[v] = d
        BY <1>1, <1>5, <2>2, <3>2
      <4> QED
        BY <1>1, <4>1
    <3> QED
      BY <3>1, <3>2
  <2> QED
    BY <1>1, <1>2, <2>1, <2>2, <2>3
<1>6. ASSUME NEW c \in Unused, NEW h \in Left, held' = [held EXCEPT ![c] = h],
             UNCHANGED socket
      PROVE  Holds'
  <2>1. c \in Conn /\ \A v \in Unit : socket[v] # c
    BY <1>1, Given DEF Unused
  <2>2. held' \in [Conn -> SUBSET Full]
    BY <1>0, <1>1, <1>6, <2>1
  <2>3. ASSUME NEW d \in Conn PROVE Kept(d)'
    BY <1>1, <1>6, <2>1
  <2> QED
    BY <1>1, <1>2, <1>6, <2>2, <2>3
<1> QED
  BY <1>3, <1>4, <1>5, <1>6 DEF SocketStep, sockets

(* The bus is established as a whole, or what there is of it is given back.*)
LEMMA Establishing ==
  \A o \in HttpdiskBusEstablish :
    IF o.ok THEN o.held = {"Fdo", "object", "link"} \cup {"dummy"}
    ELSE o.held \in {{}, {"Fdo"}, {"Fdo", "object", "link"}}
<1> USE DoneOrFailed
<1>1. \A o \in FdoCreated : o \in {Fails({}), Done({"Fdo", "object"})}
  BY DEF FdoCreated, Tries
<1>2. \A o \in Linked({"Fdo", "object"}) :
        o \in {Fails({"Fdo"}), Done({"Fdo", "object", "link"})}
  <2>1. {"Fdo", "object"} \ {"object"} = {"Fdo"}
    OBVIOUS
  <2>2. {"Fdo", "object"} \cup {"link"} = {"Fdo", "object", "link"}
    OBVIOUS
  <2> QED
    BY <2>1, <2>2 DEF Linked
<1>3. \A o \in HttpdiskBusCreateFdo :
        o \in {Fails({}), Fails({"Fdo"}), Done({"Fdo", "object", "link"})}
  BY <1>1, <1>2 DEF HttpdiskBusCreateFdo, Then
<1>4. \A h : \A o \in HttpdiskBusCreatePdo(h) : o \in {Fails(h), Done(h \cup {"dummy"})}
  BY DEF HttpdiskBusCreatePdo, Tries
<1>5. \A o \in HttpdiskBusEstablish :
        o \in {Fails({}), Fails({"Fdo"}), Fails({"Fdo", "object", "link"}),
               Done({"Fdo", "object", "link"} \cup {"dummy"})}
  BY <1>3, <1>4 DEF HttpdiskBusEstablish, Then
<1> QED
  BY <1>5

LEMMA HoldsBus ==
  ASSUME Holds, BusStep
  PROVE  Holds'
<1> DEFINE Whole(b) == b \cap {"object", "link"} # {} => {"Fdo", "object"} \subseteq b
<1>1. UNCHANGED <<socket, held>>
  BY DEF BusStep, DriverEntry, HttpdiskBusAttach, HttpdiskBusIrp, HttpDiskUnload,
         OtherThanBus, sockets
<1>2. Whole(bus)
  BY DEF Holds, BusWhole
<1>3. ASSUME NEW b, Whole(b)  PROVE Whole(HttpdiskBusDeleteFdo(b))
  BY <1>3 DEF HttpdiskBusDeleteFdo
<1>4. ASSUME NEW b, NEW c, Whole(b), c \cap {"object", "link"} = {}
      PROVE  Whole(b \cup c) /\ (c \cap {"Fdo"} = {} => Whole(b \ c))
  BY <1>4
<1>5. CASE DriverEntry
  <2>1. PICK o \in HttpdiskBusEstablish :
          bus' = IF o.ok THEN o.held \cup {"loaded"}
                 ELSE HttpdiskBusDeleteFdo(o.held) \cup {"unloaded"}
    BY <1>5 DEF DriverEntry
  <2>2. o.ok => bus' = {"Fdo", "object", "link", "dummy"} \cup {"loaded"}
    <3> SUFFICES ASSUME o.ok PROVE bus' = {"Fdo", "object", "link", "dummy"} \cup {"loaded"}
      OBVIOUS
    <3>1. o.held = {"Fdo", "object", "link"} \cup {"dummy"}
      BY Establishing
    <3> QED
      BY <2>1, <3>1
  <2>3. ~o.ok => bus' = {} \cup {"unloaded"}
    <3> SUFFICES ASSUME ~o.ok PROVE bus' = {} \cup {"unloaded"}
      OBVIOUS
    <3>1. o.held \in {{}, {"Fdo"}, {"Fdo", "object", "link"}}
      BY Establishing
    <3>2. HttpdiskBusDeleteFdo(o.held) = {}
      BY <3>1 DEF HttpdiskBusDeleteFdo
    <3> QED
      BY <2>1, <3>2
  <2>4. Whole(bus')
    <3>1. CASE bus' = {"Fdo", "object", "link", "dummy"} \cup {"loaded"}
      BY <3>1
    <3>2. CASE bus' = {} \cup {"unloaded"}
      BY <3>2
    <3> QED
      BY <2>2, <2>3, <3>1, <3>2
  <2> QED
    BY <1>1, <2>4 DEF Holds, Connections, BusWhole
<1>6. CASE HttpdiskBusAttach
  <2>1. \E attached \in {{}, {"LowerDeviceObject"}} : bus' = bus \cup {"Pdo"} \cup attached
    BY <1>6 DEF HttpdiskBusAttach
  <2>2. Whole(bus')
    BY <1>2, <2>1
  <2> QED
    BY <1>1, <2>2 DEF Holds, Connections, BusWhole
<1>7. CASE HttpdiskBusIrp \/ HttpDiskUnload
  <2>1. Whole(HttpdiskBusDeleteFdo(bus))
    BY <1>2, <1>3
  <2>2. Whole(bus')
    BY <1>7, <2>1 DEF HttpdiskBusIrp, HttpDiskUnload
  <2> QED
    BY <1>1, <2>2 DEF Holds, Connections, BusWhole
<1> QED
  BY <1>5, <1>6, <1>7 DEF BusStep

LEMMA HoldsNext ==
  ASSUME Fetches, Owned, Holds, Streams, [Next]_vars
  PROVE  Holds'
<1>1. CASE UNCHANGED <<bus, socket, held>>
  BY <1>1 DEF Holds, Connections, BusWhole
<1>2. CASE BusStep
  BY <1>2, HoldsBus
<1>3. ASSUME NEW u \in Unit, Connect(u)  PROVE Holds'
  <2>1. PICK c \in Unused : \E o \in HttpDiskGetHeader : held' = [held EXCEPT ![c] = o.held]
    BY <1>3 DEF Connect
  <2>2. (\E h \in Left : held' = [held EXCEPT ![c] = h]) /\ UNCHANGED <<bus, socket>>
    BY <1>3, <2>1, Asking DEF Connect
  <2> QED
    BY <1>3, <2>2, HoldsStep
<1>4. ASSUME NEW u \in Unit, Terminate(u)  PROVE Holds'
  <2>1. CASE Close(u)
    BY <1>4, <2>1, HoldsStep DEF SocketStep, Terminate
  <2> QED
    BY <1>1, <1>4, <2>1 DEF Terminate, Disconnect, sockets
<1>5. ASSUME NEW u \in Unit, FetchStep(u)  PROVE Holds'
  <2>1. SocketStep(u) /\ UNCHANGED bus
    BY <1>5, FetchEffects DEF FetchEffect, Fetching, device
  <2> QED
    BY <2>1, HoldsStep
<1> QED
  BY <1>1, <1>2, <1>3, <1>4, <1>5
  DEF Next, vars, device, sockets, UnitStep, ThreadStep, FetchStep, CallerStep, Create,
      CreateFails, AddToBus, Delete, Deleted, Wake, Take, Drained, Enter, Refuse, Control, Insert, Signal

-----------------------------------------------------------------------------
(* What is on a connection                                                 *)

(* A step of one disk leaves the streams of the others alone.              *)
LEMMA StreamsStep ==
  ASSUME Fetches, Holds, Streams, NEW u \in Unit, SocketStep(u), StreamOf(u)', Own',
         block' = [block EXCEPT ![u] = block'[u]]
  PROVE  Streams'
<1>1. /\ socket \in [Unit -> Conn \cup {None}] /\ stream \in [Conn -> Seq(Piece)]
      /\ \A v \in Unit : socket[v] # None => held[socket[v]] # {}
      /\ \A v \in Unit \ {u} : socket[v] # None => socket[v] # socket[u]
      /\ \A v \in Unit \ {u} : block'[v] = block[v]
  <2>1. /\ socket \in [Unit -> Conn \cup {None}] /\ stream \in [Conn -> Seq(Piece)]
        /\ \A v, w \in Unit : socket[v] = socket[w] => v = w \/ socket[v] = None
        /\ DOMAIN block = Unit
    BY DEF Holds, Streams, Fetches
  <2>2. \A v \in Unit : socket[v] # None => held[socket[v]] # {}
    BY <2>1, Given DEF Holds, Connections
  <2> QED
    BY <2>1, <2>2
<1>2. /\ stream' \in [Conn -> Seq(Piece)]
      /\ \A v \in Unit \ {u} :
           /\ socket'[v] = socket[v]
           /\ socket[v] # None => stream'[socket[v]] = stream[socket[v]]
  <2>1. CASE UNCHANGED sockets
    BY <1>1, <2>1 DEF sockets
  <2>4. CASE Close(u)
    BY <1>1, <2>4, EmptySeq DEF Close
  <2>2. ASSUME NEW c \in Unused,
               \/ /\ socket' = [socket EXCEPT ![u] = c]
                  /\ stream' = [stream EXCEPT ![c] = <<>>]
               \/ UNCHANGED <<socket, stream>>
        PROVE  /\ stream' \in [Conn -> Seq(Piece)]
               /\ \A v \in Unit \ {u} :
                    /\ socket'[v] = socket[v]
                    /\ socket[v] # None => stream'[socket[v]] = stream[socket[v]]
    <3>1. /\ c \in Conn /\ \A v \in Unit : socket[v] # None => socket[v] # c
          /\ <<>> \in Seq(Piece)
      BY <1>1, EmptySeq DEF Unused
    <3>2. CASE UNCHANGED <<socket, stream>>
      BY <1>1, <3>2
    <3>3. CASE /\ socket' = [socket EXCEPT ![u] = c]
               /\ stream' = [stream EXCEPT ![c] = <<>>]
      BY <1>1, <3>1, <3>3
    <3> QED
      BY <2>2, <3>2, <3>3
  <2>3. ASSUME socket[u] # None, UNCHANGED socket,
               NEW s \in Seq(Piece), stream' = [stream EXCEPT ![socket[u]] = s]
        PROVE  /\ stream' \in [Conn -> Seq(Piece)]
               /\ \A v \in Unit \ {u} :
                    /\ socket'[v] = socket[v]
                    /\ socket[v] # None => stream'[socket[v]] = stream[socket[v]]
    BY <1>1, <2>3
  <2> QED
    BY <2>1, <2>2, <2>3, <2>4 DEF SocketStep
<1>3. ASSUME NEW v \in Unit \ {u}  PROVE StreamOf(v)'
  <2>1. StreamOf(v)
    BY DEF Streams
  <2>2. block'[v] = block[v]
    BY <1>1
  <2>3. /\ socket'[v] = socket[v]
        /\ socket[v] # None => stream'[socket[v]] = stream[socket[v]]
    BY <1>2
  <2> QED
    BY <2>1, <2>2, <2>3 DEF StreamOf
<1> QED
  BY <1>2, <1>3 DEF Streams

LEMMA StreamsNext ==
  ASSUME Fetches, Owned, Holds, Streams, [Next]_vars
  PROVE  Streams'
<1>1. CASE UNCHANGED <<stream, socket, block, given>>
  BY <1>1, OwnKept DEF Streams, StreamOf
<1>2. ASSUME NEW u \in Unit, Terminate(u)  PROVE Streams'
  <2>1. UNCHANGED <<block, given>> /\ block[u].at = "none"
    BY <1>2 DEF Terminate, Fetches, irps, answered
  <2>2. block[u].got = <<>> /\ Own'
    BY <2>1, OwnKept DEF Streams, StreamOf
  <2>3. CASE Close(u)
    <3>1. SocketStep(u) /\ StreamOf(u)'
      BY <2>1, <2>2, <2>3, ClosedStream
    <3>2. block' = [block EXCEPT ![u] = block'[u]]
      BY <2>1 DEF Fetches
    <3> QED
      BY <2>2, <3>1, <3>2, StreamsStep
  <2> QED
    BY <1>1, <1>2, <2>1, <2>3 DEF Terminate, Disconnect, sockets
<1>3. ASSUME NEW u \in Unit, Take(u)  PROVE Streams'
  <2>1. PICK x \in Block :
          /\ block' = [block EXCEPT ![u] = x] /\ block[u] = Idle
          /\ (\E m \in {"none", "read", "scsi"} : x = Starting(Head(queue[u]), m, 2))
             \/ x = Idle
    BY <1>3, TakeFetches
  <2>2. Head(queue[u]) \in Irp /\ UNCHANGED sockets /\ Own'
    BY <1>3, TakeFirst, TakeFetches, OwnKept DEF Take, Owned, Streams
  <2>3. block'[u] = x /\ x.at \in {"none", "start"} /\ x.got = <<>>
    BY <2>1, <2>2, BlockTypes DEF Fetches
  <2>4. StreamOf(u)'
    BY <2>1, <2>2, <2>3, BlockTypes DEF Streams, StreamOf, sockets
  <2> QED
    BY <2>1, <2>2, <2>3, <2>4, StreamsStep DEF SocketStep
<1>4. ASSUME NEW u \in Unit, FetchStep(u)  PROVE Streams'
  BY <1>4, FetchEffects, StreamsStep DEF FetchEffect
<1> QED
  BY <1>1, <1>2, <1>3, <1>4
  DEF Next, vars, sockets, irps, answered, BusStep, DriverEntry, HttpdiskBusAttach, HttpdiskBusIrp,
      HttpDiskUnload, OtherThanBus, UnitStep, ThreadStep, FetchStep, CallerStep, Create,
      CreateFails, Connect, AddToBus, Delete, Deleted, Wake, Drained, Enter, Refuse,
      Control, Insert, Signal

-----------------------------------------------------------------------------
(* The events                                                              *)

LEMMA WokenNext ==
  ASSUME Fetches, Owned, Holds, Streams, Woken, [Next]_vars
  PROVE  Woken'
<1> USE DEF Woken, WakeupKept
<1>0. /\ DOMAIN life = Unit /\ DOMAIN thread = Unit /\ DOMAIN queue = Unit
      /\ DOMAIN caller = Irp /\ \A r \in Irp : UnitOf[r] \in Unit
  BY HttpAssumption DEF Fetches, Owned
<1>1. CASE /\ UNCHANGED <<event, queue, thread, caller>>
           /\ \A u \in Unit : life'[u] = "none" => life[u] = "none"
  BY <1>0, <1>1
<1>2. ASSUME NEW u \in Unit, Create(u) \/ CreateFails(u)  PROVE Woken'
  BY <1>0, <1>2 DEF Create, CreateFails, irps
<1>3. ASSUME NEW u \in Unit, Connect(u) \/ AddToBus(u) \/ Delete(u) \/ Deleted(u)
      PROVE  Woken'
  <2>1. UNCHANGED <<queue, thread, caller>> /\ event' \in {event, [event EXCEPT ![u] = TRUE]}
    BY <1>3 DEF Connect, AddToBus, Delete, Deleted, irps
  <2>2. \A v \in Unit : life'[v] = "none" => life[v] = "none"
    BY <1>0, <1>3 DEF Connect, AddToBus, Delete, Deleted
  <2>3. DOMAIN event' = Unit /\ \A v \in Unit : event[v] => event'[v]
    BY <2>1
  <2> QED
    BY <1>0, <2>1, <2>2, <2>3
<1>4. ASSUME NEW u \in Unit, Wake(u) \/ Terminate(u)  PROVE Woken'
  BY <1>0, <1>4 DEF Wake, Terminate, device, irps
<1>5. ASSUME NEW u \in Unit, Take(u)  PROVE Woken'
  <2>1. queue' = [queue EXCEPT ![u] = Tail(@)] /\ queue[u] # <<>> /\ thread[u] = "draining"
    BY <1>5 DEF Take
  <2>2. UNCHANGED <<life, event, thread, caller>>
    BY <1>5 DEF Take, device
  <2> QED
    BY <1>0, <2>1, <2>2
<1>6. ASSUME NEW u \in Unit, Drained(u)  PROVE Woken'
  BY <1>0, <1>6 DEF Drained, device, irps
<1>7. ASSUME NEW r \in Irp, Enter(r) \/ Refuse(r) \/ Control(r)  PROVE Woken'
  <2>1. /\ UNCHANGED <<life, event, queue, thread>> /\ caller[r] = "out"
        /\ life[UnitOf[r]] # "none"
        /\ \E at \in {"checked", "done"} : caller' = [caller EXCEPT ![r] = at]
    BY <1>7 DEF Enter, Refuse, Control, device
  <2> QED
    BY <1>0, <2>1
<1>8. ASSUME NEW r \in Irp, Insert(r)  PROVE Woken'
  BY <1>0, <1>8 DEF Insert, device
<1>9. ASSUME NEW r \in Irp, Signal(r)  PROVE Woken'
  BY <1>0, <1>9 DEF Signal, device
<1>10. ASSUME NEW u \in Unit, FetchStep(u)  PROVE Woken'
  BY <1>1, <1>10, FetchEffects DEF FetchEffect, Fetching, device
<1>11. CASE BusStep
  BY <1>1, <1>11 DEF BusStep, DriverEntry, HttpdiskBusAttach, HttpdiskBusIrp,
     HttpDiskUnload, OtherThanBus, irps
<1> QED
  BY <1>1, <1>2, <1>3, <1>4, <1>5, <1>6, <1>7, <1>8, <1>9, <1>10, <1>11
  DEF Next, vars, device, irps, UnitStep, ThreadStep, FetchStep, CallerStep

-----------------------------------------------------------------------------
(* The theorems                                                            *)

LEMMA Inductive == Spec => []IInv
<1>1. IInv /\ [Next]_vars => IInv'
  BY FetchesNext, OwnedNext, HoldsNext, StreamsNext, WokenNext DEF IInv
<1> QED
  BY <1>1, IInvInit, PTL DEF Spec

(* What a request was completed with is what the server has sent for it,   *)
(* from its beginning and in order, and a read is told how much it is.     *)
THEOREM BytesAreOwn == Spec => []OwnBytes
<1>1. IInv => OwnBytes
  BY DEF IInv, Streams, Own
<1> QED
  BY <1>1, Inductive, PTL

(* Where a pointer is no wider than an int: connections, and the device and*)
(* the link of the bus, are given back whatever call fails and whenever the*)
(* thread or the driver ends.                                              *)
THEOREM NothingStays ==
  ASSUME ~Wide
  PROVE  Spec => []NothingLeftBehind
<1>1. IInv => NothingLeftBehind
  BY DEF IInv, Holds, Connections, BusWhole, Left, Full, NothingLeftBehind
<1> QED
  BY <1>1, Inductive, PTL

(* No wake-up is lost between the thread finding the queue empty and its   *)
(* waiting.                                                                *)
THEOREM NoWakeupLost == Spec => []WakeupKept
<1>1. IInv => WakeupKept
  BY DEF IInv, Woken
<1> QED
  BY <1>1, Inductive, PTL

-----------------------------------------------------------------------------
(* The refinement: the insertion of a request is its acceptance; what the  *)
(* dispatcher and the thread finish is its completion.                     *)

LEMMA FinishCompletes ==
  ASSUME Owned, NEW r \in Irp, completions[r] = 0, Finish(r), UNCHANGED accepted
  PROVE  Abstract!Complete({r})
<1>1. completions' = [x \in Irp |-> IF x \in {r} THEN 1 ELSE completions[x]]
  <2>1. completions \in [Irp -> Nat] /\ completions' = [completions EXCEPT ![r] = @ + 1]
    BY DEF Owned, Finish
  <2>2. \A x \in Irp : completions'[x] = IF x = r THEN 1 ELSE completions[x]
    BY <2>1
  <2> QED
    BY <2>1, <2>2
<1> QED
  BY <1>1 DEF Abstract!Complete

LEMMA AbstractNext ==
  ASSUME IInv, [Next]_vars
  PROVE  [Abstract!Next]_(Abstract!vars)
<1> USE DEF Abstract!vars
<1>0. Fetches /\ Owned /\ Holds /\ Streams
  BY DEF IInv
<1>1. CASE UNCHANGED <<accepted, completions>>
  BY <1>1
<1>2. ASSUME NEW r \in Irp, Insert(r)  PROVE Abstract!Next
  BY <1>0, <1>2 DEF Insert, Owned, answered, Abstract!Next, Abstract!Accept
<1>3. ASSUME NEW r \in Irp, completions[r] = 0, Finish(r), UNCHANGED accepted
      PROVE  Abstract!Next
  <2>1. {r} \in SUBSET Irp
    OBVIOUS
  <2> QED
    BY <1>0, <1>3, <2>1, FinishCompletes DEF Abstract!Next
<1>4. ASSUME NEW r \in Irp, Refuse(r) \/ Control(r)  PROVE Abstract!Next
  BY <1>0, <1>3, <1>4 DEF Refuse, Control, Owned
<1>5. ASSUME NEW u \in Unit, Take(u)  PROVE [Abstract!Next]_(Abstract!vars)
  <2>1. PICK r \in Irp : r = Head(queue[u])
    BY <1>0, <1>5, TakeFirst DEF Take, Owned
  <2>2. completions[r] = 0 /\ UNCHANGED accepted
    BY <1>0, <1>5, <2>1, TakeFirst DEF Take, Owned
  <2>3. UNCHANGED completions \/ Finish(r)
    BY <1>5, <2>1 DEF Take, answered
  <2> QED
    BY <1>1, <1>3, <2>2, <2>3
<1>6. ASSUME NEW u \in Unit, FetchStep(u)  PROVE [Abstract!Next]_(Abstract!vars)
  <2>1. /\ UNCHANGED accepted /\ block[u].at # "none"
        /\ UNCHANGED completions \/ Finish(block[u].irp)
    BY <1>0, <1>6, FetchEffects DEF FetchEffect, Fetching, Progress
  <2>2. PICK r \in Irp : r = block[u].irp
    BY <1>0, <2>1 DEF Fetches
  <2>3. completions[r] = 0
    BY <1>0, <2>2 DEF Owned
  <2> QED
    BY <1>1, <1>3, <2>1, <2>2, <2>3
<1> QED
  BY <1>1, <1>2, <1>4, <1>5, <1>6
  DEF Next, vars, irps, answered, BusStep, DriverEntry, HttpdiskBusAttach, HttpdiskBusIrp,
      HttpDiskUnload, OtherThanBus, UnitStep, ThreadStep, FetchStep, CallerStep, Create,
      CreateFails, Connect, AddToBus, Delete, Deleted, Wake, Terminate, Drained, Enter,
      Signal

(* A request is accepted and completed at most once.                       *)
THEOREM RequestsServedOnce == Spec => ImplementsIrps
<1>1. Init => Abstract!Init
  BY DEF Init, Abstract!Init
<1>2. IInv /\ [Next]_vars => [Abstract!Next]_(Abstract!vars)
  BY AbstractNext
<1> QED
  BY <1>1, <1>2, Inductive, PTL DEF Spec, ImplementsIrps, Abstract!Spec
=============================================================================
