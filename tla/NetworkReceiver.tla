--------------------------- MODULE NetworkReceiver ---------------------------
(***************************************************************************)
(* phonevr::NetworkReceiver, the host's network component, with the part   *)
(* of WinMain that owns it.  Three threads: the main thread (start, stop,  *)
(* the destructor), the control thread (TCP: select, accept, recv) and the *)
(* video thread (UDP: recvfrom).  The two receiving threads share the one  *)
(* member array recv_buffer_, and process_packet reads it several times    *)
(* (header, then CRC over the payload, then the copy of the payload), so   *)
(* each of these reads is a step of its own.                               *)
(*                                                                         *)
(* DATA.  A packet is its sender and its number, and travels as two units, *)
(* a header and a body.  Unit number p of a sender is the header of packet *)
(* (p + 1) \div 2 when p is odd and its body when p is even, so a TCP      *)
(* stream is two positions: how many units were written and how many were  *)
(* read.  recv may return any number of the units that are there.  The     *)
(* magic number tells a header from a body, and the CRC is right exactly   *)
(* for the body that belongs to the header (collisions are left out).      *)
(*                                                                         *)
(* The sockets, the network and the peers are external; they are modelled  *)
(* from how the code uses them.                                            *)
(***************************************************************************)
EXTENDS Naturals, Sequences

CONSTANTS
    Clients,        \* TCP connections that may reach the control port
    Udp,            \* the sender of the datagrams that reach the video port
    NoClient,       \* the control thread is serving nobody
    TcpTraffic,     \* what each connection sends: a sequence of packet forms
    UdpTraffic,     \* what the datagram sender sends
    MaxCopies,      \* copies the network makes of one datagram (0 is a loss)
    MaxBacklog,     \* connections waiting for accept (the 5 of listen(_, 5))
    BufferUnits     \* units that fit in recv_buffer_

\* PacketType, with "runt" for a tracking or video packet whose payload is
\* smaller than the structure it should hold.
PacketForm == {"tracking", "video", "control", "other", "runt"}

ASSUME SenderAssumption == Udp \notin Clients /\ NoClient \notin Clients
ASSUME TrafficAssumption ==
    TcpTraffic \in Seq(PacketForm) /\ UdpTraffic \in Seq(PacketForm)
ASSUME BoundAssumption ==
    /\ MaxCopies \in Nat /\ MaxBacklog \in Nat
    /\ BufferUnits \in Nat \ {0, 1}

VARIABLES
    main,           \* where the main thread is
    running,        \* running_
    control_socket, \* control_socket_
    video_socket,   \* video_socket_
    pc,             \* where the control and the video thread are
    serving,        \* client, the connection the control thread accepted
    recv_buffer,    \* recv_buffer_
    bytes,          \* bytes, the result of each thread's last recv, in units
    header,         \* header, each thread's copy of the packet header
    conn,           \* the state of each TCP connection
    backlog,        \* connections that wait for accept
    written,        \* units each connection's peer has written
    consumed,       \* units of each connection the control thread has read
    datagrams,      \* datagrams[n]: copies of datagram n still under way
    posted,         \* datagrams sent
    log             \* history: what the callbacks were given, by sender

mainVars   == <<main, running, control_socket, video_socket>>
threadVars == <<pc, serving, recv_buffer, bytes, header, log>>
netVars    == <<conn, backlog, written, consumed, datagrams, posted>>
vars       == <<mainVars, threadVars, netVars>>

Threads == {"control", "video"}
Places  == {"none", "check", "select", "accept", "inner", "recv", "parse", "crc", "copy",
            "done"}
Senders == Clients \cup {Udp}

Traffic(s)  == IF s = Udp THEN UdpTraffic ELSE TcpTraffic
MaxUnits(s) == 2 * Len(Traffic(s))

Unit   == {u \in [from : Senders, pos : Nat] : u.pos \in 1 .. MaxUnits(u.from)}
NoUnit == [from |-> NoClient, pos |-> 0]    \* never written

IsHeader(u) == u.pos % 2 = 1
BodyOf(h)   == [h EXCEPT !.pos = @ + 1]
Number(h)   == (h.pos + 1) \div 2
Form(h)     == Traffic(h.from)[Number(h)]

Init ==
    /\ main = "new"
    /\ running = FALSE
    /\ control_socket = "invalid"
    /\ video_socket = "invalid"
    /\ pc = [t \in Threads |-> "none"]
    /\ serving = NoClient
    /\ recv_buffer = [i \in 1 .. BufferUnits |-> NoUnit]
    /\ bytes = [t \in Threads |-> 0]
    /\ header = [t \in Threads |-> NoUnit]
    /\ conn = [c \in Clients |-> "idle"]
    /\ backlog = <<>>
    /\ written = [c \in Clients |-> 0]
    /\ consumed = [c \in Clients |-> 0]
    /\ datagrams = [n \in 1 .. Len(UdpTraffic) |-> 0]
    /\ posted = 0
    /\ log = [s \in Senders |-> <<>>]

-----------------------------------------------------------------------------
(* The main thread: WinMain, start, stop and the destructor. *)

\* start, first half.  socket and bind may fail; listen's result is ignored.
StartControlSocket ==
    /\ main = "new"
    /\ running' = TRUE
    /\ \/ control_socket' = "invalid" /\ main' = "failed"
       \/ control_socket' = "unbound" /\ main' = "failed"
       \/ control_socket' = "listening" /\ main' = "starting"
    /\ UNCHANGED <<video_socket, threadVars, netVars>>

\* start, second half: the threads begin only when both sockets are there.  A
\* failure leaves running_ TRUE and the sockets open for the destructor.
StartVideoSocket ==
    /\ main = "starting"
    /\ \/ /\ video_socket' \in {"invalid", "unbound"}
          /\ main' = "failed"
          /\ UNCHANGED pc
       \/ /\ video_socket' = "bound"
          /\ main' = "running"
          /\ pc' = [t \in Threads |-> "check"]
    /\ UNCHANGED <<running, control_socket, serving, recv_buffer, bytes, header, log,
                   netVars>>

\* Mutant: stop forgets to clear the flag its threads poll.
LeaveRunning == UNCHANGED running

ClearRunning == running' = FALSE

\* The message loop ends, or WinMain returns early and the destructor runs.
StopBegins ==
    /\ main \in {"new", "running", "failed"}
    /\ ClearRunning
    /\ main' = "closeControl"
    /\ UNCHANGED <<control_socket, video_socket, threadVars, netVars>>

\* Closing a listening socket resets the connections that wait for accept.
CloseControlSocket ==
    /\ main = "closeControl"
    /\ control_socket' = "invalid"
    /\ conn' = [c \in Clients |->
                  IF \E i \in 1 .. Len(backlog) : backlog[i] = c THEN "closed" ELSE conn[c]]
    /\ backlog' = <<>>
    /\ main' = "closeVideo"
    /\ UNCHANGED <<running, video_socket, threadVars, written, consumed, datagrams, posted>>

CloseVideoSocket ==
    /\ main = "closeVideo"
    /\ video_socket' = "invalid"
    /\ main' = "joinControl"
    /\ UNCHANGED <<running, control_socket, threadVars, netVars>>

Ended(t) == pc[t] \in {"none", "done"}

\* Mutant: the thread is detached, not joined.
Detach(t) == TRUE

\* A thread that was never started is not joinable.
Join(t) == Ended(t)

JoinControlThread ==
    /\ main = "joinControl"
    /\ Join("control")
    /\ main' = "joinVideo"
    /\ UNCHANGED <<running, control_socket, video_socket, threadVars, netVars>>

JoinVideoThread ==
    /\ main = "joinVideo"
    /\ Join("video")
    /\ main' = "stopped"
    /\ UNCHANGED <<running, control_socket, video_socket, threadVars, netVars>>

\* The destructor's stop finds everything closed and joined.
Destroy ==
    /\ main = "stopped"
    /\ ClearRunning
    /\ main' = "exited"
    /\ UNCHANGED <<control_socket, video_socket, threadVars, netVars>>

Stop ==
    \/ CloseControlSocket \/ CloseVideoSocket
    \/ JoinControlThread \/ JoinVideoThread \/ Destroy

MainThread == StartControlSocket \/ StartVideoSocket \/ StopBegins \/ Stop

-----------------------------------------------------------------------------
(* The control thread. *)

Go(t, place) == pc' = [pc EXCEPT ![t] = place]

ControlLoop ==
    /\ pc["control"] = "check"
    /\ Go("control", IF running THEN "select" ELSE "done")
    /\ UNCHANGED <<mainVars, serving, recv_buffer, bytes, header, log, netVars>>

\* select: a connection waits, or 100 ms pass, or the socket was closed.
Select ==
    /\ pc["control"] = "select"
    /\ Go("control", IF control_socket = "listening" /\ backlog # <<>>
                     THEN "accept" ELSE "check")
    /\ UNCHANGED <<mainVars, serving, recv_buffer, bytes, header, log, netVars>>

\* The socket may have been closed since select: then there is no client.
Accept ==
    /\ pc["control"] = "accept"
    /\ IF control_socket = "listening"
       THEN /\ backlog # <<>>
            /\ serving' = Head(backlog)
            /\ backlog' = Tail(backlog)
            /\ Go("control", "inner")
       ELSE /\ Go("control", "check")
            /\ UNCHANGED <<serving, backlog>>
    /\ UNCHANGED <<mainVars, recv_buffer, bytes, header, log, conn, written, consumed,
                   datagrams, posted>>

InnerLoop ==
    /\ pc["control"] = "inner"
    /\ running
    /\ Go("control", "recv")
    /\ UNCHANGED <<mainVars, serving, recv_buffer, bytes, header, log, netVars>>

Unread(c) == written[c] - consumed[c]

\* The kernel fills the front of recv_buffer_; the rest keeps what it held.
Fill(t, s, first, n) ==
    /\ recv_buffer' = [i \in 1 .. BufferUnits |->
                         IF i <= n THEN [from |-> s, pos |-> first + i] ELSE recv_buffer[i]]
    /\ bytes' = [bytes EXCEPT ![t] = n]
    /\ Go(t, "parse")

\* Mutant: recv is told of more room than recv_buffer_ has.
RecvRoomTooLarge == BufferUnits + 1

RecvRoom == BufferUnits

\* Mutant: recv leaves what it returned in the socket (MSG_PEEK).
PeekUnits(n) == UNCHANGED consumed

TakeUnits(n) == consumed' = [consumed EXCEPT ![serving] = @ + n]

ControlRecv ==
    /\ pc["control"] = "recv"
    /\ \E n \in 1 .. RecvRoom :
         /\ n <= Unread(serving)
         /\ Fill("control", serving, consumed[serving], n)
         /\ TakeUnits(n)
    /\ UNCHANGED <<mainVars, serving, header, log, conn, backlog, written, datagrams, posted>>

\* Mutant: the accepted socket is forgotten, not closed.
ForgetClient == UNCHANGED conn

CloseClient == conn' = [conn EXCEPT ![serving] = "closed"]

\* running_ is FALSE, or the peer is gone and recv returns 0 or an error (after
\* a reset what was not read is lost): leave the inner loop and close.
HangUp ==
    /\ \/ pc["control"] = "inner" /\ ~running
       \/ pc["control"] = "recv" /\ conn[serving] = "finished"
    /\ CloseClient
    /\ serving' = NoClient
    /\ Go("control", "check")
    /\ UNCHANGED <<mainVars, recv_buffer, bytes, header, log, backlog, written, consumed,
                   datagrams, posted>>

-----------------------------------------------------------------------------
(* The video thread. *)

VideoLoop ==
    /\ pc["video"] = "check"
    /\ Go("video", IF running THEN "recv" ELSE "done")
    /\ UNCHANGED <<mainVars, serving, recv_buffer, bytes, header, log, netVars>>

\* A datagram arrives whole; any copy under way may be the next to arrive.
VideoRecv ==
    /\ pc["video"] = "recv"
    /\ video_socket = "bound"
    /\ \E n \in DOMAIN datagrams :
         /\ datagrams[n] > 0
         /\ datagrams' = [datagrams EXCEPT ![n] = @ - 1]
         /\ Fill("video", Udp, 2 * (n - 1), 2)
    /\ UNCHANGED <<mainVars, serving, header, log, conn, backlog, written, consumed, posted>>

\* 100 ms without a datagram, or the socket was closed: bytes is negative.
VideoRecvFails ==
    /\ pc["video"] = "recv"
    /\ Go("video", "check")
    /\ UNCHANGED <<mainVars, serving, recv_buffer, bytes, header, log, netVars>>

-----------------------------------------------------------------------------
(* process_packet and parse_packet, in either thread. *)

\* Where the receive loop goes on: while (running_) of the thread.
Resume(t) == Go(t, IF t = "control" THEN "inner" ELSE "check")

\* The header is copied out of recv_buffer_; it must be one, and the payload
\* it announces must have been received with it.
ParseHeader(t) ==
    /\ pc[t] = "parse"
    /\ IF IsHeader(recv_buffer[1]) /\ bytes[t] >= 2
       THEN /\ header' = [header EXCEPT ![t] = recv_buffer[1]]
            /\ Go(t, "crc")
       ELSE /\ Resume(t)
            /\ UNCHANGED header
    /\ UNCHANGED <<mainVars, serving, recv_buffer, bytes, log, netVars>>

CheckCrc(t) ==
    /\ pc[t] = "crc"
    /\ IF recv_buffer[2] = BodyOf(header[t]) THEN Go(t, "copy") ELSE Resume(t)
    /\ UNCHANGED <<mainVars, serving, recv_buffer, bytes, header, log, netVars>>

\* Mutant: the payload is copied from the front of the packet.
CallbackWithHeader(t) ==
    log' = [log EXCEPT ![header[t].from] =
              Append(@, [by |-> t, header |-> header[t], payload |-> recv_buffer[1]])]

Callback(t) ==
    log' = [log EXCEPT ![header[t].from] =
              Append(@, [by |-> t, header |-> header[t], payload |-> recv_buffer[2]])]

\* The payload is read again, and the callback of the packet's type runs.
Dispatch(t) ==
    /\ pc[t] = "copy"
    /\ IF Form(header[t]) \in {"tracking", "video"} THEN Callback(t) ELSE UNCHANGED log
    /\ Resume(t)
    /\ UNCHANGED <<mainVars, serving, recv_buffer, bytes, header, netVars>>

ProcessPacket(t) == ParseHeader(t) \/ CheckCrc(t) \/ Dispatch(t)

ControlThread ==
    \/ ControlLoop \/ Select \/ Accept \/ InnerLoop \/ ControlRecv \/ HangUp
    \/ ProcessPacket("control")

VideoThread == VideoLoop \/ VideoRecv \/ VideoRecvFails \/ ProcessPacket("video")

-----------------------------------------------------------------------------
(* The peers and the network. *)

Connect(c) ==
    /\ conn[c] = "idle"
    /\ control_socket = "listening"
    /\ Len(backlog) < MaxBacklog
    /\ conn' = [conn EXCEPT ![c] = "open"]
    /\ backlog' = Append(backlog, c)
    /\ UNCHANGED <<mainVars, threadVars, written, consumed, datagrams, posted>>

WritePacket(c) ==
    /\ conn[c] = "open"
    /\ written[c] < MaxUnits(c)
    /\ written' = [written EXCEPT ![c] = @ + 2]
    /\ UNCHANGED <<mainVars, threadVars, conn, backlog, consumed, datagrams, posted>>

Finish(c) ==
    /\ conn[c] = "open"
    /\ conn' = [conn EXCEPT ![c] = "finished"]
    /\ UNCHANGED <<mainVars, threadVars, backlog, written, consumed, datagrams, posted>>

\* A datagram is lost, carried, or duplicated.
PostDatagram ==
    /\ posted < Len(UdpTraffic)
    /\ posted' = posted + 1
    /\ \E k \in 0 .. MaxCopies : datagrams' = [datagrams EXCEPT ![posted + 1] = k]
    /\ UNCHANGED <<mainVars, threadVars, conn, backlog, written, consumed>>

Network == PostDatagram \/ \E c \in Clients : Connect(c) \/ WritePacket(c) \/ Finish(c)

\* The process is gone.
Exited == main = "exited" /\ UNCHANGED vars

Next == MainThread \/ ControlThread \/ VideoThread \/ Network \/ Exited

\* The operating system runs every thread that can run; nothing is assumed
\* of the user who ends the program, of the peers, or of the network.
Spec == Init /\ [][Next]_vars
FairSpec == Spec /\ WF_vars(Stop) /\ WF_vars(ControlThread) /\ WF_vars(VideoThread)

-----------------------------------------------------------------------------
(* Properties. *)

\* Types of every variable.
TypeOK ==
    /\ main \in {"new", "starting", "failed", "running", "closeControl", "closeVideo",
                 "joinControl", "joinVideo", "stopped", "exited"}
    /\ running \in BOOLEAN
    /\ control_socket \in {"invalid", "unbound", "listening"}
    /\ video_socket \in {"invalid", "unbound", "bound"}
    /\ pc \in [Threads -> Places]
    /\ serving \in Clients \cup {NoClient}
    /\ recv_buffer \in [1 .. BufferUnits -> Unit \cup {NoUnit}]
    /\ bytes \in [Threads -> 0 .. BufferUnits]
    /\ header \in [Threads -> Unit \cup {NoUnit}]
    /\ conn \in [Clients -> {"idle", "open", "finished", "closed"}]
    /\ backlog \in Seq(Clients)
    /\ written \in [Clients -> Nat]
    /\ consumed \in [Clients -> Nat]
    /\ datagrams \in [1 .. Len(UdpTraffic) -> 0 .. MaxCopies]
    /\ posted \in 0 .. Len(UdpTraffic)
    /\ log \in [Senders -> Seq([by : Threads, header : Unit, payload : Unit])]

\* Once stop has returned no receiving thread is left that could call back into
\* the decoder and the renderer WinMain is about to destroy (stop, main.cpp:69).
NoThreadAfterStop ==
    main \in {"stopped", "exited"} => Ended("control") /\ Ended("video")

\* When stop has returned, no socket start or accept opened is still open: not
\* those of a start that failed half way, nor one that waited for accept.
NoSocketLeaked ==
    main \in {"stopped", "exited"} =>
        /\ control_socket = "invalid" /\ video_socket = "invalid"
        /\ serving = NoClient
        /\ \A c \in Clients : conn[c] \in {"idle", "closed"}

\* A callback runs only while WinMain is in its message loop or inside stop:
\* never before start succeeded, never once the threads were joined.
CallbacksWhileOwned ==
    [][log' # log => main \in {"running", "closeControl", "closeVideo", "joinControl",
                               "joinVideo"}]_vars

\* What a callback is given is the payload whose CRC was checked against the
\* header it came with (process_packet reads recv_buffer_ again to copy it).
PayloadMatchesHeader ==
    \A s \in Senders : \A i \in 1 .. Len(log[s]) :
        log[s][i].payload = BodyOf(log[s][i].header)

\* What WinMain counts on of the two threads (ReceivingThreads): between its
\* receive and the end of process_packet a thread is busy; before each receive
\* it looks at running_, the control thread in its inner loop.
Owner ==
    CASE main \in {"new", "starting", "failed"} -> "setup"
      [] main = "running" -> "running"
      [] main \in {"stopped", "exited"} -> "gone"
      [] OTHER -> "stopping"
PlaceOf(p) ==
    CASE p \in {"recv", "parse", "crc", "copy"} -> "busy"
      [] p \in {"none", "done"} -> p
      [] OTHER -> "polling"

OwnedThreads == INSTANCE ReceivingThreads WITH
    owner <- Owner, flag <- running, place <- [t \in Threads |-> PlaceOf(pc[t])]
ImplementsReceivingThreads == OwnedThreads!ThreadsSpec

\* No datagram can arrive: every peer of the host is a TCP connection.
TcpOnly == UdpTraffic = <<>>

\* What the control connections promise: what is dispatched for a connection
\* was sent on it, is intact, and comes in order and once (LossyChannel).  A
\* damaged payload maps to 0, which the abstract channel never delivers.
Intact(e) == e.payload = BodyOf(e.header)
PacketsSent == [c \in Clients |-> written[c] \div 2]
PacketsDispatched ==
    [c \in Clients |-> [i \in 1 .. Len(log[c]) |->
        IF Intact(log[c][i]) THEN Number(log[c][i].header) ELSE 0]]

ControlChannel == INSTANCE LossyChannel WITH
    Connections <- Clients, MaxSent <- Len(TcpTraffic),
    sent <- PacketsSent, delivered <- PacketsDispatched
ImplementsControlChannel == ControlChannel!ChannelSpec

\* docs/architecture.md:64 has control "over reliable TCP": no dispatchable
\* packet before one that was dispatched was skipped.
NoPacketSkipped ==
    \A c \in Clients : \A i \in 1 .. Len(log[c]) :
        \A n \in 1 .. Number(log[c][i].header) :
            TcpTraffic[n] \in {"tracking", "video"} =>
                \E j \in 1 .. i : Number(log[c][j].header) = n

\* stop returns, or the control thread stays for good in a recv on which its
\* client is silent: nothing else can keep join (stop, line 77) waiting.
Stopping == main \in {"closeControl", "closeVideo", "joinControl", "joinVideo"}
ClientSilent ==
    /\ pc["control"] = "recv" /\ serving \in Clients
    /\ Unread(serving) = 0 /\ conn[serving] = "open"
StopReturnsOrClientSilent == Stopping ~> (main = "exited" \/ []ClientSilent)

\* README.md:33 calls the host a multi-client receiver, but the connections are
\* served one after the other, each until it hangs up: a connected client is
\* served, unless it hangs up itself, the host stops, or the control thread stays
\* for good with another one that never hangs up, whether it talks or is silent.
ServedInTurn ==
    \A c \in Clients :
        main = "running" /\ conn[c] = "open" ~>
            \/ main # "running" \/ serving = c \/ conn[c] # "open"
            \/ \E d \in Clients \ {c} : [](serving = d /\ conn[d] = "open")

-----------------------------------------------------------------------------
(* The inductive invariants behind the theorems of NetworkReceiverProofs.   *)

\* The control thread has a client exactly inside its inner loop.
ServingInv ==
    pc["control"] \in {"inner", "recv", "parse", "crc", "copy"} <=> serving \in Clients

\* What was read was written, and packets are written whole.
StreamInv ==
    \A c \in Clients :
        /\ consumed[c] <= written[c]
        /\ written[c] <= MaxUnits(c)
        /\ written[c] % 2 = 0

\* The units a thread was told of are there, and it keeps a header's copy.
ParseInv ==
    \A t \in Threads :
        /\ \A i \in 1 .. bytes[t] : recv_buffer[i] \in Unit
        /\ pc[t] \in {"crc", "copy"} =>
               bytes[t] >= 2 /\ header[t] \in Unit /\ IsHeader(header[t])

\* How far the main thread is decides which sockets and threads remain.
StageInv ==
    /\ main \in {"new", "starting", "failed"} => pc = [t \in Threads |-> "none"]
    /\ main \in {"joinVideo", "stopped", "exited"} => Ended("control")
    /\ main \in {"stopped", "exited"} => Ended("video")
    /\ main \in {"closeVideo", "joinControl", "joinVideo", "stopped", "exited"} =>
           control_socket = "invalid" /\ backlog = <<>>
    /\ main \in {"joinControl", "joinVideo", "stopped", "exited"} => video_socket = "invalid"
    /\ main = "new" => control_socket = "invalid" /\ video_socket = "invalid"

\* A connection the host has not closed waits for accept or is being served.
OwnedInv ==
    \A c \in Clients :
        conn[c] \in {"open", "finished"} =>
            serving = c \/ \E i \in 1 .. Len(backlog) : backlog[i] = c

\* running_ is up from the start, even one that fails, until stop.
FlagInv == running <=> main \in {"starting", "failed", "running"}

Inv == TypeOK /\ ServingInv /\ StreamInv /\ ParseInv /\ StageInv /\ OwnedInv

\* How much of connection c had been read before the packet being parsed.
Parsing == pc["control"] \in {"parse", "crc", "copy"}
ReadBefore(c) ==
    IF Parsing /\ serving = c THEN consumed[c] - bytes["control"] ELSE consumed[c]

\* With no datagrams the control thread has recv_buffer_ to itself.
OneWriterInv ==
    /\ pc["video"] \notin {"parse", "crc", "copy"}
    /\ Parsing =>
         /\ bytes["control"] >= 1
         /\ bytes["control"] <= consumed[serving]
         /\ \A i \in 1 .. bytes["control"] :
              recv_buffer[i] = [from |-> serving,
                                pos |-> consumed[serving] - bytes["control"] + i]
    /\ pc["control"] \in {"crc", "copy"} => header["control"] = recv_buffer[1]

\* Everything dispatched lies before the packet being parsed, in order.
OrderInv ==
    \A c \in Clients :
        /\ \A i \in 1 .. Len(log[c]) :
             /\ log[c][i].header.from = c
             /\ IsHeader(log[c][i].header)
             /\ log[c][i].header.pos < ReadBefore(c)
        /\ \A i, j \in 1 .. Len(log[c]) :
             i < j => log[c][i].header.pos < log[c][j].header.pos

TcpInv == OneWriterInv /\ OrderInv /\ PayloadMatchesHeader

-----------------------------------------------------------------------------
(* Why StopReturnsOrClientSilent: the joins of stop wait for few steps, and *)
(* only a silent client can hold one of them up.                            *)

\* The connections that wait for accept are different ones, none of them is
\* being served, and neither they nor the served one have been closed.
QueueInv ==
    /\ \A i, j \in 1 .. Len(backlog) : i # j => backlog[i] # backlog[j]
    /\ \A i \in 1 .. Len(backlog) :
         backlog[i] # serving /\ conn[backlog[i]] \in {"open", "finished"}
    /\ serving \in Clients => conn[serving] \in {"open", "finished"}

\* accept is never called on a listening socket that no connection waits on,
\* where it would block; recv has something to return, or the client is silent.
OnlySilenceBlocks ==
    /\ pc["control"] = "accept" /\ control_socket = "listening" => backlog # <<>>
    /\ pc["control"] = "recv" /\ ~ClientSilent =>
         serving \in Clients /\ (Unread(serving) > 0 \/ conn[serving] = "finished")

\* The steps a thread at a place can take, at most, once running_ is cleared.
StepsLeft(p) ==
    CASE p = "check" -> 1
      [] p = "inner" -> 2
      [] p \in {"copy", "accept"} -> 3
      [] p \in {"crc", "select"} -> 4
      [] p = "parse" -> 5
      [] p = "recv" -> 6
      [] OTHER -> 0

\* With running_ cleared every step of a receiving thread brings its end nearer,
\* and no step of the other thread, a peer or the main thread puts it off.
ThreadsRunOut ==
    [][~running =>
         /\ \A t \in Threads : StepsLeft(pc'[t]) <= StepsLeft(pc[t])
         /\ ControlThread => StepsLeft(pc'["control"]) < StepsLeft(pc["control"])
         /\ VideoThread => StepsLeft(pc'["video"]) < StepsLeft(pc["video"])]_vars
=============================================================================
