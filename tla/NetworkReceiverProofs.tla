------------------------ MODULE NetworkReceiverProofs ------------------------
(***************************************************************************)
(* Theorems about the host's NetworkReceiver, for any number of clients,   *)
(* any traffic and any buffer of at least two units.                       *)
(*                                                                         *)
(* Inv is inductive and gives what holds whatever the traffic is: types,   *)
(* no thread and no socket left behind by stop.  TcpInv is inductive when  *)
(* no datagram can arrive; it gives the integrity and the order of what    *)
(* the control connections deliver.  The receiver is shown to implement    *)
(* LossyChannel and ReceivingThreads, whose consequences (PromiseProofs)   *)
(* are then told of it, and what lets stop return is proved as a measure.  *)
(***************************************************************************)
EXTENDS NetworkReceiver, SequenceTheorems, TLAPS

USE SenderAssumption, TrafficAssumption, BoundAssumption

-----------------------------------------------------------------------------
(* Arithmetic and sequences.                                                *)

LEMMA TrafficLength ==
    ASSUME NEW s \in Senders
    PROVE  /\ Len(Traffic(s)) \in Nat
           /\ MaxUnits(s) \in Nat
           /\ MaxUnits(s) = 2 * Len(Traffic(s))
  BY DEF Traffic, MaxUnits, Senders

LEMMA UnitFields ==
    ASSUME NEW u \in Unit
    PROVE  /\ u.from \in Senders
           /\ u.pos \in Nat
           /\ u.pos >= 1
           /\ u.pos <= MaxUnits(u.from)
           /\ u = [from |-> u.from, pos |-> u.pos]
  BY TrafficLength DEF Unit

LEMMA UnitIntro ==
    ASSUME NEW s \in Senders, NEW p \in Nat, p >= 1, p <= MaxUnits(s)
    PROVE  [from |-> s, pos |-> p] \in Unit
  BY TrafficLength DEF Unit

-----------------------------------------------------------------------------
(* The invariant that needs nothing of the traffic.                         *)

LEMMA InvInit == Init => Inv
  <1> SUFFICES ASSUME Init PROVE Inv
    OBVIOUS
  <1> USE DEF Init
  <1>1. TypeOK
    <2>1. \A s \in Senders : <<>> \in Seq([by : Threads, header : Unit, payload : Unit])
      OBVIOUS
    <2>2. Len(UdpTraffic) \in Nat
      OBVIOUS
    <2>3. posted \in 0 .. Len(UdpTraffic)
      BY <2>2
    <2>4. datagrams \in [1 .. Len(UdpTraffic) -> 0 .. MaxCopies]
      OBVIOUS
    <2>5. recv_buffer \in [1 .. BufferUnits -> Unit \cup {NoUnit}]
      OBVIOUS
    <2>6. bytes \in [Threads -> 0 .. BufferUnits]
      OBVIOUS
    <2>7. log \in [Senders -> Seq([by : Threads, header : Unit, payload : Unit])]
      BY <2>1
    <2>8. /\ backlog \in Seq(Clients)
          /\ written \in [Clients -> Nat] /\ consumed \in [Clients -> Nat]
      OBVIOUS
    <2> QED
      BY <2>3, <2>4, <2>5, <2>6, <2>7, <2>8 DEF TypeOK, Places
  <1>2. ServingInv
    BY DEF ServingInv, Threads
  <1>3. StreamInv
    <2>1. ASSUME NEW c \in Clients
          PROVE  consumed[c] <= written[c] /\ written[c] <= MaxUnits(c) /\ written[c] % 2 = 0
      <3>1. consumed[c] = 0 /\ written[c] = 0
        OBVIOUS
      <3>2. MaxUnits(c) \in Nat
        BY TrafficLength DEF Senders
      <3> QED
        BY <3>1, <3>2
    <2> QED
      BY <2>1 DEF StreamInv
  <1>4. ParseInv
    BY DEF ParseInv
  <1>5. StageInv
    BY DEF StageInv
  <1>6. OwnedInv
    BY DEF OwnedInv
  <1> QED
    BY <1>1, <1>2, <1>3, <1>4, <1>5, <1>6 DEF Inv

\* A step of the main thread keeps the invariant.
LEMMA InvMain == Inv /\ MainThread => Inv'
  <1> SUFFICES ASSUME Inv, MainThread PROVE Inv'
    OBVIOUS
  <1> USE DEF Inv, TypeOK, Ended, mainVars, threadVars, netVars, Threads, Places
  <1>1. CASE StartControlSocket
    BY <1>1 DEF StartControlSocket, ServingInv, StreamInv, ParseInv, StageInv, OwnedInv
  <1>2. CASE StartVideoSocket
    <2> USE <1>2 DEF StartVideoSocket
    <2>1. TypeOK'
      OBVIOUS
    <2>2. StreamInv' /\ ServingInv' /\ ParseInv'
      BY DEF StreamInv, ServingInv, ParseInv, StageInv
    <2>3. StageInv'
      BY DEF StageInv
    <2>4. OwnedInv'
      BY DEF OwnedInv, ServingInv
    <2> QED
      BY <2>1, <2>2, <2>3, <2>4
  <1>3. CASE StopBegins
    BY <1>3 DEF StopBegins, ClearRunning, ServingInv, StreamInv, ParseInv, StageInv, OwnedInv
  <1>4. CASE CloseControlSocket
    <2> USE <1>4 DEF CloseControlSocket
    <2>1. TypeOK'
      <3>1. conn' \in [Clients -> {"idle", "open", "finished", "closed"}]
        OBVIOUS
      <3>2. backlog' \in Seq(Clients)
        OBVIOUS
      <3> QED
        BY <3>1, <3>2
    <2>2. StreamInv' /\ ServingInv' /\ ParseInv'
      BY DEF StreamInv, ServingInv, ParseInv
    <2>3. StageInv'
      BY DEF StageInv
    <2>4. OwnedInv'
      BY DEF OwnedInv
    <2> QED
      BY <2>1, <2>2, <2>3, <2>4
  <1>5. CASE CloseVideoSocket
    BY <1>5 DEF CloseVideoSocket, ServingInv, StreamInv, ParseInv, StageInv, OwnedInv
  <1>6. CASE JoinControlThread
    BY <1>6 DEF JoinControlThread, Join, ServingInv, StreamInv, ParseInv, StageInv, OwnedInv
  <1>7. CASE JoinVideoThread
    BY <1>7 DEF JoinVideoThread, Join, ServingInv, StreamInv, ParseInv, StageInv, OwnedInv
  <1>8. CASE Destroy
    BY <1>8 DEF Destroy, ClearRunning, ServingInv, StreamInv, ParseInv, StageInv, OwnedInv
  <1> QED
    BY <1>1, <1>2, <1>3, <1>4, <1>5, <1>6, <1>7, <1>8 DEF MainThread, Stop

\* The received units replace the front of the buffer, and nothing else.
LEMMA FillBuffer ==
    ASSUME NEW t \in Threads, NEW s \in Senders, NEW first \in Nat, NEW n \in 1 .. BufferUnits,
           Inv, Fill(t, s, first, n), first + n <= MaxUnits(s)
    PROVE  /\ recv_buffer' \in [1 .. BufferUnits -> Unit \cup {NoUnit}]
           /\ bytes' \in [Threads -> 0 .. BufferUnits]
           /\ bytes'[t] = n
           /\ \A i \in 1 .. n : recv_buffer'[i] = [from |-> s, pos |-> first + i]
           /\ \A u \in Threads : \A i \in 1 .. bytes'[u] : recv_buffer'[i] \in Unit
           /\ pc' = [pc EXCEPT ![t] = "parse"]
  <1>1. \A i \in 1 .. n : [from |-> s, pos |-> first + i] \in Unit
    BY UnitIntro, TrafficLength
  <1>2. /\ recv_buffer \in [1 .. BufferUnits -> Unit \cup {NoUnit}]
        /\ bytes \in [Threads -> 0 .. BufferUnits]
    BY DEF Inv, TypeOK
  <1>3. /\ recv_buffer' = [i \in 1 .. BufferUnits |->
              IF i <= n THEN [from |-> s, pos |-> first + i] ELSE recv_buffer[i]]
        /\ bytes' = [bytes EXCEPT ![t] = n]
        /\ pc' = [pc EXCEPT ![t] = "parse"]
    BY DEF Fill, Go
  <1>4. ASSUME NEW i \in 1 .. BufferUnits
        PROVE  /\ i <= n => recv_buffer'[i] = [from |-> s, pos |-> first + i]
               /\ i <= n => recv_buffer'[i] \in Unit
               /\ ~(i <= n) => recv_buffer'[i] = recv_buffer[i]
    BY <1>1, <1>3
  <1>5. \A i \in 1 .. BufferUnits : recv_buffer'[i] \in Unit \cup {NoUnit}
    BY <1>2, <1>4
  <1>6. recv_buffer' \in [1 .. BufferUnits -> Unit \cup {NoUnit}]
    BY <1>3, <1>5
  <1>7. bytes' \in [Threads -> 0 .. BufferUnits] /\ bytes'[t] = n
    BY <1>2, <1>3
  <1>8. ASSUME NEW u \in Threads, NEW i \in 1 .. bytes'[u] PROVE recv_buffer'[i] \in Unit
    <2>1. i \in 1 .. BufferUnits
      BY <1>7
    <2>2. CASE i <= n
      BY <1>4, <2>1, <2>2
    <2>3. CASE ~(i <= n)
      <3>1. u # t
        BY <1>7, <1>8, <2>3
      <3>2. i \in 1 .. bytes[u]
        BY <1>2, <1>3, <1>8, <3>1
      <3>3. recv_buffer[i] \in Unit
        BY <3>2 DEF Inv, ParseInv
      <3> QED
        BY <1>4, <2>1, <2>3, <3>3
    <2> QED
      BY <2>2, <2>3
  <1>9. \A i \in 1 .. n : recv_buffer'[i] = [from |-> s, pos |-> first + i]
    BY <1>4
  <1> QED
    BY <1>3, <1>6, <1>7, <1>8, <1>9

LEMMA InvControlLoops ==
    Inv /\ (ControlLoop \/ Select \/ InnerLoop \/ HangUp) => Inv'
  <1> SUFFICES ASSUME Inv, ControlLoop \/ Select \/ InnerLoop \/ HangUp PROVE Inv'
    OBVIOUS
  <1> USE DEF Inv, TypeOK, Ended, mainVars, threadVars, netVars, Threads, Places, Go
  <1>1. CASE ControlLoop
    BY <1>1 DEF ControlLoop, ServingInv, StreamInv, ParseInv, StageInv, OwnedInv
  <1>2. CASE Select
    <2> USE <1>2 DEF Select
    <2>1. TypeOK'
      OBVIOUS
    <2>2. StreamInv' /\ ServingInv' /\ ParseInv'
      BY DEF StreamInv, ServingInv, ParseInv
    <2>3. StageInv'
      BY DEF StageInv
    <2>4. OwnedInv'
      BY DEF OwnedInv, ServingInv
    <2> QED
      BY <2>1, <2>2, <2>3, <2>4
  <1>3. CASE InnerLoop
    BY <1>3 DEF InnerLoop, ServingInv, StreamInv, ParseInv, StageInv, OwnedInv
  <1>4. CASE HangUp
    <2> USE <1>4 DEF HangUp, CloseClient
    <2>1. TypeOK'
      OBVIOUS
    <2>2. StreamInv' /\ ServingInv' /\ ParseInv'
      BY DEF StreamInv, ServingInv, ParseInv
    <2>3. StageInv'
      BY DEF StageInv
    <2>4. OwnedInv'
      BY DEF OwnedInv, ServingInv
    <2> QED
      BY <2>1, <2>2, <2>3, <2>4
  <1> QED
    BY <1>1, <1>2, <1>3, <1>4

LEMMA InvAccept == Inv /\ Accept => Inv'
  <1> SUFFICES ASSUME Inv, Accept PROVE Inv'
    OBVIOUS
  <1> USE DEF Inv, mainVars, threadVars, netVars, Threads, Places, Go, Accept
  <1>1. CASE control_socket # "listening"
    <2> USE <1>1 DEF Ended
    <2>1. TypeOK'
      BY DEF TypeOK
    <2>2. StreamInv' /\ ServingInv' /\ ParseInv'
      BY DEF TypeOK, StreamInv, ServingInv, ParseInv
    <2>3. StageInv'
      BY DEF TypeOK, StageInv
    <2>4. OwnedInv'
      BY DEF OwnedInv, ServingInv
    <2> QED
      BY <2>1, <2>2, <2>3, <2>4
  <1>2. CASE control_socket = "listening"
    <2>1. /\ backlog # <<>>
          /\ serving' = Head(backlog)
          /\ backlog' = Tail(backlog)
          /\ pc' = [pc EXCEPT !["control"] = "inner"]
      BY <1>2
    <2>2. /\ Head(backlog) \in Clients
          /\ Tail(backlog) \in Seq(Clients)
          /\ Head(backlog) = backlog[1]
          /\ Len(Tail(backlog)) = Len(backlog) - 1
          /\ \A i \in 1 .. Len(backlog) - 1 : Tail(backlog)[i] = backlog[i + 1]
      BY <2>1, HeadTailProperties DEF TypeOK
    <2>3. TypeOK'
      BY <2>1, <2>2 DEF TypeOK
    <2>4. StreamInv' /\ ServingInv' /\ ParseInv'
      BY <2>1, <2>2 DEF TypeOK, StreamInv, ServingInv, ParseInv
    <2>5. StageInv'
      BY <1>2, <2>1 DEF TypeOK, StageInv, Ended
    <2>6. OwnedInv'
      <3>1. ASSUME NEW c \in Clients, conn[c] \in {"open", "finished"}, backlog[1] # c
            PROVE  \E i \in 1 .. Len(backlog') : backlog'[i] = c
        <4>1. serving # c
          BY DEF ServingInv, TypeOK
        <4>2. PICK j \in 1 .. Len(backlog) : backlog[j] = c
          BY <3>1, <4>1 DEF OwnedInv
        <4>3. j # 1 /\ Len(backlog) \in Nat
          BY <3>1, <4>2, <2>2 DEF TypeOK
        <4>4. j - 1 \in 1 .. Len(backlog) - 1 /\ (j - 1) + 1 = j
          BY <4>2, <4>3
        <4>5. Tail(backlog)[j - 1] = c /\ j - 1 \in 1 .. Len(Tail(backlog))
          BY <2>2, <4>2, <4>4
        <4> QED
          BY <2>1, <4>5
      <3> QED
        BY <2>1, <2>2, <3>1 DEF OwnedInv
    <2> QED
      BY <2>3, <2>4, <2>5, <2>6
  <1> QED
    BY <1>1, <1>2

LEMMA InvControlRecv == Inv /\ ControlRecv => Inv'
  <1> SUFFICES ASSUME Inv, ControlRecv PROVE Inv'
    OBVIOUS
  <1> USE DEF mainVars, threadVars, netVars, Threads, Places
  <1>1. PICK n \in 1 .. BufferUnits :
           /\ n <= Unread(serving)
           /\ Fill("control", serving, consumed[serving], n)
           /\ consumed' = [consumed EXCEPT ![serving] = @ + n]
    BY DEF ControlRecv, RecvRoom, TakeUnits
  <1>2. serving \in Clients /\ serving \in Senders /\ pc["control"] = "recv"
    BY DEF Inv, ServingInv, ControlRecv, Senders
  <1>3. /\ consumed[serving] \in Nat /\ written[serving] \in Nat
        /\ consumed[serving] + n <= written[serving]
        /\ written[serving] <= MaxUnits(serving)
        /\ MaxUnits(serving) \in Nat
    BY <1>1, <1>2, TrafficLength DEF Unread, Inv, TypeOK, StreamInv
  <1>4. consumed[serving] + n <= MaxUnits(serving)
    BY <1>3
  <1>5. /\ recv_buffer' \in [1 .. BufferUnits -> Unit \cup {NoUnit}]
        /\ bytes' \in [Threads -> 0 .. BufferUnits]
        /\ \A u \in Threads : \A i \in 1 .. bytes'[u] : recv_buffer'[i] \in Unit
        /\ pc' = [pc EXCEPT !["control"] = "parse"]
        /\ bytes' = [bytes EXCEPT !["control"] = n]
    BY <1>1, <1>2, <1>3, <1>4, FillBuffer DEF Fill
  <1>6. UNCHANGED <<mainVars, serving, header, log, conn, backlog, written, datagrams, posted>>
    BY DEF ControlRecv
  <1>7. TypeOK'
    <2>1. pc' \in [Threads -> Places]
      BY <1>5 DEF Inv, TypeOK
    <2>2. consumed[serving] + n \in Nat
      BY <1>3
    <2>3. consumed' \in [Clients -> Nat]
      BY <1>1, <2>2 DEF Inv, TypeOK
    <2> QED
      BY <1>5, <1>6, <2>1, <2>3 DEF Inv, TypeOK
  <1>8. ServingInv' /\ StreamInv'
    BY <1>1, <1>2, <1>3, <1>5, <1>6 DEF Inv, TypeOK, ServingInv, StreamInv
  <1>9. ParseInv'
    BY <1>2, <1>5, <1>6 DEF Inv, TypeOK, ParseInv
  <1>10. StageInv' /\ OwnedInv'
    BY <1>2, <1>5, <1>6 DEF Inv, TypeOK, StageInv, OwnedInv, Ended
  <1> QED
    BY <1>7, <1>8, <1>9, <1>10 DEF Inv

LEMMA InvVideoRecv == Inv /\ VideoRecv => Inv'
  <1> SUFFICES ASSUME Inv, VideoRecv PROVE Inv'
    OBVIOUS
  <1> USE DEF mainVars, threadVars, netVars, Threads, Places
  <1>1. PICK n \in 1 .. Len(UdpTraffic) :
           /\ datagrams[n] > 0
           /\ datagrams' = [datagrams EXCEPT ![n] = @ - 1]
           /\ Fill("video", Udp, 2 * (n - 1), 2)
    BY DEF VideoRecv, Inv, TypeOK
  <1>2. Udp \in Senders /\ MaxUnits(Udp) = 2 * Len(UdpTraffic) /\ Len(UdpTraffic) \in Nat
    BY DEF Senders, MaxUnits, Traffic
  <1>3. 2 * (n - 1) \in Nat /\ 2 * (n - 1) + 2 <= MaxUnits(Udp) /\ 2 \in 1 .. BufferUnits
    BY <1>2
  <1>4. /\ recv_buffer' \in [1 .. BufferUnits -> Unit \cup {NoUnit}]
        /\ bytes' \in [Threads -> 0 .. BufferUnits]
        /\ \A u \in Threads : \A i \in 1 .. bytes'[u] : recv_buffer'[i] \in Unit
        /\ pc' = [pc EXCEPT !["video"] = "parse"]
        /\ bytes' = [bytes EXCEPT !["video"] = 2]
    BY <1>1, <1>2, <1>3, FillBuffer DEF Fill
  <1>5. /\ UNCHANGED <<mainVars, serving, header, log, conn, backlog, written, consumed, posted>>
        /\ pc["video"] = "recv"
    BY DEF VideoRecv
  <1>6. TypeOK'
    <2>1. pc' \in [Threads -> Places]
      BY <1>4 DEF Inv, TypeOK
    <2>2. datagrams \in [1 .. Len(UdpTraffic) -> 0 .. MaxCopies]
      BY DEF Inv, TypeOK
    <2>3. datagrams[n] - 1 \in 0 .. MaxCopies
      BY <1>1, <2>2
    <2>4. datagrams' \in [1 .. Len(UdpTraffic) -> 0 .. MaxCopies]
      BY <1>1, <2>2, <2>3
    <2> QED
      BY <1>4, <1>5, <2>1, <2>4 DEF Inv, TypeOK
  <1>7. ServingInv' /\ StreamInv'
    BY <1>4, <1>5 DEF Inv, TypeOK, ServingInv, StreamInv
  <1>8. ParseInv'
    BY <1>4, <1>5 DEF Inv, TypeOK, ParseInv
  <1>9. StageInv' /\ OwnedInv'
    BY <1>4, <1>5 DEF Inv, TypeOK, StageInv, OwnedInv, Ended
  <1> QED
    BY <1>6, <1>7, <1>8, <1>9 DEF Inv

LEMMA InvVideoLoops == Inv /\ (VideoLoop \/ VideoRecvFails) => Inv'
  <1> SUFFICES ASSUME Inv, VideoLoop \/ VideoRecvFails PROVE Inv'
    OBVIOUS
  <1> USE DEF VideoLoop, VideoRecvFails, Inv, mainVars, threadVars, netVars, Threads, Places, Go
  <1>1. TypeOK'
    BY DEF TypeOK
  <1>2. StreamInv' /\ OwnedInv'
    BY DEF StreamInv, OwnedInv
  <1>3. ServingInv'
    BY DEF TypeOK, ServingInv
  <1>4. ParseInv'
    BY DEF TypeOK, ParseInv
  <1>5. StageInv'
    BY DEF TypeOK, StageInv, Ended
  <1> QED
    BY <1>1, <1>2, <1>3, <1>4, <1>5

LEMMA InvProcessPacket ==
    ASSUME NEW t \in Threads, Inv, ProcessPacket(t)
    PROVE  Inv'
  <1> USE DEF mainVars, threadVars, netVars, Threads, Places, Go, Resume
  <1>1. CASE ParseHeader(t)
    <2> USE <1>1 DEF ParseHeader, Inv
    <2>1. bytes[t] >= 2 => recv_buffer[1] \in Unit
      BY DEF TypeOK, ParseInv
    <2>2. TypeOK'
      <3>1. header' \in [Threads -> Unit \cup {NoUnit}]
        BY <2>1 DEF TypeOK
      <3>2. pc' \in [Threads -> Places]
        BY DEF TypeOK
      <3> QED
        BY <3>1, <3>2 DEF TypeOK
    <2>3. ParseInv'
      BY <2>1 DEF TypeOK, ParseInv
    <2>4. ServingInv' /\ StreamInv' /\ OwnedInv'
      BY DEF TypeOK, ServingInv, StreamInv, OwnedInv
    <2>5. StageInv'
      BY DEF TypeOK, StageInv, Ended
    <2> QED
      BY <2>2, <2>3, <2>4, <2>5
  <1>2. CASE CheckCrc(t)
    <2> USE <1>2 DEF CheckCrc, Inv
    <2>1. TypeOK'
      <3>1. UNCHANGED <<main, running, control_socket, video_socket, serving, recv_buffer, bytes,
                        header, log, conn, backlog, written, consumed, datagrams, posted>>
        OBVIOUS
      <3>2. pc' \in [Threads -> Places]
        BY DEF TypeOK
      <3> QED
        BY <3>1, <3>2 DEF TypeOK
    <2>2. ServingInv' /\ StreamInv' /\ ParseInv' /\ OwnedInv'
      BY DEF TypeOK, ServingInv, StreamInv, ParseInv, OwnedInv
    <2>3. StageInv'
      BY DEF TypeOK, StageInv, Ended
    <2> QED
      BY <2>1, <2>2, <2>3
  <1>3. CASE Dispatch(t)
    <2> USE <1>3 DEF Dispatch, Inv
    <2>1. header[t] \in Unit /\ recv_buffer[2] \in Unit
      BY DEF TypeOK, ParseInv
    <2>2. log' \in [Senders -> Seq([by : Threads, header : Unit, payload : Unit])]
      <3>1. header[t].from \in Senders
        BY <2>1, UnitFields
      <3>2. [by |-> t, header |-> header[t], payload |-> recv_buffer[2]]
              \in [by : Threads, header : Unit, payload : Unit]
        BY <2>1
      <3>3. CASE Callback(t)
        <4> DEFINE Call == [by : Threads, header : Unit, payload : Unit]
                   s    == header[t].from
                   e    == [by |-> t, header |-> header[t], payload |-> recv_buffer[2]]
        <4>1. log \in [Senders -> Seq(Call)] /\ log' = [log EXCEPT ![s] = Append(@, e)]
          BY <3>3 DEF Callback, TypeOK
        <4>2. s \in Senders /\ e \in Call
          BY <3>1, <3>2
        <4> HIDE DEF Call, s, e
        <4>3. Append(log[s], e) \in Seq(Call)
          BY <4>1, <4>2, AppendProperties
        <4>4. log' \in [Senders -> Seq(Call)]
          BY <4>1, <4>2, <4>3
        <4> QED
          BY <4>4 DEF Call
      <3>4. CASE UNCHANGED log
        BY <3>4 DEF TypeOK
      <3> QED
        BY <3>3, <3>4
    <2>3. TypeOK'
      BY <2>2 DEF TypeOK
    <2>4. ServingInv' /\ StreamInv' /\ ParseInv' /\ OwnedInv'
      BY DEF TypeOK, ServingInv, StreamInv, ParseInv, OwnedInv
    <2>5. StageInv'
      BY DEF TypeOK, StageInv, Ended
    <2> QED
      BY <2>3, <2>4, <2>5
  <1> QED
    BY <1>1, <1>2, <1>3 DEF ProcessPacket

LEMMA InvNetwork == Inv /\ Network => Inv'
  <1> SUFFICES ASSUME Inv, Network PROVE Inv'
    OBVIOUS
  <1> USE DEF Inv, mainVars, threadVars, netVars, Threads, Places
  <1>1. CASE PostDatagram
    <2> USE <1>1 DEF PostDatagram
    <2>1. Len(UdpTraffic) \in Nat /\ posted' \in 0 .. Len(UdpTraffic)
      BY DEF TypeOK
    <2>2. datagrams' \in [1 .. Len(UdpTraffic) -> 0 .. MaxCopies]
      BY DEF TypeOK
    <2>3. TypeOK'
      BY <2>1, <2>2 DEF TypeOK
    <2> QED
      BY <2>3 DEF ServingInv, StreamInv, ParseInv, StageInv, Ended, OwnedInv
  <1>2. ASSUME NEW c \in Clients, Connect(c) PROVE Inv'
    <2> USE <1>2 DEF Connect
    <2>1. /\ backlog' = Append(backlog, c) /\ backlog' \in Seq(Clients)
          /\ Len(backlog') = Len(backlog) + 1 /\ Len(backlog) \in Nat
          /\ backlog'[Len(backlog) + 1] = c
          /\ \A i \in 1 .. Len(backlog) : backlog'[i] = backlog[i]
      BY AppendProperties DEF TypeOK
    <2>2. TypeOK'
      BY <2>1 DEF TypeOK
    <2>3. OwnedInv'
      BY <2>1 DEF TypeOK, OwnedInv
    <2>4. StageInv'
      BY DEF StageInv, Ended
    <2> QED
      BY <2>2, <2>3, <2>4 DEF ServingInv, StreamInv, ParseInv
  <1>3. ASSUME NEW c \in Clients, WritePacket(c) PROVE Inv'
    <2> USE <1>3 DEF WritePacket
    <2>1. c \in Senders /\ MaxUnits(c) = 2 * Len(Traffic(c)) /\ Len(Traffic(c)) \in Nat
      BY TrafficLength DEF Senders
    <2>2. written[c] \in Nat /\ written[c] % 2 = 0 /\ written[c] < MaxUnits(c)
      BY DEF TypeOK, StreamInv
    <2>3. /\ written[c] + 2 \in Nat /\ (written[c] + 2) % 2 = 0
          /\ written[c] + 2 <= MaxUnits(c)
      BY <2>1, <2>2
    <2>4. TypeOK'
      BY <2>3 DEF TypeOK
    <2>5. StreamInv'
      BY <2>3 DEF TypeOK, StreamInv
    <2> QED
      BY <2>4, <2>5 DEF ServingInv, ParseInv, StageInv, Ended, OwnedInv
  <1>4. ASSUME NEW c \in Clients, Finish(c) PROVE Inv'
    <2> USE <1>4 DEF Finish
    <2>1. TypeOK'
      BY DEF TypeOK
    <2>2. OwnedInv'
      BY DEF TypeOK, OwnedInv
    <2> QED
      BY <2>1, <2>2 DEF ServingInv, StreamInv, ParseInv, StageInv, Ended
  <1> QED
    BY <1>1, <1>2, <1>3, <1>4 DEF Network

LEMMA InvStep == Inv /\ [Next]_vars => Inv'
  <1> SUFFICES ASSUME Inv, [Next]_vars PROVE Inv'
    OBVIOUS
  <1>1. CASE MainThread
    BY <1>1, InvMain
  <1>2. CASE ControlThread
    BY <1>2, InvControlLoops, InvAccept, InvControlRecv, InvProcessPacket
       DEF ControlThread, Threads
  <1>3. CASE VideoThread
    BY <1>3, InvVideoLoops, InvVideoRecv, InvProcessPacket DEF VideoThread, Threads
  <1>4. CASE Network
    BY <1>4, InvNetwork
  <1>5. CASE UNCHANGED vars
    <2> USE <1>5 DEF vars, mainVars, threadVars, netVars, Inv
    <2>1. TypeOK'
      BY DEF TypeOK
    <2>2. ServingInv' /\ StreamInv'
      BY DEF ServingInv, StreamInv
    <2>3. ParseInv'
      BY DEF ParseInv
    <2>4. StageInv' /\ OwnedInv'
      BY DEF StageInv, Ended, OwnedInv
    <2> QED
      BY <2>1, <2>2, <2>3, <2>4
  <1> QED
    BY <1>1, <1>2, <1>3, <1>4, <1>5 DEF Next, Exited

\* Every variable keeps its type, and recv_buffer_, the sockets and the
\* connections stay in the states the code can put them in.
THEOREM Invariance == Spec => []Inv
  BY InvInit, InvStep, PTL DEF Spec

\* No value of a variable leaves its type, whatever the peers send.
THEOREM TypeCorrect == Spec => []TypeOK
  <1>1. Inv => TypeOK
    BY DEF Inv
  <1> QED
    BY <1>1, Invariance, PTL

\* When stop has returned both receiving threads have ended (NetworkReceiver
\* ::stop joins them), so no callback can run in an object that is destroyed.
THEOREM StopEndsThreads == Spec => []NoThreadAfterStop
  <1>1. Inv => NoThreadAfterStop
    BY DEF Inv, StageInv, NoThreadAfterStop
  <1> QED
    BY <1>1, Invariance, PTL

\* When stop has returned the host holds no socket: neither its own two nor
\* that of a client it accepted or left waiting.
THEOREM StopClosesSockets == Spec => []NoSocketLeaked
  <1>1. Inv => NoSocketLeaked
    <2> SUFFICES ASSUME Inv, main \in {"stopped", "exited"}
                 PROVE  /\ control_socket = "invalid" /\ video_socket = "invalid"
                        /\ serving = NoClient
                        /\ \A c \in Clients : conn[c] \in {"idle", "closed"}
      BY DEF NoSocketLeaked
    <2>1. /\ control_socket = "invalid" /\ video_socket = "invalid" /\ backlog = <<>>
          /\ pc["control"] \in {"none", "done"}
      BY DEF Inv, StageInv, Ended
    <2>2. serving = NoClient
      BY <2>1 DEF Inv, TypeOK, ServingInv
    <2>3. ASSUME NEW c \in Clients PROVE conn[c] \in {"idle", "closed"}
      <3>1. serving # c
        BY <2>2
      <3>2. ~ \E i \in 1 .. Len(backlog) : backlog[i] = c
        BY <2>1
      <3> QED
        BY <3>1, <3>2 DEF Inv, TypeOK, OwnedInv
    <2> QED
      BY <2>1, <2>2, <2>3
  <1> QED
    BY <1>1, Invariance, PTL

\* A callback runs only between start and the join of its thread, whatever
\* the peers send and whenever the user ends the program.
THEOREM CallbacksOwned == Spec => CallbacksWhileOwned
  <1>1. ASSUME Inv, [Next]_vars
        PROVE  [log' # log => main \in {"running", "closeControl", "closeVideo",
                                        "joinControl", "joinVideo"}]_vars
    <2>1. ASSUME NEW t \in Threads, Dispatch(t)
          PROVE  main \in {"running", "closeControl", "closeVideo", "joinControl", "joinVideo"}
      <3>1. pc[t] = "copy"
        BY <2>1 DEF Dispatch
      <3> QED
        <4>1. main \notin {"new", "starting", "failed"}
          BY <1>1, <3>1 DEF Inv, StageInv
        <4>2. main \notin {"stopped", "exited"}
          BY <1>1, <3>1 DEF Inv, StageInv, Ended, Threads
        <4> QED
          BY <1>1, <4>1, <4>2 DEF Inv, TypeOK
    <2>2. CASE \E t \in Threads : Dispatch(t)
      BY <2>1, <2>2
    <2>3. CASE ~ \E t \in Threads : Dispatch(t)
      <3>1. log' = log
        <4> USE DEF mainVars, threadVars, netVars
        <4>1. CASE MainThread
          BY <4>1 DEF MainThread, StartControlSocket, StartVideoSocket, StopBegins, Stop,
                      CloseControlSocket, CloseVideoSocket, JoinControlThread,
                      JoinVideoThread, Destroy
        <4>2. CASE ControlThread
          BY <2>3, <4>2 DEF ControlThread, ControlLoop, Select, Accept, InnerLoop, ControlRecv,
                            HangUp, ProcessPacket, ParseHeader, CheckCrc, Threads
        <4>3. CASE VideoThread
          BY <2>3, <4>3 DEF VideoThread, VideoLoop, VideoRecv, VideoRecvFails,
                            ProcessPacket, ParseHeader, CheckCrc, Threads
        <4>4. CASE Network \/ UNCHANGED vars
          BY <4>4 DEF Network, PostDatagram, Connect, WritePacket, Finish, vars
        <4> QED
          BY <1>1, <4>1, <4>2, <4>3, <4>4 DEF Next, Exited
      <3> QED
        BY <3>1
    <2> QED
      BY <2>2, <2>3
  <1> QED
    BY <1>1, Invariance, PTL DEF Spec, CallbacksWhileOwned

-----------------------------------------------------------------------------
(* Integrity and order, when every peer is a TCP connection.                *)

LEMMA TcpInit == Init => TcpInv
  <1> SUFFICES ASSUME Init PROVE TcpInv
    OBVIOUS
  <1> USE DEF Init, Threads
  <1>1. OneWriterInv
    BY DEF OneWriterInv, Parsing
  <1>2. \A c \in Clients : log[c] = <<>>
    BY DEF Senders
  <1>3. OrderInv
    <2>1. \A c \in Clients : Len(log[c]) = 0
      <3>1. Len(<<>>) = 0
        OBVIOUS
      <3> QED
        BY <1>2, <3>1
    <2>2. \A c \in Clients : \A i \in 1 .. Len(log[c]) : FALSE
      BY <2>1
    <2> QED
      BY <2>2 DEF OrderInv
  <1>4. PayloadMatchesHeader
    BY DEF PayloadMatchesHeader
  <1> QED
    BY <1>1, <1>3, <1>4 DEF TcpInv

\* A step that neither reads a packet nor parses one keeps TcpInv.
LEMMA TcpFrame ==
    ASSUME Inv, TcpInv, UNCHANGED <<log, consumed>>,
           pc'["video"] \notin {"parse", "crc", "copy"},
           \/ ~Parsing /\ ~Parsing'
           \/ /\ pc'["control"] = pc["control"]
              /\ UNCHANGED <<serving, recv_buffer, bytes, header>>
    PROVE  TcpInv'
  <1>1. OneWriterInv'
    BY DEF TcpInv, OneWriterInv, Parsing
  <1>2. \A c \in Clients : ReadBefore(c)' = ReadBefore(c)
    BY DEF ReadBefore, Parsing
  <1>3. OrderInv'
    BY <1>2 DEF TcpInv, OrderInv
  <1>4. PayloadMatchesHeader'
    BY DEF TcpInv, PayloadMatchesHeader
  <1> QED
    BY <1>1, <1>3, <1>4 DEF TcpInv

\* A step that drops the packet being parsed keeps TcpInv.
LEMMA TcpDrop ==
    ASSUME Inv, TcpInv, Parsing, ~Parsing', UNCHANGED <<log, consumed>>,
           pc'["video"] = pc["video"]
    PROVE  TcpInv'
  <1>1. OneWriterInv'
    BY DEF TcpInv, OneWriterInv, Parsing
  <1>2. ASSUME NEW c \in Clients PROVE ReadBefore(c) <= ReadBefore(c)'
    <2>1. ReadBefore(c)' = consumed[c]
      BY DEF ReadBefore
    <2>2. bytes["control"] \in Nat /\ consumed[c] \in Nat
      BY DEF Inv, TypeOK, Threads
    <2> QED
      BY <2>1, <2>2 DEF ReadBefore
  <1>3. OrderInv'
    <2> SUFFICES ASSUME NEW c \in Clients, NEW i \in 1 .. Len(log[c])
                 PROVE  log[c][i].header.pos < ReadBefore(c)'
      BY DEF TcpInv, OrderInv
    <2>1. log[c] \in Seq([by : Threads, header : Unit, payload : Unit])
      BY DEF Inv, TypeOK, Senders
    <2>2. log[c][i].header.pos \in Nat
      <3>1. log[c][i] \in [by : Threads, header : Unit, payload : Unit]
        BY <2>1, ElementOfSeq
      <3> QED
        BY <3>1, UnitFields
    <2>3. bytes["control"] \in Nat /\ consumed[c] \in Nat
      BY DEF Inv, TypeOK, Threads
    <2>4. log[c][i].header.pos < ReadBefore(c) /\ ReadBefore(c) \in Int
      BY <2>3 DEF TcpInv, OrderInv, ReadBefore
    <2>5. ReadBefore(c)' \in Int
      BY <2>3 DEF ReadBefore
    <2> QED
      BY <1>2, <2>2, <2>4, <2>5
  <1>4. PayloadMatchesHeader'
    BY DEF TcpInv, PayloadMatchesHeader
  <1> QED
    BY <1>1, <1>3, <1>4 DEF TcpInv

LEMMA TcpRecv ==
    ASSUME Inv, TcpInv, ControlRecv
    PROVE  TcpInv'
  <1>1. PICK n \in 1 .. BufferUnits :
           /\ n <= Unread(serving)
           /\ Fill("control", serving, consumed[serving], n)
           /\ consumed' = [consumed EXCEPT ![serving] = @ + n]
    BY DEF ControlRecv, RecvRoom, TakeUnits
  <1>2. /\ serving \in Clients /\ serving \in Senders /\ pc["control"] = "recv"
        /\ serving' = serving /\ header' = header /\ log' = log
    BY DEF Inv, ServingInv, ControlRecv, Senders
  <1>3. /\ consumed \in [Clients -> Nat] /\ bytes \in [Threads -> 0 .. BufferUnits]
        /\ pc \in [Threads -> Places]
    BY DEF Inv, TypeOK
  <1>4. consumed[serving] \in Nat /\ consumed'[serving] = consumed[serving] + n
    BY <1>1, <1>2, <1>3
  <1>5. consumed[serving] + n <= MaxUnits(serving)
    BY <1>1, <1>2, <1>4, TrafficLength DEF Unread, Inv, TypeOK, StreamInv
  <1>6. /\ bytes'["control"] = n
        /\ \A i \in 1 .. n : recv_buffer'[i] = [from |-> serving, pos |-> consumed[serving] + i]
        /\ pc' = [pc EXCEPT !["control"] = "parse"]
    BY <1>1, <1>2, <1>4, <1>5, FillBuffer DEF Threads
  <1>7. pc'["control"] = "parse" /\ pc'["video"] = pc["video"]
    BY <1>6 DEF Inv, TypeOK, Threads
  <1>8. OneWriterInv'
    <2>1. /\ bytes'["control"] >= 1 /\ bytes'["control"] <= consumed'[serving]
          /\ consumed'[serving] - bytes'["control"] = consumed[serving]
      BY <1>4, <1>6
    <2> QED
      BY <1>2, <1>6, <1>7, <2>1 DEF OneWriterInv, TcpInv, Parsing
  <1>9. ASSUME NEW c \in Clients PROVE ReadBefore(c)' = ReadBefore(c)
    <2>1. CASE c = serving
      <3>1. ReadBefore(c)' = consumed'[c] - bytes'["control"]
        BY <1>2, <1>7, <2>1 DEF ReadBefore, Parsing
      <3>2. ReadBefore(c) = consumed[c]
        BY <1>2 DEF ReadBefore, Parsing
      <3> QED
        BY <1>4, <1>6, <2>1, <3>1, <3>2
    <2>2. CASE c # serving
      <3>1. ReadBefore(c)' = consumed'[c] /\ ReadBefore(c) = consumed[c]
        BY <1>2, <2>2 DEF ReadBefore
      <3> QED
        BY <1>1, <1>3, <2>2, <3>1
    <2> QED
      BY <2>1, <2>2
  <1>10. OrderInv' /\ PayloadMatchesHeader'
    BY <1>2, <1>9 DEF TcpInv, OrderInv, PayloadMatchesHeader
  <1> QED
    BY <1>8, <1>10 DEF TcpInv

LEMMA TcpParse ==
    ASSUME Inv, TcpInv, ParseHeader("control") \/ CheckCrc("control")
    PROVE  TcpInv'
  <1> USE DEF Threads
  <1>1. /\ pc["control"] \in {"parse", "crc"} /\ pc \in [Threads -> Places]
        /\ UNCHANGED <<mainVars, serving, recv_buffer, bytes, log, netVars>>
    BY DEF ParseHeader, CheckCrc, Inv, TypeOK
  <1>2. /\ pc'["video"] = pc["video"]
        /\ \/ pc'["control"] = "inner"
           \/ pc'["control"] = "crc" /\ header'["control"] = recv_buffer[1]
           \/ /\ pc'["control"] = "copy" /\ header' = header
              /\ header["control"] = recv_buffer[1]
    BY <1>1 DEF ParseHeader, CheckCrc, Resume, Go, Inv, TypeOK, TcpInv, OneWriterInv
  <1>3. CASE pc'["control"] = "inner"
    BY <1>1, <1>2, <1>3, TcpDrop DEF Parsing, netVars
  <1>4. CASE pc'["control"] \in {"crc", "copy"}
    <2>1. OneWriterInv'
      BY <1>1, <1>2, <1>4 DEF TcpInv, OneWriterInv, Parsing, netVars
    <2>2. \A c \in Clients : ReadBefore(c)' = ReadBefore(c)
      BY <1>1, <1>4 DEF ReadBefore, Parsing, netVars
    <2>3. OrderInv' /\ PayloadMatchesHeader'
      BY <1>1, <2>2 DEF TcpInv, OrderInv, PayloadMatchesHeader
    <2> QED
      BY <2>1, <2>3 DEF TcpInv
  <1> QED
    BY <1>2, <1>3, <1>4

\* What the control thread dispatches is intact and later than all before.
LEMMA DispatchedUnit ==
    ASSUME Inv, TcpInv, pc["control"] = "copy"
    PROVE  /\ serving \in Clients
           /\ header["control"].from = serving
           /\ header["control"].pos \in Nat
           /\ header["control"].pos = ReadBefore(serving) + 1
           /\ header["control"].pos < consumed[serving]
           /\ IsHeader(header["control"])
           /\ recv_buffer[2] = BodyOf(header["control"])
  <1>1. serving \in Clients
    BY DEF Inv, ServingInv
  <1>2. /\ bytes["control"] \in Nat /\ bytes["control"] >= 2
        /\ header["control"] \in Unit /\ IsHeader(header["control"])
    BY DEF Inv, TypeOK, ParseInv, Threads
  <1>3. consumed[serving] \in Nat /\ bytes["control"] <= consumed[serving]
    BY <1>1 DEF Inv, TypeOK, TcpInv, OneWriterInv, Parsing
  <1>4. /\ 1 \in 1 .. bytes["control"] /\ 2 \in 1 .. bytes["control"]
    BY <1>2
  <1>5. /\ header["control"] = [from |-> serving, pos |-> consumed[serving] - bytes["control"] + 1]
        /\ recv_buffer[2] = [from |-> serving, pos |-> consumed[serving] - bytes["control"] + 2]
    BY <1>4 DEF TcpInv, OneWriterInv, Parsing
  <1>6. BodyOf(header["control"])
          = [from |-> serving, pos |-> consumed[serving] - bytes["control"] + 1 + 1]
    BY <1>5 DEF BodyOf
  <1>7. consumed[serving] - bytes["control"] + 1 + 1 = consumed[serving] - bytes["control"] + 2
    BY <1>2, <1>3
  <1>8. ReadBefore(serving) = consumed[serving] - bytes["control"]
    BY DEF ReadBefore, Parsing
  <1> QED
    BY <1>1, <1>2, <1>3, <1>5, <1>6, <1>7, <1>8

LEMMA TcpDispatch ==
    ASSUME Inv, TcpInv, Dispatch("control")
    PROVE  TcpInv'
  <1> DEFINE h == header["control"]
             e == [by |-> "control", header |-> h, payload |-> recv_buffer[2]]
  <1>1. /\ pc["control"] = "copy" /\ pc \in [Threads -> Places]
        /\ consumed' = consumed /\ serving' = serving
    BY DEF Dispatch, Inv, TypeOK, netVars
  <1>2. Parsing /\ ~Parsing' /\ pc'["video"] = pc["video"]
    BY <1>1 DEF Dispatch, Resume, Go, Parsing, Threads
  <1>3. CASE log' = log
    BY <1>1, <1>2, <1>3, TcpDrop
  <1>4. CASE Callback("control")
    <2>1. /\ serving \in Clients /\ h.from = serving /\ h.pos \in Nat
          /\ h.pos = ReadBefore(serving) + 1 /\ h.pos < consumed[serving]
          /\ IsHeader(h) /\ recv_buffer[2] = BodyOf(h)
      BY <1>1, DispatchedUnit
    <2>2. log \in [Senders -> Seq([by : Threads, header : Unit, payload : Unit])]
          /\ serving \in Senders
      BY <2>1 DEF Inv, TypeOK, Senders
    <2>3. log' = [log EXCEPT ![serving] = Append(@, e)]
      BY <1>4, <2>1 DEF Callback
    <2>4. /\ log'[serving] = Append(log[serving], e)
          /\ \A s \in Senders : s # serving => log'[s] = log[s]
      BY <2>2, <2>3
    <2>5. \A s \in Senders : Len(log[s]) \in Nat
      BY <2>2
    <2>6. /\ Len(log'[serving]) = Len(log[serving]) + 1
          /\ log'[serving][Len(log[serving]) + 1] = e
          /\ \A i \in 1 .. Len(log[serving]) : log'[serving][i] = log[serving][i]
      BY <2>2, <2>4
    <2>7. OneWriterInv'
      BY <1>1, <1>2 DEF TcpInv, OneWriterInv, Parsing
    <2>8. /\ \A c \in Clients : ReadBefore(c)' = consumed[c]
          /\ \A c \in Clients : ReadBefore(c) \in Int /\ ReadBefore(c) <= consumed[c]
      BY <1>1, <1>2 DEF ReadBefore, Inv, TypeOK, Threads
    <2>9. ASSUME NEW c \in Clients, NEW i \in 1 .. Len(log[c])
          PROVE  log[c][i].header.pos \in Nat
      <3>1. log[c][i] \in [by : Threads, header : Unit, payload : Unit]
        BY <2>2, ElementOfSeq DEF Senders
      <3> QED
        BY <3>1, UnitFields
    <2>10. ASSUME NEW c \in Clients, NEW i \in 1 .. Len(log[c])
           PROVE  /\ log[c][i].header.from = c
                  /\ IsHeader(log[c][i].header)
                  /\ log[c][i].header.pos < ReadBefore(c)
                  /\ log[c][i].header.pos < consumed[c]
      <3>1. consumed[c] \in Nat
        BY DEF Inv, TypeOK
      <3> QED
        BY <2>8, <2>9, <3>1 DEF TcpInv, OrderInv
    <2>11. OrderInv'
      <3>1. ASSUME NEW c \in Clients, c # serving
            PROVE  /\ \A i \in 1 .. Len(log'[c]) :
                        /\ log'[c][i].header.from = c
                        /\ IsHeader(log'[c][i].header)
                        /\ log'[c][i].header.pos < ReadBefore(c)'
                   /\ \A i, j \in 1 .. Len(log'[c]) :
                        i < j => log'[c][i].header.pos < log'[c][j].header.pos
        <4>1. log'[c] = log[c]
          BY <2>4, <3>1 DEF Senders
        <4> QED
          BY <2>8, <2>10, <4>1 DEF TcpInv, OrderInv
      <3>2. ASSUME NEW i \in 1 .. Len(log'[serving])
            PROVE  /\ log'[serving][i].header.from = serving
                   /\ IsHeader(log'[serving][i].header)
                   /\ log'[serving][i].header.pos < consumed[serving]
        <4>1. CASE i \in 1 .. Len(log[serving])
          <5>1. log'[serving][i] = log[serving][i]
            BY <2>6, <4>1
          <5>2. /\ log[serving][i].header.from = serving
                /\ IsHeader(log[serving][i].header)
                /\ log[serving][i].header.pos < consumed[serving]
            BY <2>1, <2>10, <4>1
          <5> QED
            BY <5>1, <5>2
        <4>2. CASE i = Len(log[serving]) + 1
          <5>1. log'[serving][i].header = h
            BY <2>6, <4>2
          <5> QED
            BY <2>1, <5>1
        <4> QED
          BY <2>2, <2>5, <2>6, <4>1, <4>2
      <3>3. ASSUME NEW i \in 1 .. Len(log'[serving]), NEW j \in 1 .. Len(log'[serving]), i < j
            PROVE  log'[serving][i].header.pos < log'[serving][j].header.pos
        <4>1. i \in 1 .. Len(log[serving])
          BY <2>2, <2>5, <2>6, <3>3
        <4>2. CASE j \in 1 .. Len(log[serving])
          BY <2>1, <2>6, <3>3, <4>1, <4>2 DEF TcpInv, OrderInv
        <4>3. CASE j = Len(log[serving]) + 1
          <5>1. log'[serving][j].header.pos = ReadBefore(serving) + 1
            BY <2>1, <2>6, <4>3
          <5>2. log'[serving][i].header.pos < ReadBefore(serving)
            BY <2>1, <2>6, <2>10, <4>1
          <5>3. log'[serving][i].header.pos \in Nat /\ ReadBefore(serving) \in Int
            BY <2>1, <2>6, <2>8, <2>9, <4>1
          <5> QED
            BY <5>1, <5>2, <5>3
        <4> QED
          BY <2>2, <2>5, <2>6, <4>2, <4>3
      <3> SUFFICES ASSUME NEW c \in Clients
                   PROVE  /\ \A i \in 1 .. Len(log'[c]) :
                               /\ log'[c][i].header.from = c
                               /\ IsHeader(log'[c][i].header)
                               /\ log'[c][i].header.pos < ReadBefore(c)'
                          /\ \A i, j \in 1 .. Len(log'[c]) :
                               i < j => log'[c][i].header.pos < log'[c][j].header.pos
        BY DEF OrderInv, IsHeader
      <3>4. CASE c = serving
        <4>1. ReadBefore(c)' = consumed[serving]
          BY <2>8, <3>4
        <4> QED
          BY <3>2, <3>3, <3>4, <4>1
      <3> QED
        BY <3>1, <3>4
    <2>12. PayloadMatchesHeader'
      <3> SUFFICES ASSUME NEW s \in Senders, NEW i \in 1 .. Len(log'[s])
                   PROVE  log'[s][i].payload = BodyOf(log'[s][i].header)
        BY DEF PayloadMatchesHeader, BodyOf
      <3>1. CASE s = serving /\ i = Len(log[serving]) + 1
        BY <2>1, <2>6, <3>1
      <3>2. CASE s = serving /\ i \in 1 .. Len(log[serving])
        BY <2>2, <2>6, <3>2 DEF TcpInv, PayloadMatchesHeader
      <3>3. CASE s # serving
        BY <2>4, <3>3 DEF TcpInv, PayloadMatchesHeader
      <3> QED
        BY <2>2, <2>5, <2>6, <3>1, <3>2, <3>3
    <2> QED
      BY <2>7, <2>11, <2>12 DEF TcpInv
  <1> QED
    BY <1>3, <1>4 DEF Dispatch

LEMMA TcpStep ==
    ASSUME TcpOnly, Inv, TcpInv, [Next]_vars
    PROVE  TcpInv'
  <1> USE DEF mainVars, threadVars, netVars, Threads, Go
  <1>1. pc \in [Threads -> Places] /\ pc["video"] \notin {"parse", "crc", "copy"}
    BY DEF Inv, TypeOK, TcpInv, OneWriterInv
  <1>2. CASE MainThread
    <2>1. CASE StartVideoSocket
      <3>1. UNCHANGED <<log, consumed, serving, recv_buffer, bytes, header>>
        BY <2>1 DEF StartVideoSocket
      <3>2. ~Parsing
        BY <2>1 DEF StartVideoSocket, Inv, StageInv, Parsing
      <3>3. ~Parsing' /\ pc'["video"] \notin {"parse", "crc", "copy"}
        BY <1>1, <2>1, <3>2 DEF StartVideoSocket, Parsing
      <3> QED
        BY <3>1, <3>2, <3>3, TcpFrame
    <2>2. CASE StartControlSocket \/ StopBegins \/ Stop
      <3>1. UNCHANGED <<log, consumed, pc, serving, recv_buffer, bytes, header>>
        BY <2>2 DEF StartControlSocket, StopBegins, Stop, CloseControlSocket, CloseVideoSocket,
                    JoinControlThread, JoinVideoThread, Destroy
      <3> QED
        BY <1>1, <3>1, TcpFrame
    <2> QED
      BY <1>2, <2>1, <2>2 DEF MainThread
  <1>3. CASE ControlThread
    <2>1. CASE ControlLoop \/ Select \/ Accept \/ InnerLoop \/ HangUp
      <3>1. UNCHANGED <<log, consumed>> /\ pc'["video"] = pc["video"]
        BY <1>1, <2>1 DEF ControlLoop, Select, Accept, InnerLoop, HangUp
      <3>2. ~Parsing /\ ~Parsing'
        BY <1>1, <2>1 DEF ControlLoop, Select, Accept, InnerLoop, HangUp, Parsing
      <3> QED
        BY <1>1, <3>1, <3>2, TcpFrame
    <2>2. CASE ControlRecv
      BY <2>2, TcpRecv
    <2>3. CASE ProcessPacket("control")
      BY <2>3, TcpParse, TcpDispatch DEF ProcessPacket
    <2> QED
      BY <1>3, <2>1, <2>2, <2>3 DEF ControlThread
  <1>4. CASE VideoThread
    <2>1. ~VideoRecv
      <3>1. DOMAIN datagrams = 1 .. 0
        BY DEF Inv, TypeOK, TcpOnly
      <3> QED
        BY <3>1 DEF VideoRecv
    <2>2. ~ProcessPacket("video")
      BY <1>1 DEF ProcessPacket, ParseHeader, CheckCrc, Dispatch
    <2>3. VideoLoop \/ VideoRecvFails
      BY <1>4, <2>1, <2>2 DEF VideoThread
    <2>4. /\ UNCHANGED <<log, consumed, serving, recv_buffer, bytes, header>>
          /\ pc'["control"] = pc["control"] /\ pc'["video"] \notin {"parse", "crc", "copy"}
      BY <1>1, <2>3 DEF VideoLoop, VideoRecvFails
    <2> QED
      BY <2>4, TcpFrame
  <1>5. CASE Network \/ UNCHANGED vars
    <2>1. UNCHANGED <<log, consumed, pc, serving, recv_buffer, bytes, header>>
      BY <1>5 DEF Network, PostDatagram, Connect, WritePacket, Finish, vars
    <2> QED
      BY <1>1, <2>1, TcpFrame
  <1> QED
    BY <1>2, <1>3, <1>4, <1>5 DEF Next, Exited

\* With TCP peers only, what is known of the one writer of recv_buffer_ and
\* of the order of the callbacks holds in every state.
THEOREM TcpInvariance ==
    ASSUME TcpOnly
    PROVE  Spec => [](Inv /\ TcpInv)
  <1>1. Init => Inv /\ TcpInv
    BY InvInit, TcpInit
  <1>2. Inv /\ TcpInv /\ [Next]_vars => (Inv /\ TcpInv)'
    BY InvStep, TcpStep
  <1> QED
    BY <1>1, <1>2, PTL DEF Spec

\* With TCP peers only, a callback is always given the payload whose CRC was
\* checked: the second read of recv_buffer_ sees what the first one saw.
THEOREM PayloadIntegrity ==
    ASSUME TcpOnly
    PROVE  Spec => []PayloadMatchesHeader
  <1>1. TcpInv => PayloadMatchesHeader
    BY DEF TcpInv
  <1> QED
    BY <1>1, TcpInvariance, PTL

-----------------------------------------------------------------------------
(* The control connections implement LossyChannel.                          *)

LEMMA HalfOfOdd ==
    ASSUME NEW p \in Nat, p % 2 = 1
    PROVE  \E k \in Nat : p = 2 * k + 1 /\ (p + 1) \div 2 = k + 1
  <1>1. p = 2 * (p \div 2) + 1 /\ p \div 2 \in Nat
    OBVIOUS
  <1>2. (p + 1) \div 2 = p \div 2 + 1
    OBVIOUS
  <1> QED
    BY <1>1, <1>2

LEMMA HalfOfEven ==
    ASSUME NEW p \in Nat, p % 2 = 0
    PROVE  \E k \in Nat : p = 2 * k /\ p \div 2 = k
  <1>1. p = 2 * (p \div 2) /\ p \div 2 \in Nat
    OBVIOUS
  <1> QED
    BY <1>1

LEMMA DispatchedLength ==
    ASSUME Inv, NEW c \in Clients
    PROVE  /\ log[c] \in Seq([by : Threads, header : Unit, payload : Unit])
           /\ Len(log[c]) \in Nat
           /\ PacketsDispatched[c] = [i \in 1 .. Len(log[c]) |->
                 IF Intact(log[c][i]) THEN Number(log[c][i].header) ELSE 0]
           /\ Len(PacketsDispatched[c]) = Len(log[c])
  <1>1. log[c] \in Seq([by : Threads, header : Unit, payload : Unit])
    BY DEF Inv, TypeOK, Senders
  <1> QED
    BY <1>1 DEF PacketsDispatched

LEMMA RefinesInit == Init => ControlChannel!ChannelInit
  <1> SUFFICES ASSUME Init PROVE ControlChannel!ChannelInit
    OBVIOUS
  <1>1. PacketsSent = [c \in Clients |-> 0]
    BY DEF Init, PacketsSent
  <1>2. ASSUME NEW c \in Clients PROVE PacketsDispatched[c] = <<>>
    <2>1. log[c] = <<>>
      BY DEF Init, Senders
    <2>2. Len(<<>>) = 0
      OBVIOUS
    <2> QED
      BY <2>1, <2>2 DEF PacketsDispatched
  <1>3. PacketsDispatched = [c \in Clients |-> <<>>]
    BY <1>2 DEF PacketsDispatched
  <1> QED
    BY <1>1, <1>3 DEF ControlChannel!ChannelInit

LEMMA RefinesStutter ==
    ASSUME UNCHANGED <<written, log>>
    PROVE  UNCHANGED ControlChannel!channelVars
  BY DEF ControlChannel!channelVars, PacketsSent, PacketsDispatched, Intact, Number, BodyOf

LEMMA RefinesWrite ==
    ASSUME Inv, NEW c \in Clients, WritePacket(c)
    PROVE  ControlChannel!SendPacket(c)
  <1>1. /\ written \in [Clients -> Nat] /\ written[c] % 2 = 0
        /\ written[c] < MaxUnits(c) /\ MaxUnits(c) = 2 * Len(TcpTraffic)
        /\ Len(TcpTraffic) \in Nat
    BY DEF WritePacket, Inv, TypeOK, StreamInv, MaxUnits, Traffic
  <1>2. /\ written[c] \div 2 < Len(TcpTraffic)
        /\ (written[c] + 2) \div 2 = written[c] \div 2 + 1
    BY <1>1
  <1>3. written' = [written EXCEPT ![c] = @ + 2] /\ log' = log
    BY DEF WritePacket, threadVars
  <1>4. PacketsSent' = [PacketsSent EXCEPT ![c] = @ + 1]
    <2>1. ASSUME NEW d \in Clients
          PROVE  written'[d] \div 2 = IF d = c THEN written[c] \div 2 + 1 ELSE written[d] \div 2
      BY <1>1, <1>2, <1>3
    <2> QED
      BY <2>1 DEF PacketsSent
  <1>5. PacketsSent[c] < Len(TcpTraffic)
    BY <1>2 DEF PacketsSent
  <1>6. PacketsDispatched' = PacketsDispatched
    BY <1>3 DEF PacketsDispatched, Intact, Number, BodyOf
  <1> QED
    BY <1>4, <1>5, <1>6 DEF ControlChannel!SendPacket

LEMMA RefinesDispatch ==
    ASSUME Inv, TcpInv, Dispatch("control"), log' # log
    PROVE  \E c \in Clients : ControlChannel!DeliverPacket(c)
  <1> DEFINE h == header["control"]
             e == [by |-> "control", header |-> h, payload |-> recv_buffer[2]]
             n == Number(h)
  <1>1. pc["control"] = "copy" /\ written' = written /\ Callback("control")
    BY DEF Dispatch, netVars
  <1>2. PICK c \in Clients : c = serving
    BY <1>1, DispatchedUnit
  <1>3. /\ h.from = c /\ h.pos \in Nat /\ h.pos = ReadBefore(c) + 1
        /\ h.pos < consumed[c] /\ h.pos % 2 = 1 /\ recv_buffer[2] = BodyOf(h)
    BY <1>1, <1>2, DispatchedUnit DEF IsHeader
  <1>4. /\ written \in [Clients -> Nat] /\ consumed \in [Clients -> Nat]
        /\ written[c] % 2 = 0 /\ consumed[c] <= written[c]
    BY DEF Inv, TypeOK, StreamInv
  <1>5. n \in 1 .. PacketsSent[c]
    <2>1. (h.pos + 1) \div 2 >= 1 /\ (h.pos + 1) \div 2 <= written[c] \div 2
      <3>1. PICK k \in Nat : h.pos = 2 * k + 1 /\ (h.pos + 1) \div 2 = k + 1
        BY <1>3, HalfOfOdd
      <3>2. PICK m \in Nat : written[c] = 2 * m /\ written[c] \div 2 = m
        BY <1>4, HalfOfEven
      <3>3. 2 * k + 1 < 2 * m
        BY <1>3, <1>4, <3>1, <3>2
      <3> QED
        BY <3>1, <3>2, <3>3
    <2>2. (h.pos + 1) \div 2 \in Int /\ written[c] \div 2 \in Int
      BY <1>3, <1>4
    <2> QED
      BY <2>1, <2>2 DEF Number, PacketsSent
  <1>6. /\ log[c] \in Seq([by : Threads, header : Unit, payload : Unit])
        /\ Len(log[c]) \in Nat
        /\ PacketsDispatched[c] = [i \in 1 .. Len(log[c]) |->
              IF Intact(log[c][i]) THEN Number(log[c][i].header) ELSE 0]
        /\ Len(PacketsDispatched[c]) = Len(log[c])
    BY DispatchedLength
  <1>7. ASSUME NEW i \in 1 .. Len(PacketsDispatched[c]) PROVE PacketsDispatched[c][i] < n
    <2>1. i \in 1 .. Len(log[c])
      BY <1>6
    <2>2. log[c][i] \in [by : Threads, header : Unit, payload : Unit]
      BY <1>6, <2>1, ElementOfSeq
    <2>3. log[c][i].header.pos \in Nat
      BY <2>2, UnitFields
    <2>4. /\ log[c][i].header.pos < ReadBefore(c) /\ log[c][i].header.pos % 2 = 1
          /\ log[c][i].payload = BodyOf(log[c][i].header)
      BY <2>1 DEF TcpInv, OrderInv, PayloadMatchesHeader, IsHeader, Senders
    <2>5. PacketsDispatched[c][i] = (log[c][i].header.pos + 1) \div 2
      BY <1>6, <2>1, <2>4 DEF Intact, Number
    <2>6. ReadBefore(c) = h.pos - 1
      BY <1>3, <1>4 DEF ReadBefore, Inv, TypeOK, Threads
    <2>7. (log[c][i].header.pos + 1) \div 2 < (h.pos + 1) \div 2
      <3>1. PICK k \in Nat : h.pos = 2 * k + 1 /\ (h.pos + 1) \div 2 = k + 1
        BY <1>3, HalfOfOdd
      <3>2. PICK m \in Nat : /\ log[c][i].header.pos = 2 * m + 1
                             /\ (log[c][i].header.pos + 1) \div 2 = m + 1
        BY <2>3, <2>4, HalfOfOdd
      <3>3. 2 * m + 1 < 2 * k
        BY <2>4, <2>6, <3>1, <3>2
      <3> QED
        BY <3>1, <3>2, <3>3
    <2> QED
      BY <2>5, <2>7 DEF Number
  <1>8. log \in [Senders -> Seq([by : Threads, header : Unit, payload : Unit])]
        /\ c \in Senders
    BY DEF Inv, TypeOK, Senders
  <1>9. log' = [log EXCEPT ![c] = Append(@, e)]
    BY <1>1, <1>3 DEF Callback
  <1>10. /\ \A d \in Clients : d # c => log'[d] = log[d]
         /\ log'[c] = Append(log[c], e)
    BY <1>8, <1>9 DEF Senders
  <1>11. /\ Len(log'[c]) = Len(log[c]) + 1
         /\ log'[c][Len(log[c]) + 1] = e
         /\ \A i \in 1 .. Len(log[c]) : log'[c][i] = log[c][i]
    BY <1>6, <1>8, <1>10
  <1>12. PacketsDispatched' = [PacketsDispatched EXCEPT ![c] = Append(@, n)]
    <2>1. PacketsDispatched'[c] = Append(PacketsDispatched[c], n)
      <3>1. PacketsDispatched'[c] = [i \in 1 .. Len(log[c]) + 1 |->
                IF Intact(log'[c][i]) THEN Number(log'[c][i].header) ELSE 0]
        BY <1>11 DEF PacketsDispatched
      <3>2. Intact(e) /\ e.header = h
        BY <1>3 DEF Intact
      <3>3. PacketsDispatched'[c][Len(log[c]) + 1] = n
        BY <1>6, <1>11, <3>1, <3>2
      <3>4. \A i \in 1 .. Len(log[c]) : PacketsDispatched'[c][i] = PacketsDispatched[c][i]
        BY <1>6, <1>11, <3>1
      <3>5. PacketsDispatched[c] \in Seq(Nat)
        <4>1. ASSUME NEW i \in 1 .. Len(log[c]) PROVE PacketsDispatched[c][i] \in Nat
          <5>1. log[c][i] \in [by : Threads, header : Unit, payload : Unit]
            BY <1>6, ElementOfSeq
          <5>2. log[c][i].header.pos \in Nat
            BY <5>1, UnitFields
          <5> QED
            BY <1>6, <5>2 DEF Number
        <4> QED
          <5>1. PacketsDispatched[c] \in [1 .. Len(log[c]) -> Nat]
            BY <1>6, <4>1
          <5> QED
            BY <1>6, <5>1, SeqDef
      <3>6. n \in Nat
        BY <1>3 DEF Number
      <3>7. /\ Append(PacketsDispatched[c], n) \in Seq(Nat)
            /\ Len(Append(PacketsDispatched[c], n)) = Len(log[c]) + 1
            /\ Append(PacketsDispatched[c], n)[Len(log[c]) + 1] = n
            /\ \A i \in 1 .. Len(log[c]) :
                 Append(PacketsDispatched[c], n)[i] = PacketsDispatched[c][i]
        BY <1>6, <3>5, <3>6, AppendProperties
      <3>8. \A i \in 1 .. Len(log[c]) + 1 :
               PacketsDispatched'[c][i] = Append(PacketsDispatched[c], n)[i]
        <4> SUFFICES ASSUME NEW i \in 1 .. Len(log[c]) + 1
                     PROVE  PacketsDispatched'[c][i] = Append(PacketsDispatched[c], n)[i]
          OBVIOUS
        <4>1. CASE i \in 1 .. Len(log[c])
          BY <3>4, <3>7, <4>1
        <4>2. CASE i = Len(log[c]) + 1
          BY <3>3, <3>7, <4>2
        <4> QED
          BY <1>6, <4>1, <4>2
      <3>9. Append(PacketsDispatched[c], n) = [i \in 1 .. Len(log[c]) + 1 |->
               Append(PacketsDispatched[c], n)[i]]
        BY <3>7
      <3> QED
        BY <3>1, <3>8, <3>9
    <2>2. ASSUME NEW d \in Clients, d # c PROVE PacketsDispatched'[d] = PacketsDispatched[d]
      BY <1>10, <2>2 DEF PacketsDispatched, Intact, Number, BodyOf
    <2> QED
      BY <2>1, <2>2 DEF PacketsDispatched
  <1>13. PacketsSent' = PacketsSent
    BY <1>1 DEF PacketsSent
  <1> QED
    BY <1>5, <1>7, <1>12, <1>13 DEF ControlChannel!DeliverPacket

LEMMA RefinesStep ==
    ASSUME TcpOnly, Inv, TcpInv, [Next]_vars
    PROVE  [ControlChannel!ChannelNext]_(ControlChannel!channelVars)
  <1> USE DEF mainVars, threadVars, netVars
  <1>1. CASE \E c \in Clients : WritePacket(c)
    BY <1>1, RefinesWrite DEF ControlChannel!ChannelNext
  <1>2. CASE Dispatch("control") /\ log' # log
    BY <1>2, RefinesDispatch DEF ControlChannel!ChannelNext
  <1>3. CASE Dispatch("control") /\ log' = log
    BY <1>3, RefinesStutter DEF Dispatch
  <1>4. ~VideoRecv /\ ~ProcessPacket("video")
    <2>1. DOMAIN datagrams = 1 .. 0
      BY DEF Inv, TypeOK, TcpOnly
    <2> QED
      BY <2>1 DEF VideoRecv, TcpInv, OneWriterInv, ProcessPacket, ParseHeader, CheckCrc, Dispatch
  <1>5. CASE MainThread
    <2>1. UNCHANGED <<written, log>>
      BY <1>5 DEF MainThread, StartControlSocket, StartVideoSocket, StopBegins, Stop,
                  CloseControlSocket, CloseVideoSocket, JoinControlThread,
                  JoinVideoThread, Destroy
    <2> QED
      BY <2>1, RefinesStutter
  <1>6. CASE ControlThread /\ ~Dispatch("control")
    <2>1. UNCHANGED <<written, log>>
      BY <1>6 DEF ControlThread, ControlLoop, Select, Accept, InnerLoop, ControlRecv, HangUp,
                  ProcessPacket, ParseHeader, CheckCrc
    <2> QED
      BY <2>1, RefinesStutter
  <1>7. CASE VideoThread
    <2>1. UNCHANGED <<written, log>>
      BY <1>4, <1>7 DEF VideoThread, VideoLoop, VideoRecvFails
    <2> QED
      BY <2>1, RefinesStutter
  <1>8. CASE Network /\ ~ \E c \in Clients : WritePacket(c)
    <2>1. UNCHANGED <<written, log>>
      BY <1>8 DEF Network, PostDatagram, Connect, Finish
    <2> QED
      BY <2>1, RefinesStutter
  <1>9. CASE UNCHANGED vars
    BY <1>9, RefinesStutter DEF vars
  <1> QED
    BY <1>1, <1>2, <1>3, <1>5, <1>6, <1>7, <1>8, <1>9 DEF Next, Exited

\* With TCP peers only, the callbacks of each connection see packets that were
\* sent on it, intact, in order and at most once: the host implements the
\* lossy channel.
THEOREM ChannelRefinement ==
    ASSUME TcpOnly
    PROVE  Spec => ImplementsControlChannel
  <1>1. Init => ControlChannel!ChannelInit
    BY RefinesInit
  <1>2. Inv /\ TcpInv /\ [Next]_vars
          => [ControlChannel!ChannelNext]_(ControlChannel!channelVars)
    BY RefinesStep
  <1> QED
    BY <1>1, <1>2, TcpInvariance, PTL
       DEF Spec, ImplementsControlChannel, ControlChannel!ChannelSpec
-----------------------------------------------------------------------------
(* The two threads, as their owner sees them (ReceivingThreads).            *)

\* running_ is up exactly from start to stop.
LEMMA FlagAlways == Spec => []FlagInv
  <1>1. Init => FlagInv
    BY DEF Init, FlagInv
  <1>2. FlagInv /\ [Next]_vars => FlagInv'
    <2> SUFFICES ASSUME FlagInv, [Next]_vars PROVE FlagInv'
      OBVIOUS
    <2> USE DEF FlagInv, mainVars
    <2>1. CASE MainThread
      BY <2>1 DEF MainThread, StartControlSocket, StartVideoSocket, StopBegins, ClearRunning,
                  Stop, CloseControlSocket, CloseVideoSocket, JoinControlThread,
                  JoinVideoThread, Destroy
    <2>2. CASE ControlThread
      BY <2>2 DEF ControlThread, ControlLoop, Select, Accept, InnerLoop, ControlRecv, HangUp,
                  ProcessPacket, ParseHeader, CheckCrc, Dispatch
    <2>3. CASE VideoThread
      BY <2>3 DEF VideoThread, VideoLoop, VideoRecv, VideoRecvFails, ProcessPacket,
                  ParseHeader, CheckCrc, Dispatch
    <2>4. CASE Network \/ UNCHANGED vars
      BY <2>4 DEF Network, PostDatagram, Connect, WritePacket, Finish, vars
    <2> QED
      BY <2>1, <2>2, <2>3, <2>4 DEF Next, Exited
  <1> QED
    BY <1>1, <1>2, PTL DEF Spec

\* What one step of a receiving thread can be to its owner.
MovesAsOwned(t) ==
    \E q \in Places :
        /\ Go(t, q)
        /\ \/ PlaceOf(q) = PlaceOf(pc[t])
           \/ PlaceOf(pc[t]) = "polling" /\ PlaceOf(q) = IF running THEN "busy" ELSE "done"
           \/ PlaceOf(pc[t]) = "busy" /\ PlaceOf(q) = "polling"

LEMMA ProcessMoves ==
    ASSUME TypeOK, NEW t \in Threads, ProcessPacket(t)
    PROVE  UNCHANGED mainVars /\ MovesAsOwned(t)
  <1>1. CASE ParseHeader(t)
    BY <1>1 DEF ParseHeader, Resume, MovesAsOwned, Places, PlaceOf, mainVars
  <1>2. CASE CheckCrc(t)
    BY <1>2 DEF CheckCrc, Resume, MovesAsOwned, Places, PlaceOf, mainVars
  <1>3. CASE Dispatch(t)
    BY <1>3 DEF Dispatch, Resume, MovesAsOwned, Places, PlaceOf, mainVars
  <1> QED
    BY <1>1, <1>2, <1>3 DEF ProcessPacket

LEMMA ControlMoves ==
    ASSUME TypeOK, ControlThread
    PROVE  UNCHANGED mainVars /\ MovesAsOwned("control")
  <1> USE DEF MovesAsOwned, Places, PlaceOf, mainVars
  <1>1. CASE ControlLoop
    BY <1>1 DEF ControlLoop
  <1>2. CASE Select
    BY <1>2 DEF Select
  <1>3. CASE Accept
    BY <1>3 DEF Accept
  <1>4. CASE InnerLoop
    BY <1>4 DEF InnerLoop, TypeOK
  <1>5. CASE ControlRecv
    BY <1>5 DEF ControlRecv, Fill
  <1>6. CASE HangUp
    BY <1>6 DEF HangUp
  <1>7. CASE ProcessPacket("control")
    BY <1>7, ProcessMoves DEF Threads
  <1> QED
    BY <1>1, <1>2, <1>3, <1>4, <1>5, <1>6, <1>7 DEF ControlThread

LEMMA VideoMoves ==
    ASSUME TypeOK, VideoThread
    PROVE  UNCHANGED mainVars /\ MovesAsOwned("video")
  <1> USE DEF MovesAsOwned, Places, PlaceOf, mainVars
  <1>1. CASE VideoLoop
    BY <1>1 DEF VideoLoop
  <1>2. CASE VideoRecv
    BY <1>2 DEF VideoRecv, Fill
  <1>3. CASE VideoRecvFails
    BY <1>3 DEF VideoRecvFails
  <1>4. CASE ProcessPacket("video")
    BY <1>4, ProcessMoves DEF Threads
  <1> QED
    BY <1>1, <1>2, <1>3, <1>4 DEF VideoThread

\* A move of one thread is a step, or none, of the abstract threads.
LEMMA MovesRefine ==
    ASSUME TypeOK, NEW t \in Threads, UNCHANGED mainVars, MovesAsOwned(t)
    PROVE  [OwnedThreads!ThreadsNext]_(OwnedThreads!threadsVars)
  <1>1. UNCHANGED <<Owner, running>>
    BY DEF mainVars, Owner
  <1> DEFINE Place == [u \in Threads |-> PlaceOf(pc[u])]
  <1>2. PICK q \in Places :
          /\ Go(t, q)
          /\ \/ PlaceOf(q) = PlaceOf(pc[t])
             \/ PlaceOf(pc[t]) = "polling" /\ PlaceOf(q) = IF running THEN "busy" ELSE "done"
             \/ PlaceOf(pc[t]) = "busy" /\ PlaceOf(q) = "polling"
    BY DEF MovesAsOwned
  <1>3. Place' = [Place EXCEPT ![t] = PlaceOf(q)]
    BY <1>2 DEF Go, TypeOK
  <1>4. CASE PlaceOf(q) = PlaceOf(pc[t])
    <2>1. Place' = Place
      BY <1>3, <1>4
    <2> QED
      BY <1>1, <2>1 DEF OwnedThreads!threadsVars
  <1>5. CASE PlaceOf(pc[t]) = "polling" /\ PlaceOf(q) = IF running THEN "busy" ELSE "done"
    <2>1. OwnedThreads!LookAtFlag(t)
      BY <1>1, <1>3, <1>5 DEF OwnedThreads!LookAtFlag
    <2> QED
      BY <2>1 DEF OwnedThreads!ThreadsNext
  <1>6. CASE PlaceOf(pc[t]) = "busy" /\ PlaceOf(q) = "polling"
    <2>1. OwnedThreads!LoopAgain(t)
      BY <1>1, <1>3, <1>6 DEF OwnedThreads!LoopAgain
    <2> QED
      BY <2>1 DEF OwnedThreads!ThreadsNext
  <1> QED
    BY <1>2, <1>4, <1>5, <1>6

LEMMA MainRefines ==
    ASSUME Inv, FlagInv, MainThread
    PROVE  [OwnedThreads!ThreadsNext]_(OwnedThreads!threadsVars)
  <1> USE DEF Owner, OwnedThreads!ThreadsNext, OwnedThreads!threadsVars
  <1>1. CASE StartControlSocket
    BY <1>1 DEF StartControlSocket, threadVars, OwnedThreads!RaiseFlag
  <1>2. CASE StartVideoSocket
    BY <1>2 DEF StartVideoSocket, FlagInv, PlaceOf, OwnedThreads!BeginThreads
  <1>3. CASE StopBegins
    BY <1>3 DEF StopBegins, ClearRunning, threadVars, OwnedThreads!StopThreads
  <1>4. CASE CloseControlSocket
    BY <1>4 DEF CloseControlSocket, threadVars
  <1>5. CASE CloseVideoSocket \/ JoinControlThread
    BY <1>5 DEF CloseVideoSocket, JoinControlThread, threadVars
  <1>6. CASE JoinVideoThread
    <2>1. \A t \in Threads : Ended(t)
      BY <1>6 DEF JoinVideoThread, Join, Inv, StageInv, Threads
    <2>2. \A t \in Threads : OwnedThreads!Over(t)
      BY <2>1 DEF Ended, OwnedThreads!Over, PlaceOf
    <2> QED
      BY <1>6, <2>2 DEF JoinVideoThread, threadVars, OwnedThreads!JoinThreads
  <1>7. CASE Destroy
    BY <1>7 DEF Destroy, ClearRunning, FlagInv, threadVars, Inv, TypeOK
  <1> QED
    BY <1>1, <1>2, <1>3, <1>4, <1>5, <1>6, <1>7 DEF MainThread, Stop

\* The control and the video thread are to WinMain what ReceivingThreads
\* promises: neither runs outside of start and stop, each looks at running_
\* before a receive, and each calls back at most once more after stop began.
THEOREM ThreadsRefinement == Spec => ImplementsReceivingThreads
  <1>1. Init => OwnedThreads!ThreadsInit
    BY DEF Init, Owner, PlaceOf, OwnedThreads!ThreadsInit
  <1>2. Inv /\ FlagInv /\ [Next]_vars => [OwnedThreads!ThreadsNext]_(OwnedThreads!threadsVars)
    <2> SUFFICES ASSUME Inv, FlagInv, [Next]_vars
                 PROVE  [OwnedThreads!ThreadsNext]_(OwnedThreads!threadsVars)
      OBVIOUS
    <2>1. CASE MainThread
      BY <2>1, MainRefines
    <2>2. CASE ControlThread
      BY <2>2, ControlMoves, MovesRefine DEF Inv, Threads
    <2>3. CASE VideoThread
      BY <2>3, VideoMoves, MovesRefine DEF Inv, Threads
    <2>4. CASE Network \/ UNCHANGED vars
      <3>1. UNCHANGED <<main, running, pc>>
        BY <2>4 DEF Network, PostDatagram, Connect, WritePacket, Finish, vars, mainVars,
                    threadVars
      <3> QED
        BY <3>1 DEF Owner, OwnedThreads!threadsVars
    <2> QED
      BY <2>1, <2>2, <2>3, <2>4 DEF Next, Exited
  <1> QED
    BY <1>1, <1>2, Invariance, FlagAlways, PTL
       DEF Spec, ImplementsReceivingThreads, OwnedThreads!ThreadsSpec

-----------------------------------------------------------------------------
(* What the abstract specifications entail, told of the receiver itself.    *)

Promise == INSTANCE PromiseProofs WITH
    Connections <- Clients, MaxSent <- Len(TcpTraffic),
    sent <- PacketsSent, delivered <- PacketsDispatched,
    owner <- Owner, flag <- running, place <- [t \in Threads |-> PlaceOf(pc[t])]

LEMMA SameThreads == ImplementsReceivingThreads => Promise!ThreadsSpec
  BY PTL
     DEF ImplementsReceivingThreads,
         OwnedThreads!ThreadsSpec, OwnedThreads!ThreadsInit, OwnedThreads!ThreadsNext,
         OwnedThreads!threadsVars, OwnedThreads!Over, OwnedThreads!RaiseFlag,
         OwnedThreads!BeginThreads, OwnedThreads!StopThreads, OwnedThreads!JoinThreads,
         OwnedThreads!GiveUp, OwnedThreads!ProcessEnds, OwnedThreads!LookAtFlag,
         OwnedThreads!LoopAgain,
         Promise!ThreadsSpec, Promise!ThreadsInit, Promise!ThreadsNext,
         Promise!threadsVars, Promise!Over, Promise!RaiseFlag,
         Promise!BeginThreads, Promise!StopThreads, Promise!JoinThreads,
         Promise!GiveUp, Promise!ProcessEnds, Promise!LookAtFlag, Promise!LoopAgain

LEMMA SameChannel == ImplementsControlChannel => Promise!ChannelSpec
  BY PTL
     DEF ImplementsControlChannel,
         ControlChannel!ChannelSpec, ControlChannel!ChannelInit, ControlChannel!ChannelNext,
         ControlChannel!channelVars, ControlChannel!SendPacket, ControlChannel!DeliverPacket,
         Promise!ChannelSpec, Promise!ChannelInit, Promise!ChannelNext,
         Promise!channelVars, Promise!SendPacket, Promise!DeliverPacket

\* Once stop has cleared running_, a thread that is not between its receive and
\* its callback never gets there again: WinMain has at most one more callback
\* of each thread to expect.
OneCallbackAfterStop ==
    [][\A t \in Threads :
          ~running /\ pc[t] \notin {"recv", "parse", "crc", "copy"}
              => pc'[t] \notin {"recv", "parse", "crc", "copy"}]_<<main, running, pc>>

\* Callbacks end with stop: what LateAtMostOnce says of any owned threads, said of
\* the receiver's.
THEOREM CallbacksEnd == Spec => OneCallbackAfterStop
  <1>1. Promise!OneLateCallback => [][Promise!NoneGetsBusy]_(Promise!threadsVars)
    BY PTL DEF Promise!OneLateCallback
  <1>2. [Promise!NoneGetsBusy]_(Promise!threadsVars)
          => [\A t \in Threads :
                ~running /\ pc[t] \notin {"recv", "parse", "crc", "copy"}
                    => pc'[t] \notin {"recv", "parse", "crc", "copy"}]_<<main, running, pc>>
    <2> SUFFICES ASSUME [Promise!NoneGetsBusy]_(Promise!threadsVars), NEW t \in Threads, ~running,
                        pc[t] \notin {"recv", "parse", "crc", "copy"}
                 PROVE  pc'[t] \notin {"recv", "parse", "crc", "copy"}
      OBVIOUS
    <2>1. PlaceOf(pc[t]) /= "busy"
      BY DEF PlaceOf
    <2>2. PlaceOf(pc'[t]) /= "busy"
      <3>1. CASE Promise!NoneGetsBusy
        BY <2>1, <3>1 DEF Promise!NoneGetsBusy
      <3>2. CASE UNCHANGED [u \in Threads |-> PlaceOf(pc[u])]
        <4>1. [u \in Threads |-> PlaceOf(pc'[u])][t] = [u \in Threads |-> PlaceOf(pc[u])][t]
          BY <3>2
        <4> QED
          BY <2>1, <4>1
      <3> QED
        BY <3>1, <3>2 DEF Promise!threadsVars
    <2> QED
      BY <2>2 DEF PlaceOf
  <1> QED
    BY <1>1, <1>2, ThreadsRefinement, SameThreads, Promise!LateAtMostOnce, PTL
       DEF OneCallbackAfterStop

\* No connection is called back for more packets than it was given to carry.
THEOREM CallbacksCounted ==
    ASSUME TcpOnly
    PROVE  Spec => [](\A c \in Clients : Len(log[c]) <= written[c] \div 2)
  <1>1. Len(TcpTraffic) \in Nat
    OBVIOUS
  <1>2. Promise!ChannelSpec => []Promise!NotMoreThanSent
    BY <1>1, Promise!ChannelCounts
  <1>3. Inv /\ Promise!NotMoreThanSent => \A c \in Clients : Len(log[c]) <= written[c] \div 2
    <2> SUFFICES ASSUME Inv, Promise!NotMoreThanSent, NEW c \in Clients
                 PROVE  Len(log[c]) <= written[c] \div 2
      OBVIOUS
    <2>1. Len(PacketsDispatched[c]) = Len(log[c])
      BY DispatchedLength
    <2> QED
      BY <2>1 DEF Promise!NotMoreThanSent, PacketsSent
  <1> QED
    BY <1>2, <1>3, ChannelRefinement, SameChannel, Invariance, PTL

-----------------------------------------------------------------------------
(* The joins of stop end: the measure and the lack of deadlock behind       *)
(* StopReturnsOrClientSilent.                                               *)

AcceptInv ==
    /\ QueueInv
    /\ pc["control"] = "accept" /\ control_socket = "listening" => backlog # <<>>

LEMMA AcceptInit == Init => AcceptInv
  <1> SUFFICES ASSUME Init PROVE AcceptInv
    OBVIOUS
  <1>1. Len(backlog) = 0 /\ serving \notin Clients /\ pc["control"] = "none"
    BY DEF Init, Threads
  <1> QED
    BY <1>1 DEF AcceptInv, QueueInv

\* Where neither the queue nor a connection changes, nor accept is reached.
LEMMA AcceptKept ==
    ASSUME AcceptInv, UNCHANGED <<backlog, serving>>,
           \/ UNCHANGED conn
           \/ \E c \in Clients : conn[c] = "open" /\ conn' = [conn EXCEPT ![c] = "finished"],
           pc'["control"] = "accept" /\ control_socket' = "listening" =>
             pc["control"] = "accept" /\ control_socket = "listening",
           TypeOK
    PROVE  AcceptInv'
  <1>1. \A c \in Clients : conn[c] \in {"open", "finished"} => conn'[c] \in {"open", "finished"}
    BY DEF TypeOK
  <1>2. \A i \in 1 .. Len(backlog) : backlog[i] \in Clients
    BY DEF TypeOK
  <1> QED
    BY <1>1, <1>2 DEF AcceptInv, QueueInv

LEMMA AcceptMain == Inv /\ AcceptInv /\ MainThread => AcceptInv'
  <1> SUFFICES ASSUME Inv, AcceptInv, MainThread PROVE AcceptInv'
    OBVIOUS
  <1>1. CASE CloseControlSocket
    <2>1. backlog' = <<>> /\ Len(backlog') = 0 /\ serving' = serving /\ control_socket' = "invalid"
      BY <1>1 DEF CloseControlSocket, threadVars
    <2>2. serving \in Clients => conn'[serving] = conn[serving]
      BY <1>1 DEF CloseControlSocket, AcceptInv, QueueInv, Inv, TypeOK
    <2> QED
      BY <2>1, <2>2 DEF AcceptInv, QueueInv
  <1>2. CASE MainThread /\ ~CloseControlSocket
    <2>1. UNCHANGED <<backlog, serving, conn>>
      BY <1>2 DEF MainThread, StartControlSocket, StartVideoSocket, StopBegins, Stop,
                  CloseVideoSocket, JoinControlThread, JoinVideoThread, Destroy, threadVars, netVars
    <2>2. pc'["control"] = "accept" => pc["control"] = "accept" /\ UNCHANGED pc
      BY <1>2 DEF MainThread, StartControlSocket, StartVideoSocket, StopBegins, Stop,
                  CloseVideoSocket, JoinControlThread, JoinVideoThread, Destroy, threadVars, Threads
    <2>3. pc["control"] = "accept" => main \notin {"new", "starting", "failed"}
      BY DEF Inv, StageInv, Threads
    <2>4. pc'["control"] = "accept" => UNCHANGED control_socket
      BY <1>2, <2>2, <2>3 DEF MainThread, StartControlSocket, StartVideoSocket, StopBegins, Stop,
                  CloseVideoSocket, JoinControlThread, JoinVideoThread, Destroy
    <2> QED
      BY <2>1, <2>2, <2>4, AcceptKept DEF Inv
  <1> QED
    BY <1>1, <1>2

LEMMA AcceptControl == Inv /\ AcceptInv /\ ControlThread => AcceptInv'
  <1> SUFFICES ASSUME Inv, AcceptInv, ControlThread PROVE AcceptInv'
    OBVIOUS
  <1>1. CASE Select
    <2>1. UNCHANGED <<backlog, serving, conn, control_socket>>
      BY <1>1 DEF Select, netVars, mainVars
    <2>2. pc'["control"] = "accept" => backlog # <<>>
      BY <1>1 DEF Select, Go, Inv, TypeOK, Threads
    <2> QED
      BY <2>1, <2>2 DEF AcceptInv, QueueInv
  <1>2. CASE Accept
    <2>1. pc'["control"] # "accept" /\ UNCHANGED conn
      BY <1>2 DEF Accept, Go, Inv, TypeOK, Threads
    <2>2. CASE UNCHANGED <<serving, backlog>>
      BY <2>1, <2>2 DEF AcceptInv, QueueInv
    <2>3. CASE backlog # <<>> /\ serving' = Head(backlog) /\ backlog' = Tail(backlog)
      <3>1. backlog \in Seq(Clients)
        BY DEF Inv, TypeOK
      <3>2. /\ Len(backlog) \in Nat /\ Len(backlog) >= 1 /\ Len(backlog') = Len(backlog) - 1
            /\ serving' = backlog[1]
            /\ \A i \in 1 .. Len(backlog') : backlog'[i] = backlog[i + 1]
        BY <2>3, <3>1
      <3>3. QueueInv'
        <4>1. \A i \in 1 .. Len(backlog') : i + 1 \in 1 .. Len(backlog) /\ i + 1 # 1
          BY <3>2
        <4>2. 1 \in 1 .. Len(backlog)
          BY <3>2
        <4>3. \A i, j \in 1 .. Len(backlog') : i # j => i + 1 # j + 1
          BY <3>2
        <4>4. /\ \A i, j \in 1 .. Len(backlog) : i # j => backlog[i] # backlog[j]
              /\ \A i \in 1 .. Len(backlog) : conn[backlog[i]] \in {"open", "finished"}
          BY DEF AcceptInv, QueueInv
        <4>5. ASSUME NEW i \in 1 .. Len(backlog')
              PROVE  /\ backlog'[i] # serving' /\ conn'[backlog'[i]] \in {"open", "finished"}
                     /\ \A j \in 1 .. Len(backlog') : i # j => backlog'[i] # backlog'[j]
          <5>1. i + 1 \in 1 .. Len(backlog) /\ i + 1 # 1 /\ backlog'[i] = backlog[i + 1]
            BY <3>2, <4>1
          <5>2. backlog[i + 1] # backlog[1]
            BY <4>2, <4>4, <5>1
          <5>3. ASSUME NEW j \in 1 .. Len(backlog'), i # j PROVE backlog'[i] # backlog'[j]
            <6>1. j + 1 \in 1 .. Len(backlog) /\ backlog'[j] = backlog[j + 1] /\ i + 1 # j + 1
              BY <3>2, <4>1, <4>3, <5>3
            <6> QED
              BY <4>4, <5>1, <6>1
          <5> QED
            BY <2>1, <3>2, <4>4, <5>1, <5>2, <5>3
        <4>6. conn'[serving'] \in {"open", "finished"}
          BY <2>1, <3>2, <4>2, <4>4
        <4> QED
          BY <4>5, <4>6 DEF QueueInv
      <3> QED
        BY <2>1, <3>3 DEF AcceptInv
    <2> QED
      BY <1>2, <2>2, <2>3 DEF Accept
  <1>3. CASE HangUp
    <2>1. /\ serving \in Clients /\ serving' = NoClient /\ serving' \notin Clients
          /\ backlog' = backlog /\ conn' = [conn EXCEPT ![serving] = "closed"]
          /\ pc'["control"] # "accept"
      BY <1>3 DEF HangUp, CloseClient, Go, Inv, ServingInv, TypeOK, Threads
    <2>2. \A i \in 1 .. Len(backlog) : conn'[backlog[i]] = conn[backlog[i]] /\ backlog[i] # NoClient
      BY <2>1 DEF AcceptInv, QueueInv, Inv, TypeOK
    <2> QED
      BY <2>1, <2>2 DEF AcceptInv, QueueInv
  <1>4. CASE ControlLoop \/ InnerLoop \/ ControlRecv \/ ProcessPacket("control")
    <2>1. UNCHANGED <<backlog, serving, conn, control_socket>>
      BY <1>4 DEF ControlLoop, InnerLoop, ControlRecv, ProcessPacket, ParseHeader, CheckCrc,
                  Dispatch, netVars, mainVars
    <2>2. pc'["control"] # "accept"
      BY <1>4 DEF ControlLoop, InnerLoop, ControlRecv, Fill, ProcessPacket, ParseHeader, CheckCrc,
                  Dispatch, Resume, Go, Inv, TypeOK, Threads
    <2> QED
      BY <2>1, <2>2, AcceptKept DEF Inv
  <1> QED
    BY <1>1, <1>2, <1>3, <1>4 DEF ControlThread

LEMMA AcceptVideo == Inv /\ AcceptInv /\ VideoThread => AcceptInv'
  <1> SUFFICES ASSUME Inv, AcceptInv, VideoThread PROVE AcceptInv'
    OBVIOUS
  <1>1. UNCHANGED <<backlog, serving, conn, control_socket>>
    BY DEF VideoThread, VideoLoop, VideoRecv, VideoRecvFails, ProcessPacket, ParseHeader, CheckCrc,
           Dispatch, netVars, mainVars
  <1>2. pc'["control"] = pc["control"]
    <2>1. \E q : Go("video", q)
      BY DEF VideoThread, VideoLoop, VideoRecv, VideoRecvFails, Fill, ProcessPacket, ParseHeader,
             CheckCrc, Dispatch, Resume
    <2> QED
      BY <2>1 DEF Go, Inv, TypeOK, Threads
  <1> QED
    BY <1>1, <1>2, AcceptKept DEF Inv

LEMMA AcceptNetwork == Inv /\ AcceptInv /\ Network => AcceptInv'
  <1> SUFFICES ASSUME Inv, AcceptInv, Network PROVE AcceptInv'
    OBVIOUS
  <1>1. ASSUME NEW c \in Clients, Connect(c) PROVE AcceptInv'
    <2>1. /\ conn[c] = "idle" /\ conn' = [conn EXCEPT ![c] = "open"]
          /\ UNCHANGED <<serving, pc, control_socket>>
      BY <1>1 DEF Connect, threadVars, mainVars
    <2>2. /\ Len(backlog) \in Nat /\ Len(backlog') = Len(backlog) + 1
          /\ \A i \in 1 .. Len(backlog) : backlog'[i] = backlog[i] /\ backlog[i] \in Clients
          /\ backlog'[Len(backlog) + 1] = c
      BY <1>1, AppendProperties DEF Connect, Inv, TypeOK
    <2>3. \A i \in 1 .. Len(backlog) : backlog[i] # c /\ conn'[backlog[i]] = conn[backlog[i]]
      BY <2>1, <2>2 DEF AcceptInv, QueueInv, Inv, TypeOK
    <2>4. c # serving /\ conn'[c] = "open" /\ (serving \in Clients => conn'[serving] = conn[serving])
      BY <2>1 DEF AcceptInv, QueueInv, Inv, TypeOK
    <2>5. \A i \in 1 .. Len(backlog') : i \in 1 .. Len(backlog) \/ i = Len(backlog) + 1
      BY <2>2
    <2>6. QueueInv'
      <3>1. ASSUME NEW i \in 1 .. Len(backlog'), NEW j \in 1 .. Len(backlog'), i # j
            PROVE  backlog'[i] # backlog'[j]
        BY <2>2, <2>3, <2>5, <3>1 DEF AcceptInv, QueueInv
      <3>2. ASSUME NEW i \in 1 .. Len(backlog')
            PROVE  backlog'[i] # serving' /\ conn'[backlog'[i]] \in {"open", "finished"}
        BY <2>1, <2>2, <2>3, <2>4, <2>5 DEF AcceptInv, QueueInv
      <3> QED
        BY <2>1, <2>4, <3>1, <3>2 DEF AcceptInv, QueueInv
    <2>7. backlog' # <<>>
      BY <2>2
    <2> QED
      BY <2>6, <2>7 DEF AcceptInv
  <1>2. CASE PostDatagram \/ \E c \in Clients : WritePacket(c) \/ Finish(c)
    <2>1. UNCHANGED <<backlog, serving, pc, control_socket>>
      BY <1>2 DEF PostDatagram, WritePacket, Finish, threadVars, mainVars
    <2>2. \/ UNCHANGED conn
          \/ \E c \in Clients : conn[c] = "open" /\ conn' = [conn EXCEPT ![c] = "finished"]
      BY <1>2 DEF PostDatagram, WritePacket, Finish
    <2> QED
      BY <2>1, <2>2, AcceptKept DEF Inv
  <1> QED
    BY <1>1, <1>2 DEF Network

LEMMA AcceptAlways == Spec => [](Inv /\ AcceptInv)
  <1>1. Inv /\ AcceptInv /\ [Next]_vars => AcceptInv'
    <2>1. Inv /\ AcceptInv /\ UNCHANGED vars => AcceptInv'
      BY DEF AcceptInv, QueueInv, vars, mainVars, threadVars, netVars
    <2> QED
      BY <2>1, AcceptMain, AcceptControl, AcceptVideo, AcceptNetwork DEF Next, Exited
  <1> QED
    BY <1>1, AcceptInit, InvInit, InvStep, PTL DEF Spec

\* The connections in the queue and the served one are different and open.
THEOREM QueueDistinct == Spec => []QueueInv
  <1>1. AcceptInv => QueueInv
    BY DEF AcceptInv
  <1> QED
    BY <1>1, AcceptAlways, PTL

\* The control thread blocks on nothing but a client that says nothing.
THEOREM BlocksOnlyOnSilence == Spec => []OnlySilenceBlocks
  <1>1. Inv /\ AcceptInv => OnlySilenceBlocks
    <2> SUFFICES ASSUME Inv, AcceptInv, pc["control"] = "recv", ~ClientSilent
                 PROVE  serving \in Clients /\ (Unread(serving) > 0 \/ conn[serving] = "finished")
      BY DEF AcceptInv, OnlySilenceBlocks
    <2>1. serving \in Clients /\ conn[serving] \in {"open", "finished"}
      BY DEF Inv, ServingInv, AcceptInv, QueueInv
    <2>2. /\ consumed[serving] \in Nat /\ written[serving] \in Nat
          /\ consumed[serving] <= written[serving]
      BY <2>1 DEF Inv, TypeOK, StreamInv
    <2>3. Unread(serving) \in Nat
      BY <2>2 DEF Unread
    <2> QED
      BY <2>1, <2>3 DEF ClientSilent
  <1> QED
    BY <1>1, AcceptAlways, PTL

\* What one step of thread t does to the places once running_ is cleared.
RunsDown(t) ==
    \E q \in Places : Go(t, q) /\ StepsLeft(q) < StepsLeft(pc[t])

LEMMA ProcessRunsDown ==
    ASSUME NEW t \in Threads, ProcessPacket(t)
    PROVE  RunsDown(t)
  <1> USE DEF RunsDown, Places, StepsLeft, Resume
  <1>1. CASE ParseHeader(t)
    BY <1>1 DEF ParseHeader
  <1>2. CASE CheckCrc(t)
    BY <1>2 DEF CheckCrc
  <1>3. CASE Dispatch(t)
    BY <1>3 DEF Dispatch
  <1> QED
    BY <1>1, <1>2, <1>3 DEF ProcessPacket

LEMMA ControlRunsDown ==
    ASSUME ~running, ControlThread
    PROVE  RunsDown("control")
  <1> USE DEF RunsDown, Places, StepsLeft
  <1>1. CASE ControlLoop
    BY <1>1 DEF ControlLoop
  <1>2. CASE Select
    BY <1>2 DEF Select
  <1>3. CASE Accept
    BY <1>3 DEF Accept
  <1>4. CASE InnerLoop
    BY <1>4 DEF InnerLoop
  <1>5. CASE ControlRecv
    BY <1>5 DEF ControlRecv, Fill
  <1>6. CASE HangUp
    BY <1>6 DEF HangUp
  <1>7. CASE ProcessPacket("control")
    BY <1>7, ProcessRunsDown DEF Threads
  <1> QED
    BY <1>1, <1>2, <1>3, <1>4, <1>5, <1>6, <1>7 DEF ControlThread

LEMMA VideoRunsDown ==
    ASSUME ~running, VideoThread
    PROVE  RunsDown("video")
  <1> USE DEF RunsDown, Places, StepsLeft
  <1>1. CASE VideoLoop
    BY <1>1 DEF VideoLoop
  <1>2. CASE VideoRecv
    BY <1>2 DEF VideoRecv, Fill
  <1>3. CASE VideoRecvFails
    BY <1>3 DEF VideoRecvFails
  <1>4. CASE ProcessPacket("video")
    BY <1>4, ProcessRunsDown DEF Threads
  <1> QED
    BY <1>1, <1>2, <1>3, <1>4 DEF VideoThread

LEMMA StepsLeftType == \A p : StepsLeft(p) \in 0 .. 6
  BY DEF StepsLeft

\* Once running_ is cleared each receiving thread has at most six steps left,
\* and nothing but the thread's own steps changes how many.
THEOREM ThreadsEndSoon == Spec => ThreadsRunOut
  <1> DEFINE Fewer ==
        ~running =>
          /\ \A t \in Threads : StepsLeft(pc'[t]) <= StepsLeft(pc[t])
          /\ ControlThread => StepsLeft(pc'["control"]) < StepsLeft(pc["control"])
          /\ VideoThread => StepsLeft(pc'["video"]) < StepsLeft(pc["video"])
  <1>1. TypeOK /\ FlagInv /\ [Next]_vars => [Fewer]_vars
    <2> SUFFICES ASSUME TypeOK, FlagInv, Next, ~running PROVE Fewer
      OBVIOUS
    <2>1. ASSUME NEW t \in Threads, RunsDown(t)
          PROVE  /\ StepsLeft(pc'[t]) < StepsLeft(pc[t])
                 /\ \A u \in Threads : StepsLeft(pc'[u]) <= StepsLeft(pc[u])
      <3>1. PICK q \in Places : Go(t, q) /\ StepsLeft(q) < StepsLeft(pc[t])
        BY <2>1 DEF RunsDown
      <3>2. pc'[t] = q /\ \A u \in Threads \ {t} : pc'[u] = pc[u]
        BY <3>1 DEF Go, TypeOK
      <3> QED
        BY <3>1, <3>2, StepsLeftType
    <2>2. ASSUME UNCHANGED pc
          PROVE  \A u \in Threads : StepsLeft(pc'[u]) <= StepsLeft(pc[u])
      BY <2>2, StepsLeftType
    <2>3. MainThread \/ Network \/ Exited => UNCHANGED pc
      BY DEF FlagInv, MainThread, StartControlSocket, StartVideoSocket, StopBegins, Stop,
             CloseControlSocket, CloseVideoSocket, JoinControlThread, JoinVideoThread, Destroy,
             Network, PostDatagram, Connect, WritePacket, Finish, Exited, vars, threadVars
    <2>4. ControlThread => RunsDown("control")
      BY ControlRunsDown
    <2>5. VideoThread => RunsDown("video")
      BY VideoRunsDown
    <2>6. ControlThread => StepsLeft(pc'["control"]) < StepsLeft(pc["control"])
      BY <2>1, <2>4 DEF Threads
    <2>7. VideoThread => StepsLeft(pc'["video"]) < StepsLeft(pc["video"])
      BY <2>1, <2>5 DEF Threads
    <2>8. \A u \in Threads : StepsLeft(pc'[u]) <= StepsLeft(pc[u])
      <3>1. "control" \in Threads /\ "video" \in Threads
        BY DEF Threads
      <3>2. CASE ControlThread
        BY <2>1, <2>4, <3>1, <3>2
      <3>3. CASE VideoThread
        BY <2>1, <2>5, <3>1, <3>3
      <3>4. CASE MainThread \/ Network \/ Exited
        BY <2>2, <2>3, <3>4
      <3> QED
        BY <3>2, <3>3, <3>4 DEF Next
    <2> QED
      BY <2>6, <2>7, <2>8
  <1> QED
    BY <1>1, TypeCorrect, FlagAlways, PTL DEF Spec, ThreadsRunOut
=============================================================================
