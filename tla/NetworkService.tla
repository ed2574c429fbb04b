--------------------------- MODULE NetworkService ---------------------------
(***************************************************************************)
(* The iOS client's NetworkService: the life of its connections, with the  *)
(* connectionState StreamingService derives from them.  Two threads: the   *)
(* main thread, which runs the owner's calls of connect and disconnect and *)
(* the blocks of the main dispatch queue one at a time, and the serial     *)
(* network queue, which runs the completions of receive and the handlers   *)
(* that forward a connection's state changes to the main queue.            *)
(*                                                                         *)
(* Every NWConnection the service ever made has a number; connection is    *)
(* the number of the current one and 0 stands for nil.  No block or        *)
(* completion says which connection it belongs to when it acts on the      *)
(* service: that is what makes a late one dangerous, and what the history  *)
(* variables newestReady, overtaken and mixed record.  A receive may end   *)
(* in an error while its connection is still ready, which ends the loop of *)
(* receives for good: the history variable deaf records it.                *)
(*                                                                         *)
(* connect on the main thread and disconnect on the network queue both     *)
(* write connection, unsynchronised: each is two steps.  NWConnection, the *)
(* peer and the two queues are external, modelled from how they are used.  *)
(***************************************************************************)
EXTENDS Naturals, Sequences

CONSTANTS
    MaxConnects,    \* calls of connect (a bound)
    MaxReceives,    \* receives outstanding on one connection (a bound)
    MaxQueue        \* blocks on the main queue when the owner or the peer may
                    \* add another (a bound)

ASSUME ConnectsAssumption ==
    MaxConnects \in Nat /\ MaxReceives \in Nat \ {0} /\ MaxQueue \in Nat

Connections == 1 .. MaxConnects
Nil         == 0
Garbled     == MaxConnects + 1   \* bytes of two connections, never a packet again

VARIABLES
    connects,        \* how often connect was called: the newest connection
    connection,      \* connection
    isConnected,     \* isConnected
    heartbeat,       \* heartbeatTimer is not nil
    receiveBuffer,   \* the connection whose partial packet it holds
    net,             \* the state of every NWConnection
    cancelled,       \* connections cancel was called on
    receives,        \* receives outstanding on each connection
    mainThread,      \* "idle", or "connecting" between the halves of connect
    netQueue,        \* "idle", or "disconnecting" between those of disconnect
    mainQueue,       \* the blocks of the main dispatch queue
    connectionState, \* StreamingService.connectionState
    newestReady,     \* history: the newest connection whose ready block ran
    overtaken,       \* history: a block of an older connection ran after that
    mixed,           \* history: bytes of a replaced connection were appended
    deaf             \* history: connections on which a receive ended in an error

serviceVars == <<connection, isConnected, heartbeat, receiveBuffer>>
historyVars == <<newestReady, overtaken, mixed, deaf>>
vars == <<connects, serviceVars, net, cancelled, receives, mainThread, netQueue, mainQueue,
          connectionState, historyVars>>

\* A block: a state change of a connection, an error of a receive or a send, the
\* report disconnect schedules, or (ui) the assignment of connectionState.
Block == [what : {"ready", "failed", "cancelled", "error", "reportDisconnect"},
          conn : Connections \cup {Nil}]
           \cup [what : {"ui"}, state : {"disconnected", "connecting", "connected", "error"}]

Ui(s) == [what |-> "ui", state |-> s]
Event(w, c) == [what |-> w, conn |-> c]

Init ==
    /\ connects = 0
    /\ connection = Nil
    /\ isConnected = FALSE
    /\ heartbeat = FALSE
    /\ receiveBuffer = Nil
    /\ net = [c \in Connections |-> "none"]
    /\ cancelled = {}
    /\ receives = [c \in Connections |-> 0]
    /\ mainThread = "idle"
    /\ netQueue = "idle"
    /\ mainQueue = <<>>
    /\ connectionState = "disconnected"
    /\ newestReady = Nil
    /\ overtaken = FALSE
    /\ mixed = FALSE
    /\ deaf = {}

Room == Len(mainQueue) < MaxQueue

-----------------------------------------------------------------------------
(* The calls of the owner, on the main thread. *)

StopHeartbeat == heartbeat' = FALSE

CancelCurrent == cancelled' = cancelled \cup ({connection} \ {Nil})

\* Mutant: disconnect leaves the bytes of the old connection behind.
KeepBuffer == UNCHANGED receiveBuffer

ClearBuffer == receiveBuffer' = Nil

\* disconnect(): what it writes, and the report it schedules.
Forget ==
    /\ connection' = Nil
    /\ isConnected' = FALSE
    /\ ClearBuffer
    /\ mainQueue' = Append(mainQueue, Event("reportDisconnect", Nil))

Disconnect ==
    /\ mainThread = "idle"
    /\ Room
    /\ StopHeartbeat /\ CancelCurrent /\ Forget
    /\ UNCHANGED <<connects, net, receives, mainThread, netQueue, connectionState, historyVars>>

\* connect begins with disconnect.
ConnectDisconnects ==
    /\ mainThread = "idle"
    /\ connects < MaxConnects
    /\ Room
    /\ StopHeartbeat /\ CancelCurrent /\ Forget
    /\ mainThread' = "connecting"
    /\ UNCHANGED <<connects, net, receives, netQueue, connectionState, historyVars>>

\* It reports connecting at once, in front of disconnect's report.
ConnectStarts ==
    /\ mainThread = "connecting"
    /\ connects' = connects + 1
    /\ connection' = connects + 1
    /\ net' = [net EXCEPT ![connects + 1] = "preparing"]
    /\ mainQueue' = Append(mainQueue, Ui("connecting"))
    /\ mainThread' = "idle"
    /\ UNCHANGED <<isConnected, heartbeat, receiveBuffer, cancelled, receives, netQueue,
                   connectionState, historyVars>>

-----------------------------------------------------------------------------
(* The blocks of the main queue. *)

NextBlock(w) ==
    /\ mainThread = "idle"
    /\ mainQueue # <<>>
    /\ Head(mainQueue).what = w
    /\ UNCHANGED <<connects, net, cancelled, mainThread, netQueue>>

\* Mutant: the owner's callback is never set.
NoReport(s) == mainQueue' = Tail(mainQueue)

\* onConnectionStateChange: StreamingService assigns in another block.
Report(s) == mainQueue' = Append(Tail(mainQueue), Ui(s))

\* A block of an older connection, after the ready block of a newer one.
NoteLate ==
    /\ overtaken' = (overtaken \/ Head(mainQueue).conn < newestReady)
    /\ UNCHANGED <<mixed, deaf>>

\* receiveLoop(): a receive on the current connection, if there is one.
Armed(r) == IF connection = Nil THEN r ELSE [r EXCEPT ![connection] = @ + 1]

\* Mutant: ready starts the heartbeat but does not start to receive.
NotArmed(r) == r

ArmReceive(r) == Armed(r)

\* Mutant: ready forgets the heartbeat.
KeepHeartbeat == UNCHANGED heartbeat

StartHeartbeat == heartbeat' = TRUE

BlockReady ==
    /\ NextBlock("ready")
    /\ isConnected' = TRUE
    /\ Report("connected")
    /\ StartHeartbeat
    /\ receives' = ArmReceive(receives)
    /\ NoteLate
    /\ newestReady' = IF Head(mainQueue).conn > newestReady THEN Head(mainQueue).conn
                                                            ELSE newestReady
    /\ UNCHANGED <<connection, receiveBuffer, connectionState>>

BlockFailed ==
    /\ NextBlock("failed")
    /\ isConnected' = FALSE
    /\ Report("error")
    /\ NoteLate
    /\ UNCHANGED <<newestReady, connection, heartbeat, receiveBuffer, receives, connectionState>>

\* Mutant: the end of a cancelled connection goes unnoticed.
IgnoreCancelled == UNCHANGED isConnected

NoteCancelled == isConnected' = FALSE

BlockCancelled ==
    /\ NextBlock("cancelled")
    /\ NoteCancelled
    /\ Report("disconnected")
    /\ NoteLate
    /\ UNCHANGED <<newestReady, connection, heartbeat, receiveBuffer, receives, connectionState>>

BlockError ==
    /\ NextBlock("error")
    /\ Report("error")
    /\ NoteLate
    /\ UNCHANGED <<newestReady, serviceVars, receives, connectionState>>

BlockReportDisconnect ==
    /\ NextBlock("reportDisconnect")
    /\ Report("disconnected")
    /\ UNCHANGED <<serviceVars, receives, connectionState, historyVars>>

BlockUi ==
    /\ NextBlock("ui")
    /\ connectionState' = Head(mainQueue).state
    /\ mainQueue' = Tail(mainQueue)
    /\ UNCHANGED <<serviceVars, receives, historyVars>>

MainBlock ==
    \/ BlockReady \/ BlockFailed \/ BlockCancelled
    \/ BlockError \/ BlockReportDisconnect \/ BlockUi

-----------------------------------------------------------------------------
(* The network queue: state changes of a connection, forwarded to main. *)

StateChange(c, from, to) ==
    /\ netQueue = "idle"
    /\ net[c] \in from
    /\ net' = [net EXCEPT ![c] = to]
    /\ mainQueue' = Append(mainQueue, Event(to, c))
    /\ UNCHANGED <<connects, serviceVars, cancelled, receives, mainThread, netQueue,
                   connectionState, historyVars>>

\* The handler may have been scheduled just before cancel was called.
BecomesReady(c) == Room /\ StateChange(c, {"preparing"}, "ready")
BecomesFailed(c) == Room /\ StateChange(c, {"preparing", "ready"}, "failed")
BecomesCancelled(c) ==
    /\ c \in cancelled
    /\ StateChange(c, {"preparing", "ready", "failed"}, "cancelled")

-----------------------------------------------------------------------------
(* The network queue: completions of receive. *)

Completes(c) ==
    /\ netQueue = "idle"
    /\ receives[c] > 0
    /\ UNCHANGED <<connects, net, cancelled, mainThread, connectionState, newestReady,
                   overtaken>>

\* Mutant: a receive that ends is taken off twice.
DoneTwice(c) == [receives EXCEPT ![c] = @ - 2]

Done(c) == [receives EXCEPT ![c] = @ - 1]

\* Bytes follow what the buffer holds; processReceiveBuffer takes out every
\* whole packet.
AppendContent(c) ==
    /\ receiveBuffer' \in (IF receiveBuffer \in {Nil, c} THEN {Nil, c} ELSE {Garbled})
    /\ mixed' = (mixed \/ c # connection)

\* A completion that also ends the receiving may come with bytes or without.
LastBytes(c) == AppendContent(c) \/ UNCHANGED <<receiveBuffer, mixed>>

\* The next receive is on the current connection, whichever it is.
ReceiveContent(c) ==
    /\ Completes(c)
    /\ net[c] = "ready"
    /\ AppendContent(c)
    /\ connection # Nil /\ connection # c => receives[connection] < MaxReceives
    /\ receives' = Armed(Done(c))
    /\ UNCHANGED <<connection, isConnected, heartbeat, netQueue, mainQueue, deaf>>

\* The peer closed: disconnect, whatever connection is the current one.
ReceiveComplete(c) ==
    /\ Completes(c)
    /\ net[c] = "ready"
    /\ Room
    /\ LastBytes(c)
    /\ receives' = Done(c)
    /\ StopHeartbeat
    /\ netQueue' = "disconnecting"
    /\ UNCHANGED <<connection, isConnected, mainQueue, deaf>>

\* Any error ends the loop, whatever state the connection is in; no state
\* change needs to follow.
ReceiveError(c) ==
    /\ Completes(c)
    /\ LastBytes(c)
    /\ receives' = Done(c)
    /\ deaf' = deaf \cup {c}
    /\ mainQueue' = Append(mainQueue, Event("error", c))
    /\ UNCHANGED <<connection, isConnected, heartbeat, netQueue>>

Ended(c) == net[c] \in {"failed", "cancelled"}

\* The rest of that disconnect: connect may have run on the main thread since.
QueueDisconnect ==
    /\ netQueue = "disconnecting"
    /\ CancelCurrent
    /\ netQueue' = "clearing"
    /\ UNCHANGED <<connects, serviceVars, net, receives, mainThread, mainQueue,
                   connectionState, historyVars>>

QueueForgets ==
    /\ netQueue = "clearing"
    /\ Forget
    /\ netQueue' = "idle"
    /\ UNCHANGED <<connects, heartbeat, net, cancelled, receives, mainThread,
                   connectionState, historyVars>>

\* A send ends in an error, maybe after its connection was replaced.
SendFails(c) ==
    /\ netQueue = "idle"
    /\ net[c] \in {"ready", "failed", "cancelled"}
    /\ Room
    /\ mainQueue' = Append(mainQueue, Event("error", c))
    /\ UNCHANGED <<connects, serviceVars, net, cancelled, receives, mainThread, netQueue,
                   connectionState, historyVars>>

NetworkQueue ==
    \/ \E c \in Connections : (Ended(c) /\ ReceiveError(c)) \/ BecomesCancelled(c)
    \/ QueueDisconnect \/ QueueForgets

Peer ==
    \E c \in Connections :
        \/ BecomesReady(c) \/ BecomesFailed(c) \/ SendFails(c)
        \/ ReceiveContent(c) \/ ReceiveComplete(c)
        \/ Room /\ ~Ended(c) /\ ReceiveError(c)

Next ==
    \/ Disconnect \/ ConnectDisconnects \/ ConnectStarts
    \/ MainBlock \/ NetworkQueue \/ Peer

Spec == Init /\ [][Next]_vars

\* The two queues run what is on them, a cancelled connection ends, and so do
\* the receives on an ended one; the owner, the peer and the network owe nothing.
FairSpec ==
    /\ Spec
    /\ WF_vars(MainBlock) /\ WF_vars(ConnectStarts)
    /\ WF_vars(QueueDisconnect \/ QueueForgets)
    /\ \A c \in Connections :
        WF_vars(BecomesCancelled(c)) /\ WF_vars(Ended(c) /\ ReceiveError(c))

-----------------------------------------------------------------------------
(* Properties. *)

\* Types of every variable.
TypeOK ==
    /\ connects \in 0 .. MaxConnects
    /\ connection \in Connections \cup {Nil}
    /\ isConnected \in BOOLEAN /\ heartbeat \in BOOLEAN
    /\ newestReady \in Connections \cup {Nil}
    /\ overtaken \in BOOLEAN /\ mixed \in BOOLEAN
    /\ deaf \subseteq Connections
    /\ receiveBuffer \in Connections \cup {Nil, Garbled}
    /\ net \in [Connections -> {"none", "preparing", "ready", "failed", "cancelled"}]
    /\ cancelled \subseteq Connections
    /\ receives \in [Connections -> Nat]
    /\ mainThread \in {"idle", "connecting"}
    /\ netQueue \in {"idle", "disconnecting", "clearing"}
    /\ mainQueue \in Seq(Block)
    /\ connectionState \in {"disconnected", "connecting", "connected", "error"}

\* The host notices that it must stop only between two packets of its client
\* (NetworkReceiver), so a service that says it is connected sends heartbeats.
HeartbeatWhileConnected == isConnected /\ netQueue = "idle" => heartbeat

\* The loop of receives lives as long as its connection: while the current one is
\* ready a receive is outstanding on it, or its ready block still waits, or a
\* receive ended in an error, which StreamingService was told and nothing repairs.
\* No replaced connection, late block or end of an older loop can break it off.
ReadyPending(c) == \E i \in 1 .. Len(mainQueue) : mainQueue[i] = Event("ready", c)
ListensWhileReady ==
    connection # Nil /\ net[connection] = "ready" /\ netQueue = "idle" =>
        ReadyPending(connection) \/ receives[connection] > 0 \/ connection \in deaf

\* A service that is left disconnected ends up not connected, although a ready
\* block may still be on the main queue when disconnect runs.
DisconnectSettles ==
    <>[](connection = Nil /\ 1 .. connects \subseteq cancelled) => <>[]~isConnected

\* What the user is shown settles on the truth as long as no connection that was
\* replaced acts on the service, despite the two hops through the main queue.
ShowsConnection ==
    []~overtaken /\ (\E c \in Connections : <>[](connection = c /\ net[c] = "ready"))
        => <>[](isConnected /\ connectionState \in {"connected", "error"})

\* What lets a service settle: it says it is connected only while a connection
\* is ready or the end of one is still to be handled on the main thread.
EndAfter(c, i) ==
    \E j \in i + 1 .. Len(mainQueue) :
        mainQueue[j].what \in {"failed", "cancelled"} /\ mainQueue[j].conn = c
ConnectedUntilReported ==
    isConnected => \E c \in Connections : net[c] = "ready" \/ EndAfter(c, 0)

\* The buffer mixes the bytes of two connections only if an older one was late.
BufferOfOneConnection == ~mixed => receiveBuffer \in {Nil, connects}

-----------------------------------------------------------------------------
(* The inductive invariant behind the theorems of NetworkServiceProofs.     *)

\* The current connection is the newest one, or there is none; disconnect leaves
\* no bytes behind, so the next connection starts with an empty buffer.
CurrentInv ==
    /\ connection \in {Nil, connects}
    /\ mainThread = "connecting" => connection = Nil /\ connects < MaxConnects
    /\ connection = Nil /\ ~mixed => receiveBuffer = Nil

\* A ready block waits for a connection that is ready or whose end comes after it;
\* a connection that was not made yet has no state.
ReadyInTime(i) ==
    \E c \in Connections : mainQueue[i].conn = c /\ (net[c] = "ready" \/ EndAfter(c, i))
EndInv ==
    /\ ConnectedUntilReported
    /\ \A i \in 1 .. Len(mainQueue) : mainQueue[i].what = "ready" => ReadyInTime(i)
    /\ \A c \in Connections : c > connects => net[c] = "none"

Inv ==
    /\ TypeOK /\ CurrentInv
    /\ HeartbeatWhileConnected /\ ListensWhileReady /\ BufferOfOneConnection
=============================================================================
