------------------------- MODULE NetworkServiceProofs -------------------------
(***************************************************************************)
(* Theorems about the iOS NetworkService, for any number of connects and   *)
(* any queue bounds: its safety properties, through the inductive          *)
(* invariant Inv, and, through EndInv, that it does not say connected once *)
(* the end of its connection was handled.                                  *)
(***************************************************************************)
EXTENDS NetworkService, SequenceTheorems, TLAPS

USE ConnectsAssumption

-----------------------------------------------------------------------------
(* The main queue.                                                          *)

States == {"disconnected", "connecting", "connected", "error"}
Happenings == {"ready", "failed", "cancelled", "error", "reportDisconnect"}

LEMMA UiBlock == \A s \in States : Ui(s) \in Block
  BY DEF Ui, Block, States

LEMMA EventBlock ==
    \A w \in Happenings, c \in Connections \cup {Nil} : Event(w, c) \in Block
  BY DEF Event, Block, Happenings

LEMMA AppendBlock ==
    ASSUME NEW q \in Seq(Block), NEW b \in Block
    PROVE  /\ Append(q, b) \in Seq(Block)
           /\ Len(Append(q, b)) = Len(q) + 1
           /\ \A i \in 1 .. Len(q) : Append(q, b)[i] = q[i]
           /\ Append(q, b)[Len(q) + 1] = b
  OBVIOUS

LEMMA TailBlock ==
    ASSUME NEW q \in Seq(Block), q # <<>>
    PROVE  /\ Head(q) \in Block /\ Head(q) = q[1]
           /\ Tail(q) \in Seq(Block)
           /\ Len(Tail(q)) = Len(q) - 1 /\ Len(q) \in Nat \ {0}
           /\ \A i \in 2 .. Len(q) : Tail(q)[i - 1] = q[i]
  OBVIOUS

\* A ready block stays on the queue when a block is put behind it.
LEMMA PendingAppended ==
    ASSUME mainQueue \in Seq(Block), NEW b \in Block, NEW c,
           mainQueue' = Append(mainQueue, b), ReadyPending(c)
    PROVE  ReadyPending(c)'
  <1>1. PICK i \in 1 .. Len(mainQueue) : mainQueue[i] = Event("ready", c)
    BY DEF ReadyPending
  <1>2. Append(mainQueue, b)[i] = mainQueue[i] /\ i \in 1 .. Len(Append(mainQueue, b))
    BY AppendBlock
  <1> QED
    BY <1>1, <1>2 DEF ReadyPending, Event

\* It stays there until it is the one that runs.
LEMMA PendingShifted ==
    ASSUME mainQueue \in Seq(Block), mainQueue # <<>>, NEW b \in Block, NEW c,
           Head(mainQueue) # Event("ready", c),
           \/ mainQueue' = Append(Tail(mainQueue), b)
           \/ mainQueue' = Tail(mainQueue),
           ReadyPending(c)
    PROVE  ReadyPending(c)'
  <1>1. PICK i \in 1 .. Len(mainQueue) : mainQueue[i] = Event("ready", c)
    BY DEF ReadyPending
  <1>2. i \in 2 .. Len(mainQueue)
    BY <1>1, TailBlock
  <1>3. Tail(mainQueue)[i - 1] = Event("ready", c) /\ i - 1 \in 1 .. Len(Tail(mainQueue))
    BY <1>1, <1>2, TailBlock
  <1>4. Tail(mainQueue) \in Seq(Block)
    BY TailBlock
  <1> DEFINE q == Tail(mainQueue)
  <1>5. q \in Seq(Block) /\ q[i - 1] = Event("ready", c) /\ i - 1 \in 1 .. Len(q)
    BY <1>3, <1>4
  <1> HIDE DEF q
  <1>6. q[i - 1] = Append(q, b)[i - 1] /\ i - 1 \in 1 .. Len(Append(q, b))
    BY <1>5, AppendBlock
  <1>7. CASE mainQueue' = Append(q, b)
    BY <1>5, <1>6, <1>7 DEF ReadyPending, Event
  <1>8. CASE mainQueue' = q
    BY <1>5, <1>8 DEF ReadyPending, Event
  <1> QED
    BY <1>7, <1>8 DEF q

-----------------------------------------------------------------------------
(* The invariant.                                                           *)

LEMMA InvInit == Init => Inv
  <1> SUFFICES ASSUME Init PROVE Inv
    OBVIOUS
  <1> USE DEF Init
  <1>1. mainQueue \in Seq(Block)
    <2> HIDE DEF Init
    <2>1. <<>> \in Seq(Block)
      OBVIOUS
    <2> QED
      BY <2>1 DEF Init
  <1>2. TypeOK
    <2>1. 0 \in 0 .. MaxConnects
      BY DEF ConnectsAssumption
    <2> QED
      BY <1>1, <2>1 DEF TypeOK, Nil
  <1>3. CurrentInv /\ HeartbeatWhileConnected /\ ListensWhileReady /\ BufferOfOneConnection
    BY DEF CurrentInv, HeartbeatWhileConnected, ListensWhileReady, BufferOfOneConnection
  <1> QED
    BY <1>2, <1>3 DEF Inv

\* What disconnect does, whoever calls it.
LEMMA ForgetInv ==
    ASSUME Inv, Forget,
           UNCHANGED <<connects, net, receives, connectionState, historyVars>>,
           cancelled' \subseteq Connections, heartbeat' \in BOOLEAN,
           netQueue' \in {"idle", "disconnecting", "clearing"},
           \/ UNCHANGED mainThread
           \/ mainThread' = "connecting" /\ connects < MaxConnects
    PROVE  Inv'
  <1> USE DEF Inv, Forget, ClearBuffer, historyVars
  <1>1. mainQueue' \in Seq(Block)
    BY EventBlock, AppendBlock DEF TypeOK, Happenings
  <1>2. TypeOK'
    BY <1>1 DEF TypeOK
  <1>3. CurrentInv' /\ HeartbeatWhileConnected' /\ ListensWhileReady' /\ BufferOfOneConnection'
    BY DEF CurrentInv, HeartbeatWhileConnected, ListensWhileReady, BufferOfOneConnection
  <1> QED
    BY <1>2, <1>3

LEMMA InvOwner == Inv /\ (Disconnect \/ ConnectDisconnects \/ ConnectStarts) => Inv'
  <1> SUFFICES ASSUME Inv, Disconnect \/ ConnectDisconnects \/ ConnectStarts PROVE Inv'
    OBVIOUS
  <1>0. CancelCurrent => cancelled' \subseteq Connections
    BY DEF CancelCurrent, Inv, TypeOK, Nil
  <1>1. CASE Disconnect
    BY <1>0, <1>1, ForgetInv DEF Disconnect, StopHeartbeat, Inv, TypeOK
  <1>2. CASE ConnectDisconnects
    BY <1>0, <1>2, ForgetInv DEF ConnectDisconnects, StopHeartbeat, Inv, TypeOK
  <1>3. CASE ConnectStarts
    <2> USE <1>3 DEF ConnectStarts, Inv, historyVars
    <2>1. connects + 1 \in Connections /\ connection = Nil
      BY DEF TypeOK, CurrentInv, Connections
    <2>2. mainQueue' \in Seq(Block)
      BY UiBlock, AppendBlock DEF TypeOK, States
    <2>3. TypeOK'
      BY <2>1, <2>2 DEF TypeOK, Connections
    <2>4. CurrentInv' /\ BufferOfOneConnection'
      BY <2>1 DEF CurrentInv, BufferOfOneConnection, TypeOK, Connections, Nil
    <2>5. HeartbeatWhileConnected'
      BY DEF HeartbeatWhileConnected
    <2>6. ListensWhileReady'
      BY <2>1 DEF ListensWhileReady, TypeOK
    <2> QED
      BY <2>3, <2>4, <2>5, <2>6
  <1> QED
    BY <1>1, <1>2, <1>3

LEMMA InvMainBlock == Inv /\ MainBlock => Inv'
  <1> SUFFICES ASSUME Inv, MainBlock PROVE Inv'
    OBVIOUS
  <1> USE DEF Inv, serviceVars, historyVars
  <1>0. mainQueue \in Seq(Block) /\ mainQueue # <<>>
    BY DEF TypeOK, MainBlock, BlockReady, BlockFailed, BlockCancelled, BlockError,
           BlockReportDisconnect, BlockUi, NextBlock
  <1>1. Tail(mainQueue) \in Seq(Block) /\ Head(mainQueue) \in Block
    BY <1>0, TailBlock
  <1>2. ASSUME NEW s \in States, Report(s)
        PROVE  /\ mainQueue' \in Seq(Block)
               /\ mainQueue' = Append(Tail(mainQueue), Ui(s)) /\ Ui(s) \in Block
    BY <1>1, <1>2, UiBlock, AppendBlock DEF Report
  <1>3. ASSUME NEW w \in Happenings, NextBlock(w)
        PROVE  Head(mainQueue).conn \in Connections \cup {Nil}
    BY <1>1, <1>3 DEF NextBlock, Block, Happenings
  \* What the blocks that are not a ready block leave alone.
  <1>4. ASSUME NEW s \in States,
               Report(s) \/ mainQueue' = Tail(mainQueue),
               NextBlock("failed") \/ NextBlock("cancelled") \/ NextBlock("error")
                 \/ NextBlock("reportDisconnect") \/ NextBlock("ui"),
               connectionState' \in States,
               isConnected' \in BOOLEAN, isConnected' => isConnected,
               overtaken' \in BOOLEAN,
               UNCHANGED <<connection, heartbeat, receiveBuffer, receives, newestReady, mixed,
                           deaf>>
        PROVE  Inv'
    <2> USE <1>4 DEF NextBlock
    <2>1. mainQueue' \in Seq(Block)
      BY <1>1, <1>2
    <2>2. TypeOK'
      BY <2>1 DEF TypeOK, States
    <2>3. CurrentInv' /\ BufferOfOneConnection'
      BY DEF CurrentInv, BufferOfOneConnection
    <2>4. HeartbeatWhileConnected'
      BY DEF HeartbeatWhileConnected
    <2>5. ASSUME ReadyPending(connection) PROVE ReadyPending(connection)'
      <3>1. Head(mainQueue) # Event("ready", connection)
        BY DEF Event
      <3>2. Ui(s) \in Block
        BY UiBlock
      <3>3. mainQueue' = Append(Tail(mainQueue), Ui(s)) \/ mainQueue' = Tail(mainQueue)
        BY DEF Report
      <3> HIDE <1>4 DEF NextBlock
      <3>4. UNCHANGED connection
        BY <1>4
      <3>5. \E i \in 1 .. Len(mainQueue') : mainQueue'[i] = Event("ready", connection)
        BY <1>0, <2>5, <3>1, <3>2, <3>3, PendingShifted DEF ReadyPending, Event
      <3> QED
        BY <3>4, <3>5 DEF ReadyPending, Event
    <2>6. ListensWhileReady'
      BY <2>5 DEF ListensWhileReady
    <2> QED
      BY <2>2, <2>3, <2>4, <2>6
  <1>5. CASE BlockReady
    <2> USE <1>5 DEF BlockReady, NextBlock, ArmReceive, Armed, StartHeartbeat, NoteLate
    <2>1. mainQueue' \in Seq(Block)
      BY <1>2 DEF States
    <2>2. newestReady' \in Connections \cup {Nil} /\ receives' \in [Connections -> Nat]
      BY <1>3 DEF TypeOK, Happenings, Nil
    <2>3. TypeOK'
      BY <2>1, <2>2 DEF TypeOK
    <2>4. CurrentInv' /\ BufferOfOneConnection' /\ HeartbeatWhileConnected'
      BY DEF CurrentInv, BufferOfOneConnection, HeartbeatWhileConnected
    <2>5. connection # Nil => receives'[connection] > 0
      BY DEF TypeOK, Nil
    <2>6. ListensWhileReady'
      BY <2>5 DEF ListensWhileReady
    <2> QED
      BY <2>3, <2>4, <2>6
  <1>6. CASE BlockFailed
    BY <1>4, <1>6 DEF BlockFailed, NoteLate, TypeOK, States
  <1>7. CASE BlockCancelled
    BY <1>4, <1>7 DEF BlockCancelled, NoteCancelled, NoteLate, TypeOK, States
  <1>8. CASE BlockError
    BY <1>4, <1>8 DEF BlockError, NoteLate, TypeOK, States
  <1>9. CASE BlockReportDisconnect
    BY <1>4, <1>9 DEF BlockReportDisconnect, TypeOK, States
  <1>10. CASE BlockUi
    <2>1. Head(mainQueue).state \in States
      BY <1>1, <1>10 DEF BlockUi, NextBlock, Block, States
    <2> QED
      BY <1>4, <1>10, <2>1 DEF BlockUi, TypeOK, States
  <1> QED
    BY <1>5, <1>6, <1>7, <1>8, <1>9, <1>10 DEF MainBlock

LEMMA InvStateChange ==
    ASSUME Inv, NEW c \in Connections, NEW from, NEW to \in {"ready", "failed", "cancelled"},
           StateChange(c, from, to)
    PROVE  Inv'
  <1> USE DEF Inv, StateChange, serviceVars, historyVars
  <1>1. Event(to, c) \in Block
    BY EventBlock DEF Happenings
  <1>2. TypeOK'
    BY <1>1, AppendBlock DEF TypeOK
  <1>3. CurrentInv' /\ BufferOfOneConnection' /\ HeartbeatWhileConnected'
    BY DEF CurrentInv, BufferOfOneConnection, HeartbeatWhileConnected
  <1>4. ASSUME connection' # Nil, net'[connection'] = "ready", netQueue' = "idle"
        PROVE  ReadyPending(connection)' \/ receives'[connection'] > 0 \/ connection' \in deaf'
    <2>1. CASE c = connection
      <3>1. to = "ready"
        BY <1>4, <2>1 DEF TypeOK
      <3>2. mainQueue'[Len(mainQueue) + 1] = Event("ready", connection')
        BY <1>1, <2>1, <3>1, AppendBlock DEF TypeOK
      <3>3. Len(mainQueue) + 1 \in 1 .. Len(mainQueue')
        BY <1>1, AppendBlock, LenProperties DEF TypeOK
      <3> QED
        BY <3>2, <3>3 DEF ReadyPending, Event
    <2>2. CASE c # connection
      <3>1. ReadyPending(connection) \/ receives[connection] > 0 \/ connection \in deaf
        BY <1>4, <2>2 DEF ListensWhileReady, TypeOK
      <3>2. CASE ReadyPending(connection)
        <4>1. mainQueue \in Seq(Block) /\ mainQueue' = Append(mainQueue, Event(to, c))
          BY DEF TypeOK
        <4>2. UNCHANGED connection
          OBVIOUS
        <4> HIDE DEF Inv, StateChange, serviceVars, historyVars
        <4>3. \E i \in 1 .. Len(mainQueue') : mainQueue'[i] = Event("ready", connection)
          BY <1>1, <3>2, <4>1, PendingAppended DEF ReadyPending, Event
        <4> QED
          BY <4>2, <4>3 DEF ReadyPending, Event
      <3>3. CASE receives[connection] > 0 \/ connection \in deaf
        BY <3>3
      <3> QED
        BY <3>1, <3>2, <3>3
    <2> QED
      BY <2>1, <2>2
  <1>5. ListensWhileReady'
    BY <1>4 DEF ListensWhileReady
  <1> QED
    BY <1>2, <1>3, <1>5

\* What a completion does to the buffer.  Without mixing, c is the current
\* connection, and so the newest.
LEMMA BytesKept ==
    ASSUME Inv, NEW c \in Connections, LastBytes(c),
           UNCHANGED <<connects, connection, mainThread>>
    PROVE  /\ receiveBuffer' \in Connections \cup {Nil, Garbled} /\ mixed' \in BOOLEAN
           /\ CurrentInv' /\ BufferOfOneConnection'
  <1>1. CASE UNCHANGED <<receiveBuffer, mixed>>
    BY <1>1 DEF Inv, TypeOK, CurrentInv, BufferOfOneConnection
  <1>2. CASE AppendContent(c)
    <2> USE <1>2 DEF AppendContent
    <2>1. receiveBuffer' \in Connections \cup {Nil, Garbled}
      BY DEF Inv, TypeOK
    <2>2. mixed' \in BOOLEAN
      BY DEF Inv, TypeOK
    <2>3. ASSUME ~mixed' PROVE connection = c /\ c = connects /\ receiveBuffer' \in {Nil, c}
      <3>1. ~mixed /\ connection = c
        BY <2>3
      <3>2. c = connects
        BY <3>1 DEF Inv, CurrentInv, Connections, Nil
      <3> QED
        BY <3>1, <3>2 DEF Inv, BufferOfOneConnection
    <2>4. CurrentInv' /\ BufferOfOneConnection'
      BY <2>3 DEF Inv, CurrentInv, BufferOfOneConnection, Connections, Nil
    <2> QED
      BY <2>1, <2>2, <2>4
  <1> QED
    BY <1>1, <1>2 DEF LastBytes

\* What an action that leaves the connections alone may do: put a block behind the
\* others, and end a receive in an error.
LEMMA InvErrorQueued ==
    ASSUME Inv, NEW c \in Connections, mainQueue' = Append(mainQueue, Event("error", c)),
           LastBytes(c),
           \/ UNCHANGED <<receives, deaf>>
           \/ receives' = Done(c) /\ receives[c] > 0 /\ deaf' = deaf \cup {c},
           UNCHANGED <<connects, connection, isConnected, heartbeat, net, cancelled,
                       mainThread, netQueue, connectionState, newestReady, overtaken>>
    PROVE  Inv'
  <1>0. Event("error", c) \in Block
    BY EventBlock DEF Happenings
  <1>1. mainQueue \in Seq(Block) /\ mainQueue' \in Seq(Block)
    BY <1>0, AppendBlock DEF Inv, TypeOK
  <1>2. receives' \in [Connections -> Nat] /\ deaf' \subseteq Connections
    BY DEF Done, Inv, TypeOK
  <1>3. /\ receiveBuffer' \in Connections \cup {Nil, Garbled} /\ mixed' \in BOOLEAN
        /\ CurrentInv' /\ BufferOfOneConnection'
    BY BytesKept
  <1>4. TypeOK'
    BY <1>1, <1>2, <1>3 DEF Inv, TypeOK
  <1>5. ASSUME ReadyPending(connection) PROVE ReadyPending(connection)'
    <2>1. UNCHANGED connection
      OBVIOUS
    <2>2. \E i \in 1 .. Len(mainQueue') : mainQueue'[i] = Event("ready", connection)
      BY <1>0, <1>1, <1>5, PendingAppended DEF ReadyPending, Event
    <2> QED
      BY <2>1, <2>2 DEF ReadyPending, Event
  \* The receive that ends is one on c, and c is deaf from then on.
  <1>6. ASSUME connection # Nil, receives[connection] > 0
        PROVE  receives'[connection] > 0 \/ connection \in deaf'
    BY <1>6 DEF Done, Inv, TypeOK, Nil
  <1>7. connection \in deaf => connection \in deaf'
    OBVIOUS
  <1>8. ListensWhileReady'
    BY <1>5, <1>6, <1>7 DEF ListensWhileReady, Inv
  <1>9. HeartbeatWhileConnected'
    BY DEF HeartbeatWhileConnected, Inv
  <1> QED
    BY <1>3, <1>4, <1>8, <1>9 DEF Inv

LEMMA InvReceiveContent ==
    ASSUME Inv, NEW c \in Connections, ReceiveContent(c)
    PROVE  Inv'
  <1> USE DEF Inv, ReceiveContent, Completes
  <1>1. Done(c) \in [Connections -> Nat]
    BY DEF Done, TypeOK
  <1>2. receives' \in [Connections -> Nat]
    BY <1>1 DEF Armed, TypeOK, Nil
  <1>3. /\ receiveBuffer' \in Connections \cup {Nil, Garbled} /\ mixed' \in BOOLEAN
        /\ CurrentInv' /\ BufferOfOneConnection'
    BY BytesKept DEF LastBytes
  <1>4. TypeOK'
    BY <1>2, <1>3 DEF TypeOK
  <1>5. connection # Nil => receives'[connection] > 0
    BY <1>1 DEF Armed, TypeOK, Nil
  <1>6. ListensWhileReady' /\ HeartbeatWhileConnected'
    BY <1>5 DEF ListensWhileReady, HeartbeatWhileConnected
  <1> QED
    BY <1>3, <1>4, <1>6

LEMMA InvReceiveEnds ==
    ASSUME Inv, NEW c \in Connections, ReceiveComplete(c) \/ ReceiveError(c)
    PROVE  Inv'
  <1>1. CASE ReceiveComplete(c)
    <2> USE <1>1 DEF ReceiveComplete, Completes, StopHeartbeat
    <2>1. Done(c) \in [Connections -> Nat]
      BY DEF Done, Inv, TypeOK
    <2>2. /\ receiveBuffer' \in Connections \cup {Nil, Garbled} /\ mixed' \in BOOLEAN
          /\ CurrentInv' /\ BufferOfOneConnection'
      BY BytesKept
    <2>3. TypeOK'
      BY <2>1, <2>2 DEF Inv, TypeOK
    <2>4. HeartbeatWhileConnected' /\ ListensWhileReady'
      BY DEF HeartbeatWhileConnected, ListensWhileReady
    <2> QED
      BY <2>2, <2>3, <2>4 DEF Inv
  <1>2. CASE ReceiveError(c)
    BY <1>2, InvErrorQueued DEF ReceiveError, Completes
  <1> QED
    BY <1>1, <1>2

LEMMA InvQueueDisconnects == Inv /\ (QueueDisconnect \/ QueueForgets) => Inv'
  <1> SUFFICES ASSUME Inv, QueueDisconnect \/ QueueForgets PROVE Inv'
    OBVIOUS
  <1>1. CASE QueueDisconnect
    <2> USE <1>1 DEF QueueDisconnect, CancelCurrent, Inv, serviceVars, historyVars
    <2>1. TypeOK'
      BY DEF TypeOK, Nil
    <2>2. CurrentInv' /\ BufferOfOneConnection' /\ HeartbeatWhileConnected' /\ ListensWhileReady'
      BY DEF CurrentInv, BufferOfOneConnection, HeartbeatWhileConnected, ListensWhileReady
    <2> QED
      BY <2>1, <2>2
  <1>2. CASE QueueForgets
    BY <1>2, ForgetInv DEF QueueForgets, Inv, TypeOK
  <1> QED
    BY <1>1, <1>2

LEMMA InvSendFails ==
    ASSUME Inv, NEW c \in Connections, SendFails(c)
    PROVE  Inv'
  <1>1. LastBytes(c)
    BY DEF LastBytes, SendFails, serviceVars, historyVars
  <1> QED
    BY <1>1, InvErrorQueued DEF SendFails, serviceVars, historyVars

LEMMA InvNext == Inv /\ [Next]_vars => Inv'
  <1> SUFFICES ASSUME Inv, [Next]_vars PROVE Inv'
    OBVIOUS
  <1>1. CASE Disconnect \/ ConnectDisconnects \/ ConnectStarts
    BY <1>1, InvOwner
  <1>2. CASE MainBlock
    BY <1>2, InvMainBlock
  <1>3. CASE NetworkQueue
    <2>1. CASE QueueDisconnect \/ QueueForgets
      BY <2>1, InvQueueDisconnects
    <2>2. ASSUME NEW c \in Connections, ReceiveError(c) PROVE Inv'
      BY <2>2, InvReceiveEnds
    <2>3. ASSUME NEW c \in Connections, BecomesCancelled(c) PROVE Inv'
      BY <2>3, InvStateChange DEF BecomesCancelled
    <2> QED
      BY <1>3, <2>1, <2>2, <2>3 DEF NetworkQueue
  <1>4. CASE Peer
    <2>1. PICK c \in Connections :
            \/ BecomesReady(c) \/ BecomesFailed(c) \/ SendFails(c)
            \/ ReceiveContent(c) \/ ReceiveComplete(c) \/ ReceiveError(c)
      BY <1>4 DEF Peer
    <2>2. CASE BecomesReady(c)
      BY <2>2, InvStateChange DEF BecomesReady
    <2>3. CASE BecomesFailed(c)
      BY <2>3, InvStateChange DEF BecomesFailed
    <2> QED
      BY <2>1, <2>2, <2>3, InvSendFails, InvReceiveContent, InvReceiveEnds
  <1>5. CASE UNCHANGED vars
    <2> USE <1>5 DEF vars, serviceVars, historyVars
    <2> QED
      BY DEF Inv, TypeOK, CurrentInv, HeartbeatWhileConnected, ListensWhileReady,
             ReadyPending, BufferOfOneConnection
  <1> QED
    BY <1>1, <1>2, <1>3, <1>4, <1>5 DEF Next

-----------------------------------------------------------------------------
(* The theorems.                                                            *)

\* Inv holds in every state of the service, however its two threads interleave.
THEOREM ServiceInvariance == Spec => []Inv
  BY InvInit, InvNext, PTL DEF Spec

\* The service's variables keep their types.
THEOREM ServiceTypes == Spec => []TypeOK
  <1>1. Inv => TypeOK
    BY DEF Inv
  <1> QED
    BY <1>1, ServiceInvariance, PTL

\* startHeartbeat and stopHeartbeat keep pace with isConnected.
THEOREM HeartbeatKept == Spec => []HeartbeatWhileConnected
  <1>1. Inv => HeartbeatWhileConnected
    BY DEF Inv
  <1> QED
    BY <1>1, ServiceInvariance, PTL

\* receiveLoop is not lost while the connection lives: whatever ends a receive on
\* it starts the next one, ends the connection, or was an error.
THEOREM NeverDeaf == Spec => []ListensWhileReady
  <1>1. Inv => ListensWhileReady
    BY DEF Inv
  <1> QED
    BY <1>1, ServiceInvariance, PTL

\* disconnect's removeAll keeps the bytes of two connections apart, unless a
\* completion of the older one arrives after it.
THEOREM BufferUnmixed == Spec => []BufferOfOneConnection
  <1>1. Inv => BufferOfOneConnection
    BY DEF Inv
  <1> QED
    BY <1>1, ServiceInvariance, PTL

-----------------------------------------------------------------------------
(* isConnected is not left up: the safety behind DisconnectSettles.         *)

\* A block put behind the others leaves what comes after a place there.
LEMMA EndKept ==
    ASSUME NEW b \in Block, mainQueue \in Seq(Block), mainQueue' = Append(mainQueue, b),
           NEW c, NEW i \in Nat, EndAfter(c, i)
    PROVE  EndAfter(c, i)'
  <1>1. PICK j \in i + 1 .. Len(mainQueue) :
          mainQueue[j].what \in {"failed", "cancelled"} /\ mainQueue[j].conn = c
    BY DEF EndAfter
  <1>2. j \in 1 .. Len(mainQueue) /\ Len(mainQueue) \in Nat
    BY <1>1
  <1>3. mainQueue'[j] = mainQueue[j] /\ Len(mainQueue') = Len(mainQueue) + 1
    BY <1>2, AppendBlock
  <1>4. j \in i + 1 .. Len(mainQueue')
    BY <1>1, <1>2, <1>3
  <1> QED
    BY <1>1, <1>3, <1>4 DEF EndAfter

\* The queue behind its first block, and maybe one more, at its new places.
Ran(b) == mainQueue' = Tail(mainQueue) \/ mainQueue' = Append(Tail(mainQueue), b)

LEMMA RanBlocks ==
    ASSUME NEW b \in Block, mainQueue \in Seq(Block), mainQueue # <<>>, Ran(b)
    PROVE  /\ Len(mainQueue) \in Nat \ {0} /\ Len(mainQueue') \in Nat
           /\ Len(mainQueue') = Len(mainQueue) - 1 \/ Len(mainQueue') = Len(mainQueue)
           /\ \A j \in 1 .. Len(mainQueue) - 1 : mainQueue'[j] = mainQueue[j + 1]
           /\ Len(mainQueue') = Len(mainQueue) => mainQueue'[Len(mainQueue)] = b
  <1> DEFINE q == Tail(mainQueue)
  <1>1. /\ q \in Seq(Block) /\ Len(mainQueue) \in Nat \ {0} /\ Len(q) = Len(mainQueue) - 1
        /\ \A j \in 1 .. Len(mainQueue) - 1 : q[j] = mainQueue[j + 1]
    <2>1. \A j \in 1 .. Len(mainQueue) - 1 : j + 1 \in 2 .. Len(mainQueue) /\ (j + 1) - 1 = j
      BY TailBlock
    <2> QED
      BY <2>1, TailBlock
  <1>2. mainQueue' = q \/ mainQueue' = Append(q, b)
    BY DEF Ran
  <1> HIDE DEF q
  <1>3. CASE mainQueue' = q
    BY <1>1, <1>3
  <1>4. CASE mainQueue' = Append(q, b)
    <2>1. /\ Len(Append(q, b)) = Len(q) + 1 /\ Append(q, b)[Len(q) + 1] = b
          /\ \A j \in 1 .. Len(q) : Append(q, b)[j] = q[j]
      BY <1>1, AppendBlock
    <2> QED
      BY <1>1, <1>4, <2>1
  <1> QED
    BY <1>2, <1>3, <1>4

\* What comes after a place comes after the one before it when a block has run.
LEMMA EndShifted ==
    ASSUME NEW b \in Block, mainQueue \in Seq(Block), mainQueue # <<>>, Ran(b),
           NEW c, NEW i \in Nat, i >= 1, EndAfter(c, i)
    PROVE  EndAfter(c, i - 1)'
  <1>1. PICK j \in i + 1 .. Len(mainQueue) :
          mainQueue[j].what \in {"failed", "cancelled"} /\ mainQueue[j].conn = c
    BY DEF EndAfter
  <1>2. j - 1 \in 1 .. Len(mainQueue) - 1 /\ (j - 1) + 1 = j /\ j - 1 \in (i - 1) + 1 .. Len(mainQueue')
    BY <1>1, RanBlocks
  <1>3. mainQueue'[j - 1] = mainQueue[j]
    BY <1>2, RanBlocks
  <1> QED
    BY <1>1, <1>2, <1>3 DEF EndAfter

\* Blocks other than ready put behind the others.
LEMMA EndAppended ==
    ASSUME Inv, EndInv, NEW b \in Block, b.what # "ready", mainQueue' = Append(mainQueue, b),
           isConnected' => isConnected,
           \A c \in Connections : net[c] = "ready" => net'[c] = "ready",
           \A c \in Connections : c > connects' => net'[c] = "none"
    PROVE  EndInv'
  <1>1. mainQueue \in Seq(Block) /\ Len(mainQueue) \in Nat
    BY DEF Inv, TypeOK
  <1>2. /\ Len(mainQueue') = Len(mainQueue) + 1 /\ mainQueue'[Len(mainQueue) + 1] = b
        /\ \A i \in 1 .. Len(mainQueue) : mainQueue'[i] = mainQueue[i]
    BY <1>1, AppendBlock
  <1>3. ConnectedUntilReported'
    <2>1. \A c \in Connections : EndAfter(c, 0) => EndAfter(c, 0)'
      BY <1>1, EndKept
    <2> QED
      BY <2>1 DEF EndInv, ConnectedUntilReported
  <1>4. ASSUME NEW i \in 1 .. Len(mainQueue'), mainQueue'[i].what = "ready"
        PROVE  ReadyInTime(i)'
    <2>1. i \in 1 .. Len(mainQueue) /\ mainQueue'[i] = mainQueue[i]
      BY <1>1, <1>2, <1>4
    <2>2. PICK c \in Connections : mainQueue[i].conn = c /\ (net[c] = "ready" \/ EndAfter(c, i))
      BY <1>4, <2>1 DEF EndInv, ReadyInTime
    <2>3. EndAfter(c, i) => EndAfter(c, i)'
      BY <1>1, <2>1, EndKept
    <2>4. net'[c] = "ready" \/ EndAfter(c, i)'
      BY <2>2, <2>3
    <2> QED
      BY <2>1, <2>2, <2>4 DEF ReadyInTime
  <1> QED
    BY <1>3, <1>4 DEF EndInv

\* A block of the main queue has run; what it says of its connection is done.
LEMMA EndRan ==
    ASSUME Inv, EndInv, NEW b \in Block, b.what # "ready", mainQueue # <<>>, Ran(b),
           UNCHANGED <<net, connects>>,
           isConnected' => \/ Head(mainQueue).what = "ready"
                           \/ isConnected /\ Head(mainQueue).what \notin {"failed", "cancelled"}
    PROVE  EndInv'
  <1>1. mainQueue \in Seq(Block) /\ Head(mainQueue) = mainQueue[1]
    BY TailBlock DEF Inv, TypeOK
  <1>2. /\ Len(mainQueue) \in Nat \ {0} /\ Len(mainQueue') \in Nat
        /\ Len(mainQueue') = Len(mainQueue) - 1 \/ Len(mainQueue') = Len(mainQueue)
        /\ \A j \in 1 .. Len(mainQueue) - 1 : mainQueue'[j] = mainQueue[j + 1]
        /\ Len(mainQueue') = Len(mainQueue) => mainQueue'[Len(mainQueue)] = b
    BY <1>1, RanBlocks
  <1>3. \A c : EndAfter(c, 1) => EndAfter(c, 0)'
    <2> SUFFICES ASSUME NEW c, EndAfter(c, 1) PROVE EndAfter(c, 0)'
      OBVIOUS
    <2>1. EndAfter(c, 1 - 1)'
      BY <1>1, EndShifted
    <2> QED
      BY <2>1 DEF EndAfter
  <1>4. ConnectedUntilReported'
    <2> SUFFICES ASSUME isConnected'
                 PROVE  \E c \in Connections : net'[c] = "ready" \/ EndAfter(c, 0)'
      BY DEF ConnectedUntilReported, EndAfter
    <2>1. CASE Head(mainQueue).what = "ready"
      <3>1. 1 \in 1 .. Len(mainQueue)
        BY <1>2
      <3>2. PICK c \in Connections : net[c] = "ready" \/ EndAfter(c, 1)
        BY <1>1, <2>1, <3>1 DEF EndInv, ReadyInTime
      <3> QED
        BY <1>3, <3>2
    <2>2. CASE isConnected /\ Head(mainQueue).what \notin {"failed", "cancelled"}
      <3>1. PICK c \in Connections : net[c] = "ready" \/ EndAfter(c, 0)
        BY <2>2 DEF EndInv, ConnectedUntilReported
      <3>2. ASSUME EndAfter(c, 0) PROVE EndAfter(c, 1)
        <4>1. PICK j \in 0 + 1 .. Len(mainQueue) :
                mainQueue[j].what \in {"failed", "cancelled"} /\ mainQueue[j].conn = c
          BY <3>2 DEF EndAfter
        <4>2. j # 1
          BY <1>1, <2>2, <4>1
        <4>3. j \in 1 + 1 .. Len(mainQueue)
          BY <1>2, <4>1, <4>2
        <4> QED
          BY <4>1, <4>3 DEF EndAfter
      <3> QED
        BY <1>3, <3>1, <3>2
    <2> QED
      BY <2>1, <2>2
  <1>5. ASSUME NEW i \in 1 .. Len(mainQueue'), mainQueue'[i].what = "ready"
        PROVE  ReadyInTime(i)'
    <2>1. i # Len(mainQueue)
      BY <1>2, <1>5
    <2>2. i \in 1 .. Len(mainQueue) - 1 /\ i + 1 \in 1 .. Len(mainQueue)
      BY <1>2, <2>1
    <2>3. mainQueue'[i] = mainQueue[i + 1]
      BY <1>2, <2>2
    <2>4. PICK c \in Connections :
            mainQueue[i + 1].conn = c /\ (net[c] = "ready" \/ EndAfter(c, i + 1))
      BY <1>5, <2>2, <2>3 DEF EndInv, ReadyInTime
    <2>5. ASSUME EndAfter(c, i + 1) PROVE EndAfter(c, i)'
      <3>1. \A k \in Nat : k >= 1 /\ EndAfter(c, k) => EndAfter(c, k - 1)'
        BY <1>1, EndShifted
      <3>2. EndAfter(c, (i + 1) - 1)'
        BY <2>2, <2>5, <3>1
      <3>3. (i + 1) - 1 = i
        BY <2>2
      <3> QED
        BY <3>2, <3>3 DEF EndAfter
    <2>6. net'[c] = "ready" \/ EndAfter(c, i)'
      BY <2>4, <2>5
    <2> QED
      BY <2>3, <2>4, <2>6 DEF ReadyInTime
  <1>6. \A c \in Connections : c > connects' => net'[c] = "none"
    BY DEF EndInv
  <1> QED
    BY <1>4, <1>5, <1>6 DEF EndInv

\* A connection changes its state, and the block that says so is put last.
LEMMA EndStateChange ==
    ASSUME Inv, EndInv, NEW c \in Connections,
           BecomesReady(c) \/ BecomesFailed(c) \/ BecomesCancelled(c)
    PROVE  EndInv'
  <1>1. PICK to \in {"ready", "failed", "cancelled"} :
          /\ net[c] \in {"preparing", "ready", "failed"}
          /\ to = "ready" => net[c] = "preparing"
          /\ net' = [net EXCEPT ![c] = to] /\ mainQueue' = Append(mainQueue, Event(to, c))
          /\ UNCHANGED <<isConnected, connects>>
    BY DEF BecomesReady, BecomesFailed, BecomesCancelled, StateChange, serviceVars
  <1> DEFINE b == Event(to, c)
  <1>2. b \in Block /\ b.what = to /\ b.conn = c
    BY EventBlock DEF Event, Happenings
  <1>3. mainQueue \in Seq(Block) /\ Len(mainQueue) \in Nat /\ mainQueue' = Append(mainQueue, b)
    BY <1>1 DEF Inv, TypeOK
  <1> HIDE DEF b
  <1>4. /\ Len(mainQueue') = Len(mainQueue) + 1 /\ mainQueue'[Len(mainQueue) + 1] = b
        /\ \A i \in 1 .. Len(mainQueue) : mainQueue'[i] = mainQueue[i]
    BY <1>2, <1>3, AppendBlock
  <1>5. net'[c] = to /\ \A d \in Connections \ {c} : net'[d] = net[d]
    BY <1>1 DEF Inv, TypeOK
  \* What was true of a connection and a place still is: its end may now be last.
  <1>6. ASSUME NEW d \in Connections, NEW i \in 0 .. Len(mainQueue),
               net[d] = "ready" \/ EndAfter(d, i)
        PROVE  net'[d] = "ready" \/ EndAfter(d, i)'
    <2>1. CASE EndAfter(d, i)
      BY <1>2, <1>3, <2>1, EndKept
    <2>2. CASE net[d] = "ready" /\ d # c
      BY <1>5, <2>2
    <2>3. CASE net[d] = "ready" /\ d = c
      <3>1. to \in {"failed", "cancelled"}
        BY <1>1, <2>3
      <3>2. Len(mainQueue) + 1 \in i + 1 .. Len(mainQueue')
        BY <1>3, <1>4
      <3> QED
        BY <1>2, <1>4, <2>3, <3>1, <3>2 DEF EndAfter
    <2> QED
      BY <1>6, <2>1, <2>2, <2>3
  <1>7. ConnectedUntilReported'
    <2> SUFFICES ASSUME isConnected'
                 PROVE  \E d \in Connections : net'[d] = "ready" \/ EndAfter(d, 0)'
      BY DEF ConnectedUntilReported, EndAfter
    <2>1. PICK d \in Connections : net[d] = "ready" \/ EndAfter(d, 0)
      BY <1>1 DEF EndInv, ConnectedUntilReported
    <2>2. 0 \in 0 .. Len(mainQueue)
      BY <1>3
    <2> QED
      BY <1>6, <2>1, <2>2
  <1>8. ASSUME NEW i \in 1 .. Len(mainQueue'), mainQueue'[i].what = "ready"
        PROVE  ReadyInTime(i)'
    <2>1. CASE i = Len(mainQueue) + 1
      <3>1. mainQueue'[i].conn = c /\ net'[c] = "ready"
        BY <1>2, <1>4, <1>5, <1>8, <2>1
      <3> QED
        BY <3>1 DEF ReadyInTime
    <2>2. CASE i \in 1 .. Len(mainQueue)
      <3>1. mainQueue'[i] = mainQueue[i]
        BY <1>4, <2>2
      <3>2. PICK d \in Connections : mainQueue[i].conn = d /\ (net[d] = "ready" \/ EndAfter(d, i))
        BY <1>8, <2>2, <3>1 DEF EndInv, ReadyInTime
      <3>3. i \in 0 .. Len(mainQueue)
        BY <1>3, <2>2
      <3>4. net'[d] = "ready" \/ EndAfter(d, i)'
        BY <1>6, <3>2, <3>3
      <3> QED
        BY <3>1, <3>2, <3>4 DEF ReadyInTime
    <2> QED
      BY <1>3, <1>4, <2>1, <2>2
  <1>9. \A d \in Connections : d > connects' => net'[d] = "none"
    <2>1. ~(c > connects)
      BY <1>1 DEF EndInv
    <2> QED
      BY <1>1, <1>5, <2>1 DEF EndInv
  <1> QED
    BY <1>7, <1>8, <1>9 DEF EndInv

LEMMA EndOwner == Inv /\ EndInv /\ (Disconnect \/ ConnectDisconnects \/ ConnectStarts) => EndInv'
  <1> SUFFICES ASSUME Inv, EndInv, Disconnect \/ ConnectDisconnects \/ ConnectStarts PROVE EndInv'
    OBVIOUS
  <1>1. CASE Disconnect \/ ConnectDisconnects
    <2>1. /\ mainQueue' = Append(mainQueue, Event("reportDisconnect", Nil))
          /\ isConnected' = FALSE /\ UNCHANGED <<net, connects>>
      BY <1>1 DEF Disconnect, ConnectDisconnects, Forget
    <2>2. Event("reportDisconnect", Nil) \in Block /\ Event("reportDisconnect", Nil).what # "ready"
      BY EventBlock DEF Event, Happenings
    <2>3. \A c \in Connections : c > connects' => net'[c] = "none"
      BY <2>1 DEF EndInv
    <2> QED
      BY <2>1, <2>2, <2>3, EndAppended
  <1>2. CASE ConnectStarts
    <2>1. /\ mainQueue' = Append(mainQueue, Ui("connecting")) /\ isConnected' = isConnected
          /\ connects' = connects + 1 /\ net' = [net EXCEPT ![connects + 1] = "preparing"]
      BY <1>2 DEF ConnectStarts
    <2>2. Ui("connecting") \in Block /\ Ui("connecting").what # "ready"
      BY UiBlock DEF Ui, States
    <2>3. connects \in Nat /\ connects + 1 \in Connections
      BY <1>2 DEF ConnectStarts, Inv, TypeOK, CurrentInv, Connections
    <2>4. \A c \in Connections : c # connects + 1 => net'[c] = net[c]
      BY <2>1, <2>3 DEF Inv, TypeOK
    <2>5. net[connects + 1] = "none"
      BY <2>3 DEF EndInv
    <2>6. \A c \in Connections : net[c] = "ready" => net'[c] = "ready"
      BY <2>4, <2>5
    <2>7. \A c \in Connections : c > connects' => net'[c] = "none"
      <3>1. \A c \in Connections : c > connects + 1 => c # connects + 1 /\ c > connects
        BY <2>3 DEF Connections
      <3> QED
        BY <2>1, <2>4, <3>1 DEF EndInv
    <2> QED
      BY <2>1, <2>2, <2>6, <2>7, EndAppended
  <1> QED
    BY <1>1, <1>2

LEMMA EndMainBlock == Inv /\ EndInv /\ MainBlock => EndInv'
  <1> SUFFICES ASSUME Inv, EndInv, MainBlock PROVE EndInv'
    OBVIOUS
  <1>1. \A s \in States : Ui(s) \in Block /\ Ui(s).what # "ready"
    BY UiBlock DEF Ui
  <1>2. PICK s \in States : Ran(Ui(s))
    BY DEF MainBlock, BlockReady, BlockFailed, BlockCancelled, BlockError, BlockReportDisconnect,
           BlockUi, Report, Ran, States
  <1>3. mainQueue # <<>> /\ UNCHANGED <<net, connects>>
    BY DEF MainBlock, BlockReady, BlockFailed, BlockCancelled, BlockError, BlockReportDisconnect,
           BlockUi, NextBlock
  <1>4. isConnected' => \/ Head(mainQueue).what = "ready"
                        \/ isConnected /\ Head(mainQueue).what \notin {"failed", "cancelled"}
    BY DEF MainBlock, BlockReady, BlockFailed, BlockCancelled, BlockError, BlockReportDisconnect,
           BlockUi, NextBlock, NoteCancelled, serviceVars
  <1> QED
    BY <1>1, <1>2, <1>3, <1>4, EndRan

LEMMA EndReceives ==
    ASSUME Inv, EndInv, NEW c \in Connections,
           ReceiveError(c) \/ ReceiveComplete(c) \/ ReceiveContent(c) \/ SendFails(c)
    PROVE  EndInv'
  <1>1. CASE ReceiveError(c) \/ SendFails(c)
    <2>1. mainQueue' = Append(mainQueue, Event("error", c)) /\ UNCHANGED <<net, connects, isConnected>>
      BY <1>1 DEF ReceiveError, SendFails, Completes, serviceVars
    <2>2. Event("error", c) \in Block /\ Event("error", c).what # "ready"
      BY EventBlock DEF Event, Happenings
    <2>3. \A d \in Connections : d > connects' => net'[d] = "none"
      BY <2>1 DEF EndInv
    <2> QED
      BY <2>1, <2>2, <2>3, EndAppended
  <1>2. CASE ReceiveComplete(c) \/ ReceiveContent(c)
    <2>1. UNCHANGED <<mainQueue, net, connects, isConnected>>
      BY <1>2 DEF ReceiveComplete, ReceiveContent, Completes
    <2> QED
      BY <2>1 DEF EndInv, ConnectedUntilReported, EndAfter, ReadyInTime
  <1> QED
    BY <1>1, <1>2

LEMMA EndQueue == Inv /\ EndInv /\ (QueueDisconnect \/ QueueForgets) => EndInv'
  <1> SUFFICES ASSUME Inv, EndInv, QueueDisconnect \/ QueueForgets PROVE EndInv'
    OBVIOUS
  <1>1. CASE QueueDisconnect
    <2>1. UNCHANGED <<mainQueue, net, connects, isConnected>>
      BY <1>1 DEF QueueDisconnect, serviceVars
    <2> QED
      BY <2>1 DEF EndInv, ConnectedUntilReported, EndAfter, ReadyInTime
  <1>2. CASE QueueForgets
    <2>1. /\ mainQueue' = Append(mainQueue, Event("reportDisconnect", Nil))
          /\ isConnected' = FALSE /\ UNCHANGED <<net, connects>>
      BY <1>2 DEF QueueForgets, Forget
    <2>2. Event("reportDisconnect", Nil) \in Block /\ Event("reportDisconnect", Nil).what # "ready"
      BY EventBlock DEF Event, Happenings
    <2>3. \A c \in Connections : c > connects' => net'[c] = "none"
      BY <2>1 DEF EndInv
    <2> QED
      BY <2>1, <2>2, <2>3, EndAppended
  <1> QED
    BY <1>1, <1>2

LEMMA EndNext == Inv /\ EndInv /\ [Next]_vars => EndInv'
  <1> SUFFICES ASSUME Inv, EndInv, [Next]_vars PROVE EndInv'
    OBVIOUS
  <1>1. CASE Disconnect \/ ConnectDisconnects \/ ConnectStarts
    BY <1>1, EndOwner
  <1>2. CASE MainBlock
    BY <1>2, EndMainBlock
  <1>3. CASE NetworkQueue
    BY <1>3, EndReceives, EndStateChange, EndQueue DEF NetworkQueue
  <1>4. CASE Peer
    BY <1>4, EndReceives, EndStateChange DEF Peer
  <1>5. CASE UNCHANGED vars
    BY <1>5 DEF vars, serviceVars, EndInv, ConnectedUntilReported, EndAfter, ReadyInTime
  <1> QED
    BY <1>1, <1>2, <1>3, <1>4, <1>5 DEF Next

\* isConnected is never left up: a connection is ready, or the block that will
\* say that one has ended is still on the main queue.
THEOREM ConnectedEnds == Spec => []ConnectedUntilReported
  <1>1. Init => EndInv
    <2> SUFFICES ASSUME Init PROVE EndInv
      OBVIOUS
    <2>1. ~isConnected /\ Len(mainQueue) = 0 /\ \A c \in Connections : net[c] = "none"
      BY DEF Init
    <2> QED
      BY <2>1 DEF EndInv, ConnectedUntilReported
  <1>2. EndInv => ConnectedUntilReported
    BY DEF EndInv
  <1> QED
    BY <1>1, <1>2, EndNext, ServiceInvariance, PTL DEF Spec
=============================================================================
