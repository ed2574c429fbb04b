----------------------------- MODULE SendSequence -----------------------------
(***************************************************************************)
(* How the iOS client numbers its packets.  sendTrackingFrame and          *)
(* sendControlMessage run on the main thread, sendHeartbeat on the network *)
(* queue and sendVideoPacket on the thread of the encoder's callback.  All *)
(* three take their number from the one VRSecureChannel, whose             *)
(* nextSendSequence loads, stores and loads sendSequence again with no     *)
(* lock, and then hand the packet to the connection.                       *)
(***************************************************************************)
EXTENDS Naturals, Sequences

CONSTANTS
    Senders,        \* the threads that send packets
    MaxPackets      \* packets one thread sends (a bound)

VARIABLES
    sendSequence,   \* VRSecureChannel.sendSequence
    pc,             \* where each thread is in its send
    temp,           \* what each thread loaded from sendSequence last
    packets,        \* how many packets each thread has begun
    wire            \* the numbers of the packets given to the connection

vars == <<sendSequence, pc, temp, packets, wire>>

Init ==
    /\ sendSequence = 0
    /\ pc = [s \in Senders |-> "idle"]
    /\ temp = [s \in Senders |-> 0]
    /\ packets = [s \in Senders |-> 0]
    /\ wire = <<>>

Go(s, from, to) == pc[s] = from /\ pc' = [pc EXCEPT ![s] = to]

\* sendSequence &+= 1, the load: the service is connected and encoded the payload.
LoadSequence(s) ==
    /\ Go(s, "idle", "add")
    /\ packets[s] < MaxPackets
    /\ packets' = [packets EXCEPT ![s] = @ + 1]
    /\ temp' = [temp EXCEPT ![s] = sendSequence]
    /\ UNCHANGED <<sendSequence, wire>>

\* sendSequence &+= 1, the store (2^32 packets are out of the bound's reach).
StoreSequence(s) ==
    /\ Go(s, "add", "return")
    /\ sendSequence' = temp[s] + 1
    /\ UNCHANGED <<temp, packets, wire>>

\* return sendSequence
ReturnSequence(s) ==
    /\ Go(s, "return", "send")
    /\ temp' = [temp EXCEPT ![s] = sendSequence]
    /\ UNCHANGED <<sendSequence, packets, wire>>

\* sendData: the packet with its number goes to the connection.
SendData(s) ==
    /\ Go(s, "send", "idle")
    /\ wire' = Append(wire, temp[s])
    /\ UNCHANGED <<sendSequence, temp, packets>>

Finished == (\A s \in Senders : pc[s] = "idle" /\ packets[s] = MaxPackets) /\ UNCHANGED vars

Next ==
    \/ \E s \in Senders :
         LoadSequence(s) \/ StoreSequence(s) \/ ReturnSequence(s) \/ SendData(s)
    \/ Finished

Spec == Init /\ [][Next]_vars

\* docs/api/protocol.md:12 gives every header a packet sequence number: two
\* packets of a client never carry the same one (nextSendSequence).
NumbersAreUnique == \A i, j \in 1 .. Len(wire) : i # j => wire[i] # wire[j]
=============================================================================
