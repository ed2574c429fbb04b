---------------------------- MODULE LossyChannel ----------------------------
(***************************************************************************)
(* What a sender may count on from a packet channel that can drop packets: *)
(* the packets of one connection are numbered 1, 2, 3, ... in the order    *)
(* they are sent; the receiver is handed packets that were sent, unaltered,*)
(* in that order, none of them twice.  Some may never arrive.              *)
(*                                                                         *)
(* NetworkReceiver implements this for its TCP connections as long as no   *)
(* datagram arrives; see NetworkReceiver!ControlChannel.                   *)
(***************************************************************************)
EXTENDS Naturals, Sequences

CONSTANTS
    Connections,    \* the connections of the receiver
    MaxSent         \* how many packets one connection carries (a bound)

VARIABLES
    sent,           \* sent[c]: how many packets connection c has been given
    delivered       \* delivered[c]: the numbers handed to the receiver

channelVars == <<sent, delivered>>

ChannelTypeOK ==
    /\ sent \in [Connections -> 0 .. MaxSent]
    /\ delivered \in [Connections -> Seq(1 .. MaxSent)]

ChannelInit ==
    /\ sent = [c \in Connections |-> 0]
    /\ delivered = [c \in Connections |-> <<>>]

SendPacket(c) ==
    /\ sent[c] < MaxSent
    /\ sent' = [sent EXCEPT ![c] = @ + 1]
    /\ UNCHANGED delivered

\* Later than everything handed over before: what lies between is lost.
DeliverPacket(c) ==
    \E n \in 1 .. sent[c] :
        /\ \A i \in 1 .. Len(delivered[c]) : delivered[c][i] < n
        /\ delivered' = [delivered EXCEPT ![c] = Append(@, n)]
        /\ UNCHANGED sent

ChannelNext == \E c \in Connections : SendPacket(c) \/ DeliverPacket(c)

ChannelSpec == ChannelInit /\ [][ChannelNext]_channelVars

-----------------------------------------------------------------------------
(* What follows for the receiver. *)

\* What it was handed is in the order in which it was sent, and nothing comes
\* a second time.
InOrderOnce ==
    \A c \in Connections : \A i, j \in 1 .. Len(delivered[c]) :
        i < j => delivered[c][i] < delivered[c][j]

\* It is never handed more packets than were sent.
NotMoreThanSent == \A c \in Connections : Len(delivered[c]) <= sent[c]

\* What was handed over is never taken back or exchanged.
OnlyExtended ==
    [][\A c \in Connections :
          /\ Len(delivered[c]) <= Len(delivered'[c])
          /\ \A i \in 1 .. Len(delivered[c]) : delivered'[c][i] = delivered[c][i]]_channelVars

\* The inductive invariant: the i-th packet handed over has at least number i.
NumberInv ==
    /\ ChannelTypeOK
    /\ \A c \in Connections : \A i \in 1 .. Len(delivered[c]) :
          i <= delivered[c][i] /\ delivered[c][i] <= sent[c]
    /\ InOrderOnce
=============================================================================
