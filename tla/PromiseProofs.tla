---------------------------- MODULE PromiseProofs ----------------------------
(***************************************************************************)
(* What the two abstract specifications entail, for any connections and    *)
(* any threads.  NetworkReceiver implements both, and HostProcess the one  *)
(* of the threads, so what is shown here holds of them through the         *)
(* refinement mappings of their modules.                                   *)
(***************************************************************************)
EXTENDS LossyChannel, ReceivingThreads, SequenceTheorems, TLAPS

(* The threads. *)

\* A flag that is down has been lowered by an owner that is past running, or
\* has not been raised yet.
OwnerInv ==
    /\ ThreadsTypeOK
    /\ BusyIsOwned
    /\ owner = "running" => flag
    /\ owner = "stopping" => ~flag

LEMMA OwnerInitially == ThreadsInit => OwnerInv
  BY DEF ThreadsInit, OwnerInv, ThreadsTypeOK, BusyIsOwned, Over

LEMMA OwnerStep == OwnerInv /\ [ThreadsNext]_threadsVars => OwnerInv'
  <1> SUFFICES ASSUME OwnerInv, [ThreadsNext]_threadsVars PROVE OwnerInv'
    OBVIOUS
  <1> USE DEF OwnerInv, ThreadsTypeOK, BusyIsOwned, Over
  <1>1. CASE RaiseFlag \/ BeginThreads
    BY <1>1 DEF RaiseFlag, BeginThreads
  <1>2. CASE StopThreads \/ JoinThreads
    BY <1>2 DEF StopThreads, JoinThreads
  <1>3. CASE GiveUp \/ ProcessEnds
    BY <1>3 DEF GiveUp, ProcessEnds
  <1>4. ASSUME NEW t \in Threads, LookAtFlag(t) PROVE OwnerInv'
    BY <1>4 DEF LookAtFlag
  <1>5. ASSUME NEW t \in Threads, LoopAgain(t) PROVE OwnerInv'
    BY <1>5 DEF LoopAgain
  <1>6. CASE UNCHANGED threadsVars
    BY <1>6 DEF threadsVars
  <1> QED
    BY <1>1, <1>2, <1>3, <1>4, <1>5, <1>6 DEF ThreadsNext

\* A thread that may call back is one the owner runs or still waits for: of
\* NetworkReceiver, no callback before start has succeeded or after stop.
THEOREM OwnedWhileBusy == ThreadsSpec => []BusyIsOwned
  <1>1. OwnerInv => BusyIsOwned
    BY DEF OwnerInv
  <1> QED
    BY <1>1, OwnerInitially, OwnerStep, PTL DEF ThreadsSpec

\* Once the flag is down each thread calls back at most once more, the owner
\* being in stop or the process at its end.
THEOREM LateAtMostOnce == ThreadsSpec => OneLateCallback
  <1>1. OwnerInv /\ [ThreadsNext]_threadsVars
          => [NoneGetsBusy]_threadsVars
    <2> SUFFICES ASSUME OwnerInv, ThreadsNext, NEW t \in Threads, ~flag, place[t] /= "busy"
                 PROVE  place'[t] /= "busy"
      BY DEF NoneGetsBusy
    <2>1. CASE RaiseFlag \/ BeginThreads \/ StopThreads \/ JoinThreads \/ GiveUp \/ ProcessEnds
      BY <2>1 DEF RaiseFlag, BeginThreads, StopThreads, JoinThreads, GiveUp, ProcessEnds
    <2>2. CASE \E u \in Threads : LookAtFlag(u) \/ LoopAgain(u)
      BY <2>2 DEF LookAtFlag, LoopAgain, OwnerInv, ThreadsTypeOK
    <2> QED
      BY <2>1, <2>2 DEF ThreadsNext
  <1> QED
    BY <1>1, OwnerInitially, OwnerStep, PTL DEF ThreadsSpec, OneLateCallback

-----------------------------------------------------------------------------
(* The channel. *)

LEMMA NumbersInitially == MaxSent \in Nat /\ ChannelInit => NumberInv
  BY DEF ChannelInit, NumberInv, ChannelTypeOK, InOrderOnce

LEMMA SendNumbers ==
    ASSUME MaxSent \in Nat, NumberInv, NEW c \in Connections, SendPacket(c)
    PROVE  NumberInv'
  <1> USE DEF NumberInv, ChannelTypeOK, InOrderOnce, SendPacket
  <1>1. \A d \in Connections : sent'[d] \in 0 .. MaxSent /\ sent[d] <= sent'[d]
    OBVIOUS
  <1>2. ChannelTypeOK'
    BY <1>1
  <1>3. ASSUME NEW d \in Connections, NEW i \in 1 .. Len(delivered'[d])
        PROVE  i <= delivered'[d][i] /\ delivered'[d][i] <= sent'[d]
    <2>1. delivered' = delivered /\ delivered[d] \in Seq(1 .. MaxSent)
      OBVIOUS
    <2>2. delivered[d][i] \in Nat /\ i <= delivered[d][i] /\ delivered[d][i] <= sent[d]
      BY <1>3, <2>1
    <2> QED
      BY <1>1, <2>1, <2>2
  <1> QED
    BY <1>2, <1>3

LEMMA DeliverNumbers ==
    ASSUME MaxSent \in Nat, NumberInv, NEW c \in Connections, DeliverPacket(c)
    PROVE  NumberInv' /\ (\A d \in Connections :
             /\ Len(delivered[d]) <= Len(delivered'[d])
             /\ \A i \in 1 .. Len(delivered[d]) : delivered'[d][i] = delivered[d][i])
  <1>1. PICK n \in 1 .. sent[c] :
          /\ \A i \in 1 .. Len(delivered[c]) : delivered[c][i] < n
          /\ delivered' = [delivered EXCEPT ![c] = Append(@, n)]
          /\ UNCHANGED sent
    BY DEF DeliverPacket
  <1> DEFINE s == delivered[c]
             r == Append(s, n)
  <1>2. /\ s \in Seq(1 .. MaxSent) /\ sent[c] \in 0 .. MaxSent /\ n \in 1 .. MaxSent
        /\ delivered \in [Connections -> Seq(1 .. MaxSent)]
    BY <1>1 DEF NumberInv, ChannelTypeOK
  <1>3. /\ r \in Seq(1 .. MaxSent) /\ Len(r) = Len(s) + 1 /\ Len(s) \in Nat
        /\ \A i \in 1 .. Len(s) : r[i] = s[i]
        /\ r[Len(s) + 1] = n
    BY <1>2
  <1>4. \A i \in 1 .. Len(s) : s[i] \in Nat /\ i <= s[i] /\ s[i] <= sent[c] /\ s[i] < n
    BY <1>1, <1>2 DEF NumberInv
  <1>5. \A i, j \in 1 .. Len(s) : i < j => s[i] < s[j]
    BY DEF NumberInv, InOrderOnce
  <1>6. Len(s) + 1 <= n
    <2>1. CASE Len(s) = 0
      BY <1>1, <1>2, <2>1
    <2>2. CASE Len(s) /= 0
      <3>1. Len(s) \in 1 .. Len(s)
        BY <1>3, <2>2
      <3>2. Len(s) <= s[Len(s)] /\ s[Len(s)] < n /\ s[Len(s)] \in Nat
        BY <1>4, <3>1
      <3> QED
        BY <1>2, <1>3, <3>2
    <2> QED
      BY <2>1, <2>2
  <1>7. delivered'[c] = r /\ \A d \in Connections \ {c} : delivered'[d] = delivered[d]
    BY <1>1, <1>2
  <1> HIDE DEF s, r
  <1>8. \A i \in 1 .. Len(r) : i <= r[i] /\ r[i] <= sent[c]
    <2> SUFFICES ASSUME NEW i \in 1 .. Len(r) PROVE i <= r[i] /\ r[i] <= sent[c]
      OBVIOUS
    <2>1. i \in 1 .. Len(s) \/ i = Len(s) + 1
      BY <1>3
    <2>2. CASE i \in 1 .. Len(s)
      BY <1>3, <1>4, <2>2
    <2>3. CASE i = Len(s) + 1
      <3>1. r[i] = n /\ n <= sent[c]
        BY <1>2, <1>3, <2>3
      <3> QED
        BY <1>6, <2>3, <3>1
    <2> QED
      BY <2>1, <2>2, <2>3
  <1>9. \A i, j \in 1 .. Len(r) : i < j => r[i] < r[j]
    <2> SUFFICES ASSUME NEW i \in 1 .. Len(r), NEW j \in 1 .. Len(r), i < j PROVE r[i] < r[j]
      OBVIOUS
    <2> DEFINE l == Len(s)
    <2>1. l \in Nat /\ i \in 1 .. l + 1 /\ j \in 1 .. l + 1
      BY <1>3
    <2> HIDE DEF l
    <2>2. i \in 1 .. l /\ (j \in 1 .. l \/ j = l + 1)
      BY <2>1
    <2>3. r[i] = s[i] /\ s[i] < n
      BY <1>3, <1>4, <2>2 DEF l
    <2>4. CASE j \in 1 .. l
      BY <1>3, <1>5, <2>2, <2>3, <2>4 DEF l
    <2>5. CASE j = l + 1
      BY <1>3, <2>3, <2>5 DEF l
    <2> QED
      BY <2>2, <2>4, <2>5
  <1>10. ChannelTypeOK'
    BY <1>1, <1>2, <1>3, <1>7 DEF NumberInv, ChannelTypeOK, s, r
  <1>11. \A d \in Connections : \A i \in 1 .. Len(delivered'[d]) :
            i <= delivered'[d][i] /\ delivered'[d][i] <= sent'[d]
    BY <1>1, <1>7, <1>8 DEF NumberInv
  <1>12. InOrderOnce'
    BY <1>7, <1>9 DEF NumberInv, InOrderOnce
  <1>13. ASSUME NEW d \in Connections
         PROVE  /\ Len(delivered[d]) <= Len(delivered'[d])
                /\ \A i \in 1 .. Len(delivered[d]) : delivered'[d][i] = delivered[d][i]
    <2>1. CASE d = c
      BY <1>3, <1>7, <2>1 DEF s
    <2>2. CASE d /= c
      <3>1. Len(delivered[d]) \in Nat
        BY <1>2
      <3> QED
        BY <1>7, <2>2, <3>1
    <2> QED
      BY <2>1, <2>2
  <1> QED
    BY <1>10, <1>11, <1>12, <1>13 DEF NumberInv

LEMMA NumbersStep ==
    ASSUME MaxSent \in Nat
    PROVE  NumberInv /\ [ChannelNext]_channelVars => NumberInv'
  <1>1. CASE UNCHANGED channelVars
    BY <1>1 DEF channelVars, NumberInv, ChannelTypeOK, InOrderOnce
  <1> QED
    BY <1>1, SendNumbers, DeliverNumbers DEF ChannelNext

\* The receiver of a lossy channel is handed its packets in order and once.
THEOREM ChannelInOrder == ASSUME MaxSent \in Nat PROVE ChannelSpec => []InOrderOnce
  <1>1. NumberInv => InOrderOnce
    BY DEF NumberInv
  <1> QED
    BY <1>1, NumbersInitially, NumbersStep, PTL DEF ChannelSpec

\* It is never handed more packets than were sent.
THEOREM ChannelCounts == ASSUME MaxSent \in Nat PROVE ChannelSpec => []NotMoreThanSent
  <1>1. NumberInv => NotMoreThanSent
    <2> SUFFICES ASSUME NumberInv, NEW c \in Connections PROVE Len(delivered[c]) <= sent[c]
      BY DEF NotMoreThanSent
    <2>1. Len(delivered[c]) \in Nat /\ sent[c] \in Nat
      BY DEF NumberInv, ChannelTypeOK
    <2>2. CASE Len(delivered[c]) = 0
      BY <2>1, <2>2
    <2>3. CASE Len(delivered[c]) /= 0
      <3>1. Len(delivered[c]) \in 1 .. Len(delivered[c])
        BY <2>1, <2>3
      <3>2. delivered[c][Len(delivered[c])] \in Nat
        BY <3>1 DEF NumberInv, ChannelTypeOK
      <3> QED
        BY <2>1, <3>1, <3>2 DEF NumberInv
    <2> QED
      BY <2>2, <2>3
  <1> QED
    BY <1>1, NumbersInitially, NumbersStep, PTL DEF ChannelSpec

\* What was handed over stays as it was.
THEOREM ChannelExtends == ASSUME MaxSent \in Nat PROVE ChannelSpec => OnlyExtended
  <1>1. ASSUME NumberInv, [ChannelNext]_channelVars
        PROVE  [\A c \in Connections :
                  /\ Len(delivered[c]) <= Len(delivered'[c])
                  /\ \A i \in 1 .. Len(delivered[c]) :
                       delivered'[c][i] = delivered[c][i]]_channelVars
    <2>1. ASSUME NEW c \in Connections, SendPacket(c), NEW d \in Connections
          PROVE  /\ Len(delivered[d]) <= Len(delivered'[d])
                 /\ \A i \in 1 .. Len(delivered[d]) : delivered'[d][i] = delivered[d][i]
      <3>1. Len(delivered[d]) \in Nat
        BY <1>1 DEF NumberInv, ChannelTypeOK
      <3> QED
        BY <2>1, <3>1 DEF SendPacket
    <2> QED
      BY <1>1, <2>1, DeliverNumbers DEF ChannelNext
  <1> QED
    BY <1>1, NumbersInitially, NumbersStep, PTL DEF ChannelSpec, OnlyExtended
=============================================================================
