-------------------------- MODULE HostProcessProofs --------------------------
(***************************************************************************)
(* Theorems about the host process, for any number of frame contexts,      *)
(* frames, packets, formats and launches: the GPU has let go of what is    *)
(* reused or released, callbacks run on objects that live, a decoded frame *)
(* is of its decoder, the statistics count the last frames recorded, and   *)
(* the launcher does not lose a process.                                   *)
(***************************************************************************)
EXTENDS HostProcess, SequenceTheorems, FiniteSetTheorems, TLAPS

USE FramesAssumption, FormatAssumption, TimeAssumption, LaunchAssumption, WorkAssumption

Places == Ended \cup SetUp \cup {"loop", "frame", "record", "signal", "check", "arm", "wait",
                                 "join", "unwind", "close"}

-----------------------------------------------------------------------------
(* Operators. *)

LEMMA RemainderInRange == \A a \in Nat, b \in Nat \ {0} : a % b \in 0 .. b - 1
  OBVIOUS

LEMMA ZeroFrame == 0 \in Frames
  BY DEF Frames

LEMMA AppendPair == ASSUME NEW x, NEW y PROVE Append(<<x>>, y) = <<x, y>>
  <1> DEFINE S == {x, y}
  <1>1. <<x>> \in Seq(S) /\ y \in S /\ <<x, y>> \in Seq(S)
    OBVIOUS
  <1>2. Append(<<x>>, y) \in Seq(S) /\ Len(Append(<<x>>, y)) = 2
    BY <1>1
  <1>3. \A i \in 1 .. 2 : Append(<<x>>, y)[i] = <<x, y>>[i]
    BY <1>1
  <1> QED
    BY <1>1, <1>2, <1>3, SeqEqual

\* What the loop of record_frame erases: times that are too old, up to the
\* first that is not.
LEMMA ErasedPrefix ==
    ASSUME NEW s \in Seq(0 .. MaxTime)
    PROVE  /\ Erased(s) \in 0 .. Len(s)
           /\ \A i \in 1 .. Erased(s) : TooOld(s, i)
           /\ Erased(s) < Len(s) => ~TooOld(s, Erased(s) + 1)
  <1> DEFINE T == {i \in 1 .. Len(s) : \A j \in 1 .. i : TooOld(s, j)}
             e == Cardinality(T)
  <1>1. Len(s) \in Nat
    OBVIOUS
  <1>2. \A n \in Nat : IsFiniteSet(1 .. n) /\ Cardinality(1 .. n) = n
    <2> TAKE n \in Nat
    <2>1. 1 \in Int /\ n \in Int
      OBVIOUS
    <2>2. IsFiniteSet(1 .. n) /\ Cardinality(1 .. n) = IF 1 > n THEN 0 ELSE n - 1 + 1
      BY <2>1, FS_Interval
    <2> QED
      BY <2>2
  <1>3. T \subseteq 1 .. Len(s)
    OBVIOUS
  <1>4. IsFiniteSet(T) /\ e \in Nat /\ e <= Len(s)
    <2>1. IsFiniteSet(1 .. Len(s)) /\ Cardinality(1 .. Len(s)) = Len(s) /\ T \in SUBSET (1 .. Len(s))
      BY <1>1, <1>2
    <2> HIDE DEF T
    <2> QED
      BY <2>1, FS_Subset, FS_CardinalityType
  <1>5. T = 1 .. e
    <2>1. ASSUME NEW i \in T PROVE i <= e
      <3>1. 1 .. i \subseteq T /\ i \in Nat
        BY <1>1
      <3>2. Cardinality(1 .. i) <= e
        BY <1>4, <3>1, FS_Subset
      <3> QED
        BY <1>2, <3>1, <3>2
    <2>2. T \subseteq 1 .. e
      <3> SUFFICES ASSUME NEW i \in T PROVE i \in 1 .. e
        OBVIOUS
      <3>1. i <= e
        BY <2>1
      <3>2. i \in Nat /\ 1 <= i
        BY <1>1, <1>3
      <3> HIDE DEF e
      <3> QED
        BY <1>4, <3>1, <3>2
    <2>3. Cardinality(1 .. e) = Cardinality(T)
      BY <1>2, <1>4
    <2> QED
      BY <1>2, <1>4, <2>2, <2>3, FS_Subset
  <1>6. Erased(s) = e
    BY DEF Erased
  <1>7. ASSUME e < Len(s), TooOld(s, e + 1) PROVE FALSE
    <2> HIDE DEF e
    <2>1. \A j \in 1 .. e : TooOld(s, j)
      BY <1>5
    <2>2. \A j \in 1 .. e + 1 : TooOld(s, j)
      <3> SUFFICES ASSUME NEW j \in 1 .. e + 1 PROVE TooOld(s, j)
        OBVIOUS
      <3>1. j \in 1 .. e \/ j = e + 1
        BY <1>4
      <3> QED
        BY <1>7, <2>1, <3>1
    <2>3. e + 1 \in T
      BY <1>1, <1>4, <1>7, <2>2
    <2> QED
      BY <1>4, <1>5, <2>3
  <1>8. \A j \in 1 .. e : TooOld(s, j)
    BY <1>5
  <1> HIDE DEF T, e
  <1> QED
    BY <1>1, <1>4, <1>6, <1>7, <1>8

\* A suffix of a sequence.
LEMMA Suffix ==
    ASSUME NEW S, NEW s \in Seq(S), NEW p \in Nat, p <= Len(s)
    PROVE  /\ SubSeq(s, p + 1, Len(s)) \in Seq(S)
           /\ Len(SubSeq(s, p + 1, Len(s))) = Len(s) - p
           /\ \A i \in 1 .. Len(s) - p : SubSeq(s, p + 1, Len(s))[i] = s[p + i]
  <1> DEFINE m == p + 1
             n == Len(s)
             t == SubSeq(s, m, n)
  <1>1. m \in Int /\ n \in Int /\ n \in Nat
    OBVIOUS
  <1>2. \A i \in m .. n : s[i] \in S
    OBVIOUS
  <1>3. /\ t \in Seq(S) /\ Len(t) = (IF m <= n THEN n - m + 1 ELSE 0)
        /\ \A i \in 1 .. n - m + 1 : t[i] = s[m + i - 1]
    <2> HIDE DEF m, n
    <2> QED
      BY <1>1, <1>2, SubSeqProperties
  <1> HIDE DEF t, n
  <1>4. p <= n
    BY DEF n
  <1>5. Len(t) = n - p
    BY <1>1, <1>3, <1>4
  <1>6. ASSUME NEW i \in 1 .. n - p PROVE t[i] = s[p + i]
    <2>1. n - m + 1 = n - p
      BY <1>1
    <2>2. m + i - 1 = p + i
      OBVIOUS
    <2> HIDE DEF m
    <2> QED
      BY <1>3, <2>1, <2>2
  <1> QED
    BY <1>3, <1>5, <1>6 DEF t, n

\* Trimming keeps a sequence of times: no more is erased than there is.
LEMMA TrimType ==
    ASSUME NEW s \in Seq(0 .. MaxTime)
    PROVE  Trim(s) \in Seq(0 .. MaxTime)
  <1>1. Len(s) \in Nat /\ Erased(s) \in 0 .. Len(s)
    BY ErasedPrefix
  <1> QED
    BY <1>1, SubSeqProperties DEF Trim

-----------------------------------------------------------------------------
(* A process begins and ends. *)

LEMMA NewMemory ==
    ASSUME MemoryLost, main' \in Ended \cup {"window"},
           host_running' \in BOOLEAN, launches' \in 0 .. MaxLaunches, LauncherKnows'
    PROVE  Inv'
  <1>1. /\ after' = "none" /\ made' = {} /\ presents' = 0 /\ frame_index' = 0
        /\ fence_value' = 0 /\ queue' = <<>> /\ completed' = 0 /\ armed' = 0 /\ event' = FALSE
    BY DEF MemoryLost, RendererLost, NewRenderer
  <1>2. /\ initialized' = FALSE /\ decoder' = NoFormat /\ typed' = FALSE
        /\ current' = NoFormat /\ together' = FALSE
        /\ frame' = [t \in Threads |-> NoFormat] /\ source' = [t \in Threads |-> NoFormat]
    BY DEF MemoryLost, DecoderLost, NewDecoder
  <1>3. now' = 0 /\ stamp' = [t \in Threads |-> 0] /\ frame_times' = <<>> /\ recorded' = <<>>
    BY DEF MemoryLost, StatsLost, NewStats
  <1>4. /\ g_running' = TRUE /\ quit' = FALSE /\ running' = FALSE /\ packets' = 0
        /\ packet' = [t \in Threads |-> NoFormat]
        /\ pc' = [t \in Threads |-> "none"]
    BY DEF MemoryLost, NewProcess
  <1>5. TypeOK'
    <2>1. queue' \in Seq([kind : {"list", "signal"}, of : Nat])
      BY <1>1, EmptySeq
    <2>2. frame_times' \in Seq(0 .. MaxTime) /\ recorded' \in Seq(0 .. MaxTime)
      BY <1>3, EmptySeq
    <2>3. /\ presents' \in 0 .. MaxWork /\ frame_index' \in Frames
          /\ now' \in 0 .. MaxTime /\ stamp' \in [Threads -> 0 .. MaxTime]
          /\ packets' \in 0 .. MaxWork
      <3>1. 0 \in 0 .. MaxTime /\ 0 \in 0 .. MaxWork
        OBVIOUS
      <3> QED
        BY <1>1, <1>3, <1>4, <3>1, ZeroFrame
    <2>4. /\ {decoder', current'} \subseteq Formats \cup {NoFormat}
          /\ {frame', source', packet'} \subseteq [Threads -> Formats \cup {NoFormat}]
      BY <1>2, <1>4
    <2>5. pc' \in [Threads -> Steps]
      BY <1>4 DEF Steps
    <2>6. /\ event' \in BOOLEAN /\ initialized' \in BOOLEAN /\ typed' \in BOOLEAN /\ together' \in BOOLEAN
          /\ g_running' \in BOOLEAN /\ quit' \in BOOLEAN /\ running' \in BOOLEAN
      BY <1>1, <1>2, <1>4
    <2> QED
      BY <1>1, <2>1, <2>2, <2>3, <2>4, <2>5, <2>6 DEF TypeOK
  <1>6. RendererInv' /\ FenceInv'
    BY <1>1 DEF RendererInv, FenceInv, Waiting, Ended, Done
  <1>7. ThreadInv'
    BY <1>4 DEF ThreadInv, Threads
  <1>8. DecoderInv'
    BY <1>2, <1>4 DEF DecoderInv, FrameOfItsDecoder, Decoding
  <1> QED
    BY <1>5, <1>6, <1>7, <1>8 DEF Inv

LEMMA InvInit == Init => Inv
  <1> SUFFICES ASSUME Init PROVE Inv
    OBVIOUS
  <1>1. /\ after = "none" /\ made = {} /\ presents = 0 /\ frame_index = 0
        /\ fence_value = 0 /\ queue = <<>> /\ completed = 0 /\ armed = 0 /\ event = FALSE
    BY DEF Init, RendererInit, NewRenderer
  <1>2. /\ initialized = FALSE /\ decoder = NoFormat /\ typed = FALSE
        /\ current = NoFormat /\ together = FALSE
        /\ frame = [t \in Threads |-> NoFormat] /\ source = [t \in Threads |-> NoFormat]
    BY DEF Init, DecoderInit, NewDecoder
  <1>3. now = 0 /\ stamp = [t \in Threads |-> 0] /\ frame_times = <<>> /\ recorded = <<>>
    BY DEF Init, StatsInit, NewStats
  <1>4. /\ g_running = TRUE /\ quit = FALSE /\ running = FALSE /\ packets = 0
        /\ packet = [t \in Threads |-> NoFormat]
        /\ pc = [t \in Threads |-> "none"] /\ main = "none"
    BY DEF Init, NewProcess
  <1>5. TypeOK
    <2>1. queue \in Seq([kind : {"list", "signal"}, of : Nat])
      BY <1>1, EmptySeq
    <2>2. frame_times \in Seq(0 .. MaxTime) /\ recorded \in Seq(0 .. MaxTime)
      BY <1>3, EmptySeq
    <2>3. /\ presents \in 0 .. MaxWork /\ frame_index \in Frames
          /\ now \in 0 .. MaxTime /\ stamp \in [Threads -> 0 .. MaxTime]
          /\ packets \in 0 .. MaxWork
      <3>1. 0 \in 0 .. MaxTime /\ 0 \in 0 .. MaxWork
        OBVIOUS
      <3> QED
        BY <1>1, <1>3, <1>4, <3>1, ZeroFrame
    <2>4. /\ {decoder, current} \subseteq Formats \cup {NoFormat}
          /\ {frame, source, packet} \subseteq [Threads -> Formats \cup {NoFormat}]
      BY <1>2, <1>4
    <2>5. pc \in [Threads -> Steps]
      BY <1>4 DEF Steps
    <2>6. /\ event \in BOOLEAN /\ initialized \in BOOLEAN /\ typed \in BOOLEAN /\ together \in BOOLEAN
          /\ g_running \in BOOLEAN /\ quit \in BOOLEAN /\ running \in BOOLEAN
      BY <1>1, <1>2, <1>4
    <2>7. host_running \in BOOLEAN /\ launches \in 0 .. MaxLaunches
      <3>1. host_running = FALSE /\ launches = 0
        BY DEF Init, ManagerInit
      <3>2. launches \in 0 .. MaxLaunches
        BY <3>1
      <3> QED
        BY <3>1, <3>2
    <2> QED
      BY <1>1, <1>4, <2>1, <2>2, <2>3, <2>4, <2>5, <2>6, <2>7 DEF TypeOK, Ended
  <1>6. RendererInv /\ FenceInv
    BY <1>1, <1>4 DEF RendererInv, FenceInv, Waiting, Ended, Done
  <1>7. ThreadInv
    BY <1>4 DEF ThreadInv, Threads
  <1>8. DecoderInv
    BY <1>2, <1>4 DEF DecoderInv, FrameOfItsDecoder, Decoding
  <1>9. LauncherKnows
    BY <1>4 DEF LauncherKnows, Alive, Ended
  <1> QED
    BY <1>5, <1>6, <1>7, <1>8, <1>9 DEF Inv

LEMMA InvStutter == Inv /\ UNCHANGED vars => Inv'
  <1> SUFFICES ASSUME Inv, UNCHANGED vars PROVE Inv'
    OBVIOUS
  <1> USE DEF vars, Inv, rendererVars, decoderVars, statsVars, launcherVars, processVars
  <1>1. TypeOK'
    BY DEF TypeOK
  <1>2. RendererInv' /\ FenceInv'
    BY DEF RendererInv, FenceInv, Done, Unfinished, Pending, Waiting
  <1>3. ThreadInv' /\ DecoderInv' /\ LauncherKnows'
    BY DEF ThreadInv, DecoderInv, FrameOfItsDecoder, Decoding, LauncherKnows, Alive
  <1> QED
    BY <1>1, <1>2, <1>3

LEMMA InvProcess == Inv /\ (Launch \/ Terminate \/ Crash \/ Exit) => Inv'
  <1> SUFFICES ASSUME Inv, Launch \/ Terminate \/ Crash \/ Exit PROVE Inv'
    OBVIOUS
  <1>1. CASE Launch
    <2>1. MemoryLost /\ main' = "window" /\ host_running' = TRUE
      BY <1>1 DEF Launch, StartHostProcess
    <2>2. launches' \in 0 .. MaxLaunches
      BY <1>1 DEF Launch, StartHostProcess, Inv, TypeOK
    <2>3. LauncherKnows' /\ host_running' \in BOOLEAN
      BY <2>1 DEF LauncherKnows
    <2> QED
      BY <2>1, <2>2, <2>3, NewMemory
  <1>2. CASE Terminate
    <2>1. CASE Alive /\ StopHostProcess(TRUE) /\ main' = "terminated" /\ MemoryLost
      BY <2>1, NewMemory DEF StopHostProcess, HostRunningAfter, Inv, TypeOK, LauncherKnows, Alive,
                             Ended
    <2>2. CASE /\ StopHostProcess(FALSE)
               /\ UNCHANGED <<main, rendererVars, decoderVars, statsVars, processVars>>
      <3>1. host_running' = host_running /\ launches' = launches
        BY <2>2 DEF StopHostProcess, HostRunningAfter, Inv, TypeOK
      <3> QED
        BY <2>2, <3>1, InvStutter DEF vars, launcherVars
    <2> QED
      BY <1>2, <2>1, <2>2 DEF Terminate
  <1>3. CASE Crash
    BY <1>3, NewMemory DEF Crash, launcherVars, Inv, TypeOK, LauncherKnows, Alive, Ended
  <1>4. CASE Exit
    BY <1>4, NewMemory DEF Exit, launcherVars, Inv, TypeOK, LauncherKnows, Alive, Ended
  <1> QED
    BY <1>1, <1>2, <1>3, <1>4
-----------------------------------------------------------------------------
(* The main thread in the renderer. *)

\* A step of the renderer alone: what the other parts of the invariant need.
LEMMA RendererKeeps ==
    ASSUME Inv, UNCHANGED <<decoderVars, statsVars, launcherVars, processVars>>,
           Alive, RendererInv', FenceInv',
           main' \in Places \ Ended, after' \in {"none", "loop", "close"},
           made' \subseteq {"device", "swapchain"}, presents' \in 0 .. MaxWork,
           frame_index' \in Frames, fence_value' \in Nat, completed' \in Nat, armed' \in Nat,
           event' \in BOOLEAN, queue' \in Seq([kind : {"list", "signal"}, of : Nat]),
           ThreadInv'
    PROVE  Inv'
  <1>1. TypeOK'
    <2>1. UNCHANGED <<initialized, typed, decoder, current, frame, source, together, now, stamp,
                      frame_times, recorded, host_running, launches, g_running, quit, running, pc,
                      packet, packets>>
      BY DEF decoderVars, statsVars, launcherVars, processVars
    <2>2. TypeOK
      BY DEF Inv
    <2>3. main' \in Places
      OBVIOUS
    <2> QED
      BY <2>1, <2>2, <2>3 DEF TypeOK, Places, SetUp
  <1>2. DecoderInv' /\ LauncherKnows'
    BY DEF decoderVars, launcherVars, processVars, Inv, DecoderInv, FrameOfItsDecoder, Decoding,
           LauncherKnows, Alive
  <1> QED
    BY <1>1, <1>2 DEF Inv

LEMMA InvSetUp ==
    ASSUME Inv, InitializeRenderer, UNCHANGED <<decoderVars, statsVars, launcherVars, processVars>>
    PROVE  Inv'
  <1> USE DEF Inv, TypeOK
  <1>1. /\ main \in SetUp \ {"receiver"}
        /\ main' \in {"device", "swapchain", "resources", "shaders", "receiver", "unwind"}
        /\ made' \subseteq {"device", "swapchain"}
        /\ main' \notin {"device", "unwind"} => "device" \in made'
        /\ main' \in {"shaders", "receiver"} => "swapchain" \in made'
        /\ UNCHANGED <<after, presents, frame_index, fence_value, queue, completed, armed, event>>
    <2>1. CASE CreateMainWindow
      BY <2>1 DEF CreateMainWindow, rendererVars, SetUp, RendererInv
    <2>2. CASE CreateDevice
      BY <2>2 DEF CreateDevice, SetUp
    <2>3. CASE CreateSwapchain
      BY <2>3 DEF CreateSwapchain, SetUp, RendererInv, Ended
    <2>4. CASE CreateRenderResources
      BY <2>4 DEF CreateRenderResources, rendererVars, SetUp, RendererInv, Ended
    <2>5. CASE CreateShaders
      BY <2>5 DEF CreateShaders, rendererVars, SetUp, RendererInv, Ended
    <2> QED
      BY <2>1, <2>2, <2>3, <2>4, <2>5 DEF InitializeRenderer
  <1>2. ~Waiting /\ main /= "close" /\ ~Waiting' /\ main' \notin {"frame", "record", "close"} /\ Alive
    BY <1>1 DEF Waiting, SetUp, Alive, Ended
  <1>3. RendererInv'
    BY <1>1, <1>2 DEF RendererInv, Ended
  <1>4. FenceInv'
    BY <1>1, <1>2 DEF FenceInv, Done, Waiting
  <1>5. ThreadInv'
    BY <1>1 DEF processVars, ThreadInv
  <1>6. main' \in Places \ Ended
    BY <1>1 DEF Places, SetUp, Ended
  <1> QED
    BY <1>1, <1>2, <1>3, <1>4, <1>5, <1>6, RendererKeeps

\* From one frame, or from the destructor, to the wait.
LEMMA InvFrame ==
    ASSUME Inv, BeginFrame \/ ExecuteAndPresent \/ Shutdown,
           UNCHANGED <<decoderVars, statsVars, launcherVars, processVars>>
    PROVE  Inv'
  <1> USE DEF Inv, TypeOK
  <1>1. CASE BeginFrame
    <2>1. frame_index' \in Frames
      <3>1. presents \in Nat
        OBVIOUS
      <3> QED
        BY <1>1, <3>1, RemainderInRange DEF BeginFrame, CurrentBackBuffer, Frames
    <2>2. main = "frame" /\ main' = "record"
          /\ UNCHANGED <<after, made, presents, fence_value, queue, completed, armed, event>>
      BY <1>1 DEF BeginFrame
    <2>3. RendererInv' /\ ThreadInv'
      BY <2>2 DEF RendererInv, ThreadInv, Waiting, Ended, SetUp, processVars
    <2>4. FenceInv'
      BY <2>2 DEF FenceInv, Done, Waiting
    <2> QED
      BY <2>1, <2>2, <2>3, <2>4, RendererKeeps DEF Places, Ended, Alive
  <1>2. CASE ExecuteAndPresent
    <2>1. main = "record" /\ main' = "signal" /\ after' = "loop" /\ presents' = presents + 1
          /\ queue' = Append(queue, List(frame_index))
          /\ UNCHANGED <<made, frame_index, fence_value, completed, armed, event>>
      BY <1>2 DEF ExecuteAndPresent
    <2>2. queue = <<>> /\ completed = fence_value /\ armed = 0 /\ ~event
      BY <2>1 DEF FenceInv, Done, Waiting
    <2>3. queue' = <<List(frame_index)>>
      BY <2>1, <2>2
    <2>4. List(frame_index) \in [kind : {"list", "signal"}, of : Nat]
      BY DEF List, Frames
    <2>5. queue' \in Seq([kind : {"list", "signal"}, of : Nat])
      BY <2>3, <2>4
    <2>6. presents' \in 0 .. MaxWork
      BY <2>1 DEF RendererInv
    <2>7. RendererInv' /\ ThreadInv'
      BY <2>1 DEF RendererInv, ThreadInv, Waiting, Ended, SetUp, processVars
    <2>8. FenceInv'
      BY <2>1, <2>2, <2>3 DEF FenceInv, Waiting, List
    <2> QED
      BY <2>1, <2>5, <2>6, <2>7, <2>8, RendererKeeps DEF Places, Ended, Alive
  <1>3. CASE Shutdown
    <2>1. main = "unwind" /\ main' = "signal" /\ after' = "close" /\ "device" \in made
          /\ UNCHANGED <<made, presents, frame_index, fence_value, queue, completed, armed, event>>
      BY <1>3 DEF Shutdown
    <2>2. RendererInv' /\ ThreadInv'
      BY <2>1 DEF RendererInv, ThreadInv, Waiting, Ended, SetUp, processVars
    <2>3. FenceInv'
      BY <2>1 DEF FenceInv, Done, Waiting
    <2> QED
      BY <2>1, <2>2, <2>3, RendererKeeps DEF Places, Ended, Alive
  <1> QED
    BY <1>1, <1>2, <1>3

\* The steps of wait_for_gpu.
LEMMA InvWait ==
    ASSUME Inv, WaitForGpu, UNCHANGED <<decoderVars, statsVars, launcherVars, processVars>>
    PROVE  Inv'
  <1> USE DEF Inv, TypeOK
  <1>1. CASE SignalFence
    <2>1. main = "signal" /\ main' = "check" /\ fence_value' = fence_value + 1
          /\ queue' = Append(queue, Signal(fence_value'))
          /\ UNCHANGED <<after, made, presents, frame_index, completed, armed, event>>
      BY <1>1 DEF SignalFence, SignalValue
    <2>2. completed = fence_value /\ armed = 0 /\ ~event
          /\ queue \in {<<>>, <<List(frame_index)>>}
      BY <2>1 DEF FenceInv
    <2>3. queue' \in Pending'
      <3>1. Append(<<>>, Signal(fence_value')) = <<Signal(fence_value')>>
        OBVIOUS
      <3>2. Append(<<List(frame_index)>>, Signal(fence_value'))
              = <<List(frame_index), Signal(fence_value')>>
        BY AppendPair DEF List, Signal
      <3>3. List(frame_index)' = List(frame_index)
        BY <2>1 DEF List
      <3> QED
        BY <2>1, <2>2, <3>1, <3>2, <3>3 DEF Pending
    <2>4. queue' \in Seq([kind : {"list", "signal"}, of : Nat])
      <3>1. Signal(fence_value') \in [kind : {"list", "signal"}, of : Nat]
        BY <2>1 DEF Signal
      <3> QED
        BY <2>1, <3>1
    <2>5. FenceInv'
      <3>1. completed' = fence_value' - 1 /\ fence_value' > 0
        <4>1. completed' = fence_value /\ fence_value' = fence_value + 1 /\ fence_value \in Nat
          BY <2>1, <2>2
        <4> HIDE DEF Inv, TypeOK
        <4> QED
          BY <4>1
      <3>2. Unfinished'
        BY <2>3, <3>1 DEF Unfinished
      <3>3. armed' = 0 /\ ~event' /\ main' = "check"
        BY <2>1, <2>2
      <3> QED
        BY <3>2, <3>3 DEF FenceInv, Waiting
    <2>6. RendererInv' /\ ThreadInv'
      BY <2>1 DEF RendererInv, ThreadInv, Waiting, Ended, SetUp, processVars
    <2>7. main' \in Places \ Ended /\ Alive /\ fence_value' \in Nat
      BY <2>1 DEF Places, Ended, Alive
    <2>8. /\ after' \in {"none", "loop", "close"} /\ made' \subseteq {"device", "swapchain"}
          /\ presents' \in 0 .. MaxWork /\ frame_index' \in Frames
          /\ completed' \in Nat /\ armed' \in Nat /\ event' \in BOOLEAN
      BY <2>1
    <2> QED
      BY <2>4, <2>5, <2>6, <2>7, <2>8, RendererKeeps
  <1>2. CASE GetCompletedValue
    <2>1. /\ main = "check" /\ UNCHANGED rendererVars
          /\ \/ completed >= fence_value /\ main' = after
             \/ ~(completed >= fence_value) /\ main' = "arm"
      BY <1>2 DEF GetCompletedValue, Reached
    <2>2. UNCHANGED <<after, made, presents, frame_index, fence_value, queue, completed, armed, event>>
      BY <2>1 DEF rendererVars
    <2>3. armed = 0 /\ ~event /\ (Done \/ Unfinished) /\ after \in {"loop", "close"}
      BY <2>1 DEF FenceInv, RendererInv, Waiting
    <2>4. CASE completed >= fence_value /\ main' = after
      <3>1. Done
        BY <2>3, <2>4 DEF Unfinished
      <3>2. FenceInv'
        BY <2>2, <2>3, <2>4, <3>1 DEF FenceInv, Done, Waiting
      <3>3. RendererInv' /\ ThreadInv'
        BY <2>1, <2>2, <2>3, <2>4 DEF RendererInv, ThreadInv, Waiting, Ended, SetUp, processVars
      <3> QED
        BY <2>1, <2>2, <2>3, <2>4, <3>2, <3>3, RendererKeeps DEF Places, Ended, Alive
    <2>5. CASE ~(completed >= fence_value) /\ main' = "arm"
      <3>1. FenceInv'
        BY <2>2, <2>3, <2>5 DEF FenceInv, Done, Unfinished, Pending, List, Signal, Waiting
      <3>2. RendererInv' /\ ThreadInv'
        BY <2>1, <2>2, <2>3, <2>5 DEF RendererInv, ThreadInv, Waiting, Ended, SetUp, processVars
      <3> QED
        BY <2>1, <2>2, <2>5, <3>1, <3>2, RendererKeeps DEF Places, Ended, Alive
    <2> QED
      BY <2>1, <2>4, <2>5
  <1>3. CASE SetEventOnCompletion
    <2>1. main = "arm" /\ main' = "wait"
          /\ UNCHANGED <<after, made, presents, frame_index, fence_value, queue, completed>>
      BY <1>3 DEF SetEventOnCompletion
    <2>2. armed = 0 /\ ~event /\ (Done \/ Unfinished)
      BY <2>1 DEF FenceInv
    <2>3. RendererInv' /\ ThreadInv'
      BY <2>1 DEF RendererInv, ThreadInv, Waiting, Ended, SetUp, processVars
    <2>4. CASE completed >= fence_value /\ event' = TRUE /\ armed' = armed
      <3>1. Done
        BY <2>2, <2>4 DEF Unfinished
      <3>2. FenceInv'
        BY <2>1, <2>2, <2>4, <3>1 DEF FenceInv, Done, Waiting
      <3> QED
        BY <2>1, <2>3, <2>4, <3>2, RendererKeeps DEF Places, Ended, Alive
    <2>5. CASE ~(completed >= fence_value) /\ armed' = fence_value /\ event' = event
      <3>1. Unfinished
        BY <2>2, <2>5 DEF Done
      <3>2. FenceInv'
        BY <2>1, <2>2, <2>5, <3>1 DEF FenceInv, Unfinished, Pending, List, Signal, Waiting
      <3> QED
        BY <2>1, <2>3, <2>5, <3>2, RendererKeeps DEF Places, Ended, Alive
    <2> QED
      BY <1>3, <2>4, <2>5 DEF SetEventOnCompletion
  <1>4. CASE WaitForEvent
    <2>1. main = "wait" /\ event /\ event' = FALSE /\ main' = after
          /\ UNCHANGED <<after, made, presents, frame_index, fence_value, queue, completed, armed>>
      BY <1>4 DEF WaitForEvent
    <2>2. Done /\ armed = 0 /\ after \in {"loop", "close"}
      BY <2>1 DEF FenceInv, RendererInv, Waiting
    <2>3. FenceInv'
      BY <2>1, <2>2 DEF FenceInv, Done, Waiting
    <2>4. RendererInv' /\ ThreadInv'
      BY <2>1, <2>2 DEF RendererInv, ThreadInv, Waiting, Ended, SetUp, processVars
    <2> QED
      BY <2>1, <2>2, <2>3, <2>4, RendererKeeps DEF Places, Ended, Alive
  <1> QED
    BY <1>1, <1>2, <1>3, <1>4 DEF WaitForGpu

LEMMA InvGpu == Inv /\ GpuStep => Inv'
  <1> SUFFICES ASSUME Inv, GpuStep PROVE Inv'
    OBVIOUS
  <1> USE DEF Inv, TypeOK
  <1>1. /\ queue /= <<>> /\ queue' = Tail(queue) /\ main' = main
        /\ UNCHANGED <<after, made, presents, frame_index, fence_value>>
        /\ UNCHANGED <<decoderVars, statsVars, launcherVars, processVars>>
    BY DEF GpuStep, Gpu, ExecuteList, ExecuteSignal, OthersUnchanged
  <1>2. Waiting /\ Alive
    BY <1>1 DEF FenceInv, Done, Waiting, Alive, Ended
  <1>3. queue' \in Seq([kind : {"list", "signal"}, of : Nat])
    BY <1>1, EmptySeq
  <1>4. RendererInv' /\ ThreadInv'
    BY <1>1 DEF RendererInv, ThreadInv, Waiting, processVars
  <1>5. main \in Places \ Ended
    BY <1>2 DEF Waiting, Places, Ended
  <1>6. CASE queue = <<List(frame_index)>> /\ main = "signal"
    <2>1. Head(queue).kind = "list" /\ queue' = <<>>
      BY <1>1, <1>6 DEF List
    <2>2. UNCHANGED <<completed, armed, event>>
      BY <2>1 DEF GpuStep, Gpu, ExecuteList, ExecuteSignal
    <2>3. FenceInv'
      BY <1>1, <1>2, <1>6, <2>1, <2>2 DEF FenceInv, Waiting
    <2> QED
      BY <1>1, <1>2, <1>3, <1>4, <1>5, <2>2, <2>3, RendererKeeps
  <1>7. CASE Unfinished /\ queue = <<List(frame_index), Signal(fence_value)>> /\ main /= "signal"
    <2>1. Head(queue).kind = "list" /\ queue' = <<Signal(fence_value)>>
      BY <1>1, <1>7 DEF List
    <2>2. UNCHANGED <<completed, armed, event>>
      BY <2>1 DEF GpuStep, Gpu, ExecuteList, ExecuteSignal
    <2>3. Unfinished'
      BY <1>1, <1>7, <2>1, <2>2 DEF Unfinished, Pending, Signal
    <2>4. ~Done
      BY <1>1 DEF Done
    <2>5. FenceInv'
      BY <1>1, <1>2, <1>7, <2>2, <2>3, <2>4 DEF FenceInv, Waiting
    <2> QED
      BY <1>1, <1>2, <1>3, <1>4, <1>5, <2>2, <2>5, RendererKeeps
  <1>8. CASE Unfinished /\ queue = <<Signal(fence_value)>> /\ main /= "signal"
    <2>1. Head(queue).kind = "signal" /\ Head(queue).of = fence_value /\ queue' = <<>>
      BY <1>1, <1>8 DEF Signal
    <2>2. ExecuteSignal
      BY <2>1 DEF GpuStep, Gpu, ExecuteList
    <2>3. completed' = fence_value
      BY <2>1, <2>2 DEF ExecuteSignal
    <2>4. Done'
      BY <1>1, <2>1, <2>3 DEF Done
    <2>5. ~Done
      BY <1>1 DEF Done
    <2>6. IF main = "wait" THEN event' = TRUE /\ armed' = 0
                           ELSE armed = 0 /\ ~event /\ UNCHANGED <<event, armed>>
      BY <1>2, <1>8, <2>2, <2>3, <2>5 DEF FenceInv, Unfinished, ExecuteSignal
    <2>7. FenceInv'
      BY <1>1, <1>2, <1>8, <2>4, <2>6 DEF FenceInv, Waiting
    <2>8. event' \in BOOLEAN /\ armed' \in Nat /\ completed' \in Nat
      <3>1. CASE main = "wait"
        BY <2>3, <2>6, <3>1
      <3>2. CASE main /= "wait"
        BY <2>3, <2>6, <3>2
      <3> QED
        BY <3>1, <3>2
    <2> QED
      BY <1>1, <1>2, <1>3, <1>4, <1>5, <2>7, <2>8, RendererKeeps
  <1> QED
    BY <1>1, <1>2, <1>6, <1>7, <1>8 DEF FenceInv, Waiting, Done, Unfinished, Pending
-----------------------------------------------------------------------------
(* The rest of the main thread, and its callers. *)

LEMMA InvMain ==
    Inv /\ (StartReceiver \/ DrainMessages \/ StopReceiver \/ JoinThreads \/ SignalHandler) => Inv'
  <1> SUFFICES ASSUME Inv,
                      StartReceiver \/ DrainMessages \/ StopReceiver \/ JoinThreads \/ SignalHandler
               PROVE  Inv'
    OBVIOUS
  <1> USE DEF Inv, TypeOK, rendererVars, statsVars, launcherVars, processVars
  <1>1. CASE StartReceiver
    <2>1. /\ main = "receiver" /\ main' \in {"loop", "unwind"} /\ running' = TRUE
          /\ pc' = pc \/ (main' = "loop" /\ pc' = [t \in Threads |-> "check"])
          /\ initialized' \in {initialized, TRUE}
          /\ UNCHANGED <<rendererVars, decoder, typed, current, frame, source, together, g_running,
                         quit, packet, packets, statsVars, launcherVars>>
      BY <1>1 DEF StartReceiver, InitializeDecoder, decoderVars
    <2>2. \A t \in Threads : pc[t] \in {"none", "done"}
      BY <2>1 DEF ThreadInv, SetUp
    <2>3. after /= "close"
      BY <2>1 DEF RendererInv, Waiting
    <2>4. pc' \in [Threads -> Steps]
      BY <2>1 DEF Steps
    <2>5. TypeOK'
      BY <2>1, <2>4
    <2>6. RendererInv'
      BY <2>1 DEF RendererInv, Waiting, Ended
    <2>7. FenceInv'
      BY <2>1 DEF FenceInv, Done, Waiting
    <2>8. ThreadInv'
      BY <2>1, <2>2, <2>3 DEF ThreadInv, Threads, Ended, SetUp
    <2>9. DecoderInv'
      <3>1. \A t \in Threads : pc'[t] \in {"none", "check", "done"}
        BY <2>1, <2>2
      <3> QED
        BY <2>1, <3>1 DEF DecoderInv, FrameOfItsDecoder, Decoding
    <2>10. LauncherKnows'
      BY <2>1 DEF LauncherKnows, Alive, Ended
    <2> QED
      BY <2>5, <2>6, <2>7, <2>8, <2>9, <2>10
  <1>2. CASE DrainMessages
    <2>1. /\ main = "loop" /\ main' = "frame" /\ presents < MaxWork /\ quit' \in BOOLEAN
          /\ UNCHANGED <<rendererVars, decoderVars, statsVars, launcherVars, g_running, running, pc,
                         packet, packets>>
      BY <1>2 DEF DrainMessages, OthersUnchanged, Room
    <2> QED
      BY <2>1 DEF decoderVars, RendererInv, FenceInv, Done, ThreadInv, DecoderInv, FrameOfItsDecoder,
            Decoding, LauncherKnows, Alive, Ended, SetUp, Waiting
  <1>3. CASE StopReceiver
    <2>1. /\ main = "loop" /\ main' = "join" /\ running' = FALSE
          /\ UNCHANGED <<rendererVars, decoderVars, statsVars, launcherVars, g_running, quit, pc, packet,
                         packets>>
      BY <1>3 DEF StopReceiver, OthersUnchanged
    <2> QED
      BY <2>1 DEF decoderVars, RendererInv, FenceInv, Done, ThreadInv, DecoderInv, FrameOfItsDecoder,
            Decoding, LauncherKnows, Alive, Ended, SetUp, Waiting
  <1>4. CASE JoinThreads
    <2>1. /\ main = "join" /\ main' = "unwind" /\ \A t \in Threads : pc[t] = "done"
          /\ UNCHANGED <<rendererVars, decoderVars, statsVars, launcherVars, processVars>>
      BY <1>4 DEF JoinThreads, Joined, OthersUnchanged
    <2> QED
      BY <2>1 DEF decoderVars, RendererInv, FenceInv, Done, ThreadInv, DecoderInv, FrameOfItsDecoder,
            Decoding, LauncherKnows, Alive, Ended, SetUp, Waiting
  <1>5. CASE SignalHandler
    <2>1. /\ main' = main /\ g_running' = FALSE
          /\ UNCHANGED <<rendererVars, decoderVars, statsVars, launcherVars, quit, running, pc, packet,
                         packets>>
      BY <1>5 DEF SignalHandler, OthersUnchanged
    <2>2. TypeOK'
      <3>1. /\ g_running' \in BOOLEAN
            /\ UNCHANGED <<main, after, made, presents, frame_index, fence_value, completed, armed,
                           event, queue, initialized, typed, decoder, current, frame, source,
                           together, packet, packets, now, stamp, frame_times, recorded,
                           host_running, launches, quit, running, pc>>
        BY <2>1 DEF decoderVars
      <3> QED
        BY <3>1 DEF TypeOK
    <2>3. RendererInv' /\ ThreadInv' /\ LauncherKnows'
      BY <2>1 DEF RendererInv, ThreadInv, LauncherKnows, Alive, Waiting
    <2>4. FenceInv'
      BY <2>1 DEF FenceInv, Done, Unfinished, Pending, Waiting
    <2>5. DecoderInv'
      BY <2>1 DEF decoderVars, DecoderInv, FrameOfItsDecoder, Decoding
    <2> QED
      BY <2>2, <2>3, <2>4, <2>5
  <1> QED
    BY <1>1, <1>2, <1>3, <1>4, <1>5

-----------------------------------------------------------------------------
(* The receiving threads. *)

\* A step of a thread, where the main thread may be while there is one.
LEMMA ThreadKeeps ==
    ASSUME Inv, NEW t \in Threads, pc[t] \notin {"none", "done"},
           NEW place \in Steps, Go(t, place), ThreadOnly,
           initialized' \in BOOLEAN, typed' \in BOOLEAN, together' \in BOOLEAN,
           {decoder', current'} \subseteq Formats \cup {NoFormat},
           {frame', source', packet'} \subseteq [Threads -> Formats \cup {NoFormat}],
           now' \in 0 .. MaxTime, stamp' \in [Threads -> 0 .. MaxTime],
           frame_times' \in Seq(0 .. MaxTime), recorded' \in Seq(0 .. MaxTime),
           packets' \in 0 .. MaxWork,
           DecoderInv'
    PROVE  Inv'
  <1> USE DEF Inv, ThreadOnly, rendererVars, launcherVars
  <1>1. TypeOK'
    <2>1. pc' \in [Threads -> Steps]
      BY DEF Go, TypeOK
    <2> QED
      BY <2>1 DEF TypeOK
  <1>2. RendererInv' /\ FenceInv' /\ LauncherKnows'
    BY DEF RendererInv, FenceInv, LauncherKnows, Alive, Waiting, Done, Unfinished, Pending
  <1>3. ThreadInv'
    BY DEF ThreadInv
  <1> QED
    BY <1>1, <1>2, <1>3

\* A step that leaves the decoder alone and takes its thread no further into decode.
LEMMA DecoderKeeps ==
    ASSUME Inv, NEW t \in Threads, NEW place \in Steps \ {"create", "input"}, Go(t, place),
           UNCHANGED <<decoder, current, together>>,
           \A u \in Threads : frame'[u] /= NoFormat =>
               frame'[u] = frame[u] /\ source'[u] = source[u],
           \A u \in Threads \ {t} : packet'[u] = packet[u],
           place = "decode" => packet'[t] \in Formats
    PROVE  DecoderInv'
  <1>1. pc'[t] = place /\ \A u \in Threads \ {t} : pc'[u] = pc[u]
    BY DEF Go, Inv, TypeOK
  <1>2. \A u \in Threads : Decoding(u)' => Decoding(u) /\ u /= t
    BY <1>1 DEF Decoding
  <1>3. \A u \in Threads : pc'[u] \in {"decode", "create", "input"} => packet'[u] \in Formats
    BY <1>1 DEF Inv, DecoderInv
  <1>4. ASSUME ~together
        PROVE  /\ \A u, v \in Threads : Decoding(u)' /\ Decoding(v)' => u = v
               /\ decoder' /= NoFormat => decoder'.size = current'.size
               /\ \A u \in Threads : pc'[u] = "input" =>
                    decoder' /= NoFormat /\ decoder'.size = packet'[u].size
    <2>1. \A u, v \in Threads : Decoding(u)' /\ Decoding(v)' => u = v
      BY <1>2, <1>4 DEF Inv, DecoderInv
    <2>2. decoder' /= NoFormat => decoder'.size = current'.size
      BY <1>4 DEF Inv, DecoderInv
    <2>3. ASSUME NEW u \in Threads, pc'[u] = "input"
          PROVE  decoder' /= NoFormat /\ decoder'.size = packet'[u].size
      <3>1. u /= t /\ pc[u] = "input" /\ packet'[u] = packet[u]
        BY <1>1, <2>3
      <3> QED
        BY <1>4, <3>1 DEF Inv, DecoderInv
    <2> QED
      BY <2>1, <2>2, <2>3
  <1>5. FrameOfItsDecoder'
    BY DEF Inv, DecoderInv, FrameOfItsDecoder
  <1> QED
    BY <1>3, <1>4, <1>5 DEF DecoderInv

LEMMA InvReceive ==
    ASSUME Inv, NEW t \in Threads, Check(t) \/ Receive(t) \/ OnTrackingFrame(t)
    PROVE  Inv'
  <1>1. PICK place \in {"check", "recv", "pose", "decode", "done"} :
          /\ pc[t] \in {"check", "recv", "pose"} /\ Go(t, place) /\ ThreadOnly
          /\ \/ UNCHANGED <<packet, packets>> /\ place /= "decode"
             \/ /\ Room /\ packets' = packets + 1
                /\ \E p \in Formats : packet' = [packet EXCEPT ![t] = p]
          /\ UNCHANGED <<decoderVars, statsVars>>
    <2>1. CASE Check(t)
      <3>1. Go(t, "recv") \/ Go(t, "done")
        BY <2>1 DEF Check
      <3> QED
        BY <2>1, <3>1 DEF Check
    <2>2. CASE Receive(t)
      BY <2>2 DEF Receive
    <2>3. CASE OnTrackingFrame(t)
      BY <2>3 DEF OnTrackingFrame
    <2> QED
      BY <2>1, <2>2, <2>3
  <1>2. /\ UNCHANGED <<initialized, decoder, typed, current, frame, source, together>>
        /\ UNCHANGED <<now, stamp, frame_times, recorded>>
    BY <1>1 DEF decoderVars, statsVars
  <1>3. place \in Steps \ {"create", "input"}
    BY <1>1 DEF Steps
  <1>4. /\ packet' \in [Threads -> Formats \cup {NoFormat}]
        /\ \A u \in Threads \ {t} : packet'[u] = packet[u]
        /\ place = "decode" => packet'[t] \in Formats
    BY <1>1 DEF Inv, TypeOK
  <1>5. packets' \in 0 .. MaxWork
    <2>1. packets \in 0 .. MaxWork /\ presents \in Nat /\ launches \in Nat
      BY DEF Inv, TypeOK
    <2> QED
      BY <1>1, <2>1 DEF Room
  <1>6. DecoderInv'
    BY <1>1, <1>2, <1>3, <1>4, DecoderKeeps
  <1> QED
    BY <1>1, <1>2, <1>3, <1>4, <1>5, <1>6, ThreadKeeps DEF Inv, TypeOK

\* decode: it compares, makes a decoder when it must, and uses it.
LEMMA InvDecode ==
    ASSUME Inv, NEW t \in Threads,
           DecodeBegins(t) \/ DecodeCreates(t) \/ DecodeEnds(t) \/ DecodeCrashes(t)
    PROVE  Inv'
  <1> DEFINE p == packet[t]
  <1>1. CASE DecodeCrashes(t)
    BY <1>1, NewMemory DEF DecodeCrashes, launcherVars, Inv, TypeOK, LauncherKnows, Alive, Ended
  <1>2. ASSUME DecodeBegins(t) \/ DecodeCreates(t) \/ DecodeEnds(t)
        PROVE  /\ pc[t] \in {"decode", "create", "input"} /\ p \in Formats /\ ThreadOnly
               /\ UNCHANGED <<now, stamp, frame_times, recorded, packets>>
               /\ \/ packet' = packet
                  \/ packet' = [packet EXCEPT ![t] = NoFormat]
               /\ packet' \in [Threads -> Formats \cup {NoFormat}]
               /\ \A u \in Threads \ {t} : packet'[u] = packet[u]
    <2>1. /\ pc[t] \in {"decode", "create", "input"} /\ ThreadOnly
          /\ UNCHANGED <<now, stamp, frame_times, recorded, packets>>
          /\ \/ packet' = packet
             \/ packet' = [packet EXCEPT ![t] = NoFormat]
      BY <1>2 DEF DecodeBegins, DecodeCreates, DecodeEnds, Drop, statsVars
    <2>2. p \in Formats
      BY <2>1 DEF Inv, DecoderInv
    <2> QED
      BY <2>1, <2>2 DEF Inv, TypeOK
  \* It gives nothing.
  <1>3. ASSUME DecodeBegins(t) \/ DecodeEnds(t), Go(t, "check"), UNCHANGED decoderVars
        PROVE  Inv'
    <2>1. "check" \in Steps \ {"create", "input"}
      BY DEF Steps
    <2>2. UNCHANGED <<initialized, decoder, typed, current, frame, source, together>>
      BY <1>3 DEF decoderVars
    <2>3. DecoderInv'
      BY <1>2, <1>3, <2>1, <2>2, DecoderKeeps
    <2> QED
      BY <1>2, <1>3, <2>1, <2>2, <2>3, ThreadKeeps DEF Inv, TypeOK
  \* It goes on: with no other call in decode, none is in it but this one.
  <1>4. ASSUME NEW fits \in BOOLEAN, pc[t] = "decode",
               CompareFormat(p, \E u \in Threads \ {t} : Decoding(u), fits),
               Go(t, IF fits THEN "input" ELSE "create"), UNCHANGED packet, ThreadOnly,
               UNCHANGED <<now, stamp, frame_times, recorded, packets>>
        PROVE  Inv'
    <2>1. PICK place \in {"input", "create"} :
            place = (IF fits THEN "input" ELSE "create") /\ Go(t, place)
      BY <1>4
    <2>2. pc'[t] = place /\ (\A u \in Threads \ {t} : pc'[u] = pc[u]) /\ place \in Steps
      BY <2>1 DEF Go, Inv, TypeOK, Steps
    <2>3. /\ UNCHANGED <<initialized, decoder, typed, current, frame, source>>
          /\ together' = (together \/ \E u \in Threads \ {t} : Decoding(u))
          /\ together' \/ fits = Fits(p)
      BY <1>4 DEF CompareFormat
    <2>4. together' \in BOOLEAN
      BY <2>3
    <2>5. \A u \in Threads : pc'[u] \in {"decode", "create", "input"} => packet'[u] \in Formats
      BY <1>4, <2>2 DEF Inv, DecoderInv
    <2>6. ASSUME ~together'
          PROVE  /\ \A u, v \in Threads : Decoding(u)' /\ Decoding(v)' => u = v
                 /\ decoder' /= NoFormat => decoder'.size = current'.size
                 /\ \A u \in Threads : pc'[u] = "input" =>
                      decoder' /= NoFormat /\ decoder'.size = packet'[u].size
      <3>1. ~together /\ \A u \in Threads \ {t} : ~Decoding(u)
        BY <2>3, <2>6
      <3>2. \A u \in Threads \ {t} : ~(pc'[u] \in {"create", "input"})
        BY <2>2, <3>1 DEF Decoding
      <3>3. decoder /= NoFormat => decoder.size = current.size
        BY <3>1 DEF Inv, DecoderInv
      <3>4. ASSUME NEW u \in Threads, pc'[u] = "input"
            PROVE  decoder /= NoFormat /\ decoder.size = packet[u].size
        <4>1. u = t
          BY <3>2, <3>4
        <4>2. Fits(p)
          BY <2>1, <2>2, <2>3, <2>6, <3>4, <4>1
        <4> QED
          BY <3>3, <4>1, <4>2 DEF Fits
      <3> QED
        BY <1>4, <2>3, <3>2, <3>3, <3>4 DEF Decoding
    <2>7. FrameOfItsDecoder'
      BY <2>3 DEF Inv, DecoderInv, FrameOfItsDecoder
    <2>8. DecoderInv'
      BY <2>5, <2>6, <2>7 DEF DecoderInv
    <2> QED
      BY <1>4, <2>1, <2>2, <2>3, <2>4, <2>8, ThreadKeeps DEF Inv, TypeOK
  <1>5. ASSUME NEW succeeds \in BOOLEAN, pc[t] = "create", DecodeCreates(t),
               CreateDecoder(p, succeeds),
               IF succeeds THEN Go(t, "input") /\ UNCHANGED packet ELSE Go(t, "check") /\ Drop(t)
        PROVE  Inv'
    <2>1. PICK place \in {"input", "check"} : Go(t, place) /\ (place = "input" <=> succeeds)
      BY <1>5
    <2>2. pc'[t] = place /\ (\A u \in Threads \ {t} : pc'[u] = pc[u]) /\ place \in Steps
      BY <2>1 DEF Go, Inv, TypeOK, Steps
    <2>3. /\ UNCHANGED <<initialized, frame, source, together>> /\ typed' \in BOOLEAN
          /\ \/ decoder' = NoFormat /\ ~succeeds /\ UNCHANGED current
             \/ decoder' = p /\ current' = p
      BY <1>5 DEF CreateDecoder
    <2>4. p \in Formats
      BY <1>2, <1>5
    <2>5. \A u \in Threads : pc'[u] \in {"decode", "create", "input"} => packet'[u] \in Formats
      BY <1>2, <1>5, <2>1, <2>2 DEF Inv, DecoderInv
    <2>6. ASSUME ~together'
          PROVE  /\ \A u, v \in Threads : Decoding(u)' /\ Decoding(v)' => u = v
                 /\ decoder' /= NoFormat => decoder'.size = current'.size
                 /\ \A u \in Threads : pc'[u] = "input" =>
                      decoder' /= NoFormat /\ decoder'.size = packet'[u].size
      <3>1. \A u \in Threads \ {t} : ~(pc'[u] \in {"create", "input"})
        BY <1>5, <2>2, <2>3, <2>6 DEF Inv, DecoderInv, Decoding
      <3>2. \A u, v \in Threads : Decoding(u)' /\ Decoding(v)' => u = v
        BY <3>1 DEF Decoding
      <3>3. ASSUME NEW u \in Threads, pc'[u] = "input"
            PROVE  decoder' /= NoFormat /\ decoder'.size = packet'[u].size
        <4>1. u = t
          BY <3>1, <3>3
        <4>2. succeeds /\ packet' = packet /\ decoder' = p
          BY <1>5, <2>1, <2>2, <2>3, <3>3, <4>1
        <4> QED
          BY <2>4, <4>1, <4>2
      <3>4. decoder' /= NoFormat => decoder'.size = current'.size
        BY <2>3
      <3> QED
        BY <3>2, <3>3, <3>4
    <2>7. FrameOfItsDecoder'
      BY <2>3 DEF Inv, DecoderInv, FrameOfItsDecoder
    <2>8. DecoderInv'
      BY <2>5, <2>6, <2>7 DEF DecoderInv
    <2>9. {decoder', current'} \subseteq Formats \cup {NoFormat}
      BY <2>3, <2>4 DEF Inv, TypeOK
    <2> QED
      BY <1>2, <1>5, <2>1, <2>2, <2>3, <2>8, <2>9, ThreadKeeps DEF Inv, TypeOK
  \* It gives a frame, of the decoder's size when no other call came between.
  <1>6. ASSUME pc[t] = "input", DecodeEnds(t), Go(t, "stamp"), GiveFrame(t, p)
        PROVE  Inv'
    <2>1. pc'[t] = "stamp" /\ (\A u \in Threads \ {t} : pc'[u] = pc[u]) /\ "stamp" \in Steps
      BY <1>6 DEF Go, Inv, TypeOK, Steps
    <2>2. /\ UNCHANGED <<initialized, decoder, typed, current, together>> /\ decoder /= NoFormat
          /\ frame' = [frame EXCEPT ![t] = p] /\ source' = [source EXCEPT ![t] = decoder]
      BY <1>6 DEF GiveFrame
    <2>3. p \in Formats
      BY <1>2, <1>6
    <2>4. /\ {frame', source'} \subseteq [Threads -> Formats \cup {NoFormat}]
          /\ frame'[t] = p /\ source'[t] = decoder
          /\ \A u \in Threads \ {t} : frame'[u] = frame[u] /\ source'[u] = source[u]
      BY <2>2, <2>3 DEF Inv, TypeOK
    <2>5. \A u \in Threads : pc'[u] \in {"decode", "create", "input"} => packet'[u] \in Formats
      BY <1>2, <1>6, <2>1 DEF Inv, DecoderInv
    <2>6. ASSUME ~together'
          PROVE  /\ \A u, v \in Threads : Decoding(u)' /\ Decoding(v)' => u = v
                 /\ decoder' /= NoFormat => decoder'.size = current'.size
                 /\ \A u \in Threads : pc'[u] = "input" =>
                      decoder' /= NoFormat /\ decoder'.size = packet'[u].size
      <3>1. \A u \in Threads : ~(pc'[u] \in {"create", "input"})
        BY <1>6, <2>1, <2>2, <2>6 DEF Inv, DecoderInv, Decoding
      <3>2. decoder' /= NoFormat => decoder'.size = current'.size
        BY <2>2, <2>6 DEF Inv, DecoderInv
      <3> QED
        BY <3>1, <3>2 DEF Decoding
    <2>7. FrameOfItsDecoder'
      <3> SUFFICES ASSUME ~together', NEW u \in Threads, frame'[u] /= NoFormat
                   PROVE  source'[u].size = frame'[u].size
        BY DEF FrameOfItsDecoder
      <3>1. CASE u = t
        <4>1. decoder.size = p.size
          BY <1>6, <2>2 DEF Inv, DecoderInv
        <4> QED
          BY <2>4, <3>1, <4>1
      <3>2. CASE u /= t
        BY <2>2, <2>4, <3>2 DEF Inv, DecoderInv, FrameOfItsDecoder
      <3> QED
        BY <3>1, <3>2
    <2>8. DecoderInv'
      BY <2>5, <2>6, <2>7 DEF DecoderInv
    <2>9. /\ initialized' \in BOOLEAN /\ typed' \in BOOLEAN /\ together' \in BOOLEAN
          /\ {decoder', current'} \subseteq Formats \cup {NoFormat}
      BY <2>2 DEF Inv, TypeOK
    <2>10. /\ now' \in 0 .. MaxTime /\ stamp' \in [Threads -> 0 .. MaxTime]
           /\ frame_times' \in Seq(0 .. MaxTime) /\ recorded' \in Seq(0 .. MaxTime)
           /\ packets' \in 0 .. MaxWork
      BY <1>2, <1>6 DEF Inv, TypeOK
    <2> QED
      BY <1>2, <1>6, <2>1, <2>4, <2>8, <2>9, <2>10, ThreadKeeps
  <1>7. CASE DecodeBegins(t)
    <2>1. ThreadOnly /\ UNCHANGED <<now, stamp, frame_times, recorded, packets>>
      BY <1>2, <1>7
    <2> QED
      BY <1>3, <1>4, <1>7, <2>1 DEF DecodeBegins
  <1>8. CASE DecodeCreates(t)
    BY <1>5, <1>8 DEF DecodeCreates
  <1>9. CASE DecodeEnds(t)
    BY <1>3, <1>6, <1>9 DEF DecodeEnds
  <1> QED
    BY <1>1, <1>7, <1>8, <1>9

LEMMA InvRecord ==
    ASSUME Inv, NEW t \in Threads, RecordBegins(t) \/ RecordEnds(t)
    PROVE  Inv'
  <1>1. CASE RecordBegins(t)
    <2>1. /\ pc[t] = "stamp" /\ Go(t, "record") /\ ThreadOnly /\ "record" \in Steps
          /\ stamp' = [stamp EXCEPT ![t] = now] /\ UNCHANGED <<now, frame_times, recorded>>
          /\ UNCHANGED <<initialized, decoder, typed, current, frame, source, together>>
          /\ UNCHANGED <<packet, packets>>
      BY <1>1 DEF RecordBegins, ReadClock, decoderVars, Steps
    <2>2. stamp' \in [Threads -> 0 .. MaxTime]
      BY <2>1 DEF Inv, TypeOK
    <2>3. DecoderInv'
      BY <2>1, DecoderKeeps DEF Steps
    <2> QED
      BY <2>1, <2>2, <2>3, ThreadKeeps DEF Inv, TypeOK
  <1>2. CASE RecordEnds(t)
    <2>1. /\ pc[t] = "record" /\ Go(t, "check") /\ ThreadOnly /\ "check" \in Steps
          /\ frame_times' = Trim(Append(frame_times, stamp[t]))
          /\ recorded' = Append(recorded, stamp[t])
          /\ stamp' = [stamp EXCEPT ![t] = 0] /\ UNCHANGED now
          /\ frame' = [frame EXCEPT ![t] = NoFormat]
          /\ source' = [source EXCEPT ![t] = NoFormat]
          /\ UNCHANGED <<initialized, decoder, typed, current, together>>
          /\ UNCHANGED <<packet, packets>>
      BY <1>2 DEF RecordEnds, RecordFrame, DropFrame, Steps
    <2>2. /\ {frame', source'} \subseteq [Threads -> Formats \cup {NoFormat}]
          /\ \A u \in Threads : frame'[u] /= NoFormat =>
                 frame'[u] = frame[u] /\ source'[u] = source[u]
      BY <2>1 DEF Inv, TypeOK
    <2>3. DecoderInv'
      BY <2>1, <2>2, DecoderKeeps DEF Steps
    <2>4. stamp[t] \in 0 .. MaxTime /\ stamp' \in [Threads -> 0 .. MaxTime]
      BY <2>1 DEF Inv, TypeOK
    <2>5. Append(frame_times, stamp[t]) \in Seq(0 .. MaxTime) /\ recorded' \in Seq(0 .. MaxTime)
      BY <2>1, <2>4, AppendProperties DEF Inv, TypeOK
    <2>6. frame_times' \in Seq(0 .. MaxTime)
      BY <2>1, <2>5, TrimType
    <2> QED
      BY <2>1, <2>2, <2>3, <2>4, <2>5, <2>6, ThreadKeeps DEF Inv, TypeOK
  <1> QED
    BY <1>1, <1>2

LEMMA InvStatistics == Inv /\ Statistics => Inv'
  <1> SUFFICES ASSUME Inv, Statistics PROVE Inv'
    OBVIOUS
  <1> USE DEF Inv, TypeOK
  <1>1. /\ UNCHANGED <<main, rendererVars, decoderVars, launcherVars, processVars>>
        /\ now' \in 0 .. MaxTime /\ stamp' = stamp
    <2>1. CASE Tick
      BY <2>1 DEF Statistics, Tick
    <2>2. CASE Reset
      BY <2>2 DEF Statistics, Reset
    <2> QED
      BY <2>1, <2>2 DEF Statistics
  <1>2. frame_times' \in Seq(0 .. MaxTime) /\ recorded' \in Seq(0 .. MaxTime)
    BY EmptySeq DEF Statistics, Tick, Reset
  <1> USE DEF rendererVars, decoderVars, launcherVars, processVars
  <1>3. TypeOK'
    <2>1. UNCHANGED <<main, after, made, presents, frame_index, fence_value, completed, armed,
                      event, queue, initialized, typed, decoder, current, frame, source, together,
                      packet, packets, host_running, launches, g_running, quit, running, pc>>
      BY <1>1
    <2>2. /\ main \in Ended \cup {"window", "device", "swapchain", "resources", "shaders",
                                  "receiver", "loop", "frame", "record", "signal", "check", "arm",
                                  "wait", "join", "unwind", "close"}
          /\ stamp' \in [Threads -> 0 .. MaxTime]
      BY <1>1
    <2> QED
      BY <1>1, <1>2, <2>1, <2>2
  <1>4. RendererInv' /\ ThreadInv' /\ LauncherKnows'
    BY <1>1 DEF RendererInv, ThreadInv, LauncherKnows, Alive, Waiting
  <1>5. FenceInv'
    BY <1>1 DEF FenceInv, Done, Unfinished, Pending, Waiting
  <1>6. DecoderInv'
    BY <1>1 DEF DecoderInv, FrameOfItsDecoder, Decoding
  <1> QED
    BY <1>3, <1>4, <1>5, <1>6

LEMMA InvStep == Inv /\ [Next]_vars => Inv'
  <1> SUFFICES ASSUME Inv, [Next]_vars PROVE Inv'
    OBVIOUS
  <1>1. CASE Launch \/ Terminate \/ Crash \/ Exit
    BY <1>1, InvProcess
  <1>2. CASE Render
    <2>1. UNCHANGED <<decoderVars, statsVars, launcherVars, processVars>>
      BY <1>2 DEF Render, OthersUnchanged
    <2> QED
      BY <1>2, <2>1, InvSetUp, InvFrame, InvWait DEF Render, RendererStep
  <1>3. CASE StartReceiver \/ DrainMessages \/ StopReceiver \/ JoinThreads \/ SignalHandler
    BY <1>3, InvMain
  <1>4. CASE GpuStep
    BY <1>4, InvGpu
  <1>5. CASE Thread
    BY <1>5, InvReceive, InvDecode, InvRecord DEF Thread
  <1>6. CASE Statistics
    BY <1>6, InvStatistics
  <1>7. CASE UNCHANGED vars
    BY <1>7, InvStutter
  <1> QED
    BY <1>1, <1>2, <1>3, <1>4, <1>5, <1>6, <1>7 DEF Next, WinMain

-----------------------------------------------------------------------------

\* The inductive invariant of the host process, for any launches, frames and
\* formats and wherever the GPU and the threads are.
THEOREM HostInvariance == Spec => []Inv
  BY InvInit, InvStep, PTL DEF Spec

\* The types of the process's objects; frame_index_ stays below NUM_FRAMES.
THEOREM HostTypes == Spec => []TypeOK
  <1>1. Inv => TypeOK
    BY DEF Inv
  <1> QED
    BY <1>1, HostInvariance, PTL

\* render_frame resets an allocator only when the GPU is through with it.
THEOREM AllocatorsReset == Spec => []AllocatorNotInUse
  <1>1. Inv => AllocatorNotInUse
    <2> SUFFICES ASSUME Inv, main = "record" PROVE queue = <<>>
      BY DEF AllocatorNotInUse
    <2> QED
      BY DEF Inv, FenceInv, Done, Waiting
  <1> QED
    BY <1>1, HostInvariance, PTL

\* ~D3D12Renderer releases nothing the GPU still uses.
THEOREM ReleasedIdle == Spec => []ReleasedWhenIdle
  <1>1. Inv => ReleasedWhenIdle
    BY DEF Inv, FenceInv, Done, Waiting, ReleasedWhenIdle
  <1> QED
    BY <1>1, HostInvariance, PTL

\* The callbacks of the receiver run between initialize and the destructors.
THEOREM CallbacksAlive == Spec => []CallbacksOnLiveObjects
  <1>1. Inv => CallbacksOnLiveObjects
    <2> SUFFICES ASSUME Inv, NEW t \in Threads, Calling(t)
                 PROVE  /\ "swapchain" \in made
                        /\ after /= "close"
                        /\ main \in {"loop", "frame", "record", "signal", "check", "arm", "wait",
                                      "join"}
      BY DEF CallbacksOnLiveObjects
    <2>1. after /= "close" /\ main \notin Ended \cup SetUp \cup {"unwind", "close"}
      BY DEF Inv, ThreadInv, Calling
    <2>2. main \in {"loop", "frame", "record", "signal", "check", "arm", "wait", "join"}
      BY <2>1 DEF Inv, TypeOK, SetUp
    <2>3. "swapchain" \in made
      BY <2>1, <2>2 DEF Inv, RendererInv, Waiting
    <2> QED
      BY <2>1, <2>2, <2>3
  <1> QED
    BY <1>1, HostInvariance, PTL

\* decode gives only frames of a decoder that was set up for their size.
THEOREM FramesOfDecoder == Spec => []FrameOfItsDecoder
  <1>1. Inv => FrameOfItsDecoder
    BY DEF Inv, DecoderInv
  <1> QED
    BY <1>1, HostInvariance, PTL

\* ServerManager knows of a host process that runs.
THEOREM LauncherNeverLoses == Spec => []LauncherKnows
  <1>1. Inv => LauncherKnows
    BY DEF Inv
  <1> QED
    BY <1>1, HostInvariance, PTL

-----------------------------------------------------------------------------
(* The window of the statistics. *)

LEMMA InitWindow == Init => WindowIsLastSecond
  <1> SUFFICES ASSUME Init PROVE WindowIsLastSecond
    OBVIOUS
  <1>1. frame_times = <<>> /\ recorded = <<>>
    BY DEF Init, StatsInit, NewStats
  <1> QED
    BY <1>1 DEF WindowIsLastSecond, OutdatedFrom

\* What the steps of the host do to the statistics.
LEMMA StatsSteps ==
    ASSUME [Next]_vars
    PROVE  \/ UNCHANGED <<frame_times, recorded>>
           \/ frame_times' = <<>> /\ recorded' = <<>>
           \/ \E t \in Threads : RecordFrame(t)
  <1>1. CASE Launch \/ Terminate \/ Crash \/ Exit
    BY <1>1 DEF Launch, Terminate, Crash, Exit, MemoryLost, StatsLost, NewStats, statsVars
  <1>2. CASE Render \/ StartReceiver \/ DrainMessages \/ StopReceiver \/ JoinThreads
    BY <1>2 DEF Render, StartReceiver, DrainMessages, StopReceiver, JoinThreads, OthersUnchanged,
                statsVars
  <1>3. CASE SignalHandler \/ GpuStep
    BY <1>3 DEF SignalHandler, GpuStep, OthersUnchanged, statsVars
  <1>4. CASE Thread
    BY <1>4 DEF Thread, Check, Receive, OnTrackingFrame, DecodeBegins, DecodeCreates, DecodeEnds,
                DecodeCrashes, MemoryLost, StatsLost, NewStats, RecordBegins, ReadClock, RecordEnds,
                statsVars
  <1>5. CASE Statistics \/ UNCHANGED vars
    BY <1>5 DEF Statistics, Tick, Reset, vars, statsVars
  <1> QED
    BY <1>1, <1>2, <1>3, <1>4, <1>5 DEF Next, WinMain

\* In the order of the clock, what is in front is outdated by the last time as
\* soon as a later one outdates it, and what is behind a time that is not is not.
LEMMA InOrderExact ==
    ASSUME NEW s \in Seq(0 .. MaxTime), NEW k \in 0 .. Len(s),
           \A i, j \in 1 .. Len(s) : i <= j => s[i] <= s[j],
           \A i \in 1 .. k : \E j \in i + 1 .. Len(s) : Outdates(s[j], s[i]),
           s /= <<>> => k < Len(s) /\ ~Outdates(Last(s), s[k + 1])
    PROVE  \A i \in 1 .. Len(s) : i <= k <=> Last(s) - s[i] > Second
  <1> DEFINE n == Len(s)
  <1>1. n \in Nat /\ k \in Nat /\ k <= n /\ Second \in Nat
    OBVIOUS
  <1>2. Last(s) = s[n]
    BY DEF Last
  <1>3. \A i \in 1 .. n : s[i] \in Nat
    OBVIOUS
  <1>4. \A i, j \in 1 .. n : i <= j => s[i] <= s[j]
    OBVIOUS
  <1>5. \A i \in 1 .. k : \E j \in i + 1 .. n : Outdates(s[j], s[i])
    OBVIOUS
  <1>6. n > 0 => k < n /\ ~Outdates(Last(s), s[k + 1])
    OBVIOUS
  <1> HIDE DEF n
  <1> SUFFICES ASSUME NEW i \in 1 .. n
               PROVE  i <= k <=> s[n] - s[i] > Second
    BY <1>2 DEF n
  <1>7. n \in 1 .. n
    BY <1>1
  <1>8. CASE i <= k
    <2>0. i \in 1 .. k
      BY <1>1, <1>8
    <2>1. PICK j \in i + 1 .. n : Outdates(s[j], s[i])
      BY <1>5, <2>0
    <2>2. i \in Nat /\ j \in 1 .. n /\ i <= j /\ j <= n
      BY <1>1, <2>1
    <2>3. s[i] <= s[j] /\ s[j] <= s[n]
      BY <1>4, <1>7, <2>2
    <2>4. s[i] \in Nat /\ s[j] \in Nat /\ s[n] \in Nat
      BY <1>3, <1>7, <2>2
    <2>5. \A a, b, c \in Nat : Outdates(b, a) /\ a <= b /\ b <= c => c - a > Second
      BY DEF Outdates
    <2>6. s[n] - s[i] > Second
      BY <2>1, <2>3, <2>4, <2>5
    <2> QED
      BY <1>8, <2>6
  <1>9. CASE ~(i <= k)
    <2>1. k + 1 \in 1 .. n /\ k + 1 <= i
      BY <1>1, <1>9
    <2>2. ~Outdates(s[n], s[k + 1])
      BY <1>1, <1>2, <1>6
    <2>3. s[k + 1] <= s[i] /\ s[i] <= s[n]
      BY <1>1, <1>4, <1>7, <2>1
    <2>4. s[i] \in Nat /\ s[k + 1] \in Nat /\ s[n] \in Nat
      BY <1>3, <1>7, <2>1
    <2>5. \A a, b, c \in Nat : ~Outdates(c, a) /\ a <= b /\ b <= c => ~(c - b > Second)
      BY <1>1 DEF Outdates
    <2>6. ~(s[n] - s[i] > Second)
      BY <2>2, <2>3, <2>4, <2>5
    <2> QED
      BY <1>9, <2>6
  <1> QED
    BY <1>8, <1>9

\* record_frame: what was the window, and the new time, less what it outdates.
LEMMA RecordWindow ==
    ASSUME TypeOK, TypeOK', WindowIsLastSecond, NEW t \in Threads, RecordFrame(t)
    PROVE  WindowIsLastSecond'
  <1> DEFINE n == Len(recorded)
             r == recorded'
             x == stamp[t]
             w == Append(frame_times, x)
             e == Erased(w)
  <1>1. /\ recorded \in Seq(0 .. MaxTime) /\ frame_times \in Seq(0 .. MaxTime)
        /\ x \in 0 .. MaxTime /\ n \in Nat
    BY DEF TypeOK
  <1>2. /\ r \in Seq(0 .. MaxTime) /\ Len(r) = n + 1 /\ r[n + 1] = x /\ Last(r) = x
        /\ \A i \in 1 .. n : r[i] = recorded[i]
    <2>1. r = Append(recorded, x)
      BY DEF RecordFrame
    <2> QED
      BY <1>1, <2>1, AppendProperties DEF Last
  <1>3. PICK k \in 0 .. n : frame_times = SubSeq(recorded, k + 1, n) /\ OutdatedFrom(k)
    BY DEF WindowIsLastSecond
  <1>4. Len(frame_times) = n - k /\ \A i \in 1 .. n - k : frame_times[i] = recorded[k + i]
    <2>1. k \in Nat /\ k <= n
      BY <1>1, <1>3
    <2> QED
      BY <1>1, <1>3, <2>1, Suffix
  <1>5. /\ w \in Seq(0 .. MaxTime) /\ Len(w) = Len(frame_times) + 1
        /\ \A i \in 1 .. Len(frame_times) : w[i] = frame_times[i]
        /\ w[Len(frame_times) + 1] = x
    BY <1>1, AppendProperties
  <1>6. /\ e \in 0 .. Len(w)
        /\ \A i \in 1 .. e : TooOld(w, i)
        /\ e < Len(w) => ~TooOld(w, e + 1)
    BY <1>5, ErasedPrefix
  <1>7. frame_times' = SubSeq(w, e + 1, Len(w))
    BY DEF RecordFrame, Trim
  <1>8. /\ \A i \in 1 .. k : \E j \in i + 1 .. n : Outdates(recorded[j], recorded[i])
    BY <1>3 DEF OutdatedFrom
  <1> HIDE DEF n, r, w, e, x
  <1>9. k \in Nat /\ k <= n /\ n \in Nat /\ Len(w) = n - k + 1
        /\ e \in Nat /\ e <= n - k + 1
    BY <1>1, <1>3, <1>4, <1>5, <1>6
  <1>10. \A i \in 1 .. n - k + 1 : w[i] = r[k + i]
    <2> SUFFICES ASSUME NEW i \in 1 .. n - k + 1 PROVE w[i] = r[k + i]
      OBVIOUS
    <2>1. CASE i = n - k + 1
      <3>1. k + i = n + 1
        BY <1>9, <2>1
      <3>2. w[i] = x
        BY <1>4, <1>5, <2>1
      <3> QED
        BY <1>2, <3>1, <3>2
    <2>2. CASE i <= n - k
      <3>1. i \in 1 .. n - k /\ k + i \in 1 .. n
        BY <1>9, <2>2
      <3> QED
        BY <1>2, <1>4, <1>5, <3>1
    <2>3. i = n - k + 1 \/ i <= n - k
      BY <1>9
    <2> QED
      BY <2>1, <2>2, <2>3
  <1>11. Last(w) = x
    BY <1>4, <1>5 DEF Last
  \* The new time does not outdate itself.
  <1>12. e <= n - k
    <2> SUFFICES ASSUME ~(e <= n - k) PROVE FALSE
      OBVIOUS
    <2>1. n - k + 1 \in 1 .. e
      BY <1>9
    <2>2. TooOld(w, n - k + 1) /\ w[n - k + 1] = x
      BY <1>4, <1>5, <1>6, <2>1
    <2> QED
      BY <1>1, <1>11, <2>2 DEF TooOld, Outdates
  <1>13. frame_times' = SubSeq(r, k + e + 1, Len(r))
    <2> DEFINE a == SubSeq(w, e + 1, Len(w))
               b == SubSeq(r, k + e + 1, Len(r))
    <2>1. /\ a \in Seq(0 .. MaxTime) /\ Len(a) = Len(w) - e
          /\ \A i \in 1 .. Len(w) - e : a[i] = w[e + i]
      BY <1>5, <1>9, Suffix
    <2>2. /\ b \in Seq(0 .. MaxTime) /\ Len(b) = Len(r) - (k + e)
          /\ \A i \in 1 .. Len(r) - (k + e) : b[i] = r[k + e + i]
      <3>1. PICK q \in Nat : q = k + e /\ q <= Len(r)
        BY <1>2, <1>9
      <3>2. r \in Seq(0 .. MaxTime)
        BY <1>2
      <3>3. /\ SubSeq(r, q + 1, Len(r)) \in Seq(0 .. MaxTime)
            /\ Len(SubSeq(r, q + 1, Len(r))) = Len(r) - q
            /\ \A i \in 1 .. Len(r) - q : SubSeq(r, q + 1, Len(r))[i] = r[q + i]
        BY <3>1, <3>2, Suffix
      <3> QED
        BY <3>1, <3>3
    <2> HIDE DEF a, b
    <2>3. Len(w) - e = n - k + 1 - e /\ Len(r) - (k + e) = n - k + 1 - e
      <3>1. Len(r) = n + 1 /\ Len(w) = n - k + 1
        BY <1>2, <1>9
      <3>2. n + 1 - (k + e) = n - k + 1 - e
        BY <1>9
      <3>3. ASSUME NEW y \in Nat, y = n - k + 1 PROVE y - e = n - k + 1 - e
        BY <1>9, <3>3
      <3>4. ASSUME NEW y \in Nat, y = n + 1 PROVE y - (k + e) = n + 1 - (k + e)
        BY <1>9, <3>4
      <3>5. Len(w) \in Nat /\ Len(r) \in Nat
        BY <1>9, <3>1
      <3> QED
        BY <3>1, <3>2, <3>3, <3>4, <3>5
    <2>4. ASSUME NEW i \in 1 .. n - k + 1 - e PROVE a[i] = b[i]
      <3>1. a[i] = w[e + i] /\ b[i] = r[k + e + i]
        BY <2>1, <2>2, <2>3
      <3>2. e + i \in 1 .. n - k + 1 /\ k + (e + i) = k + e + i
        BY <1>9
      <3> QED
        BY <1>10, <3>1, <3>2
    <2>5. a = b
      BY <2>1, <2>2, <2>3, <2>4, SeqEqual
    <2> QED
      BY <1>7, <2>5 DEF a, b
  <1>14. k + e \in 0 .. n + 1 /\ k + e \in 0 .. Len(r) /\ k + e < n + 1
    BY <1>2, <1>9, <1>12
  <1>15. ASSUME NEW i \in 1 .. k + e
         PROVE  \E j \in i + 1 .. n + 1 : Outdates(r[j], r[i])
    <2>1. i \in Nat /\ i >= 1
      BY <1>14
    <2>2. CASE i <= k
      <3>1. PICK j \in i + 1 .. n : Outdates(recorded[j], recorded[i])
        BY <1>8, <1>9, <2>1, <2>2
      <3>2. j \in 1 .. n /\ i \in 1 .. n /\ j \in i + 1 .. n + 1
        BY <1>9, <2>1, <2>2, <3>1
      <3> QED
        BY <1>2, <3>1, <3>2
    <2>3. CASE ~(i <= k)
      <3>1. i - k \in 1 .. e /\ i - k \in 1 .. n - k + 1 /\ k + (i - k) = i
        BY <1>9, <2>1, <2>3
      <3>2. TooOld(w, i - k) /\ w[i - k] = r[i]
        BY <1>6, <1>10, <3>1
      <3>3. Outdates(r[n + 1], r[i])
        BY <1>2, <1>11, <3>2 DEF TooOld
      <3>4. n + 1 \in i + 1 .. n + 1
        BY <1>9, <1>14, <2>1
      <3> QED
        BY <3>3, <3>4
    <2> QED
      BY <2>2, <2>3
  <1>16. ~Outdates(Last(r), r[k + e + 1])
    <2>1. e < Len(w) /\ e + 1 \in 1 .. n - k + 1 /\ k + (e + 1) = k + e + 1
      BY <1>9, <1>12
    <2>2. ~TooOld(w, e + 1) /\ w[e + 1] = r[k + e + 1]
      BY <1>6, <1>10, <2>1
    <2> QED
      BY <1>2, <1>11, <2>2 DEF TooOld
  <1>17. PICK l \in 0 .. n + 1 : l = k + e
    BY <1>14
  <1>18. OutdatedFrom(l)'
    <2>1. \A i \in 1 .. l : \E j \in i + 1 .. Len(r) : Outdates(r[j], r[i])
      BY <1>2, <1>15, <1>17
    <2>2. l < Len(r) /\ ~Outdates(Last(r), r[l + 1])
      BY <1>2, <1>14, <1>16, <1>17
    <2> QED
      BY <2>1, <2>2 DEF OutdatedFrom, r
  <1>19. InOrder' => \A i \in 1 .. Len(r) : i <= l <=> Last(r) - r[i] > Second
    <2> SUFFICES ASSUME InOrder' PROVE \A i \in 1 .. Len(r) : i <= l <=> Last(r) - r[i] > Second
      OBVIOUS
    <2>1. \A i, j \in 1 .. Len(r) : i <= j => r[i] <= r[j]
      BY DEF InOrder, r
    <2>2. /\ \A i \in 1 .. l : \E j \in i + 1 .. Len(r) : Outdates(r[j], r[i])
          /\ r /= <<>> => l < Len(r) /\ ~Outdates(Last(r), r[l + 1])
      BY <1>18 DEF OutdatedFrom, r
    <2>3. r \in Seq(0 .. MaxTime) /\ l \in 0 .. Len(r)
      BY <1>2, <1>14, <1>17
    <2> QED
      BY <2>1, <2>2, <2>3, InOrderExact
  <1> QED
    BY <1>2, <1>13, <1>14, <1>17, <1>18, <1>19 DEF WindowIsLastSecond, r

LEMMA StepWindow == TypeOK /\ TypeOK' /\ WindowIsLastSecond /\ [Next]_vars => WindowIsLastSecond'
  <1> SUFFICES ASSUME TypeOK, TypeOK', WindowIsLastSecond, [Next]_vars
               PROVE  WindowIsLastSecond'
    OBVIOUS
  <1>1. CASE UNCHANGED <<frame_times, recorded>>
    BY <1>1 DEF WindowIsLastSecond, InOrder, OutdatedFrom
  <1>2. CASE frame_times' = <<>> /\ recorded' = <<>>
    BY <1>2 DEF WindowIsLastSecond, InOrder, OutdatedFrom
  <1>3. CASE \E t \in Threads : RecordFrame(t)
    BY <1>3, RecordWindow
  <1> QED
    BY <1>1, <1>2, <1>3, StatsSteps

\* The frame rate counts the last frames recorded.  None was dropped that a
\* later one had not outdated, the oldest counted is of the last second, and
\* frames recorded in the order of the clock are counted exactly as long as
\* they are of the last second.
THEOREM WindowOfLastSecond == Spec => []WindowIsLastSecond
  <1>1. Spec => []TypeOK
    BY HostTypes
  <1> QED
    BY <1>1, InitWindow, StepWindow, PTL DEF Spec

-----------------------------------------------------------------------------
(* The receiving threads are those the receiver promises its owner.         *)

\* The process is created, or its memory is gone: nothing is left to own.
LEMMA ProcessRefines ==
    ASSUME Launch \/ Terminate \/ Crash \/ Exit \/ \E t \in Threads : DecodeCrashes(t)
    PROVE  [OwnedThreads!ThreadsNext]_(OwnedThreads!threadsVars)
  <1>1. CASE MemoryLost /\ main' \in Ended \cup {"window"}
    <2>1. running' = FALSE /\ pc' = [t \in Threads |-> "none"]
      BY <1>1 DEF MemoryLost, NewProcess
    <2>2. Owner' = "setup"
      BY <1>1 DEF Owner, Waiting, SetUp
    <2>3. [t \in Threads |-> PlaceOf(pc'[t])] = [t \in Threads |-> "none"]
      BY <2>1 DEF PlaceOf
    <2> QED
      BY <2>1, <2>2, <2>3 DEF OwnedThreads!ProcessEnds, OwnedThreads!ThreadsNext
  <1>2. CASE UNCHANGED <<main, rendererVars, processVars>>
    BY <1>2 DEF rendererVars, processVars, Owner, Waiting, OwnedThreads!threadsVars
  <1> QED
    BY <1>1, <1>2 DEF Launch, Terminate, Crash, Exit, DecodeCrashes, Ended

\* Rendering and waiting leave the owner where it is; a renderer that cannot
\* be made ends it before a thread was begun.
LEMMA RenderRefines ==
    ASSUME Inv, Render
    PROVE  [OwnedThreads!ThreadsNext]_(OwnedThreads!threadsVars)
  <1> USE DEF Render, processVars, OwnedThreads!threadsVars
  <1>1. UNCHANGED <<running, pc>>
    OBVIOUS
  <1>2. CASE Owner' = Owner
    BY <1>1, <1>2
  <1>3. CASE InitializeRenderer /\ Owner' /= Owner
    <2>1. main \in SetUp /\ main' \in SetUp \cup {"unwind"}
      BY <1>3 DEF InitializeRenderer, CreateMainWindow, CreateDevice, CreateSwapchain,
                  CreateRenderResources, CreateShaders, SetUp
    <2>2. Owner = "setup" /\ Owner' \in {"setup", "gone"}
      BY <2>1 DEF Owner, Waiting, SetUp, Ended
    <2>3. running \in BOOLEAN
      BY DEF Inv, TypeOK
    <2>4. OwnedThreads!GiveUp
      BY <1>1, <1>3, <2>2, <2>3 DEF OwnedThreads!GiveUp
    <2> QED
      BY <2>4 DEF OwnedThreads!ThreadsNext
  <1>4. CASE BeginFrame \/ ExecuteAndPresent
    <2>1. /\ main \in {"frame", "record"} /\ after /= "close"
          /\ main' \in {"record", "signal"} /\ (main' = "signal" => after' = "loop")
          /\ (main' = "record" => after' = after)
      BY <1>4 DEF BeginFrame, ExecuteAndPresent, Inv, RendererInv, Waiting
    <2>2. Owner' = Owner
      BY <2>1 DEF Owner, Waiting, SetUp, Ended
    <2> QED
      BY <1>2, <2>2
  <1>5. CASE Shutdown
    <2>1. Owner' = Owner
      BY <1>5 DEF Shutdown, Owner, Waiting, SetUp, Ended
    <2> QED
      BY <1>2, <2>1
  <1>6. CASE WaitForGpu
    <2>1. /\ Waiting /\ after \in {"loop", "close"} /\ after' = after
          /\ main' \in {"check", "arm", "wait", after}
      BY <1>6 DEF WaitForGpu, SignalFence, GetCompletedValue, SetEventOnCompletion, WaitForEvent,
                  Inv, RendererInv, Waiting, rendererVars
    <2>2. Owner' = Owner
      BY <2>1 DEF Owner, Waiting, SetUp, Ended
    <2> QED
      BY <1>2, <2>2
  <1> QED
    BY <1>2, <1>3, <1>4, <1>5, <1>6 DEF RendererStep

\* WinMain starts the receiver, or goes on without it, and stops and joins.
LEMMA WinMainRefines ==
    ASSUME Inv, StartReceiver \/ DrainMessages \/ StopReceiver \/ JoinThreads
    PROVE  [OwnedThreads!ThreadsNext]_(OwnedThreads!threadsVars)
  <1> USE DEF OwnedThreads!ThreadsNext, OwnedThreads!threadsVars
  <1>1. main \in {"loop", "join"} => after /= "close"
    BY DEF Inv, RendererInv, Waiting
  <1>2. CASE StartReceiver
    <2>1. main = "receiver" /\ after /= "close" /\ after' = after /\ running' = TRUE
      BY <1>2 DEF StartReceiver, rendererVars, Inv, RendererInv, Waiting
    <2>2. Owner = "setup"
      BY <2>1 DEF Owner, Waiting, SetUp
    <2>3. CASE main' = "loop" /\ pc' = [t \in Threads |-> "check"]
      <3>1. Owner' = "running"
        BY <2>1, <2>3 DEF Owner, Waiting, SetUp, Ended
      <3>2. [t \in Threads |-> PlaceOf(pc'[t])] = [t \in Threads |-> "polling"]
        BY <2>3 DEF PlaceOf
      <3> QED
        BY <2>1, <2>2, <3>1, <3>2 DEF OwnedThreads!BeginThreads
    <2>4. CASE main' = "unwind" /\ UNCHANGED pc
      <3>1. Owner' = "gone"
        BY <2>4 DEF Owner, Waiting, SetUp, Ended
      <3> QED
        BY <2>1, <2>2, <2>4, <3>1 DEF OwnedThreads!GiveUp
    <2> QED
      BY <1>2, <2>3, <2>4 DEF StartReceiver
  <1>3. CASE DrainMessages
    BY <1>1, <1>3 DEF DrainMessages, rendererVars, Owner, Waiting, SetUp, Ended
  <1>4. CASE StopReceiver
    <2>1. Owner = "running" /\ Owner' = "stopping"
      BY <1>1, <1>4 DEF StopReceiver, Owner, Waiting, SetUp, Ended
    <2> QED
      BY <1>4, <2>1 DEF StopReceiver, OwnedThreads!StopThreads
  <1>5. CASE JoinThreads
    <2>1. Owner = "stopping" /\ Owner' = "gone"
      BY <1>5 DEF JoinThreads, Owner, Waiting, SetUp, Ended
    <2>2. \A t \in Threads : OwnedThreads!Over(t)
      BY <1>5 DEF JoinThreads, Joined, OwnedThreads!Over, PlaceOf
    <2> QED
      BY <1>5, <2>1, <2>2 DEF JoinThreads, processVars, OwnedThreads!JoinThreads
  <1> QED
    BY <1>2, <1>3, <1>4, <1>5

\* What one step of a receiving thread can be to its owner.
MovesAsOwned(t) ==
    \E q \in Steps \ {"none"} :
        /\ Go(t, q)
        /\ \/ PlaceOf(q) = PlaceOf(pc[t])
           \/ PlaceOf(pc[t]) = "polling" /\ PlaceOf(q) = IF running THEN "busy" ELSE "done"
           \/ PlaceOf(pc[t]) = "busy" /\ PlaceOf(q) = "polling"

LEMMA ThreadMoves ==
    ASSUME Inv, NEW t \in Threads,
           \/ Check(t) \/ Receive(t) \/ OnTrackingFrame(t)
           \/ DecodeBegins(t) \/ DecodeCreates(t) \/ DecodeEnds(t)
           \/ RecordBegins(t) \/ RecordEnds(t)
    PROVE  UNCHANGED <<main, after, running>> /\ MovesAsOwned(t)
  <1> USE DEF MovesAsOwned, PlaceOf, Steps, rendererVars, ThreadOnly
  <1>1. CASE Check(t)
    BY <1>1 DEF Check
  <1>2. CASE Receive(t)
    BY <1>2 DEF Receive
  <1>3. CASE OnTrackingFrame(t)
    BY <1>3 DEF OnTrackingFrame
  <1>4. CASE DecodeBegins(t)
    <2>1. Go(t, "check") \/ \E fits \in BOOLEAN : Go(t, IF fits THEN "input" ELSE "create")
      BY <1>4 DEF DecodeBegins
    <2>2. Go(t, "check") \/ Go(t, "input") \/ Go(t, "create")
      BY <2>1
    <2> QED
      BY <1>4, <2>2 DEF DecodeBegins
  <1>5. CASE DecodeCreates(t)
    BY <1>5 DEF DecodeCreates
  <1>6. CASE DecodeEnds(t)
    BY <1>6 DEF DecodeEnds
  <1>7. CASE RecordBegins(t) \/ RecordEnds(t)
    BY <1>7 DEF RecordBegins, RecordEnds
  <1> QED
    BY <1>1, <1>2, <1>3, <1>4, <1>5, <1>6, <1>7

LEMMA ThreadRefines ==
    ASSUME Inv, NEW t \in Threads, UNCHANGED <<main, after, running>>, MovesAsOwned(t)
    PROVE  [OwnedThreads!ThreadsNext]_(OwnedThreads!threadsVars)
  <1>1. UNCHANGED <<Owner, running>>
    BY DEF Owner, Waiting
  <1>2. t \in Threads /\ MovesAsOwned(t)
    OBVIOUS
  <1>3. PICK q \in Steps \ {"none"} :
          /\ Go(t, q)
          /\ \/ PlaceOf(q) = PlaceOf(pc[t])
             \/ PlaceOf(pc[t]) = "polling" /\ PlaceOf(q) = IF running THEN "busy" ELSE "done"
             \/ PlaceOf(pc[t]) = "busy" /\ PlaceOf(q) = "polling"
    BY <1>2 DEF MovesAsOwned
  <1> DEFINE Place == [u \in Threads |-> PlaceOf(pc[u])]
  <1>4. Place' = [Place EXCEPT ![t] = PlaceOf(q)]
    BY <1>2, <1>3 DEF Go, Inv, TypeOK
  <1>5. CASE PlaceOf(q) = PlaceOf(pc[t])
    <2>1. Place' = Place
      BY <1>2, <1>4, <1>5
    <2> QED
      BY <1>1, <2>1 DEF OwnedThreads!threadsVars
  <1>6. CASE PlaceOf(pc[t]) = "polling" /\ PlaceOf(q) = IF running THEN "busy" ELSE "done"
    <2>1. OwnedThreads!LookAtFlag(t)
      BY <1>1, <1>2, <1>4, <1>6 DEF OwnedThreads!LookAtFlag
    <2> QED
      BY <1>2, <2>1 DEF OwnedThreads!ThreadsNext
  <1>7. CASE PlaceOf(pc[t]) = "busy" /\ PlaceOf(q) = "polling"
    <2>1. OwnedThreads!LoopAgain(t)
      BY <1>1, <1>2, <1>4, <1>7 DEF OwnedThreads!LoopAgain
    <2> QED
      BY <1>2, <2>1 DEF OwnedThreads!ThreadsNext
  <1> QED
    BY <1>3, <1>5, <1>6, <1>7

\* The threads of the host process do what NetworkReceiver, modelled step by
\* step, promises its owner, and no more: that callbacks run on objects that
\* live does not come from how this model abbreviates the threads.
THEOREM ProcessThreadsRefinement == Spec => ImplementsReceivingThreads
  <1>1. Init => OwnedThreads!ThreadsInit
    BY DEF Init, NewProcess, Owner, Waiting, PlaceOf, Ended, OwnedThreads!ThreadsInit
  <1>2. Inv /\ [Next]_vars => [OwnedThreads!ThreadsNext]_(OwnedThreads!threadsVars)
    <2> SUFFICES ASSUME Inv, [Next]_vars
                 PROVE  [OwnedThreads!ThreadsNext]_(OwnedThreads!threadsVars)
      OBVIOUS
    <2>1. CASE Launch \/ Terminate \/ Crash \/ Exit
      BY <2>1, ProcessRefines
    <2>2. CASE Render
      BY <2>2, RenderRefines
    <2>3. CASE StartReceiver \/ DrainMessages \/ StopReceiver \/ JoinThreads
      BY <2>3, WinMainRefines
    <2>4. CASE Thread
      BY <2>4, ProcessRefines, ThreadMoves, ThreadRefines DEF Thread
    <2>5. CASE SignalHandler \/ GpuStep \/ Statistics \/ UNCHANGED vars
      <3>1. UNCHANGED <<main, after, running, pc>>
        BY <2>5 DEF SignalHandler, GpuStep, Gpu, ExecuteList, ExecuteSignal, Statistics, vars,
                    rendererVars, processVars
      <3> QED
        BY <3>1 DEF Owner, Waiting, OwnedThreads!threadsVars
    <2> QED
      BY <2>1, <2>2, <2>3, <2>4, <2>5 DEF Next, WinMain
  <1> QED
    BY <1>1, <1>2, HostInvariance, PTL
       DEF Spec, ImplementsReceivingThreads, OwnedThreads!ThreadsSpec

-----------------------------------------------------------------------------
(* wait_for_gpu ends: the measure behind WaitEnds.                          *)

\* The queue is short, and how it is written.
LEMMA ShortQueue ==
    ASSUME Inv
    PROVE  /\ Len(queue) \in 0 .. 2
           /\ main = "signal" => Len(queue) <= 1
           /\ main = "wait" /\ ~event => Len(queue) >= 1
  <1> DEFINE n == Len(queue)
  <1>1. Done => n = 0
    BY DEF Done
  <1>2. Unfinished => n = 1 \/ n = 2
    <2>1. \A x, y : Len(<<x>>) = 1 /\ Len(<<x, y>>) = 2
      OBVIOUS
    <2> QED
      BY <2>1 DEF Unfinished, Pending
  <1>3. main = "signal" => n = 0 \/ n = 1
    <2>1. Len(<<>>) = 0 /\ \A x : Len(<<x>>) = 1
      OBVIOUS
    <2> QED
      BY <2>1 DEF Inv, FenceInv
  <1>4. Done \/ Unfinished \/ main = "signal"
    BY DEF Inv, FenceInv, Waiting
  <1>5. main = "wait" /\ ~event => Unfinished
    BY DEF Inv, FenceInv
  <1> HIDE DEF n
  <1>6. n = 0 \/ n = 1 \/ n = 2
    BY <1>1, <1>2, <1>3, <1>4
  <1>7. main = "wait" /\ ~event => n = 1 \/ n = 2
    BY <1>2, <1>5
  <1>8. /\ n \in 0 .. 2
        /\ main = "signal" => n <= 1
        /\ main = "wait" /\ ~event => n >= 1
    BY <1>3, <1>6, <1>7
  <1> QED
    BY <1>8 DEF n

\* While WinMain blocks in wait_for_gpu, the signal that wakes it is on its way.
THEOREM NoWakeUpLost == Spec => []WakeUpComes
  <1>1. Inv => WakeUpComes
    <2> SUFFICES ASSUME Inv, main = "wait", ~event
                 PROVE  armed > 0
                        /\ \E i \in 1 .. Len(queue) : queue[i].kind = "signal" /\ queue[i].of >= armed
      BY DEF WakeUpComes
    <2>1. Unfinished /\ armed = fence_value /\ fence_value \in Nat /\ fence_value > 0
      BY DEF Inv, FenceInv, TypeOK, Unfinished
    <2>2. CASE queue = <<Signal(fence_value)>>
      <3>1. Len(queue) = 1 /\ queue[1] = Signal(fence_value)
        BY <2>2
      <3> QED
        BY <2>1, <3>1 DEF Signal
    <2>3. CASE queue = <<List(frame_index), Signal(fence_value)>>
      <3>1. Len(queue) = 2 /\ queue[2] = Signal(fence_value)
        BY <2>3
      <3> QED
        BY <2>1, <3>1 DEF Signal
    <2> QED
      BY <2>1, <2>2, <2>3 DEF Unfinished, Pending
  <1> QED
    BY <1>1, HostInvariance, PTL

\* A wait of the main thread is at most six steps of it and the GPU long.
THEOREM WaitApproaches == Spec => WaitComesNearer
  <1>1. Inv /\ [Next]_vars =>
          [Waiting => /\ WaitRank \in 1 .. 6 /\ WaitRank' <= WaitRank
                      /\ WinMain \/ GpuStep => WaitRank' < WaitRank]_vars
    <2> SUFFICES ASSUME Inv, Next, Waiting
                 PROVE  /\ WaitRank \in 1 .. 6 /\ WaitRank' <= WaitRank
                        /\ WinMain \/ GpuStep => WaitRank' < WaitRank
      OBVIOUS
    <2>1. Len(queue) \in 0 .. 2 /\ (main = "signal" => Len(queue) <= 1)
      BY ShortQueue
    <2>2. WaitRank \in 1 .. 6
      <3> DEFINE n == Len(queue)
      <3>1. n \in 0 .. 2 /\ (main = "signal" => n <= 1)
        BY <2>1
      <3> HIDE DEF n
      <3>2. WaitRank = IF main = "signal" THEN n + 5 ELSE IF main = "check" THEN n + 3
                       ELSE IF main = "arm" THEN n + 2 ELSE IF main = "wait" THEN n + 1 ELSE 0
        BY DEF WaitRank, n
      <3> QED
        BY <3>1, <3>2 DEF Waiting
    <2>3. after \in {"loop", "close"} /\ queue \in Seq([kind : {"list", "signal"}, of : Nat])
      BY DEF Inv, RendererInv, TypeOK
    <2>4. ASSUME WinMain PROVE WaitRank' < WaitRank
      <3>1. WaitForGpu
        BY <2>4 DEF WinMain, Render, RendererStep, InitializeRenderer, CreateMainWindow,
                    CreateDevice, CreateSwapchain, CreateRenderResources, CreateShaders,
                    BeginFrame, ExecuteAndPresent, Shutdown, Crash, CallsNull, StartReceiver,
                    DrainMessages, StopReceiver, JoinThreads, Exit, Waiting
      <3>2. CASE SignalFence
        <4>1. Len(queue') = Len(queue) + 1
          BY <2>3, <3>2 DEF SignalFence
        <4> QED
          BY <2>1, <3>2, <4>1 DEF SignalFence, WaitRank
      <3>3. CASE GetCompletedValue
        BY <2>1, <2>3, <3>3 DEF GetCompletedValue, WaitRank, rendererVars
      <3>4. CASE SetEventOnCompletion
        BY <2>1, <3>4 DEF SetEventOnCompletion, WaitRank
      <3>5. CASE WaitForEvent
        BY <2>1, <2>3, <3>5 DEF WaitForEvent, WaitRank
      <3> QED
        BY <3>1, <3>2, <3>3, <3>4, <3>5 DEF WaitForGpu
    <2>5. ASSUME GpuStep PROVE WaitRank' < WaitRank
      <3>1. queue /= <<>> /\ queue' = Tail(queue) /\ main' = main
        BY <2>5 DEF GpuStep, Gpu, ExecuteList, ExecuteSignal
      <3>2. Len(queue') = Len(queue) - 1
        BY <2>3, <3>1
      <3> QED
        BY <2>1, <3>1, <3>2 DEF WaitRank, Waiting
    <2>6. ASSUME Launch \/ Terminate \/ SignalHandler \/ Thread \/ Statistics PROVE WaitRank' <= WaitRank
      <3>1. CASE main' \in Ended \cup {"window"}
        BY <2>2, <3>1 DEF WaitRank, Ended
      <3>2. CASE UNCHANGED <<main, queue>>
        BY <2>2, <3>2 DEF WaitRank
      <3>3. Launch \/ Terminate => main' \in Ended \cup {"window"} \/ UNCHANGED <<main, queue>>
        BY DEF Launch, Terminate, rendererVars, Ended
      <3>4. SignalHandler \/ Statistics => UNCHANGED <<main, queue>>
        BY DEF SignalHandler, Statistics, rendererVars
      <3>5. Thread => main' \in Ended \cup {"window"} \/ UNCHANGED <<main, queue>>
        BY DEF Thread, ThreadOnly, Check, Receive, OnTrackingFrame, DecodeBegins, DecodeCreates,
               DecodeEnds, DecodeCrashes, RecordBegins, RecordEnds, rendererVars, Ended
      <3> QED
        BY <2>6, <3>1, <3>2, <3>3, <3>4, <3>5
    <2>7. ASSUME WaitRank' < WaitRank PROVE WaitRank' <= WaitRank
      <3>1. WaitRank' \in Int
        <4>1. Inv'
          BY InvStep
        <4>2. Len(queue') \in Nat
          BY <4>1 DEF Inv, TypeOK
        <4> QED
          BY <4>2 DEF WaitRank
      <3> QED
        BY <2>2, <2>7, <3>1
    <2> QED
      BY <2>2, <2>4, <2>5, <2>6, <2>7 DEF Next
  <1> QED
    BY <1>1, HostInvariance, PTL DEF Spec, WaitComesNearer
=============================================================================
