------------------------- MODULE SteamVRDriverProofs -------------------------
(***************************************************************************)
(* Theorems about the SteamVR driver, for any number of Inits: its devices *)
(* outlive their use, a thread is joined before the next is started, it    *)
(* runs as long as the driver is initialised, and a pose that was complete *)
(* is reported whole.                                                      *)
(***************************************************************************)
EXTENDS SteamVRDriver, TLAPS

USE InitsAssumption DEF Devices, Headset, Halves

LEMMA InvInit == Init => Inv
  <1> SUFFICES ASSUME Init PROVE Inv
    OBVIOUS
  <1> USE DEF Init
  <1>1. pose \in [1 .. 3 -> [1 .. 2 -> {"default", "tracked"}]] /\ reported = pose
    BY DEF NewPose
  <1>2. inits \in 0 .. MaxInits
    BY DEF InitsAssumption
  <1>3. writing \in [device : 1 .. 3, half : 1 .. 2]
    BY DEF Start
  <1>4. main = "idle" /\ pc = "none" /\ reading = 1
    OBVIOUS
  <1>5. running = FALSE /\ joinable = FALSE /\ settled = FALSE
    OBVIOUS
  <1>6. devices = {} /\ active = {} /\ added = {}
    OBVIOUS
  <1>7. copy \in {<<>>, <<"default">>, <<"tracked">>}
    OBVIOUS
  <1> HIDE DEF Init
  <1>8. TypeOK
    <2>1. inits \in 0 .. MaxInits
      BY <1>2
    <2>2. main \in {"idle", "adding", "failed", "starting", "terminated", "ready", "frame",
                    "joining", "resetting"}
      BY <1>4
    <2>3. running \in BOOLEAN /\ joinable \in BOOLEAN /\ settled \in BOOLEAN
      BY <1>5
    <2>4. pc \in {"none", "check", "write", "done"} /\ reading \in 1 .. 3
      BY <1>4
    <2>5. devices \subseteq 1 .. 3 /\ active \subseteq 1 .. 3 /\ added \subseteq 1 .. 3
      BY <1>6
    <2>6. reported \in [1 .. 3 -> [1 .. 2 -> {"default", "tracked"}]]
      BY <1>1
    <2> QED
      BY <1>1, <1>3, <1>7, <2>1, <2>2, <2>3, <2>4, <2>5, <2>6 DEF TypeOK
  <1> USE DEF Init
  <1> QED
    BY <1>8 DEF Inv, NeverTerminates, ThreadInv, CopyInv

LEMMA InvDriverInit == Inv /\ (MakeDevices \/ AddDevices \/ StartThread) => Inv'
  <1> SUFFICES ASSUME Inv, MakeDevices \/ AddDevices \/ StartThread PROVE Inv'
    OBVIOUS
  <1> USE DEF Inv, TypeOK, NeverTerminates, ThreadInv, CopyInv, trackVars, frameVars
  <1>1. CASE MakeDevices
    BY <1>1 DEF MakeDevices, NewPose
  <1>2. CASE AddDevices
    <2>1. main' \in {"starting", "failed"} /\ added' \subseteq 1 .. 3 /\ main = "adding"
      BY <1>2 DEF AddDevices
    <2>2. UNCHANGED <<inits, active, running, joinable, pc, writing, devices, pose, reading,
                      copy, settled, reported>>
      BY <1>2 DEF AddDevices
    <2> QED
      BY <2>1, <2>2
  <1>3. CASE StartThread
    <2>1. ~joinable /\ devices = 1 .. 3
      BY <1>3 DEF StartThread
    <2>2. main' = "ready" /\ joinable' = TRUE /\ running' = TRUE /\ pc' = "check"
      BY <1>3, <2>1 DEF StartThread, RaiseFlag
    <2>3. writing' \in [device : 1 .. 3, half : 1 .. 2]
      BY <1>3, <2>1 DEF StartThread, Start
    <2>4. UNCHANGED <<inits, added, active, devices, pose, reading, copy, settled, reported>>
      BY <1>3 DEF StartThread
    <2> QED
      BY <2>1, <2>2, <2>3, <2>4
  <1> QED
    BY <1>1, <1>2, <1>3

LEMMA InvDevices ==
    ASSUME Inv, NEW d \in Devices, Activate(d) \/ Deactivate(d)
    PROVE  Inv'
  <1> USE DEF Inv, TypeOK, NeverTerminates, ThreadInv, CopyInv, trackVars, frameVars
  <1>1. CASE Activate(d)
    BY <1>1 DEF Activate
  <1>2. CASE Deactivate(d)
    BY <1>2 DEF Deactivate
  <1> QED
    BY <1>1, <1>2

LEMMA InvRunFrame == Inv /\ RunFrame => Inv'
  <1> SUFFICES ASSUME Inv, RunFrame PROVE Inv'
    OBVIOUS
  <1> USE DEF Inv, TypeOK, NeverTerminates, ThreadInv, CopyInv, trackVars, runtimeVars
  <1>1. CASE FrameBegins
    BY <1>1 DEF FrameBegins
  <1>2. CASE ReadFirstHalf
    <2>1. pose[reading][1] \in {"default", "tracked"}
      OBVIOUS
    <2>2. pose[reading] = Tracked => pose[reading][1] = "tracked"
      BY DEF Tracked
    <2> QED
      BY <1>2, <2>1, <2>2 DEF ReadFirstHalf
  <1>3. CASE ReadSecondHalf
    <2> USE <1>3 DEF ReadSecondHalf
    <2>1. copy[1] \in {"default", "tracked"} /\ pose[reading][2] \in {"default", "tracked"}
      OBVIOUS
    <2>2. <<copy[1], pose[reading][2]>> \in [1 .. 2 -> {"default", "tracked"}]
      BY <2>1
    <2>3. reported' \in [1 .. 3 -> [1 .. 2 -> {"default", "tracked"}]]
      BY <2>2
    <2>4. main' \in {"frame", "ready"} /\ reading' \in 1 .. 3
      OBVIOUS
    <2> QED
      BY <2>3, <2>4
  <1> QED
    BY <1>1, <1>2, <1>3 DEF RunFrame

LEMMA InvCleanup == Inv /\ Cleanup => Inv'
  <1> SUFFICES ASSUME Inv, Cleanup PROVE Inv'
    OBVIOUS
  <1> USE DEF Inv, TypeOK, NeverTerminates, ThreadInv, CopyInv, trackVars, frameVars
  <1>1. CASE CleanupBegins
    BY <1>1 DEF CleanupBegins, LowerFlag
  <1>2. CASE CleanupJoins
    BY <1>2 DEF CleanupJoins, JoinThread
  <1>3. CASE CleanupResets
    BY <1>3 DEF CleanupResets
  <1> QED
    BY <1>1, <1>2, <1>3 DEF Cleanup

LEMMA InvTracking == Inv /\ TrackingThread => Inv'
  <1> SUFFICES ASSUME Inv, TrackingThread PROVE Inv'
    OBVIOUS
  <1> USE DEF Inv, TypeOK, NeverTerminates, ThreadInv, CopyInv, runtimeVars, frameVars
  <1>1. CASE TrackLoop
    BY <1>1 DEF TrackLoop, Start
  <1>2. CASE UpdatePose
    <2> USE <1>2 DEF UpdatePose, WriteHalf
    <2>1. pose' \in [1 .. 3 -> [1 .. 2 -> {"default", "tracked"}]]
      OBVIOUS
    <2>2. writing' \in [device : 1 .. 3, half : 1 .. 2]
      BY DEF NextHalf, Start
    <2>3. pc' \in {"check", "write"}
      OBVIOUS
    <2>4. pose[reading] = Tracked => pose'[reading] = Tracked
      BY DEF Tracked
    <2> QED
      BY <2>1, <2>2, <2>3, <2>4
  <1> QED
    BY <1>1, <1>2 DEF TrackingThread

LEMMA InvNext == Inv /\ [Next]_vars => Inv'
  <1> SUFFICES ASSUME Inv, [Next]_vars PROVE Inv'
    OBVIOUS
  <1>1. CASE Runtime
    BY <1>1, InvDriverInit, InvDevices, InvRunFrame DEF Runtime
  <1>2. CASE Cleanup
    BY <1>2, InvCleanup
  <1>3. CASE TrackingThread
    BY <1>3, InvTracking
  <1>4. CASE UNCHANGED vars
    BY <1>4 DEF vars, runtimeVars, trackVars, frameVars, Inv, TypeOK, NeverTerminates,
                ThreadInv, CopyInv
  <1> QED
    BY <1>1, <1>2, <1>3, <1>4 DEF Next

-----------------------------------------------------------------------------
(* The theorems.                                                            *)

\* Inv holds in every state, whatever the runtime and the thread do.
THEOREM DriverInvariance == Spec => []Inv
  BY InvInit, InvNext, PTL DEF Spec

\* The driver's variables keep their types: the thread never writes past a pose.
THEOREM DriverTypes == Spec => []TypeOK
  <1>1. Inv => TypeOK
    BY DEF Inv
  <1> QED
    BY <1>1, DriverInvariance, PTL

\* No step of tracking_thread_func or RunFrame is at a device Cleanup has reset.
THEOREM DevicesSafe == Spec => []DevicesOutliveUse
  <1>1. Inv => DevicesOutliveUse
    BY DEF Inv, TypeOK, ThreadInv, DevicesOutliveUse
  <1> QED
    BY <1>1, DriverInvariance, PTL

\* Init never assigns to a std::thread that was not joined.
THEOREM ThreadsJoined == Spec => []NeverTerminates
  <1>1. Inv => NeverTerminates
    BY DEF Inv
  <1> QED
    BY <1>1, DriverInvariance, PTL

\* The tracking thread runs from a successful Init to the next Cleanup.
THEOREM TrackingKept == Spec => []TracksWhileReady
  <1>1. Inv => TracksWhileReady
    BY DEF Inv, ThreadInv, TracksWhileReady
  <1> QED
    BY <1>1, DriverInvariance, PTL

\* RunFrame tears at most the first pose of a device.
THEOREM PosesWhole == Spec => WholePoseReported
  <1>1. Inv /\ [Next]_vars =>
          [\A d \in Devices :
             reading = d /\ settled /\ ReadSecondHalf => reported'[d] = Tracked]_vars
    <2> SUFFICES ASSUME Inv, NEW d \in Devices, reading = d, settled, ReadSecondHalf
                 PROVE  reported'[d] = Tracked
      OBVIOUS
    <2>1. copy = <<"tracked">> /\ pose[d] = Tracked
      BY DEF Inv, CopyInv, ReadSecondHalf
    <2>2. reported'[d] = <<copy[1], pose[d][2]>>
      BY DEF ReadSecondHalf, Inv, TypeOK
    <2>3. pose[d][2] = "tracked"
      BY <2>1 DEF Tracked
    <2>4. <<"tracked", "tracked">> = Tracked
      BY DEF Tracked
    <2> QED
      BY <2>1, <2>2, <2>3, <2>4
  <1> QED
    BY <1>1, DriverInvariance, PTL DEF Spec, WholePoseReported

-----------------------------------------------------------------------------
(* The join of Cleanup ends: the measure behind CleanupReturns.             *)

LEMMA LoweredInit == Init => LoweredInv
  BY DEF Init, LoweredInv

LEMMA LoweredNext == Inv /\ LoweredInv /\ [Next]_vars => LoweredInv'
  <1> SUFFICES ASSUME Inv, LoweredInv, [Next]_vars PROVE LoweredInv'
    OBVIOUS
  <1>1. CASE Runtime
    BY <1>1 DEF LoweredInv, Inv, ThreadInv, Runtime, MakeDevices, AddDevices, StartThread, RaiseFlag, RunFrame,
                FrameBegins, ReadFirstHalf, ReadSecondHalf, Activate, Deactivate, runtimeVars,
                trackVars, frameVars
  <1>2. CASE Cleanup
    BY <1>2 DEF LoweredInv, Cleanup, CleanupBegins, CleanupJoins, CleanupResets, LowerFlag,
                JoinThread, runtimeVars, trackVars, frameVars
  <1>3. CASE TrackingThread
    BY <1>3 DEF LoweredInv, TrackingThread, TrackLoop, UpdatePose, runtimeVars, frameVars
  <1>4. CASE UNCHANGED vars
    BY <1>4 DEF LoweredInv, vars, runtimeVars, trackVars
  <1> QED
    BY <1>1, <1>2, <1>3, <1>4 DEF Next

LEMMA DriverLowered == Spec => [](Inv /\ LoweredInv)
  BY InvInit, InvNext, LoweredInit, LoweredNext, PTL DEF Spec

LEMMA DistanceRange == Inv => Distance \in 0 .. 7
  <1> SUFFICES ASSUME Inv PROVE Distance \in 0 .. 7
    OBVIOUS
  <1>1. writing.device \in 1 .. 3 /\ writing.half \in 1 .. 2
    BY DEF Inv, TypeOK
  <1> QED
    BY <1>1 DEF Distance

\* While Cleanup joins, it can go on or the thread it waits for can.
THEOREM CleanupNotStuck == Spec => []JoinNotStuck
  <1>1. Inv /\ LoweredInv => JoinNotStuck
    <2> SUFFICES ASSUME Inv, LoweredInv, main = "joining"
                 PROVE  /\ Distance \in 0 .. 7
                        /\ IF Distance = 0 THEN joinable => pc = "done" ELSE pc \in {"check", "write"}
      BY DEF JoinNotStuck
    <2>1. writing.device \in 1 .. 3 /\ writing.half \in 1 .. 2 /\ pc \in {"none", "check", "write", "done"}
      BY DEF Inv, TypeOK
    <2>2. joinable => pc # "none"
      BY DEF LoweredInv
    <2> QED
      BY <2>1, <2>2, DistanceRange DEF Distance
  <1> QED
    BY <1>1, DriverLowered, PTL

\* The thread Cleanup joins is at most seven steps from its end and each step
\* brings it nearer, whatever else happens.
THEOREM CleanupApproaches == Spec => JoinComesNearer
  <1>1. Inv /\ LoweredInv /\ [Next]_vars =>
          [main = "joining" =>
             Distance' \in Nat /\ IF TrackingThread THEN Distance' < Distance ELSE Distance' = Distance]_vars
    <2> SUFFICES ASSUME Inv, LoweredInv, Next, main = "joining"
                 PROVE  Distance' \in Nat
                        /\ IF TrackingThread THEN Distance' < Distance ELSE Distance' = Distance
      OBVIOUS
    <2>1. Inv'
      BY InvNext
    <2>2. Distance' \in Nat
      <3>1. writing'.device \in 1 .. 3 /\ writing'.half \in 1 .. 2
        BY <2>1 DEF Inv, TypeOK
      <3> QED
        BY <3>1 DEF Distance
    <2>3. writing \in [device : 1 .. 3, half : 1 .. 2] /\ ~running
      BY DEF Inv, TypeOK, LoweredInv
    <2>4. ASSUME TrackLoop PROVE Distance' < Distance
      BY <2>3, <2>4 DEF TrackLoop, Distance
    <2>5. ASSUME UpdatePose PROVE Distance' < Distance
      <3>1. CASE writing.half = 1
        BY <2>3, <2>5, <3>1 DEF UpdatePose, NextHalf, Distance
      <3>2. CASE writing.half = 2
        BY <2>3, <2>5, <3>2 DEF UpdatePose, NextHalf, Distance
      <3> QED
        BY <2>3, <3>1, <3>2
    <2>6. ASSUME ~TrackingThread PROVE Distance' = Distance
      <3>1. CleanupJoins
        BY <2>6 DEF Next, Runtime, RunFrame, Cleanup, MakeDevices, AddDevices, StartThread,
                FrameBegins, ReadFirstHalf, ReadSecondHalf, Activate, Deactivate, CleanupBegins, CleanupResets
      <3> QED
        BY <3>1 DEF CleanupJoins, Distance
    <2> QED
      BY <2>2, <2>4, <2>5, <2>6 DEF TrackingThread
  <1> QED
    BY <1>1, DriverLowered, PTL DEF Spec, JoinComesNearer
=============================================================================
