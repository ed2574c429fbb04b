---------------------------- MODULE SteamVRDriver ----------------------------
(***************************************************************************)
(* phonevr::DriverBase, the SteamVR driver: the headset and the two        *)
(* controllers it owns, the tracking thread that writes their poses every  *)
(* millisecond, and the calls of the SteamVR runtime (Init, Activate,      *)
(* RunFrame, Deactivate, Cleanup), which come on one thread.               *)
(*                                                                         *)
(* A pose is a structure that one thread assigns while the other copies it,*)
(* with no lock: it is two halves here, written and read one at a time.    *)
(* The thread writes constant poses, so a half is either still the one of  *)
(* a new device or the one the thread writes.                              *)
(*                                                                         *)
(* The runtime is external.  It initialises a driver it has cleaned up, or *)
(* whose Init failed, and activates the devices it accepted.               *)
(***************************************************************************)
EXTENDS Naturals

CONSTANT MaxInits       \* calls of Init (a bound)

ASSUME InitsAssumption == MaxInits \in Nat

Devices == 1 .. 3       \* headset_, left_controller_, right_controller_
Headset == 1
Halves  == 1 .. 2

VARIABLES
    inits,      \* calls of Init
    main,       \* where the runtime's thread is
    running,    \* running_
    joinable,   \* tracking_thread_.joinable()
    pc,         \* where the tracking thread is
    writing,    \* the device and the half it writes next
    devices,    \* the devices that are not null
    active,     \* the devices with a valid object_id_
    added,      \* the devices the runtime accepted
    pose,       \* current_pose_ of each device, in halves
    reading,    \* the device RunFrame is at
    copy,       \* the halves of its pose RunFrame has copied
    settled,    \* history: that pose was complete before the copy began
    reported    \* history: what RunFrame reported last for each device

runtimeVars == <<inits, main, added, active>>
trackVars   == <<running, joinable, pc, writing>>
frameVars   == <<reading, copy, settled, reported>>
vars        == <<runtimeVars, trackVars, devices, pose, frameVars>>

NewPose == [h \in Halves |-> "default"]
Tracked == [h \in Halves |-> "tracked"]
Start   == [device |-> Headset, half |-> 1]

Init ==
    /\ inits = 0
    /\ main = "idle"
    /\ running = FALSE
    /\ joinable = FALSE
    /\ pc = "none"
    /\ writing = Start
    /\ devices = {}
    /\ active = {}
    /\ added = {}
    /\ pose = [d \in Devices |-> NewPose]
    /\ reading = Headset
    /\ copy = <<>>
    /\ settled = FALSE
    /\ reported = [d \in Devices |-> NewPose]

-----------------------------------------------------------------------------
(* DriverBase::Init. *)

\* New devices replace those a failed Init left behind.
MakeDevices ==
    /\ main \in {"idle", "failed"}
    /\ inits < MaxInits
    /\ inits' = inits + 1
    /\ devices' = Devices
    /\ pose' = [d \in Devices |-> NewPose]
    /\ active' = {}
    /\ added' = {}
    /\ main' = "adding"
    /\ UNCHANGED <<trackVars, frameVars>>

\* Without the headset Init fails; without a controller it goes on.
AddDevices ==
    /\ main = "adding"
    /\ added' \in SUBSET Devices
    /\ main' = IF Headset \in added' THEN "starting" ELSE "failed"
    /\ Headset \notin added' => added' = {}
    /\ UNCHANGED <<inits, active, trackVars, devices, pose, frameVars>>

\* Mutant: the thread is started before its flag is raised, and not again after.
LeaveFlagDown == UNCHANGED running

RaiseFlag == running' = TRUE

\* Assigning to a std::thread that is still joinable terminates the process.
StartThread ==
    /\ main = "starting"
    /\ RaiseFlag
    /\ IF joinable
       THEN main' = "terminated" /\ UNCHANGED <<joinable, pc, writing>>
       ELSE /\ main' = "ready"
            /\ joinable' = TRUE
            /\ pc' = "check"
            /\ writing' = Start
    /\ UNCHANGED <<inits, added, active, devices, pose, frameVars>>

-----------------------------------------------------------------------------
(* The devices, activated and deactivated by the runtime. *)

Activate(d) ==
    /\ main = "ready"
    /\ d \in added \ active
    /\ active' = active \cup {d}
    /\ UNCHANGED <<inits, main, added, trackVars, devices, pose, frameVars>>

Deactivate(d) ==
    /\ main = "ready"
    /\ d \in active
    /\ active' = active \ {d}
    /\ UNCHANGED <<inits, main, added, trackVars, devices, pose, frameVars>>

-----------------------------------------------------------------------------
(* DriverBase::RunFrame, device by device; GetPose copies half by half. *)

FrameBegins ==
    /\ main = "ready"
    /\ main' = "frame"
    /\ reading' = Headset
    /\ copy' = <<>>
    /\ UNCHANGED <<inits, added, active, trackVars, devices, pose, settled, reported>>

ReadFirstHalf ==
    /\ main = "frame" /\ copy = <<>>
    /\ copy' = <<pose[reading][1]>>
    /\ settled' = (pose[reading] = Tracked)
    /\ UNCHANGED <<runtimeVars, trackVars, devices, pose, reading, reported>>

\* The rest of the copy and TrackedDevicePoseUpdated.
ReadSecondHalf ==
    /\ main = "frame" /\ copy # <<>>
    /\ reported' = [reported EXCEPT ![reading] = <<copy[1], pose[reading][2]>>]
    /\ copy' = <<>>
    /\ IF reading + 1 \in Devices
       THEN reading' = reading + 1 /\ UNCHANGED main
       ELSE main' = "ready" /\ UNCHANGED reading
    /\ UNCHANGED <<inits, added, active, trackVars, devices, pose, settled>>

RunFrame == FrameBegins \/ ReadFirstHalf \/ ReadSecondHalf

-----------------------------------------------------------------------------
(* DriverBase::Cleanup, called by the runtime or by the destructor. *)

\* Mutant: the flag is left up.
LeaveFlagUp == UNCHANGED running

LowerFlag == running' = FALSE

CleanupBegins ==
    /\ main \in {"idle", "ready", "failed"}
    /\ LowerFlag
    /\ main' = "joining"
    /\ UNCHANGED <<inits, added, active, joinable, pc, writing, devices, pose, frameVars>>

\* Mutant: the thread is joined only while the flag is up.
JoinIfRunning == (running /\ pc = "done" /\ joinable' = FALSE) \/ (~running /\ UNCHANGED joinable)

JoinThread == (joinable => pc = "done") /\ joinable' = FALSE

CleanupJoins ==
    /\ main = "joining"
    /\ JoinThread
    /\ main' = "resetting"
    /\ UNCHANGED <<inits, added, active, running, pc, writing, devices, pose, frameVars>>

\* A device that is destroyed is deactivated.
CleanupResets ==
    /\ main = "resetting"
    /\ devices' = {}
    /\ active' = {}
    /\ main' = "idle"
    /\ UNCHANGED <<inits, added, trackVars, pose, frameVars>>

Cleanup == CleanupBegins \/ CleanupJoins \/ CleanupResets

-----------------------------------------------------------------------------
(* tracking_thread_func: one iteration writes the three poses. *)

TrackLoop ==
    /\ pc = "check"
    /\ pc' = IF running THEN "write" ELSE "done"
    /\ writing' = Start
    /\ UNCHANGED <<runtimeVars, running, joinable, devices, pose, frameVars>>

\* Mutant: the pose is cleared before it is assigned.
WriteOverCleared(d, h) ==
    pose' = [pose EXCEPT ![d] = IF h = 1 THEN [NewPose EXCEPT ![1] = "tracked"] ELSE Tracked]

WriteHalf(d, h) == pose' = [pose EXCEPT ![d][h] = "tracked"]

\* Mutant: the second half is not recognised as the last one.
NextHalfUnbounded == [writing EXCEPT !.half = @ + 1]

NextHalf ==
    IF writing.half = 1
    THEN [writing EXCEPT !.half = 2]
    ELSE [device |-> writing.device + 1, half |-> 1]

UpdatePose ==
    /\ pc = "write"
    /\ WriteHalf(writing.device, writing.half)
    /\ IF NextHalf.device \in Devices
       THEN writing' = NextHalf /\ UNCHANGED pc
       ELSE writing' = Start /\ pc' = "check"
    /\ UNCHANGED <<runtimeVars, running, joinable, devices, frameVars>>

TrackingThread == TrackLoop \/ UpdatePose

-----------------------------------------------------------------------------

Runtime ==
    \/ MakeDevices \/ AddDevices \/ StartThread \/ RunFrame
    \/ \E d \in Devices : Activate(d) \/ Deactivate(d)

Next == Runtime \/ Cleanup \/ TrackingThread

Spec == Init /\ [][Next]_vars

\* The operating system runs both threads; the runtime need not call again.
FairSpec ==
    /\ Spec
    /\ WF_vars(TrackingThread)
    /\ WF_vars(CleanupJoins \/ CleanupResets \/ ReadFirstHalf \/ ReadSecondHalf)

-----------------------------------------------------------------------------
(* Properties. *)

\* Types of every variable.
TypeOK ==
    /\ inits \in 0 .. MaxInits
    /\ main \in {"idle", "adding", "failed", "starting", "terminated", "ready", "frame",
                 "joining", "resetting"}
    /\ running \in BOOLEAN /\ joinable \in BOOLEAN /\ settled \in BOOLEAN
    /\ pc \in {"none", "check", "write", "done"}
    /\ writing \in [device : Devices, half : Halves]
    /\ devices \subseteq Devices /\ active \subseteq Devices /\ added \subseteq Devices
    /\ pose \in [Devices -> [Halves -> {"default", "tracked"}]]
    /\ reading \in Devices
    /\ copy \in {<<>>, <<"default">>, <<"tracked">>}
    /\ reported \in [Devices -> [Halves -> {"default", "tracked"}]]

\* tracking_thread_func and RunFrame dereference the devices Cleanup resets and
\* Init replaces: neither is ever at a device that is gone, nor has such a device an id.
DevicesOutliveUse ==
    /\ pc = "write" => writing.device \in devices /\ main \notin {"adding", "resetting"}
    /\ main = "frame" => reading \in devices
    /\ active \subseteq devices

\* Init never assigns to a thread that was not joined (DriverBase.cpp:51), over
\* any sequence of failed and successful Inits and Cleanups.
NeverTerminates == main # "terminated"

\* From a successful Init to the next Cleanup the tracking thread is in its loop.
TracksWhileReady == main \in {"ready", "frame"} => pc \in {"check", "write"}

\* The copy RunFrame reports may be torn only the first time: once a pose has been
\* written completely, whatever the thread does during the copy, it is reported whole.
WholePoseReported ==
    [][\A d \in Devices :
         reading = d /\ settled /\ ReadSecondHalf => reported'[d] = Tracked]_vars

\* Cleanup returns: the thread it joins sees running_ and leaves its loop.
CleanupReturns == main \in {"joining", "resetting"} ~> main = "idle"

-----------------------------------------------------------------------------
(* The inductive invariant behind the theorems of SteamVRDriverProofs.      *)

\* A thread that was started and not joined has all devices, and its flag is up
\* until Cleanup; without one no thread is in its loop.
ThreadInv ==
    /\ joinable => devices = Devices /\ main \in {"ready", "frame", "joining"}
    /\ pc \in {"check", "write"} => joinable
    /\ main \in {"ready", "frame"} => running /\ pc \in {"check", "write"}
    /\ main \in {"adding", "starting"} => devices = Devices

\* A copy of a complete pose is complete so far, and the pose stays complete.
CopyInv ==
    main = "frame" /\ copy # <<>> /\ settled =>
        pose[reading] = Tracked /\ copy = <<"tracked">>

Inv == TypeOK /\ NeverTerminates /\ ThreadInv /\ CopyInv /\ active \subseteq devices

-----------------------------------------------------------------------------
(* Why CleanupReturns: what the join waits for comes nearer by every step.  *)

\* Steps the tracking thread has left, once the flag is down.
Distance ==
    IF pc = "check" THEN 1
    ELSE IF pc = "write" THEN 2 * (3 - writing.device) + (2 - writing.half) + 2
    ELSE 0

\* The flag stays down while Cleanup joins, and a joinable thread was started.
LoweredInv == (main = "joining" => ~running) /\ (joinable => pc # "none")

\* A join can go on, or the thread has one of a bounded number of steps left.
JoinNotStuck ==
    main = "joining" =>
        /\ Distance \in 0 .. 7
        /\ IF Distance = 0 THEN joinable => pc = "done" ELSE pc \in {"check", "write"}

\* While Cleanup joins, a step of the thread brings its end nearer and nothing
\* puts it off: the thread never turns round for another iteration.
JoinComesNearer ==
    [][main = "joining" =>
         Distance' \in Nat /\ IF TrackingThread THEN Distance' < Distance ELSE Distance' = Distance]_vars
=============================================================================
