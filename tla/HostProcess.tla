----------------------------- MODULE HostProcess -----------------------------
(***************************************************************************)
(* The Windows host process: WinMain and the objects on its stack, the two *)
(* receiving threads that call back into them, the GPU, and the launcher   *)
(* that starts and ends the process.  What the receiving threads do before *)
(* they call back is the subject of NetworkReceiver; here a thread checks  *)
(* running_, receives, and runs a callback.  process_packet looks at the   *)
(* type of a packet and not at where it came from, so either thread may be *)
(* given a tracking frame or a video packet, and both may be in a callback *)
(* at once.  TerminateProcess is taken to end the process at once.         *)
(***************************************************************************)
EXTENDS D3D12Renderer, HardwareDecoder, StatsCollector, ServerManager

CONSTANT MaxWork    \* launches, frames the process renders and video packets
                    \* its threads are given, together (a bound)

ASSUME WorkAssumption == MaxWork \in Nat

VARIABLES
    g_running,      \* g_running, cleared by the signal handler
    quit,           \* the message WinMain drained last is WM_QUIT
    running,        \* the receiver's running_
    pc,             \* where its two threads are
    packet,         \* of each thread: the format of the video packet it was given
    packets         \* video packets given to callbacks so far (for the bound)

processVars == <<g_running, quit, running, pc, packet, packets>>
vars == <<main, rendererVars, decoderVars, statsVars, launcherVars, processVars>>

Threads  == {"control", "video"}
Ended    == {"none", "exited", "crashed", "terminated"}
Alive    == main \notin Ended
Calling(t) == pc[t] \in {"pose", "decode", "create", "input", "stamp", "record"}

NewProcess(g, q, ru, p, pa, n) ==
    /\ g = TRUE /\ q = FALSE /\ ru = FALSE /\ n = 0
    /\ p = [t \in Threads |-> "none"] /\ pa = [t \in Threads |-> NoFormat]

Init ==
    /\ main = "none"
    /\ RendererInit /\ DecoderInit(Threads) /\ StatsInit(Threads) /\ ManagerInit
    /\ NewProcess(g_running, quit, running, pc, packet, packets)

\* The process's memory goes with it.
MemoryLost ==
    /\ RendererLost /\ DecoderLost(Threads) /\ StatsLost(Threads)
    /\ NewProcess(g_running', quit', running', pc', packet', packets')

-----------------------------------------------------------------------------
(* The launcher. *)

Launch == StartHostProcess /\ main' = "window" /\ MemoryLost

\* TerminateProcess fails for a process that has ended, and may for another.
Terminate ==
    \/ Alive /\ StopHostProcess(TRUE) /\ main' = "terminated" /\ MemoryLost
    \/ /\ StopHostProcess(FALSE)
       /\ UNCHANGED <<main, rendererVars, decoderVars, statsVars, processVars>>

-----------------------------------------------------------------------------
(* WinMain. *)

OthersUnchanged == UNCHANGED <<decoderVars, statsVars, launcherVars>>

Render == RendererStep /\ OthersUnchanged /\ UNCHANGED processVars

Crash == CallsNull /\ main' = "crashed" /\ MemoryLost /\ UNCHANGED launcherVars

\* receiver.start raises running_ before anything can fail.  WinMain does not
\* call decoder.initialize, without which decode gives nothing; both the
\* program as it is and one whose owner calls it are explored.
StartReceiver ==
    /\ main = "receiver"
    /\ running' = TRUE
    /\ \/ main' = "loop" /\ pc' = [t \in Threads |-> "check"]
       \/ main' = "unwind" /\ UNCHANGED pc
    /\ InitializeDecoder \/ UNCHANGED decoderVars
    /\ UNCHANGED <<g_running, quit, packet, packets, rendererVars, statsVars, launcherVars>>

Room == launches + presents + packets < MaxWork

\* The messages are drained; the last one may be WM_QUIT.  One more frame is
\* rendered before the loop looks.
DrainMessages ==
    /\ main = "loop"
    /\ g_running /\ ~quit
    /\ Room
    /\ quit' \in BOOLEAN
    /\ main' = "frame"
    /\ OthersUnchanged
    /\ UNCHANGED <<g_running, running, pc, packet, packets, rendererVars>>

StopReceiver ==
    /\ main = "loop"
    /\ ~g_running \/ quit
    /\ running' = FALSE
    /\ main' = "join"
    /\ OthersUnchanged
    /\ UNCHANGED <<g_running, quit, pc, packet, packets, rendererVars>>

\* Mutant: the threads are left to themselves.
JoinNone == TRUE

Joined == \A t \in Threads : pc[t] = "done"

JoinThreads ==
    /\ main = "join"
    /\ Joined
    /\ main' = "unwind"
    /\ OthersUnchanged
    /\ UNCHANGED <<processVars, rendererVars>>

\* The fence event is closed, the destructors of the renderer, the decoder,
\* the statistics and the receiver end, and WinMain returns.
Exit == main = "close" /\ main' = "exited" /\ MemoryLost /\ UNCHANGED launcherVars

WinMain ==
    Render \/ Crash \/ StartReceiver \/ DrainMessages \/ StopReceiver \/ JoinThreads \/ Exit

SignalHandler ==
    /\ Alive
    /\ g_running' = FALSE
    /\ OthersUnchanged
    /\ UNCHANGED <<main, rendererVars, quit, running, pc, packet, packets>>

GpuStep == Gpu /\ OthersUnchanged /\ UNCHANGED processVars

-----------------------------------------------------------------------------
(* The receiving threads and their callbacks. *)

Go(t, place) == pc' = [pc EXCEPT ![t] = place]

\* A thread leaves the renderer, the launcher and the main thread alone.
ThreadOnly == UNCHANGED <<main, rendererVars, launcherVars, g_running, quit, running>>

Check(t) ==
    /\ pc[t] = "check"
    /\ Go(t, IF running THEN "recv" ELSE "done")
    /\ ThreadOnly
    /\ UNCHANGED <<decoderVars, statsVars, packet, packets>>

\* recv or recvfrom, and process_packet: nothing for a callback, a tracking
\* frame, or a video packet.
Receive(t) ==
    /\ pc[t] = "recv"
    /\ \/ Go(t, "check") /\ UNCHANGED <<packet, packets>>
       \/ Go(t, "pose") /\ UNCHANGED <<packet, packets>>
       \/ /\ Room
          /\ Go(t, "decode")
          /\ \E p \in Formats : packet' = [packet EXCEPT ![t] = p]
          /\ packets' = packets + 1
    /\ ThreadOnly
    /\ UNCHANGED <<decoderVars, statsVars>>

\* on_tracking_frame: the pose is written, where no frame reads it.
OnTrackingFrame(t) ==
    /\ pc[t] = "pose"
    /\ Go(t, "check")
    /\ ThreadOnly
    /\ UNCHANGED <<decoderVars, statsVars, packet, packets>>

\* The packet goes out of scope with the callback.
Drop(t) == packet' = [packet EXCEPT ![t] = NoFormat]

Decoding(t) == pc[t] \in {"create", "input"}

\* on_video_packet calls decode, which gives nothing before initialize.
DecodeBegins(t) ==
    /\ pc[t] = "decode"
    /\ \/ ~initialized /\ Go(t, "check") /\ Drop(t) /\ UNCHANGED decoderVars
       \/ \E fits \in BOOLEAN :
             /\ CompareFormat(packet[t], \E u \in Threads \ {t} : Decoding(u), fits)
             /\ Go(t, IF fits THEN "input" ELSE "create")
             /\ UNCHANGED packet
    /\ ThreadOnly
    /\ UNCHANGED <<statsVars, packets>>

DecodeCreates(t) ==
    /\ pc[t] = "create"
    /\ \E succeeds \in BOOLEAN :
         /\ CreateDecoder(packet[t], succeeds)
         /\ IF succeeds THEN Go(t, "input") /\ UNCHANGED packet ELSE Go(t, "check") /\ Drop(t)
    /\ ThreadOnly
    /\ UNCHANGED <<statsVars, packets>>

\* The decoder refuses the packet or wants more input, or gives a frame, which
\* goes to present_frame, which is empty.
DecodeEnds(t) ==
    /\ pc[t] = "input"
    /\ decoder /= NoFormat
    /\ \/ Go(t, "check") /\ UNCHANGED decoderVars
       \/ Go(t, "stamp") /\ GiveFrame(t, packet[t])
    /\ Drop(t)
    /\ ThreadOnly
    /\ UNCHANGED <<statsVars, packets>>

\* A decoder is called that another call has replaced, or has left null.
DecodeCrashes(t) ==
    /\ Decoding(t)
    /\ together
    /\ main' = "crashed"
    /\ MemoryLost
    /\ UNCHANGED launcherVars

RecordBegins(t) ==
    /\ pc[t] = "stamp"
    /\ ReadClock(t)
    /\ Go(t, "record")
    /\ ThreadOnly
    /\ UNCHANGED <<decoderVars, packet, packets>>

RecordEnds(t) ==
    /\ pc[t] = "record"
    /\ RecordFrame(t)
    /\ DropFrame(t)
    /\ Go(t, "check")
    /\ ThreadOnly
    /\ UNCHANGED <<packet, packets>>

Thread ==
    \E t \in Threads :
        \/ Check(t) \/ Receive(t) \/ OnTrackingFrame(t)
        \/ DecodeBegins(t) \/ DecodeCreates(t) \/ DecodeEnds(t) \/ DecodeCrashes(t)
        \/ RecordBegins(t) \/ RecordEnds(t)

Statistics ==
    /\ Alive
    /\ Tick \/ Reset
    /\ UNCHANGED <<main, rendererVars, decoderVars, launcherVars, processVars>>

Next == Launch \/ Terminate \/ WinMain \/ SignalHandler \/ GpuStep \/ Thread \/ Statistics

\* Windows runs the main thread and the GPU; nothing is assumed of the user,
\* the launcher or the network.
Spec == Init /\ [][Next]_vars /\ WF_vars(WinMain) /\ WF_vars(GpuStep)

-----------------------------------------------------------------------------
(* Properties. *)

Steps == {"none", "check", "recv", "pose", "decode", "create", "input", "stamp", "record",
          "done"}

\* Type invariant, of the state and the external devices.
TypeOK ==
    /\ main \in Ended \cup {"window", "device", "swapchain", "resources", "shaders", "receiver",
                            "loop", "frame", "record", "signal", "check", "arm", "wait",
                            "join", "unwind", "close"}
    /\ after \in {"none", "loop", "close"} /\ made \subseteq {"device", "swapchain"}
    /\ presents \in 0 .. MaxWork /\ packets \in 0 .. MaxWork /\ frame_index \in Frames
    /\ fence_value \in Nat /\ completed \in Nat /\ armed \in Nat /\ event \in BOOLEAN
    /\ queue \in Seq([kind : {"list", "signal"}, of : Nat])
    /\ initialized \in BOOLEAN /\ typed \in BOOLEAN /\ together \in BOOLEAN
    /\ {decoder, current} \subseteq Formats \cup {NoFormat}
    /\ {frame, source, packet} \subseteq [Threads -> Formats \cup {NoFormat}]
    /\ now \in 0 .. MaxTime /\ stamp \in [Threads -> 0 .. MaxTime]
    /\ frame_times \in Seq(0 .. MaxTime) /\ recorded \in Seq(0 .. MaxTime)
    /\ host_running \in BOOLEAN /\ launches \in 0 .. MaxLaunches
    /\ g_running \in BOOLEAN /\ quit \in BOOLEAN /\ running \in BOOLEAN
    /\ pc \in [Threads -> Steps]

\* render_frame resets the allocator of the back buffer's frame: the GPU has
\* no list left that was recorded with it.
AllocatorNotInUse ==
    main = "record" => \A i \in 1 .. Len(queue) : queue[i] /= List(frame_index)

\* The destructors release the renderer's resources, and close the fence's
\* event, when the GPU has nothing left that uses them and waits for nobody.
ReleasedWhenIdle == main = "close" => queue = <<>> /\ armed = 0

\* A callback runs only on objects that live: after the renderer has been
\* initialised and before the first destructor begins.
CallbacksOnLiveObjects ==
    \A t \in Threads : Calling(t) =>
        /\ "swapchain" \in made
        /\ after /= "close"
        /\ main \in {"loop", "frame", "record", "signal", "check", "arm", "wait", "join"}

\* A frame that goes to present_frame was decoded by a decoder that was set to
\* the frame's size, whichever threads call decode, one after the other, and
\* whatever set-up failed before.  Two calls at once may break it.
FrameOfItsDecoder ==
    ~together => \A t \in Threads : frame[t] /= NoFormat => source[t].size = frame[t].size

\* frame_times_, whose length is the frame rate, holds the last frames recorded:
\* its oldest is of the last second, and each one dropped was outdated by a later
\* one.  If the clock was read in the order the mutex was taken, it holds those
\* of the last second and no others.
InOrder == \A i, j \in 1 .. Len(recorded) : i <= j => recorded[i] <= recorded[j]
OutdatedFrom(k) ==
    /\ \A i \in 1 .. k : \E j \in i + 1 .. Len(recorded) : Outdates(recorded[j], recorded[i])
    /\ recorded /= <<>> => k < Len(recorded) /\ ~Outdates(Last(recorded), recorded[k + 1])
WindowIsLastSecond ==
    \E k \in 0 .. Len(recorded) :
        /\ frame_times = SubSeq(recorded, k + 1, Len(recorded))
        /\ OutdatedFrom(k)
        /\ InOrder => \A i \in 1 .. Len(recorded) : i <= k <=> Last(recorded) - recorded[i] > Second

\* The launcher never loses a process: while one runs, host_running_ is set,
\* so no second one is created and the first can be ended.
LauncherKnows == Alive => host_running

SetUp == {"window", "device", "swapchain", "resources", "shaders", "receiver"}
Waiting == main \in {"signal", "check", "arm", "wait"}

\* The two threads are those NetworkReceiver has in detail: what its WinMain
\* can count on of them, and nothing more, is what this one is given
\* (ReceivingThreads), until the process ends.
Owner ==
    IF main \in Ended \cup SetUp THEN "setup"
    ELSE IF main = "join" THEN "stopping"
    ELSE IF main \in {"unwind", "close"} \/ (Waiting /\ after = "close") THEN "gone"
    ELSE "running"
PlaceOf(p) ==
    CASE p \in {"none", "done"} -> p
      [] p = "check" -> "polling"
      [] OTHER -> "busy"

OwnedThreads == INSTANCE ReceivingThreads WITH
    owner <- Owner, flag <- running, place <- [t \in Threads |-> PlaceOf(pc[t])]
ImplementsReceivingThreads == OwnedThreads!ThreadsSpec

\* wait_for_gpu returns: whatever the GPU does between its steps, no wake-up
\* is lost.  Only the end of the process cuts it short.
WaitEnds == Waiting ~> ~Waiting
-----------------------------------------------------------------------------
(* The inductive invariant. *)

\* What of the renderer there is when the main thread is somewhere, and where
\* a wait returns to.
RendererInv ==
    /\ main \notin Ended \cup {"window", "device", "unwind"} => "device" \in made
    /\ main \in {"shaders", "receiver", "loop", "frame", "record", "join"} => "swapchain" \in made
    /\ Waiting => after \in {"loop", "close"} /\ (after = "loop" => "swapchain" \in made)
    /\ after = "close" => Waiting \/ main = "close"
    /\ main \in {"frame", "record"} => presents < MaxWork

\* What the GPU may still have to do while it is waited for.
Pending == {<<Signal(fence_value)>>, <<List(frame_index), Signal(fence_value)>>}

Done      == queue = <<>> /\ completed = fence_value
Unfinished == queue \in Pending /\ completed = fence_value - 1 /\ fence_value > 0

\* The GPU has nothing to do but within wait_for_gpu and one call before; the
\* event is set exactly when the wait it belongs to is to end.
FenceInv ==
    /\ ~Waiting => Done
    /\ main = "signal" => completed = fence_value /\ queue \in {<<>>, <<List(frame_index)>>}
    /\ main \in {"check", "arm"} => Done \/ Unfinished
    /\ main /= "wait" => armed = 0 /\ ~event
    /\ main = "wait" => (Done /\ event /\ armed = 0) \/ (Unfinished /\ ~event /\ armed = fence_value)

\* The threads run from the start of the receiver until they are joined.
ThreadInv ==
    main \in Ended \cup SetUp \cup {"unwind", "close"} \/ after = "close" =>
        \A t \in Threads : pc[t] \in {"none", "done"}

\* What one call of decode after another keeps: a decoder is of the size it is
\* compared by, and of the packet's when it is given the packet.
DecoderInv ==
    /\ \A t \in Threads : pc[t] \in {"decode", "create", "input"} => packet[t] \in Formats
    /\ ~together =>
         /\ \A t, u \in Threads : Decoding(t) /\ Decoding(u) => t = u
         /\ decoder /= NoFormat => decoder.size = current.size
         /\ \A t \in Threads : pc[t] = "input" =>
              decoder /= NoFormat /\ decoder.size = packet[t].size
    /\ FrameOfItsDecoder

Inv == TypeOK /\ RendererInv /\ FenceInv /\ ThreadInv /\ DecoderInv /\ LauncherKnows

-----------------------------------------------------------------------------
(* Why WaitEnds: wait_for_gpu is never put off, and what it waits for comes. *)

\* Steps that wait_for_gpu and the GPU have left, at most; 0 outside a wait.
WaitRank ==
    IF main = "signal" THEN Len(queue) + 5
    ELSE IF main = "check" THEN Len(queue) + 3
    ELSE IF main = "arm" THEN Len(queue) + 2
    ELSE IF main = "wait" THEN Len(queue) + 1
    ELSE 0

\* No wake-up is lost: while WaitForSingleObject blocks, the event is armed and
\* the queue still holds the signal that will set it.
WakeUpComes ==
    main = "wait" /\ ~event =>
        armed > 0 /\ \E i \in 1 .. Len(queue) : queue[i].kind = "signal" /\ queue[i].of >= armed

\* A wait has at most six steps left; each step of the main thread or the GPU
\* takes one off, and no thread, callback, signal handler or launcher adds one.
WaitComesNearer ==
    [][Waiting => /\ WaitRank \in 1 .. 6 /\ WaitRank' <= WaitRank
                  /\ WinMain \/ GpuStep => WaitRank' < WaitRank]_vars
=============================================================================
