---------------------------- MODULE D3D12Renderer ----------------------------
(***************************************************************************)
(* phonevr::D3D12Renderer, run by the main thread of the host process, and *)
(* the GPU it feeds.  A component without a specification of its own:      *)
(* HostProcess composes it with the process it lives in.                   *)
(*                                                                         *)
(* wait_for_gpu is several calls, and the GPU may finish between any two   *)
(* of them, so Signal, GetCompletedValue, SetEventOnCompletion and         *)
(* WaitForSingleObject are steps of their own.  It is called from          *)
(* render_frame and from the destructor's shutdown; `after' is the place   *)
(* it returns to.  Window, device, swap chain and shader compiler belong   *)
(* to the system: each may fail.  A null pointer that is called ends the   *)
(* process.  What a frame shows is left out.                               *)
(***************************************************************************)
EXTENDS Naturals, Sequences

CONSTANT NUM_FRAMES     \* frame contexts, one command allocator each

ASSUME FramesAssumption == NUM_FRAMES \in Nat \ {0}

VARIABLES
    main,           \* where the main thread is
    after,          \* where wait_for_gpu returns to
    made,           \* which of device_ and swap_chain_ are not null
    presents,       \* calls of Present: the swap chain turns by one at each
    frame_index,    \* frame_index_
    fence_value,    \* fence_value_
    queue,          \* what command_queue_ holds for the GPU, oldest first
    completed,      \* the fence's value
    armed,          \* the value SetEventOnCompletion waits for; 0 when none
    event           \* fence_event_, an auto-reset event

rendererVars == <<after, made, presents, frame_index, fence_value, queue, completed, armed,
                  event>>

Frames == 0 .. NUM_FRAMES - 1

List(f)   == [kind |-> "list", of |-> f]    \* recorded with the allocator of frame f
Signal(n) == [kind |-> "signal", of |-> n]  \* sets the fence to n

\* The renderer before WinMain calls initialize.
NewRenderer(a, md, pr, fi, fv, qu, co, ar, ev) ==
    /\ a = "none" /\ md = {} /\ pr = 0 /\ fi = 0 /\ fv = 0
    /\ qu = <<>> /\ co = 0 /\ ar = 0 /\ ev = FALSE

RendererInit ==
    NewRenderer(after, made, presents, frame_index, fence_value, queue, completed, armed, event)

RendererLost ==
    NewRenderer(after', made', presents', frame_index', fence_value', queue', completed',
                armed', event')

-----------------------------------------------------------------------------
(* initialize.  "unwind" is the early return of WinMain. *)

CreateMainWindow ==
    /\ main = "window"
    /\ main' \in {"device", "unwind"}
    /\ UNCHANGED rendererVars

\* FALSE when no hardware adapter offers the feature level.
CreateDevice ==
    /\ main = "device"
    /\ \/ main' = "swapchain" /\ made' = made \cup {"device"}
       \/ main' = "unwind" /\ UNCHANGED made
    /\ UNCHANGED <<after, presents, frame_index, fence_value, queue, completed, armed, event>>

\* TRUE whatever CreateSwapChainForHwnd returned.
CreateSwapchain ==
    /\ main = "swapchain"
    /\ main' = "resources"
    /\ made' \in {made, made \cup {"swapchain"}}
    /\ UNCHANGED <<after, presents, frame_index, fence_value, queue, completed, armed, event>>

\* GetBuffer is called on whatever As left in swap_chain_.
CreateRenderResources ==
    /\ main = "resources"
    /\ "swapchain" \in made
    /\ main' = "shaders"
    /\ UNCHANGED rendererVars

\* The calls on null: the swap chain, a shader that does not compile, and in
\* the destructor the command queue of a device that was never made.
CallsNull ==
    \/ main = "resources" /\ "swapchain" \notin made
    \/ main = "shaders"
    \/ main = "unwind" /\ "device" \notin made

CreateShaders ==
    /\ main = "shaders"
    /\ main' = "receiver"
    /\ UNCHANGED rendererVars

-----------------------------------------------------------------------------
(* render_frame, and wait_for_gpu for it and for shutdown. *)

\* Mutant: the frames are counted, not turned.
CountFrames == presents

CurrentBackBuffer == presents % NUM_FRAMES

\* The allocator of the frame is reset.
BeginFrame ==
    /\ main = "frame"
    /\ frame_index' = CurrentBackBuffer
    /\ main' = "record"
    /\ UNCHANGED <<after, made, presents, fence_value, queue, completed, armed, event>>

\* The list is recorded, closed and executed, and the back buffer presented.
ExecuteAndPresent ==
    /\ main = "record"
    /\ queue' = Append(queue, List(frame_index))
    /\ presents' = presents + 1
    /\ main' = "signal"
    /\ after' = "loop"
    /\ UNCHANGED <<made, frame_index, fence_value, completed, armed, event>>

\* ~D3D12Renderer calls shutdown, which starts with wait_for_gpu.
Shutdown ==
    /\ main = "unwind"
    /\ "device" \in made
    /\ main' = "signal"
    /\ after' = "close"
    /\ UNCHANGED <<made, presents, frame_index, fence_value, queue, completed, armed, event>>

\* Mutant: the value is signalled before it is incremented.
SignalOld == fence_value

SignalValue == fence_value + 1

SignalFence ==
    /\ main = "signal"
    /\ fence_value' = fence_value + 1
    /\ queue' = Append(queue, Signal(SignalValue))
    /\ main' = "check"
    /\ UNCHANGED <<after, made, presents, frame_index, completed, armed, event>>

\* Mutant: the fence may lag by as many frames as there are contexts.
ReachedAlmost == completed + NUM_FRAMES >= fence_value

Reached == completed >= fence_value

GetCompletedValue ==
    /\ main = "check"
    /\ main' = IF Reached THEN after ELSE "arm"
    /\ UNCHANGED rendererVars

\* The event is set at once when the fence has got there in the meantime.
SetEventOnCompletion ==
    /\ main = "arm"
    /\ IF completed >= fence_value
          THEN event' = TRUE /\ UNCHANGED armed
          ELSE armed' = fence_value /\ UNCHANGED event
    /\ main' = "wait"
    /\ UNCHANGED <<after, made, presents, frame_index, fence_value, queue, completed>>

WaitForEvent ==
    /\ main = "wait"
    /\ event
    /\ event' = FALSE
    /\ main' = after
    /\ UNCHANGED <<after, made, presents, frame_index, fence_value, queue, completed, armed>>

InitializeRenderer ==
    \/ CreateMainWindow \/ CreateDevice \/ CreateSwapchain
    \/ CreateRenderResources \/ CreateShaders

WaitForGpu == SignalFence \/ GetCompletedValue \/ SetEventOnCompletion \/ WaitForEvent

RendererStep ==
    InitializeRenderer \/ BeginFrame \/ ExecuteAndPresent \/ Shutdown \/ WaitForGpu

-----------------------------------------------------------------------------
(* The GPU takes what the queue holds, one after the other. *)

ExecuteList ==
    /\ queue /= <<>> /\ Head(queue).kind = "list"
    /\ queue' = Tail(queue)
    /\ UNCHANGED <<main, after, made, presents, frame_index, fence_value, completed, armed,
                   event>>

ExecuteSignal ==
    /\ queue /= <<>> /\ Head(queue).kind = "signal"
    /\ queue' = Tail(queue)
    /\ completed' = Head(queue).of
    /\ IF armed /= 0 /\ completed' >= armed
          THEN event' = TRUE /\ armed' = 0
          ELSE UNCHANGED <<event, armed>>
    /\ UNCHANGED <<main, after, made, presents, frame_index, fence_value>>

Gpu == ExecuteList \/ ExecuteSignal
=============================================================================
