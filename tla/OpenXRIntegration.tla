-------------------------- MODULE OpenXRIntegration --------------------------
(***************************************************************************)
(* phonevr::OpenXRIntegration: the handles it makes and destroys, the      *)
(* frames it submits, and the flag session_running_ it keeps from the      *)
(* session events it polls.  One thread owns the object and calls it;      *)
(* the OpenXR runtime is external, changes the session's state whenever it *)
(* likes, and says so in events that are read later.                       *)
(*                                                                         *)
(* The owner calls initialize on a new object or after shutdown.  The code *)
(* is the one compiled with SUPPORT_OPENXR.  xrEndSession is never called, *)
(* so a session that stops does not become idle again.  head_space_ is     *)
(* never made.  Poses, images and layers are left out.                     *)
(***************************************************************************)
EXTENDS Naturals, Sequences

CONSTANTS
    MaxInits,       \* calls of initialize
    MaxEvents,      \* events the runtime has ready at a time
    Views           \* views of the stereo configuration, one swapchain each

ASSUME BoundAssumption == MaxInits \in Nat /\ MaxEvents \in Nat /\ Views \in 0 .. 2

VARIABLES
    pc,             \* what the owner's call does next
    step,           \* shutdown: handles it has looked at
    handles,        \* the handles that are not XR_NULL_HANDLE
    view_count,     \* view_count_
    available,      \* available_
    session_running,\* session_running_
    xr,             \* the runtime's state of the session
    begun,          \* xrBeginSession has succeeded for it
    refused,        \* xrBeginSession has been called for it and has failed
    events,         \* events not polled yet
    inits           \* calls of initialize so far

ownerVars   == <<pc, step, handles, view_count, available, session_running, inits>>
runtimeVars == <<xr, begun, refused, events>>
vars == <<ownerVars, runtimeVars>>

Handles    == {"instance", "session", "space", "left", "right"}
Swapchain  == <<"left", "right">>
Parent(h)  == IF h = "session" THEN "instance" ELSE "session"
Running    == {"ready", "synchronized", "visible", "focused"}
States     == Running \cup {"none", "idle", "stopping", "exiting", "lost"}

Init ==
    /\ pc = "idle" /\ step = 0
    /\ handles = {} /\ view_count = 0
    /\ available = FALSE /\ session_running = FALSE
    /\ xr = "none" /\ begun = FALSE /\ refused = FALSE /\ events = <<>>
    /\ inits = 0

-----------------------------------------------------------------------------
(* initialize: a failure leaves what was made so far. *)

CreateInstance ==
    /\ pc = "idle" /\ handles = {} /\ inits < MaxInits
    /\ inits' = inits + 1
    /\ \/ pc' = "session" /\ handles' = {"instance"}
       \/ UNCHANGED <<pc, handles>>
    /\ UNCHANGED <<step, view_count, available, session_running, runtimeVars>>

\* Mutant: the views of a configuration with two more of them.
QuadCounts == 0 .. Views + 2

\* The enumeration's result is ignored: the count may be left at zero.
ViewCounts == 0 .. Views

\* The handles without a headset, without a reference space, and with both.
CreateSession ==
    /\ pc = "session"
    /\ view_count' \in ViewCounts
    /\ \/ pc' = "idle" /\ UNCHANGED <<handles, xr, events>>
       \/ /\ \/ pc' = "idle" /\ handles' = handles \cup {"session"}
             \/ pc' = "swapchains" /\ handles' = handles \cup {"session", "space"}
          /\ xr' = "idle" /\ events' = Append(events, "idle")
    /\ UNCHANGED <<step, available, session_running, begun, refused, inits>>

CreateSwapchains ==
    /\ pc = "swapchains"
    /\ \E n \in 0 .. view_count :
         /\ handles' = handles \cup {Swapchain[i] : i \in 1 .. n}
         /\ available' = (n = view_count)
    /\ pc' = "idle"
    /\ UNCHANGED <<step, view_count, session_running, inits, runtimeVars>>

Initialize == CreateInstance \/ CreateSession \/ CreateSwapchains

-----------------------------------------------------------------------------
(* shutdown, and the destructor. *)

\* Mutant: the spaces and the session go before the swapchains.
SessionFirst == <<"space", "session", "left", "right", "instance">>

Order == <<"left", "right", "space", "session", "instance">>

ShutdownBegins ==
    /\ pc = "idle"
    /\ pc' = "shutdown" /\ step' = 0
    /\ UNCHANGED <<handles, view_count, available, session_running, inits, runtimeVars>>

\* With the session go its state, with the instance the events.
DestroyNext ==
    /\ pc = "shutdown" /\ step < 5
    /\ step' = step + 1
    /\ handles' = handles \ {Order[step + 1]}
    /\ IF Order[step + 1] = "session" THEN xr' = "none" /\ begun' = FALSE /\ refused' = FALSE
                                      ELSE UNCHANGED <<xr, begun, refused>>
    /\ events' = IF Order[step + 1] = "instance" THEN <<>> ELSE events
    /\ UNCHANGED <<pc, view_count, available, session_running, inits>>

\* Mutant: the flag outlives the session.
KeepFlag == UNCHANGED session_running

ClearFlag == session_running' = FALSE

ShutdownEnds ==
    /\ pc = "shutdown" /\ step = 5
    /\ pc' = "idle" /\ step' = 0
    /\ available' = FALSE
    /\ ClearFlag
    /\ UNCHANGED <<handles, view_count, inits, runtimeVars>>

Shutdown == ShutdownBegins \/ DestroyNext \/ ShutdownEnds

-----------------------------------------------------------------------------
(* poll_events: each event that is ready. *)

\* Mutant: the session is begun by the first event of any state.
BeginsEarly(e) == e \notin {"stopping", "exiting", "lost"}

\* Mutant: the session is begun when it is synchronized.
BeginsLate(e) == e \in {"synchronized", "visible", "focused"}

Begins(e) == e \in Running

\* Mutant: the end of the session is not noticed.
StopsNever(e) == FALSE

Stops(e) == e = "stopping"

\* xrBeginSession may fail in the state that allows it, and fails in any other;
\* its result is ignored.
BeginSession ==
    /\ session_running' = TRUE
    /\ \/ xr = "ready" /\ begun' = TRUE /\ UNCHANGED refused
       \/ refused' = TRUE /\ UNCHANGED begun

\* "exiting" and "lost" make poll_events return FALSE and change nothing.
HandleEvent ==
    /\ pc = "idle" /\ events /= <<>>
    /\ LET e == Head(events) IN
         \/ Begins(e) /\ ~session_running /\ BeginSession
         \/ Begins(e) /\ session_running /\ UNCHANGED <<session_running, begun, refused>>
         \/ Stops(e) /\ session_running' = FALSE /\ UNCHANGED <<begun, refused>>
         \/ ~Begins(e) /\ ~Stops(e) /\ UNCHANGED <<session_running, begun, refused>>
    /\ events' = Tail(events)
    /\ UNCHANGED <<pc, step, handles, view_count, available, inits, xr>>

-----------------------------------------------------------------------------
(* submit_eye_swapchains: three calls, no result of which is looked at. *)

WaitFrame ==
    /\ pc = "idle" /\ session_running
    /\ pc' = "begin"
    /\ UNCHANGED <<step, handles, view_count, available, session_running, inits, runtimeVars>>

BeginFrame ==
    /\ pc = "begin"
    /\ pc' = "end"
    /\ UNCHANGED <<step, handles, view_count, available, session_running, inits, runtimeVars>>

EndFrame ==
    /\ pc = "end"
    /\ pc' = "idle"
    /\ UNCHANGED <<step, handles, view_count, available, session_running, inits, runtimeVars>>

Submit == WaitFrame \/ BeginFrame \/ EndFrame

-----------------------------------------------------------------------------
(* The runtime: which state may follow which. *)

Follows(s) ==
    CASE s = "idle"         -> {"ready", "exiting", "lost"}
      [] s = "ready"        -> IF begun THEN {"synchronized", "lost"} ELSE {"lost"}
      [] s = "synchronized" -> {"visible", "stopping", "lost"}
      [] s = "visible"      -> {"focused", "synchronized", "lost"}
      [] s = "focused"      -> {"visible", "lost"}
      [] s = "stopping"     -> {"lost"}
      [] OTHER              -> {}

Runtime ==
    /\ Len(events) < MaxEvents
    /\ xr' \in Follows(xr)
    /\ events' = Append(events, xr')
    /\ UNCHANGED <<ownerVars, begun, refused>>

Next == Initialize \/ Shutdown \/ HandleEvent \/ Submit \/ Runtime

\* No fairness: neither of the owner nor of the runtime is anything assumed.
Spec == Init /\ [][Next]_vars

-----------------------------------------------------------------------------
(* Properties. *)

TypeOK ==
    /\ pc \in {"idle", "session", "swapchains", "shutdown", "begin", "end"}
    /\ step \in 0 .. 5
    /\ handles \subseteq Handles
    /\ view_count \in 0 .. Views
    /\ available \in BOOLEAN /\ session_running \in BOOLEAN
    /\ begun \in BOOLEAN /\ refused \in BOOLEAN
    /\ xr \in States
    /\ events \in Seq(States)
    /\ inits \in 0 .. MaxInits

\* Whatever initialize got to before it failed, shutdown destroys a space or a
\* swapchain before the session and the session before the instance, and
\* leaves nothing.
HandlesNested ==
    /\ \A h \in handles \ {"instance"} : Parent(h) \in handles
    /\ pc = "shutdown" /\ step = 5 => handles = {}

\* A frame is submitted only to a session that was begun or, because nobody looks
\* at the result of xrBeginSession, to one that call failed for: never to one it
\* was not called for, also after a shutdown and a second initialize.
FramesOnBegunSession ==
    \/ pc = "shutdown"
    \/ session_running \/ pc \in {"begin", "end"} => begun \/ refused

\* When every event has been handled session_running_ is what the runtime says,
\* unless the session was lost.
FlagAgrees ==
    pc = "idle" /\ events = <<>> /\ xr /= "lost" => (session_running <=> xr \in Running)

\* However far the runtime has gone on since it sent the event, xrBeginSession is
\* called once for a session, not even again if that call failed, and in the
\* state that allows it unless the session has been lost meanwhile.
BeginOnlyWhenReady ==
    [][~session_running /\ session_running' => ~begun /\ ~refused /\ xr \in {"ready", "lost"}]_vars

\* For an owner that polls, so that no event is left again and again, a ready
\* session has xrBeginSession called for it, unless it is lost or destroyed first.
Polls == []<>(events = <<>>)
ReadyBegins == Polls => (xr = "ready" ~> begun \/ refused \/ xr \in {"lost", "none"})
-----------------------------------------------------------------------------
(* The inductive invariant. *)

\* Which handles there are while a call is under way, and what a session that
\* does not exist cannot have.
HandleInv ==
    /\ \A h \in handles \ {"instance"} : Parent(h) \in handles
    /\ pc /= "shutdown" => step = 0
    /\ pc = "session" => handles = {"instance"}
    /\ pc = "swapchains" => handles = {"instance", "session", "space"}
    /\ pc \in {"begin", "end"} => "session" \in handles
    /\ \A i \in 1 .. step : Order[i] \notin handles
    /\ xr = "none" <=> "session" \notin handles

\* The event sent last tells the runtime's state; a session that runs was
\* begun or is still to be, and one that stops has no other event after that.
\* Between the session and the instance, shutdown leaves events behind.
EventInv ==
    /\ begun => xr \in States \ {"none", "idle", "exiting"}
    /\ ~begun => xr \in {"none", "idle", "ready", "exiting", "lost"}
    /\ refused => ~begun /\ xr \in {"ready", "lost"}
    /\ step /= 4 =>
         /\ xr = "none" => events = <<>>
         /\ events /= <<>> => events[Len(events)] = xr
         /\ \A i \in 1 .. Len(events) :
              /\ events[i] \in Running => begun \/ xr \in {"ready", "lost"}
              /\ events[i] = "stopping" =>
                   /\ begun /\ xr \in {"stopping", "lost"}
                   /\ \A j \in i .. Len(events) : events[j] \notin Running

\* session_running_ lags behind the runtime by the events not polled yet, as long
\* as the session is there.
FlagInv ==
    step < 4 =>
        /\ session_running \/ pc \in {"begin", "end"} => begun \/ refused
        /\ refused => session_running
        /\ events = <<>> /\ xr /= "lost" => (session_running <=> xr \in Running)
        /\ begun /\ ~session_running =>
             /\ xr \in {"stopping", "lost"}
             /\ \A i \in 1 .. Len(events) : events[i] \notin Running

Inv == TypeOK /\ HandleInv /\ EventInv /\ FlagInv

-----------------------------------------------------------------------------
(* Why ReadyBegins: the event that begins a ready session is never lost.    *)

\* A ready session xrBeginSession was not called for has its event still to be
\* polled, and no flag that would make HandleEvent skip the call.
BeginStillComes ==
    xr = "ready" /\ ~begun /\ ~refused =>
        ~session_running /\ events /= <<>> /\ events[Len(events)] = "ready"

\* While it waits, the runtime sends no further event but the session's loss, so
\* each poll brings its event nearer.
BeginComesNearer ==
    [][xr = "ready" /\ ~begun /\ xr' = "ready" /\ ~begun' =>
         /\ Len(events') <= Len(events)
         /\ HandleEvent => Len(events') < Len(events)]_vars
=============================================================================
