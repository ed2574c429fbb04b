----------------------- MODULE OpenXRIntegrationProofs -----------------------
(***************************************************************************)
(* Theorems about OpenXRIntegration, for any number of initialisations and *)
(* of events the runtime is ahead: handles are nested, frames are given to *)
(* a session that was begun, and session_running_ follows the runtime.     *)
(***************************************************************************)
EXTENDS OpenXRIntegration, SequenceTheorems, TLAPS

USE BoundAssumption

LEMMA SwapchainIsHandle ==
    \A n \in 0 .. 2 : {Swapchain[i] : i \in 1 .. n} \subseteq {"left", "right"}
  BY DEF Swapchain

\* What an event appended to the queue, and one taken off it, leaves.
LEMMA AppendEvent ==
    ASSUME NEW q \in Seq(States), NEW e \in States
    PROVE  /\ Append(q, e) \in Seq(States)
           /\ Len(Append(q, e)) = Len(q) + 1
           /\ \A i \in 1 .. Len(q) : Append(q, e)[i] = q[i]
           /\ Append(q, e)[Len(q) + 1] = e
           /\ Append(q, e) /= <<>>
  OBVIOUS

LEMMA TailEvent ==
    ASSUME NEW q \in Seq(States), q /= <<>>
    PROVE  /\ Head(q) \in States /\ Head(q) = q[1]
           /\ Tail(q) \in Seq(States)
           /\ Len(Tail(q)) = Len(q) - 1 /\ Len(q) \in Nat \ {0}
           /\ \A i \in 1 .. Len(Tail(q)) : Tail(q)[i] = q[i + 1]
           /\ Tail(q) = <<>> <=> Len(q) = 1
  <1>1. Len(q) \in Nat \ {0} /\ Tail(q) \in Seq(States)
    BY EmptySeq
  <1>2. Tail(q) = <<>> <=> Len(Tail(q)) = 0
    BY <1>1, EmptySeq
  <1> QED
    BY <1>1, <1>2

LEMMA InvInit == Init => Inv
  <1> SUFFICES ASSUME Init PROVE Inv
    OBVIOUS
  <1>1. TypeOK
    <2>1. events \in Seq(States)
      BY EmptySeq DEF Init
    <2>2. handles \subseteq Handles /\ xr \in States
      BY DEF Init, States
    <2>3. view_count \in 0 .. Views /\ inits \in 0 .. MaxInits /\ step \in 0 .. 5
      BY DEF Init
    <2>4. /\ available \in BOOLEAN /\ session_running \in BOOLEAN
          /\ begun \in BOOLEAN /\ refused \in BOOLEAN
      BY DEF Init
    <2> QED
      BY <2>1, <2>2, <2>3, <2>4 DEF Init, TypeOK
  <1>2. HandleInv
    BY DEF Init, HandleInv
  <1>3. EventInv /\ FlagInv
    <2>1. \A i \in 1 .. Len(events) : FALSE
      BY DEF Init
    <2>2. EventInv
      BY <2>1 DEF Init, EventInv
    <2>3. FlagInv
      BY <2>1 DEF Init, FlagInv, Running
    <2> QED
      BY <2>2, <2>3
  <1> QED
    BY <1>1, <1>2, <1>3 DEF Inv

LEMMA InvInitialize == Inv /\ Initialize => Inv'
  <1> SUFFICES ASSUME Inv, Initialize PROVE Inv'
    OBVIOUS
  <1> USE DEF Inv
  <1>1. CASE CreateInstance
    <2> USE <1>1 DEF CreateInstance, runtimeVars
    <2>1. TypeOK'
      BY DEF TypeOK, Handles
    <2>2. HandleInv'
      BY DEF HandleInv, TypeOK, Parent
    <2>3. EventInv' /\ FlagInv'
      BY DEF EventInv, FlagInv, HandleInv, TypeOK
    <2> QED
      BY <2>1, <2>2, <2>3
  <1>2. CASE CreateSession
    <2>1. handles = {"instance"} /\ xr = "none" /\ ~begun /\ ~refused /\ step = 0 /\ events = <<>>
      BY <1>2 DEF CreateSession, HandleInv, EventInv, TypeOK
    <2>2. view_count' \in 0 .. Views
      BY <1>2 DEF CreateSession, ViewCounts
    <2>3. CASE UNCHANGED <<handles, xr, events>> /\ pc' = "idle"
      BY <1>2, <2>1, <2>2, <2>3 DEF CreateSession, TypeOK, HandleInv, EventInv, FlagInv
    <2>4. CASE /\ \/ pc' = "idle" /\ handles' = {"instance", "session"}
                  \/ pc' = "swapchains" /\ handles' = {"instance", "session", "space"}
               /\ xr' = "idle" /\ events' = <<"idle">>
      <3>1. TypeOK'
        BY <1>2, <2>2, <2>4 DEF CreateSession, TypeOK, Handles, States, Running
      <3>2. HandleInv'
        BY <1>2, <2>1, <2>4 DEF CreateSession, HandleInv, Parent
      <3>3. EventInv' /\ FlagInv'
        BY <1>2, <2>1, <2>4 DEF CreateSession, EventInv, FlagInv, Running, States, TypeOK
      <3> QED
        BY <3>1, <3>2, <3>3
    <2>5. Append(events, "idle") = <<"idle">>
      BY <2>1
    <2>6. \/ pc' = "idle" /\ UNCHANGED <<handles, xr, events>>
          \/ /\ \/ pc' = "idle" /\ handles' = {"instance", "session"}
                \/ pc' = "swapchains" /\ handles' = {"instance", "session", "space"}
             /\ xr' = "idle" /\ events' = <<"idle">>
      <3>1. {"instance"} \cup {"session"} = {"instance", "session"}
            /\ {"instance"} \cup {"session", "space"} = {"instance", "session", "space"}
        OBVIOUS
      <3> QED
        BY <1>2, <2>1, <2>5, <3>1 DEF CreateSession
    <2> QED
      BY <2>3, <2>4, <2>6
  <1>3. CASE CreateSwapchains
    <2>1. PICK n \in 0 .. view_count :
            /\ handles' = handles \cup {Swapchain[i] : i \in 1 .. n}
            /\ available' = (n = view_count)
      BY <1>3 DEF CreateSwapchains
    <2>2. {Swapchain[i] : i \in 1 .. n} \subseteq {"left", "right"}
      BY SwapchainIsHandle DEF TypeOK
    <2>3. TypeOK'
      BY <1>3, <2>1, <2>2 DEF CreateSwapchains, TypeOK, Handles, runtimeVars
    <2>4. HandleInv'
      BY <1>3, <2>1, <2>2 DEF CreateSwapchains, HandleInv, Parent, runtimeVars
    <2>5. EventInv' /\ FlagInv'
      BY <1>3 DEF CreateSwapchains, EventInv, FlagInv, runtimeVars
    <2> QED
      BY <2>3, <2>4, <2>5
  <1> QED
    BY <1>1, <1>2, <1>3 DEF Initialize

LEMMA InvShutdown == Inv /\ Shutdown => Inv'
  <1> SUFFICES ASSUME Inv, Shutdown PROVE Inv'
    OBVIOUS
  <1> USE DEF Inv
  <1>1. CASE ShutdownBegins
    BY <1>1 DEF ShutdownBegins, runtimeVars, TypeOK, HandleInv, EventInv, FlagInv
  <1>2. CASE DestroyNext
    <2> USE <1>2 DEF DestroyNext
    <2>1. step \in 0 .. 4 /\ pc = "shutdown" /\ pc' = "shutdown"
      BY DEF TypeOK
    <2>2. Order[1] = "left" /\ Order[2] = "right" /\ Order[3] = "space"
          /\ Order[4] = "session" /\ Order[5] = "instance"
      BY DEF Order
    <2>3. TypeOK'
      <3>1. handles' \subseteq Handles /\ step' \in 0 .. 5
        BY <2>1 DEF TypeOK
      <3>2. xr' \in States /\ begun' \in BOOLEAN /\ refused' \in BOOLEAN
        BY DEF TypeOK, States
      <3>3. events' \in Seq(States)
        <4>1. events' = <<>> \/ events' = events
          OBVIOUS
        <4> QED
          BY <4>1, EmptySeq DEF TypeOK
      <3> QED
        BY <3>1, <3>2, <3>3 DEF TypeOK
    <2>4. HandleInv'
      <3>1. \A i \in 1 .. step + 1 : Order[i] \notin handles'
        BY <2>1, <2>2 DEF HandleInv
      <3>2. \A h \in handles' \ {"instance"} : Parent(h) \in handles'
        BY <2>1, <2>2 DEF HandleInv, Parent, TypeOK, Handles
      <3>3. xr' = "none" <=> "session" \notin handles'
        BY <2>1, <2>2 DEF HandleInv
      <3> QED
        BY <2>1, <3>1, <3>2, <3>3 DEF HandleInv
    <2>5. EventInv'
      <3>1. CASE step \in 0 .. 2
        BY <2>1, <2>2, <3>1 DEF EventInv
      <3>2. CASE step = 3
        BY <2>1, <2>2, <3>2 DEF EventInv
      <3>3. CASE step = 4
        <4>1. xr = "none" /\ xr' = "none" /\ events' = <<>> /\ begun' = begun /\ refused' = refused
          BY <2>1, <2>2, <3>3 DEF HandleInv
        <4> QED
          BY <4>1 DEF EventInv
      <3> QED
        BY <2>1, <3>1, <3>2, <3>3
    <2>6. FlagInv'
      <3>1. CASE step \in 0 .. 2
        <4>1. /\ step < 4
              /\ UNCHANGED <<pc, session_running, xr, begun, refused, events>>
          BY <2>1, <2>2, <3>1
        <4> QED
          BY <4>1 DEF FlagInv
      <3>2. CASE step \in 3 .. 4
        BY <2>1, <3>2 DEF FlagInv
      <3> QED
        BY <2>1, <3>1, <3>2
    <2> QED
      BY <2>3, <2>4, <2>5, <2>6
  <1>3. CASE ShutdownEnds
    <2>1. "session" \notin handles
      BY <1>3 DEF ShutdownEnds, HandleInv, Order
    <2>2. xr = "none" /\ ~begun /\ ~refused /\ events = <<>>
      BY <1>3, <2>1 DEF ShutdownEnds, HandleInv, EventInv, TypeOK
    <2>3. /\ pc' = "idle" /\ step' = 0 /\ available' = FALSE /\ session_running' = FALSE
          /\ UNCHANGED <<handles, view_count, inits, xr, begun, refused, events>>
      BY <1>3 DEF ShutdownEnds, ClearFlag, runtimeVars
    <2>4. TypeOK' /\ HandleInv'
      <3>1. TypeOK'
        <4>1. available' \in BOOLEAN /\ session_running' \in BOOLEAN
          BY <2>3
        <4>2. step' \in 0 .. 5 /\ pc' = "idle"
          BY <2>3
        <4> QED
          BY <2>3, <4>1, <4>2 DEF TypeOK
      <3>2. HandleInv'
        BY <2>1, <2>2, <2>3 DEF HandleInv
      <3> QED
        BY <3>1, <3>2
    <2>5. EventInv'
      BY <2>2, <2>3 DEF EventInv
    <2>6. FlagInv'
      <3>1. ~(xr' \in Running)
        BY <2>2, <2>3 DEF Running
      <3> QED
        BY <2>2, <2>3, <3>1 DEF FlagInv
    <2> QED
      BY <2>4, <2>5, <2>6
  <1> QED
    BY <1>1, <1>2, <1>3 DEF Shutdown

LEMMA InvHandleEvent == Inv /\ HandleEvent => Inv'
  <1> SUFFICES ASSUME Inv, HandleEvent PROVE Inv'
    OBVIOUS
  <1> USE DEF Inv
  <1> DEFINE e == Head(events)
  <1>1. /\ pc = "idle" /\ step = 0 /\ step' = 0 /\ pc' = "idle" /\ xr' = xr
        /\ events \in Seq(States) /\ events /= <<>> /\ events' = Tail(events)
        /\ UNCHANGED <<handles, view_count, available, inits>>
    BY DEF HandleEvent, HandleInv, TypeOK
  <1>2. /\ e \in States /\ e = events[1]
        /\ events' \in Seq(States)
        /\ Len(events') = Len(events) - 1 /\ Len(events) \in Nat \ {0}
        /\ \A i \in 1 .. Len(events') : events'[i] = events[i + 1]
        /\ events' = <<>> <=> Len(events) = 1
    BY <1>1, TailEvent
  <1>3. xr /= "none" /\ events[Len(events)] = xr
    BY <1>1 DEF EventInv
  <1>4. /\ e \in Running => begun \/ xr \in {"ready", "lost"}
        /\ e = "stopping" =>
             /\ begun /\ xr \in {"stopping", "lost"}
             /\ \A j \in 1 .. Len(events) : events[j] \notin Running
    BY <1>1, <1>2 DEF EventInv
  <1>5. \/ e \in Running /\ session_running /\ UNCHANGED <<session_running, begun, refused>>
        \/ e \in Running /\ ~session_running /\ BeginSession
        \/ e = "stopping" /\ session_running' = FALSE /\ UNCHANGED <<begun, refused>>
        \/ e \notin Running /\ e /= "stopping" /\ UNCHANGED <<session_running, begun, refused>>
    BY DEF HandleEvent, Begins, Stops
  <1>6. ASSUME e \in Running, ~session_running, BeginSession
        PROVE  /\ ~begun /\ ~refused /\ session_running' = TRUE
               /\ xr \in {"ready", "lost"}
               /\ \/ xr = "ready" /\ begun' = TRUE /\ refused' = FALSE
                  \/ begun' = FALSE /\ refused' = TRUE
    <2>1. 1 \in 1 .. Len(events)
      BY <1>2
    <2>2. ~begun /\ ~refused
      BY <1>1, <1>2, <1>6, <2>1 DEF FlagInv
    <2> QED
      BY <1>4, <1>6, <2>2 DEF BeginSession, TypeOK
  <1>7. /\ session_running' \in BOOLEAN /\ begun' \in BOOLEAN /\ refused' \in BOOLEAN
        /\ begun => begun'
        /\ refused => refused'
        /\ begun' => begun \/ xr = "ready"
        /\ refused' => ~begun' /\ xr \in {"ready", "lost"}
        /\ session_running' => begun' \/ refused'
        /\ refused' => session_running'
        /\ begun' /\ ~session_running' =>
             /\ xr \in {"stopping", "lost"}
             /\ \A i \in 1 .. Len(events) : events[i] \notin Running
    <2> HIDE DEF e
    <2>1. CASE e \in Running /\ ~session_running /\ BeginSession
      BY <1>6, <2>1
    <2>2. CASE e = "stopping" /\ session_running' = FALSE /\ UNCHANGED <<begun, refused>>
      <3>1. begun /\ ~refused
        BY <1>4, <2>2 DEF EventInv
      <3> QED
        BY <1>4, <2>2, <3>1 DEF TypeOK
    <2>3. CASE UNCHANGED <<session_running, begun, refused>>
      BY <1>1, <2>3 DEF TypeOK, EventInv, FlagInv
    <2> QED
      BY <1>5, <2>1, <2>2, <2>3
  <1>8. TypeOK'
    BY <1>1, <1>2, <1>7 DEF TypeOK
  <1>9. HandleInv'
    BY <1>1 DEF HandleInv
  <1>10. EventInv'
    <2>1. \A i \in 1 .. Len(events') :
            /\ events'[i] \in Running => begun' \/ xr \in {"ready", "lost"}
            /\ events'[i] = "stopping" =>
                 /\ begun' /\ xr \in {"stopping", "lost"}
                 /\ \A j \in i .. Len(events') : events'[j] \notin Running
      <3> SUFFICES ASSUME NEW i \in 1 .. Len(events')
                   PROVE /\ events'[i] \in Running => begun' \/ xr \in {"ready", "lost"}
                         /\ events'[i] = "stopping" =>
                              /\ begun' /\ xr \in {"stopping", "lost"}
                              /\ \A j \in i .. Len(events') : events'[j] \notin Running
        OBVIOUS
      <3>1. i + 1 \in 1 .. Len(events) /\ events'[i] = events[i + 1]
        BY <1>2
      <3>2. \A j \in i .. Len(events') : j + 1 \in i + 1 .. Len(events) /\ events'[j] = events[j + 1]
        BY <1>2
      <3> QED
        BY <1>1, <1>7, <3>1, <3>2 DEF EventInv
    <2>2. events' /= <<>> => events'[Len(events')] = xr
      BY <1>2, <1>3
    <2>3. "ready" \in States \ {"none", "idle", "exiting"}
      BY DEF States, Running
    <2> QED
      BY <1>1, <1>3, <1>7, <2>1, <2>2, <2>3 DEF EventInv
  <1>11. FlagInv'
    <2>1. events' = <<>> /\ xr /= "lost" => (session_running' <=> xr \in Running)
      <3> SUFFICES ASSUME events' = <<>>, xr /= "lost" PROVE (session_running' <=> xr \in Running)
        OBVIOUS
      <3>1. e = xr
        BY <1>2, <1>3
      <3>2. CASE xr \in Running
        <4>1. e \in Running /\ e /= "stopping"
          BY <3>1, <3>2 DEF Running
        <4> HIDE DEF e
        <4>2. CASE session_running /\ UNCHANGED <<session_running, begun, refused>>
          BY <3>2, <4>2
        <4>3. CASE ~session_running /\ BeginSession
          BY <3>2, <4>1, <4>3 DEF BeginSession
        <4> QED
          BY <1>5, <4>1, <4>2, <4>3
      <3>3. CASE xr = "stopping"
        <4>1. e \notin Running /\ e = "stopping" /\ ~(xr \in Running)
          BY <3>1, <3>3 DEF Running
        <4>2. session_running' = FALSE
          BY <1>5, <4>1
        <4> QED
          BY <4>1, <4>2
      <3>4. CASE xr \in {"idle", "exiting"}
        <4>1. e \notin Running /\ ~(xr \in Running)
          BY <3>1, <3>4 DEF Running
        <4>2. ~begun' /\ ~refused'
          BY <1>5, <3>4, <4>1 DEF EventInv
        <4> QED
          BY <1>7, <4>1, <4>2
      <3> QED
        BY <1>3, <3>2, <3>3, <3>4 DEF TypeOK, States
    <2>2. \A i \in 1 .. Len(events') : i + 1 \in 1 .. Len(events) /\ events'[i] = events[i + 1]
      BY <1>2
    <2> QED
      BY <1>1, <1>7, <2>1, <2>2 DEF FlagInv
  <1> QED
    BY <1>8, <1>9, <1>10, <1>11

LEMMA InvSubmit == Inv /\ Submit => Inv'
  BY DEF Inv, Submit, WaitFrame, BeginFrame, EndFrame, runtimeVars, TypeOK, HandleInv, EventInv,
         FlagInv

LEMMA InvRuntime == Inv /\ Runtime => Inv'
  <1> SUFFICES ASSUME Inv, Runtime PROVE Inv'
    OBVIOUS
  <1> USE DEF Inv
  <1>1. /\ UNCHANGED <<pc, step, handles, view_count, available, session_running, inits, begun, refused>>
        /\ xr' \in Follows(xr) /\ events' = Append(events, xr') /\ events \in Seq(States)
        /\ xr \in States
    BY DEF Runtime, ownerVars, TypeOK
  <1>2. /\ xr' \in States /\ xr' \notin {"none", "idle"} /\ xr \notin {"none", "lost"}
        /\ xr' \in Running => begun \/ xr' = "ready"
        /\ xr' \in Running => xr \notin {"stopping", "lost"}
        /\ ~begun => xr' \in {"ready", "exiting", "lost"}
        /\ begun => xr' \notin {"exiting", "none", "idle"}
        /\ xr' \in {"ready", "exiting"} => xr = "idle"
        /\ xr \in {"stopping"} => xr' = "lost"
        /\ xr = "ready" => begun \/ xr' = "lost"
        /\ refused => xr' = "lost"
    BY <1>1 DEF Follows, States, Running, EventInv
  <1>3. step /= 4
    BY <1>2 DEF HandleInv, Order, TypeOK
  <1>4. /\ events' \in Seq(States)
        /\ Len(events') = Len(events) + 1 /\ Len(events) \in Nat
        /\ \A i \in 1 .. Len(events) : events'[i] = events[i]
        /\ events'[Len(events')] = xr' /\ events' /= <<>>
    BY <1>1, <1>2, AppendEvent
  <1>5. TypeOK'
    BY <1>1, <1>2, <1>4 DEF TypeOK
  <1>6. HandleInv'
    BY <1>1, <1>2 DEF HandleInv
  <1>7. EventInv'
    <2>1. ASSUME NEW i \in 1 .. Len(events')
          PROVE  /\ events'[i] \in Running => begun \/ xr' \in {"ready", "lost"}
                 /\ events'[i] = "stopping" =>
                      /\ begun /\ xr' \in {"stopping", "lost"}
                      /\ \A j \in i .. Len(events') : events'[j] \notin Running
      <3>1. CASE i = Len(events')
        <4>1. events'[i] = xr'
          BY <1>4, <3>1
        <4>2. \A j \in i .. Len(events') : events'[j] = xr'
          BY <1>4, <3>1
        <4> QED
          BY <1>2, <4>1, <4>2 DEF Running
      <3>2. CASE i \in 1 .. Len(events)
        <4>1. events'[i] = events[i]
          BY <1>4, <3>2
        <4>2. events[i] \in Running => begun \/ xr \in {"ready", "lost"}
          BY <1>3, <3>2 DEF EventInv
        <4>3. events[i] = "stopping" =>
                /\ begun /\ xr \in {"stopping", "lost"}
                /\ \A j \in i .. Len(events) : events[j] \notin Running
          BY <1>3, <3>2 DEF EventInv
        <4>4. \A j \in i .. Len(events') : j = Len(events') \/ (j \in i .. Len(events) /\ events'[j] = events[j])
          BY <1>4
        <4>5. xr \in {"stopping", "lost"} => xr' = "lost" /\ xr' \notin Running
          BY <1>2 DEF Running
        <4> QED
          BY <1>2, <1>4, <4>1, <4>2, <4>3, <4>4, <4>5
      <3> QED
        BY <1>4, <3>1, <3>2
    <2> QED
      BY <1>1, <1>2, <1>4, <2>1 DEF EventInv
  <1>8. FlagInv'
    <2>1. begun /\ ~session_running /\ step < 4 =>
            xr' = "lost" /\ \A i \in 1 .. Len(events') : events'[i] \notin Running
      <3> SUFFICES ASSUME begun, ~session_running, step < 4
                   PROVE  xr' = "lost" /\ \A i \in 1 .. Len(events') : events'[i] \notin Running
        OBVIOUS
      <3>1. xr' = "lost" /\ \A i \in 1 .. Len(events) : events[i] \notin Running
        BY <1>2 DEF FlagInv
      <3>2. \A i \in 1 .. Len(events') : i = Len(events') \/ (i \in 1 .. Len(events) /\ events'[i] = events[i])
        BY <1>4
      <3>3. "lost" \notin Running
        BY DEF Running
      <3> QED
        BY <1>4, <3>1, <3>2, <3>3
    <2> QED
      BY <1>1, <1>2, <1>4, <2>1 DEF FlagInv
  <1> QED
    BY <1>5, <1>6, <1>7, <1>8

LEMMA InvStep == Inv /\ [Next]_vars => Inv'
  <1>1. Inv /\ UNCHANGED vars => Inv'
    BY DEF vars, ownerVars, runtimeVars, Inv, TypeOK, HandleInv, EventInv, FlagInv
  <1> QED
    BY <1>1, InvInitialize, InvShutdown, InvHandleEvent, InvSubmit, InvRuntime DEF Next

-----------------------------------------------------------------------------

\* The inductive invariant of OpenXRIntegration: whatever initialize reached,
\* however far the runtime is ahead of poll_events.
THEOREM OpenXRInvariance == Spec => []Inv
  BY InvInit, InvStep, PTL DEF Spec

\* The types of its members: no more views than the configuration has.
THEOREM OpenXRTypes == Spec => []TypeOK
  <1>1. Inv => TypeOK
    BY DEF Inv
  <1> QED
    BY <1>1, OpenXRInvariance, PTL

\* shutdown, after any partial initialize, destroys children before their
\* parents and leaves no handle.
THEOREM HandlesAreNested == Spec => []HandlesNested
  <1>1. Inv => HandlesNested
    <2> SUFFICES ASSUME Inv PROVE HandlesNested
      OBVIOUS
    <2>1. pc = "shutdown" /\ step = 5 => handles = {}
      BY DEF Inv, TypeOK, HandleInv, Handles, Order
    <2> QED
      BY <2>1 DEF Inv, HandleInv, HandlesNested
  <1> QED
    BY <1>1, OpenXRInvariance, PTL

\* submit_eye_swapchains gives frames only to a session xrBeginSession was
\* called for, whatever that call answered.
THEOREM FramesAfterBegin == Spec => []FramesOnBegunSession
  <1>1. Inv => FramesOnBegunSession
    BY DEF Inv, HandleInv, FlagInv, FramesOnBegunSession
  <1> QED
    BY <1>1, OpenXRInvariance, PTL

\* poll_events leaves session_running_ as the runtime has it.
THEOREM FlagFollows == Spec => []FlagAgrees
  <1>1. Inv => FlagAgrees
    BY DEF Inv, HandleInv, FlagInv, FlagAgrees
  <1> QED
    BY <1>1, OpenXRInvariance, PTL

\* poll_events calls xrBeginSession once for a session, also when that call
\* fails, and never for one that is past it.
THEOREM BegunOnce == Spec => BeginOnlyWhenReady
  <1>1. Inv /\ [Next]_vars =>
          [~session_running /\ session_running' => ~begun /\ ~refused /\ xr \in {"ready", "lost"}]_vars
    <2> SUFFICES ASSUME Inv, Next, ~session_running, session_running'
                 PROVE  ~begun /\ ~refused /\ xr \in {"ready", "lost"}
      BY DEF vars
    <2>1. HandleEvent
      BY DEF Next, Initialize, CreateInstance, CreateSession, CreateSwapchains, Shutdown,
             ShutdownBegins, DestroyNext, ShutdownEnds, ClearFlag, Submit, WaitFrame, BeginFrame,
             EndFrame, Runtime, ownerVars
    <2>2. Head(events) \in Running /\ pc = "idle" /\ events /= <<>>
      BY <2>1 DEF HandleEvent, Begins, Stops
    <2>3. events \in Seq(States) /\ step = 0
      BY <2>2 DEF Inv, TypeOK, HandleInv
    <2>4. 1 \in 1 .. Len(events) /\ events[1] \in Running
      BY <2>2, <2>3, TailEvent
    <2>5. ~begun /\ ~refused
      BY <2>3, <2>4 DEF Inv, FlagInv
    <2> QED
      BY <2>3, <2>4, <2>5 DEF Inv, EventInv
  <1> QED
    BY <1>1, OpenXRInvariance, PTL DEF Spec, BeginOnlyWhenReady

\* A session that is ready is not forgotten: the event that begins it is queued,
\* and nothing but a call of xrBeginSession, successful or not, changes that.
THEOREM BeginNotMissed == Spec => []BeginStillComes
  <1>1. Inv => BeginStillComes
    <2> SUFFICES ASSUME Inv, xr = "ready", ~begun, ~refused
                 PROVE  ~session_running /\ events /= <<>> /\ events[Len(events)] = "ready"
      BY DEF BeginStillComes
    <2>1. step \in 0 .. 3
      BY DEF Inv, TypeOK, HandleInv, Order
    <2>2. ~session_running
      BY <2>1 DEF Inv, FlagInv
    <2>3. events /= <<>>
      BY <2>1, <2>2 DEF Inv, FlagInv, Running
    <2> QED
      BY <2>1, <2>2, <2>3 DEF Inv, EventInv
  <1> QED
    BY <1>1, OpenXRInvariance, PTL

\* Once its queue has been emptied again and again, xrBeginSession has been called
\* for a ready session: by then the session's event, which is never dropped and
\* never skipped, has been handled.
THEOREM ReadySessionBegins == Spec => ReadyBegins
  <1> DEFINE Called == begun \/ refused \/ xr \in {"lost", "none"}
  <1>1. Inv /\ [Next]_vars /\ xr = "ready" => (xr = "ready")' \/ Called'
    <2> SUFFICES ASSUME Inv, [Next]_vars, xr = "ready", xr' /= "ready" PROVE Called'
      OBVIOUS
    <2>1. pc # "session"
      BY DEF Inv, HandleInv
    <2>2. CASE DestroyNext
      BY <2>2 DEF DestroyNext
    <2>3. CASE Runtime
      BY <2>3 DEF Runtime, Follows
    <2> QED
      BY <2>1, <2>2, <2>3 DEF Next, vars, ownerVars, runtimeVars, Initialize, CreateInstance,
             CreateSession, CreateSwapchains, Shutdown, ShutdownBegins, ShutdownEnds, HandleEvent,
             Submit, WaitFrame, BeginFrame, EndFrame
  <1>2. BeginStillComes => (xr = "ready" /\ events = <<>> => Called)
    BY DEF BeginStillComes
  <1> HIDE DEF Called
  <1>3. Spec => ([]<>(events = <<>>) => (xr = "ready" ~> Called))
    BY <1>1, <1>2, OpenXRInvariance, BeginNotMissed, PTL DEF Spec
  <1> QED
    BY <1>3 DEF Called, ReadyBegins, Polls

\* Nothing is put behind that event but the loss of the session: the polls reach it.
THEOREM BeginApproaches == Spec => BeginComesNearer
  <1>1. Inv /\ [Next]_vars =>
          [xr = "ready" /\ ~begun /\ xr' = "ready" /\ ~begun' =>
             /\ Len(events') <= Len(events)
             /\ HandleEvent => Len(events') < Len(events)]_vars
    <2> SUFFICES ASSUME Inv, Next, xr = "ready", ~begun, xr' = "ready", ~begun'
                 PROVE  /\ Len(events') <= Len(events)
                        /\ HandleEvent => Len(events') < Len(events)
      OBVIOUS
    <2>1. events \in Seq(States) /\ Len(events) \in Nat
      BY DEF Inv, TypeOK
    <2>2. ASSUME HandleEvent PROVE Len(events') < Len(events)
      <3>1. events /= <<>> /\ events' = Tail(events)
        BY <2>2 DEF HandleEvent
      <3>2. Len(events') = Len(events) - 1
        BY <2>1, <3>1
      <3> QED
        BY <2>1, <3>2
    <2>3. ASSUME Initialize \/ Submit \/ ShutdownBegins \/ ShutdownEnds PROVE events' = events
      <3>1. pc # "session"
        BY DEF Inv, HandleInv
      <3> QED
        BY <2>3, <3>1 DEF Initialize, CreateInstance, CreateSession, CreateSwapchains, Submit,
               WaitFrame, BeginFrame, EndFrame, ShutdownBegins, ShutdownEnds, runtimeVars
    <2>4. ASSUME DestroyNext PROVE Len(events') <= Len(events)
      <3>1. events' = <<>> \/ events' = events
        BY <2>4 DEF DestroyNext
      <3> QED
        BY <2>1, <3>1
    <2>5. ~Runtime
      BY DEF Runtime, Follows
    <2>6. Len(events') <= Len(events)
      <3>1. CASE HandleEvent
        <4>1. Len(events') \in Int
          BY <2>1, <3>1 DEF HandleEvent
        <4> QED
          BY <2>1, <2>2, <3>1, <4>1
      <3>2. CASE events' = events
        BY <2>1, <3>2
      <3> QED
        BY <2>3, <2>4, <2>5, <3>1, <3>2 DEF Next, Shutdown
    <2> QED
      BY <2>2, <2>6
  <1> QED
    BY <1>1, OpenXRInvariance, PTL DEF Spec, BeginComesNearer
=============================================================================
