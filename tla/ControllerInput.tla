---------------------------- MODULE ControllerInput ----------------------------
(***************************************************************************)
(* phonevr::ControllerDevice as an input device: set_gesture turns the     *)
(* gesture of a hand into the two buttons the runtime was told of when the *)
(* device was activated.  Who recognises gestures is external.             *)
(***************************************************************************)

VARIABLES
    active,     \* is_active_
    created,    \* grip_click_ and pinch_click_ have been created
    grip,       \* what the runtime shows for /input/grip/click
    pinch,      \* what it shows for /input/pinch/click
    gesture     \* history: the gesture set last since the buttons were created

vars == <<active, created, grip, pinch, gesture>>

\* "none" and "point" stand for all that are neither a pinch nor a grab.
Gestures == {"none", "pinch", "grab", "point"}

Init ==
    /\ active = FALSE
    /\ created = FALSE
    /\ grip = FALSE
    /\ pinch = FALSE
    /\ gesture = "none"

\* CreateBooleanComponent makes buttons that are not pressed.
Activate ==
    /\ ~active
    /\ active' = TRUE
    /\ created' = TRUE
    /\ grip' = FALSE /\ pinch' = FALSE /\ gesture' = "none"

\* The handles of the buttons stay.
Deactivate ==
    /\ active
    /\ active' = FALSE
    /\ UNCHANGED <<created, grip, pinch, gesture>>

SetGesture(g) ==
    /\ active /\ created
    /\ gesture' = g
    /\ IF g = "grab"
       THEN grip' = TRUE /\ UNCHANGED pinch
       ELSE grip' = FALSE /\ pinch' = (g = "pinch")
    /\ UNCHANGED <<active, created>>

Next == Activate \/ Deactivate \/ \E g \in Gestures : SetGesture(g)

Spec == Init /\ [][Next]_vars

\* "Update boolean components based on gesture" (ControllerDevice.cpp:119): the
\* buttons are those of the gesture set last, whatever came before it.
\* InputComponent::update_gesture computes them so; set_gesture leaves the pinch
\* button pressed when a pinch becomes a grab.
ButtonsFollowGesture == grip = (gesture = "grab") /\ pinch = (gesture = "pinch")
=============================================================================
