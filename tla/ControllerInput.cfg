\* Any sequence of the four gestures on one controller.
SPECIFICATION Spec
INVARIANT ButtonsFollowGesture
