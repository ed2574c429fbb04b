------------------------------- MODULE Capture -------------------------------
(***************************************************************************)
(* The iOS client from its sensors to the tracking frames it sends:        *)
(* SensorFusionEngine on its motion queue (one operation at a time),       *)
(* HandTrackingService on the camera's queue, and StreamingService on the  *)
(* main queue, which is FIFO.  currentPose and currentImu are written on   *)
(* the motion queue and read on the main queue without a lock: every       *)
(* access is a step, and a pose is written and read in two halves.  On     *)
(* arm64 nothing orders these accesses but the dispatch of a block, which  *)
(* the main queue runs with all that was written before it was dispatched, *)
(* and coherence: what one location gives never gets older.  So a read     *)
(* gives any value between these bounds and the one written last.          *)
(*                                                                         *)
(* A sample is its number, and what is computed from it is too: the        *)
(* filters are left out.  The camera and Vision are external: an image in  *)
(* which hands were recognised is its number.  frameSequence is always 0.  *)
(***************************************************************************)
EXTENDS Naturals, Sequences

CONSTANTS
    MaxSamples,     \* samples of the motion sensors
    MaxImages,      \* camera images with hands
    MaxConnects     \* calls of connect

ASSUME BoundAssumption == MaxSamples \in Nat /\ MaxImages \in Nat /\ MaxConnects \in Nat

VARIABLES
    isStreaming,    \* StreamingService.isStreaming
    updates,        \* the motion manager delivers samples
    isTracking,     \* HandTrackingService.isTracking
    connects,       \* calls of connect so far
    sample,         \* the last sample delivered
    step,           \* processMotionUpdate: steps done; 0 when it does not run
    shared,         \* currentImu and the halves of currentPose, as samples
    image,          \* the last image processed
    recognising,    \* hands are being looked for in it
    mainQueue,      \* blocks dispatched to the main queue
    pc,             \* what the main thread does next
    seen,           \* what the main queue read of shared last, or cannot miss
    hands,          \* appState.leftHandPose and rightHandPose
    frame,          \* the tracking frame being put together; `seen' is the rest
    sent            \* history: the tracking frame sent last

userVars   == <<isStreaming, updates, isTracking, connects>>
motionVars == <<sample, step, shared>>
cameraVars == <<image, recognising>>
mainVars   == <<pc, seen, hands, frame, sent>>
vars == <<userVars, motionVars, cameraVars, mainQueue, mainVars>>

Locations == {"imu", "first", "second"}
Nothing   == [l \in Locations |-> 0]

\* `since' is the sample whose block sends the frame.
NoFrame == [since |-> 0, left |-> 0]
NotSent == [since |-> 0, read |-> Nothing, left |-> 0, right |-> 0]

Init ==
    /\ isStreaming = FALSE /\ updates = FALSE /\ isTracking = FALSE
    /\ connects = 0
    /\ sample = 0 /\ step = 0 /\ shared = Nothing
    /\ image = 0 /\ recognising = FALSE
    /\ mainQueue = <<>>
    /\ pc = "idle" /\ seen = Nothing
    /\ hands = <<0, 0>>
    /\ frame = NoFrame
    /\ sent = NotSent

-----------------------------------------------------------------------------
(* The user, on the main thread. *)

\* Hand tracking is a setting.
Connect ==
    /\ pc = "idle" /\ connects < MaxConnects
    /\ connects' = connects + 1
    /\ updates' = TRUE
    /\ isTracking' \in {isTracking, TRUE}
    /\ isStreaming' = TRUE
    /\ UNCHANGED <<motionVars, cameraVars, mainQueue, mainVars>>

\* What runs on the other queues goes on to its end.
Disconnect ==
    /\ pc = "idle"
    /\ updates' = FALSE /\ isTracking' = FALSE /\ isStreaming' = FALSE
    /\ UNCHANGED <<connects, motionVars, cameraVars, mainQueue, mainVars>>

-----------------------------------------------------------------------------
(* DispatchQueue.main.async, by the two other queues. *)

\* Mutant: a queue that gives no order.
DispatchAnyhow(kind, n, view) == <<[kind |-> kind, of |-> n, view |-> view]>> \o mainQueue

\* With the block go the writes its queue has made.
Dispatch(kind, n, view) == Append(mainQueue, [kind |-> kind, of |-> n, view |-> view])

-----------------------------------------------------------------------------
(* processMotionUpdate, on the motion queue. *)

\* Mutant: the main queue is told first.
DispatchFirst == <<"dispatch", "imu", "first", "second">>

\* Mutant: the raw measurement is published after the pose.
ImuLast == <<"first", "second", "dispatch", "imu">>

Order == <<"imu", "first", "second", "dispatch">>

MotionBegins ==
    /\ step = 0 /\ updates /\ sample < MaxSamples
    /\ sample' = sample + 1
    /\ step' = 1
    /\ UNCHANGED <<userVars, shared, cameraVars, mainQueue, mainVars>>

MotionStep ==
    /\ step > 0
    /\ IF Order[step] = "dispatch"
          THEN mainQueue' = Dispatch("pose", sample, shared) /\ UNCHANGED shared
          ELSE shared' = [shared EXCEPT ![Order[step]] = sample] /\ UNCHANGED mainQueue
    /\ step' = (step + 1) % 5
    /\ UNCHANGED <<userVars, sample, cameraVars, mainVars>>

-----------------------------------------------------------------------------
(* processPixelBuffer, on the camera's queue. *)

\* Mutant: the hands are taken for those of the image that comes next.
HandsOfNext(n) == {<<n + 1, n + 1>>}

\* The hands of the image; one hand alone is shown as both, or as the left.
HandsOf(n) == {<<n, n>>, <<n, 0>>}

\* Mutant: onHandUpdate is called on the camera's queue.
UpdateAtOnce(n) == hands' \in HandsOf(n) /\ UNCHANGED mainQueue

UpdateOnMain(n) == mainQueue' = Dispatch("hands", n, Nothing) /\ UNCHANGED hands

\* isTracking is looked at once, before the recognition ...
ProcessPixelBuffer ==
    /\ isTracking /\ ~recognising /\ image < MaxImages
    /\ image' = image + 1
    /\ recognising' = TRUE
    /\ UNCHANGED <<userVars, motionVars, mainQueue, mainVars>>

\* ... which may throw or find no hands: the last hands stay.
HandsRecognised ==
    /\ recognising
    /\ recognising' = FALSE
    /\ UpdateOnMain(image) \/ UNCHANGED <<mainQueue, hands>>
    /\ UNCHANGED <<userVars, motionVars, image, pc, seen, frame, sent>>

-----------------------------------------------------------------------------
(* The blocks of the main queue. *)

OnHandUpdate ==
    /\ pc = "idle" /\ mainQueue /= <<>> /\ Head(mainQueue).kind = "hands"
    /\ hands' \in HandsOf(Head(mainQueue).of)
    /\ mainQueue' = Tail(mainQueue)
    /\ UNCHANGED <<userVars, motionVars, cameraVars, pc, seen, frame, sent>>

Newer(f, g) == [l \in Locations |-> IF f[l] < g[l] THEN g[l] ELSE f[l]]

\* A read of location l by one who cannot miss `view'.
Read(l, view) ==
    \E n \in view[l] .. shared[l] : seen' = [view EXCEPT ![l] = n]

\* onPoseUpdate(currentPose): the pose as it is now, not that of the sample.
ReadFirstHalf ==
    /\ pc = "idle" /\ mainQueue /= <<>> /\ Head(mainQueue).kind = "pose"
    /\ Read("first", Newer(seen, Head(mainQueue).view))
    /\ frame' = [NoFrame EXCEPT !.since = Head(mainQueue).of]
    /\ mainQueue' = Tail(mainQueue)
    /\ pc' = "second"
    /\ UNCHANGED <<userVars, motionVars, cameraVars, hands, sent>>

ReadSecondHalf ==
    /\ pc = "second"
    /\ Read("second", seen)
    /\ pc' = "imu"
    /\ UNCHANGED <<userVars, motionVars, cameraVars, mainQueue, hands, frame, sent>>

\* sendTrackingFrame, unless streaming has ended: the measurement ...
ReadImu ==
    /\ pc = "imu"
    /\ IF isStreaming THEN pc' = "left" /\ Read("imu", seen)
                      ELSE pc' = "idle" /\ UNCHANGED seen
    /\ UNCHANGED <<userVars, motionVars, cameraVars, mainQueue, hands, frame, sent>>

\* ... and the hands, one after the other.
ReadLeft ==
    /\ pc = "left"
    /\ frame' = [frame EXCEPT !.left = hands[1]]
    /\ pc' = "right"
    /\ UNCHANGED <<userVars, motionVars, cameraVars, mainQueue, seen, hands, sent>>

\* NetworkService drops the frame when it is not connected, has no connection
\* any more, or cannot encode it.
SendTrackingFrame ==
    /\ pc = "right"
    /\ \/ sent' = [since |-> frame.since, read |-> seen, left |-> frame.left, right |-> hands[2]]
       \/ UNCHANGED sent
    /\ pc' = "idle"
    /\ UNCHANGED <<userVars, motionVars, cameraVars, mainQueue, seen, hands, frame>>

Motion == MotionBegins \/ MotionStep

Camera == ProcessPixelBuffer \/ HandsRecognised

MainBlock ==
    OnHandUpdate \/ ReadFirstHalf \/ ReadSecondHalf \/ ReadImu \/ ReadLeft \/ SendTrackingFrame

Next == Connect \/ Disconnect \/ Motion \/ Camera \/ MainBlock

\* The main queue runs what it holds; nothing is assumed of the user, the
\* sensors or the camera.
Spec == Init /\ [][Next]_vars /\ WF_vars(MainBlock)

-----------------------------------------------------------------------------
(* Properties. *)

Stamps == [Locations -> 0 .. MaxSamples]

FrameType == [since : 0 .. MaxSamples, left : 0 .. MaxImages]

SentType ==
    [since : 0 .. MaxSamples, read : Stamps, left : 0 .. MaxImages, right : 0 .. MaxImages]

TypeOK ==
    /\ isStreaming \in BOOLEAN /\ updates \in BOOLEAN /\ isTracking \in BOOLEAN
    /\ connects \in 0 .. MaxConnects
    /\ sample \in 0 .. MaxSamples /\ step \in 0 .. 4
    /\ shared \in Stamps /\ seen \in Stamps
    /\ image \in 0 .. MaxImages /\ recognising \in BOOLEAN
    /\ mainQueue \in Seq([kind : {"pose", "hands"}, of : Nat, view : Stamps])
    /\ pc \in {"idle", "second", "imu", "left", "right"}
    /\ hands \in [1 .. 2 -> 0 .. MaxImages]
    /\ frame \in FrameType /\ sent \in SentType

\* A frame that is sent is not older, in its measurement and in either half of its
\* pose, than the sample it was dispatched for.
FrameOfItsSample == \A l \in Locations : sent.read[l] >= sent.since

\* The hands in a frame are those of one image.
HandsOfOneImage == sent.right \in {0, sent.left}

\* From frame to frame nothing goes back in time, through a disconnect and a
\* second connect as well.
FramesInOrder ==
    [][/\ sent'.since >= sent.since /\ sent'.left >= sent.left
       /\ \A l \in Locations : sent'.read[l] >= sent.read[l]]_vars

\* A block that was dispatched leads to a frame of its sample, or a later one,
\* being given to NetworkService, unless streaming ends first.  What comes of the
\* frame there is another matter: it may be dropped.
LatestPoseOffered ==
    \A n \in 1 .. MaxSamples :
        isStreaming /\ (\E i \in 1 .. Len(mainQueue) : mainQueue[i].kind = "pose" /\ mainQueue[i].of = n)
            ~> ~isStreaming \/ (pc = "right" /\ \A l \in Locations : seen[l] >= n)
-----------------------------------------------------------------------------
(* The inductive invariant. *)

\* How far the publication of a sample has got: the measurement, then the two
\* halves of the pose.
MotionInv ==
    /\ step > 0 => sample > 0
    /\ shared["imu"] = (IF step = 1 THEN sample - 1 ELSE sample)
    /\ shared["first"] = (IF step \in {1, 2} THEN sample - 1 ELSE sample)
    /\ shared["second"] = (IF step \in {1, 2, 3} THEN sample - 1 ELSE sample)

Poses == {i \in 1 .. Len(mainQueue) : mainQueue[i].kind = "pose"}
Hands == {i \in 1 .. Len(mainQueue) : mainQueue[i].kind = "hands"}

\* The blocks of a queue are in the order of what they were dispatched for; a
\* pose's block brings its sample along, and is not older than what was handled.
QueueInv ==
    /\ \A i \in Poses :
         /\ mainQueue[i].of <= sample /\ mainQueue[i].of >= frame.since
         /\ \A l \in Locations :
              mainQueue[i].of <= mainQueue[i].view[l] /\ mainQueue[i].view[l] <= shared[l]
         /\ \A j \in Poses : i < j => mainQueue[i].of <= mainQueue[j].of
    /\ \A i \in Hands :
         /\ hands[1] <= mainQueue[i].of /\ mainQueue[i].of <= image
         /\ recognising => mainQueue[i].of < image
         /\ \A j \in Hands : i < j => mainQueue[i].of <= mainQueue[j].of

\* The frame under way, between what was sent before and what is published now.
FrameInv ==
    /\ frame.since <= sample
    /\ \A l \in Locations : frame.since <= seen[l] /\ seen[l] <= shared[l]
    /\ pc = "right" => frame.left = hands[1]
    /\ hands[1] <= image /\ hands[2] \in {0, hands[1]}

\* The frame sent last against the next one.
SentInv ==
    /\ sent.since <= frame.since /\ sent.left <= hands[1]
    /\ \A l \in Locations : sent.since <= sent.read[l] /\ sent.read[l] <= seen[l]
    /\ sent.right \in {0, sent.left}

Inv == TypeOK /\ MotionInv /\ QueueInv /\ FrameInv /\ SentInv
=============================================================================
