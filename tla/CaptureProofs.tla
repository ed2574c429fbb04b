---------------------------- MODULE CaptureProofs ----------------------------
(***************************************************************************)
(* Theorems about Capture, for any number of samples, images and connects: *)
(* although currentPose and currentImu are read without a lock, and in no  *)
(* order but that of the dispatch, a tracking frame is in nothing older    *)
(* than its sample, its hands are of one image, and frames never go back.  *)
(***************************************************************************)
EXTENDS Capture, SequenceTheorems, TLAPS

USE BoundAssumption

Block == [kind : {"pose", "hands"}, of : Nat, view : Stamps]

-----------------------------------------------------------------------------
(* Operators. *)

LEMMA AppendBlock ==
    ASSUME NEW q \in Seq(Block), NEW b \in Block
    PROVE  /\ Append(q, b) \in Seq(Block)
           /\ Len(Append(q, b)) = Len(q) + 1 /\ Len(q) \in Nat
           /\ \A i \in 1 .. Len(q) : Append(q, b)[i] = q[i]
           /\ Append(q, b)[Len(q) + 1] = b
  OBVIOUS

LEMMA TailBlock ==
    ASSUME NEW q \in Seq(Block), q /= <<>>
    PROVE  /\ Head(q) \in Block /\ Head(q) = q[1]
           /\ Tail(q) \in Seq(Block)
           /\ Len(Tail(q)) = Len(q) - 1 /\ Len(q) \in Nat \ {0}
           /\ \A i \in 1 .. Len(Tail(q)) : Tail(q)[i] = q[i + 1]
  OBVIOUS

LEMMA BlockAt ==
    ASSUME NEW q \in Seq(Block), NEW i \in 1 .. Len(q)
    PROVE  q[i] \in Block /\ q[i].kind \in {"pose", "hands"} /\ q[i].of \in Nat /\ q[i].view \in Stamps
  <1>1. q[i] \in Block
    OBVIOUS
  <1> QED
    BY <1>1 DEF Block

LEMMA NothingIsStamps == Nothing \in Stamps
  BY DEF Nothing, Stamps

\* What the main queue cannot miss after a block with `g' is not older than either.
LEMMA NewerBounds ==
    ASSUME NEW f \in Stamps, NEW g \in Stamps
    PROVE  /\ Newer(f, g) \in Stamps
           /\ \A l \in Locations : Newer(f, g)[l] \in {f[l], g[l]}
           /\ \A l \in Locations : f[l] <= Newer(f, g)[l] /\ g[l] <= Newer(f, g)[l]
  BY DEF Newer, Stamps

\* A read goes forward, and not beyond what is published.
LEMMA ReadBounds ==
    ASSUME NEW l \in Locations, NEW view \in Stamps, shared \in Stamps, Read(l, view),
           \A k \in Locations : view[k] <= shared[k]
    PROVE  /\ seen' \in Stamps
           /\ \A k \in Locations : view[k] <= seen'[k] /\ seen'[k] <= shared[k]
  <1>1. PICK n \in view[l] .. shared[l] : seen' = [view EXCEPT ![l] = n]
    BY DEF Read
  <1>2. \A k \in Locations : view[k] \in 0 .. MaxSamples /\ shared[k] \in 0 .. MaxSamples
    BY DEF Stamps
  <1>3. n \in 0 .. MaxSamples /\ view[l] <= n /\ n <= shared[l]
    BY <1>1, <1>2
  <1>4. seen' \in Stamps
    BY <1>1, <1>3 DEF Stamps
  <1>5. \A k \in Locations : seen'[k] = IF k = l THEN n ELSE view[k]
    BY <1>1 DEF Stamps
  <1> QED
    BY <1>2, <1>3, <1>4, <1>5

LEMMA StampAt ==
    ASSUME NEW f \in Stamps
    PROVE  \A l \in Locations : f[l] \in Nat
  BY DEF Stamps

LEMMA FrameFields ==
    ASSUME Inv
    PROVE  /\ frame.since \in 0 .. MaxSamples /\ frame.left \in 0 .. MaxImages
           /\ sent.since \in 0 .. MaxSamples /\ sent.read \in Stamps
           /\ sent.left \in 0 .. MaxImages /\ sent.right \in 0 .. MaxImages
           /\ hands[1] \in 0 .. MaxImages /\ hands[2] \in 0 .. MaxImages
           /\ sample \in 0 .. MaxSamples /\ image \in 0 .. MaxImages
           /\ shared \in Stamps /\ seen \in Stamps /\ mainQueue \in Seq(Block)
  BY DEF Inv, TypeOK, FrameType, SentType, Block

LEMMA InvInit == Init => Inv
  <1> SUFFICES ASSUME Init PROVE Inv
    OBVIOUS
  <1>1. /\ \A l \in Locations : shared[l] = 0 /\ seen[l] = 0 /\ sent.read[l] = 0
        /\ sample = 0 /\ step = 0 /\ image = 0 /\ pc = "idle" /\ mainQueue = <<>>
        /\ frame.since = 0 /\ frame.left = 0
        /\ sent.since = 0 /\ sent.left = 0 /\ sent.right = 0 /\ hands[1] = 0 /\ hands[2] = 0
    BY DEF Init, Nothing, NoFrame, NotSent
  <1>2. TypeOK
    <2>1. mainQueue \in Seq(Block)
      BY <1>1, EmptySeq
    <2>2. shared \in Stamps /\ seen \in Stamps /\ sent \in SentType
      BY NothingIsStamps DEF Init, NotSent, SentType
    <2>3. hands \in [1 .. 2 -> 0 .. MaxImages] /\ frame \in FrameType
      BY DEF Init, NoFrame, FrameType
    <2>4. isStreaming \in BOOLEAN /\ updates \in BOOLEAN /\ isTracking \in BOOLEAN
          /\ recognising \in BOOLEAN
      BY DEF Init
    <2>5. connects \in 0 .. MaxConnects
      BY DEF Init
    <2>6. sample \in 0 .. MaxSamples /\ step \in 0 .. 4 /\ image \in 0 .. MaxImages /\ pc = "idle"
      BY <1>1
    <2> QED
      BY <2>1, <2>2, <2>3, <2>4, <2>5, <2>6 DEF TypeOK, Block
  <1>3. MotionInv
    BY <1>1 DEF MotionInv, Locations
  <1>4. Poses = {} /\ Hands = {}
    BY <1>1 DEF Poses, Hands
  <1> QED
    BY <1>1, <1>2, <1>3, <1>4 DEF Inv, QueueInv, FrameInv, SentInv

-----------------------------------------------------------------------------
(* The writers. *)

LEMMA InvUser == Inv /\ (Connect \/ Disconnect) => Inv'
  <1> SUFFICES ASSUME Inv, Connect \/ Disconnect PROVE Inv'
    OBVIOUS
  <1>1. /\ UNCHANGED <<sample, step, shared, image, recognising, mainQueue, pc, seen, hands, frame, sent>>
        /\ isStreaming' \in BOOLEAN /\ updates' \in BOOLEAN /\ isTracking' \in BOOLEAN
        /\ connects' \in 0 .. MaxConnects
    <2>1. CASE Connect
      <3>1. /\ UNCHANGED <<motionVars, cameraVars, mainQueue, mainVars>> /\ connects' = connects + 1
            /\ connects < MaxConnects /\ isStreaming' = TRUE /\ updates' = TRUE
            /\ isTracking' \in {isTracking, TRUE}
        BY <2>1 DEF Connect
      <3>2. connects' \in 0 .. MaxConnects
        BY <3>1 DEF Inv, TypeOK
      <3>3. isTracking' \in BOOLEAN
        BY <3>1 DEF Inv, TypeOK
      <3> QED
        BY <3>1, <3>2, <3>3 DEF motionVars, cameraVars, mainVars
    <2>2. CASE Disconnect
      BY <2>2 DEF Disconnect, motionVars, cameraVars, mainVars, Inv, TypeOK
    <2> QED
      BY <2>1, <2>2
  <1>2. TypeOK' /\ MotionInv'
    BY <1>1 DEF Inv, TypeOK, MotionInv
  <1>3. QueueInv' /\ FrameInv' /\ SentInv'
    BY <1>1 DEF Inv, QueueInv, Poses, Hands, FrameInv, SentInv
  <1> QED
    BY <1>2, <1>3 DEF Inv

LEMMA InvMotionBegins == Inv /\ MotionBegins => Inv'
  <1> SUFFICES ASSUME Inv, MotionBegins PROVE Inv'
    OBVIOUS
  <1>1. /\ step = 0 /\ step' = 1 /\ sample' = sample + 1 /\ sample < MaxSamples
        /\ UNCHANGED <<isStreaming, updates, isTracking, connects, shared, image, recognising,
                       mainQueue, pc, seen, hands, frame, sent>>
    BY DEF MotionBegins, userVars, cameraVars, mainVars
  <1>2. TypeOK' /\ MotionInv'
    BY <1>1 DEF Inv, TypeOK, MotionInv
  <1>3. Poses' = Poses /\ Hands' = Hands
    BY <1>1 DEF Poses, Hands
  <1>4. \A i \in Poses : mainQueue[i].of <= sample + 1
    <2>1. \A i \in Poses : mainQueue[i].of \in Nat /\ mainQueue[i].of <= sample
      BY FrameFields, BlockAt DEF Inv, QueueInv, Poses
    <2> QED
      BY <2>1, FrameFields
  <1>5. QueueInv'
    BY <1>1, <1>3, <1>4 DEF Inv, QueueInv
  <1>6. FrameInv' /\ SentInv'
    BY <1>1, FrameFields DEF Inv, FrameInv, SentInv
  <1> QED
    BY <1>2, <1>5, <1>6 DEF Inv

\* What is published only grows, and with it all that it bounds.
LEMMA PublishKeeps ==
    ASSUME Inv, NEW l \in Locations, step \in 1 .. 3, shared' = [shared EXCEPT ![l] = sample],
           UNCHANGED <<sample, image, recognising, mainQueue, pc, seen, hands, frame, sent>>
    PROVE  /\ shared' \in Stamps /\ shared'[l] = sample
           /\ \A k \in Locations \ {l} : shared'[k] = shared[k]
           /\ QueueInv' /\ FrameInv' /\ SentInv'
  <1>1. shared' \in Stamps /\ \A k \in Locations : shared'[k] = IF k = l THEN sample ELSE shared[k]
    BY FrameFields DEF Stamps
  <1>2. \A k \in Locations : shared[k] <= sample
    BY FrameFields DEF Inv, MotionInv, Locations
  <1>3. \A k \in Locations : shared[k] <= shared'[k] /\ shared[k] \in Nat /\ shared'[k] \in Nat
    BY <1>1, <1>2, FrameFields, StampAt
  <1>4. Poses' = Poses /\ Hands' = Hands
    BY DEF Poses, Hands
  <1>5. \A i \in Poses : mainQueue[i].of \in Nat /\ mainQueue[i].view \in Stamps
    BY FrameFields, BlockAt DEF Poses
  <1>6. \A i \in Poses, k \in Locations : mainQueue[i].view[k] \in Nat /\ mainQueue[i].view[k] <= shared[k]
    BY <1>5, StampAt DEF Inv, QueueInv
  <1>7. \A i \in Poses, k \in Locations : mainQueue[i].view[k] <= shared'[k]
    BY <1>3, <1>6
  <1>8. QueueInv'
    BY <1>4, <1>7 DEF Inv, QueueInv
  <1>9. \A k \in Locations : seen[k] \in Nat /\ seen[k] <= shared[k]
    BY FrameFields, StampAt DEF Inv, FrameInv
  <1>10. \A k \in Locations : seen[k] <= shared'[k]
    BY <1>3, <1>9
  <1>11. FrameInv' /\ SentInv'
    BY <1>10 DEF Inv, FrameInv, SentInv
  <1> QED
    BY <1>1, <1>8, <1>11

LEMMA InvMotionStep == Inv /\ MotionStep => Inv'
  <1> SUFFICES ASSUME Inv, MotionStep PROVE Inv'
    OBVIOUS
  <1>1. /\ step \in 1 .. 4 /\ step' = (step + 1) % 5 /\ sample \in 1 .. MaxSamples
        /\ UNCHANGED <<isStreaming, updates, isTracking, connects, sample, image, recognising, pc,
                       seen, hands, frame, sent>>
    BY FrameFields DEF MotionStep, Inv, TypeOK, MotionInv, userVars, cameraVars, mainVars
  <1>2. Order[1] = "imu" /\ Order[2] = "first" /\ Order[3] = "second" /\ Order[4] = "dispatch"
    BY DEF Order
  <1>3. CASE step \in 1 .. 3
    <2>1. Order[step] \in Locations
      BY <1>2, <1>3 DEF Locations
    <2>2. mainQueue' = mainQueue /\ shared' = [shared EXCEPT ![Order[step]] = sample]
      BY <1>2, <1>3 DEF MotionStep
    <2>3. /\ shared' \in Stamps /\ shared'[Order[step]] = sample
          /\ \A k \in Locations \ {Order[step]} : shared'[k] = shared[k]
          /\ QueueInv' /\ FrameInv' /\ SentInv'
      BY <1>1, <1>3, <2>1, <2>2, PublishKeeps
    <2>4. step' = step + 1
      BY <1>1, <1>3
    <2>5. MotionInv'
      <3>1. "imu" \in Locations /\ "first" \in Locations /\ "second" \in Locations
        BY DEF Locations
      <3>2. CASE step = 1
        BY <1>1, <1>2, <2>3, <2>4, <3>1, <3>2 DEF Inv, MotionInv
      <3>3. CASE step = 2
        BY <1>1, <1>2, <2>3, <2>4, <3>1, <3>3 DEF Inv, MotionInv
      <3>4. CASE step = 3
        BY <1>1, <1>2, <2>3, <2>4, <3>1, <3>4 DEF Inv, MotionInv
      <3> QED
        BY <1>3, <3>2, <3>3, <3>4
    <2>6. TypeOK'
      BY <1>1, <1>3, <2>2, <2>3, <2>4 DEF Inv, TypeOK
    <2> QED
      BY <2>3, <2>5, <2>6 DEF Inv
  <1>4. CASE step = 4
    <2> DEFINE b == [kind |-> "pose", of |-> sample, view |-> shared]
    <2>1. step' = 0 /\ shared' = shared /\ mainQueue' = Append(mainQueue, b)
      BY <1>1, <1>2, <1>4 DEF MotionStep, Dispatch
    <2>2. b \in Block
      BY FrameFields DEF Block
    <2>3. /\ mainQueue' \in Seq(Block) /\ Len(mainQueue') = Len(mainQueue) + 1
          /\ Len(mainQueue) \in Nat
          /\ \A i \in 1 .. Len(mainQueue) : mainQueue'[i] = mainQueue[i]
          /\ mainQueue'[Len(mainQueue) + 1] = b
      BY <2>1, <2>2, FrameFields, AppendBlock
    <2>4. TypeOK' /\ MotionInv'
      BY <1>1, <1>4, <2>1, <2>3 DEF Inv, TypeOK, MotionInv, Block
    <2>5. FrameInv' /\ SentInv'
      BY <1>1, <2>1 DEF Inv, FrameInv, SentInv
    <2>6. Poses' = Poses \cup {Len(mainQueue) + 1} /\ Hands' = Hands
      BY <2>3 DEF Poses, Hands
    <2>7. \A l \in Locations : shared[l] = sample
      BY <1>4 DEF Inv, MotionInv, Locations
    <2>8. \A i \in Poses : mainQueue'[i] = mainQueue[i] /\ i \in 1 .. Len(mainQueue)
                           /\ mainQueue[i].of <= sample
      BY <2>3 DEF Inv, QueueInv, Poses
    <2>9. \A i \in Hands : mainQueue'[i] = mainQueue[i]
      BY <2>3 DEF Hands
    <2>10. frame.since <= sample /\ frame.since \in Nat /\ sample \in Nat
      BY FrameFields DEF Inv, FrameInv
    <2>11. /\ mainQueue'[Len(mainQueue) + 1].of = sample
           /\ mainQueue'[Len(mainQueue) + 1].view = shared
      BY <2>3
    <2>12. \A i \in Poses' :
             /\ mainQueue'[i].of <= sample' /\ mainQueue'[i].of >= frame'.since
             /\ \A l \in Locations :
                  mainQueue'[i].of <= mainQueue'[i].view[l] /\ mainQueue'[i].view[l] <= shared'[l]
             /\ \A j \in Poses' : i < j => mainQueue'[i].of <= mainQueue'[j].of
      <3> SUFFICES ASSUME NEW i \in Poses'
                   PROVE  /\ mainQueue'[i].of <= sample' /\ mainQueue'[i].of >= frame'.since
                          /\ \A l \in Locations : /\ mainQueue'[i].of <= mainQueue'[i].view[l]
                                                  /\ mainQueue'[i].view[l] <= shared'[l]
                          /\ \A j \in Poses' : i < j => mainQueue'[i].of <= mainQueue'[j].of
        OBVIOUS
      <3> HIDE DEF b
      <3>1. CASE i = Len(mainQueue) + 1
        <4>1. \A j \in Poses' : ~(i < j)
          BY <2>3, <2>6, <2>8, <3>1
        <4> QED
          BY <1>1, <2>1, <2>7, <2>10, <2>11, <3>1, <4>1
      <3>2. CASE i \in Poses
        <4>1. \A j \in Poses : i < j => mainQueue[i].of <= mainQueue[j].of
          BY <3>2 DEF Inv, QueueInv
        <4>2. \A j \in Poses' : i < j => mainQueue'[i].of <= mainQueue'[j].of
          BY <2>6, <2>8, <2>11, <3>2, <4>1
        <4> QED
          BY <1>1, <2>1, <2>8, <3>2, <4>2 DEF Inv, QueueInv
      <3> QED
        BY <2>6, <3>1, <3>2
    <2>13. QueueInv'
      BY <1>1, <2>6, <2>9, <2>12 DEF Inv, QueueInv
    <2> QED
      BY <2>4, <2>5, <2>13 DEF Inv
  <1> QED
    BY <1>1, <1>3, <1>4

LEMMA InvImage == Inv /\ ProcessPixelBuffer => Inv'
  <1> SUFFICES ASSUME Inv, ProcessPixelBuffer PROVE Inv'
    OBVIOUS
  <1>1. /\ image' = image + 1 /\ image < MaxImages /\ ~recognising /\ recognising' = TRUE
        /\ UNCHANGED <<isStreaming, updates, isTracking, connects, sample, step, shared, mainQueue,
                       pc, seen, hands, frame, sent>>
    BY DEF ProcessPixelBuffer, userVars, motionVars, mainVars
  <1>2. TypeOK' /\ MotionInv'
    BY <1>1 DEF Inv, TypeOK, MotionInv
  <1>3. Poses' = Poses /\ Hands' = Hands
    BY <1>1 DEF Poses, Hands
  <1>4. \A i \in Hands : mainQueue[i].of <= image + 1 /\ mainQueue[i].of < image + 1
    <2>1. \A i \in Hands : mainQueue[i].of \in Nat /\ mainQueue[i].of <= image
      BY FrameFields, BlockAt DEF Inv, QueueInv, Hands
    <2> QED
      BY <2>1, FrameFields
  <1>5. QueueInv'
    BY <1>1, <1>3, <1>4 DEF Inv, QueueInv
  <1>6. FrameInv' /\ SentInv'
    BY <1>1, FrameFields DEF Inv, FrameInv, SentInv
  <1> QED
    BY <1>2, <1>5, <1>6 DEF Inv

LEMMA InvRecognised == Inv /\ HandsRecognised => Inv'
  <1> SUFFICES ASSUME Inv, HandsRecognised PROVE Inv'
    OBVIOUS
  <1> DEFINE b == [kind |-> "hands", of |-> image, view |-> Nothing]
  <1>1. /\ recognising /\ recognising' = FALSE
        /\ mainQueue' = mainQueue \/ mainQueue' = Append(mainQueue, b)
        /\ UNCHANGED <<isStreaming, updates, isTracking, connects, sample, step, shared, image,
                       pc, seen, hands, frame, sent>>
    BY DEF HandsRecognised, UpdateOnMain, Dispatch, userVars, motionVars
  <1>2. b \in Block
    BY FrameFields, NothingIsStamps DEF Block
  <1>3. MotionInv' /\ FrameInv' /\ SentInv'
    BY <1>1 DEF Inv, MotionInv, FrameInv, SentInv
  <1>4. CASE mainQueue' = mainQueue
    <2>1. TypeOK'
      BY <1>1, <1>4 DEF Inv, TypeOK
    <2>2. QueueInv'
      BY <1>1, <1>4 DEF Inv, QueueInv, Poses, Hands
    <2> QED
      BY <1>3, <2>1, <2>2 DEF Inv
  <1>5. CASE mainQueue' = Append(mainQueue, b)
    <2>1. /\ mainQueue' \in Seq(Block) /\ Len(mainQueue') = Len(mainQueue) + 1
          /\ Len(mainQueue) \in Nat
          /\ \A i \in 1 .. Len(mainQueue) : mainQueue'[i] = mainQueue[i]
          /\ mainQueue'[Len(mainQueue) + 1] = b
      BY <1>2, <1>5, FrameFields, AppendBlock
    <2>2. TypeOK'
      BY <1>1, <2>1 DEF Inv, TypeOK, Block
    <2>3. Hands' = Hands \cup {Len(mainQueue) + 1} /\ Poses' = Poses
      BY <2>1 DEF Poses, Hands
    <2>4. \A i \in Hands : mainQueue'[i] = mainQueue[i] /\ i \in 1 .. Len(mainQueue)
                           /\ mainQueue[i].of <= image
      BY <2>1 DEF Inv, QueueInv, Hands
    <2>5. \A i \in Poses : mainQueue'[i] = mainQueue[i]
      BY <2>1 DEF Poses
    <2>6. mainQueue'[Len(mainQueue) + 1].of = image /\ image \in Nat /\ hands[1] <= image
      BY <2>1, FrameFields DEF Inv, FrameInv
    <2>7. \A i \in Hands' :
            /\ hands'[1] <= mainQueue'[i].of /\ mainQueue'[i].of <= image'
            /\ \A j \in Hands' : i < j => mainQueue'[i].of <= mainQueue'[j].of
      <3> SUFFICES ASSUME NEW i \in Hands'
                   PROVE  /\ hands'[1] <= mainQueue'[i].of /\ mainQueue'[i].of <= image'
                          /\ \A j \in Hands' : i < j => mainQueue'[i].of <= mainQueue'[j].of
        OBVIOUS
      <3> HIDE DEF b
      <3>1. CASE i = Len(mainQueue) + 1
        <4>1. \A j \in Hands' : ~(i < j)
          BY <2>1, <2>3, <2>4, <3>1
        <4> QED
          BY <1>1, <2>6, <3>1, <4>1
      <3>2. CASE i \in Hands
        <4>1. \A j \in Hands : i < j => mainQueue[i].of <= mainQueue[j].of
          BY <3>2 DEF Inv, QueueInv
        <4>2. \A j \in Hands' : i < j => mainQueue'[i].of <= mainQueue'[j].of
          BY <2>3, <2>4, <2>6, <3>2, <4>1
        <4> QED
          BY <1>1, <2>4, <3>2, <4>2 DEF Inv, QueueInv
      <3> QED
        BY <2>3, <3>1, <3>2
    <2>8. QueueInv'
      BY <1>1, <2>3, <2>5, <2>7 DEF Inv, QueueInv
    <2> QED
      BY <1>3, <2>2, <2>8 DEF Inv
  <1> QED
    BY <1>1, <1>4, <1>5

-----------------------------------------------------------------------------
(* The main queue. *)

\* A block taken off the main queue leaves the others in order.
LEMMA TakenOff ==
    ASSUME Inv, mainQueue /= <<>>, mainQueue' = Tail(mainQueue)
    PROVE  /\ mainQueue' \in Seq(Block) /\ Head(mainQueue) = mainQueue[1]
           /\ 1 \in 1 .. Len(mainQueue)
           /\ \A i \in Poses' : i + 1 \in Poses /\ mainQueue'[i] = mainQueue[i + 1] /\ 1 < i + 1
           /\ \A i \in Hands' : i + 1 \in Hands /\ mainQueue'[i] = mainQueue[i + 1] /\ 1 < i + 1
           /\ \A i, j \in Poses' \cup Hands' : i < j => i + 1 < j + 1
  <1>1. mainQueue \in Seq(Block)
    BY FrameFields
  <1>2. /\ Head(mainQueue) = mainQueue[1] /\ mainQueue' \in Seq(Block)
        /\ Len(mainQueue') = Len(mainQueue) - 1 /\ Len(mainQueue) \in Nat \ {0}
        /\ \A i \in 1 .. Len(mainQueue') : mainQueue'[i] = mainQueue[i + 1]
    BY <1>1, TailBlock
  <1>3. \A i \in 1 .. Len(mainQueue') : i + 1 \in 1 .. Len(mainQueue) /\ 1 < i + 1
    BY <1>2
  <1>4. \A i, j \in 1 .. Len(mainQueue') : i < j => i + 1 < j + 1
    BY <1>2
  <1>5. Poses' \subseteq 1 .. Len(mainQueue') /\ Hands' \subseteq 1 .. Len(mainQueue')
    BY DEF Poses, Hands
  <1>6. \A i \in Poses' : mainQueue'[i].kind = "pose"
    BY DEF Poses
  <1>7. \A i \in Hands' : mainQueue'[i].kind = "hands"
    BY DEF Hands
  <1> QED
    BY <1>2, <1>3, <1>4, <1>5, <1>6, <1>7 DEF Poses, Hands

LEMMA InvOnHandUpdate == Inv /\ OnHandUpdate => Inv'
  <1> SUFFICES ASSUME Inv, OnHandUpdate PROVE Inv'
    OBVIOUS
  <1>1. /\ pc = "idle" /\ mainQueue /= <<>> /\ mainQueue' = Tail(mainQueue)
        /\ Head(mainQueue).kind = "hands" /\ hands' \in HandsOf(Head(mainQueue).of)
        /\ UNCHANGED <<isStreaming, updates, isTracking, connects, sample, step, shared, image,
                       recognising, pc, seen, frame, sent>>
    BY DEF OnHandUpdate, userVars, motionVars, cameraVars
  <1>2. /\ mainQueue' \in Seq(Block) /\ Head(mainQueue) = mainQueue[1]
        /\ \A i \in Poses' : i + 1 \in Poses /\ mainQueue'[i] = mainQueue[i + 1]
        /\ \A i \in Hands' : i + 1 \in Hands /\ mainQueue'[i] = mainQueue[i + 1] /\ 1 < i + 1
        /\ \A i, j \in Poses' \cup Hands' : i < j => i + 1 < j + 1
        /\ 1 \in 1 .. Len(mainQueue)
    BY <1>1, TakenOff
  <1>3. 1 \in Hands
    BY <1>1, <1>2 DEF Hands
  <1> DEFINE n == mainQueue[1].of
  <1>4. n \in Nat /\ hands[1] <= n /\ n <= image /\ image \in 0 .. MaxImages /\ hands[1] \in Nat
    BY <1>2, <1>3, BlockAt, FrameFields DEF Inv, QueueInv
  <1>5. hands' \in {<<n, n>>, <<n, 0>>}
    BY <1>1, <1>2 DEF HandsOf
  <1>6. hands' \in [1 .. 2 -> 0 .. MaxImages] /\ hands'[1] = n /\ hands'[2] \in {0, n}
    <2>1. n \in 0 .. MaxImages
      BY <1>4
    <2> HIDE DEF n
    <2> QED
      BY <1>5, <2>1
  <1>7. TypeOK' /\ MotionInv'
    BY <1>1, <1>2, <1>6 DEF Inv, TypeOK, MotionInv, Block
  <1>8. QueueInv'
    <2>1. \A i \in Hands' : n <= mainQueue'[i].of
      BY <1>2, <1>3 DEF Inv, QueueInv
    <2> QED
      BY <1>1, <1>2, <1>6, <2>1 DEF Inv, QueueInv
  <1>9. FrameInv' /\ SentInv'
    <2>1. sent.left \in Nat /\ sent.left <= n
      BY <1>4, FrameFields DEF Inv, SentInv
    <2> HIDE DEF n
    <2> QED
      BY <1>1, <1>4, <1>6, <2>1 DEF Inv, FrameInv, SentInv
  <1> QED
    BY <1>7, <1>8, <1>9 DEF Inv

\* The block of a pose: its queue's writes have been seen from here on.
LEMMA InvReadFirstHalf == Inv /\ ReadFirstHalf => Inv'
  <1> SUFFICES ASSUME Inv, ReadFirstHalf PROVE Inv'
    OBVIOUS
  <1> DEFINE n == mainQueue[1].of
             view == Newer(seen, mainQueue[1].view)
  <1>1. /\ pc = "idle" /\ pc' = "second" /\ mainQueue /= <<>> /\ mainQueue' = Tail(mainQueue)
        /\ Head(mainQueue).kind = "pose"
        /\ frame' = [NoFrame EXCEPT !.since = Head(mainQueue).of]
        /\ UNCHANGED <<isStreaming, updates, isTracking, connects, sample, step, shared, image,
                       recognising, hands, sent>>
    BY DEF ReadFirstHalf, userVars, motionVars, cameraVars
  <1>2. /\ mainQueue' \in Seq(Block) /\ Head(mainQueue) = mainQueue[1]
        /\ \A i \in Poses' : i + 1 \in Poses /\ mainQueue'[i] = mainQueue[i + 1] /\ 1 < i + 1
        /\ \A i \in Hands' : i + 1 \in Hands /\ mainQueue'[i] = mainQueue[i + 1]
        /\ \A i, j \in Poses' \cup Hands' : i < j => i + 1 < j + 1
        /\ 1 \in 1 .. Len(mainQueue)
    BY <1>1, TakenOff
  <1>3. 1 \in Poses
    BY <1>1, <1>2 DEF Poses
  <1>4. mainQueue[1].view \in Stamps /\ n \in Nat
    BY <1>2, BlockAt, FrameFields
  <1>5. /\ n <= sample /\ n >= frame.since
        /\ \A l \in Locations : n <= mainQueue[1].view[l] /\ mainQueue[1].view[l] <= shared[l]
    BY <1>3 DEF Inv, QueueInv
  <1>6. \A l \in Locations : frame.since <= seen[l] /\ seen[l] <= shared[l]
    BY DEF Inv, FrameInv
  <1>7. Read("first", view) /\ "first" \in Locations
    BY <1>2 DEF ReadFirstHalf, Locations
  <1>8. /\ view \in Stamps
        /\ \A l \in Locations : view[l] \in {seen[l], mainQueue[1].view[l]}
        /\ \A l \in Locations : seen[l] <= view[l] /\ mainQueue[1].view[l] <= view[l]
    BY <1>4, NewerBounds, FrameFields
  <1> HIDE DEF n, view
  <1>9. \A l \in Locations : view[l] <= shared[l]
    BY <1>5, <1>6, <1>8
  <1>10. seen' \in Stamps /\ \A l \in Locations : view[l] <= seen'[l] /\ seen'[l] <= shared[l]
    BY <1>7, <1>8, <1>9, ReadBounds, FrameFields
  <1>11. \A l \in Locations : n <= seen'[l] /\ seen[l] <= seen'[l]
    <2>1. \A l \in Locations : /\ seen[l] \in Nat /\ view[l] \in Nat /\ seen'[l] \in Nat
                               /\ mainQueue[1].view[l] \in Nat
      BY <1>4, <1>8, <1>10, FrameFields, StampAt
    <2>2. \A l \in Locations : n <= view[l]
      BY <1>4, <1>5, <1>8, <2>1
    <2> QED
      BY <1>4, <1>8, <1>10, <2>1, <2>2
  <1>12. frame'.since = n /\ frame' \in FrameType
    <2>1. frame' = [since |-> n, left |-> 0]
      BY <1>1, <1>2 DEF NoFrame, n
    <2> QED
      BY <1>4, <1>5, <2>1, FrameFields DEF FrameType
  <1>13. TypeOK' /\ MotionInv'
    BY <1>1, <1>2, <1>10, <1>12 DEF Inv, TypeOK, MotionInv, Block
  <1>14. QueueInv'
    <2>1. \A i \in Poses' : n <= mainQueue'[i].of /\ mainQueue'[i].of \in Nat
      BY <1>2, <1>3, BlockAt DEF Inv, QueueInv, n, Poses
    <2>2. \A i \in Poses' : mainQueue'[i].of >= n
      BY <1>4, <2>1
    <2> QED
      BY <1>1, <1>2, <1>12, <2>2 DEF Inv, QueueInv
  <1>15. FrameInv'
    BY <1>1, <1>5, <1>10, <1>11, <1>12 DEF Inv, FrameInv
  <1>16. SentInv'
    <2>1. sent.since <= n
      BY <1>4, <1>5, FrameFields DEF Inv, SentInv
    <2>2. \A l \in Locations : sent.read[l] <= seen'[l]
      <3>1. \A l \in Locations : sent.read[l] \in Nat /\ seen[l] \in Nat /\ seen'[l] \in Nat
        BY <1>10, FrameFields, StampAt
      <3>2. \A l \in Locations : sent.read[l] <= seen[l]
        BY DEF Inv, SentInv
      <3> QED
        BY <1>11, <3>1, <3>2
    <2> QED
      BY <1>1, <1>12, <2>1, <2>2 DEF Inv, SentInv
  <1> QED
    BY <1>13, <1>14, <1>15, <1>16 DEF Inv

\* A further read of the block only brings what it puts together forward.
LEMMA ReadKeeps ==
    ASSUME Inv, NEW l \in Locations, Read(l, seen),
           UNCHANGED <<isStreaming, updates, isTracking, connects, sample, step, shared, image,
                       recognising, mainQueue, hands, frame, sent>>,
           pc' \in {"imu", "left"}
    PROVE  Inv'
  <1>1. seen' \in Stamps /\ \A k \in Locations : seen[k] <= seen'[k] /\ seen'[k] <= shared[k]
    BY ReadBounds, FrameFields DEF Inv, FrameInv
  <1>2. \A k \in Locations : seen[k] \in Nat /\ seen'[k] \in Nat /\ sent.read[k] \in Nat
    BY <1>1, FrameFields, StampAt
  <1>3. TypeOK' /\ MotionInv'
    BY <1>1 DEF Inv, TypeOK, MotionInv
  <1>4. QueueInv'
    BY DEF Inv, QueueInv, Poses, Hands
  <1>5. FrameInv'
    <2>1. \A k \in Locations : frame.since <= seen'[k]
      <3>1. \A k \in Locations : frame.since <= seen[k]
        BY DEF Inv, FrameInv
      <3> QED
        BY <1>1, <1>2, <3>1, FrameFields
    <2> QED
      BY <1>1, <2>1 DEF Inv, FrameInv
  <1>6. SentInv'
    <2>1. \A k \in Locations : sent.read[k] <= seen'[k]
      <3>1. \A k \in Locations : sent.read[k] <= seen[k]
        BY DEF Inv, SentInv
      <3> QED
        BY <1>1, <1>2, <3>1
    <2> QED
      BY <2>1 DEF Inv, SentInv
  <1> QED
    BY <1>3, <1>4, <1>5, <1>6 DEF Inv

LEMMA InvReads == Inv /\ (ReadSecondHalf \/ ReadImu \/ ReadLeft) => Inv'
  <1> SUFFICES ASSUME Inv, ReadSecondHalf \/ ReadImu \/ ReadLeft PROVE Inv'
    OBVIOUS
  <1>1. /\ UNCHANGED <<isStreaming, updates, isTracking, connects, sample, step, shared, image,
                       recognising, mainQueue, hands, sent>>
    BY DEF ReadSecondHalf, ReadImu, ReadLeft, userVars, motionVars, cameraVars
  <1>2. CASE ReadSecondHalf
    BY <1>1, <1>2, ReadKeeps DEF ReadSecondHalf, Locations
  <1>3. CASE ReadImu
    <2>1. CASE isStreaming
      BY <1>1, <1>3, <2>1, ReadKeeps DEF ReadImu, Locations
    <2>2. CASE ~isStreaming
      <3>1. pc' = "idle" /\ seen' = seen /\ frame' = frame
        BY <1>3, <2>2 DEF ReadImu
      <3>2. TypeOK' /\ MotionInv'
        BY <1>1, <3>1 DEF Inv, TypeOK, MotionInv
      <3> QED
        BY <1>1, <3>1, <3>2 DEF Inv, QueueInv, Poses, Hands, FrameInv, SentInv
    <2> QED
      BY <2>1, <2>2
  <1>4. CASE ReadLeft
    <2>1. pc' = "right" /\ seen' = seen /\ frame' = [frame EXCEPT !.left = hands[1]]
      BY <1>4 DEF ReadLeft
    <2>2. frame'.since = frame.since /\ frame'.left = hands[1] /\ frame' \in FrameType
      <3>1. frame \in FrameType /\ hands[1] \in 0 .. MaxImages
        BY DEF Inv, TypeOK
      <3> QED
        BY <2>1, <3>1 DEF FrameType
    <2>3. TypeOK' /\ MotionInv'
      BY <1>1, <2>1, <2>2 DEF Inv, TypeOK, MotionInv
    <2>4. QueueInv'
      BY <1>1, <2>1, <2>2 DEF Inv, QueueInv, Poses, Hands
    <2>5. FrameInv' /\ SentInv'
      BY <1>1, <2>1, <2>2 DEF Inv, FrameInv, SentInv
    <2> QED
      BY <2>3, <2>4, <2>5 DEF Inv
  <1> QED
    BY <1>2, <1>3, <1>4

\* What SendTrackingFrame sends, if NetworkService takes it: what was read, and the
\* hands of one image.
LEMMA SentFrame ==
    ASSUME Inv, SendTrackingFrame
    PROVE  /\ \/ sent' = [since |-> frame.since, read |-> seen, left |-> hands[1], right |-> hands[2]]
              \/ sent' = sent
           /\ pc' = "idle"
           /\ UNCHANGED <<isStreaming, updates, isTracking, connects, sample, step, shared, image,
                          recognising, mainQueue, seen, hands, frame>>
  <1>1. frame.left = hands[1]
    BY DEF SendTrackingFrame, Inv, FrameInv
  <1> QED
    BY <1>1 DEF SendTrackingFrame, userVars, motionVars, cameraVars

LEMMA InvSend == Inv /\ SendTrackingFrame => Inv'
  <1> SUFFICES ASSUME Inv, SendTrackingFrame PROVE Inv'
    OBVIOUS
  <1>1. /\ pc' = "idle"
        /\ UNCHANGED <<isStreaming, updates, isTracking, connects, sample, step, shared, image,
                       recognising, mainQueue, seen, hands, frame>>
    BY SentFrame
  <1>2. MotionInv' /\ QueueInv' /\ FrameInv'
    BY <1>1 DEF Inv, MotionInv, QueueInv, Poses, Hands, FrameInv
  <1>3. CASE sent' = [since |-> frame.since, read |-> seen, left |-> hands[1], right |-> hands[2]]
    <2>1. /\ sent'.since = frame.since /\ sent'.read = seen /\ sent'.left = hands[1]
          /\ sent'.right = hands[2]
      BY <1>3
    <2>2. sent' \in SentType
      BY <1>3, FrameFields DEF SentType
    <2>3. TypeOK'
      BY <1>1, <2>2 DEF Inv, TypeOK
    <2>4. SentInv'
      <3>1. \A l \in Locations : seen[l] \in Nat
        BY FrameFields, StampAt
      <3> QED
        BY <1>1, <2>1, <3>1, FrameFields DEF Inv, SentInv, FrameInv
    <2> QED
      BY <1>2, <2>3, <2>4 DEF Inv
  <1>4. CASE sent' = sent
    <2>1. TypeOK' /\ SentInv'
      BY <1>1, <1>4 DEF Inv, TypeOK, SentInv
    <2> QED
      BY <1>2, <2>1 DEF Inv
  <1> QED
    BY <1>3, <1>4, SentFrame

LEMMA InvStep == Inv /\ [Next]_vars => Inv'
  <1>1. Inv /\ UNCHANGED vars => Inv'
    BY DEF vars, userVars, motionVars, cameraVars, mainVars, Inv, TypeOK, MotionInv, QueueInv,
           Poses, Hands, FrameInv, SentInv
  <1> QED
    BY <1>1, InvUser, InvMotionBegins, InvMotionStep, InvImage, InvRecognised, InvOnHandUpdate,
       InvReadFirstHalf, InvReads, InvSend DEF Next, Motion, Camera, MainBlock

-----------------------------------------------------------------------------

\* The inductive invariant of the capture pipeline, for any interleaving of its
\* three queues and any outcome of the unordered reads.
THEOREM CaptureInvariance == Spec => []Inv
  BY InvInit, InvStep, PTL DEF Spec

\* The types of what the queues share and of every tracking frame.
THEOREM CaptureTypes == Spec => []TypeOK
  <1>1. Inv => TypeOK
    BY DEF Inv
  <1> QED
    BY <1>1, CaptureInvariance, PTL

\* sendTrackingFrame sends a measurement and a pose, even a torn one, no older
\* than their sample.
THEOREM FramesFresh == Spec => []FrameOfItsSample
  <1>1. Inv => FrameOfItsSample
    <2> SUFFICES ASSUME Inv PROVE FrameOfItsSample
      OBVIOUS
    <2>1. \A l \in Locations : sent.read[l] \in Nat /\ sent.since <= sent.read[l]
      BY FrameFields, StampAt DEF Inv, SentInv
    <2> QED
      BY <2>1, FrameFields DEF FrameOfItsSample
  <1> QED
    BY <1>1, CaptureInvariance, PTL

\* The two hands of a tracking frame are those of one image.
THEOREM HandsTogether == Spec => []HandsOfOneImage
  <1>1. Inv => HandsOfOneImage
    BY DEF Inv, SentInv, HandsOfOneImage
  <1> QED
    BY <1>1, CaptureInvariance, PTL

\* Tracking frames go back in nothing, across disconnect and connect too.
THEOREM NothingGoesBack == Spec => FramesInOrder
  <1> DEFINE Forward ==
        /\ sent'.since >= sent.since /\ sent'.left >= sent.left
        /\ \A l \in Locations : sent'.read[l] >= sent.read[l]
  <1>1. Inv /\ [Next]_vars => [Forward]_vars
    <2> SUFFICES ASSUME Inv, Next PROVE Forward
      BY DEF vars
    <2>1. /\ sent.since \in Nat /\ sent.left \in Nat /\ frame.since \in Nat /\ hands[1] \in Nat
          /\ \A l \in Locations : sent.read[l] \in Nat /\ seen[l] \in Nat
      BY FrameFields, StampAt
    <2>2. CASE sent' = [since |-> frame.since, read |-> seen, left |-> hands[1], right |-> hands[2]]
      <3>1. sent'.since = frame.since /\ sent'.read = seen /\ sent'.left = hands[1]
        BY <2>2
      <3> QED
        BY <2>1, <3>1 DEF Inv, SentInv
    <2>3. CASE sent' = sent
      BY <2>1, <2>3
    <2>4. SendTrackingFrame \/ sent' = sent
      BY DEF Next, Connect, Disconnect, Motion, MotionBegins, MotionStep, Camera,
             ProcessPixelBuffer, HandsRecognised, MainBlock, OnHandUpdate, ReadFirstHalf,
             ReadSecondHalf, ReadImu, ReadLeft, mainVars
    <2> QED
      BY <2>2, <2>3, <2>4, SentFrame
  <1> QED
    BY <1>1, CaptureInvariance, PTL DEF Spec, FramesInOrder
=============================================================================
