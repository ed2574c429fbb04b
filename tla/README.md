# PhoneVR in TLA+

PhoneVR turns an iPhone into a VR headset for a PC: an iOS client tracks head and
hands and encodes video, a Windows host receives packets over TCP and UDP and
renders, a SteamVR driver presents the devices, and a launcher starts the parts.
This directory holds TLA+ modules of that program, TLC configurations that check
them on small instances, and TLAPS proofs for every value of the constants.

Run a check with `tlc -config ReceiverTcp.cfg MCNetworkReceiver` and a proof with
`tlapm NetworkReceiverProofs.tla`. `PROJECT.json` lists the runs, what every
definition models (file and lines), the hazards of the code and the theorems.

## 1. Inventory

### Windows host (`apps/windows-host`)

**NetworkReceiver.** State: `running_`, a listening TCP socket, a UDP socket, two
threads, one `recv_buffer_` that both threads use. Operations: `start`, `stop`,
the destructor, the two thread functions, `process_packet`. It calls back into
the decoder, the renderer and the statistics *on its own threads*. Hard: two
writers of one buffer, shutdown of threads that block, a start that fails half
way, packets on a stream without boundaries, datagrams that are lost, repeated
and reordered. Correct when: no thread, socket or callback outlives `stop`; what
a callback is given is what a peer sent; `stop` returns.

**HardwareDecoder, StatsCollector, D3D12Renderer, FrameProcessor.** The video
path: decode, record statistics, keep a pose for the render loop of the main thread.
`process_packet` does not look at the transport a packet came by, so each of the two
receiving threads may run either callback. State: the decoder and the codec and size it
was made for; a window of frame times; the fence value, the pose and the matrices. Hard:
two threads in `decode` at once; a decoder whose configuration failed is found again by
the next packet; a time stamp taken before a lock. Correct when: a frame is decoded by a
decoder configured for its size; the window holds the last frames; the renderer does not
reuse a command allocator the GPU still reads. As the code stands `HardwareDecoder::initialize` has no caller, so
`decode` always returns nothing; the window class is registered by nobody, so
`CreateWindowEx` fails, and a renderer whose `initialize` failed early calls a null
command queue in its destructor.

**WinMain.** Owns all of them on its stack; its callbacks run on the receiver's
threads, a signal handler clears `g_running`, and the objects are destroyed in the
order opposite to their construction. Correct when no callback runs on an object
that is not set up or already gone.

**OpenXRIntegration, OpenVRIntegration.** Five handles made one after the other,
any of which may fail; a flag that follows the states the runtime reports late.
Nothing calls either class yet. Hard: a shutdown after any partial `initialize`;
events that are handled when the runtime is already further; a session that is
never ended with `xrEndSession`. Correct when handles are destroyed children
first, a session is begun once and only when it is ready, and frames go to a
session that was begun.

**StreamingProtocol, Config.** Stateless encoders; a settings file, whose `save`
leaves out two of the keys `load` reads (`listen_address`, `log_level`).

### iOS client (`apps/ios-client`)

**NetworkService.** State: the current `NWConnection`, `isConnected`, the
heartbeat timer, the receive buffer. Its owner calls it on the main thread; the
connection's state changes arrive on the network queue and are forwarded to the
main queue; completions of `receive` run on the network queue and may call
`disconnect` there. Hard: no handler knows which connection it is about, two
threads assign `connection` without a lock, every report takes two hops through
the main queue. Correct when: a connected service sends heartbeats and reads its
connection; a disconnected one becomes and stays not connected; buffers of two
connections are not mixed; the user is shown what is true.

**StreamingService.** Wires the other services together: connection state, poses
to tracking frames, hands to the app state, encoded frames to video packets,
control messages to settings of the encoder and the sensor fusion.

**CameraService, VideoEncoderService, HandTrackingService, SensorFusionEngine.**
Each has a thread or queue of its own (session queue, VideoToolbox's callback,
the delegate's queue, the motion queue) and hands results to the main thread.
Hard: start and stop checked on one thread and performed on another, state read
in a callback after it moved on, a hand stored in the other hand's place, a pose
read in two halves while the motion queue writes the next. Correct when what is
sent is never older than the sample it was sent for, never goes back, and the hands
in a frame are of one image. Nothing calls `startCamera`, `startVideoEncoding` or
`encodeFrame`; `streamingService.appState` is never assigned, so as written the
hands of a frame are those of no state at all.

**VRSecureChannel.** `nextSendSequence` numbers all packets; the encryption it
also offers is never called. Its counterpart on the host is `SecureChannel` in
`shared/cpp`, without callers too. Correct when one end opens what the other
sealed.

**VRRenderer, views, settings.** One thread, floating point and layout.

### SteamVR driver (`apps/steamvr-driver`)

**DriverBase** owns a headset and two controllers and a tracking thread that
writes their poses each millisecond; SteamVR calls `Init`, `RunFrame`, `Cleanup`,
`Activate` and `Deactivate`. Hard: `RunFrame` reads the poses the thread writes;
devices are activated later than they are added; `Cleanup` against the thread;
`Init` twice. **ControllerDevice** and **InputComponent** turn gestures into
buttons. Correct when: the thread and `RunFrame` use devices only while they exist;
a thread is joined before it is replaced; a pose is not reported half written; a
gesture presses its button and no other.

### Launcher (`apps/launcher`)

**ServerManager** starts and terminates the host process and remembers whether it
runs, but never asks whether it ended by itself. Correct when a running host is
never forgotten. **LauncherWindow** shows text; it does not use `ServerManager`.

### Shared (`shared`)

The packet format (20 byte header: magic, sequence, type, flags, size, CRC32),
once in Swift and once in C++, and the data types. The Swift side writes the
header big-endian and the payload as JSON; the C++ side copies both as
little-endian structures. The host therefore rejects every packet of the iOS
client as it is: the models of the two sides are kept apart, and the peers of
the receiver are peers that speak the host's format.

### Who calls whom

    camera, motion, encoder threads --> StreamingService --> NetworkService --> network
    network --> NetworkReceiver threads --> decoder, statistics, renderer <-- main loop
    launcher --> host process;   SteamVR --> DriverBase <-- tracking thread

## 2. Modules

| Module | What it is |
|--------|------------|
| `NetworkReceiver` | the host's receiver, with the part of `WinMain` that owns it |
| `LossyChannel` | what a control connection promises, abstractly |
| `ReceivingThreads` | what the owner of flag-stopped receiving threads may count on, abstractly |
| `PromiseProofs` | theorems about these two abstract specifications |
| `MCNetworkReceiver` | the traffic of the instances TLC checks |
| `NetworkReceiverProofs` | theorems about `NetworkReceiver` |
| `NetworkService` | the iOS client's connections and the state shown to the user |
| `MCNetworkService` | its instance for TLC |
| `NetworkServiceProofs` | theorems about `NetworkService` |
| `SendSequence` | how the client's three sending threads number packets |
| `SteamVRDriver` | the SteamVR driver: devices, tracking thread, calls of the runtime |
| `MCSteamVRDriver` | its instance for TLC |
| `SteamVRDriverProofs` | theorems about `SteamVRDriver` |
| `ControllerInput` | gestures and the two buttons of a controller |
| `D3D12Renderer`, `HardwareDecoder`, `StatsCollector`, `ServerManager` | components of the host and the launcher: variables and actions, no specification of their own |
| `HostProcess` | their composition: `WinMain`, the receiving threads, the GPU and the launcher |
| `MCHostProcess` | its instance for TLC |
| `HostProcessProofs` | theorems about `HostProcess` |
| `OpenXRIntegration` | handles, frames and session events against the runtime |
| `OpenXRIntegrationProofs` | theorems about `OpenXRIntegration` |
| `Capture` | the iOS client from sensors and camera to the tracking frames it sends |
| `CaptureProofs` | theorems about `Capture` |
| `SecureChannel` | how the two ends lay out a sealed packet |
| `SecureChannelProofs` | theorems about `SecureChannel` |

### NetworkReceiver

The main thread is a counter `main` through `start` (two steps, one per socket,
each of which may fail at `socket` or at `bind`), the message loop, the five
steps of `stop` and the destructor. `pc` says where the control and the video
thread are; every call that can block or that another thread can observe is a
step: the test of `running_`, `select`, `accept`, `recv`, `recvfrom`, and in
`process_packet` the copy of the header, the CRC over the payload and the copy of
the payload, because these read the shared `recv_buffer_` at different times.

A packet is two units, a header and a body, each known by its sender and its
position in that sender's stream. `recv` may return any number of units up to
the size of the buffer, so packets are merged and cut in two. The magic number
tells a header from a body, and the CRC is right for exactly the body that
belongs to the header. `log` records what the callbacks were given.

Abstracted: byte offsets inside a header or body, CRC collisions, and the
content of a payload (only its type, and whether it is too small for its
structure). `closesocket` and the assignment of `INVALID_SOCKET` after it are one
step. A `control` packet is decoded and dropped by the code, hence reaches no
callback. Signals and the window's messages are one choice: the loop ends.

### NetworkService

`connection` is the number of the current `NWConnection` (0 for nil), `net` the
state of each connection, `receives` how many receives each has outstanding,
`mainQueue` the blocks on the main dispatch queue, those of `StreamingService`
included. `connect` is two steps (its `disconnect`, then the new connection), and
so is a `disconnect` that runs on the network queue: stop the heartbeat, cancel,
then clear. The UDP branch of `connect` installs the same handler and is the same
action. The connection's own behaviour (ready, failed, cancelled, data, end of
stream, errors, late completions) is external, and more generous than the
framework: a handler scheduled before `cancel` may still run after it.

Four history variables name what the code cannot see: `newestReady` and
`overtaken` (a block of an older connection ran after the ready block of a newer
one), `mixed` (a completion of a replaced connection brought bytes) and `deaf` (the
connections on which a receive ended in an error). They guard nothing. Such an error may
come while the connection is still ready, and the last bytes of a stream may come together
with its end or an error: they are appended before the loop ends.

### SendSequence

`nextSendSequence` is `sendSequence &+= 1` followed by `return sendSequence`: a
load, a store and a load, each a step, followed by the send.

### SteamVRDriver

`main` follows the runtime's one thread through `Init` (make the devices, add them,
start the thread), `RunFrame` and `Cleanup` (flag, join, reset); `pc` and `writing`
follow the tracking thread. A pose is a structure that one thread assigns while the
other copies it, without a lock: it is two halves, written and read one by one, so
every torn copy the build can produce is reached. The thread writes constant poses;
a half is that of a new device or the written one. The runtime is external: it
calls `Init` on a driver it has cleaned up or whose `Init` failed (which no longer
has a thread), and any device may be refused. `settled` is history: the pose was
complete when its copy began.

### ControllerInput

`set_gesture` and the two buttons the runtime shows, over any sequence of gestures,
activations and deactivations.

### HostProcess and its components

`HostProcess` extends the four component modules and gives them one `main`, the place
of the host's main thread. `Launch` and `Terminate` are the launcher's calls; a
process that ends, in whatever way, loses its memory (`MemoryLost`).

*D3D12Renderer.* The steps of `initialize`, each of which may fail as the code lets
it fail: `create_swapchain` reports success whatever happened, and the next call goes
to a null pointer, which ends the process (`CallsNull`, `Crash`). Shaders may fail
to compile, with the same end. A frame is `BeginFrame` (the back buffer's index and
the reset of its allocator) and `ExecuteAndPresent`; `wait_for_gpu` is four calls,
and the GPU, which takes command lists and signals from `queue`, may act between
any two. The event is an auto-reset event, with the value it is armed for.
`presents % NUM_FRAMES` is the back buffer: the swap chain turns by one at each
`Present`.

*HardwareDecoder.* A decoder is the format it was made for, `typed` when it accepted
both media types. `create_decoder` stores the size before it sets the types, so a
decoder that refused them is found again by the next packet. Whether WinMain calls
`initialize` is left open: it does not, but both programs are explored.

*StatsCollector.* Reading the clock and recording under the mutex are two steps, and
another thread may record in between. `frame_times` is trimmed from the front by an
unsigned difference, as the code does it: a time is also dropped when one that was read
earlier is appended after it. `recorded` is history.

*The threads.* What they do before they call back is the subject of
`NetworkReceiver`; here each checks `running_`, receives, and runs a callback. That
this is what the receiver's threads amount to is not left to the eye: both modules
implement `ReceivingThreads`, in which an owner raises a flag, begins its threads,
lowers the flag and joins them, and a thread looks at the flag before each receive
that may call back.
Either thread may be given either kind of packet, so both may be in `decode` or
`record_frame` at once. The calls of `decode` are three steps (compare, create, use) and
those of `record_frame` two. `together` is history: a call of `decode` compared while
another was between its comparison and its end. From then on `decoder_` and `current_`
were raced for, and the model gives every outcome, a call on a decoder that is gone
(`DecodeCrashes`) among them.

*WinMain and the launcher.* `StopReceiver`, `JoinThreads` and the destructors follow
`WinMain` from the end of its loop. A later message can overwrite the `WM_QUIT` that was
drained before it: `quit` is what was drained last. `TerminateProcess`, which only starts
to end a process, is taken to end it at once.

### OpenXRIntegration

`initialize` and `shutdown` are handle by handle, `submit_eye_swapchains` is its
three calls, `poll_events` takes one event at a time. `xr` is the state the runtime
is in, `events` what it has not told yet: the runtime moves on before its events are
polled. `xrBeginSession` may fail on a ready session too; its result is ignored, and
`refused` is history: it did. The owner, which the repository does not have yet, calls `initialize` on an
object that is new or shut down.

### Capture

`processMotionUpdate` writes the measurement, then the pose in two halves, then
dispatches to the main queue (`Order`); the block reads the pose in two halves and,
in `sendTrackingFrame`, the measurement and the hands. Every one of these is a step.
`processPixelBuffer` looks at `isTracking`, recognises, and dispatches an image's hands or
none. Values are the numbers of the
samples and images they come from: the filters, like the recognition of hands, are
floating point. The hands are modelled as if `appState` were assigned. A frame that is
put together is given to `NetworkService`, which may drop it: not connected any more, no
connection, or an encoding that fails.

*Memory.* `currentImu` and `currentPose` are plain variables of two queues, and iOS runs
on arm64, which keeps neither the order of the stores nor that of the loads. The model
takes from the platform two things only: a block runs after what was written before it
was dispatched (`view`, carried by the block), and reads of one location never go back
(`seen`). Otherwise each read gives any value between the newest the reader cannot miss
and the newest written, independently of the other locations. So a pose may be seen with
an older measurement, with a newer one, or torn. The measurement is one location: its
parts would obey the same bounds.

### SecureChannel

A sealed packet is a sequence of bytes, each known by the part of the sealing it
belongs to and its place there, so that the slices of `encrypt` and `decrypt` at
both ends are what the model checks. AES-GCM is external: it opens exactly what was
sealed together.

## 3. Runs

| Run | Result | What it shows |
|-----|--------|---------------|
| `receiver_tcp` | holds | with TCP peers only, `NetworkReceiver` implements `LossyChannel`: what is dispatched is intact, in order and never repeated, whatever `recv` returns; `stop` returns unless the served client is silent for good; a client that waits is served, unless the receiver stops or another client never hangs up |
| `receiver_both` | holds | with datagrams too, `NetworkReceiver` implements `ReceivingThreads` (no thread and no callback outlives `stop`, and each thread calls back at most once after the flag fell), and no socket is left, in every start that fails and every order of closing |
| `receiver_race` | violated | a datagram overwrites the packet the control thread is checking: a payload is dispatched under another packet's header |
| `receiver_framing` | violated | one `recv` is taken for one packet, so a control packet is lost on a reliable stream |
| `ios_network` | holds | heartbeat, receive loop, buffers and the shown state, over two connections; a ready connection is read unless a receive on it failed; connected is said only while a connection is ready or its end is still to be handled |
| `sequence_numbers` | violated | two packets of one client carry one sequence number |
| `steamvr_driver` | holds | devices outlive their use, a thread is joined before another is started, tracking runs from `Init` to `Cleanup`, a pose is torn at most the first time it is written, `Cleanup` returns |
| `gestures` | violated | a pinch that becomes a grab leaves both buttons pressed |
| `host_process` | holds | over two launches, with every failure of the set-up: no allocator is reset and no resource released while the GPU uses it, no wake-up of `wait_for_gpu` is lost, callbacks run on objects that live, a frame is of a decoder set up for its size unless two calls of `decode` overlapped, the window of the statistics is the last frames recorded (and exactly the last second if recorded in order), the launcher knows of every process, and the threads implement `ReceivingThreads` |
| `openxr` | holds | over two initialisations that fail anywhere: handles go children first and all of them, the session is begun once and when it may be, frames go to a session that was begun or refused to be, a ready session is begun or refuses while events are polled |
| `ios_capture` | holds | although a pose may be torn and be of another sample than its measurement, no part of a frame is older than the sample it was dispatched for or goes back, its hands are of one image, and what was dispatched is offered to the network while streaming lasts |
| `secure_channel` | violated | a packet the host seals opens nowhere: `encrypt` cuts its tag off |

**Bounds.** `receiver_tcp`: two clients, two packets each, a buffer of three units,
so one `recv` can return one packet and half of the next, and a client can wait
while the other is served. `receiver_both`: one client whose first packet reaches
no callback and whose second does; two datagrams, one of them too short for its
structure, each copied up to twice, so repeated and reordered. The bug runs use
the smallest instance in which the behaviour exists. `ios_network`: two
connections, so that everything of the first can be late for the second; two
blocks on the main queue when the owner or the peer adds one (the queue itself
grows beyond that by what the service adds); one receive that is misdirected to
the current connection. `sequence_numbers`: one packet of each of three threads.
`steamvr_driver`: all three devices and two `Init`s, so that the second follows a failed
one, a cleaned up one, or both.
`host_process`: two frame contexts; two formats of different codec and size; two
launches, so that the second follows an exit, a crash or a termination; and four units of
work (`MaxWork`), shared by launches, frames and video packets, so that one launch may
render three frames, so that an allocator is used again, or its threads be given three
packets, in every order. A clock with two times and a window shorter than its tick
(`Second = 0`) gives everything the window tells apart: times that are equal, that are
outdated, and that are appended out of order. `openxr`: two
initialisations, so that a session follows one that was shut down; both views; a
runtime up to three events ahead. `ios_capture`: three samples, so that one is
published while the pose of another is read and a third is queued; two images, two
connects. `secure_channel`: two packet sizes, two keys and two packets.
A run whose system may really be quiet for ever says so (`ios_network`,
`steamvr_driver`, `host_process`, `openxr` and `ios_capture`, where connects, `Init`s,
launches, events or samples are bounded). The theorems below need none of these bounds.

**Fairness.** The receiver's threads are operating system threads: weak fairness of
the steps of `stop`, of the control thread and of the video thread. A blocked
`recv` is not enabled, so fairness asks nothing of it; peers, the network and the
user owe nothing. In the service, weak fairness of the blocks of the main queue,
of the second half of `connect` and of `disconnect`, and of what the framework
promises after `cancel`: the connection reports cancelled and completes its
receives with an error. In the driver, weak fairness of the tracking thread and of
the steps with which a begun `Cleanup` or `RunFrame` goes on; the runtime need not
call again. In the host process, weak fairness of the main thread and of the GPU.
`OpenXRIntegration` assumes none: nothing in the repository polls its events, so
`ReadyBegins` has the assumption in itself, an owner that empties the event queue again
and again (`Polls`). In `Capture`, weak fairness of the main queue's blocks alone.
Nothing is assumed of users, sensors, networks or runtimes.

**The conditions in the properties.** `DisconnectSettles` is about a service that is
left disconnected with every connection cancelled. The model also reaches states
in which one never is: `disconnect` on the network queue sets `connection` to nil
just after `connect` stored a new one. `ShowsConnection` holds as long as no block
of a replaced connection is late, and `BufferOfOneConnection` as long as no
completion is; without these conditions TLC violates both, and nothing in the
repository promises more. `ListensWhileReady` excepts a connection on which a receive
ended in an error (`deaf`): `receiveLoop` ends for good then, and the connection may stay
ready. `ServedInTurn` excepts another client that never hangs up, whether it is silent or
talks: the inner loop stays with it. (The packets of a client are bounded in the run, so
there such a client falls silent in the end; the property does not count on it.)
`FrameOfItsDecoder` holds until two calls of `decode` overlap (`together`): nothing in
the code prevents that, and then a frame may carry the size of another packet, which the
model reaches, or the process crash. `WindowIsLastSecond` always says that the window is
the last times recorded, that its oldest is of the last second, and that each dropped one
was outdated by a later one; that none of the last second is missing needs `InOrder`, because
a time that is appended late makes the unsigned difference wrap. `FramesOnBegunSession`
allows a session that refused `xrBeginSession`: the code ignores the refusal. For the same
reason `BeginOnlyWhenReady` allows an attempt on a lost session, whose events are still
to be polled. `LatestPoseOffered` ends where `NetworkService` takes over: the frame is put
together and offered, and may be dropped there. `StopReturnsOrClientSilent` allows the one case in
which `stop` really never returns: accepted sockets have no receive timeout, and
`stop` does not close them.

## 4. Proofs

`NetworkReceiverProofs` proves `Inv` inductive. `TypeOK` and the promises alone are
not: that the threads ended when `stop` returned follows only if `main` being past
a join implies the thread is done (`StageInv`), that sockets are closed only if
every connection is served or in the backlog (`OwnedInv`), and that a thread reads
what was received only if the units it was told of are there (`ParseInv`,
`StreamInv`, `ServingInv`). From it: `TypeCorrect`, `StopEndsThreads`,
`StopClosesSockets`, `CallbacksOwned`, for all clients, traffic, buffer sizes and
duplications.

Under `TcpOnly` (no datagrams) a second invariant `TcpInv` holds: the control
thread has the buffer to itself, its content is the last piece read of the stream,
and everything dispatched lies before it. This gives `PayloadIntegrity` and
`ChannelRefinement`: every step is a step of `LossyChannel` or leaves it alone.
`receiver_race` shows that the hypothesis cannot be dropped.

**The two abstract specifications.** `ThreadsRefinement` shows that `NetworkReceiver`,
with its dozen places per thread, implements `ReceivingThreads`, and
`ProcessThreadsRefinement` that `HostProcess` does, over launches, crashes and
terminations. `PromiseProofs` proves what an implementation inherits: a thread that
may call back is one its owner runs or still joins (`OwnedWhileBusy`); once the flag
is down no thread becomes busy again (`LateAtMostOnce`); a lossy channel delivers in
order and once, no more than was sent, and never takes anything back
(`ChannelInOrder`, `ChannelCounts`, `ChannelExtends`, by the invariant that the
`i`-th packet delivered has at least the number `i`). `CallbacksEnd` and
`CallbacksCounted` carry two of these over to the receiver through the mappings: the
proof module is itself instantiated, so nothing is proved twice.

`NetworkServiceProofs` proves the invariant `Inv` of the service: the current
connection is the newest one or there is none, and no bytes are kept when there is
none (`CurrentInv`), with the four safety properties. For `ListensWhileReady` each
step shows that the ready block is still queued or a receive is outstanding; the
lemmas about the main queue (`PendingAppended`, `PendingShifted`) carry it over
the blocks that run in between. From it: `ServiceTypes`, `HeartbeatKept`,
`NeverDeaf`, `BufferUnmixed`, for any number of connects. `ConnectedEnds` needs a
second invariant, `EndInv`: a ready block on the main queue is of a connection that is
ready, or whose end is queued behind it. An end is never handled before the ready block it
is the end of, which is why a late ready block cannot leave the service connected for good.

`SteamVRDriverProofs` proves the invariant `Inv` of the driver. `DevicesOutliveUse` is
not inductive: that the thread has left its loop before the devices go needs
`ThreadInv` (a thread that was not joined has all devices, and its flag is up until
`Cleanup`); `WholePoseReported` needs `CopyInv` (a pose once complete stays complete,
and so does a copy begun after that). From it: `DriverTypes`, `DevicesSafe`,
`ThreadsJoined`, `TrackingKept`, `PosesWhole`, for any number of `Init`s.

`HostProcessProofs` proves the invariant `Inv` of the host process. Its heart is
`FenceInv`: outside `wait_for_gpu` the GPU has nothing left to do and the event is
neither set nor armed; inside, what is queued is the frame's list and the signal, or
the signal, or nothing, and the event is set exactly when the wait is to end. So an
event left over from one wait cannot end the next. `RendererInv` says which objects
exist at which place of the main thread, `ThreadInv` that threads run from the start
of the receiver to the join, `DecoderInv` that, as long as calls of `decode` have not
overlapped, one thread at most is past its comparison, and the decoder it is about to use
is of the size of its packet. `WindowIsLastSecond` is inductive by itself: what a new time
drops is a prefix of what was kept, each dropped by the new time (`RecordWindow`), and in
the order of the clock that is exactly what is too old (`InOrderExact`). From these: `HostTypes`, `AllocatorsReset`,
`ReleasedIdle`, `CallbacksAlive`, `FramesOfDecoder`, `WindowOfLastSecond`,
`LauncherNeverLoses`, for any number of contexts, frames, formats, ticks and launches.

`OpenXRIntegrationProofs` proves `Inv` of the OpenXR session. What relates the flag to
the runtime is `EventInv`: the event sent last tells the runtime's state, and after
"stopping" no other running state is queued; `FlagInv` then says that the flag lags
behind by exactly the events not polled. From it: `OpenXRTypes`, `HandlesAreNested`,
`FramesAfterBegin`, `FlagFollows`, `BegunOnce`, however far the runtime is ahead.
`ReadySessionBegins` is a liveness property proved without fairness: while a ready session
is neither begun nor refused, the event that begins it stays queued (`BeginNotMissed`), so
the event queue cannot become empty before it is handled, which `Polls` says it does.

`CaptureProofs` proves `Inv` of the capture: `MotionInv` says how far a sample's
publication has got, `QueueInv` that what a block was dispatched for is published and
in order, and comes with a view that has it; `FrameInv` that what was read for a frame
lies between what was sent before and what is published now, location by location. From
it: `CaptureTypes`, `FramesFresh`, `HandsTogether`, `NothingGoesBack`, for any number of samples, images and connects.

`SecureChannelProofs` lifts what `secure_channel` finds for one size to all of them
(`OnlyPhonePacketsOpen`): whatever the sizes and keys, a sealed packet opens exactly
when the phone sealed it and the end has its key. The two slicings are compared byte
by byte; the host's fails because its result ends where the tag would begin.

**Behind the liveness properties.** That a fair step is taken is beyond the prover, but
what makes fairness enough is not: that the waiting has a bounded measure which every
step of the awaited party lowers and nobody raises, and that somebody awaited can move.

| Property (TLC) | Nothing is stuck (proved) | It comes nearer (proved) |
|----------------|---------------------------|--------------------------|
| `StopReturnsOrClientSilent` | `BlocksOnlyOnSilence`: the control thread blocks on a silent client or not at all | `ThreadsEndSoon`: six steps per thread once `running_` is down |
| `WaitEnds` | `NoWakeUpLost`: while the event is awaited its signal is queued | `WaitApproaches`: at most six steps of the main thread and the GPU |
| `CleanupReturns` | `CleanupNotStuck`: the join or the thread can go on | `CleanupApproaches`: at most seven steps of the thread |
| `ReadyBegins` (proved too) | `BeginNotMissed`: the event that begins the session is queued | `BeginApproaches`: nothing but the loss of the session delays the poll of it |
| `DisconnectSettles` | `ConnectedEnds`: a connected service without a ready connection has an end queued | |

`BlocksOnlyOnSilence` rests on `QueueDistinct` (the backlog never holds a connection
twice, nor the served one), without which the test of `select` would not imply that
`accept` finds a connection.

The proofs assume what the modules assume of their constants (the definitions named
`...Assumption`, each of which TLC evaluates in the run of its module), and where a
theorem says so, one hypothesis more: `TcpOnly`; `SizesAssumption` (sizes are numbers and
a tag has at least one byte); `MaxSent \in Nat` of the abstract channel.

Checked by TLC only: the liveness properties themselves, `StopReturnsOrClientSilent`,
`ServedInTurn`, `DisconnectSettles`, `ShowsConnection`, `CleanupReturns`, `WaitEnds`
and `LatestPoseOffered`, because the step from a measure and fairness to
"eventually" goes through `ENABLED`; and the runs that are violated. Every safety
property of the passing runs is proved.

## 5. Plan

The receiver, the iOS service, the SteamVR driver, the host process, the OpenXR
session and the capture are modelled and proved about. What is left, in this order:

1. `PacketCodec`: `build_packet`, `parse_packet` and the loop of `processReceiveBuffer`
   over whole and damaged packets, shown to deliver what was sent (an abstract stream
   as specification). A wrong magic number or CRC leaves the buffer undrained for
   ever, which such a model would exhibit.
2. A composition in which the callbacks of `HostProcess` are those of
   `NetworkReceiver`, byte by byte, instead of a thread that receives anything.
3. `VideoEncoderService` and `CameraService`, once something starts them: frame
   numbers read in the encoder's callback, keyframe requests, a second start.
4. The statistics timer of `StreamingService`, and `LauncherWindow` once it uses
   `ServerManager`.

Each takes its bounds as constants, with assumptions no stronger than the code needs.

## 6. Not modelled

Floating point and layout: shaders, lens distortion, the headset's projection, the
filters of the sensor fusion and its `recenter` (which takes its offset from a pose
that already carries the last one), SwiftUI and Win32 controls.

Code that nothing calls and that keeps no state worth a model: `FrameProcessor`,
`OpenVRIntegration`, `StreamingProtocol`, the encoder and the camera. Settings files
and the driver's settings: one read, one write. The protobuf file is compiled into
nothing. AES-GCM, Media Foundation, Direct3D, OpenXR, SteamVR, Apple's frameworks and
the two operating systems are external, modelled by what the code can observe of them.

Hazards that no property covers are listed in `PROJECT.json` with the reason.

Undefined behaviour is modelled by its outcomes where the state is shared between
threads (`recv_buffer_`, `sendSequence`, the poses of the driver and of the sensor
fusion); the unsynchronised `connection` reference of the service is read and written
as a whole. In `stop` the socket handles are written by one thread and read by another
without synchronisation; the model lets the reader see the value before or after. The
counters of the statistics, which only `get_stats` reads and nothing calls, and the
renderer's uniforms, which no frame reads yet, are left out.
