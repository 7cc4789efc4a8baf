# uQuad: TLA+ models, model checking and proofs

uQuad is a quadcopter with a phone on board. Its software (`src/sw/src/uquad`) is a set of C++ libraries
shared by applications for the vehicle and for the ground; its firmware (`src/fw/uQuad.X`) runs on a PIC
micro-controller that reads the sensors, makes the motors' pulses and talks USB to the phone. This directory
holds TLA+ models of its own code. Everything under `extern`, `cv/ptam`, `cv/svo` and the vendored filters
is left aside, except where our code's behaviour depends on what a library does with it (boost's streams,
archives, coroutines and strands), which was read in the vendored sources.

| module | what it is |
|---|---|
| `Channel` | `comm::Channel`: one connection, its queue of messages and its coroutines |
| `Outbox` | what `comm::Channel` promises its callers (abstract specification) |
| `ChannelProofs` | theorems about `Channel`, and that it implements `Outbox` |
| `MCChannel` | symmetry for TLC's instances of `Channel` |
| `RemoteControl` | `comm::RemoteControlServer` and `comm::RemoteControlClient`, composed over TCP |
| `RemoteControlProofs` | theorems about `RemoteControl` |
| `UQuad` | `hal::android::UQuad`: the driver of the USB board |
| `UQuadProofs` | theorems about `UQuad` |
| `MediaGraph` | `media::Graph` with a `Capture`, the OpenMAX encoder and a `RawWriter`, as the camera server builds it |
| `FramePipe` | what such a graph promises (abstract specification) |
| `MediaGraphProofs`, `FramePipeProofs` | theorems about `MediaGraph`, and that it implements `FramePipe` |
| `CameraLink` | `comm::CameraServer` and `comm::CameraClient`, composed over TCP |
| `CameraLinkProofs` | theorems about `CameraLink` |
| `Motors` | the firmware's motor pulses: `motors.c` and the packet that sets them |
| `MCMotors` | the packets of TLC's instance of `Motors` |
| `MotorsProofs` | theorems about `Motors` |
| `ControlSystem` | `control::System` on `base::Graph`: blocks in topological order, started, stopped and updated |
| `MCControlSystem` | symmetry for TLC's instance of `ControlSystem` |
| `ControlSystemProofs` | theorems about `ControlSystem` |

Paths below are relative to `src/sw/src/uquad` unless they begin with `src/`.


## 1. Inventory

### 1.1 How the parts run and interact

* Every application has one `base::Runloop` (an asio `io_service`) run by **one thread**. What a coroutine or
  a callback of that loop does between two suspensions is atomic to the rest of the loop.
* Three things run beside it: `hal::android::IOService` has a worker thread of its own, which runs the USB
  driver; cameras deliver frames on a thread of their platform; and applications call the libraries from
  their user interface's thread. `apps/control/PoseEstimation/remote/Application.cpp:87-94` sends a message
  from the driver's thread, as do `comm/tests/testChannel.cpp:14` and `comm/tests/testRemoteControl.cpp:31`
  from the test's own.
* Asynchronous functions take a handler that is called once with an error code. `base::YieldContext` turns
  them into coroutines; `base::YieldEvent` is an event a coroutine waits for.
* The remote control sends serialized messages over three `Channel`s, one for each priority. The camera
  server has a TCP connection of its own and feeds it from a `media::Graph`.

### 1.2 The parts

| part | state | operations | what is hard | what makes it correct | status |
|---|---|---|---|---|---|
| `comm::Channel` | bounded queue of messages, socket, two yields, a stream buffer shared by reading and writing | `setSocket`, `close`, `asyncSendMessage`, `asyncReceiveMessage`; coroutines `doSendMessage`, `doReceiveMessage` | senders on other threads; `close` under a suspended coroutine; errors that a stream swallows; the lock held while callbacks run | each handler once, in order; bytes in order; no message forgotten; the code's assertions | **modelled** (`Channel`) |
| `comm::RemoteControl*` | state, discovery timer or socket, three acceptors, three channels | `start`, `stop`, discovery, accept, connect, what follows a failed read | two sides that take down and set up three connections at their own pace; failures half way; `stop` under a coroutine | connected means three open channels of one session; nothing left open; reconnection | **modelled in part** (`RemoteControl`) |
| `hal::android::UQuad` | motors' state machine, wanted power and LED mode, dirty flags, the wait on a write event, one read and one write request | `open`, `close`, `armMotors`, `disarmMotors`, `setMotorsPower`, `setLedsMode`; handlers of the I/O thread | checks on the caller's thread, actions on the I/O thread; a wake-up that is a cancelled timer; requests freed under the I/O thread | motors off unless armed; no lost wake-up; one packet at a time; the board is told | **modelled** (`UQuad`) |
| `base::Runloop`, `YieldContext`, `YieldEvent` | the loop's handlers; one waiter and a flag | `run`, `dispatch`, `post`; `waitBlock`, `set`, `reset` | an event destroyed or reset under its waiter | a wait ends when the event is set | the loop is the interleaving of the models; what `YieldEvent` does is in `MediaGraph` and `CameraLink` |
| `base::Delegate` | subscribers, a lock | subscribe, unsubscribe, call | callbacks under a non-recursive lock | no call after unsubscription | not modelled |
| `base::IOStream` family | a socket or file, a yield | `asyncRead`, `asyncWrite`, `close` | handlers dropped on close | each handler at most once, none after close | **modelled in part**: the socket stream, in `CameraLink` and `MediaGraph` |
| `base::Graph` | nodes, ports, connections, a visiting order | add, connect, visit (remove and disconnect change nothing) | a walk along a linear order in a graph that is not linear | readers are visited, once and in order | **modelled** (`ControlSystem`) |
| `base`: memory, images, serialization, logging | data | – | – | – | not modelled: no behaviour over time |
| `media::Graph`, `Capture` | graph state, execution order, running flag, pending count; queue of two frames | `start`, `stop`, `pause`, `resume`, `doRun`, frames from the camera's thread | coroutines that suspend in the middle of each other; a flag and a counter shared with the camera's thread | one run at a time, no frame left waiting, every buffer finds its way back | **modelled in part** (`MediaGraph`) |
| `media`: encoders, writers, readers | buffers, streams, codecs | `prepare`, `run`, `unprepare`, `rest` | suspension inside `run` | every locked buffer is released | **modelled in part**: the OpenMAX encoder's buffers and `RawWriter`, in `MediaGraph` |
| `comm::CameraServer`, `CameraClient` | state, acceptor or socket, graph, stream | `start`, `stop`, accept, error of the graph | an accept that completes during `stop`; a pause that ends after it | one connection at a time; stopped stays stopped; a client is served or told | **modelled** (`CameraLink`) |
| `control::System` and blocks | service state, graph of blocks, update requests | `start`, `stop`, `update`, requests | blocks that refuse or fail half way | all prepared or none; what is asked for is updated, and what reads it after it | **modelled** (`ControlSystem`) |
| `control`: estimators, calibrations | floating-point filters | – | numeric | – | out of TLC's reach |
| `cv` | images, poses | – | numeric, vendored trackers | – | out of TLC's reach |
| `hal`: devices and cameras | a registry | find, notify | – | – | adapters; a camera is a thread that delivers frames |
| `hal::usb`, `android::IOService` | enumerated devices, worker thread | enumerate, reap | – | – | pure i/o; the completion of requests is in `UQuad` |
| `hal::ios`, `hal::none` | – | – | – | – | stubs |
| `math`, `utility`, `svc` | – | – | – | – | numeric helpers, configuration |
| firmware: motors, LEDs | timer phases, widths, enable bits | `motors_set_pwm`, timer interrupt | an interrupt between two stores; 8-bit wrap-around | every motor's pulse has the width asked for | **motors modelled** (`Motors`); the LEDs' timer is independent |
| firmware: communication, main loop | USB buffers | `comm_process` | a bus reset between two tests | a buffer has one owner | the packet's powers in `Motors`; `sensors.c` is not in the repository |
| applications | – | – | – | – | glue; they justify who calls what, on which thread |

### 1.3 Hazards

`PROJECT.json` lists, at their lines, the places where this code can go wrong in a way a unit test would
hardly reach, and the properties that watch them. Where a property holds only under a condition, or none can be
stated, a note says so.


## 2. `Channel`

### 2.1 Correspondence

| model | code |
|---|---|
| `queue`, `QueueLimit` | `m_SendBufferQueue` (capacity 2) |
| `sock`, `session` | `m_Socket`; `session` counts `setSocket` |
| `sendYield`, `reader.yield` | `m_SendYield`, `m_ReceiveYield` |
| `obuf`, `reader.ibuf` | put and get area of `m_SocketStreamBuf` |
| `pc`, `msg`, `op`, `nw` | one `doSendMessage` for each value of `Coroutines`: where it is, its message, its `async_write_some` and the bytes written so far |
| `running` | what the loop's thread is in the middle of |
| `wire`, `accepted`, `verdict` | history: what connections carried, the order of queueing, what handlers were told |
| `failed` | the assertion or deadlock that stopped the program |

`RefuseBusy`, `Post`, `StartInline` are the outcomes of `asyncSendMessage` (`comm/Channel.cpp:94-112`), which
holds the queue's lock from end to end. On another thread the coroutine is posted to the strand. On the loop's
thread `spawn` runs it at once, still under that lock, until it suspends in a write (`StartInline`) – unless
the strand has other work (`StrandBusy`). `BeginSend` to `PopFront` are `doSendMessage` (lines 151-193), cut at
each access to the queue, because other threads push in between. A message is two pieces: a small one goes to
the put area whole and `pubsync` writes it; a large one overflows the buffer after its first piece. `FlushRest`,
`EndWrite` and `HandlerReturned` follow boost's `indirect_streambuf` and the archive's destructor: the error of
a *flush* is swallowed (so the handler is told `kENoError`), only that of an *overflow* reaches the `catch`, and
bytes that could not be written stay in the put area. Completions of i/o are separate actions of the kernel.

Callbacks send, close and receive, which is why `SendFromLoop` and `Close` are enabled inside handlers
(`UserCode`). A message sent on the loop while there is no socket ends in `failed = "LockedByItself"`: the
coroutine runs inside `asyncSendMessage` and locks the queue's mutex again after it answered `kENotOpened`, to
pop. No application meets this, because those of the repository send from other threads; no property is stated
about it.

### 2.2 Runs

| run | instance | shows |
|---|---|---|
| `channel_queue` | three messages sent from the loop, one of them large, two coroutines, two connections, one incoming message, fair | within a connection bytes never repeat or overtake each other (`WireInOrder`), though unwritten bytes are replayed; what a handler is told is true: a message reported sent left or is still in the buffer, a refused one never leaves (`AnswersHold`); `doReceiveMessage`'s assertion (`ReceiveYieldAssertion`); each queued message is answered in the end (`EventuallyAnswered`); and `Channel` implements `Outbox`: every handler is called at most once, in order |
| `channel_threads` | one message of the loop, two of another thread, three coroutines | some coroutine is on its way whenever a message waits (`SenderForQueue`); connections carry whole messages as long as all fit in the buffer (`Framed`) |
| `channel_spawn_race` | violation | finding 1 |
| `channel_duplex` | violation | finding 2 |
| `channel_partial_write` | violation | finding 3 |

Why these bounds: three messages are one more than the queue holds, so a sender is refused while one message is
being written and another waits; the second connection is needed for replayed bytes; a second coroutine exists
only when the first is ending or in the race of finding 1, and a third lets that race repeat.
`LoopMessages = Messages` in `channel_queue`, because with a sender on another thread `AnswersHold`
and the order of the answers fail in the wake of finding 1, together with a close. The properties of
`channel_threads` hold nevertheless. In `channel_queue` a message is received while others are sent: behaviours
that reach finding 2 or 3, or in which the loop locks itself, end in `failed`, which `EventuallyAnswered` allows.
The coroutines are interchangeable (`SYMMETRY`, used only without liveness).

### 2.3 Proofs (`ChannelProofs`)

All hold for any messages, coroutines, connections and queue limit that satisfy `ChannelAssumption`.

* `TypeCorrect`: `Spec => []TypeOK`. `TypeOK` is not inductive: a coroutine that writes must have a message, and
  a finished read must have left something in the get area. `Typed` adds `HasMessage` and `ReadArrived`.
* `NoLostWakeUp`: `Spec => []SenderForQueue`, inductive relative to `Typed`, with any number of threads. A
  coroutine leaves only when it sees the queue empty, and the push that makes it non-empty spawns the next.
* `SenderIsAlone`, `PopsWhatItSent`, `EachAnsweredOnceInOrder`: under the hypothesis `OnlyLoopSends`
  (`LoopMessages = Messages`). The strengthening `Alone` says that at most one coroutine exists, that the loop is
  inside it exactly when it does not wait, and that it exists while the queue is not empty. `Ledger`, on top,
  relates the history to the queue: the queue is the tail of `accepted`, all before it are answered, and of
  those in it only the first may be, exactly when its coroutine is between answering and popping. The hypothesis
  is needed: finding 1 is the counterexample without it.
* `OneReceiveAtATime`: `Spec => []ReceiveYieldAssertion`, from `ReadsWhileSet`: while `m_ReceiveYield` is set its
  read is outstanding, because `close()` clears it in the step that cancels the read.
* `SpecImplementsOutbox`, under `OnlyLoopSends`: the refinement. `Waiting` is the queue, without its first
  message once that is answered; from `Ledger` follows that queueing is `Accept`, a full queue `Refuse` (the
  message being answered may still have its place, which `Outbox` allows), the call of the front's handler
  `Answer`, and the pop a stutter.

`OneAnswer`, `AnsweredInOrder` and `NoneForgotten`, the parts of `EachAnsweredOnceInOrder`, and the invariants of
`SenderIsAlone` and `PopsWhatItSent` are proved and so are not in `channel_queue`.

The other three invariants are about the bytes. They rest on `Turns`, which holds whoever sends, and says that a
second coroutine may exist but never write beside the first:

* `Turns` has three parts. `Writers`: the loop is inside a coroutine exactly when that one does not wait; it waits
  exactly while it has a write outstanding, of no more than the put area holds; and of two only one waits. `Yields`
  ties these to `m_SendYield`: on a connection it is the coroutine that writes, without one it is null between two
  handlers – so a coroutine that begins where another is suspended finds either `m_SendYield` set, and stops, or
  no socket, and answers until the queue is empty, for `SetSocket` waits for the other's completion. `Wires`: while
  the connection is open no write has failed.
* `WholeMessages`: `Spec => []Framed` under the hypothesis `Large = {}`. `Frames`, on `Turns`: what a connection
  carried is the beginning of whole messages, and together with the unwritten rest of the put area it ends with one.
  Without the hypothesis the second half of a message may be lost (section 1.3), and `Framed` fails.
* `BytesInOrder`: `Spec => []WireInOrder`, without a hypothesis. `Line`: the queue is the tail of `accepted`, in
  which each message is once, and what is written is the queue's front or has left it. `Order` gives each piece
  its rank in the stream of accepted messages and bounds what has been serialized by `Top`, which lies below the
  front until that is serialized, and above it before it is popped. So what enters the put area lies above all
  that ever went into it, what a failed write leaves there precedes what follows, and a connection gets the put
  area from where the last write of it ended. `Top` never falls: `TopKept`, `StartOrder`, `FlushRestOrder` and
  `EndWriteOrder` are its steps.
* `HandlersHearTheTruth`: `Spec => []AnswersHold` under `OnlyLoopSends`. `Answers`: of the coroutine that writes, the
  pieces below its mark are on a connection and those it serialized are found there or in the put area; no step loses
  a piece (`AnswersKept`). That a refused message was never serialized is `Order` again: its rank is above `Top`. TLC
  shows that the hypothesis is needed: in the race of finding 1, after a `close`, the second coroutine refuses the
  message that the first has written.

In the model a failed assertion stops the program, so these say nothing of what a build without assertions does
after findings 1 to 3. Liveness (`EventuallyAnswered`) is beyond the prover and model-checked only.

### 2.4 Fairness

`FairSpec` has weak fairness of each coroutine's steps and of the receiver's: the loop is one thread that runs
every handler that is ready, and code between suspensions ends. `WriteStep` is fair because the kernel completes
a write, or fails it when the connection breaks. Nothing is assumed of senders, of the peer, or of who closes.


## 3. `RemoteControl`

### 3.1 Correspondence

Both sides are in one module, because the properties are about what they have in common. `server` and `client`
are `m_State`. The server: `ServerStart` begins to broadcast; `Listen`, once for each priority, is a stretch of
`doStart`, which suspends in the resolver; after the third the side is started and `doAccept` begins.
`accepting` is the channel it waits for, `completed` the result its handler will find. `AcceptChannel` is
`acceptChannels` from one resumption to the next: take the socket, go on to the next channel, refuse when that
one is open already, or be connected after the third. The
client: `HandleDiscoveryMessage` starts one `doConnect` (`discovered` keeps the next messages from starting
another); each suspended `doConnect` is a record in `dials`; `ConnectChannel` is `connectChannels` between
resumptions. `ServerReadFails` and `ClientReadFails` are `handleReceiveMessageError` of a side that is
connected: of a channel that the side closed itself no handler is called (`comm/Channel.cpp:136-141`). The
network keeps a `backlog` for each acceptor – a connection is made when the kernel takes it, long before
`doAccept` gets it – and the set of connections with both ends open (`alive`).

What the channels carry is the business of `Channel`; here a channel is the session whose socket it has.

### 3.2 Runs

| run | instance | shows |
|---|---|---|
| `rc_link` | two connections break, the client stops and starts twice; with `faulty`, the server does too and listening, accepting and connecting may fail; `Timely`, fair | a connected side has its three channels (`ConnectedIsOpen`); a side with nothing under way leaves nothing open (`NothingLeftOpen`), which the next attempt would refuse; without `faulty`, the server never joins channels of two sessions (`OneSession`) and two sides that run end up connected to each other, after every break (`Reconnects`) |

Bounds: `MaxSessions` bounds the attempts to connect; with six the client never runs out of them
without `faulty`, which matters for `Reconnects`.
Two breaks let two channels of a session break, or one break in each of two sessions. `faulty` is chosen once and for
all in `Init`, so that one run has both kinds of behaviour.

Conditions, and what happens without them:

* `Timely`: the client is not stopped while it connects, nor the server between the completion of an accept and its
  handler, and the server listens before it is first heard. Without it `ConnectedIsOpen`, `NothingLeftOpen` and
  `OneSession` fail: `stop` does not end coroutines that are under way, and the last one sets `kStateConnected` on a
  side that was stopped. So no property says that a stopped side stays stopped.
* `OneSession` and `Reconnects` are about behaviours without `faulty`. The server's acceptors open one after the
  other, and a client that starts at that moment shifts the pairing; when the client restarts as well, the sides
  can go on closing each other's sessions. After a stop of the server or a failed connect a client does not dial
  again: it has discovered its server once and for all.

No file of the repository states otherwise, so these are documented here and in the hazards, and not findings.

Fairness: `Handlers` (the run loop) and `Net` (the network answers what it was asked and broadcasts are heard).
Weak fairness of their disjunctions is enough: each makes the system progress, and none can be starved for ever by
the others with bounded breaks and stops.

### 3.3 Proofs (`RemoteControlProofs`)

For any bounds:

* `SpecTypeOK`: `Spec => []TypeOK`, with or without `Timely`; so `TypeOK` is not in the run.
* `SpecConnectedIsOpen`, `SpecNothingLeftOpen`: `Timely => (Spec => ...)`. Neither is
  inductive. `ServerInv` adds what `doAccept` keeps true between its suspensions: the channels before the one it waits
  for are open and no other is, and a server that was stopped has only the failure of its accept left to handle.
  `ClientInv` says the same of `connectChannels`, and that there is one `doConnect` at most, of a started
  client that has discovered its server.

* `SpecOneSession`: `Timely => (Spec => []OneSession)`. Nothing marks which session a connection belongs to: the
  pairing rests on three queues being filled and emptied in step. `NoFault` says so: while nothing is `faulty`
  every acceptor was given the sessions in order; the last may still be on its way (`Lag`, which follows the one
  `doConnect`), and `doAccept` has taken one session more from the acceptors it is done with (`Ahead`). So there
  is a `t` with `sessions = t + Ahead + Len(backlog) + Lag` for each acceptor, and what it gives next is `t + 1`.

`Reconnects` is model-checked only.


## 4. `UQuad`

### 4.1 Correspondence

| model | code (`hal/android/UQuad.cpp`) |
|---|---|
| `device` | `m_Device` and its requests; `opening` and `closing` are the halves of `open` and `close` |
| `motors`, `timer`, `posted` | the state machine, its timer (2 s of arming, 100 ms of disarming), events posted to the I/O thread |
| `call` | what a caller has found true and is about to do |
| `power`, `leds`, `dirty` | `m_MotorsPower`, `m_LedsMode`, `m_WriteDirtyFlags` |
| `waits`, `woken` | waits on `m_WriteEvent`, and handlers of cancelled waits still to run |
| `kernel`, `written` | the write request while the kernel has it, and completions not yet reaped |
| `reading`, `sensing` | the read request, and the callbacks of `handleReadPacket` |
| `board` | what the board was told |
| `success`, `failed` | whether `open` reported success; whether a freed request was used |

`Check` and `DispatchEvent` (or `SetLedsMode`) are the two halves of a call: the state is looked at on the caller's
thread and the event, or the flag, comes later. `ArmDisarm` and `SetPower` are the state machine, in which one
event both arms and disarms. `MakeDirty` sets a flag and cancels the wait; `HandleWriteEvent` and
`HandleWritePacket` are the I/O thread's handlers, with `WriteDirtyPacket` and `startWriteEvent`, which cancels a
wait by starting the next. The four motors have one level, `Off`, `Armed` or one of `Powers`.

### 4.2 Runs

| run | instance | shows |
|---|---|---|
| `uquad_one` | one caller, two power levels, two posted events, one session, `Prompt`, fair | one packet in the making at a time (`OneWriter`); the board was told what is neither dirty nor queued (`BoardFollows`); only `armMotors` starts and only `disarmMotors` stops (`CommandsObeyed`); what is wanted is told in the end (`BoardToldInTheEnd`); sensors are read again and again (`KeepsSensing`); no late event leaves power on disarmed motors (`OffUnlessArmed`); no wake-up of the writer is lost (`WriterOnItsWay`) |
| `uquad_open` | violation | finding 4 |

Bounds: the caller may hold a check that has become stale while two of its events wait; two levels of power let
one replace another that is being written. More callers, sessions after the first and packets that cannot be
queued are in the model and are the matter of 4.3: `OffUnlessArmed` and `WriterOnItsWay` are proved for any
number of callers and sessions, with and without `QueueMayFail` and `Prompt`.

Conditions: `CommandsObeyed` needs `Prompt` (no timer expires while an event is on its way). Without it
a second `disarmMotors`, called while the motors still run, can have its `EArmDisarm` processed when disarming
(100 ms) is over: it finds the motors idle and arms them. `OneWriter`
is stated for the first session: a wait survives `close()`, and after another `open()` two handlers can find
something dirty and use the one packet buffer twice.

Fairness: handlers of the I/O thread are run first in, first out by its `io_service`. The writer's need
strong fairness in this model, because each is disabled while the thread is in a sensor callback, which recurs; the
kernel completes requests, and the board keeps measuring.

### 4.3 Proofs (`UQuadProofs`)

For any callers, levels and bounds:

* `TypeCorrect`: `TypeOK` is inductive.
* `MotorsOffUnlessArmed`: `OffUnlessArmed` is inductive by itself, and it is proved of every step: it is the state
  machine on the I/O thread, and no check of a caller, that protects the motors.
* `WriterIsOnItsWay`: `WriterOnItsWay` is not inductive, since a flag may be set when there is no token at all.
  `Awake` adds `TokenExists`: while the device is open there is a wait, a handler to run, or a packet in the kernel. A
  cancelled wait becomes a handler, a handler becomes a packet or a wait, a packet a completion; and
  `NotAsleep`: with something dirty the token is not a wait.

Three more hold under conditions, which are hypotheses of the theorems and are met by the run `uquad_one`; section 4.2
says what fails without them:

* `CommandsAreObeyed`, given `Prompt`: `StillSo` says that while an arming event is on its way, posted or about
  to be, the motors are idle or on their way up already, and the same for disarming. The proof needs that no
  timer expires while an event is on its way, and nothing about the number of callers or sessions.
* `WritesOneAtATime`, given `MaxOpens <= 1`: `Counted` says that there is no token before the session and one in it.
  Wherever the request can be queued twice, two waits of two sessions were there.
* `TheBoardFollows`, given `OneSessionOneCaller`: `InStep` adds to `Counted` that nothing was touched before the
  session, and that a packet in the kernel says what is wanted or its flag is set again. `Counted` is needed
  here: were two packets of one kind in the kernel, the older could have been current when the newer was made.

The liveness properties `BoardToldInTheEnd` and `KeepsSensing` are model-checked only.


## 5. `MediaGraph`

### 5.1 Correspondence

`comm::CameraServer` builds a graph of three components, and so does the model: `Capture`, the OpenMAX encoder and a
`RawWriter` on the server's socket stream.

| model | code |
|---|---|
| `graph`, `inRun`, `pending` | `m_State`, `m_bInRun`, `m_PendingExecutionsCount` of `media/Graph.cpp` |
| `posted`, `run` | `doRun` coroutines that are to start, and the one that is suspended, in the encoder's or the writer's wait |
| `loop`, `control` | where the loop's thread is between two steps of one handler; the coroutine suspended in `doStart` or `doStop` |
| `camera`, `shot` | where the camera's thread is in `onCameraVideoFrame` and `onSampleGenerated`; frames taken |
| `queue`, `current` | `m_VideoBufferQueue` and `m_VideoBufferCurrent` of `media/Capture.cpp` |
| `inputs`, `inFlight`, `filling`, `encoded` | the buffers of the encoder's ports: free inputs, inputs and outputs the codec has, outputs it gave back: filled, or `Empty` on the way to idle |
| `answers`, `held` | calls of `m_EBDYieldEvent->set()` on their way to the loop; `m_pVideoOutputBuffer` |
| `writing`, `old`, `sending`, `stream`, `last` | `m_CurrentVideoBuffer` of `RawWriter`, whether it is of an encoder that is gone; the write, the stream and what is on it |

The camera's thread is cut at each access to `m_State`, `m_bInRun` and the pending count (`CameraFrame` to
`CameraSpawn`, `Graph.cpp:573-587`), and so is `doRun` at its end (`EndRun`, `ClearInRun`, lines 562-570) and
`doResume` (`Resume`, `ResumeCapture`, `Resumed`), because that thread runs between them. The rest of the loop's
code is atomic between suspensions. `DoRun` is a run up to the encoder's wait, `EncoderAnswers` from there to
the writer's, `WriteDone`, `WriteFails` and `RunFreed` the ends; `EncodeTimeout` is the wait of 300 ms. A frame
is a number, a buffer is the frame it holds. On the way to idle the codec gives back, in any order, the inputs
it has not read and the outputs it has not filled (`Flush`), and `unprepare` waits until it has none
(`Stopped`). An answer of the codec wakes whichever run waits when the loop gets to it
(`VideoEncoder.cpp:834-845`), so after a time-out it may wake the next.

### 5.2 The run `media_graph`

Four frames through a queue of two, an encoder with two inputs and three outputs, two starts, one pause after each,
two time-outs after each; fair.

* `OneRun`: `m_bInRun` lets one `doRun` at a time into the components, though it is written by two threads and
  cleared by `start` and `stop`. `RestedBetweenRuns`: whatever fails, `Capture` and the encoder keep no frame
  after a run.
* `LagOnlyByTimeout`: a run writes its own frame unless a wait timed out, and the encoder's queue of filled
  buffers is never longer than the number of time-outs. Each time-out delays every later frame by one, until the
  graph is stopped.
* `OutputsAccounted`: the encoder's output buffers are with the codec, filled, or held, except those whose last
  reference went while the graph was paused: at most two for each pause.
* `ImplementsFramePipe`: frames reach the stream in the camera's order and none twice.
* `NotStalled`: a full queue is drained while the graph runs – a frame that finds it full asks for no run.
* `RunEnds`: a run that `stop` finds suspended ends, though the closed stream calls no handler: `unprepare` frees the
  event it waits on.

Why these bounds: four frames are two more than the queue holds, three outputs are one more than a run and a
kept write use, and the second start comes after every kind of first one.

Conditions:

* `NotStalled` is about behaviours with `settled`: the caller lets a run end before it resumes the graph, and
  the camera is slower than two consecutive steps of one handler. Without it TLC finds two stalls: the camera's
  thread reads `m_bInRun` and counts its frame after `doRun` found none pending and cleared the flag
  (`Graph.cpp:578`); and `resume` clears the pending count under a suspended run (line 510). Whenever the queue
  is full by then, nobody asks for a run again. All the other properties are checked with and without `settled`.
* The owner closes its stream before it stops the graph under a run (`Stop`), as `CameraServer` does.
* `TurnTaken`: while `prepare` and `unprepare` wait for the codec's change of state, the loop runs what was
  posted before, in the order of posting, and the camera's callback returns.
* The codec fills an output buffer before it gives the input back (`Encode`).
* A write of `RawWriter`, of the size and of the data, is one write.
* Calls of the owner come after the handler of the last one.

Fairness: threads and handlers go on; the codec answers, and a wait with a time-out ends; a write on an open stream is
done or fails. Nothing is assumed of the camera's next frame or of the owner's calls.

### 5.3 Proofs (`MediaGraphProofs`, `FramePipeProofs`)

For any sizes and bounds, with or without `settled`:

* `SpecTypeOK`, with the bound of `Capture`'s queue.
* `SpecOneRun`, `SpecRestedBetweenRuns`. The strengthening says, besides types (`Typed`), which states of the
  flag go with which runs: between the camera's store to `m_bInRun` and its spawn, or while a run is posted,
  suspended, or clearing the flag, no other is there (`Alone`, `RunFlag`); the coroutines of the owner find the
  loop at rest (`AtRest`); an encoder's answer and the frames kept belong to the run (`Answered`, `Kept`).
  `Streaming`, on top of these: only a run writes, and on a stream that is not closed; under a run that a stop
  left suspended the stream is closed; and a stopped encoder has no buffers with the codec and none filled.
* `SpecImplementsFramePipe`: the refinement. `Ordered` says that the sequences of filled buffers, of buffers
  with the codec and of the queue rise, each is below the next, and all are above the last frame on the stream;
  of an idle graph the filled buffers do not count (`Filled`), since what the codec returns on the way to idle
  is never written (`Streaming`). `Written` puts the frame being written between. Every step but the camera's
  and the end of a write stutters.

* `SpecOutputsAccounted`: `Balance` adds to the property what a run under way may still lose when the graph was paused
  (`AtStake`): two buffers while it waits for the encoder, one while it writes, for which a pause pays with its two.
  `Hands` says that the run and the writer hold the same buffer while it is written.
* `SpecLagOnlyByTimeout`, for `MaxLate # 0` (a zero would count no time-out): `Lagging` says that the encoder
  has no more frames than there were time-outs and one for the run that waits; with no time-out that one is the
  run's own (`OnlyItsOwn`). It needs `Answering`: an answer comes with a filled buffer, so that a run which is
  woken does not leave without one, and a stopped encoder is empty, so that the next start begins with no lag.

The liveness properties `NotStalled` and `RunEnds` are model-checked only.


## 6. `CameraLink`

### 6.1 Correspondence

| model | code |
|---|---|
| `server`, `client` | `m_State` of `comm/CameraServer.cpp` and `comm/CameraClient.cpp` |
| `stask`, `ctask`, `ending` | the coroutine suspended in `doStart` or `doStop`, and where; a `doDisconnect` that waits for a pause |
| `sgraph`, `cgraph` | the states of the two media graphs (`MediaGraph` has the server's in detail) |
| `listening`, `waiting`, `ready`, `accepted` | `m_Acceptor`, its `async_accept`s, results whose handlers are to run, `m_Socket` |
| `sstream`, `cstream`, `writing`, `reading` | `m_SocketStream` and what is under way on it |
| `dial`, `dialled` | the client's `async_connect` |
| `backlog`, `lost` | the network: connections not yet accepted, connections lost |

The server accepts one connection; `handleAccept` moves the socket into the stream and resumes the graph
(`HandleAccept`). A write that fails closes the stream, pauses the graph and accepts again (`WriteError`).
`doStop` of a connected server pauses, closes, stops the graph, and closes the acceptor, with the loop running
in between (`ServerStop`, `ServerPaused`, `ServerStopped`). A graph that is paused or stopped changes its state
at once; the event that is waited for takes a turn of the loop. A stream that is closed drops the handlers of
what was under way on it (`CloseStream`), so whoever closed it must do what they would have done.

### 6.2 The run `camera_link`

Three connects, two starts of each side, one connection lost; fair.

* `OneAccept`: there is one `m_Socket`, and four places start an accept on it: one at most is under way, also
  when the server is stopped and started again while the handler of the aborted one is still to run.
* `ConnectedRuns`: a side that says it is connected has a running graph on an open stream, and no other graph runs.
* `StaysStopped`, `NoneLeftOpen`, `StopsAccepting`: a stopped side stays so, has no connection, and its last
  accept is over.
* `Served`: a connected client is in the end the one the server's graph writes to, or learns that it is not.

Three connects let one be served, one wait in the backlog, and one come after both.

Condition: `NoneLeftOpen` and `Served` are about behaviours with `calm`, where nobody connects to a server while
it stops, and no client is stopped while it connects. Without it TLC finds a connection accepted while `doStop`
waits for its graph: the graph refuses to resume, and `handleAccept` closes `m_Socket`, which it has moved from
(`CameraServer.cpp:382-401`); the stream stays open with nobody to write to it, and the client waits on it. The
calls of one side come one at a time, and the client's reader reads until an error.

Fairness: the two loops run their handlers, the network does what was asked for and tells of what it lost, and
frames keep coming (`Write`), without which a server would never learn that its client is gone.

### 6.3 Proofs (`CameraLinkProofs`)

For any number of connects, starts and losses: `SpecTypeOK`, `SpecOneAccept`, `SpecConnectedRuns` and
`SpecStaysStopped`, with or without `calm`, and `SpecNoneLeftOpen`, which is about `calm` behaviours.
`ServerInv` is what makes them inductive: a connected server has no accept under way and a stopped one neither
that nor an acceptor, so an accept starts only where none is; and a write is under way only on the stream of a
connected server. `ClientInv` relates the client's suspended coroutines to the states of its graph. For
`NoneLeftOpen` there is `Closing`, which holds while `calm` does: a server that is not connected and a client
that is idle or about to stop have no stream; a successful accept finds its server started and in no coroutine;
and while the server waits for a pause of its graph, or stops, nobody is connecting to it. Liveness is
model-checked only.


## 7. `Motors`

### 7.1 Correspondence

`src/fw/uQuad.X/motors.c`, with the scaling of a packet's powers in `comm.c:34-60`. `step` is the next of the
eight stores of `motors_set_pwm` – for each motor its bit and its byte – and the interrupt may come between any
two. The bits are set and cleared by single instructions of the PIC, so the two `|=` and `&=` of the main loop
and of the interrupt do not lose each other's. `order` has the arguments and `given` those of the last call that
returned (history). `Pulse` and `Pause` are the two halves of `motors_isr`; all arithmetic is modulo 256, and
the timer overflows one tick after it has counted to 255. The timer's interrupt starts after `motors_init` has
set all powers to 0.

### 7.2 The run `motors`

`MOTORS_MAX_PWM` is 94 as in the code, packets have powers 0, 128 and 255 (the first and the last motor alike),
which switch each motor on, off, and from one power to another; fair (the timer overflows again and again).

* `OnePulse`: one motor at a time has a pulse, and the byte for the pause, 0 of which would mean that there is
  none, never wraps to it. `ConstantFrame`: pulse and pause, from two formulas, always add up to one frame.
* `PulseOfAnOrder`: a pulse that begins amid `motors_set_pwm` is of the last order or of the new one.
* `Pulses`: a motor that is told to run, and not to stop, has its pulses for ever.

### 7.3 Proofs (`MotorsProofs`)

For every `MaxPwm` up to 127, the largest whose frame fits the timer, and any packets: `SpecTypeOK`,
`SpecOnePulse`, `SpecConstantFrame` and `SpecPulseOfAnOrder`. `ScaleInRange` and `TimerValues` show that no byte
wraps; `PartlyWritten` says which bytes and bits are of the order being written and which of the last, and makes
the invariant inductive.


## 8. `ControlSystem`

### 8.1 Correspondence

| model | code |
|---|---|
| `order`, `wires` | `m_NodesVisitOrder` of `base/Graph.cpp`, and its edges; a block's `m_Order` is its position |
| `service` | `m_SM` of `control::System`, with the states of `base/Service.h`; while `doStart` visits the blocks, whether it is on its way (`starting`) or on its way back (`undoing`) |
| `pos` | the position `visitAllNodes` has come to |
| `prepared` | blocks whose `prepare` was called last, and not their `unprepare` |
| `requests` | `m_BlockUpdateRequests` |
| `asked`, `todo`, `heads`, `at`, `updated`, `result` | where `Graph::visit` is (lines 272-328): the positions it was called with, those it has not come to, the readers in `n2p` it has not walked from, the position of the inner loop, `nodesProcessed` in the order they were set, and how it ended |

`AddBlock` and `Connect` build the graph, each followed by `topological_sort`, of which any result is possible
(`Sorted`). The applications build it once, before the first start, and connect no cycle
(`PoseEstimationView.cpp:284-330`). `Start` begins `visitAllNodes` (`base/Graph.cpp:255-270`), which prepares
block by block (`PrepareBlock`) until it is through (`Started`) or a block refuses (`BlockRefuses`); then it
goes back and unprepares those before (`UnprepareBlock`, `Refused`). `Stop` is `doStop`, which does nothing: the
blocks stay prepared and the requests are kept. `Update` to `UpdateEnds` are one handler, since no block
suspends: it takes the requests, and for each, in order, walks along the visiting order from it and from each of
its readers until it meets a block that was updated or updates one that nobody reads. A block that fails ends
the visit; the other requests are dropped, and `doUpdate` reports success all the same (`Finish`;
`System.cpp:128-151`). `result` tells how the visit ended, which the program forgets.

### 8.2 The run `control_system`

Four blocks and every acyclic graph of them, interchangeable (`SYMMETRY`; no liveness).

* `AllOrNone`: a system that runs has all its blocks prepared, and between starts all are or none: a start that was
  refused half way has unprepared each block it had prepared, wherever in the order it was refused.
* `RequestedOnce`: an update that meets no error has updated what was asked for, and what reads it, exactly once.
* `ReadersFollow`: whoever reads from a block that was updated is updated after it and not before: to the motors
  nothing is computed from a signal that the same update changes later.

Four blocks make chains, diamonds, two sources and two sinks. `ReadersFollow` is about graphs with one sink, as
the application's, where the motors' block is the only one nobody reads. It needs that: a walk ends at a sink,
whatever comes after it in the order. With a chain `a`, `b`, `c` and another sink `d`, ordered `a`, `b`, `d`, `c`,
a request for `a` updates `a`, `b`, `d` and never `c`. No file of the repository says what `visit` promises,
so this is no finding. `RequestedOnce` holds in all graphs.

### 8.3 Proofs (`ControlSystemProofs`)

For any set of blocks, finite or not: `SpecTypeOK`, `SpecAllOrNone`, `SpecRequestedOnce`, `SpecReadersFollow`.
For `AllOrNone`, `StartInv` says what is prepared half way: on its way those blocks that `doStart` has passed,
or all when it was started before; on its way back those before its position, and the block that refused is not
among them. `GraphInv` says that the order has no block twice and agrees with the connections. For
`RequestedOnce`, `NoneTwice` says that no position is updated twice, and `Reached` that what the visit has come
to is updated, is next, or has its readers next. For `ReadersFollow` the idea is in `Walk(f)`: with one sink,
which is then the last of the order, the first walk goes from its start to the end of the order without a gap,
and all later ones find their first block updated already, so that the updated blocks are those from `f + 1` to
the end, in order. That the one sink is last follows from `ReadersAfter`: readers come later in the order.


## 9. Findings

Each is shown by a run that TLC ends with a counterexample.

1. **Two `doSendMessage` at a time** (`channel_spawn_race`). `comm/Channel.cpp:153` asserts `!m_SendYield`. The
   coroutine pops under the lock, then looks at the queue without it. A message pushed in between by another thread
   finds the queue empty and spawns a second coroutine, while the first takes that message too.
2. **Receiving while sending** (`channel_duplex`). `doReceiveMessage` flushes the stream buffer it shares
   with `doSendMessage` (line 132). When that is suspended in a write, the flush writes through the other
   coroutine's yield, against boost's assertion that a coroutine is pulled only when it does not run.
3. **Close between two parts of a write** (`channel_partial_write`). `SocketDevice::write` tests `m_SendYield`
   once and then loops over `m_Socket` and `m_SendYield`, which `close` has reset (line 36).
4. **`open()` reports success though it failed** (`uquad_open`). When `startAsyncIOTasks` fails the device is
   closed, but nothing returns: `open` goes on and returns `kENoError` (`hal/android/UQuad.cpp:176-189`), against
   `hal/tests/testUQuad.cpp:12-13`.


## 10. Conventions

* A failed assertion, a deadlock of a thread with itself or a use after free sets `failed`, after which nothing
  happens. Properties that hold "unless the program stopped" say so.
* Definitions marked as mutants are forms of the definition below them with one plausible mistake. They are
  used nowhere in the models, and each shows that a property notices that mistake.
* Deadlock is checked in `motors`, which never ends, and in no other run: users stop calling, connections are
  bounded, and a system with nothing to do stops. That work under way does not get stuck is stated by the
  liveness properties.
* An invariant that is proved for every instance is checked by a run only where it is also the subject of a mutant;
  the type invariants of all modules are proved, and are in no run.
* `PROJECT.json` maps each definition that models code to the lines it stands for.
* To check a run: `tlc -config channel_queue.cfg MCChannel`; to check the proofs: `tlapm ChannelProofs.tla`.


## 11. Not modelled, and why

* `Channel`: the content of messages; reads that deliver part of a message; users with two receives outstanding
  (`RemoteControl` has one); handlers that send when told `kEDeviceBusy` (no application does, and the lock is held).
* `RemoteControl`: a discovery socket that cannot be opened or bound (`startDiscovery` then calls its handler twice
  on the client); exceptions that leave the loop (`remote_endpoint` of a reset connection, `cancel` of a closed
  acceptor); the watchdog, which only logs.
* `UQuad`: errors and unplugging reported by reaped requests; the four motors' individual levels.
* `MediaGraph`: building the graph (`addComponent`, `connect`, `buildExecutionOrder`), which is sequential; a
  second `start` while the first prepares its components (both find the graph idle, `Graph.cpp:346`); partial
  writes of `RawWriter`; `RawReader`, `Playout`, decoders and the encoders of other platforms.
* `CameraLink`: `RawReader`, which gives up in silence when a sample's size arrives in two parts
  (`media/RawReader.cpp:291`); `connect` while another is under way.
* Firmware: the LEDs' timer; `comm.c` but for the motors' packet; `sensors.c`, which is not in the repository.
* `ControlSystem`: the values of signals, and what blocks compute from them; blocks added or connected after the
  first start.
* Estimators, calibrations and computer vision: numeric code over floating point. Codecs, cameras and
  enumeration: calls into platform libraries. Base types and helpers: no behaviour over time. Two copies of a
  plotting widget (`qcustomplot.cpp`) and the flight filters taken over from elsewhere (`control/blocks/pe`)
  make up more than half of the lines outside `extern`.


## 12. Plan

Done, in this order: `Channel` with `Outbox`; `UQuad`; `RemoteControl`; `MediaGraph` with `FramePipe`; `CameraLink`;
`Motors`; `ControlSystem`; and the proofs about each.

Left:

1. `RawReader`'s framing, as the reader's side of `CameraLink`.
2. `MediaGraph` in the place of the states `sgraph` of `CameraLink`: their composition.
