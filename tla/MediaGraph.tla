----------------------------- MODULE MediaGraph -----------------------------
(***************************************************************************)
(* media::Graph as comm::CameraServer builds it: a Capture, the OpenMAX    *)
(* encoder and a RawWriter.  The camera's thread puts frames in Capture's  *)
(* queue and asks for a run; the run loop's thread runs the components in  *)
(* order in a coroutine, which the encoder and the writer suspend.  start, *)
(* stop, resume and pause are coroutines of the same loop; only start and  *)
(* stop suspend.  Each is called after the handler of the last one.        *)
(***************************************************************************)
EXTENDS Naturals, Sequences, FiniteSets

CONSTANTS
  QueueSize,  \* capacity of Capture's queue of frames
  Inputs,     \* buffers of the encoder's input port
  Outputs,    \* and of its output port
  MaxFrames,  \* frames the camera takes (a bound)
  MaxStarts,  \* calls of start() (a bound)
  MaxPauses,  \* calls of pause(), between a start and a stop (a bound)
  MaxLate     \* waits for the encoder that time out in that time (a bound; those
              \* of a codec that cannot answer go on, and are not counted further)

ASSUME MediaGraphAssumption ==
  /\ QueueSize \in Nat \ {0} /\ Inputs \in Nat \ {0} /\ Outputs \in Nat \ {0}
  /\ MaxFrames \in Nat /\ MaxStarts \in Nat /\ MaxPauses \in Nat /\ MaxLate \in Nat

VARIABLES
  graph,     \* m_State of the graph
  loop,      \* where the loop's thread is between two steps of one handler
  control,   \* the coroutine that is suspended in start() or stop()
  inRun,     \* m_bInRun
  pending,   \* m_PendingExecutionsCount
  posted,    \* doRun coroutines that are to start
  run,       \* the doRun coroutine that is suspended: where, with which frame
  camera,    \* where the camera's thread is in onCameraVideoFrame
  shot,      \* frames the camera has taken
  queue,     \* m_VideoBufferQueue
  current,   \* m_VideoBufferCurrent, 0 for null
  inputs,    \* input buffers in their queue
  inFlight,  \* frames whose input buffers the codec has
  filling,   \* output buffers the codec has
  encoded,   \* what is in the output buffers the codec has returned, in their queue
  answers,   \* calls of m_EBDYieldEvent->set() the loop has to run
  held,      \* what is in m_pVideoOutputBuffer, 0 for null
  writing,   \* what is in the writer's m_CurrentVideoBuffer, 0 for null
  old,       \* that buffer is of an encoder that was unprepared
  stream,    \* the writer's stream
  sending,   \* the stream has a write to do
  last,      \* last frame that is on the stream
  starts, pauses, late,  \* counts; of pauses and timeouts since the start
  settled    \* the caller lets a run end before it resumes the graph, and between
             \* two steps of a handler the loop is not held up for a whole frame

graphVars   == <<graph, loop, control, inRun, pending, posted>>
cameraVars  == <<camera, shot, queue>>
codecVars   == <<inputs, inFlight, filling, encoded, answers>>
writerVars  == <<writing, old, sending, last>>
counts      == <<starts, pauses, late>>
vars == <<graphVars, cameraVars, codecVars, writerVars, counts,
          run, current, held, stream, settled>>

Frames   == 1..MaxFrames
Empty    == MaxFrames + 1  \* an output buffer that comes back without a frame
Contents == Frames \cup {Empty}
NoRun    == [at |-> "none", frame |-> 0]

TypeOK ==
  /\ graph \in {"idle", "paused", "running"}
  /\ loop \in {"free", "resuming", "resumed", "clearing"}
  /\ control \in {"none", "starting", "stopping"}
  /\ inRun \in BOOLEAN /\ pending \in Nat /\ posted \in Nat
  /\ run \in [at : {"encode", "write", "freed"}, frame : Frames] \cup {NoRun}
  /\ camera \in {"away", "push", "check", "test", "count", "post", "spawn"}
  /\ shot \in 0..MaxFrames
  /\ queue \in Seq(Frames) /\ Len(queue) <= QueueSize
  /\ current \in {0} \cup Frames /\ held \in {0} \cup Contents
  /\ writing \in {0} \cup Contents /\ last \in {0} \cup Contents
  /\ inputs \in Nat /\ filling \in Nat /\ answers \in Nat
  /\ inFlight \in Seq(Frames) /\ encoded \in Seq(Contents)
  /\ stream \in {"closed", "open", "broken"} /\ sending \in BOOLEAN /\ old \in BOOLEAN
  /\ starts \in 0..MaxStarts /\ pauses \in 0..MaxPauses /\ late \in 0..MaxLate
  /\ settled \in BOOLEAN

Init ==
  /\ graph = "idle" /\ loop = "free" /\ control = "none"
  /\ inRun = FALSE /\ pending = 0 /\ posted = 0 /\ run = NoRun
  /\ camera = "away" /\ shot = 0 /\ queue = <<>> /\ current = 0
  /\ inputs = 0 /\ inFlight = <<>> /\ filling = 0 /\ encoded = <<>> /\ answers = 0
  /\ held = 0 /\ writing = 0 /\ old = FALSE
  /\ stream = "closed" /\ sending = FALSE /\ last = 0
  /\ starts = 0 /\ pauses = 0 /\ late = 0
  /\ settled \in BOOLEAN

-----------------------------------------------------------------------------
(***************************************************************************)
(* The camera's thread                                                     *)
(***************************************************************************)
\* onCameraVideoFrame: isRunning() is read before the lock is taken.
CameraFrame ==
  /\ camera = "away" /\ shot < MaxFrames /\ graph = "running"
  /\ settled => loop = "free" \/ (loop # "clearing" /\ queue = <<>>)
  /\ camera' = "push" /\ shot' = shot + 1
  /\ UNCHANGED <<graphVars, codecVars, writerVars, counts, run, queue, current, held,
                 stream, settled>>

\* Mutant: a frame is put before the others.
EnqueueFirst(q, f) == IF Len(q) < QueueSize THEN <<f>> \o q ELSE <<f>> \o Tail(q)
\* A circular buffer: a frame that finds it full drops the oldest.
Enqueue(q, f) == IF Len(q) < QueueSize THEN Append(q, f) ELSE Append(Tail(q), f)

CameraPush ==
  /\ camera = "push"
  /\ queue' = Enqueue(queue, shot)
  /\ camera' = IF Len(queue) < QueueSize THEN "check" ELSE "away"
  /\ UNCHANGED <<graphVars, codecVars, writerVars, counts, run, shot, current, held,
                 stream, settled>>

\* onSampleGenerated: two reads, then a count or a store and one more read.
CameraReads ==
  /\ \/ camera = "check" /\ camera' = IF graph = "running" THEN "test" ELSE "away"
     \/ camera = "test" /\ camera' = IF inRun THEN "count" ELSE "post"
  /\ UNCHANGED <<graphVars, codecVars, writerVars, counts, run, shot, queue, current, held,
                 stream, settled>>

\* Mutant: a run that is under way is thought to take this frame too.
CountNone == UNCHANGED pending
CountRun  == pending' = pending + 1

CameraCount ==
  /\ camera = "count" /\ camera' = "away"
  /\ CountRun
  /\ UNCHANGED <<graph, loop, control, inRun, posted, codecVars, writerVars, counts, run,
                 shot, queue, current, held, stream, settled>>

CameraPost ==
  /\ camera = "post" /\ camera' = "spawn"
  /\ inRun' = TRUE
  /\ UNCHANGED <<graph, loop, control, pending, posted, codecVars, writerVars, counts, run,
                 shot, queue, current, held, stream, settled>>

CameraSpawn ==
  /\ camera = "spawn" /\ camera' = "away"
  /\ posted' = IF inRun THEN posted + 1 ELSE posted
  /\ UNCHANGED <<graph, loop, control, inRun, pending, codecVars, writerVars, counts, run,
                 shot, queue, current, held, stream, settled>>

Camera ==
  \/ CameraPush \/ CameraReads \/ CameraCount \/ CameraPost \/ CameraSpawn

-----------------------------------------------------------------------------
(***************************************************************************)
(* doRun                                                                   *)
(***************************************************************************)
\* The last reference to an output buffer is gone: returnOMXOutputBuffer gives
\* it to the codec, but drops it when the graph does not run.
Returned == IF graph = "running" THEN filling + 1 ELSE filling

\* The end of doRun: the pending count, then m_bInRun, which the camera's
\* thread may read in between.  n coroutines are still to start.
EndRun(n) ==
  /\ run' = NoRun
  /\ IF pending > 0
     THEN /\ pending' = pending - 1
          /\ posted' = IF inRun THEN n + 1 ELSE n
          /\ UNCHANGED loop
     ELSE loop' = "clearing" /\ posted' = n /\ UNCHANGED pending
  /\ UNCHANGED <<graph, control, inRun>>

ClearInRun ==
  /\ loop = "clearing" /\ loop' = "free" /\ inRun' = FALSE
  /\ UNCHANGED <<graph, control, pending, posted, cameraVars, codecVars, writerVars, counts,
                 run, current, held, stream, settled>>

\* Mutant: a run that fails leaves without resting anything.
RestNone(encoder) == UNCHANGED <<current, held>>
\* A component fails: those before it are rested, the encoder if it is one.
RestBefore(encoder) ==
  /\ current' = 0
  /\ held' = IF encoder THEN 0 ELSE held

DoRunStopped ==
  /\ loop = "free" /\ posted > 0 /\ run = NoRun /\ graph # "running"
  /\ posted' = posted - 1 /\ inRun' = FALSE /\ pending' = 0
  /\ UNCHANGED <<graph, loop, control, cameraVars, codecVars, writerVars, counts, run,
                 current, held, stream, settled>>

\* Capture takes a frame, or keeps the one it has when there is none; the
\* encoder gives it to the codec and waits, or fails.
DoRun ==
  /\ loop = "free" /\ posted > 0 /\ run = NoRun /\ graph = "running"
  /\ LET frame == IF queue = <<>> THEN current ELSE Head(queue) IN
     /\ queue' = IF queue = <<>> THEN queue ELSE Tail(queue)
     /\ IF frame # 0 /\ inputs > 0
        THEN /\ run' = [at |-> "encode", frame |-> frame] /\ current' = frame
             /\ inputs' = inputs - 1 /\ inFlight' = Append(inFlight, frame)
             /\ posted' = posted - 1
             /\ UNCHANGED <<graph, loop, control, inRun, pending, held>>
        ELSE RestBefore(FALSE) /\ EndRun(posted - 1) /\ UNCHANGED <<inputs, inFlight>>
  /\ UNCHANGED <<camera, shot, filling, encoded, answers, writerVars, counts, stream, settled>>

\* Mutant: the buffer is kept.
NotReplaced == filling
\* The buffer that the writer kept of a write that failed is let go when it
\* takes the next.  One of an encoder that is gone is given to the new codec,
\* which does not know it: not a buffer of this port.
Replaced    == IF writing # 0 /\ ~old THEN Returned ELSE filling

\* The loop runs a set(): it wakes the run that waits for the encoder, though
\* the answer may be that of an earlier frame.  The writer takes the oldest
\* filled buffer and writes it; on a closed stream nothing happens, and nobody
\* wakes the run.
EncoderAnswers ==
  /\ loop = "free" /\ answers > 0 /\ answers' = answers - 1
  /\ IF run.at # "encode"
     THEN UNCHANGED <<graphVars, run, current, held, writerVars, filling, encoded>>
     ELSE IF encoded = <<>>
     THEN /\ RestBefore(FALSE) /\ EndRun(posted)
          /\ UNCHANGED <<writerVars, filling, encoded>>
     ELSE /\ held' = Head(encoded) /\ encoded' = Tail(encoded)
          /\ writing' = held' /\ old' = FALSE
          /\ filling' = Replaced
          /\ run' = [run EXCEPT !.at = "write"]
          /\ sending' = (stream # "closed")
          /\ UNCHANGED <<graphVars, current, last>>
  /\ UNCHANGED <<cameraVars, inputs, inFlight, counts, stream, settled>>

\* A codec that has no output buffer, or that has lost the frame's input, does
\* not answer; another may be late.
Answerable == answers > 0 \/ (inFlight # <<>> /\ filling > 0)

EncodeTimeout ==
  /\ loop = "free" /\ run.at = "encode"
  /\ Answerable => late < MaxLate
  /\ late' = IF late < MaxLate THEN late + 1 ELSE late
  /\ RestBefore(FALSE) /\ EndRun(posted)
  /\ UNCHANGED <<cameraVars, codecVars, writerVars, starts, pauses, stream, settled>>

\* The write is done: all three are rested, and the writer has the last
\* reference to the buffer.
RestAll ==
  /\ current' = 0 /\ held' = 0 /\ writing' = 0 /\ old' = FALSE
  /\ filling' = Returned

WriteDone ==
  /\ loop = "free" /\ run.at = "write" /\ sending /\ stream = "open"
  /\ sending' = FALSE /\ last' = writing
  /\ RestAll /\ EndRun(posted)
  /\ UNCHANGED <<cameraVars, inputs, inFlight, encoded, answers, counts, stream, settled>>

\* The writer is not rested: it keeps the buffer.
WriteFails ==
  /\ loop = "free" /\ run.at = "write" /\ sending
  /\ sending' = FALSE /\ stream' = "broken"
  /\ RestBefore(TRUE) /\ EndRun(posted)
  /\ UNCHANGED <<cameraVars, codecVars, writing, old, last, counts, settled>>

\* The writer's event was freed: the wait returns what is in its memory.
RunFreed ==
  /\ loop = "free" /\ run.at = "freed"
  /\ RestBefore(TRUE)
  /\ \/ writing' = 0 /\ old' = FALSE
     \/ UNCHANGED <<writing, old>>
  /\ EndRun(posted)
  /\ UNCHANGED <<cameraVars, codecVars, sending, last, counts, stream, settled>>

-----------------------------------------------------------------------------
(***************************************************************************)
(* The codec                                                               *)
(***************************************************************************)
\* It fills an output buffer and gives the input buffer back, whatever the
\* loop does.
Encode ==
  /\ inFlight # <<>> /\ filling > 0
  /\ filling' = filling - 1 /\ encoded' = Append(encoded, Head(inFlight))
  /\ inputs' = inputs + 1 /\ inFlight' = Tail(inFlight)
  /\ answers' = answers + 1
  /\ UNCHANGED <<graphVars, cameraVars, writerVars, counts, run, current, held, stream, settled>>

\* On its way to idle it gives back the inputs it has not read and the outputs
\* it has not filled, in any order.
FlushInput ==
  /\ inFlight # <<>>
  /\ inputs' = inputs + 1 /\ inFlight' = Tail(inFlight)
  /\ answers' = answers + 1
  /\ UNCHANGED <<filling, encoded>>

FlushOutput ==
  /\ filling > 0
  /\ filling' = filling - 1 /\ encoded' = Append(encoded, Empty)
  /\ UNCHANGED <<inputs, inFlight, answers>>

Flush ==
  /\ control = "stopping" /\ (FlushInput \/ FlushOutput)
  /\ UNCHANGED <<graphVars, cameraVars, writerVars, counts, run, current, held, stream, settled>>

-----------------------------------------------------------------------------
(***************************************************************************)
(* start, resume, pause and stop                                           *)
(***************************************************************************)
Callable == loop = "free" /\ control = "none"
Quiet == run = NoRun /\ posted = 0

\* While prepare and unprepare wait for the codec the loop runs what was
\* posted before, and the callback of the camera's thread ends.
TurnTaken ==
  /\ loop = "free" /\ posted = 0 /\ camera = "away"
  /\ answers = 0 /\ run.at # "freed"

ResetRun == inRun' = FALSE /\ pending' = 0

Start ==
  /\ Callable /\ graph = "idle" /\ starts < MaxStarts
  /\ control' = "starting" /\ starts' = starts + 1
  /\ UNCHANGED <<graph, loop, inRun, pending, posted, cameraVars, codecVars, writerVars,
                 pauses, late, run, current, held, stream, settled>>

\* The encoder could not be prepared: the graph stays idle.
StartFails ==
  /\ control = "starting" /\ loop = "free" /\ control' = "none"
  /\ UNCHANGED <<graph, loop, inRun, pending, posted, cameraVars, codecVars, writerVars,
                 counts, run, current, held, stream, settled>>

Started ==
  /\ control = "starting" /\ TurnTaken
  /\ control' = "none" /\ graph' = "paused"
  /\ inputs' = Inputs /\ filling' = Outputs
  /\ ResetRun
  /\ pauses' = 0 /\ late' = 0
  /\ UNCHANGED <<loop, posted, cameraVars, inFlight, encoded, answers, writerVars, starts,
                 run, current, held, stream, settled>>

\* Running from here on for the camera's thread.
Resume ==
  /\ Callable /\ graph = "paused"
  /\ settled => Quiet
  /\ graph' = "running" /\ loop' = "resuming"
  /\ UNCHANGED <<control, inRun, pending, posted, cameraVars, codecVars, writerVars, counts,
                 run, current, held, stream, settled>>

ClearQueue == queue' = <<>> /\ current' = 0

ResumeCapture ==
  /\ loop = "resuming" /\ loop' = "resumed"
  /\ ClearQueue
  /\ UNCHANGED <<graph, control, inRun, pending, posted, camera, shot, codecVars, writerVars,
                 counts, run, held, stream, settled>>

\* Mutant: resume clears the flag as prepare does.
ForgetRun == ResetRun
ForgetPending == pending' = 0 /\ UNCHANGED inRun

\* The writer needs an open stream; when it has none Capture is paused again.
Resumed ==
  /\ loop = "resumed" /\ loop' = "free"
  /\ IF stream # "closed"
     THEN ForgetPending /\ UNCHANGED <<graph, queue, current>>
     ELSE graph' = "paused" /\ ClearQueue /\ UNCHANGED <<inRun, pending>>
  /\ UNCHANGED <<control, posted, camera, shot, codecVars, writerVars, counts, run,
                 held, stream, settled>>

Pause ==
  /\ Callable /\ graph = "running" /\ pauses < MaxPauses
  /\ graph' = "paused" /\ pauses' = pauses + 1
  /\ ClearQueue
  /\ UNCHANGED <<loop, control, inRun, pending, posted, camera, shot, codecVars, writerVars,
                 starts, late, run, held, stream, settled>>

\* The owner closes its stream first, as CameraServer does; a write that is
\* under way is dropped with it.
Stop ==
  /\ Callable /\ graph # "idle"
  /\ run = NoRun \/ stream = "closed"
  /\ graph' = "idle" /\ control' = "stopping"
  /\ IF graph = "running" THEN ClearQueue ELSE UNCHANGED <<queue, current>>
  /\ UNCHANGED <<loop, inRun, pending, posted, camera, shot, codecVars, writerVars, counts,
                 run, held, stream, settled>>

\* Mutant: the writer keeps its event.
KeepEvent == UNCHANGED run
FreeEvent == run' = IF run.at = "write" THEN [run EXCEPT !.at = "freed"] ELSE run

\* Mutant: what was filled stays in its queue.
KeepFilled  == inputs' = 0 /\ filling' = 0 /\ UNCHANGED encoded
FreeBuffers == inputs' = 0 /\ filling' = 0 /\ encoded' = <<>>

Stopped ==
  /\ control = "stopping" /\ TurnTaken
  /\ inFlight = <<>> /\ filling = 0
  /\ control' = "none"
  /\ FreeBuffers
  /\ FreeEvent /\ old' = (writing # 0)
  /\ ResetRun
  /\ UNCHANGED <<graph, loop, posted, cameraVars, inFlight, answers, writing, sending, last,
                 counts, current, held, stream, settled>>

\* The owner's stream: a new socket, or none, while the graph does not run.
Connect ==
  /\ Callable /\ graph = "paused" /\ ~sending /\ stream # "open"
  /\ stream' = "open"
  /\ UNCHANGED <<graphVars, cameraVars, codecVars, writerVars, counts, run, current, held,
                 settled>>

Close ==
  /\ loop = "free" /\ graph # "running" /\ stream # "closed"
  /\ stream' = "closed" /\ sending' = FALSE
  /\ UNCHANGED <<graphVars, cameraVars, codecVars, writing, old, last, counts, run, current,
                 held, settled>>

Calls == Start \/ StartFails \/ Resume \/ Pause \/ Stop \/ Connect \/ Close

\* What the loop and the codec do by themselves.
Handlers ==
  \/ ClearInRun \/ DoRunStopped \/ DoRun \/ EncoderAnswers \/ RunFreed
  \/ Started \/ ResumeCapture \/ Resumed \/ Stopped

Next ==
  \/ CameraFrame \/ Camera \/ Handlers \/ Calls
  \/ Encode \/ Flush \/ EncodeTimeout \/ WriteDone \/ WriteFails

Spec == Init /\ [][Next]_vars

\* Threads and handlers go on, the codec answers, a wait with a time-out ends
\* and what is written to an open stream is sent or fails.
FairSpec ==
  /\ Spec
  /\ WF_vars(Camera) /\ WF_vars(Handlers)
  /\ WF_vars(Encode \/ Flush) /\ WF_vars(EncodeTimeout)
  /\ WF_vars(WriteDone \/ WriteFails)

-----------------------------------------------------------------------------
(***************************************************************************)
(* Properties                                                              *)
(***************************************************************************)
\* m_bInRun lets one doRun at a time walk through the components, which keep
\* one frame each, though it suspends between them and the flag is also
\* cleared by start and stop.
OneRun == posted + (IF run = NoRun THEN 0 ELSE 1) <= 1

\* Between two runs no component keeps a frame: the camera and the codec have
\* few buffers.  (The writer does, after a write that failed.)
RestedBetweenRuns == run = NoRun => current = 0 /\ held = 0

\* What is written is the frame the same run took, as long as no wait for the
\* encoder timed out.  One that did lets every later frame out one late; nothing
\* else makes the encoder's queue of filled buffers grow.
LagOnlyByTimeout ==
  /\ sending /\ late = 0 => held = run.frame
  /\ graph = "running" /\ run = NoRun /\ late < MaxLate =>
       Len(encoded) + Len(inFlight) <= late

\* An output buffer of the encoder is lost only to a pause that comes while a
\* run is under way: that of the run, and one kept since a write that failed.
\* The others are with the codec, filled, or held.
OutputsAccounted ==
  graph # "idle" =>
    Outputs <= filling + Len(encoded) + 2 * pauses
                 + Cardinality({held, IF old THEN 0 ELSE writing} \ {0})

\* Frames reach the stream in the order the camera took them, none twice.
Pipe == INSTANCE FramePipe WITH sent <- shot, arrived <- last
ImplementsFramePipe == Pipe!Spec

\* When the queue is full the camera does not ask for runs any more; one that
\* is under way takes a frame in the end.
NotStalled ==
  settled /\ Len(queue) = QueueSize ~> Len(queue) < QueueSize \/ graph # "running"

\* A run that stop() finds suspended ends, though nobody answers its write.
RunEnds == graph = "idle" /\ run # NoRun ~> run = NoRun
=============================================================================
