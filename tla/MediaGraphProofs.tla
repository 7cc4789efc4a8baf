-------------------------- MODULE MediaGraphProofs --------------------------
(***************************************************************************)
(* For all sizes of queue and ports: one doRun at a time walks through the *)
(* components of a media graph, and between two of them none keeps a       *)
(* frame.                                                                  *)
(***************************************************************************)
EXTENDS MediaGraph, TLAPS, SequenceTheorems, FiniteSetTheorems

\* What the other parts need of the types.
Typed ==
  /\ posted \in Nat /\ answers \in Nat /\ shot \in Nat /\ current \in Nat
  /\ queue \in Seq(Nat) /\ inFlight \in Seq(Nat)
  /\ run \in [at : {"encode", "write", "freed"}, frame : Nat] \cup {NoRun}

\* No doRun is under way.
Alone == posted = 0 /\ run = NoRun

\* When m_bInRun is not set no doRun is under way, nor while the camera's thread
\* starts one or the loop's is about to clear the flag.
RunFlag ==
  /\ ~inRun /\ run.at # "freed" => Alone
  /\ camera \in {"post", "spawn"} => Alone
  /\ loop = "clearing" =>
       /\ Alone /\ camera \notin {"post", "spawn"}
       /\ inRun \/ (graph = "idle" /\ control # "stopping")

\* A graph that was stopped has at most a doRun whose event was freed.
AtRest ==
  /\ control # "none" => graph = "idle"
  /\ loop \in {"resuming", "resumed"} => graph = "running"
  /\ run.at = "freed" => graph = "idle" /\ control # "stopping"
  /\ graph = "idle" /\ control # "stopping" =>
       /\ posted = 0 /\ camera = "away" /\ ~inRun
       /\ run = NoRun \/ run.at = "freed"

\* A doRun that waits for the encoder has an answer to come, unless it times
\* out: unprepare, which waits for the answers, finds none that waits.
Answered == run.at = "encode" => answers > 0 \/ inFlight # <<>>

\* Frames are kept only by components that are in a run.
Kept ==
  /\ run = NoRun => current = 0
  /\ held # 0 => run.at \in {"write", "freed"}

IInv == Typed /\ OneRun /\ RunFlag /\ AtRest /\ Answered /\ Kept

-----------------------------------------------------------------------------
LEMMA InitIInv == Init => IInv
<1> SUFFICES ASSUME Init PROVE IInv
  OBVIOUS
<1>1. Typed
  BY EmptySeq DEF Init, Typed
<1> QED BY <1>1 DEF Init, IInv, OneRun, Alone, RunFlag, AtRest, Answered, Kept, NoRun

LEMMA AppendNat ==
  ASSUME NEW s \in Seq(Nat), NEW e \in Nat
  PROVE  Append(s, e) \in Seq(Nat) /\ Append(s, e) # <<>>
<1> QED BY AppendProperties

\* Capture's resume and pause empty its queue and let its frame go.
LEMMA Cleared ==
  ASSUME IInv, ClearQueue \/ UNCHANGED <<queue, current>>
  PROVE  queue' \in Seq(Nat) /\ current' \in Nat /\ (run = NoRun => current' = 0)
<1>1. queue \in Seq(Nat) /\ current \in Nat /\ (run = NoRun => current = 0)
  BY DEF IInv, Typed, Kept
<1>2. <<>> \in Seq(Nat)
  BY EmptySeq
<1>3. queue' \in {queue, <<>>} /\ current' \in {current, 0}
  BY DEF ClearQueue
<1>4. queue' \in Seq(Nat)
  BY <1>1, <1>2, <1>3, Zenon
<1>5. current' \in Nat /\ (run = NoRun => current' = 0)
  BY <1>1, <1>3
<1> QED BY <1>4, <1>5

-----------------------------------------------------------------------------
\* The camera's thread.
LEMMA CameraPushIInv == IInv /\ CameraPush => IInv'
<1> SUFFICES ASSUME IInv, CameraPush PROVE IInv'
  OBVIOUS
<1>1. queue' \in Seq(Nat)
  <2>1. QueueSize \in Nat \ {0} /\ queue \in Seq(Nat) /\ shot \in Nat
    BY MediaGraphAssumption DEF IInv, Typed
  <2>2. CASE Len(queue) < QueueSize
    BY <2>1, <2>2 DEF CameraPush, Enqueue
  <2>3. CASE ~(Len(queue) < QueueSize)
    <3>1. queue # <<>>
      BY <2>1, <2>3
    <3>2. Tail(queue) \in Seq(Nat)
      BY <2>1, <3>1
    <3> QED BY <2>1, <2>3, <3>2 DEF CameraPush, Enqueue
  <2> QED BY <2>2, <2>3
<1> QED BY <1>1 DEF CameraPush, IInv, Typed, OneRun, Alone, RunFlag, AtRest, Answered, Kept,
                    graphVars, codecVars

\* It starts a doRun only when none is under way.
LEMMA CameraIInv == IInv /\ (CameraFrame \/ Camera) => IInv'
<1> SUFFICES ASSUME IInv, CameraFrame \/ Camera PROVE IInv'
  OBVIOUS
<1> USE DEF IInv, Typed, OneRun, Alone, RunFlag, AtRest, Answered, Kept
<1>1. CASE CameraFrame
  BY <1>1 DEF CameraFrame, graphVars, codecVars
<1>2. CASE CameraPush
  BY <1>2, CameraPushIInv
<1>3. CASE CameraReads
  BY <1>3 DEF CameraReads, graphVars, codecVars
<1>4. CASE CameraCount
  BY <1>4 DEF CameraCount, codecVars
<1>5. CASE CameraPost
  BY <1>5 DEF CameraPost, NoRun, codecVars
<1>6. CASE CameraSpawn
  BY <1>6 DEF CameraSpawn, codecVars
<1> QED BY <1>1, <1>2, <1>3, <1>4, <1>5, <1>6 DEF Camera

-----------------------------------------------------------------------------
\* doRun up to where the encoder suspends it, or to its end.
LEMMA DoRunIInv == IInv /\ DoRun => IInv'
<1> SUFFICES ASSUME IInv, DoRun PROVE IInv'
  OBVIOUS
<1> DEFINE frame == IF queue = <<>> THEN current ELSE Head(queue)
<1>1. queue' \in Seq(Nat) /\ frame \in Nat
  <2>1. queue \in Seq(Nat) /\ current \in Nat
    BY DEF IInv, Typed
  <2>2. queue # <<>> => Head(queue) \in Nat /\ Tail(queue) \in Seq(Nat)
    BY <2>1
  <2> QED BY <2>1, <2>2 DEF DoRun
<1>2. /\ loop = "free" /\ posted = 1 /\ run = NoRun /\ graph = "running" /\ inRun
      /\ held = 0 /\ camera \notin {"post", "spawn"}
  BY DEF DoRun, IInv, Typed, OneRun, Alone, RunFlag, AtRest, Kept, NoRun
<1>3. CASE frame # 0 /\ inputs > 0
  <2>1. Append(inFlight, frame) \in Seq(Nat) /\ Append(inFlight, frame) # <<>>
    <3>1. inFlight \in Seq(Nat)
      BY DEF IInv, Typed
    <3>2. frame \in Nat
      BY <1>1
    <3> HIDE DEF frame
    <3> QED BY <3>1, <3>2, AppendNat
  <2>2. /\ run' = [at |-> "encode", frame |-> frame] /\ current' = frame
        /\ inFlight' = Append(inFlight, frame)
        /\ posted' = posted - 1
        /\ UNCHANGED <<graph, loop, control, inRun, pending, held, camera, shot, answers>>
    BY <1>3 DEF DoRun
  <2>3. /\ run' \in [at : {"encode", "write", "freed"}, frame : Nat]
        /\ run'.at = "encode" /\ run' # NoRun
    BY <1>1, <2>2 DEF NoRun
  <2>4. Typed'
    BY <1>1, <1>2, <2>1, <2>2, <2>3 DEF IInv, Typed
  <2> QED BY <1>2, <2>1, <2>2, <2>3, <2>4
          DEF IInv, OneRun, Alone, RunFlag, AtRest, Answered, Kept
<1>4. CASE ~(frame # 0 /\ inputs > 0)
  <2>1. /\ current' = 0 /\ held' = held /\ EndRun(posted - 1)
        /\ UNCHANGED <<inFlight, camera, shot, answers>>
    BY <1>4 DEF DoRun, RestBefore
  <2> QED BY <1>1, <1>2, <2>1
          DEF EndRun, IInv, Typed, OneRun, Alone, RunFlag, AtRest, Answered, Kept, NoRun
<1> QED BY <1>3, <1>4

\* An answer of the encoder: the run goes on to the writer, or ends.
LEMMA EncoderAnswersIInv == IInv /\ EncoderAnswers => IInv'
<1> SUFFICES ASSUME IInv, EncoderAnswers PROVE IInv'
  OBVIOUS
<1> USE DEF IInv, Typed, OneRun, Alone, RunFlag, AtRest, Answered, Kept, NoRun
<1>1. CASE run.at # "encode"
  BY <1>1 DEF EncoderAnswers, graphVars, cameraVars
<1>2. CASE run.at = "encode" /\ encoded = <<>>
  BY <1>2 DEF EncoderAnswers, RestBefore, EndRun, cameraVars
<1>3. CASE run.at = "encode" /\ encoded # <<>>
  <2>1. run' = [at |-> "write", frame |-> run.frame]
    BY <1>3 DEF EncoderAnswers
  <2> QED BY <1>3, <2>1 DEF EncoderAnswers, graphVars, cameraVars
<1> QED BY <1>1, <1>2, <1>3

\* The other steps of the loop's thread: the ends of a run.
LEMMA RunIInv ==
  IInv /\ (\/ ClearInRun \/ DoRunStopped \/ EncodeTimeout \/ WriteDone \/ WriteFails
           \/ RunFreed) => IInv'
<1> SUFFICES ASSUME IInv,
                    \/ ClearInRun \/ DoRunStopped \/ EncodeTimeout
                    \/ WriteDone \/ WriteFails \/ RunFreed
             PROVE  IInv'
  OBVIOUS
<1> USE DEF IInv, Typed, OneRun, Alone, RunFlag, AtRest, Answered, Kept, NoRun
<1>1. CASE ClearInRun
  BY <1>1 DEF ClearInRun, cameraVars, codecVars
<1>2. CASE DoRunStopped
  BY <1>2 DEF DoRunStopped, cameraVars, codecVars
<1>3. CASE EncodeTimeout
  BY <1>3 DEF EncodeTimeout, RestBefore, EndRun, cameraVars, codecVars
<1>4. CASE WriteDone
  BY <1>4 DEF WriteDone, RestAll, EndRun, cameraVars
<1>5. CASE WriteFails
  BY <1>5 DEF WriteFails, RestBefore, EndRun, cameraVars, codecVars
<1>6. CASE RunFreed
  BY <1>6 DEF RunFreed, RestBefore, EndRun, cameraVars, codecVars
<1> QED BY <1>1, <1>2, <1>3, <1>4, <1>5, <1>6

\* The codec makes an answer of every input it gives back.
LEMMA CodecIInv == IInv /\ (Encode \/ Flush) => IInv'
<1> SUFFICES ASSUME IInv, Encode \/ Flush PROVE IInv'
  OBVIOUS
<1> USE DEF IInv, Typed, OneRun, Alone, RunFlag, AtRest, Answered, Kept
<1>1. CASE Encode
  BY <1>1 DEF Encode, graphVars, cameraVars
<1>2. CASE Flush
  <2>1. CASE FlushInput
    BY <1>2, <2>1 DEF Flush, FlushInput, graphVars, cameraVars
  <2>2. CASE FlushOutput
    BY <1>2, <2>2 DEF Flush, FlushOutput, graphVars, cameraVars
  <2> QED BY <1>2, <2>1, <2>2 DEF Flush
<1> QED BY <1>1, <1>2

-----------------------------------------------------------------------------
\* start, resume, pause and stop.
LEMMA StopIInv == IInv /\ Stop => IInv'
<1> SUFFICES ASSUME IInv, Stop PROVE IInv'
  OBVIOUS
<1>1. queue' \in Seq(Nat) /\ current' \in Nat /\ (run = NoRun => current' = 0)
  BY Cleared DEF Stop
<1>2. Typed' /\ Kept'
  BY <1>1 DEF IInv, Typed, Kept, Stop, codecVars
<1>3. OneRun' /\ RunFlag'
  BY DEF OneRun, RunFlag, Alone, IInv, Stop, Callable
<1>4. AtRest' /\ Answered'
  BY DEF AtRest, Answered, IInv, Stop, Callable, codecVars
<1> QED BY <1>2, <1>3, <1>4 DEF IInv

LEMMA ResumedIInv == IInv /\ Resumed => IInv'
<1> SUFFICES ASSUME IInv, Resumed PROVE IInv'
  OBVIOUS
<1>1. queue' \in Seq(Nat) /\ current' \in Nat /\ (run = NoRun => current' = 0)
  BY Cleared DEF Resumed
<1>2. Typed' /\ Kept'
  BY <1>1 DEF IInv, Typed, Kept, Resumed, codecVars
<1>3. UNCHANGED inRun
  BY DEF Resumed, ForgetPending
<1>4. OneRun' /\ RunFlag'
  BY <1>3 DEF OneRun, RunFlag, Alone, IInv, Resumed
<1>5. AtRest' /\ Answered'
  <2>1. graph = "running" /\ graph' \in {"running", "paused"} /\ control = "none"
    BY DEF Resumed, IInv, AtRest
  <2> QED BY <1>3, <2>1 DEF AtRest, Answered, IInv, Resumed, codecVars
<1> QED BY <1>2, <1>4, <1>5 DEF IInv

\* prepare and unprepare clear the flag, when nothing is posted and no run waits
\* for the encoder.
LEMMA ControlIInv == IInv /\ (Calls \/ Started \/ ResumeCapture \/ Resumed \/ Stopped) => IInv'
<1> SUFFICES ASSUME IInv, Calls \/ Started \/ ResumeCapture \/ Resumed \/ Stopped
             PROVE  IInv'
  OBVIOUS
<1>1. CASE Stop
  BY <1>1, StopIInv
<1>2. CASE Resumed
  BY <1>2, ResumedIInv
<1> USE DEF IInv, Typed, OneRun, Alone, RunFlag, AtRest, Answered, Kept
<1>3. CASE Start \/ StartFails
  BY <1>3 DEF Start, StartFails, Callable, cameraVars, codecVars
<1>4. CASE Started
  BY <1>4 DEF Started, TurnTaken, ResetRun, cameraVars, NoRun
<1>5. CASE Resume
  BY <1>5 DEF Resume, Callable, cameraVars, codecVars
<1>6. CASE ResumeCapture
  BY <1>6, Cleared DEF ResumeCapture, ClearQueue, codecVars
<1>7. CASE Pause
  BY <1>7, Cleared DEF Pause, Callable, ClearQueue, codecVars
<1>8. CASE Stopped
  BY <1>8 DEF Stopped, TurnTaken, ResetRun, FreeBuffers, FreeEvent, cameraVars, NoRun
<1>9. CASE Connect \/ Close
  BY <1>9 DEF Connect, Close, graphVars, cameraVars, codecVars
<1> QED BY <1>1, <1>2, <1>3, <1>4, <1>5, <1>6, <1>7, <1>8, <1>9 DEF Calls

-----------------------------------------------------------------------------
LEMMA NextIInv == IInv /\ [Next]_vars => IInv'
<1> SUFFICES ASSUME IInv, [Next]_vars PROVE IInv'
  OBVIOUS
<1>1. CASE CameraFrame \/ Camera
  BY <1>1, CameraIInv
<1>2. CASE DoRun
  BY <1>2, DoRunIInv
<1>3. CASE EncoderAnswers
  BY <1>3, EncoderAnswersIInv
<1>4. CASE ClearInRun \/ DoRunStopped \/ EncodeTimeout \/ WriteDone \/ WriteFails \/ RunFreed
  BY <1>4, RunIInv
<1>5. CASE Encode \/ Flush
  BY <1>5, CodecIInv
<1>6. CASE Calls \/ Started \/ ResumeCapture \/ Resumed \/ Stopped
  BY <1>6, ControlIInv
<1>7. CASE UNCHANGED vars
  BY <1>7 DEF vars, graphVars, cameraVars, codecVars, IInv, Typed, OneRun, Alone, RunFlag,
              AtRest, Answered, Kept
<1> QED BY <1>1, <1>2, <1>3, <1>4, <1>5, <1>6, <1>7 DEF Next, Handlers

LEMMA AlwaysIInv == Spec => []IInv
<1> QED BY InitIInv, NextIInv, PTL DEF Spec

\* One doRun at a time walks through the components.
THEOREM SpecOneRun == Spec => []OneRun
<1>1. IInv => OneRun
  BY DEF IInv
<1> QED BY <1>1, AlwaysIInv, PTL

\* Between two runs neither Capture nor the encoder keeps a frame.
THEOREM SpecRestedBetweenRuns == Spec => []RestedBetweenRuns
<1>1. IInv => RestedBetweenRuns
  BY DEF IInv, Typed, Kept, RestedBetweenRuns, NoRun
<1> QED BY <1>1, AlwaysIInv, PTL

-----------------------------------------------------------------------------
\* Only a run writes, on a stream; a graph that stops under a run has none; and
\* a stopped encoder is empty.
Streaming ==
  /\ sending => run.at = "write" /\ stream # "closed"
  /\ graph = "idle" /\ run # NoRun => stream = "closed"
  /\ graph = "idle" /\ control # "stopping" => inFlight = <<>> /\ encoded = <<>>

LEMMA RunStreaming ==
  ASSUME IInv, Streaming,
         DoRun \/ EncoderAnswers \/ EncodeTimeout \/ WriteDone \/ WriteFails \/ RunFreed
  PROVE  Streaming'
<1> USE DEF Streaming, graphVars, codecVars, writerVars, cameraVars
<1>1. CASE DoRun
  <2>1. graph = "running" /\ run = NoRun /\ UNCHANGED <<graph, control, sending, stream>>
    BY <1>1 DEF DoRun, EndRun
  <2> QED BY <2>1 DEF NoRun
<1>2. CASE EncoderAnswers /\ run.at = "encode" /\ encoded # <<>>
  <2>1. run' = [run EXCEPT !.at = "write"] /\ sending' = (stream # "closed")
    BY <1>2 DEF EncoderAnswers
  <2>2. run'.at = "write" /\ run # NoRun
    BY <1>2, <2>1 DEF IInv, Typed, NoRun
  <2>3. UNCHANGED <<graph, control, stream, inFlight>> /\ encoded' = Tail(encoded)
    BY <1>2 DEF EncoderAnswers
  <2> QED BY <1>2, <2>1, <2>2, <2>3
<1>3. CASE EncoderAnswers /\ ~(run.at = "encode" /\ encoded # <<>>)
  <2>1. UNCHANGED <<graph, control, stream, sending, inFlight, encoded>> /\ run' \in {run, NoRun}
    BY <1>3 DEF EncoderAnswers, EndRun
  <2>2. ~sending \/ run' = run
    BY <1>3 DEF EncoderAnswers
  <2> QED BY <2>1, <2>2
<1>4. CASE EncodeTimeout
  <2>1. ~sending /\ run' = NoRun /\ UNCHANGED <<graph, control, stream, sending, inFlight, encoded>>
    BY <1>4 DEF EncodeTimeout, EndRun
  <2> QED BY <2>1
<1>5. CASE WriteDone \/ WriteFails
  <2>1. ~sending' /\ run' = NoRun /\ UNCHANGED <<graph, control, inFlight, encoded>>
    BY <1>5 DEF WriteDone, WriteFails, EndRun
  <2> QED BY <2>1
<1>6. CASE RunFreed
  <2>1. ~sending /\ run' = NoRun /\ UNCHANGED <<graph, control, stream, sending, inFlight, encoded>>
    BY <1>6 DEF RunFreed, EndRun
  <2> QED BY <2>1
<1> QED BY <1>1, <1>2, <1>3, <1>4, <1>5, <1>6

LEMMA NextStreaming == IInv /\ Streaming /\ [Next]_vars => Streaming'
<1> SUFFICES ASSUME IInv, Streaming, [Next]_vars PROVE Streaming'
  OBVIOUS
<1> USE DEF Streaming, graphVars, codecVars, writerVars, cameraVars
<1>1. CASE CameraFrame \/ Camera \/ ClearInRun \/ DoRunStopped \/ UNCHANGED vars
  BY <1>1 DEF Camera, CameraFrame, CameraPush, CameraReads, CameraCount, CountRun, CameraPost,
     CameraSpawn, ClearInRun, DoRunStopped, vars
<1>2. CASE Encode \/ Flush
  BY <1>2 DEF Encode, Flush
<1>3. CASE Start \/ StartFails \/ Started \/ Resume \/ ResumeCapture \/ Resumed \/ Pause
  BY <1>3 DEF Start, StartFails, Started, Callable, Resume, ResumeCapture, Resumed, Pause, IInv, AtRest
<1>4. CASE Stop
  <2>1. graph' = "idle" /\ control' = "stopping" /\ UNCHANGED <<run, sending, stream>>
    BY <1>4 DEF Stop
  <2> QED BY <1>4, <2>1 DEF Stop
<1>5. CASE Stopped
  <2>1. graph = "idle"
    BY <1>5 DEF Stopped, IInv, AtRest
  <2>2. ~sending
    <3>1. run.at = "write" => run # NoRun
      BY DEF NoRun
    <3> QED BY <2>1, <3>1
  <2>3. /\ inFlight' = <<>> /\ encoded' = <<>> /\ UNCHANGED <<graph, stream, sending>>
        /\ run = NoRun => run' = NoRun
    BY <1>5 DEF Stopped, FreeBuffers, FreeEvent, NoRun
  <2> QED BY <2>1, <2>2, <2>3
<1>6. CASE Connect \/ Close
  BY <1>6 DEF Connect, Close, Callable
<1> QED BY <1>1, <1>2, <1>3, <1>4, <1>5, <1>6, RunStreaming DEF Next, Handlers, Calls

LEMMA AlwaysStreaming == Spec => []Streaming
<1>1. Init => Streaming
  BY DEF Init, Streaming
<1> QED BY <1>1, NextStreaming, AlwaysIInv, PTL DEF Spec

-----------------------------------------------------------------------------
\* The types of the flags, and those of the others.
Flags == inRun \in BOOLEAN /\ sending \in BOOLEAN /\ old \in BOOLEAN /\ settled \in BOOLEAN

Values ==
  /\ graph \in {"idle", "paused", "running"}
  /\ loop \in {"free", "resuming", "resumed", "clearing"}
  /\ control \in {"none", "starting", "stopping"}
  /\ pending \in Nat /\ posted \in Nat
  /\ run \in [at : {"encode", "write", "freed"}, frame : Frames] \cup {NoRun}
  /\ camera \in {"away", "push", "check", "test", "count", "post", "spawn"}
  /\ shot \in 0..MaxFrames /\ (camera = "push" => shot # 0)
  /\ queue \in Seq(Frames) /\ Len(queue) <= QueueSize
  /\ current \in {0} \cup Frames /\ held \in {0} \cup Contents
  /\ writing \in {0} \cup Contents /\ last \in {0} \cup Contents
  /\ inputs \in Nat /\ filling \in Nat /\ answers \in Nat
  /\ inFlight \in Seq(Frames) /\ encoded \in Seq(Contents)
  /\ stream \in {"closed", "open", "broken"}
  /\ starts \in 0..MaxStarts /\ pauses \in 0..MaxPauses /\ late \in 0..MaxLate

LEMMA FlagsKept == ASSUME Flags, [Next]_vars PROVE Flags'
<1>1. /\ inRun' \in {inRun, TRUE, FALSE} /\ sending' \in {sending, stream # "closed", FALSE}
      /\ old' \in {old, writing # 0, FALSE} /\ settled' = settled
  BY DEF Next, Camera, Handlers, Calls, vars, graphVars, writerVars, CameraFrame, CameraPush,
         CameraReads, CameraCount, CountRun, CameraPost, CameraSpawn, EndRun, ClearInRun,
         DoRunStopped, DoRun, EncoderAnswers, EncodeTimeout, RestAll, WriteDone, WriteFails,
         RunFreed, Encode, Flush, ResetRun, Start, StartFails, Started, Resume, ResumeCapture,
         ForgetPending, Resumed, Pause, Stop, Stopped, Connect, Close
<1> QED BY <1>1 DEF Flags

\* What a step does to the sequences of frames.
LEMMA SeqFacts ==
  ASSUME NEW S, NEW s \in Seq(S)
  PROVE  /\ <<>> \in Seq(S) /\ Len(<<>>) = 0
         /\ \A e \in S : Append(s, e) \in Seq(S) /\ Len(Append(s, e)) = Len(s) + 1
         /\ s # <<>> => /\ Head(s) \in S /\ Tail(s) \in Seq(S)
                        /\ Len(Tail(s)) = Len(s) - 1
<1> QED BY EmptySeq, HeadTailProperties, AppendProperties

LEMMA EnqueueFacts ==
  ASSUME NEW q \in Seq(Frames), Len(q) <= QueueSize, NEW f \in Frames
  PROVE  Enqueue(q, f) \in Seq(Frames) /\ Len(Enqueue(q, f)) <= QueueSize
<1>1. CASE Len(q) < QueueSize
  BY <1>1, SeqFacts, MediaGraphAssumption DEF Enqueue
<1>2. CASE ~(Len(q) < QueueSize)
  <2>1. q # <<>> /\ Len(q) \in Nat
    BY <1>2, MediaGraphAssumption
  <2>2. Tail(q) \in Seq(Frames) /\ Len(Tail(q)) = Len(q) - 1
    BY <2>1, SeqFacts
  <2>3. Append(Tail(q), f) \in Seq(Frames) /\ Len(Append(Tail(q), f)) = Len(q)
    BY <2>1, <2>2, SeqFacts
  <2> QED BY <1>2, <2>3 DEF Enqueue
<1> QED BY <1>1, <1>2

LEMMA CameraValues == ASSUME Values, CameraFrame \/ Camera PROVE Values'
<1> USE DEF Values, graphVars, codecVars, writerVars, counts
<1>1. CASE CameraFrame
  BY <1>1, MediaGraphAssumption DEF CameraFrame
<1>2. CASE CameraPush
  <2>1. shot \in Frames
    BY <1>2, MediaGraphAssumption DEF CameraPush, Frames
  <2>2. queue' \in Seq(Frames) /\ Len(queue') <= QueueSize
    BY <1>2, <2>1, EnqueueFacts DEF CameraPush
  <2> QED BY <1>2, <2>2 DEF CameraPush
<1>3. CASE CameraReads
  BY <1>3 DEF CameraReads
<1>4. CASE CameraCount
  BY <1>4 DEF CameraCount, CountRun
<1>5. CASE CameraPost
  BY <1>5 DEF CameraPost
<1>6. CASE CameraSpawn
  BY <1>6 DEF CameraSpawn
<1> QED BY <1>1, <1>2, <1>3, <1>4, <1>5, <1>6 DEF Camera

\* How a run ends.
LEMMA EndRunValues ==
  ASSUME Values, NEW n \in Nat, EndRun(n)
  PROVE  /\ pending' \in Nat /\ posted' \in Nat /\ run' = NoRun
         /\ loop' \in {"free", "resuming", "resumed", "clearing"}
         /\ graph' = graph /\ control' = control
<1> QED BY DEF Values, EndRun

LEMMA DoRunValues == ASSUME Values, DoRun PROVE Values'
<1> DEFINE frame == IF queue = <<>> THEN current ELSE Head(queue)
<1>1. frame \in {0} \cup Frames
  BY SeqFacts DEF Values
<1>2. queue' \in Seq(Frames) /\ Len(queue') <= QueueSize
  <2>1. CASE queue = <<>>
    BY <2>1 DEF DoRun, Values
  <2>2. CASE queue # <<>>
    <3>1. queue' = Tail(queue)
      BY <2>2 DEF DoRun
    <3>2. Tail(queue) \in Seq(Frames) /\ Len(Tail(queue)) = Len(queue) - 1 /\ Len(queue) \in Nat
      BY <2>2, SeqFacts DEF Values
    <3> QED BY <3>1, <3>2, MediaGraphAssumption DEF Values
  <2> QED BY <2>1, <2>2
<1>3. posted - 1 \in Nat
  BY DEF DoRun, Values
<1>4. CASE frame # 0 /\ inputs > 0
  <2>1. /\ run' = [at |-> "encode", frame |-> frame] /\ current' = frame
        /\ inputs' = inputs - 1 /\ inFlight' = Append(inFlight, frame)
        /\ posted' = posted - 1
        /\ UNCHANGED <<graph, loop, control, inRun, pending, held>>
    BY <1>4 DEF DoRun
  <2>2. inFlight' \in Seq(Frames)
    BY <1>1, <1>4, <2>1, SeqFacts DEF Values
  <2> HIDE DEF frame
  <2> QED BY <1>1, <1>2, <1>3, <1>4, <2>1, <2>2 DEF DoRun, Values, writerVars, counts
<1>5. CASE ~(frame # 0 /\ inputs > 0)
  <2>1. RestBefore(FALSE) /\ EndRun(posted - 1) /\ UNCHANGED <<inputs, inFlight>>
    BY <1>5 DEF DoRun
  <2>2. /\ pending' \in Nat /\ posted' \in Nat /\ run' = NoRun
        /\ loop' \in {"free", "resuming", "resumed", "clearing"}
        /\ graph' = graph /\ control' = control
    BY <1>3, <2>1, EndRunValues
  <2> QED BY <1>2, <2>1, <2>2 DEF DoRun, Values, RestBefore, writerVars, counts
<1> QED BY <1>4, <1>5

\* A run that is suspended moves on.
LEMMA RunMoves ==
  ASSUME Values, run.at # "none", NEW where \in {"encode", "write", "freed"}
  PROVE  [run EXCEPT !.at = where] \in [at : {"encode", "write", "freed"}, frame : Frames]
<1>1. run # NoRun
  BY DEF NoRun
<1>2. run \in [at : {"encode", "write", "freed"}, frame : Frames]
  BY <1>1 DEF Values
<1> QED BY <1>2

LEMMA EncoderAnswersValues == ASSUME Values, EncoderAnswers PROVE Values'
<1> USE DEF Values, graphVars, writerVars, cameraVars, counts
<1>4. answers' \in Nat /\ UNCHANGED <<cameraVars, inputs, inFlight, counts, stream, settled>>
  BY DEF EncoderAnswers
<1>1. CASE run.at # "encode"
  BY <1>1 DEF EncoderAnswers
<1>2. CASE run.at = "encode" /\ encoded = <<>>
  <2>1. RestBefore(FALSE) /\ EndRun(posted) /\ UNCHANGED <<writerVars, filling, encoded>>
    BY <1>2 DEF EncoderAnswers
  <2>2. /\ pending' \in Nat /\ posted' \in Nat /\ run' = NoRun
        /\ loop' \in {"free", "resuming", "resumed", "clearing"}
        /\ graph' = graph /\ control' = control
    BY <2>1, EndRunValues
  <2> QED BY <1>4, <2>1, <2>2 DEF RestBefore
<1>3. CASE run.at = "encode" /\ encoded # <<>>
  <2>1. /\ held' = Head(encoded) /\ encoded' = Tail(encoded) /\ writing' = held'
        /\ filling' = Replaced /\ run' = [run EXCEPT !.at = "write"]
        /\ UNCHANGED <<graphVars, current, last>>
    BY <1>3 DEF EncoderAnswers
  <2>2. Head(encoded) \in Contents /\ Tail(encoded) \in Seq(Contents)
    BY <1>3, SeqFacts
  <2>3. filling' \in Nat
    BY <2>1 DEF Replaced, Returned
  <2>4. run' \in [at : {"encode", "write", "freed"}, frame : Frames]
    <3>1. [run EXCEPT !.at = "write"] \in [at : {"encode", "write", "freed"}, frame : Frames]
      BY <1>3, RunMoves
    <3> QED BY <2>1, <3>1, Zenon
  <2>5. held' \in Contents /\ writing' \in Contents /\ encoded' \in Seq(Contents)
    BY <2>1, <2>2
  <2> QED BY <1>4, <2>1, <2>3, <2>4, <2>5
<1> QED BY <1>1, <1>2, <1>3

LEMMA RunValues ==
  ASSUME Values,
         ClearInRun \/ DoRunStopped \/ EncodeTimeout \/ WriteDone \/ WriteFails \/ RunFreed
  PROVE  Values'
<1> USE DEF Values, graphVars, codecVars, writerVars, cameraVars, counts
<1>1. CASE ClearInRun
  BY <1>1 DEF ClearInRun
<1>2. CASE DoRunStopped
  BY <1>2 DEF DoRunStopped
<1>3. ASSUME EndRun(posted)
      PROVE  /\ pending' \in Nat /\ posted' \in Nat /\ run' = NoRun
             /\ loop' \in {"free", "resuming", "resumed", "clearing"}
             /\ graph' = graph /\ control' = control
  BY <1>3, EndRunValues
<1>4. CASE EncodeTimeout
  BY <1>3, <1>4, MediaGraphAssumption DEF EncodeTimeout, RestBefore
<1>5. CASE WriteDone
  BY <1>3, <1>5 DEF WriteDone, RestAll, Returned
<1>6. CASE WriteFails
  BY <1>3, <1>6 DEF WriteFails, RestBefore
<1>7. CASE RunFreed
  BY <1>3, <1>7 DEF RunFreed, RestBefore
<1> QED BY <1>1, <1>2, <1>4, <1>5, <1>6, <1>7

LEMMA CodecValues == ASSUME Values, Encode \/ Flush PROVE Values'
<1> USE DEF Values, graphVars, cameraVars, writerVars, counts
<1>1. ASSUME inFlight # <<>>
      PROVE  Head(inFlight) \in Frames /\ Tail(inFlight) \in Seq(Frames)
  BY <1>1, SeqFacts
<1>2. ASSUME NEW e \in Contents PROVE Append(encoded, e) \in Seq(Contents)
  BY <1>2, SeqFacts
<1>3. CASE Encode
  <2>1. Head(inFlight) \in Contents /\ Tail(inFlight) \in Seq(Frames)
    BY <1>1, <1>3 DEF Encode, Contents
  <2>2. encoded' \in Seq(Contents)
    BY <1>2, <1>3, <2>1 DEF Encode
  <2> QED BY <1>3, <2>1, <2>2 DEF Encode
<1>4. CASE Flush /\ FlushInput
  <2>1. Tail(inFlight) \in Seq(Frames)
    BY <1>1, <1>4 DEF FlushInput
  <2> QED BY <1>4, <2>1 DEF Flush, FlushInput
<1>5. CASE Flush /\ FlushOutput
  <2>1. encoded' \in Seq(Contents)
    BY <1>2, <1>5 DEF FlushOutput, Contents
  <2> QED BY <1>5, <2>1 DEF Flush, FlushOutput
<1> QED BY <1>3, <1>4, <1>5 DEF Flush

LEMMA ControlValues ==
  ASSUME Values, Calls \/ Started \/ ResumeCapture \/ Resumed \/ Stopped
  PROVE  Values'
<1> USE MediaGraphAssumption
    DEF Values, graphVars, codecVars, writerVars, cameraVars, counts, ResetRun
<1>1. ASSUME ClearQueue \/ UNCHANGED <<queue, current>>
      PROVE  queue' \in Seq(Frames) /\ Len(queue') <= QueueSize /\ current' \in {0} \cup Frames
  <2>1. <<>> \in Seq(Frames) /\ Len(<<>>) = 0
    BY EmptySeq
  <2>2. CASE ClearQueue
    BY <2>1, <2>2 DEF ClearQueue
  <2>3. CASE UNCHANGED <<queue, current>>
    BY <2>3
  <2> QED BY <1>1, <2>2, <2>3
<1>2. CASE Start
  BY <1>2 DEF Start
<1>3. CASE StartFails
  BY <1>3 DEF StartFails
<1>4. CASE Started
  BY <1>4 DEF Started
<1>5. CASE Resume
  BY <1>5 DEF Resume
<1>6. CASE ResumeCapture
  BY <1>1, <1>6 DEF ResumeCapture
<1>7. CASE Resumed
  <2>1. ClearQueue \/ UNCHANGED <<queue, current>>
    BY <1>7 DEF Resumed
  <2> QED BY <1>1, <1>7, <2>1 DEF Resumed, ForgetPending
<1>8. CASE Pause
  BY <1>1, <1>8 DEF Pause
<1>9. CASE Stop
  <2>1. ClearQueue \/ UNCHANGED <<queue, current>>
    BY <1>9 DEF Stop
  <2> QED BY <1>1, <1>9, <2>1 DEF Stop
<1>10. CASE Stopped
  <2>1. run' \in [at : {"encode", "write", "freed"}, frame : Frames] \cup {NoRun}
    <3>1. CASE run.at = "write"
      <4>1. [run EXCEPT !.at = "freed"] \in [at : {"encode", "write", "freed"}, frame : Frames]
        BY <3>1, RunMoves
      <4>2. run' = [run EXCEPT !.at = "freed"]
        BY <1>10, <3>1 DEF Stopped, FreeEvent
      <4> QED BY <4>1, <4>2, Zenon
    <3>2. CASE run.at # "write"
      BY <1>10, <3>2 DEF Stopped, FreeEvent
    <3> QED BY <3>1, <3>2
  <2>2. <<>> \in Seq(Contents)
    BY EmptySeq
  <2> QED BY <1>10, <2>1, <2>2 DEF Stopped, FreeBuffers
<1>11. CASE Connect
  BY <1>11 DEF Connect
<1>12. CASE Close
  BY <1>12 DEF Close
<1> QED BY <1>2, <1>3, <1>4, <1>5, <1>6, <1>7, <1>8, <1>9, <1>10, <1>11, <1>12 DEF Calls

\* Every variable keeps its type, and Capture's queue its bound.
THEOREM SpecTypeOK == Spec => []TypeOK
<1>1. Init => Values
  BY EmptySeq, MediaGraphAssumption DEF Init, Values
<1>2. Init => Flags
  BY Zenon DEF Init, Flags
<1>3. Values /\ [Next]_vars => Values'
  <2> SUFFICES ASSUME Values, [Next]_vars PROVE Values'
    OBVIOUS
  <2>1. CASE UNCHANGED vars
    BY <2>1 DEF vars, graphVars, codecVars, writerVars, cameraVars, counts, Values
  <2> QED BY <2>1, CameraValues, DoRunValues, EncoderAnswersValues, RunValues, CodecValues,
             ControlValues DEF Next, Handlers
<1>4. Flags /\ [Next]_vars => Flags'
  BY FlagsKept
<1>5. Flags /\ Values => TypeOK
  BY DEF Flags, Values, TypeOK
<1> QED BY <1>1, <1>2, <1>3, <1>4, <1>5, PTL DEF Spec

-----------------------------------------------------------------------------
(***************************************************************************)
(* The encoder's output buffers                                            *)
(***************************************************************************)
\* Components have one output buffer at most: the run's, or the writer's.
InHand == IF held # 0 \/ (writing # 0 /\ ~old) THEN 1 ELSE 0

\* Buffers that a run which is under way in a paused graph may still lose: the
\* one it will write, and before that the one the writer has kept.
AtStake ==
  IF graph = "paused" \/ loop \in {"resuming", "resumed"}
  THEN IF run.at = "encode" THEN 2 ELSE IF run.at = "write" THEN 1 ELSE 0
  ELSE 0

Hands == run.at = "write" => held # 0 /\ writing = held /\ ~old
Balance ==
  graph # "idle" => Outputs + AtStake <= filling + Len(encoded) + 2 * pauses + InHand
Accounted == Hands /\ Balance

\* What the balance needs of the types.
LEMMA BalanceTyped ==
  ASSUME TypeOK
  PROVE  /\ filling \in Nat /\ Len(encoded) \in Nat /\ pauses \in Nat /\ Outputs \in Nat
         /\ InHand \in {0, 1} /\ AtStake \in {0, 1, 2}
<1> QED BY MediaGraphAssumption, LenProperties DEF TypeOK, InHand, AtStake

LEMMA EncoderAnswersAccounted == TypeOK /\ IInv /\ Accounted /\ EncoderAnswers => Accounted'
<1> SUFFICES ASSUME TypeOK, IInv, Accounted, EncoderAnswers PROVE Accounted'
  OBVIOUS
<1>1. CASE run.at # "encode"
  BY <1>1 DEF EncoderAnswers, Accounted, Hands, Balance, InHand, AtStake, graphVars, writerVars, counts
<1>2. CASE run.at = "encode" /\ encoded = <<>>
  <2>1. /\ run' = NoRun /\ graph' = graph /\ loop' \in {loop, "clearing"} /\ held' = held
        /\ UNCHANGED <<filling, encoded, pauses, writing, old>>
    BY <1>2 DEF EncoderAnswers, RestBefore, EndRun, writerVars, counts
  <2>2. AtStake' = 0 /\ InHand' = InHand
    BY <2>1 DEF AtStake, InHand, NoRun
  <2> QED BY <2>1, <2>2, BalanceTyped DEF Accounted, Hands, Balance, NoRun
<1>3. CASE run.at = "encode" /\ encoded # <<>>
  <2>1. /\ loop = "free" /\ held = 0 /\ encoded \in Seq(Contents)
        /\ held' = Head(encoded) /\ encoded' = Tail(encoded) /\ writing' = held' /\ old' = FALSE
        /\ filling' = Replaced /\ UNCHANGED <<graph, loop, pauses>>
        /\ run' = [run EXCEPT !.at = "write"]
    BY <1>3 DEF EncoderAnswers, IInv, Kept, TypeOK, graphVars, counts
  <2>2. /\ Head(encoded) \in Contents /\ Head(encoded) # 0
        /\ Len(encoded') = Len(encoded) - 1
    BY <1>3, <2>1, SeqFacts, MediaGraphAssumption DEF Frames, Empty, Contents
  <2>3. run'.at = "write"
    BY <1>3, <2>1, RunMoves DEF TypeOK, NoRun
  <2>4. InHand' = 1 /\ held' # 0
    BY <2>1, <2>2 DEF InHand
  <2>5. Hands'
    BY <2>1, <2>4 DEF Hands
  <2>6. CASE graph = "running"
    <3>1. AtStake = 0 /\ AtStake' = 0 /\ filling' = filling + InHand
      BY <2>1, <2>6, BalanceTyped DEF AtStake, Replaced, Returned, InHand
    <3>2. Outputs + 0 <= filling + Len(encoded) + 2 * pauses + InHand
      BY <2>6, <3>1 DEF Accounted, Balance
    <3>3. Outputs + 0 <= (filling + InHand) + (Len(encoded) - 1) + 2 * pauses + 1
      BY <3>2, BalanceTyped
    <3>4. Outputs + AtStake' <= filling' + Len(encoded') + 2 * pauses' + InHand'
      BY <2>1, <2>2, <2>4, <3>1, <3>3
    <3> QED BY <2>5, <3>4 DEF Accounted, Balance
  <2>7. CASE graph = "paused"
    <3>1. AtStake = 2 /\ AtStake' = 1 /\ filling' = filling
      BY <1>3, <2>1, <2>3, <2>7 DEF AtStake, Replaced, Returned
    <3> QED BY <2>1, <2>2, <2>4, <2>5, <2>7, <3>1, BalanceTyped DEF Accounted, Balance
  <2>8. CASE graph = "idle"
    BY <2>1, <2>5, <2>8 DEF Accounted, Balance
  <2> QED BY <2>6, <2>7, <2>8 DEF TypeOK
<1> QED BY <1>1, <1>2, <1>3

\* The ends of a run.
LEMMA EndAccounted ==
  TypeOK /\ IInv /\ Accounted /\ (EncodeTimeout \/ WriteDone \/ WriteFails \/ RunFreed)
  => Accounted'
<1> SUFFICES ASSUME TypeOK, IInv, Accounted,
                    EncodeTimeout \/ WriteDone \/ WriteFails \/ RunFreed
             PROVE  Accounted'
  OBVIOUS
<1>1. /\ loop = "free" /\ run' = NoRun /\ UNCHANGED <<graph, encoded, pauses>>
      /\ loop' \in {"free", "clearing"}
  BY DEF EncodeTimeout, WriteDone, WriteFails, RunFreed, EndRun, codecVars, counts
<1>2. AtStake' = 0 /\ Hands'
  BY <1>1 DEF AtStake, Hands, NoRun
<1>3. CASE EncodeTimeout
  <2>1. UNCHANGED <<held, writing, old, filling>>
    BY <1>3 DEF EncodeTimeout, RestBefore, codecVars, writerVars
  <2>2. InHand' = InHand
    BY <2>1 DEF InHand
  <2> QED BY <1>1, <1>2, <2>1, <2>2, BalanceTyped DEF Accounted, Balance
<1>4. CASE WriteDone
  <2>1. /\ run.at = "write" /\ InHand = 1 /\ held' = 0 /\ writing' = 0 /\ filling' = Returned
    BY <1>4 DEF WriteDone, RestAll, Accounted, Hands, InHand
  <2>2. InHand' = 0
    BY <2>1 DEF InHand
  <2>3. CASE graph = "running"
    <3>1. filling' = filling + 1 /\ AtStake = 0
      BY <1>1, <2>1, <2>3 DEF Returned, AtStake
    <3> QED BY <1>1, <1>2, <2>1, <2>2, <2>3, <3>1, BalanceTyped DEF Accounted, Balance
  <2>4. CASE graph = "paused"
    <3>1. filling' = filling /\ AtStake = 1
      BY <1>1, <2>1, <2>4 DEF Returned, AtStake
    <3> QED BY <1>1, <1>2, <2>1, <2>2, <2>4, <3>1, BalanceTyped DEF Accounted, Balance
  <2>5. CASE graph = "idle"
    BY <1>1, <1>2, <2>5 DEF Accounted, Balance
  <2> QED BY <2>3, <2>4, <2>5 DEF TypeOK
<1>5. CASE WriteFails
  <2>1. /\ InHand = 1 /\ UNCHANGED <<writing, old, filling>> /\ writing # 0 /\ ~old
    BY <1>5 DEF WriteFails, Accounted, Hands, InHand, codecVars
  <2>2. InHand' = 1
    BY <2>1 DEF InHand
  <2> QED BY <1>1, <1>2, <2>1, <2>2, BalanceTyped DEF Accounted, Balance
<1>6. CASE RunFreed
  BY <1>1, <1>2, <1>6 DEF RunFreed, IInv, AtRest, Accounted, Balance
<1> QED BY <1>3, <1>4, <1>5, <1>6

LEMMA ControlAccounted ==
  TypeOK /\ IInv /\ Accounted /\ (Started \/ Resume \/ ResumeCapture \/ Resumed \/ Pause
                                  \/ Stop \/ Stopped) => Accounted'
<1> SUFFICES ASSUME TypeOK, IInv, Accounted,
                    Started \/ Resume \/ ResumeCapture \/ Resumed \/ Pause \/ Stop \/ Stopped
             PROVE  Accounted'
  OBVIOUS
<1>1. CASE Started
  <2>1. /\ run = NoRun /\ run' = run /\ filling' = Outputs /\ pauses' = 0 /\ encoded' = encoded
    BY <1>1 DEF Started, TurnTaken, IInv, AtRest
  <2>2. AtStake' = 0 /\ Hands' /\ InHand' \in {0, 1}
    BY <2>1 DEF AtStake, Hands, NoRun, InHand
  <2> QED BY <2>1, <2>2, BalanceTyped DEF Accounted, Balance
<1>2. CASE Resume \/ ResumeCapture \/ Resumed
  <2>1. /\ graph # "idle" /\ UNCHANGED <<run, held, writing, old, filling, encoded, pauses>>
    BY <1>2 DEF Resume, ResumeCapture, Resumed, IInv, AtRest, codecVars, writerVars, counts
  <2>2. AtStake' <= AtStake /\ InHand' = InHand /\ AtStake' \in {0, 1, 2}
    BY <1>2, <2>1 DEF Resume, ResumeCapture, Resumed, AtStake, InHand
  <2> QED BY <2>1, <2>2, BalanceTyped DEF Accounted, Hands, Balance
<1>3. CASE Pause
  <2>1. /\ graph = "running" /\ loop = "free" /\ pauses' = pauses + 1
        /\ UNCHANGED <<run, held, writing, old, filling, encoded>>
    BY <1>3 DEF Pause, Callable, codecVars, writerVars
  <2>2. AtStake = 0 /\ AtStake' \in {0, 1, 2} /\ InHand' = InHand
    BY <2>1 DEF AtStake, InHand
  <2>3. Outputs <= filling + Len(encoded) + 2 * pauses + InHand
    BY <2>1, <2>2, BalanceTyped DEF Accounted, Balance
  <2>4. Outputs + 2 <= filling + Len(encoded) + 2 * (pauses + 1) + InHand
    BY <2>3, BalanceTyped
  <2>5. Outputs + AtStake' <= filling + Len(encoded) + 2 * (pauses + 1) + InHand
    BY <2>2, <2>4, BalanceTyped
  <2>6. Balance'
    BY <2>1, <2>2, <2>5 DEF Balance
  <2> QED BY <2>1, <2>6 DEF Accounted, Hands
<1>4. CASE Stop
  BY <1>4 DEF Stop, writerVars, Accounted, Hands, Balance
<1>5. CASE Stopped
  <2>1. graph' = "idle"
    BY <1>5 DEF Stopped, IInv, AtRest
  <2>2. run'.at # "write"
    <3>1. CASE run.at = "write"
      BY <1>5, <3>1, RunMoves DEF Stopped, FreeEvent, TypeOK, NoRun
    <3> QED BY <1>5, <3>1 DEF Stopped, FreeEvent
  <2> QED BY <2>1, <2>2 DEF Accounted, Hands, Balance
<1> QED BY <1>1, <1>2, <1>3, <1>4, <1>5

LEMMA NextAccounted == TypeOK /\ IInv /\ Accounted /\ [Next]_vars => Accounted'
<1> SUFFICES ASSUME TypeOK, IInv, Accounted, [Next]_vars PROVE Accounted'
  OBVIOUS
<1>1. ASSUME UNCHANGED <<graph, run, held, writing, old, filling, encoded, pauses>>,
             loop' = loop \/ (loop = "clearing" /\ loop' = "free")
      PROVE  Accounted'
  BY <1>1 DEF Accounted, Hands, Balance, InHand, AtStake
<1>2. CASE \/ CameraFrame \/ Camera \/ ClearInRun \/ DoRunStopped
           \/ Start \/ StartFails \/ Connect \/ Close \/ UNCHANGED vars
  BY <1>1, <1>2 DEF Camera, CameraFrame, CameraPush, CameraReads, CameraCount, CountRun,
     CameraPost, CameraSpawn, ClearInRun, DoRunStopped, Start, StartFails, Connect, Close,
     vars, graphVars, codecVars, writerVars, counts
<1>3. CASE DoRun
  <2>1. /\ graph = "running" /\ loop = "free" /\ loop' \in {"free", "clearing"}
        /\ run'.at # "write"
        /\ UNCHANGED <<graph, held, writing, old, filling, encoded, pauses>>
    BY <1>3 DEF DoRun, RestBefore, EndRun, NoRun, writerVars, counts
  <2>2. AtStake = 0 /\ AtStake' = 0 /\ InHand' = InHand
    BY <2>1 DEF AtStake, InHand
  <2> QED BY <2>1, <2>2 DEF Accounted, Hands, Balance
<1>4. CASE Encode
  <2>1. /\ filling > 0 /\ filling' = filling - 1 /\ UNCHANGED <<graph, loop, run, pauses>>
        /\ UNCHANGED <<held, writing, old>>
        /\ inFlight # <<>> /\ encoded' = Append(encoded, Head(inFlight))
    BY <1>4 DEF Encode, graphVars, writerVars, counts
  <2>2. Len(encoded') = Len(encoded) + 1
    BY <2>1, SeqFacts DEF TypeOK
  <2>3. AtStake' = AtStake /\ InHand' = InHand
    BY <2>1 DEF AtStake, InHand
  <2> QED BY <2>1, <2>2, <2>3, BalanceTyped DEF Accounted, Hands, Balance
<1>5. CASE Flush
  BY <1>5 DEF Flush, IInv, AtRest, Accounted, Hands, Balance, graphVars, writerVars
<1> QED BY <1>2, <1>3, <1>4, <1>5, EncoderAnswersAccounted, EndAccounted, ControlAccounted
        DEF Next, Handlers, Calls

\* No output buffer of the encoder is lost but to a pause that finds a run under
\* way: that of the run, and one kept since a write that failed.
THEOREM SpecOutputsAccounted == Spec => []OutputsAccounted
<1>1. Init => Accounted
  BY DEF Init, Accounted, Hands, Balance, NoRun
<1>2. TypeOK /\ IInv /\ Accounted /\ [Next]_vars => Accounted'
  BY NextAccounted
<1>3. TypeOK /\ IInv /\ Accounted => OutputsAccounted
  <2> SUFFICES ASSUME TypeOK, IInv, Accounted, graph # "idle"
               PROVE  Outputs <= filling + Len(encoded) + 2 * pauses
                        + Cardinality({held, IF old THEN 0 ELSE writing} \ {0})
    BY DEF OutputsAccounted
  <2> DEFINE hand == {held, IF old THEN 0 ELSE writing} \ {0}
  <2>1. run.at # "freed"
    BY DEF IInv, AtRest
  <2>2. held # 0 => hand = {held}
    BY <2>1 DEF IInv, Kept, Accounted, Hands
  <2>3. held = 0 => hand = IF old \/ writing = 0 THEN {} ELSE {writing}
    OBVIOUS
  <2>4. Cardinality(hand) = InHand
    BY <2>2, <2>3, FS_EmptySet, FS_Singleton DEF InHand
  <2> HIDE DEF hand
  <2> QED BY <2>4, BalanceTyped DEF Accounted, Balance, hand
<1> QED BY <1>1, <1>2, <1>3, AlwaysIInv, SpecTypeOK, PTL DEF Spec

-----------------------------------------------------------------------------
(***************************************************************************)
(* Lag, when there is at least one wait that may be counted as late        *)
(***************************************************************************)
\* The run's own frame is all that is in the encoder, or not even that.
OnlyItsOwn ==
  \/ inFlight = <<>> /\ (encoded = <<>> \/ encoded = <<run.frame>>)
  \/ inFlight = <<run.frame>> /\ encoded = <<>>

Waiting == IF run.at = "encode" THEN 1 ELSE 0

\* An answer comes with a filled buffer, so a run that is woken finds one, and
\* a stopped encoder is empty.
Answering ==
  /\ graph # "idle" => answers <= Len(encoded)
  /\ graph = "idle" /\ control # "stopping" => encoded = <<>> /\ inFlight = <<>> /\ answers = 0

Lagging ==
  /\ Answering
  /\ graph # "idle" /\ late < MaxLate => Len(encoded) + Len(inFlight) <= late + Waiting
  /\ graph # "idle" /\ late = 0 /\ run.at = "encode" => OnlyItsOwn
  /\ sending /\ late = 0 => held = run.frame

\* The lengths, and what a step of the codec or the loop does to them.
LEMMA LagTyped ==
  ASSUME TypeOK
  PROVE  /\ inFlight \in Seq(Frames) /\ encoded \in Seq(Contents)
         /\ Len(encoded) \in Nat /\ Len(inFlight) \in Nat /\ late \in Nat /\ answers \in Nat
         /\ (Len(encoded) = 0 => encoded = <<>>) /\ (Len(inFlight) = 0 => inFlight = <<>>)
         /\ Len(<<>>) = 0 /\ Waiting \in {0, 1}
<1>1. \A s \in Seq(Frames) : Len(s) \in Nat /\ (Len(s) = 0 => s = <<>>)
  BY EmptySeq, LenProperties
<1> QED BY <1>1, EmptySeq DEF TypeOK, Waiting

\* Steps that leave the run, the encoder and the graph's state alone.
LEMMA LaggingKept ==
  ASSUME Lagging, UNCHANGED <<run, held, inFlight, encoded, answers, late, sending>>,
         graph' = graph \/ (graph' # "idle" /\ graph # "idle"),
         control' = control \/ (control' # "stopping" /\ control # "stopping")
  PROVE  Lagging'
<1> QED BY DEF Lagging, Answering, OnlyItsOwn, Waiting

LEMMA DoRunLagging == MaxLate # 0 /\ TypeOK /\ Streaming /\ Lagging /\ DoRun => Lagging'
<1> SUFFICES ASSUME MaxLate # 0, TypeOK, Streaming, Lagging, DoRun PROVE Lagging'
  OBVIOUS
<1> DEFINE frame == IF queue = <<>> THEN current ELSE Head(queue)
<1>1. /\ graph = "running" /\ run = NoRun /\ Waiting = 0 /\ ~sending'
      /\ UNCHANGED <<graph, control, encoded, answers, late, held, sending>>
  BY DEF DoRun, RestBefore, EndRun, Waiting, NoRun, Streaming, counts, writerVars
<1>2. CASE frame # 0 /\ inputs > 0
  <2>1. frame \in Frames
    BY <1>2, SeqFacts DEF TypeOK
  <2>2. run' = [at |-> "encode", frame |-> frame] /\ inFlight' = Append(inFlight, frame)
    BY <1>2 DEF DoRun
  <2> HIDE DEF frame
  <2>3. Len(inFlight') = Len(inFlight) + 1 /\ Waiting' = 1
    BY <2>1, <2>2, SeqFacts, LagTyped DEF Waiting
  <2>4. late < MaxLate => Len(encoded) + Len(inFlight) <= late
    BY <1>1, LagTyped DEF Lagging
  <2>5. late < MaxLate => Len(encoded') + Len(inFlight') <= late' + Waiting'
    BY <1>1, <2>3, <2>4, LagTyped
  <2>6. late = 0 => OnlyItsOwn'
    <3> SUFFICES ASSUME late = 0 PROVE OnlyItsOwn'
      OBVIOUS
    <3>1. encoded = <<>> /\ inFlight = <<>>
      BY <2>4, LagTyped, MediaGraphAssumption
    <3>2. inFlight' = <<frame>> /\ run'.frame = frame
      BY <2>2, <3>1
    <3> QED BY <1>1, <3>1, <3>2 DEF OnlyItsOwn
  <2> QED BY <1>1, <2>2, <2>5, <2>6 DEF Lagging, Answering
<1>3. CASE ~(frame # 0 /\ inputs > 0)
  <2>1. run' = NoRun /\ inFlight' = inFlight
    BY <1>3 DEF DoRun, EndRun
  <2>2. UNCHANGED <<run, held, inFlight, encoded, answers, late, sending, graph, control>>
    BY <1>1, <2>1
  <2> QED BY <2>2 DEF Lagging, Answering, OnlyItsOwn, Waiting
<1> QED BY <1>2, <1>3

LEMMA EncoderAnswersLagging == TypeOK /\ IInv /\ Streaming /\ Lagging /\ EncoderAnswers => Lagging'
<1> SUFFICES ASSUME TypeOK, IInv, Streaming, Lagging, EncoderAnswers PROVE Lagging'
  OBVIOUS
<1>1. /\ answers' = answers - 1 /\ UNCHANGED <<graph, control, inFlight, late>> /\ answers > 0
  BY DEF EncoderAnswers, EndRun, graphVars, counts
<1>2. CASE run.at # "encode"
  <2>1. UNCHANGED <<run, held, encoded, sending>>
    BY <1>2 DEF EncoderAnswers, writerVars
  <2>2. Answering'
    BY <1>1, <2>1, LagTyped DEF Lagging, Answering
  <2> QED BY <1>1, <2>1, <2>2 DEF Lagging, OnlyItsOwn, Waiting
<1>3. CASE run.at = "encode" /\ encoded = <<>>
  <2>1. graph = "idle" /\ control = "stopping"
    BY <1>1, <1>3, LagTyped DEF Lagging, Answering
  <2>2. run' = NoRun /\ ~sending'
    BY <1>3 DEF EncoderAnswers, EndRun, Streaming, writerVars
  <2> QED BY <1>1, <2>1, <2>2 DEF Lagging, Answering, NoRun
<1>4. CASE run.at = "encode" /\ encoded # <<>>
  <2>1. held' = Head(encoded) /\ encoded' = Tail(encoded) /\ run' = [run EXCEPT !.at = "write"]
    BY <1>4 DEF EncoderAnswers
  <2>2. Len(encoded') = Len(encoded) - 1
    BY <1>4, <2>1, SeqFacts, LagTyped
  <2>3. run'.at = "write" /\ run'.frame = run.frame
    BY <1>4, <2>1 DEF TypeOK, NoRun
  <2>4. Waiting = 1 /\ Waiting' = 0
    BY <1>4, <2>3 DEF Waiting
  <2>5. graph # "idle" /\ late < MaxLate => Len(encoded) + Len(inFlight) <= late + 1
    BY <2>4 DEF Lagging
  <2>6. graph # "idle" /\ late < MaxLate => Len(encoded') + Len(inFlight') <= late' + Waiting'
    BY <1>1, <2>2, <2>4, <2>5, LagTyped
  <2>7. Answering'
    <3>1. graph # "idle" => answers' <= Len(encoded')
      BY <1>1, <2>2, LagTyped DEF Lagging, Answering
    <3>2. graph = "idle" => control = "stopping"
      BY <1>4 DEF Lagging, Answering
    <3> QED BY <1>1, <3>1, <3>2 DEF Answering
  <2>8. sending' /\ late = 0 => held' = run.frame
    <3>0. sending' = (stream # "closed") /\ run # NoRun
      BY <1>4 DEF EncoderAnswers, NoRun
    <3>1. sending' => graph # "idle"
      BY <3>0 DEF Streaming
    <3>2. graph # "idle" /\ late = 0 => encoded = <<run.frame>>
      BY <1>4 DEF Lagging, OnlyItsOwn
    <3> QED BY <2>1, <3>1, <3>2
  <2> QED BY <1>1, <2>3, <2>6, <2>7, <2>8 DEF Lagging
<1> QED BY <1>2, <1>3, <1>4

\* A wait that timed out makes room for the frame it leaves in the encoder.
LEMMA EndLagging ==
  TypeOK /\ Streaming /\ Lagging /\ (EncodeTimeout \/ WriteDone \/ WriteFails \/ RunFreed)
  => Lagging'
<1> SUFFICES ASSUME TypeOK, Streaming, Lagging, EncodeTimeout \/ WriteDone \/ WriteFails \/ RunFreed
             PROVE  Lagging'
  OBVIOUS
<1>1. run' = NoRun /\ ~sending' /\ UNCHANGED <<graph, control, encoded, inFlight, answers>>
  <2>1. EncodeTimeout \/ RunFreed => ~sending'
    BY DEF EncodeTimeout, RunFreed, codecVars, writerVars, Streaming
  <2>2. WriteDone \/ WriteFails => ~sending'
    BY DEF WriteDone, WriteFails
  <2>3. run' = NoRun /\ UNCHANGED <<graph, control, encoded, inFlight, answers>>
    BY DEF EncodeTimeout, WriteDone, WriteFails, RunFreed, EndRun, codecVars
  <2> QED BY <2>1, <2>2, <2>3
<1>2. Answering' /\ Waiting' = 0
  BY <1>1 DEF Lagging, Answering, Waiting, NoRun
<1>3. CASE EncodeTimeout
  <2>1. Waiting = 1 /\ late' = IF late < MaxLate THEN late + 1 ELSE late
    BY <1>3 DEF EncodeTimeout, Waiting
  <2>2. graph # "idle" /\ late < MaxLate => Len(encoded) + Len(inFlight) <= late + 1
    BY <2>1 DEF Lagging
  <2>3. graph # "idle" /\ late' < MaxLate => Len(encoded) + Len(inFlight) <= late'
    BY <2>1, <2>2, LagTyped, MediaGraphAssumption
  <2>4. graph' # "idle" /\ late' < MaxLate => Len(encoded') + Len(inFlight') <= late' + Waiting'
    BY <1>1, <1>2, <2>3, <2>1, LagTyped, MediaGraphAssumption
  <2> QED BY <1>1, <1>2, <2>4 DEF Lagging, NoRun
<1>4. CASE WriteDone \/ WriteFails \/ RunFreed
  <2>1. run.at # "encode" /\ late' = late
    BY <1>4 DEF WriteDone, WriteFails, RunFreed, counts
  <2>2. Waiting = 0
    BY <2>1 DEF Waiting
  <2> QED BY <1>1, <1>2, <2>1, <2>2 DEF Lagging, NoRun
<1> QED BY <1>3, <1>4

\* What the codec gives back it had, and a filled buffer comes with an answer.
LEMMA CodecLagging == TypeOK /\ IInv /\ Streaming /\ Lagging /\ (Encode \/ Flush) => Lagging'
<1> SUFFICES ASSUME TypeOK, IInv, Streaming, Lagging, Encode \/ Flush PROVE Lagging'
  OBVIOUS
<1>1. UNCHANGED <<graph, control, run, held, late, sending>>
  BY DEF Encode, Flush, graphVars, writerVars, counts
<1>2. graph = "idle" => control = "stopping"
  <2>1. CASE inFlight # <<>>
    BY <2>1 DEF Streaming
  <2>2. CASE Flush
    BY <2>2 DEF Flush
  <2> QED BY <2>1, <2>2 DEF Encode
<1>3. CASE graph = "idle"
  BY <1>1, <1>2, <1>3 DEF Lagging, Answering
<1>4. CASE graph # "idle"
  <2>1. /\ inFlight # <<>> /\ inFlight' = Tail(inFlight) /\ answers' = answers + 1
        /\ encoded' = Append(encoded, Head(inFlight))
    BY <1>4 DEF Encode, Flush, IInv, AtRest
  <2>2. Head(inFlight) \in Contents /\ Len(inFlight') = Len(inFlight) - 1
    BY <2>1, SeqFacts, LagTyped DEF Contents
  <2>3. Len(encoded') = Len(encoded) + 1
    BY <2>1, <2>2, SeqFacts, LagTyped
  <2>4. answers' <= Len(encoded')
    BY <1>4, <2>1, <2>3, LagTyped DEF Lagging, Answering
  <2>5. Len(encoded') + Len(inFlight') = Len(encoded) + Len(inFlight)
    BY <2>2, <2>3, LagTyped
  <2>6. ASSUME late = 0, run.at = "encode" PROVE inFlight' = <<>> /\ encoded' = <<run.frame>>
    <3>1. inFlight = <<run.frame>> /\ encoded = <<>> /\ Len(inFlight) = 1
      BY <1>4, <2>1, <2>6 DEF Lagging, OnlyItsOwn
    <3>2. inFlight' \in Seq(Frames) /\ Len(inFlight') = 0
      BY <2>1, <2>2, <3>1, SeqFacts, LagTyped
    <3> QED BY <2>1, <3>1, <3>2, EmptySeq
  <2> QED BY <1>1, <1>4, <2>4, <2>5, <2>6 DEF Lagging, Answering, OnlyItsOwn, Waiting
<1> QED BY <1>3, <1>4

LEMMA ControlLagging ==
  TypeOK /\ IInv /\ Streaming /\ Lagging /\ (Started \/ Stop \/ Stopped) => Lagging'
<1> SUFFICES ASSUME TypeOK, IInv, Streaming, Lagging, Started \/ Stop \/ Stopped PROVE Lagging'
  OBVIOUS
<1>1. CASE Started
  <2>1. /\ encoded' = <<>> /\ inFlight' = <<>> /\ answers' = 0 /\ late' = 0 /\ run' = NoRun
        /\ graph' = "paused" /\ ~sending'
    BY <1>1 DEF Started, TurnTaken, IInv, AtRest, Lagging, Answering, Streaming, NoRun, writerVars
  <2>2. Len(encoded') = 0 /\ Len(inFlight') = 0 /\ Waiting' = 0
    BY <2>1, LagTyped DEF Waiting, NoRun
  <2> QED BY <2>1, <2>2, LagTyped DEF Lagging, Answering, NoRun
<1>2. CASE Stop
  BY <1>2 DEF Stop, Lagging, Answering, OnlyItsOwn, codecVars, writerVars, counts
<1>3. CASE Stopped
  <2>1. /\ encoded' = <<>> /\ inFlight' = <<>> /\ answers' = 0 /\ graph' = "idle"
        /\ late' = late /\ sending' = sending /\ graph = "idle"
    BY <1>3 DEF Stopped, TurnTaken, FreeBuffers, IInv, AtRest, counts
  <2>2. ~sending
    BY <2>1 DEF Streaming, NoRun
  <2> QED BY <2>1, <2>2 DEF Lagging, Answering
<1> QED BY <1>1, <1>2, <1>3

LEMMA NextLagging ==
  MaxLate # 0 /\ TypeOK /\ IInv /\ Streaming /\ Lagging /\ [Next]_vars => Lagging'
<1> SUFFICES ASSUME MaxLate # 0, TypeOK, IInv, Streaming, Lagging, [Next]_vars PROVE Lagging'
  OBVIOUS
<1>1. CASE Resume \/ ResumeCapture \/ Resumed \/ Pause
  BY <1>1, LaggingKept
     DEF Resume, ResumeCapture, Resumed, Pause, IInv, AtRest, codecVars, writerVars, counts
<1>2. CASE Start \/ StartFails
  <2>1. /\ UNCHANGED <<run, held, inFlight, encoded, answers, late, sending, graph>>
        /\ control # "stopping" /\ control' # "stopping"
    BY <1>2 DEF Start, StartFails, Callable, codecVars, writerVars, counts
  <2> QED BY <2>1, LaggingKept
<1>3. CASE \/ CameraFrame \/ Camera \/ ClearInRun \/ DoRunStopped \/ Connect \/ Close
           \/ UNCHANGED vars
  <2>1. /\ UNCHANGED <<run, held, inFlight, encoded, answers, late, graph, control>>
        /\ sending' => sending
    BY <1>3 DEF Camera, CameraFrame, CameraPush, CameraReads, CameraCount, CountRun,
       CameraPost, CameraSpawn, ClearInRun, DoRunStopped, Connect, Close,
       vars, graphVars, codecVars, writerVars, counts
  <2> QED BY <2>1 DEF Lagging, Answering, OnlyItsOwn, Waiting
<1> QED BY <1>1, <1>2, <1>3, DoRunLagging, EncoderAnswersLagging, EndLagging, CodecLagging,
           ControlLagging DEF Next, Handlers, Calls

\* A run writes its own frame until a wait for the encoder times out, and the
\* encoder's backlog is no longer than the number of waits that did.
THEOREM SpecLagOnlyByTimeout == MaxLate # 0 => (Spec => []LagOnlyByTimeout)
<1> SUFFICES ASSUME MaxLate # 0 PROVE Spec => []LagOnlyByTimeout
  OBVIOUS
<1>1. Init => Lagging
  BY DEF Init, Lagging, Answering, NoRun
<1>2. TypeOK /\ IInv /\ Streaming /\ Lagging /\ [Next]_vars => Lagging'
  BY NextLagging
<1>3. TypeOK /\ Lagging => LagOnlyByTimeout
  <2> SUFFICES ASSUME TypeOK, Lagging, graph = "running", run = NoRun, late < MaxLate
               PROVE  Len(encoded) + Len(inFlight) <= late
    BY DEF LagOnlyByTimeout, Lagging
  <2>1. Waiting = 0
    BY DEF Waiting, NoRun
  <2> QED BY <2>1, LagTyped DEF Lagging
<1> QED BY <1>1, <1>2, <1>3, AlwaysIInv, AlwaysStreaming, SpecTypeOK, PTL DEF Spec
=============================================================================
