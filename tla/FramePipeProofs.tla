-------------------------- MODULE FramePipeProofs --------------------------
(***************************************************************************)
(* A media graph implements FramePipe for all sizes of queue and ports:    *)
(* the frames under way, from the camera's queue through the codec to the  *)
(* writer, are in the order in which they were taken.                      *)
(***************************************************************************)
EXTENDS MediaGraphProofs

Rising(s) == \A i, j \in 1..Len(s) : i < j => s[i] < s[j]

Precede(S, T) == \A f \in S, g \in T : f < g

\* The last frame the camera's thread has put in the queue, or dropped.
Taken == IF camera = "push" THEN shot - 1 ELSE shot

\* What the encoder returns while it is stopped is never written: its stream is closed.
Filled == IF graph = "idle" THEN <<>> ELSE encoded

UnderWay == Range(Filled) \cup Range(inFlight) \cup Range(queue)

Ordered ==
  /\ Filled \in Seq(Nat) /\ last \in Nat
  /\ camera = "push" => shot > 0
  /\ Rising(Filled) /\ Rising(inFlight) /\ Rising(queue)
  /\ Precede(Range(Filled), Range(inFlight) \cup Range(queue))
  /\ Precede(Range(inFlight), Range(queue))
  /\ Precede({last}, UnderWay)
  /\ \A f \in UnderWay \cup {last} : f <= Taken

\* The frame that is being written is between what was and what is to be written.
Written ==
  sending =>
    /\ writing \in Nat /\ last < writing /\ writing <= Taken
    /\ Precede({writing}, UnderWay)

OInv == IInv /\ Streaming /\ Ordered /\ Written

-----------------------------------------------------------------------------
LEMMA EmptyRising == <<>> \in Seq(Nat) /\ Rising(<<>>) /\ Range(<<>>) = {}
<1> QED BY EmptySeq DEF Rising, Range

LEMMA RangeInNat ==
  ASSUME NEW s \in Seq(Nat)
  PROVE  Range(s) \subseteq Nat
<1> QED BY DEF Range

\* Taking the head of a rising sequence leaves what is above it.
LEMMA TailRising ==
  ASSUME NEW s \in Seq(Nat), s # <<>>, Rising(s)
  PROVE  /\ Tail(s) \in Seq(Nat) /\ Rising(Tail(s))
         /\ Head(s) \in Nat /\ Head(s) \in Range(s) /\ Range(Tail(s)) \subseteq Range(s)
         /\ Precede({Head(s)}, Range(Tail(s)))
<1>1. /\ Head(s) \in Nat /\ Tail(s) \in Seq(Nat) /\ Len(Tail(s)) = Len(s) - 1
      /\ \A i \in 1..Len(Tail(s)) : Tail(s)[i] = s[i + 1]
  BY HeadTailProperties
<1>2. Len(s) \in Nat /\ Len(s) > 0 /\ DOMAIN s = 1..Len(s) /\ Head(s) = s[1]
  BY EmptySeq
<1>3. DOMAIN Tail(s) = 1..Len(Tail(s))
  BY <1>1
<1>4. Rising(Tail(s))
  BY <1>1, <1>2 DEF Rising
<1>5. \A f \in Range(Tail(s)) : f \in Range(s) /\ s[1] < f
  <2> SUFFICES ASSUME NEW i \in 1..Len(Tail(s))
               PROVE  Tail(s)[i] \in Range(s) /\ s[1] < Tail(s)[i]
    BY <1>3 DEF Range
  <2>1. i + 1 \in 1..Len(s) /\ 1 \in 1..Len(s) /\ 1 < i + 1 /\ Tail(s)[i] = s[i + 1]
    BY <1>1, <1>2
  <2> QED BY <2>1, <1>2 DEF Range, Rising
<1>6. Head(s) \in Range(s)
  BY <1>2 DEF Range
<1> QED BY <1>1, <1>2, <1>4, <1>5, <1>6 DEF Precede

LEMMA AppendRising ==
  ASSUME NEW s \in Seq(Nat), NEW e \in Nat, Rising(s), Precede(Range(s), {e})
  PROVE  /\ Append(s, e) \in Seq(Nat) /\ Rising(Append(s, e))
         /\ Range(Append(s, e)) = Range(s) \cup {e}
<1> DEFINE t == Append(s, e)
<1>1. /\ t \in Seq(Nat) /\ Len(t) = Len(s) + 1
      /\ \A i \in 1..Len(s) : t[i] = s[i]
      /\ t[Len(s) + 1] = e
  BY AppendProperties
<1>2. /\ Len(s) \in Nat /\ Len(t) = Len(s) + 1
      /\ DOMAIN s = 1..Len(s) /\ DOMAIN t = 1..Len(s) + 1
  BY <1>1
<1>a. \A i \in 1..Len(t) : i \in 1..Len(s) \/ i = Len(s) + 1
  BY <1>2
<1>b. (\A i \in 1..Len(s) : t[i] = s[i]) /\ t[Len(s) + 1] = e
  BY <1>1
<1> HIDE DEF t
<1>3. \A i \in 1..Len(s) : s[i] < e
  BY <1>2 DEF Precede, Range
<1>4. Rising(t)
  <2> SUFFICES ASSUME NEW i \in 1..Len(t), NEW j \in 1..Len(t), i < j
               PROVE  t[i] < t[j]
    BY DEF Rising
  <2>1. i \in 1..Len(s)
    BY <1>2
  <2>2. CASE j \in 1..Len(s)
    BY <2>1, <2>2, <1>b DEF Rising
  <2>3. CASE j = Len(s) + 1
    BY <2>1, <2>3, <1>b, <1>3
  <2> QED BY <2>2, <2>3, <1>a
<1>5. Range(t) = Range(s) \cup {e}
  <2>1. \A i \in 1..Len(s) + 1 : t[i] \in Range(s) \cup {e}
    <3>1. \A i \in 1..Len(s) : s[i] \in Range(s)
      BY <1>2 DEF Range
    <3> QED BY <3>1, <1>a, <1>b, <1>2
  <2>2. \A i \in 1..Len(s) : s[i] \in Range(t)
    <3>1. \A i \in 1..Len(s) : i \in DOMAIN t
      BY <1>2
    <3> QED BY <3>1, <1>b DEF Range
  <2>3. e \in Range(t)
    BY <1>2, <1>b DEF Range
  <2> QED BY <2>1, <2>2, <2>3, <1>2 DEF Range
<1> QED BY <1>1, <1>4, <1>5 DEF t

-----------------------------------------------------------------------------
LEMMA InitOInv == Init => OInv
<1> SUFFICES ASSUME Init PROVE OInv
  OBVIOUS
<1>1. IInv /\ Streaming
  BY InitIInv DEF Init, Streaming
<1>2. Ordered
  <2>1. Filled = <<>> /\ inFlight = <<>> /\ queue = <<>>
    BY DEF Init, Filled
  <2>2. Range(Filled) = {} /\ Range(inFlight) = {} /\ Range(queue) = {}
    BY <2>1, EmptyRising
  <2>3. last = 0 /\ Taken = 0 /\ camera # "push"
    BY DEF Init, Taken
  <2>4. Filled \in Seq(Nat) /\ Rising(Filled) /\ Rising(inFlight) /\ Rising(queue)
    BY <2>1, EmptyRising
  <2> QED BY <2>2, <2>3, <2>4 DEF Ordered, Precede, UnderWay
<1>3. Written
  BY DEF Init, Written
<1> QED BY <1>1, <1>2, <1>3 DEF OInv

\* Steps that take frames away from the lines keep the order.
LEMMA Thinned ==
  ASSUME OInv, Filled' \in Seq(Nat),
         Rising(Filled'), Rising(inFlight'), Rising(queue'),
         Range(Filled') \subseteq Range(Filled), Range(inFlight') \subseteq Range(inFlight),
         Range(queue') \subseteq Range(queue),
         last' = last, Taken' = Taken, (camera' = "push" => shot' > 0),
         sending' => sending /\ writing' = writing
  PROVE  Ordered' /\ Written'
<1>1. Ordered'
  BY DEF OInv, Ordered, Precede, UnderWay
<1>2. Written'
  BY DEF OInv, Written, Precede, UnderWay
<1> QED BY <1>1, <1>2


\* The frame goes to the end of the queue, which may drop its first.
LEMMA CameraPushOInv == OInv /\ CameraPush => Ordered' /\ Written'
<1> SUFFICES ASSUME OInv, CameraPush PROVE Ordered' /\ Written'
  OBVIOUS
<1>1. /\ queue \in Seq(Nat) /\ shot \in Nat /\ shot > 0 /\ Rising(queue)
      /\ Taken = shot - 1 /\ Taken' = shot
  BY DEF OInv, IInv, Typed, Ordered, Taken, CameraPush
<1>2. UnderWay \subseteq Nat /\ last \in Nat
  BY RangeInNat DEF OInv, IInv, Typed, Ordered, UnderWay
<1>3. \A f \in UnderWay \cup {last} : f < shot
  BY <1>1, <1>2 DEF OInv, Ordered
<1>4. Precede(Range(queue), {shot})
  BY <1>3 DEF Precede, UnderWay
<1>5. Rising(queue') /\ Range(queue') \subseteq Range(queue) \cup {shot}
  <2>1. CASE Len(queue) < QueueSize
    BY <2>1, <1>1, <1>4, AppendRising DEF CameraPush, Enqueue
  <2>2. CASE ~(Len(queue) < QueueSize)
    <3>1. queue # <<>>
      BY <2>2, <1>1, MediaGraphAssumption
    <3>2. /\ Tail(queue) \in Seq(Nat) /\ Rising(Tail(queue))
          /\ Range(Tail(queue)) \subseteq Range(queue)
      BY <3>1, <1>1, TailRising
    <3>3. Precede(Range(Tail(queue)), {shot})
      BY <3>2, <1>4 DEF Precede
    <3>4. queue' = Append(Tail(queue), shot)
      BY <2>2 DEF CameraPush, Enqueue
    <3> QED BY <3>2, <3>3, <3>4, <1>1, AppendRising
  <2> QED BY <2>1, <2>2
<1>6. UNCHANGED <<Filled, inFlight, last, shot, sending, writing>> /\ camera' # "push"
  BY DEF CameraPush, Filled, graphVars, codecVars, writerVars
<1>7. Ordered'
  <2>1. /\ \A f \in Range(Filled) \cup Range(inFlight) \cup {last} : f < shot
        /\ \A f \in Range(queue') : f = shot \/ f \in Range(queue)
    BY <1>3, <1>5 DEF UnderWay
  <2> QED BY <1>1, <1>2, <1>5, <1>6, <2>1 DEF OInv, Ordered, Precede, UnderWay
<1>8. Written'
  BY <1>1, <1>2, <1>5, <1>6 DEF OInv, Written, Precede, UnderWay
<1> QED BY <1>7, <1>8

\* The first frame of the queue goes to the codec, or is dropped.
LEMMA DoRunOInv == OInv /\ DoRun => Ordered' /\ Written'
<1> SUFFICES ASSUME OInv, DoRun PROVE Ordered' /\ Written'
  OBVIOUS
<1> DEFINE frame == IF queue = <<>> THEN current ELSE Head(queue)
<1>1. /\ queue \in Seq(Nat) /\ inFlight \in Seq(Nat) /\ Rising(queue) /\ Rising(inFlight)
      /\ run = NoRun /\ current = 0
  BY DEF OInv, IInv, Typed, Kept, Ordered, DoRun
<1>2. UNCHANGED <<Filled, last, shot, camera, writing, sending>> /\ Filled \in Seq(Nat)
  BY DEF DoRun, EndRun, Filled, writerVars, OInv, Ordered
<1>3. Rising(queue') /\ Range(queue') \subseteq Range(queue)
  <2>1. queue' = IF queue = <<>> THEN queue ELSE Tail(queue)
    BY DEF DoRun
  <2> QED BY <2>1, <1>1, TailRising
<1>4. ~sending'
  BY <1>1, <1>2 DEF OInv, Streaming, NoRun
<1>5. CASE frame # 0 /\ inputs > 0
  <2>1. inFlight' = Append(inFlight, frame)
    BY <1>5 DEF DoRun
  <2>2. queue # <<>> /\ frame = Head(queue) /\ queue' = Tail(queue)
    BY <1>5, <1>1 DEF DoRun
  <2>3. frame \in Nat /\ frame \in Range(queue) /\ Precede({frame}, Range(queue'))
    BY <2>2, <1>1, TailRising
  <2> HIDE DEF frame
  <2>4. Precede(Range(inFlight), {frame})
    BY <2>3 DEF OInv, Ordered, Precede
  <2>5. Rising(inFlight') /\ Range(inFlight') = Range(inFlight) \cup {frame}
    BY <2>1, <2>3, <2>4, <1>1, AppendRising
  <2>6. Ordered'
    BY <2>3, <2>5, <1>2, <1>3 DEF OInv, Ordered, Precede, UnderWay, Taken
  <2> QED BY <2>6, <1>4 DEF Written
<1>6. CASE ~(frame # 0 /\ inputs > 0)
  <2>1. inFlight' = inFlight
    BY <1>6 DEF DoRun
  <2>2. Taken' = Taken
    BY <1>2 DEF Taken
  <2> QED BY <2>1, <2>2, <1>1, <1>2, <1>3, <1>4, Thinned DEF OInv, Ordered
<1> QED BY <1>5, <1>6

\* The codec moves a frame from its input to its output.
LEMMA EncodeOInv == OInv /\ Encode /\ graph # "idle" => Ordered' /\ Written'
<1> SUFFICES ASSUME OInv, Encode, graph # "idle" PROVE Ordered' /\ Written'
  OBVIOUS
<1> DEFINE f == Head(inFlight)
<1>1. /\ inFlight \in Seq(Nat) /\ Rising(inFlight) /\ inFlight # <<>>
      /\ Filled \in Seq(Nat) /\ Rising(Filled)
  BY DEF OInv, IInv, Typed, Ordered, Encode
<1>2. /\ Filled' = Append(Filled, f) /\ inFlight' = Tail(inFlight)
      /\ UNCHANGED <<queue, last, shot, camera, sending, writing>>
  BY DEF Encode, Filled, graphVars, cameraVars, writerVars
<1>3. /\ f \in Nat /\ f \in Range(inFlight) /\ Precede({f}, Range(inFlight'))
      /\ Rising(inFlight') /\ Range(inFlight') \subseteq Range(inFlight)
  BY <1>1, <1>2, TailRising
<1> HIDE DEF f
<1>4. Precede(Range(Filled), {f})
  BY <1>3 DEF OInv, Ordered, Precede
<1>5. /\ Filled' \in Seq(Nat) /\ Rising(Filled')
      /\ Range(Filled') = Range(Filled) \cup {f}
  BY <1>1, <1>2, <1>3, <1>4, AppendRising
<1>6. UnderWay' \subseteq UnderWay
  BY <1>2, <1>3, <1>5 DEF UnderWay
<1>7. Ordered'
  BY <1>2, <1>3, <1>5, <1>6 DEF OInv, Ordered, Precede, Taken
<1>8. Written'
  BY <1>2, <1>6 DEF OInv, Written, Precede, Taken
<1> QED BY <1>7, <1>8

\* The writer takes the oldest filled buffer.
LEMMA EncoderAnswersOInv == OInv /\ EncoderAnswers => Ordered' /\ Written'
<1> SUFFICES ASSUME OInv, EncoderAnswers PROVE Ordered' /\ Written'
  OBVIOUS
<1>1. UNCHANGED <<graph, stream, queue, inFlight, last, shot, camera>> /\ Taken' = Taken
  BY DEF EncoderAnswers, EndRun, graphVars, cameraVars, writerVars, Taken
<1>2. Filled \in Seq(Nat) /\ Rising(Filled) /\ Rising(inFlight) /\ Rising(queue)
  BY DEF OInv, Ordered
<1>3. CASE ~(run.at = "encode" /\ encoded # <<>>)
  <2>1. UNCHANGED <<Filled, sending, writing>>
    BY <1>1, <1>3 DEF EncoderAnswers, Filled, writerVars
  <2> QED BY <2>1, <1>1, <1>2, Thinned DEF OInv, Ordered
<1>4. CASE run.at = "encode" /\ encoded # <<>> /\ graph = "idle"
  <2>1. sending' = (stream # "closed") /\ run # NoRun
    BY <1>4 DEF EncoderAnswers, NoRun
  <2>2. ~sending' /\ Filled' = Filled
    BY <1>1, <1>4, <2>1 DEF OInv, Streaming, Filled
  <2> QED BY <2>2, <1>1, <1>2, Thinned DEF OInv, Ordered
<1>5. CASE run.at = "encode" /\ encoded # <<>> /\ graph # "idle"
  <2>1. Filled' = Tail(Filled) /\ writing' = Head(Filled) /\ Filled # <<>>
    BY <1>1, <1>5 DEF EncoderAnswers, Filled
  <2>2. /\ Filled' \in Seq(Nat) /\ Rising(Filled')
        /\ Range(Filled') \subseteq Range(Filled)
        /\ writing' \in Nat /\ writing' \in Range(Filled)
        /\ Precede({writing'}, Range(Filled'))
    BY <2>1, <1>2, TailRising
  <2>3. Ordered'
    BY <2>2, <1>1 DEF OInv, Ordered, Precede, UnderWay
  <2>4. Written'
    BY <2>2, <1>1 DEF OInv, Ordered, Written, Precede, UnderWay
  <2> QED BY <2>3, <2>4
<1> QED BY <1>3, <1>4, <1>5

\* What is written is the last frame that is on the stream.
LEMMA WriteDoneOInv == OInv /\ WriteDone => Ordered' /\ Written'
<1> SUFFICES ASSUME OInv, WriteDone PROVE Ordered' /\ Written'
  OBVIOUS
<1>1. /\ UNCHANGED <<Filled, inFlight, queue, camera, shot>> /\ last' = writing
      /\ sending /\ ~sending'
  BY DEF WriteDone, EndRun, Filled, cameraVars
<1>2. Ordered'
  BY <1>1 DEF OInv, Ordered, Written, Precede, UnderWay, Taken
<1>3. Written'
  BY <1>1 DEF Written
<1> QED BY <1>2, <1>3

\* While the encoder stops frames leave its input, read or not.
LEMMA StoppingOInv == OInv /\ (Encode \/ Flush) /\ graph = "idle" => Ordered' /\ Written'
<1> SUFFICES ASSUME OInv, Encode \/ Flush, graph = "idle" PROVE Ordered' /\ Written'
  OBVIOUS
<1>1. /\ UNCHANGED <<graph, queue, last, shot, camera, sending, writing>>
      /\ inFlight' = inFlight \/ (inFlight # <<>> /\ inFlight' = Tail(inFlight))
  BY DEF Encode, Flush, FlushInput, FlushOutput, graphVars, cameraVars, writerVars
<1>2. Filled' = Filled /\ Taken' = Taken
  BY <1>1 DEF Filled, Taken
<1>3. Rising(inFlight') /\ Range(inFlight') \subseteq Range(inFlight)
  BY <1>1, TailRising DEF OInv, IInv, Typed, Ordered
<1> QED BY <1>1, <1>2, <1>3, Thinned DEF OInv, Ordered

\* The camera's thread takes a frame; what it has put in the queue is as before.
LEMMA CameraFrameOInv == OInv /\ CameraFrame => Ordered' /\ Written'
<1> SUFFICES ASSUME OInv, CameraFrame PROVE Ordered' /\ Written'
  OBVIOUS
<1>1. /\ UNCHANGED <<Filled, inFlight, queue, last, sending, writing>>
      /\ camera = "away" /\ camera' = "push" /\ shot' = shot + 1
  BY DEF CameraFrame, Filled, graphVars, codecVars, writerVars
<1>2. Taken' = Taken /\ shot' > 0
  BY <1>1 DEF Taken, OInv, IInv, Typed
<1> QED BY <1>1, <1>2, Thinned DEF OInv, Ordered

\* The other steps leave the lines as they are, or empty one.
Emptied ==
  /\ Filled' \in {Filled, <<>>} /\ queue' \in {queue, <<>>}
  /\ UNCHANGED <<inFlight, last, shot>>
  /\ camera' = "push" <=> camera = "push"
  /\ sending' => sending /\ writing' = writing

LEMMA EmptiedOInv == OInv /\ Emptied => Ordered' /\ Written'
<1> SUFFICES ASSUME OInv, Emptied PROVE Ordered' /\ Written'
  OBVIOUS
<1>1. Filled \in Seq(Nat) /\ Rising(Filled) /\ Rising(inFlight) /\ Rising(queue)
  BY DEF OInv, Ordered
<1>2. /\ Filled' \in Seq(Nat) /\ Rising(Filled') /\ Range(Filled') \subseteq Range(Filled)
      /\ Rising(queue') /\ Range(queue') \subseteq Range(queue)
  BY <1>1, EmptyRising DEF Emptied
<1>3. Taken' = Taken /\ (camera' = "push" => shot' > 0)
  BY DEF Emptied, Taken, OInv, Ordered
<1> QED BY <1>1, <1>2, <1>3, Thinned DEF Emptied

LEMMA RunEmptied ==
  IInv /\ Streaming
  /\ \/ ClearInRun \/ DoRunStopped \/ EncodeTimeout \/ WriteFails \/ RunFreed
     \/ CameraReads \/ CameraCount \/ CameraPost \/ CameraSpawn
  => Emptied
<1> USE DEF Emptied, Filled, graphVars, cameraVars, codecVars, writerVars
<1>1. ClearInRun \/ DoRunStopped => Emptied
  BY DEF ClearInRun, DoRunStopped
<1>2. EncodeTimeout => Emptied
  BY DEF EncodeTimeout, EndRun
<1>3. WriteFails => Emptied
  BY DEF WriteFails, EndRun
<1>4. Streaming /\ RunFreed => Emptied
  BY DEF RunFreed, EndRun, Streaming
<1>5. CameraReads \/ CameraCount \/ CameraPost \/ CameraSpawn => Emptied
  BY DEF CameraReads, CameraCount, CountRun, CameraPost, CameraSpawn
<1> QED BY <1>1, <1>2, <1>3, <1>4, <1>5

LEMMA ControlEmptied ==
  IInv /\ Streaming /\ (Calls \/ Started \/ ResumeCapture \/ Resumed \/ Stopped) => Emptied
<1> USE DEF Emptied, Filled, graphVars, cameraVars, codecVars, writerVars
<1>1. Start \/ StartFails => Emptied
  BY DEF Start, StartFails
<1>2. IInv /\ Streaming /\ Started => Emptied
  <2> SUFFICES ASSUME IInv, Streaming, Started PROVE Emptied
    OBVIOUS
  <2>1. encoded = <<>> /\ UNCHANGED <<encoded, queue, inFlight, last, shot, camera, sending, writing>>
    BY DEF Started, IInv, AtRest, Streaming
  <2> QED BY <2>1
<1>3. Resume \/ ResumeCapture \/ Connect \/ Close => Emptied
  BY DEF Resume, ResumeCapture, ClearQueue, Callable, Connect, Close
<1>4. IInv /\ Resumed => Emptied
  BY DEF Resumed, ClearQueue, IInv, AtRest
<1>5. Pause \/ Stop => Emptied
  BY DEF Pause, Stop, ClearQueue
<1>6. IInv /\ Stopped => Emptied
  BY DEF IInv, AtRest, Stopped
<1> QED BY <1>1, <1>2, <1>3, <1>4, <1>5, <1>6 DEF Calls

LEMMA NextOInv == OInv /\ [Next]_vars => OInv'
<1> SUFFICES ASSUME OInv, [Next]_vars PROVE OInv'
  OBVIOUS
<1>1. IInv' /\ Streaming'
  BY NextIInv, NextStreaming DEF OInv
<1>2. CASE CameraFrame
  BY <1>1, <1>2, CameraFrameOInv DEF OInv
<1>3. CASE CameraPush
  BY <1>1, <1>3, CameraPushOInv DEF OInv
<1>4. CASE DoRun
  BY <1>1, <1>4, DoRunOInv DEF OInv
<1>5. CASE EncoderAnswers
  BY <1>1, <1>5, EncoderAnswersOInv DEF OInv
<1>6. CASE Encode \/ Flush
  <2>1. CASE graph = "idle"
    BY <1>1, <1>6, <2>1, StoppingOInv DEF OInv
  <2>2. CASE graph # "idle"
    BY <1>1, <1>6, <2>2, EncodeOInv DEF OInv, Flush, IInv, AtRest
  <2> QED BY <2>1, <2>2
<1>7. CASE WriteDone
  BY <1>1, <1>7, WriteDoneOInv DEF OInv
<1>8. CASE \/ ClearInRun \/ DoRunStopped \/ EncodeTimeout \/ WriteFails \/ RunFreed
           \/ CameraReads \/ CameraCount \/ CameraPost \/ CameraSpawn
  BY <1>1, <1>8, RunEmptied, EmptiedOInv DEF OInv
<1>9. CASE Calls \/ Started \/ ResumeCapture \/ Resumed \/ Stopped
  BY <1>1, <1>9, ControlEmptied, EmptiedOInv DEF OInv
<1>10. CASE UNCHANGED vars
  BY <1>1, <1>10, EmptiedOInv
     DEF OInv, Emptied, Filled, vars, graphVars, cameraVars, codecVars, writerVars
<1> QED BY <1>2, <1>3, <1>4, <1>5, <1>6, <1>7, <1>8, <1>9, <1>10 DEF Next, Handlers, Camera

\* A step of the graph takes a frame, puts a later one than the last on the
\* stream, or does neither.
LEMMA StepRefines == OInv /\ [Next]_vars => [Pipe!Take \/ Pipe!Arrive]_<<shot, last>>
<1> SUFFICES ASSUME OInv, [Next]_vars
             PROVE  [Pipe!Take \/ Pipe!Arrive]_<<shot, last>>
  OBVIOUS
<1>1. CASE CameraFrame
  BY <1>1 DEF CameraFrame, writerVars, Pipe!Take
<1>2. CASE WriteDone
  <2>1. /\ last' = writing /\ shot' = shot
        /\ writing \in Nat /\ last \in Nat /\ last < writing /\ writing <= Taken
        /\ shot \in Nat /\ Taken <= shot
    BY <1>2 DEF WriteDone, cameraVars, OInv, Ordered, Written, IInv, Typed, Taken
  <2>2. writing \in last + 1..shot
    BY <2>1 DEF Taken
  <2> QED BY <2>1, <2>2 DEF Pipe!Arrive
<1>3. CASE \/ CameraPush \/ DoRun \/ EncoderAnswers \/ Encode \/ Flush
  BY <1>3 DEF CameraPush, DoRun, EncoderAnswers, Encode, Flush, cameraVars, writerVars
<1>4. CASE \/ ClearInRun \/ DoRunStopped \/ EncodeTimeout \/ WriteFails \/ RunFreed
           \/ CameraReads \/ CameraCount \/ CameraPost \/ CameraSpawn
  BY <1>4, RunEmptied DEF Emptied, OInv
<1>5. CASE Calls \/ Started \/ ResumeCapture \/ Resumed \/ Stopped
  BY <1>5, ControlEmptied DEF Emptied, OInv
<1>6. CASE UNCHANGED vars
  BY <1>6 DEF vars, cameraVars, writerVars
<1> QED BY <1>1, <1>2, <1>3, <1>4, <1>5, <1>6 DEF Next, Handlers, Camera

\* Frames reach the stream in the order in which the camera took them, none
\* twice, for all sizes of queue and ports and however often the graph is
\* started, paused and stopped.
THEOREM SpecImplementsFramePipe == Spec => ImplementsFramePipe
<1>1. Spec => []OInv
  BY InitOInv, NextOInv, PTL DEF Spec
<1>2. Init => Pipe!Init
  BY DEF Init, Pipe!Init
<1> QED BY <1>1, <1>2, StepRefines, PTL DEF Spec, ImplementsFramePipe, Pipe!Spec
=============================================================================
