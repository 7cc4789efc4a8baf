--------------------------- MODULE ChannelProofs ---------------------------
(***************************************************************************)
(* What holds of Channel for every number of messages, coroutines and      *)
(* connections, and every queue limit.                                     *)
(***************************************************************************)
EXTENDS Channel, TLAPS, SequenceTheorems

(***************************************************************************)
(* Type correctness.  TypeOK is not inductive: a coroutine that is writing *)
(* has a message, and a read that is done left something in the get area.  *)
(***************************************************************************)
HasMessage  == \A c \in Coroutines : pc[c] \in Suspended \cup {"answered"} => msg[c] \in Messages
ReadArrived == reader.op = "done" => reader.ibuf > 0
Typed == TypeOK /\ HasMessage /\ ReadArrived

\* What the front of a non-empty queue and the rest of it are.
LEMMA HeadAndTail ==
  ASSUME NEW S, NEW s \in Seq(S), s # <<>>
  PROVE  Head(s) \in S /\ Tail(s) \in Seq(S) /\ Len(Tail(s)) = Len(s) - 1 /\ Len(s) > 0
  OBVIOUS

\* archive & msg leaves pieces in the put area.
LEMMA SerializedTyped ==
  ASSUME obuf \in Seq(Pieces), NEW m \in Messages
  PROVE  Serialized(m) \in Seq(Pieces)
<1>1. <<m, 1>> \in Pieces /\ <<m, 2>> \in Pieces
  BY DEF Pieces
<1>2. <<<<m, 1>>>> \in Seq(Pieces) /\ <<<<m, 1>>, <<m, 2>>>> \in Seq(Pieces)
  BY <1>1
<1>3. QED
  BY <1>2 DEF Serialized

\* A coroutine that starts to write a message of the queue keeps its type.
LEMMA StartWriteTyped ==
  ASSUME Typed, NEW c \in Coroutines, NEW m \in Messages, StartWrite(c, m)
  PROVE  SenderTypeOK' /\ HasMessage' /\ obuf' \in Seq(Pieces)
<1>1. obuf' \in Seq(Pieces)
  BY SerializedTyped DEF StartWrite, Typed, TypeOK, RestTypeOK
<1>2. SenderTypeOK' /\ HasMessage'
  BY DEF StartWrite, FirstWrite, Typed, TypeOK, SenderTypeOK, HasMessage, Places,
     Suspended, OpState
<1>3. QED
  BY <1>1, <1>2

\* The state Channel starts in is well typed.
LEMMA InitTyped == Init => Typed
  BY ChannelAssumption DEF Init, Typed, TypeOK, SenderTypeOK, LinkTypeOK, HistTypeOK,
     RestTypeOK,
     HasMessage, ReadArrived, Reader, OpState, Suspended, Places, Verdicts

\* A failed assertion changes nothing but `failed`.
LEMMA FailTyped ==
  ASSUME Typed, NEW why \in Failures, Fail(why)
  PROVE  Typed'
  BY DEF Fail, Typed, TypeOK, SenderTypeOK, LinkTypeOK, HistTypeOK, RestTypeOK,
     HasMessage, ReadArrived, sender, link, hist

\* Every step of doSendMessage keeps the types.
LEMMA SendStepTyped ==
  ASSUME Typed, NEW c \in Coroutines, SendStep(c)
  PROVE  Typed'
<1>1. CASE BeginSend(c)
  <2>1. SenderTypeOK' /\ HasMessage'
    BY <1>1 DEF Typed, TypeOK, SenderTypeOK, RestTypeOK, HasMessage, BeginSend, Fail,
       sender, Places, OpState, Suspended, InHandler
  <2>2. LinkTypeOK' /\ ReadArrived'
    BY <1>1 DEF Typed, TypeOK, LinkTypeOK, ReadArrived, BeginSend, Fail, link
  <2>3. HistTypeOK'
    BY <1>1 DEF Typed, TypeOK, SenderTypeOK, HistTypeOK, RestTypeOK, HasMessage, BeginSend,
       Fail, hist
  <2>4. RestTypeOK'
    BY <1>1 DEF Typed, TypeOK, SenderTypeOK, RestTypeOK, HasMessage, BeginSend, Fail,
       Failures
  <2>5. QED
    BY <2>1, <2>2, <2>3, <2>4 DEF Typed, TypeOK
<1>2. CASE FinishSend(c)
  <2>1. SenderTypeOK' /\ HasMessage'
    BY <1>2 DEF Typed, TypeOK, SenderTypeOK, RestTypeOK, HasMessage, FinishSend, Fail,
       sender, Places, OpState, Suspended, InHandler
  <2>2. LinkTypeOK' /\ ReadArrived'
    BY <1>2 DEF Typed, TypeOK, LinkTypeOK, ReadArrived, FinishSend, Fail, link
  <2>3. HistTypeOK'
    BY <1>2 DEF Typed, TypeOK, SenderTypeOK, HistTypeOK, RestTypeOK, HasMessage, FinishSend,
       Fail, hist
  <2>4. RestTypeOK'
    BY <1>2 DEF Typed, TypeOK, SenderTypeOK, RestTypeOK, HasMessage, FinishSend, Fail,
       Failures
  <2>5. QED
    BY <2>1, <2>2, <2>3, <2>4 DEF Typed, TypeOK
<1>3. CASE RefuseFront(c)
  <2>1. SenderTypeOK' /\ HasMessage'
    BY <1>3 DEF Typed, TypeOK, SenderTypeOK, RestTypeOK, HasMessage, RefuseFront, Front,
       Fail, sender, Places, OpState, Suspended, InHandler
  <2>2. LinkTypeOK' /\ ReadArrived'
    BY <1>3 DEF Typed, TypeOK, LinkTypeOK, ReadArrived, RefuseFront, Fail, link
  <2>3. HistTypeOK'
    BY <1>3 DEF Typed, TypeOK, SenderTypeOK, HistTypeOK, RestTypeOK, HasMessage,
       RefuseFront, Answered, Verdicts, Front, Fail, hist
  <2>4. RestTypeOK'
    BY <1>3 DEF Typed, TypeOK, SenderTypeOK, RestTypeOK, HasMessage, RefuseFront, Fail,
       Failures
  <2>5. QED
    BY <2>1, <2>2, <2>3, <2>4 DEF Typed, TypeOK
<1>4. CASE SerializeFront(c)
  <2>1. CASE sendYield # c
    BY <1>4, <2>1, FailTyped DEF SerializeFront, Failures
  <2>2. CASE sendYield = c
    <3>1. Front \in Messages
      BY <1>4, HeadAndTail DEF SerializeFront, Typed, TypeOK, RestTypeOK, Front
    <3>2. /\ StartWrite(c, Front) /\ running' = Idle
          /\ UNCHANGED <<queue, sendYield, link, hist, failed>>
      BY <1>4, <2>2 DEF SerializeFront
    <3>3. SenderTypeOK' /\ HasMessage' /\ obuf' \in Seq(Pieces)
      BY <3>1, <3>2, StartWriteTyped
    <3>4. LinkTypeOK' /\ ReadArrived' /\ HistTypeOK' /\ RestTypeOK'
      BY <3>2, <3>3 DEF Typed, TypeOK, LinkTypeOK, HistTypeOK, RestTypeOK, ReadArrived,
         link, hist
    <3>5. QED
      BY <3>3, <3>4 DEF Typed, TypeOK
  <2>3. QED
    BY <2>1, <2>2
<1>5. CASE ContinueWrite(c)
  <2>1. SenderTypeOK' /\ HasMessage'
    BY <1>5 DEF Typed, TypeOK, SenderTypeOK, RestTypeOK, HasMessage, ContinueWrite, Fail,
       sender, Places, OpState, Suspended, InHandler
  <2>2. LinkTypeOK' /\ ReadArrived'
    BY <1>5 DEF Typed, TypeOK, LinkTypeOK, ReadArrived, ContinueWrite, Fail, link
  <2>3. HistTypeOK'
    BY <1>5 DEF Typed, TypeOK, SenderTypeOK, HistTypeOK, RestTypeOK, HasMessage,
       ContinueWrite, Fail, hist
  <2>4. RestTypeOK'
    BY <1>5 DEF Typed, TypeOK, SenderTypeOK, RestTypeOK, HasMessage, ContinueWrite, Fail,
       Failures
  <2>5. QED
    BY <2>1, <2>2, <2>3, <2>4 DEF Typed, TypeOK
<1>6. CASE FlushRest(c)
  <2>1. SenderTypeOK' /\ HasMessage'
    BY <1>6 DEF Typed, TypeOK, SenderTypeOK, RestTypeOK, HasMessage, FlushRest, Fail,
       sender, Places, OpState, Suspended, InHandler
  <2>2. LinkTypeOK' /\ ReadArrived'
    BY <1>6 DEF Typed, TypeOK, LinkTypeOK, ReadArrived, FlushRest, Fail, link
  <2>3. HistTypeOK'
    BY <1>6 DEF Typed, TypeOK, SenderTypeOK, HistTypeOK, RestTypeOK, HasMessage, FlushRest,
       Answered, Verdicts, Fail, hist
  <2>4. RestTypeOK'
    <3>1. <<msg[c], 2>> \in Pieces
      BY <1>6 DEF Typed, HasMessage, FlushRest, Suspended, Pieces
    <3>2. obuf' \in Seq(Pieces)
      BY <1>6, <3>1 DEF FlushRest
    <3>3. QED
      BY <1>6, <3>2 DEF Typed, TypeOK, RestTypeOK, FlushRest
  <2>5. QED
    BY <2>1, <2>2, <2>3, <2>4 DEF Typed, TypeOK
<1>7. CASE EndWrite(c)
  <2>1. SenderTypeOK' /\ HasMessage'
    BY <1>7 DEF Typed, TypeOK, SenderTypeOK, RestTypeOK, HasMessage, EndWrite, Fail, sender,
       Places, OpState, Suspended, InHandler
  <2>2. LinkTypeOK' /\ ReadArrived'
    BY <1>7 DEF Typed, TypeOK, LinkTypeOK, ReadArrived, EndWrite, Fail, link
  <2>3. HistTypeOK'
    <3>1. pc[c] \in Suspended /\ msg[c] \in Messages
      BY <1>7 DEF EndWrite, Typed, HasMessage
    <3>2. WriteVerdict(c) \in [Messages -> Verdicts]
      BY <3>1 DEF WriteVerdict, Answered, Verdicts, Suspended, Typed, TypeOK, HistTypeOK
    <3>3. QED
      BY <1>7, <3>2 DEF Typed, TypeOK, HistTypeOK, EndWrite
  <2>4. RestTypeOK'
    BY <1>7 DEF Typed, TypeOK, SenderTypeOK, RestTypeOK, HasMessage, EndWrite,
       LeftInPutArea, Fail, Failures
  <2>5. QED
    BY <2>1, <2>2, <2>3, <2>4 DEF Typed, TypeOK
<1>8. CASE HandlerReturned(c)
  <2>1. pc' \in [Coroutines -> Places] /\ op' \in [Coroutines -> OpState]
    BY <1>8 DEF HandlerReturned, Typed, TypeOK, SenderTypeOK, Places, Suspended, OpState
  <2>2. HasMessage'
    <3>1. pc[c] = "answered" => msg[c] \in Messages
      BY DEF Typed, HasMessage
    <3>2. QED
      BY <1>8, <3>1 DEF HandlerReturned, Typed, TypeOK, SenderTypeOK, HasMessage,
         Suspended, InHandler
  <2>3. UNCHANGED <<queue, msg, nw, sendYield, obuf, link, hist>>
    BY <1>8 DEF HandlerReturned
  <2>4. running' \in {running, Idle} /\ failed' \in {failed, "PullWhileRunning"}
    BY <1>8 DEF HandlerReturned
  <2>5. QED
    BY <2>1, <2>2, <2>3, <2>4 DEF Typed, TypeOK, SenderTypeOK, LinkTypeOK, HistTypeOK,
       RestTypeOK,
       ReadArrived, link, hist, Failures
<1>9. CASE PopFront(c)
  <2>1. CASE queue = <<>>
    BY <1>9, <2>1, FailTyped DEF PopFront, Failures
  <2>2. CASE queue # <<>>
    <3>1. queue' \in Seq(Messages) /\ Len(queue') <= QueueLimit
      <4>1. queue \in Seq(Messages) /\ Len(queue) \in Nat /\ Len(queue) <= QueueLimit
        BY DEF Typed, TypeOK, RestTypeOK
      <4>2. queue' = Tail(queue)
        BY <1>9, <2>2 DEF PopFront
      <4>3. Tail(queue) \in Seq(Messages) /\ Len(Tail(queue)) = Len(queue) - 1
        BY <2>2, <4>1, HeadAndTail
      <4>4. QED
        BY <4>1, <4>2, <4>3, ChannelAssumption
    <3>2. pc' = [pc EXCEPT ![c] = "check"]
      BY <1>9, <2>2 DEF PopFront
    <3>3. UNCHANGED <<msg, op, nw, sendYield, obuf, link, running, hist, failed>>
      BY <1>9, <2>2 DEF PopFront
    <3>4. SenderTypeOK' /\ HasMessage'
      BY <3>2, <3>3 DEF Typed, TypeOK, SenderTypeOK, HasMessage, Places, Suspended
    <3>5. QED
      BY <3>1, <3>3, <3>4 DEF Typed, TypeOK, LinkTypeOK, HistTypeOK, RestTypeOK,
         ReadArrived, link, hist
  <2>3. QED
    BY <2>1, <2>2
<1> QED
  BY <1>1, <1>2, <1>3, <1>4, <1>5, <1>6, <1>7, <1>8, <1>9, SendStep(c) DEF SendStep

\* asyncSendMessage keeps the types: a message is queued only below the limit.
LEMMA EnqueueTyped ==
  ASSUME Typed, NEW m \in Messages, Enqueue(m)
  PROVE  queue' \in Seq(Messages) /\ Len(queue') <= QueueLimit /\ accepted' \in Seq(Messages)
  BY ChannelAssumption DEF Enqueue, Typed, TypeOK, RestTypeOK, HistTypeOK

LEMMA RefuseBusyTyped ==
  ASSUME Typed, NEW m \in Messages, RefuseBusy(m)
  PROVE  Typed'
<1>1. verdict' \in [Messages -> Verdicts]
  BY DEF RefuseBusy, Answered, Verdicts, Typed, TypeOK, HistTypeOK
<1>2. UNCHANGED <<queue, sender, sendYield, obuf, link, running, wire, accepted, failed>>
  BY DEF RefuseBusy
<1>3. QED
  BY <1>1, <1>2 DEF Typed, TypeOK, SenderTypeOK, LinkTypeOK, HistTypeOK, RestTypeOK,
     HasMessage,
     ReadArrived, sender, link

LEMMA PostTyped ==
  ASSUME Typed, NEW m \in Messages, Post(m)
  PROVE  Typed'
<1>1. queue' \in Seq(Messages) /\ Len(queue') <= QueueLimit /\ accepted' \in Seq(Messages)
  BY EnqueueTyped DEF Post
<1>2. UNCHANGED <<msg, op, nw, sendYield, obuf, link, running, wire, verdict, failed>>
  BY DEF Post
<1>3. pc' \in [Coroutines -> Places] /\ \A c \in Coroutines : pc'[c] \in {pc[c], "posted"}
  BY DEF Post, Free, Typed, TypeOK, SenderTypeOK, Places
<1>4. SenderTypeOK' /\ HasMessage'
  BY <1>2, <1>3 DEF Typed, TypeOK, SenderTypeOK, HasMessage, Suspended
<1>5. QED
  BY <1>1, <1>2, <1>4 DEF Typed, TypeOK, LinkTypeOK, HistTypeOK, RestTypeOK, ReadArrived,
     link

LEMMA StartInlineTyped ==
  ASSUME Typed, NEW m \in Messages, StartInline(m)
  PROVE  Typed'
<1>1. CASE sendYield # Idle
  BY <1>1, FailTyped DEF StartInline, Failures
<1>2. CASE sendYield = Idle /\ sock = "none"
  BY <1>2, FailTyped DEF StartInline, Failures
<1>3. CASE sendYield = Idle /\ sock # "none"
  <2>1. PICK c \in Coroutines :
          /\ Enqueue(m) /\ StartWrite(c, m) /\ sendYield' = c
          /\ UNCHANGED <<link, running, wire, verdict, failed>>
    BY <1>3 DEF StartInline, Free
  <2>2. SenderTypeOK' /\ HasMessage' /\ obuf' \in Seq(Pieces)
    BY <2>1, StartWriteTyped
  <2>3. queue' \in Seq(Messages) /\ Len(queue') <= QueueLimit /\ accepted' \in Seq(Messages)
    BY <2>1, EnqueueTyped
  <2>4. QED
    BY <2>1, <2>2, <2>3 DEF Typed, TypeOK, LinkTypeOK, HistTypeOK, RestTypeOK, ReadArrived,
       link
<1>4. QED
  BY <1>1, <1>2, <1>3

\* Opening, closing and losing the connection.
LEMMA ClosedTyped ==
  ASSUME Typed, Closed
  PROVE  SenderTypeOK' /\ HasMessage' /\ sock' = "none" /\ sendYield' = Idle
  BY DEF Closed, Cancelled, Typed, TypeOK, SenderTypeOK, HasMessage, OpState

LEMMA CloseTyped ==
  ASSUME Typed, Close
  PROVE  Typed'
<1>1. SenderTypeOK' /\ HasMessage' /\ sock' = "none" /\ sendYield' = Idle
  BY ClosedTyped DEF Close
<1>2. reader' \in Reader /\ ReadArrived'
  BY DEF Close, Cancelled, Typed, TypeOK, LinkTypeOK, ReadArrived, Reader, OpState
<1>3. UNCHANGED <<queue, obuf, session, running, hist, failed>>
  BY DEF Close
<1>4. QED
  BY <1>1, <1>2, <1>3 DEF Typed, TypeOK, LinkTypeOK, HistTypeOK, RestTypeOK, hist

LEMMA SocketTyped ==
  ASSUME Typed, SetSocket \/ ConnectionBreaks
  PROVE  Typed'
<1>1. LinkTypeOK' /\ ReadArrived'
  BY ChannelAssumption DEF SetSocket, ConnectionBreaks, Typed, TypeOK, LinkTypeOK,
     ReadArrived, Sessions
<1>2. UNCHANGED <<queue, sender, sendYield, obuf, running, hist, failed>>
  BY DEF SetSocket, ConnectionBreaks
<1>3. QED
  BY <1>1, <1>2 DEF Typed, TypeOK, SenderTypeOK, HistTypeOK, RestTypeOK, HasMessage,
     sender, hist

\* The kernel's side of a write and of a read.
LEMMA WriteStepTyped ==
  ASSUME Typed, NEW c \in Coroutines, WriteStep(c)
  PROVE  Typed'
<1>1. SenderTypeOK' /\ HasMessage'
  BY DEF WriteStep, WriteSome, WriteFails, Typed, TypeOK, SenderTypeOK, HasMessage, OpState
<1>2. wire' \in [Sessions -> Seq(Pieces)]
  <2>1. CASE WriteSome(c)
    <3>1. session \in Sessions
      BY <2>1 DEF WriteSome, Typed, TypeOK, LinkTypeOK
    <3>2. PICK k \in nw[c] + 1 .. Len(obuf) :
            wire' = [wire EXCEPT ![session] = @ \o SubSeq(obuf, nw[c] + 1, k)]
      BY <2>1 DEF WriteSome
    <3>3. nw[c] \in Nat /\ obuf \in Seq(Pieces) /\ wire[session] \in Seq(Pieces)
      BY <3>1 DEF Typed, TypeOK, SenderTypeOK, RestTypeOK, HistTypeOK
    <3>4. SubSeq(obuf, nw[c] + 1, k) \in Seq(Pieces)
      BY <3>2, <3>3
    <3>5. wire[session] \o SubSeq(obuf, nw[c] + 1, k) \in Seq(Pieces)
      BY <3>3, <3>4
    <3>6. QED
      BY <3>1, <3>2, <3>5 DEF Typed, TypeOK, HistTypeOK
  <2>2. CASE WriteFails(c)
    BY <2>2 DEF WriteFails, hist, Typed, TypeOK, HistTypeOK
  <2>3. QED
    BY <2>1, <2>2 DEF WriteStep
<1>3. UNCHANGED <<queue, sendYield, obuf, link, running, accepted, verdict, failed>>
  BY DEF WriteStep, WriteSome, WriteFails, hist
<1>4. QED
  BY <1>1, <1>2, <1>3 DEF Typed, TypeOK, LinkTypeOK, HistTypeOK, RestTypeOK, ReadArrived,
     link

LEMMA ReadTyped ==
  ASSUME Typed, ReadSome \/ ReadFails
  PROVE  Typed'
<1>1. reader' \in Reader /\ ReadArrived'
  <2>1. CASE ReadSome
    <3>1. PICK n \in 1 .. MaxIncoming - reader.arrived :
            reader' = [reader EXCEPT !.op = "done", !.ibuf = @ + n, !.arrived = @ + n]
      BY <2>1 DEF ReadSome
    <3>2. reader.ibuf + n \in Nat \ {0} /\ reader.arrived + n \in Nat
      BY ChannelAssumption DEF Typed, TypeOK, LinkTypeOK, Reader
    <3>3. reader' = [yield |-> reader.yield, op |-> "done", ibuf |-> reader.ibuf + n,
                     arrived |-> reader.arrived + n]
      BY <3>1 DEF Typed, TypeOK, LinkTypeOK, Reader
    <3>4. reader.yield \in BOOLEAN
      BY DEF Typed, TypeOK, LinkTypeOK, Reader
    <3>5. QED
      BY <3>2, <3>3, <3>4 DEF ReadArrived, Reader, OpState
  <2>2. CASE ReadFails
    BY <2>2 DEF ReadFails, Typed, TypeOK, LinkTypeOK, ReadArrived, Reader, OpState
  <2>3. QED
    BY <2>1, <2>2
<1>2. UNCHANGED <<queue, sender, sendYield, obuf, sock, session, running, hist, failed>>
  BY DEF ReadSome, ReadFails
<1>3. QED
  BY <1>1, <1>2 DEF Typed, TypeOK, SenderTypeOK, LinkTypeOK, HistTypeOK, RestTypeOK,
     HasMessage,
     sender, hist

\* doReceiveMessage keeps the types: it takes a message that has arrived.
LEMMA DeliverTyped ==
  ASSUME Typed, reader.ibuf > 0, Deliver
  PROVE  Typed'
<1>1. CASE PullsSender
  BY <1>1, FailTyped DEF Deliver, Failures
<1>2. CASE ~PullsSender
  <2>1. reader' \in Reader /\ ReadArrived'
    <3>1. reader.ibuf - 1 \in Nat
      BY DEF Typed, TypeOK, LinkTypeOK, Reader
    <3>2. reader' = [yield |-> FALSE, op |-> "none", ibuf |-> reader.ibuf - 1,
                     arrived |-> reader.arrived]
      BY <1>2 DEF Deliver, ReadEnded, Typed, TypeOK, LinkTypeOK, Reader
    <3>3. QED
      BY <3>1, <3>2 DEF Typed, TypeOK, LinkTypeOK, ReadArrived, Reader, OpState
  <2>2. /\ UNCHANGED <<queue, sender, sendYield, obuf, sock, session, hist, failed>>
        /\ running' = Receiver
    BY <1>2 DEF Deliver
  <2>3. QED
    BY <2>1, <2>2 DEF Typed, TypeOK, SenderTypeOK, LinkTypeOK, HistTypeOK, RestTypeOK,
       HasMessage,
       sender, hist
<1>3. QED
  BY <1>1, <1>2

LEMMA ReceiveStepTyped ==
  ASSUME Typed, ReceiveStep \/ StartReceive
  PROVE  Typed'
<1>1. CASE EndRead
  BY <1>1, DeliverTyped DEF EndRead, Typed, ReadArrived
<1>2. CASE EndReadFailed
  <2>1. reader' \in Reader /\ ReadArrived'
    BY <1>2 DEF EndReadFailed, ReadEnded, Typed, TypeOK, LinkTypeOK, ReadArrived, Reader,
       OpState
  <2>2. Closed \/ UNCHANGED <<sender, sock, sendYield>>
    BY <1>2 DEF EndReadFailed
  <2>3. /\ SenderTypeOK' /\ HasMessage' /\ sock' \in {sock, "none"}
        /\ sendYield' \in {sendYield, Idle}
    BY <2>2, ClosedTyped DEF Typed, TypeOK, SenderTypeOK, HasMessage, sender
  <2>4. UNCHANGED <<queue, obuf, session, running, hist, failed>>
    BY <1>2 DEF EndReadFailed
  <2>5. QED
    BY <2>1, <2>3, <2>4 DEF Typed, TypeOK, LinkTypeOK, HistTypeOK, RestTypeOK, hist
<1>3. CASE ReceiverReturned
  <2>1. CASE PullsSender
    BY <1>3, <2>1, FailTyped DEF ReceiverReturned, Failures
  <2>2. CASE ~PullsSender
    BY <1>3, <2>2 DEF ReceiverReturned, Typed, TypeOK, SenderTypeOK, LinkTypeOK, HistTypeOK,
       RestTypeOK, HasMessage, ReadArrived, sender, link, hist
  <2>3. QED
    BY <2>1, <2>2
<1>4. CASE StartReceive
  <2>1. CASE reader.yield
    BY <1>4, <2>1, FailTyped DEF StartReceive, Failures
  <2>2. CASE ~reader.yield /\ reader.ibuf > 0
    BY <1>4, <2>2, DeliverTyped DEF StartReceive
  <2>3. CASE ~reader.yield /\ ~(reader.ibuf > 0)
    <3>1. reader' \in Reader /\ ReadArrived'
      BY <1>4, <2>3 DEF StartReceive, Typed, TypeOK, LinkTypeOK, ReadArrived, Reader,
         OpState
    <3>2. UNCHANGED <<queue, sender, sendYield, obuf, sock, session, running, hist, failed>>
      BY <1>4, <2>3 DEF StartReceive
    <3>3. QED
      BY <3>1, <3>2 DEF Typed, TypeOK, SenderTypeOK, LinkTypeOK, HistTypeOK, RestTypeOK,
         HasMessage,
         sender, hist
  <2>4. QED
    BY <2>1, <2>2, <2>3
<1>5. QED
  BY <1>1, <1>2, <1>3, <1>4 DEF ReceiveStep

LEMMA NextTyped == Typed /\ [Next]_vars => Typed'
<1> SUFFICES ASSUME Typed, [Next]_vars PROVE Typed'
  OBVIOUS
<1>1. CASE UNCHANGED vars
  BY <1>1 DEF vars, sender, hist, Typed, TypeOK, SenderTypeOK, LinkTypeOK, HistTypeOK,
     RestTypeOK,
     HasMessage, ReadArrived
<1>2. ASSUME NEW m \in Messages, SendFromThread(m) PROVE Typed'
  BY <1>2, RefuseBusyTyped, PostTyped DEF SendFromThread
<1>3. ASSUME NEW m \in Messages, SendFromLoop(m) PROVE Typed'
  BY <1>3, RefuseBusyTyped, PostTyped, StartInlineTyped DEF SendFromLoop
<1>4. CASE ReceiveStep
  BY <1>4, ReceiveStepTyped
<1>5. ASSUME NEW c \in Coroutines, SendStep(c) \/ WriteStep(c) PROVE Typed'
  BY <1>5, SendStepTyped, WriteStepTyped
<1>6. QED
  BY <1>1, <1>2, <1>3, <1>4, <1>5, CloseTyped, SocketTyped, ReadTyped, ReceiveStepTyped
     DEF Next, Environment

(***************************************************************************)
(* The channel never leaves its types: in particular the queue never grows *)
(* beyond its limit, and a message answered twice is the only way a verdict*)
(* is given twice, whoever sends and whatever happens to the connection.   *)
(***************************************************************************)
THEOREM TypeCorrect == Spec => []TypeOK
<1>1. Typed => TypeOK
  BY DEF Typed
<1>2. QED
  BY <1>1, InitTyped, NextTyped, PTL DEF Spec

\* The steps that neither send nor belong to doSendMessage.
OtherStep ==
  \/ ReceiveStep \/ StartReceive \/ SetSocket \/ Close \/ ConnectionBreaks
  \/ ReadSome \/ ReadFails \/ \E c \in Coroutines : WriteStep(c)

LEMMA OtherStepLeaves ==
  ASSUME OtherStep
  PROVE  /\ UNCHANGED <<queue, pc, msg, accepted, verdict>>
         /\ sendYield' \in {sendYield, Idle}
         /\ running' = running \/ {running, running'} \subseteq {Idle, Receiver}
         /\ failed' = failed \/ failed' \in {"PullWhileRunning", "ReceiveYieldSet"}
<1> USE DEF Fail, sender, hist
<1>1. CASE ReceiveStep \/ StartReceive
  BY <1>1 DEF ReceiveStep, EndRead, EndReadFailed, ReceiverReturned, StartReceive, Deliver,
     Closed
<1>2. CASE SetSocket \/ Close \/ ConnectionBreaks \/ ReadSome \/ ReadFails
  BY <1>2 DEF SetSocket, Close, Closed, ConnectionBreaks, ReadSome, ReadFails
<1>3. CASE \E c \in Coroutines : WriteStep(c)
  BY <1>3 DEF WriteStep, WriteSome, WriteFails
<1>4. QED
  BY <1>1, <1>2, <1>3 DEF OtherStep

(***************************************************************************)
(* A queued message always has a coroutine on its way, with any number of  *)
(* sending threads: whoever finds the queue empty spawns one, and only an  *)
(* empty queue lets one go.                                                *)
(***************************************************************************)
LEMMA InitSenderForQueue == Init => SenderForQueue
  BY DEF Init, SenderForQueue

LEMMA NextSenderForQueue == Typed /\ SenderForQueue /\ [Next]_vars => SenderForQueue'
<1> SUFFICES ASSUME Typed, SenderForQueue, [Next]_vars,
                    failed' = "none", queue' # <<>>
             PROVE  \E d \in Coroutines : pc'[d] # "none"
  BY DEF SenderForQueue
<1>1. ASSUME UNCHANGED <<queue, pc, failed>> PROVE \E d \in Coroutines : pc'[d] # "none"
  BY <1>1 DEF SenderForQueue
<1>2. CASE UNCHANGED vars
  BY <1>1, <1>2 DEF vars, sender
<1>3. ASSUME NEW m \in Messages, SendFromThread(m) \/ SendFromLoop(m)
      PROVE  \E d \in Coroutines : pc'[d] # "none"
  <2>1. CASE RefuseBusy(m)
    BY <1>1, <2>1 DEF RefuseBusy, sender
  <2>2. CASE Post(m)
    <3>1. CASE queue = <<>>
      BY <2>2, <3>1 DEF Post, ShouldSpawn, Free, Typed, TypeOK, SenderTypeOK
    <3>2. CASE queue # <<>>
      <4>1. pc' = pc /\ failed = "none"
        BY <2>2, <3>2 DEF Post, ShouldSpawn
      <4>2. QED
        BY <3>2, <4>1 DEF SenderForQueue
    <3>3. QED
      BY <3>1, <3>2
  <2>3. CASE StartInline(m)
    <3>1. PICK c \in Free : StartWrite(c, m)
      BY <2>3 DEF StartInline, Fail
    <3>2. QED
      BY <3>1 DEF StartWrite, FirstWrite, Free, Typed, TypeOK, SenderTypeOK
  <2>4. QED
    BY <1>3, <2>1, <2>2, <2>3 DEF SendFromThread, SendFromLoop
<1>4. ASSUME NEW c \in Coroutines, SendStep(c) PROVE \E d \in Coroutines : pc'[d] # "none"
  <2>1. CASE FinishSend(c)
    BY <2>1 DEF FinishSend
  <2>2. CASE ~FinishSend(c)
    <3>1. pc'[c] # "none" \/ UNCHANGED <<queue, pc, failed>>
      BY <1>4, <2>2 DEF SendStep, BeginSend, RefuseFront, SerializeFront, StartWrite,
         FirstWrite,
         ContinueWrite, FlushRest, EndWrite, HandlerReturned, PopFront, Fail, Typed, TypeOK,
         SenderTypeOK
    <3>2. QED
      BY <1>1, <3>1
  <2>3. QED
    BY <2>1, <2>2
<1>5. CASE OtherStep
  BY <1>1, <1>5, OtherStepLeaves DEF Failures
<1>6. QED
  BY <1>2, <1>3, <1>4, <1>5 DEF Next, Environment, OtherStep

THEOREM NoLostWakeUp == Spec => []SenderForQueue
<1>1. Spec => []Typed
  BY InitTyped, NextTyped, PTL DEF Spec
<1>2. QED
  BY <1>1, InitSenderForQueue, NextSenderForQueue, PTL DEF Spec

(***************************************************************************)
(* When only callbacks of the run loop send, there is one doSendMessage at *)
(* a time: it is spawned into an empty queue, runs at once, and leaves the *)
(* queue empty only in the handler in which it ends.                       *)
(***************************************************************************)
OnlyLoopSends == LoopMessages = Messages

InLoop == {"check", "answered", "refused", "pop"}
Live   == {c \in Coroutines : pc[c] # "none"}
Alone ==
  /\ \A c, d \in Live : c = d
  /\ \A c \in Live : pc[c] = "check" \/ queue # <<>>
  /\ queue # <<>> => Live # {}
  /\ \A c \in Coroutines : pc[c] # "posted" /\ (pc[c] \in InLoop <=> running = c)
  /\ sendYield # Idle => sendYield \in Live
  /\ failed \notin {"SendYieldSet", "PopEmptyQueue"}

LEMMA InitAlone == Init => Alone
  BY ChannelAssumption DEF Init, Alone, Live, InLoop

\* Nobody but doSendMessage moves a coroutine or makes the loop run one.
LEMMA OthersAlone ==
  ASSUME Alone, UNCHANGED <<pc, queue>>, sendYield' \in {sendYield, Idle},
         running' = running \/ {running, running'} \subseteq {Idle, Receiver},
         failed' \notin {"SendYieldSet", "PopEmptyQueue"}
  PROVE  Alone'
  BY ChannelAssumption DEF Alone, Live, InLoop

LEMMA SendFromLoopAlone ==
  ASSUME Typed, Alone, failed = "none", NEW m \in Messages, SendFromLoop(m)
  PROVE  Alone'
<1>1. CASE RefuseBusy(m)
  BY <1>1, OthersAlone DEF RefuseBusy, sender, Alone
<1>2. CASE Post(m) /\ ~(ShouldSpawn /\ ~StrandBusy)
  <2>1. ~ShouldSpawn
    BY <1>2 DEF StrandBusy, Alone
  <2>2. UNCHANGED <<pc, sendYield, running, failed>>
    BY <1>2, <2>1 DEF Post
  <2>3. queue' # <<>> /\ queue # <<>>
    BY <1>2, <2>1 DEF Post, Enqueue, ShouldSpawn, Typed, TypeOK, RestTypeOK
  <2>4. QED
    BY <2>2, <2>3 DEF Alone, Live, InLoop
<1>3. CASE ShouldSpawn /\ StartInline(m)
  <2>1. Live = {}
    BY <1>3, ChannelAssumption DEF SendFromLoop, UserCode, ShouldSpawn, Alone, Live,
       InLoop, InHandler
  <2>2. sendYield = Idle
    BY <2>1 DEF Alone
  <2>3. CASE sock = "none"
    BY <1>3, <2>2, <2>3, OthersAlone DEF StartInline, Fail, sender
  <2>4. CASE sock # "none"
    <3>1. PICK c \in Free : Enqueue(m) /\ StartWrite(c, m) /\ sendYield' = c
                            /\ UNCHANGED <<running, failed>>
      BY <1>3, <2>2, <2>4 DEF StartInline
    <3>2. queue' # <<>>
      <4>1. queue \in Seq(Messages)
        BY DEF Typed, TypeOK, RestTypeOK
      <4>2. queue' = Append(queue, m)
        BY <3>1 DEF Enqueue
      <4>3. QED
        BY <4>1, <4>2
    <3>3. c \in Coroutines /\ pc' = [pc EXCEPT ![c] = FirstWrite(m)]
          /\ FirstWrite(m) \in {"overflow", "flush"}
      BY <3>1 DEF StartWrite, Free, FirstWrite
    <3>4. \A d \in Coroutines : pc[d] = "none" /\ running # d
      BY <2>1 DEF Live, Alone, InLoop
    <3>5. QED
      BY <3>1, <3>2, <3>3, <3>4 DEF Alone, Live, InLoop, Typed, TypeOK, SenderTypeOK
  <2>5. QED
    BY <2>3, <2>4
<1>4. QED
  BY <1>1, <1>2, <1>3 DEF SendFromLoop

LEMMA SendStepAlone ==
  ASSUME Typed, Alone, NEW c \in Coroutines, SendStep(c)
  PROVE  Alone'
<1> USE ChannelAssumption DEF Alone, Live, InLoop
<1>1. pc \in [Coroutines -> Places] /\ c # Idle /\ c # Receiver
  BY DEF Typed, TypeOK, SenderTypeOK
<1>2. CASE BeginSend(c)
  BY <1>2 DEF BeginSend
<1>3. CASE FinishSend(c)
  BY <1>1, <1>3 DEF FinishSend
<1>4. CASE RefuseFront(c)
  BY <1>1, <1>4 DEF RefuseFront
<1>5. CASE SerializeFront(c)
  BY <1>1, <1>5 DEF SerializeFront, StartWrite, FirstWrite, Fail, sender
<1>6. CASE ContinueWrite(c)
  BY <1>1, <1>6 DEF ContinueWrite, Fail, sender
<1>7. CASE FlushRest(c)
  BY <1>1, <1>7 DEF FlushRest
<1>8. CASE EndWrite(c)
  BY <1>1, <1>8 DEF EndWrite, Suspended
<1>9. CASE HandlerReturned(c)
  BY <1>1, <1>9 DEF HandlerReturned, InHandler
<1>10. CASE PopFront(c)
  BY <1>1, <1>10 DEF PopFront
<1>11. QED
  BY <1>2, <1>3, <1>4, <1>5, <1>6, <1>7, <1>8, <1>9, <1>10, SendStep(c) DEF SendStep

LEMMA NextAlone == OnlyLoopSends /\ Typed /\ Alone /\ [Next]_vars => Alone'
<1> SUFFICES ASSUME OnlyLoopSends, Typed, Alone, [Next]_vars PROVE Alone'
  OBVIOUS
<1>1. CASE UNCHANGED vars
  BY <1>1, OthersAlone DEF vars, sender, Alone
<1>2. ASSUME NEW m \in Messages, SendFromThread(m) PROVE Alone'
  BY <1>2 DEF SendFromThread, OnlyLoopSends
<1>3. ASSUME NEW m \in Messages, SendFromLoop(m), failed = "none" PROVE Alone'
  BY <1>3, SendFromLoopAlone
<1>4. ASSUME NEW c \in Coroutines, SendStep(c) PROVE Alone'
  BY <1>4, SendStepAlone
<1>5. CASE OtherStep
  BY <1>5, OtherStepLeaves, OthersAlone DEF Alone
<1>6. QED
  BY <1>1, <1>2, <1>3, <1>4, <1>5 DEF Next, Environment, OtherStep

\* doSendMessage's own assertion holds as long as only the loop sends: the
\* coroutine that finds m_SendYield set would be a second one.
THEOREM SenderIsAlone == OnlyLoopSends => (Spec => []SendYieldAssertion)
<1> SUFFICES ASSUME OnlyLoopSends PROVE Spec => []SendYieldAssertion
  OBVIOUS
<1>1. Alone => SendYieldAssertion
  BY DEF Alone, SendYieldAssertion
<1>2. Spec => []Typed
  BY InitTyped, NextTyped, PTL DEF Spec
<1>3. Typed /\ Alone /\ [Next]_vars => Alone'
  BY NextAlone
<1>4. QED
  BY <1>1, <1>2, <1>3, InitAlone, PTL DEF Spec

\* pop_front is never called on an empty queue as long as only the loop sends.
THEOREM PopsWhatItSent == OnlyLoopSends => (Spec => []PopAssertion)
<1> SUFFICES ASSUME OnlyLoopSends PROVE Spec => []PopAssertion
  OBVIOUS
<1>1. Alone => PopAssertion
  BY DEF Alone, PopAssertion
<1>2. Spec => []Typed
  BY InitTyped, NextTyped, PTL DEF Spec
<1>3. Typed /\ Alone /\ [Next]_vars => Alone'
  BY NextAlone
<1>4. QED
  BY <1>1, <1>2, <1>3, InitAlone, PTL DEF Spec

(***************************************************************************)
(* The queue is the end of the list of accepted messages.  All before it   *)
(* have been answered, its first one only between its handler and its pop, *)
(* and the others, like the one being written, not yet.                    *)
(***************************************************************************)
Handled == {"answered", "refused", "reflush", "pop"}
Left    == Len(accepted) - Len(queue)
Ledger ==
  /\ Left >= 0
  /\ \A i \in 1..Len(queue) : queue[i] = accepted[Left + i]
  /\ \A i, j \in 1..Len(accepted) : accepted[i] = accepted[j] => i = j
  /\ \A i \in 1..Left : verdict[accepted[i]] # "none"
  /\ \A i \in 2..Len(queue) : verdict[queue[i]] = "none"
  /\ queue # <<>> => (verdict[Front] # "none" <=> \E c \in Coroutines : pc[c] \in Handled)
  /\ \A c \in Coroutines : pc[c] \in Suspended \cup Handled => queue # <<>> /\ msg[c] = Front
  /\ OneAnswer

LEMMA InitLedger == Init => Ledger
  BY DEF Init, Ledger, Left, Handled, Suspended, OneAnswer

\* A step that leaves the ledger alone, and the sender on its side of the answer.
LEMMA SameLedger ==
  ASSUME Typed, Ledger, UNCHANGED <<queue, accepted, verdict>>,
         (\E c \in Coroutines : pc'[c] \in Handled) <=> (\E c \in Coroutines : pc[c] \in Handled),
         \A c \in Coroutines : pc'[c] \in Suspended \cup Handled => queue # <<>> /\ msg'[c] = Front
  PROVE  Ledger'
  BY DEF Ledger, Left, Front, OneAnswer

\* The handler of the front message is called for the first time.
LEMMA AnswerFront ==
  ASSUME Typed, Ledger, queue # <<>>, verdict[Front] = "none",
         NEW v \in Verdicts \ {"none", "twice"}, verdict' = Answered(Front, v),
         UNCHANGED <<queue, accepted>>,
         \E c \in Coroutines : pc'[c] \in Handled,
         \A c \in Coroutines : pc'[c] \in Suspended \cup Handled => msg'[c] = Front
  PROVE  Ledger'
<1>1. Len(queue) \in Nat /\ Len(accepted) \in Nat /\ Len(queue) > 0 /\ Front = queue[1]
  BY HeadAndTail DEF Typed, TypeOK, RestTypeOK, HistTypeOK, Front
<1>2. \A i \in 1..Len(queue) : queue[i] \in Messages
  BY DEF Typed, TypeOK, RestTypeOK
<1>3. \A m \in Messages : verdict'[m] = IF m = Front THEN v ELSE verdict[m]
  BY DEF Answered, Typed, TypeOK, HistTypeOK, Verdicts
<1>4. \A i \in 1..Len(accepted) : accepted[i] \in Messages
  BY DEF Typed, TypeOK, HistTypeOK
<1>. DEFINE L == Left
<1>a. L \in Nat /\ L + Len(queue) = Len(accepted) /\ \A i \in 1..Len(queue) : queue[i] = accepted[L + i]
  BY <1>1 DEF Ledger, Left
<1>b. \A i, j \in 1..Len(accepted) : accepted[i] = accepted[j] => i = j
  BY DEF Ledger
<1>c. \A i \in 1..L : verdict[accepted[i]] # "none"
  BY DEF Ledger
<1>. HIDE DEF L
<1>5. \A i \in 2..Len(queue) : queue[i] # Front
  <2> TAKE i \in 2..Len(queue)
  <2>1. L + i \in 1..Len(accepted) /\ L + 1 \in 1..Len(accepted) /\ L + i # L + 1
    BY <1>1, <1>a
  <2>2. queue[i] = accepted[L + i] /\ Front = accepted[L + 1]
    BY <1>1, <1>a
  <2>3. QED
    BY <2>1, <2>2, <1>b
<1>6. \A i \in 2..Len(queue) : verdict'[queue[i]] = "none"
  BY <1>1, <1>2, <1>3, <1>5 DEF Ledger
<1>7. \A i \in 1..Left : verdict'[accepted[i]] # "none"
  <2>1. \A i \in 1..L : i \in 1..Len(accepted)
    BY <1>1, <1>a
  <2>2. QED
    BY <2>1, <1>3, <1>4, <1>c DEF L, Verdicts
<1>8. verdict'[Front] # "none" /\ Front' = Front /\ Left' = Left
  BY <1>1, <1>2, <1>3 DEF Front, Left
<1>9. OneAnswer'
  BY <1>3 DEF Ledger, OneAnswer
<1>10. QED
  BY <1>6, <1>7, <1>8, <1>9 DEF Ledger

\* A new message goes to the end of the queue and of the list.
LEMMA EnqueueLedger ==
  ASSUME Typed, Ledger, NEW m \in Messages, Unsent(m), Enqueue(m), verdict' = verdict,
         queue # <<>> => UNCHANGED <<pc, msg>>,
         queue = <<>> => \A c \in Coroutines :
           pc'[c] \notin Handled /\ (pc'[c] \in Suspended => msg'[c] = m)
  PROVE  Ledger'
<1>1. /\ queue \in Seq(Messages) /\ accepted \in Seq(Messages)
      /\ Len(queue) \in Nat /\ Len(accepted) \in Nat
  BY DEF Typed, TypeOK, RestTypeOK, HistTypeOK
<1>2. /\ queue' = Append(queue, m) /\ accepted' = Append(accepted, m)
      /\ Len(queue') = Len(queue) + 1 /\ Len(accepted') = Len(accepted) + 1
  BY <1>1 DEF Enqueue
<1>3. Left' = Left /\ Left \in Nat /\ Left + Len(queue) = Len(accepted)
  BY <1>1, <1>2 DEF Left, Ledger
<1>4. /\ \A i \in 1..Len(queue) : queue'[i] = queue[i]
      /\ \A i \in 1..Len(accepted) : accepted'[i] = accepted[i]
      /\ queue'[Len(queue) + 1] = m /\ accepted'[Len(accepted) + 1] = m
  BY <1>1, <1>2
<1>5. \A i \in 1..Len(queue') : queue'[i] = accepted'[Left + i]
  <2> TAKE i \in 1..Len(queue')
  <2>1. CASE i \in 1..Len(queue)
    <3>1. Left + i \in 1..Len(accepted)
      BY <1>1, <1>3, <2>1
    <3>2. QED
      BY <1>4, <2>1, <3>1 DEF Ledger
  <2>2. CASE i = Len(queue) + 1
    <3>1. Left + i = Len(accepted) + 1
      BY <1>1, <1>3, <2>2
    <3>2. QED
      BY <1>4, <2>2, <3>1
  <2>3. i \in 1..Len(queue) + 1
    BY <1>2
  <2>4. i \in 1..Len(queue) \/ i = Len(queue) + 1
    BY <1>1, <2>3
  <2>5. QED
    BY <2>1, <2>2, <2>4
<1>6. \A i, j \in 1..Len(accepted') : accepted'[i] = accepted'[j] => i = j
  BY <1>1, <1>2, <1>4 DEF Unsent, Ledger
<1>7. \A i \in 1..Left' : verdict'[accepted'[i]] # "none"
  <2>1. \A i \in 1..Left : i \in 1..Len(accepted)
    BY <1>1, <1>3
  <2>2. QED
    BY <1>3, <1>4, <2>1 DEF Ledger
<1>8. \A i \in 2..Len(queue') : verdict'[queue'[i]] = "none"
  BY <1>1, <1>2, <1>4 DEF Unsent, Ledger
<1>9. CASE queue # <<>>
  <2>1. queue' # <<>> /\ Front' = Front
    BY <1>1, <1>2, <1>9 DEF Front
  <2>2. QED
    BY <1>3, <1>5, <1>6, <1>7, <1>8, <1>9, <2>1 DEF OneAnswer, Ledger
<1>10. CASE queue = <<>>
  <2>1. queue' # <<>> /\ Front' = m /\ verdict[m] = "none"
    BY <1>1, <1>2, <1>10 DEF Front, Unsent
  <2>2. \A c \in Coroutines : pc'[c] \in Suspended \cup Handled => msg'[c] = m
    BY <1>10
  <2>3. QED
    BY <1>3, <1>5, <1>6, <1>7, <1>8, <1>10, <2>1, <2>2 DEF OneAnswer, Ledger
<1>11. QED
  BY <1>9, <1>10

\* The answered message leaves the queue.
LEMMA PopLedger ==
  ASSUME Typed, Ledger, queue # <<>>, verdict[Front] # "none",
         queue' = Tail(queue), UNCHANGED <<accepted, verdict>>,
         \A c \in Coroutines : pc'[c] \notin Suspended \cup Handled
  PROVE  Ledger'
<1> USE DEF Ledger
<1>1. /\ queue \in Seq(Messages) /\ Len(queue) \in Nat /\ Len(accepted) \in Nat
      /\ Len(queue) > 0 /\ Front = queue[1] /\ Len(queue') = Len(queue) - 1
  BY HeadAndTail DEF Typed, TypeOK, RestTypeOK, HistTypeOK, Front
<1>2. \A i \in 1..Len(queue') : queue'[i] = queue[i + 1]
  BY <1>1
<1>3. Left' = Left + 1 /\ Left \in Nat /\ accepted[Left + 1] = Front
  BY <1>1 DEF Left
<1>4. \A i \in 1..Len(queue') : queue'[i] = accepted'[Left' + i]
  BY <1>1, <1>2, <1>3
<1>5. \A i \in 1..Left' : verdict'[accepted'[i]] # "none"
  <2> TAKE i \in 1..Left'
  <2>1. i \in 1..Left \/ i = Left + 1
    BY <1>3
  <2>2. QED
    BY <1>3, <2>1
<1>6. \A i \in 1..Len(queue') : verdict'[queue'[i]] = "none"
  BY <1>1, <1>2
<1>7. queue' # <<>> => verdict'[Front'] = "none"
  <2> SUFFICES ASSUME queue' # <<>> PROVE verdict'[Front'] = "none"
    OBVIOUS
  <2>1. queue' \in Seq(Messages)
    BY <1>1
  <2>2. Len(queue') > 0 /\ Front' = queue'[1]
    BY <2>1, HeadAndTail DEF Front
  <2>3. QED
    BY <1>6, <2>1, <2>2
<1>8. QED
  BY <1>1, <1>3, <1>4, <1>5, <1>6, <1>7 DEF OneAnswer

LEMMA SendFromLoopLedger ==
  ASSUME Typed, Alone, Ledger, NEW m \in Messages, SendFromLoop(m)
  PROVE  Ledger'
<1>1. CASE RefuseBusy(m)
  <2>1. verdict' = [verdict EXCEPT ![m] = "DeviceBusy"]
    BY <1>1 DEF RefuseBusy, SendFromLoop, Unsent, Answered, Typed, TypeOK, HistTypeOK
  <2>2. UNCHANGED <<queue, accepted, pc, msg>>
    BY <1>1 DEF RefuseBusy, sender
  <2>3. \A i \in 1..Len(accepted) : accepted[i] \in Messages /\ verdict'[accepted[i]] = verdict[accepted[i]]
    BY <2>1 DEF SendFromLoop, Unsent, Typed, TypeOK, HistTypeOK
  <2>4. \A i \in 1..Len(queue) : verdict'[queue[i]] = verdict[queue[i]]
    <3> TAKE i \in 1..Len(queue)
    <3>1. /\ Len(queue) \in Nat /\ Len(accepted) \in Nat
          /\ Left >= 0 /\ Left = Len(accepted) - Len(queue) /\ queue[i] = accepted[Left + i]
      BY DEF Ledger, Left, Typed, TypeOK, RestTypeOK, HistTypeOK
    <3>2. Left + i \in 1..Len(accepted)
      BY <3>1
    <3>3. QED
      BY <2>3, <3>1, <3>2
  <2>5. \A i \in 1..Left : verdict'[accepted[i]] # "none"
    <3> TAKE i \in 1..Left
    <3>1. i \in 1..Len(accepted)
      BY DEF Left, Typed, TypeOK, RestTypeOK, HistTypeOK
    <3>2. QED
      BY <2>3, <3>1 DEF Ledger
  <2>6. queue # <<>> => verdict'[Front] = verdict[Front]
    BY <2>4, HeadAndTail DEF Front, Typed, TypeOK, RestTypeOK
  <2>7. OneAnswer'
    BY <2>1 DEF Ledger, OneAnswer, Typed, TypeOK, HistTypeOK
  <2>8. \A i \in 2..Len(queue) : verdict'[queue[i]] = "none"
    BY <2>4 DEF Ledger, Typed, TypeOK, RestTypeOK
  <2>9. QED
    BY <2>2, <2>5, <2>6, <2>7, <2>8 DEF Ledger, Left, Front
<1>2. CASE Post(m) /\ ~(ShouldSpawn /\ ~StrandBusy)
  <2>1. queue # <<>>
    BY <1>2 DEF StrandBusy, Alone, ShouldSpawn
  <2>2. Enqueue(m) /\ Unsent(m) /\ UNCHANGED <<verdict, pc, msg>>
    BY <1>2, <2>1 DEF Post, SendFromLoop, ShouldSpawn
  <2>3. QED
    BY <2>1, <2>2, EnqueueLedger
<1>3. CASE ShouldSpawn /\ StartInline(m)
  <2>1. CASE UNCHANGED <<queue, accepted, verdict, pc, msg>>
    BY <2>1, SameLedger DEF Ledger
  <2>2. CASE \E c \in Free : Enqueue(m) /\ StartWrite(c, m) /\ verdict' = verdict
    <3>1. Live = {}
      BY <1>3, ChannelAssumption DEF SendFromLoop, UserCode, ShouldSpawn, Alone, Live,
         InLoop, InHandler
    <3>2. PICK c \in Free : Enqueue(m) /\ StartWrite(c, m) /\ verdict' = verdict
      BY <2>2
    <3>3. \A d \in Coroutines : pc[d] = "none"
      BY <3>1 DEF Live
    <3>4. \A d \in Coroutines :
            pc'[d] \notin Handled /\ (pc'[d] \in Suspended => msg'[d] = m)
      BY <3>2, <3>3 DEF StartWrite, FirstWrite, Handled, Suspended, Typed, TypeOK,
         SenderTypeOK
    <3>5. QED
      BY <1>3, <3>2, <3>4, EnqueueLedger DEF ShouldSpawn, SendFromLoop
  <2>3. QED
    BY <1>3, <2>1, <2>2 DEF StartInline, Fail, hist, sender
<1>4. QED
  BY <1>1, <1>2, <1>3 DEF SendFromLoop

LEMMA SendStepLedger ==
  ASSUME Typed, Alone, Ledger, NEW c \in Coroutines, SendStep(c)
  PROVE  Ledger'
<1> DEFINE Around(d) == d # c => pc[d] \notin Suspended \cup Handled
<1>1. pc \in [Coroutines -> Places] /\ msg \in [Coroutines -> Messages \cup {Idle}]
  BY DEF Typed, TypeOK, SenderTypeOK
<1>2. pc[c] # "none" => \A d \in Coroutines : Around(d)
  BY DEF Alone, Live, Suspended, Handled
<1>3. /\ pc[c] \in Suspended \cup Handled => queue # <<>> /\ msg[c] = Front
      /\ queue # <<>> /\ pc[c] # "none" => (verdict[Front] # "none" <=> pc[c] \in Handled)
  BY <1>2 DEF Ledger, Suspended, Handled
<1>4. ASSUME UNCHANGED <<queue, accepted, verdict, pc, msg>> PROVE Ledger'
  BY <1>4, SameLedger DEF Ledger
<1>5. ASSUME pc[c] # "none", UNCHANGED <<queue, accepted, verdict>>, NEW p,
             pc' = [pc EXCEPT ![c] = p], p \in Handled <=> pc[c] \in Handled,
             p \in Suspended \cup Handled => queue # <<>> /\ msg'[c] = Front
      PROVE  Ledger'
  <2>1. \A d \in Coroutines : pc'[d] = IF d = c THEN p ELSE pc[d]
    BY <1>1, <1>5
  <2>2. QED
    BY <1>2, <1>5, <2>1, SameLedger
<1>6. ASSUME pc[c] # "none", UNCHANGED <<queue, accepted>>, queue # <<>>,
             pc[c] \notin Handled, msg'[c] = Front, NEW p \in Handled, pc' = [pc EXCEPT ![c] = p],
             NEW v \in Verdicts \ {"none", "twice"}, verdict' = Answered(Front, v)
      PROVE  Ledger'
  <2>1. \A d \in Coroutines : pc'[d] = IF d = c THEN p ELSE pc[d]
    BY <1>1, <1>6
  <2>2. verdict[Front] = "none"
    BY <1>3, <1>6
  <2>3. /\ \E d \in Coroutines : pc'[d] \in Handled
        /\ \A d \in Coroutines : pc'[d] \in Suspended \cup Handled => msg'[d] = Front
    BY <1>2, <1>6, <2>1
  <2>4. QED
    BY <1>6, <2>2, <2>3, AnswerFront
<1>7. CASE BeginSend(c)
  BY <1>7 DEF BeginSend, Alone
<1>8. CASE FinishSend(c)
  BY <1>1, <1>5, <1>8 DEF FinishSend, Handled, Suspended, hist
<1>9. CASE RefuseFront(c)
  BY <1>1, <1>6, <1>9 DEF RefuseFront, Handled, Verdicts
<1>10. CASE SerializeFront(c)
  BY <1>1, <1>4, <1>5, <1>10 DEF SerializeFront, StartWrite, FirstWrite, Fail, sender,
     hist, Handled, Suspended
<1>11. CASE ContinueWrite(c)
  BY <1>4, <1>11 DEF ContinueWrite, Fail, sender, hist
<1>12. CASE FlushRest(c)
  BY <1>1, <1>3, <1>5, <1>6, <1>12 DEF FlushRest, Handled, Suspended, Verdicts
<1>13. CASE EndWrite(c)
  <2>1. CASE pc[c] = "reflush"
    BY <1>1, <1>3, <1>5, <1>13, <2>1 DEF EndWrite, WriteVerdict, Handled, Suspended
  <2>2. CASE pc[c] \in {"overflow", "flush"}
    <3>1. /\ queue # <<>> /\ msg'[c] = Front /\ pc' = [pc EXCEPT ![c] = "answered"]
          /\ UNCHANGED <<queue, accepted>>
      BY <1>1, <1>3, <1>13, <2>2 DEF EndWrite, Suspended
    <3>2. \E v \in Verdicts \ {"none", "twice"} : verdict' = Answered(Front, v)
      BY <1>3, <1>13, <2>2 DEF EndWrite, WriteVerdict, Verdicts, Suspended
    <3>3. QED
      BY <1>6, <2>2, <3>1, <3>2 DEF Handled
  <2>3. QED
    BY <1>13, <2>1, <2>2 DEF EndWrite, Suspended
<1>14. CASE HandlerReturned(c)
  BY <1>1, <1>3, <1>4, <1>5, <1>14 DEF HandlerReturned, InHandler, Handled, Suspended, hist
<1>15. CASE PopFront(c)
  <2>1. pc[c] = "pop" /\ queue # <<>> /\ verdict[Front] # "none"
    BY <1>3, <1>15 DEF PopFront, Handled
  <2>2. queue' = Tail(queue) /\ UNCHANGED <<accepted, verdict>> /\ pc' = [pc EXCEPT ![c] = "check"]
    BY <1>15, <2>1 DEF PopFront, hist
  <2>3. \A d \in Coroutines : pc'[d] \notin Suspended \cup Handled
    BY <1>1, <1>2, <2>1, <2>2 DEF Suspended, Handled
  <2>4. QED
    BY <2>1, <2>2, <2>3, PopLedger
<1>16. QED
  BY <1>7, <1>8, <1>9, <1>10, <1>11, <1>12, <1>13, <1>14, <1>15, SendStep(c) DEF SendStep

LEMMA NextLedger == OnlyLoopSends /\ Typed /\ Alone /\ Ledger /\ [Next]_vars => Ledger'
<1> SUFFICES ASSUME OnlyLoopSends, Typed, Alone, Ledger, [Next]_vars PROVE Ledger'
  OBVIOUS
<1>1. CASE UNCHANGED vars
  BY <1>1, SameLedger DEF vars, sender, hist, Ledger
<1>2. ASSUME NEW m \in Messages, SendFromThread(m) \/ SendFromLoop(m) PROVE Ledger'
  BY <1>2, SendFromLoopLedger DEF SendFromThread, OnlyLoopSends
<1>3. ASSUME NEW c \in Coroutines, SendStep(c) PROVE Ledger'
  BY <1>3, SendStepLedger
<1>4. CASE OtherStep
  BY <1>4, OtherStepLeaves, SameLedger DEF Ledger
<1>5. QED
  BY <1>1, <1>2, <1>3, <1>4 DEF Next, Environment, OtherStep

\* What the ledger says of the handlers.
LEMMA LedgerAnswers == Typed /\ Ledger => OneAnswer /\ AnsweredInOrder /\ NoneForgotten
<1> SUFFICES ASSUME Typed, Ledger PROVE OneAnswer /\ AnsweredInOrder /\ NoneForgotten
  OBVIOUS
<1>1. /\ Len(queue) \in Nat /\ Len(accepted) \in Nat /\ Left \in Nat
      /\ Left + Len(queue) = Len(accepted)
  BY DEF Ledger, Left, Typed, TypeOK, RestTypeOK, HistTypeOK
<1>2. \A i \in 1..Len(accepted) : i > Left => i - Left \in 1..Len(queue) /\ queue[i - Left] = accepted[i]
  <2> SUFFICES ASSUME NEW i \in 1..Len(accepted), i > Left
               PROVE  i - Left \in 1..Len(queue) /\ queue[i - Left] = accepted[i]
    OBVIOUS
  <2>1. i - Left \in 1..Len(queue) /\ Left + (i - Left) = i
    BY <1>1
  <2>2. QED
    BY <2>1 DEF Ledger
<1>3. \A i \in 1..Len(accepted) : i <= Left => verdict[accepted[i]] # "none"
  BY <1>1 DEF Ledger
<1>4. \A i \in 1..Len(accepted) : i > Left + 1 => verdict[accepted[i]] = "none"
  <2> SUFFICES ASSUME NEW i \in 1..Len(accepted), i > Left + 1 PROVE verdict[accepted[i]] = "none"
    OBVIOUS
  <2>1. i - Left \in 2..Len(queue) /\ queue[i - Left] = accepted[i]
    BY <1>1, <1>2
  <2>2. QED
    BY <2>1 DEF Ledger
<1>5. NoneForgotten
  <2> SUFFICES ASSUME NEW i \in 1..Len(accepted), verdict[accepted[i]] = "none"
               PROVE  \E j \in 1..Len(queue) : queue[j] = accepted[i]
    BY DEF NoneForgotten
  <2>1. i > Left
    BY <1>1, <1>3
  <2>2. QED
    BY <1>2, <2>1
<1>6. AnsweredInOrder
  <2> SUFFICES ASSUME NEW i \in 1..Len(accepted), NEW j \in 1..Len(accepted), i < j,
                      verdict[accepted[j]] # "none"
               PROVE  verdict[accepted[i]] # "none"
    BY DEF AnsweredInOrder
  <2>1. j <= Left + 1
    BY <1>1, <1>4
  <2>2. i <= Left
    BY <1>1, <2>1
  <2>3. QED
    BY <1>3, <2>2
<1>7. QED
  BY <1>5, <1>6 DEF Ledger

(***************************************************************************)
(* As long as only the loop sends, doSendMessage calls every handler once  *)
(* and in the order of the calls, and forgets none, whatever breaks, closes*)
(* and reopens the connection and however large the messages are.          *)
(***************************************************************************)
THEOREM EachAnsweredOnceInOrder ==
  OnlyLoopSends => (Spec => [](OneAnswer /\ AnsweredInOrder /\ NoneForgotten))
<1> SUFFICES ASSUME OnlyLoopSends
             PROVE  Spec => [](OneAnswer /\ AnsweredInOrder /\ NoneForgotten)
  OBVIOUS
<1>1. Spec => []Typed
  BY InitTyped, NextTyped, PTL DEF Spec
<1>2. Init => Alone /\ Ledger
  BY InitAlone, InitLedger
<1>3. Typed /\ Alone /\ Ledger /\ [Next]_vars => Alone' /\ Ledger'
  BY NextAlone, NextLedger
<1>4. Typed /\ Ledger => OneAnswer /\ AnsweredInOrder /\ NoneForgotten
  BY LedgerAnswers
<1>5. QED
  BY <1>1, <1>2, <1>3, <1>4, PTL DEF Spec

-----------------------------------------------------------------------------
(***************************************************************************)
(* A channel implements Outbox, for any messages and sizes, as long as     *)
(* only the loop sends: what the callers of asyncSendMessage are promised. *)
(***************************************************************************)
\* What the ledger says of the queue's messages.
LEMMA QueueFacts ==
  ASSUME Typed, Ledger
  PROVE  /\ queue \in Seq(Messages) /\ Len(queue) \in Nat /\ Len(queue) <= QueueLimit
         /\ queue # <<>> => /\ Len(queue) > 0 /\ Front = queue[1] /\ Front \in Messages
                            /\ Tail(queue) \in Seq(Messages) /\ Len(Tail(queue)) = Len(queue) - 1
                            /\ \A i \in 1..Len(queue) - 1 : Tail(queue)[i] = queue[i + 1]
         /\ \A m \in Messages : Unsent(m) => \A i \in 1..Len(queue) : queue[i] # m
<1>1. queue \in Seq(Messages) /\ Len(queue) \in Nat /\ Len(queue) <= QueueLimit
  BY DEF Typed, TypeOK, RestTypeOK
<1>2. ASSUME queue # <<>>
      PROVE  /\ Len(queue) > 0 /\ Front = queue[1] /\ Front \in Messages
             /\ Tail(queue) \in Seq(Messages) /\ Len(Tail(queue)) = Len(queue) - 1
             /\ \A i \in 1..Len(queue) - 1 : Tail(queue)[i] = queue[i + 1]
  BY <1>1, <1>2, HeadAndTail DEF Front
<1>3. ASSUME NEW m \in Messages, Unsent(m), NEW i \in 1..Len(queue)
      PROVE  queue[i] # m
  <2>1. /\ Len(accepted) \in Nat /\ Left >= 0 /\ Left = Len(accepted) - Len(queue)
        /\ queue[i] = accepted[Left + i]
    BY DEF Ledger, Left, Typed, TypeOK, HistTypeOK
  <2>2. Left + i \in 1..Len(accepted)
    BY <1>1, <2>1
  <2> QED BY <2>1, <2>2, <1>3 DEF Unsent
<1> QED BY <1>1, <1>2, <1>3

\* What waits is the queue, without its first message once that is answered.
LEMMA WaitingFacts ==
  ASSUME Typed, Ledger
  PROVE  /\ Waiting \in Seq(Messages)
         /\ Len(Waiting) \in Nat /\ Len(Waiting) <= Len(queue) /\ Len(queue) <= Len(Waiting) + 1
         /\ \A m \in Messages : Unsent(m) => \A i \in 1..Len(Waiting) : Waiting[i] # m
<1>1. CASE queue # <<>> /\ verdict[Front] # "none"
  <2>1. Waiting = Tail(queue)
    BY <1>1 DEF Waiting
  <2>2. \A i \in 1..Len(Waiting) : i + 1 \in 1..Len(queue) /\ Waiting[i] = queue[i + 1]
    BY <1>1, <2>1, QueueFacts
  <2> QED BY <1>1, <2>1, <2>2, QueueFacts
<1>2. CASE ~(queue # <<>> /\ verdict[Front] # "none")
  <2>1. Waiting = queue
    BY <1>2 DEF Waiting
  <2> QED BY <2>1, QueueFacts
<1> QED BY <1>1, <1>2

LEMMA Silent ==
  ASSUME UNCHANGED <<queue, verdict>>
  PROVE  UNCHANGED Box!vars
<1> QED BY DEF Waiting, Front, Box!vars

\* A message that is queued is accepted.
LEMMA EnqueueAccepts ==
  ASSUME Typed, Ledger, NEW m \in Messages, Unsent(m), Enqueue(m), verdict' = verdict
  PROVE  Box!Accept(m)
<1>1. /\ queue \in Seq(Messages) /\ queue' = Append(queue, m) /\ Len(queue) < QueueLimit
      /\ verdict[m] = "none" /\ QueueLimit \in Nat
  BY QueueFacts, ChannelAssumption DEF Enqueue, Unsent
<1>2. Waiting' = Append(Waiting, m)
  <2>1. CASE queue = <<>>
    <3>1. queue' = <<m>> /\ queue' # <<>> /\ Head(queue') = m
      BY <1>1, <2>1
    <3>2. Waiting = <<>> /\ Waiting' = <<m>>
      BY <1>1, <2>1, <3>1 DEF Waiting, Front
    <3> QED BY <3>2
  <2>2. CASE queue # <<>>
    <3>1. queue' # <<>> /\ Head(queue') = Head(queue) /\ Tail(queue') = Append(Tail(queue), m)
      BY <1>1, <2>2
    <3> QED BY <1>1, <2>2, <3>1 DEF Waiting, Front
  <2> QED BY <2>1, <2>2
<1>3. Box!New(m)
  BY <1>1, WaitingFacts DEF Box!New
<1>4. Len(Waiting) < QueueLimit
  BY <1>1, WaitingFacts, QueueFacts
<1> QED BY <1>2, <1>3, <1>4 DEF Box!Accept

\* A busy channel refuses, also when the message being answered has its place.
LEMMA BusyRefuses ==
  ASSUME Typed, Ledger, NEW m \in Messages, Unsent(m), RefuseBusy(m)
  PROVE  Box!Refuse(m)
<1>1. verdict' = [verdict EXCEPT ![m] = "DeviceBusy"] /\ queue' = queue
  BY DEF RefuseBusy, Unsent, Answered, Typed, TypeOK, HistTypeOK
<1>2. queue # <<>> => verdict'[Front] = verdict[Front]
  BY <1>1, QueueFacts DEF Typed, TypeOK, HistTypeOK
<1>3. Waiting' = Waiting
  BY <1>1, <1>2 DEF Waiting, Front
<1>4. Box!New(m)
  BY WaitingFacts DEF Box!New, Unsent
<1>5. Len(Waiting) + 1 >= QueueLimit
  BY WaitingFacts DEF RefuseBusy
<1> QED BY <1>1, <1>3, <1>4, <1>5 DEF Box!Refuse

\* The handler of the front message is called.
LEMMA FrontAnswered ==
  ASSUME Typed, Ledger, queue # <<>>, verdict[Front] = "none", queue' = queue,
         NEW v \in Box!Reasons, verdict' = Answered(Front, v)
  PROVE  Box!Answer(v)
<1>1. Waiting = queue
  BY DEF Waiting
<1>2. Front \in Messages
  BY QueueFacts
<1>3. verdict' = [verdict EXCEPT ![Front] = v] /\ verdict'[Front] # "none"
  BY <1>2 DEF Answered, Typed, TypeOK, HistTypeOK, Box!Reasons
<1>4. Waiting' = Tail(queue)
  BY <1>3 DEF Waiting, Front
<1> QED BY <1>1, <1>3, <1>4 DEF Box!Answer, Front

\* The answered message leaves the queue.
LEMMA PopIsSilent ==
  ASSUME Typed, Ledger, queue # <<>>, verdict[Front] # "none", queue' = Tail(queue),
         verdict' = verdict
  PROVE  UNCHANGED Box!vars
<1>1. Waiting = queue'
  BY DEF Waiting
<1>2. queue' # <<>> => verdict'[Head(queue')] = "none"
  <2> SUFFICES ASSUME queue' # <<>> PROVE verdict[Head(queue')] = "none"
    OBVIOUS
  <2>1. Len(queue') > 0 /\ Head(queue') = queue'[1]
    BY QueueFacts, HeadAndTail
  <2>2. 2 \in 2..Len(queue) /\ Head(queue') = queue[2]
    BY <2>1, QueueFacts
  <2> QED BY <2>2 DEF Ledger
<1>3. Waiting' = queue'
  BY <1>2 DEF Waiting, Front
<1> QED BY <1>1, <1>3 DEF Box!vars

LEMMA SendFromLoopOutbox ==
  ASSUME Typed, Alone, Ledger, NEW m \in Messages, SendFromLoop(m)
  PROVE  [Box!Next]_Box!vars
<1>1. Unsent(m)
  BY DEF SendFromLoop
<1>2. CASE RefuseBusy(m)
  BY <1>1, <1>2, BusyRefuses DEF Box!Next
<1>3. CASE Enqueue(m) /\ verdict' = verdict
  BY <1>1, <1>3, EnqueueAccepts DEF Box!Next
<1>4. CASE UNCHANGED <<queue, verdict>>
  BY <1>4, Silent
<1> QED BY <1>2, <1>3, <1>4 DEF SendFromLoop, Post, StartInline, Fail, hist

LEMMA SendStepOutbox ==
  ASSUME Typed, Alone, Ledger, NEW c \in Coroutines, SendStep(c)
  PROVE  [Box!Next]_Box!vars
<1>1. /\ pc[c] \in Suspended \cup Handled => queue # <<>> /\ msg[c] = Front
      /\ queue # <<>> /\ pc[c] # "none" => (verdict[Front] # "none" <=> pc[c] \in Handled)
  <2>1. pc[c] # "none" => \A d \in Coroutines : d # c => pc[d] \notin Handled
    BY DEF Alone, Live, Handled
  <2> QED BY <2>1 DEF Ledger, Handled
<1>2. ASSUME queue # <<>>, pc[c] # "none", pc[c] \notin Handled, queue' = queue,
             NEW v \in {"NoError", "ioError", "NotOpened"}, verdict' = Answered(Front, v)
      PROVE  [Box!Next]_Box!vars
  <2>1. verdict[Front] = "none" /\ v \in Box!Reasons
    BY <1>1, <1>2 DEF Box!Reasons
  <2> QED BY <1>2, <2>1, FrontAnswered DEF Box!Next
<1>3. ASSUME UNCHANGED <<queue, verdict>> PROVE [Box!Next]_Box!vars
  BY <1>3, Silent
<1>4. CASE BeginSend(c) \/ FinishSend(c) \/ SerializeFront(c) \/ ContinueWrite(c) \/ HandlerReturned(c)
  BY <1>3, <1>4 DEF BeginSend, FinishSend, SerializeFront, ContinueWrite, HandlerReturned, Fail,
     hist
<1>5. CASE RefuseFront(c)
  BY <1>2, <1>5 DEF RefuseFront, Handled
<1>6. CASE FlushRest(c)
  BY <1>1, <1>2, <1>3, <1>6 DEF FlushRest, Handled, Suspended
<1>7. CASE EndWrite(c)
  <2>1. CASE pc[c] = "reflush"
    BY <1>3, <1>7, <2>1 DEF EndWrite, WriteVerdict
  <2>2. CASE pc[c] \in {"overflow", "flush"}
    <3>1. queue # <<>> /\ msg[c] = Front /\ pc[c] \notin Handled /\ queue' = queue
      BY <1>1, <1>7, <2>2 DEF EndWrite, Suspended, Handled
    <3>2. verdict' = Answered(Front, IF pc[c] = "overflow" THEN "ioError" ELSE "NoError")
      BY <1>7, <2>2, <3>1 DEF EndWrite, WriteVerdict
    <3> QED BY <1>2, <2>2, <3>1, <3>2
  <2> QED BY <1>7, <2>1, <2>2 DEF EndWrite, Suspended
<1>8. CASE PopFront(c)
  <2>1. CASE queue = <<>>
    BY <1>3, <1>8, <2>1 DEF PopFront, Fail, hist
  <2>2. CASE queue # <<>>
    <3>1. verdict[Front] # "none" /\ queue' = Tail(queue) /\ verdict' = verdict
      BY <1>1, <1>8, <2>2 DEF PopFront, Handled, hist
    <3> QED BY <2>2, <3>1, PopIsSilent
  <2> QED BY <2>1, <2>2
<1> QED BY <1>4, <1>5, <1>6, <1>7, <1>8, SendStep(c) DEF SendStep

LEMMA NextOutbox ==
  OnlyLoopSends /\ Typed /\ Alone /\ Ledger /\ [Next]_vars => [Box!Next]_Box!vars
<1> SUFFICES ASSUME OnlyLoopSends, Typed, Alone, Ledger, [Next]_vars
             PROVE  [Box!Next]_Box!vars
  OBVIOUS
<1>1. CASE UNCHANGED vars
  BY <1>1, Silent DEF vars, hist
<1>2. ASSUME NEW m \in Messages, SendFromThread(m) \/ SendFromLoop(m)
      PROVE  [Box!Next]_Box!vars
  BY <1>2, SendFromLoopOutbox DEF SendFromThread, OnlyLoopSends
<1>3. ASSUME NEW c \in Coroutines, SendStep(c) PROVE [Box!Next]_Box!vars
  BY <1>3, SendStepOutbox
<1>4. CASE OtherStep
  BY <1>4, OtherStepLeaves, Silent
<1> QED BY <1>1, <1>2, <1>3, <1>4 DEF Next, Environment, OtherStep

LEMMA InitOutbox == Init => Box!Init
<1> QED BY DEF Init, Box!Init, Waiting

(***************************************************************************)
(* asyncSendMessage and doSendMessage do what Outbox says, step by step:   *)
(* refuse at once, or answer first come first served and once each.        *)
(***************************************************************************)
THEOREM SpecImplementsOutbox == OnlyLoopSends => (Spec => ImplementsOutbox)
<1> SUFFICES ASSUME OnlyLoopSends PROVE Spec => ImplementsOutbox
  OBVIOUS
<1>1. Spec => []Typed
  BY InitTyped, NextTyped, PTL DEF Spec
<1>2. Init => Alone /\ Ledger
  BY InitAlone, InitLedger
<1>3. Typed /\ Alone /\ Ledger /\ [Next]_vars => Alone' /\ Ledger'
  BY NextAlone, NextLedger
<1>4. Typed /\ Alone /\ Ledger /\ [Next]_vars => [Box!Next]_Box!vars
  BY NextOutbox
<1>5. Spec => Box!Spec
  BY <1>1, <1>2, <1>3, <1>4, InitOutbox, PTL DEF Spec, Box!Spec
<1> QED BY <1>5 DEF ImplementsOutbox

(***************************************************************************)
(* Two assertions hold whoever sends.  No second receive meets the yield   *)
(* of the first: while m_ReceiveYield is set its read is outstanding, and  *)
(* close() that cancels the read clears the yield in the same step.        *)
(***************************************************************************)
ReadsWhileSet == (reader.yield => reader.op # "none") /\ ReceiveYieldAssertion

\* The reader moves only in the steps of the socket and of doReceiveMessage.
LEMMA SendersLeaveReader ==
  ASSUME NEW c \in Coroutines, SendStep(c) \/ WriteStep(c)
  PROVE  reader' = reader /\ (failed' = failed \/ failed' # "ReceiveYieldSet")
<1>1. CASE SendStep(c)
  BY <1>1 DEF SendStep, BeginSend, FinishSend, RefuseFront, SerializeFront, ContinueWrite,
     FlushRest, EndWrite, HandlerReturned, PopFront, Fail, link
<1>2. CASE WriteStep(c)
  BY <1>2 DEF WriteStep, WriteSome, WriteFails, link
<1> QED BY <1>1, <1>2

LEMMA SendsLeaveReader ==
  ASSUME NEW m \in Messages, SendFromThread(m) \/ SendFromLoop(m)
  PROVE  reader' = reader /\ (failed' = failed \/ failed' # "ReceiveYieldSet")
<1>1. CASE RefuseBusy(m) \/ Post(m)
  BY <1>1 DEF RefuseBusy, Post, Enqueue, link
<1>2. CASE StartInline(m)
  BY <1>2 DEF StartInline, Fail, link
<1> QED BY <1>1, <1>2 DEF SendFromThread, SendFromLoop

\* A step of the socket or of doReceiveMessage keeps the read outstanding.
LEMMA ReaderKeepsSet ==
  ASSUME Typed, ReadsWhileSet,
         SetSocket \/ Close \/ ConnectionBreaks \/ ReadSome \/ ReadFails \/ StartReceive
         \/ EndRead \/ EndReadFailed \/ ReceiverReturned
  PROVE  ReadsWhileSet'
<1> USE DEF ReadsWhileSet, ReceiveYieldAssertion
<1>1. reader \in Reader
  BY DEF Typed, TypeOK, LinkTypeOK
<1>2. CASE SetSocket \/ ConnectionBreaks \/ ReceiverReturned
  BY <1>2 DEF SetSocket, ConnectionBreaks, ReceiverReturned, Fail, link
<1>3. CASE Close
  BY <1>1, <1>3 DEF Close, Reader
<1>4. CASE ReadSome \/ ReadFails
  BY <1>1, <1>4 DEF ReadSome, ReadFails, Reader
<1>5. ASSUME Deliver PROVE ReadsWhileSet'
  BY <1>1, <1>5 DEF Deliver, Fail, ReadEnded, Reader, link
<1>6. CASE StartReceive
  BY <1>1, <1>5, <1>6 DEF StartReceive, Reader
<1>7. CASE EndRead
  BY <1>5, <1>7 DEF EndRead
<1>8. CASE EndReadFailed
  BY <1>1, <1>8 DEF EndReadFailed, ReadEnded, Reader
<1> QED BY <1>2, <1>3, <1>4, <1>6, <1>7, <1>8

\* doReceiveMessage never finds m_ReceiveYield set, the assertion it starts
\* with, however receives, closes and broken connections follow each other.
THEOREM OneReceiveAtATime == Spec => []ReceiveYieldAssertion
<1>1. Init => ReadsWhileSet
  BY DEF Init, ReadsWhileSet, ReceiveYieldAssertion
<1>2. Typed /\ ReadsWhileSet /\ [Next]_vars => ReadsWhileSet'
  <2> SUFFICES ASSUME Typed, ReadsWhileSet, [Next]_vars PROVE ReadsWhileSet'
    OBVIOUS
  <2>1. CASE Environment
    BY <2>1, SendsLeaveReader, ReaderKeepsSet
       DEF Environment, ReadsWhileSet, ReceiveYieldAssertion
  <2>2. CASE ReceiveStep
    BY <2>2, ReaderKeepsSet DEF ReceiveStep
  <2>3. ASSUME NEW c \in Coroutines, SendStep(c) \/ WriteStep(c) PROVE ReadsWhileSet'
    BY <2>3, SendersLeaveReader DEF ReadsWhileSet, ReceiveYieldAssertion
  <2>4. CASE UNCHANGED vars
    BY <2>4 DEF vars, ReadsWhileSet, ReceiveYieldAssertion
  <2> QED BY <2>1, <2>2, <2>3, <2>4 DEF Next
<1>3. ReadsWhileSet => ReceiveYieldAssertion
  BY DEF ReadsWhileSet
<1> QED BY <1>1, <1>2, <1>3, InitTyped, NextTyped, PTL DEF Spec

-----------------------------------------------------------------------------
(***************************************************************************)
(* Whoever sends, two coroutines never write on one connection: a second   *)
(* one begins only when m_SendYield is null, which close() alone brings    *)
(* about under a write, and then no socket is set before that write's      *)
(* handler ran and its coroutine has answered what the queue held.         *)
(***************************************************************************)
Writers ==
  /\ \A c \in Coroutines : pc[c] \in InLoop <=> running = c
  /\ \A c \in Coroutines : pc[c] \in Suspended <=> op[c] # "none"
  /\ \A c \in Coroutines : op[c] = "none" => nw[c] = 0
  /\ \A c \in Coroutines : pc[c] \in Suspended => nw[c] <= Len(obuf)
  /\ \A c, d \in Coroutines : pc[c] \in Suspended /\ pc[d] \in Suspended => c = d

Yields ==
  /\ sock # "none" => \A c \in Coroutines : pc[c] \in Suspended => sendYield = c
  /\ running \in Coroutines => sendYield \in {running, Idle}
  /\ sock = "none" /\ running \notin Coroutines => sendYield = Idle
  /\ sock = "none" => \A c \in Coroutines : pc[c] = "answered" => sendYield = Idle
  /\ sock # "none" => \A c \in Coroutines : pc[c] # "refused"
  /\ sock # "none" /\ queue = <<>> =>
       \A c \in Coroutines : pc[c] \notin Suspended \cup {"answered", "pop"}

Wires ==
  /\ sock = "open" => \A c \in Coroutines : op[c] \in {"none", "pending", "done"}
  /\ \A s \in Sessions : s > session => wire[s] = <<>>

Turns == Writers /\ Yields /\ Wires

LEMMA InitTurns == Init => Turns
<1> SUFFICES ASSUME Init PROVE Turns
  OBVIOUS
<1>1. Writers /\ Yields
  BY ChannelAssumption DEF Init, Writers, Yields, InLoop, Suspended
<1>2. Wires
  BY DEF Init, Wires
<1> QED BY <1>1, <1>2 DEF Turns

\* A step that leaves the coroutines and the socket where they are.
LEMMA SameTurns ==
  ASSUME Turns, UNCHANGED <<pc, op, nw, obuf, sendYield, sock, session, wire>>,
         running' = running \/ {running, running'} \subseteq {Idle, Receiver},
         queue' = <<>> => queue = <<>>
  PROVE  Turns'
<1>1. \A c \in Coroutines : c # Idle /\ c # Receiver
  BY ChannelAssumption
<1>2. Writers' /\ Wires'
  BY <1>1 DEF Turns, Writers, Wires
<1>3. Yields'
  BY <1>1 DEF Turns, Yields
<1> QED BY <1>2, <1>3 DEF Turns

\* A message that is queued for a coroutine to come.
LEMMA PostTurns ==
  ASSUME Typed, Turns, NEW m \in Messages, Post(m)
  PROVE  Turns'
<1>1. queue' # <<>>
  BY DEF Post, Enqueue, Typed, TypeOK, RestTypeOK
<1>2. CASE pc' = pc
  BY <1>1, <1>2, SameTurns DEF Post, link
<1>3. CASE \E c \in Free : pc' = [pc EXCEPT ![c] = "posted"]
  <2>1. PICK c \in Free : pc' = [pc EXCEPT ![c] = "posted"]
    BY <1>3
  <2>2. \A d \in Coroutines : pc'[d] = pc[d] \/ (pc[d] = "none" /\ pc'[d] = "posted")
    BY <2>1 DEF Free, Typed, TypeOK, SenderTypeOK
  <2>3. UNCHANGED <<op, nw, obuf, sendYield, sock, session, wire, running>>
    BY DEF Post, link
  <2>4. \A d \in Coroutines : \A S \in {InLoop, Suspended, {"answered", "pop"}} :
          pc'[d] \in S <=> pc[d] \in S
    BY <2>2 DEF InLoop, Suspended
  <2>5. Writers'
    BY <2>3, <2>4 DEF Turns, Writers
  <2>6. Yields' /\ Wires'
    BY <1>1, <2>2, <2>3 DEF Turns, Yields, Wires, Suspended
  <2> QED BY <2>5, <2>6 DEF Turns
<1> QED BY <1>2, <1>3 DEF Post

\* A coroutine starts its write where no other is.
LEMMA StartTurns ==
  ASSUME Typed, Turns, NEW c \in Coroutines, NEW m \in Messages, StartWrite(c, m),
         sock # "none", sendYield \in {c, Idle}, sendYield' = c, pc[c] \notin Suspended,
         \A d \in Coroutines : d # c => running # d,
         running' \notin Coroutines, queue' # <<>>, UNCHANGED <<sock, session, wire>>
  PROVE  Turns'
<1>1. c # Idle /\ op[c] = "none" /\ nw[c] = 0
  BY ChannelAssumption DEF Turns, Writers
<1>2. \A d \in Coroutines : pc[d] \notin Suspended
  BY <1>1, ChannelAssumption DEF Turns, Yields
<1>3. \A d \in Coroutines : /\ d # c => pc'[d] = pc[d] /\ op'[d] = op[d] /\ pc[d] \notin InLoop
                            /\ nw'[d] = nw[d]
  BY DEF StartWrite, Typed, TypeOK, SenderTypeOK, Turns, Writers
<1>4. pc'[c] \in {"overflow", "flush"} /\ op'[c] = "pending"
  BY DEF StartWrite, FirstWrite, Typed, TypeOK, SenderTypeOK
<1>5. Len(obuf') \in Nat
  <2>1. obuf' \in Seq(Pieces)
    BY StartWriteTyped
  <2> QED BY <2>1
<1>6. \A d \in Coroutines : op[d] = "none" /\ nw[d] = 0
  BY <1>2 DEF Turns, Writers
<1>7. Writers'
  BY <1>1, <1>2, <1>3, <1>4, <1>5, <1>6 DEF Turns, Writers, Suspended, InLoop
<1>8. Yields'
  BY <1>2, <1>3, <1>4 DEF Turns, Yields, Suspended, InLoop
<1>9. Wires'
  BY <1>3, <1>4, <1>6 DEF Turns, Wires
<1> QED BY <1>7, <1>8, <1>9 DEF Turns

LEMMA SendTurns ==
  ASSUME Typed, Turns, NEW m \in Messages, SendFromThread(m) \/ SendFromLoop(m)
  PROVE  Turns'
<1>1. CASE RefuseBusy(m)
  BY <1>1, SameTurns DEF RefuseBusy, sender, link
<1>2. CASE Post(m)
  BY <1>2, PostTurns
<1>3. CASE SendFromLoop(m) /\ ShouldSpawn /\ StartInline(m)
  <2>1. CASE sendYield # Idle \/ sock = "none"
    <3>1. UNCHANGED <<queue, sender, sendYield, obuf, link, running, hist>>
      BY <1>3, <2>1 DEF StartInline, Fail
    <3> QED BY <3>1, SameTurns DEF sender, link, hist
  <2>2. CASE sendYield = Idle /\ sock # "none"
    <3>1. PICK c \in Free : /\ Enqueue(m) /\ sendYield' = c /\ StartWrite(c, m)
                            /\ UNCHANGED <<link, running, wire>>
      BY <1>3, <2>2 DEF StartInline
    <3>2. c \in Coroutines /\ pc[c] = "none"
      BY <3>1 DEF Free
    <3>3. queue' # <<>>
      BY <3>1 DEF Enqueue, Typed, TypeOK, RestTypeOK
    <3>4. running \notin Coroutines
      <4> SUFFICES ASSUME running \in Coroutines PROVE FALSE
        OBVIOUS
      <4>1. pc[running] \in InHandler
        BY <1>3, ChannelAssumption DEF SendFromLoop, UserCode
      <4> QED BY <1>3, <2>2, <4>1 DEF InHandler, ShouldSpawn, Turns, Yields
    <3> QED BY <2>2, <3>1, <3>2, <3>3, <3>4, StartTurns DEF link, Suspended
  <2> QED BY <2>1, <2>2
<1> QED BY <1>1, <1>2, <1>3 DEF SendFromThread, SendFromLoop

\* A coroutine that moves alone, and does not begin to write.
LEMMA StepTurns ==
  ASSUME Typed, Turns, NEW c \in Coroutines, NEW p \in Places \ Suspended,
         pc' = [pc EXCEPT ![c] = p],
         \/ op' = [op EXCEPT ![c] = "none"] /\ nw' = [nw EXCEPT ![c] = 0]
         \/ UNCHANGED <<op, nw>> /\ pc[c] \notin Suspended,
         UNCHANGED <<sock, session, wire>>, Len(obuf') \in Nat,
         obuf' = obuf \/ \A d \in Coroutines : d # c => pc[d] \notin Suspended,
         running \in {Idle, c}, running' = IF p \in InLoop THEN c ELSE Idle,
         sendYield' \in {sendYield, c, Idle},
         sock # "none" /\ sendYield' # sendYield =>
           \A d \in Coroutines : d # c => pc[d] \notin Suspended,
         p \in InLoop => sendYield' \in {c, Idle},
         sock = "none" /\ p \in {"none", "posted", "answered"} => sendYield' = Idle,
         sock # "none" => p # "refused",
         sock # "none" /\ queue' = <<>> => p \notin {"answered", "pop"},
         sock # "none" /\ queue' = <<>> /\ queue # <<>> =>
           \A d \in Coroutines : d # c => pc[d] \notin Suspended
  PROVE  Turns'
<1>1. \A d \in Coroutines : d # Idle /\ d # Receiver
  BY ChannelAssumption
<1>2. /\ pc'[c] = p /\ op'[c] = "none" /\ nw'[c] = 0 /\ p \notin Suspended
      /\ \A d \in Coroutines : d # c => pc'[d] = pc[d] /\ op'[d] = op[d] /\ nw'[d] = nw[d]
  BY DEF Typed, TypeOK, SenderTypeOK, Turns, Writers
<1>3. \A d \in Coroutines : d # c => pc[d] \notin InLoop
  BY <1>1 DEF Turns, Writers
<1>4. Writers'
  <2>1. \A d \in Coroutines : pc'[d] \in InLoop <=> running' = d
    BY <1>1, <1>2, <1>3
  <2>2. \A d \in Coroutines : pc'[d] \in Suspended <=> op'[d] # "none"
    BY <1>2 DEF Turns, Writers
  <2>3. \A d \in Coroutines : op'[d] = "none" => nw'[d] = 0
    BY <1>2 DEF Turns, Writers
  <2>4. \A d \in Coroutines : pc'[d] \in Suspended => d # c /\ pc[d] \in Suspended
    BY <1>2
  <2>5. \A d \in Coroutines : pc'[d] \in Suspended => nw'[d] <= Len(obuf')
    BY <1>2, <2>4 DEF Turns, Writers
  <2>6. \A d, e \in Coroutines : pc'[d] \in Suspended /\ pc'[e] \in Suspended => d = e
    BY <2>4 DEF Turns, Writers
  <2> QED BY <2>1, <2>2, <2>3, <2>5, <2>6 DEF Writers
<1>5. Yields'
  <2>1. sock # "none" => \A d \in Coroutines : pc'[d] \in Suspended => sendYield' = d
    BY <1>2 DEF Turns, Yields
  <2>2. running' \in Coroutines => sendYield' \in {running', Idle}
    BY <1>1
  <2>3. sock = "none" /\ running' \notin Coroutines => sendYield' = Idle
    BY <1>1, <1>2 DEF Places, InLoop, InHandler, Suspended
  <2>4. sock = "none" => \A d \in Coroutines : pc'[d] = "answered" => sendYield' = Idle
    BY <1>2, <1>3 DEF InLoop
  <2>5. sock # "none" => \A d \in Coroutines : pc'[d] # "refused"
    BY <1>2, <1>3 DEF InLoop
  <2>6. sock # "none" /\ queue' = <<>> =>
          \A d \in Coroutines : pc'[d] \notin Suspended \cup {"answered", "pop"}
    BY <1>2, <1>3 DEF Turns, Yields, InLoop
  <2> QED BY <2>1, <2>2, <2>3, <2>4, <2>5, <2>6 DEF Yields
<1>6. Wires'
  BY <1>2 DEF Turns, Wires
<1> QED BY <1>4, <1>5, <1>6 DEF Turns

\* A suspended coroutine's write goes on, or another starts in its place.
LEMMA WriteTurns ==
  ASSUME Typed, Turns, NEW c \in Coroutines, NEW p \in Suspended,
         pc' = [pc EXCEPT ![c] = p], NEW o \in OpState \ {"none"}, op' = [op EXCEPT ![c] = o],
         NEW n \in Nat, nw' = [nw EXCEPT ![c] = n], n <= Len(obuf'),
         sock # "none" => sendYield = c /\ queue # <<>>,
         sock = "open" => o \in {"pending", "done"},
         \A d \in Coroutines : d # c => pc[d] \notin Suspended,
         running \in {Idle, Receiver, c}, pc[c] \in InLoop => running' = Idle,
         pc[c] \notin InLoop => running' = running,
         sock = "none" => sendYield = Idle,
         UNCHANGED <<queue, sock, session, sendYield>>,
         \A s \in Sessions : s > session => wire'[s] = wire[s]
  PROVE  Turns'
<1>1. \A d \in Coroutines : d # Idle /\ d # Receiver
  BY ChannelAssumption
<1>2. /\ pc'[c] = p /\ op'[c] = o /\ nw'[c] = n
      /\ \A d \in Coroutines : d # c => pc'[d] = pc[d] /\ op'[d] = op[d] /\ nw'[d] = nw[d]
  BY DEF Typed, TypeOK, SenderTypeOK
<1>3. \A d \in Coroutines : pc'[d] \notin InLoop /\ running' # d
  BY <1>1, <1>2 DEF Turns, Writers, InLoop, Suspended
<1>4. Writers'
  BY <1>2, <1>3 DEF Turns, Writers
<1>5. Yields'
  BY <1>1, <1>2, <1>3 DEF Turns, Yields, InLoop, Suspended
<1>6. Wires'
  BY <1>2 DEF Turns, Wires
<1> QED BY <1>4, <1>5, <1>6 DEF Turns

LEMMA SendStepTurns ==
  ASSUME Typed, Turns, NEW c \in Coroutines, SendStep(c)
  PROVE  Turns'
<1>1. /\ c # Idle /\ c # Receiver /\ pc \in [Coroutines -> Places]
      /\ op \in [Coroutines -> OpState] /\ nw \in [Coroutines -> Nat]
      /\ queue \in Seq(Messages) /\ obuf \in Seq(Pieces) /\ Len(obuf) \in Nat
  BY ChannelAssumption DEF Typed, TypeOK, SenderTypeOK, RestTypeOK
<1>2. ASSUME NEW why, Fail(why) PROVE Turns'
  BY <1>2, SameTurns DEF Fail, sender, link, hist
<1>3. running = c => /\ pc[c] \in InLoop /\ op[c] = "none" /\ sendYield \in {c, Idle}
                     /\ pc[c] \notin Suspended
  BY DEF Turns, Writers, Yields, InLoop, Suspended
<1>4. pc[c] \in Suspended =>
        /\ \A d \in Coroutines : d # c => pc[d] \notin Suspended
        /\ sock # "none" => sendYield = c /\ queue # <<>>
        /\ running \notin Coroutines /\ sock = "none" => sendYield = Idle
  BY DEF Turns, Writers, Yields
<1>5. running = c /\ sock # "none" =>
        \A d \in Coroutines : pc[d] \in Suspended => sendYield = d /\ d = c
  BY <1>1, <1>3, ChannelAssumption DEF Turns, Yields
<1>6. CASE BeginSend(c) /\ sendYield = Idle
  <2>1. /\ running = Idle /\ running' = c /\ sendYield' = c /\ pc[c] = "posted"
        /\ pc' = [pc EXCEPT ![c] = "check"]
        /\ UNCHANGED <<queue, op, nw, obuf, sock, session, wire>>
    BY <1>6 DEF BeginSend, link, hist
  <2>2. "check" \in Places \ Suspended /\ "check" \in InLoop /\ pc[c] \notin Suspended
    BY <2>1 DEF Places, Suspended, InLoop
  <2>3. sock # "none" => \A d \in Coroutines : pc[d] \notin Suspended
    BY <1>6, ChannelAssumption DEF Turns, Yields
  <2> QED BY <1>1, <2>1, <2>2, <2>3, StepTurns
<1>7. CASE FinishSend(c)
  BY <1>1, <1>3, <1>5, <1>7, StepTurns DEF FinishSend, Places, Suspended, InLoop, link, hist
<1>8. CASE RefuseFront(c)
  BY <1>1, <1>3, <1>5, <1>8, StepTurns DEF RefuseFront, Places, InHandler, Suspended, InLoop, link
<1>9. CASE SerializeFront(c) /\ sendYield = c
  <2>1. Front \in Messages
    BY <1>9, HeadAndTail DEF SerializeFront, Typed, TypeOK, RestTypeOK, Front
  <2>2. /\ StartWrite(c, Front) /\ running = c /\ pc[c] = "check" /\ sock # "none" /\ queue # <<>>
        /\ running' = Idle /\ UNCHANGED <<queue, sendYield, sock, session, wire>>
    BY <1>9 DEF SerializeFront, link, hist
  <2> QED BY <1>1, <1>3, <1>9, <2>1, <2>2, StartTurns, ChannelAssumption
<1>10. CASE ContinueWrite(c) /\ sendYield = c
  <2>1. /\ running = Idle /\ op[c] = "done" /\ op' = [op EXCEPT ![c] = "pending"]
        /\ UNCHANGED <<queue, pc, nw, sendYield, obuf, sock, session, running, wire>>
    BY <1>10 DEF ContinueWrite, link, hist
  <2>2. pc[c] \in Suspended /\ nw[c] <= Len(obuf)
    BY <2>1 DEF Turns, Writers
  <2>3. /\ pc' = [pc EXCEPT ![c] = pc[c]] /\ nw' = [nw EXCEPT ![c] = nw[c]] /\ nw[c] \in Nat
        /\ "pending" \in OpState \ {"none"} /\ sock # "none"
    BY <1>1, <1>4, <1>10, <2>1, <2>2, ChannelAssumption DEF OpState, Turns, Yields
  <2> QED BY <1>4, <2>1, <2>2, <2>3, WriteTurns, ChannelAssumption DEF InLoop, Suspended
<1>11. CASE FlushRest(c)
  <2>1. /\ running = Idle /\ op[c] = "done" /\ pc[c] = "overflow" /\ nw' = [nw EXCEPT ![c] = 0]
        /\ obuf' = <<<<msg[c], 2>>>> /\ UNCHANGED <<queue, sendYield, sock, session, wire>>
    BY <1>11 DEF FlushRest, Written, link
  <2>2. Len(obuf') \in Nat /\ pc[c] \in Suspended
    BY <2>1 DEF Suspended
  <2>3. CASE sendYield = c
    <3>1. /\ pc' = [pc EXCEPT ![c] = "flush"] /\ op' = [op EXCEPT ![c] = "pending"]
          /\ running' = running /\ "pending" \in OpState \ {"none"} /\ sock # "none"
          /\ "flush" \in Suspended /\ 0 \in Nat /\ 0 <= Len(obuf') /\ pc[c] \notin InLoop
      BY <1>1, <1>4, <1>11, <2>1, <2>2, <2>3, ChannelAssumption
         DEF FlushRest, OpState, Suspended, InLoop
    <3>2. queue # <<>> /\ \A d \in Coroutines : d # c => pc[d] \notin Suspended
      BY <1>4, <2>2, <3>1
    <3> QED BY <2>1, <2>3, <3>1, <3>2, WriteTurns
  <2>4. CASE sendYield # c
    <3>1. /\ pc' = [pc EXCEPT ![c] = "answered"] /\ op' = [op EXCEPT ![c] = "none"]
          /\ running' = c /\ sock = "none" /\ sendYield = Idle
          /\ "answered" \in Places \ Suspended /\ "answered" \in InLoop
      BY <1>1, <1>4, <1>11, <2>1, <2>2, <2>4, ChannelAssumption
         DEF FlushRest, Places, InHandler, Suspended, InLoop
    <3> QED BY <1>1, <1>4, <2>1, <2>2, <3>1, StepTurns
  <2> QED BY <2>3, <2>4
<1>12. CASE EndWrite(c)
  <2> DEFINE p == IF pc[c] = "reflush" THEN "pop" ELSE "answered"
  <2>1. /\ running = Idle /\ pc[c] \in Suspended /\ running' = c /\ pc' = [pc EXCEPT ![c] = p]
        /\ op' = [op EXCEPT ![c] = "none"] /\ nw' = [nw EXCEPT ![c] = 0]
        /\ UNCHANGED <<queue, sendYield, sock, session, wire>>
    BY <1>1, <1>12 DEF EndWrite, link
  <2>2. p \in Places \ Suspended /\ p \in InLoop /\ p \in {"answered", "pop"}
    BY DEF Places, InHandler, Suspended, InLoop
  <2>3. Len(obuf') \in Nat
    BY <1>1, <1>12 DEF EndWrite, LeftInPutArea
  <2>4. sendYield \in {c, Idle} /\ (sock = "none" => sendYield = Idle)
    BY <1>4, <2>1, ChannelAssumption
  <2>5. sock # "none" => queue # <<>>
    BY <1>4, <2>1
  <2>6. \A d \in Coroutines : d # c => pc[d] \notin Suspended
    BY <1>4, <2>1
  <2> HIDE DEF p
  <2> QED BY <1>1, <2>1, <2>2, <2>3, <2>4, <2>5, <2>6, StepTurns
<1>13. CASE HandlerReturned(c)
  <2>1. /\ running = c /\ pc[c] \in InHandler
        /\ UNCHANGED <<queue, nw, sendYield, obuf, sock, session, wire>>
    BY <1>13 DEF HandlerReturned, link, hist
  <2>2. CASE pc' = [pc EXCEPT ![c] = "pop"] /\ UNCHANGED <<op, running>>
    <3>1. "pop" \in Places \ Suspended /\ "pop" \in InLoop
      BY DEF Places, Suspended, InLoop
    <3>2. sock # "none" /\ queue' = <<>> => FALSE
      BY <2>1 DEF InHandler, Turns, Yields
    <3> QED BY <1>1, <1>3, <2>1, <2>2, <3>1, <3>2, StepTurns
  <2>3. CASE /\ sendYield = c /\ pc' = [pc EXCEPT ![c] = "reflush"] /\ pc[c] # "refused"
             /\ op' = [op EXCEPT ![c] = "pending"] /\ running' = Idle
    <3>1. pc[c] = "answered" /\ sock # "none" /\ queue # <<>>
      BY <1>1, <2>1, <2>3 DEF InHandler, Turns, Yields
    <3>2. /\ nw' = [nw EXCEPT ![c] = 0] /\ 0 <= Len(obuf')
          /\ \A d \in Coroutines : d # c => pc[d] \notin Suspended
      BY <1>1, <1>3, <1>5, <2>1, <3>1 DEF Turns, Writers
    <3>3. "reflush" \in Suspended /\ "pending" \in OpState \ {"none"} /\ 0 \in Nat
      BY DEF Suspended, OpState
    <3> QED BY <1>3, <2>1, <2>3, <3>1, <3>2, <3>3, WriteTurns
  <2>4. CASE UNCHANGED <<pc, op, running>>
    BY <2>1, <2>4, SameTurns
  <2> QED BY <1>13, <2>2, <2>3, <2>4 DEF HandlerReturned
<1>14. CASE PopFront(c) /\ queue # <<>>
  BY <1>1, <1>3, <1>5, <1>14, StepTurns DEF PopFront, Places, Suspended, InLoop, link, hist
<1> QED BY <1>2, <1>6, <1>7, <1>8, <1>9, <1>10, <1>11, <1>12, <1>13, <1>14
        DEF SendStep, BeginSend, SerializeFront, ContinueWrite, PopFront

\* A write ends, wholly or in part, or in an error of a connection that broke.
LEMMA WriteStepTurns ==
  ASSUME Typed, Turns, NEW c \in Coroutines, WriteStep(c)
  PROVE  Turns'
<1>1. /\ pc \in [Coroutines -> Places] /\ op \in [Coroutines -> OpState]
      /\ nw \in [Coroutines -> Nat] /\ Len(obuf) \in Nat /\ session \in 0..MaxSessions
  BY DEF Typed, TypeOK, SenderTypeOK, RestTypeOK, LinkTypeOK
<1>2. /\ op[c] = "pending" /\ sock \in {"open", "broken"}
      /\ UNCHANGED <<queue, pc, sendYield, obuf, sock, session, running>>
  BY DEF WriteStep, WriteSome, WriteFails, link
<1>3. /\ pc[c] \in Suspended /\ pc[c] \notin InLoop /\ pc' = [pc EXCEPT ![c] = pc[c]]
      /\ nw[c] <= Len(obuf) /\ sock # "none"
  BY <1>1, <1>2 DEF Turns, Writers, Suspended, InLoop
<1>4. /\ sendYield = c /\ queue # <<>> /\ running \in {Idle, Receiver, c}
      /\ \A d \in Coroutines : d # c => pc[d] \notin Suspended
  <2>1. sendYield = c /\ queue # <<>> /\ \A d \in Coroutines : d # c => pc[d] \notin Suspended
    BY <1>3 DEF Turns, Writers, Yields
  <2>2. running \in Coroutines => running = c
    BY <2>1, ChannelAssumption DEF Turns, Yields
  <2> QED BY <2>1, <2>2 DEF Typed, TypeOK, RestTypeOK
<1>5. CASE WriteSome(c)
  <2>1. PICK k \in nw[c] + 1 .. Len(obuf) :
          /\ wire' = [wire EXCEPT ![session] = @ \o SubSeq(obuf, nw[c] + 1, k)]
          /\ op' = [op EXCEPT ![c] = "done"] /\ nw' = [nw EXCEPT ![c] = k]
    BY <1>5 DEF WriteSome
  <2>2. k \in Nat /\ k <= Len(obuf) /\ "done" \in OpState \ {"none"}
    BY <1>1, <2>1 DEF OpState
  <2>3. \A s \in Sessions : s > session => wire'[s] = wire[s]
    BY <1>1, <2>1 DEF Typed, TypeOK, HistTypeOK, Sessions
  <2> QED BY <1>2, <1>3, <1>4, <2>1, <2>2, <2>3, WriteTurns
<1>6. CASE WriteFails(c)
  <2>1. /\ op' = [op EXCEPT ![c] = "error"] /\ nw' = [nw EXCEPT ![c] = nw[c]] /\ nw[c] \in Nat
        /\ "error" \in OpState \ {"none"} /\ sock # "open" /\ wire' = wire
    BY <1>1, <1>6 DEF WriteFails, OpState, hist
  <2> QED BY <1>2, <1>3, <1>4, <2>1, WriteTurns
<1> QED BY <1>5, <1>6 DEF WriteStep

\* close() and the error of a read that closes.
LEMMA ClosedTurns ==
  ASSUME Typed, Turns, Closed, UNCHANGED <<queue, obuf, session, running, wire>>
  PROVE  Turns'
<1>1. /\ sock' = "none" /\ sendYield' = Idle /\ UNCHANGED <<pc, nw>>
      /\ \A c \in Coroutines : op'[c] = "none" <=> op[c] = "none"
  BY DEF Closed, Cancelled, Typed, TypeOK, SenderTypeOK
<1>2. Writers'
  BY <1>1 DEF Turns, Writers
<1>3. Yields' /\ Wires'
  BY <1>1 DEF Turns, Yields, Wires
<1> QED BY <1>2, <1>3 DEF Turns

\* A socket is set when no write is under way, and its connection is new.
LEMMA SetSocketTurns ==
  ASSUME Typed, Turns, SetSocket
  PROVE  Turns'
<1>1. /\ running = Idle /\ sock = "none" /\ sock' = "open" /\ session' = session + 1
      /\ UNCHANGED <<queue, pc, op, nw, sendYield, obuf, running, wire>>
      /\ \A c \in Coroutines : op[c] = "none"
  BY DEF SetSocket, sender, hist
<1>2. \A c \in Coroutines : pc[c] \notin Suspended \cup InLoop
  BY <1>1, ChannelAssumption DEF Turns, Writers
<1>3. Writers'
  BY <1>1 DEF Turns, Writers
<1>4. Yields'
  BY <1>1, <1>2, ChannelAssumption DEF Turns, Yields, InLoop
<1>5. Wires'
  BY <1>1 DEF Turns, Wires, Typed, TypeOK, LinkTypeOK, Sessions
<1> QED BY <1>3, <1>4, <1>5 DEF Turns

LEMMA OtherTurns == ASSUME Typed, Turns, OtherStep PROVE Turns'
<1>1. CASE Close
  BY <1>1, ClosedTurns DEF Close, hist
<1>2. CASE EndReadFailed
  <2>1. CASE sock # "none"
    BY <1>2, <2>1, ClosedTurns DEF EndReadFailed, hist
  <2>2. CASE sock = "none"
    BY <1>2, <2>2, SameTurns DEF EndReadFailed, sender, hist
  <2> QED BY <2>1, <2>2
<1>3. CASE ReceiverReturned \/ EndRead \/ StartReceive
  <2>1. UNCHANGED <<queue, pc, op, nw, obuf, sendYield, sock, session, wire>>
    BY <1>3 DEF ReceiverReturned, EndRead, StartReceive, Deliver, Fail, sender, link, hist
  <2>2. running' = running \/ {running, running'} \subseteq {Idle, Receiver}
    BY <1>3 DEF ReceiverReturned, EndRead, StartReceive, Deliver, Fail
  <2> QED BY <2>1, <2>2, SameTurns
<1>4. CASE SetSocket
  BY <1>4, SetSocketTurns
<1>5. CASE ConnectionBreaks
  <2>1. /\ sock = "open" /\ sock' = "broken"
        /\ UNCHANGED <<queue, pc, op, nw, sendYield, obuf, session, running, wire>>
    BY <1>5 DEF ConnectionBreaks, sender, hist
  <2> QED BY <2>1 DEF Turns, Writers, Yields, Wires
<1>6. CASE ReadSome \/ ReadFails
  BY <1>6, SameTurns DEF ReadSome, ReadFails, sender, hist
<1>7. CASE \E c \in Coroutines : WriteStep(c)
  BY <1>7, WriteStepTurns
<1> QED BY <1>1, <1>2, <1>3, <1>4, <1>5, <1>6, <1>7 DEF OtherStep, ReceiveStep

LEMMA NextTurns == Typed /\ Turns /\ [Next]_vars => Turns'
<1> SUFFICES ASSUME Typed, Turns, [Next]_vars PROVE Turns'
  OBVIOUS
<1>1. CASE UNCHANGED vars
  BY <1>1, SameTurns DEF vars, sender, hist
<1>2. ASSUME NEW m \in Messages, SendFromThread(m) \/ SendFromLoop(m) PROVE Turns'
  BY <1>2, SendTurns
<1>3. ASSUME NEW c \in Coroutines, SendStep(c) PROVE Turns'
  BY <1>3, SendStepTurns
<1>4. CASE OtherStep
  BY <1>4, OtherTurns
<1> QED BY <1>1, <1>2, <1>3, <1>4 DEF Next, Environment, OtherStep

LEMMA AlwaysTurns == Spec => [](Typed /\ Turns)
<1> QED BY InitTyped, NextTyped, InitTurns, NextTurns, PTL DEF Spec

-----------------------------------------------------------------------------
(***************************************************************************)
(* When every message fits in the stream buffer, whole messages enter the  *)
(* put area and leave it: a write takes up on the connection where the one *)
(* before it stopped, or the connection is given up.                       *)
(***************************************************************************)
Whole(seq) == \A i \in 1..Len(seq) : seq[i][2] = IF i % 2 = 1 THEN 1 ELSE 2

Frames ==
  /\ \A c \in Coroutines : pc[c] # "overflow"
  /\ Whole(obuf) /\ Len(obuf) % 2 = 0
  /\ \A s \in Sessions : Whole(wire[s])
  /\ sock = "open" =>
       /\ \A c \in Coroutines : pc[c] \in Suspended => Len(wire[session]) % 2 = nw[c] % 2
       /\ (\A c \in Coroutines : pc[c] \notin Suspended) => Len(wire[session]) % 2 = 0

\* What concatenation and SubSeq do to the places of pieces.
LEMMA JoinFacts ==
  ASSUME NEW S, NEW s \in Seq(S), NEW t \in Seq(S)
  PROVE  /\ s \o t \in Seq(S) /\ Len(s \o t) = Len(s) + Len(t)
         /\ \A i \in 1..Len(s) : (s \o t)[i] = s[i]
         /\ \A i \in 1..Len(t) : (s \o t)[Len(s) + i] = t[i]
         /\ \A i \in 1..Len(s \o t) :
              i \in 1..Len(s) \/ (i - Len(s) \in 1..Len(t) /\ (s \o t)[i] = t[i - Len(s)])
<1>1. /\ s \o t \in Seq(S) /\ Len(s \o t) = Len(s) + Len(t) /\ Len(s) \in Nat /\ Len(t) \in Nat
      /\ \A i \in 1 .. Len(s) + Len(t) :
           (s \o t)[i] = IF i <= Len(s) THEN s[i] ELSE t[i - Len(s)]
  BY ConcatProperties, LenProperties
<1>2. \A i \in 1..Len(s) : i \in 1 .. Len(s) + Len(t) /\ i <= Len(s)
  BY <1>1
<1>3. \A i \in 1..Len(t) : /\ Len(s) + i \in 1 .. Len(s) + Len(t) /\ ~(Len(s) + i <= Len(s))
                           /\ (Len(s) + i) - Len(s) = i
  BY <1>1
<1>4. \A i \in 1 .. Len(s) + Len(t) :
        i \in 1..Len(s) \/ (i - Len(s) \in 1..Len(t) /\ ~(i <= Len(s)))
  BY <1>1
<1> QED BY <1>1, <1>2, <1>3, <1>4

LEMMA PartFacts ==
  ASSUME NEW S, NEW s \in Seq(S), NEW n \in Nat, NEW k \in n + 1 .. Len(s)
  PROVE  /\ SubSeq(s, n + 1, k) \in Seq(S) /\ Len(SubSeq(s, n + 1, k)) = k - n
         /\ \A i \in 1 .. k - n : n + i \in 1..Len(s) /\ SubSeq(s, n + 1, k)[i] = s[n + i]
<1>1. Len(s) \in Nat /\ k \in Nat /\ n + 1 \in Int /\ k \in Int
  BY LenProperties
<1>2. \A i \in n + 1 .. k : i \in 1..Len(s)
  BY <1>1
<1>3. \A i \in n + 1 .. k : s[i] \in S
  BY <1>2, ElementOfSeq
<1>4. /\ SubSeq(s, n + 1, k) \in Seq(S)
      /\ Len(SubSeq(s, n + 1, k)) = IF n + 1 <= k THEN k - (n + 1) + 1 ELSE 0
      /\ \A i \in 1 .. k - (n + 1) + 1 : SubSeq(s, n + 1, k)[i] = s[(n + 1) + i - 1]
  BY <1>1, <1>3, SubSeqProperties
<1>5. k - (n + 1) + 1 = k - n /\ n + 1 <= k
  BY <1>1
<1>6. \A i \in 1 .. k - n : (n + 1) + i - 1 = n + i /\ n + i \in 1..Len(s)
  BY <1>1
<1> QED BY <1>4, <1>5, <1>6

\* A write goes on where the connection stopped, at the same half of a message.
LEMMA WholeJoin ==
  ASSUME NEW w \in Seq(Pieces), NEW s \in Seq(Pieces), NEW n \in Nat,
         NEW k \in n + 1 .. Len(s), Whole(w), Whole(s), Len(w) % 2 = n % 2
  PROVE  Whole(w \o SubSeq(s, n + 1, k)) /\ Len(w \o SubSeq(s, n + 1, k)) % 2 = k % 2
<1> DEFINE t == SubSeq(s, n + 1, k)
<1>1. /\ t \in Seq(Pieces) /\ Len(t) = k - n
      /\ \A i \in 1 .. k - n : n + i \in 1..Len(s) /\ t[i] = s[n + i]
  BY PartFacts
<1> HIDE DEF t
<1>2. Len(w) \in Nat /\ Len(s) \in Nat /\ k \in Nat
  BY LenProperties
<1>3. /\ Len(w \o t) = Len(w) + Len(t)
      /\ \A i \in 1..Len(w) : (w \o t)[i] = w[i]
      /\ \A i \in 1..Len(w \o t) :
           i \in 1..Len(w) \/ (i - Len(w) \in 1..Len(t) /\ (w \o t)[i] = t[i - Len(w)])
  <2>1. t \in Seq(Pieces)
    BY <1>1
  <2> QED BY <2>1, JoinFacts
<1>4. \A l \in Nat : l % 2 = n % 2 => /\ (l + (k - n)) % 2 = k % 2
                                      /\ \A i \in Nat : i > l => (n + (i - l)) % 2 = i % 2
  BY <1>2
<1>5. ASSUME NEW i \in 1..Len(w \o t)
      PROVE  (w \o t)[i][2] = IF i % 2 = 1 THEN 1 ELSE 2
  <2>1. CASE i \in 1..Len(w)
    BY <1>3, <2>1 DEF Whole
  <2>2. CASE i - Len(w) \in 1..Len(t) /\ (w \o t)[i] = t[i - Len(w)]
    <3>0. i - Len(w) \in 1 .. k - n
      BY <1>1, <2>2
    <3>1. n + (i - Len(w)) \in 1..Len(s) /\ t[i - Len(w)] = s[n + (i - Len(w))]
      BY <1>1, <3>0
    <3>2. (n + (i - Len(w))) % 2 = i % 2
      <4>1. i \in Nat /\ i > Len(w)
        BY <1>2, <3>0
      <4> QED BY <1>2, <1>4, <4>1
    <3>3. s[n + (i - Len(w))][2] = IF (n + (i - Len(w))) % 2 = 1 THEN 1 ELSE 2
      BY <3>1 DEF Whole
    <3> QED BY <2>2, <3>1, <3>2, <3>3
  <2> QED BY <1>3, <2>1, <2>2
<1>6. Len(w \o t) % 2 = k % 2
  BY <1>1, <1>2, <1>3, <1>4
<1> QED BY <1>5, <1>6 DEF Whole, t

\* A message that fits enters the put area whole.
LEMMA WholeSerialized ==
  ASSUME obuf \in Seq(Pieces), Whole(obuf), Len(obuf) % 2 = 0, NEW m \in Messages, m \notin Large
  PROVE  Whole(Serialized(m)) /\ Len(Serialized(m)) % 2 = 0
<1> DEFINE t == <<<<m, 1>>, <<m, 2>>>>
<1>1. t \in Seq(Pieces) /\ Len(t) = 2 /\ t[1][2] = 1 /\ t[2][2] = 2
  BY DEF Pieces
<1>2. Serialized(m) = obuf \o t
  BY DEF Serialized
<1> HIDE DEF t
<1>3. Len(obuf) \in Nat
  BY LenProperties
<1>4. /\ Len(obuf \o t) = Len(obuf) + 2
      /\ \A i \in 1..Len(obuf) : (obuf \o t)[i] = obuf[i]
      /\ \A i \in 1..Len(obuf \o t) :
           i \in 1..Len(obuf) \/ (i - Len(obuf) \in 1..2 /\ (obuf \o t)[i] = t[i - Len(obuf)])
  <2>1. t \in Seq(Pieces)
    BY <1>1
  <2>2. /\ Len(obuf \o t) = Len(obuf) + Len(t)
        /\ \A i \in 1..Len(obuf) : (obuf \o t)[i] = obuf[i]
        /\ \A i \in 1..Len(obuf \o t) :
             i \in 1..Len(obuf) \/ (i - Len(obuf) \in 1..Len(t) /\ (obuf \o t)[i] = t[i - Len(obuf)])
    BY <2>1, JoinFacts
  <2> QED BY <1>1, <2>2
<1>5. /\ (Len(obuf) + 1) % 2 = 1 /\ (Len(obuf) + 2) % 2 = 0
  BY <1>3
<1>6. ASSUME NEW i \in 1..Len(obuf \o t)
      PROVE  (obuf \o t)[i][2] = IF i % 2 = 1 THEN 1 ELSE 2
  <2>1. CASE i \in 1..Len(obuf)
    BY <1>4, <2>1 DEF Whole
  <2>2. CASE i - Len(obuf) \in 1..2 /\ (obuf \o t)[i] = t[i - Len(obuf)]
    <3>1. i = Len(obuf) + 1 \/ i = Len(obuf) + 2
      BY <1>3, <2>2
    <3>2. i = Len(obuf) + 1 => i - Len(obuf) = 1
      BY <1>3
    <3>3. i = Len(obuf) + 2 => i - Len(obuf) = 2
      BY <1>3
    <3> QED BY <1>1, <1>5, <2>2, <3>1, <3>2, <3>3
  <2> QED BY <1>4, <2>1, <2>2
<1> QED BY <1>2, <1>4, <1>5, <1>6 DEF Whole

LEMMA EmptyWhole == Whole(<<>>) /\ Len(<<>>) = 0
<1>1. Len(<<>>) = 0
  BY EmptySeq
<1> QED BY <1>1 DEF Whole

LEMMA InitFrames == Init => Frames
<1> SUFFICES ASSUME Init PROVE Frames
  OBVIOUS
<1>1. obuf = <<>> /\ sock = "none" /\ \A c \in Coroutines : pc[c] = "none"
  BY DEF Init
<1>2. \A s \in Sessions : wire[s] = <<>>
  BY DEF Init
<1>3. 0 % 2 = 0
  OBVIOUS
<1> QED BY <1>1, <1>2, <1>3, EmptyWhole DEF Frames

\* A step that neither fills the put area nor writes nor suspends anybody.
LEMMA SameFrames ==
  ASSUME Frames, UNCHANGED <<nw, obuf, wire, session>>, sock' = "open" => sock = "open",
         \A c \in Coroutines : /\ pc'[c] # "overflow"
                               /\ pc'[c] \in Suspended <=> pc[c] \in Suspended
  PROVE  Frames'
<1> QED BY DEF Frames

LEMMA StartFrames ==
  ASSUME Large = {}, Typed, Turns, Frames, NEW c \in Coroutines, NEW m \in Messages,
         StartWrite(c, m), \A d \in Coroutines : pc[d] \notin Suspended,
         UNCHANGED <<sock, session, wire>>
  PROVE  Frames'
<1>1. Whole(obuf') /\ Len(obuf') % 2 = 0
  <2>1. obuf' = Serialized(m) /\ obuf \in Seq(Pieces) /\ Whole(obuf) /\ Len(obuf) % 2 = 0
    BY DEF StartWrite, Typed, TypeOK, RestTypeOK, Frames
  <2> QED BY <2>1, WholeSerialized
<1>2. \A d \in Coroutines : pc'[d] # "overflow" /\ nw'[d] = 0
  BY DEF StartWrite, FirstWrite, Typed, TypeOK, SenderTypeOK, Frames, Turns, Writers
<1>3. 0 % 2 = 0
  OBVIOUS
<1> QED BY <1>1, <1>2, <1>3 DEF Frames

LEMMA SendFrames ==
  ASSUME Large = {}, Typed, Turns, Frames, NEW m \in Messages,
         SendFromThread(m) \/ SendFromLoop(m)
  PROVE  Frames'
<1>1. CASE RefuseBusy(m)
  BY <1>1, SameFrames DEF RefuseBusy, sender, link, Frames
<1>2. CASE Post(m)
  <2>1. UNCHANGED <<nw, obuf, wire, session, sock>>
    BY <1>2 DEF Post, link
  <2>2. \A d \in Coroutines : pc'[d] = pc[d] \/ (pc[d] = "none" /\ pc'[d] = "posted")
    BY <1>2 DEF Post, Free, Typed, TypeOK, SenderTypeOK
  <2>3. \A d \in Coroutines : pc'[d] # "overflow" /\ (pc'[d] \in Suspended <=> pc[d] \in Suspended)
    BY <2>2 DEF Frames, Suspended
  <2> QED BY <2>1, <2>3, SameFrames
<1>3. CASE StartInline(m)
  <2>1. CASE sendYield # Idle \/ sock = "none"
    BY <1>3, <2>1, SameFrames DEF StartInline, Fail, sender, link, hist, Frames
  <2>2. CASE sendYield = Idle /\ sock # "none"
    <3>1. \E c \in Free : StartWrite(c, m) /\ UNCHANGED <<link, wire>>
      BY <1>3, <2>2 DEF StartInline
    <3>2. \A d \in Coroutines : pc[d] \notin Suspended
      BY <2>2, ChannelAssumption DEF Turns, Yields
    <3> QED BY <3>1, <3>2, StartFrames DEF Free, link
  <2> QED BY <2>1, <2>2
<1> QED BY <1>1, <1>2, <1>3 DEF SendFromThread, SendFromLoop

\* What is left of a write that ended is whole, and so is what it wrote.
LEMMA EndWriteFrames ==
  ASSUME Typed, Turns, Frames, NEW c \in Coroutines, EndWrite(c)
  PROVE  Frames'
<1>1. /\ pc[c] \in Suspended /\ UNCHANGED <<sock, session, wire>> /\ op[c] # "none"
      /\ (op[c] \in {"error", "aborted"} \/ Written(c))
      /\ obuf' = LeftInPutArea(c)
  BY DEF EndWrite, link, Turns, Writers
<1>2. Whole(obuf') /\ Len(obuf') % 2 = 0
  <2>1. obuf' = <<>> \/ obuf' = obuf
    BY <1>1 DEF LeftInPutArea
  <2>2. 0 % 2 = 0
    OBVIOUS
  <2> QED BY <2>1, <2>2, EmptyWhole DEF Frames
<1>3. \A d \in Coroutines : pc'[d] \notin Suspended /\ pc'[d] # "overflow"
  BY <1>1 DEF EndWrite, Turns, Writers, Typed, TypeOK, SenderTypeOK, Suspended
<1>4. sock = "open" => Len(wire[session]) % 2 = 0
  <2> SUFFICES ASSUME sock = "open" PROVE Len(wire[session]) % 2 = 0
    OBVIOUS
  <2>1. op[c] \in {"none", "pending", "done"}
    BY DEF Turns, Wires
  <2>2. nw[c] = Len(obuf)
    BY <1>1, <2>1 DEF Written
  <2> QED BY <1>1, <2>2 DEF Frames
<1> QED BY <1>1, <1>2, <1>3, <1>4 DEF Frames

LEMMA SendStepFrames ==
  ASSUME Large = {}, Typed, Turns, Frames, NEW c \in Coroutines, SendStep(c)
  PROVE  Frames'
<1>1. pc \in [Coroutines -> Places] /\ \A d \in Coroutines : pc[d] # "overflow"
  BY DEF Typed, TypeOK, SenderTypeOK, Frames
<1>2. running = c => pc[c] \notin Suspended /\ nw[c] = 0
  BY DEF Turns, Writers, InLoop, Suspended
<1>3. ASSUME sendYield = c, running = c, sock # "none"
      PROVE  \A d \in Coroutines : pc[d] \notin Suspended
  BY <1>2, <1>3 DEF Turns, Yields
<1>4. ASSUME NEW p \in Places \ Suspended, pc[c] \notin Suspended, pc' = [pc EXCEPT ![c] = p],
             UNCHANGED <<nw, obuf, wire, session, sock>>
      PROVE  Frames'
  <2>1. \A d \in Coroutines : pc'[d] # "overflow" /\ (pc'[d] \in Suspended <=> pc[d] \in Suspended)
    BY <1>1, <1>4 DEF Suspended
  <2> QED BY <1>4, <2>1, SameFrames
<1>5. ASSUME UNCHANGED <<pc, nw, obuf, wire, session, sock>> PROVE Frames'
  BY <1>1, <1>5, SameFrames
<1>6. CASE BeginSend(c)
  BY <1>4, <1>5, <1>6 DEF BeginSend, Fail, Places, Suspended, link, hist, sender
<1>7. CASE FinishSend(c) \/ RefuseFront(c)
  BY <1>2, <1>4, <1>7 DEF FinishSend, RefuseFront, Places, InHandler, Suspended, link, hist
<1>8. CASE SerializeFront(c)
  <2>1. CASE sendYield # c
    BY <1>5, <1>8, <2>1 DEF SerializeFront, Fail, link, hist, sender
  <2>2. CASE sendYield = c
    <3>1. Front \in Messages
      BY <1>8, HeadAndTail DEF SerializeFront, Typed, TypeOK, RestTypeOK, Front
    <3>2. StartWrite(c, Front) /\ UNCHANGED <<sock, session, wire>>
      BY <1>8, <2>2 DEF SerializeFront, link, hist
    <3>3. \A d \in Coroutines : pc[d] \notin Suspended
      BY <1>3, <1>8, <2>2 DEF SerializeFront
    <3> QED BY <3>1, <3>2, <3>3, StartFrames
  <2> QED BY <2>1, <2>2
<1>9. CASE ContinueWrite(c)
  BY <1>5, <1>9 DEF ContinueWrite, Fail, link, hist, sender
<1>10. CASE FlushRest(c)
  BY <1>1, <1>10 DEF FlushRest
<1>11. CASE EndWrite(c)
  BY <1>11, EndWriteFrames
<1>12. CASE HandlerReturned(c)
  <2>1. /\ running = c /\ pc[c] \in InHandler
        /\ UNCHANGED <<nw, obuf, sock, session, wire>>
    BY <1>12 DEF HandlerReturned, link, hist
  <2>2. CASE pc' = [pc EXCEPT ![c] = "pop"]
    BY <1>2, <1>4, <2>1, <2>2 DEF Places, Suspended
  <2>3. CASE sendYield = c /\ pc' = [pc EXCEPT ![c] = "reflush"] /\ pc[c] # "refused"
    <3>1. sock # "none"
      BY <2>1, <2>3, ChannelAssumption DEF InHandler, Turns, Yields, Typed, TypeOK, LinkTypeOK
    <3>2. \A d \in Coroutines : pc[d] \notin Suspended /\ pc'[d] # "overflow" /\ nw'[d] = 0
      BY <1>1, <1>3, <2>1, <2>3, <3>1 DEF Turns, Writers
    <3>3. 0 % 2 = 0
      OBVIOUS
    <3> QED BY <2>1, <3>2, <3>3 DEF Frames
  <2>4. CASE UNCHANGED pc
    BY <1>5, <2>1, <2>4
  <2> QED BY <1>12, <2>2, <2>3, <2>4 DEF HandlerReturned
<1>13. CASE PopFront(c)
  BY <1>2, <1>4, <1>5, <1>13 DEF PopFront, Fail, Places, Suspended, link, hist, sender
<1> QED BY <1>6, <1>7, <1>8, <1>9, <1>10, <1>11, <1>12, <1>13 DEF SendStep

LEMMA WriteSomeFrames ==
  ASSUME Typed, Turns, Frames, NEW c \in Coroutines, WriteSome(c)
  PROVE  Frames'
<1>1. /\ op[c] = "pending" /\ sock = "open" /\ UNCHANGED <<pc, obuf, sock, session>>
      /\ session \in Sessions /\ nw[c] \in Nat /\ obuf \in Seq(Pieces)
      /\ wire[session] \in Seq(Pieces)
  BY DEF WriteSome, link, Typed, TypeOK, SenderTypeOK, LinkTypeOK, RestTypeOK, HistTypeOK
<1>2. PICK k \in nw[c] + 1 .. Len(obuf) :
        /\ wire' = [wire EXCEPT ![session] = @ \o SubSeq(obuf, nw[c] + 1, k)]
        /\ nw' = [nw EXCEPT ![c] = k]
  BY DEF WriteSome
<1>3. pc[c] \in Suspended /\ \A d \in Coroutines : pc[d] \in Suspended => d = c
  BY <1>1 DEF Turns, Writers
<1>4. /\ Whole(wire[session]) /\ Whole(obuf) /\ Len(wire[session]) % 2 = nw[c] % 2
      /\ Len(obuf) % 2 = 0 /\ \A d \in Coroutines : pc[d] # "overflow"
  BY <1>1, <1>3 DEF Frames
<1>5. /\ wire'[session] = wire[session] \o SubSeq(obuf, nw[c] + 1, k) /\ nw'[c] = k
      /\ \A s \in Sessions : s # session => wire'[s] = wire[s]
  BY <1>1, <1>2 DEF Typed, TypeOK, SenderTypeOK, HistTypeOK
<1>6. Whole(wire'[session]) /\ Len(wire'[session]) % 2 = k % 2
  <2>1. ASSUME NEW w \in Seq(Pieces), Whole(w), Len(w) % 2 = nw[c] % 2
        PROVE  /\ Whole(w \o SubSeq(obuf, nw[c] + 1, k))
               /\ Len(w \o SubSeq(obuf, nw[c] + 1, k)) % 2 = k % 2
    <3>1. Whole(obuf) /\ obuf \in Seq(Pieces) /\ nw[c] \in Nat /\ k \in nw[c] + 1 .. Len(obuf)
      BY <1>1, <1>2, <1>4
    <3> QED BY <2>1, <3>1, WholeJoin
  <2> QED BY <1>1, <1>4, <1>5, <2>1
<1>7. \A s \in Sessions : Whole(wire'[s])
  BY <1>5, <1>6 DEF Frames
<1> QED BY <1>1, <1>3, <1>4, <1>5, <1>6, <1>7 DEF Frames

LEMMA OtherFrames == ASSUME Typed, Turns, Frames, OtherStep PROVE Frames'
<1>1. UNCHANGED pc /\ \A c \in Coroutines : pc[c] # "overflow"
  BY OtherStepLeaves DEF Frames
<1>2. CASE ReceiveStep \/ StartReceive \/ Close \/ ConnectionBreaks \/ ReadSome \/ ReadFails
  <2>1. UNCHANGED <<nw, obuf, wire, session>> /\ (sock' = "open" => sock = "open")
    BY <1>2 DEF ReceiveStep, EndRead, EndReadFailed, ReceiverReturned, Deliver, StartReceive,
       Close, Closed, ConnectionBreaks, ReadSome, ReadFails, Fail, sender, link, hist
  <2> QED BY <1>1, <2>1, SameFrames
<1>3. CASE SetSocket
  <2>1. /\ UNCHANGED <<pc, nw, obuf, wire>> /\ session' = session + 1 /\ session' \in Sessions
        /\ \A c \in Coroutines : op[c] = "none"
    BY <1>3, ChannelAssumption
       DEF SetSocket, sender, hist, Typed, TypeOK, LinkTypeOK, Sessions
  <2>2. session \in Nat
    BY ChannelAssumption DEF Typed, TypeOK, LinkTypeOK
  <2>3. wire'[session'] = <<>> /\ \A c \in Coroutines : pc[c] \notin Suspended
    BY <2>1, <2>2 DEF Turns, Wires, Writers
  <2>4. 0 % 2 = 0
    OBVIOUS
  <2> QED BY <1>1, <2>1, <2>3, <2>4, EmptyWhole DEF Frames
<1>4. ASSUME NEW c \in Coroutines, WriteStep(c) PROVE Frames'
  <2>1. CASE WriteSome(c)
    BY <2>1, WriteSomeFrames
  <2>2. CASE WriteFails(c)
    BY <1>1, <2>2, SameFrames DEF WriteFails, link, hist
  <2> QED BY <1>4, <2>1, <2>2 DEF WriteStep
<1> QED BY <1>2, <1>3, <1>4 DEF OtherStep

\* While every message fits in the stream buffer the peer of each connection
\* reads whole messages, with any number of threads that send, whatever breaks,
\* closes and is opened again.
THEOREM WholeMessages == Large = {} => (Spec => []Framed)
<1> SUFFICES ASSUME Large = {} PROVE Spec => []Framed
  OBVIOUS
<1>1. Typed /\ Turns /\ Frames /\ [Next]_vars => Frames'
  <2> SUFFICES ASSUME Typed, Turns, Frames, [Next]_vars PROVE Frames'
    OBVIOUS
  <2>1. CASE UNCHANGED vars
    BY <2>1, SameFrames DEF vars, sender, hist, Frames
  <2>2. ASSUME NEW m \in Messages, SendFromThread(m) \/ SendFromLoop(m) PROVE Frames'
    BY <2>2, SendFrames
  <2>3. ASSUME NEW c \in Coroutines, SendStep(c) PROVE Frames'
    BY <2>3, SendStepFrames
  <2>4. CASE OtherStep
    BY <2>4, OtherFrames
  <2> QED BY <2>1, <2>2, <2>3, <2>4 DEF Next, Environment, OtherStep
<1>2. Frames => Framed
  BY DEF Frames, Framed, Whole
<1> QED BY <1>1, <1>2, InitFrames, AlwaysTurns, PTL DEF Spec

-----------------------------------------------------------------------------
(***************************************************************************)
(* Whoever sends, the queue is the end of the list of accepted messages,   *)
(* and the message being written is the queue's first or has left it.      *)
(***************************************************************************)
Writing == {"overflow", "flush"}

Line ==
  /\ Left >= 0
  /\ \A i \in 1..Len(queue) : queue[i] = accepted[Left + i]
  /\ \A i, j \in 1..Len(accepted) : accepted[i] = accepted[j] => i = j
  /\ \A c \in Coroutines : pc[c] \in Writing =>
       \E i \in 1..Left + 1 : i <= Len(accepted) /\ accepted[i] = msg[c]

LEMMA InitLine == Init => Line
<1> QED BY DEF Init, Line, Left, Writing

LEMMA LineFacts ==
  ASSUME Typed, Line
  PROVE  /\ queue \in Seq(Messages) /\ accepted \in Seq(Messages)
         /\ Len(queue) \in Nat /\ Len(accepted) \in Nat
         /\ Left \in Nat /\ Left + Len(queue) = Len(accepted)
         /\ queue # <<>> => /\ Len(queue) > 0 /\ Front = queue[1] /\ Front \in Messages
                            /\ accepted[Left + 1] = Front /\ Left + 1 \in 1..Len(accepted)
<1>1. /\ queue \in Seq(Messages) /\ accepted \in Seq(Messages)
      /\ Len(queue) \in Nat /\ Len(accepted) \in Nat
  BY DEF Typed, TypeOK, RestTypeOK, HistTypeOK
<1>2. Left \in Nat /\ Left + Len(queue) = Len(accepted)
  BY <1>1 DEF Line, Left
<1>3. ASSUME queue # <<>>
      PROVE  /\ Len(queue) > 0 /\ Front = queue[1] /\ Front \in Messages
             /\ accepted[Left + 1] = Front /\ Left + 1 \in 1..Len(accepted)
  <2>1. Len(queue) > 0 /\ Front = queue[1] /\ Front \in Messages
    BY <1>1, <1>3, HeadAndTail DEF Front
  <2>2. accepted[Left + 1] = queue[1]
    BY <1>1, <2>1 DEF Line
  <2> QED BY <1>1, <1>2, <2>1, <2>2
<1> QED BY <1>1, <1>2, <1>3

\* A step that leaves the queue alone; who starts to write, writes its front.
LEMMA SameLine ==
  ASSUME Typed, Line, UNCHANGED <<queue, accepted>>,
         \A c \in Coroutines : pc'[c] \in Writing =>
           (pc[c] \in Writing /\ msg'[c] = msg[c]) \/ (queue # <<>> /\ msg'[c] = Front)
  PROVE  Line'
<1>1. Left' = Left
  BY DEF Left
<1>2. ASSUME NEW c \in Coroutines, pc'[c] \in Writing
      PROVE  \E i \in 1..Left + 1 : i <= Len(accepted) /\ accepted[i] = msg'[c]
  <2>1. CASE pc[c] \in Writing /\ msg'[c] = msg[c]
    BY <2>1 DEF Line
  <2>2. CASE queue # <<>> /\ msg'[c] = Front
    <3>1. Left \in Nat /\ accepted[Left + 1] = Front /\ Left + 1 \in 1..Len(accepted)
      BY <2>2, LineFacts
    <3>2. Left + 1 \in 1..Left + 1 /\ Left + 1 <= Len(accepted)
      BY <3>1
    <3> QED BY <2>2, <3>1, <3>2
  <2> QED BY <1>2, <2>1, <2>2
<1> QED BY <1>1, <1>2 DEF Line

LEMMA EnqueueLine ==
  ASSUME Typed, Line, NEW m \in Messages, Unsent(m), Enqueue(m),
         \A c \in Coroutines : pc'[c] \in Writing =>
           (pc[c] \in Writing /\ msg'[c] = msg[c]) \/ (queue = <<>> /\ msg'[c] = m)
  PROVE  Line'
<1>1. /\ queue \in Seq(Messages) /\ accepted \in Seq(Messages)
      /\ Len(queue) \in Nat /\ Len(accepted) \in Nat
      /\ Left \in Nat /\ Left + Len(queue) = Len(accepted)
  BY LineFacts
<1>2. /\ queue' = Append(queue, m) /\ accepted' = Append(accepted, m)
      /\ Len(queue') = Len(queue) + 1 /\ Len(accepted') = Len(accepted) + 1
      /\ \A i \in 1..Len(queue) : queue'[i] = queue[i]
      /\ \A i \in 1..Len(accepted) : accepted'[i] = accepted[i]
      /\ queue'[Len(queue) + 1] = m /\ accepted'[Len(accepted) + 1] = m
  BY <1>1 DEF Enqueue
<1>3. Left' = Left
  BY <1>1, <1>2 DEF Left
<1>4. \A i \in 1..Len(queue') : queue'[i] = accepted'[Left' + i]
  <2> TAKE i \in 1..Len(queue')
  <2>1. CASE i \in 1..Len(queue)
    <3>1. Left + i \in 1..Len(accepted)
      BY <1>1, <2>1
    <3> QED BY <1>2, <1>3, <2>1, <3>1 DEF Line
  <2>2. CASE i = Len(queue) + 1
    <3>1. Left + i = Len(accepted) + 1
      BY <1>1, <2>2
    <3> QED BY <1>2, <1>3, <2>2, <3>1
  <2>3. i \in 1..Len(queue) \/ i = Len(queue) + 1
    BY <1>1, <1>2
  <2> QED BY <2>1, <2>2, <2>3
<1>5. \A i, j \in 1..Len(accepted') : accepted'[i] = accepted'[j] => i = j
  BY <1>1, <1>2 DEF Unsent, Line
<1>6. ASSUME NEW c \in Coroutines, pc'[c] \in Writing
      PROVE  \E i \in 1..Left + 1 : i <= Len(accepted') /\ accepted'[i] = msg'[c]
  <2>1. CASE pc[c] \in Writing /\ msg'[c] = msg[c]
    <3>1. PICK i \in 1..Left + 1 : i <= Len(accepted) /\ accepted[i] = msg[c]
      BY <2>1 DEF Line
    <3>2. i \in 1..Len(accepted) /\ i <= Len(accepted')
      BY <1>1, <1>2, <3>1
    <3> QED BY <1>2, <2>1, <3>1, <3>2
  <2>2. CASE queue = <<>> /\ msg'[c] = m
    <3>1. Left = Len(accepted) /\ Left + 1 \in 1..Left + 1 /\ Left + 1 <= Len(accepted')
      BY <1>1, <1>2, <2>2
    <3> QED BY <1>2, <2>2, <3>1
  <2> QED BY <1>6, <2>1, <2>2
<1> QED BY <1>1, <1>3, <1>4, <1>5, <1>6 DEF Line

LEMMA PopLine ==
  ASSUME Typed, Line, queue # <<>>, queue' = Tail(queue), UNCHANGED <<accepted, msg>>,
         \A c \in Coroutines : pc'[c] \in Writing => pc[c] \in Writing
  PROVE  Line' /\ Left' = Left + 1
<1>1. /\ queue \in Seq(Messages) /\ Len(queue) \in Nat /\ Len(accepted) \in Nat
      /\ Left \in Nat /\ Left + Len(queue) = Len(accepted) /\ Len(queue) > 0
  BY LineFacts
<1>2. Len(queue') = Len(queue) - 1 /\ \A i \in 1..Len(queue') : queue'[i] = queue[i + 1]
  BY <1>1
<1>3. Left' = Left + 1
  BY <1>1, <1>2 DEF Left
<1>4. \A i \in 1..Len(queue') : queue'[i] = accepted'[Left' + i]
  <2> TAKE i \in 1..Len(queue')
  <2>1. i + 1 \in 1..Len(queue) /\ Left' + i = Left + (i + 1)
    BY <1>1, <1>2, <1>3
  <2> QED BY <1>2, <2>1 DEF Line
<1>5. ASSUME NEW c \in Coroutines, pc'[c] \in Writing
      PROVE  \E i \in 1..Left' + 1 : i <= Len(accepted') /\ accepted'[i] = msg'[c]
  <2>1. PICK i \in 1..Left + 1 : i <= Len(accepted) /\ accepted[i] = msg[c]
    BY <1>5 DEF Line
  <2>2. i \in 1..Left' + 1
    BY <1>1, <1>3
  <2> QED BY <2>1, <2>2
<1>6. /\ Left' >= 0
      /\ \A i, j \in 1..Len(accepted') : accepted'[i] = accepted'[j] => i = j
  BY <1>1, <1>3 DEF Line
<1> QED BY <1>3, <1>4, <1>5, <1>6, Zenon DEF Line

LEMMA SendLine ==
  ASSUME Typed, Line, NEW m \in Messages, SendFromThread(m) \/ SendFromLoop(m)
  PROVE  Line'
<1>1. Unsent(m) /\ pc \in [Coroutines -> Places] /\ msg \in [Coroutines -> Messages \cup {Idle}]
  BY DEF SendFromThread, SendFromLoop, Typed, TypeOK, SenderTypeOK
<1>2. CASE UNCHANGED <<queue, accepted, pc, msg>>
  BY <1>2, SameLine
<1>3. CASE Post(m)
  <2>1. \A c \in Coroutines : pc'[c] \in Writing => pc[c] \in Writing /\ msg'[c] = msg[c]
    BY <1>1, <1>3 DEF Post, Free, Writing
  <2> QED BY <1>1, <1>3, <2>1, EnqueueLine DEF Post
<1>4. CASE ShouldSpawn /\ \E c \in Free : Enqueue(m) /\ StartWrite(c, m)
  <2>1. PICK c \in Free : Enqueue(m) /\ StartWrite(c, m)
    BY <1>4
  <2>2. \A d \in Coroutines : pc'[d] \in Writing =>
          (pc[d] \in Writing /\ msg'[d] = msg[d]) \/ (queue = <<>> /\ msg'[d] = m)
    BY <1>1, <1>4, <2>1 DEF StartWrite, Free, ShouldSpawn
  <2> QED BY <1>1, <2>1, <2>2, EnqueueLine
<1> QED BY <1>2, <1>3, <1>4
        DEF SendFromThread, SendFromLoop, RefuseBusy, StartInline, Fail, sender, hist

LEMMA SendStepLine ==
  ASSUME Typed, Turns, Line, NEW c \in Coroutines, SendStep(c)
  PROVE  Line'
<1>1. pc \in [Coroutines -> Places] /\ msg \in [Coroutines -> Messages \cup {Idle}]
  BY DEF Typed, TypeOK, SenderTypeOK
<1>2. ASSUME UNCHANGED <<queue, accepted, pc, msg>> PROVE Line'
  BY <1>2, SameLine
<1>3. ASSUME NEW p, pc' = [pc EXCEPT ![c] = p], UNCHANGED <<queue, accepted>>,
             \A d \in Coroutines : d # c => msg'[d] = msg[d],
             p \in Writing => \/ pc[c] \in Writing /\ msg'[c] = msg[c]
                              \/ queue # <<>> /\ msg'[c] = Front
      PROVE  Line'
  <2>1. \A d \in Coroutines : pc'[d] \in Writing =>
          (pc[d] \in Writing /\ msg'[d] = msg[d]) \/ (queue # <<>> /\ msg'[d] = Front)
    BY <1>1, <1>3
  <2> QED BY <1>3, <2>1, SameLine
<1>4. CASE BeginSend(c) \/ FinishSend(c) \/ RefuseFront(c)
  BY <1>1, <1>2, <1>3, <1>4 DEF BeginSend, FinishSend, RefuseFront, Fail, sender, hist, Writing
<1>5. CASE SerializeFront(c)
  BY <1>1, <1>2, <1>3, <1>5 DEF SerializeFront, StartWrite, Fail, sender, hist
<1>6. CASE ContinueWrite(c)
  BY <1>2, <1>6 DEF ContinueWrite, Fail, sender, hist
<1>7. CASE FlushRest(c)
  BY <1>3, <1>7 DEF FlushRest, Writing
<1>8. CASE EndWrite(c)
  <2>1. \A d \in Coroutines : pc'[d] \in Writing => pc[d] \in Writing /\ msg'[d] = msg[d]
    BY <1>1, <1>8 DEF EndWrite, Writing
  <2> QED BY <1>8, <2>1, SameLine DEF EndWrite
<1>9. CASE HandlerReturned(c)
  BY <1>2, <1>3, <1>9 DEF HandlerReturned, hist, Writing
<1>10. CASE PopFront(c)
  <2>1. CASE queue = <<>>
    BY <1>2, <1>10, <2>1 DEF PopFront, Fail, sender, hist
  <2>2. CASE queue # <<>>
    <3>1. /\ queue' = Tail(queue) /\ UNCHANGED <<accepted, msg>>
          /\ pc' = [pc EXCEPT ![c] = "check"]
      BY <1>10, <2>2 DEF PopFront, hist
    <3>2. \A d \in Coroutines : pc'[d] \in Writing => pc[d] \in Writing
      BY <1>1, <3>1 DEF Writing
    <3> QED BY <2>2, <3>1, <3>2, PopLine
  <2> QED BY <2>1, <2>2
<1> QED BY <1>4, <1>5, <1>6, <1>7, <1>8, <1>9, <1>10 DEF SendStep

LEMMA NextLine == Typed /\ Turns /\ Line /\ [Next]_vars => Line'
<1> SUFFICES ASSUME Typed, Turns, Line, [Next]_vars PROVE Line'
  OBVIOUS
<1>1. CASE UNCHANGED vars
  BY <1>1, SameLine DEF vars, sender, hist
<1>2. ASSUME NEW m \in Messages, SendFromThread(m) \/ SendFromLoop(m) PROVE Line'
  BY <1>2, SendLine
<1>3. ASSUME NEW c \in Coroutines, SendStep(c) PROVE Line'
  BY <1>3, SendStepLine
<1>4. CASE OtherStep
  BY <1>4, OtherStepLeaves, SameLine
<1> QED BY <1>1, <1>2, <1>3, <1>4 DEF Next, Environment, OtherStep

-----------------------------------------------------------------------------
(***************************************************************************)
(* Whoever sends, the pieces of the byte stream pass through the put area  *)
(* in the order of their messages.  Top bounds what has been serialized: a *)
(* message's pieces enter above it, and the message leaves the queue only  *)
(* with its second piece below it.                                         *)
(***************************************************************************)
Known == Typed /\ Turns /\ Line

\* The place of a piece in the stream of the messages of a list.
Rank(list, p)   == 2 * (CHOOSE i \in 1..Len(list) : list[i] = p[1]) + p[2]
Listed(list, p) == \E i \in 1..Len(list) : list[i] = p[1]

Bound(list, place, message, left) ==
  IF \E c \in Coroutines : place[c] \in Writing
  THEN LET c == CHOOSE c \in Coroutines : place[c] \in Writing
       IN  Rank(list, <<message[c], IF place[c] = "overflow" THEN 1 ELSE 2>>)
  ELSE 2 * left + IF \E c \in Coroutines : place[c] \in Handled THEN 4 ELSE 2
Top == Bound(accepted, pc, msg, Left)

Order ==
  /\ \A s \in Sessions : \A i \in 1..Len(wire[s]) :
       Listed(accepted, wire[s][i]) /\ Rank(accepted, wire[s][i]) <= Top
  /\ \A j \in 1..Len(obuf) :
       Listed(accepted, obuf[j]) /\ Rank(accepted, obuf[j]) <= Top
  /\ \A s \in Sessions : \A i, j \in 1..Len(wire[s]) :
       i < j => Rank(accepted, wire[s][i]) < Rank(accepted, wire[s][j])
  /\ \A i, j \in 1..Len(obuf) : i < j => Rank(accepted, obuf[i]) < Rank(accepted, obuf[j])
  /\ sock = "open" => \A i \in 1..Len(wire[session]), j \in 1..Len(obuf) :
       \/ Rank(accepted, wire[session][i]) < Rank(accepted, obuf[j])
       \/ \E c \in Coroutines : pc[c] \in Suspended /\ j <= nw[c]

\* No piece changes its place.
SameRanks ==
  \A p \in Pieces : Listed(accepted, p) =>
    /\ Listed(accepted', p) /\ Rank(accepted', p) = Rank(accepted, p)
    /\ Rank(accepted, p) \in Int

LEMMA InitKnown == Init => Known
<1> QED BY InitTyped, InitTurns, InitLine DEF Known

LEMMA NextKnown == Known /\ [Next]_vars => Known'
<1> QED BY NextTyped, NextTurns, NextLine DEF Known

LEMMA RankIs ==
  ASSUME NEW list \in Seq(Messages),
         \A i, j \in 1..Len(list) : list[i] = list[j] => i = j,
         NEW i \in 1..Len(list), NEW p \in Pieces, list[i] = p[1]
  PROVE  Listed(list, p) /\ Rank(list, p) = 2 * i + p[2] /\ Rank(list, p) \in Int
<1>1. (CHOOSE j \in 1..Len(list) : list[j] = p[1]) = i
  <2>1. \A j \in 1..Len(list) : list[j] = p[1] => j = i
    OBVIOUS
  <2> QED BY <2>1
<1>2. p[2] \in Int /\ i \in Int
  BY DEF Pieces
<1> QED BY <1>1, <1>2 DEF Rank, Listed

LEMMA AcceptedGrows ==
  ASSUME [Next]_vars
  PROVE  accepted' = accepted \/ \E m \in Messages : accepted' = Append(accepted, m)
<1>1. CASE UNCHANGED vars
  BY <1>1 DEF vars, hist
<1>2. ASSUME NEW m \in Messages, SendFromThread(m) \/ SendFromLoop(m)
      PROVE  accepted' = accepted \/ accepted' = Append(accepted, m)
  BY <1>2 DEF SendFromThread, SendFromLoop, RefuseBusy, Post, StartInline, Enqueue, Fail, hist
<1>3. ASSUME NEW c \in Coroutines, SendStep(c) PROVE accepted' = accepted
  BY <1>3 DEF SendStep, BeginSend, FinishSend, RefuseFront, SerializeFront, ContinueWrite,
     FlushRest, EndWrite, HandlerReturned, PopFront, Fail, hist
<1>4. CASE OtherStep
  BY <1>4, OtherStepLeaves
<1> QED BY <1>1, <1>2, <1>3, <1>4 DEF Next, Environment, OtherStep

LEMMA RanksKept == Known /\ Known' /\ [Next]_vars => SameRanks
<1> SUFFICES ASSUME Known, Known', [Next]_vars, NEW p \in Pieces, Listed(accepted, p)
             PROVE  /\ Listed(accepted', p) /\ Rank(accepted', p) = Rank(accepted, p)
                    /\ Rank(accepted, p) \in Int
  BY DEF SameRanks
<1>1. /\ accepted \in Seq(Messages) /\ \A i, j \in 1..Len(accepted) : accepted[i] = accepted[j] => i = j
      /\ accepted' \in Seq(Messages)
      /\ \A i, j \in 1..Len(accepted') : accepted'[i] = accepted'[j] => i = j
  BY DEF Known, Typed, TypeOK, HistTypeOK, Line
<1>2. PICK i \in 1..Len(accepted) : accepted[i] = p[1]
  BY DEF Listed
<1>3. i \in 1..Len(accepted') /\ accepted'[i] = p[1]
  BY <1>1, <1>2, AcceptedGrows
<1>4. Rank(accepted, p) = 2 * i + p[2] /\ Rank(accepted, p) \in Int
  BY <1>1, <1>2, RankIs
<1>5. Listed(accepted', p) /\ Rank(accepted', p) = 2 * i + p[2]
  BY <1>1, <1>3, RankIs
<1> QED BY <1>4, <1>5

\* The message that is being written has not gone beyond the queue's front.
LEMMA WritingRank ==
  ASSUME Known, NEW c \in Coroutines, pc[c] \in Writing
  PROVE  \E i \in 1..Left + 1 : \A k \in {1, 2} :
           /\ <<msg[c], k>> \in Pieces /\ Listed(accepted, <<msg[c], k>>)
           /\ Rank(accepted, <<msg[c], k>>) = 2 * i + k
<1>1. /\ accepted \in Seq(Messages) /\ \A i, j \in 1..Len(accepted) : accepted[i] = accepted[j] => i = j
      /\ Len(accepted) \in Nat /\ Left \in Nat /\ msg[c] \in Messages
  BY LineFacts DEF Known, Line, Typed, HasMessage, Suspended, Writing
<1>2. PICK i \in 1..Left + 1 : i <= Len(accepted) /\ accepted[i] = msg[c]
  BY DEF Known, Line
<1>3. ASSUME NEW k \in {1, 2}
      PROVE  /\ <<msg[c], k>> \in Pieces /\ Listed(accepted, <<msg[c], k>>)
             /\ Rank(accepted, <<msg[c], k>>) = 2 * i + k
  <2>1. <<msg[c], k>> \in Pieces /\ <<msg[c], k>>[1] = msg[c] /\ <<msg[c], k>>[2] = k
    BY <1>1 DEF Pieces
  <2>2. i \in 1..Len(accepted)
    BY <1>1, <1>2
  <2> QED BY <1>1, <1>2, <2>1, <2>2, RankIs
<1> QED BY <1>3

\* The bound while a message is being written, and while none is.
LEMMA BoundIs ==
  ASSUME NEW list, NEW place, NEW message, NEW left, NEW c \in Coroutines, place[c] \in Writing,
         \A d \in Coroutines : place[d] \in Writing => d = c
  PROVE  Bound(list, place, message, left) =
           Rank(list, <<message[c], IF place[c] = "overflow" THEN 1 ELSE 2>>)
<1>1. (CHOOSE d \in Coroutines : place[d] \in Writing) = c
  OBVIOUS
<1> QED BY <1>1 DEF Bound

LEMMA BoundAtRest ==
  ASSUME NEW list, NEW place, NEW message, NEW left,
         \A d \in Coroutines : place[d] \notin Writing
  PROVE  /\ (\E c \in Coroutines : place[c] \in Handled) =>
              Bound(list, place, message, left) = 2 * left + 4
         /\ (\A c \in Coroutines : place[c] \notin Handled) =>
              Bound(list, place, message, left) = 2 * left + 2
<1> QED BY DEF Bound

LEMMA OneWriting ==
  ASSUME Known, NEW c \in Coroutines, NEW d \in Coroutines, pc[c] \in Writing, pc[d] \in Writing
  PROVE  c = d
<1> QED BY DEF Known, Turns, Writers, Writing, Suspended

LEMMA TopIsInt == Known => Top \in Int
<1> SUFFICES ASSUME Known PROVE Top \in Int
  OBVIOUS
<1>1. Left \in Nat
  BY LineFacts DEF Known
<1>2. ASSUME NEW c \in Coroutines, pc[c] \in Writing PROVE Top \in Int
  <2>1. Top = Rank(accepted, <<msg[c], IF pc[c] = "overflow" THEN 1 ELSE 2>>)
    BY <1>2, OneWriting, BoundIs DEF Top
  <2>2. PICK i \in 1..Left + 1 : \A k \in {1, 2} : Rank(accepted, <<msg[c], k>>) = 2 * i + k
    BY <1>2, WritingRank
  <2>3. Top \in {2 * i + 1, 2 * i + 2}
    BY <2>1, <2>2
  <2> QED BY <1>1, <2>3
<1>3. ASSUME \A c \in Coroutines : pc[c] \notin Writing PROVE Top \in Int
  BY <1>1, <1>3, BoundAtRest DEF Top
<1> QED BY <1>2, <1>3

\* While nobody starts, goes on with or ends a message, Top does not fall.
LEMMA TopKept ==
  ASSUME Known, Known', SameRanks,
         \A c \in Coroutines : pc[c] \in Writing => pc'[c] = pc[c] /\ msg'[c] = msg[c],
         \A c \in Coroutines : pc'[c] \in Writing => pc[c] \in Writing,
         Left' = Left /\ (\E c \in Coroutines : pc[c] \in Handled) =>
           \E c \in Coroutines : pc'[c] \in Handled,
         Left' \in {Left, Left + 1}
  PROVE  Top <= Top'
<1>1. Left \in Nat
  BY LineFacts DEF Known
<1>2. ASSUME NEW c \in Coroutines, pc[c] \in Writing PROVE Top <= Top'
  <2> DEFINE p == <<msg[c], IF pc[c] = "overflow" THEN 1 ELSE 2>>
  <2>1. Top = Rank(accepted, p)
    BY <1>2, OneWriting, BoundIs DEF Top
  <2>2. pc'[c] \in Writing /\ \A d \in Coroutines : pc'[d] \in Writing => d = c
    BY <1>2, OneWriting
  <2>3. Top' = Rank(accepted', <<msg'[c], IF pc'[c] = "overflow" THEN 1 ELSE 2>>)
    <3>1. Bound(accepted', pc', msg', Left') =
            Rank(accepted', <<msg'[c], IF pc'[c] = "overflow" THEN 1 ELSE 2>>)
      BY <2>2, BoundIs
    <3> QED BY <3>1 DEF Top
  <2>4. Top' = Rank(accepted', p)
    BY <1>2, <2>3
  <2>5. p \in Pieces /\ Listed(accepted, p)
    BY <1>2, WritingRank
  <2>6. Rank(accepted', p) = Rank(accepted, p) /\ Rank(accepted, p) \in Int
    BY <2>5 DEF SameRanks
  <2> HIDE DEF p
  <2> QED BY <2>1, <2>4, <2>6
<1>3. ASSUME \A c \in Coroutines : pc[c] \notin Writing PROVE Top <= Top'
  <2>1. \A c \in Coroutines : pc'[c] \notin Writing
    BY <1>3
  <2>2. Top = 2 * Left + (IF \E c \in Coroutines : pc[c] \in Handled THEN 4 ELSE 2)
    BY <1>3, BoundAtRest DEF Top
  <2>3. Top' = 2 * Left' + (IF \E c \in Coroutines : pc'[c] \in Handled THEN 4 ELSE 2)
    <3>1. Bound(accepted', pc', msg', Left') =
            2 * Left' + (IF \E c \in Coroutines : pc'[c] \in Handled THEN 4 ELSE 2)
      BY <2>1, BoundAtRest
    <3> QED BY <3>1 DEF Top
  <2>4. CASE Left' = Left
    BY <1>1, <2>2, <2>3, <2>4
  <2>5. CASE Left' = Left + 1
    BY <1>1, <2>2, <2>3, <2>5
  <2> QED BY <2>4, <2>5
<1> QED BY <1>2, <1>3

\* A step that writes nothing: the put area loses pieces from its front or as a
\* whole, and what it gains lies above Top.
LEMMA OrderKept ==
  ASSUME Known, Known', SameRanks, Order, UNCHANGED <<wire, session>>,
         sock' = "open" => sock = "open", Top <= Top',
         \A j \in 1..Len(obuf') :
           \/ /\ j \in 1..Len(obuf) /\ obuf'[j] = obuf[j]
              /\ sock' = "open" => \A c \in Coroutines : pc[c] \in Suspended /\ j <= nw[c] =>
                                      \E d \in Coroutines : pc'[d] \in Suspended /\ j <= nw'[d]
           \/ /\ Listed(accepted', obuf'[j]) /\ Top < Rank(accepted', obuf'[j])
              /\ Rank(accepted', obuf'[j]) \in Int /\ Rank(accepted', obuf'[j]) <= Top',
         \A i, j \in 1..Len(obuf') : i < j /\ Top < Rank(accepted', obuf'[i]) =>
           Rank(accepted', obuf'[i]) < Rank(accepted', obuf'[j])
  PROVE  Order'
<1>0. PICK t \in Int, u \in Int : t = Top /\ u = Top' /\ t <= u
  <2>1. Top \in Int /\ (Top \in Int)'
    BY TopIsInt, PTL
  <2> QED BY <2>1
<1>1. /\ \A s \in Sessions : wire[s] \in Seq(Pieces)
      /\ \A j \in 1..Len(obuf) : obuf[j] \in Pieces
      /\ sock = "open" => session \in Sessions
      /\ wire' = wire /\ session' = session
  BY DEF Known, Typed, TypeOK, HistTypeOK, RestTypeOK, LinkTypeOK
<1>2. ASSUME NEW s \in Sessions, NEW i \in 1..Len(wire[s])
      PROVE  /\ Listed(accepted', wire'[s][i])
             /\ Rank(accepted', wire'[s][i]) = Rank(accepted, wire[s][i])
             /\ Rank(accepted, wire[s][i]) \in Int /\ Rank(accepted, wire[s][i]) <= t
  <2>1. wire[s][i] \in Pieces /\ Listed(accepted, wire[s][i]) /\ Rank(accepted, wire[s][i]) <= t
    BY <1>0, <1>1 DEF Order
  <2> QED BY <1>1, <2>1 DEF SameRanks
<1>3. ASSUME NEW j \in 1..Len(obuf)
      PROVE  /\ Listed(accepted', obuf[j]) /\ Rank(accepted', obuf[j]) = Rank(accepted, obuf[j])
             /\ Rank(accepted, obuf[j]) \in Int /\ Rank(accepted, obuf[j]) <= t
  <2>1. obuf[j] \in Pieces /\ Listed(accepted, obuf[j]) /\ Rank(accepted, obuf[j]) <= t
    BY <1>0, <1>1 DEF Order
  <2> QED BY <2>1 DEF SameRanks
<1> DEFINE Old(j) == /\ j \in 1..Len(obuf) /\ obuf'[j] = obuf[j]
                     /\ sock' = "open" => \A c \in Coroutines : pc[c] \in Suspended /\ j <= nw[c] =>
                          \E d \in Coroutines : pc'[d] \in Suspended /\ j <= nw'[d]
           R(j)   == Rank(accepted', obuf'[j])
<1>4. ASSUME NEW j \in 1..Len(obuf')
      PROVE  /\ R(j) \in Int /\ Listed(accepted', obuf'[j]) /\ R(j) <= u
             /\ Old(j) \/ t < R(j)
             /\ Old(j) => R(j) = Rank(accepted, obuf[j]) /\ R(j) <= t
  <2>1. CASE Old(j)
    <3>1. j \in 1..Len(obuf) /\ obuf'[j] = obuf[j]
      BY <2>1
    <3> QED BY <1>0, <1>3, <2>1, <3>1
  <2>2. CASE ~Old(j)
    BY <1>0, <2>2
  <2> QED BY <2>1, <2>2
<1>5. \A i, j \in 1..Len(obuf') : i < j /\ t < R(i) => R(i) < R(j)
  BY <1>0
<1>6. \A i, j \in 1..Len(obuf) : i < j => Rank(accepted, obuf[i]) < Rank(accepted, obuf[j])
  BY DEF Order
<1>7. \A i, j \in 1..Len(obuf') : i < j => R(i) < R(j)
  <2> SUFFICES ASSUME NEW i \in 1..Len(obuf'), NEW j \in 1..Len(obuf'), i < j PROVE R(i) < R(j)
    OBVIOUS
  <2>1. CASE t < R(i)
    BY <1>5, <2>1
  <2>2. CASE Old(i) /\ t < R(j)
    BY <1>4, <2>2
  <2>3. CASE Old(i) /\ Old(j)
    <3>1. i \in 1..Len(obuf) /\ j \in 1..Len(obuf)
      BY <2>3
    <3>2. R(i) = Rank(accepted, obuf[i]) /\ R(j) = Rank(accepted, obuf[j])
      BY <1>4, <2>3
    <3> QED BY <1>6, <3>1, <3>2
  <2> QED BY <1>4, <2>1, <2>2, <2>3
<1>8. \A s \in Sessions : \A i \in 1..Len(wire'[s]) :
        Listed(accepted', wire'[s][i]) /\ Rank(accepted', wire'[s][i]) <= u
  <2> SUFFICES ASSUME NEW s \in Sessions, NEW i \in 1..Len(wire[s])
               PROVE  Listed(accepted', wire'[s][i]) /\ Rank(accepted', wire'[s][i]) <= u
    BY <1>1
  <2>1. Listed(accepted', wire'[s][i]) /\ Rank(accepted', wire'[s][i]) <= t
    BY <1>2
  <2>2. Rank(accepted', wire'[s][i]) \in Int
    BY <1>2
  <2> QED BY <1>0, <2>1, <2>2
<1>9. \A s \in Sessions : \A i, j \in 1..Len(wire'[s]) :
        i < j => Rank(accepted', wire'[s][i]) < Rank(accepted', wire'[s][j])
  <2> SUFFICES ASSUME NEW s \in Sessions, NEW i \in 1..Len(wire[s]), NEW j \in 1..Len(wire[s]), i < j
               PROVE  Rank(accepted', wire'[s][i]) < Rank(accepted', wire'[s][j])
    BY <1>1
  <2>1. Rank(accepted, wire[s][i]) < Rank(accepted, wire[s][j])
    BY DEF Order
  <2> QED BY <1>2, <2>1
<1>10. ASSUME sock' = "open", NEW i \in 1..Len(wire'[session']), NEW j \in 1..Len(obuf')
       PROVE  \/ Rank(accepted', wire'[session'][i]) < R(j)
              \/ \E c \in Coroutines : pc'[c] \in Suspended /\ j <= nw'[c]
  <2>1. sock = "open" /\ session \in Sessions /\ i \in 1..Len(wire[session])
    BY <1>1, <1>10
  <2>2. /\ Rank(accepted', wire'[session'][i]) = Rank(accepted, wire[session][i])
        /\ Rank(accepted, wire[session][i]) \in Int /\ Rank(accepted, wire[session][i]) <= t
    BY <1>1, <1>2, <2>1
  <2>3. CASE t < R(j)
    BY <1>4, <2>2, <2>3
  <2>4. CASE Old(j)
    <3>1. j \in 1..Len(obuf) /\ R(j) = Rank(accepted, obuf[j])
      BY <1>4, <2>4
    <3>2. \/ Rank(accepted, wire[session][i]) < Rank(accepted, obuf[j])
          \/ \E c \in Coroutines : pc[c] \in Suspended /\ j <= nw[c]
      BY <2>1, <3>1 DEF Order
    <3> QED BY <1>10, <2>2, <2>4, <3>1, <3>2
  <2> QED BY <1>4, <2>3, <2>4
<1>11. \A j \in 1..Len(obuf') : Listed(accepted', obuf'[j]) /\ Rank(accepted', obuf'[j]) <= u
  BY <1>4
<1> HIDE DEF Old
<1> QED BY <1>0, <1>7, <1>8, <1>9, <1>10, <1>11 DEF Order

\* A step that leaves the put area alone too.
LEMMA OrderSame ==
  ASSUME Known, Known', SameRanks, Order, UNCHANGED <<wire, session, obuf>>,
         sock' = "open" => /\ sock = "open"
                           /\ \A c \in Coroutines : pc[c] \in Suspended =>
                                pc'[c] \in Suspended /\ nw'[c] = nw[c],
         Top <= Top'
  PROVE  Order'
<1>1. Top \in Int
  BY TopIsInt
<1>2. \A j \in 1..Len(obuf) : ~(Top < Rank(accepted', obuf'[j]))
  <2> TAKE j \in 1..Len(obuf)
  <2>1. /\ obuf[j] \in Pieces /\ Listed(accepted, obuf[j]) /\ obuf'[j] = obuf[j]
        /\ Rank(accepted, obuf[j]) <= Top
    BY DEF Order, Known, Typed, TypeOK, RestTypeOK
  <2> QED BY <1>1, <2>1 DEF SameRanks
<1>3. \A j \in 1..Len(obuf') :
         /\ j \in 1..Len(obuf) /\ obuf'[j] = obuf[j]
         /\ sock' = "open" => \A c \in Coroutines : pc[c] \in Suspended /\ j <= nw[c] =>
                                \E d \in Coroutines : pc'[d] \in Suspended /\ j <= nw'[d]
  OBVIOUS
<1>4. \A i, j \in 1..Len(obuf') : i < j /\ Top < Rank(accepted', obuf'[i]) =>
           Rank(accepted', obuf'[i]) < Rank(accepted', obuf'[j])
  BY <1>2
<1> QED BY <1>3, <1>4, OrderKept

\* The put area after archive & msg.
LEMMA SerializedIs ==
  ASSUME obuf \in Seq(Pieces), NEW m \in Messages
  PROVE  /\ Len(obuf) \in Nat
         /\ Len(Serialized(m)) = Len(obuf) + IF m \in Large THEN 1 ELSE 2
         /\ \A j \in 1..Len(obuf) : Serialized(m)[j] = obuf[j]
         /\ Serialized(m)[Len(obuf) + 1] = <<m, 1>>
         /\ m \notin Large => Serialized(m)[Len(obuf) + 2] = <<m, 2>>
<1> DEFINE t == IF m \in Large THEN <<<<m, 1>>>> ELSE <<<<m, 1>>, <<m, 2>>>>
<1>1. <<m, 1>> \in Pieces /\ <<m, 2>> \in Pieces
  BY DEF Pieces
<1>2. /\ t \in Seq(Pieces) /\ t[1] = <<m, 1>>
      /\ m \notin Large => t[2] = <<m, 2>>
      /\ Len(t) = IF m \in Large THEN 1 ELSE 2
  BY <1>1
<1>3. Serialized(m) = obuf \o t
  BY DEF Serialized
<1> HIDE DEF t
<1>4. /\ Len(obuf \o t) = Len(obuf) + Len(t)
      /\ \A i \in 1..Len(obuf) : (obuf \o t)[i] = obuf[i]
      /\ \A i \in 1..Len(t) : (obuf \o t)[Len(obuf) + i] = t[i]
  <2>1. obuf \in Seq(Pieces) /\ t \in Seq(Pieces)
    BY <1>2
  <2> QED BY <2>1, JoinFacts
<1>5. Len(obuf) \in Nat
  BY LenProperties
<1>6. 1 \in 1..Len(t) /\ (m \notin Large => 2 \in 1..Len(t))
  BY <1>2
<1> QED BY <1>2, <1>3, <1>4, <1>5, <1>6


\* A coroutine serializes the front message: its pieces are the next in order.
LEMMA StartOrder ==
  ASSUME Known, Known', SameRanks, Order, NEW c \in Coroutines, NEW m \in Messages,
         StartWrite(c, m), \A d \in Coroutines : pc[d] \notin Suspended \cup Handled,
         queue' # <<>>, Front' = m, Left' = Left,
         UNCHANGED <<wire, session, sock>>
  PROVE  Order'
<1>1. Left \in Nat /\ obuf \in Seq(Pieces) /\ pc \in [Coroutines -> Places]
      /\ msg \in [Coroutines -> Messages \cup {Idle}]
  BY LineFacts DEF Known, Typed, TypeOK, SenderTypeOK, RestTypeOK
<1>2. Top = 2 * Left + 2
  <2>1. \A d \in Coroutines : pc[d] \notin Writing /\ pc[d] \notin Handled
    BY DEF Writing, Suspended
  <2> QED BY <2>1, BoundAtRest DEF Top
<1>3. \A k \in {1, 2} : /\ Listed(accepted', <<m, k>>)
                        /\ Rank(accepted', <<m, k>>) = 2 * Left + 2 + k
  <2> TAKE k \in {1, 2}
  <2>1. /\ accepted' \in Seq(Messages)
        /\ \A i, j \in 1..Len(accepted') : accepted'[i] = accepted'[j] => i = j
        /\ accepted'[Left + 1] = m /\ Left + 1 \in 1..Len(accepted')
    <3>1. /\ accepted' \in Seq(Messages) /\ queue' \in Seq(Messages)
          /\ \A i, j \in 1..Len(accepted') : accepted'[i] = accepted'[j] => i = j
          /\ \A i \in 1..Len(queue') : queue'[i] = accepted'[Left + i]
          /\ Left = Len(accepted') - Len(queue')
      BY DEF Known, Typed, TypeOK, HistTypeOK, RestTypeOK, Line, Left
    <3>2. Len(queue') > 0 /\ queue'[1] = m /\ Len(queue') \in Nat /\ Len(accepted') \in Nat
      BY <3>1, HeadAndTail DEF Front
    <3>3. 1 \in 1..Len(queue') /\ Left + 1 \in 1..Len(accepted')
      BY <1>1, <3>1, <3>2
    <3> QED BY <3>1, <3>2, <3>3
  <2>2. <<m, k>> \in Pieces /\ <<m, k>>[1] = m /\ <<m, k>>[2] = k
    BY DEF Pieces
  <2>3. Listed(accepted', <<m, k>>) /\ Rank(accepted', <<m, k>>) = 2 * (Left + 1) + k
    BY <2>1, <2>2, RankIs
  <2> QED BY <1>1, <2>3
<1>4. Top' = 2 * Left + IF m \in Large THEN 3 ELSE 4
  <2>1. /\ pc'[c] = IF m \in Large THEN "overflow" ELSE "flush"
        /\ msg'[c] = m /\ pc'[c] \in Writing
        /\ \A d \in Coroutines : pc'[d] \in Writing => d = c
    BY <1>1 DEF StartWrite, FirstWrite, Writing, Suspended
  <2>2. Bound(accepted', pc', msg', Left') =
          Rank(accepted', <<msg'[c], IF pc'[c] = "overflow" THEN 1 ELSE 2>>)
    BY <2>1, BoundIs
  <2>3. Top' = Rank(accepted', <<m, IF m \in Large THEN 1 ELSE 2>>)
    BY <2>1, <2>2 DEF Top
  <2> QED BY <1>1, <1>3, <2>3
<1>5. /\ obuf' = Serialized(m) /\ Len(obuf) \in Nat
      /\ Len(obuf') = Len(obuf) + IF m \in Large THEN 1 ELSE 2
      /\ \A j \in 1..Len(obuf) : obuf'[j] = obuf[j]
      /\ obuf'[Len(obuf) + 1] = <<m, 1>>
      /\ m \notin Large => obuf'[Len(obuf) + 2] = <<m, 2>>
  BY <1>1, SerializedIs DEF StartWrite
<1>6. \A d \in Coroutines : pc[d] \notin Suspended
  OBVIOUS
<1>7. ASSUME NEW j \in 1..Len(obuf')
      PROVE  \/ j \in 1..Len(obuf) /\ obuf'[j] = obuf[j]
             \/ j = Len(obuf) + 1 /\ obuf'[j] = <<m, 1>>
             \/ j = Len(obuf) + 2 /\ obuf'[j] = <<m, 2>> /\ m \notin Large
  <2>1. \/ j \in 1..Len(obuf) \/ j = Len(obuf) + 1 \/ (j = Len(obuf) + 2 /\ m \notin Large)
    BY <1>5
  <2> QED BY <1>5, <2>1
<1>8. ASSUME NEW j \in 1..Len(obuf')
      PROVE  \/ j \in 1..Len(obuf) /\ obuf'[j] = obuf[j]
             \/ /\ Listed(accepted', obuf'[j]) /\ Top < Rank(accepted', obuf'[j])
                /\ Rank(accepted', obuf'[j]) \in Int /\ Rank(accepted', obuf'[j]) <= Top'
  <2>1. CASE j \in 1..Len(obuf) /\ obuf'[j] = obuf[j]
    BY <2>1
  <2>2. CASE obuf'[j] = <<m, 1>>
    BY <1>1, <1>2, <1>3, <1>4, <2>2
  <2>3. CASE obuf'[j] = <<m, 2>> /\ m \notin Large
    BY <1>1, <1>2, <1>3, <1>4, <2>3
  <2> QED BY <1>7, <2>1, <2>2, <2>3
<1>9. ASSUME NEW j \in 1..Len(obuf)
      PROVE  ~(Top < Rank(accepted', obuf'[j]))
  <2>1. /\ obuf[j] \in Pieces /\ Listed(accepted, obuf[j]) /\ obuf'[j] = obuf[j]
        /\ Rank(accepted, obuf[j]) <= Top
    BY <1>1, <1>5 DEF Order
  <2> QED BY <1>1, <1>2, <2>1 DEF SameRanks
<1>10. \A i, j \in 1..Len(obuf') : i < j /\ Top < Rank(accepted', obuf'[i]) =>
           Rank(accepted', obuf'[i]) < Rank(accepted', obuf'[j])
  <2> SUFFICES ASSUME NEW i \in 1..Len(obuf'), NEW j \in 1..Len(obuf'), i < j,
                      Top < Rank(accepted', obuf'[i])
               PROVE  Rank(accepted', obuf'[i]) < Rank(accepted', obuf'[j])
    OBVIOUS
  <2>1. i \notin 1..Len(obuf)
    BY <1>9
  <2>2. i = Len(obuf) + 1 /\ j = Len(obuf) + 2
    BY <1>5, <1>7, <2>1
  <2>3. obuf'[i] = <<m, 1>> /\ obuf'[j] = <<m, 2>>
    BY <1>5, <1>7, <2>2
  <2> QED BY <1>1, <1>3, <2>3
<1>11. Top <= Top'
  BY <1>1, <1>2, <1>4
<1>12. \A j \in 1..Len(obuf') :
         \/ /\ j \in 1..Len(obuf) /\ obuf'[j] = obuf[j]
            /\ sock' = "open" => \A d \in Coroutines : pc[d] \in Suspended /\ j <= nw[d] =>
                                    \E e \in Coroutines : pc'[e] \in Suspended /\ j <= nw'[e]
         \/ /\ Listed(accepted', obuf'[j]) /\ Top < Rank(accepted', obuf'[j])
            /\ Rank(accepted', obuf'[j]) \in Int /\ Rank(accepted', obuf'[j]) <= Top'
  BY <1>6, <1>8
<1> QED BY <1>10, <1>11, <1>12, OrderKept

\* Beside a coroutine that runs with m_SendYield its own, none writes or runs.
LEMMA NobodyElse ==
  ASSUME Known, NEW c \in Coroutines, running = c, sendYield = c, sock # "none"
  PROVE  \A d \in Coroutines : d # c => pc[d] \notin Suspended /\ pc[d] \notin InLoop
<1> QED BY DEF Known, Turns, Writers, Yields

LEMMA SendOrder ==
  ASSUME Known, Known', SameRanks, Order, NEW m \in Messages, SendFromThread(m) \/ SendFromLoop(m)
  PROVE  Order'
<1>1. /\ Left \in Nat /\ Len(queue) \in Nat /\ Len(accepted) \in Nat
      /\ queue \in Seq(Messages) /\ accepted \in Seq(Messages)
      /\ pc \in [Coroutines -> Places]
  BY LineFacts DEF Known, Typed, TypeOK, SenderTypeOK
<1>2. ASSUME UNCHANGED <<msg, nw, obuf, wire, session, sock>>, Left' = Left,
             \A c \in Coroutines : pc'[c] = pc[c] \/ (pc[c] = "none" /\ pc'[c] = "posted")
      PROVE  Order'
  <2>1. \A c \in Coroutines : /\ pc[c] \in Writing <=> pc'[c] \in Writing
                              /\ pc[c] \in Writing => pc'[c] = pc[c] /\ msg'[c] = msg[c]
                              /\ pc[c] \in Handled => pc'[c] \in Handled
                              /\ pc[c] \in Suspended => pc'[c] \in Suspended
    BY <1>2 DEF Writing, Handled, Suspended
  <2>2. Top <= Top'
    BY <1>2, <2>1, TopKept
  <2> QED BY <1>2, <2>1, <2>2, OrderSame
<1>3. Enqueue(m) => Left' = Left /\ queue' # <<>>
  BY <1>1 DEF Enqueue, Left
<1>4. CASE RefuseBusy(m)
  BY <1>2, <1>4 DEF RefuseBusy, sender, link, Left
<1>5. CASE Post(m)
  <2>1. \A c \in Coroutines : pc'[c] = pc[c] \/ (pc[c] = "none" /\ pc'[c] = "posted")
    BY <1>1, <1>5 DEF Post, Free
  <2> QED BY <1>2, <1>3, <1>5, <2>1 DEF Post, link
<1>6. CASE SendFromLoop(m) /\ ShouldSpawn /\ StartInline(m)
  <2>1. CASE sendYield # Idle \/ sock = "none"
    BY <1>2, <1>6, <2>1 DEF StartInline, Fail, sender, link, hist, Left
  <2>2. CASE sendYield = Idle /\ sock # "none"
    <3>1. PICK c \in Free : Enqueue(m) /\ StartWrite(c, m) /\ UNCHANGED <<link, wire>>
      BY <1>6, <2>2 DEF StartInline
    <3>2. running \notin Coroutines
      <4> SUFFICES ASSUME running \in Coroutines PROVE FALSE
        OBVIOUS
      <4>1. pc[running] \in InHandler
        BY <1>6, ChannelAssumption DEF SendFromLoop, UserCode
      <4> QED BY <1>6, <2>2, <4>1 DEF InHandler, ShouldSpawn, Known, Turns, Yields
    <3>3. \A d \in Coroutines : pc[d] \notin Suspended /\ pc[d] \notin InLoop
      BY <1>6, <2>2, <3>2 DEF ShouldSpawn, Known, Turns, Writers, Yields
    <3>4. \A d \in Coroutines : pc[d] \notin Suspended \cup Handled
      BY <3>3 DEF Suspended, Handled, InLoop
    <3>5. c \in Coroutines
      BY <3>1 DEF Free
    <3>6. Front' = m
      <4>1. queue' = <<m>>
        BY <1>6, <3>1 DEF Enqueue, ShouldSpawn
      <4> QED BY <4>1 DEF Front
    <3> QED BY <1>3, <3>1, <3>4, <3>5, <3>6, StartOrder DEF link
  <2> QED BY <2>1, <2>2
<1> QED BY <1>4, <1>5, <1>6 DEF SendFromThread, SendFromLoop

\* The second piece of a large message is the next in order.
LEMMA FlushRestOrder ==
  ASSUME Known, Known', SameRanks, Order, NEW c \in Coroutines, FlushRest(c)
  PROVE  Order'
<1>1. /\ pc[c] = "overflow" /\ pc[c] \in Writing /\ obuf' = <<<<msg[c], 2>>>>
      /\ pc'[c] \in {"flush", "answered"}
      /\ \A d \in Coroutines : d # c => pc'[d] = pc[d]
      /\ UNCHANGED <<msg, queue, accepted, wire, session, sock>>
  BY DEF FlushRest, link, Writing, Known, Typed, TypeOK, SenderTypeOK
<1>2. Left \in Nat /\ Left' = Left
  BY <1>1, LineFacts DEF Known, Left
<1>3. PICK i \in 1..Left + 1 : \A k \in {1, 2} :
        /\ <<msg[c], k>> \in Pieces /\ Listed(accepted, <<msg[c], k>>)
        /\ Rank(accepted, <<msg[c], k>>) = 2 * i + k
  BY <1>1, WritingRank
<1>4. Top = 2 * i + 1
  <2>1. Top = Rank(accepted, <<msg[c], 1>>)
    BY <1>1, OneWriting, BoundIs DEF Top
  <2> QED BY <1>3, <2>1
<1>5. \A d \in Coroutines : pc'[d] \in Writing => d = c
  BY <1>1, OneWriting
<1>6. 2 * i + 2 <= Top' /\ Top' \in Int
  <2>1. CASE pc'[c] = "flush"
    <3>1. Bound(accepted', pc', msg', Left') =
            Rank(accepted', <<msg'[c], IF pc'[c] = "overflow" THEN 1 ELSE 2>>)
      BY <1>5, <2>1, BoundIs DEF Writing
    <3>2. Top' = Rank(accepted, <<msg[c], 2>>)
      BY <1>1, <2>1, <3>1 DEF Top
    <3> QED BY <1>2, <1>3, <3>2
  <2>2. CASE pc'[c] = "answered"
    <3>1. pc'[c] \in Handled /\ \A d \in Coroutines : pc'[d] \notin Writing
      BY <1>5, <2>2 DEF Writing, Handled
    <3>2. Bound(accepted', pc', msg', Left') = 2 * Left' + 4
      BY <3>1, BoundAtRest
    <3>3. Top' = 2 * Left + 4
      BY <1>2, <3>2 DEF Top
    <3> QED BY <1>2, <3>3
  <2> QED BY <1>1, <2>1, <2>2
<1>7. Listed(accepted', <<msg[c], 2>>) /\ Rank(accepted', <<msg[c], 2>>) = 2 * i + 2
  BY <1>1, <1>3
<1>8. Len(obuf') = 1 /\ obuf'[1] = <<msg[c], 2>>
  BY <1>1
<1>9. i \in Int
  BY <1>2
<1>10. ASSUME NEW j \in 1..Len(obuf')
       PROVE  /\ Listed(accepted', obuf'[j]) /\ Top < Rank(accepted', obuf'[j])
              /\ Rank(accepted', obuf'[j]) \in Int /\ Rank(accepted', obuf'[j]) <= Top'
  <2>1. obuf'[j] = <<msg[c], 2>>
    BY <1>8
  <2> QED BY <1>4, <1>6, <1>7, <1>9, <2>1
<1>11. \A a, b \in 1..Len(obuf') : ~(a < b)
  BY <1>8
<1>12. Top <= Top'
  BY <1>4, <1>6, <1>9
<1> QED BY <1>1, <1>10, <1>11, <1>12, OrderKept

\* The put area is cleared when it is written, and kept on a broken connection.
LEMMA EndWriteOrder ==
  ASSUME Known, Known', SameRanks, Order, NEW c \in Coroutines, EndWrite(c)
  PROVE  Order'
<1>1. /\ pc[c] \in Suspended /\ obuf' = LeftInPutArea(c) /\ pc'[c] \in {"pop", "answered"}
      /\ \A d \in Coroutines : d # c => pc'[d] = pc[d]
      /\ UNCHANGED <<queue, accepted, wire, session, sock>>
  BY DEF EndWrite, link, Known, Typed, TypeOK, SenderTypeOK
<1>2. Left \in Nat /\ Left' = Left
  BY <1>1, LineFacts DEF Known, Left
<1>3. Top <= 2 * Left + 4
  <2>1. CASE pc[c] \in Writing
    <3>1. Top = Rank(accepted, <<msg[c], IF pc[c] = "overflow" THEN 1 ELSE 2>>)
      BY <2>1, OneWriting, BoundIs DEF Top
    <3>2. PICK i \in 1..Left + 1 : \A k \in {1, 2} : Rank(accepted, <<msg[c], k>>) = 2 * i + k
      BY <2>1, WritingRank
    <3>3. Top \in {2 * i + 1, 2 * i + 2}
      BY <3>1, <3>2
    <3> QED BY <1>2, <3>3
  <2>2. CASE pc[c] \notin Writing
    <3>1. \A d \in Coroutines : pc[d] \notin Writing
      BY <1>1, <2>2 DEF Known, Turns, Writers, Writing, Suspended
    <3>2. Top \in {2 * Left + 2, 2 * Left + 4}
      BY <3>1, BoundAtRest DEF Top
    <3> QED BY <1>2, <3>2
  <2> QED BY <2>1, <2>2
<1>4. Top' = 2 * Left + 4
  <2>1. pc'[c] \in Handled /\ \A d \in Coroutines : pc'[d] \notin Writing
    BY <1>1 DEF Known, Turns, Writers, Writing, Suspended, Handled
  <2>2. Bound(accepted', pc', msg', Left') = 2 * Left' + 4
    BY <2>1, BoundAtRest
  <2> QED BY <1>2, <2>2 DEF Top
<1>5. Top <= Top'
  BY <1>3, <1>4
<1>6. CASE Written(c)
  <2>1. obuf' = <<>>
    BY <1>1, <1>6 DEF LeftInPutArea
  <2>2. 1..Len(obuf') = {}
    BY <2>1
  <2> QED BY <1>1, <1>5, <2>2, OrderKept
<1>7. CASE ~Written(c)
  <2>1. sock # "open"
    BY <1>7 DEF EndWrite, Known, Turns, Wires
  <2> QED BY <1>1, <1>5, <1>7, <2>1, OrderSame DEF LeftInPutArea
<1> QED BY <1>6, <1>7

LEMMA SendStepOrder ==
  ASSUME Known, Known', SameRanks, Order, NEW c \in Coroutines, SendStep(c)
  PROVE  Order'
<1>1. /\ Left \in Nat /\ Len(queue) \in Nat /\ Len(accepted) \in Nat
      /\ queue \in Seq(Messages) /\ pc \in [Coroutines -> Places]
      /\ msg \in [Coroutines -> Messages \cup {Idle}]
  BY LineFacts DEF Known, Typed, TypeOK, SenderTypeOK
<1>2. running = c => pc[c] \in InLoop
  BY DEF Known, Turns, Writers
<1>3. ASSUME UNCHANGED <<pc, msg, nw, obuf, wire, session, sock, queue, accepted>> PROVE Order'
  <2>1. Top <= Top'
    BY <1>1, <1>3, TopKept DEF Left
  <2> QED BY <1>3, <2>1, OrderSame
<1>4. ASSUME pc[c] \notin Suspended, NEW p, p \notin Writing, pc' = [pc EXCEPT ![c] = p],
             \A d \in Coroutines : d # c => msg'[d] = msg[d],
             UNCHANGED <<nw, obuf, wire, session, sock>>,
             \/ Left' = Left /\ (pc[c] \in Handled => p \in Handled)
             \/ Left' = Left + 1
      PROVE  Order'
  <2>1. \A d \in Coroutines : pc[d] \in Suspended => d # c
    BY <1>4
  <2>2. \A d \in Coroutines : d # c => pc'[d] = pc[d]
    BY <1>1, <1>4
  <2>3. pc'[c] = p /\ pc[c] \notin Writing
    BY <1>1, <1>4 DEF Writing, Suspended
  <2>4. Top <= Top'
    <3>1. \A d \in Coroutines : pc[d] \in Writing => pc'[d] = pc[d] /\ msg'[d] = msg[d]
      BY <1>4, <2>2, <2>3
    <3>2. \A d \in Coroutines : pc'[d] \in Writing => pc[d] \in Writing
      BY <1>4, <2>2, <2>3
    <3>3. Left' = Left /\ (\E d \in Coroutines : pc[d] \in Handled) =>
            \E d \in Coroutines : pc'[d] \in Handled
      <4>1. Left' = Left => (pc[c] \in Handled => p \in Handled)
        BY <1>1, <1>4
      <4> QED BY <2>2, <2>3, <4>1
    <3>4. Left' \in {Left, Left + 1}
      BY <1>4
    <3> QED BY <3>1, <3>2, <3>3, <3>4, TopKept
  <2>5. \A d \in Coroutines : pc[d] \in Suspended => pc'[d] \in Suspended /\ nw'[d] = nw[d]
    BY <1>4, <2>1, <2>2
  <2> QED BY <1>4, <2>4, <2>5, OrderSame
<1>5. CASE BeginSend(c)
  <2>1. CASE sendYield # Idle
    BY <1>3, <1>5, <2>1 DEF BeginSend, Fail, sender, link, hist
  <2>2. CASE sendYield = Idle
    <3>1. /\ pc[c] = "posted" /\ pc' = [pc EXCEPT ![c] = "check"] /\ Left' = Left
          /\ UNCHANGED <<msg, nw, obuf, wire, session, sock>>
      BY <1>5, <2>2 DEF BeginSend, link, hist, Left
    <3>2. "check" \notin Writing /\ pc[c] \notin Suspended /\ pc[c] \notin Handled
      BY <3>1 DEF Writing, Suspended, Handled
    <3> QED BY <1>4, <3>1, <3>2
  <2> QED BY <2>1, <2>2
<1>6. CASE FinishSend(c)
  <2>1. /\ pc[c] = "check" /\ pc' = [pc EXCEPT ![c] = "none"] /\ Left' = Left
        /\ \A d \in Coroutines : d # c => msg'[d] = msg[d]
        /\ UNCHANGED <<nw, obuf, wire, session, sock>>
    BY <1>1, <1>6 DEF FinishSend, link, hist, Left
  <2>2. "none" \notin Writing /\ pc[c] \notin Suspended /\ pc[c] \notin Handled
    BY <2>1 DEF Writing, Suspended, Handled
  <2> QED BY <1>4, <2>1, <2>2
<1>7. CASE RefuseFront(c)
  <2>1. /\ pc[c] = "check" /\ pc' = [pc EXCEPT ![c] = "refused"] /\ Left' = Left
        /\ \A d \in Coroutines : d # c => msg'[d] = msg[d]
        /\ UNCHANGED <<nw, obuf, wire, session, sock>>
    BY <1>1, <1>7 DEF RefuseFront, link, Left
  <2>2. "refused" \notin Writing /\ pc[c] \notin Suspended /\ pc[c] \notin Handled
    BY <2>1 DEF Writing, Suspended, Handled
  <2> QED BY <1>4, <2>1, <2>2
<1>8. CASE SerializeFront(c)
  <2>1. CASE sendYield # c
    BY <1>3, <1>8, <2>1 DEF SerializeFront, Fail, sender, link, hist
  <2>2. CASE sendYield = c
    <3>1. /\ StartWrite(c, Front) /\ UNCHANGED <<queue, accepted, wire, session, sock>> /\ queue # <<>>
          /\ pc[c] = "check" /\ running = c /\ sock # "none"
      BY <1>8, <2>2 DEF SerializeFront, link, hist
    <3>2. Front \in Messages /\ Front' = Front /\ Left' = Left
      BY <1>1, <3>1, HeadAndTail DEF Front, Left
    <3>3. \A d \in Coroutines : d # c => pc[d] \notin Suspended /\ pc[d] \notin InLoop
      BY <2>2, <3>1, NobodyElse
    <3>4. \A d \in Coroutines : pc[d] \notin Suspended \cup Handled
      BY <3>1, <3>3 DEF Suspended, Handled, InLoop
    <3> QED BY <3>1, <3>2, <3>4, StartOrder
  <2> QED BY <2>1, <2>2
<1>9. CASE ContinueWrite(c)
  BY <1>3, <1>9 DEF ContinueWrite, Fail, sender, link, hist
<1>10. CASE FlushRest(c)
  BY <1>10, FlushRestOrder
<1>11. CASE EndWrite(c)
  BY <1>11, EndWriteOrder
<1>12. CASE HandlerReturned(c)
  <2>1. /\ UNCHANGED <<queue, msg, nw, obuf, wire, session, sock, accepted>> /\ Left' = Left
        /\ pc[c] \in InHandler
    BY <1>12 DEF HandlerReturned, link, hist, Left
  <2>2. pc[c] \notin Suspended /\ {"pop", "reflush"} \subseteq Handled \ Writing
    BY <2>1 DEF InHandler, Suspended, Writing, Handled
  <2>3. CASE pc' = [pc EXCEPT ![c] = "pop"]
    BY <1>4, <2>1, <2>2, <2>3
  <2>4. CASE pc' = [pc EXCEPT ![c] = "reflush"]
    BY <1>4, <2>1, <2>2, <2>4
  <2>5. CASE UNCHANGED pc
    BY <1>3, <2>1, <2>5
  <2> QED BY <1>12, <2>3, <2>4, <2>5 DEF HandlerReturned
<1>13. CASE PopFront(c)
  <2>1. CASE queue = <<>>
    BY <1>3, <1>13, <2>1 DEF PopFront, Fail, sender, link, hist
  <2>2. CASE queue # <<>>
    <3>1. /\ queue' = Tail(queue) /\ UNCHANGED <<msg, nw, obuf, wire, session, sock, accepted>>
          /\ pc' = [pc EXCEPT ![c] = "check"] /\ pc[c] = "pop"
      BY <1>13, <2>2 DEF PopFront, link, hist
    <3>2. Left' = Left + 1
      BY <1>1, <2>2, <3>1, HeadAndTail DEF Left
    <3>3. "check" \notin Writing /\ pc[c] \notin Suspended
      BY <3>1 DEF Writing, Suspended
    <3> QED BY <1>4, <3>1, <3>2, <3>3
  <2> QED BY <2>1, <2>2
<1> QED BY <1>5, <1>6, <1>7, <1>8, <1>9, <1>10, <1>11, <1>12, <1>13 DEF SendStep

\* What a write adds to the connection comes after what the connection carried.
LEMMA WriteSomeOrder ==
  ASSUME Known, Order, NEW c \in Coroutines, WriteSome(c)
  PROVE  Order'
<1>1. /\ op[c] = "pending" /\ sock = "open" /\ UNCHANGED <<pc, msg, obuf, sock, session, accepted, queue>>
      /\ session \in Sessions /\ nw[c] \in Nat /\ obuf \in Seq(Pieces)
      /\ wire[session] \in Seq(Pieces) /\ Len(obuf) \in Nat /\ Len(wire[session]) \in Nat
  BY DEF WriteSome, link, Known, Typed, TypeOK, SenderTypeOK, LinkTypeOK, RestTypeOK, HistTypeOK
<1>2. PICK k \in nw[c] + 1 .. Len(obuf) :
        /\ wire' = [wire EXCEPT ![session] = @ \o SubSeq(obuf, nw[c] + 1, k)]
        /\ nw' = [nw EXCEPT ![c] = k]
  BY DEF WriteSome
<1>3. pc[c] \in Suspended /\ \A d \in Coroutines : pc[d] \in Suspended => d = c
  BY <1>1 DEF Known, Turns, Writers
<1>4. /\ wire'[session] = wire[session] \o SubSeq(obuf, nw[c] + 1, k) /\ nw'[c] = k
      /\ \A s \in Sessions : s # session => wire'[s] = wire[s]
  BY <1>1, <1>2 DEF Known, Typed, TypeOK, SenderTypeOK, HistTypeOK
<1> DEFINE w == wire[session]
           n == nw[c]
           v == wire'[session]
           R(p) == Rank(accepted, p)
<1>5. ASSUME NEW i \in 1..Len(v)
      PROVE  \/ i \in 1..Len(w) /\ v[i] = w[i]
             \/ \E l \in n + 1 .. k : v[i] = obuf[l] /\ l = n + (i - Len(w)) /\ l \in 1..Len(obuf)
  <2> DEFINE t == SubSeq(obuf, n + 1, k)
  <2>1. /\ t \in Seq(Pieces) /\ Len(t) = k - n
        /\ \A l \in 1 .. k - n : n + l \in 1..Len(obuf) /\ t[l] = obuf[n + l]
    <3>1. obuf \in Seq(Pieces) /\ n \in Nat /\ k \in n + 1 .. Len(obuf)
      BY <1>1, <1>2
    <3> HIDE DEF n
    <3> QED BY <3>1, PartFacts
  <2>2. v = w \o t
    BY <1>4
  <2>3. w \in Seq(Pieces) /\ n \in Nat /\ k \in n + 1 .. Len(obuf) /\ Len(obuf) \in Nat
    BY <1>1, <1>2
  <2> HIDE DEF w, n, v, t
  <2>4. /\ \A j \in 1..Len(w) : (w \o t)[j] = w[j]
        /\ \A j \in 1..Len(w \o t) :
             j \in 1..Len(w) \/ (j - Len(w) \in 1..Len(t) /\ (w \o t)[j] = t[j - Len(w)])
    BY <2>1, <2>3, JoinFacts
  <2>5. Len(w) \in Nat
    BY <2>3, LenProperties
  <2>6. CASE i \in 1..Len(w)
    BY <2>2, <2>4, <2>6
  <2>7. CASE i - Len(w) \in 1..Len(t) /\ v[i] = t[i - Len(w)]
    <3>1. i - Len(w) \in 1 .. k - n
      BY <2>1, <2>7
    <3>2. /\ n + (i - Len(w)) \in 1..Len(obuf) /\ v[i] = obuf[n + (i - Len(w))]
          /\ n + (i - Len(w)) \in n + 1 .. k
      BY <2>1, <2>3, <2>5, <2>7, <3>1
    <3> QED BY <3>2
  <2> QED BY <2>2, <2>4, <2>6, <2>7
<1>6. /\ \A i \in 1..Len(w) : Listed(accepted, w[i]) /\ R(w[i]) <= Top
      /\ \A i, j \in 1..Len(w) : i < j => R(w[i]) < R(w[j])
  BY <1>1 DEF Order
<1>7. /\ \A j \in 1..Len(obuf) : Listed(accepted, obuf[j]) /\ R(obuf[j]) <= Top
      /\ \A i, j \in 1..Len(obuf) : i < j => R(obuf[i]) < R(obuf[j])
  BY DEF Order
<1>8. \A i \in 1..Len(w), j \in 1..Len(obuf) : R(w[i]) < R(obuf[j]) \/ j <= n
  BY <1>1, <1>3 DEF Order
<1>9. n \in Nat /\ k \in Nat /\ n + 1 <= k /\ k <= Len(obuf) /\ Len(obuf) \in Nat /\ Len(w) \in Nat
  BY <1>1, <1>2
<1>10. Top' = Top /\ accepted' = accepted
  BY <1>1 DEF Top, Left
<1>11. wire'[session'] = v /\ obuf' = obuf
  BY <1>1
<1>12. /\ \A s \in Sessions : s # session => wire'[s] = wire[s]
       /\ pc'[c] \in Suspended /\ nw'[c] = k
  BY <1>1, <1>3, <1>4
<1> HIDE DEF v, w, n
<1>13. \A i \in 1..Len(v) : Listed(accepted, v[i]) /\ R(v[i]) <= Top
  BY <1>5, <1>6, <1>7
<1>14. \A i, j \in 1..Len(v) : i < j => R(v[i]) < R(v[j])
  <2> SUFFICES ASSUME NEW i \in 1..Len(v), NEW j \in 1..Len(v), i < j PROVE R(v[i]) < R(v[j])
    OBVIOUS
  <2>1. CASE i \in 1..Len(w) /\ v[i] = w[i] /\ j \in 1..Len(w) /\ v[j] = w[j]
    BY <1>6, <2>1
  <2>2. CASE i \in 1..Len(w) /\ v[i] = w[i] /\ j \notin 1..Len(w)
    <3>1. PICK l \in n + 1 .. k : v[j] = obuf[l] /\ l \in 1..Len(obuf)
      BY <1>5, <2>2
    <3>2. ~(l <= n)
      BY <1>9
    <3> QED BY <1>8, <2>2, <3>1, <3>2
  <2>3. CASE i \notin 1..Len(w)
    <3>1. j \notin 1..Len(w)
      BY <1>9, <2>3
    <3>2. PICK a \in n + 1 .. k : v[i] = obuf[a] /\ a = n + (i - Len(w)) /\ a \in 1..Len(obuf)
      BY <1>5, <2>3
    <3>3. PICK b \in n + 1 .. k : v[j] = obuf[b] /\ b = n + (j - Len(w)) /\ b \in 1..Len(obuf)
      BY <1>5, <3>1
    <3>4. a < b
      BY <1>9, <3>2, <3>3
    <3> QED BY <1>7, <3>2, <3>3, <3>4
  <2>4. \A a \in 1..Len(v) : a \in 1..Len(w) => v[a] = w[a]
    BY <1>5, <1>9
  <2> QED BY <2>1, <2>2, <2>3, <2>4
<1>15. \A i \in 1..Len(v), j \in 1..Len(obuf) : R(v[i]) < R(obuf[j]) \/ j <= k
  <2> SUFFICES ASSUME NEW i \in 1..Len(v), NEW j \in 1..Len(obuf), ~(j <= k)
               PROVE  R(v[i]) < R(obuf[j])
    OBVIOUS
  <2>1. CASE i \in 1..Len(w) /\ v[i] = w[i]
    <3>1. ~(j <= n)
      BY <1>9
    <3> QED BY <1>8, <2>1, <3>1
  <2>2. CASE \E l \in n + 1 .. k : v[i] = obuf[l] /\ l \in 1..Len(obuf)
    <3>1. PICK l \in n + 1 .. k : v[i] = obuf[l] /\ l \in 1..Len(obuf)
      BY <2>2
    <3>2. l < j
      BY <1>9
    <3> QED BY <1>7, <3>1, <3>2
  <2> QED BY <1>5, <2>1, <2>2
<1>16. \A s \in Sessions : \A i \in 1..Len(wire'[s]) :
         Listed(accepted, wire'[s][i]) /\ R(wire'[s][i]) <= Top
  BY <1>12, <1>13 DEF Order, v
<1>17. \A s \in Sessions : \A i, j \in 1..Len(wire'[s]) :
         i < j => R(wire'[s][i]) < R(wire'[s][j])
  BY <1>12, <1>14 DEF Order, v
<1>18. \A i \in 1..Len(wire'[session']), j \in 1..Len(obuf') :
         \/ R(wire'[session'][i]) < R(obuf'[j])
         \/ \E d \in Coroutines : pc'[d] \in Suspended /\ j <= nw'[d]
  BY <1>11, <1>12, <1>15
<1> QED BY <1>7, <1>10, <1>11, <1>16, <1>17, <1>18 DEF Order

LEMMA OtherOrder ==
  ASSUME Known, Known', SameRanks, Order, OtherStep
  PROVE  Order'
<1>1. UNCHANGED <<queue, pc, msg, accepted>> /\ Left' = Left
  BY OtherStepLeaves DEF Left
<1>2. Top <= Top'
  BY <1>1, TopKept
<1>3. CASE ReceiveStep \/ StartReceive \/ Close \/ ConnectionBreaks \/ ReadSome \/ ReadFails
  <2>1. UNCHANGED <<nw, obuf, wire, session>> /\ (sock' = "open" => sock = "open")
    BY <1>3 DEF ReceiveStep, EndRead, EndReadFailed, ReceiverReturned, Deliver, StartReceive,
       Close, Closed, ConnectionBreaks, ReadSome, ReadFails, Fail, sender, link, hist
  <2> QED BY <1>1, <1>2, <2>1, OrderSame
<1>4. CASE SetSocket
  <2>1. /\ UNCHANGED <<pc, nw, obuf, wire>> /\ session' = session + 1 /\ session' \in Sessions
        /\ session \in Nat
    BY <1>4, ChannelAssumption
       DEF SetSocket, sender, hist, Known, Typed, TypeOK, LinkTypeOK, Sessions
  <2>2. wire'[session'] = <<>>
    BY <2>1 DEF Known, Turns, Wires
  <2>3. 1..Len(wire'[session']) = {}
    BY <2>2
  <2>4. Top' = Top
    BY <1>1, <2>1 DEF Top, Left
  <2>5. /\ \A s \in Sessions : \A i \in 1..Len(wire'[s]) :
             Listed(accepted', wire'[s][i]) /\ Rank(accepted', wire'[s][i]) <= Top'
        /\ \A j \in 1..Len(obuf') : Listed(accepted', obuf'[j]) /\ Rank(accepted', obuf'[j]) <= Top'
    BY <1>1, <2>1, <2>4 DEF Order
  <2>6. /\ \A s \in Sessions : \A i, j \in 1..Len(wire'[s]) :
             i < j => Rank(accepted', wire'[s][i]) < Rank(accepted', wire'[s][j])
        /\ \A i, j \in 1..Len(obuf') : i < j => Rank(accepted', obuf'[i]) < Rank(accepted', obuf'[j])
    BY <1>1, <2>1 DEF Order
  <2> QED BY <2>3, <2>5, <2>6 DEF Order
<1>5. ASSUME NEW c \in Coroutines, WriteStep(c) PROVE Order'
  <2>1. CASE WriteSome(c)
    BY <2>1, WriteSomeOrder
  <2>2. CASE WriteFails(c)
    BY <1>1, <1>2, <2>2, OrderSame DEF WriteFails, link, hist
  <2> QED BY <1>5, <2>1, <2>2 DEF WriteStep
<1> QED BY <1>3, <1>4, <1>5 DEF OtherStep

LEMMA InitOrder == Init => Order
<1> SUFFICES ASSUME Init PROVE Order
  OBVIOUS
<1>1. obuf = <<>> /\ sock = "none" /\ \A s \in Sessions : wire[s] = <<>>
  BY DEF Init
<1>2. 1..Len(<<>>) = {}
  OBVIOUS
<1> QED BY <1>1, <1>2 DEF Order

LEMMA NextOrder == Known /\ Order /\ [Next]_vars => Order'
<1> SUFFICES ASSUME Known, Order, [Next]_vars PROVE Order'
  OBVIOUS
<1>1. Known' /\ SameRanks
  BY NextKnown, RanksKept
<1>2. CASE UNCHANGED vars
  <2>1. UNCHANGED <<pc, msg, nw, obuf, wire, session, sock>> /\ Left' = Left
    BY <1>2 DEF vars, sender, link, hist, Left
  <2>2. Top <= Top'
    BY <1>1, <2>1, TopKept
  <2> QED BY <1>1, <2>1, <2>2, OrderSame
<1>3. ASSUME NEW m \in Messages, SendFromThread(m) \/ SendFromLoop(m) PROVE Order'
  BY <1>1, <1>3, SendOrder
<1>4. ASSUME NEW c \in Coroutines, SendStep(c) PROVE Order'
  BY <1>1, <1>4, SendStepOrder
<1>5. CASE OtherStep
  BY <1>1, <1>5, OtherOrder
<1> QED BY <1>2, <1>3, <1>4, <1>5 DEF Next, Environment, OtherStep

\* A smaller rank is an earlier place in the stream.
LEMMA OrderOnWire == Known /\ Order => WireInOrder
<1> SUFFICES ASSUME Known, Order, NEW s \in Sessions, NEW i \in 1..Len(wire[s]),
                    NEW j \in 1..Len(wire[s]), i < j
             PROVE  Before(wire[s][i], wire[s][j])
  BY DEF WireInOrder
<1>1. /\ accepted \in Seq(Messages)
      /\ \A a, b \in 1..Len(accepted) : accepted[a] = accepted[b] => a = b
  BY DEF Known, Typed, TypeOK, HistTypeOK, Line
<1>2. ASSUME NEW p \in Pieces, Listed(accepted, p)
      PROVE  Position(p) \in Int /\ Rank(accepted, p) = 2 * Position(p) + p[2]
  <2>1. Position(p) \in 1..Len(accepted)
    BY <1>2 DEF Listed, Position
  <2> QED BY <2>1 DEF Position, Rank
<1> DEFINE p == wire[s][i]
           q == wire[s][j]
<1>3. p \in Pieces /\ q \in Pieces /\ Listed(accepted, p) /\ Listed(accepted, q)
  BY DEF Order, Known, Typed, TypeOK, HistTypeOK
<1>4. Rank(accepted, p) < Rank(accepted, q)
  BY DEF Order
<1> HIDE DEF p, q
<1>5. p[2] \in {1, 2} /\ q[2] \in {1, 2}
  BY <1>3 DEF Pieces
<1>6. \A a, b \in Int : \A k, l \in {1, 2} : 2 * a + k < 2 * b + l => a < b \/ (a = b /\ k < l)
  OBVIOUS
<1>7. Before(p, q)
  BY <1>2, <1>3, <1>4, <1>5, <1>6 DEF Before
<1> QED BY <1>7 DEF p, q

\* No peer sees a byte twice or out of order, whoever sends, however large the
\* messages are and whatever breaks, closes and reopens the connection: what a
\* failed write left in the put area precedes what is serialized later.
THEOREM BytesInOrder == Spec => []WireInOrder
<1>1. Known /\ [Next]_vars => Known'
  BY NextKnown
<1>2. Known /\ Order /\ [Next]_vars => Order'
  BY NextOrder
<1> QED BY <1>1, <1>2, InitKnown, InitOrder, OrderOnWire, PTL DEF Spec

-----------------------------------------------------------------------------
(***************************************************************************)
(* What a handler is told stays true: pieces leave the put area only once  *)
(* they are on a connection, so what has been serialized is always in one  *)
(* of the two, and what was refused never came so far.  This needs that    *)
(* only the loop sends: else one coroutine may refuse what another writes. *)
(***************************************************************************)
Sole == Known /\ Alone /\ Ledger

Carried(wires, p)    == \E s \in Sessions : \E i \in 1..Len(wires[s]) : wires[s][i] = p
Held(buf, p)         == \E i \in 1..Len(buf) : buf[i] = p
Found(wires, buf, p) == Carried(wires, p) \/ Held(buf, p)

\* What is known of a coroutine under whose write the connection may end.
Tracked(wires, buf, place, m, n) ==
  /\ \A j \in 1..n : Carried(wires, buf[j])
  /\ place = "overflow" => Found(wires, buf, <<m, 1>>)
  /\ place = "flush" => \A k \in {1, 2} : Found(wires, buf, <<m, k>>)

Answers ==
  /\ \A c \in Coroutines : pc[c] \in Suspended => Tracked(wire, obuf, pc[c], msg[c], nw[c])
  /\ \A m \in Messages : verdict[m] = "DeviceBusy" => \A i \in 1..Len(accepted) : accepted[i] # m
  /\ \A m \in Messages, k \in {1, 2} :
       /\ verdict[m] = "NoError" => Found(wire, obuf, <<m, k>>)
       /\ verdict[m] = "NotOpened" => ~Found(wire, obuf, <<m, k>>)

\* Nothing beyond Top has been serialized.
LEMMA FoundBelow ==
  ASSUME Order, NEW p \in Pieces, Found(wire, obuf, p)
  PROVE  Listed(accepted, p) /\ Rank(accepted, p) <= Top
<1> QED BY DEF Found, Carried, Held, Order

\* A step that loses no piece, and whose new pieces and new answers agree.
LEMMA AnswersKept ==
  ASSUME Sole, Sole', Answers,
         \A p \in Pieces : Found(wire, obuf, p) => Found(wire', obuf', p),
         \A p \in Pieces : Found(wire', obuf', p) => Found(wire, obuf, p) \/ verdict'[p[1]] # "NotOpened",
         \A c \in Coroutines : pc'[c] \in Suspended => Tracked(wire', obuf', pc'[c], msg'[c], nw'[c]),
         \A m \in Messages : verdict'[m] = "DeviceBusy" => \A i \in 1..Len(accepted') : accepted'[i] # m,
         \A m \in Messages, k \in {1, 2} :
           \/ verdict'[m] \in {verdict[m], "DeviceBusy", "ioError"}
           \/ verdict'[m] = "NoError" /\ Found(wire', obuf', <<m, k>>)
           \/ verdict'[m] = "NotOpened" /\ ~Found(wire, obuf, <<m, k>>)
  PROVE  Answers'
<1>1. ASSUME NEW m \in Messages, NEW k \in {1, 2}
      PROVE  /\ verdict'[m] = "NoError" => Found(wire', obuf', <<m, k>>)
             /\ verdict'[m] = "NotOpened" => ~Found(wire', obuf', <<m, k>>)
  <2>1. <<m, k>> \in Pieces /\ <<m, k>>[1] = m
    BY DEF Pieces
  <2>2. /\ Found(wire, obuf, <<m, k>>) => Found(wire', obuf', <<m, k>>)
        /\ Found(wire', obuf', <<m, k>>) => Found(wire, obuf, <<m, k>>) \/ verdict'[m] # "NotOpened"
    BY <2>1
  <2>3. /\ verdict[m] = "NoError" => Found(wire, obuf, <<m, k>>)
        /\ verdict[m] = "NotOpened" => ~Found(wire, obuf, <<m, k>>)
    BY DEF Answers
  <2>4. \/ verdict'[m] \in {verdict[m], "DeviceBusy", "ioError"}
        \/ verdict'[m] = "NoError" /\ Found(wire', obuf', <<m, k>>)
        \/ verdict'[m] = "NotOpened" /\ ~Found(wire, obuf, <<m, k>>)
    OBVIOUS
  <2> QED BY <2>2, <2>3, <2>4
<1> QED BY <1>1 DEF Answers

\* A step that neither writes nor serializes nor answers.
LEMMA AnswersSame ==
  ASSUME Sole, Sole', Answers, UNCHANGED <<wire, obuf, verdict>>,
         \A c \in Coroutines : pc'[c] \in Suspended =>
           \/ pc[c] \in Suspended /\ pc'[c] = pc[c] /\ msg'[c] = msg[c] /\ nw'[c] = nw[c]
           \/ pc'[c] = "reflush" /\ nw'[c] = 0,
         \A m \in Messages : verdict[m] = "DeviceBusy" => \A i \in 1..Len(accepted') : accepted'[i] # m
  PROVE  Answers'
<1>1. \A c \in Coroutines : pc'[c] \in Suspended => Tracked(wire', obuf', pc'[c], msg'[c], nw'[c])
  <2> SUFFICES ASSUME NEW c \in Coroutines, pc'[c] \in Suspended
               PROVE  Tracked(wire, obuf, pc'[c], msg'[c], nw'[c])
    OBVIOUS
  <2>1. CASE pc[c] \in Suspended /\ pc'[c] = pc[c] /\ msg'[c] = msg[c] /\ nw'[c] = nw[c]
    BY <2>1 DEF Answers
  <2>2. CASE pc'[c] = "reflush" /\ nw'[c] = 0
    BY <2>2 DEF Tracked
  <2> QED BY <2>1, <2>2
<1> QED BY <1>1 DEF Answers

\* Once the put area is written all of it is on the connection.
LEMMA AllCarried ==
  ASSUME Answers, NEW c \in Coroutines, pc[c] \in Suspended, nw[c] = Len(obuf),
         NEW p \in Pieces, Found(wire, obuf, p)
  PROVE  Carried(wire, p)
<1>1. \A j \in 1..Len(obuf) : Carried(wire, obuf[j])
  BY DEF Answers, Tracked
<1> QED BY <1>1 DEF Found, Held

LEMMA StartAnswers ==
  ASSUME Sole, Sole', Answers, NEW c \in Coroutines, NEW m \in Messages,
         StartWrite(c, m), pc[c] \in {"none", "check"}, verdict[m] = "none",
         \A d \in Coroutines : d # c => pc[d] = "none",
         UNCHANGED <<wire, verdict>>,
         \A n \in Messages : verdict[n] = "DeviceBusy" => \A i \in 1..Len(accepted') : accepted'[i] # n
  PROVE  Answers'
<1>1. /\ obuf \in Seq(Pieces) /\ obuf' = Serialized(m) /\ pc' = [pc EXCEPT ![c] = FirstWrite(m)]
      /\ msg' = [msg EXCEPT ![c] = m] /\ nw' = nw /\ nw[c] = 0
      /\ pc \in [Coroutines -> Places] /\ msg \in [Coroutines -> Messages \cup {Idle}]
  BY DEF StartWrite, Sole, Known, Typed, TypeOK, SenderTypeOK, RestTypeOK, Turns, Writers, Suspended
<1>2. /\ Len(obuf) \in Nat /\ Len(obuf') = Len(obuf) + IF m \in Large THEN 1 ELSE 2
      /\ \A j \in 1..Len(obuf) : obuf'[j] = obuf[j]
      /\ obuf'[Len(obuf) + 1] = <<m, 1>>
      /\ m \notin Large => obuf'[Len(obuf) + 2] = <<m, 2>>
  BY <1>1, SerializedIs
<1>3. /\ \A p \in Pieces : Held(obuf, p) => Held(obuf', p)
      /\ Held(obuf', <<m, 1>>)
      /\ m \notin Large => Held(obuf', <<m, 2>>)
  BY <1>2 DEF Held
<1>4. \A p \in Pieces : Held(obuf', p) => Held(obuf, p) \/ p[1] = m
  <2> SUFFICES ASSUME NEW p \in Pieces, NEW j \in 1..Len(obuf'), obuf'[j] = p
               PROVE  Held(obuf, p) \/ p[1] = m
    BY DEF Held
  <2>1. j \in 1..Len(obuf) \/ j = Len(obuf) + 1 \/ (j = Len(obuf) + 2 /\ m \notin Large)
    BY <1>2
  <2> QED BY <1>2, <2>1 DEF Held
<1>5. Tracked(wire', obuf', pc'[c], msg'[c], nw'[c])
  <2>1. /\ pc'[c] = IF m \in Large THEN "overflow" ELSE "flush"
        /\ msg'[c] = m /\ nw'[c] = 0
    BY <1>1 DEF FirstWrite
  <2> QED BY <1>3, <2>1 DEF Tracked, Found
<1>6. \A d \in Coroutines : pc'[d] \in Suspended => d = c
  BY <1>1 DEF Suspended
<1>7. \A p \in Pieces : Found(wire', obuf', p) => Found(wire, obuf, p) \/ verdict'[p[1]] # "NotOpened"
  BY <1>4 DEF Found
<1>8. \A p \in Pieces : Found(wire, obuf, p) => Found(wire', obuf', p)
  BY <1>3 DEF Found
<1> QED BY <1>5, <1>6, <1>7, <1>8, AnswersKept

LEMMA SendFromLoopAnswers ==
  ASSUME Sole, Sole', Answers, NEW m \in Messages, SendFromLoop(m)
  PROVE  Answers'
<1>1. /\ verdict \in [Messages -> Verdicts] /\ verdict[m] = "none"
      /\ \A i \in 1..Len(accepted) : accepted[i] # m
      /\ accepted \in Seq(Messages)
  BY DEF SendFromLoop, Unsent, Sole, Known, Typed, TypeOK, HistTypeOK
<1>2. ASSUME accepted' = accepted \/ accepted' = Append(accepted, m)
      PROVE  \A n \in Messages : verdict[n] = "DeviceBusy" => \A i \in 1..Len(accepted') : accepted'[i] # n
  BY <1>1, <1>2 DEF Answers
<1>3. ASSUME UNCHANGED <<pc, msg, nw, obuf, wire, verdict>>,
             accepted' = accepted \/ accepted' = Append(accepted, m)
      PROVE  Answers'
  BY <1>2, <1>3, AnswersSame
<1>4. CASE RefuseBusy(m)
  <2>1. /\ UNCHANGED <<pc, msg, nw, obuf, wire, accepted>>
        /\ verdict' = [verdict EXCEPT ![m] = "DeviceBusy"]
    BY <1>1, <1>4 DEF RefuseBusy, sender, Answered
  <2>2. \A n \in Messages : verdict'[n] = IF n = m THEN "DeviceBusy" ELSE verdict[n]
    BY <1>1, <2>1
  <2>3. /\ \A c \in Coroutines : pc'[c] \in Suspended => Tracked(wire', obuf', pc'[c], msg'[c], nw'[c])
        /\ \A n \in Messages : verdict'[n] = "DeviceBusy" => \A i \in 1..Len(accepted') : accepted'[i] # n
        /\ \A p \in Pieces : Found(wire', obuf', p) = Found(wire, obuf, p)
    BY <1>1, <2>1, <2>2 DEF Answers
  <2> QED BY <2>2, <2>3, AnswersKept
<1>5. CASE Post(m) /\ ~(ShouldSpawn /\ ~StrandBusy)
  <2>1. ~ShouldSpawn
    BY <1>5 DEF StrandBusy, Sole, Known, Alone
  <2> QED BY <1>3, <1>5, <2>1 DEF Post, Enqueue
<1>6. CASE ShouldSpawn /\ StartInline(m)
  <2>1. CASE sendYield # Idle \/ sock = "none"
    BY <1>3, <1>6, <2>1 DEF StartInline, Fail, sender, hist
  <2>2. CASE sendYield = Idle /\ sock # "none"
    <3>1. PICK c \in Free : Enqueue(m) /\ StartWrite(c, m) /\ UNCHANGED <<wire, verdict>>
      BY <1>6, <2>2 DEF StartInline
    <3>2. Live = {}
      BY <1>6, ChannelAssumption DEF SendFromLoop, UserCode, ShouldSpawn, Sole, Known, Alone, Live,
         InLoop, InHandler
    <3>3. c \in Coroutines /\ \A d \in Coroutines : pc[d] = "none"
      BY <3>1, <3>2 DEF Free, Live
    <3>4. accepted' = Append(accepted, m)
      BY <3>1 DEF Enqueue
    <3> QED BY <1>1, <1>2, <3>1, <3>3, <3>4, StartAnswers
  <2> QED BY <2>1, <2>2
<1> QED BY <1>4, <1>5, <1>6 DEF SendFromLoop

LEMMA FlushRestAnswers ==
  ASSUME Sole, Sole', Answers, NEW c \in Coroutines, FlushRest(c),
         \A d \in Coroutines : d # c => pc[d] = "none"
  PROVE  Answers'
<1>1. /\ pc[c] = "overflow" /\ pc[c] \in Suspended /\ obuf' = <<<<msg[c], 2>>>>
      /\ nw[c] = Len(obuf) /\ nw'[c] = 0
      /\ pc'[c] \in {"flush", "answered"} /\ \A d \in Coroutines : d # c => pc'[d] = "none"
      /\ UNCHANGED <<queue, accepted, wire, msg>> /\ verdict \in [Messages -> Verdicts]
      /\ verdict' \in {verdict, Answered(msg[c], "NoError")}
  BY DEF FlushRest, Written, Suspended, Sole, Known, Typed, TypeOK, SenderTypeOK, HistTypeOK
<1>2. queue # <<>> /\ msg[c] = Front /\ verdict[Front] = "none" /\ Front \in Messages
  <2>1. queue # <<>> /\ msg[c] = Front
    BY <1>1 DEF Sole, Known, Ledger
  <2>2. \A d \in Coroutines : pc[d] \notin Handled
    BY <1>1 DEF Handled
  <2> QED BY <2>1, <2>2, QueueFacts DEF Sole, Known, Ledger
<1>3. \A n \in Messages : verdict'[n] \in {verdict[n], IF n = msg[c] THEN "NoError" ELSE verdict[n]}
  BY <1>1, <1>2 DEF Answered
<1>4. Held(obuf', <<msg[c], 2>>) /\ \A p \in Pieces : Held(obuf', p) => p[1] = msg[c]
  <2>1. Len(obuf') = 1 /\ obuf'[1] = <<msg[c], 2>>
    BY <1>1
  <2> QED BY <2>1 DEF Held
<1>5. \A p \in Pieces : Found(wire, obuf, p) => Carried(wire', p)
  BY <1>1, AllCarried
<1>6. \A k \in {1, 2} : Found(wire', obuf', <<msg[c], k>>)
  <2>1. Found(wire, obuf, <<msg[c], 1>>) /\ <<msg[c], 1>> \in Pieces
    BY <1>1, <1>2 DEF Answers, Tracked, Pieces
  <2> QED BY <1>4, <1>5, <2>1 DEF Found
<1>7. Tracked(wire', obuf', pc'[c], msg'[c], nw'[c])
  BY <1>1, <1>6 DEF Tracked
<1>8. \A p \in Pieces : Found(wire', obuf', p) => Found(wire, obuf, p) \/ verdict'[p[1]] # "NotOpened"
  BY <1>1, <1>2, <1>3, <1>4 DEF Found
<1>9. \A p \in Pieces : Found(wire, obuf, p) => Found(wire', obuf', p)
  BY <1>5 DEF Found
<1>10. \A d \in Coroutines : pc'[d] \in Suspended => d = c
  BY <1>1 DEF Suspended
<1>11. \A m \in Messages : verdict'[m] = "DeviceBusy" => \A i \in 1..Len(accepted') : accepted'[i] # m
  BY <1>1, <1>3 DEF Answers
<1>12. \A m \in Messages, k \in {1, 2} :
         verdict'[m] = verdict[m] \/ (verdict'[m] = "NoError" /\ Found(wire', obuf', <<m, k>>))
  BY <1>3, <1>6
<1> QED BY <1>7, <1>8, <1>9, <1>10, <1>11, <1>12, AnswersKept

LEMMA EndWriteAnswers ==
  ASSUME Sole, Sole', Answers, NEW c \in Coroutines, EndWrite(c),
         \A d \in Coroutines : d # c => pc[d] = "none"
  PROVE  Answers'
<1>1. /\ pc[c] \in Suspended /\ obuf' = LeftInPutArea(c) /\ pc'[c] \in {"pop", "answered"}
      /\ \A d \in Coroutines : d # c => pc'[d] = "none"
      /\ UNCHANGED <<queue, accepted, wire, msg>> /\ verdict \in [Messages -> Verdicts]
      /\ verdict' = WriteVerdict(c)
  BY DEF EndWrite, Suspended, Sole, Known, Typed, TypeOK, SenderTypeOK, HistTypeOK
<1>2. queue # <<>> /\ msg[c] = Front /\ Front \in Messages
  BY <1>1, QueueFacts DEF Sole, Known, Ledger
<1>3. \A n \in Messages : \/ verdict'[n] \in {verdict[n], "ioError"}
                          \/ verdict'[n] = "NoError" /\ n = msg[c] /\ pc[c] = "flush"
  <2>1. CASE pc[c] = "reflush"
    BY <1>1, <2>1 DEF WriteVerdict
  <2>2. CASE pc[c] \in {"overflow", "flush"}
    <3>1. verdict[Front] = "none"
      <4>1. \A d \in Coroutines : pc[d] \notin Handled
        BY <1>1, <2>2 DEF Handled
      <4> QED BY <1>2, <4>1 DEF Sole, Known, Ledger
    <3>2. verdict' = [verdict EXCEPT ![Front] = IF pc[c] = "overflow" THEN "ioError" ELSE "NoError"]
      BY <1>1, <1>2, <2>2, <3>1 DEF WriteVerdict, Answered
    <3> QED BY <1>1, <1>2, <2>2, <3>2
  <2> QED BY <1>1, <2>1, <2>2 DEF Suspended
<1>4. \A p \in Pieces : Found(wire, obuf, p) => Found(wire', obuf', p)
  <2>1. CASE Written(c)
    BY <1>1, <2>1, AllCarried DEF Written, Found
  <2>2. CASE ~Written(c)
    BY <1>1, <2>2 DEF LeftInPutArea
  <2> QED BY <2>1, <2>2
<1>5. \A p \in Pieces : Found(wire', obuf', p) => Found(wire, obuf, p)
  <2>1. obuf' = obuf \/ obuf' = <<>>
    BY <1>1 DEF LeftInPutArea
  <2>2. \A p \in Pieces : ~Held(<<>>, p)
    BY DEF Held
  <2> QED BY <1>1, <2>1, <2>2 DEF Found
<1>6. ASSUME NEW k \in {1, 2}, pc[c] = "flush" PROVE Found(wire', obuf', <<msg[c], k>>)
  <2>1. Found(wire, obuf, <<msg[c], k>>) /\ <<msg[c], k>> \in Pieces
    BY <1>1, <1>2, <1>6 DEF Answers, Tracked, Pieces
  <2> QED BY <1>4, <2>1
<1>7. \A d \in Coroutines : pc'[d] \notin Suspended
  BY <1>1 DEF Suspended
<1>8. \A m \in Messages : verdict'[m] = "DeviceBusy" => \A i \in 1..Len(accepted') : accepted'[i] # m
  BY <1>1, <1>3 DEF Answers
<1>9. \A m \in Messages, k \in {1, 2} :
        \/ verdict'[m] \in {verdict[m], "ioError"}
        \/ verdict'[m] = "NoError" /\ Found(wire', obuf', <<m, k>>)
  BY <1>3, <1>6
<1> QED BY <1>4, <1>5, <1>7, <1>8, <1>9, AnswersKept

\* A message refused for want of a connection has not been serialized.
LEMMA RefuseFrontAnswers ==
  ASSUME Sole, Sole', Order, Answers, NEW c \in Coroutines, RefuseFront(c),
         \A d \in Coroutines : d # c => pc[d] = "none"
  PROVE  Answers'
<1>1. /\ pc[c] = "check" /\ queue # <<>> /\ pc'[c] = "refused"
      /\ \A d \in Coroutines : d # c => pc'[d] = "none"
      /\ UNCHANGED <<queue, accepted, wire, obuf>> /\ verdict \in [Messages -> Verdicts]
      /\ verdict' = Answered(Front, "NotOpened")
  BY DEF RefuseFront, Sole, Known, Typed, TypeOK, SenderTypeOK, HistTypeOK
<1>2. Front \in Messages /\ verdict[Front] = "none" /\ Left \in Nat
  <2>1. \A d \in Coroutines : pc[d] \notin Handled
    BY <1>1 DEF Handled
  <2>2. Left \in Nat
    BY DEF Sole, Known, Ledger, Left, Typed, TypeOK, HistTypeOK, RestTypeOK
  <2>3. Front \in Messages
    BY <1>1, QueueFacts DEF Sole, Known
  <2> QED BY <1>1, <2>1, <2>2, <2>3 DEF Sole, Known, Ledger
<1>3. \A n \in Messages : verdict'[n] = IF n = Front THEN "NotOpened" ELSE verdict[n]
  BY <1>1, <1>2 DEF Answered
<1>4. ASSUME NEW k \in {1, 2} PROVE ~Found(wire, obuf, <<Front, k>>)
  <2>1. Top = 2 * Left + 2
    <3>1. \A d \in Coroutines : pc[d] \notin Writing /\ pc[d] \notin Handled
      BY <1>1 DEF Writing, Handled
    <3> QED BY <3>1, BoundAtRest DEF Top
  <2>2. <<Front, k>> \in Pieces /\ Rank(accepted, <<Front, k>>) = 2 * (Left + 1) + k
    <3>1. <<Front, k>> \in Pieces /\ <<Front, k>>[1] = Front /\ <<Front, k>>[2] = k
      BY <1>2 DEF Pieces
    <3>2. /\ accepted \in Seq(Messages) /\ Left + 1 \in 1..Len(accepted) /\ accepted[Left + 1] = Front
          /\ \A i, j \in 1..Len(accepted) : accepted[i] = accepted[j] => i = j
      BY <1>1, LineFacts DEF Sole, Known, Line
    <3> QED BY <3>1, <3>2, RankIs
  <2>3. ~(Rank(accepted, <<Front, k>>) <= Top)
    BY <1>2, <2>1, <2>2
  <2> QED BY <2>2, <2>3, FoundBelow
<1>5. \A p \in Pieces : Found(wire', obuf', p) => Found(wire, obuf, p) \/ verdict'[p[1]] # "NotOpened"
  BY <1>1
<1>6. \A d \in Coroutines : pc'[d] \notin Suspended
  BY <1>1 DEF Suspended
<1>7. \A m \in Messages : verdict'[m] = "DeviceBusy" => \A i \in 1..Len(accepted') : accepted'[i] # m
  BY <1>1, <1>3 DEF Answers
<1>8. \A m \in Messages, k \in {1, 2} :
        verdict'[m] = verdict[m] \/ (verdict'[m] = "NotOpened" /\ ~Found(wire, obuf, <<m, k>>))
  BY <1>3, <1>4
<1>9. \A p \in Pieces : Found(wire, obuf, p) => Found(wire', obuf', p)
  BY <1>1
<1> QED BY <1>5, <1>6, <1>7, <1>8, <1>9, AnswersKept

LEMMA SendStepAnswers ==
  ASSUME Sole, Sole', Order, Answers, NEW c \in Coroutines, SendStep(c)
  PROVE  Answers'
<1>1. /\ pc \in [Coroutines -> Places] /\ nw \in [Coroutines -> Nat]
      /\ msg \in [Coroutines -> Messages \cup {Idle}]
  BY DEF Sole, Known, Typed, TypeOK, SenderTypeOK
<1>2. pc[c] # "none" => \A d \in Coroutines : d # c => pc[d] = "none"
  BY DEF Sole, Known, Alone, Live
<1>3. running = c => pc[c] \in InLoop /\ nw[c] = 0
  BY DEF Sole, Known, Turns, Writers, InLoop, Suspended
<1>4. \A m \in Messages : verdict[m] = "DeviceBusy" => \A i \in 1..Len(accepted) : accepted[i] # m
  BY DEF Answers
<1>5. ASSUME UNCHANGED <<pc, msg, nw, obuf, wire, accepted, verdict>> PROVE Answers'
  BY <1>4, <1>5, AnswersSame
<1>6. ASSUME running = c, NEW p \in {"none", "check", "pop", "reflush"}, pc' = [pc EXCEPT ![c] = p],
             UNCHANGED <<nw, obuf, wire, accepted, verdict>>
      PROVE  Answers'
  <2>1. \A d \in Coroutines : pc'[d] \in Suspended => d = c /\ pc'[c] = "reflush" /\ nw'[c] = 0
    BY <1>1, <1>2, <1>3, <1>6 DEF Suspended, InLoop
  <2> QED BY <1>4, <1>6, <2>1, AnswersSame
<1>7. CASE BeginSend(c)
  BY <1>7 DEF BeginSend, Sole, Known, Alone
<1>8. CASE FinishSend(c)
  BY <1>6, <1>8 DEF FinishSend, hist
<1>9. CASE RefuseFront(c)
  BY <1>2, <1>9, RefuseFrontAnswers DEF RefuseFront
<1>10. CASE SerializeFront(c)
  <2>1. CASE sendYield # c
    BY <1>5, <1>10, <2>1 DEF SerializeFront, Fail, sender, hist
  <2>2. CASE sendYield = c
    <3>1. StartWrite(c, Front) /\ UNCHANGED <<accepted, wire, verdict>> /\ queue # <<>>
          /\ pc[c] = "check"
      BY <1>10, <2>2 DEF SerializeFront, hist
    <3>2. Front \in Messages /\ verdict[Front] = "none"
      <4>1. \A d \in Coroutines : pc[d] \notin Handled
        BY <1>2, <3>1 DEF Handled
      <4> QED BY <3>1, <4>1, QueueFacts DEF Sole, Known, Ledger
    <3>3. \A d \in Coroutines : d # c => pc[d] = "none"
      BY <1>2, <3>1
    <3> QED BY <1>4, <3>1, <3>2, <3>3, StartAnswers
  <2> QED BY <2>1, <2>2
<1>11. CASE ContinueWrite(c)
  BY <1>5, <1>11 DEF ContinueWrite, Fail, sender, hist
<1>12. CASE FlushRest(c)
  BY <1>2, <1>12, FlushRestAnswers DEF FlushRest
<1>13. CASE EndWrite(c)
  BY <1>2, <1>13, EndWriteAnswers DEF EndWrite, Suspended
<1>14. CASE HandlerReturned(c)
  <2>1. UNCHANGED <<msg, nw, obuf, wire, accepted, verdict>> /\ running = c
    BY <1>14 DEF HandlerReturned, hist
  <2>2. CASE pc' = [pc EXCEPT ![c] = "pop"] \/ pc' = [pc EXCEPT ![c] = "reflush"]
    BY <1>6, <2>1, <2>2
  <2>3. CASE UNCHANGED pc
    BY <1>5, <2>1, <2>3
  <2> QED BY <1>14, <2>2, <2>3 DEF HandlerReturned
<1>15. CASE PopFront(c)
  BY <1>5, <1>6, <1>15 DEF PopFront, Fail, sender, hist
<1> QED BY <1>7, <1>8, <1>9, <1>10, <1>11, <1>12, <1>13, <1>14, <1>15 DEF SendStep

\* What a write of the pieces of s from n + 1 to k adds to a connection.
Adds(s, n, k, old, new) ==
  /\ \A i \in 1..Len(old) : i \in 1..Len(new) /\ new[i] = old[i]
  /\ \A l \in n + 1 .. k : \E i \in 1..Len(new) : new[i] = s[l]
  /\ \A i \in 1..Len(new) : \/ i \in 1..Len(old) /\ new[i] = old[i]
                            \/ \E l \in 1..Len(s) : new[i] = s[l]

LEMMA WireGrows ==
  ASSUME NEW w \in Seq(Pieces), NEW s \in Seq(Pieces), NEW n \in Nat, NEW k \in n + 1 .. Len(s)
  PROVE  Adds(s, n, k, w, w \o SubSeq(s, n + 1, k))
<1> DEFINE t == SubSeq(s, n + 1, k)
<1>1. /\ t \in Seq(Pieces) /\ Len(t) = k - n
      /\ \A i \in 1 .. k - n : n + i \in 1..Len(s) /\ t[i] = s[n + i]
  BY PartFacts
<1> HIDE DEF t
<1>2. /\ Len(w \o t) = Len(w) + Len(t)
      /\ \A i \in 1..Len(w) : (w \o t)[i] = w[i]
      /\ \A i \in 1..Len(t) : (w \o t)[Len(w) + i] = t[i]
      /\ \A i \in 1..Len(w \o t) :
           i \in 1..Len(w) \/ (i - Len(w) \in 1..Len(t) /\ (w \o t)[i] = t[i - Len(w)])
  <2>1. t \in Seq(Pieces) /\ w \in Seq(Pieces)
    BY <1>1
  <2> QED BY <2>1, JoinFacts, SMTT(30)
<1>3. Len(w) \in Nat /\ Len(s) \in Nat /\ k \in Nat
  BY LenProperties
<1>4. \A i \in 1..Len(w) : i \in 1..Len(w \o t) /\ (w \o t)[i] = w[i]
  BY <1>1, <1>2, <1>3
<1>5. ASSUME NEW l \in n + 1 .. k PROVE \E i \in 1..Len(w \o t) : (w \o t)[i] = s[l]
  <2>1. /\ l - n \in 1 .. k - n /\ n + (l - n) = l /\ l - n \in 1..Len(t)
        /\ Len(w) + (l - n) \in 1..Len(w \o t)
    BY <1>1, <1>2, <1>3
  <2>2. (w \o t)[Len(w) + (l - n)] = s[l]
    BY <1>1, <1>2, <2>1
  <2> QED BY <2>1, <2>2
<1>6. ASSUME NEW i \in 1..Len(w \o t)
      PROVE  \/ i \in 1..Len(w) /\ (w \o t)[i] = w[i]
             \/ \E l \in 1..Len(s) : (w \o t)[i] = s[l]
  <2>1. CASE i \in 1..Len(w)
    BY <1>2, <2>1
  <2>2. CASE i - Len(w) \in 1..Len(t) /\ (w \o t)[i] = t[i - Len(w)]
    <3>1. i - Len(w) \in 1 .. k - n
      BY <1>1, <2>2
    <3> QED BY <1>1, <2>2, <3>1
  <2> QED BY <1>2, <2>1, <2>2
<1> QED BY <1>4, <1>5, <1>6 DEF Adds, t

LEMMA WriteSomeAnswers ==
  ASSUME Sole, Sole', Answers, NEW c \in Coroutines, WriteSome(c)
  PROVE  Answers'
<1>1. /\ op[c] = "pending" /\ UNCHANGED <<pc, msg, obuf, accepted, verdict>>
      /\ session \in Sessions /\ nw[c] \in Nat /\ obuf \in Seq(Pieces)
      /\ wire[session] \in Seq(Pieces)
  BY DEF WriteSome, link, Sole, Known, Typed, TypeOK, SenderTypeOK, LinkTypeOK, RestTypeOK, HistTypeOK
<1>2. PICK k \in nw[c] + 1 .. Len(obuf) :
        /\ wire' = [wire EXCEPT ![session] = @ \o SubSeq(obuf, nw[c] + 1, k)]
        /\ nw' = [nw EXCEPT ![c] = k]
  BY DEF WriteSome
<1>3. pc[c] \in Suspended /\ \A d \in Coroutines : pc[d] \in Suspended => d = c
  BY <1>1 DEF Sole, Known, Turns, Writers
<1> DEFINE w == wire[session]
           v == wire'[session]
           n == nw[c]
<1>4. /\ v = w \o SubSeq(obuf, n + 1, k) /\ nw'[c] = k
      /\ \A s \in Sessions : s # session => wire'[s] = wire[s]
  BY <1>1, <1>2 DEF Sole, Known, Typed, TypeOK, SenderTypeOK, HistTypeOK
<1>5. /\ \A i \in 1..Len(w) : i \in 1..Len(v) /\ v[i] = w[i]
      /\ \A l \in n + 1 .. k : \E i \in 1..Len(v) : v[i] = obuf[l]
      /\ \A i \in 1..Len(v) : \/ i \in 1..Len(w) /\ v[i] = w[i]
                              \/ \E l \in 1..Len(obuf) : v[i] = obuf[l]
  <2>1. w \in Seq(Pieces) /\ obuf \in Seq(Pieces) /\ n \in Nat /\ k \in n + 1 .. Len(obuf)
    BY <1>1, <1>2
  <2>2. v = w \o SubSeq(obuf, n + 1, k)
    BY <1>4
  <2> HIDE DEF v, w, n
  <2>3. Adds(obuf, n, k, w, v)
    BY <2>1, <2>2, WireGrows
  <2> QED BY <2>3 DEF Adds
<1>6. \A p \in Pieces : Carried(wire, p) => Carried(wire', p)
  <2> SUFFICES ASSUME NEW p \in Pieces, NEW s \in Sessions, NEW i \in 1..Len(wire[s]), wire[s][i] = p
               PROVE  Carried(wire', p)
    BY DEF Carried
  <2>1. CASE s = session
    BY <1>1, <1>5, <2>1 DEF Carried
  <2>2. CASE s # session
    BY <1>4, <2>2 DEF Carried
  <2> QED BY <2>1, <2>2
<1>7. \A p \in Pieces : Carried(wire', p) => Carried(wire, p) \/ Held(obuf, p)
  <2> SUFFICES ASSUME NEW p \in Pieces, NEW s \in Sessions, NEW i \in 1..Len(wire'[s]), wire'[s][i] = p
               PROVE  Carried(wire, p) \/ Held(obuf, p)
    BY DEF Carried
  <2>1. CASE s = session
    BY <1>1, <1>5, <2>1 DEF Carried, Held
  <2>2. CASE s # session
    BY <1>4, <2>2 DEF Carried
  <2> QED BY <2>1, <2>2
<1>8. \A j \in 1..k : Carried(wire', obuf[j])
  <2> SUFFICES ASSUME NEW j \in 1..k PROVE Carried(wire', obuf[j])
    OBVIOUS
  <2>0. k \in Nat /\ k <= Len(obuf) /\ Len(obuf) \in Nat
    BY <1>1, <1>2
  <2>1. j \in 1..Len(obuf) /\ obuf[j] \in Pieces
    BY <1>1, <2>0
  <2>2. CASE j \in 1..n
    <3>1. Carried(wire, obuf[j])
      BY <1>3, <2>2 DEF Answers, Tracked
    <3> QED BY <1>6, <2>1, <3>1
  <2>3. CASE j \in n + 1 .. k
    <3>1. \E i \in 1..Len(v) : v[i] = obuf[j]
      BY <1>5, <2>3
    <3> QED BY <1>1, <3>1 DEF Carried
  <2>4. j \in 1..n \/ j \in n + 1 .. k
    BY <1>1, <2>0
  <2> QED BY <2>2, <2>3, <2>4
<1>9. \A p \in Pieces : Found(wire, obuf, p) <=> Found(wire', obuf', p)
  BY <1>1, <1>6, <1>7 DEF Found
<1>10. Tracked(wire', obuf', pc'[c], msg'[c], nw'[c])
  <2>1. Tracked(wire, obuf, pc[c], msg[c], nw[c]) /\ msg[c] \in Messages
    BY <1>3 DEF Answers, Sole, Known, Typed, HasMessage
  <2>2. \A l \in {1, 2} : Found(wire, obuf, <<msg[c], l>>) => Found(wire', obuf', <<msg[c], l>>)
    BY <1>9, <2>1 DEF Pieces
  <2>3. UNCHANGED <<pc, msg, obuf>> /\ nw'[c] = k
    BY <1>1, <1>4
  <2> HIDE DEF v, w, n
  <2> QED BY <1>8, <2>1, <2>2, <2>3 DEF Tracked
<1>11. \A d \in Coroutines : pc'[d] \in Suspended => Tracked(wire', obuf', pc'[d], msg'[d], nw'[d])
  BY <1>1, <1>3, <1>10
<1>12. \A m \in Messages : verdict'[m] = "DeviceBusy" => \A i \in 1..Len(accepted') : accepted'[i] # m
  BY <1>1 DEF Answers
<1>13. verdict' = verdict
  BY <1>1
<1> QED BY <1>9, <1>11, <1>12, <1>13, AnswersKept

LEMMA OtherAnswers ==
  ASSUME Sole, Sole', Answers, OtherStep
  PROVE  Answers'
<1>1. UNCHANGED <<pc, msg, accepted, verdict>>
  BY OtherStepLeaves
<1>2. \A m \in Messages : verdict[m] = "DeviceBusy" => \A i \in 1..Len(accepted') : accepted'[i] # m
  BY <1>1 DEF Answers
<1>3. ASSUME UNCHANGED <<nw, obuf, wire>> PROVE Answers'
  BY <1>1, <1>2, <1>3, AnswersSame
<1>4. CASE ReceiveStep \/ StartReceive \/ SetSocket \/ Close \/ ConnectionBreaks \/ ReadSome \/ ReadFails
  BY <1>3, <1>4 DEF ReceiveStep, EndRead, EndReadFailed, ReceiverReturned, Deliver, StartReceive,
     SetSocket, Close, Closed, ConnectionBreaks, ReadSome, ReadFails, Fail, sender, hist
<1>5. ASSUME NEW c \in Coroutines, WriteStep(c) PROVE Answers'
  <2>1. CASE WriteSome(c)
    BY <2>1, WriteSomeAnswers
  <2>2. CASE WriteFails(c)
    BY <1>3, <2>2 DEF WriteFails, hist
  <2> QED BY <1>5, <2>1, <2>2 DEF WriteStep
<1> QED BY <1>4, <1>5 DEF OtherStep

LEMMA InitAnswers == Init => Answers
<1> QED BY DEF Init, Answers, Suspended

LEMMA NextSole == OnlyLoopSends /\ Sole /\ [Next]_vars => Sole'
<1> QED BY NextKnown, NextAlone, NextLedger DEF Sole, Known

LEMMA NextAnswers == OnlyLoopSends /\ Sole /\ Order /\ Answers /\ [Next]_vars => Answers'
<1> SUFFICES ASSUME OnlyLoopSends, Sole, Order, Answers, [Next]_vars PROVE Answers'
  OBVIOUS
<1>1. Sole'
  BY NextSole
<1>2. CASE UNCHANGED vars
  <2>1. \A m \in Messages : verdict[m] = "DeviceBusy" => \A i \in 1..Len(accepted') : accepted'[i] # m
    BY <1>2 DEF Answers, vars, hist
  <2> QED BY <1>1, <1>2, <2>1, AnswersSame DEF vars, sender, hist
<1>3. ASSUME NEW m \in Messages, SendFromThread(m) \/ SendFromLoop(m) PROVE Answers'
  BY <1>1, <1>3, SendFromLoopAnswers DEF SendFromThread, OnlyLoopSends
<1>4. ASSUME NEW c \in Coroutines, SendStep(c) PROVE Answers'
  BY <1>1, <1>4, SendStepAnswers
<1>5. CASE OtherStep
  BY <1>1, <1>5, OtherAnswers
<1> QED BY <1>2, <1>3, <1>4, <1>5 DEF Next, Environment, OtherStep

\* A message refused by a busy channel was never accepted, so it is nowhere.
LEMMA AnswersAreTrue == Sole /\ Order /\ Answers => AnswersHold
<1> SUFFICES ASSUME Sole, Order, Answers, NEW m \in Messages, NEW k \in {1, 2}
             PROVE  /\ verdict[m] = "NoError" => Found(wire, obuf, <<m, k>>)
                    /\ verdict[m] \in {"DeviceBusy", "NotOpened"} => ~Found(wire, obuf, <<m, k>>)
  BY DEF AnswersHold, OnSomeWire, InBuffer, Found, Carried, Held
<1>1. verdict[m] = "DeviceBusy" => ~Found(wire, obuf, <<m, k>>)
  <2> SUFFICES ASSUME verdict[m] = "DeviceBusy", Found(wire, obuf, <<m, k>>) PROVE FALSE
    OBVIOUS
  <2>1. <<m, k>> \in Pieces /\ <<m, k>>[1] = m
    BY DEF Pieces
  <2>2. \E i \in 1..Len(accepted) : accepted[i] = m
    BY <2>1, FoundBelow DEF Listed
  <2> QED BY <2>2 DEF Answers
<1> QED BY <1>1 DEF Answers

\* Whatever breaks and closes the connection under its writes, a message whose
\* handler heard kENoError has left or is still in the stream buffer, and one that
\* was refused never reaches the peer, while only the loop sends.
THEOREM HandlersHearTheTruth == OnlyLoopSends => (Spec => []AnswersHold)
<1> SUFFICES ASSUME OnlyLoopSends PROVE Spec => []AnswersHold
  OBVIOUS
<1>1. Init => Sole
  BY InitKnown, InitAlone, InitLedger DEF Sole
<1>2. Sole /\ [Next]_vars => Sole'
  BY NextSole
<1>3. Sole /\ Order /\ [Next]_vars => Order'
  BY NextOrder DEF Sole
<1>4. Sole /\ Order /\ Answers /\ [Next]_vars => Answers'
  BY NextAnswers
<1> QED BY <1>1, <1>2, <1>3, <1>4, InitOrder, InitAnswers, AnswersAreTrue, PTL DEF Spec
=============================================================================
