------------------------------ MODULE Channel ------------------------------
(***************************************************************************)
(* comm::Channel: one TCP connection of a remote control, with a bounded   *)
(* queue of messages and a coroutine, doSendMessage, that drains it, and a *)
(* coroutine, doReceiveMessage, that reads one message.                    *)
(*                                                                         *)
(* Coroutines and callbacks run on the one thread of the run loop: code    *)
(* between two suspensions is atomic for the loop, but not for the other   *)
(* threads that call asyncSendMessage, so a step below ends at every access*)
(* to the queue, and `running` says what the loop is in the middle of.  A  *)
(* failed assertion stops the program (`failed`).  A message is two pieces *)
(* of the byte stream: a small one enters the stream buffer whole, a large *)
(* one overflows it after its first piece.                                 *)
(***************************************************************************)
EXTENDS Naturals, Sequences, FiniteSets

CONSTANTS
  Messages,      \* the messages sent, each once
  LoopMessages,  \* those sent by callbacks that run on the run loop
  Large,         \* those that do not fit in the stream buffer
  Coroutines,    \* instances of doSendMessage alive at a time (a bound)
  QueueLimit,    \* capacity of m_SendBufferQueue
  MaxSessions,   \* connections made (a bound)
  MaxIncoming    \* messages the peer sends (a bound)

Idle     == "idle"     \* running: between two handlers; sendYield: null
Receiver == "receive"  \* running: the handler of doReceiveMessage

ASSUME ChannelAssumption ==
  /\ LoopMessages \subseteq Messages
  /\ Large \subseteq Messages
  /\ {Idle, Receiver} \cap Coroutines = {}
  /\ QueueLimit \in Nat \ {0}
  /\ MaxSessions \in Nat
  /\ MaxIncoming \in Nat

VARIABLES
  queue,      \* m_SendBufferQueue
  pc,         \* where each doSendMessage is,
  msg,        \* the message it is sending,
  op,         \* its write on the socket
  nw,         \* and how much of the put area it wrote
  sendYield,  \* m_SendYield: the coroutine it points to, or Idle
  obuf,       \* the put area of m_SocketStreamBuf
  sock,       \* m_Socket: "none", "open", or "broken" by an i/o error
  session,    \* sockets set so far
  running,    \* what the run loop is executing
  reader,     \* doReceiveMessage: m_ReceiveYield, its read, the get area
  wire,       \* what each connection carried (history)
  accepted,   \* messages in the order they were queued (history)
  verdict,    \* what each message's handler was told (history)
  failed      \* what stopped the program

sender == <<pc, msg, op, nw>>
link   == <<sock, session, reader>>
hist   == <<wire, accepted, verdict>>
vars   == <<queue, sender, sendYield, obuf, sock, session, running, reader, hist, failed>>

Pieces    == Messages \X {1, 2}
Sessions  == 1..MaxSessions
OpState   == {"none", "pending", "done", "error", "aborted"}
Suspended == {"overflow", "flush", "reflush"}
InHandler == {"answered", "refused"}
Places    == {"none", "posted", "check", "pop"} \cup InHandler \cup Suspended
Reader    == [yield : BOOLEAN, op : OpState, ibuf : Nat, arrived : Nat]

Verdicts  == {"none", "NoError", "ioError", "DeviceBusy", "NotOpened", "twice"}
Failures  == {"SendYieldSet", "ReceiveYieldSet", "PullWhileRunning", "EmptySocket",
              "PopEmptyQueue", "LockedByItself"}

SenderTypeOK ==
  /\ pc \in [Coroutines -> Places]
  /\ msg \in [Coroutines -> Messages \cup {Idle}]
  /\ op \in [Coroutines -> OpState]
  /\ nw \in [Coroutines -> Nat]
LinkTypeOK ==
  /\ sock \in {"none", "open", "broken"}
  /\ session \in 0..MaxSessions /\ (sock # "none" => session \in Sessions)
  /\ reader \in Reader
HistTypeOK ==
  /\ wire \in [Sessions -> Seq(Pieces)]
  /\ accepted \in Seq(Messages)
  /\ verdict \in [Messages -> Verdicts]
RestTypeOK ==
  /\ queue \in Seq(Messages) /\ Len(queue) <= QueueLimit
  /\ sendYield \in Coroutines \cup {Idle}
  /\ obuf \in Seq(Pieces)
  /\ running \in Coroutines \cup {Idle, Receiver}
  /\ failed \in Failures \cup {"none"}
TypeOK == SenderTypeOK /\ LinkTypeOK /\ HistTypeOK /\ RestTypeOK

Init ==
  /\ queue = <<>> /\ obuf = <<>> /\ accepted = <<>>
  /\ pc = [c \in Coroutines |-> "none"] /\ msg = [c \in Coroutines |-> Idle]
  /\ op = [c \in Coroutines |-> "none"] /\ nw = [c \in Coroutines |-> 0]
  /\ sendYield = Idle /\ running = Idle
  /\ sock = "none" /\ session = 0
  /\ reader = [yield |-> FALSE, op |-> "none", ibuf |-> 0, arrived |-> 0]
  /\ wire = [s \in Sessions |-> <<>>]
  /\ verdict = [m \in Messages |-> "none"]
  /\ failed = "none"

-----------------------------------------------------------------------------
Fail(why) ==
  /\ failed' = why
  /\ UNCHANGED <<queue, sender, sendYield, obuf, link, running, hist>>

Answered(m, v) == [verdict EXCEPT ![m] = IF @ = "none" THEN v ELSE "twice"]

\* Callbacks run between two handlers of the loop or in a channel's handler.
UserCode == {Idle, Receiver} \cup {c \in Coroutines : pc[c] \in InHandler}

\* archive & msg: what the put area holds when the coroutine first suspends.
Serialized(m) ==
  obuf \o (IF m \in Large THEN <<<<m, 1>>>> ELSE <<<<m, 1>>, <<m, 2>>>>)
FirstWrite(m) == IF m \in Large THEN "overflow" ELSE "flush"
StartWrite(c, m) ==
  /\ obuf' = Serialized(m)
  /\ pc' = [pc EXCEPT ![c] = FirstWrite(m)]
  /\ msg' = [msg EXCEPT ![c] = m]
  /\ op' = [op EXCEPT ![c] = "pending"]
  /\ nw' = nw

(***************************************************************************)
(* asyncSendMessage, the whole of it under m_SendBufferQueueSync.          *)
(***************************************************************************)
Unsent(m)   == verdict[m] = "none" /\ \A i \in 1..Len(accepted) : accepted[i] # m
Free        == {c \in Coroutines : pc[c] = "none"}
SpawnLate   == Len(queue) = 1                                       \* mutant
ShouldSpawn == queue = <<>>
Front       == Head(queue)
StrandBusy  == \E c \in Coroutines : pc[c] = "posted"

\* Mutant: without the else, the full circular buffer drops its oldest.
RefuseAndQueue(m) ==
  /\ Len(queue) = QueueLimit
  /\ verdict' = Answered(m, "DeviceBusy")
  /\ queue' = Append(Tail(queue), m)
  /\ accepted' = Append(accepted, m)
  /\ UNCHANGED <<sender, sendYield, obuf, link, running, wire, failed>>

RefuseBusy(m) ==
  /\ Len(queue) = QueueLimit
  /\ verdict' = Answered(m, "DeviceBusy")
  /\ UNCHANGED <<queue, sender, sendYield, obuf, link, running, wire,
                 accepted, failed>>

Enqueue(m) ==
  /\ Len(queue) < QueueLimit
  /\ queue' = Append(queue, m)
  /\ accepted' = Append(accepted, m)

Post(m) ==
  /\ Enqueue(m)
  /\ IF ShouldSpawn THEN \E c \in Free : pc' = [pc EXCEPT ![c] = "posted"]
                    ELSE pc' = pc
  /\ UNCHANGED <<msg, op, nw, sendYield, obuf, link, running, wire, verdict, failed>>

\* On the loop's own thread the strand runs the new coroutine at once, inside
\* asyncSendMessage and under its lock, until it suspends.  Without a socket it
\* does not suspend: it answers NotOpened and waits for that lock to pop, and the
\* loop has locked itself.
StartInline(m) ==
  IF sendYield # Idle THEN Fail("SendYieldSet")
  ELSE IF sock = "none" THEN Fail("LockedByItself")
  ELSE \E c \in Free :
         /\ Enqueue(m)
         /\ sendYield' = c
         /\ StartWrite(c, m)
         /\ UNCHANGED <<link, running, wire, verdict, failed>>

SendFromThread(m) == m \notin LoopMessages /\ Unsent(m) /\ (RefuseBusy(m) \/ Post(m))

SendFromLoop(m) ==
  /\ m \in LoopMessages /\ Unsent(m)
  /\ running \in UserCode
  /\ \/ RefuseBusy(m)
     \/ ShouldSpawn /\ ~StrandBusy /\ StartInline(m)
     \/ ~(ShouldSpawn /\ ~StrandBusy) /\ Post(m)

(***************************************************************************)
(* doSendMessage                                                           *)
(***************************************************************************)
BeginSend(c) ==
  /\ pc[c] = "posted" /\ running = Idle
  /\ IF sendYield # Idle
     THEN Fail("SendYieldSet")
     ELSE /\ sendYield' = c
          /\ pc' = [pc EXCEPT ![c] = "check"]
          /\ running' = c
          /\ UNCHANGED <<queue, msg, op, nw, obuf, link, hist, failed>>

FinishSend(c) ==
  /\ running = c /\ pc[c] = "check" /\ queue = <<>>
  /\ sendYield' = Idle
  /\ pc' = [pc EXCEPT ![c] = "none"] /\ msg' = [msg EXCEPT ![c] = Idle]
  /\ running' = Idle
  /\ UNCHANGED <<queue, op, nw, obuf, link, hist, failed>>

RefuseFront(c) ==
  /\ running = c /\ pc[c] = "check" /\ queue # <<>> /\ sock = "none"
  /\ verdict' = Answered(Front, "NotOpened")
  /\ pc' = [pc EXCEPT ![c] = "refused"] /\ msg' = [msg EXCEPT ![c] = Front]
  /\ UNCHANGED <<queue, op, nw, sendYield, obuf, link, running, wire, accepted, failed>>

SerializeFront(c) ==
  /\ running = c /\ pc[c] = "check" /\ queue # <<>> /\ sock # "none"
  /\ IF sendYield # c
     THEN Fail("PullWhileRunning")
     ELSE /\ StartWrite(c, Front)
          /\ running' = Idle
          /\ UNCHANGED <<queue, sendYield, link, hist, failed>>

\* SocketDevice::write loops until everything is written, and dereferences
\* m_Socket and m_SendYield anew for the rest.
ContinueWrite(c) ==
  /\ running = Idle /\ op[c] = "done" /\ nw[c] < Len(obuf)
  /\ IF sendYield # c
     THEN Fail("EmptySocket")
     ELSE /\ op' = [op EXCEPT ![c] = "pending"]
          /\ UNCHANGED <<queue, pc, msg, nw, sendYield, obuf, link, running, hist, failed>>

Written(c) == op[c] = "done" /\ nw[c] = Len(obuf)

\* The overflow of a large message is written: its second piece goes to the
\* put area and pubsync writes it, or leaves it there when m_SendYield is null.
FlushRest(c) ==
  /\ running = Idle /\ Written(c) /\ pc[c] = "overflow"
  /\ obuf' = <<<<msg[c], 2>>>>
  /\ nw' = [nw EXCEPT ![c] = 0]
  /\ IF sendYield = c
     THEN /\ pc' = [pc EXCEPT ![c] = "flush"] /\ op' = [op EXCEPT ![c] = "pending"]
          /\ UNCHANGED <<verdict, running>>
     ELSE /\ pc' = [pc EXCEPT ![c] = "answered"] /\ op' = [op EXCEPT ![c] = "none"]
          /\ verdict' = Answered(msg[c], "NoError")
          /\ running' = c
  /\ UNCHANGED <<queue, msg, sendYield, link, wire, accepted, failed>>

\* The error of a write in pubsync or ~OArchive does not reach doSendMessage,
\* for sync() does not throw: only an overflow's does.
WriteVerdict(c) ==
  CASE pc[c] = "overflow" -> Answered(msg[c], "ioError")
    [] pc[c] = "flush"    -> Answered(msg[c], "NoError")
    [] pc[c] = "reflush"  -> verdict

KeepPutArea(c)   == obuf                                            \* mutants
ClearPutArea(c)  == <<>>
KeepUnwritten(c) == SubSeq(obuf, nw[c] + 1, Len(obuf))
LeftInPutArea(c) == IF Written(c) THEN <<>> ELSE obuf

EndWrite(c) ==
  /\ running = Idle /\ pc[c] \in Suspended
  /\ \/ op[c] \in {"error", "aborted"}
     \/ Written(c) /\ pc[c] # "overflow"
  /\ obuf' = LeftInPutArea(c)
  /\ verdict' = WriteVerdict(c)
  /\ pc' = [pc EXCEPT ![c] = IF @ = "reflush" THEN "pop" ELSE "answered"]
  /\ op' = [op EXCEPT ![c] = "none"] /\ nw' = [nw EXCEPT ![c] = 0]
  /\ running' = c
  /\ UNCHANGED <<queue, msg, sendYield, link, wire, accepted, failed>>

\* The handler returned; ~OArchive flushes what a failed write left behind.
HandlerReturned(c) ==
  /\ running = c /\ pc[c] \in InHandler
  /\ IF pc[c] = "refused" \/ obuf = <<>> \/ sendYield = Idle
     THEN pc' = [pc EXCEPT ![c] = "pop"] /\ UNCHANGED <<op, running, failed>>
     ELSE IF sendYield = c
     THEN /\ pc' = [pc EXCEPT ![c] = "reflush"] /\ op' = [op EXCEPT ![c] = "pending"]
          /\ running' = Idle /\ UNCHANGED failed
     ELSE failed' = "PullWhileRunning" /\ UNCHANGED <<pc, op, running>>
  /\ UNCHANGED <<queue, msg, nw, sendYield, obuf, link, hist>>

PopFront(c) ==
  /\ running = c /\ pc[c] = "pop"
  /\ IF queue = <<>>
     THEN Fail("PopEmptyQueue")
     ELSE /\ queue' = Tail(queue)
          /\ pc' = [pc EXCEPT ![c] = "check"]
          /\ UNCHANGED <<msg, op, nw, sendYield, obuf, link, running, hist, failed>>

(***************************************************************************)
(* The socket.  The loop runs completions in the order they occurred, so   *)
(* those of a closed socket run before another connection is made.         *)
(***************************************************************************)
SetSocket ==
  /\ running = Idle /\ sock = "none" /\ session < MaxSessions
  /\ reader.op = "none" /\ \A c \in Coroutines : op[c] = "none"
  /\ sock' = "open"
  /\ session' = session + 1
  /\ UNCHANGED <<queue, sender, sendYield, obuf, running, reader, hist, failed>>

NotCancelled(o) == o                                                \* mutant
Cancelled(o) == IF o = "pending" THEN "aborted" ELSE o

Closed ==
  /\ sock' = "none"
  /\ sendYield' = Idle
  /\ op' = [c \in Coroutines |-> Cancelled(op[c])]
  /\ UNCHANGED <<pc, msg, nw>>

Close ==
  /\ running \in UserCode /\ sock # "none"
  /\ Closed
  /\ reader' = [reader EXCEPT !.yield = FALSE, !.op = Cancelled(@)]
  /\ UNCHANGED <<queue, obuf, session, running, hist, failed>>

ConnectionBreaks ==
  /\ sock = "open"
  /\ sock' = "broken"
  /\ UNCHANGED <<queue, sender, sendYield, obuf, session, running, reader, hist, failed>>

WriteSome(c) ==
  /\ op[c] = "pending" /\ sock = "open"
  /\ \E k \in nw[c] + 1 .. Len(obuf) :
       /\ wire' = [wire EXCEPT ![session] = @ \o SubSeq(obuf, nw[c] + 1, k)]
       /\ op' = [op EXCEPT ![c] = "done"] /\ nw' = [nw EXCEPT ![c] = k]
  /\ UNCHANGED <<queue, pc, msg, sendYield, obuf, link, running, accepted, verdict, failed>>

WriteFails(c) ==
  /\ op[c] = "pending" /\ sock = "broken"
  /\ op' = [op EXCEPT ![c] = "error"]
  /\ UNCHANGED <<queue, pc, msg, nw, sendYield, obuf, link, running, hist, failed>>

ReadSome ==
  /\ reader.op = "pending" /\ sock = "open"
  /\ \E n \in 1 .. MaxIncoming - reader.arrived :
       reader' = [reader EXCEPT !.op = "done", !.ibuf = @ + n, !.arrived = @ + n]
  /\ UNCHANGED <<queue, sender, sendYield, obuf, sock, session, running, hist, failed>>

ReadFails ==
  /\ reader.op = "pending" /\ sock = "broken"
  /\ reader' = [reader EXCEPT !.op = "error"]
  /\ UNCHANGED <<queue, sender, sendYield, obuf, sock, session, running, hist, failed>>

(***************************************************************************)
(* doReceiveMessage.  Its pubsync and ~IArchive flush the put area too,    *)
(* and would do it through the yield of the send coroutine.                *)
(***************************************************************************)
PullsSender == obuf # <<>> /\ sendYield # Idle

YieldKept == [reader EXCEPT !.op = "none"]                          \* mutant
ReadEnded == [reader EXCEPT !.yield = FALSE, !.op = "none"]

Deliver ==
  IF PullsSender THEN Fail("PullWhileRunning")
  ELSE /\ reader' = [ReadEnded EXCEPT !.ibuf = @ - 1]
       /\ running' = Receiver
       /\ UNCHANGED <<queue, sender, sendYield, obuf, sock, session, hist, failed>>

\* The user of a channel keeps at most one receive outstanding.
StartReceive ==
  /\ running \in {Idle, Receiver} /\ reader.op = "none" /\ sock # "none"
  /\ IF reader.yield THEN Fail("ReceiveYieldSet")
     ELSE IF reader.ibuf > 0 THEN Deliver
     ELSE /\ reader' = [reader EXCEPT !.yield = TRUE, !.op = "pending"]
          /\ UNCHANGED <<queue, sender, sendYield, obuf, sock, session, running, hist, failed>>

EndRead == running = Idle /\ reader.op = "done" /\ Deliver

\* An error reaches the handler only while the channel is open, and the
\* handler of the channels' one user, RemoteControl, closes them.
EndReadFailed ==
  /\ running = Idle /\ reader.op \in {"error", "aborted"}
  /\ reader' = ReadEnded
  /\ IF sock # "none" THEN Closed ELSE UNCHANGED <<sender, sock, sendYield>>
  /\ UNCHANGED <<queue, obuf, session, running, hist, failed>>

ReceiverReturned ==
  /\ running = Receiver
  /\ IF PullsSender
     THEN Fail("PullWhileRunning")
     ELSE /\ running' = Idle
          /\ UNCHANGED <<queue, sender, sendYield, obuf, link, hist, failed>>

-----------------------------------------------------------------------------
SendStep(c) ==
  /\ failed = "none"
  /\ \/ BeginSend(c) \/ FinishSend(c) \/ RefuseFront(c) \/ SerializeFront(c)
     \/ ContinueWrite(c) \/ FlushRest(c) \/ EndWrite(c) \/ HandlerReturned(c) \/ PopFront(c)
WriteStep(c) == failed = "none" /\ (WriteSome(c) \/ WriteFails(c))
ReceiveStep  == failed = "none" /\ (EndRead \/ EndReadFailed \/ ReceiverReturned)

Environment ==
  /\ failed = "none"
  /\ \/ \E m \in Messages : SendFromThread(m) \/ SendFromLoop(m)
     \/ SetSocket \/ Close \/ ConnectionBreaks
     \/ ReadSome \/ ReadFails \/ StartReceive

Next == Environment \/ ReceiveStep \/ \E c \in Coroutines : SendStep(c) \/ WriteStep(c)

Spec == Init /\ [][Next]_vars

\* The run loop runs every handler that is ready and returns from each, and a
\* write on a connection ends, at the latest when the connection breaks.
FairSpec ==
  /\ Spec
  /\ \A c \in Coroutines : WF_vars(SendStep(c)) /\ WF_vars(WriteStep(c))
  /\ WF_vars(ReceiveStep)

-----------------------------------------------------------------------------
(***************************************************************************)
(* Properties                                                              *)
(***************************************************************************)
\* No lost wake-up: whenever a message waits in the queue, some doSendMessage
\* coroutine is on its way, although asyncSendMessage spawns one only on an
\* empty queue and other threads push while the last one is leaving its loop.
SenderForQueue ==
  failed = "none" /\ queue # <<>> => \E c \in Coroutines : pc[c] # "none"

\* A message's handler is called at most once, whatever closes or breaks while
\* doSendMessage is suspended with it.
OneAnswer == \A m \in Messages : verdict[m] # "twice"

\* Handlers are called in the order the messages were queued (proved).
AnsweredInOrder ==
  \A i, j \in 1..Len(accepted) :
    i < j /\ verdict[accepted[j]] # "none" => verdict[accepted[i]] # "none"

\* A queued message stays in the queue until its handler has been called (proved).
NoneForgotten ==
  \A i \in 1..Len(accepted) :
    verdict[accepted[i]] = "none" => \E j \in 1..Len(queue) : queue[j] = accepted[i]

\* Within a connection the peer never sees a byte twice or out of order, even
\* after failed writes whose bytes stay in the stream buffer.
Position(p) == CHOOSE i \in 1..Len(accepted) : accepted[i] = p[1]
Before(p, q) == \/ Position(p) < Position(q)
                \/ Position(p) = Position(q) /\ p[2] < q[2]
WireInOrder ==
  \A s \in Sessions : \A i, j \in 1..Len(wire[s]) :
    i < j => Before(wire[s][i], wire[s][j])

OnSomeWire(p) == \E s \in Sessions : \E i \in 1..Len(wire[s]) : wire[s][i] = p
InBuffer(p)   == \E i \in 1..Len(obuf) : obuf[i] = p

\* What a handler is told is true.  A message reported with kENoError left on a
\* connection or is still in the stream buffer, whence the next write takes it;
\* one refused with kEDeviceBusy or kENotOpened never reaches the peer.
AnswersHold ==
  \A m \in Messages, k \in {1, 2} :
    /\ verdict[m] = "NoError" => OnSomeWire(<<m, k>>) \/ InBuffer(<<m, k>>)
    /\ verdict[m] \in {"DeviceBusy", "NotOpened"} => ~OnSomeWire(<<m, k>>) /\ ~InBuffer(<<m, k>>)

\* While every message fits in the stream buffer, a connection carries whole
\* messages from its first byte: what an earlier one left behind is whole too.
Framed ==
  \A s \in Sessions : \A i \in 1..Len(wire[s]) : wire[s][i][2] = IF i % 2 = 1 THEN 1 ELSE 2

\* The assertions of the code, one each.
SendYieldAssertion    == failed # "SendYieldSet"
ReceiveYieldAssertion == failed # "ReceiveYieldSet"
PullAssertion         == failed # "PullWhileRunning"
SocketAssertion       == failed # "EmptySocket"
PopAssertion          == failed # "PopEmptyQueue"

\* A queued message is answered in the end, even when the connection breaks or
\* is closed under its write.
EventuallyAnswered ==
  \A m \in Messages :
    (\E i \in 1..Len(accepted) : accepted[i] = m) ~> (verdict[m] # "none" \/ failed # "none")

\* As long as no thread but the loop's sends, the channel is the Outbox; the
\* message whose handler was called leaves the queue a few steps later.
Waiting == IF queue # <<>> /\ verdict[Front] # "none" THEN Tail(queue) ELSE queue
Box == INSTANCE Outbox WITH Limit <- QueueLimit, waiting <- Waiting, said <- verdict
ImplementsOutbox == Box!Spec
=============================================================================
