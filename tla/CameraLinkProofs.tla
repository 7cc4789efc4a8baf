-------------------------- MODULE CameraLinkProofs --------------------------
(***************************************************************************)
(* However often sides are started, stopped and connected: the server has  *)
(* one accept under way at most, a connected side has its graph run on an  *)
(* open stream, and one that was stopped stays so.                         *)
(***************************************************************************)
EXTENDS CameraLink, TLAPS, SequenceTheorems

\* What the other parts need of the types.
Typed == waiting \in Nat /\ ready \in Seq({"ok", "error"})

\* An accept is started only where none is: by a server that has just been
\* started, or that loses its connection.
ServerInv ==
  /\ server = "connected" => waiting = 0 /\ ready = <<>> /\ stask \in {"none", "pausing"}
  /\ server = "idle" =>
       /\ waiting = 0 /\ ~listening /\ sgraph = "idle"
       /\ stask \in {"none", "starting", "undoing"}
  /\ server # "idle" => stask \in {"none", "pausing", "stopping"}
  /\ stask = "stopping" => sgraph = "idle"
  /\ writing => server = "connected"

\* A client that dials is not connected, and one that disconnects has its graph
\* paused.
ClientInv ==
  /\ dial # 0 => client # "connected"
  /\ ending => client = "connected" /\ cgraph # "running" /\ ctask # "pausing"
  /\ client = "idle" => cgraph = "idle" /\ ctask \in {"none", "starting"}
  /\ client # "idle" => ctask # "starting"
  /\ ctask = "pausing" => client = "connected" /\ cgraph # "running"
  /\ ctask = "stopping" => cgraph = "idle"

IInv == Typed /\ OneAccept /\ ConnectedRuns /\ ServerInv /\ ClientInv

-----------------------------------------------------------------------------
LEMMA InitIInv == Init => IInv
<1> SUFFICES ASSUME Init PROVE IInv
  OBVIOUS
<1>1. ready = <<>> /\ <<>> \in Seq({"ok", "error"}) /\ Len(ready) = 0
  BY EmptySeq DEF Init
<1> QED BY <1>1 DEF Init, IInv, OneAccept, ConnectedRuns, ServerInv, ClientInv, Typed

\* The handler of an accept is the only one: it resumes the graph, or starts the
\* next accept, which fails at once on a closed acceptor.
LEMMA HandleAcceptIInv == IInv /\ HandleAccept => IInv'
<1> SUFFICES ASSUME IInv, HandleAccept PROVE IInv'
  OBVIOUS
<1>1. Len(ready) = 1 /\ waiting = 0 /\ Tail(ready) = <<>>
  <2>1. ready \in Seq({"ok", "error"}) /\ ready # <<>> /\ waiting \in Nat
    BY DEF IInv, Typed, HandleAccept
  <2>2. Len(ready) = 1 /\ waiting = 0
    <3>1. Len(ready) \in Nat /\ (Len(ready) = 0 => ready = <<>>)
      BY <2>1
    <3>2. waiting + Len(ready) <= 1
      BY DEF IInv, OneAccept
    <3> QED BY <2>1, <3>1, <3>2
  <2>3. Tail(ready) \in Seq({"ok", "error"}) /\ Len(Tail(ready)) = 0
    BY <2>1, <2>2, HeadTailProperties
  <2> QED BY <2>2, <2>3, EmptySeq
<1>2. /\ server # "connected" /\ (server # "idle" \/ sgraph = "idle")
      /\ ~writing' /\ UNCHANGED <<stask, listening, clientVars>> /\ sstream' = accepted
  BY <1>1, EmptySeq DEF HandleAccept, IInv, OneAccept, ConnectedRuns, ServerInv, ClientInv, Typed
<1>3. ClientInv'
  BY <1>2 DEF IInv, ClientInv, clientVars
<1>4. CASE sgraph = "paused" /\ accepted # 0
  <2>1. /\ sgraph' = "running" /\ server' = "connected"
        /\ waiting' = 0 /\ ready' = <<>>
    BY <1>1, <1>4 DEF HandleAccept, ResumeGraph
  <2>2. <<>> \in Seq({"ok", "error"}) /\ Len(<<>>) = 0
    BY EmptySeq
  <2>3. Typed' /\ OneAccept'
    BY <2>1, <2>2 DEF Typed, OneAccept
  <2> QED BY <1>2, <1>3, <1>4, <2>1, <2>3 DEF IInv, ConnectedRuns, ServerInv, clientVars
<1>5. CASE ~(sgraph = "paused" /\ accepted # 0)
  <2>1. UNCHANGED <<sgraph, server>>
    BY <1>5 DEF HandleAccept, ResumeGraph
  <2>2. \/ waiting' = 1 /\ ready' = <<>>
        \/ waiting' = 0 /\ ready' = <<"error">>
    BY <1>1, <1>5 DEF HandleAccept, ResumeGraph, StartAccept
  <2>3. /\ <<>> \in Seq({"ok", "error"}) /\ Len(<<>>) = 0
        /\ <<"error">> \in Seq({"ok", "error"}) /\ Len(<<"error">>) = 1
    BY EmptySeq
  <2>4. Typed' /\ OneAccept'
    <3>1. CASE waiting' = 1 /\ ready' = <<>>
      BY <2>3, <3>1 DEF Typed, OneAccept
    <3>2. CASE waiting' = 0 /\ ready' = <<"error">>
      BY <2>3, <3>2 DEF Typed, OneAccept
    <3> QED BY <2>2, <3>1, <3>2
  <2>5. server = "idle" => waiting' = 0
    BY <1>1, <1>5 DEF HandleAccept, ResumeGraph, StartAccept, IInv, ServerInv
  <2>6. ServerInv'
    BY <1>2, <2>1, <2>5 DEF IInv, ServerInv, HandleAccept
  <2>7. ConnectedRuns'
    BY <1>2, <2>1 DEF IInv, ConnectedRuns, clientVars
  <2> QED BY <1>3, <2>4, <2>6, <2>7 DEF IInv
<1> QED BY <1>4, <1>5

\* The other steps of the server.
LEMMA ServerIInv ==
  ASSUME IInv,
         \/ ServerStart \/ ServerStarted \/ ServerUndone \/ ServerStop \/ ServerPaused
         \/ ServerStopped \/ WriteError \/ Write \/ Written \/ Accept \/ HandleAcceptError
  PROVE  IInv'
<1> USE DEF IInv, OneAccept, ConnectedRuns, ServerInv, ClientInv, Typed
<1>1. CASE ServerStart
  BY <1>1, EmptySeq DEF ServerStart, serverVars, clientVars
<1>2. CASE ServerStarted
  BY <1>2, EmptySeq DEF ServerStarted, serverVars, clientVars
<1>3. CASE ServerUndone
  BY <1>3, EmptySeq DEF ServerUndone, serverVars, clientVars
<1>4. CASE ServerStop
  BY <1>4, EmptySeq DEF ServerStop, serverVars, clientVars
<1>5. CASE ServerPaused
  BY <1>5, EmptySeq DEF ServerPaused, CloseStream, serverVars, clientVars
<1>6. CASE ServerStopped
  BY <1>6, EmptySeq DEF ServerStopped, CloseAcceptor, serverVars, clientVars
<1>7. CASE WriteError
  BY <1>7, EmptySeq DEF WriteError, CloseStream, AcceptAgain, serverVars, clientVars
<1>8. CASE Write
  BY <1>8, EmptySeq DEF Write, serverVars, clientVars
<1>9. CASE Written
  BY <1>9, EmptySeq DEF Written, serverVars, clientVars
<1>10. CASE Accept
  BY <1>10, EmptySeq DEF Accept, CanAccept, serverVars, clientVars
<1>11. CASE HandleAcceptError
  BY <1>11, EmptySeq DEF HandleAcceptError, Retry, StartAccept, serverVars, clientVars
<1> QED BY <1>1, <1>2, <1>3, <1>4, <1>5, <1>6, <1>7, <1>8, <1>9, <1>10, <1>11

\* The steps of the client and of the network.
LEMMA ClientIInv ==
  ASSUME IInv,
         \/ ClientStart \/ ClientStarted \/ Connect \/ Dial \/ HandleConnect \/ Disconnect
         \/ ReadError \/ Disconnected \/ ClientStop \/ ClientPaused \/ ClientStopped \/ Lose
  PROVE  IInv'
<1> USE DEF IInv, OneAccept, ConnectedRuns, ServerInv, ClientInv, Typed
<1>1. CASE ClientStart
  BY <1>1, EmptySeq DEF ClientStart, serverVars, clientVars
<1>2. CASE ClientStarted
  BY <1>2, EmptySeq DEF ClientStarted, serverVars, clientVars
<1>3. CASE Connect
  BY <1>3, EmptySeq DEF Connect, serverVars, clientVars
<1>4. CASE Dial
  BY <1>4, EmptySeq DEF Dial, serverVars, clientVars
<1>5. CASE HandleConnect
  BY <1>5, EmptySeq DEF HandleConnect, serverVars, clientVars
<1>6. CASE Disconnect
  BY <1>6, EmptySeq DEF Disconnect, DoDisconnect, serverVars, clientVars
<1>7. CASE ReadError
  BY <1>7, EmptySeq DEF ReadError, DoDisconnect, serverVars, clientVars
<1>8. CASE Disconnected
  BY <1>8, EmptySeq DEF Disconnected, ResetState, serverVars, clientVars
<1>9. CASE ClientStop
  BY <1>9, EmptySeq DEF ClientStop, serverVars, clientVars
<1>10. CASE ClientPaused
  BY <1>10, EmptySeq DEF ClientPaused, serverVars, clientVars
<1>11. CASE ClientStopped
  BY <1>11, EmptySeq DEF ClientStopped, serverVars, clientVars
<1>12. CASE Lose
  BY <1>12, EmptySeq DEF Lose, serverVars, clientVars
<1> QED BY <1>1, <1>2, <1>3, <1>4, <1>5, <1>6, <1>7, <1>8, <1>9, <1>10, <1>11, <1>12

LEMMA NextIInv == IInv /\ [Next]_vars => IInv'
<1> SUFFICES ASSUME IInv, [Next]_vars PROVE IInv'
  OBVIOUS
<1>1. CASE HandleAccept
  BY <1>1, HandleAcceptIInv
<1>2. CASE \/ ServerStart \/ ServerStarted \/ ServerUndone \/ ServerStop \/ ServerPaused
           \/ ServerStopped \/ WriteError \/ Write \/ Written \/ Accept \/ HandleAcceptError
  BY <1>2, ServerIInv
<1>3. CASE \/ ClientStart \/ ClientStarted \/ Connect \/ Dial \/ HandleConnect \/ Disconnect
           \/ ReadError \/ Disconnected \/ ClientStop \/ ClientPaused \/ ClientStopped \/ Lose
  BY <1>3, ClientIInv
<1>4. CASE UNCHANGED vars
  BY <1>4 DEF vars, serverVars, clientVars, IInv, OneAccept, ConnectedRuns, ServerInv, ClientInv, Typed
<1> QED BY <1>1, <1>2, <1>3, <1>4
        DEF Next, ServerHandlers, ServerNet, ClientHandlers, ClientNet, Calls

LEMMA AlwaysIInv == Spec => []IInv
<1> QED BY InitIInv, NextIInv, PTL DEF Spec

-----------------------------------------------------------------------------
\* What a step does to the three sequences.
LEMMA SeqFacts ==
  ASSUME NEW S, NEW s \in Seq(S)
  PROVE  /\ <<>> \in Seq(S)
         /\ \A e \in S : Append(s, e) \in Seq(S)
         /\ s # <<>> => Head(s) \in S /\ Tail(s) \in Seq(S)
<1> QED BY EmptySeq, HeadTailProperties, AppendProperties

\* The types of the flags, and those of the others.
Flags ==
  /\ listening \in BOOLEAN /\ writing \in BOOLEAN /\ reading \in BOOLEAN
  /\ ending \in BOOLEAN /\ calm \in BOOLEAN

Values ==
  /\ server \in {"idle", "started", "connected"} /\ client \in {"idle", "started", "connected"}
  /\ sgraph \in {"idle", "paused", "running"} /\ cgraph \in {"idle", "paused", "running"}
  /\ stask \in {"none", "starting", "undoing", "pausing", "stopping"}
  /\ ctask \in {"none", "starting", "pausing", "stopping"}
  /\ waiting \in Nat /\ ready \in Seq({"ok", "error"})
  /\ accepted \in {0} \cup Connections /\ sstream \in {0} \cup Connections
  /\ cstream \in {0} \cup Connections /\ dial \in {0} \cup Connections
  /\ dialled \in {"trying", "done", "failed"}
  /\ backlog \in Seq(Connections) /\ lost \subseteq Connections
  /\ dials \in 0..MaxDials /\ sstarts \in 0..MaxStarts /\ cstarts \in 0..MaxStarts

LEMMA FlagsKept == ASSUME Flags, [Next]_vars PROVE Flags'
<1>1. /\ listening' \in {listening, TRUE, FALSE} /\ writing' \in {writing, TRUE, FALSE}
      /\ reading' \in {reading, TRUE, FALSE} /\ ending' \in {ending, TRUE, FALSE}
      /\ calm' = calm
  BY DEF Next, ServerHandlers, ServerNet, ClientHandlers, ClientNet, Calls, vars, serverVars,
         clientVars, ServerStarted, ServerUndone, ServerPaused, ServerStopped, CloseAcceptor,
         HandleAccept, CloseStream, HandleAcceptError, Accept, WriteError, Written,
         ClientStarted, HandleConnect, Disconnected, ClientPaused, ClientStopped, Dial,
         ReadError, DoDisconnect, ServerStart, ServerStop, ClientStart, ClientStop, Connect,
         Disconnect, Write, Lose
<1> QED BY <1>1 DEF Flags

\* What the handlers of an accept change.
LEMMA Restarted ==
  ASSUME ready \in Seq({"ok", "error"}), ready # <<>>, waiting \in Nat,
         StartAccept \/ (ready' = Tail(ready) /\ UNCHANGED waiting)
  PROVE  ready' \in Seq({"ok", "error"}) /\ waiting' \in Nat
<1>1. /\ Tail(ready) \in Seq({"ok", "error"})
      /\ Append(Tail(ready), "error") \in Seq({"ok", "error"})
  BY SeqFacts
<1>2. ready' = Tail(ready) \/ ready' = Append(Tail(ready), "error")
  BY DEF StartAccept
<1>3. waiting' = waiting \/ waiting' = waiting + 1
  BY DEF StartAccept
<1> QED BY <1>1, <1>2, <1>3

LEMMA AcceptHandled ==
  ASSUME HandleAccept, ready \in Seq({"ok", "error"}), waiting \in Nat
  PROVE  /\ sstream' = accepted /\ accepted' = 0
         /\ UNCHANGED <<stask, clientVars, backlog, lost, counts>>
         /\ sgraph' \in {sgraph, "running"} /\ server' \in {server, "connected"}
         /\ ready' \in Seq({"ok", "error"}) /\ waiting' \in Nat
<1>1. CASE sgraph = "paused" /\ accepted # 0
  <2>1. ready # <<>> /\ ready' = Tail(ready) /\ UNCHANGED waiting
    BY <1>1 DEF HandleAccept, ResumeGraph
  <2> QED BY <1>1, <2>1, Restarted DEF HandleAccept, ResumeGraph
<1>2. CASE ~(sgraph = "paused" /\ accepted # 0)
  <2>1. ready # <<>> /\ StartAccept /\ UNCHANGED <<sgraph, server>>
    BY <1>2 DEF HandleAccept, ResumeGraph
  <2> QED BY <2>1, Restarted DEF HandleAccept
<1> QED BY <1>1, <1>2

LEMMA ServerValues ==
  ASSUME Values,
         \/ ServerStart \/ ServerStarted \/ ServerUndone \/ ServerStop \/ ServerPaused
         \/ ServerStopped \/ WriteError \/ Write \/ Written \/ Accept \/ HandleAccept
         \/ HandleAcceptError
  PROVE  Values'
<1> USE DEF Values, serverVars, clientVars, counts
<1>1. /\ \A e \in {"ok", "error"} : Append(ready, e) \in Seq({"ok", "error"})
      /\ ready # <<>> => /\ Tail(ready) \in Seq({"ok", "error"})
                         /\ Append(Tail(ready), "error") \in Seq({"ok", "error"})
  BY SeqFacts
<1>2. /\ <<>> \in Seq(Connections)
      /\ backlog # <<>> => Head(backlog) \in Connections /\ Tail(backlog) \in Seq(Connections)
  BY SeqFacts
<1>3. CASE ServerStart
  BY <1>3, CameraLinkAssumption DEF ServerStart
<1>4. CASE ServerStarted
  BY <1>4 DEF ServerStarted
<1>5. CASE ServerUndone
  BY <1>5 DEF ServerUndone
<1>6. CASE ServerStop
  BY <1>6 DEF ServerStop
<1>7. CASE ServerPaused
  BY <1>7 DEF ServerPaused, CloseStream
<1>8. CASE ServerStopped
  <2>1. ready' \in Seq({"ok", "error"})
    BY <1>1, <1>8 DEF ServerStopped, CloseAcceptor
  <2> QED BY <1>2, <1>8, <2>1 DEF ServerStopped, CloseAcceptor
<1>9. CASE WriteError
  BY <1>9 DEF WriteError, CloseStream, AcceptAgain
<1>10. CASE Write
  BY <1>10 DEF Write
<1>14. CASE Written
  BY <1>14 DEF Written
<1>11. CASE Accept
  BY <1>1, <1>2, <1>11 DEF Accept, CanAccept
<1>12. CASE HandleAccept
  BY <1>12, AcceptHandled
<1>13. CASE HandleAcceptError
  <2>1. ready # <<>> /\ (StartAccept \/ (ready' = Tail(ready) /\ UNCHANGED waiting))
    BY <1>13 DEF HandleAcceptError, Retry
  <2>2. ready' \in Seq({"ok", "error"}) /\ waiting' \in Nat
    BY <2>1, Restarted
  <2> QED BY <1>13, <2>2 DEF HandleAcceptError
<1> QED BY <1>3, <1>4, <1>5, <1>6, <1>7, <1>8, <1>9, <1>10, <1>11, <1>12, <1>13,
          <1>14

LEMMA ClientValues ==
  ASSUME Values,
         \/ ClientStart \/ ClientStarted \/ Connect \/ Dial \/ HandleConnect \/ Disconnect
         \/ ReadError \/ Disconnected \/ ClientStop \/ ClientPaused \/ ClientStopped \/ Lose
  PROVE  Values'
<1> USE DEF Values, serverVars, clientVars, counts
<1>1. CASE ClientStart
  BY <1>1, CameraLinkAssumption DEF ClientStart
<1>2. CASE ClientStarted
  BY <1>2 DEF ClientStarted
<1>3. CASE Connect
  BY <1>3, CameraLinkAssumption DEF Connect, Connections
<1>4. CASE Dial
  <2>1. Append(backlog, dial) \in Seq(Connections)
    BY <1>4, SeqFacts DEF Dial
  <2>2. dialled' \in {"done", "failed"} /\ backlog' \in {backlog, Append(backlog, dial)}
    BY <1>4 DEF Dial
  <2>3. backlog' \in Seq(Connections)
    BY <2>1, <2>2
  <2> QED BY <1>4, <2>2, <2>3 DEF Dial
<1>5. CASE HandleConnect
  <2>1. /\ dial' = 0 /\ cstream' \in {cstream, dial} /\ UNCHANGED dialled
        /\ cgraph' \in {cgraph, "running"} /\ client' \in {client, "connected"}
    BY <1>5 DEF HandleConnect
  <2> QED BY <1>5, <2>1 DEF HandleConnect
<1>6. CASE Disconnect
  BY <1>6 DEF Disconnect, DoDisconnect
<1>7. CASE ReadError
  BY <1>7 DEF ReadError, DoDisconnect
<1>8. CASE Disconnected
  BY <1>8 DEF Disconnected, ResetState
<1>9. CASE ClientStop
  BY <1>9 DEF ClientStop
<1>10. CASE ClientPaused
  BY <1>10 DEF ClientPaused
<1>11. CASE ClientStopped
  BY <1>11 DEF ClientStopped
<1>12. CASE Lose
  BY <1>12 DEF Lose
<1> QED BY <1>1, <1>2, <1>3, <1>4, <1>5, <1>6, <1>7, <1>8, <1>9, <1>10, <1>11, <1>12

\* Every variable keeps its type.
THEOREM SpecTypeOK == Spec => []TypeOK
<1>1. Init => Flags /\ Values
  <2>1. Init => Values
    BY EmptySeq, CameraLinkAssumption DEF Init, Values
  <2>2. Init => Flags
    BY Zenon DEF Init, Flags
  <2> QED BY <2>1, <2>2
<1>2. Values /\ [Next]_vars => Values'
  <2> SUFFICES ASSUME Values, [Next]_vars PROVE Values'
    OBVIOUS
  <2>1. CASE UNCHANGED vars
    BY <2>1 DEF vars, serverVars, clientVars, counts, Values
  <2> QED BY <2>1, ServerValues, ClientValues
          DEF Next, ServerHandlers, ServerNet, ClientHandlers, ClientNet, Calls
<1>3. Flags /\ [Next]_vars => Flags'
  BY FlagsKept
<1>4. Flags /\ Values => TypeOK
  BY DEF Flags, Values, TypeOK
<1> QED BY <1>1, <1>2, <1>3, <1>4, PTL DEF Spec

\* At most one accept is under way, also across stop() and start().
THEOREM SpecOneAccept == Spec => []OneAccept
<1>1. IInv => OneAccept
  BY DEF IInv
<1> QED BY <1>1, AlwaysIInv, PTL

\* A connected side's graph runs, on an open stream.
THEOREM SpecConnectedRuns == Spec => []ConnectedRuns
<1>1. IInv => ConnectedRuns
  BY DEF IInv
<1> QED BY <1>1, AlwaysIInv, PTL

\* Only start() ends what stop() has begun.
THEOREM SpecStaysStopped == Spec => StaysStopped
<1> DEFINE Stays ==
      /\ server = "idle" /\ server' # "idle" => stask = "starting"
      /\ client = "idle" /\ client' # "idle" => ctask = "starting"
<1>1. IInv /\ [Next]_vars => [Stays]_vars
  <2> SUFFICES ASSUME IInv, Next PROVE Stays
    OBVIOUS
  <2> USE DEF IInv, ConnectedRuns, ServerInv, ClientInv
  <2>1. CASE ServerHandlers
    BY <2>1 DEF ServerHandlers, ServerStarted, ServerUndone, ServerPaused, ServerStopped,
                HandleAccept, ResumeGraph, HandleAcceptError, clientVars
  <2>2. CASE ServerNet
    BY <2>2 DEF ServerNet, Accept, WriteError, Written, AcceptAgain, clientVars
  <2>3. CASE ClientHandlers
    BY <2>3 DEF ClientHandlers, ClientStarted, HandleConnect, Disconnected, ResetState,
                ClientPaused, ClientStopped, serverVars
  <2>4. CASE ClientNet
    BY <2>4 DEF ClientNet, Dial, ReadError, serverVars
  <2>5. CASE Write \/ Lose
    BY <2>5 DEF Write, Lose, serverVars, clientVars
  <2>6. CASE Calls
    BY <2>6 DEF Calls, ServerStart, ServerStop, ClientStart, ClientStop, Connect, Disconnect,
                serverVars, clientVars
  <2> QED BY <2>1, <2>2, <2>3, <2>4, <2>5, <2>6 DEF Next
<1>2. Spec => [][Stays]_vars
  BY <1>1, AlwaysIInv, PTL DEF Spec
<1> QED BY <1>2 DEF StaysStopped

-----------------------------------------------------------------------------
(***************************************************************************)
(* In a calm life, where nobody connects while the server stops and nobody *)
(* stops a client that connects, a stopped side has closed its stream: the *)
(* server's is open only while it is connected, no accept that succeeded   *)
(* outlives stop(), and no dial either.                                    *)
(***************************************************************************)
ServerCloses ==
  /\ server # "connected" => sstream = 0
  /\ server = "started" /\ stask = "none" => sgraph = "paused"
  /\ ready # <<>> /\ Head(ready) = "ok" => server = "started" /\ stask = "none"
  /\ stask \in {"pausing", "stopping"} => backlog = <<>> /\ dial = 0

ClientCloses ==
  /\ dial # 0 => client = "started" /\ ctask = "none"
  /\ client = "idle" \/ ctask = "stopping" => cstream = 0

Closing == calm => ServerCloses /\ ClientCloses

\* What waits in ready when OneAccept holds.
LEMMA OneReady ==
  ASSUME IInv
  PROVE  /\ ready # <<>> => /\ waiting = 0 /\ Tail(ready) = <<>>
                            /\ Append(Tail(ready), "error") = <<"error">>
         /\ waiting > 0 => ready = <<>>
<1>1. ready \in Seq({"ok", "error"}) /\ waiting \in Nat /\ waiting + Len(ready) <= 1
  BY DEF IInv, Typed, OneAccept
<1>2. ASSUME ready # <<>> PROVE waiting = 0 /\ Tail(ready) = <<>>
  <2>1. Len(ready) \in Nat \ {0}
    BY <1>1, <1>2, EmptySeq
  <2>2. \A w \in Nat, l \in Nat \ {0} : w + l <= 1 => w = 0 /\ l = 1
    OBVIOUS
  <2>3. waiting = 0 /\ Len(ready) = 1
    BY <1>1, <2>1, <2>2
  <2>4. Tail(ready) \in Seq({"ok", "error"}) /\ Len(Tail(ready)) = 0
    BY <1>1, <1>2, <2>3, HeadTailProperties
  <2> QED BY <2>3, <2>4, EmptySeq
<1>3. ASSUME waiting > 0 PROVE ready = <<>>
  <2>1. ready # <<>> => Len(ready) \in Nat \ {0}
    BY <1>1, EmptySeq
  <2> QED BY <1>1, <1>3, <2>1
<1>4. Append(<<>>, "error") = <<"error">>
  OBVIOUS
<1> QED BY <1>2, <1>3, <1>4

\* startAccept adds no result but an error.
LEMMA NoneAccepted ==
  ASSUME IInv, ready # <<>>, StartAccept \/ ready' = Tail(ready)
  PROVE  ready' # <<>> => Head(ready') = "error"
<1>1. ready' \in {<<>>, <<"error">>}
  BY OneReady DEF StartAccept
<1>2. Head(<<"error">>) = "error"
  OBVIOUS
<1> QED BY <1>1, <1>2

\* An accept completes only for a server that is started and does not stop.
LEMMA AcceptCloses == ASSUME TypeOK, IInv, ServerCloses, Accept PROVE ServerCloses'
<1>1. waiting > 0 /\ backlog # <<>> /\ ready = <<>>
  BY OneReady DEF Accept, CanAccept
<1>2. server = "started" /\ stask = "none"
  BY <1>1 DEF TypeOK, IInv, ServerInv, ServerCloses
<1>3. UNCHANGED <<server, stask, sgraph, sstream>>
  BY DEF Accept
<1>4. sstream = 0 /\ sgraph = "paused"
  BY <1>2 DEF ServerCloses
<1>5. server' = "started" /\ stask' = "none" /\ sstream' = 0 /\ sgraph' = "paused"
  BY <1>2, <1>3, <1>4
<1> QED BY <1>5 DEF ServerCloses

\* The stream gets the socket of a connection only with a graph that is resumed.
LEMMA HandleAcceptCloses == ASSUME IInv, ServerCloses, HandleAccept PROVE ServerCloses'
<1>1. server = "started" /\ stask = "none" /\ sgraph = "paused"
  BY DEF HandleAccept, ServerCloses
<1>2. sstream' = accepted /\ UNCHANGED <<stask, backlog, dial>>
  BY DEF HandleAccept, clientVars
<1>3. ready' # <<>> => Head(ready') = "error"
  BY NoneAccepted DEF HandleAccept, ResumeGraph
<1>4. CASE accepted # 0
  BY <1>1, <1>2, <1>3, <1>4 DEF HandleAccept, ResumeGraph, ServerCloses
<1>5. CASE accepted = 0
  BY <1>1, <1>2, <1>3, <1>5 DEF HandleAccept, ResumeGraph, ServerCloses
<1> QED BY <1>4, <1>5

LEMMA ServerStepCloses ==
  ASSUME TypeOK, IInv, calm, ServerCloses,
         \/ ServerHandlers \/ ServerNet \/ Write \/ ServerStart \/ ServerStop
  PROVE  ServerCloses'
<1> USE DEF ServerCloses, serverVars, clientVars
<1>1. CASE ServerStarted \/ ServerUndone \/ ServerStart
  BY <1>1 DEF ServerStarted, ServerUndone, ServerStart, IInv, ServerInv
<1>2. CASE ServerStop
  BY <1>2 DEF ServerStop
<1>3. CASE ServerPaused
  BY <1>3 DEF ServerPaused, CloseStream
<1>4. CASE ServerStopped
  <2>1. ready' # <<>> => Head(ready') # "ok"
    <3>1. CASE waiting > 0
      <4>1. ready' = <<"error">>
        BY <1>4, <3>1, OneReady DEF ServerStopped, CloseAcceptor
      <4> QED BY <4>1
    <3>2. CASE ~(waiting > 0)
      BY <1>4, <3>2 DEF ServerStopped, CloseAcceptor
    <3> QED BY <3>1, <3>2
  <2> QED BY <1>4, <2>1 DEF ServerStopped, CloseAcceptor, IInv, ServerInv
<1>5. CASE HandleAccept
  BY <1>5, HandleAcceptCloses
<1>6. CASE HandleAcceptError
  <2>1. ready' # <<>> => Head(ready') = "error"
    BY <1>6, NoneAccepted DEF HandleAcceptError, Retry
  <2> QED BY <1>6, <2>1 DEF HandleAcceptError
<1>7. CASE Accept
  BY <1>7, AcceptCloses
<1>8. CASE WriteError
  <2>1. server = "connected" /\ ready = <<>>
    BY <1>8 DEF WriteError, IInv, ServerInv
  <2>2. stask = "none" => sgraph' = "paused"
    BY <1>8, <2>1 DEF WriteError, IInv, ConnectedRuns
  <2> QED BY <1>8, <2>1, <2>2 DEF WriteError, CloseStream, AcceptAgain
<1>9. CASE Written \/ Write
  BY <1>9 DEF Written, Write
<1> QED BY <1>1, <1>2, <1>3, <1>4, <1>5, <1>6, <1>7, <1>8, <1>9
        DEF ServerHandlers, ServerNet

\* Nobody dials while the server stops, and what is not dialled stays out of
\* the backlog.
LEMMA ClientStepCloses ==
  ASSUME IInv, calm, ServerCloses, ClientCloses,
         \/ ClientHandlers \/ ClientNet \/ Lose \/ ClientStart \/ ClientStop \/ Connect
         \/ Disconnect
  PROVE  ServerCloses' /\ ClientCloses'
<1> USE DEF ServerCloses, ClientCloses, serverVars, clientVars, IInv, ClientInv
<1>1. CASE ClientStarted \/ ClientStart \/ ClientStopped
  BY <1>1 DEF ClientStarted, ClientStart, ClientStopped
<1>2. CASE HandleConnect
  BY <1>2 DEF HandleConnect
<1>3. CASE Disconnected
  BY <1>3 DEF Disconnected, ResetState
<1>4. CASE ClientPaused
  BY <1>4 DEF ClientPaused
<1>5. CASE Dial
  BY <1>5 DEF Dial
<1>6. CASE ReadError \/ Disconnect
  BY <1>6 DEF ReadError, Disconnect, DoDisconnect
<1>7. CASE Lose
  BY <1>7 DEF Lose
<1>8. CASE ClientStop
  BY <1>8 DEF ClientStop
<1>9. CASE Connect
  BY <1>9 DEF Connect
<1> QED BY <1>1, <1>2, <1>3, <1>4, <1>5, <1>6, <1>7, <1>8, <1>9 DEF ClientHandlers, ClientNet

\* The server's steps are not the client's.
LEMMA ServerLeavesClient ==
  ASSUME ClientCloses, ServerHandlers \/ ServerNet \/ Write \/ ServerStart \/ ServerStop
  PROVE  ClientCloses'
<1>1. UNCHANGED clientVars
  BY DEF ServerHandlers, ServerNet, ServerStarted, ServerUndone, ServerPaused, ServerStopped,
         HandleAccept, HandleAcceptError, Accept, WriteError, Written, Write, ServerStart,
         ServerStop
<1> QED BY <1>1 DEF clientVars, ClientCloses

\* A side that was stopped has no connection open, as long as no call crosses
\* the stop of its peer or the dial that stop() would have to abort.
THEOREM SpecNoneLeftOpen == Spec => []NoneLeftOpen
<1>1. Init => Closing
  BY EmptySeq DEF Init, Closing, ServerCloses, ClientCloses
<1>2. TypeOK /\ IInv /\ Closing /\ [Next]_vars => Closing'
  <2> SUFFICES ASSUME TypeOK, IInv, Closing, [Next]_vars, calm' PROVE ServerCloses' /\ ClientCloses'
    BY DEF Closing
  <2>1. CASE UNCHANGED vars
    BY <2>1 DEF vars, serverVars, clientVars, Closing, ServerCloses, ClientCloses
  <2>2. CASE Next
    <3>1. calm
      BY <2>2 DEF Next, ServerHandlers, ServerNet, ClientHandlers, ClientNet, Calls,
             ServerStarted, ServerUndone, ServerPaused, ServerStopped, HandleAccept,
             HandleAcceptError, Accept, WriteError, Written, ClientStarted, HandleConnect,
             Disconnected, ClientPaused, ClientStopped, Dial, ReadError, ServerStart,
             ServerStop, ClientStart, ClientStop, Connect, Disconnect, Write, Lose
    <3>2. ServerCloses /\ ClientCloses
      BY <3>1 DEF Closing
    <3> QED BY <2>2, <3>1, <3>2, ServerStepCloses, ServerLeavesClient, ClientStepCloses
            DEF Next, Calls
  <2> QED BY <2>1, <2>2
<1>3. IInv /\ Closing => NoneLeftOpen
  BY DEF IInv, ServerInv, Closing, ServerCloses, ClientCloses, NoneLeftOpen
<1> QED BY <1>1, <1>2, <1>3, AlwaysIInv, SpecTypeOK, PTL DEF Spec
=============================================================================
