----------------------------- MODULE CameraLink -----------------------------
(***************************************************************************)
(* comm::CameraServer and comm::CameraClient: the server accepts one       *)
(* connection at a time and resumes its media graph on it, the client      *)
(* connects and resumes its own.  start and stop wait for the graph in a   *)
(* coroutine, in between handlers of accepts, writes and reads run.  Of    *)
(* the graphs there is only their state here, see module MediaGraph.       *)
(* start, stop, connect and disconnect of a side are called one at a time. *)
(* The client's reader reads until an error: that it gives up in silence   *)
(* when the size of a sample arrives in two parts is left out.             *)
(***************************************************************************)
EXTENDS Naturals, Sequences

CONSTANTS
  MaxDials,  \* times the client connects (a bound)
  MaxStarts, \* times each side is started (a bound)
  MaxLost    \* connections the network loses (a bound)

ASSUME CameraLinkAssumption ==
  MaxDials \in Nat /\ MaxStarts \in Nat /\ MaxLost \in Nat

Connections == 1..MaxDials

VARIABLES
  server,    \* m_State of the server
  sgraph,    \* state of its graph
  stask,     \* what its doStart or doStop waits for
  listening, \* the acceptor is open
  waiting,   \* async_accepts that wait for a connection
  ready,     \* results of async_accepts whose handlers are to run
  accepted,  \* connection of m_Socket, 0 when it is closed
  sstream,   \* connection of m_SocketStream, 0 when it is closed
  writing,   \* the graph's writer has a write under way on it
  client, cgraph, ctask, cstream,  \* the same of the client
  reading,   \* the graph's reader has a read under way
  ending,    \* a doDisconnect waits for the graph's pause
  dial,      \* connection of its async_connect, 0 when there is none
  dialled,   \* result of that
  backlog,   \* connections that are not yet accepted
  lost,      \* connections the network lost
  dials, sstarts, cstarts,  \* counts
  calm       \* nobody connects while the server stops, or stops a client that connects

serverVars == <<server, sgraph, stask, listening, waiting, ready, accepted, sstream, writing>>
clientVars == <<client, cgraph, ctask, cstream, reading, ending, dial, dialled>>
counts     == <<dials, sstarts, cstarts>>
vars       == <<serverVars, clientVars, backlog, lost, counts, calm>>

TypeOK ==
  /\ server \in {"idle", "started", "connected"} /\ client \in {"idle", "started", "connected"}
  /\ sgraph \in {"idle", "paused", "running"} /\ cgraph \in {"idle", "paused", "running"}
  /\ stask \in {"none", "starting", "undoing", "pausing", "stopping"}
  /\ ctask \in {"none", "starting", "pausing", "stopping"}
  /\ listening \in BOOLEAN /\ writing \in BOOLEAN /\ reading \in BOOLEAN
  /\ ending \in BOOLEAN /\ calm \in BOOLEAN
  /\ waiting \in Nat /\ ready \in Seq({"ok", "error"})
  /\ accepted \in {0} \cup Connections /\ sstream \in {0} \cup Connections
  /\ cstream \in {0} \cup Connections /\ dial \in {0} \cup Connections
  /\ dialled \in {"trying", "done", "failed"}
  /\ backlog \in Seq(Connections) /\ lost \subseteq Connections
  /\ dials \in 0..MaxDials /\ sstarts \in 0..MaxStarts /\ cstarts \in 0..MaxStarts

Init ==
  /\ server = "idle" /\ sgraph = "idle" /\ stask = "none"
  /\ listening = FALSE /\ waiting = 0 /\ ready = <<>> /\ accepted = 0
  /\ sstream = 0 /\ writing = FALSE
  /\ client = "idle" /\ cgraph = "idle" /\ ctask = "none" /\ cstream = 0
  /\ reading = FALSE /\ ending = FALSE /\ dial = 0 /\ dialled = "trying"
  /\ backlog = <<>> /\ lost = {}
  /\ dials = 0 /\ sstarts = 0 /\ cstarts = 0
  /\ calm \in BOOLEAN

-----------------------------------------------------------------------------
\* The ends of connection c that are open.
ServerEnd(c) == c \in {accepted, sstream} \/ \E i \in DOMAIN backlog : backlog[i] = c
ClientEnd(c) == c \in {cstream, dial}
Broken(c)    == c \in lost \/ ~ServerEnd(c) \/ ~ClientEnd(c)

(***************************************************************************)
(* The server                                                              *)
(***************************************************************************)
\* startAccept: on a closed acceptor the handler is called with an error.
StartAccept ==
  IF listening' THEN waiting' = waiting + 1 /\ ready' = Tail(ready)
  ELSE ready' = Append(Tail(ready), "error") /\ UNCHANGED waiting

ServerStart ==
  /\ server = "idle" /\ stask = "none" /\ sstarts < MaxStarts
  /\ stask' = "starting" /\ sstarts' = sstarts + 1
  /\ UNCHANGED <<server, sgraph, listening, waiting, ready, accepted, sstream, writing,
                 clientVars, backlog, lost, dials, cstarts, calm>>

\* The graph has started, and with it handlers that were ready have run.  When
\* the address cannot be bound it is stopped again, which waits too.
ServerStarted ==
  /\ stask = "starting" /\ ready = <<>>
  /\ \/ /\ stask' = "none" /\ sgraph' = "paused" /\ server' = "started"
        /\ listening' = TRUE /\ waiting' = waiting + 1
     \/ /\ stask' = "undoing" /\ UNCHANGED <<server, sgraph, listening, waiting>>
     \/ /\ stask' = "none" /\ UNCHANGED <<server, sgraph, listening, waiting>>
  /\ UNCHANGED <<ready, accepted, sstream, writing, clientVars, backlog, lost, counts, calm>>

ServerUndone ==
  /\ stask = "undoing" /\ stask' = "none"
  /\ UNCHANGED <<server, sgraph, listening, waiting, ready, accepted, sstream, writing,
                 clientVars, backlog, lost, counts, calm>>

\* doStop pauses the graph of a connected server first; what it pauses is
\* paused at once, but the event it waits for takes a turn of the loop.
ServerStop ==
  /\ server # "idle" /\ stask = "none"
  /\ calm => backlog = <<>> /\ ready = <<>> /\ dial = 0
  /\ IF server = "connected"
     THEN stask' = "pausing" /\ sgraph' = IF sgraph = "running" THEN "paused" ELSE sgraph
     ELSE stask' = "stopping" /\ sgraph' = "idle"
  /\ UNCHANGED <<server, listening, waiting, ready, accepted, sstream, writing, clientVars,
                 backlog, lost, counts, calm>>

\* Mutant: the stream is left to the graph.
LeaveStream == UNCHANGED <<sstream, writing>>
\* A write under way on a stream that is closed loses its handler.
CloseStream == sstream' = 0 /\ writing' = FALSE

ServerPaused ==
  /\ stask = "pausing" /\ stask' = "stopping"
  /\ CloseStream
  /\ server' = "started" /\ sgraph' = "idle"
  /\ UNCHANGED <<listening, waiting, ready, accepted, clientVars, backlog, lost, counts, calm>>

\* Mutant: the acceptor stays open.
LeaveAcceptor == UNCHANGED <<listening, waiting, ready, backlog>>
\* An accept that waits fails.
CloseAcceptor ==
  /\ listening' = FALSE /\ backlog' = <<>>
  /\ waiting' = 0 /\ ready' = IF waiting > 0 THEN Append(ready, "error") ELSE ready

ServerStopped ==
  /\ stask = "stopping" /\ stask' = "none"
  /\ server' = "idle" /\ accepted' = 0
  /\ CloseAcceptor
  /\ UNCHANGED <<sgraph, sstream, writing, clientVars, lost, counts, calm>>

\* Mutant: nothing is accepted any more.
StopAccepting == server' = "started" /\ UNCHANGED waiting
AcceptAgain   == server' = "started" /\ waiting' = waiting + 1

\* onIOAsyncSocketStreamError: graph.pause() calls its handler, with an error
\* when the graph does not run.
WriteError ==
  /\ writing /\ Broken(sstream)
  /\ CloseStream
  /\ sgraph' = IF sgraph = "running" THEN "paused" ELSE sgraph
  /\ AcceptAgain
  /\ UNCHANGED <<stask, listening, ready, accepted, clientVars, backlog, lost, counts, calm>>

Write ==
  /\ sgraph = "running" /\ sstream # 0 /\ ~writing
  /\ writing' = TRUE
  /\ UNCHANGED <<server, sgraph, stask, listening, waiting, ready, accepted, sstream,
                 clientVars, backlog, lost, counts, calm>>

Written ==
  /\ writing /\ sstream \notin lost /\ ClientEnd(sstream)
  /\ writing' = FALSE
  /\ UNCHANGED <<server, sgraph, stask, listening, waiting, ready, accepted, sstream,
                 clientVars, backlog, lost, counts, calm>>

CanAccept == waiting > 0 /\ backlog # <<>>

Accept ==
  /\ CanAccept
  /\ waiting' = waiting - 1 /\ ready' = Append(ready, "ok")
  /\ accepted' = Head(backlog) /\ backlog' = Tail(backlog)
  /\ UNCHANGED <<server, sgraph, stask, listening, sstream, writing, clientVars, lost, counts,
                 calm>>

\* Mutant: the server is connected whatever resume() says.
ConnectedAnyhow ==
  /\ server' = "connected" /\ UNCHANGED waiting /\ ready' = Tail(ready)
  /\ sgraph' = IF sgraph = "paused" THEN "running" ELSE sgraph
\* graph.resume() and its handler: the writer refuses a stream that is closed.
\* When it fails m_Socket is closed, which has been moved to the stream.
ResumeGraph ==
  IF sgraph = "paused" /\ accepted # 0
  THEN /\ sgraph' = "running" /\ server' = "connected"
       /\ UNCHANGED waiting /\ ready' = Tail(ready)
  ELSE UNCHANGED <<sgraph, server>> /\ StartAccept

\* handleAccept: the stream gets the socket and closes its old one.
HandleAccept ==
  /\ ready # <<>> /\ Head(ready) = "ok"
  /\ sstream' = accepted /\ accepted' = 0 /\ writing' = FALSE
  /\ UNCHANGED listening
  /\ ResumeGraph
  /\ UNCHANGED <<stask, clientVars, backlog, lost, counts, calm>>

\* Mutant: whatever the state.
RetryAlways == StartAccept
Retry == IF server = "started" THEN StartAccept ELSE ready' = Tail(ready) /\ UNCHANGED waiting

HandleAcceptError ==
  /\ ready # <<>> /\ Head(ready) = "error"
  /\ UNCHANGED listening
  /\ Retry
  /\ UNCHANGED <<server, sgraph, stask, accepted, sstream, writing, clientVars, backlog, lost,
                 counts, calm>>

(***************************************************************************)
(* The client                                                              *)
(***************************************************************************)
ClientStart ==
  /\ client = "idle" /\ ctask = "none" /\ cstarts < MaxStarts
  /\ ctask' = "starting" /\ cstarts' = cstarts + 1
  /\ UNCHANGED <<serverVars, client, cgraph, cstream, reading, ending, dial, dialled, backlog,
                 lost, dials, sstarts, calm>>

ClientStarted ==
  /\ ctask = "starting" /\ ctask' = "none"
  /\ \/ client' = "started" /\ cgraph' = "paused"
     \/ UNCHANGED <<client, cgraph>>
  /\ UNCHANGED <<serverVars, cstream, reading, ending, dial, dialled, backlog, lost, counts, calm>>

Connect ==
  /\ client = "started" /\ ctask = "none" /\ dial = 0 /\ dials < MaxDials
  /\ calm => stask # "stopping" /\ stask # "pausing"
  /\ dials' = dials + 1 /\ dial' = dials' /\ dialled' = "trying"
  /\ UNCHANGED <<serverVars, client, cgraph, ctask, cstream, reading, ending, backlog, lost,
                 sstarts, cstarts, calm>>

Dial ==
  /\ dial # 0 /\ dialled = "trying"
  /\ IF listening THEN dialled' = "done" /\ backlog' = Append(backlog, dial)
     ELSE dialled' = "failed" /\ UNCHANGED backlog
  /\ UNCHANGED <<serverVars, client, cgraph, ctask, cstream, reading, ending, dial, lost,
                 counts, calm>>

\* When the graph cannot be resumed the stream keeps the connection.
HandleConnect ==
  /\ dial # 0 /\ dialled # "trying"
  /\ dial' = 0 /\ UNCHANGED dialled
  /\ IF dialled = "failed" THEN UNCHANGED <<cstream, cgraph, client, reading>>
     ELSE /\ cstream' = dial
          /\ IF cgraph = "paused"
             THEN cgraph' = "running" /\ client' = "connected" /\ reading' = TRUE
             ELSE UNCHANGED <<cgraph, client>> /\ reading' = FALSE
  /\ UNCHANGED <<serverVars, ctask, ending, backlog, lost, counts, calm>>

\* doDisconnect up to its wait: the pause fails when another doDisconnect has
\* paused the graph already.
DoDisconnect ==
  IF client = "connected" /\ cgraph = "running"
  THEN cgraph' = "paused" /\ ending' = TRUE
  ELSE UNCHANGED <<cgraph, ending>>

Disconnect ==
  /\ client = "connected" /\ ctask = "none" /\ ~ending
  /\ DoDisconnect
  /\ UNCHANGED <<serverVars, client, ctask, cstream, reading, dial, dialled, backlog, lost,
                 counts, calm>>

\* A read fails, and the stream tells the client, which disconnects.
ReadError ==
  /\ reading /\ Broken(cstream)
  /\ reading' = FALSE
  /\ DoDisconnect
  /\ UNCHANGED <<serverVars, client, ctask, cstream, dial, dialled, backlog, lost, counts, calm>>

\* Mutant: the client says it is connected still.
KeepState  == UNCHANGED client
ResetState == client' = "started"

Disconnected ==
  /\ ending /\ ending' = FALSE
  /\ cstream' = 0 /\ reading' = FALSE
  /\ ResetState
  /\ UNCHANGED <<serverVars, cgraph, ctask, dial, dialled, backlog, lost, counts, calm>>

\* doStop disconnects; when another doDisconnect is under way its own fails,
\* and the graph is stopped, whose reader closes the stream.
ClientStop ==
  /\ client # "idle" /\ ctask = "none"
  /\ calm => dial = 0
  /\ IF client = "connected" /\ cgraph = "running"
     THEN ctask' = "pausing" /\ cgraph' = "paused" /\ UNCHANGED <<cstream, reading>>
     ELSE ctask' = "stopping" /\ cgraph' = "idle" /\ cstream' = 0 /\ reading' = FALSE
  /\ UNCHANGED <<serverVars, client, ending, dial, dialled, backlog, lost, counts, calm>>

ClientPaused ==
  /\ ctask = "pausing" /\ ctask' = "stopping"
  /\ cstream' = 0 /\ reading' = FALSE
  /\ client' = "started" /\ cgraph' = "idle"
  /\ UNCHANGED <<serverVars, ending, dial, dialled, backlog, lost, counts, calm>>

\* A doDisconnect that waits was there first.
ClientStopped ==
  /\ ctask = "stopping" /\ ~ending
  /\ ctask' = "none" /\ client' = "idle"
  /\ UNCHANGED <<serverVars, cgraph, cstream, reading, ending, dial, dialled, backlog, lost,
                 counts, calm>>

-----------------------------------------------------------------------------
Lose ==
  /\ \E c \in Connections :
        ServerEnd(c) /\ ClientEnd(c) /\ c \notin lost /\ lost' = lost \cup {c}
  /\ Len(SelectSeq([c \in Connections |-> c], LAMBDA c : c \in lost)) < MaxLost
  /\ UNCHANGED <<serverVars, clientVars, backlog, counts, calm>>

ServerHandlers ==
  \/ ServerStarted \/ ServerUndone \/ ServerPaused \/ ServerStopped
  \/ HandleAccept \/ HandleAcceptError
ServerNet == Accept \/ WriteError \/ Written
ClientHandlers ==
  \/ ClientStarted \/ HandleConnect \/ Disconnected \/ ClientPaused \/ ClientStopped
ClientNet == Dial \/ ReadError
Calls == ServerStart \/ ServerStop \/ ClientStart \/ ClientStop \/ Connect \/ Disconnect

Next == ServerHandlers \/ ServerNet \/ ClientHandlers \/ ClientNet \/ Write \/ Calls \/ Lose

Spec == Init /\ [][Next]_vars

\* The run loops run their handlers, the network does what was asked for and
\* tells of what it lost, and the camera's frames keep coming.
FairSpec ==
  /\ Spec
  /\ WF_vars(ServerHandlers) /\ WF_vars(ClientHandlers)
  /\ WF_vars(Accept) /\ WF_vars(WriteError) /\ WF_vars(ClientNet) /\ WF_vars(Write)
  /\ WF_vars(Written)

-----------------------------------------------------------------------------
(***************************************************************************)
(* Properties                                                              *)
(***************************************************************************)
\* There is one m_Socket: of the accepts started by doStart, by errors of the
\* stream, of an accept and of resume(), one at most is under way, also when the
\* server is stopped and started again while the handler of the last is to run.
OneAccept == waiting + Len(ready) <= 1

\* A graph runs on an open stream for a side that says it is connected, unless
\* that is just being stopped or disconnected.
ConnectedRuns ==
  /\ server = "connected" /\ stask = "none" => sgraph = "running" /\ sstream # 0
  /\ sgraph = "running" => server = "connected" /\ sstream # 0
  /\ client = "connected" /\ ctask = "none" /\ ~ending => cgraph = "running" /\ cstream # 0
  /\ cgraph = "running" => client = "connected" /\ cstream # 0

\* A side that was stopped has no connection open, which its peer would wait on
\* for ever.
NoneLeftOpen ==
  calm =>
    /\ server = "idle" /\ stask = "none" => sstream = 0
    /\ client = "idle" /\ ctask = "none" => cstream = 0

\* Handlers and coroutines that were under way do not wake a stopped side.
StaysStopped ==
  [][ /\ server = "idle" /\ server' # "idle" => stask = "starting"
      /\ client = "idle" /\ client' # "idle" => ctask = "starting" ]_vars

\* The handler of the accept that stop() aborts is the last one.
StopsAccepting == server = "idle" ~> ready = <<>> \/ server # "idle"

\* A client that is connected is served or learns that it is not, though the
\* server may be connected to its last session still, or stop.
Served ==
  calm /\ client = "connected" ~> client # "connected" \/ (sgraph = "running" /\ sstream = cstream)
=============================================================================
