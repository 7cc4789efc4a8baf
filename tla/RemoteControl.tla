--------------------------- MODULE RemoteControl ---------------------------
(***************************************************************************)
(* comm::RemoteControlServer and comm::RemoteControlClient: the server     *)
(* broadcasts and accepts one TCP connection per message priority, the     *)
(* client discovers it and connects one per priority; both close all three *)
(* when one breaks and start over.  Each side is a coroutine that suspends *)
(* in accept or connect, and handlers of the run loop in between.  What    *)
(* the channels carry is the business of module Channel.                   *)
(***************************************************************************)
EXTENDS Naturals, Sequences, FiniteSets

CONSTANTS
  MaxSessions,  \* times the client starts to connect (a bound)
  MaxBreaks,    \* connections the network loses (a bound)
  ServerStops,  \* calls of the server's stop() (a bound)
  ClientStops,  \* calls of the client's (a bound)
  Timely        \* the client is not stopped while it connects, nor the server while an accept
                \* is under way to its handler; and it listens before it first broadcasts

ASSUME RemoteControlAssumption ==
  /\ MaxSessions \in Nat /\ MaxBreaks \in Nat
  /\ ServerStops \in Nat /\ ClientStops \in Nat
  /\ Timely \in BOOLEAN

Sessions   == 1..MaxSessions
Priorities == 1..3
Connections == Sessions \X Priorities

VARIABLES
  server,        \* m_State of the server
  broadcasting,  \* its discovery timer is set
  listening,     \* acceptors that listen: those of the first priorities
  accepting,     \* the channel doAccept waits for, 0 when it does not run
  completed,     \* result of its async_accept: a session, Pending or Aborted
  schan,         \* session of each channel's socket, 0 when it is closed
  client,        \* m_State of the client
  hearing,       \* its discovery socket is open
  discovered,    \* m_bRemoteDiscovered
  dials,         \* doConnect coroutines that are suspended in async_connect
  cchan,         \* session of each channel's socket, 0 when it is closed
  backlog,       \* connections of each acceptor that are not yet accepted
  alive,         \* connections with both ends open
  sessions, breaks, stops, \* counts, of stops for each side
  faulty         \* the server is stopped, or accept, listen and connect fail though
                 \* nobody stopped: the same in all states of a behaviour

serverVars == <<server, broadcasting, listening, accepting, completed, schan>>
clientVars == <<client, hearing, discovered, dials, cchan, sessions>>
network    == <<backlog, alive>>
vars       == <<serverVars, clientVars, network, breaks, stops, faulty>>

States == {"idle", "started", "connected"}
Dials  == [session : Sessions, chan : Priorities, op : {"trying", "done", "failed"}]
Pending == 0
Aborted == MaxSessions + 1
Closed == [p \in Priorities |-> 0]

TypeOK ==
  /\ server \in States /\ client \in States
  /\ broadcasting \in BOOLEAN /\ hearing \in BOOLEAN /\ discovered \in BOOLEAN
  /\ listening \in 0..3 /\ accepting \in 0..3
  /\ completed \in Sessions \cup {Pending, Aborted}
  /\ schan \in [Priorities -> {0} \cup Sessions]
  /\ cchan \in [Priorities -> {0} \cup Sessions]
  /\ dials \subseteq Dials
  /\ backlog \in [Priorities -> Seq(Sessions)]
  /\ alive \subseteq Connections
  /\ sessions \in 0..MaxSessions /\ breaks \in 0..MaxBreaks
  /\ stops \in [server : 0..ServerStops, client : 0..ClientStops]
  /\ faulty \in BOOLEAN

Init ==
  /\ server = "idle" /\ broadcasting = FALSE /\ listening = 0
  /\ accepting = 0 /\ completed = Pending /\ schan = Closed
  /\ client = "idle" /\ hearing = FALSE /\ discovered = FALSE
  /\ dials = {} /\ cchan = Closed /\ sessions = 0
  /\ backlog = [p \in Priorities |-> <<>>] /\ alive = {}
  /\ breaks = 0 /\ stops = [server |-> 0, client |-> 0]
  /\ faulty \in BOOLEAN

-----------------------------------------------------------------------------
\* The connections behind the first n channels of one side.
Behind(chan, n) == {<<chan[p], p>> : p \in {q \in 1..n : chan[q] # 0}}
\* Mutant: they stay open.
CloseNone(chan, n) == chan
CloseFirst(chan, n) == [p \in Priorities |-> IF p <= n THEN 0 ELSE chan[p]]

(***************************************************************************)
(* The server                                                              *)
(***************************************************************************)
\* acceptChannels goes on to channel p and waits; on a closed acceptor the
\* operation fails at once.
AcceptNext(p) ==
  /\ accepting' = p
  /\ completed' = IF listening' < p THEN Aborted ELSE Pending

\* Mutant: it is not started again.
NoAccept(chan) == UNCHANGED <<accepting, completed>>
DoAccept(chan) == IF chan[1] = 0 THEN AcceptNext(1) ELSE UNCHANGED <<accepting, completed>>

ServerStart ==
  /\ server = "idle" /\ ~broadcasting
  /\ broadcasting' = TRUE
  /\ UNCHANGED <<server, listening, accepting, completed, schan, clientVars, network,
                 breaks, stops, faulty>>

\* doStart is suspended once for each acceptor.  An accept that stop() aborted
\* has run its handler before the resolver answers.
Listen ==
  /\ broadcasting /\ listening < 3 /\ accepting = 0
  /\ listening' = listening + 1
  /\ IF listening' < 3
     THEN UNCHANGED <<server, accepting, completed>>
     ELSE /\ server' = "started"
          /\ DoAccept(schan)
  /\ UNCHANGED <<broadcasting, schan, clientVars, network, breaks, stops, faulty>>

\* The acceptors that are open are closed, and what waits on them is reset.
Unlisten ==
  /\ listening' = 0 /\ broadcasting' = FALSE
  /\ backlog' = [p \in Priorities |-> <<>>]

Queued == {c \in Connections : \E i \in 1..Len(backlog[c[2]]) : backlog[c[2]][i] = c[1]}

ListenFails ==
  /\ faulty /\ broadcasting /\ listening < 3 /\ accepting = 0
  /\ Unlisten /\ alive' = alive \ Queued
  /\ UNCHANGED <<server, accepting, completed, schan, clientVars, breaks, stops, faulty>>

ServerStop ==
  /\ faulty /\ server # "idle" /\ listening = 3 /\ stops.server < ServerStops
  /\ Timely => completed = Pending
  /\ server' = "idle" /\ stops' = [stops EXCEPT !.server = @ + 1]
  /\ schan' = IF server = "connected" THEN Closed ELSE schan
  /\ Unlisten
  /\ alive' = alive \ (Queued \cup IF server = "connected" THEN Behind(schan, 3) ELSE {})
  /\ completed' = IF accepting # 0 /\ completed = Pending THEN Aborted ELSE completed
  /\ UNCHANGED <<accepting, clientVars, breaks, faulty>>

\* The acceptor takes the oldest connection; the handler runs later.
Accept ==
  /\ accepting # 0 /\ completed = Pending
  /\ backlog[accepting] # <<>>
  /\ completed' = Head(backlog[accepting])
  /\ backlog' = [backlog EXCEPT ![accepting] = Tail(@)]
  /\ UNCHANGED <<server, broadcasting, listening, accepting, schan, clientVars, alive,
                 breaks, stops, faulty>>

AcceptFails ==
  /\ faulty /\ accepting # 0 /\ completed = Pending
  /\ completed' = Aborted
  /\ UNCHANGED <<server, broadcasting, listening, accepting, schan, clientVars, network,
                 breaks, stops, faulty>>

AcceptChannel ==
  /\ completed \in Sessions
  /\ UNCHANGED <<broadcasting, listening, clientVars, backlog, breaks, stops,
                 faulty>>
  /\ LET taken == [schan EXCEPT ![accepting] = completed] IN
     CASE accepting = 3 ->
            /\ schan' = taken
            /\ server' = "connected" /\ accepting' = 0 /\ completed' = Pending
            /\ UNCHANGED alive
       [] accepting < 3 /\ schan[accepting + 1] = 0 ->
            /\ schan' = taken
            /\ AcceptNext(accepting + 1)
            /\ UNCHANGED <<server, alive>>
       [] OTHER ->
            /\ schan' = CloseFirst(taken, accepting)
            /\ alive' = alive \ Behind(taken, accepting)
            /\ accepting' = 0 /\ completed' = Pending
            /\ UNCHANGED server

AcceptError ==
  /\ completed = Aborted
  /\ schan' = CloseFirst(schan, accepting - 1)
  /\ alive' = alive \ Behind(schan, accepting - 1)
  /\ accepting' = 0 /\ completed' = Pending
  /\ UNCHANGED <<server, broadcasting, listening, clientVars, backlog, breaks, stops,
                 faulty>>

\* Mutant: only the channel that broke is closed and accepted anew.
BrokenOneFails ==
  /\ server = "connected"
  /\ server' = "started" /\ completed' = Pending
  /\ \E p \in Priorities :
       /\ <<schan[p], p>> \notin alive
       /\ schan' = [schan EXCEPT ![p] = 0] /\ accepting' = p
  /\ UNCHANGED <<broadcasting, listening, clientVars, network, breaks, stops, faulty>>

\* A read of a channel fails: the three are closed and accepted anew.
ServerReadFails ==
  /\ server = "connected"
  /\ \E p \in Priorities : <<schan[p], p>> \notin alive
  /\ server' = "started"
  /\ schan' = Closed /\ alive' = alive \ Behind(schan, 3)
  /\ UNCHANGED <<broadcasting, listening, clientVars, backlog, breaks, stops,
                 faulty>>
  /\ DoAccept(Closed)

(***************************************************************************)
(* The client                                                              *)
(***************************************************************************)
\* A doConnect starts, which ends at once when the first channel is open.
DoConnect(chan, running) ==
  /\ sessions < MaxSessions
  /\ sessions' = sessions + 1
  /\ dials' = IF chan[1] # 0 THEN running
              ELSE running \cup {[session |-> sessions', chan |-> 1, op |-> "trying"]}

ClientStart ==
  /\ client = "idle" /\ ~hearing
  /\ client' = "started" /\ hearing' = TRUE /\ discovered' = FALSE
  /\ UNCHANGED <<serverVars, dials, cchan, sessions, network, breaks, stops, faulty>>

ClientStop ==
  /\ client # "idle" /\ hearing /\ stops.client < ClientStops
  /\ Timely => dials = {}
  /\ client' = "idle" /\ hearing' = FALSE
  /\ stops' = [stops EXCEPT !.client = @ + 1]
  /\ IF client = "connected"
     THEN cchan' = Closed /\ alive' = alive \ Behind(cchan, 3)
     ELSE UNCHANGED <<cchan, alive>>
  /\ UNCHANGED <<serverVars, discovered, dials, sessions, backlog, breaks, faulty>>

\* Mutant: every message that is heard starts a doConnect.
EveryMessage ==
  /\ hearing /\ broadcasting
  /\ Timely => listening = 3
  /\ discovered' = TRUE
  /\ IF client = "connected" THEN UNCHANGED <<sessions, dials>> ELSE DoConnect(cchan, dials)
  /\ UNCHANGED <<serverVars, client, hearing, cchan, network, breaks, stops, faulty>>

HandleDiscoveryMessage ==
  /\ hearing /\ broadcasting /\ ~discovered
  /\ Timely => listening = 3
  /\ discovered' = TRUE
  /\ IF client = "connected" THEN UNCHANGED <<sessions, dials>> ELSE DoConnect(cchan, dials)
  /\ UNCHANGED <<serverVars, client, hearing, cchan, network, breaks, stops, faulty>>

\* The connection is made; the acceptor has it before doConnect goes on.
Connects(d) ==
  /\ d.op = "trying" /\ listening >= d.chan
  /\ dials' = (dials \ {d}) \cup {[d EXCEPT !.op = "done"]}
  /\ backlog' = [backlog EXCEPT ![d.chan] = Append(@, d.session)]
  /\ alive' = alive \cup {<<d.session, d.chan>>}
  /\ UNCHANGED <<serverVars, client, hearing, discovered, cchan, sessions, breaks, stops,
                 faulty>>

Refused(d) ==
  /\ d.op = "trying" /\ (faulty \/ listening < d.chan)
  /\ dials' = (dials \ {d}) \cup {[d EXCEPT !.op = "failed"]}
  /\ UNCHANGED <<serverVars, client, hearing, discovered, cchan, sessions, network,
                 breaks, stops, faulty>>

\* The channel gets the socket, and loses the one it had.
ConnectChannel(d) ==
  /\ d.op = "done"
  /\ LET taken == [cchan EXCEPT ![d.chan] = d.session]
         lost  == {<<cchan[d.chan], d.chan>>}
         rest  == dials \ {d}
     IN
     CASE d.chan = 3 ->
            /\ client' = "connected" /\ cchan' = taken
            /\ dials' = rest /\ alive' = alive \ lost
       [] d.chan < 3 /\ cchan[d.chan + 1] = 0 ->
            /\ cchan' = taken /\ UNCHANGED client
            /\ dials' = rest \cup {[d EXCEPT !.chan = d.chan + 1, !.op = "trying"]}
            /\ alive' = alive \ lost
       [] OTHER ->
            /\ cchan' = CloseFirst(taken, d.chan) /\ UNCHANGED client
            /\ dials' = rest /\ alive' = alive \ (lost \cup Behind(taken, d.chan))
  /\ UNCHANGED <<serverVars, hearing, discovered, sessions, backlog, breaks, stops,
                 faulty>>

ConnectError(d) ==
  /\ d.op = "failed"
  /\ dials' = dials \ {d}
  /\ cchan' = CloseFirst(cchan, d.chan - 1)
  /\ alive' = alive \ Behind(cchan, d.chan - 1)
  /\ UNCHANGED <<serverVars, client, hearing, discovered, sessions, backlog, breaks, stops,
                 faulty>>

\* A read of a channel fails: the three are closed and connected anew.  Channels
\* do not tell of the reads this aborts, for they have no socket until then.
ClientReadFails ==
  /\ client = "connected"
  /\ \E p \in Priorities : <<cchan[p], p>> \notin alive
  /\ client' = "started"
  /\ cchan' = Closed /\ alive' = alive \ Behind(cchan, 3)
  /\ DoConnect(Closed, dials)
  /\ UNCHANGED <<serverVars, hearing, discovered, backlog, breaks, stops,
                 faulty>>

-----------------------------------------------------------------------------
\* The network loses a connection.
Breaks ==
  /\ breaks < MaxBreaks
  /\ \E c \in alive : alive' = alive \ {c}
  /\ breaks' = breaks + 1
  /\ UNCHANGED <<serverVars, clientVars, backlog, stops, faulty>>

Handlers ==
  \/ Listen \/ AcceptChannel \/ AcceptError \/ ServerReadFails
  \/ HandleDiscoveryMessage \/ ClientReadFails
  \/ \E d \in dials : ConnectChannel(d) \/ ConnectError(d)

Net == Accept \/ (\E d \in dials : Connects(d) \/ Refused(d))

Faults == Breaks \/ AcceptFails \/ ListenFails

Next == Handlers \/ Net \/ Faults \/ ServerStart \/ ServerStop \/ ClientStart \/ ClientStop

Spec == Init /\ [][Next]_vars

\* The run loop runs its handlers, the network does what was asked for, and
\* what is broadcast is heard.
FairSpec == Spec /\ WF_vars(Handlers) /\ WF_vars(Net)

-----------------------------------------------------------------------------
(***************************************************************************)
(* Properties                                                              *)
(***************************************************************************)
\* A side that says it is connected has its three channels.
ConnectedIsOpen ==
  /\ server = "connected" => \A p \in Priorities : schan[p] # 0
  /\ client = "connected" => \A p \in Priorities : cchan[p] # 0

\* When nothing is connected nor under way no channel is left open, which the
\* next doAccept or doConnect would refuse.
NothingLeftOpen ==
  /\ server # "connected" /\ accepting = 0 => schan = Closed
  /\ client # "connected" /\ dials = {} => cchan = Closed

\* The server's three channels lead to one session of the client, as long as
\* only the client stops and only connections that were made are lost.
OneSession ==
  ~faulty /\ server = "connected" => \A p, q \in Priorities : schan[p] = schan[q]

Paired ==
  /\ server = "connected" /\ client = "connected" /\ schan = cchan
  /\ \A p \in Priorities : <<schan[p], p>> \in alive

\* Two sides that were started are connected to each other in the end, again
\* after each loss of a connection, unless one is stopped.
Reconnects ==
  ~faulty /\ server # "idle" /\ hearing ~> Paired \/ server = "idle" \/ ~hearing
=============================================================================
