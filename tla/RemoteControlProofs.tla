------------------------ MODULE RemoteControlProofs ------------------------
(***************************************************************************)
(* For any number of sessions, breaks and stops: types; and when nobody    *)
(* stops a side that connects (Timely), a connected side has its channels, *)
(* nothing is left open, and the server joins no two sessions.             *)
(***************************************************************************)
EXTENDS RemoteControl, TLAPS, SequenceTheorems

\* TypeOK, side by side.
ServerTyped ==
  /\ server \in States /\ broadcasting \in BOOLEAN
  /\ listening \in 0..3 /\ accepting \in 0..3
  /\ completed \in Sessions \cup {Pending, Aborted}
  /\ schan \in [Priorities -> {0} \cup Sessions]

ClientTyped ==
  /\ client \in States /\ hearing \in BOOLEAN /\ discovered \in BOOLEAN
  /\ cchan \in [Priorities -> {0} \cup Sessions]
  /\ dials \subseteq Dials
  /\ sessions \in 0..MaxSessions

NetTyped ==
  /\ backlog \in [Priorities -> Seq(Sessions)]
  /\ alive \subseteq Connections
  /\ breaks \in 0..MaxBreaks
  /\ stops \in [server : 0..ServerStops, client : 0..ClientStops]
  /\ faulty \in BOOLEAN

Typed == ServerTyped /\ ClientTyped /\ NetTyped

\* The channels before the one that doAccept waits for are open, no other; a
\* server that was stopped only has the failure of its accept to handle.
ServerInv ==
  /\ server # "idle" => listening = 3
  /\ accepting = 0 => completed = Pending
  /\ server = "connected" => accepting = 0 /\ \A p \in Priorities : schan[p] # 0
  /\ accepting # 0 =>
       /\ server # "idle" \/ completed = Aborted
       /\ \A p \in Priorities : schan[p] # 0 <=> p < accepting
  /\ server # "connected" /\ accepting = 0 => schan = Closed

\* There is one doConnect at most, of a started client that has discovered its
\* server, and it has opened the channels before its own.
ClientInv ==
  /\ hearing => client # "idle"
  /\ ~discovered => client # "connected" /\ dials = {}
  /\ \A d \in dials :
       /\ client = "started"
       /\ \A p \in Priorities : cchan[p] # 0 <=> p < d.chan
       /\ \A e \in dials : e = d
  /\ client = "connected" => dials = {} /\ \A p \in Priorities : cchan[p] # 0
  /\ client # "connected" /\ dials = {} => cchan = Closed

IInv == Typed /\ ServerInv /\ ClientInv

-----------------------------------------------------------------------------
LEMMA InitIInv == Init => IInv
<1> SUFFICES ASSUME Init PROVE IInv
  OBVIOUS
<1>1. ServerTyped /\ ClientTyped
  <2>1. Closed \in [Priorities -> {0} \cup Sessions]
    BY DEF Closed
  <2>2. /\ server \in States /\ listening \in 0..3 /\ accepting \in 0..3
        /\ client \in States /\ dials \subseteq Dials /\ sessions \in 0..MaxSessions
        /\ completed \in Sessions \cup {Pending, Aborted}
    BY RemoteControlAssumption DEF Init, States
  <2>3. {broadcasting, hearing, discovered} \subseteq BOOLEAN
    BY Zenon DEF Init
  <2> QED
    BY <2>1, <2>2, <2>3 DEF Init, ServerTyped, ClientTyped
<1>2. NetTyped
  <2>1. stops \in [server : 0..ServerStops, client : 0..ClientStops]
    BY RemoteControlAssumption DEF Init
  <2> QED
    BY <2>1, EmptySeq, RemoteControlAssumption DEF Init, NetTyped
<1>3. ServerInv /\ ClientInv
  BY DEF Init, ServerInv, ClientInv, Pending
<1> QED
  BY <1>1, <1>2, <1>3 DEF IInv, Typed

\* Types are inductive.
LEMMA ServerTypedStep == ServerTyped /\ NetTyped /\ [Next]_vars => ServerTyped'
<1> SUFFICES ASSUME ServerTyped, NetTyped, [Next]_vars PROVE ServerTyped'
  OBVIOUS
<1>1. CASE ServerStart
  BY <1>1, RemoteControlAssumption DEF ServerStart, ServerTyped, States, Sessions,
      Priorities, Pending, Aborted, Closed
<1>2. CASE Listen
  BY <1>2, RemoteControlAssumption DEF Listen, DoAccept, AcceptNext, ServerTyped,
      States, Sessions, Priorities, Pending, Aborted, Closed
<1>3. CASE ListenFails
  BY <1>3, RemoteControlAssumption DEF ListenFails, Unlisten, ServerTyped, States,
      Sessions, Priorities, Pending, Aborted, Closed
<1>4. CASE ServerStop
  <2>1. Closed \in [Priorities -> {0} \cup Sessions]
    BY DEF Closed
  <2>2. server' \in States /\ listening' \in 0..3
    BY <1>4 DEF ServerStop, Unlisten, States
  <2>5. broadcasting' \in BOOLEAN
    BY <1>4, Zenon DEF ServerStop, Unlisten
  <2>3. completed' \in Sessions \cup {Pending, Aborted}
    BY <1>4 DEF ServerStop, ServerTyped
  <2>4. accepting' \in 0..3 /\ schan' \in [Priorities -> {0} \cup Sessions]
    BY <1>4, <2>1 DEF ServerStop, ServerTyped
  <2> QED
    BY <2>2, <2>3, <2>4, <2>5 DEF ServerTyped
<1>5. CASE Accept
  <2>1. accepting \in Priorities
    BY <1>5 DEF Accept, ServerTyped, Priorities
  <2>2. completed' \in Sessions
    BY <1>5, <2>1, HeadTailProperties DEF Accept, NetTyped
  <2> QED
    BY <1>5, <2>2 DEF Accept, ServerTyped
<1>6. CASE AcceptFails
  BY <1>6, RemoteControlAssumption DEF AcceptFails, ServerTyped, States, Sessions,
      Priorities, Pending, Aborted, Closed
<1>7. CASE AcceptChannel
  BY <1>7, RemoteControlAssumption DEF AcceptChannel, AcceptNext, CloseFirst,
      ServerTyped, States, Sessions, Priorities, Pending, Aborted, Closed
<1>8. CASE AcceptError
  BY <1>8, RemoteControlAssumption DEF AcceptError, CloseFirst, ServerTyped, States,
      Sessions, Priorities, Pending, Aborted, Closed
<1>9. CASE ServerReadFails
  BY <1>9, RemoteControlAssumption DEF ServerReadFails, DoAccept, AcceptNext,
      ServerTyped, States, Sessions, Priorities, Pending, Aborted, Closed
<1>10. CASE UNCHANGED <<serverVars>>
  BY <1>10 DEF ServerTyped, serverVars
<1>11. QED
  BY <1>1, <1>2, <1>3, <1>4, <1>5, <1>6, <1>7, <1>8, <1>9, <1>10 DEF Next, Handlers,
      Net, Faults, vars, serverVars, clientVars, network, ClientStart, ClientStop,
      HandleDiscoveryMessage, ClientReadFails, ConnectChannel, ConnectError, Connects,
      Refused, Breaks

\* Of the client's side.
LEMMA ClientTypedStep == ClientTyped /\ [Next]_vars => ClientTyped'
<1> SUFFICES ASSUME ClientTyped, [Next]_vars PROVE ClientTyped'
  OBVIOUS
<1>1. CASE ClientStart
  BY <1>1, RemoteControlAssumption DEF ClientStart, ClientTyped, Dials, States,
      Sessions, Priorities, Closed
<1>2. CASE ClientStop
  BY <1>2, RemoteControlAssumption DEF ClientStop, ClientTyped, Dials, States, Sessions,
      Priorities, Closed
<1>3. CASE HandleDiscoveryMessage
  BY <1>3, RemoteControlAssumption DEF HandleDiscoveryMessage, DoConnect, ClientTyped,
      Dials, States, Sessions, Priorities, Closed
<1>4. CASE ClientReadFails
  <2>1. Closed \in [Priorities -> {0} \cup Sessions] /\ 1 \in Priorities /\ Closed[1] = 0
    BY DEF Closed, Priorities
  <2>2. /\ client' = "started" /\ cchan' = Closed
        /\ DoConnect(Closed, dials) /\ UNCHANGED <<hearing, discovered>>
    BY <1>4 DEF ClientReadFails
  <2>3. /\ sessions' \in 0..MaxSessions /\ sessions' \in Sessions
        /\ dials' = dials \cup {[session |-> sessions', chan |-> 1, op |-> "trying"]}
    BY <2>2, <2>1, RemoteControlAssumption DEF DoConnect, ClientTyped, Sessions
  <2>4. [session |-> sessions', chan |-> 1, op |-> "trying"] \in Dials
    BY <2>3, <2>1 DEF Dials
  <2> QED
    BY <2>1, <2>2, <2>3, <2>4 DEF ClientTyped, States
<1>5. ASSUME NEW d \in dials, ConnectChannel(d) PROVE ClientTyped'
  <2>1. /\ d \in Dials /\ d.session \in Sessions /\ d.chan \in Priorities
    BY DEF ClientTyped, Dials
  <2> DEFINE taken == [cchan EXCEPT ![d.chan] = d.session]
             next  == [d EXCEPT !.chan = d.chan + 1, !.op = "trying"]
  <2>2. /\ taken \in [Priorities -> {0} \cup Sessions]
        /\ CloseFirst(taken, d.chan) \in [Priorities -> {0} \cup Sessions]
    BY <2>1 DEF ClientTyped, CloseFirst
  <2>3. d.chan < 3 => next \in Dials
    <3> SUFFICES ASSUME d.chan < 3 PROVE next \in Dials
      OBVIOUS
    <3> DEFINE moved == [d EXCEPT !.chan = d.chan + 1]
    <3>1. d.chan + 1 \in Priorities
      BY <2>1 DEF Priorities
    <3>2. moved \in Dials
      BY <3>1, <2>1 DEF Dials
    <3>3. next = [moved EXCEPT !.op = "trying"]
      BY <2>1 DEF Dials
    <3> HIDE DEF moved, next
    <3> QED
      BY <3>2, <3>3 DEF Dials
  <2>4. /\ client' \in {"connected", client}
        /\ cchan' \in {taken, CloseFirst(taken, d.chan)}
        /\ dials' = dials \ {d} \/ (d.chan < 3 /\ dials' = (dials \ {d}) \cup {next})
        /\ UNCHANGED <<hearing, discovered, sessions>>
    BY <1>5, <2>1 DEF ConnectChannel, Priorities
  <2> QED
    BY <2>2, <2>3, <2>4 DEF ClientTyped, States
<1>6. ASSUME NEW d \in dials, ConnectError(d) PROVE ClientTyped'
  BY <1>6, RemoteControlAssumption DEF ConnectError, CloseFirst, ClientTyped, Dials,
      States, Sessions, Priorities, Closed
<1>7. ASSUME NEW d \in dials, Connects(d) PROVE ClientTyped'
  BY <1>7, RemoteControlAssumption DEF Connects, ClientTyped, Dials, States, Sessions,
      Priorities, Closed
<1>8. ASSUME NEW d \in dials, Refused(d) PROVE ClientTyped'
  BY <1>8, RemoteControlAssumption DEF Refused, ClientTyped, Dials, States, Sessions,
      Priorities, Closed
<1>9. CASE UNCHANGED <<clientVars>>
  BY <1>9 DEF ClientTyped, clientVars
<1>10. QED
  BY <1>1, <1>2, <1>3, <1>4, <1>5, <1>6, <1>7, <1>8, <1>9 DEF Next, Handlers, Net,
      Faults, vars, serverVars, clientVars, network, ServerStart, Listen, ListenFails,
      ServerStop, Accept, AcceptFails, AcceptChannel, AcceptError, ServerReadFails,
      Breaks

\* Of the network and of the counts.
LEMMA NetTypedStep == ServerTyped /\ ClientTyped /\ NetTyped /\ [Next]_vars => NetTyped'
<1> SUFFICES ASSUME ServerTyped, ClientTyped, NetTyped, [Next]_vars PROVE NetTyped'
  OBVIOUS
<1>1. CASE ListenFails
  <2>1. /\ backlog' = [p \in Priorities |-> <<>>] /\ alive' \subseteq alive
        /\ UNCHANGED <<breaks, stops, faulty>>
    BY <1>1 DEF ListenFails, Unlisten
  <2> QED
    BY <2>1, EmptySeq DEF NetTyped
<1>2. CASE ServerStop
  <2>1. /\ backlog' = [p \in Priorities |-> <<>>] /\ alive' \subseteq alive
        /\ stops.server < ServerStops /\ stops' = [stops EXCEPT !.server = @ + 1]
        /\ UNCHANGED <<breaks, faulty>>
    BY <1>2 DEF ServerStop, Unlisten
  <2>2. stops' \in [server : 0..ServerStops, client : 0..ClientStops]
    BY <2>1, RemoteControlAssumption DEF NetTyped
  <2> QED
    BY <2>1, <2>2, EmptySeq DEF NetTyped
<1>3. CASE Accept
  <2>1. accepting \in Priorities
    BY <1>3 DEF Accept, ServerTyped, Priorities
  <2>2. backlog' \in [Priorities -> Seq(Sessions)]
    BY <1>3, <2>1, HeadTailProperties DEF Accept, NetTyped
  <2> QED
    BY <1>3, <2>2 DEF Accept, NetTyped
<1>4. CASE AcceptChannel
  BY <1>4, RemoteControlAssumption DEF AcceptChannel, AcceptNext, CloseFirst,
      ServerTyped, ClientTyped, NetTyped, Dials, Sessions, Priorities, Connections
<1>5. CASE AcceptError
  BY <1>5, RemoteControlAssumption DEF AcceptError, CloseFirst, ServerTyped,
      ClientTyped, NetTyped, Dials, Sessions, Priorities, Connections
<1>6. CASE ServerReadFails
  BY <1>6, RemoteControlAssumption DEF ServerReadFails, DoAccept, AcceptNext,
      ServerTyped, ClientTyped, NetTyped, Dials, Sessions, Priorities, Connections
<1>7. CASE ClientStop
  <2>1. /\ alive' \subseteq alive /\ stops.client < ClientStops
        /\ stops' = [stops EXCEPT !.client = @ + 1]
        /\ UNCHANGED <<backlog, breaks, faulty>>
    BY <1>7 DEF ClientStop
  <2>2. stops' \in [server : 0..ServerStops, client : 0..ClientStops]
    BY <2>1, RemoteControlAssumption DEF NetTyped
  <2> QED
    BY <2>1, <2>2 DEF NetTyped
<1>8. CASE ClientReadFails
  BY <1>8, RemoteControlAssumption DEF ClientReadFails, DoConnect,
      ServerTyped, ClientTyped, NetTyped, Dials, Sessions, Priorities, Connections
<1>9. ASSUME NEW d \in dials, ConnectChannel(d) PROVE NetTyped'
  BY <1>9, RemoteControlAssumption DEF ConnectChannel, CloseFirst, ServerTyped,
      ClientTyped, NetTyped, Dials, Sessions, Priorities, Connections
<1>10. ASSUME NEW d \in dials, ConnectError(d) PROVE NetTyped'
  BY <1>10, RemoteControlAssumption DEF ConnectError, CloseFirst, ServerTyped,
      ClientTyped, NetTyped, Dials, Sessions, Priorities, Connections
<1>11. ASSUME NEW d \in dials, Connects(d) PROVE NetTyped'
  <2>1. d.session \in Sessions /\ d.chan \in Priorities
    BY DEF ClientTyped, Dials
  <2>2. /\ backlog' = [backlog EXCEPT ![d.chan] = Append(@, d.session)]
        /\ alive' = alive \cup {<<d.session, d.chan>>}
        /\ UNCHANGED <<breaks, stops, faulty>>
    BY <1>11 DEF Connects
  <2>3. Append(backlog[d.chan], d.session) \in Seq(Sessions)
    BY <2>1, AppendProperties DEF NetTyped
  <2>4. backlog' \in [Priorities -> Seq(Sessions)]
    BY <2>2, <2>3 DEF NetTyped
  <2> QED
    BY <2>1, <2>2, <2>4 DEF NetTyped, Connections
<1>12. CASE Breaks
  BY <1>12, RemoteControlAssumption DEF Breaks, ServerTyped, ClientTyped, NetTyped,
      Dials, Sessions, Priorities, Connections
<1>13. CASE UNCHANGED <<network, breaks, stops, faulty>>
  BY <1>13 DEF NetTyped, network
<1>14. QED
  BY <1>1, <1>2, <1>3, <1>4, <1>5, <1>6, <1>7, <1>8, <1>9, <1>10, <1>11, <1>12, <1>13
      DEF Next, Handlers, Net, Faults, vars, serverVars, clientVars, network,
      ServerStart, Listen, AcceptFails, ClientStart, HandleDiscoveryMessage, Refused

\* stop() does not come between an accept and its handler.
LEMMA ServerStep == Timely /\ ServerTyped /\ ServerInv /\ [Next]_vars => ServerInv'
<1> SUFFICES ASSUME Timely, ServerTyped, ServerInv, [Next]_vars PROVE ServerInv'
  OBVIOUS
<1>1. CASE ServerStart
  BY <1>1, RemoteControlAssumption DEF ServerStart, ServerTyped, ServerInv, Sessions,
      Priorities, Pending, Aborted, Closed
<1>2. CASE Listen
  BY <1>2, RemoteControlAssumption DEF Listen, DoAccept, AcceptNext, ServerTyped,
      ServerInv, Sessions, Priorities, Pending, Aborted, Closed
<1>3. CASE ListenFails
  BY <1>3, RemoteControlAssumption DEF ListenFails, Unlisten, ServerTyped, ServerInv,
      Sessions, Priorities, Pending, Aborted, Closed
<1>4. CASE ServerStop
  BY <1>4, RemoteControlAssumption DEF ServerStop, Unlisten, ServerTyped, ServerInv,
      Sessions, Priorities, Pending, Aborted, Closed
<1>5. CASE Accept
  BY <1>5, RemoteControlAssumption DEF Accept, ServerTyped, ServerInv, Sessions,
      Priorities, Pending, Aborted, Closed
<1>6. CASE AcceptFails
  BY <1>6, RemoteControlAssumption DEF AcceptFails, ServerTyped, ServerInv, Sessions,
      Priorities, Pending, Aborted, Closed
<1>7. CASE AcceptChannel
  BY <1>7, RemoteControlAssumption DEF AcceptChannel, AcceptNext, CloseFirst,
      ServerTyped, ServerInv, Sessions, Priorities, Pending, Aborted, Closed
<1>8. CASE AcceptError
  BY <1>8, RemoteControlAssumption DEF AcceptError, CloseFirst, ServerTyped, ServerInv,
      Sessions, Priorities, Pending, Aborted, Closed
<1>9. CASE ServerReadFails
  BY <1>9, RemoteControlAssumption DEF ServerReadFails, DoAccept, AcceptNext,
      ServerTyped, ServerInv, Sessions, Priorities, Pending, Aborted, Closed
<1>10. CASE UNCHANGED <<serverVars>>
  BY <1>10 DEF ServerInv, serverVars
<1>11. QED
  BY <1>1, <1>2, <1>3, <1>4, <1>5, <1>6, <1>7, <1>8, <1>9, <1>10 DEF Next, Handlers,
      Net, Faults, vars, serverVars, clientVars, network, ClientStart, ClientStop,
      HandleDiscoveryMessage, ClientReadFails, ConnectChannel, ConnectError, Connects,
      Refused, Breaks

\* Nor while the client connects.
LEMMA ClientStep == Timely /\ ClientTyped /\ ClientInv /\ [Next]_vars => ClientInv'
<1> SUFFICES ASSUME Timely, ClientTyped, ClientInv, [Next]_vars PROVE ClientInv'
  OBVIOUS
<1>1. CASE ClientStart
  BY <1>1 DEF ClientStart, ClientTyped, ClientInv, Sessions, Priorities, Dials, Closed
<1>2. CASE ClientStop
  BY <1>2 DEF ClientStop, ClientTyped, ClientInv, Sessions, Priorities, Dials, Closed
<1>3. CASE HandleDiscoveryMessage
  <2>1. /\ hearing /\ ~discovered /\ client # "connected" /\ client # "idle" /\ dials = {}
        /\ cchan = Closed /\ discovered' /\ UNCHANGED <<hearing, client, cchan>>
        /\ DoConnect(cchan, dials)
    BY <1>3 DEF HandleDiscoveryMessage, ClientInv
  <2>2. dials' = {[session |-> sessions', chan |-> 1, op |-> "trying"]}
    BY <2>1 DEF DoConnect, Closed, Priorities
  <2> QED
    BY <2>1, <2>2 DEF ClientInv, ClientTyped, States, Closed, Priorities
<1>4. CASE ClientReadFails
  BY <1>4 DEF ClientReadFails, DoConnect, ClientTyped, ClientInv, Sessions,
      Priorities, Dials, Closed
<1>5. ASSUME NEW d \in dials, ConnectChannel(d) PROVE ClientInv'
  <2>1. /\ d.session \in Sessions /\ d.session # 0 /\ d.chan \in Priorities /\ d \in Dials
    BY DEF ClientTyped, Dials, Sessions
  <2>2. /\ client = "started" /\ dials \ {d} = {} /\ discovered
        /\ \A p \in Priorities : cchan[p] # 0 <=> p < d.chan
    BY DEF ClientInv
  <2> DEFINE taken == [cchan EXCEPT ![d.chan] = d.session]
             next  == [d EXCEPT !.chan = d.chan + 1, !.op = "trying"]
  <2>3. \A p \in Priorities : taken[p] # 0 <=> p < d.chan + 1
    BY <2>1, <2>2 DEF ClientTyped, Priorities
  <2>4. CASE d.chan = 3
    <3>1. client' = "connected" /\ cchan' = taken /\ dials' = {}
      BY <1>5, <2>2, <2>4 DEF ConnectChannel
    <3> QED
      BY <1>5, <2>2, <2>3, <2>4, <3>1 DEF ConnectChannel, ClientInv, Priorities
  <2>5. CASE d.chan < 3
    <3>1. d.chan + 1 \in Priorities /\ cchan[d.chan + 1] = 0
      BY <2>1, <2>2, <2>5 DEF Priorities
    <3>2. cchan' = taken /\ dials' = {next} /\ UNCHANGED client
      BY <1>5, <2>2, <2>5, <3>1 DEF ConnectChannel
    <3>3. next.chan = d.chan + 1
      BY <2>1 DEF Dials
    <3> QED
      BY <1>5, <2>2, <2>3, <3>2, <3>3 DEF ConnectChannel, ClientInv
  <2> QED
    BY <2>1, <2>4, <2>5 DEF Priorities
<1>6. ASSUME NEW d \in dials, ConnectError(d) PROVE ClientInv'
  BY <1>6 DEF ConnectError, CloseFirst, ClientTyped, ClientInv, Sessions, Priorities,
      Dials, Closed
<1>7. ASSUME NEW d \in dials, Connects(d) PROVE ClientInv'
  BY <1>7 DEF Connects, ClientTyped, ClientInv, Sessions, Priorities, Dials, Closed
<1>8. ASSUME NEW d \in dials, Refused(d) PROVE ClientInv'
  BY <1>8 DEF Refused, ClientTyped, ClientInv, Sessions, Priorities, Dials, Closed
<1>9. CASE UNCHANGED <<clientVars>>
  BY <1>9 DEF ClientInv, clientVars
<1>10. QED
  BY <1>1, <1>2, <1>3, <1>4, <1>5, <1>6, <1>7, <1>8, <1>9 DEF Next, Handlers, Net,
      Faults, vars, serverVars, clientVars, network, ServerStart, Listen, ListenFails,
      ServerStop, Accept, AcceptFails, AcceptChannel, AcceptError, ServerReadFails,
      Breaks

-----------------------------------------------------------------------------
\* Every variable keeps its type: what doAccept and doConnect go on to is one of
\* the three channels.
THEOREM SpecTypeOK == Spec => []TypeOK
<1>1. Init => Typed
  BY InitIInv DEF IInv
<1>2. Typed /\ [Next]_vars => Typed'
  BY ServerTypedStep, ClientTypedStep, NetTypedStep DEF Typed
<1>3. Typed => TypeOK
  BY DEF Typed, ServerTyped, ClientTyped, NetTyped, TypeOK
<1> QED
  BY <1>1, <1>2, <1>3, PTL DEF Spec

LEMMA SpecIInv == Timely => (Spec => []IInv)
<1> SUFFICES ASSUME Timely PROVE Spec => []IInv
  OBVIOUS
<1>1. IInv /\ [Next]_vars => IInv'
  BY ServerTypedStep, ClientTypedStep, NetTypedStep, ServerStep, ClientStep DEF IInv, Typed
<1> QED
  BY InitIInv, <1>1, PTL DEF Spec

\* A side that says it is connected has its three channels, when nobody stops a
\* side that connects.
THEOREM SpecConnectedIsOpen == Timely => (Spec => []ConnectedIsOpen)
<1> SUFFICES ASSUME Timely PROVE Spec => []ConnectedIsOpen
  OBVIOUS
<1>1. IInv => ConnectedIsOpen
  BY DEF IInv, ServerInv, ClientInv, ConnectedIsOpen
<1> QED
  BY SpecIInv, <1>1, PTL

\* A side with nothing under way has closed what it opened, also after accepts
\* and connects that failed half way.
THEOREM SpecNothingLeftOpen == Timely => (Spec => []NothingLeftOpen)
<1> SUFFICES ASSUME Timely PROVE Spec => []NothingLeftOpen
  OBVIOUS
<1>1. IInv => NothingLeftOpen
  BY DEF IInv, ServerInv, ClientInv, NothingLeftOpen
<1> QED
  BY SpecIInv, <1>1, PTL

-----------------------------------------------------------------------------
(***************************************************************************)
(* One session                                                             *)
(***************************************************************************)
\* The acceptors were dialled for the sessions 1, 2, ...  in this order; the
\* last one may still be on its way to acceptor q.
Lag(q)   == IF \E d \in dials : d.chan < q \/ (d.chan = q /\ d.op = "trying") THEN 1 ELSE 0
\* doAccept has taken a session that later acceptors have not given yet.
Ahead(q) == IF q < accepting \/ (q = accepting /\ completed # Pending) THEN 1 ELSE 0

\* Every acceptor q has given the sessions 1..t + Ahead(q) away, and has the others
\* but those that are on their way, in their order.
Given(t, q) ==
  /\ sessions = t + Ahead(q) + Len(backlog[q]) + Lag(q)
  /\ \A i \in 1..Len(backlog[q]) : backlog[q][i] = t + Ahead(q) + i

\* What the server has of session t + 1, and that of t when it is connected.
Round(t) ==
  /\ \A q \in Priorities : q < accepting => schan[q] = t + 1
  /\ completed \in {Pending, t + 1}
  /\ server = "connected" => \A q \in Priorities : schan[q] = t

NoFault ==
  /\ discovered => listening = 3
  /\ completed # Aborted
  /\ \A d \in dials : d.session = sessions /\ d.op # "failed"
  /\ \E t \in Nat : Round(t) /\ \A q \in Priorities : Given(t, q)

\* Both are 0 or 1, and the dials there are decide the first.
LEMMA LagAhead ==
  /\ \A q : Lag(q) \in {0, 1} /\ Ahead(q) \in {0, 1}
  /\ dials = {} => \A q : Lag(q) = 0
  /\ \A d : dials = {d} =>
       \A q : Lag(q) = IF d.chan < q \/ (d.chan = q /\ d.op = "trying") THEN 1 ELSE 0
  BY DEF Lag, Ahead

\* A step of the server that takes nothing from an acceptor.
LEMMA GivenKept ==
  ASSUME NEW t, NEW u, NEW q, Given(t, q), UNCHANGED <<sessions, dials, backlog>>,
         u + Ahead(q)' = t + Ahead(q)
  PROVE  Given(u, q)'
  BY DEF Given, Lag

\* One of the client that does not dial.
LEMMA NoFaultKept ==
  ASSUME NoFault, UNCHANGED <<serverVars, dials, sessions, backlog>>,
         discovered' => discovered
  PROVE  NoFault'
<1>1. PICK t \in Nat : Round(t) /\ \A q \in Priorities : Given(t, q)
  BY DEF NoFault
<1>2. Round(t)'
  BY <1>1 DEF Round, serverVars
<1>3. \A q \in Priorities : Given(t, q)'
  BY <1>1 DEF Given, Ahead, Lag, serverVars
<1> QED
  BY <1>2, <1>3 DEF NoFault, serverVars

LEMMA AcceptOnce == IInv /\ NoFault /\ Accept => NoFault'
<1> SUFFICES ASSUME IInv, NoFault, Accept PROVE NoFault'
  OBVIOUS
<1>1. PICK t \in Nat : Round(t) /\ \A q \in Priorities : Given(t, q)
  BY DEF NoFault
<1>2. /\ accepting \in Priorities /\ completed = Pending /\ backlog[accepting] # <<>>
      /\ backlog[accepting] \in Seq(Sessions)
      /\ completed' = Head(backlog[accepting])
      /\ backlog' = [backlog EXCEPT ![accepting] = Tail(@)]
      /\ UNCHANGED <<server, listening, accepting, schan, clientVars>>
  BY DEF Accept, IInv, Typed, ServerTyped, NetTyped, Priorities
<1> DEFINE old == backlog[accepting]
<1>3. /\ Head(old) = old[1] /\ Head(old) \in Sessions /\ 1 \in 1..Len(old)
      /\ Len(Tail(old)) = Len(old) - 1 /\ Len(old) \in Nat
      /\ \A i \in 1..Len(Tail(old)) : Tail(old)[i] = old[i + 1] /\ i + 1 \in 1..Len(old)
  BY <1>2, HeadTailProperties
<1>4. Ahead(accepting) = 0 /\ completed' = t + 1
  BY <1>1, <1>2, <1>3 DEF Ahead, Given, Priorities
<1>5. completed' # Pending /\ completed' # Aborted
  BY <1>2, <1>3, RemoteControlAssumption DEF Sessions, Pending, Aborted
<1>6. Round(t)'
  BY <1>1, <1>2, <1>4 DEF Round
<1>7. ASSUME NEW q \in Priorities PROVE Given(t, q)'
  <2>1. Lag(q)' = Lag(q) /\ Lag(q) \in {0, 1} /\ sessions' = sessions
    BY <1>2, LagAhead DEF Lag, clientVars
  <2>2. CASE q # accepting
    <3>1. Ahead(q)' = Ahead(q) /\ backlog'[q] = backlog[q]
      BY <1>2, <2>2 DEF Ahead, IInv, Typed, NetTyped
    <3> QED
      BY <1>1, <2>1, <3>1 DEF Given
  <2>3. CASE q = accepting
    <3>1. Ahead(q)' = 1 /\ backlog'[q] = Tail(old)
      BY <1>2, <1>5, <2>3 DEF Ahead, IInv, Typed, NetTyped
    <3>2. sessions = t + 0 + Len(old) + Lag(q) /\ \A i \in 1..Len(old) : old[i] = t + 0 + i
      BY <1>1, <1>4, <2>3 DEF Given
    <3> HIDE DEF old
    <3>3. sessions = t + 1 + Len(Tail(old)) + Lag(q)
      <4> DEFINE m == Len(old)
                 n == Len(Tail(old))
                 l == Lag(q)
      <4>1. m \in Nat /\ n = m - 1 /\ l \in Nat /\ t \in Nat
        BY <1>1, <1>3, <2>1
      <4>2. sessions = t + 0 + m + l
        BY <3>2
      <4> HIDE DEF m, n, l
      <4>3. sessions = t + 1 + n + l
        BY <4>1, <4>2
      <4> QED
        BY <4>3 DEF n, l
    <3>4. \A i \in 1..Len(Tail(old)) : Tail(old)[i] = t + 1 + i
      BY <1>3, <3>2
    <3> QED
      BY <2>1, <3>1, <3>3, <3>4 DEF Given
  <2> QED
    BY <2>2, <2>3
<1> QED
  BY <1>2, <1>5, <1>6, <1>7 DEF NoFault, clientVars

LEMMA AcceptChannelOnce == IInv /\ NoFault /\ AcceptChannel => NoFault'
<1> SUFFICES ASSUME IInv, NoFault, AcceptChannel PROVE NoFault'
  OBVIOUS
<1>1. PICK t \in Nat : Round(t) /\ \A q \in Priorities : Given(t, q)
  BY DEF NoFault
<1>2. /\ completed \in Sessions /\ completed # Pending /\ completed = t + 1
      /\ accepting \in Priorities /\ server # "idle" /\ listening = 3
      /\ UNCHANGED <<listening, clientVars, backlog, sessions, dials, discovered>>
  BY <1>1, RemoteControlAssumption DEF AcceptChannel, Round, Sessions, Pending, Aborted, IInv, Typed,
     ServerTyped, ServerInv, Priorities, NoFault, clientVars
<1>3. \A q \in Priorities : q < accepting => schan[q] = t + 1
  BY <1>1 DEF Round
<1>4. CASE accepting = 3
  <2>1. /\ schan' = [schan EXCEPT ![3] = t + 1] /\ server' = "connected" /\ accepting' = 0
        /\ completed' = Pending
    BY <1>2, <1>4 DEF AcceptChannel
  <2>2. \A q \in Priorities : schan'[q] = t + 1
    BY <1>3, <1>4, <2>1 DEF IInv, Typed, ServerTyped, Priorities
  <2>3. Round(t + 1)'
    BY <2>1, <2>2 DEF Round, Priorities
  <2>4. ASSUME NEW q \in Priorities PROVE Given(t + 1, q)'
    <3>1. Ahead(q) = 1 /\ Ahead(q)' = 0
      BY <1>2, <1>4, <2>1 DEF Ahead, Priorities
    <3>2. (t + 1) + Ahead(q)' = t + Ahead(q)
      BY <3>1
    <3> QED
      BY <1>1, <1>2, <3>2, GivenKept
  <2> QED
    BY <1>2, <2>1, <2>3, <2>4, RemoteControlAssumption DEF NoFault, Pending, Aborted
<1>5. CASE accepting < 3
  <2>1. schan[accepting + 1] = 0 /\ accepting + 1 \in Priorities
    BY <1>2, <1>5 DEF IInv, ServerInv, Priorities
  <2>2. /\ schan' = [schan EXCEPT ![accepting] = t + 1] /\ UNCHANGED server
        /\ accepting' = accepting + 1 /\ completed' = Pending
    BY <1>2, <1>5, <2>1 DEF AcceptChannel, AcceptNext, Priorities
  <2>3. Round(t)'
    <3>1. server # "connected"
      BY <1>2 DEF IInv, ServerInv, Priorities
    <3>2. \A q \in Priorities : q < accepting + 1 => schan'[q] = t + 1
      BY <1>2, <1>3, <2>2 DEF IInv, Typed, ServerTyped, Priorities
    <3> QED
      BY <2>2, <3>1, <3>2 DEF Round
  <2>4. ASSUME NEW q \in Priorities PROVE Given(t, q)'
    <3>1. Ahead(q)' = Ahead(q)
      BY <1>2, <2>2 DEF Ahead, Priorities
    <3> QED
      BY <1>1, <1>2, <3>1, GivenKept
  <2> QED
    BY <1>2, <2>2, <2>3, <2>4, RemoteControlAssumption DEF NoFault, Pending, Aborted
<1> QED
  BY <1>2, <1>4, <1>5 DEF Priorities

\* Listening ends in a doAccept, and so does a read that fails.
LEMMA DoAcceptOnce == IInv /\ NoFault /\ (Listen \/ ServerReadFails) => NoFault'
<1> SUFFICES ASSUME IInv, NoFault, Listen \/ ServerReadFails PROVE NoFault'
  OBVIOUS
<1>1. PICK t \in Nat : Round(t) /\ \A q \in Priorities : Given(t, q)
  BY DEF NoFault
<1>2. /\ accepting = 0 /\ completed = Pending
      /\ UNCHANGED <<clientVars, backlog, sessions, dials, discovered>>
  BY DEF Listen, ServerReadFails, IInv, ServerInv, clientVars, network
<1>3. /\ server' # "connected" /\ accepting' \in {0, 1} /\ completed' = Pending
      /\ discovered => listening' = 3
  <2>1. CASE Listen
    <3>1. server = "idle" /\ listening < 3 /\ ~discovered /\ schan[1] = 0
      BY <2>1 DEF Listen, IInv, ServerInv, NoFault, Closed, Priorities
    <3> QED
      BY <1>2, <2>1, <3>1 DEF Listen, DoAccept, AcceptNext
  <2>2. CASE ServerReadFails
    BY <2>2 DEF ServerReadFails, DoAccept, AcceptNext, IInv, ServerInv, Closed, Priorities
  <2> QED
    BY <2>1, <2>2
<1>4. Round(t)'
  BY <1>3 DEF Round, Priorities
<1>5. ASSUME NEW q \in Priorities PROVE Given(t, q)'
  <2>1. Ahead(q)' = Ahead(q)
    BY <1>2, <1>3 DEF Ahead, Priorities
  <2> QED
    BY <1>1, <1>2, <2>1, GivenKept
<1> QED
  BY <1>2, <1>3, <1>4, <1>5, RemoteControlAssumption DEF NoFault, Pending, Aborted

\* Nobody else dials while one dials, so the new session is behind every other.
LEMMA DialOnce ==
  ASSUME IInv, NoFault, dials = {}, UNCHANGED <<serverVars, backlog>>,
         discovered' => listening = 3, sessions' = sessions + 1,
         dials' = {[session |-> sessions', chan |-> 1, op |-> "trying"]}
  PROVE  NoFault'
<1>1. PICK t \in Nat : Round(t) /\ \A q \in Priorities : Given(t, q)
  BY DEF NoFault
<1>2. Round(t)'
  BY <1>1 DEF Round, serverVars
<1>3. ASSUME NEW q \in Priorities PROVE Given(t, q)'
  <2>1. Lag(q) = 0 /\ Lag(q)' = 1
    BY DEF Lag, Priorities
  <2>2. Ahead(q)' = Ahead(q) /\ Ahead(q) \in {0, 1} /\ Len(backlog[q]) \in Nat
    BY LagAhead, LenProperties DEF Ahead, serverVars, IInv, Typed, NetTyped
  <2>3. sessions + 1 = t + Ahead(q) + Len(backlog[q]) + 1
    BY <1>1, <2>1, <2>2 DEF Given
  <2> QED
    BY <1>1, <2>1, <2>2, <2>3 DEF Given
<1> QED
  BY <1>2, <1>3 DEF NoFault, serverVars

\* The connection is made.
LEMMA ConnectsOnce == IInv /\ NoFault /\ (\E d \in dials : Connects(d)) => NoFault'
<1> SUFFICES ASSUME IInv, NoFault, NEW d \in dials, Connects(d) PROVE NoFault'
  OBVIOUS
<1>1. PICK t \in Nat : Round(t) /\ \A q \in Priorities : Given(t, q)
  BY DEF NoFault
<1> DEFINE done == [d EXCEPT !.op = "done"]
<1>2. /\ d \in Dials /\ d.chan \in Priorities /\ d.session = sessions /\ dials = {d}
      /\ d.op = "trying"
  BY DEF IInv, Typed, ClientTyped, ClientInv, Dials, NoFault, Connects
<1>3. /\ done.chan = d.chan /\ done.op = "done" /\ done.session = sessions
      /\ dials' = {done}
  BY <1>2 DEF Connects, Dials
<1>4. /\ backlog' = [backlog EXCEPT ![d.chan] = Append(@, sessions)]
      /\ UNCHANGED <<serverVars, discovered, sessions>>
  BY <1>2 DEF Connects
<1>5. Round(t)'
  BY <1>1, <1>4 DEF Round, serverVars
<1>6. ASSUME NEW q \in Priorities PROVE Given(t, q)'
  <2>1. Ahead(q)' = Ahead(q) /\ Ahead(q) \in {0, 1} /\ backlog[q] \in Seq(Sessions)
    BY <1>4, LagAhead DEF Ahead, serverVars, IInv, Typed, NetTyped
  <2>2. CASE q # d.chan
    <3>1. Lag(q)' = Lag(q)
      BY <1>2, <1>3, <2>2, LagAhead DEF Lag
    <3>2. backlog'[q] = backlog[q]
      BY <1>4, <2>2 DEF IInv, Typed, NetTyped
    <3> QED
      BY <1>1, <1>4, <2>1, <3>1, <3>2 DEF Given
  <2>3. CASE q = d.chan
    <3> DEFINE old == backlog[q]
    <3>1. Lag(q) = 1 /\ Lag(q)' = 0
      BY <1>2, <1>3, <2>3, LagAhead DEF Lag, Priorities
    <3>2. backlog'[q] = Append(old, sessions) /\ sessions \in Sessions /\ sessions \in Nat
      BY <1>2, <1>4, <2>3 DEF IInv, Typed, NetTyped, Dials, Sessions
    <3>3. /\ sessions = t + Ahead(q) + Len(old) + 1
          /\ \A i \in 1..Len(old) : old[i] = t + Ahead(q) + i
      BY <1>1, <3>1 DEF Given
    <3>4. /\ Len(Append(old, sessions)) = Len(old) + 1 /\ Len(old) \in Nat
          /\ \A i \in 1..Len(old) : Append(old, sessions)[i] = old[i]
          /\ Append(old, sessions)[Len(old) + 1] = sessions
      BY <2>1, <3>2, AppendProperties, LenProperties
    <3> HIDE DEF old
    <3>5. sessions = t + Ahead(q) + Len(Append(old, sessions)) + 0
      <4> DEFINE m == Len(old)
                 n == Len(Append(old, sessions))
                 a == Ahead(q)
      <4>1. m \in Nat /\ n = m + 1 /\ a \in Nat /\ t \in Nat
        BY <1>1, <2>1, <3>4
      <4>2. sessions = t + a + m + 1
        BY <3>3
      <4> HIDE DEF m, n, a
      <4>3. sessions = t + a + n + 0
        BY <4>1, <4>2
      <4> QED
        BY <4>3 DEF n, a
    <3>6. ASSUME NEW i \in 1..Len(Append(old, sessions))
          PROVE  Append(old, sessions)[i] = t + Ahead(q) + i
      <4>1. i \in 1..Len(old) \/ i = Len(old) + 1
        BY <3>4
      <4>2. sessions = t + Ahead(q) + (Len(old) + 1)
        BY <2>1, <3>3, <3>4
      <4> QED
        BY <3>3, <3>4, <4>1, <4>2
    <3> QED
      BY <1>4, <2>1, <3>1, <3>2, <3>5, <3>6 DEF Given
  <2> QED
    BY <2>2, <2>3
<1> QED
  BY <1>3, <1>4, <1>5, <1>6 DEF NoFault, serverVars

\* doConnect goes on to the next channel, or is through.
LEMMA ConnectChannelOnce == IInv /\ NoFault /\ (\E d \in dials : ConnectChannel(d)) => NoFault'
<1> SUFFICES ASSUME IInv, NoFault, NEW d \in dials, ConnectChannel(d) PROVE NoFault'
  OBVIOUS
<1>1. PICK t \in Nat : Round(t) /\ \A q \in Priorities : Given(t, q)
  BY DEF NoFault
<1>2. /\ d \in Dials /\ d.chan \in Priorities /\ d.session = sessions /\ dials = {d}
      /\ d.op = "done" /\ UNCHANGED <<serverVars, discovered, sessions, backlog>>
      /\ \A p \in Priorities : cchan[p] # 0 <=> p < d.chan
  BY DEF IInv, Typed, ClientTyped, ClientInv, Dials, NoFault, ConnectChannel
<1>3. Round(t)'
  BY <1>1, <1>2 DEF Round, serverVars
<1>4. (\A q \in Priorities : Lag(q)' = Lag(q)) => \A q \in Priorities : Given(t, q)'
  BY <1>1, <1>2 DEF Given, Ahead, serverVars
<1>5. CASE d.chan = 3
  <2>1. dials' = {}
    BY <1>2, <1>5 DEF ConnectChannel
  <2>2. \A q \in Priorities : Lag(q) = 0 /\ Lag(q)' = 0
    BY <1>2, <1>5, <2>1, LagAhead DEF Lag, Priorities
  <2> QED
    BY <1>2, <1>3, <1>4, <2>1, <2>2 DEF NoFault, serverVars
<1>6. CASE d.chan < 3
  <2> DEFINE moved == [d EXCEPT !.chan = d.chan + 1, !.op = "trying"]
  <2>1. cchan[d.chan + 1] = 0
    BY <1>2, <1>6 DEF Priorities
  <2>2. dials' = {moved}
    BY <1>2, <1>6, <2>1 DEF ConnectChannel
  <2>3. moved.chan = d.chan + 1 /\ moved.op = "trying" /\ moved.session = sessions
    BY <1>2 DEF Dials
  <2>4. \A q \in Priorities : Lag(q)' = Lag(q)
    BY <1>2, <2>2, <2>3, LagAhead DEF Lag, Priorities
  <2> QED
    BY <1>2, <1>3, <1>4, <2>2, <2>3, <2>4 DEF NoFault, serverVars
<1> QED
  BY <1>2, <1>5, <1>6 DEF Priorities

LEMMA NextNoFault == Timely /\ ~faulty /\ IInv /\ NoFault /\ [Next]_vars => NoFault'
<1> SUFFICES ASSUME Timely, ~faulty, IInv, NoFault, [Next]_vars PROVE NoFault'
  OBVIOUS
<1>1. CASE Accept
  BY <1>1, AcceptOnce
<1>2. CASE AcceptChannel
  BY <1>2, AcceptChannelOnce
<1>3. CASE Listen \/ ServerReadFails
  BY <1>3, DoAcceptOnce
<1>4. CASE AcceptError \/ AcceptFails \/ ListenFails \/ ServerStop
  BY <1>4 DEF AcceptError, AcceptFails, ListenFails, ServerStop, NoFault
<1>5. CASE HandleDiscoveryMessage
  <2>1. /\ client # "connected" /\ dials = {} /\ cchan = Closed /\ listening = 3
        /\ UNCHANGED <<serverVars, backlog>>
    BY <1>5 DEF HandleDiscoveryMessage, IInv, ClientInv, network
  <2>2. sessions' = sessions + 1 /\ dials' = {[session |-> sessions', chan |-> 1, op |-> "trying"]}
    BY <1>5, <2>1 DEF HandleDiscoveryMessage, DoConnect, Closed, Priorities
  <2> QED
    BY <2>1, <2>2, DialOnce
<1>6. CASE ClientReadFails
  <2>1. /\ dials = {} /\ listening = 3 /\ UNCHANGED <<serverVars, backlog>>
    BY <1>6 DEF ClientReadFails, IInv, ClientInv, NoFault
  <2>2. /\ sessions' = sessions + 1
        /\ dials' = {[session |-> sessions', chan |-> 1, op |-> "trying"]}
    BY <1>6, <2>1 DEF ClientReadFails, DoConnect, Closed, Priorities
  <2> QED
    BY <2>1, <2>2, DialOnce DEF ClientReadFails
<1>7. ASSUME NEW d \in dials, Refused(d) \/ ConnectError(d) PROVE FALSE
  <2>1. d.chan \in Priorities /\ discovered /\ d.op # "failed" /\ listening = 3
    BY DEF IInv, Typed, ClientTyped, ClientInv, Dials, NoFault
  <2>2. listening < d.chan
    BY <1>7, <2>1 DEF Refused, ConnectError
  <2> QED
    BY <2>1, <2>2 DEF Priorities
<1>8. CASE \E d \in dials : Connects(d)
  BY <1>8, ConnectsOnce
<1>9. CASE \E d \in dials : ConnectChannel(d)
  BY <1>9, ConnectChannelOnce
<1>10. CASE ServerStart
  <2>1. /\ UNCHANGED <<server, listening, accepting, completed, schan, clientVars, backlog>>
    BY <1>10 DEF ServerStart, network
  <2>2. PICK t \in Nat : Round(t) /\ \A q \in Priorities : Given(t, q)
    BY DEF NoFault
  <2>3. Round(t)' /\ \A q \in Priorities : Given(t, q)'
    BY <2>1, <2>2 DEF Round, Given, Ahead, Lag, clientVars
  <2> QED
    BY <2>1, <2>3 DEF NoFault, clientVars
<1>11. CASE ClientStart \/ ClientStop \/ Breaks \/ UNCHANGED vars
  BY <1>11, NoFaultKept DEF ClientStart, ClientStop, Breaks, vars, clientVars, network
<1> QED
  BY <1>1, <1>2, <1>3, <1>4, <1>5, <1>6, <1>7, <1>8, <1>9, <1>10, <1>11
     DEF Next, Handlers, Net, Faults

\* The server never joins channels of two sessions of the client, however often
\* connections break and the client stops and starts again between them.
THEOREM SpecOneSession == Timely => (Spec => []OneSession)
<1> SUFFICES ASSUME Timely PROVE Spec => []OneSession
  OBVIOUS
<1>1. Init => (~faulty => NoFault)
  <2> SUFFICES ASSUME Init PROVE NoFault
    OBVIOUS
  <2>1. Round(0)
    BY DEF Init, Round, Pending, Priorities
  <2>2. ASSUME NEW q \in Priorities PROVE Given(0, q)
    <3>1. backlog[q] = <<>> /\ Ahead(q) = 0 /\ Lag(q) = 0 /\ sessions = 0
      BY DEF Init, Ahead, Lag, Pending, Priorities
    <3>2. Len(backlog[q]) = 0
      BY <3>1, EmptySeq
    <3> QED
      BY <3>1, <3>2 DEF Given
  <2> QED
    BY <2>1, <2>2, RemoteControlAssumption DEF Init, NoFault, Pending, Aborted
<1>2. IInv /\ (~faulty => NoFault) /\ [Next]_vars => (~faulty => NoFault)'
  <2>1. [Next]_vars => faulty' = faulty
    BY DEF Next, vars, Handlers, Net, Faults, Listen, AcceptChannel, AcceptError, ServerReadFails,
       HandleDiscoveryMessage, ClientReadFails, ConnectChannel, ConnectError, Accept, Connects,
       Refused, Breaks, AcceptFails, ListenFails, ServerStart, ServerStop, ClientStart, ClientStop
  <2> QED
    BY <2>1, NextNoFault
<1>3. (~faulty => NoFault) => OneSession
  BY DEF NoFault, Round, OneSession
<1> QED
  BY <1>1, <1>2, <1>3, SpecIInv, PTL DEF Spec
=============================================================================
