---------------------------- MODULE ControlSystem ----------------------------
(***************************************************************************)
(* control::System on base::Graph: blocks, joined by connections of their  *)
(* signals, are kept in a topological order.  start() prepares them in     *)
(* that order; update() visits the blocks somebody asked for, and walks on *)
(* from each and from those that read its signals.  No block suspends, so  *)
(* an update is one handler of the run loop: requests, start() and stop()  *)
(* come between two of them.                                               *)
(***************************************************************************)
EXTENDS Naturals, Sequences, FiniteSets

CONSTANT Blocks  \* the blocks there are

VARIABLES
  order,     \* m_NodesVisitOrder; m_Order of a block is its position
  wires,     \* pairs of blocks with a connection from the first to the second
  service,   \* state of m_SM: "idle", "started" or "updating"; while doStart visits the
             \* blocks of an idle system "starting", and on its way back "undoing"
  pos,       \* where doStart is in the order, 0 when it is not under way
  prepared,  \* blocks whose prepare() was the last to succeed, not their unprepare()
  requests,  \* m_BlockUpdateRequests
  asked,     \* positions of the blocks the last update was asked for
  todo,      \* those of them visit has not come to
  heads,     \* readers of the one it is at, from which it has not walked
  at,        \* position of the walk, 0 when it ended
  updated,   \* positions of the blocks the last update updated, in that order
  result     \* how its visit ended: "none" while it has not

graphVars == <<order, wires>>
visitVars == <<asked, todo, heads, at, updated, result>>
restVars  == <<graphVars, requests, visitVars>>  \* what doStart leaves alone
vars == <<graphVars, service, pos, prepared, requests, visitVars>>

Positions == 1..Len(order)
InGraph   == {order[i] : i \in Positions}
Readers(i) == {j \in Positions : <<order[i], order[j]>> \in wires}
IsSink(i)  == Readers(i) = {}

TypeOK ==
  /\ order \in Seq(Blocks) /\ wires \subseteq Blocks \X Blocks
  /\ service \in {"idle", "starting", "undoing", "started", "updating"}
  /\ pos \in 0..Len(order) + 1
  /\ prepared \subseteq Blocks /\ requests \subseteq Blocks
  /\ asked \subseteq Positions /\ todo \subseteq Positions /\ heads \subseteq Positions
  /\ at \in 0..Len(order) /\ updated \in Seq(Positions)
  /\ result \in {"none", "ok", "failed"}

Init ==
  /\ order = <<>> /\ wires = {} /\ service = "idle" /\ pos = 0
  /\ prepared = {} /\ requests = {}
  /\ asked = {} /\ todo = {} /\ heads = {} /\ at = 0 /\ updated = <<>>
  /\ result = "none"

-----------------------------------------------------------------------------
(***************************************************************************)
(* The graph.  The applications build it before they first start the       *)
(* system, and connect no cycle.                                           *)
(***************************************************************************)
\* Every result topological_sort may have.
Sorted(n, nodes, edges) ==
  {s \in [1..n -> nodes] : \A i, j \in 1..n :
     /\ i # j => s[i] # s[j]
     /\ <<s[i], s[j]>> \in edges => i < j}

Building == service = "idle" /\ prepared = {}

AddBlock(b) ==
  /\ Building /\ b \notin InGraph
  /\ order' \in Sorted(Len(order) + 1, InGraph \cup {b}, wires)
  /\ UNCHANGED <<wires, service, pos, prepared, requests, visitVars>>

Connect(a, b) ==
  /\ Building /\ {a, b} \subseteq InGraph /\ <<a, b>> \notin wires
  /\ wires' = wires \cup {<<a, b>>}
  /\ order' \in Sorted(Len(order), InGraph, wires')
  /\ UNCHANGED <<service, pos, prepared, requests, visitVars>>

(***************************************************************************)
(* start, stop and requests                                                *)
(***************************************************************************)
Starting == service = "starting"
Undoing  == service = "undoing"

\* doStart, a handler: from Start to Started or Refused only its own steps are taken.
Start ==
  /\ service = "idle" /\ service' = "starting" /\ pos' = 1
  /\ UNCHANGED <<restVars, prepared>>

PrepareBlock ==
  /\ Starting /\ pos <= Len(order)
  /\ prepared' = prepared \cup {order[pos]} /\ pos' = pos + 1
  /\ UNCHANGED <<restVars, service>>

Started ==
  /\ Starting /\ pos > Len(order)
  /\ service' = "started" /\ pos' = 0
  /\ UNCHANGED <<restVars, prepared>>

\* A block without its inputs refuses; one that was started before has them.
BlockRefuses ==
  /\ Starting /\ pos <= Len(order) /\ order[pos] \notin prepared
  /\ service' = "undoing"
  /\ UNCHANGED <<restVars, pos, prepared>>

\* Back through the blocks before it.
UnprepareBlock ==
  /\ Undoing /\ pos > 1
  /\ prepared' = prepared \ {order[pos - 1]} /\ pos' = pos - 1
  /\ UNCHANGED <<restVars, service>>

\* Mutant: "while(--n)", which does not come to the first block.
RefusedEarly ==
  /\ Undoing /\ pos <= 2
  /\ service' = "idle" /\ pos' = 0
  /\ UNCHANGED <<restVars, prepared>>

Refused ==
  /\ Undoing /\ pos = 1
  /\ service' = "idle" /\ pos' = 0
  /\ UNCHANGED <<restVars, prepared>>

\* doStop leaves the blocks prepared and the requests where they are.
Stop ==
  /\ service = "started" /\ service' = "idle"
  /\ UNCHANGED <<restVars, pos, prepared>>

RequestUpdate(b) ==
  /\ service \in {"idle", "started"} /\ b \in InGraph
  /\ requests' = requests \cup {b}
  /\ UNCHANGED <<graphVars, service, pos, prepared, visitVars>>

(***************************************************************************)
(* update                                                                  *)
(***************************************************************************)
Update ==
  /\ service = "started"
  /\ service' = "updating"
  /\ asked' = {i \in Positions : order[i] \in requests}
  /\ todo' = asked' /\ heads' = {} /\ at' = 0 /\ updated' = <<>> /\ result' = "none"
  /\ requests' = {}
  /\ UNCHANGED <<graphVars, pos, prepared>>

Visiting == service = "updating"

\* Mutants: its readers are not walked from; the next is any that was asked for.
SkipReaders(i) ==
  /\ Visiting /\ at = 0 /\ heads = {} /\ i \in todo
  /\ \A j \in todo : i <= j
  /\ todo' = todo \ {i} /\ at' = i
  /\ UNCHANGED <<graphVars, service, pos, prepared, requests, asked, heads, updated, result>>
AnyRequested(i) ==
  /\ Visiting /\ at = 0 /\ heads = {} /\ i \in todo
  /\ todo' = todo \ {i} /\ at' = i /\ heads' = Readers(i)
  /\ UNCHANGED <<graphVars, service, pos, prepared, requests, asked, updated, result>>

\* The first of those asked for; the walk starts from it.
NextRequested(i) ==
  /\ Visiting /\ at = 0 /\ heads = {} /\ i \in todo
  /\ \A j \in todo : i <= j
  /\ todo' = todo \ {i} /\ at' = i /\ heads' = Readers(i)
  /\ UNCHANGED <<graphVars, service, pos, prepared, requests, asked, updated, result>>

\* It starts again from a reader; their order is that of the connections, any.
NextReader(i) ==
  /\ Visiting /\ at = 0 /\ i \in heads
  /\ heads' = heads \ {i} /\ at' = i
  /\ UNCHANGED <<graphVars, service, pos, prepared, requests, asked, todo, updated, result>>

Done == {updated[k] : k \in 1..Len(updated)}

Meets ==
  /\ Visiting /\ at \in Done
  /\ at' = 0
  /\ UNCHANGED <<graphVars, service, pos, prepared, requests, asked, todo, heads, updated, result>>

\* The inputs are assigned, the block is updated, and the walk goes on to the
\* next of the order unless nobody reads this one.
UpdateBlock ==
  /\ Visiting /\ at # 0 /\ at \notin Done
  /\ updated' = Append(updated, at)
  /\ at' = IF IsSink(at) \/ at = Len(order) THEN 0 ELSE at + 1
  /\ UNCHANGED <<graphVars, service, pos, prepared, requests, asked, todo, heads, result>>

\* Requests are cleared a second time and the error is not passed on.
Finish(how) ==
  /\ service' = "started" /\ result' = how
  /\ requests' = {} /\ todo' = {} /\ heads' = {} /\ at' = 0
  /\ UNCHANGED <<graphVars, pos, prepared, asked, updated>>

BlockFails == Visiting /\ at # 0 /\ at \notin Done /\ Finish("failed")
UpdateEnds == Visiting /\ at = 0 /\ heads = {} /\ todo = {} /\ Finish("ok")

Next ==
  \/ \E b \in Blocks : AddBlock(b) \/ RequestUpdate(b)
  \/ \E a, b \in Blocks : Connect(a, b)
  \/ Start \/ PrepareBlock \/ Started \/ BlockRefuses \/ UnprepareBlock \/ Refused \/ Stop
  \/ Update \/ Meets \/ UpdateBlock \/ BlockFails \/ UpdateEnds
  \/ \E i \in Positions : NextRequested(i) \/ NextReader(i)

Spec == Init /\ [][Next]_vars

-----------------------------------------------------------------------------
(***************************************************************************)
(* Properties                                                              *)
(***************************************************************************)
\* Whichever block refuses, and at whichever of several starts, a start that has
\* ended leaves all blocks prepared or none; and a system that runs has all.
AllOrNone ==
  /\ service = "idle" => prepared \in {{}, InGraph}
  /\ service \in {"started", "updating"} => prepared = InGraph

\* An update that meets no error has updated each block that was asked for and
\* each that reads its signals once, in any graph.
RequestedOnce ==
  result = "ok" => \A i \in asked : \A j \in {i} \cup Readers(i) :
    Cardinality({k \in 1..Len(updated) : updated[k] = j}) = 1

\* One block at most, in the applications the motors', is read by nobody.
OneSink == \A i, j \in Positions : IsSink(i) /\ IsSink(j) => i = j

\* In a graph like this, whoever reads from a block that was updated is updated
\* after it, and so on to the motors: nothing is computed from a signal that the
\* same update changes later.
ReadersFollow ==
  OneSink /\ result = "ok" =>
    \A k \in 1..Len(updated) : \A j \in Readers(updated[k]) :
      \E l \in k+1..Len(updated) : updated[l] = j /\ \A m \in 1..k : updated[m] # j
=============================================================================
