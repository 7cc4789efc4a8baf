------------------------- MODULE ControlSystemProofs -------------------------
(***************************************************************************)
(* For any blocks: types; all blocks are prepared or none; an update       *)
(* reaches what was asked for and its readers once; and, in a graph with   *)
(* one sink, it goes from writers to readers.                              *)
(***************************************************************************)
EXTENDS ControlSystem, TLAPS, FiniteSetTheorems

\* The order is one of the connections, without a block twice.
GraphInv ==
  \A i, j \in Positions :
    /\ i # j => order[i] # order[j]
    /\ <<order[i], order[j]>> \in wires => i < j

Upto(n) == {order[i] : i \in 1..n}

\* doStart on its way has prepared the blocks it has passed, or all were; on its
\* way back the one that refused is not prepared, and those before it are.
StartInv ==
  /\ Starting => pos # 0 /\ prepared \in {Upto(pos - 1), InGraph}
  /\ Undoing => pos \in Positions /\ order[pos] \notin prepared /\ prepared = Upto(pos - 1)

\* Before all blocks were prepared there was nothing to visit.
RestInv ==
  /\ AllOrNone /\ StartInv
  /\ prepared # InGraph \/ prepared = {} =>
       asked = {} /\ todo = {} /\ heads = {} /\ at = 0 /\ updated = <<>>
  /\ ~Visiting => todo = {} /\ heads = {} /\ at = 0
  /\ Visiting => result = "none"

NoneTwice == \A k, l \in 1..Len(updated) : k # l => updated[k] # updated[l]

\* What visit has come to is updated, or is next, or its readers are.
Reached ==
  result # "failed" => \A i \in asked \ todo :
    /\ i \in Done \cup {at}
    /\ Readers(i) \subseteq Done \cup {at} \cup heads

\* In a graph with one sink the blocks updated are those after f, one after the
\* other: the first walk goes to the end of the order, the others find it done.
Walk(f) ==
  /\ f + Len(updated) <= Len(order)
  /\ \A k \in 1..Len(updated) : updated[k] = f + k
  /\ \A i \in todo \cup heads : i > f
  /\ at # 0 => f < at /\ (at = f + Len(updated) + 1 \/ f + Len(updated) = Len(order))
  /\ at = 0 => (updated = <<>> /\ heads = {}) \/ f + Len(updated) = Len(order)

WalkInv == OneSink /\ result # "failed" => \E f \in Nat : Walk(f)

IInv == TypeOK /\ GraphInv /\ RestInv /\ NoneTwice /\ Reached /\ WalkInv

-----------------------------------------------------------------------------
LEMMA InitIInv == Init => IInv
<1> SUFFICES ASSUME Init PROVE IInv
  OBVIOUS
<1>1. TypeOK /\ GraphInv /\ RestInv /\ NoneTwice /\ Reached
  BY DEF Init, TypeOK, GraphInv, RestInv, AllOrNone, StartInv, Starting, Undoing,
         InGraph, Visiting, NoneTwice, Reached,
         Positions
<1>2. Walk(0)
  BY DEF Init, Walk
<1> QED BY <1>1, <1>2 DEF IInv, WalkInv

\* What a sorted order is.
LEMMA SortedFacts ==
  ASSUME NEW n \in Nat, NEW nodes, nodes \subseteq Blocks, NEW edges,
         NEW s \in Sorted(n, nodes, edges)
  PROVE  /\ s \in Seq(Blocks) /\ Len(s) = n
         /\ \A i, j \in 1..n : (i # j => s[i] # s[j]) /\ (<<s[i], s[j]>> \in edges => i < j)
<1>1. s \in [1..n -> Blocks]
  BY DEF Sorted
<1> QED BY <1>1 DEF Sorted

\* While the graph is built no visit was under way.
LEMMA BuildIInv ==
  ASSUME IInv, Building, NEW n \in Nat, NEW nodes, nodes \subseteq Blocks,
         order' \in Sorted(n, nodes, wires'), wires' \subseteq Blocks \X Blocks,
         UNCHANGED <<service, pos, prepared, requests, visitVars>>,
         Len(order) <= n
  PROVE  IInv'
<1>1. /\ order' \in Seq(Blocks) /\ Len(order') = n
      /\ \A i, j \in 1..n : (i # j => order'[i] # order'[j])
                            /\ (<<order'[i], order'[j]>> \in wires' => i < j)
  BY SortedFacts
<1>2. /\ prepared = {} /\ service = "idle"
      /\ asked = {} /\ todo = {} /\ heads = {} /\ at = 0 /\ updated = <<>>
  BY DEF IInv, RestInv, Building
<1>3. TypeOK'
  BY <1>1, <1>2 DEF IInv, TypeOK, visitVars, Positions
<1>4. GraphInv'
  BY <1>1 DEF GraphInv, Positions
<1>5. RestInv' /\ NoneTwice' /\ Reached'
  BY <1>2 DEF IInv, RestInv, AllOrNone, StartInv, Starting, Undoing, Visiting,
                NoneTwice, Reached, visitVars
<1>6. Walk(0)'
  BY <1>1, <1>2 DEF Walk, visitVars
<1> QED BY <1>3, <1>4, <1>5, <1>6 DEF IInv, WalkInv

\* Requests, start and stop leave the graph and the visit as they were.
LEMMA QuietIInv ==
  ASSUME IInv, UNCHANGED <<graphVars, visitVars>>, ~Visiting, ~Visiting',
         service' \in {"idle", "starting", "undoing", "started"}, pos' \in 0..Len(order) + 1,
         requests' \subseteq Blocks, prepared' \subseteq Blocks,
         AllOrNone', StartInv',
         prepared' # InGraph \/ prepared' = {} => prepared # InGraph \/ prepared = {}
  PROVE  IInv'
<1>1. TypeOK'
  BY DEF IInv, TypeOK, graphVars, visitVars, Positions
<1>2. GraphInv' /\ NoneTwice' /\ Reached'
  BY DEF IInv, GraphInv, NoneTwice, Reached, graphVars, visitVars, Positions, Readers, Done
<1>3. RestInv'
  <2>1. InGraph' = InGraph
    BY DEF InGraph, Positions, graphVars
  <2> QED BY <2>1 DEF IInv, RestInv, visitVars
<1>4. WalkInv'
  <2>1. OneSink' = OneSink
    BY DEF OneSink, IsSink, Readers, Positions, graphVars
  <2>2. ASSUME NEW f \in Nat PROVE Walk(f)' = Walk(f)
    BY DEF Walk, graphVars, visitVars
  <2> QED BY <2>1, <2>2 DEF IInv, WalkInv, visitVars
<1> QED BY <1>1, <1>2, <1>3, <1>4 DEF IInv

\* The visit of doStart, at a block and past it.
LEMMA UptoFacts ==
  ASSUME TypeOK, GraphInv
  PROVE  /\ Upto(0) = {} /\ Upto(Len(order)) = InGraph
         /\ \A n \in Positions : /\ n - 1 \in 0..Len(order) - 1 /\ order[n] \in InGraph
                                /\ Upto(n - 1) \subseteq InGraph
                                /\ Upto(n) = Upto(n - 1) \cup {order[n]}
                                /\ Upto(n - 1) = Upto(n) \ {order[n]}
<1>1. Len(order) \in Nat
  BY DEF TypeOK
<1>2. Upto(0) = {} /\ Upto(Len(order)) = InGraph
  BY DEF Upto, InGraph, Positions
<1>3. ASSUME NEW n \in Positions
      PROVE  /\ n - 1 \in 0..Len(order) - 1 /\ order[n] \in InGraph
             /\ Upto(n - 1) \subseteq InGraph
             /\ Upto(n) = Upto(n - 1) \cup {order[n]}
             /\ Upto(n - 1) = Upto(n) \ {order[n]}
  <2>1. n \in 1..Len(order) /\ \A i \in 1..n : i = n \/ i \in 1..n - 1
    BY <1>1 DEF Positions
  <2>2. \A i \in 1..n - 1 : i \in 1..n /\ i \in Positions /\ i # n
    BY <1>1, <2>1 DEF Positions
  <2>3. \A i \in 1..n - 1 : order[i] # order[n]
    BY <2>2 DEF GraphInv
  <2>4. n \in 1..n
    BY <2>1
  <2>5. Upto(n) = Upto(n - 1) \cup {order[n]} /\ order[n] \notin Upto(n - 1)
    BY <2>1, <2>2, <2>3, <2>4 DEF Upto
  <2>6. Upto(n - 1) \subseteq InGraph
    BY <2>2 DEF Upto, InGraph
  <2> QED BY <1>1, <2>1, <2>5, <2>6 DEF InGraph
<1> QED BY <1>2, <1>3

LEMMA StartIInv ==
  ASSUME IInv, Start \/ PrepareBlock \/ Started \/ BlockRefuses \/ UnprepareBlock \/ Refused
  PROVE  IInv'
<1> USE DEF IInv
<1>1. /\ InGraph \subseteq Blocks /\ prepared \subseteq Blocks /\ requests \subseteq Blocks
      /\ Len(order) \in Nat /\ pos \in 0..Len(order) + 1
      /\ AllOrNone /\ StartInv
  BY DEF TypeOK, InGraph, Positions, RestInv
<1>2. UNCHANGED <<graphVars, visitVars>> /\ requests' = requests /\ ~Visiting /\ ~Visiting'
  BY DEF Start, PrepareBlock, Started, BlockRefuses, UnprepareBlock, Refused, restVars,
         Starting, Undoing, Visiting
<1>3. Positions' = Positions /\ InGraph' = InGraph /\ order' = order
      /\ \A n : Upto(n)' = Upto(n)
  BY <1>2 DEF Positions, InGraph, Upto, graphVars
<1>4. CASE Start
  <2>1. prepared' \in {Upto(0), InGraph}
    BY <1>1, <1>4, UptoFacts DEF Start, AllOrNone
  <2> QED BY <1>1, <1>2, <1>3, <1>4, <2>1, QuietIInv
          DEF Start, AllOrNone, StartInv, Starting, Undoing
<1>5. CASE PrepareBlock
  <2>1. pos \in Positions /\ pos + 1 \in 0..Len(order) + 1 /\ (pos + 1) - 1 = pos
        /\ service' = "starting" /\ prepared' = prepared \cup {order[pos]} /\ pos' = pos + 1
    BY <1>1, <1>5 DEF PrepareBlock, StartInv, Starting, Positions
  <2>2. prepared' \in {Upto(pos), InGraph}
    BY <1>1, <1>5, <2>1, UptoFacts DEF PrepareBlock, StartInv
  <2>3. prepared' \subseteq Blocks /\ (prepared = InGraph => prepared' = InGraph) /\ prepared' # {}
    BY <1>1, <2>1, UptoFacts
  <2>4. AllOrNone' /\ StartInv'
    BY <1>1, <1>3, <2>1, <2>2 DEF AllOrNone, StartInv, Starting, Undoing
  <2>5. prepared' # InGraph \/ prepared' = {} => prepared # InGraph \/ prepared = {}
    BY <2>3
  <2> QED BY <1>1, <1>2, <2>1, <2>3, <2>4, <2>5, QuietIInv
<1>6. CASE Started
  <2>1. pos - 1 = Len(order) /\ service' = "started" /\ pos' = 0 /\ prepared' = prepared
    BY <1>1, <1>6 DEF Started
  <2>2. prepared = InGraph
    BY <1>1, <1>6, <2>1, UptoFacts DEF Started, StartInv
  <2>3. AllOrNone' /\ StartInv'
    BY <1>3, <2>1, <2>2 DEF AllOrNone, StartInv, Starting, Undoing
  <2> QED BY <1>1, <1>2, <2>1, <2>3, QuietIInv
<1>7. CASE BlockRefuses
  <2>1. pos \in Positions /\ order[pos] \notin prepared /\ service' = "undoing"
        /\ pos' = pos /\ prepared' = prepared
    BY <1>1, <1>7 DEF BlockRefuses, StartInv, Starting, Positions
  <2>2. prepared = Upto(pos - 1)
    BY <1>1, <1>7, <2>1, UptoFacts DEF BlockRefuses, StartInv
  <2>3. AllOrNone' /\ StartInv'
    BY <1>3, <2>1, <2>2 DEF AllOrNone, StartInv, Starting, Undoing
  <2> QED BY <1>1, <1>2, <2>1, <2>3, QuietIInv
<1>8. CASE UnprepareBlock
  <2>0. /\ Undoing /\ pos > 1 /\ service' = service /\ pos' = pos - 1
        /\ prepared' = prepared \ {order[pos - 1]}
        /\ pos \in Positions /\ prepared = Upto(pos - 1) /\ order[pos] \notin prepared
    BY <1>1, <1>8 DEF UnprepareBlock, StartInv
  <2>1. pos - 1 \in Positions /\ service' = "undoing"
    BY <1>1, <2>0 DEF Positions, Undoing
  <2>2. prepared' = Upto((pos - 1) - 1) /\ prepared # InGraph
    BY <2>0, <2>1, UptoFacts
  <2>3. pos - 1 \in 0..Len(order) + 1
    BY <1>1, <2>1 DEF Positions
  <2>4. AllOrNone' /\ StartInv'
    BY <1>3, <2>0, <2>1, <2>2 DEF AllOrNone, StartInv, Starting, Undoing
  <2> QED BY <1>1, <1>2, <2>0, <2>1, <2>2, <2>3, <2>4, QuietIInv
<1>9. CASE Refused
  <2>1. service' = "idle" /\ pos' = 0 /\ prepared' = prepared /\ prepared = {}
    BY <1>1, <1>9, UptoFacts DEF Refused, StartInv
  <2>2. AllOrNone' /\ StartInv'
    BY <1>3, <2>1 DEF AllOrNone, StartInv, Starting, Undoing
  <2> QED BY <1>1, <1>2, <2>1, <2>2, QuietIInv
<1> QED BY <1>4, <1>5, <1>6, <1>7, <1>8, <1>9

LEMMA CallIInv ==
  ASSUME IInv, Stop \/ \E b \in Blocks : RequestUpdate(b)
  PROVE  IInv'
<1> USE DEF IInv
<1>1. /\ InGraph \subseteq Blocks /\ prepared \subseteq Blocks /\ requests \subseteq Blocks
      /\ pos \in 0..Len(order) + 1 /\ AllOrNone
  BY DEF TypeOK, InGraph, Positions, RestInv
<1>2. /\ UNCHANGED <<graphVars, visitVars, prepared, pos>> /\ requests' \subseteq Blocks
      /\ service \in {"idle", "started"} /\ service' \in {service, "idle"}
  BY <1>1 DEF Stop, RequestUpdate, restVars
<1>3. InGraph' = InGraph
  BY <1>2 DEF InGraph, Positions, graphVars
<1>4. AllOrNone' /\ StartInv' /\ ~Visiting /\ ~Visiting'
  BY <1>1, <1>2, <1>3 DEF AllOrNone, StartInv, Starting, Undoing, Visiting
<1> QED BY <1>1, <1>2, <1>4, QuietIInv

-----------------------------------------------------------------------------
\* The steps of an update that leave the graph alone keep what is said of it.
LEMMA GraphKept ==
  ASSUME UNCHANGED graphVars
  PROVE  /\ Positions' = Positions /\ InGraph' = InGraph /\ OneSink' = OneSink
         /\ GraphInv' = GraphInv /\ \A i \in Positions : Readers(i)' = Readers(i)
<1> QED BY DEF graphVars, Positions, InGraph, OneSink, IsSink, Readers, GraphInv

\* The last of the order has no reader, and a reader comes after what it reads.
LEMMA ReadersAfter ==
  ASSUME TypeOK, GraphInv, NEW i \in Positions
  PROVE  /\ Readers(i) \subseteq Positions /\ \A j \in Readers(i) : i < j
         /\ i = Len(order) => IsSink(i)
<1>1. Readers(i) \subseteq Positions /\ \A j \in Readers(i) : i < j
  BY DEF Readers, GraphInv
<1>2. i = Len(order) => Readers(i) = {}
  BY <1>1 DEF Positions, TypeOK
<1> QED BY <1>1, <1>2 DEF IsSink

LEMMA UpdateIInv ==
  ASSUME IInv, Update
  PROVE  IInv'
<1> USE DEF IInv
<1>1. /\ prepared = InGraph /\ UNCHANGED <<prepared, pos, graphVars>>
      /\ asked' \subseteq Positions /\ todo' = asked' /\ heads' = {} /\ at' = 0
      /\ updated' = <<>> /\ result' = "none" /\ service' = "updating" /\ requests' = {}
  BY DEF Update, RestInv, AllOrNone
<1>2. TypeOK'
  BY <1>1, GraphKept DEF TypeOK, graphVars
<1>3. prepared' # InGraph' \/ prepared' = {} => asked' = {}
  BY <1>1, GraphKept DEF InGraph
<1>4. RestInv'
  BY <1>1, <1>3, GraphKept DEF RestInv, AllOrNone, StartInv, Starting, Undoing, Visiting
<1>5. NoneTwice' /\ Reached' /\ GraphInv'
  BY <1>1, GraphKept DEF NoneTwice, Reached
<1>6. Walk(0)'
  BY <1>1 DEF Walk, graphVars, Positions, TypeOK
<1> QED BY <1>2, <1>4, <1>5, <1>6 DEF WalkInv

\* In a visit a step keeps RestInv when it keeps the state of the system.
LEMMA VisitRest ==
  ASSUME IInv, Visiting, at # 0 \/ todo \cup heads # {},
         UNCHANGED <<graphVars, service, pos, prepared, requests, asked, result>>
  PROVE  RestInv'
<1>1. prepared # {} /\ result = "none" /\ AllOrNone
  BY DEF IInv, RestInv
<1>2. AllOrNone' /\ StartInv' /\ Visiting'
  BY <1>1, GraphKept DEF AllOrNone, StartInv, Starting, Undoing, Visiting
<1> QED BY <1>1, <1>2, GraphKept DEF RestInv, IInv

LEMMA NextRequestedIInv ==
  ASSUME IInv, NEW i \in Positions, NextRequested(i)
  PROVE  IInv'
<1> USE DEF IInv
<1>1. /\ UNCHANGED <<graphVars, service, pos, prepared, requests, asked, updated, result>>
      /\ Visiting /\ at = 0 /\ heads = {} /\ i \in todo /\ \A j \in todo : i <= j
      /\ todo' = todo \ {i} /\ at' = i /\ heads' = Readers(i)
  BY DEF NextRequested
<1>2. /\ Readers(i) \subseteq Positions /\ \A j \in Readers(i) : i < j
      /\ i \in 1..Len(order) /\ Len(order) \in Nat /\ Len(updated) \in Nat
      /\ todo \subseteq 1..Len(order)
  BY ReadersAfter DEF Positions, TypeOK
<1>3. TypeOK'
  BY <1>1, <1>2, GraphKept DEF TypeOK, graphVars
<1>4. RestInv' /\ GraphInv' /\ NoneTwice'
  BY <1>1, VisitRest, GraphKept DEF NoneTwice
<1>5. Reached'
  <2>1. 0 \notin Positions /\ asked \subseteq Positions
    BY DEF Positions, TypeOK
  <2>2. ASSUME result # "failed", NEW k \in asked \ todo
        PROVE  k \in Done /\ Readers(k)' = Readers(k) /\ Readers(k) \subseteq Done
    BY <1>1, <2>1, <2>2, ReadersAfter, GraphKept DEF Reached
  <2>3. Readers(i)' = Readers(i)
    BY <1>1, GraphKept
  <2> QED BY <1>1, <2>2, <2>3 DEF Reached, Done
<1>6. ASSUME OneSink', result' # "failed" PROVE \E f \in Nat : Walk(f)'
  <2>1. PICK f \in Nat : Walk(f)
    BY <1>1, <1>6, GraphKept DEF WalkInv
  <2>2. CASE updated = <<>>
    <3>1. i - 1 \in Nat /\ Walk(i - 1)'
      BY <1>1, <1>2, <2>2 DEF Walk, graphVars, Positions
    <3> QED BY <3>1
  <2>3. CASE updated # <<>>
    <3>1. f + Len(updated) = Len(order) /\ i > f
      BY <1>1, <2>1, <2>3 DEF Walk
    <3>2. \A j \in todo' \cup heads' : j > f
      BY <1>1, <1>2, <2>1, <3>1 DEF Walk, Positions
    <3>3. Walk(f)'
      BY <1>1, <1>2, <2>1, <3>1, <3>2 DEF Walk, graphVars
    <3> QED BY <3>3
  <2> QED BY <2>2, <2>3
<1> QED BY <1>3, <1>4, <1>5, <1>6 DEF WalkInv

LEMMA NextReaderIInv ==
  ASSUME IInv, NEW i \in Positions, NextReader(i)
  PROVE  IInv'
<1> USE DEF IInv
<1>1. /\ UNCHANGED <<graphVars, service, pos, prepared, requests, asked, todo, updated, result>>
      /\ Visiting /\ at = 0 /\ i \in heads /\ heads' = heads \ {i} /\ at' = i
  BY DEF NextReader
<1>2. i \in 1..Len(order) /\ Len(order) \in Nat /\ Len(updated) \in Nat
  BY DEF Positions, TypeOK
<1>3. TypeOK'
  BY <1>1, <1>2, GraphKept DEF TypeOK, graphVars
<1>4. RestInv' /\ GraphInv' /\ NoneTwice'
  BY <1>1, VisitRest, GraphKept DEF NoneTwice
<1>5. Reached'
  <2>1. 0 \notin Positions /\ asked \subseteq Positions
    BY DEF Positions, TypeOK
  <2>2. ASSUME result # "failed", NEW k \in asked \ todo
        PROVE  /\ k \in Done /\ Readers(k)' = Readers(k)
               /\ Readers(k) \subseteq Done \cup heads
    BY <1>1, <2>1, <2>2, ReadersAfter, GraphKept DEF Reached
  <2> QED BY <1>1, <2>2 DEF Reached, Done
<1>6. ASSUME OneSink', result' # "failed" PROVE \E f \in Nat : Walk(f)'
  <2>1. PICK f \in Nat : Walk(f)
    BY <1>1, <1>6, GraphKept DEF WalkInv
  <2>2. Walk(f)'
    BY <1>1, <1>2, <2>1 DEF Walk, graphVars
  <2> QED BY <2>2
<1> QED BY <1>3, <1>4, <1>5, <1>6 DEF WalkInv

LEMMA MeetsIInv ==
  ASSUME IInv, Meets
  PROVE  IInv'
<1> USE DEF IInv
<1>1. /\ UNCHANGED <<graphVars, service, pos, prepared, requests>>
      /\ UNCHANGED <<asked, todo, heads, updated, result>>
      /\ Visiting /\ at \in Done /\ at' = 0
  BY DEF Meets
<1>2. PICK k \in 1..Len(updated) : updated[k] = at
  BY <1>1 DEF Done
<1>3. at # 0 /\ Len(order) \in Nat /\ Len(updated) \in Nat
  BY <1>2 DEF TypeOK, Positions
<1>4. TypeOK'
  BY <1>1, <1>3, GraphKept DEF TypeOK, graphVars
<1>5. RestInv' /\ GraphInv' /\ NoneTwice'
  BY <1>1, <1>3, VisitRest, GraphKept DEF NoneTwice
<1>6. Reached'
  <2>1. asked \subseteq Positions /\ Done' = Done
    BY <1>1 DEF TypeOK, Done
  <2> QED BY <1>1, <2>1, GraphKept DEF Reached
<1>7. ASSUME OneSink', result' # "failed" PROVE \E f \in Nat : Walk(f)'
  <2>1. PICK f \in Nat : Walk(f)
    BY <1>1, <1>7, GraphKept DEF WalkInv
  <2>2. f + Len(updated) = Len(order)
    BY <1>2, <1>3, <2>1 DEF Walk
  <2>3. Walk(f)'
    BY <1>1, <1>3, <2>1, <2>2 DEF Walk, graphVars
  <2> QED BY <2>3
<1> QED BY <1>4, <1>5, <1>6, <1>7 DEF WalkInv

LEMMA UpdateBlockIInv ==
  ASSUME IInv, UpdateBlock
  PROVE  IInv'
<1> USE DEF IInv
<1>1. /\ UNCHANGED <<graphVars, service, pos, prepared, requests, asked, todo, heads, result>>
      /\ Visiting /\ at # 0 /\ at \notin Done /\ updated' = Append(updated, at)
      /\ at' = IF IsSink(at) \/ at = Len(order) THEN 0 ELSE at + 1
  BY DEF UpdateBlock
<1>2. /\ at \in Positions /\ at \in 1..Len(order) /\ Len(order) \in Nat
      /\ updated \in Seq(Positions) /\ Len(updated) \in Nat
  BY <1>1 DEF TypeOK, Positions
<1>3. /\ updated' \in Seq(Positions) /\ Len(updated') = Len(updated) + 1
      /\ updated'[Len(updated) + 1] = at
      /\ \A k \in 1..Len(updated) : updated'[k] = updated[k]
  BY <1>1, <1>2
<1>4. Done' = Done \cup {at}
  BY <1>2, <1>3 DEF Done
<1>5. TypeOK'
  BY <1>1, <1>2, <1>3, GraphKept DEF TypeOK, graphVars
<1>6. RestInv' /\ GraphInv'
  BY <1>1, VisitRest, GraphKept
<1>7. NoneTwice'
  BY <1>1, <1>2, <1>3 DEF NoneTwice, Done
<1>8. Reached'
  <2>1. asked \subseteq Positions
    BY DEF TypeOK
  <2> QED BY <1>1, <1>4, <2>1, GraphKept DEF Reached
<1>9. ASSUME OneSink', result' # "failed" PROVE \E f \in Nat : Walk(f)'
  <2>1. PICK f \in Nat : Walk(f)
    BY <1>1, <1>9, GraphKept DEF WalkInv
  <2>2. at = f + Len(updated) + 1
    <3>1. SUFFICES ASSUME f + Len(updated) = Len(order) PROVE FALSE
      BY <1>1, <2>1 DEF Walk
    <3>2. at - f \in 1..Len(updated)
      BY <1>1, <1>2, <2>1, <3>1 DEF Walk
    <3>3. updated[at - f] = at
      BY <1>2, <2>1, <3>2 DEF Walk
    <3> QED BY <1>1, <3>2, <3>3 DEF Done
  <2>3. IsSink(at) => at = Len(order)
    <3>1. Len(order) \in Positions /\ IsSink(Len(order))
      BY <1>2, ReadersAfter DEF Positions
    <3> QED BY <1>1, <1>2, <1>9, <3>1, GraphKept DEF OneSink
  <2>4. f + Len(updated') <= Len(order') /\ \A k \in 1..Len(updated') : updated'[k] = f + k
    <3>1. \A k \in 1..Len(updated) : updated'[k] = f + k
      BY <1>3, <2>1 DEF Walk
    <3>2. order' = order /\ f + Len(updated') <= Len(order)
      BY <1>1, <1>2, <1>3, <2>2 DEF graphVars
    <3>3. ASSUME NEW k \in 1..Len(updated') PROVE updated'[k] = f + k
      <4>1. k \in 1..Len(updated) \/ k = Len(updated) + 1
        BY <1>2, <1>3
      <4> QED BY <1>3, <2>2, <3>1, <4>1
    <3> QED BY <3>2, <3>3
  <2>5. \A i \in (todo \cup heads)' : i > f
    BY <1>1, <2>1 DEF Walk
  <2>6. at' = 0 => f + Len(updated') = Len(order')
    BY <1>1, <1>2, <1>3, <2>2, <2>3 DEF graphVars
  <2>7. at' # 0 => f < at' /\ at' = f + Len(updated') + 1
    BY <1>1, <1>2, <1>3, <2>2
  <2>8. Walk(f)'
    BY <2>4, <2>5, <2>6, <2>7 DEF Walk
  <2> QED BY <2>8
<1> QED BY <1>5, <1>6, <1>7, <1>8, <1>9 DEF WalkInv

LEMMA FinishIInv ==
  ASSUME IInv, BlockFails \/ UpdateEnds
  PROVE  IInv'
<1> USE DEF IInv
<1>1. /\ UNCHANGED <<graphVars, pos, prepared, asked, updated>> /\ Visiting
      /\ service' = "started" /\ requests' = {} /\ todo' = {} /\ heads' = {} /\ at' = 0
      /\ result' = "failed" \/ (result' = "ok" /\ at = 0 /\ heads = {} /\ todo = {})
  BY DEF BlockFails, UpdateEnds, Finish
<1>2. TypeOK'
  BY <1>1, GraphKept DEF TypeOK, graphVars
<1>3. GraphInv' /\ NoneTwice' /\ RestInv'
  BY <1>1, GraphKept DEF NoneTwice, RestInv, AllOrNone, StartInv, Starting, Undoing, Visiting
<1>4. CASE result' = "failed"
  BY <1>2, <1>3, <1>4 DEF Reached, WalkInv
<1>5. CASE result' # "failed"
  <2>1. result # "failed"
    BY <1>1 DEF RestInv
  <2>2. asked \subseteq Positions /\ Done' = Done
    BY <1>1 DEF TypeOK, Done
  <2>3. Reached'
    BY <1>1, <1>5, <2>1, <2>2, GraphKept DEF Reached
  <2>4. ASSUME NEW f \in Nat, Walk(f) PROVE Walk(f)'
    BY <1>1, <1>5, <2>4 DEF Walk, graphVars
  <2>5. WalkInv'
    BY <1>1, <2>1, <2>4, GraphKept DEF WalkInv
  <2> QED BY <1>2, <1>3, <2>3, <2>5
<1> QED BY <1>4, <1>5

LEMMA NextIInv ==
  ASSUME IInv, [Next]_vars
  PROVE  IInv'
<1>0. order \in Seq(Blocks) /\ InGraph \subseteq Blocks /\ wires \subseteq Blocks \X Blocks
  BY DEF IInv, TypeOK, InGraph, Positions
<1>1. ASSUME NEW b \in Blocks, AddBlock(b) PROVE IInv'
  <2>1. Len(order) + 1 \in Nat /\ InGraph \cup {b} \subseteq Blocks
    BY <1>0
  <2> QED BY <1>0, <1>1, <2>1, BuildIInv DEF AddBlock
<1>2. ASSUME NEW a \in Blocks, NEW b \in Blocks, Connect(a, b) PROVE IInv'
  <2>1. Len(order) \in Nat /\ wires' \subseteq Blocks \X Blocks
    BY <1>0, <1>2 DEF Connect
  <2>2. Len(order) <= Len(order)
    BY <2>1
  <2> QED BY <1>0, <1>2, <2>1, <2>2, BuildIInv DEF Connect
<1>3. CASE UNCHANGED vars
  <2>0. UNCHANGED <<graphVars, visitVars, service, pos, prepared, requests>>
    BY <1>3 DEF vars
  <2>1. /\ TypeOK' /\ GraphInv' /\ RestInv' /\ NoneTwice'
    BY <2>0, GraphKept DEF IInv, graphVars, visitVars, TypeOK, RestInv, AllOrNone,
                           StartInv, Starting, Undoing, Upto, Visiting, NoneTwice
  <2>4. Reached'
    BY <2>0 DEF IInv, Reached, graphVars, visitVars, Positions, Readers, Done
  <2>2. OneSink' = OneSink
    BY <1>3 DEF OneSink, IsSink, Readers, Positions, graphVars, vars
  <2>3. ASSUME NEW f \in Nat PROVE Walk(f)' = Walk(f)
    BY <1>3 DEF Walk, graphVars, visitVars, vars
  <2> QED BY <2>0, <2>1, <2>4, <2>2, <2>3 DEF IInv, WalkInv, visitVars
<1> QED BY <1>1, <1>2, <1>3, CallIInv, StartIInv, UpdateIInv, NextRequestedIInv,
           NextReaderIInv, MeetsIInv, UpdateBlockIInv, FinishIInv DEF Next

LEMMA SpecIInv == Spec => []IInv
<1>1. Init => IInv
  BY InitIInv
<1>2. IInv /\ [Next]_vars => IInv'
  BY NextIInv
<1> QED BY <1>1, <1>2, PTL DEF Spec

-----------------------------------------------------------------------------
\* The variables have their types, whatever the graph.
THEOREM SpecTypeOK == Spec => []TypeOK
<1>1. IInv => TypeOK
  BY DEF IInv
<1> QED BY <1>1, SpecIInv, PTL

\* doStart: a failure at any block takes back all that were prepared.
THEOREM SpecAllOrNone == Spec => []AllOrNone
<1>1. IInv => AllOrNone
  BY DEF IInv, RestInv
<1> QED BY <1>1, SpecIInv, PTL

\* Graph::visit, in any graph: no block asked for, nor a reader of one, is left
\* out or updated twice.
THEOREM SpecRequestedOnce == Spec => []RequestedOnce
<1>1. IInv => RequestedOnce
  <2> SUFFICES ASSUME IInv, result = "ok", NEW i \in asked, NEW j \in {i} \cup Readers(i)
               PROVE  Cardinality({k \in 1..Len(updated) : updated[k] = j}) = 1
    BY DEF RequestedOnce
  <2>1. /\ at = 0 /\ heads = {} /\ todo = {} /\ i \in Positions /\ 0 \notin Positions
        /\ Readers(i) \subseteq Positions
    BY DEF IInv, RestInv, TypeOK, Positions, Readers
  <2>2. j \in Done
    BY <2>1 DEF IInv, Reached
  <2>3. PICK k \in 1..Len(updated) : updated[k] = j
    BY <2>2 DEF Done
  <2>4. {l \in 1..Len(updated) : updated[l] = j} = {k}
    BY <2>3 DEF IInv, NoneTwice
  <2> QED BY <2>4, FS_Singleton
<1> QED BY <1>1, SpecIInv, PTL

\* Graph::visit with one sink: the signals of an update flow from writers to
\* readers.
THEOREM SpecReadersFollow == Spec => []ReadersFollow
<1>1. IInv => ReadersFollow
  <2> SUFFICES ASSUME IInv, OneSink, result = "ok",
                      NEW k \in 1..Len(updated), NEW j \in Readers(updated[k])
               PROVE  \E l \in k+1..Len(updated) :
                        updated[l] = j /\ \A m \in 1..k : updated[m] # j
    BY DEF ReadersFollow
  <2>1. PICK f \in Nat : Walk(f)
    BY DEF IInv, WalkInv
  <2>2. /\ Len(updated) \in Nat /\ Len(order) \in Nat /\ updated # <<>>
        /\ updated[k] \in Positions /\ at = 0
    BY DEF IInv, TypeOK, RestInv
  <2>3. /\ f + Len(updated) = Len(order)
        /\ \A l \in 1..Len(updated) : updated[l] = f + l
    BY <2>1, <2>2 DEF Walk
  <2>4. j \in 1..Len(order) /\ f + k < j
    BY <2>2, <2>3, ReadersAfter DEF IInv, Positions
  <2>5. j - f \in k+1..Len(updated) /\ updated[j - f] = j
    BY <2>2, <2>3, <2>4
  <2>6. ASSUME NEW m \in 1..k PROVE updated[m] # j
    <3>1. m \in 1..Len(updated) /\ f + m <= f + k
      BY <2>2
    <3> QED BY <2>3, <2>4, <3>1
  <2> QED BY <2>5, <2>6
<1> QED BY <1>1, SpecIInv, PTL
=============================================================================
