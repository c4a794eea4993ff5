----------------------------- MODULE Traversal ------------------------------
(***************************************************************************)
(* traverse_region of the arbitrary_nodes benchmarks: a random walk over   *)
(* the nodes of one region that erases every arc it follows, started at    *)
(* the bridge node of a region whose nodes fully_connect has joined.  The  *)
(* walk runs inside a behaviour that owns the region's cown, so nothing    *)
(* else touches the graph between two of its steps.                        *)
(***************************************************************************)
EXTENDS RegionHeap, Integers

CONSTANTS
    Node,     \* the nodes of the region, the bridge among them
    Bridge,   \* GraphRegion::bridge, where the walk starts
    NoNode    \* nullptr

ASSUME NodeAssumption == IsFiniteSet(Node) /\ Bridge \in Node /\ NoNode \notin Node

VARIABLES
    neighbours,   \* Node::neighbours, the outgoing arcs of each node
    cur           \* the local variable of traverse_region

vars == <<neighbours, cur>>

-----------------------------------------------------------------------------
\* Mutant: the inner loop misses the first node of the vector, the bridge.
FullyConnectedMissesFirst == [u \in Node |-> Node \ {u, Bridge}]

\* Every node gets an arc to every other node and none to itself.
FullyConnected == [u \in Node |-> Node \ {u}]

\* The loop condition of traverse_region.
CanMove == cur # NoNode /\ neighbours[cur] # {}

\* Mutant: find without erase.
RemoveArcForgetsErase(src, dst) == neighbours

\* removeArc: erases the arc when there is one.
RemoveArc(src, dst) == [neighbours EXCEPT ![src] = @ \ {dst}]

\* traverse: the node walked to, or nullptr when removeArc found no arc.
Traverse(src, dst) == IF dst \in neighbours[src] THEN dst ELSE NoNode

\* One iteration of the loop; random_element may pick any neighbour.
Step ==
    /\ CanMove
    /\ \E dst \in neighbours[cur] :
          /\ cur' = Traverse(cur, dst)
          /\ neighbours' = RemoveArc(cur, dst)

Init ==
    /\ neighbours = FullyConnected
    /\ cur = Bridge

Next == Step

Spec == Init /\ [][Next]_vars

\* The loop is a single thread's: once started it takes every step it can.
FairSpec == Spec /\ WF_vars(Next)

-----------------------------------------------------------------------------
TypeOK ==
    /\ neighbours \in [Node -> SUBSET Node]
    /\ \A n \in Node : n \notin neighbours[n]
    /\ cur \in Node \cup {NoNode}

Done == ~CanMove

OutArcs(n) == Cardinality(neighbours[n])
ArcsInto(n) == {u \in Node : n \in neighbours[u]}
InArcs(n) == Cardinality(ArcsInto(n))

\* The degree surplus the walk leaves at a node: the end of the walk has one
\* arc out too many, its start one too few, and they cancel out when the walk
\* stands on the node it started from.
Surplus(n) == (IF n = cur THEN 1 ELSE 0) - (IF n = Bridge THEN 1 ELSE 0)

\* At every step of the walk each node has as many arcs out as in, except for
\* the surplus: erasing the arc just followed (removeArc) keeps the graph
\* Eulerian from the walk's current node back to the bridge.
Balanced ==
    /\ cur # NoNode
    /\ \A n \in Node : OutArcs(n) - InArcs(n) = Surplus(n)

\* When the loop of traverse_region ends, it ends at the bridge, whatever the
\* number of nodes and whatever arcs random_element chose (the comment of
\* fully_connect says so only for an even number of nodes).
ReturnsToBridge == Done => cur = Bridge

\* When the loop ends every node but the bridge is garbage: a trace from the
\* bridge finds the bridge alone, although other nodes may still have arcs.
RestIsGarbage == Done => Reachable(Node, neighbours, Bridge) = {Bridge}

\* The walk ends.
Terminates == <>Done

=============================================================================
