-------------------------------- MODULE Churn --------------------------------
(***************************************************************************)
(* churn_region and region_collect on one region of the partially          *)
(* connected arbitrary_nodes benchmark.  A churn walks from the bridge,    *)
(* erasing the arcs it follows and keeping raw pointers to the nodes it    *)
(* met in a vector, the working set, that no trace of the region sees; it  *)
(* then allocates nodes and joins random pairs of the working set.  The    *)
(* behaviours of multi_churn run churns and collections of a region one    *)
(* after another (module Behaviours gives their order; here any order).    *)
(***************************************************************************)
EXTENDS RegionHeap, Sequences, SequencesExt

CONSTANTS
    Node,             \* the addresses the allocator hands out, and again after a free
    Bridge,           \* GraphRegion::bridge
    WorkingSetSize,   \* WORKING_SET_SIZE (20 in the code)
    NewNodes,         \* NEW_NODES (4 in the code)
    MaxRegionSize     \* bound: the largest region createGraph makes

ASSUME ChurnAssumption ==
    /\ IsFiniteSet(Node)
    /\ Bridge \in Node
    /\ WorkingSetSize \in Nat
    /\ NewNodes \in Nat
    /\ MaxRegionSize \in Nat \ {0}

VARIABLES
    live,          \* the allocated nodes of the region
    neighbours,    \* Node::neighbours; empty for an address not allocated
    stage,         \* "idle" between behaviours, "walk", "create", "link"
    cur,           \* the local variable of churn_region; Bridge when idle
    workingSet,    \* the local vector of churn_region; empty when idle
    count,         \* new_nodes, then the loop variable of the linking loop
    lost           \* the live nodes no trace found when last idle (history)

vars == <<live, neighbours, stage, cur, workingSet, count, lost>>

-----------------------------------------------------------------------------
\* The live nodes that a trace from the bridge does not find.
Garbage == live \ Reachable(Node, neighbours, Bridge)

InWorkingSet == ToSet(workingSet)

\* partially_connect: each arc between two nodes of the region with some
\* probability, so that every such graph may come out.
PartiallyConnected(nodes) ==
    {f \in [Node -> SUBSET nodes] :
        \A u \in Node : f[u] \subseteq (IF u \in nodes THEN nodes \ {u} ELSE {})}

\* createGraph: a region has at least its bridge (random_regions).
Init ==
    /\ live \in {S \in SUBSET Node : Bridge \in S /\ Cardinality(S) <= MaxRegionSize}
    /\ neighbours \in PartiallyConnected(live)
    /\ stage = "idle"
    /\ cur = Bridge
    /\ workingSet = <<>>
    /\ count = 0
    /\ lost = Garbage

-----------------------------------------------------------------------------
\* Mutant: the bridge is among the pointers from the start.
BeginChurnWithBridge ==
    /\ stage = "idle"
    /\ stage' = "walk"
    /\ workingSet' = <<Bridge>>
    /\ UNCHANGED <<live, neighbours, cur, count, lost>>

\* churn_region is called: the walk starts at the bridge, with no pointers.
BeginChurn ==
    /\ stage = "idle"
    /\ stage' = "walk"
    /\ UNCHANGED <<live, neighbours, cur, workingSet, count, lost>>

CanWalk == neighbours[cur] # {} /\ Len(workingSet) < WorkingSetSize

\* One iteration of the walk: dst is remembered and its arc erased (traverse).
Walk ==
    /\ stage = "walk"
    /\ CanWalk
    /\ \E dst \in neighbours[cur] :
          /\ workingSet' = Append(workingSet, dst)
          /\ neighbours' = [neighbours EXCEPT ![cur] = @ \ {dst}]
          /\ cur' = dst
    /\ UNCHANGED <<live, stage, count, lost>>

EndWalk ==
    /\ stage = "walk"
    /\ ~CanWalk
    /\ stage' = "create"
    /\ count' = 0
    /\ UNCHANGED <<live, neighbours, cur, workingSet, lost>>

CanCreate == Len(workingSet) < WorkingSetSize /\ count < NewNodes

\* new Node(), at any address that is not in use: one that was collected
\* earlier too.  Bound: the addresses may run out, and the churn then stops.
Create ==
    /\ stage = "create"
    /\ CanCreate
    /\ \E n \in Node \ live :
          /\ live' = live \cup {n}
          /\ workingSet' = Append(workingSet, n)
    /\ count' = count + 1
    /\ UNCHANGED <<neighbours, stage, cur, lost>>

\* churn_region returns and its local variables go.
Return ==
    /\ stage' = "idle"
    /\ cur' = Bridge
    /\ workingSet' = <<>>
    /\ lost' = Garbage

\* Two or fewer pointers are not linked.
EndCreate ==
    /\ stage = "create"
    /\ ~CanCreate
    /\ IF Len(workingSet) > 2
       THEN stage' = "link" /\ UNCHANGED <<cur, workingSet, lost>>
       ELSE Return
    /\ count' = 0
    /\ UNCHANGED <<live, neighbours>>

\* Mutant: the pair is drawn from all the nodes of the region.
PairsFromRegion == {<<n, m>> : n \in live, m \in live}

\* random_pair: two different positions of the working set, which may hold
\* the same node.  The second is drawn until it is another than the first.
Pairs ==
    LET position == 1..Len(workingSet)
    IN  {<<workingSet[p[1]], workingSet[p[2]]>> :
            p \in {q \in position \X position : q[1] # q[2]}}

\* One iteration of the linking loop, which runs WORKING_SET_SIZE times
\* however small the working set is (addArc).
Link ==
    /\ stage = "link"
    /\ count < WorkingSetSize
    /\ \E p \in Pairs :
          neighbours' = [neighbours EXCEPT ![p[1]] = @ \cup {p[2]}]
    /\ count' = count + 1
    /\ UNCHANGED <<live, stage, cur, workingSet, lost>>

EndLink ==
    /\ stage = "link"
    /\ count = WorkingSetSize
    /\ Return
    /\ count' = 0
    /\ UNCHANGED <<live, neighbours>>

\* Mutant: only the nodes the bridge points to directly are kept.
KeptShallow == {Bridge} \cup neighbours[Bridge]

\* What region_collect of a trace region keeps.
Kept == Reachable(Node, neighbours, Bridge)

\* The behaviour that calls region_collect.
Collect ==
    /\ stage = "idle"
    /\ live' = live \cap Kept
    /\ neighbours' = [n \in Node |-> IF n \in live' THEN neighbours[n] ELSE {}]
    /\ lost' = lost \cap live'
    /\ UNCHANGED <<stage, cur, workingSet, count>>

Next ==
    \/ BeginChurn \/ Walk \/ EndWalk
    \/ Create \/ EndCreate
    \/ Link \/ EndLink
    \/ Collect

Spec == Init /\ [][Next]_vars

-----------------------------------------------------------------------------
TypeOK ==
    /\ live \subseteq Node
    /\ neighbours \in [Node -> SUBSET Node]
    /\ stage \in {"idle", "walk", "create", "link"}
    /\ cur \in Node
    /\ workingSet \in Seq(Node)
    /\ Len(workingSet) <= WorkingSetSize
    /\ count \in 0..WorkingSetSize
    /\ lost \subseteq Node

\* No pointer of the program leads to freed memory: not the bridge, not an
\* arc, garbage's arcs included, and not the raw pointers of a running churn.
NoDangling ==
    /\ Bridge \in live
    /\ \A n \in live : neighbours[n] \subseteq live
    /\ cur \in live
    /\ InWorkingSet \subseteq live

\* Garbage stays garbage: a node that was unreachable between two behaviours
\* is never linked to the graph again, nor picked up by a churn, until it is
\* freed.  Otherwise what a collection finds would depend on when it runs.
NoResurrection ==
    /\ lost \cap Reachable(Node, neighbours, Bridge) = {}
    /\ lost \cap InWorkingSet = {}

\* A region whose bridge has no arc when a behaviour ends is spent: churns go
\* on, but only make islands of new nodes; none of them joins the bridge to
\* anything again.  A region of one node is spent from the start.
SpentForever ==
    [](stage = "idle" /\ neighbours[Bridge] = {} => [](neighbours[Bridge] = {}))

=============================================================================
