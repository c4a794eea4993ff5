----------------------------- MODULE PointerChurn -----------------------------
(***************************************************************************)
(* test_pointer_churn: regions of GraphNodes that are built as a chain and *)
(* whose edges are then changed at random; unreachable nodes are freed by  *)
(* the collections of a trace region, by decref and the collections of a   *)
(* reference counting one, or with the region.  One thread, so that one    *)
(* iteration of a loop is one action.  The reference counts are those the  *)
(* benchmark keeps with incref and decref; what the runtime does when one  *)
(* reaches zero is modelled from how the benchmark relies on it.           *)
(***************************************************************************)
EXTENDS RegionHeap, Integers, FiniteSetsExt

CONSTANTS
    NumNodes,       \* -n: nodes of a new region, root included
    Mutations,      \* the values -m may have
    Slot,           \* indices of GraphNode::edges (MAX_OUT_EDGES, 4 in the code)
    GCsPerRun,      \* divisor of GC_INTERVAL (100 in the code)
    Null

ASSUME PointerChurnAssumption ==
    /\ NumNodes \in Nat \ {0}
    /\ Mutations \subseteq Nat
    /\ IsFiniteSet(Slot) /\ 0 \in Slot
    /\ GCsPerRun \in Nat \ {0}
    /\ Null \notin Nat

Node == 0..(NumNodes - 1)   \* by id; a region allocates its nodes once
Root == 0
Heap == [live : SUBSET Node, edges : [Node -> [Slot -> Node \cup {Null}]], rc : [Node -> Nat]]

VARIABLES
    rt,         \* the region type of run_test
    pc,         \* "outer" and "inner" loop, "done", or "trapped" in a division
    mutations,  \* NUM_MUTATIONS, the argument -m
    rem,        \* NUM_MUTATIONS_REM
    heap,       \* [live, edges, rc] of the open region
    held        \* the nodes the iteration still read after its last decref (history)

argVars == <<rt, mutations>>
vars == <<argVars, pc, rem, heap, held>>

-----------------------------------------------------------------------------
Interval == mutations \div GCsPerRun   \* GC_INTERVAL

NoEdges == [s \in Slot |-> Null]

\* Slots of the nodes in S that point to n.
SlotsTo(h, S, n) == {p \in S \X Slot : h.edges[p[1]][p[2]] = n}

Targets(h) == [n \in Node |-> {h.edges[n][s] : s \in Slot} \ {Null}]
\* What find_reachable_nodes returns: SearchComplete compares the two.
Found(h) == Reachable(Node, Targets(h), Root)

\* Mutant: the edges of the root only are followed.
find_reachable_nodesShallow(h) == {Root} \cup Targets(h)[Root]

\* The search: depth first, the nodes seen so far being handed on from edge to
\* edge.
find_reachable_nodes(h) ==
    LET visit[p \in Node \X SUBSET Node] ==
          LET n == p[1]
              seen == p[2]
          IN  IF n \in seen THEN seen
              ELSE FoldSet(LAMBDA to, found : visit[<<to, found>>], seen \cup {n}, Targets(h)[n])
    IN  visit[<<Root, {}>>]

Without(h, S) == [h EXCEPT !.live = @ \ S, !.edges = [n \in Node |-> IF n \in S THEN NoEdges ELSE @[n]]]

\* Nodes are freed; in a reference counting region with their references.
Free(h, S) ==
    IF rt = "Rc"
    THEN [Without(h, S) EXCEPT !.rc =
             [n \in Node |-> IF n \in S THEN 0 ELSE @[n] - Cardinality(SlotsTo(h, S, n))]]
    ELSE Without(h, S)

\* The nodes that go when all but those whose count is used up by other nodes
\* that go are kept: decref of the last reference frees a node and drops the
\* references it held.
UsedUp(h) ==
    LET closed == {S \in SUBSET h.live :
                      \A n \in h.live :
                          h.rc[n] <= Cardinality(SlotsTo(h, S, n)) => n \in S}
    IN  {n \in h.live : \A S \in closed : n \in S}

IncRef(h, n) == IF rt = "Rc" THEN [h EXCEPT !.rc[n] = @ + 1] ELSE h

DecRef(h, n) ==
    IF rt = "Rc" /\ n # Null
    THEN LET dropped == [h EXCEPT !.rc[n] = @ - 1]
         IN  Free(dropped, UsedUp(dropped))
    ELSE h

SetEdge(h, src, s, dst) == [h EXCEPT !.edges[src][s] = dst]

\* region_collect, which the code leaves out for arenas.
Collected(h) == IF rt = "Arena" THEN h ELSE Free(h, h.live \ Found(h))

-----------------------------------------------------------------------------
\* The outer loop opens a region: a chain of NumNodes nodes.
Chain ==
    [live |-> Node,
     edges |-> [n \in Node |-> [s \in Slot |->
         IF s = 0 /\ n + 1 \in Node THEN n + 1 ELSE Null]],
     rc |-> [n \in Node |-> 1]]

OpenRegion ==
    /\ pc = "outer"
    /\ rem > 0
    /\ pc' = "inner"
    /\ heap' = Chain
    /\ UNCHANGED <<argVars, rem, held>>

Finish ==
    /\ pc = "outer"
    /\ rem = 0
    /\ pc' = "done"
    /\ UNCHANGED <<argVars, rem, heap, held>>

\* Mutant: the old target is dropped before the new one is referenced.
UpdateEdgeDropsFirst(h, src, s, dst) ==
    SetEdge(IncRef(DecRef(SetEdge(h, src, s, Null), h.edges[src][s]), dst), src, s, dst)

\* Add or update an edge.
UpdateEdge(h, src, s, dst) ==
    DecRef(IncRef(SetEdge(h, src, s, dst), dst), h.edges[src][s])

\* Mutant: the reference of the removed edge is kept.
RemoveEdgeLeaks(h, src, s) == SetEdge(h, src, s, Null)

\* Remove an edge, or skip when there is none.
RemoveEdge(h, src, s) == DecRef(SetEdge(h, src, s, Null), h.edges[src][s])

\* Mutant: the destination may be any node found.
DestinationsAny(h) == Found(h)

\* The first node find_reachable_nodes lists is the root, and index 0 is never
\* drawn for a destination.
Destinations(h) == Found(h) \ {Root}

\* Mutant: a skipped removal does not count as a mutation.
EndIterationUncounted(h) ==
    /\ heap' = IF Interval # 0 /\ rem % Interval = 0 THEN Collected(h) ELSE h
    /\ \/ pc' = pc /\ rem' = IF h = heap THEN rem ELSE rem - 1
       \/ Interval = 0 /\ pc' = "trapped" /\ UNCHANGED rem

\* The end of an iteration: the collection every Interval mutations.  The
\* remainder by zero when Interval is 0 traps or, on processors that do not
\* trap, is rem itself, which is not 0.
EndIteration(h) ==
    /\ heap' = IF Interval # 0 /\ rem % Interval = 0 THEN Collected(h) ELSE h
    /\ \/ pc' = pc /\ rem' = rem - 1
       \/ Interval = 0 /\ pc' = "trapped" /\ UNCHANGED rem

Iterating == pc = "inner" /\ rem > 0 /\ Found(heap) # {Root}

AddOrUpdate ==
    /\ Iterating
    /\ \E src \in Found(heap), dst \in Destinations(heap), s \in Slot :
       \E h \in {UpdateEdge(heap, src, s, dst)} :
          EndIteration(h) /\ held' = {src, dst}
    /\ UNCHANGED argVars

RemoveOrSkip ==
    /\ Iterating
    /\ \E src \in Found(heap), s \in Slot :
       \E h \in {RemoveEdge(heap, src, s)} :
          EndIteration(h) /\ held' = {src}
    /\ UNCHANGED argVars

\* Enough mutations, or a graph that has collapsed to its root: the last
\* collection and the release of the region.
CloseRegion ==
    /\ pc = "inner"
    /\ ~Iterating
    /\ heap' = [Collected(heap) EXCEPT !.live = {}]
    /\ pc' = "outer"
    /\ held' = {}
    /\ UNCHANGED <<argVars, rem>>

Init ==
    /\ rt \in {"Trace", "Arena", "Rc"}
    /\ pc = "outer"
    /\ mutations \in Mutations
    /\ rem = mutations
    /\ heap = [live |-> {}, edges |-> [n \in Node |-> NoEdges],
               rc |-> [n \in Node |-> 0]]
    /\ held = {}

Next == OpenRegion \/ Finish \/ AddOrUpdate \/ RemoveOrSkip \/ CloseRegion

Spec == Init /\ [][Next]_vars
FairSpec == Spec /\ WF_vars(Next)

-----------------------------------------------------------------------------
TypeOK ==
    /\ rt \in {"Trace", "Arena", "Rc"}
    /\ pc \in {"outer", "inner", "done", "trapped"}
    /\ mutations \in Mutations
    /\ rem \in 0..mutations
    /\ heap \in Heap
    /\ held \subseteq Node

Open == pc = "inner"

\* The state is well typed and nothing the code still reads has been freed: the root, the nodes of the
\* edge it just changed (their ids are printed after decref), and whatever an
\* edge of an allocated node points to.
NoDangling ==
    /\ TypeOK
    /\ Open => /\ Root \in heap.live
               /\ held \subseteq heap.live
               /\ \A n \in heap.live : Targets(heap)[n] \subseteq heap.live

\* In a reference counting region the count of a node is the number of edges
\* to it, those of unreachable nodes included, and for the root, which no edge
\* leads to, the one the runtime counts.
RcExact ==
    /\ Open /\ rt = "Rc" =>
        \A n \in heap.live :
            heap.rc[n] = IF n = Root THEN 1 ELSE Cardinality(SlotsTo(heap, heap.live, n))
    /\ Open => SlotsTo(heap, heap.live, Root) = {}

\* Of what is unreachable in a reference counting region, decref leaves only
\* what a cycle keeps: no unreachable node is without an edge to it from
\* another unreachable one or itself.
OnlyCyclesLeft ==
    Open /\ rt = "Rc" =>
        LET garbage == heap.live \ Found(heap)
        IN  \A n \in garbage : SlotsTo(heap, garbage, n) # {}

\* The search finds the nodes a trace of the region does, whatever mutations
\* have made of the chain: none is left out because it was seen on another
\* path, and none that the collection has freed is found.
SearchComplete ==
    pc = "inner" => /\ find_reachable_nodes(heap) = Found(heap)
                    /\ find_reachable_nodes(heap) \subseteq heap.live

\* New regions are made until the given number of mutations has been made, as the
\* comment in front of test_pointer_churn has it, and then the test ends: a region
\* that collapses to its root early is followed by another one, which takes a
\* mutation at least.  Not claimed where the code does otherwise: with fewer
\* mutations than collections, where it divides by zero, and with regions of one
\* node, which are collapsed from the start (NumNodes = 1).
Finishes == Interval # 0 => <>(pc = "done" /\ rem = 0)

==============================================================================
