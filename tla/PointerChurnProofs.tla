-------------------------- MODULE PointerChurnProofs --------------------------
(***************************************************************************)
(* test_pointer_churn for any number of nodes, edges per node, mutations   *)
(* and collections per run: no pointer it reads dangles, its reference     *)
(* counts are exact, decref leaves only cycles behind, and the search for  *)
(* live nodes finds them all.  The argument is about heaps: each operation *)
(* of an iteration takes a heap that is Sound to one that is Sound, and    *)
(* loses nothing the root reaches.                                         *)
(***************************************************************************)
EXTENDS PointerChurn, FiniteSetTheorems, NaturalsInduction, TLAPS

\* References to n from the nodes in S.
Refs(h, S, n) == Cardinality(SlotsTo(h, S, n))

\* What the count of n has to be.
Due(h, n) == IF n = Root THEN 1 ELSE Refs(h, h.live, n)

\* The edges of the region's nodes lead to nodes of the region but the root.
Closed(h) ==
    /\ h \in Heap
    /\ Root \in h.live
    /\ \A n \in h.live : \A s \in Slot :
          h.edges[n][s] # Null => h.edges[n][s] \in h.live \ {Root}

Sound(h) ==
    /\ Closed(h)
    /\ rt = "Rc" => \A n \in h.live : h.rc[n] = Due(h, n) /\ h.rc[n] >= 1

IInv ==
    /\ TypeOK
    /\ Open => Sound(heap) /\ held \subseteq heap.live

-----------------------------------------------------------------------------
\* Tracing

\* The ids of a region's nodes are finitely many, and none is Null.
LEMMA NodeFacts == Root \in Node /\ IsFiniteSet(Node) /\ Null \notin Node /\ Node \subseteq Nat
<1>1. NumNodes - 1 \in Int /\ 0 \in Int
  BY PointerChurnAssumption
<1> QED
  BY <1>1, PointerChurnAssumption, FS_Interval DEF Node, Root

\* What a search finds holds the root and follows every edge.
LEMMA FoundClosed ==
  ASSUME NEW h \in Heap
  PROVE  /\ Root \in Found(h) /\ Found(h) \subseteq Node
         /\ \A n \in Found(h) : \A s \in Slot :
               h.edges[n][s] # Null => h.edges[n][s] \in Found(h)
<1>1. Root \in Found(h) /\ Found(h) \subseteq Node
  BY NodeFacts DEF Found, Reachable, ClosedFrom
<1>2. ASSUME NEW n \in Found(h), NEW s \in Slot, h.edges[n][s] # Null
      PROVE  h.edges[n][s] \in Found(h)
  <2>1. n \in Node /\ h.edges[n][s] \in Node
    BY <1>1, <1>2 DEF Heap
  <2>2. h.edges[n][s] \in Targets(h)[n]
    BY <1>2, <2>1 DEF Targets
  <2>3. ASSUME NEW S \in ClosedFrom(Node, Targets(h), Root)
        PROVE  h.edges[n][s] \in S
    <3>1. n \in S
      BY DEF Found, Reachable
    <3> QED
      BY <2>2, <3>1 DEF ClosedFrom
  <2> QED
    BY <2>1, <2>3 DEF Found, Reachable
<1> QED
  BY <1>1, <1>2

\* Whatever set holds the root and follows every edge, a search stays in it.
LEMMA FoundLeast ==
  ASSUME NEW h \in Heap, NEW S \in SUBSET Node, Root \in S,
         \A n \in S : \A s \in Slot : h.edges[n][s] # Null => h.edges[n][s] \in S
  PROVE  Found(h) \subseteq S
<1>1. \A n \in S : Targets(h)[n] \subseteq S
  BY DEF Targets
<1>2. S \in ClosedFrom(Node, Targets(h), Root)
  BY <1>1 DEF ClosedFrom
<1> QED
  BY <1>2 DEF Found, Reachable

\* A search of a region finds nodes of the region.
LEMMA FoundLive ==
  ASSUME NEW h, Closed(h)
  PROVE  Found(h) \subseteq h.live
BY FoundLeast DEF Closed, Heap

\* What is found, but the root, is found through an edge of something found.
LEMMA FoundThroughEdge ==
  ASSUME NEW h \in Heap, NEW n \in Found(h) \ {Root}
  PROVE  \E m \in Found(h), s \in Slot : h.edges[m][s] = n
<1> SUFFICES ASSUME \A m \in Found(h), s \in Slot : h.edges[m][s] # n
             PROVE  FALSE
  OBVIOUS
<1>1. Found(h) \subseteq Found(h) \ {n}
  BY FoundClosed, FoundLeast
<1> QED
  BY <1>1

\* Changing an edge of a node loses nothing on the way to it.
LEMMA FoundSource ==
  ASSUME NEW h \in Heap, NEW src \in Found(h), NEW s \in Slot, NEW v \in Node \cup {Null}
  PROVE  SetEdge(h, src, s, v) \in Heap /\ src \in Found(SetEdge(h, src, s, v))
<1> DEFINE g == SetEdge(h, src, s, v)
<1>1. src \in Node
  BY FoundClosed
<1>2. g \in Heap /\ \A n \in Node : n # src => g.edges[n] = h.edges[n]
  BY <1>1 DEF SetEdge, Heap
<1> HIDE DEF g
<1>3. CASE src \notin Found(g)
  <2>1. Found(h) \subseteq Found(g)
    BY <1>2, <1>3, FoundClosed, FoundLeast
  <2> QED
    BY <2>1, <1>3
<1> QED
  BY <1>2, <1>3 DEF g

-----------------------------------------------------------------------------
\* Counting

\* The edges to a node are finitely many, and the fewer the fewer the nodes
\* they may come from.
LEMMA RefsFinite ==
  ASSUME NEW h, NEW T \in SUBSET Node, NEW S \in SUBSET T, NEW n
  PROVE  /\ IsFiniteSet(SlotsTo(h, T, n))
         /\ Refs(h, S, n) \in Nat /\ Refs(h, T, n) \in Nat
         /\ SlotsTo(h, S, n) \subseteq SlotsTo(h, T, n)
         /\ Refs(h, S, n) <= Refs(h, T, n)
         /\ Refs(h, S, n) = Refs(h, T, n) => SlotsTo(h, S, n) = SlotsTo(h, T, n)
<1>1. IsFiniteSet(T \X Slot)
  <2>1. IsFiniteSet(T) /\ IsFiniteSet(Slot)
    BY NodeFacts, FS_Subset, PointerChurnAssumption
  <2> QED
    BY <2>1, FS_Product
<1>2. SlotsTo(h, T, n) \in SUBSET (T \X Slot) /\ SlotsTo(h, S, n) \in SUBSET SlotsTo(h, T, n)
  BY DEF SlotsTo
<1>3. IsFiniteSet(SlotsTo(h, T, n))
  BY <1>1, <1>2, FS_Subset
<1>4. /\ IsFiniteSet(SlotsTo(h, S, n))
      /\ Cardinality(SlotsTo(h, S, n)) <= Cardinality(SlotsTo(h, T, n))
      /\ Cardinality(SlotsTo(h, T, n)) = Cardinality(SlotsTo(h, S, n)) =>
            SlotsTo(h, T, n) = SlotsTo(h, S, n)
  BY <1>2, <1>3, FS_Subset
<1>5. Refs(h, S, n) \in Nat /\ Refs(h, T, n) \in Nat
  BY <1>3, <1>4, FS_CardinalityType DEF Refs
<1> QED
  BY <1>2, <1>3, <1>4, <1>5 DEF Refs

\* The edges from the nodes that stay are those not from the nodes that go.
LEMMA RefsWithout ==
  ASSUME NEW h, NEW T \in SUBSET Node, NEW S \in SUBSET T, NEW n
  PROVE  Refs(h, T \ S, n) = Refs(h, T, n) - Refs(h, S, n)
<1>1. SlotsTo(h, T \ S, n) = SlotsTo(h, T, n) \ SlotsTo(h, S, n)
  BY DEF SlotsTo
<1>2. SlotsTo(h, T, n) \cap SlotsTo(h, S, n) = SlotsTo(h, S, n)
  BY RefsFinite
<1>3. IsFiniteSet(SlotsTo(h, T, n))
  BY RefsFinite
<1>4. Cardinality(SlotsTo(h, T, n) \ SlotsTo(h, S, n)) =
        Cardinality(SlotsTo(h, T, n)) - Cardinality(SlotsTo(h, T, n) \cap SlotsTo(h, S, n))
  BY <1>3, FS_Difference
<1> QED
  BY <1>1, <1>2, <1>4 DEF Refs

\* A changed edge counts for its new target and no longer for the old one.
LEMMA RefsSetEdge ==
  ASSUME NEW h \in Heap, NEW src \in h.live, NEW s \in Slot, NEW v \in Node \cup {Null},
         NEW n \in Node
  PROVE  LET g == SetEdge(h, src, s, v)
         IN  Refs(g, g.live, n) = Refs(h, h.live, n) + (IF n = v THEN 1 ELSE 0)
                                    - (IF n = h.edges[src][s] THEN 1 ELSE 0)
<1> DEFINE g == SetEdge(h, src, s, v)
           others == SlotsTo(h, h.live, n) \ {<<src, s>>}
<1>1. /\ g.live = h.live
      /\ \A m \in Node, t \in Slot :
            g.edges[m][t] = IF m = src /\ t = s THEN v ELSE h.edges[m][t]
  BY DEF SetEdge, Heap
<1>2. h.live \subseteq Node
  BY DEF Heap
<1> HIDE DEF g
<1>3. SlotsTo(g, g.live, n) = IF n = v THEN others \cup {<<src, s>>} ELSE others
  BY <1>1, <1>2, NodeFacts DEF SlotsTo
<1>4. <<src, s>> \in SlotsTo(h, h.live, n) <=> n = h.edges[src][s]
  BY DEF SlotsTo
<1>5. IsFiniteSet(SlotsTo(h, h.live, n))
  BY <1>2, RefsFinite
<1>6. /\ IsFiniteSet(others)
      /\ Cardinality(others) = Refs(h, h.live, n) - (IF n = h.edges[src][s] THEN 1 ELSE 0)
      /\ Refs(h, h.live, n) \in Nat
  <2> HIDE DEF others
  <2>1. Refs(h, h.live, n) \in Nat /\ Refs(h, h.live, n) = Cardinality(SlotsTo(h, h.live, n))
    BY <1>5, FS_CardinalityType DEF Refs
  <2>2. CASE n = h.edges[src][s]
    <3>1. IsFiniteSet(others) /\ Cardinality(others) = Cardinality(SlotsTo(h, h.live, n)) - 1
      BY <1>4, <1>5, <2>2, FS_RemoveElement DEF others
    <3> QED
      BY <2>1, <2>2, <3>1
  <2>3. CASE n # h.edges[src][s]
    <3>1. others = SlotsTo(h, h.live, n)
      BY <1>4, <2>3 DEF others
    <3> QED
      BY <1>5, <2>1, <2>3, <3>1
  <2> QED
    BY <2>2, <2>3
<1>7. <<src, s>> \notin others
  OBVIOUS
<1> HIDE DEF others
<1>8. Cardinality(others \cup {<<src, s>>}) = Cardinality(others) + 1
  BY <1>6, <1>7, FS_AddElement
<1>9. Refs(g, g.live, n) = Cardinality(others) + (IF n = v THEN 1 ELSE 0)
  BY <1>3, <1>6, <1>8, FS_CardinalityType DEF Refs
<1> QED
  BY <1>6, <1>9 DEF g

-----------------------------------------------------------------------------
\* Freeing

\* The nodes that go when a count has been lowered: each of them is referred to
\* by no more than such nodes, and none that stays is.
LEMMA UsedUpFixpoint ==
  ASSUME NEW h \in Heap
  PROVE  /\ UsedUp(h) \subseteq h.live
         /\ \A n \in h.live : n \in UsedUp(h) <=> h.rc[n] <= Refs(h, UsedUp(h), n)
<1> DEFINE U == UsedUp(h)
           IsClosed(S) == \A n \in h.live : h.rc[n] <= Refs(h, S, n) => n \in S
<1>1. U = {n \in h.live : \A S \in SUBSET h.live : IsClosed(S) => n \in S}
  BY DEF UsedUp, Refs
<1>2. U \subseteq h.live /\ h.live \subseteq Node /\ \A n \in h.live : h.rc[n] \in Nat
  BY <1>1 DEF Heap
<1> HIDE DEF U
<1>3. ASSUME NEW n \in h.live, h.rc[n] <= Refs(h, U, n)
      PROVE  n \in U
  <2>1. ASSUME NEW S \in SUBSET h.live, IsClosed(S)
        PROVE  n \in S
    <3>1. U \subseteq S
      BY <1>1, <2>1
    <3>2. Refs(h, U, n) <= Refs(h, S, n) /\ Refs(h, U, n) \in Nat /\ Refs(h, S, n) \in Nat
      BY <1>2, <3>1, RefsFinite
    <3> QED
      BY <1>2, <1>3, <2>1, <3>2
  <2> QED
    BY <1>1, <2>1
<1>4. ASSUME NEW n \in U, ~(h.rc[n] <= Refs(h, U, n))
      PROVE  FALSE
  <2> DEFINE V == U \ {n}
  <2>1. ASSUME NEW m \in h.live, h.rc[m] <= Refs(h, V, m)
        PROVE  m \in V
    <3>1. Refs(h, V, m) <= Refs(h, U, m) /\ Refs(h, V, m) \in Nat /\ Refs(h, U, m) \in Nat
      BY <1>2, RefsFinite
    <3>2. h.rc[m] <= Refs(h, U, m)
      BY <1>2, <2>1, <3>1
    <3> QED
      BY <1>3, <1>4, <3>2
  <2>2. IsClosed(V) /\ V \in SUBSET h.live
    BY <1>2, <2>1
  <2> HIDE DEF V
  <2>3. n \in V
    BY <1>1, <2>2
  <2> QED
    BY <2>3 DEF V
<1> QED
  BY <1>2, <1>3, <1>4 DEF U

\* Freeing nodes that no other node points to and the root is not among leaves a
\* closed heap with the counts due, and all that the root reaches.
LEMMA FreeKeeps ==
  ASSUME NEW h, Closed(h), NEW S \in SUBSET h.live, Root \notin S,
         \A n \in h.live \ S : \A s \in Slot : h.edges[n][s] \notin S,
         rt = "Rc" => \A n \in h.live : h.rc[n] = Due(h, n)
  PROVE  /\ Closed(Free(h, S))
         /\ Free(h, S).live = h.live \ S
         /\ Found(h) \subseteq Found(Free(h, S))
         /\ rt = "Rc" => \A n \in h.live \ S :
               Free(h, S).rc[n] = h.rc[n] - Refs(h, S, n) /\ Free(h, S).rc[n] = Due(Free(h, S), n)
<1> DEFINE g == Free(h, S)
<1>1. h \in Heap /\ h.live \subseteq Node /\ Root \in h.live
  BY DEF Closed, Heap
<1>2. NoEdges \in [Slot -> Node \cup {Null}] /\ \A s \in Slot : NoEdges[s] = Null
  BY DEF NoEdges
<1>3. /\ g.live = h.live \ S
      /\ \A n \in Node : g.edges[n] = IF n \in S THEN NoEdges ELSE h.edges[n]
  BY <1>1 DEF Free, Without, Heap
<1>4. ASSUME rt = "Rc", NEW n \in Node
      PROVE  g.rc[n] = IF n \in S THEN 0 ELSE h.rc[n] - Refs(h, S, n)
  BY <1>1, <1>4 DEF Free, Without, Heap, Refs
<1>5. ASSUME NEW n \in Node \ h.live
      PROVE  Refs(h, S, n) = 0
  <2>1. SlotsTo(h, S, n) = {}
    BY <1>1, <1>5, NodeFacts DEF SlotsTo, Closed
  <2> QED
    BY <2>1, FS_EmptySet DEF Refs
<1>6. SlotsTo(h, h.live, Root) = {} /\ SlotsTo(h, S, Root) = {}
  BY <1>1, NodeFacts DEF SlotsTo, Closed
<1>7. ASSUME rt = "Rc", NEW n \in h.live \ S
      PROVE  h.rc[n] - Refs(h, S, n) \in Nat /\ h.rc[n] - Refs(h, S, n) = Due(g, n)
  <2>1. CASE n = Root
    <3>1. h.rc[n] = 1 /\ Due(g, n) = 1
      BY <1>7, <2>1 DEF Due
    <3>2. Refs(h, S, n) = 0
      BY <1>6, <2>1, FS_EmptySet DEF Refs
    <3> QED
      BY <3>1, <3>2
  <2>2. CASE n # Root
    <3>1. h.rc[n] = Refs(h, h.live, n)
      BY <1>7, <2>2 DEF Due
    <3>2. Refs(h, h.live \ S, n) = h.rc[n] - Refs(h, S, n)
      BY <1>1, <3>1, RefsWithout
    <3>4. Refs(h, h.live \ S, n) \in Nat
      <4>1. h.live \ S \in SUBSET h.live
        OBVIOUS
      <4> QED
        BY <1>1, <4>1, RefsFinite
    <3>3. SlotsTo(g, g.live, n) = SlotsTo(h, h.live \ S, n)
      BY <1>1, <1>3 DEF SlotsTo
    <3> QED
      BY <2>2, <3>2, <3>3, <3>4 DEF Due, Refs
  <2> QED
    BY <2>1, <2>2
<1>8. g \in Heap
  <2>1. CASE rt = "Rc"
    <3>1. \A n \in Node : (IF n \in S THEN 0 ELSE h.rc[n] - Refs(h, S, n)) \in Nat
      BY <1>1, <1>5, <1>7, <2>1 DEF Heap
    <3>2. g = [live |-> h.live \ S, edges |-> [n \in Node |-> IF n \in S THEN NoEdges ELSE h.edges[n]],
               rc |-> [n \in Node |-> IF n \in S THEN 0 ELSE h.rc[n] - Refs(h, S, n)]]
      BY <1>1, <2>1 DEF Free, Without, Heap, Refs
    <3> HIDE DEF g
    <3> QED
      BY <1>1, <1>2, <3>1, <3>2 DEF Heap
  <2>2. CASE rt # "Rc"
    BY <1>1, <1>2, <2>2 DEF Free, Without, Heap
  <2> QED
    BY <2>1, <2>2
<1> HIDE DEF g
<1>9. Closed(g)
  BY <1>1, <1>3, <1>8 DEF Closed
<1>10. Found(h) \subseteq Found(g)
  <2>1. Found(h) \subseteq h.live \ S
    <3>1. \A n \in h.live \ S : \A s \in Slot : h.edges[n][s] # Null => h.edges[n][s] \in h.live \ S
      BY DEF Closed
    <3> QED
      BY <1>1, <3>1, FoundLeast
  <2>2. \A n \in Found(h) \cap Found(g) : \A s \in Slot :
           h.edges[n][s] # Null => h.edges[n][s] \in Found(h) \cap Found(g)
    BY <1>1, <1>3, <1>8, <2>1, FoundClosed
  <2>3. Found(h) \subseteq Found(h) \cap Found(g)
    BY <1>1, <1>8, <2>2, FoundClosed, FoundLeast
  <2> QED
    BY <2>3
<1> QED
  BY <1>1, <1>3, <1>4, <1>7, <1>9, <1>10 DEF g

-----------------------------------------------------------------------------
\* The operations of an iteration

\* The count that is due is a number.
LEMMA DueType ==
  ASSUME NEW h \in Heap, NEW n
  PROVE  Due(h, n) \in Nat /\ Refs(h, h.live, n) \in Nat
<1>1. h.live \in SUBSET Node /\ h.live \in SUBSET h.live
  BY DEF Heap
<1> QED
  BY <1>1, RefsFinite DEF Due

\* decref of a node whose count is one more than it should be.
LEMMA DecRefKeeps ==
  ASSUME NEW h, Closed(h), NEW n \in (h.live \ {Root}) \cup {Null},
         rt = "Rc" => \A m \in h.live :
                          /\ h.rc[m] = Due(h, m) + (IF m = n THEN 1 ELSE 0)
                          /\ m # n => h.rc[m] >= 1
  PROVE  Sound(DecRef(h, n)) /\ Found(h) \subseteq Found(DecRef(h, n))
<1>1. h \in Heap /\ h.live \subseteq Node /\ Null \notin h.live /\ Root \in h.live
  BY NodeFacts DEF Closed, Heap
<1>2. CASE rt # "Rc" \/ n = Null
  <2>1. DecRef(h, n) = h
    BY <1>2 DEF DecRef
  <2>2. \A m \in h.live : Due(h, m) \in Nat /\ m # Null
    BY <1>1, DueType
  <2> QED
    BY <1>2, <2>1, <2>2 DEF Sound
<1>3. CASE rt = "Rc" /\ n # Null
  <2> DEFINE g == [h EXCEPT !.rc[n] = @ - 1]
             U == UsedUp(g)
  <2>1. n \in h.live /\ n \in Node /\ n # Root /\ DecRef(h, n) = Free(g, U)
    BY <1>1, <1>3 DEF DecRef
  <2>2. Due(h, n) \in Nat /\ h.rc[n] = Due(h, n) + 1
    BY <1>1, <1>3, <2>1, DueType
  <2>3. /\ g \in Heap /\ g.live = h.live /\ g.edges = h.edges
        /\ \A m \in Node : g.rc[m] = IF m = n THEN h.rc[m] - 1 ELSE h.rc[m]
    <3>1. h.rc[n] - 1 \in Nat
      BY <2>2
    <3> QED
      BY <1>1, <2>1, <3>1 DEF Heap
  <2> HIDE DEF g
  <2>4. Found(g) = Found(h) /\ Closed(g) /\ \A S, m : Refs(g, S, m) = Refs(h, S, m)
    <3>1. Found(g) = Found(h)
      BY <2>3 DEF Found, Targets
    <3>2. Closed(g)
      BY <2>3 DEF Closed
    <3>3. \A S, m : SlotsTo(g, S, m) = SlotsTo(h, S, m)
      BY <2>3 DEF SlotsTo
    <3> QED
      BY <3>1, <3>2, <3>3 DEF Refs
  <2>5. \A m \in g.live : g.rc[m] = Due(g, m) /\ g.rc[m] \in Nat
    <3> SUFFICES ASSUME NEW m \in g.live
                 PROVE  g.rc[m] = Due(g, m) /\ g.rc[m] \in Nat
      OBVIOUS
    <3>1. m \in Node /\ Due(h, m) \in Nat /\ Due(g, m) = Due(h, m)
      BY <1>1, <2>3, <2>4, DueType DEF Due
    <3>2. g.rc[m] = Due(h, m)
      BY <1>3, <2>3, <3>1
    <3> QED
      BY <3>1, <3>2
  <2>6. /\ U \in SUBSET g.live
        /\ \A m \in g.live : m \in U <=> g.rc[m] <= Refs(g, U, m)
    BY <2>3, UsedUpFixpoint
  <2> HIDE DEF U
  <2>7. g.live \in SUBSET Node
    BY <1>1, <2>3
  <2>8. Root \notin U
    <3>1. SlotsTo(g, U, Root) = {}
      BY <2>4, <2>6, <2>7, NodeFacts DEF Closed, SlotsTo
    <3>2. Refs(g, U, Root) = 0 /\ g.rc[Root] = 1
      BY <2>4, <2>5, <3>1, FS_EmptySet DEF Refs, Due, Closed
    <3> QED
      BY <2>6, <3>2
  <2>9. ASSUME NEW m \in g.live \ U, NEW s \in Slot, g.edges[m][s] \in U
        PROVE  FALSE
    <3> DEFINE t == g.edges[m][s]
    <3>1. t \in g.live /\ t # Root /\ t \in U
      BY <2>6, <2>8, <2>9
    <3>2. Refs(g, g.live, t) <= Refs(g, U, t)
      BY <2>5, <2>6, <3>1 DEF Due
    <3>3. SlotsTo(g, g.live, t) = SlotsTo(g, U, t)
      <4>1. /\ Refs(g, U, t) \in Nat /\ Refs(g, g.live, t) \in Nat
            /\ Refs(g, U, t) <= Refs(g, g.live, t)
            /\ Refs(g, U, t) = Refs(g, g.live, t) => SlotsTo(g, U, t) = SlotsTo(g, g.live, t)
        BY <2>6, <2>7, RefsFinite
      <4> QED
        BY <3>2, <4>1
    <3>4. <<m, s>> \in SlotsTo(g, g.live, t) /\ <<m, s>> \notin SlotsTo(g, U, t)
      BY <2>9 DEF SlotsTo
    <3> QED
      BY <3>3, <3>4
  <2>10. /\ Closed(Free(g, U))
         /\ Free(g, U).live = g.live \ U
         /\ Found(g) \subseteq Found(Free(g, U))
         /\ \A m \in g.live \ U :
               Free(g, U).rc[m] = g.rc[m] - Refs(g, U, m) /\ Free(g, U).rc[m] = Due(Free(g, U), m)
    BY <1>3, <2>4, <2>5, <2>6, <2>8, <2>9, FreeKeeps
  <2>11. ASSUME NEW m \in g.live \ U
         PROVE  g.rc[m] - Refs(g, U, m) >= 1
    <3>1. Refs(g, U, m) \in Nat
      BY <2>6, <2>7, RefsFinite
    <3> QED
      BY <2>5, <2>6, <3>1
  <2> QED
    BY <2>1, <2>4, <2>10, <2>11 DEF Sound
<1> QED
  BY <1>2, <1>3

\* An edge is changed to a target that has been given the reference.
LEMMA UpdateEdgeKeeps ==
  ASSUME NEW h, Sound(h), NEW src \in Found(h), NEW s \in Slot, NEW dst \in Found(h) \ {Root}
  PROVE  LET g == UpdateEdge(h, src, s, dst)
         IN  Sound(g) /\ {src, dst} \subseteq Found(g)
<1> DEFINE g == SetEdge(h, src, s, dst)
           k == IncRef(g, dst)
           old == h.edges[src][s]
<1>1. /\ Closed(h) /\ h \in Heap /\ h.live \subseteq Node /\ Null \notin h.live
      /\ src \in h.live /\ dst \in h.live /\ dst \in Node /\ old \in (h.live \ {Root}) \cup {Null}
  BY FoundLive, NodeFacts DEF Sound, Closed, Heap
<1>2. g \in Heap /\ src \in Found(g)
  BY <1>1, FoundSource
<1>3. /\ g.live = h.live /\ g.rc = h.rc
      /\ \A m \in Node, t \in Slot :
            g.edges[m][t] = IF m = src /\ t = s THEN dst ELSE h.edges[m][t]
  BY <1>1 DEF SetEdge, Heap
<1>4. \A n \in h.live :
         /\ Refs(h, h.live, n) \in Nat
         /\ Refs(g, g.live, n) = Refs(h, h.live, n) + (IF n = dst THEN 1 ELSE 0)
                                                     - (IF n = old THEN 1 ELSE 0)
  <2> SUFFICES ASSUME NEW n \in h.live
               PROVE  /\ Refs(h, h.live, n) \in Nat
                      /\ Refs(g, g.live, n) = Refs(h, h.live, n) + (IF n = dst THEN 1 ELSE 0)
                                                                  - (IF n = old THEN 1 ELSE 0)
    OBVIOUS
  <2>1. n \in Node /\ dst \in Node \cup {Null}
    BY <1>1
  <2>2. Refs(h, h.live, n) \in Nat
    BY <1>1, DueType
  <2> QED
    BY <1>1, <2>1, <2>2, RefsSetEdge
<1>5. UpdateEdge(h, src, s, dst) = DecRef(k, old)
  BY DEF UpdateEdge
<1> HIDE DEF g, old
<1>6. /\ k \in Heap /\ k.live = g.live /\ k.edges = g.edges
      /\ rt = "Rc" => \A m \in Node : k.rc[m] = IF m = dst THEN g.rc[m] + 1 ELSE g.rc[m]
  <2>1. g.rc[dst] + 1 \in Nat
    BY <1>1, <1>2 DEF Heap
  <2> QED
    BY <1>1, <1>2, <2>1 DEF IncRef, Heap
<1> HIDE DEF k
<1>7. Found(k) = Found(g) /\ \A S, m : Refs(k, S, m) = Refs(g, S, m)
  BY <1>6 DEF Found, Targets, Refs, SlotsTo
<1>8. Closed(k)
  BY <1>1, <1>3, <1>6 DEF Closed
<1>9. ASSUME rt = "Rc", NEW m \in k.live
      PROVE  /\ k.rc[m] = Due(k, m) + (IF m = old THEN 1 ELSE 0)
             /\ m # old => k.rc[m] >= 1
  <2>1. m \in h.live /\ m \in Node /\ h.rc[m] = Due(h, m) /\ h.rc[m] >= 1 /\ h.rc[m] \in Nat
    BY <1>1, <1>3, <1>6, <1>9 DEF Sound, Heap
  <2>2. k.rc[m] = IF m = dst THEN h.rc[m] + 1 ELSE h.rc[m]
    BY <1>3, <1>6, <1>9, <2>1
  <2>3. CASE m = Root
    BY <1>1, <2>1, <2>2, <2>3, NodeFacts DEF Due
  <2>4. CASE m # Root
    BY <1>4, <1>6, <1>7, <2>1, <2>2, <2>4 DEF Due
  <2> QED
    BY <2>3, <2>4
<1>10. Sound(DecRef(k, old)) /\ Found(k) \subseteq Found(DecRef(k, old))
  BY <1>1, <1>3, <1>6, <1>8, <1>9, DecRefKeeps
<1>11. dst \in Found(g)
  <2>1. src \in Node /\ g.edges[src][s] = dst /\ dst # Null
    BY <1>1, <1>3
  <2> QED
    BY <1>2, <2>1, FoundClosed
<1> QED
  BY <1>2, <1>5, <1>7, <1>10, <1>11

\* An edge is removed.
LEMMA RemoveEdgeKeeps ==
  ASSUME NEW h, Sound(h), NEW src \in Found(h), NEW s \in Slot
  PROVE  LET g == RemoveEdge(h, src, s)
         IN  Sound(g) /\ src \in Found(g)
<1> DEFINE g == SetEdge(h, src, s, Null)
           old == h.edges[src][s]
<1>1. /\ Closed(h) /\ h \in Heap /\ h.live \subseteq Node /\ Null \notin h.live
      /\ src \in h.live /\ old \in (h.live \ {Root}) \cup {Null}
  BY FoundLive, NodeFacts DEF Sound, Closed, Heap
<1>2. g \in Heap /\ src \in Found(g)
  BY <1>1, FoundSource
<1>3. /\ g.live = h.live /\ g.rc = h.rc
      /\ \A m \in Node, t \in Slot :
            g.edges[m][t] = IF m = src /\ t = s THEN Null ELSE h.edges[m][t]
  BY <1>1 DEF SetEdge, Heap
<1>4. \A n \in h.live :
         /\ Refs(h, h.live, n) \in Nat
         /\ Refs(g, g.live, n) = Refs(h, h.live, n) + (IF n = Null THEN 1 ELSE 0)
                                                     - (IF n = old THEN 1 ELSE 0)
  <2> SUFFICES ASSUME NEW n \in h.live
               PROVE  /\ Refs(h, h.live, n) \in Nat
                      /\ Refs(g, g.live, n) = Refs(h, h.live, n) + (IF n = Null THEN 1 ELSE 0)
                                                                  - (IF n = old THEN 1 ELSE 0)
    OBVIOUS
  <2>1. n \in Node /\ Null \in Node \cup {Null}
    BY <1>1
  <2> QED
    BY <1>1, <2>1, RefsSetEdge, DueType
<1>5. RemoveEdge(h, src, s) = DecRef(g, old)
  BY DEF RemoveEdge
<1> HIDE DEF g, old
<1>6. Closed(g)
  BY <1>1, <1>2, <1>3 DEF Closed
<1>7. ASSUME rt = "Rc", NEW m \in g.live
      PROVE  /\ g.rc[m] = Due(g, m) + (IF m = old THEN 1 ELSE 0)
             /\ m # old => g.rc[m] >= 1
  <2>1. m \in h.live /\ m # Null /\ h.rc[m] = Due(h, m) /\ h.rc[m] >= 1 /\ h.rc[m] \in Nat
    BY <1>1, <1>3, <1>7 DEF Sound, Heap
  <2>2. CASE m = Root
    BY <1>1, <1>3, <2>1, <2>2, NodeFacts DEF Due
  <2>3. CASE m # Root
    BY <1>3, <1>4, <2>1, <2>3 DEF Due
  <2> QED
    BY <2>2, <2>3
<1>8. Sound(DecRef(g, old)) /\ Found(g) \subseteq Found(DecRef(g, old))
  BY <1>1, <1>3, <1>6, <1>7, DecRefKeeps
<1> QED
  BY <1>2, <1>5, <1>8

\* A collection frees nothing that a search finds, and all else but in an arena.
LEMMA CollectedKeeps ==
  ASSUME NEW h, Sound(h)
  PROVE  Sound(Collected(h)) /\ Found(h) \subseteq Found(Collected(h))
<1>1. CASE rt = "Arena"
  BY <1>1 DEF Collected
<1>2. CASE rt # "Arena"
  <2> DEFINE S == h.live \ Found(h)
             g == Free(h, S)
  <2>1. /\ Closed(h) /\ h \in Heap /\ h.live \subseteq Node
        /\ Root \in Found(h) /\ Found(h) \subseteq h.live
    BY FoundLive, FoundClosed DEF Sound, Closed, Heap
  <2>2. Collected(h) = g
    BY <1>2 DEF Collected
  <2>3. \A n \in h.live \ S : \A s \in Slot : h.edges[n][s] \notin S
    BY <2>1, NodeFacts, FoundClosed
  <2>4. /\ Closed(g) /\ g.live = h.live \ S /\ Found(h) \subseteq Found(g)
        /\ rt = "Rc" => \A n \in h.live \ S :
              g.rc[n] = h.rc[n] - Refs(h, S, n) /\ g.rc[n] = Due(g, n)
    <3>1. S \in SUBSET h.live /\ Root \notin S
      BY <2>1
    <3> HIDE DEF S
    <3> QED
      BY <2>1, <2>3, <3>1, FreeKeeps DEF Sound
  <2>5. ASSUME rt = "Rc", NEW n \in g.live
        PROVE  g.rc[n] >= 1
    <3> HIDE DEF g
    <3>1. n \in Found(h) /\ g.rc[n] = Due(g, n) /\ n \in Found(g) /\ g \in Heap
      BY <2>4, <2>5 DEF Closed
    <3>2. CASE n = Root
      BY <3>1, <3>2 DEF Due
    <3>3. CASE n # Root
      <4>1. PICK m \in Found(g), s \in Slot : g.edges[m][s] = n
        BY <3>1, <3>3, FoundThroughEdge
      <4>2. <<m, s>> \in SlotsTo(g, g.live, n)
        BY <2>4, <4>1, FoundLive DEF SlotsTo
      <4>3. IsFiniteSet(SlotsTo(g, g.live, n)) /\ Refs(g, g.live, n) \in Nat
        BY <3>1, RefsFinite DEF Heap
      <4>4. Refs(g, g.live, n) # 0
        BY <4>2, <4>3, FS_EmptySet DEF Refs
      <4> QED
        BY <3>1, <3>3, <4>3, <4>4 DEF Due
    <3> QED
      BY <3>2, <3>3
  <2> QED
    BY <2>2, <2>4, <2>5 DEF Sound
<1> QED
  BY <1>1, <1>2

-----------------------------------------------------------------------------
\* The steps of test_pointer_churn

\* A new region is a chain: one edge to each node but the root.
LEMMA ChainSound == Sound(Chain) /\ Chain.live = Node
<1>1. Chain.live = Node /\ Chain \in Heap
  BY NodeFacts DEF Chain, Heap
<1>2. \A n \in Node, s \in Slot :
         Chain.edges[n][s] = IF s = 0 /\ n + 1 \in Node THEN n + 1 ELSE Null
  BY DEF Chain
<1>3. \A n \in Node : n \in Nat /\ n + 1 # Root /\ Chain.rc[n] = 1
  BY NodeFacts DEF Chain, Root
<1>4. Closed(Chain)
  BY <1>1, <1>2, <1>3, NodeFacts DEF Closed
<1>5. ASSUME NEW n \in Node, n # Root
      PROVE  Refs(Chain, Node, n) = 1
  <2>1. n - 1 \in Node /\ 0 \in Slot /\ \A m \in Node : m + 1 = n => m = n - 1
    BY <1>5, PointerChurnAssumption DEF Node, Root
  <2>2. SlotsTo(Chain, Node, n) = {<<n - 1, 0>>}
    <3>1. <<n - 1, 0>> \in SlotsTo(Chain, Node, n)
      BY <1>2, <1>5, <2>1 DEF SlotsTo, Node
    <3>2. \A q \in SlotsTo(Chain, Node, n) : q = <<n - 1, 0>>
      BY <1>2, <1>5, <2>1, NodeFacts DEF SlotsTo
    <3> QED
      BY <3>1, <3>2
  <2> QED
    BY <2>2, FS_Singleton DEF Refs
<1> QED
  BY <1>1, <1>3, <1>4, <1>5 DEF Sound, Due

\* At first there is no region.
LEMMA InitIInv == Init => IInv
<1> SUFFICES ASSUME Init
             PROVE  IInv
  OBVIOUS
<1>1. heap \in Heap
  BY DEF Init, Heap, NoEdges
<1>2. mutations \in Nat
  BY PointerChurnAssumption DEF Init
<1> QED
  BY <1>1, <1>2 DEF Init, IInv, TypeOK, Open

\* The end of an iteration that has left a sound heap, in which the nodes still
\* read can be reached.
LEMMA EndIterationIInv ==
  ASSUME IInv, Open, rem > 0, UNCHANGED argVars,
         NEW h, Sound(h), EndIteration(h), held' \subseteq Found(h)
  PROVE  IInv'
<1>1. Sound(h)' = Sound(h)
  BY DEF argVars, Sound, Closed, Due, Refs, SlotsTo
<1>2. heap' = h \/ heap' = Collected(h)
  BY DEF EndIteration
<1>3. Sound(heap') /\ Found(h) \subseteq Found(heap')
  BY <1>2, CollectedKeeps
<1>4. heap' \in Heap /\ Found(heap') \subseteq heap'.live /\ heap'.live \subseteq Node
  BY <1>3, FoundLive DEF Sound, Closed, Heap
<1>5. pc' \in {"inner", "trapped"} /\ rem' \in 0..mutations'
  BY PointerChurnAssumption DEF EndIteration, IInv, TypeOK, Open, argVars
<1>6. TypeOK'
  BY <1>3, <1>4, <1>5 DEF IInv, TypeOK, argVars
<1>7. Sound(heap)'
  BY <1>3 DEF argVars, Sound, Closed, Due, Refs, SlotsTo
<1> QED
  BY <1>3, <1>4, <1>6, <1>7 DEF IInv

\* One iteration adds or changes an edge, another removes one.
LEMMA MutationIInv ==
  ASSUME IInv, AddOrUpdate \/ RemoveOrSkip
  PROVE  IInv'
<1>1. Open /\ rem > 0 /\ UNCHANGED argVars /\ Sound(heap)
  BY DEF AddOrUpdate, RemoveOrSkip, Iterating, Open, IInv
<1>2. CASE AddOrUpdate
  <2>1. PICK src \in Found(heap), dst \in Found(heap) \ {Root}, s \in Slot :
           EndIteration(UpdateEdge(heap, src, s, dst)) /\ held' = {src, dst}
    BY <1>2 DEF AddOrUpdate, Destinations
  <2> QED
    BY <1>1, <2>1, UpdateEdgeKeeps, EndIterationIInv
<1>3. CASE RemoveOrSkip
  <2>1. PICK src \in Found(heap), s \in Slot :
           EndIteration(RemoveEdge(heap, src, s)) /\ held' = {src}
    BY <1>3 DEF RemoveOrSkip
  <2> QED
    BY <1>1, <2>1, RemoveEdgeKeeps, EndIterationIInv
<1> QED
  BY <1>2, <1>3

\* A region is opened, closed, or the loop is over.
LEMMA RegionIInv ==
  ASSUME IInv, OpenRegion \/ CloseRegion \/ Finish
  PROVE  IInv'
<1>1. CASE OpenRegion
  <2>1. Sound(heap)' /\ heap'.live = Node /\ heap' \in Heap
    <3>1. Sound(Chain)' = Sound(Chain)
      BY <1>1 DEF OpenRegion, argVars, Sound, Closed, Due, Refs, SlotsTo
    <3> QED
      BY <1>1, <3>1, ChainSound DEF OpenRegion, Sound, Closed
  <2> QED
    BY <1>1, <2>1 DEF OpenRegion, argVars, IInv, TypeOK
<1>2. CASE CloseRegion
  <2>1. Collected(heap) \in Heap
    BY <1>2, CollectedKeeps DEF CloseRegion, IInv, Open, Sound, Closed
  <2>2. heap' \in Heap
    BY <1>2, <2>1 DEF CloseRegion, Heap
  <2> QED
    BY <1>2, <2>2 DEF CloseRegion, argVars, IInv, TypeOK, Open
<1>3. CASE Finish
  BY <1>3 DEF Finish, argVars, IInv, TypeOK, Open
<1> QED
  BY <1>1, <1>2, <1>3

\* Every step keeps the inductive invariant.
LEMMA NextIInv == IInv /\ [Next]_vars => IInv'
<1> SUFFICES ASSUME IInv, [Next]_vars
             PROVE  IInv'
  OBVIOUS
<1>1. CASE UNCHANGED vars
  BY <1>1 DEF vars, argVars, IInv, TypeOK, Open, Sound, Closed, Due, Refs, SlotsTo
<1> QED
  BY <1>1, MutationIInv, RegionIInv DEF Next

\* The inductive invariant holds in every behaviour of the specification.
THEOREM Invariant == Spec => []IInv
BY InitIInv, NextIInv, PTL DEF Spec

-----------------------------------------------------------------------------
\* Neither the edges of allocated nodes nor what the code still reads after its
\* decref leads to freed memory.
THEOREM NothingDangles == Spec => []NoDangling
<1>1. IInv => NoDangling
  BY DEF IInv, NoDangling, Sound, Closed, Targets, Open, TypeOK, Heap
<1> QED
  BY <1>1, Invariant, PTL

\* Every reference count is the number of references there are.
THEOREM CountsExact == Spec => []RcExact
<1>1. ASSUME IInv
      PROVE  RcExact
  <2>1. Open => SlotsTo(heap, heap.live, Root) = {}
    BY <1>1, NodeFacts DEF IInv, Sound, Closed, SlotsTo
  <2> QED
    BY <1>1, <2>1 DEF RcExact, IInv, Sound, Due, Refs
<1> QED
  BY <1>1, Invariant, PTL

\* What decref leaves unreachable is kept by a cycle: following references
\* backwards from it never ends, nor leads out of the garbage.
THEOREM OnlyCyclesKept == Spec => []OnlyCyclesLeft
<1>1. ASSUME IInv, Open, rt = "Rc", NEW n \in heap.live \ Found(heap)
      PROVE  SlotsTo(heap, heap.live \ Found(heap), n) # {}
  <2>1. heap \in Heap /\ Sound(heap)
    BY <1>1 DEF IInv, TypeOK
  <2>2. n # Root /\ n \in Node
    BY <1>1, <2>1, FoundClosed DEF Heap
  <2>3. Refs(heap, heap.live, n) >= 1
    BY <1>1, <2>1, <2>2 DEF Sound, Due
  <2>4. SlotsTo(heap, heap.live, n) # {}
    BY <2>3, FS_EmptySet DEF Refs
  <2>5. PICK q \in heap.live \X Slot : heap.edges[q[1]][q[2]] = n
    BY <2>4 DEF SlotsTo
  <2>6. q[1] \notin Found(heap)
    BY <1>1, <2>1, <2>2, <2>5, FoundClosed, NodeFacts
  <2> QED
    BY <2>5, <2>6 DEF SlotsTo
<1>2. IInv => OnlyCyclesLeft
  BY <1>1 DEF OnlyCyclesLeft
<1> QED
  BY <1>2, Invariant, PTL

-----------------------------------------------------------------------------
\* The search

\* A set of numbers with 0 and the successor of each of its members has them all.
LEMMA Induction ==
  ASSUME NEW S, 0 \in S, \A n \in Nat : n \in S => n + 1 \in S
  PROVE  Nat \subseteq S
<1> SUFFICES ASSUME Nat \ S # {} PROVE FALSE
  OBVIOUS
<1>1. PICK n \in Nat \ S : \A m \in Nat \ S : ~(<<m, n>> \in OpToRel(<, Nat))
  BY NatLessThanWellFounded, WFMin
<1>2. n # 0 /\ n - 1 \in Nat
  OBVIOUS
<1>3. n - 1 \in S
  BY <1>1, <1>2, n - 1 < n DEF OpToRel
<1> QED
  BY <1>2, <1>3

\* The member FoldSet takes first.
First(s) == CHOOSE x \in s : TRUE

\* What FoldSet computes when v says what a member makes of a value.
Over(v, base, T) == FoldSet(LAMBDA to, found : v[<<to, found>>], base, T)

\* The recursion of FoldSet, as a property of what it computes for each subset.
IsFold(it, v, base, T) ==
  it = [s \in SUBSET T |-> IF s = {} THEN base ELSE v[<<First(s), it[s \ {First(s)}]>>]]

\* A set of subsets of T that holds {} and a subset when it holds that subset
\* without its first member holds them all.
LEMMA SubsetInduction ==
  ASSUME NEW T, IsFiniteSet(T), NEW X, {} \in X,
         \A s \in SUBSET T : s # {} /\ s \ {First(s)} \in X => s \in X
  PROVE  SUBSET T \subseteq X
<1> DEFINE K == {k \in Nat : \A s \in SUBSET T : Cardinality(s) = k => s \in X}
<1>1. \A s \in SUBSET T : IsFiniteSet(s) /\ Cardinality(s) \in Nat
  BY FS_Subset, FS_CardinalityType
<1>2. 0 \in K
  BY <1>1, FS_EmptySet
<1>3. ASSUME NEW k \in Nat, k \in K
      PROVE  k + 1 \in K
  <2>1. ASSUME NEW s \in SUBSET T, Cardinality(s) = k + 1
        PROVE  s \in X
    <3>1. s # {} /\ First(s) \in s
      BY <2>1, FS_EmptySet DEF First
    <3>2. Cardinality(s \ {First(s)}) = k
      BY <1>1, <2>1, <3>1, FS_RemoveElement
    <3> QED
      BY <1>3, <3>1, <3>2
  <2> QED
    BY <2>1
<1>4. Nat \subseteq K
  <2> HIDE DEF K
  <2> QED
    BY <1>2, <1>3, Induction
<1> QED
  BY <1>1, <1>4

\* What a fold says of {} and of every other subset.
LEMMA FoldEquation ==
  ASSUME NEW T, NEW v, NEW base, NEW it, IsFold(it, v, base, T)
  PROVE  /\ it[{}] = base
         /\ \A s \in SUBSET T : s # {} =>
               /\ First(s) \in s
               /\ it[s] = v[<<First(s), it[s \ {First(s)}]>>]
BY DEF IsFold, First

\* Such a recursion has a solution when T is finite, and FoldSet computes it.
LEMMA FoldExists ==
  ASSUME NEW T, IsFiniteSet(T), NEW v, NEW base
  PROVE  \E it : IsFold(it, v, base, T) /\ Over(v, base, T) = it[T]
<1> DEFINE Step(it) == [s \in SUBSET T |-> IF s = {} THEN base ELSE v[<<First(s), it[s \ {First(s)}]>>]]
           Upto(k) == {s \in SUBSET T : Cardinality(s) <= k}
           Solves(it, k) == \A s \in Upto(k) : it[s] = Step(it)[s]
           K == {k \in Nat : \E it : Solves(it, k)}
<1>1. \A s \in SUBSET T : IsFiniteSet(s) /\ Cardinality(s) \in Nat
  BY FS_Subset, FS_CardinalityType
<1>2. 0 \in K
  <2> DEFINE it == [s \in SUBSET T |-> base]
  <2>1. \A s \in Upto(0) : s = {}
    BY <1>1, FS_EmptySet
  <2>2. \A s \in Upto(0) : it[s] = Step(it)[s]
    BY <2>1
  <2> QED
    BY <2>2
<1>3. ASSUME NEW k \in Nat, k \in K
      PROVE  k + 1 \in K
  <2>1. PICK it : Solves(it, k)
    BY <1>3
  <2>2. ASSUME NEW s \in Upto(k + 1)
        PROVE  Step(it)[s] = Step(Step(it))[s]
    <3>1. CASE s = {}
      BY <3>1
    <3>2. CASE s # {}
      <4>1. First(s) \in s
        BY <3>2 DEF First
      <4>2. Cardinality(s \ {First(s)}) = Cardinality(s) - 1
        BY <1>1, <4>1, FS_RemoveElement
      <4>3. s \ {First(s)} \in Upto(k)
        BY <1>1, <4>2
      <4>4. it[s \ {First(s)}] = Step(it)[s \ {First(s)}]
        BY <2>1, <4>3
      <4> QED
        BY <3>2, <4>4
    <3> QED
      BY <3>1, <3>2
  <2>3. Solves(Step(it), k + 1)
    BY <2>2
  <2> HIDE DEF Solves, Step
  <2> QED
    BY <2>3
<1>4. Cardinality(T) \in K
  <2>1. Nat \subseteq K
    <3> HIDE DEF K
    <3> QED
      BY <1>2, <1>3, Induction
  <2> QED
    BY <1>1, <2>1
<1>5. PICK it : Solves(it, Cardinality(T))
  BY <1>4
<1>6. \A s \in SUBSET T : it[s] = Step(it)[s]
  <2>1. \A s \in SUBSET T : Cardinality(s) <= Cardinality(T)
    BY FS_Subset
  <2> QED
    BY <1>5, <2>1
<1>7. IsFold(Step(it), v, base, T)
  <2>1. \A s \in SUBSET T : Step(it)[s] = Step(Step(it))[s]
    <3> SUFFICES ASSUME NEW s \in SUBSET T PROVE Step(it)[s] = Step(Step(it))[s]
      OBVIOUS
    <3>1. CASE s = {}
      BY <3>1
    <3>2. CASE s # {}
      <4>1. it[s \ {First(s)}] = Step(it)[s \ {First(s)}]
        BY <1>6
      <4> QED
        BY <3>2, <4>1
    <3> QED
      BY <3>1, <3>2
  <2>2. Step(it) = Step(Step(it))
    BY <2>1
  <2> HIDE DEF Step
  <2> QED
    BY <2>2 DEF Step, IsFold
<1> DEFINE jt == CHOOSE jt : IsFold(jt, v, base, T)
<1>8. IsFold(jt, v, base, T)
  BY <1>7
<1>9. Over(v, base, T) = jt[T]
  BY DEF Over, FoldSet, MapThenFoldSet, IsFold, First
<1> QED
  BY <1>8, <1>9

\* A step of the search: what is seen grows, within the region's nodes.
Grows(F) ==
  /\ F \in [Node \X SUBSET Node -> SUBSET Node]
  /\ \A n \in Node, seen \in SUBSET Node : seen \subseteq F[<<n, seen>>]

\* One unfolding of the recursion of find_reachable_nodes.
Visit(F, h) ==
  [p \in Node \X SUBSET Node |->
      IF p[1] \in p[2] THEN p[2] ELSE Over(F, p[2] \cup {p[1]}, Targets(h)[p[1]])]

\* The nodes the search has yet to see.
Unseen(seen) == Cardinality(Node \ seen)

LEMMA UnseenFacts ==
  ASSUME NEW seen \in SUBSET Node
  PROVE  /\ Unseen(seen) \in Nat
         /\ Unseen(seen) = 0 => seen = Node
         /\ \A found \in SUBSET Node, n \in Node \ seen :
               seen \cup {n} \subseteq found => Unseen(found) < Unseen(seen)
<1>1. \A s \in SUBSET Node : IsFiniteSet(s) /\ Cardinality(s) \in Nat
  BY NodeFacts, FS_Subset, FS_CardinalityType
<1>2. Unseen(seen) \in Nat
  BY <1>1 DEF Unseen
<1>3. Unseen(seen) = 0 => seen = Node
  BY <1>1, FS_EmptySet DEF Unseen
<1>4. ASSUME NEW found \in SUBSET Node, NEW n \in Node \ seen, seen \cup {n} \subseteq found
      PROVE  Unseen(found) < Unseen(seen)
  <2> DEFINE U == Node \ seen
             V == Node \ found
  <2>1. V \subseteq U /\ V # U /\ IsFiniteSet(U) /\ U \subseteq Node /\ V \subseteq Node
    BY <1>1, <1>4
  <2> HIDE DEF U, V
  <2>2. Cardinality(V) <= Cardinality(U) /\ (Cardinality(U) = Cardinality(V) => U = V)
    BY <2>1, FS_Subset
  <2>3. Cardinality(V) < Cardinality(U)
    BY <1>1, <2>1, <2>2
  <2> QED
    BY <2>3 DEF U, V, Unseen
<1> QED
  BY <1>2, <1>3, <1>4

\* The edges of a heap are finitely many and lead to nodes.
LEMMA TargetsFacts ==
  ASSUME NEW h \in Heap, NEW n \in Node
  PROVE  Targets(h)[n] \subseteq Node /\ IsFiniteSet(Targets(h)[n])
<1>1. Targets(h)[n] \subseteq Node
  BY DEF Targets, Heap
<1> QED
  BY <1>1, NodeFacts, FS_Subset

\* A fold of a search that grows what is seen does so too.
LEMMA FoldGrows ==
  ASSUME NEW F, Grows(F), NEW base \in SUBSET Node, NEW T \in SUBSET Node, IsFiniteSet(T),
         NEW it, IsFold(it, F, base, T), NEW s \in SUBSET T
  PROVE  it[s] \in SUBSET Node /\ base \subseteq it[s]
<1> DEFINE X == {r \in SUBSET T : it[r] \in SUBSET Node /\ base \subseteq it[r]}
<1>1. {} \in X
  BY FoldEquation
<1>2. ASSUME NEW r \in SUBSET T, r # {}, r \ {First(r)} \in X
      PROVE  r \in X
  <2>1. First(r) \in r /\ it[r] = F[<<First(r), it[r \ {First(r)}]>>]
    BY <1>2, FoldEquation
  <2>2. PICK f \in SUBSET Node : f = it[r \ {First(r)}] /\ base \subseteq f
    BY <1>2
  <2>3. PICK x \in Node : x = First(r)
    BY <2>1
  <2>4. F[<<x, f>>] \in SUBSET Node /\ f \subseteq F[<<x, f>>]
    BY DEF Grows
  <2> QED
    BY <2>1, <2>2, <2>3, <2>4
<1>3. SUBSET T \subseteq X
  <2> HIDE DEF X
  <2> QED
    BY <1>1, <1>2, SubsetInduction
<1> QED
  BY <1>3

\* Two searches that agree on all that comes after base fold to the same.
LEMMA FoldAgrees ==
  ASSUME NEW F, Grows(F), NEW base \in SUBSET Node, NEW T \in SUBSET Node, IsFiniteSet(T),
         NEW G, \A n \in T, found \in SUBSET Node : base \subseteq found => F[<<n, found>>] = G[<<n, found>>]
  PROVE  Over(F, base, T) = Over(G, base, T)
<1>1. PICK it : IsFold(it, F, base, T) /\ Over(F, base, T) = it[T]
  BY FoldExists
<1>2. PICK jt : IsFold(jt, G, base, T) /\ Over(G, base, T) = jt[T]
  BY FoldExists
<1>6. \A r \in SUBSET T : r # {} => First(r) \in r /\ it[r] = F[<<First(r), it[r \ {First(r)}]>>]
  BY <1>1, FoldEquation
<1>7. \A r \in SUBSET T : r # {} => jt[r] = G[<<First(r), jt[r \ {First(r)}]>>]
  BY <1>2, FoldEquation
<1>8. \A r \in SUBSET T : it[r] \in SUBSET Node /\ base \subseteq it[r]
  BY <1>1, FoldGrows
<1> DEFINE X == {r \in SUBSET T : it[r] = jt[r]}
<1>3. {} \in X
  BY <1>1, <1>2, FoldEquation
<1>4. ASSUME NEW r \in SUBSET T, r # {}, r \ {First(r)} \in X
      PROVE  r \in X
  <2>1. First(r) \in T
    BY <1>4, <1>6
  <2>2. PICK f \in SUBSET Node : f = it[r \ {First(r)}] /\ base \subseteq f
    BY <1>8
  <2>3. f = jt[r \ {First(r)}]
    BY <1>4, <2>2
  <2>4. F[<<First(r), f>>] = G[<<First(r), f>>]
    BY <2>1, <2>2
  <2>5. it[r] = F[<<First(r), f>>]
    BY <1>4, <1>6, <2>2
  <2>6. jt[r] = G[<<First(r), f>>]
    BY <1>4, <1>7, <2>3
  <2> QED
    BY <2>4, <2>5, <2>6
<1>5. SUBSET T \subseteq X
  <2> HIDE DEF X
  <2> QED
    BY <1>3, <1>4, SubsetInduction
<1> QED
  BY <1>1, <1>2, <1>5

\* Unfolding keeps what is seen growing.
LEMMA VisitGrows ==
  ASSUME NEW h \in Heap, NEW F, Grows(F)
  PROVE  Grows(Visit(F, h))
<1>1. ASSUME NEW n \in Node, NEW seen \in SUBSET Node, n \notin seen
      PROVE  /\ Over(F, seen \cup {n}, Targets(h)[n]) \in SUBSET Node
             /\ seen \subseteq Over(F, seen \cup {n}, Targets(h)[n])
  <2> DEFINE base == seen \cup {n}
             T == Targets(h)[n]
  <2>1. base \in SUBSET Node /\ T \in SUBSET Node /\ IsFiniteSet(T)
    BY TargetsFacts
  <2>2. seen \subseteq base
    OBVIOUS
  <2> HIDE DEF base, T
  <2>3. PICK it : IsFold(it, F, base, T) /\ Over(F, base, T) = it[T]
    BY <2>1, FoldExists
  <2>4. it[T] \in SUBSET Node /\ base \subseteq it[T]
    BY <2>1, <2>3, FoldGrows
  <2> QED
    BY <2>2, <2>3, <2>4 DEF base, T
<1>2. \A n \in Node, seen \in SUBSET Node :
         Visit(F, h)[<<n, seen>>] = IF n \in seen THEN seen ELSE Over(F, seen \cup {n}, Targets(h)[n])
  BY DEF Visit
<1> DEFINE G == Visit(F, h)
<1>3. DOMAIN G = Node \X SUBSET Node /\ G = [p \in Node \X SUBSET Node |-> G[p]]
  BY DEF Visit
<1> HIDE DEF G
<1>4. ASSUME NEW n \in Node, NEW seen \in SUBSET Node
      PROVE  G[<<n, seen>>] \in SUBSET Node /\ seen \subseteq G[<<n, seen>>]
  <2>1. CASE n \in seen
    <3>1. G[<<n, seen>>] = seen
      BY <1>2, <2>1 DEF G
    <3> QED
      BY <3>1
  <2>2. CASE n \notin seen
    <3>1. G[<<n, seen>>] = Over(F, seen \cup {n}, Targets(h)[n])
      BY <1>2, <2>2 DEF G
    <3>2. /\ Over(F, seen \cup {n}, Targets(h)[n]) \in SUBSET Node
          /\ seen \subseteq Over(F, seen \cup {n}, Targets(h)[n])
      BY <1>1, <2>2
    <3> QED
      BY <3>1, <3>2
  <2> QED
    BY <2>1, <2>2
<1>5. \A p \in Node \X SUBSET Node : G[p] \in SUBSET Node
  BY <1>4
<1>6. G \in [Node \X SUBSET Node -> SUBSET Node]
  BY <1>3, <1>5
<1> QED
  BY <1>4, <1>6 DEF G, Grows

\* The recursion has a solution: each unfolding settles what is left to search
\* when one more node is unseen.
LEMMA SearchExists ==
  ASSUME NEW h \in Heap
  PROVE  \E F : F = Visit(F, h)
<1> DEFINE Settled(F, k) == \A n \in Node, seen \in SUBSET Node :
                               Unseen(seen) <= k => F[<<n, seen>>] = Visit(F, h)[<<n, seen>>]
           K == {k \in Nat : \E F : Grows(F) /\ Settled(F, k)}
<1>1. 0 \in K
  <2> DEFINE F == [p \in Node \X SUBSET Node |-> p[2]]
  <2>1. Grows(F)
    BY DEF Grows
  <2>2. Settled(F, 0)
    <3> SUFFICES ASSUME NEW n \in Node, NEW seen \in SUBSET Node, Unseen(seen) <= 0
                 PROVE  F[<<n, seen>>] = Visit(F, h)[<<n, seen>>]
      OBVIOUS
    <3>1. n \in seen
      BY UnseenFacts
    <3> QED
      BY <3>1 DEF Visit
  <2> HIDE DEF F, Settled
  <2> QED
    BY <2>1, <2>2
<1>2. ASSUME NEW k \in Nat, k \in K
      PROVE  k + 1 \in K
  <2>1. PICK F : Grows(F) /\ Settled(F, k)
    BY <1>2
  <2> DEFINE G == Visit(F, h)
  <2>2. Grows(G)
    BY <2>1, VisitGrows
  <2>3. Settled(G, k + 1)
    <3> SUFFICES ASSUME NEW n \in Node, NEW seen \in SUBSET Node, Unseen(seen) <= k + 1
                 PROVE  G[<<n, seen>>] = Visit(G, h)[<<n, seen>>]
      OBVIOUS
    <3>1. CASE n \in seen
      BY <3>1 DEF Visit
    <3>2. CASE n \notin seen
      <4> DEFINE base == seen \cup {n}
      <4>1. ASSUME NEW found \in SUBSET Node, base \subseteq found, NEW to \in Node
            PROVE  F[<<to, found>>] = G[<<to, found>>]
        <5>1. Unseen(found) < Unseen(seen) /\ Unseen(found) \in Nat /\ Unseen(seen) \in Nat
          BY <3>2, <4>1, UnseenFacts
        <5>2. Unseen(found) <= k
          BY <5>1
        <5> QED
          BY <2>1, <5>2
      <4>2. Targets(h)[n] \in SUBSET Node /\ IsFiniteSet(Targets(h)[n]) /\ base \in SUBSET Node
        BY TargetsFacts
      <4>3. Over(F, base, Targets(h)[n]) = Over(G, base, Targets(h)[n])
        <5> HIDE DEF base, G
        <5> QED
          BY <2>1, <4>1, <4>2, FoldAgrees
      <4>4. G[<<n, seen>>] = Over(F, base, Targets(h)[n])
        BY <3>2 DEF Visit
      <4>5. Visit(G, h)[<<n, seen>>] = Over(G, base, Targets(h)[n])
        <5> HIDE DEF G
        <5> QED
          BY <3>2 DEF Visit
      <4> QED
        BY <4>3, <4>4, <4>5
    <3> QED
      BY <3>1, <3>2
  <2> HIDE DEF G, Settled
  <2> QED
    BY <2>2, <2>3
<1>3. Nat \subseteq K
  <2> HIDE DEF K
  <2> QED
    BY <1>1, <1>2, Induction
<1>4. Unseen({}) \in Nat
  BY UnseenFacts
<1>5. PICK F : Grows(F) /\ Settled(F, Unseen({}))
  BY <1>3, <1>4
<1>6. \A n \in Node, seen \in SUBSET Node : F[<<n, seen>>] = Visit(F, h)[<<n, seen>>]
  <2> SUFFICES ASSUME NEW n \in Node, NEW seen \in SUBSET Node
               PROVE  F[<<n, seen>>] = Visit(F, h)[<<n, seen>>]
    OBVIOUS
  <2>1. Unseen(seen) <= Unseen({})
    <3>1. Node \ seen \subseteq Node /\ Node \ {} = Node
      OBVIOUS
    <3> QED
      BY <3>1, NodeFacts, FS_Subset DEF Unseen
  <2> QED
    BY <1>5, <2>1
<1>7. Grows(Visit(F, h))
  BY <1>5, VisitGrows
<1>8. F = Visit(F, h)
  BY <1>5, <1>6, <1>7 DEF Grows
<1> QED
  BY <1>8

\* What a search from n finds when some nodes have been seen before: those, n,
\* and what the nodes it adds point to, but nothing that a set closed under the
\* edges keeps from n.
Finds(h, found, n, seen) ==
  /\ found \in SUBSET Node
  /\ seen \cup {n} \subseteq found
  /\ \A m \in found \ seen : Targets(h)[m] \subseteq found
  /\ \A S \in SUBSET Node :
        n \in S /\ (\A m \in S : Targets(h)[m] \subseteq S) => found \subseteq seen \cup S

\* The same along the edges of n: T have been followed.
FindsAlong(h, found, n, seen, T) ==
  /\ found \in SUBSET Node
  /\ seen \cup {n} \cup T \subseteq found
  /\ \A m \in found \ (seen \cup {n}) : Targets(h)[m] \subseteq found
  /\ \A S \in SUBSET Node :
        n \in S /\ (\A m \in S : Targets(h)[m] \subseteq S) => found \subseteq seen \cup S

\* One more edge followed.
LEMMA FindsStep ==
  ASSUME NEW h \in Heap, NEW n \in Node, NEW seen \in SUBSET Node, NEW T \in SUBSET Targets(h)[n],
         NEW to \in T, NEW old, FindsAlong(h, old, n, seen, T \ {to}),
         NEW new, Finds(h, new, to, old)
  PROVE  FindsAlong(h, new, n, seen, T)
<1>1. new \in SUBSET Node /\ old \subseteq new /\ to \in new
  BY DEF Finds
<1>2. seen \cup {n} \cup T \subseteq new
  BY <1>1 DEF FindsAlong
<1>3. ASSUME NEW m \in new \ (seen \cup {n})
      PROVE  Targets(h)[m] \subseteq new
  <2>1. CASE m \in old
    <3>1. Targets(h)[m] \subseteq old
      BY <1>3, <2>1 DEF FindsAlong
    <3> QED
      BY <1>1, <3>1
  <2>2. CASE m \notin old
    BY <1>3, <2>2 DEF Finds
  <2> QED
    BY <2>1, <2>2
<1>4. ASSUME NEW S \in SUBSET Node, n \in S, \A m \in S : Targets(h)[m] \subseteq S
      PROVE  new \subseteq seen \cup S
  <2>1. to \in S
    BY <1>4
  <2>2. old \subseteq seen \cup S
    BY <1>4 DEF FindsAlong
  <2>3. new \subseteq old \cup S
    BY <1>4, <2>1 DEF Finds
  <2> QED
    BY <2>2, <2>3
<1> QED
  BY <1>1, <1>2, <1>3, <1>4 DEF FindsAlong

\* A solution of the recursion finds what it should, wherever it starts and
\* whatever it has seen before.
LEMMA SearchFinds ==
  ASSUME NEW h \in Heap, NEW F, F = Visit(F, h)
  PROVE  \A n \in Node, seen \in SUBSET Node :
            IF n \in seen THEN F[<<n, seen>>] = seen ELSE Finds(h, F[<<n, seen>>], n, seen)
<1>1. \A n \in Node, seen \in SUBSET Node :
         /\ n \in seen => F[<<n, seen>>] = seen
         /\ n \notin seen => F[<<n, seen>>] = Over(F, seen \cup {n}, Targets(h)[n])
  <2> DEFINE G == Visit(F, h)
  <2>1. \A n \in Node, seen \in SUBSET Node :
           /\ n \in seen => G[<<n, seen>>] = seen
           /\ n \notin seen => G[<<n, seen>>] = Over(F, seen \cup {n}, Targets(h)[n])
    BY DEF Visit
  <2>2. F = G
    OBVIOUS
  <2> HIDE DEF G
  <2> QED
    BY <2>1, <2>2
<1> DEFINE Right(k) == \A n \in Node, seen \in SUBSET Node :
                          n \notin seen /\ Unseen(seen) <= k => Finds(h, F[<<n, seen>>], n, seen)
           K == {k \in Nat : Right(k)}
<1>2. 0 \in K
  <2>1. ASSUME NEW n \in Node, NEW seen \in SUBSET Node, Unseen(seen) <= 0
        PROVE  n \in seen
    BY <2>1, UnseenFacts
  <2> QED
    BY <2>1
<1>3. ASSUME NEW k \in Nat, k \in K
      PROVE  k + 1 \in K
  <2> SUFFICES ASSUME NEW n \in Node, NEW seen \in SUBSET Node, n \notin seen, Unseen(seen) <= k + 1
               PROVE  Finds(h, F[<<n, seen>>], n, seen)
    OBVIOUS
  <2> DEFINE base == seen \cup {n}
             T == Targets(h)[n]
  <2>1. base \in SUBSET Node /\ T \in SUBSET Node /\ IsFiniteSet(T)
    BY TargetsFacts
  <2>2. PICK it : IsFold(it, F, base, T) /\ Over(F, base, T) = it[T]
    <3> HIDE DEF base, T
    <3> QED
      BY <2>1, FoldExists
  <2>3. /\ it[{}] = base
        /\ \A r \in SUBSET T : r # {} => First(r) \in r /\ it[r] = F[<<First(r), it[r \ {First(r)}]>>]
    <3> HIDE DEF base, T
    <3> QED
      BY <2>2, FoldEquation
  <2> DEFINE X == {r \in SUBSET T : FindsAlong(h, it[r], n, seen, r)}
  <2>4. {} \in X
    <3>1. FindsAlong(h, base, n, seen, {})
      BY <2>1 DEF FindsAlong
    <3> HIDE DEF base, T
    <3> QED
      BY <2>3, <3>1
  <2>5. ASSUME NEW r \in SUBSET T, r # {}, r \ {First(r)} \in X
        PROVE  r \in X
    <3>1. PICK to \in T : to = First(r) /\ to \in r
      BY <2>3, <2>5
    <3>2. PICK old : old = it[r \ {to}]
      OBVIOUS
    <3>3. FindsAlong(h, old, n, seen, r \ {to})
      BY <2>5, <3>1, <3>2
    <3>4. old \in SUBSET Node /\ base \subseteq old
      BY <3>3 DEF FindsAlong
    <3>5. PICK new : new = F[<<to, old>>]
      OBVIOUS
    <3>6. it[r] = new
      BY <2>3, <2>5, <3>1, <3>2, <3>5
    <3>7. CASE to \in old
      <4>1. new = old
        BY <1>1, <2>1, <3>1, <3>4, <3>5, <3>7
      <4>2. FindsAlong(h, new, n, seen, r)
        BY <3>3, <3>7, <4>1 DEF FindsAlong
      <4> QED
        BY <3>6, <4>2
    <3>8. CASE to \notin old
      <4>1. Unseen(old) <= k
        <5>1. Unseen(old) < Unseen(seen) /\ Unseen(old) \in Nat /\ Unseen(seen) \in Nat
          BY <3>4, UnseenFacts
        <5> QED
          BY <5>1
      <4>2. Finds(h, new, to, old)
        BY <1>3, <2>1, <3>1, <3>4, <3>5, <3>8, <4>1
      <4>3. FindsAlong(h, new, n, seen, r)
        BY <3>1, <3>3, <4>2, FindsStep
      <4> QED
        BY <3>6, <4>3
    <3> QED
      BY <3>7, <3>8
  <2>6. SUBSET T \subseteq X
    <3> HIDE DEF X, T
    <3> QED
      BY <2>1, <2>4, <2>5, SubsetInduction
  <2>7. FindsAlong(h, it[T], n, seen, T)
    BY <2>6
  <2>8. F[<<n, seen>>] = it[T]
    BY <1>1, <2>2
  <2>9. Finds(h, it[T], n, seen)
    BY <2>7 DEF Finds, FindsAlong
  <2> QED
    BY <2>8, <2>9
<1>4. Nat \subseteq K
  <2> HIDE DEF K
  <2> QED
    BY <1>2, <1>3, Induction
<1>5. ASSUME NEW n \in Node, NEW seen \in SUBSET Node, n \notin seen
      PROVE  Finds(h, F[<<n, seen>>], n, seen)
  <2>1. Unseen(seen) \in Nat
    BY UnseenFacts
  <2>2. Right(Unseen(seen))
    BY <1>4, <2>1
  <2> QED
    BY <1>5, <2>1, <2>2
<1> QED
  BY <1>1, <1>5

\* The search returns what a trace of the heap finds.
LEMMA SearchIsFound ==
  ASSUME NEW h \in Heap
  PROVE  find_reachable_nodes(h) = Found(h)
<1> DEFINE F == CHOOSE F : F = Visit(F, h)
<1>1. F = Visit(F, h)
  BY SearchExists
<1>2. find_reachable_nodes(h) = F[<<Root, {}>>]
  BY DEF find_reachable_nodes, Over, Visit
<1> HIDE DEF F
<1> DEFINE found == F[<<Root, {}>>]
<1>3. Finds(h, found, Root, {})
  BY <1>1, NodeFacts, SearchFinds
<1> HIDE DEF found
<1>4. found \in SUBSET Node /\ Root \in found /\ \A m \in found : Targets(h)[m] \subseteq found
  BY <1>3 DEF Finds
<1>5. Found(h) \subseteq found
  <2>1. \A m \in found : \A s \in Slot : h.edges[m][s] # Null => h.edges[m][s] \in found
    BY <1>4 DEF Targets
  <2> QED
    BY <1>4, <2>1, FoundLeast
<1>6. found \subseteq Found(h)
  <2>1. Found(h) \in SUBSET Node /\ Root \in Found(h) /\ \A m \in Found(h) : Targets(h)[m] \subseteq Found(h)
    BY FoundClosed DEF Targets
  <2> QED
    BY <1>3, <2>1 DEF Finds
<1> QED
  BY <1>2, <1>5, <1>6 DEF found

\* The search for live nodes finds what a trace of the region finds, all of it
\* allocated, whatever mutations have made of the chain.
THEOREM SearchFindsAll == Spec => []SearchComplete
<1>1. ASSUME IInv, Open
      PROVE  find_reachable_nodes(heap) = Found(heap) /\ Found(heap) \subseteq heap.live
  <2>1. heap \in Heap /\ Closed(heap)
    BY <1>1 DEF IInv, TypeOK, Sound
  <2> QED
    BY <2>1, SearchIsFound, FoundLive
<1>2. IInv => SearchComplete
  BY <1>1 DEF SearchComplete, Open
<1> QED
  BY <1>2, Invariant, PTL

===============================================================================
