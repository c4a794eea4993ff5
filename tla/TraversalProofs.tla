--------------------------- MODULE TraversalProofs --------------------------
(***************************************************************************)
(* The walk of traverse_region comes back to the bridge and leaves every   *)
(* other node unreachable, for every finite set of nodes.  The inductive   *)
(* invariant is TypeOK /\ Balanced: erasing the arc the walk follows moves *)
(* the degree surplus from the node it leaves to the node it enters.       *)
(***************************************************************************)
EXTENDS Traversal, FiniteSetTheorems, TLAPS

IInv == TypeOK /\ Balanced

-----------------------------------------------------------------------------
\* The initial state of the walk is well typed: the bridge is a node.
LEMMA InitTypeOK == Init => TypeOK
  BY NodeAssumption DEF Init, TypeOK, FullyConnected

\* A step of the walk keeps the types: it erases an arc between nodes.
LEMMA NextTypeOK == TypeOK /\ [Next]_vars => TypeOK'
<1> SUFFICES ASSUME TypeOK, [Next]_vars
             PROVE  TypeOK'
  OBVIOUS
<1>1. CASE Step
  BY <1>1, NodeAssumption DEF Step, CanMove, TypeOK, Traverse, RemoveArc
<1>2. CASE UNCHANGED vars
  BY <1>2 DEF vars, TypeOK
<1> QED
  BY <1>1, <1>2 DEF Next

\* Type correctness of traverse_region's state.
THEOREM TypeCorrect == Spec => []TypeOK
  BY InitTypeOK, NextTypeOK, PTL DEF Spec

-----------------------------------------------------------------------------
\* The arcs out of and into a node of a well-typed graph are finite in number.
LEMMA DegreesAreNat ==
  ASSUME TypeOK, NEW n \in Node
  PROVE  /\ IsFiniteSet(neighbours[n]) /\ OutArcs(n) \in Nat
         /\ IsFiniteSet(ArcsInto(n))   /\ InArcs(n) \in Nat
<1>1. neighbours[n] \in SUBSET Node /\ ArcsInto(n) \in SUBSET Node
  BY DEF TypeOK, ArcsInto
<1>2. IsFiniteSet(neighbours[n]) /\ IsFiniteSet(ArcsInto(n))
  BY <1>1, NodeAssumption, FS_Subset
<1> QED
  BY <1>2, FS_CardinalityType DEF OutArcs, InArcs

\* fully_connect gives every node the same arcs out as in: all other nodes.
LEMMA InitBalanced == Init => Balanced
<1> SUFFICES ASSUME Init
             PROVE  Balanced
  OBVIOUS
<1>1. cur \in Node /\ cur # NoNode /\ cur = Bridge
  BY NodeAssumption DEF Init
<1>2. ASSUME NEW n \in Node
      PROVE  OutArcs(n) - InArcs(n) = Surplus(n)
  <2>1. neighbours[n] = Node \ {n} /\ ArcsInto(n) = Node \ {n}
    BY DEF Init, FullyConnected, ArcsInto
  <2>2. OutArcs(n) \in Nat /\ InArcs(n) = OutArcs(n)
    BY <2>1, DegreesAreNat, InitTypeOK DEF OutArcs, InArcs
  <2>3. Surplus(n) = 0
    BY <1>1 DEF Surplus
  <2> QED
    BY <2>2, <2>3
<1> QED
  BY <1>1, <1>2 DEF Balanced

\* One iteration of the loop moves the surplus along the arc it erases.
LEMMA StepBalanced ==
  ASSUME TypeOK, Balanced, Step
  PROVE  Balanced'
<1>1. PICK dst \in neighbours[cur] :
           /\ cur' = Traverse(cur, dst)
           /\ neighbours' = RemoveArc(cur, dst)
  BY DEF Step
<1>2. cur \in Node /\ dst \in Node /\ cur' = dst /\ cur' # NoNode
  BY <1>1, NodeAssumption DEF Step, CanMove, TypeOK, Traverse
<1>3. neighbours' = [neighbours EXCEPT ![cur] = @ \ {dst}]
  BY <1>1 DEF RemoveArc
<1>4. ASSUME NEW n \in Node
      PROVE  OutArcs(n)' - InArcs(n)' = Surplus(n)'
  <2>1. /\ IsFiniteSet(neighbours[n]) /\ OutArcs(n) \in Nat
        /\ IsFiniteSet(ArcsInto(n))   /\ InArcs(n) \in Nat
    BY DegreesAreNat
  <2>2. OutArcs(n)' = OutArcs(n) - (IF n = cur THEN 1 ELSE 0)
    <3>1. CASE n = cur
      <4>1. neighbours'[n] = neighbours[n] \ {dst} /\ dst \in neighbours[n]
        BY <1>1, <1>2, <1>3, <3>1 DEF TypeOK
      <4> QED
        BY <4>1, <3>1, <2>1, FS_RemoveElement DEF OutArcs
    <3>2. CASE n # cur
      <4>1. neighbours'[n] = neighbours[n]
        BY <1>2, <1>3, <3>2 DEF TypeOK
      <4> QED
        BY <4>1, <3>2, <2>1 DEF OutArcs
    <3> QED
      BY <3>1, <3>2
  <2>3. InArcs(n)' = InArcs(n) - (IF n = dst THEN 1 ELSE 0)
    <3>1. CASE n = dst
      <4>1. ArcsInto(n)' = ArcsInto(n) \ {cur} /\ cur \in ArcsInto(n)
        BY <1>1, <1>2, <1>3, <3>1 DEF TypeOK, ArcsInto
      <4> QED
        BY <4>1, <3>1, <2>1, FS_RemoveElement DEF InArcs
    <3>2. CASE n # dst
      <4>1. ArcsInto(n)' = ArcsInto(n)
        BY <1>2, <1>3, <3>2 DEF TypeOK, ArcsInto
      <4> QED
        BY <4>1, <3>2, <2>1 DEF InArcs
    <3> QED
      BY <3>1, <3>2
  <2>4. OutArcs(n) - InArcs(n) = Surplus(n)
    BY DEF Balanced
  <2>5. Surplus(n)' = (IF n = dst THEN 1 ELSE 0) - (IF n = Bridge THEN 1 ELSE 0)
    BY <1>2 DEF Surplus
  <2> QED
    BY <2>1, <2>2, <2>3, <2>4, <2>5 DEF Surplus
<1> QED
  BY <1>2, <1>4 DEF Balanced

\* The inductive invariant holds at every step of traverse_region.
THEOREM Invariant == Spec => []IInv
<1>1. Init => IInv
  BY InitTypeOK, InitBalanced DEF IInv
<1>2. IInv /\ [Next]_vars => IInv'
  <2> SUFFICES ASSUME IInv, [Next]_vars
               PROVE  Balanced'
    BY NextTypeOK DEF IInv
  <2>1. CASE Step
    BY <2>1, StepBalanced DEF IInv
  <2>2. CASE UNCHANGED vars
    BY <2>2 DEF vars, IInv, Balanced, OutArcs, InArcs, ArcsInto, Surplus
  <2> QED
    BY <2>1, <2>2 DEF Next
<1> QED
  BY <1>1, <1>2, PTL DEF Spec

-----------------------------------------------------------------------------
\* The graph stays Eulerian from the walk's current node to the bridge.
THEOREM WalkStaysBalanced == Spec => []Balanced
<1>1. IInv => Balanced
  BY DEF IInv
<1> QED
  BY <1>1, Invariant, PTL

\* A node with no arc out has no negative number of arcs in, so the surplus
\* there is not that of a walk that ended away from its start.
LEMMA DoneAtBridge ==
  ASSUME IInv, Done
  PROVE  cur = Bridge /\ neighbours[Bridge] = {}
<1>1. cur \in Node /\ neighbours[cur] = {}
  BY DEF IInv, TypeOK, Balanced, Done, CanMove
<1>2. OutArcs(cur) = 0 /\ InArcs(cur) \in Nat
  BY <1>1, DegreesAreNat, FS_EmptySet DEF IInv, OutArcs
<1>3. OutArcs(cur) - InArcs(cur) = Surplus(cur)
  BY <1>1 DEF IInv, Balanced
<1>4. cur = Bridge
  BY <1>2, <1>3 DEF Surplus
<1> QED
  BY <1>1, <1>4

\* traverse_region ends at the bridge, for every number of nodes.
THEOREM WalkReturnsToBridge == Spec => []ReturnsToBridge
<1>1. IInv => ReturnsToBridge
  BY DoneAtBridge DEF ReturnsToBridge
<1> QED
  BY <1>1, Invariant, PTL

\* traverse_region leaves every node but the bridge for the collector.
THEOREM WalkLeavesOnlyBridge == Spec => []RestIsGarbage
<1>1. IInv => RestIsGarbage
  <2> SUFFICES ASSUME IInv, Done
               PROVE  Reachable(Node, neighbours, Bridge) = {Bridge}
    BY DEF RestIsGarbage
  <2>1. {Bridge} \in ClosedFrom(Node, neighbours, Bridge)
    BY DoneAtBridge, NodeAssumption DEF ClosedFrom
  <2>2. \A S \in ClosedFrom(Node, neighbours, Bridge) : Bridge \in S
    BY DEF ClosedFrom
  <2> QED
    BY <2>1, <2>2, NodeAssumption DEF Reachable
<1> QED
  BY <1>1, Invariant, PTL

=============================================================================
