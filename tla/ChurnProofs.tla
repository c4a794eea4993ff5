----------------------------- MODULE ChurnProofs ------------------------------
(***************************************************************************)
(* The pointers of churn_region, for every finite set of addresses, every  *)
(* working set size and any number of new nodes: none dangles, and nothing *)
(* that was garbage between two behaviours is ever linked to again.  The   *)
(* inductive invariant says that the graph is sealed: an arc from a node   *)
(* that is not lost does not lead to one that is.                          *)
(***************************************************************************)
EXTENDS Churn, TLAPS

\* Addresses that are not allocated have no arcs, the nodes created in a churn
\* are in its working set, and between churns there is no working set.
Tidy ==
    /\ \A n \in Node \ live : neighbours[n] = {}
    /\ stage = "create" => count <= Len(workingSet)
    /\ stage = "idle" => cur = Bridge /\ workingSet = <<>>

\* What is not lost, the bridge among it, does not lead to what is.
Sealed ==
    /\ lost \subseteq live
    /\ Bridge \notin lost
    /\ cur \notin lost
    /\ InWorkingSet \cap lost = {}
    /\ \A n \in Node \ lost : neighbours[n] \cap lost = {}

IInv == TypeOK /\ NoDangling /\ Tidy /\ Sealed

-----------------------------------------------------------------------------
\* What a trace finds is among the objects and contains its root.
LEMMA ReachableRoot ==
  ASSUME NEW Obj, NEW succ, NEW root \in Obj
  PROVE  root \in Reachable(Obj, succ, root) /\ Reachable(Obj, succ, root) \subseteq Obj
BY DEF Reachable, ClosedFrom

\* A trace follows every pointer of what it finds.
LEMMA ReachableClosed ==
  ASSUME NEW Obj, NEW succ \in [Obj -> SUBSET Obj], NEW root \in Obj,
         NEW n \in Reachable(Obj, succ, root)
  PROVE  succ[n] \subseteq Reachable(Obj, succ, root)
<1> SUFFICES ASSUME NEW m \in succ[n], NEW S \in ClosedFrom(Obj, succ, root)
             PROVE  m \in S
  BY DEF Reachable
<1>1. n \in S
  BY DEF Reachable
<1> QED
  BY <1>1 DEF ClosedFrom

\* A trace stays inside any closed set that holds its root.
LEMMA ReachableWithin ==
  ASSUME NEW Obj, NEW succ, NEW root, NEW S \in ClosedFrom(Obj, succ, root)
  PROVE  Reachable(Obj, succ, root) \subseteq S
BY DEF Reachable

\* In a sealed graph a trace from the bridge finds nothing that is lost.
LEMMA SealedUnreachable ==
  ASSUME TypeOK, Sealed
  PROVE  Reachable(Node, neighbours, Bridge) \cap lost = {}
<1>1. Node \ lost \in ClosedFrom(Node, neighbours, Bridge)
  BY ChurnAssumption DEF Sealed, TypeOK, ClosedFrom
<1> QED
  BY <1>1, ReachableWithin

\* Appending to a working set adds one node to it.
LEMMA AppendToSet ==
  ASSUME NEW s \in Seq(Node), NEW e \in Node
  PROVE  /\ ToSet(Append(s, e)) = ToSet(s) \cup {e}
         /\ Append(s, e) \in Seq(Node)
         /\ Len(Append(s, e)) = Len(s) + 1
<1> DEFINE t == Append(s, e)
<1>1. /\ t \in Seq(Node) /\ Len(t) = Len(s) + 1 /\ Len(s) \in Nat
      /\ \A i \in 1..Len(s) : t[i] = s[i]
      /\ t[Len(s) + 1] = e
  OBVIOUS
<1>2. DOMAIN t = 1..(Len(s) + 1) /\ DOMAIN s = 1..Len(s)
  BY <1>1
<1> HIDE DEF t
<1>3. {t[i] : i \in 1..(Len(s) + 1)} = {s[i] : i \in 1..Len(s)} \cup {e}
  BY <1>1
<1>4. ToSet(t) = ToSet(s) \cup {e}
  BY <1>2, <1>3 DEF ToSet
<1> QED
  BY <1>1, <1>4 DEF t

\* The empty working set has no nodes.
LEMMA EmptyToSet == ToSet(<<>>) = {} /\ <<>> \in Seq(Node)
BY DEF ToSet

\* The nodes of a working set are nodes.
LEMMA ToSetNodes ==
  ASSUME NEW s \in Seq(Node)
  PROVE  ToSet(s) \subseteq Node
BY DEF ToSet

-----------------------------------------------------------------------------
\* When the lost nodes are what a trace does not find, the graph is sealed.
LEMMA GarbageSeals ==
  ASSUME TypeOK, NoDangling, Tidy
  PROVE  /\ Garbage \subseteq live /\ Bridge \notin Garbage
         /\ \A n \in Node \ Garbage : neighbours[n] \cap Garbage = {}
<1>1. Bridge \in Reachable(Node, neighbours, Bridge)
  BY ChurnAssumption, ReachableRoot
<1>2. ASSUME NEW n \in Node \ Garbage
      PROVE  neighbours[n] \cap Garbage = {}
  <2>1. CASE n \in live
    <3>1. n \in Reachable(Node, neighbours, Bridge)
      BY <1>2, <2>1 DEF Garbage
    <3>2. neighbours[n] \subseteq Reachable(Node, neighbours, Bridge)
      BY <3>1, ChurnAssumption, ReachableClosed DEF TypeOK
    <3> QED
      BY <3>2 DEF Garbage
  <2>2. CASE n \notin live
    BY <2>2 DEF Tidy
  <2> QED
    BY <2>1, <2>2
<1> QED
  BY <1>1, <1>2 DEF Garbage

\* createGraph makes a region without dangling pointers, and sealed.
LEMMA InitIInv == Init => IInv
<1> SUFFICES ASSUME Init
             PROVE  IInv
  OBVIOUS
<1>1. /\ neighbours \in [Node -> SUBSET live] /\ live \subseteq Node /\ Bridge \in live
      /\ \A n \in Node \ live : neighbours[n] = {}
  BY DEF Init, PartiallyConnected
<1>2. lost = Garbage /\ lost \subseteq live
  BY DEF Init, Garbage
<1>3. TypeOK
  BY <1>1, <1>2, EmptyToSet, ChurnAssumption DEF Init, TypeOK
<1>4. NoDangling /\ Tidy
  BY <1>1, EmptyToSet DEF Init, NoDangling, Tidy, InWorkingSet
<1>5. Sealed
  BY <1>2, <1>3, <1>4, GarbageSeals, EmptyToSet DEF Init, Sealed, InWorkingSet
<1> QED
  BY <1>3, <1>4, <1>5 DEF IInv

\* The end of a churn takes stock of what is lost.
LEMMA ReturnIInv ==
  ASSUME IInv, Return, count' = 0, UNCHANGED <<live, neighbours>>
  PROVE  IInv'
<1>1. TypeOK /\ NoDangling /\ Tidy
  BY DEF IInv
<1>2. InWorkingSet' = {} /\ workingSet' = <<>> /\ workingSet' \in Seq(Node)
  BY EmptyToSet DEF Return, InWorkingSet
<1>3. lost' = Garbage /\ Garbage \subseteq live
  BY DEF Return, Garbage
<1>4. TypeOK'
  BY <1>1, <1>2, <1>3, ChurnAssumption DEF TypeOK, Return
<1>5. NoDangling' /\ Tidy'
  BY <1>1, <1>2 DEF NoDangling, Tidy, Return
<1>6. Sealed'
  BY <1>1, <1>2, <1>3, GarbageSeals DEF Sealed, Return
<1> QED
  BY <1>4, <1>5, <1>6 DEF IInv

-----------------------------------------------------------------------------
\* One step of the walk follows an arc of a node that is not lost.
LEMMA WalkIInv == IInv /\ Walk => IInv'
<1> SUFFICES ASSUME IInv, Walk
             PROVE  IInv'
  OBVIOUS
<1>1. PICK dst \in neighbours[cur] :
          /\ workingSet' = Append(workingSet, dst)
          /\ neighbours' = [neighbours EXCEPT ![cur] = @ \ {dst}]
          /\ cur' = dst
  BY DEF Walk
<1>2. TypeOK /\ NoDangling /\ Tidy /\ Sealed /\ UNCHANGED <<live, stage, count, lost>> /\ stage = "walk"
  BY DEF IInv, Walk
<1>3. cur \in live /\ cur \in Node \ lost /\ dst \in live /\ dst \in Node \ lost
  BY <1>2 DEF TypeOK, NoDangling, Sealed
<1>4. /\ InWorkingSet' = InWorkingSet \cup {dst} /\ workingSet' \in Seq(Node)
      /\ Len(workingSet') = Len(workingSet) + 1
  BY <1>1, <1>2, <1>3, AppendToSet DEF InWorkingSet, TypeOK
<1>5. \A n \in Node : neighbours'[n] \subseteq neighbours[n]
  BY <1>1, <1>2 DEF TypeOK
<1>6. TypeOK'
  <2>1. Len(workingSet') <= WorkingSetSize
    <3>1. Len(workingSet) < WorkingSetSize /\ Len(workingSet) \in Nat
      BY <1>2 DEF Walk, CanWalk, TypeOK
    <3> QED
      BY <3>1, <1>4, ChurnAssumption
  <2>2. neighbours' \in [Node -> SUBSET Node]
    BY <1>1, <1>2 DEF TypeOK
  <2> QED
    BY <1>1, <1>2, <1>3, <1>4, <2>1, <2>2 DEF TypeOK
<1>7. NoDangling'
  BY <1>1, <1>2, <1>3, <1>4, <1>5 DEF NoDangling, TypeOK
<1>8. Tidy'
  BY <1>2, <1>5 DEF Tidy
<1>9. Sealed'
  BY <1>1, <1>2, <1>3, <1>4, <1>5 DEF Sealed
<1> QED
  BY <1>6, <1>7, <1>8, <1>9 DEF IInv

\* A new node is at an address that is not allocated, so not one that is lost,
\* and has no arcs.
LEMMA CreateIInv == IInv /\ Create => IInv'
<1> SUFFICES ASSUME IInv, Create
             PROVE  IInv'
  OBVIOUS
<1>1. PICK n \in Node \ live : live' = live \cup {n} /\ workingSet' = Append(workingSet, n)
  BY DEF Create
<1>2. /\ TypeOK /\ NoDangling /\ Tidy /\ Sealed
      /\ UNCHANGED <<neighbours, stage, cur, lost>> /\ count' = count + 1 /\ stage = "create"
  BY DEF IInv, Create
<1>3. /\ InWorkingSet' = InWorkingSet \cup {n} /\ workingSet' \in Seq(Node)
      /\ Len(workingSet') = Len(workingSet) + 1
  BY <1>1, <1>2, AppendToSet DEF InWorkingSet, TypeOK
<1>4. Len(workingSet') <= WorkingSetSize /\ count' \in 0..WorkingSetSize /\ count' <= Len(workingSet')
  <2>1. /\ Len(workingSet) < WorkingSetSize /\ Len(workingSet) \in Nat
        /\ count \in Nat /\ count <= Len(workingSet)
    BY <1>2 DEF Create, CanCreate, TypeOK, Tidy
  <2> QED
    BY <2>1, <1>2, <1>3, ChurnAssumption
<1>5. neighbours[n] = {} /\ n \notin lost
  BY <1>1, <1>2 DEF Tidy, Sealed
<1>6. TypeOK'
  BY <1>1, <1>2, <1>3, <1>4 DEF TypeOK
<1>7. NoDangling'
  BY <1>1, <1>2, <1>3, <1>5 DEF NoDangling
<1>8. Tidy' /\ Sealed'
  BY <1>1, <1>2, <1>3, <1>4, <1>5 DEF Tidy, Sealed
<1> QED
  BY <1>6, <1>7, <1>8 DEF IInv

\* Both nodes of a pair are in the working set.
LEMMA PairsOfWorkingSet ==
    TypeOK => \A p \in Pairs : p[1] \in InWorkingSet /\ p[2] \in InWorkingSet
<1> SUFFICES ASSUME TypeOK, NEW p \in Pairs
             PROVE  p[1] \in InWorkingSet /\ p[2] \in InWorkingSet
  OBVIOUS
<1>1. PICK q \in (1..Len(workingSet)) \X (1..Len(workingSet)) :
          p = <<workingSet[q[1]], workingSet[q[2]]>>
  BY DEF Pairs
<1>2. DOMAIN workingSet = 1..Len(workingSet)
  BY DEF TypeOK
<1> QED
  BY <1>1, <1>2 DEF InWorkingSet, ToSet

\* Nodes that are linked are nodes of the working set.
LEMMA LinkIInv == IInv /\ Link => IInv'
<1> SUFFICES ASSUME IInv, Link
             PROVE  IInv'
  OBVIOUS
<1>1. PICK p \in Pairs : neighbours' = [neighbours EXCEPT ![p[1]] = @ \cup {p[2]}]
  BY DEF Link
<1>2. /\ TypeOK /\ NoDangling /\ Tidy /\ Sealed /\ stage = "link" /\ count' = count + 1
      /\ UNCHANGED <<live, stage, cur, workingSet, lost>> /\ count < WorkingSetSize
  BY DEF IInv, Link
<1>3. p[1] \in InWorkingSet /\ p[2] \in InWorkingSet
  BY <1>1, <1>2, PairsOfWorkingSet
<1>4. InWorkingSet \subseteq Node
  BY <1>2, ToSetNodes DEF InWorkingSet, TypeOK
<1>5. \A n \in Node : neighbours'[n] = IF n = p[1] THEN neighbours[n] \cup {p[2]} ELSE neighbours[n]
  BY <1>1, <1>2, <1>3, <1>4 DEF TypeOK
<1>6. InWorkingSet' = InWorkingSet
  BY <1>2 DEF InWorkingSet
<1>7. TypeOK'
  <2>1. neighbours' \in [Node -> SUBSET Node]
    BY <1>1, <1>2, <1>3, <1>4 DEF TypeOK
  <2>2. count' \in 0..WorkingSetSize
    BY <1>2, ChurnAssumption DEF TypeOK
  <2> QED
    BY <1>2, <2>1, <2>2 DEF TypeOK
<1>8. NoDangling'
  <2>1. p[2] \in live
    BY <1>2, <1>3 DEF NoDangling
  <2>2. \A n \in live : neighbours'[n] \subseteq live
    BY <1>2, <1>5, <2>1 DEF NoDangling, TypeOK
  <2> QED
    BY <1>2, <1>6, <2>2 DEF NoDangling
<1>9. Tidy'
  BY <1>2, <1>3, <1>5 DEF Tidy, NoDangling
<1>10. Sealed'
  BY <1>2, <1>3, <1>5, <1>6 DEF Sealed
<1> QED
  BY <1>7, <1>8, <1>9, <1>10 DEF IInv

\* A collection frees what a trace does not find, and nothing points to that.
LEMMA CollectIInv == IInv /\ Collect => IInv'
<1> SUFFICES ASSUME IInv, Collect
             PROVE  IInv'
  OBVIOUS
<1>1. /\ TypeOK /\ NoDangling /\ Tidy /\ Sealed /\ stage = "idle"
      /\ UNCHANGED <<stage, cur, workingSet, count>> /\ lost' = lost \cap live'
      /\ live' = live \cap Kept
      /\ neighbours' = [n \in Node |-> IF n \in live' THEN neighbours[n] ELSE {}]
  BY DEF IInv, Collect
<1>2. Bridge \in live' /\ live' \subseteq live /\ lost' = {}
  <2>1. Bridge \in Kept /\ Kept \cap lost = {}
    BY <1>1, ChurnAssumption, ReachableRoot, SealedUnreachable DEF Kept
  <2> QED
    BY <1>1, <2>1 DEF NoDangling
<1>3. ASSUME NEW n \in live'
      PROVE  neighbours'[n] \subseteq live'
  <2>1. n \in live /\ n \in Kept /\ neighbours'[n] = neighbours[n] /\ n \in Node
    BY <1>1, <1>3 DEF TypeOK
  <2>2. neighbours[n] \subseteq Kept
    BY <1>1, <2>1, ChurnAssumption, ReachableClosed DEF Kept, TypeOK
  <2>3. neighbours[n] \subseteq live
    BY <1>1, <2>1 DEF NoDangling
  <2> QED
    BY <1>1, <2>1, <2>2, <2>3
<1>4. InWorkingSet' = {} /\ cur' = Bridge
  BY <1>1, EmptyToSet DEF InWorkingSet, Tidy
<1>5. TypeOK'
  <2>1. neighbours' \in [Node -> SUBSET Node]
    BY <1>1 DEF TypeOK
  <2> QED
    BY <1>1, <1>2, <2>1 DEF TypeOK
<1>6. NoDangling'
  BY <1>2, <1>3, <1>4 DEF NoDangling
<1>7. Tidy'
  BY <1>1 DEF Tidy
<1>8. Sealed'
  BY <1>2, <1>4 DEF Sealed
<1> QED
  BY <1>5, <1>6, <1>7, <1>8 DEF IInv

\* The steps that begin and end the parts of a churn.
LEMMA StageIInv == IInv /\ (BeginChurn \/ EndWalk \/ EndCreate \/ EndLink) => IInv'
<1> SUFFICES ASSUME IInv, BeginChurn \/ EndWalk \/ EndCreate \/ EndLink
             PROVE  IInv'
  OBVIOUS
<1>1. CASE BeginChurn
  <2>1. InWorkingSet' = InWorkingSet
    BY <1>1 DEF BeginChurn, InWorkingSet
  <2> QED
    BY <1>1, <2>1 DEF BeginChurn, IInv, TypeOK, NoDangling, Tidy, Sealed
<1>2. CASE EndWalk
  <2>1. InWorkingSet' = InWorkingSet
    BY <1>2 DEF EndWalk, InWorkingSet
  <2>2. Len(workingSet) >= 0 /\ count' \in 0..WorkingSetSize
    BY <1>2, ChurnAssumption DEF EndWalk, IInv, TypeOK
  <2> QED
    BY <1>2, <2>1, <2>2 DEF EndWalk, IInv, TypeOK, NoDangling, Tidy, Sealed
<1>3. CASE EndCreate /\ ~Return
  <2>1. /\ InWorkingSet' = InWorkingSet
        /\ stage' = "link" /\ count' = 0 /\ UNCHANGED <<live, neighbours, cur, workingSet, lost>>
    BY <1>3 DEF EndCreate, InWorkingSet
  <2>2. count' \in 0..WorkingSetSize
    BY <2>1, ChurnAssumption
  <2> QED
    BY <2>1, <2>2 DEF IInv, TypeOK, NoDangling, Tidy, Sealed
<1>4. CASE EndCreate /\ Return
  BY <1>4, ReturnIInv DEF EndCreate
<1>5. CASE EndLink
  BY <1>5, ReturnIInv DEF EndLink
<1> QED
  BY <1>1, <1>2, <1>3, <1>4, <1>5

\* Every step keeps the inductive invariant.
LEMMA NextIInv == IInv /\ [Next]_vars => IInv'
<1> SUFFICES ASSUME IInv, [Next]_vars
             PROVE  IInv'
  OBVIOUS
<1>1. CASE UNCHANGED vars
  BY <1>1 DEF vars, IInv, TypeOK, NoDangling, Tidy, Sealed, InWorkingSet
<1> QED
  BY <1>1, WalkIInv, CreateIInv, LinkIInv, CollectIInv, StageIInv DEF Next

\* The inductive invariant holds in every behaviour of the specification.
THEOREM Invariant == Spec => []IInv
  BY InitIInv, NextIInv, PTL DEF Spec

\* Type correctness of churn_region's state.
THEOREM TypeCorrect == Spec => []TypeOK
<1>1. IInv => TypeOK
  BY DEF IInv
<1> QED
  BY <1>1, Invariant, PTL

\* No arc, no local pointer and no bridge of a region leads to freed memory.
THEOREM NoPointerDangles == Spec => []NoDangling
<1>1. IInv => NoDangling
  BY DEF IInv
<1> QED
  BY <1>1, Invariant, PTL

\* Garbage is never linked to the graph, nor picked up by a churn, again.
THEOREM GarbageStaysGarbage == Spec => []NoResurrection
<1>1. IInv => NoResurrection
  BY SealedUnreachable DEF IInv, NoResurrection, Sealed
<1> QED
  BY <1>1, Invariant, PTL

-----------------------------------------------------------------------------
\* What keeps a spent region spent: a churn never leaves the bridge, so that the
\* bridge is not among the nodes it links.
Spent == neighbours[Bridge] = {} /\ cur = Bridge /\ Bridge \notin InWorkingSet

\* Every step keeps it.
LEMMA SpentKept == IInv /\ Spent /\ [Next]_vars => Spent'
<1> SUFFICES ASSUME IInv, Spent, [Next]_vars
             PROVE  Spent'
  OBVIOUS
<1>1. TypeOK /\ NoDangling /\ Bridge \in Node
  BY ChurnAssumption DEF IInv
<1>2. CASE BeginChurn \/ EndWalk \/ UNCHANGED vars
  BY <1>2 DEF BeginChurn, EndWalk, vars, Spent, InWorkingSet
<1>3. CASE Walk
  BY <1>3 DEF Walk, CanWalk, Spent
<1>4. CASE Create
  <2>1. PICK n \in Node \ live : workingSet' = Append(workingSet, n)
    BY <1>4 DEF Create
  <2>2. InWorkingSet' = InWorkingSet \cup {n}
    BY <1>1, <2>1, AppendToSet DEF InWorkingSet, TypeOK
  <2>3. n # Bridge
    BY <1>1, <2>1 DEF NoDangling
  <2> QED
    BY <1>4, <2>2, <2>3 DEF Create, Spent
<1>5. CASE Return /\ UNCHANGED neighbours
  BY <1>5, EmptyToSet DEF Return, Spent, InWorkingSet
<1>6. CASE EndCreate \/ EndLink
  BY <1>5, <1>6 DEF EndCreate, EndLink, Spent, InWorkingSet
<1>7. CASE Link
  <2>1. PICK p \in Pairs : neighbours' = [neighbours EXCEPT ![p[1]] = @ \cup {p[2]}]
    BY <1>7 DEF Link
  <2>2. p[1] \in InWorkingSet
    BY <1>1, <2>1, PairsOfWorkingSet
  <2>3. neighbours'[Bridge] = neighbours[Bridge]
    BY <1>1, <2>1, <2>2 DEF Spent, TypeOK
  <2> QED
    BY <1>7, <2>3 DEF Link, Spent, InWorkingSet
<1>8. CASE Collect
  BY <1>1, <1>8 DEF Collect, Spent, InWorkingSet
<1> QED
  BY <1>2, <1>3, <1>4, <1>6, <1>7, <1>8 DEF Next

\* A region whose bridge has no arc when a behaviour ends is spent for good.
THEOREM SpentStaysSpent == Spec => SpentForever
<1>1. IInv /\ stage = "idle" /\ neighbours[Bridge] = {} => Spent
  BY EmptyToSet DEF IInv, Tidy, NoDangling, Spent, InWorkingSet
<1>2. Spent => neighbours[Bridge] = {}
  BY DEF Spent
<1> QED
  BY <1>1, <1>2, SpentKept, Invariant, PTL DEF Spec, SpentForever

==============================================================================
