--------------------------- MODULE GridWalkersProofs --------------------------
(***************************************************************************)
(* test_walker for grids of any size and any number of steps and walkers:  *)
(* links come in pairs, and the freed part of the grid stays apart from    *)
(* the live one, although walkers go on reading and cutting links of freed *)
(* nodes.  Hence a trace finds live nodes only, and on a trace region the  *)
(* benchmark's check never fails.                                          *)
(***************************************************************************)
EXTENDS GridWalkers, FiniteSetTheorems, TLAPS

\* While the loop over the steps runs there is a step left.
InLoop == pc \in {"walk", "check"} => step < NumSteps

\* What IInv adds to the two properties: the root is never freed.
IInv ==
    /\ LinksPaired
    /\ FreedApart
    /\ InLoop
    /\ Root \in live

-----------------------------------------------------------------------------
\* The grid

\* The nodes are pairs of numbers, finitely many, and none is Null.
LEMMA NodeFacts ==
  /\ Root \in Node /\ Null \notin Node
  /\ IsFiniteSet(Node) /\ Cardinality(Node) = GridSize * GridSize
  /\ \A n \in Node : n = <<n[1], n[2]>> /\ n[1] \in Row /\ n[2] \in Row
  /\ Row \subseteq Nat
<1>1. IsFiniteSet(Row) /\ Cardinality(Row) = GridSize /\ Row \subseteq Nat /\ 0 \in Row
  <2>1. GridSize - 1 \in Int /\ 0 \in Int /\ ~(0 > GridSize - 1) /\ GridSize \in Nat
    BY GridWalkersAssumption
  <2>2. IsFiniteSet(0..(GridSize - 1)) /\ Cardinality(0..(GridSize - 1)) = (GridSize - 1) - 0 + 1
    BY <2>1, FS_Interval
  <2> QED
    BY <2>1, <2>2 DEF Row
<1>2. IsFiniteSet(Node) /\ Cardinality(Node) = GridSize * GridSize
  BY <1>1, FS_Product DEF Node
<1>3. Node \subseteq Nat \X Nat
  BY <1>1 DEF Node
<1>4. \A n \in Node : n = <<n[1], n[2]>> /\ n[1] \in Row /\ n[2] \in Row
  BY DEF Node
<1>5. Root \in Node
  BY <1>1 DEF Node, Root
<1> QED
  BY <1>1, <1>2, <1>3, <1>4, <1>5, GridWalkersAssumption

\* Turning around twice is not turning at all.
LEMMA OppositeFacts ==
  ASSUME NEW d \in Dir
  PROVE  Opposite[d] \in Dir /\ Opposite[Opposite[d]] = d /\ Opposite[d] # d
BY DEF Dir, Opposite

\* The grid is linked in pairs.
LEMMA GridLinkPaired ==
  /\ GridLink \in [Node -> [Dir -> Node \cup {Null}]]
  /\ \A n \in Node, d \in Dir :
        GridLink[n][d] # Null => GridLink[GridLink[n][d]][Opposite[d]] = n
<1> DEFINE to(n, d) == <<n[1] + Offset[d][1], n[2] + Offset[d][2]>>
<1>1. \A n \in Node, d \in Dir :
         GridLink[n][d] = IF to(n, d) \in Node THEN to(n, d) ELSE Null
  BY DEF GridLink
<1>2. GridLink \in [Node -> [Dir -> Node \cup {Null}]]
  BY DEF GridLink
<1>3. ASSUME NEW n \in Node, NEW d \in Dir, to(n, d) \in Node
      PROVE  to(to(n, d), Opposite[d]) = n
  <2>1. n = <<n[1], n[2]>> /\ n[1] \in Nat /\ n[2] \in Nat
    BY NodeFacts
  <2>2. CASE d = "down"
    BY <2>1, <2>2 DEF Offset, Opposite
  <2>3. CASE d = "up"
    BY <2>1, <2>3 DEF Offset, Opposite
  <2>4. CASE d = "right"
    BY <2>1, <2>4 DEF Offset, Opposite
  <2>5. CASE d = "left"
    BY <2>1, <2>5 DEF Offset, Opposite
  <2> QED
    BY <2>2, <2>3, <2>4, <2>5 DEF Dir
<1> HIDE DEF to
<1>4. ASSUME NEW n \in Node, NEW d \in Dir, GridLink[n][d] # Null
      PROVE  GridLink[GridLink[n][d]][Opposite[d]] = n
  <2>1. to(n, d) \in Node /\ GridLink[n][d] = to(n, d)
    BY <1>1, <1>4
  <2> QED
    BY <1>1, <1>3, <2>1, OppositeFacts
<1> QED
  BY <1>2, <1>4

-----------------------------------------------------------------------------
\* Tracing

\* A trace holds the root and follows every link.
LEMMA TracedClosed ==
  ASSUME TypeOK
  PROVE  /\ Root \in Traced /\ Traced \subseteq Node
         /\ \A n \in Traced, d \in Dir : link[n][d] # Null => link[n][d] \in Traced
<1>1. Root \in Traced /\ Traced \subseteq Node
  BY NodeFacts DEF Traced, Reachable, ClosedFrom
<1>2. ASSUME NEW n \in Traced, NEW d \in Dir, link[n][d] # Null
      PROVE  link[n][d] \in Traced
  <2>1. n \in Node /\ link[n][d] \in Node /\ link[n][d] \in Follow(Dir)[n]
    BY <1>1, <1>2 DEF TypeOK, Follow
  <2>2. \A S \in ClosedFrom(Node, Follow(Dir), Root) : n \in S
    BY DEF Traced, Reachable
  <2> QED
    BY <2>1, <2>2 DEF Traced, Reachable, ClosedFrom
<1> QED
  BY <1>1, <1>2

\* What a trace finds has not been freed.
LEMMA TracedLive ==
  ASSUME IInv
  PROVE  Traced \subseteq live
<1>1. \A n \in live : Follow(Dir)[n] \subseteq live
  BY DEF IInv, LinksPaired, TypeOK, FreedApart, Follow
<1>2. live \in ClosedFrom(Node, Follow(Dir), Root)
  BY <1>1 DEF IInv, LinksPaired, TypeOK, ClosedFrom
<1> QED
  BY <1>2 DEF Traced, Reachable

-----------------------------------------------------------------------------
\* The steps of test_walker

\* A walker is on a node, and the next turn is somebody's.
LEMMA TurnFacts ==
  ASSUME TypeOK
  PROVE  /\ walkers[turn] \in Node
         /\ NextTurn => turn' \in DOMAIN walkers
         /\ \A n \in Node : /\ [walkers EXCEPT ![turn] = n] \in WalkerArrays
                            /\ DOMAIN [walkers EXCEPT ![turn] = n] = DOMAIN walkers
<1>1. PICK k \in 1..MaxWalkers : walkers \in [1..k -> Node]
  BY DEF TypeOK, WalkerArrays
<1>2. k \in Nat \ {0} /\ DOMAIN walkers = 1..k /\ turn \in 1..k
  BY <1>1, GridWalkersAssumption DEF TypeOK
<1>3. Len(walkers) = k
  BY <1>1, <1>2
<1>4. walkers[turn] \in Node
  BY <1>1, <1>2
<1>5. NextTurn => turn' \in DOMAIN walkers
  BY <1>2, <1>3 DEF NextTurn
<1>6. ASSUME NEW n \in Node
      PROVE  /\ [walkers EXCEPT ![turn] = n] \in WalkerArrays
             /\ DOMAIN [walkers EXCEPT ![turn] = n] = DOMAIN walkers
  BY <1>1, <1>2 DEF WalkerArrays
<1> QED
  BY <1>4, <1>5, <1>6

\* Cutting the link back from where a walker has gone cuts both ends of it.
LEMMA KillLinkBack ==
  ASSUME LinksPaired, NEW n \in Node, NEW d \in Options(n)
  PROVE  LET cut == KillLink(link[n][d], Opposite[d])
         IN  /\ cut \in [Node -> [Dir -> Node \cup {Null}]]
             /\ \A p \in Node, e \in Dir :
                   cut[p][e] = IF <<p, e>> \in {<<n, d>>, <<link[n][d], Opposite[d]>>}
                               THEN Null ELSE link[p][e]
<1> DEFINE m == link[n][d]
<1>1. /\ d \in Dir /\ m \in Node /\ m # Null /\ n # Null
      /\ Opposite[d] \in Dir /\ Opposite[Opposite[d]] = d
      /\ link \in [Node -> [Dir -> Node \cup {Null}]]
  BY NodeFacts, OppositeFacts DEF Options, LinksPaired, TypeOK
<1>2. link[m][Opposite[d]] = n
  BY <1>1 DEF LinksPaired
<1> HIDE DEF m
<1>3. KillLink(m, Opposite[d]) = [link EXCEPT ![n][d] = Null, ![m][Opposite[d]] = Null]
  BY <1>1, <1>2 DEF KillLink
<1> DEFINE cut == [link EXCEPT ![n][d] = Null, ![m][Opposite[d]] = Null]
<1>4. cut \in [Node -> [Dir -> Node \cup {Null}]]
  BY <1>1
<1>5. \A p \in Node, e \in Dir :
         cut[p][e] = IF (p = n /\ e = d) \/ (p = m /\ e = Opposite[d]) THEN Null ELSE link[p][e]
  BY <1>1
<1> HIDE DEF cut
<1>6. \A p \in Node, e \in Dir :
         cut[p][e] = IF <<p, e>> \in {<<n, d>>, <<m, Opposite[d]>>} THEN Null ELSE link[p][e]
  BY <1>5
<1>7. KillLink(m, Opposite[d]) = cut
  BY <1>3 DEF cut
<1> QED
  BY <1>4, <1>6, <1>7 DEF m

\* A walker's turn: links go in pairs.
LEMMA WalkIInv ==
  ASSUME IInv, Walk
  PROVE  IInv'
<1> DEFINE n == walkers[turn]
<1>1. LinksPaired /\ FreedApart /\ TypeOK /\ InLoop /\ Root \in live
  BY DEF IInv, LinksPaired
<1>2. PICK d \in Options(n) : link' = KillLink(link[n][d], Opposite[d])
  BY DEF Walk
<1>3. n \in Node /\ turn' \in DOMAIN walkers
  BY <1>1, TurnFacts DEF Walk
<1> HIDE DEF n
<1> DEFINE m == link[n][d]
<1>4. d \in Dir /\ m \in Node /\ m # Null /\ link[m][Opposite[d]] = n
  BY <1>1, <1>3 DEF Options, LinksPaired, TypeOK
<1>5. /\ link' \in [Node -> [Dir -> Node \cup {Null}]]
      /\ \A p \in Node, e \in Dir :
            link'[p][e] = IF <<p, e>> \in {<<n, d>>, <<m, Opposite[d]>>} THEN Null ELSE link[p][e]
  BY <1>1, <1>2, <1>3, KillLinkBack
<1> HIDE DEF m
<1>6. TypeOK' /\ InLoop' /\ Root \in live'
  BY <1>1, <1>3, <1>5 DEF Walk, NextTurn, TypeOK, InLoop
<1>7. ASSUME NEW p \in Node, NEW e \in Dir, link'[p][e] # Null
      PROVE  link'[link'[p][e]][Opposite[e]] = p
  <2> DEFINE q == link[p][e]
  <2>1. link'[p][e] = q /\ q \in Node /\ q # Null /\ link[q][Opposite[e]] = p
    BY <1>1, <1>5, <1>7 DEF LinksPaired, TypeOK
  <2> HIDE DEF q
  <2>2. <<p, e>> # <<n, d>> /\ <<p, e>> # <<m, Opposite[d]>>
    BY <1>5, <1>7
  <2>3. Opposite[e] \in Dir /\ Opposite[Opposite[e]] = e /\ Opposite[Opposite[d]] = d
    BY <1>4, OppositeFacts
  <2>4. <<q, Opposite[e]>> # <<n, d>>
    BY <2>1, <2>2, <2>3 DEF m
  <2>5. <<q, Opposite[e]>> # <<m, Opposite[d]>>
    BY <1>4, <2>1, <2>2, <2>3
  <2> QED
    BY <1>5, <2>1, <2>3, <2>4, <2>5
<1>8. FreedApart'
  BY <1>1, <1>5 DEF FreedApart, Walk
<1> QED
  BY <1>6, <1>7, <1>8 DEF IInv, LinksPaired

\* A walker is put elsewhere, or reads what has been freed.
LEMMA TurnIInv ==
  ASSUME IInv, Respawn \/ Fault
  PROVE  IInv'
<1>1. LinksPaired /\ FreedApart /\ TypeOK /\ InLoop /\ Root \in live
  BY DEF IInv, LinksPaired
<1>2. CASE Respawn
  <2>1. PICK n \in Node : walkers' = [walkers EXCEPT ![turn] = n]
    BY <1>2 DEF Respawn
  <2>2. turn' \in DOMAIN walkers' /\ walkers' \in WalkerArrays
    BY <1>1, <1>2, <2>1, TurnFacts DEF Respawn
  <2> QED
    BY <1>1, <1>2, <2>2 DEF Respawn, NextTurn, IInv, LinksPaired, TypeOK, FreedApart, InLoop
<1>3. CASE Fault
  BY <1>1, <1>3 DEF Fault, IInv, LinksPaired, TypeOK, FreedApart, InLoop
<1> QED
  BY <1>2, <1>3

\* The end of a step on a trace region: the heap is what the count says.
LEMMA CheckHolds ==
  ASSUME IInv, RegionType = "Trace"
  PROVE  Inaccessible + Cardinality(Collected) = GridSize * GridSize
<1>1. Traced \subseteq Node /\ Traced \subseteq live
  BY TracedClosed, TracedLive DEF IInv, LinksPaired
<1>2. Collected = Traced
  BY <1>1 DEF Collected
<1>3. Cardinality(Traced) \in Nat /\ Cardinality(Node) \in Nat
  BY <1>1, NodeFacts, FS_Subset, FS_CardinalityType
<1>4. Inaccessible = Cardinality(Node) - Cardinality(Traced)
  BY DEF Inaccessible, Traced
<1> QED
  BY <1>2, <1>3, <1>4, NodeFacts

\* A collection frees a node together with all it is linked to.
LEMMA CheckStepIInv ==
  ASSUME IInv, CheckStep
  PROVE  IInv' /\ (RegionType = "Trace" => pc' # "failed")
<1> DEFINE holds == Inaccessible + Cardinality(live') = GridSize * GridSize
<1>1. LinksPaired /\ FreedApart /\ TypeOK /\ InLoop /\ Root \in live
  BY DEF IInv, LinksPaired
<1>2. /\ pc = "check" /\ live' = Collected /\ UNCHANGED <<turn, link, walkers>>
      /\ step' = IF holds THEN step + 1 ELSE step
      /\ pc' = IF ~holds THEN "failed" ELSE IF step' = NumSteps THEN "done" ELSE "walk"
  BY DEF CheckStep
<1>3. RegionType = "Trace" => holds
  BY <1>2, CheckHolds
<1> HIDE DEF holds
<1>4. live' \subseteq live /\ (live' = live \/ live' = live \cap Traced)
  BY <1>2 DEF Collected
<1>5. step' \in 0..NumSteps /\ InLoop'
  BY <1>1, <1>2, GridWalkersAssumption DEF TypeOK, InLoop
<1>6. TypeOK' /\ LinksPaired'
  BY <1>1, <1>2, <1>4, <1>5 DEF TypeOK, LinksPaired
<1>7. Root \in live'
  BY <1>1, <1>4, TracedClosed
<1>8. ASSUME NEW n \in Node, NEW d \in Dir, link[n][d] # Null
      PROVE  n \in live' <=> link[n][d] \in live'
  <2> DEFINE m == link[n][d]
  <2>1. m \in Node /\ (n \in live <=> m \in live) /\ link[m][Opposite[d]] = n /\ Opposite[d] \in Dir
    BY <1>1, <1>8, OppositeFacts DEF TypeOK, FreedApart, LinksPaired
  <2>2. n # Null
    BY NodeFacts
  <2>3. n \in Traced <=> m \in Traced
    BY <1>1, <1>8, <2>1, <2>2, TracedClosed
  <2> QED
    BY <1>4, <2>1, <2>3
<1>9. FreedApart'
  BY <1>2, <1>8 DEF FreedApart
<1> QED
  BY <1>2, <1>3, <1>5, <1>6, <1>7, <1>9 DEF IInv

\* The grid before the first step.
LEMMA InitIInv == Init => IInv
<1> SUFFICES ASSUME Init
             PROVE  IInv
  OBVIOUS
<1>1. PICK k \in 1..MaxWalkers : walkers \in [1..k -> Node]
  BY DEF Init, WalkerArrays
<1>2. turn \in DOMAIN walkers
  BY <1>1, GridWalkersAssumption DEF Init
<1>3. TypeOK /\ InLoop
  BY <1>2, GridLinkPaired, GridWalkersAssumption DEF Init, TypeOK, InLoop
<1>4. LinksPaired
  BY <1>3, GridLinkPaired DEF Init, LinksPaired
<1>5. \A n \in Node, d \in Dir : link[n][d] # Null => link[n][d] \in Node
  BY <1>3 DEF TypeOK
<1>6. FreedApart /\ Root \in live
  BY <1>5, NodeFacts DEF Init, FreedApart
<1> QED
  BY <1>3, <1>4, <1>6 DEF IInv

\* Every step keeps the inductive invariant.
LEMMA NextIInv == IInv /\ [Next]_vars => IInv'
<1> SUFFICES ASSUME IInv, [Next]_vars
             PROVE  IInv'
  OBVIOUS
<1>1. CASE UNCHANGED vars
  BY <1>1 DEF vars, loopVars, IInv, LinksPaired, TypeOK, FreedApart, InLoop
<1> QED
  BY <1>1, WalkIInv, TurnIInv, CheckStepIInv DEF Next

\* The inductive invariant holds in every behaviour of the specification.
THEOREM Invariant == Spec => []IInv
BY InitIInv, NextIInv, PTL DEF Spec

-----------------------------------------------------------------------------
\* Whatever walkers do to links, also to those of freed nodes, each link that is
\* left has its other end.
THEOREM LinksStayPaired == Spec => []LinksPaired
<1>1. IInv => LinksPaired
  BY DEF IInv
<1> QED
  BY <1>1, Invariant, PTL

\* No link joins the live part of the grid to the freed one.  Walkers may stand on
\* freed nodes all the same.
THEOREM FreedStaysApart == Spec => []FreedApart
<1>1. IInv => FreedApart
  BY DEF IInv
<1> QED
  BY <1>1, Invariant, PTL

\* On a trace region the check on the heap never fails, for any grid, walkers and
\* number of steps.
THEOREM ChecksHoldOnTrace == RegionType = "Trace" => (Spec => []ChecksHold)
<1> SUFFICES ASSUME RegionType = "Trace"
             PROVE  Spec => []ChecksHold
  OBVIOUS
<1>1. Init => ChecksHold
  BY DEF Init, ChecksHold
<1>2. IInv /\ ChecksHold /\ [Next]_vars => ChecksHold'
  <2> SUFFICES ASSUME IInv, ChecksHold, [Next]_vars
               PROVE  ChecksHold'
    OBVIOUS
  <2>1. CASE CheckStep
    BY <2>1, CheckStepIInv DEF ChecksHold
  <2>2. CASE Walk \/ Respawn \/ Fault \/ UNCHANGED vars
    BY <2>2 DEF Walk, Respawn, Fault, NextTurn, vars, loopVars, ChecksHold
  <2> QED
    BY <2>1, <2>2 DEF Next
<1> QED
  BY <1>1, <1>2, Invariant, PTL DEF Spec

===============================================================================
