------------------------------ MODULE GridWalkers -----------------------------
(***************************************************************************)
(* test_walker: a square grid of doubly linked nodes in one region, whose  *)
(* links walkers destroy; after each round of walkers the benchmark counts *)
(* what it cannot reach, collects, and checks that nothing else has gone.  *)
(* The arrays grid and walkers hold raw pointers that the collections do   *)
(* not see, so that a walker may stand on a node that has been freed.      *)
(* What it reads there is undefined; the outcomes modelled are the links   *)
(* as they were, no links, and a fault.                                    *)
(***************************************************************************)
EXTENDS RegionHeap, Integers, Sequences

CONSTANTS
    GridSize,
    NumSteps,
    MaxWalkers,   \* bound: the largest number of walkers asked for
    RegionType,   \* the type the test is instantiated with
    Null

ASSUME GridWalkersAssumption ==
    /\ GridSize \in Nat \ {0}
    /\ NumSteps \in Nat
    /\ MaxWalkers \in Nat \ {0}
    /\ RegionType \in {"Trace", "Rc"}
    /\ Null \notin (Nat \X Nat)

Row == 0..(GridSize - 1)
Node == Row \X Row
Root == <<0, 0>>
WalkerArrays == UNION {[1..k -> Node] : k \in 1..MaxWalkers}

Dir == {"down", "right", "up", "left"}
Opposite == [down |-> "up", up |-> "down", right |-> "left", left |-> "right"]
Offset == [down |-> <<1, 0>>, up |-> <<-1, 0>>, right |-> <<0, 1>>, left |-> <<0, -1>>]

VARIABLES
    pc,        \* "walk", "check", "done", "failed" check or memory "fault"
    step,      \* the loop over the steps
    turn,      \* the walker whose turn it is
    link,      \* link[n][d]: the node's pointer in direction d, or Null
    live,      \* the nodes not freed
    walkers    \* the array walkers

loopVars == <<pc, step, turn>>
vars == <<loopVars, link, live, walkers>>

-----------------------------------------------------------------------------
GridLink ==
    [n \in Node |-> [d \in Dir |->
        LET m == <<n[1] + Offset[d][1], n[2] + Offset[d][2]>>
        IN  IF m \in Node THEN m ELSE Null]]

Init ==
    /\ pc = IF NumSteps = 0 THEN "done" ELSE "walk"
    /\ step = 0 /\ turn = 1
    /\ link = GridLink
    /\ live = Node
    /\ walkers \in WalkerArrays

\* Mutant: the other end keeps its pointer.
KillLinkOneEnd(n, d) == [link EXCEPT ![n][d] = Null]

\* kill_link_down, _right, _up and _left.
KillLink(n, d) ==
    IF link[n][d] = Null
    THEN link
    ELSE [link EXCEPT ![link[n][d]][Opposite[d]] = Null, ![n][d] = Null]

Options(n) == {d \in Dir : link[n][d] # Null}

NextTurn ==
    /\ turn' = IF turn = Len(walkers) THEN 1 ELSE turn + 1
    /\ pc' = IF turn = Len(walkers) THEN "check" ELSE "walk"
    /\ UNCHANGED step

\* A walker with somewhere to go destroys the link it takes.  It walks as a
\* local copy of its pointer, which is not stored back into the array.
Walk ==
    /\ pc = "walk"
    /\ \E d \in Options(walkers[turn]) :
          link' = KillLink(link[walkers[turn]][d], Opposite[d])
    /\ NextTurn
    /\ UNCHANGED <<live, walkers>>

\* A walker without a link, or that finds none in the memory of a freed node,
\* is put somewhere else in the array grid, on a freed node perhaps.
Respawn ==
    /\ pc = "walk"
    /\ Options(walkers[turn]) = {} \/ walkers[turn] \notin live
    /\ \E n \in Node : walkers' = [walkers EXCEPT ![turn] = n]
    /\ NextTurn
    /\ UNCHANGED <<link, live>>

\* Reading a freed node crashes.
Fault ==
    /\ pc = "walk"
    /\ walkers[turn] \notin live
    /\ pc' = "fault"
    /\ UNCHANGED <<step, turn, link, live, walkers>>

Follow(dirs) == [n \in Node |-> {link[n][d] : d \in dirs} \ {Null}]

\* numInaccessible: freed nodes are among those not seen.
Inaccessible == Cardinality(Node) - Cardinality(Reachable(Node, Follow(Dir), Root))

\* Mutant: Node::trace leaves out one of the four links.
TracedMissesUp == Reachable(Node, Follow(Dir \ {"up"}), Root)

\* What Node::trace lets a trace from the root find.
Traced == Reachable(Node, Follow(Dir), Root)

\* region_collect: a trace region keeps what a trace finds; a reference
\* counting one keeps every node, since the test never calls decref.
Collected == IF RegionType = "Trace" THEN live \cap Traced ELSE live

\* The end of a step: count, collect and check.
CheckStep ==
    /\ pc = "check"
    /\ live' = Collected
    /\ LET holds == Inaccessible + Cardinality(live') = GridSize * GridSize
       IN  /\ step' = IF holds THEN step + 1 ELSE step
           /\ pc' = IF ~holds THEN "failed" ELSE IF step' = NumSteps THEN "done" ELSE "walk"
    /\ UNCHANGED <<turn, link, walkers>>

Next == Walk \/ Respawn \/ Fault \/ CheckStep

Spec == Init /\ [][Next]_vars

-----------------------------------------------------------------------------
TypeOK ==
    /\ pc \in {"walk", "check", "done", "failed", "fault"}
    /\ step \in 0..NumSteps
    /\ turn \in DOMAIN walkers
    /\ link \in [Node -> [Dir -> Node \cup {Null}]]
    /\ live \subseteq Node
    /\ walkers \in WalkerArrays

\* The state is well typed, and links come in pairs, whatever walkers on freed nodes have done to theirs: a
\* node can be reached from those it reaches.
LinksPaired ==
    /\ TypeOK
    /\ \A n \in Node, d \in Dir :
        link[n][d] # Null => link[link[n][d]][Opposite[d]] = n

\* No live node points to a freed one, and no freed one to a live one: a
\* walker that reads and writes freed nodes does not touch the live graph.
FreedApart ==
    \A n \in Node, d \in Dir :
        link[n][d] # Null => (n \in live <=> link[n][d] \in live)

\* The benchmark's check never fails: what its own search does not reach and what
\* the collections have left, which follow the links apart from each other, add
\* up to the grid, whatever walkers on freed nodes have done in between.
ChecksHold == pc # "failed"

==============================================================================
