----------------------------- MODULE WorkloadTree -----------------------------
(***************************************************************************)
(* run_test of workload_tree: a complete binary tree is built and then     *)
(* transformed several times into a new tree, the old one being discarded; *)
(* after each transformation the benchmark collects and checks the size of *)
(* the heap.  build_tree and transform_tree recurse alike: a node is       *)
(* allocated, then its left and its right subtree made, then both assigned *)
(* to it.  A frame of the recursion is the node and the subtrees made so   *)
(* far.  In a reference counting region the benchmark counts by hand; what *)
(* the runtime does at zero and in a collection is external.               *)
(***************************************************************************)
EXTENDS Integers, FiniteSets, Sequences, SequencesExt

CONSTANTS
    Depths,       \* the depths asked for (10 in the code)
    Transforms,   \* how many transformations (10 in the code)
    Null

ASSUME WorkloadTreeAssumption ==
    /\ Depths \subseteq Nat /\ IsFiniteSet(Depths) /\ Depths # {}
    /\ Transforms \in Nat
    /\ Null \notin Nat \cup [depth : Nat, start : Nat]

\* Bound: addresses, one for every node an arena has to hold.
Addr == 1..((Transforms + 1) * (2 ^ (CHOOSE d \in Depths : \A e \in Depths : e <= d) - 1))

VARIABLES
    rt,        \* the region type
    depth,
    pc,        \* "build", "transform", "assign", "collect", "check", "release",
               \* "done", or "failed" in a check on the heap
    i,         \* transformations complete
    stack,     \* frames [node, from, kids] of the recursion; from is the argument: the
               \* [depth, start] to build, or the old node to transform
    made,      \* <<>>, or <<the tree>> that the outermost call has returned
    current,   \* the tree of the last round
    rootLeft,  \* root->left
    heap       \* [live, left, right, value, rc]: the nodes beside the root

argVars == <<rt, depth>>
vars == <<argVars, pc, i, stack, made, current, rootLeft, heap>>

-----------------------------------------------------------------------------
\* The heap

Children(h, n) == {h.left[n], h.right[n]} \ {Null}

\* References to n from the fields of the nodes in S.
RefsFrom(h, S, n) ==
    Cardinality({p \in S : h.left[p] = n}) + Cardinality({p \in S : h.right[p] = n})

Fresh(h) == CHOOSE a \in Addr \ h.live : TRUE

\* new TreeNode() with the value.
Allocate(h, n, v) ==
    [h EXCEPT !.live = @ \cup {n}, !.left[n] = Null, !.right[n] = Null,
              !.value[n] = v, !.rc[n] = 1]

\* Frees the nodes in S, and with them the references their fields hold.
Free(h, S) ==
    [h EXCEPT !.live = @ \ S, !.rc = [n \in Addr |-> @[n] - RefsFrom(h, S, n)]]

\* Nodes referred to by used up nodes only, if at all: what a decref to zero
\* frees through trace().
UsedUp(h) ==
    LET usedUp[n \in h.live] ==
          h.rc[n] = Cardinality({p \in h.live : n \in Children(h, p) /\ usedUp[p]})
    IN  {n \in h.live : usedUp[n]}

INCREF(h, n) == IF rt = "Rc" /\ n # Null THEN [h EXCEPT !.rc[n] = @ + 1] ELSE h

DECREF(h, n) ==
    IF rt = "Rc" /\ n # Null
    THEN LET dropped == [h EXCEPT !.rc[n] = @ - 1]
         IN  IF h.rc[n] = 1 THEN Free(dropped, UsedUp(dropped)) ELSE dropped
    ELSE h

\* Mutant: the reference is dropped before it is taken.
TRANSFER_REFDropsFirst(h, n) == INCREF(DECREF(h, n), n)

TRANSFER_REF(h, n) == DECREF(INCREF(h, n), n)

\* What a trace from the nodes in S finds, a level of the tree at a time.
Marked(h, S) ==
    LET found[k \in Nat] ==
          IF k = 0 THEN S
          ELSE found[k - 1] \cup UNION {Children(h, n) : n \in found[k - 1]}
    IN  found[depth]

\* region_collect: a trace region keeps what a trace of the root finds; an arena
\* frees nothing, nor does a reference counting region, which has cycles to
\* collect only, and there are none in a tree.
Collected(h) ==
    IF rt = "Trace" THEN [h EXCEPT !.live = Marked(h, {rootLeft} \ {Null})] ELSE h

-----------------------------------------------------------------------------
\* build_tree and transform_tree

\* What the left (k = 0) or right (k = 1) subtree of a node is made from, Null
\* for a call that returns at once.
SubtreeFrom(from, k) ==
    IF pc = "build"
    THEN IF from.depth = 1 THEN Null
         ELSE [depth |-> from.depth - 1, start |-> 2 * from.start + 1 + k]
    ELSE IF k = 0 THEN heap.left[from] ELSE heap.right[from]

\* A call allocates its node, on top of the frames of its callers.
Call(callers, from) ==
    LET node == Fresh(heap)
    IN  /\ heap' = Allocate(heap, node, IF pc = "build" THEN from.start ELSE heap.value[from] + 1)
        /\ stack' = Append(callers, [node |-> node, from |-> from, kids |-> <<>>])

\* The caller, or run_test, gets the subtree n.
Return(callers, n) ==
    IF callers = <<>>
    THEN stack' = <<>> /\ made' = <<n>>
    ELSE stack' = [callers EXCEPT ![Len(callers)].kids = Append(@, n)] /\ UNCHANGED made

\* The outermost call.
Begin ==
    /\ pc \in {"build", "transform"} /\ stack = <<>> /\ made = <<>>
    /\ LET from == IF pc = "transform" THEN current
                   ELSE IF depth = 0 THEN Null ELSE [depth |-> depth, start |-> 0]
       IN  IF from = Null THEN Return(<<>>, Null) /\ UNCHANGED heap
           ELSE Call(<<>>, from) /\ UNCHANGED made
    /\ UNCHANGED <<argVars, pc, i, current, rootLeft>>

Top == Last(stack)

\* The recursive calls, the left one first.
MakeSubtree ==
    /\ stack # <<>>
    /\ Len(Top.kids) < 2
    /\ LET from == SubtreeFrom(Top.from, Len(Top.kids))
       IN  IF from = Null THEN Return(stack, Null) /\ UNCHANGED heap
           ELSE Call(stack, from) /\ UNCHANGED made
    /\ UNCHANGED <<argVars, pc, i, current, rootLeft>>

\* Mutant: the right subtree is not assigned.
AssignLeftTwice(h, n, kids) == [h EXCEPT !.left[n] = kids[1], !.right[n] = kids[1]]

Assign(h, n, kids) == [h EXCEPT !.left[n] = kids[1], !.right[n] = kids[2]]

\* The subtrees are assigned to the node, which is returned.
ReturnNode ==
    /\ stack # <<>>
    /\ Len(Top.kids) = 2
    /\ heap' = TRANSFER_REF(TRANSFER_REF(Assign(heap, Top.node, Top.kids), Top.kids[1]),
                            Top.kids[2])
    /\ Return(Front(stack), Top.node)
    /\ UNCHANGED <<argVars, pc, i, current, rootLeft>>

-----------------------------------------------------------------------------
\* run_test

\* The loop over the transformations: another one, or none.
Proceed(k) == pc' = IF k < Transforms THEN "transform" ELSE "release"

\* current and root->left become the tree made.
TakeTree ==
    /\ current' = made[1]
    /\ rootLeft' = made[1]
    /\ made' = <<>>

Built ==
    /\ pc = "build" /\ made # <<>>
    /\ TakeTree
    /\ Proceed(0)
    /\ UNCHANGED <<argVars, i, stack, heap>>

\* Mutant: the reference is kept.
DiscardKeeps ==
    /\ pc = "transform" /\ made # <<>>
    /\ current' = Null
    /\ pc' = "assign"
    /\ UNCHANGED <<argVars, i, stack, made, rootLeft, heap>>

\* discard_tree; root->left still points to the old tree.
Discard ==
    /\ pc = "transform" /\ made # <<>>
    /\ heap' = DECREF(heap, current)
    /\ current' = Null
    /\ pc' = "assign"
    /\ UNCHANGED <<argVars, i, stack, made, rootLeft>>

AssignTree ==
    /\ pc = "assign"
    /\ TakeTree
    /\ i' = i + 1
    /\ pc' = "collect"
    /\ UNCHANGED <<argVars, stack, heap>>

Collect ==
    /\ pc = "collect"
    /\ heap' = Collected(heap)
    /\ pc' = "check"
    /\ UNCHANGED <<argVars, i, stack, made, current, rootLeft>>

\* Places of a tree in breadth-first order, down to the level below the leaves.
Place == 0..(2 ^ (depth + 1) - 2)

NodeAt ==
    LET node[v \in Place] ==
          IF v = 0 THEN current
          ELSE LET parent == node[(v - 1) \div 2]
               IN  IF parent = Null THEN Null
                   ELSE IF v % 2 = 1 THEN heap.left[parent] ELSE heap.right[parent]
    IN  node

count_nodes == Cardinality({v \in Place : NodeAt[v] # Null})

\* Mutant: the root is left out of what is expected.
CheckForgetsRoot ==
    /\ pc = "check"
    /\ IF rt = "Arena" \/ Cardinality(heap.live) + 1 = count_nodes
       THEN Proceed(i)
       ELSE pc' = "failed"
    /\ UNCHANGED <<argVars, i, stack, made, current, rootLeft, heap>>

\* check(heap_after == expected), the heap holding the root too.
Check ==
    /\ pc = "check"
    /\ IF rt = "Arena" \/ Cardinality(heap.live) + 1 = count_nodes + 1
       THEN Proceed(i)
       ELSE pc' = "failed"
    /\ UNCHANGED <<argVars, i, stack, made, current, rootLeft, heap>>

\* region_release frees every node that the region still holds; then
\* heap::debug_check_empty aborts the program if one is allocated.
Release ==
    /\ pc = "release"
    /\ heap' = [heap EXCEPT !.live = {}]
    /\ pc' = IF heap'.live = {} THEN "done" ELSE "failed"
    /\ UNCHANGED <<argVars, i, stack, made, current, rootLeft>>

Init ==
    /\ rt \in {"Trace", "Arena", "Rc"}
    /\ depth \in Depths
    /\ pc = "build" /\ i = 0
    /\ stack = <<>> /\ made = <<>>
    /\ current = Null /\ rootLeft = Null
    /\ heap = [live |-> {}, left |-> [n \in Addr |-> Null], right |-> [n \in Addr |-> Null],
               value |-> [n \in Addr |-> 0], rc |-> [n \in Addr |-> 0]]

Next ==
    \/ Begin \/ MakeSubtree \/ ReturnNode
    \/ Built \/ Discard \/ AssignTree \/ Collect \/ Check \/ Release

Spec == Init /\ [][Next]_vars

\* The test runs on.
FairSpec == Spec /\ WF_vars(Next)

-----------------------------------------------------------------------------
TypeOK ==
    /\ rt \in {"Trace", "Arena", "Rc"} /\ depth \in Depths
    /\ pc \in {"build", "transform", "assign", "collect", "check", "release",
               "done", "failed"}
    /\ i \in 0..Transforms
    /\ Len(stack) <= depth
    /\ \A k \in 1..Len(stack) :
          /\ stack[k].node \in Addr
          /\ stack[k].kids \in Seq(Addr \cup {Null}) /\ Len(stack[k].kids) <= 2
    /\ made \in Seq(Addr \cup {Null}) /\ Len(made) <= 1
    /\ {current, rootLeft} \subseteq Addr \cup {Null}
    /\ heap.live \subseteq Addr
    /\ {heap.left, heap.right} \subseteq [Addr -> Addr \cup {Null}]
    /\ heap.value \in [Addr -> Nat] /\ heap.rc \in [Addr -> Nat]

\* The locals that own node n: the frames that made it or were given it, and
\* those of run_test.
Owners(n) ==
    Cardinality({k \in 1..Len(stack) : stack[k].node = n})
    + Cardinality({p \in (1..Len(stack)) \X (1..2) :
                     p[2] <= Len(stack[p[1]].kids) /\ stack[p[1]].kids[p[2]] = n})
    + Cardinality({k \in 1..Len(made) : made[k] = n})
    + (IF current = n THEN 1 ELSE 0)

\* In a reference counting region the count of a node is the number of fields
\* and locals that own it, the uncounted root->left left aside: TRANSFER_REF
\* hands a subtree from a local to a field.
RcExact ==
    rt = "Rc" => \A n \in heap.live : heap.rc[n] = RefsFrom(heap, heap.live, n) + Owners(n)

\* The state is well typed, and no field of a node in the heap and no local points to a freed node; nor does
\* root->left, but between the discarding of the old tree and its assignment.
NoDangling ==
    /\ TypeOK
    /\ pc # "done" =>
        /\ \A n \in heap.live : Children(heap, n) \subseteq heap.live
        /\ \A n \in Addr : Owners(n) > 0 => n \in heap.live
        /\ pc = "transform" => \A k \in 1..Len(stack) : stack[k].from \in heap.live
        /\ pc # "assign" /\ rootLeft # Null => rootLeft \in heap.live

\* The current tree is complete and each transformation has added one to every
\* value: it is neither changed while the next one is made from it nor by the
\* discarding and the collection of the one before.
TreeComplete ==
    pc \notin {"build", "assign", "done"} =>
        \A v \in Place :
            IF v >= 2 ^ depth - 1 THEN NodeAt[v] = Null
            ELSE NodeAt[v] \in heap.live /\ heap.value[NodeAt[v]] = v + i

\* All transformations are made, and neither the check on the heap after each of
\* them fails, reference counting freeing the old tree when it is discarded and a
\* trace in the collection, nor the one that the heap is empty in the end.
Ends == <>(pc = "done")

===============================================================================
