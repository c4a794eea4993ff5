----------------------------- MODULE RegionHeap -----------------------------
(***************************************************************************)
(* What the benchmarks rely on in a region of the Verona runtime: which    *)
(* objects a trace of the region finds, and which objects the collection   *)
(* of a region of each type may free.  The runtime is not part of this     *)
(* repository; these operators state what the benchmark code assumes of    *)
(* it.  An object graph is a function succ from objects to sets of         *)
(* objects: succ[o] is what o.trace(st) pushes.                            *)
(***************************************************************************)
EXTENDS Naturals, FiniteSets

\* The sets of objects that hold root and everything their members point to.
ClosedFrom(Obj, succ, root) ==
    {S \in SUBSET Obj : root \in S /\ \A o \in S : succ[o] \subseteq S}

\* What a trace from root marks: the least set closed under succ.
Reachable(Obj, succ, root) ==
    LET closed == ClosedFrom(Obj, succ, root)
    IN  {o \in Obj : \A S \in closed : o \in S}

=============================================================================
