------------------------------ MODULE GameOfLife ------------------------------
(***************************************************************************)
(* run_test of the gol benchmarks: gol.h for any region type, and gol_rc.h *)
(* for reference counting regions, which drops the cells of the old        *)
(* generation by hand.  The grids are vectors of pointers to cells in the  *)
(* region, which only its root's vector live_cells keeps alive.  Every     *)
(* surviving cell is allocated anew, and after each generation the         *)
(* benchmark collects and checks that the heap holds the root and the live *)
(* cells only.  One thread: the loop over the grid makes a cell per step.  *)
(***************************************************************************)
EXTENDS Integers, FiniteSets, Functions

CONSTANTS
    Sizes,            \* the board sizes asked for
    Generations,      \* the numbers of generations asked for
    Null

ASSUME GameOfLifeAssumption ==
    /\ Sizes \subseteq Nat
    /\ Generations \subseteq Nat
    /\ Null \notin Nat

VARIABLES
    rt,             \* the region type, "Trace" or "Rc"
    decrefs,        \* the test is that of gol_rc.h
    size,
    generations,
    pc,             \* "start", "cells", "decref", "swap", "collect", "check", "release",
                    \* "done", or "failed" in a check
    gen,            \* how many generations are complete
    at,             \* the index y * size + x of the loop over the grid
    current_grid,   \* index to cell
    next_grid,
    live_cells,     \* of the root
    cells           \* the cells in the heap, beside the root

argVars == <<rt, decrefs, size, generations>>
gridVars == <<current_grid, next_grid, live_cells>>
vars == <<argVars, pc, gen, at, gridVars, cells>>

-----------------------------------------------------------------------------
Index == 0..(size * size - 1)
PositionOf(i) == <<i % size, i \div size>>

Pointers(grid) == Range(grid) \ {Null}
EmptyGrid == [i \in Index |-> Null]

\* An address not in use; which one makes no difference.
FreshCell(used) == CHOOSE a \in 0..Cardinality(used) : a \notin used

\* The positions set_cell is called with, in that order; those off the board
\* are left out.
InitialCells ==
    LET c == size \div 2
    IN  <<<<c + 1, c>>, <<c + 2, c>>, <<c, c + 1>>, <<c + 1, c + 1>>, <<c + 1, c + 2>>>>

InitialGrid ==
    [i \in Index |->
        LET n == {k \in 1..5 : InitialCells[k] = PositionOf(i)}
        IN  IF n = {} THEN Null ELSE CHOOSE k \in n : TRUE]

Init ==
    /\ \/ rt \in {"Trace", "Rc"} /\ decrefs = FALSE
       \/ rt = "Rc" /\ decrefs = TRUE
    /\ size \in Sizes
    /\ generations \in Generations
    /\ pc = "start" /\ gen = 0 /\ at = 0
    /\ current_grid = InitialGrid
    /\ next_grid = EmptyGrid
    /\ live_cells = current_grid
    /\ cells = Pointers(current_grid)

HeapSize == Cardinality(cells) + 1

\* The loop over the generations: another one, or none.
Proceed(g) == pc' = IF g < generations THEN "cells" ELSE "release"

\* check(debug_size() == 6).
Start ==
    /\ pc = "start"
    /\ IF HeapSize = 6 THEN Proceed(0) ELSE pc' = "failed"
    /\ UNCHANGED <<argVars, gen, at, gridVars, cells>>

\* Mutant: neighbours beyond the right and lower edges are not wrapped around.
count_neighborsUnwrapped(grid, i) ==
    Cardinality({d \in ((-1..1) \X (-1..1)) \ {<<0, 0>>} :
        LET x == PositionOf(i)[1] + d[1]
            y == PositionOf(i)[2] + d[2]
        IN  x \in 0..(size - 1) /\ y \in 0..(size - 1) /\ grid[y * size + x] # Null})

count_neighbors(grid, i) ==
    Cardinality({d \in ((-1..1) \X (-1..1)) \ {<<0, 0>>} :
        LET x == (PositionOf(i)[1] + d[1] + size) % size
            y == (PositionOf(i)[2] + d[2] + size) % size
        IN  grid[y * size + x] # Null})

\* The survive rule and the birth rule.
Lives(i) ==
    LET n == count_neighbors(current_grid, i)
    IN  IF current_grid[i] # Null THEN n = 2 \/ n = 3 ELSE n = 3

\* The rules for the cell at the index; a surviving one is allocated anew.
MakeCell ==
    /\ pc = "cells"
    /\ at < size * size
    /\ LET new == FreshCell(cells)
       IN  /\ next_grid' = [next_grid EXCEPT ![at] = IF Lives(at) THEN new ELSE Null]
           /\ cells' = IF Lives(at) THEN cells \cup {new} ELSE cells
    /\ at' = at + 1
    /\ UNCHANGED <<argVars, pc, gen, current_grid, live_cells>>

GridMade ==
    /\ pc = "cells"
    /\ at = size * size
    /\ pc' = IF decrefs THEN "decref" ELSE "swap"
    /\ UNCHANGED <<argVars, gen, at, gridVars, cells>>

\* Mutant: only the cells that die out are dropped.
DropOldDead ==
    /\ pc = "decref"
    /\ cells' = cells \ {current_grid[i] : i \in {j \in Index : next_grid[j] = Null}}
    /\ pc' = "swap"
    /\ UNCHANGED <<argVars, gen, at, gridVars>>

\* gol_rc.h: decref of each cell of the old generation, the only reference
\* counted, frees it.
DropOld ==
    /\ pc = "decref"
    /\ cells' = cells \ Pointers(current_grid)
    /\ pc' = "swap"
    /\ UNCHANGED <<argVars, gen, at, gridVars>>

\* Mutant: the root keeps the old generation.
SwapForgetsRoot ==
    /\ pc = "swap"
    /\ current_grid' = next_grid
    /\ next_grid' = IF decrefs THEN EmptyGrid ELSE next_grid
    /\ gen' = gen + 1
    /\ pc' = "collect"
    /\ UNCHANGED <<argVars, at, live_cells, cells>>

\* The new generation takes the place of the old; gol_rc.h clears next_grid.
Swap ==
    /\ pc = "swap"
    /\ current_grid' = next_grid
    /\ live_cells' = next_grid
    /\ next_grid' = IF decrefs THEN EmptyGrid ELSE next_grid
    /\ gen' = gen + 1
    /\ pc' = "collect"
    /\ UNCHANGED <<argVars, at, cells>>

\* region_collect: a trace of the root finds its live_cells; in a reference
\* counting region there is no cycle to collect.
Collect ==
    /\ pc = "collect"
    /\ cells' = IF rt = "Trace" THEN cells \cap Pointers(live_cells) ELSE cells
    /\ pc' = "check"
    /\ UNCHANGED <<argVars, gen, at, gridVars>>

ActualAlive == Cardinality({i \in Index : current_grid[i] # Null})

\* The check at the end of a generation.
Check ==
    /\ pc = "check"
    /\ IF HeapSize = ActualAlive + 1 THEN Proceed(gen) ELSE pc' = "failed"
    /\ at' = 0
    /\ UNCHANGED <<argVars, gen, gridVars, cells>>

\* region_release.
Release ==
    /\ pc = "release"
    /\ cells' = {}
    /\ pc' = "done"
    /\ UNCHANGED <<argVars, gen, at, gridVars>>

Next ==
    \/ Start \/ MakeCell \/ GridMade \/ DropOld \/ Swap \/ Collect \/ Check \/ Release

Spec == Init /\ [][Next]_vars

\* The test runs on.
FairSpec == Spec /\ WF_vars(Next)

-----------------------------------------------------------------------------
TypeOK ==
    /\ rt \in {"Trace", "Rc"} /\ decrefs \in BOOLEAN
    /\ size \in Sizes /\ generations \in Generations
    /\ pc \in {"start", "cells", "decref", "swap", "collect", "check", "release",
               "done", "failed"}
    /\ gen \in 0..generations
    /\ at \in 0..(size * size)
    /\ IsFiniteSet(cells) /\ cells \subseteq Nat
    /\ {current_grid, next_grid, live_cells} \subseteq [Index -> Nat \cup {Null}]

\* The cells of current_grid play the Game of Life on a torus: a generation
\* made cell by cell is the one the rules give for the old board, which stays
\* as it is until it has been read to the end.
LifeOnTorus ==
    INSTANCE Life WITH
        generation <- gen,
        board <- {PositionOf(i) : i \in {j \in Index : current_grid[j] # Null}}
PlaysLife == LifeOnTorus!Spec

\* The state is well typed; no pointer of the grids or of the root is to a freed
\* cell, but for the time between the decref of the old cells and the swap, when
\* neither the test nor a trace follows them, and after the release; and no cell
\* stands in two places of one grid.
PointersLive ==
    /\ TypeOK
    /\ pc \notin {"swap", "done"} =>
        \A grid \in {current_grid, next_grid, live_cells} :
            /\ Pointers(grid) \subseteq cells
            /\ \A i, j \in Index : grid[i] = grid[j] /\ i # j => grid[i] = Null

\* The whole pattern is on the board, and something frees the old generation: a
\* trace or the decrefs of gol_rc.h.
OldFreed == size >= 5 /\ (rt = "Trace" \/ decrefs)

\* Where the old generation is freed no check of the heap fails: all generations
\* are played, with no cell left but the live ones after each, and the region is
\* released.
PlayedToEnd == OldFreed => <>(pc = "done" /\ gen = generations /\ cells = {})

\* What gol.h asserts with its two checks of the heap, on any region type: 6
\* objects at the start and the root and the live cells after each collection.
ChecksHold == pc # "failed"

===============================================================================
