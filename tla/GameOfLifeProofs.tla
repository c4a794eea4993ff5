--------------------------- MODULE GameOfLifeProofs ---------------------------
(***************************************************************************)
(* The gol benchmarks on boards of any size and for any number of          *)
(* generations: no pointer the test follows is to a freed cell, and the    *)
(* grids, made cell by cell in a heap that is collected meanwhile, play    *)
(* the Game of Life on a torus (module Life).                              *)
(***************************************************************************)
EXTENDS GameOfLife, FiniteSetTheorems, TLAPS

-----------------------------------------------------------------------------
\* Arithmetic of the board

\* What the remainder and the quotient by a side are.
LEMMA ModOf ==
  ASSUME NEW n \in Nat \ {0}, NEW q \in Int, NEW r \in 0..(n - 1)
  PROVE  (n * q + r) % n = r /\ (n * q + r) \div n = q
BY Z3

\* Next to a coordinate of the board, across its edge where it has to be.
Wrap(a, d, n) == IF a + d < 0 THEN n - 1 ELSE IF a + d = n THEN 0 ELSE a + d

\* The code's way to wrap around.
LEMMA WrapIsMod ==
  ASSUME NEW n \in Nat \ {0}, NEW a \in 0..(n - 1), NEW d \in -1..1
  PROVE  (a + d + n) % n = Wrap(a, d, n)
BY Z3 DEF Wrap

\* Life's way to say what is near on a ring.
LEMMA DifferenceMod ==
  ASSUME NEW n \in Nat \ {0}, NEW a \in 0..(n - 1), NEW b \in 0..(n - 1)
  PROVE  (a - b) % n = IF a < b THEN (a - b) + n ELSE a - b
BY Z3

\* The square of a side, and the indices of a row.
LEMMA Square ==
  ASSUME NEW n \in Nat, NEW x \in 0..(n - 1), NEW y \in 0..(n - 1)
  PROVE  /\ n * n \in Nat
         /\ n * y + x \in 0..(n * n - 1)
         /\ y * n + x = n * y + x
<1>1. n * n \in Nat /\ n * y \in Nat /\ y * n = n * y
  OBVIOUS
<1>2. n * y + n = n * (y + 1)
  OBVIOUS
<1>3. n * (y + 1) <= n * n
  OBVIOUS
<1> QED
  BY <1>1, <1>2, <1>3

\* Every index is that of a position, and of one only.
LEMMA IndexOfPosition ==
  ASSUME TypeOK, NEW i \in Index
  PROVE  /\ size \in Nat \ {0}
         /\ i % size \in 0..(size - 1) /\ i \div size \in 0..(size - 1)
         /\ i = (i \div size) * size + (i % size)
<1>1. size \in Nat
  BY GameOfLifeAssumption DEF TypeOK
<1>2. size * size \in Nat /\ i \in Nat /\ i < size * size
  BY <1>1 DEF Index
<1>3. size # 0
  BY <1>2
<1>4. PICK q \in Nat, r \in 0..(size - 1) : i = size * q + r
  <2> DEFINE q == i \div size
  <2>1. q \in Nat /\ size * q <= i /\ i < size * (q + 1)
    BY <1>1, <1>2, <1>3
  <2> HIDE DEF q
  <2>2. size * q \in Nat /\ size * (q + 1) = size * q + size
    BY <1>1, <2>1
  <2>3. i - size * q \in 0..(size - 1) /\ i = size * q + (i - size * q)
    BY <1>1, <1>2, <2>1, <2>2
  <2> QED
    BY <2>1, <2>3
<1>5. (size * q + r) % size = r /\ (size * q + r) \div size = q
  BY <1>1, <1>3, ModOf
<1>6. i % size = r /\ i \div size = q
  BY <1>4, <1>5, Zenon
<1>7. q \in 0..(size - 1)
  <2>1. size * q < size * size
    BY <1>1, <1>2, <1>4
  <2> QED
    BY <1>1, <2>1
<1>8. i = q * size + r
  <2>1. size * q = q * size
    BY <1>1
  <2> QED
    BY <1>4, <2>1
<1>9. i = (i \div size) * size + (i % size)
  <2> DEFINE a == i \div size
             b == i % size
  <2>1. a = q /\ b = r
    BY <1>6
  <2> HIDE DEF a, b
  <2>2. i = a * size + b
    BY <1>8, <2>1
  <2> QED
    BY <2>2, Zenon DEF a, b
<1>10. i % size \in 0..(size - 1) /\ i \div size \in 0..(size - 1)
  BY <1>6, <1>7, Zenon
<1> QED
  BY <1>1, <1>3, <1>9, <1>10, Zenon

\* Every position has an index.
LEMMA PositionOfIndex ==
  ASSUME TypeOK, NEW x \in 0..(size - 1), NEW y \in 0..(size - 1)
  PROVE  y * size + x \in Index /\ PositionOf(y * size + x) = <<x, y>>
<1>1. size \in Nat \ {0}
  BY GameOfLifeAssumption DEF TypeOK
<1>2. size * y + x \in 0..(size * size - 1) /\ y * size + x = size * y + x
  BY <1>1, Square
<1>3. (size * y + x) % size = x /\ (size * y + x) \div size = y
  BY <1>1, ModOf
<1> QED
  BY <1>2, <1>3 DEF Index, PositionOf

-----------------------------------------------------------------------------
\* The inductive invariant

\* Every cell a grid points to is in the heap, and in one place.
Held(grid) ==
    /\ Pointers(grid) \subseteq cells
    /\ \A i, j \in Index : grid[i] = grid[j] /\ i # j => grid[i] = Null

\* The pointers of the test.  The old cells go when gol_rc.h drops them before
\* the swap, all of them when the region is released; the cells of next_grid
\* outlive the drop because there they are none of the old ones, and outlive a
\* trace because after the swap they are those of the root, or none.
Kept ==
    /\ live_cells = current_grid
    /\ pc # "done" => Held(next_grid)
    /\ pc \notin {"swap", "done"} => Held(current_grid)
    /\ decrefs /\ pc # "swap" => Pointers(next_grid) \cap Pointers(current_grid) = {}
    /\ pc = "decref" => decrefs
    /\ pc = "collect" => next_grid \in {EmptyGrid, current_grid}

\* The progress of the game.  The heap check at the start sends no board
\* further that the pattern does not fit on.
Played ==
    /\ pc = "start" => /\ current_grid = InitialGrid /\ gen = 0 /\ at = 0
                       /\ cells = Pointers(InitialGrid)
    /\ pc \notin {"start", "failed"} => size > 2
    /\ pc \in {"cells", "decref", "swap"} => gen < generations
    /\ pc \in {"cells", "decref", "swap"} =>
          \A i \in Index : i < at => (next_grid[i] # Null <=> Lives(i))
    /\ pc \in {"decref", "swap"} => at = size * size

IInv == TypeOK /\ Kept /\ Played

\* What TypeOK says of the board.
LEMMA BoardTyped ==
  ASSUME TypeOK
  PROVE  /\ size \in Nat /\ size * size \in Nat /\ generations \in Nat /\ Null \notin Nat
         /\ Index = 0..(size * size - 1)
         /\ current_grid \in [Index -> Nat \cup {Null}]
         /\ next_grid \in [Index -> Nat \cup {Null}]
         /\ live_cells \in [Index -> Nat \cup {Null}]
<1>1. size \in Nat /\ generations \in Nat /\ Null \notin Nat
  BY GameOfLifeAssumption DEF TypeOK
<1>2. size * size \in Nat
  BY <1>1
<1> QED
  BY <1>1, <1>2 DEF TypeOK, Index

\* What a grid points to.
LEMMA PointersOf ==
  ASSUME NEW grid \in [Index -> Nat \cup {Null}]
  PROVE  /\ \A i \in Index : grid[i] # Null => grid[i] \in Pointers(grid)
         /\ \A a \in Pointers(grid) : a # Null /\ \E i \in Index : a = grid[i]
BY DEF Pointers, Range

\* A cell is allocated at an address not in use.
LEMMA FreshUnused ==
  ASSUME NEW S, IsFiniteSet(S)
  PROVE  FreshCell(S) \in Nat /\ FreshCell(S) \notin S
<1> DEFINE n == Cardinality(S)
<1>1. n \in Nat
  BY FS_CardinalityType
<1>2. IsFiniteSet(0..n) /\ Cardinality(0..n) = n + 1
  BY <1>1, FS_Interval
<1>3. ~(0..n \subseteq S)
  <2> SUFFICES ASSUME 0..n \subseteq S
               PROVE  FALSE
    OBVIOUS
  <2>1. Cardinality(0..n) <= n
    BY FS_Subset
  <2> HIDE DEF n
  <2> QED
    BY <1>1, <1>2, <2>1
<1>4. FreshCell(S) \in 0..n /\ FreshCell(S) \notin S
  BY <1>3 DEF FreshCell
<1> QED
  BY <1>1, <1>4

\* The pattern has five cells.
LEMMA FiveCells == IsFiniteSet(1..5) /\ Cardinality(1..5) = 5
<1>1. \A n \in Nat : IsFiniteSet(1..n) /\ Cardinality(1..n) = n
  BY FS_Interval
<1> QED
  BY <1>1, 5 \in Nat, Zenon

\* The initial grid shows at each index which cell of the pattern is there.
LEMMA InitialGridShows ==
  ASSUME NEW i \in Index
  PROVE  \/ InitialGrid[i] = Null /\ \A k \in 1..5 : InitialCells[k] # PositionOf(i)
         \/ InitialGrid[i] \in 1..5 /\ InitialCells[InitialGrid[i]] = PositionOf(i)
<1> DEFINE n == {k \in 1..5 : InitialCells[k] = PositionOf(i)}
<1>1. InitialGrid[i] = IF n = {} THEN Null ELSE CHOOSE k \in n : TRUE
  BY DEF InitialGrid
<1>2. CASE n = {}
  BY <1>1, <1>2
<1>3. CASE n # {}
  <2>1. InitialGrid[i] \in n
    BY <1>1, <1>3
  <2> QED
    BY <2>1
<1> QED
  BY <1>2, <1>3

\* The test starts with the cells of the initial grid.
LEMMA InitIInv == Init => IInv
<1> SUFFICES ASSUME Init
             PROVE  IInv
  OBVIOUS
<1>1. size \in Nat /\ generations \in Nat /\ Null \notin Nat /\ 0..generations # {}
  BY GameOfLifeAssumption DEF Init
<1>2. size * size \in Nat
  BY <1>1
<1>3. \A i \in Index : InitialGrid[i] = Null \/ InitialGrid[i] \in 1..5
  BY InitialGridShows
<1>4. InitialGrid \in [Index -> Nat \cup {Null}]
  <2>1. InitialGrid = [i \in Index |-> InitialGrid[i]]
    BY DEF InitialGrid
  <2> QED
    BY <1>3, <2>1
<1>5. EmptyGrid \in [Index -> Nat \cup {Null}]
  BY DEF EmptyGrid
<1>6. Pointers(InitialGrid) \subseteq 1..5
  <2>1. \A a \in Pointers(InitialGrid) : a # Null /\ \E i \in Index : a = InitialGrid[i]
    BY <1>4, PointersOf, Zenon
  <2> QED
    BY <1>3, <2>1, Zenon
<1>7. IsFiniteSet(Pointers(InitialGrid))
  BY <1>6, FiveCells, FS_Subset
<1>8. TypeOK
  <2>1. IsFiniteSet(cells) /\ cells \subseteq Nat
    BY <1>6, <1>7 DEF Init
  <2>2. {current_grid, next_grid, live_cells} \subseteq [Index -> Nat \cup {Null}]
    BY <1>4, <1>5 DEF Init
  <2>3. at \in 0..(size * size) /\ gen \in 0..generations
    BY <1>1, <1>2 DEF Init
  <2> QED
    BY <2>1, <2>2, <2>3 DEF Init, TypeOK
<1>9. Pointers(EmptyGrid) = {}
  BY <1>5, PointersOf DEF EmptyGrid
<1>10. Held(EmptyGrid)
  BY <1>9 DEF Held, EmptyGrid
<1>11. Held(InitialGrid)
  <2> SUFFICES ASSUME NEW i \in Index, NEW j \in Index, InitialGrid[i] = InitialGrid[j],
                      InitialGrid[i] # Null
               PROVE  i = j
    BY DEF Held, Init
  <2>1. PositionOf(i) = PositionOf(j)
    BY InitialGridShows
  <2>2. i % size = j % size /\ i \div size = j \div size
    BY <2>1 DEF PositionOf
  <2>3. /\ i = (i \div size) * size + (i % size)
        /\ j = (j \div size) * size + (j % size)
    BY <1>8, IndexOfPosition
  <2> QED
    BY <2>2, <2>3, Zenon
<1>12. Kept
  BY <1>9, <1>10, <1>11 DEF Init, Kept
<1>13. Played
  BY DEF Init, Played
<1> QED
  BY <1>8, <1>12, <1>13 DEF IInv

\* On a board that has passed the first check the pattern has its place.
LEMMA PatternFits ==
  ASSUME TypeOK, cells = Pointers(InitialGrid), current_grid = InitialGrid, HeapSize = 6
  PROVE  size > 2
<1>1. size \in Nat
  BY BoardTyped
<1>2. \A k \in cells : k \in 1..5 /\ \E i \in Index : InitialGrid[i] = k
  <2>1. InitialGrid \in [Index -> Nat \cup {Null}]
    BY BoardTyped
  <2>2. \A k \in Pointers(InitialGrid) : k # Null /\ \E i \in Index : k = InitialGrid[i]
    BY <2>1, PointersOf, Zenon
  <2> QED
    BY <2>2, InitialGridShows, Zenon
<1>3. cells = 1..5
  <2>1. Cardinality(cells) \in Nat
    BY FS_CardinalityType DEF TypeOK
  <2>2. Cardinality(cells) = 5
    <3>1. Cardinality(cells) + 1 = 6
      BY DEF HeapSize
    <3> DEFINE n == Cardinality(cells)
    <3> HIDE DEF n
    <3>2. n \in Nat /\ n + 1 = 6
      BY <2>1, <3>1 DEF n
    <3>3. n = 5
      BY <3>2
    <3> QED
      BY <3>3 DEF n
  <2> QED
    BY <1>2, <2>2, FiveCells, FS_Subset
<1>4. PICK i \in Index : InitialGrid[i] = 2
  BY <1>2, <1>3
<1>5. InitialCells[2] = PositionOf(i)
  BY <1>4, InitialGridShows, GameOfLifeAssumption
<1>6. i % size = size \div 2 + 2
  BY <1>5 DEF InitialCells, PositionOf
<1>7. i % size \in 0..(size - 1)
  BY IndexOfPosition
<1>8. size \div 2 \in Nat
  BY <1>1
<1> QED
  BY <1>1, <1>6, <1>7, <1>8

-----------------------------------------------------------------------------
\* Every step keeps the invariant

\* The rules read the old board only.
LEMMA LivesSame ==
  ASSUME current_grid' = current_grid, size' = size, NEW i
  PROVE  Lives(i)' = Lives(i)
BY DEF Lives, count_neighbors, PositionOf

\* The check of the pattern.
LEMMA StartIInv == IInv /\ Start => IInv'
<1> SUFFICES ASSUME IInv, Start
             PROVE  IInv'
  OBVIOUS
<1>1. /\ TypeOK /\ Kept /\ Played /\ pc = "start"
      /\ UNCHANGED <<argVars, gen, at, gridVars, cells>>
  BY DEF IInv, Start
<1>2. pc' \in {"cells", "release", "failed"} /\ (pc' = "cells" => gen < generations)
  BY <1>1 DEF Start, Proceed, Played
<1>3. pc' # "failed" => size > 2
  BY <1>1, PatternFits DEF Start, Played, Proceed
<1>4. TypeOK'
  BY <1>1, <1>2 DEF TypeOK, Index, argVars, gridVars
<1>5. Kept'
  BY <1>1, <1>2 DEF Kept, Held, Pointers, Index, argVars, gridVars
<1>6. Played'
  <2>1. at' = 0 /\ \A i \in Index : ~(i < at')
    BY <1>1, BoardTyped DEF Played
  <2>2. Index' = Index
    BY <1>1 DEF Index, argVars
  <2> QED
    BY <1>1, <1>2, <1>3, <2>1, <2>2 DEF Played, argVars
<1> QED
  BY <1>4, <1>5, <1>6 DEF IInv

\* One cell of the new generation.
LEMMA MakeCellIInv == IInv /\ MakeCell => IInv'
<1> SUFFICES ASSUME IInv, MakeCell
             PROVE  IInv'
  OBVIOUS
<1> DEFINE new == FreshCell(cells)
<1>1. /\ TypeOK /\ Kept /\ Played /\ pc = "cells" /\ at < size * size /\ at' = at + 1
      /\ next_grid' = [next_grid EXCEPT ![at] = IF Lives(at) THEN new ELSE Null]
      /\ cells' = IF Lives(at) THEN cells \cup {new} ELSE cells
      /\ UNCHANGED <<argVars, pc, gen, current_grid, live_cells>>
  BY DEF IInv, MakeCell
<1>2. new \in Nat /\ new \notin cells
  BY <1>1, FreshUnused DEF TypeOK
<1> HIDE DEF new
<1>3. /\ size \in Nat /\ size * size \in Nat /\ Null \notin Nat
      /\ Index = 0..(size * size - 1) /\ at \in Nat
      /\ current_grid \in [Index -> Nat \cup {Null}]
      /\ next_grid \in [Index -> Nat \cup {Null}]
      /\ live_cells \in [Index -> Nat \cup {Null}]
  BY <1>1, BoardTyped DEF TypeOK
<1>4. at \in Index /\ Index' = Index
  BY <1>1, <1>3 DEF Index, argVars
<1>5. \A i \in Index : next_grid'[i] = IF i = at THEN (IF Lives(at) THEN new ELSE Null)
                                               ELSE next_grid[i]
  BY <1>1, <1>3
<1>6. next_grid' \in [Index -> Nat \cup {Null}]
  BY <1>1, <1>2, <1>3
<1>7. TypeOK'
  <2>1. IsFiniteSet(cells') /\ cells' \subseteq Nat
    BY <1>1, <1>2, FS_AddElement DEF TypeOK
  <2>2. at' \in 0..(size * size)
    BY <1>1, <1>3
  <2> QED
    BY <1>1, <1>3, <1>4, <1>6, <2>1, <2>2 DEF TypeOK, argVars
<1>8. Held(current_grid) /\ Held(next_grid) /\ live_cells = current_grid
  BY <1>1 DEF Kept
<1>9. Held(current_grid)'
  BY <1>1, <1>4, <1>8 DEF Held, Pointers
<1>10. \A a \in Pointers(next_grid') : a \in Pointers(next_grid) \/ (Lives(at) /\ a = new)
  <2> SUFFICES ASSUME NEW a \in Pointers(next_grid')
               PROVE  a \in Pointers(next_grid) \/ (Lives(at) /\ a = new)
    OBVIOUS
  <2>1. PICK i \in Index : a = next_grid'[i] /\ a # Null
    BY <1>6, PointersOf
  <2>2. CASE i = at
    BY <1>5, <2>1, <2>2
  <2>3. CASE i # at
    BY <1>3, <1>5, <2>1, <2>3, PointersOf
  <2> QED
    BY <2>2, <2>3
<1>11. Held(next_grid)'
  <2>1. Pointers(next_grid)' \subseteq cells'
    BY <1>1, <1>8, <1>10 DEF Held
  <2>2. ASSUME NEW i \in Index, NEW j \in Index, next_grid'[i] = next_grid'[j], i # j,
               next_grid'[i] # Null
        PROVE  FALSE
    <3>1. \A k \in Index : next_grid[k] # Null => next_grid[k] # new
      BY <1>2, <1>3, <1>8, PointersOf DEF Held
    <3>2. i # at /\ j # at
      BY <1>5, <2>2, <3>1
    <3> QED
      BY <1>5, <1>8, <2>2, <3>2 DEF Held
  <2> QED
    BY <1>4, <2>1, <2>2 DEF Held
<1>12. Kept'
  <2>1. decrefs => Pointers(next_grid') \cap Pointers(current_grid) = {}
    <3>1. new \notin Pointers(current_grid)
      BY <1>2, <1>8 DEF Held
    <3> QED
      BY <1>1, <1>10, <3>1 DEF Kept
  <2>2. Pointers(next_grid)' = Pointers(next_grid') /\ Pointers(current_grid)' = Pointers(current_grid)
    BY <1>1 DEF Pointers
  <2> QED
    BY <1>1, <1>8, <1>9, <1>11, <2>1, <2>2 DEF Kept, argVars
<1>13. Played'
  <2>1. \A i \in Index : Lives(i)' = Lives(i)
    BY <1>1, LivesSame DEF argVars
  <2>2. Lives(at) => new # Null
    BY <1>2, <1>3
  <2>3. \A i \in Index : i < at + 1 => i < at \/ i = at
    BY <1>3
  <2>4. \A i \in Index : i < at' => (next_grid'[i] # Null <=> Lives(i)')
    BY <1>1, <1>4, <1>5, <2>1, <2>2, <2>3 DEF Played
  <2> QED
    BY <1>1, <1>4, <2>4 DEF Played, argVars
<1> QED
  BY <1>7, <1>12, <1>13 DEF IInv

\* The new generation is complete.
LEMMA GridMadeIInv == IInv /\ GridMade => IInv'
<1> SUFFICES ASSUME IInv, GridMade
             PROVE  IInv'
  OBVIOUS
<1>1. /\ TypeOK /\ Kept /\ Played /\ pc = "cells" /\ at = size * size
      /\ pc' = IF decrefs THEN "decref" ELSE "swap"
      /\ UNCHANGED <<argVars, gen, at, gridVars, cells>>
  BY DEF IInv, GridMade
<1>2. TypeOK'
  BY <1>1 DEF TypeOK, Index, argVars, gridVars
<1>3. Kept'
  BY <1>1 DEF Kept, Held, Pointers, Index, argVars, gridVars
<1>4. Played'
  <2>1. \A i \in Index : Lives(i)' = Lives(i)
    BY <1>1, LivesSame DEF argVars, gridVars
  <2>2. Index' = Index
    BY <1>1 DEF Index, argVars
  <2> QED
    BY <1>1, <2>1, <2>2 DEF Played, argVars, gridVars
<1> QED
  BY <1>2, <1>3, <1>4 DEF IInv

\* The cells of the old generation are dropped: none of them is in the new one.
LEMMA DropOldIInv == IInv /\ DropOld => IInv'
<1> SUFFICES ASSUME IInv, DropOld
             PROVE  IInv'
  OBVIOUS
<1>1. /\ TypeOK /\ Kept /\ Played /\ pc = "decref" /\ decrefs
      /\ cells' = cells \ Pointers(current_grid) /\ pc' = "swap"
      /\ UNCHANGED <<argVars, gen, at, gridVars>>
  BY DEF IInv, DropOld, Kept
<1>2. TypeOK'
  <2>1. IsFiniteSet(cells') /\ cells' \subseteq Nat
    BY <1>1, FS_Subset DEF TypeOK
  <2> QED
    BY <1>1, <2>1 DEF TypeOK, Index, argVars, gridVars
<1>3. Kept'
  <2>1. Held(next_grid) /\ Pointers(next_grid) \cap Pointers(current_grid) = {}
    BY <1>1 DEF Kept
  <2>2. Held(next_grid)'
    BY <1>1, <2>1 DEF Held, Pointers, Index, argVars, gridVars
  <2> QED
    BY <1>1, <2>2 DEF Kept, argVars, gridVars
<1>4. Played'
  <2>1. \A i \in Index : Lives(i)' = Lives(i)
    BY <1>1, LivesSame DEF argVars, gridVars
  <2>2. Index' = Index
    BY <1>1 DEF Index, argVars
  <2> QED
    BY <1>1, <2>1, <2>2 DEF Played, argVars, gridVars
<1> QED
  BY <1>2, <1>3, <1>4 DEF IInv

\* The new generation takes the place of the old.
LEMMA SwapIInv == IInv /\ Swap => IInv'
<1> SUFFICES ASSUME IInv, Swap
             PROVE  IInv'
  OBVIOUS
<1>1. /\ TypeOK /\ Kept /\ Played /\ pc = "swap" /\ pc' = "collect"
      /\ current_grid' = next_grid /\ live_cells' = next_grid
      /\ next_grid' = IF decrefs THEN EmptyGrid ELSE next_grid
      /\ gen' = gen + 1 /\ UNCHANGED <<argVars, at, cells>>
  BY DEF IInv, Swap
<1>2. /\ next_grid \in [Index -> Nat \cup {Null}] /\ generations \in Nat /\ Index' = Index
      /\ EmptyGrid \in [Index -> Nat \cup {Null}] /\ EmptyGrid' = EmptyGrid
  BY <1>1, BoardTyped DEF EmptyGrid, Index, argVars
<1>3. TypeOK'
  <2>1. gen' \in 0..generations
    BY <1>1, <1>2 DEF TypeOK, Played
  <2> QED
    BY <1>1, <1>2, <2>1 DEF TypeOK, argVars
<1>4. Pointers(EmptyGrid) = {} /\ \A i \in Index : EmptyGrid[i] = Null
  BY <1>2, PointersOf DEF EmptyGrid
<1>5. Kept'
  <2>1. Held(next_grid) /\ Held(EmptyGrid)
    BY <1>1, <1>4 DEF Kept, Held
  <2>2. Held(current_grid)' /\ Held(next_grid)'
    BY <1>1, <1>2, <2>1 DEF Held, Pointers
  <2>3. decrefs => Pointers(next_grid)' = {}
    BY <1>1, <1>4 DEF Pointers
  <2> QED
    BY <1>1, <1>2, <2>2, <2>3 DEF Kept, argVars
<1>6. Played'
  BY <1>1 DEF Played, argVars
<1> QED
  BY <1>3, <1>5, <1>6 DEF IInv

\* The collection keeps what the root points to, which is what the test does.
LEMMA CollectIInv == IInv /\ Collect => IInv'
<1> SUFFICES ASSUME IInv, Collect
             PROVE  IInv'
  OBVIOUS
<1>1. /\ TypeOK /\ Kept /\ Played /\ pc = "collect" /\ pc' = "check"
      /\ cells' = IF rt = "Trace" THEN cells \cap Pointers(live_cells) ELSE cells
      /\ UNCHANGED <<argVars, gen, at, gridVars>>
  BY DEF IInv, Collect
<1>2. TypeOK'
  <2>1. IsFiniteSet(cells') /\ cells' \subseteq Nat
    BY <1>1, FS_Subset DEF TypeOK
  <2> QED
    BY <1>1, <2>1 DEF TypeOK, Index, argVars, gridVars
<1>3. Kept'
  <2>1. /\ Held(next_grid) /\ Held(current_grid) /\ live_cells = current_grid
        /\ next_grid \in {EmptyGrid, current_grid}
    BY <1>1 DEF Kept
  <2>2. Pointers(next_grid) \subseteq Pointers(current_grid)
    <3>1. CASE next_grid = EmptyGrid
      <4>1. EmptyGrid \in [Index -> Nat \cup {Null}]
        BY DEF EmptyGrid
      <4>2. Pointers(EmptyGrid) = {}
        BY <4>1, PointersOf DEF EmptyGrid
      <4> QED
        BY <3>1, <4>2
    <3>2. CASE next_grid = current_grid
      BY <3>2
    <3> QED
      BY <2>1, <3>1, <3>2
  <2>3. Pointers(current_grid) \subseteq cells' /\ Pointers(next_grid) \subseteq cells'
    BY <1>1, <2>1, <2>2 DEF Held
  <2>4. Held(next_grid)' /\ Held(current_grid)'
    BY <1>1, <2>1, <2>3 DEF Held, Pointers, Index, argVars, gridVars
  <2>5. decrefs => Pointers(next_grid)' \cap Pointers(current_grid)' = {}
    BY <1>1 DEF Kept, Pointers, gridVars
  <2> QED
    BY <1>1, <2>1, <2>4, <2>5 DEF Kept, argVars, gridVars
<1>4. Played'
  BY <1>1 DEF Played, argVars
<1> QED
  BY <1>2, <1>3, <1>4 DEF IInv

\* The check of a generation.
LEMMA CheckIInv == IInv /\ Check => IInv'
<1> SUFFICES ASSUME IInv, Check
             PROVE  IInv'
  OBVIOUS
<1>1. /\ TypeOK /\ Kept /\ Played /\ pc = "check" /\ at' = 0
      /\ UNCHANGED <<argVars, gen, gridVars, cells>>
  BY DEF IInv, Check
<1>2. pc' \in {"cells", "release", "failed"} /\ (pc' = "cells" => gen < generations)
  BY DEF Check, Proceed
<1>3. Index' = Index /\ size * size \in Nat /\ \A i \in Index : ~(i < 0)
  BY <1>1, BoardTyped DEF Index, argVars
<1>4. TypeOK'
  BY <1>1, <1>2, <1>3 DEF TypeOK, argVars, gridVars
<1>5. Kept'
  BY <1>1, <1>2 DEF Kept, Held, Pointers, Index, argVars, gridVars
<1>6. Played'
  BY <1>1, <1>2, <1>3 DEF Played, argVars
<1> QED
  BY <1>4, <1>5, <1>6 DEF IInv

\* The release of the region.
LEMMA ReleaseIInv == IInv /\ Release => IInv'
<1> SUFFICES ASSUME IInv, Release
             PROVE  IInv'
  OBVIOUS
<1>1. /\ TypeOK /\ Kept /\ Played /\ pc = "release" /\ pc' = "done" /\ cells' = {}
      /\ UNCHANGED <<argVars, gen, at, gridVars>>
  BY DEF IInv, Release
<1>2. TypeOK'
  BY <1>1, FS_EmptySet DEF TypeOK, Index, argVars, gridVars
<1>3. Kept'
  BY <1>1 DEF Kept, Pointers, argVars, gridVars
<1>4. Played'
  BY <1>1 DEF Played, argVars
<1> QED
  BY <1>2, <1>3, <1>4 DEF IInv

\* Every step keeps the inductive invariant.
LEMMA NextIInv == IInv /\ [Next]_vars => IInv'
<1>1. IInv /\ UNCHANGED vars => IInv'
  <2> SUFFICES ASSUME IInv, UNCHANGED vars
               PROVE  IInv'
    OBVIOUS
  <2>1. \A i \in Index : Lives(i)' = Lives(i)
    BY LivesSame DEF vars, argVars, gridVars
  <2>2. Index' = Index /\ EmptyGrid' = EmptyGrid /\ InitialGrid' = InitialGrid
    BY DEF vars, argVars, Index, EmptyGrid, InitialGrid, InitialCells, PositionOf
  <2>3. TypeOK' /\ Kept'
    BY <2>2 DEF vars, argVars, gridVars, IInv, TypeOK, Kept, Held, Pointers
  <2>4. Played'
    BY <2>1, <2>2 DEF vars, argVars, gridVars, IInv, Played, Pointers
  <2> QED
    BY <2>3, <2>4 DEF IInv
<1> QED
  BY <1>1, StartIInv, MakeCellIInv, GridMadeIInv, DropOldIInv, SwapIInv, CollectIInv,
     CheckIInv, ReleaseIInv DEF Next

\* The inductive invariant holds in every behaviour of the specification.
THEOREM Invariant == Spec => []IInv
  BY InitIInv, NextIInv, PTL DEF Spec

\* But for the time between the decrefs of gol_rc.h and the swap, when nothing
\* follows the pointers, and after the release, no pointer of a grid or of the
\* root is to a freed cell; and no cell stands in two places of one grid, on any
\* board.
THEOREM PointersStayLive == Spec => []PointersLive
<1>1. IInv => PointersLive
  <2> SUFFICES ASSUME IInv, pc \notin {"swap", "done"},
                      NEW grid \in {current_grid, next_grid, live_cells}
               PROVE  Held(grid)
    BY DEF PointersLive, Held, IInv
  <2> QED
    BY DEF IInv, Kept
<1> QED
  BY <1>1, Invariant, PTL

-----------------------------------------------------------------------------
\* The refinement of Life

\* The live positions of a grid.
Board(grid) == {PositionOf(i) : i \in {j \in Index : grid[j] # Null}}

Offsets == ((-1..1) \X (-1..1)) \ {<<0, 0>>}

\* A position is on the board if the grid has a cell at its index.
LEMMA OnBoard ==
  ASSUME TypeOK, NEW grid, NEW q \in LifeOnTorus!Position
  PROVE  q \in Board(grid) <=> grid[q[2] * size + q[1]] # Null
<1> DEFINE k == q[2] * size + q[1]
<1>1. q[1] \in 0..(size - 1) /\ q[2] \in 0..(size - 1) /\ q = <<q[1], q[2]>>
  BY DEF LifeOnTorus!Position
<1>2. k \in Index /\ PositionOf(k) = q
  BY <1>1, PositionOfIndex
<1>3. ASSUME NEW i \in Index, PositionOf(i) = q
      PROVE  i = k
  <2>1. i % size = q[1] /\ i \div size = q[2]
    BY <1>3 DEF PositionOf
  <2>2. i = (i \div size) * size + (i % size)
    BY IndexOfPosition
  <2> QED
    BY <2>1, <2>2, Zenon
<1> HIDE DEF k
<1>4. q \in Board(grid) <=> grid[k] # Null
  BY <1>2, <1>3 DEF Board
<1> QED
  BY <1>4 DEF k

\* An index is that of a position.
LEMMA PositionOn ==
  ASSUME TypeOK, NEW i \in Index
  PROVE  /\ PositionOf(i) \in LifeOnTorus!Position
         /\ PositionOf(i)[2] * size + PositionOf(i)[1] = i
<1>1. /\ i % size \in 0..(size - 1) /\ i \div size \in 0..(size - 1)
      /\ i = (i \div size) * size + (i % size)
  BY IndexOfPosition
<1>2. PositionOf(i)[1] = i % size /\ PositionOf(i)[2] = i \div size
  BY DEF PositionOf
<1>3. PositionOf(i) \in LifeOnTorus!Position
  BY <1>1 DEF PositionOf, LifeOnTorus!Position
<1> QED
  BY <1>1, <1>2, <1>3, Zenon

\* On a ring of three or more, the three offsets lead to the three coordinates
\* that are near, and each to another one.
LEMMA WrapNear ==
  ASSUME size \in Nat, size > 2, NEW a \in 0..(size - 1)
  PROVE  /\ \A d \in -1..1 :
               /\ Wrap(a, d, size) \in 0..(size - 1)
               /\ LifeOnTorus!Near(a, Wrap(a, d, size))
               /\ Wrap(a, d, size) = a <=> d = 0
         /\ \A d, e \in -1..1 : Wrap(a, d, size) = Wrap(a, e, size) => d = e
         /\ \A b \in 0..(size - 1) :
               LifeOnTorus!Near(a, b) => \E d \in -1..1 : b = Wrap(a, d, size)
<1>1. \A b \in 0..(size - 1) :
         LifeOnTorus!Near(a, b) <=>
            (IF a < b THEN (a - b) + size ELSE a - b) \in {0, 1, size - 1}
  BY DifferenceMod DEF LifeOnTorus!Near
<1>2. \A d \in -1..1 : Wrap(a, d, size) \in 0..(size - 1) /\ (Wrap(a, d, size) = a <=> d = 0)
  BY DEF Wrap
<1>3. \A d \in -1..1 : LifeOnTorus!Near(a, Wrap(a, d, size))
  BY <1>1, <1>2 DEF Wrap
<1>4. \A d, e \in -1..1 : Wrap(a, d, size) = Wrap(a, e, size) => d = e
  BY DEF Wrap
<1>5. ASSUME NEW b \in 0..(size - 1), LifeOnTorus!Near(a, b)
      PROVE  \E d \in -1..1 : b = Wrap(a, d, size)
  <2>1. b = Wrap(a, 0, size) \/ b = Wrap(a, 1, size) \/ b = Wrap(a, -1, size)
    BY <1>1, <1>5 DEF Wrap
  <2> QED
    BY <2>1
<1> QED
  BY <1>2, <1>3, <1>4, <1>5

\* The neighbours that the code counts by offset are those of Life.
LEMMA NeighboursSame ==
  ASSUME TypeOK, size > 2, NEW i \in Index
  PROVE  /\ count_neighbors(current_grid, i) \in Nat
         /\ count_neighbors(current_grid, i)
              = Cardinality(LifeOnTorus!Neighbours(PositionOf(i)) \cap Board(current_grid))
<1> DEFINE x == PositionOf(i)[1]
           y == PositionOf(i)[2]
           D == {d \in Offsets : current_grid[((y + d[2] + size) % size) * size
                                              + ((x + d[1] + size) % size)] # Null}
           Q == LifeOnTorus!Neighbours(PositionOf(i)) \cap Board(current_grid)
           to(d) == <<Wrap(x, d[1], size), Wrap(y, d[2], size)>>
<1>1. size \in Nat \ {0} /\ x \in 0..(size - 1) /\ y \in 0..(size - 1)
  BY IndexOfPosition, PositionOn DEF PositionOf
<1>2. PositionOf(i) = <<x, y>>
  BY DEF PositionOf
<1>3. \A d \in Offsets : d[1] \in -1..1 /\ d[2] \in -1..1 /\ d = <<d[1], d[2]>>
                         /\ ~(d[1] = 0 /\ d[2] = 0)
  BY DEF Offsets
<1>4. D = {d \in Offsets : current_grid[to(d)[2] * size + to(d)[1]] # Null}
  <2> SUFFICES ASSUME NEW d \in Offsets
               PROVE  /\ (x + d[1] + size) % size = Wrap(x, d[1], size)
                      /\ (y + d[2] + size) % size = Wrap(y, d[2], size)
    BY Zenon
  <2> QED
    BY <1>1, <1>3, WrapIsMod
<1>5. \A d \in Offsets :
         /\ to(d) \in LifeOnTorus!Position
         /\ to(d) # <<x, y>>
         /\ LifeOnTorus!Near(x, to(d)[1]) /\ LifeOnTorus!Near(y, to(d)[2])
  BY <1>1, <1>3, WrapNear DEF LifeOnTorus!Position
<1> HIDE DEF x, y
<1>6. \A d \in D : to(d) \in Q
  BY <1>2, <1>4, <1>5, OnBoard DEF LifeOnTorus!Neighbours
<1>7. \A d, e \in D : to(d) = to(e) => d = e
  BY <1>1, <1>3, WrapNear
<1>8. ASSUME NEW q \in Q
      PROVE  \E d \in D : q = to(d)
  <2>1. /\ q \in LifeOnTorus!Position /\ q # <<x, y>>
        /\ LifeOnTorus!Near(x, q[1]) /\ LifeOnTorus!Near(y, q[2])
        /\ q \in Board(current_grid)
    BY <1>2 DEF LifeOnTorus!Neighbours
  <2>2. q[1] \in 0..(size - 1) /\ q[2] \in 0..(size - 1) /\ q = <<q[1], q[2]>>
    BY <2>1 DEF LifeOnTorus!Position
  <2>3. PICK d1 \in -1..1, d2 \in -1..1 : q[1] = Wrap(x, d1, size) /\ q[2] = Wrap(y, d2, size)
    BY <1>1, <2>1, <2>2, WrapNear
  <2>4. ~(d1 = 0 /\ d2 = 0)
    BY <1>1, <2>1, <2>2, <2>3, WrapNear
  <2>5. <<d1, d2>> \in Offsets /\ to(<<d1, d2>>) = q
    BY <2>2, <2>3, <2>4 DEF Offsets
  <2>6. <<d1, d2>> \in D
    BY <1>4, <2>1, <2>5, OnBoard
  <2> QED
    BY <2>5, <2>6
<1>9. IsFiniteSet(D)
  <2>1. IsFiniteSet(-1..1)
    BY -1 \in Int, 1 \in Int, FS_Interval
  <2>2. IsFiniteSet((-1..1) \X (-1..1))
    BY <2>1, FS_Product
  <2>3. D \subseteq (-1..1) \X (-1..1)
    BY DEF Offsets
  <2> QED
    BY <2>2, <2>3, FS_Subset
<1>10. count_neighbors(current_grid, i) = Cardinality(D)
  BY DEF count_neighbors, Offsets, x, y
<1> HIDE DEF D, Q
<1>11. ExistsBijection(D, Q)
  <2> DEFINE f == [d \in D |-> to(d)]
  <2>1. f \in Injection(D, Q)
    BY <1>6, <1>7 DEF Injection, IsInjective
  <2>2. f \in Surjection(D, Q)
    BY <1>6, <1>8 DEF Surjection
  <2> QED
    BY <2>1, <2>2 DEF ExistsBijection, Bijection
<1>12. Cardinality(D) \in Nat /\ Cardinality(Q) = Cardinality(D)
  BY <1>9, <1>11, FS_Bijection, FS_CardinalityType
<1> QED
  BY <1>10, <1>12 DEF Q

\* The code's rules are those of Life.
LEMMA RulesSame ==
  ASSUME TypeOK, size > 2, NEW i \in Index
  PROVE  Lives(i) <=> LifeOnTorus!LivesOn(PositionOf(i))
<1>1. PositionOf(i) \in Board(current_grid) <=> current_grid[i] # Null
  BY PositionOn, OnBoard
<1>2. LifeOnTorus!LivesOn(PositionOf(i)) <=>
         LET n == Cardinality(LifeOnTorus!Neighbours(PositionOf(i)) \cap Board(current_grid))
         IN  n = 3 \/ (n = 2 /\ PositionOf(i) \in Board(current_grid))
  BY DEF LifeOnTorus!LivesOn, Board, LifeOnTorus!Cardinality, Cardinality
<1> QED
  BY <1>1, <1>2, NeighboursSame DEF Lives

\* The game starts with the R-pentomino, as much of it as is on the board.
LEMMA InitLife == Init /\ IInv => LifeOnTorus!Init
<1> SUFFICES ASSUME Init, IInv
             PROVE  LifeOnTorus!Init
  OBVIOUS
<1>1. TypeOK /\ current_grid = InitialGrid /\ gen = 0 /\ Null \notin Nat
  BY BoardTyped DEF IInv, Init
<1>2. LifeOnTorus!RPentomino = {InitialCells[k] : k \in 1..5}
  BY DEF LifeOnTorus!RPentomino, InitialCells
<1>3. \A i \in Index : InitialGrid[i] # Null <=> PositionOf(i) \in LifeOnTorus!RPentomino
  BY <1>1, <1>2, InitialGridShows
<1>4. Board(InitialGrid) = LifeOnTorus!RPentomino \cap LifeOnTorus!Position
  <2>1. \A q \in Board(InitialGrid) : q \in LifeOnTorus!RPentomino /\ q \in LifeOnTorus!Position
    BY <1>1, <1>3, PositionOn DEF Board
  <2>2. ASSUME NEW q \in LifeOnTorus!RPentomino, q \in LifeOnTorus!Position
        PROVE  q \in Board(InitialGrid)
    <3>1. q[1] \in 0..(size - 1) /\ q[2] \in 0..(size - 1) /\ q = <<q[1], q[2]>>
      BY <2>2 DEF LifeOnTorus!Position
    <3>2. q[2] * size + q[1] \in Index /\ PositionOf(q[2] * size + q[1]) = q
      BY <1>1, <3>1, PositionOfIndex
    <3> QED
      BY <1>3, <2>2, <3>2 DEF Board
  <2> QED
    BY <2>1, <2>2
<1> QED
  BY <1>1, <1>4 DEF LifeOnTorus!Init, Board

\* The swap is the step to the next generation; no other step changes the board.
LEMMA NextLife == IInv /\ [Next]_vars => [LifeOnTorus!Generation]_(LifeOnTorus!lifeVars)
<1> SUFFICES ASSUME IInv, [Next]_vars
             PROVE  \/ LifeOnTorus!Generation
                    \/ UNCHANGED <<size, generations, gen, Board(current_grid)>>
  BY DEF LifeOnTorus!lifeVars, Board
<1>1. CASE UNCHANGED <<size, generations, gen, current_grid>>
  BY <1>1 DEF Board, Index, PositionOf
<1>2. CASE Swap
  <2>1. /\ TypeOK /\ size > 2 /\ gen < generations
        /\ \A i \in Index : i < at => (next_grid[i] # Null <=> Lives(i))
        /\ at = size * size
    BY <1>2 DEF IInv, Played, Swap
  <2>2. \A i \in Index : next_grid[i] # Null <=> LifeOnTorus!LivesOn(PositionOf(i))
    <3>1. \A i \in Index : i < at
      BY <2>1, BoardTyped
    <3> QED
      BY <2>1, <3>1, RulesSame
  <2>3. Board(next_grid) = {p \in LifeOnTorus!Position : LifeOnTorus!LivesOn(p)}
    <3>1. \A q \in Board(next_grid) : q \in LifeOnTorus!Position /\ LifeOnTorus!LivesOn(q)
      BY <2>1, <2>2, PositionOn DEF Board
    <3>2. ASSUME NEW q \in LifeOnTorus!Position, LifeOnTorus!LivesOn(q)
          PROVE  q \in Board(next_grid)
      <4>1. q[1] \in 0..(size - 1) /\ q[2] \in 0..(size - 1) /\ q = <<q[1], q[2]>>
        BY DEF LifeOnTorus!Position
      <4>2. q[2] * size + q[1] \in Index /\ PositionOf(q[2] * size + q[1]) = q
        BY <2>1, <4>1, PositionOfIndex
      <4> QED
        BY <2>2, <3>2, <4>2 DEF Board
    <3> QED
      BY <3>1, <3>2
  <2>4. Board(current_grid)' = Board(next_grid)
    BY <1>2 DEF Swap, Board, Index, PositionOf, argVars
  <2> QED
    BY <1>2, <2>1, <2>3, <2>4 DEF Swap, argVars, Board, LifeOnTorus!Generation
<1>3. CASE Next /\ ~Swap
  BY <1>1, <1>3 DEF Next, Start, MakeCell, GridMade, DropOld, Collect, Check, Release,
                    argVars, gridVars
<1> QED
  BY <1>1, <1>2, <1>3 DEF vars, argVars, gridVars

\* The generations made cell by cell are those of Life on a torus, whatever the
\* size of the board.
THEOREM LifePlayed == Spec => PlaysLife
<1>1. Init => LifeOnTorus!Init
  BY InitIInv, InitLife
<1> QED
  BY <1>1, NextLife, Invariant, PTL DEF Spec, PlaysLife, LifeOnTorus!Spec

==============================================================================
