--------------------------------- MODULE Life ---------------------------------
(***************************************************************************)
(* The game the gol benchmarks play: Conway's Game of Life on a square     *)
(* torus, started with an R-pentomino, for a number of generations.  A     *)
(* board is the set of its live positions.                                 *)
(***************************************************************************)
EXTENDS Integers, FiniteSets

VARIABLES
    size,          \* the length of a side
    generations,   \* how many are to be played
    generation,    \* how many have been
    board

lifeVars == <<size, generations, generation, board>>

Position == (0..(size - 1)) \X (0..(size - 1))

RPentomino ==
    LET c == size \div 2
    IN  {<<c + 1, c>>, <<c + 2, c>>, <<c, c + 1>>, <<c + 1, c + 1>>, <<c + 1, c + 2>>}

\* Next to each other on a ring of that length, or the same.
Near(a, b) == (a - b) % size \in {0, 1, size - 1}

Neighbours(p) == {q \in Position \ {p} : Near(p[1], q[1]) /\ Near(p[2], q[2])}

LivesOn(p) ==
    LET n == Cardinality(Neighbours(p) \cap board)
    IN  n = 3 \/ (n = 2 /\ p \in board)

Init ==
    /\ generation = 0
    /\ board = RPentomino \cap Position

Generation ==
    /\ generation < generations
    /\ generation' = generation + 1
    /\ board' = {p \in Position : LivesOn(p)}
    /\ UNCHANGED <<size, generations>>

Spec == Init /\ [][Generation]_lifeVars

===============================================================================
