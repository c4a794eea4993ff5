---------------------------- MODULE MCGridWalkers -----------------------------
\* A grid of two by two nodes, one or two walkers and four steps: enough for a
\* pair of nodes to be cut off and freed while still linked, for a walker to stand on a
\* freed node and cut its link there, and for the root to be left alone.
EXTENDS GridWalkers
==============================================================================
