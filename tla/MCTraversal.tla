---------------------------- MODULE MCTraversal -----------------------------
\* One region of four nodes: twelve arcs, every order of erasing them.
EXTENDS Traversal
=============================================================================
