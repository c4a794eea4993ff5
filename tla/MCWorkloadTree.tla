---------------------------- MODULE MCWorkloadTree ----------------------------
\* No tree, one node, and trees whose inner nodes have inner nodes below them;
\* three transformations, so that a tree made by one is discarded by the next.
EXTENDS WorkloadTree
===============================================================================
