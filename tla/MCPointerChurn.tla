---------------------------- MODULE MCPointerChurn ----------------------------
\* Regions of three nodes with two edges each.  Five mutations, with a
\* collection at every second one: enough to make a cycle of two nodes and cut
\* it off, to drop a chain with one decref, and to collapse to the root and
\* open another region.  One mutation: the collection interval is zero.
EXTENDS PointerChurn
==============================================================================
