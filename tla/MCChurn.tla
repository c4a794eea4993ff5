------------------------------ MODULE MCChurn -------------------------------
\* Five addresses, regions that start with one or two nodes, a working set
\* of three with at most three new nodes: churns whose walk comes back to
\* the bridge, meets a node twice, strands part of the graph, churns of a
\* spent region that fill the working set with new nodes and link those, and
\* addresses that are reused after a collection.
EXTENDS Churn
=============================================================================
