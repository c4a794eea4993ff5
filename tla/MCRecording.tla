----------------------------- MODULE MCRecording ------------------------------
\* Two regions on two cores, with two collections each; the collections of a trace
\* region and of a reference counting one report different durations, bytes
\* and objects.
EXTENDS Recording

TwoEvents == {[dur |-> 1, mem |-> 4, obj |-> 1, type |-> "Trace"], [dur |-> 3, mem |-> 1, obj |-> 2, type |-> "Rc"]}
==============================================================================
