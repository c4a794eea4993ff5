---------------------------- MODULE MCBenchmarker -----------------------------
\* Command lines of up to five words, enough for both options in either order,
\* one of them missing, given twice or without a number, and for a path.  The
\* numbers are 0, 2, one that wraps to 1 and one that does not fit in a size_t
\* of two bits.  The driver's three region types, of which two are run; in each
\* run of the test up to two collections: a short one of a large heap and a
\* long one of a small heap with more objects.
EXTENDS Benchmarker, TLC

DriverTypes == <<"Arena", "Trace", "Rc">>
Words == {"--runs", "--warmup_runs", "0", "2", "-3", "4", "lib"}
Numbers == "0" :> 0 @@ "2" :> 2 @@ "-3" :> -3 @@ "4" :> 4
TwoEvents ==
    {[dur |-> 1, mem |-> 4, obj |-> 1, type |-> t] : t \in {"Trace", "Rc"}}
    \cup {[dur |-> 3, mem |-> 1, obj |-> 2, type |-> t] : t \in {"Trace", "Rc"}}
==============================================================================
