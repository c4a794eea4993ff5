------------------------------ MODULE Collector ------------------------------
(***************************************************************************)
(* TestMeasurementCollector: what one run of a benchmark leaves behind.    *)
(* A collector is a record; an event [dur, type, mem, obj] is one call of  *)
(* the region runtime's GC callback.  The two maps by type are total, with *)
(* 0 for a type not seen, which is what their getters return.  Bound:      *)
(* durations, bytes and objects are naturals far from 2^64, where the sums *)
(* would wrap.                                                             *)
(***************************************************************************)
EXTENDS Naturals, Sequences, SequencesExt

CONSTANTS
    RegionType,
    Event          \* the [dur, type, mem, obj] a collection may report

ASSUME EventAssumption ==
    \A e \in Event : e.dur \in Nat /\ e.type \in RegionType /\ e.mem \in Nat /\ e.obj \in Nat

\* A collector as constructed.  (reset(), which has no caller, restores it.)
EmptyCollector ==
    [measurements |-> <<>>,
     total |-> 0,
     duration |-> [t \in RegionType |-> 0],
     count |-> [t \in RegionType |-> 0],
     memSamples |-> <<>>,
     objSamples |-> <<>>,
     peakMem |-> 0,
     peakObj |-> 0]

Larger(a, b) == IF a >= b THEN a ELSE b

SumOf(seq) == FoldLeft(LAMBDA a, b : a + b, 0, seq)

\* The sum of a vector / its size(), 0 for an empty one.
MeanOf(seq) == IF seq = <<>> THEN 0 ELSE SumOf(seq) \div Len(seq)

\* record_gc_measurement.
Record(c, e) ==
    [c EXCEPT !.measurements = Append(@, [dur |-> e.dur, type |-> e.type]),
              !.total = @ + e.dur,
              !.duration[e.type] = @ + e.dur,
              !.count[e.type] = @ + 1,
              !.memSamples = Append(@, e.mem),
              !.objSamples = Append(@, e.obj),
              !.peakMem = Larger(@, e.mem),
              !.peakObj = Larger(@, e.obj)]

GcCount(c) == Len(c.measurements)
GcCountByType(c, t) == c.count[t]
GcTimeByType(c, t) == c.duration[t]
AverageMemory(c) == MeanOf(c.memSamples)
AverageObjects(c) == MeanOf(c.objSamples)
Durations(seq) == [i \in 1..Len(seq) |-> seq[i].dur]

\* The places of the members of one type, and their durations with 0 for the others.
OfType(seq, t) == {i \in 1..Len(seq) : seq[i].type = t}
DurationsOfType(seq, t) == [i \in 1..Len(seq) |-> IF seq[i].type = t THEN seq[i].dur ELSE 0]

-----------------------------------------------------------------------------
\* peak is the largest of samples, 0 when there is none.
PeakOf(peak, samples) ==
    /\ \A i \in 1..Len(samples) : samples[i] <= peak
    /\ IF samples = <<>> THEN peak = 0 ELSE peak \in ToSet(samples)

\* A collector that tells one story in all its fields: those of the events es,
\* in the order they came.
TellsOf(c, es) ==
    /\ Durations(c.measurements) = Durations(es)
    /\ c.memSamples = [i \in 1..Len(es) |-> es[i].mem]
    /\ c.objSamples = [i \in 1..Len(es) |-> es[i].obj]
    /\ c.total = SumOf(Durations(es))
    /\ \A t \in RegionType :
          /\ GcCountByType(c, t) = Cardinality(OfType(es, t))
          /\ GcTimeByType(c, t) = SumOf(DurationsOfType(es, t))
    /\ PeakOf(c.peakMem, c.memSamples)
    /\ PeakOf(c.peakObj, c.objSamples)

==============================================================================
