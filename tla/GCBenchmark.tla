----------------------------- MODULE GCBenchmark ------------------------------
(***************************************************************************)
(* A GCBenchmark object: run_benchmark measures a test, print_summary      *)
(* writes a file and prints a table of all that was measured.  Around each *)
(* run of the test the process-wide GC callback of the runtime is pointed  *)
(* at a collector on the stack and put back.  A test is whatever           *)
(* collections it makes the runtime report; harness.run returns when the   *)
(* scheduler has stopped, so no collection is reported after a test.       *)
(* Formatting is left out: a printed row is the record printed.  So are    *)
(* format_bytes and calculate_normalized_jitter, which has no caller.      *)
(***************************************************************************)
EXTENDS Collector, FiniteSets

CONSTANT
    MaxEvents    \* bound: collections in one run of the test

ASSUME GCBenchmarkAssumption == MaxEvents \in Nat

VARIABLES
    pc,          \* "idle", or in run_benchmark: "warmup", "warmupTest",
                 \* "measure", "measureTest"
    numRuns,     \* the parameters of the call
    warmupRuns,
    iter,        \* warmup, then run
    callback,    \* RegionContext's callback: the collector it feeds, 0 for none
    prev,        \* the local variable of run_benchmark
    scope,       \* the collectors constructed so far; the last is in scope
    collector,   \* the one in scope
    results,     \* run_results
    all,         \* all_gc_measurements_with_type (durations: all_gc_measurements)
    csv,         \* the file written, or NoFile
    table,       \* what print_summary has printed, or NoTable
    heard        \* the events of the measured runs so far (history)

\* What is there before print_summary, and without results after it too.
NoFile == [rows |-> <<>>]
NoTable == [rows |-> <<>>]

callParams == <<numRuns, warmupRuns>>
callVars == <<callback, prev, scope, collector>>
resultVars == <<results, all, csv, table>>
harnessVars == <<pc, callParams, iter, callVars, resultVars, heard>>

-----------------------------------------------------------------------------
\* run_benchmark
InTest == pc \in {"warmupTest", "measureTest"}

\* The call; without warm-ups the warm-up loop is left at once.
CallRunBenchmark(runs, warmups) ==
    /\ pc = "idle"
    /\ pc' = "warmup"
    /\ numRuns' = runs
    /\ warmupRuns' = warmups
    /\ iter' = 0
    /\ UNCHANGED <<callVars, resultVars, heard>>

\* A collector goes into scope and the callback is pointed at it.
EnterTest(from, to) ==
    /\ pc = from
    /\ pc' = to
    /\ scope' = scope + 1
    /\ collector' = EmptyCollector
    /\ prev' = callback
    /\ callback' = scope'
    /\ UNCHANGED <<callParams, iter, resultVars, heard>>

BeginWarmup == iter < warmupRuns /\ EnterTest("warmup", "warmupTest")

EndWarmups ==
    /\ pc = "warmup"
    /\ iter >= warmupRuns
    /\ pc' = "measure"
    /\ iter' = 0
    /\ UNCHANGED <<callParams, callVars, resultVars, heard>>

\* Mutant: the loop runs once too often.
BeginRunOneMore == iter <= numRuns /\ EnterTest("measure", "measureTest")

BeginRun == iter < numRuns /\ EnterTest("measure", "measureTest")

\* run_benchmark returns.
EndRuns ==
    /\ pc = "measure"
    /\ iter >= numRuns
    /\ pc' = "idle"
    /\ UNCHANGED <<callParams, iter, callVars, resultVars, heard>>

\* A collection of the test is reported to the callback.
Collect(e) ==
    /\ InTest
    /\ GcCount(collector) < MaxEvents
    /\ collector' = IF callback = scope THEN Record(collector, e) ELSE collector
    /\ heard' = IF pc = "measureTest" THEN Append(heard, e) ELSE heard
    /\ UNCHANGED <<pc, callParams, iter, callback, prev, scope, resultVars>>

LargestOf(seq) == FoldLeft(Larger, 0, seq)

\* Mutant: max_time is taken over all the runs so far.
RunResultGlobalMax(c) ==
    [total |-> c.total,
     calls |-> GcCount(c),
     avg |-> IF GcCount(c) > 0 THEN c.total \div GcCount(c) ELSE 0,
     max |-> LargestOf(Durations(all \o c.measurements)),
     peakMem |-> c.peakMem,
     peakObj |-> c.peakObj,
     avgMem |-> AverageMemory(c),
     avgObj |-> AverageObjects(c)]

\* The Result that a measured run appends to run_results.
RunResult(c) ==
    [total |-> c.total,
     calls |-> GcCount(c),
     avg |-> IF GcCount(c) > 0 THEN c.total \div GcCount(c) ELSE 0,
     max |-> LargestOf(Durations(c.measurements)),
     peakMem |-> c.peakMem,
     peakObj |-> c.peakObj,
     avgMem |-> AverageMemory(c),
     avgObj |-> AverageObjects(c)]

\* Mutant: the callback is left pointing at the collector.
LeaveTestKeepsCallback(from, to) ==
    /\ pc = from
    /\ pc' = to
    /\ iter' = iter + 1
    /\ UNCHANGED <<callParams, callVars, csv, table, heard>>

\* The test returns and the callback it found is put back.
LeaveTest(from, to) ==
    /\ pc = from
    /\ pc' = to
    /\ iter' = iter + 1
    /\ callback' = prev
    /\ UNCHANGED <<callParams, prev, scope, collector, csv, table, heard>>

\* Mutant: the measurements of a warm-up are kept.
EndWarmupKeeps ==
    /\ LeaveTest("warmupTest", "warmup")
    /\ all' = all \o collector.measurements
    /\ UNCHANGED results

\* What a warm-up measured goes with its dummy collector.
EndWarmup ==
    /\ LeaveTest("warmupTest", "warmup")
    /\ UNCHANGED <<results, all>>

EndRun ==
    /\ LeaveTest("measureTest", "measure")
    /\ results' = Append(results, RunResult(collector))
    /\ all' = all \o collector.measurements

RunBenchmark == BeginWarmup \/ EndWarmup \/ EndWarmups \/ BeginRun \/ EndRun

-----------------------------------------------------------------------------
\* print_summary

Column(rows, field) == [i \in 1..Len(rows) |-> rows[i][field]]

\* Mutant: the measurements are not sorted first.
SortedDurationsUnsorted == Durations(all)

\* The place of a measurement in the order is behind the smaller ones and the
\* equal ones listed before it.
SortedDurations ==
    LET d == Durations(all)
        Place(i) == Cardinality({j \in 1..Len(d) : d[j] < d[i] \/ (d[j] = d[i] /\ j <= i)})
    IN  [k \in 1..Len(d) |-> d[CHOOSE i \in 1..Len(d) : Place(i) = k]]

\* calculate_percentile of the sorted durations: the index is rounded down.
Percentile(p) ==
    IF all = <<>> THEN 0
    ELSE SortedDurations[1 + ((p * (Len(all) - 1)) \div 100)]

\* (P99 - P50) / P50 as a fraction, 0 if P50 is.
Jitter ==
    IF Percentile(50) = 0 THEN <<0, 1>>
    ELSE <<Percentile(99) - Percentile(50), Percentile(50)>>

\* The two arrays type_names of print_summary, which the region type indexes;
\* it numbers the types Trace, Arena, Rc.
TypeId == [Trace |-> 1, Arena |-> 2, Rc |-> 3]
FileNames == <<"Trace", "Arena", "Rc">>
TableNames == <<"Trace", "Rc", "Arena">>

\* The file of write_csv, named after the type of the first measurement.
CsvFile ==
    [label |-> IF all = <<>> THEN "" ELSE FileNames[TypeId[all[1].type]],
     rows |-> results,
     p50 |-> Percentile(50),
     p99 |-> Percentile(99),
     jitter |-> Jitter,
     avgMem |-> MeanOf(Column(results, "avgMem")),
     peakMem |-> MeanOf(Column(results, "peakMem"))]

TypesMeasured == {all[i].type : i \in 1..Len(all)}

\* The lines by region type, printed when there is more than one.
Breakdown ==
    LET calls(t) == Cardinality(OfType(all, t))
        total(t) == SumOf(DurationsOfType(all, t))
    IN  IF Cardinality(TypesMeasured) <= 1 THEN {}
        ELSE {[type |-> t, name |-> TableNames[TypeId[t]], calls |-> calls(t),
               total |-> total(t), avg |-> total(t) \div calls(t)] : t \in TypesMeasured}

\* The table of print_summary, with the averages it prints below its rows.
SummaryTable ==
    [rows |-> results,
     avgTime |-> MeanOf(Column(results, "total")),
     avgCalls |-> MeanOf(Column(results, "calls")),
     avgMem |-> MeanOf(Column(results, "avgMem")),
     peakMem |-> MeanOf(Column(results, "peakMem")),
     peakObj |-> MeanOf(Column(results, "peakObj")),
     p50 |-> Percentile(50),
     p99 |-> Percentile(99),
     jitter |-> Jitter,
     breakdown |-> Breakdown]

\* The file may not open, which is reported and ignored; without results there
\* is none.
WriteCsv ==
    /\ pc = "idle"
    /\ csv' \in IF results = <<>> THEN {NoFile} ELSE {CsvFile, NoFile}
    /\ UNCHANGED <<pc, callParams, iter, callVars, results, all, table, heard>>

PrintTable ==
    /\ pc = "idle"
    /\ table' = IF results = <<>> THEN NoTable ELSE SummaryTable
    /\ UNCHANGED <<pc, callParams, iter, callVars, results, all, csv, heard>>

HarnessInit ==
    /\ pc = "idle" /\ numRuns = 0 /\ warmupRuns = 0 /\ iter = 0
    /\ callback = 0 /\ prev = 0 /\ scope = 0 /\ collector = EmptyCollector
    /\ results = <<>> /\ all = <<>> /\ csv = NoFile /\ table = NoTable
    /\ heard = <<>>

-----------------------------------------------------------------------------
HarnessTypeOK ==
    /\ pc \in {"idle", "warmup", "warmupTest", "measure", "measureTest"}
    /\ numRuns \in Nat /\ warmupRuns \in Nat
    /\ iter \in 0..(IF pc \in {"warmup", "warmupTest"} THEN warmupRuns ELSE numRuns)
    /\ InTest => iter < IF pc = "warmupTest" THEN warmupRuns ELSE numRuns
    /\ scope \in Nat
    /\ callback \in 0..scope
    /\ prev \in 0..scope
    /\ GcCount(collector) \in 0..MaxEvents

\* The runtime never has a callback into a collector that is gone: it has one
\* while a test runs, into the collector of that run, and none otherwise.
CallbackLive == callback = IF InTest THEN scope ELSE 0

\* The measurements kept are those of the measured runs, each once and in
\* order: none of a warm-up, none lost at the change of region types.  The
\* collector in scope tells of all that came since.
MeasurementsKept ==
    LET measured == pc = "measureTest"
        kept == IF measured THEN all \o collector.measurements ELSE all
    IN  /\ kept = [i \in 1..Len(heard) |-> [dur |-> heard[i].dur, type |-> heard[i].type]]
        /\ measured => TellsOf(collector, SubSeq(heard, Len(all) + 1, Len(heard)))

\* The per-run results and the global list of measurements tell the same
\* story, and the lines by region type, when there are any, account for every
\* collection of theirs: none is counted under two types or under none.
ResultsAddUp ==
    LET calls == SumOf(Column(results, "calls"))
        total == SumOf(Column(results, "total"))
        lines == IF table = NoTable THEN <<>> ELSE SetToSeq(table.breakdown)
    IN  /\ calls = Len(all)
        /\ total = SumOf(Durations(all))
        /\ LargestOf(Column(results, "max")) = LargestOf(Durations(all))
        /\ \A i \in 1..Len(results) :
              LET r == results[i] IN
              r.avg <= r.max /\ r.max <= r.total /\ r.avgMem <= r.peakMem /\ r.avgObj <= r.peakObj
        /\ lines # <<>> => /\ SumOf(Column(lines, "calls")) = calls
                           /\ SumOf(Column(lines, "total")) = total

\* v stands at p percent of the measurements: no more than that are smaller,
\* and with v and its equals they are more.
RankedAt(v, p) ==
    LET rank == (p * (Len(all) - 1)) \div 100
        below == Cardinality({i \in 1..Len(all) : all[i].dur < v})
        upTo == Cardinality({i \in 1..Len(all) : all[i].dur <= v})
    IN  below <= rank /\ rank < upTo

\* The percentiles of the file and of the table are order statistics of what
\* was measured, whatever the order it came in, and the unsigned difference
\* in the jitter never wraps.
PercentilesRanked ==
    \A summary \in {csv, table} \ {NoFile, NoTable} :
        /\ all # <<>> => RankedAt(summary.p50, 50) /\ RankedAt(summary.p99, 99)
        /\ all = <<>> => summary.p50 = 0 /\ summary.p99 = 0
        /\ summary.p50 <= summary.p99

\* When print_summary has written both, its file is named after the region
\* type its measurements come from, and so is each line by region type of its
\* table.
LabelsTruthful ==
    csv # NoFile /\ table # NoTable =>
        /\ \A i \in 1..Len(all) : all[i].type = csv.label
        /\ \A l \in table.breakdown : l.name = l.type

==============================================================================
