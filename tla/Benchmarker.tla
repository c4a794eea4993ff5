------------------------------ MODULE Benchmarker -----------------------------
(***************************************************************************)
(* The main of the benchmarker: it reads its options, loads the library of *)
(* a benchmark, has a GCBenchmark measure the library's run_benchmark for  *)
(* each region type but Arena, and prints the summary.  What a user may    *)
(* type and what a library may export are the inputs.  The branch for      *)
(* Windows is left out.                                                    *)
(***************************************************************************)
EXTENDS GCBenchmark, Integers

CONSTANTS
    Word,             \* bound: what the arguments are made of
    MaxArgs,          \* bound: arguments after the program's name
    ValueOf,          \* the number a word starts with, for those that do
    Width,            \* bits of a size_t
    AllRegionTypes    \* the driver's array, in its order

ASSUME BenchmarkerAssumption ==
    /\ MaxArgs \in Nat
    /\ DOMAIN ValueOf \subseteq Word /\ \A w \in DOMAIN ValueOf : ValueOf[w] \in Int
    /\ Width \in Nat
    /\ RegionType = {"Trace", "Arena", "Rc"}
    /\ AllRegionTypes \in Seq(RegionType)
    /\ \E k \in 1..Len(AllRegionTypes) : AllRegionTypes[k] # "Arena"

VARIABLES
    at,          \* "args", "open", "lookup", "types", "csv", "table", "close",
                 \* "exited", or "aborted" by an exception or a fault
    argv,        \* the arguments after the program's name; from the path on (new_argv)
                 \* once it is found, and those after it once it is opened
    arg,         \* i of the loop over argv
    runs,        \* --runs
    warmups,     \* --warmup_runs
    library,     \* what run_benchmark takes in the library found: a region type and
                 \* its arguments, its arguments only, or it is "missing"; or "none"
    loaded,      \* the handle is open
    typeAt,      \* the element of AllRegionTypes the driver is at
    status       \* what main returned, -1 until then

optionVars == <<argv, arg, runs, warmups>>
driverVars == <<at, optionVars, library, loaded, typeAt, status>>
vars == <<harnessVars, driverVars>>

-----------------------------------------------------------------------------
\* The options

Option == {"--runs", "--warmup_runs"}

\* An option without a word after it is no option.
OptionAt(i) == i < Len(argv) /\ argv[i] \in Option

\* std::stoul takes a word that starts with a number of at most Width bits.
Converts(word) ==
    /\ word \in DOMAIN ValueOf
    /\ LET v == ValueOf[word] IN -(2^Width) < v /\ v < 2^Width

\* A negative number is taken modulo 2^Width.
Stoul(word) == ValueOf[word] % 2^Width

ReadOption ==
    /\ at = "args"
    /\ OptionAt(arg)
    /\ Converts(argv[arg + 1])
    /\ IF argv[arg] = "--runs"
       THEN runs' = Stoul(argv[arg + 1]) /\ UNCHANGED warmups
       ELSE warmups' = Stoul(argv[arg + 1]) /\ UNCHANGED runs
    /\ arg' = arg + 2
    /\ UNCHANGED <<harnessVars, at, argv, library, loaded, typeAt, status>>

\* The exception of std::stoul is not caught.
StoulThrows ==
    /\ at = "args"
    /\ OptionAt(arg)
    /\ ~Converts(argv[arg + 1])
    /\ at' = "aborted"
    /\ UNCHANGED <<harnessVars, optionVars, library, loaded, typeAt, status>>

Exit(code) == at' = "exited" /\ status' = code

\* Without a path, or without runs or warm-ups, main prints how it is used.
Usage ==
    /\ at = "args"
    /\ ~OptionAt(arg)
    /\ arg > Len(argv) \/ runs = 0 \/ warmups = 0
    /\ Exit(1)
    /\ UNCHANGED <<harnessVars, optionVars, library, loaded, typeAt>>

\* Mutant: the arguments are not shifted to the path.
FoundPathUnshifted ==
    /\ at = "args"
    /\ ~OptionAt(arg)
    /\ arg <= Len(argv) /\ runs # 0 /\ warmups # 0
    /\ at' = "open"
    /\ arg' = 1
    /\ UNCHANGED <<harnessVars, argv, runs, warmups, library, loaded, typeAt, status>>

\* The path is found; what was before it is not looked at again.
FoundPath ==
    /\ at = "args"
    /\ ~OptionAt(arg)
    /\ arg <= Len(argv) /\ runs # 0 /\ warmups # 0
    /\ at' = "open"
    /\ argv' = SubSeq(argv, arg, Len(argv))
    /\ arg' = 1
    /\ UNCHANGED <<harnessVars, runs, warmups, library, loaded, typeAt, status>>

-----------------------------------------------------------------------------
\* The library

OpenFails ==
    /\ at = "open"
    /\ Exit(1)
    /\ UNCHANGED <<harnessVars, optionVars, library, loaded, typeAt>>

\* The path is only a name from here on.
OpenLibrary ==
    /\ at = "open"
    /\ at' = "lookup"
    /\ loaded' = TRUE
    /\ library' \in {"typed", "untyped", "missing"}
    /\ argv' = Tail(argv)
    /\ UNCHANGED <<harnessVars, arg, runs, warmups, typeAt, status>>

\* Mutant: the library is left open.
LookupFailsKeepsLibrary ==
    /\ at = "lookup"
    /\ library = "missing"
    /\ Exit(1)
    /\ UNCHANGED <<harnessVars, optionVars, library, loaded, typeAt>>

LookupFails ==
    /\ at = "lookup"
    /\ library = "missing"
    /\ loaded' = FALSE
    /\ Exit(1)
    /\ UNCHANGED <<harnessVars, optionVars, library, typeAt>>

LookupEntry ==
    /\ at = "lookup"
    /\ library # "missing"
    /\ at' = "types"
    /\ UNCHANGED <<harnessVars, optionVars, library, loaded, typeAt, status>>

-----------------------------------------------------------------------------
\* The loop over the region types

\* Mutant: the cases of trace and reference counting are swapped.
DispatchSwapped(rt) == CASE rt = "Trace" -> "Rc" [] rt = "Rc" -> "Trace" [] OTHER -> rt

\* run_test_with_region instantiates the test with the type it is given, which
\* is always one of the three.
Dispatch(rt) == CASE rt = "Arena" -> "Arena" [] rt = "Trace" -> "Trace" [] rt = "Rc" -> "Rc"

\* The region type of a collection of the test.  An entry point that takes its
\* arguments only gets the region type as argc and the number of arguments as
\* argv: it sees no argument it can use, and runs on trace regions as it does
\* by default.
TypeTested == IF library = "typed" THEN Dispatch(AllRegionTypes[typeAt]) ELSE "Trace"

\* Mutant: Arena ends the loop.
SkipArenaBreaks ==
    /\ at = "types" /\ pc = "idle"
    /\ typeAt <= Len(AllRegionTypes)
    /\ AllRegionTypes[typeAt] = "Arena"
    /\ typeAt' = Len(AllRegionTypes) + 1
    /\ UNCHANGED <<harnessVars, at, optionVars, library, loaded, status>>

\* Mutant: the loop goes on without its increment.
SkipArenaStays ==
    /\ at = "types" /\ pc = "idle"
    /\ typeAt <= Len(AllRegionTypes)
    /\ AllRegionTypes[typeAt] = "Arena"
    /\ UNCHANGED vars

SkipArena ==
    /\ at = "types" /\ pc = "idle"
    /\ typeAt <= Len(AllRegionTypes)
    /\ AllRegionTypes[typeAt] = "Arena"
    /\ typeAt' = typeAt + 1
    /\ UNCHANGED <<harnessVars, at, optionVars, library, loaded, status>>

BeginType ==
    /\ at = "types"
    /\ typeAt <= Len(AllRegionTypes)
    /\ AllRegionTypes[typeAt] # "Arena"
    /\ CallRunBenchmark(runs, warmups)
    /\ UNCHANGED driverVars

EndType ==
    /\ at = "types"
    /\ EndRuns
    /\ typeAt' = typeAt + 1
    /\ UNCHANGED <<at, optionVars, library, loaded, status>>

EndTypes ==
    /\ at = "types" /\ pc = "idle"
    /\ typeAt > Len(AllRegionTypes)
    /\ at' = "csv"
    /\ UNCHANGED <<harnessVars, optionVars, library, loaded, typeAt, status>>

Measure == at = "types" /\ RunBenchmark /\ UNCHANGED driverVars

TestCollects ==
    /\ at = "types"
    /\ InTest
    /\ \E e \in Event : e.type = TypeTested /\ Collect(e)
    /\ UNCHANGED driverVars

\* The test throws or faults, as an entry point that reads the arguments it did
\* not get will: nothing catches it and the program terminates.
TestThrows ==
    /\ at = "types"
    /\ InTest
    /\ at' = "aborted"
    /\ UNCHANGED <<harnessVars, optionVars, library, loaded, typeAt, status>>

-----------------------------------------------------------------------------
\* The summary

SummaryCsv ==
    /\ at = "csv"
    /\ WriteCsv
    /\ at' = "table"
    /\ UNCHANGED <<optionVars, library, loaded, typeAt, status>>

\* create_directory throws where there can be no directory CSVs.
CsvThrows ==
    /\ at = "csv"
    /\ results # <<>>
    /\ at' = "aborted"
    /\ UNCHANGED <<harnessVars, optionVars, library, loaded, typeAt, status>>

SummaryTablePrinted ==
    /\ at = "table"
    /\ PrintTable
    /\ at' = "close"
    /\ UNCHANGED <<optionVars, library, loaded, typeAt, status>>

CloseLibrary ==
    /\ at = "close"
    /\ loaded' = FALSE
    /\ Exit(0)
    /\ UNCHANGED <<harnessVars, optionVars, library, typeAt>>

Init ==
    /\ HarnessInit
    /\ at = "args" /\ arg = 1 /\ runs = 0 /\ warmups = 0
    /\ argv \in UNION {[1..n -> Word] : n \in 0..MaxArgs}
    /\ library = "none" /\ loaded = FALSE
    /\ typeAt = 1
    /\ status = -1

\* What main does without waiting for the test.
Step ==
    \/ ReadOption \/ StoulThrows \/ Usage \/ FoundPath
    \/ OpenFails \/ OpenLibrary \/ LookupFails \/ LookupEntry
    \/ SkipArena \/ BeginType \/ EndType \/ EndTypes \/ Measure
    \/ SummaryCsv \/ CsvThrows \/ SummaryTablePrinted \/ CloseLibrary

Next == Step \/ TestCollects \/ TestThrows

Spec == Init /\ [][Next]_vars

\* The main thread runs on, and every run of the test ends.
FairSpec == Spec /\ WF_vars(Step)

-----------------------------------------------------------------------------
TypeOK ==
    /\ HarnessTypeOK
    /\ at \in {"args", "open", "lookup", "types", "csv", "table", "close",
               "exited", "aborted"}
    /\ argv \in Seq(Word)
    /\ arg \in 1..(Len(argv) + 1)
    /\ runs \in 0..(2^Width - 1) /\ warmups \in 0..(2^Width - 1)
    /\ library \in {"none", "typed", "untyped", "missing"}
    /\ loaded \in BOOLEAN
    /\ typeAt \in 1..(Len(AllRegionTypes) + 1)
    /\ status \in -1..1

\* The last of the first n pairs of words that gives the option wins.
LastGiven(option, n, value) ==
    LET given == {j \in 1..n : argv[2 * j - 1] = option}
    IN  IF given = {} THEN value = 0
        ELSE \E last \in given :
                /\ \A j \in given : j <= last
                /\ ValueOf[argv[2 * last]] \in {value, value - 2^Width}

\* The command line as the usage message has it: n pairs of an option and its
\* number in any order, the path, and the rest.  An option as the last word is the
\* path.
UsageForm(n) ==
    /\ 2 * n < Len(argv)
    /\ \A j \in 1..n : argv[2 * j - 1] \in Option /\ Converts(argv[2 * j])
    /\ argv[2 * n + 1] \in Option => 2 * n + 1 = Len(argv)

\* It gives both numbers, and neither is 0.
Gives(n, r, w) ==
    /\ UsageForm(n)
    /\ r > 0 /\ LastGiven("--runs", n, r)
    /\ w > 0 /\ LastGiven("--warmup_runs", n, w)

\* main goes on to the library, with the numbers given and the arguments from the
\* path on, exactly if the command line has that form: it neither turns one away
\* nor goes on with another.
ParsedAsUsage ==
    [][at = "args" /\ at' # "args" =>
         IF at' = "open"
         THEN \E n \in 0..(Len(argv) \div 2) :
                 /\ Gives(n, runs, warmups)
                 /\ argv' = SubSeq(argv, 2 * n + 1, Len(argv))
         ELSE \A n \in 0..(Len(argv) \div 2) : \A r, w \in 1..(2^Width - 1) : ~Gives(n, r, w)]_vars

\* The elements of the driver's array that are measured.
Measured == {k \in 1..Len(AllRegionTypes) : AllRegionTypes[k] # "Arena"}

\* Which call of run_benchmark result i comes from, and its measurements.
CallOf(i) == 1 + (i - 1) \div runs
MeasurementsOf(i) ==
    LET before == SumOf(SubSeq(Column(results, "calls"), 1, i - 1))
    IN  SubSeq(all, before + 1, before + results[i].calls)

\* A benchmark that takes a region type is measured on the type asked for: the
\* results come in groups of `runs`, one for each type but Arena in the order
\* of the driver's array, and each holds collections of that type only.
MeasuresTypeAsked ==
    library = "typed" =>
        \A i \in 1..Len(results) :
            \E k \in Measured :
                /\ Cardinality({j \in Measured : j <= k}) = CallOf(i)
                /\ \A m \in ToSet(MeasurementsOf(i)) : m.type = AllRegionTypes[k]

\* The library's code and the callback into the driver are only used while the
\* library is open, and every way main returns has closed it.
LibraryHeld ==
    /\ InTest => loaded
    /\ callback # 0 => loaded
    /\ at = "exited" => ~loaded

\* The exit status tells what became of the benchmark: 0 after every type was
\* measured as often as asked and the table of that was printed, 1 before any
\* test has run.  A file that does not open is not told.
ExitTells ==
    /\ status = 0 => /\ Len(results) = runs * Cardinality(Measured)
                     /\ table # NoTable /\ table.rows = results
    /\ status = 1 => scope = 0 /\ table = NoTable

\* main returns, or the program is aborted.
Completes == <>(at \in {"exited", "aborted"})

==============================================================================
