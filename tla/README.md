# Verification of verona-benchmarks

TLA+ models of the garbage-collection benchmarks of this repository and of the
harness that measures them, TLC configurations that check the models on small
instances, and proofs, checked by TLAPS, that the main invariants hold for every
value of the constants.

## 1. The system

`verona-benchmarks` is a set of shared libraries, one per benchmark, and a driver,
`benchmarker`, that loads one of them, runs it several times and writes down what
the runtime reports about its region collections. The Verona runtime itself
(regions, collections, cowns and `when`, the scheduler) is not part of the
repository.

| part | sources | state | operations |
|---|---|---|---|
| driver | `src/src/benchmarker/benchmark_main.{cc,h}` | `runs`, `warmup_runs`, the library handle, one `GCBenchmark` | parse, load, one `run_benchmark` per region type but Arena (a library's entry point instantiates its test with the type through `run_test_with_region`), `print_summary`, unload |
| measurement harness | `src/src/gc_benchmark.h` | `run_results`, `all_gc_measurements(_with_type)`; a `TestMeasurementCollector` per run; the process-wide GC callback | `run_benchmark`, `record_gc_measurement`, percentiles and averages, `print_summary`, `write_csv` |
| arbitrary_nodes | `src/benchmarks/arbitrary_nodes` | per region a graph of nodes with outgoing arcs, a bridge; a vector of cowns | `createGraph`, `fully_connect`, `traverse_region`, `run_test` |
| partially connected arbitrary_nodes | `src/benchmarks/partially_connected_arbitrary_nodes` | the same, and a working set of raw pointers during a churn | also `partially_connect`, `churn_region`, `multi_churn`, `run_churn_test`, `region_collect` |
| pointer_churn | `src/benchmarks/pointer_churn` | one region at a time: nodes with a few edges each, reference counts kept by hand, mutations left | `test_pointer_churn`: open a region, add, update or remove an edge, collect every so often, release |
| grid_walkers | `src/benchmarks/grid_walkers` | a grid of doubly linked nodes, raw pointers of walkers | `test_walker`: walk and cut links, respawn, count, collect, check |
| Game of Life | `src/benchmarks/gol` | two grids of pointers to cells, a root that holds a copy of one | `run_test` in two variants: a generation (in `gol_rc.h` also `decref` of the old one), collect, check |
| workload_tree | `src/benchmarks/workloads` | a tree, the tree being made from it, reference counts kept by hand | `build_tree`, `transform_tree`, `discard_tree`, collect, check |

How they interact. The driver calls `run_benchmark` of the harness, which installs a
GC callback, calls the test (through `harness.run` and the library's entry point) and
takes the callback away again. The test allocates regions and, in the graph
benchmarks, hands them to cowns; behaviours scheduled with `when` run on the
scheduler's threads, in order and one at a time per cown and in parallel between
cowns. Each `region_collect` calls the callback on the thread that collects. The
vector of cowns, the waiting behaviours and the running ones share each cown by
reference counting; the last one to go releases the region.

What is hard, and where it is treated:

* behaviours of several regions interleaved with each other and with a main thread
  that leaves early (`Behaviours`), and their collections' callbacks on one
  collector without a lock (`Recording`);
* long random sequences of graph changes after which a few facts must still hold
  (`Traversal`, `Churn`, `PointerChurn`, `GridWalkers`);
* raw pointers that a collection does not see (`Churn`'s working set, the walkers
  and the grid in `GridWalkers`, the locals of `PointerChurn`);
* loops that end only because of what their bodies do to a graph (`Traversal`,
  `PointerChurn`);
* a callback into a stack frame, warm-ups, several region types and exceptions
  (`GCBenchmark`, and `Benchmarker` around it);
* a command line whose numbers wrap or do not convert, a library that may not open,
  lack the entry point or export it with another signature, and a summary that may
  throw after everything was measured (`Benchmarker`);
* recursion that hands references from local variables to fields (`WorkloadTree`) and
  grids that point to freed cells for a moment (`GameOfLife`);
* numeric edges: remainders by a quotient that may be 0 (`PointerChurn`), unsigned
  differences and averages of empty lists (`GCBenchmark`), boards too small for
  their pattern (`GameOfLife`).

The full list, with lines, is in `PROJECT.json` under `hazards`. Nothing is
persisted apart from the final CSV file and there is no network, so there is no
crash recovery, and no message is lost or duplicated.

## 2. The modules

| module | models | correspondence |
|---|---|---|
| `RegionHeap` | what a trace of a region finds | external; `Reachable` is the least closed set, `succ[o]` is what `o.trace(st)` pushes |
| `Traversal` | `fully_connect`, `removeArc`, `traverse`, `traverse_region` | `neighbours` and `cur` are the code's; `Step` is one iteration of the loop |
| `RegionLifecycle` | abstract: what a region on a cown is promised | `Create`, `Enter`, `Leave`, `Release` |
| `Behaviours` | `createGraph`, `run_test`, `run_churn_test`, `multi_churn`, `~GraphRegionCown` | `CreateRegion`, `ScheduleTest`, `LeaveScope` are the main thread's loops, one element of the vector per step; `Start`, `Operate`, `ScheduleInner`, `Finish` are a scheduler thread's; `refs` is the cown's count |
| `Churn` | `partially_connect`, `churn_region`, `addArc`, `random_pair`, `region_collect` on a trace region | `stage` is the loop of `churn_region` being executed, `count` its counter; one action per iteration and per loop exit; `Collect` is the collecting behaviour |
| `Collector` | `TestMeasurementCollector` | a record with its members; `Record` is `record_gc_measurement` |
| `GCBenchmark` | a `GCBenchmark` object: `run_benchmark`, `print_summary`, `write_csv` | `callback`, `prev` are the pointers of the code, a collector being named by how many were constructed before; `BeginWarmup`, `EndWarmup`, `BeginRun`, `EndRun` go around a test, `Collect` is a callback; `csv` and `table` are what was written and printed. It has no specification of its own: the operations are composed by its caller |
| `Benchmarker` | `main` of the driver and `run_test_with_region` | extends `GCBenchmark`; `at` is where main is, the actions follow it from `ReadOption` to `CloseLibrary`; `TestCollects` and `TestThrows` are what a test may do to it |
| `Recording` | `record_gc_measurement` called in parallel | one load and one store per member; a `push_back` may also put its element where the end of the vector was and move the end on from where it is by then (`PushedOver`), which counts a slot nobody wrote; `Corrupt` is two overlapping updates of a vector or map one of which reallocates |
| `PointerChurn` | `test_pointer_churn` for the three region types | `pc` is the outer or inner loop; `AddOrUpdate` and `RemoveOrSkip` are the two sides of the coin flip, each with the `incref`, `decref` and periodic collection of the iteration; `find_reachable_nodes` is the search itself, compared with the `Found` the actions use |
| `Life` | abstract: the Game of Life on a torus | a board is the set of live positions |
| `GameOfLife` | `run_test` of `gol.h` and `gol_rc.h` | `MakeCell` is an iteration of the loops over the board; `DropOld`, `Swap`, `Collect`, `Check` end a generation; `LifeOnTorus` is the refinement mapping |
| `WorkloadTree` | `run_test`, `build_tree`, `transform_tree`, `discard_tree` | `stack` is the recursion: `Begin` and `MakeSubtree` are calls, `ReturnNode` the assignment of both subtrees with `TRANSFER_REF` and the return; `Discard`, `AssignTree`, `Collect`, `Check` are a round |
| `GridWalkers` | `test_walker` | `Walk` and `Respawn` are a walker's turn, `CheckStep` the count, the collection and the check at the end of a step |

`Traversal` and `Churn` model what a behaviour does to its region, `Behaviours` when
behaviours run; they compose because a behaviour owns its cown while it runs:
`Behaviours` shows that no two behaviours are in one region (it implements
`RegionLifecycle`), which is why `Traversal` and `Churn` may treat the operations of
a region as one sequence. `Churn` allows any order of churns and collections, more
than `Behaviours` produces. `Collector` is shared by `GCBenchmark`, where calls come
one at a time, and `Recording`, where they overlap. `Benchmarker` composes `main` with
the `GCBenchmark` it owns: one next-state relation over the state of both, a test
being whatever the benchmarks may make the runtime report. The modules named `*Proofs` hold
the theorems, those named `MC*` what TLC needs.

### Assumptions on what is outside the repository

* `when` runs the behaviours of a cown one at a time, in the order scheduled;
  a behaviour holds a reference to its cown from scheduling to its end.
* The GC callback is one per process and is called by the collecting thread.
* `harness.run` returns when the scheduler has run out of work.
* Collecting a trace region frees what a trace from the bridge does not find.
  `decref` to zero frees an object and drops its references, and so on;
  collecting a reference counting region frees unreachable objects in
  `PointerChurn`, which keeps counts, and frees nothing in `GridWalkers`, which
  never calls `decref`: the collection looks at objects whose count was lowered.
* `decref` frees a cell of the Game of Life; the collection of a reference counting
  region has only cycles to find, which neither the grids nor the trees have.
* `RegionType` numbers Trace, Arena and Rc in this order. Only `FileNames` and
  `TableNames` depend on it, and as the two disagree one is wrong in any order.
* An entry point without the region type in front is called with it all the same: it
  reads the type as `argc` and the number of arguments as `argv`, and runs on trace
  regions, its default, or faults.
* Outcomes of undefined behaviour: unsynchronised updates of a member lose one of
  two updates, count a slot of a vector that nobody wrote to, or corrupt a vector or a
  map so that nothing is defined any more; memory of a freed node holds the
  node's links, or none, or reading it faults; a remainder by zero traps or,
  on processors that do not trap, is its left operand.

## 3. What the runs check

| run | instance | shows |
|---|---|---|
| `traversal` | 4 nodes, all orders of erasing 12 arcs | the graph stays Eulerian but for the walker's position (`Balanced`), so the walk ends (`Terminates`) at the bridge (`ReturnsToBridge`) and leaves only the bridge reachable (`RestIsGarbage`), for any number of nodes, not only the even numbers the comment of `fully_connect` speaks of |
| `behaviours` | 2 regions, 2 workers, 3 inner churns, a collection every 2 | `RefsExact`, `LiveWhileNeeded`, `LiveIffHeld`: counting releases a region exactly when nothing refers to it, although the main thread leaves early; `CollectionsPaced`: collections come after the churns they follow in the loop; `ImplementsLifecycle`; `AllReleased` under fairness: every region is released in the end, with the whole of its test run on it |
| `churn` | 5 addresses, regions that start with 1 or 2 nodes, working set of 3, up to 3 new nodes | `NoDangling`: the working set's raw pointers and all arcs are live at any time; `NoResurrection`: what was unreachable between two behaviours is never linked to again; `SpentForever`: a region whose bridge has no arc left only ever gets islands, which its churns make of new nodes only |
| `benchmarker` | every command line of up to 5 of 7 words; Arena, Trace, Rc; 2 runs (or 1 from a number that wraps), as many warm-ups, up to 2 collections each of 2 kinds | `CallbackLive`, `MeasurementsKept`, `ResultsAddUp` (rows, list of measurements and breakdown agree), `PercentilesRanked` (the percentiles are order statistics), `MeasuresTypeAsked` (the results come in groups by type), `LibraryHeld`, `ExitTells` (0 after everything was measured and printed, 1 before any test), `ParsedAsUsage` (main goes on to the library exactly if the command line has the form of the usage message, with both numbers given and not 0), `Completes`: main returns or the program aborts |
| `benchmarker_labels` | the same | `LabelsTruthful` fails, see below |
| `recording_race` | 2 regions with 2 collections each, 2 cores | `AllRecorded` fails, see below |
| `pointer_churn` | 3 nodes, 2 edges each, 5 mutations with a collection every 2, or 1 mutation with interval 0; Trace, Arena, Rc | `NoDangling`, `RcExact`, `OnlyCyclesLeft`; `SearchComplete`: the search for live nodes finds what a trace does; `Finishes`: unless the interval is 0 the test ends with the given number of mutations made |
| `grid_walkers` | 2 by 2 grid, 1 or 2 walkers, 4 steps, Trace | `LinksPaired`, `FreedApart`: a walker on freed memory never touches the live graph; hence no check fails (`ChecksHold`) |
| `grid_walkers_rc` | the same with Rc | `ChecksHold` fails, see below |
| `game_of_life` | sides 4, 5 and 8, 0, 3 and 10 generations, Trace and Rc, both variants | `PlaysLife`: the grids implement `Life`; `PointersLive`; `PlayedToEnd`: on boards with room for the pattern, and with a trace or the decrefs of `gol_rc.h`, all generations are played and no check fails |
| `game_of_life_rc` | side 8, 10 generations | `ChecksHold` fails, see below |
| `workload_tree` | depths 0 to 3, 3 transformations, Trace, Arena, Rc | `RcExact`, `NoDangling`: references handed from locals to fields; `TreeComplete`: a new tree is complete although the old one goes; `Ends`, and with it the check on the heap after each transformation and `heap::debug_check_empty()` after the release |

`TypeOK` is a conjunct of `NoDangling`, `LinksPaired` and `PointersLive` in
`PointerChurn`, `WorkloadTree`, `GridWalkers` and `GameOfLife`, and proved for
`Traversal`, `Behaviours` and `Churn`, whose runs do not repeat it; nor does
`behaviours` repeat `LiveWhileNeeded`, which is proved and follows from `LiveIffHeld`.

### Disagreements found

* One summary for two region types: the driver reuses one `GCBenchmark` for Trace
  and Rc and names the file after the first measurement's type (`LabelsTruthful`).
* The breakdown of that summary by region type takes its names from an array in
  another order than the file name's: Rc is printed as Arena (`LabelsTruthful`).
* `record_gc_measurement` has no lock; collections of different regions run in
  parallel, measurements are lost, slots counted that nobody wrote to, and vectors and
  maps corrupted (`AllRecorded`).
* The comment at `pointer_churn.h:26-29` says the test goes on "until we have mutated
  the given number of times". In two cases it does not, and `Finishes` is not claimed
  of them. With fewer than 100 mutations it takes a remainder by zero (`Interval = 0`):
  the model then is `trapped`, after the first mutation, or goes on where the processor
  does not trap; `Finishes` without its premise has that counterexample in
  `MCPointerChurn.cfg`. With one node (`-n 1`) it opens and releases regions forever:
  `MCPointerChurn.cfg` with `NumNodes = 1` gives the counterexample to `Finishes`.
* A walker of grid_walkers walks as a local copy of its pointer: it never moves
  (`Walk` leaves `walkers` as they are), against `grid_walkers.h:20-21`.
* grid_walkers asserts, on every region type, that every unreachable node was
  freed; a reference counting region frees none of them (`ChecksHold` with Rc).
* pointer_churn and the partially connected benchmark export `run_benchmark(int, char**)`,
  which the driver calls with the region type in front: they run on Trace both times,
  or fault. `MeasuresTypeAsked` therefore speaks of the other libraries only.
* The driver runs `gol.h` on a reference counting region, where nothing frees the old
  generation: its check at `gol.h:139` fails after the first generation (`ChecksHold` of
  `game_of_life_rc`); `gol_rc.h`, which would hold, has no entry point. On a board of a
  side below 5 the pattern is cut off and the check at `gol.h:86` fails.

### Bounds, and why they are enough

Every bound is a constant or named in a comment. The code's 20 working-set entries,
4 new nodes, 10 inner churns, 4 churns per collection, 4 edges per node and 100
collections per run are constants, made small. Five addresses are enough for a churn
whose walk visits a node twice or comes back to the bridge, and for regions that
churns have grown from one or two nodes to five; three nodes for a cycle cut off from the
root and a chain dropped by one `decref`; a working set of three is the smallest that is
linked at all (`workingSet.size() > 2`). With up to three new nodes it is filled by
walked nodes, by some of them and one or two new ones, or by new ones alone, as in every
churn of a spent region, which walks nowhere. Addresses are reused after a collection, which bounds the
nodes of `Churn` without bounding the number of churns; a churn may stop in the model
when no address is free. Two regions and two workers give every overlap of two
behaviours and of two calls of the callback. In `Benchmarker` a `size_t` has two bits, so that one word wraps and one does not fit;
five words are enough for both options in either order, one of them missing, given
twice or without a number, and a path. Two collections per run give percentiles of up
to eight measurements and a longest one that is not the largest. Boards of side 4 cut
the pattern off, on 5 it touches its own image across the edges, and 8 with 10
generations is the entry point's default. Trees of depth 3 have inner nodes below
inner nodes, and with three transformations a tree made from a made one is discarded.
No run uses symmetry, since the runs with
interchangeable nodes check liveness too.

`CHECK_DEADLOCK FALSE` is set where the program ends: the walk, the main thread, the
driver and the other benchmarks all come to their end and stop.

### Fairness

`Traversal`, `Behaviours`, `PointerChurn`, `GameOfLife` and `WorkloadTree` assume weak
fairness of `Next`: their code is one thread that runs on, or a scheduler that does some
work when there is some; nothing is assumed about which. `Churn`, `GridWalkers` and
`Recording` assume none: their properties are about what a step may do. That a churn
ends is not among them, since each of its loops but one is bounded by a counter
or the growth of the working set, and the one of `random_pair` is left to chance.
`Benchmarker` assumes it of `Step`, what main does, a returning test among it: a test
ends, but may report further collections or throw before.

## 4. What is proved

Each theorem below holds for every value of the constants that the assumptions allow:
any finite set of nodes, any number of regions, workers and iterations, any size of
grid and board, any options and numbers of runs. In parentheses is the property of the
runs that a theorem states, where the name does not tell.

* `TraversalProofs`: `TypeCorrect`, `WalkStaysBalanced`, `WalkReturnsToBridge`,
  `WalkLeavesOnlyBridge`. The inductive invariant is `TypeOK /\ Balanced`: the
  follow-and-erase of one arc lowers the out-degree of the node left and the
  in-degree of the node entered, which moves the surplus along with `cur`. At the
  end `cur` has no arc out, so its balance is not positive, which only the bridge's
  surplus allows; then the bridge alone is closed under its (empty) arcs. The
  invariant needs the nodes' lack of arcs to themselves, part of `TypeOK`.
* `BehavioursProofs`: `TypeCorrect`, `ReferencesExact`, `LiveExactlyWhileHeld`,
  `NeverReleasedInUse`, `LifecycleImplemented` (the refinement of `RegionLifecycle`) and
  `CollectionsArePaced`. The inductive
  invariant of the first five joins to `TypeOK`, `RefsExact` and `LiveIffHeld` that a
  region not yet created has nothing waiting or running (`CreationFirst`), without which
  a creation could overwrite a count. A behaviour, waiting or running, is itself a
  holder, so it never finds its region released. `CollectionsPaced` speaks of what was
  done only; its inductive invariant (`Course`) says of every region where it is on the
  course from the traversal over the first churns and the scheduling loop to what is
  left of the queue, and that log, running behaviour and queue together are paced. That
  all collections come in the end is part of `AllReleased` and left to TLC.
* `ChurnProofs`: `TypeCorrect`, `NoPointerDangles`, `GarbageStaysGarbage`,
  `SpentStaysSpent`. The inductive invariant joins to `TypeOK` and `NoDangling` that the
  locals are reset between behaviours and freed addresses have no arcs (`Tidy`), and that
  no node outside `lost`, neither a reachable one nor a local of the churn, has an arc
  into it (`Sealed`): what the program can name is closed under following arcs, and links
  are made only between nodes it can name. `SpentForever` is an action property: once the
  bridge has no arc, the walk never leaves it and the working set never has it (`Spent`).
* `PointerChurnProofs`: `NothingDangles` (`NoDangling`), `CountsExact` (`RcExact`),
  `OnlyCyclesKept` (`OnlyCyclesLeft`), `SearchFindsAll` (`SearchComplete`). The inductive invariant says that the heap is
  `Sound`: edges lead to live nodes other than the root, and in a reference counting
  region each count is the number of slots that refer to the node, and at least 1. There
  is a lemma for each operation on a heap (`UpdateEdge`, `RemoveEdge`, `DecRef`, a
  collection): it keeps a heap sound and loses nothing the root reaches. Behind `DecRef`
  stands that the cascade of frees (`UsedUp`, a least fixpoint) is itself a fixpoint:
  what it leaves alone has a reference from what stays. `SearchFindsAll`
  (`SearchComplete`) is about the recursion that `find_reachable_nodes` is: it has a
  solution (`SearchExists`, by induction on the nodes not yet seen, which every call made
  from within has fewer of), and what any solution finds is closed under the edges of
  what it adds and within every closed set (`SearchFinds`), which makes it what a trace
  finds. The search is a function of one pair, since the prover knows none of several
  arguments.
* `GridWalkersProofs`: `LinksStayPaired` (`LinksPaired`), `FreedStaysApart`
  (`FreedApart`) and `ChecksHoldOnTrace` (on trace regions `ChecksHold`). The two properties
  are inductive together, once it is added that the root stays live and that the loop
  has a step left while it runs; `FreedApart` needs
  `LinksPaired`, since a link is cut on both of its sides.
* `GameOfLifeProofs`: `PointersStayLive` (`PointersLive`) and `LifePlayed`
  (`PlaysLife`: both variants of the benchmark implement `Life`). `PointersLive` leaves
  out the time between the decrefs of `gol_rc.h` and the swap, when the old board does
  point to freed cells. The inductive
  invariant says which grid holds which cells at each place of the program (`Kept`), and
  that the part of the new board already made is what the rules make of the old one
  (`Played`). The refinement rests on arithmetic: the code's `(x + dx + size) % size`
  meets the positions `Life` calls near on a torus, each once, because a board that
  gets past the heap check has sides greater than 2.
* `WorkloadTreeProofs`: `HeapCorrect`, `CountsExact` (`RcExact`), `NothingDangles`
  (`NoDangling`), `TreeStaysComplete` (`TreeComplete`) and `CheckNeverFails` (the check on
  the heap succeeds, and the one that it is empty in the end, the safety part of `Ends`). None of the properties is inductive, for
  none says where in a tree a node is. The invariant (`HeapInv`) does: there are two
  layouts, `old` and `new`, of the current tree and the one being made, each a function
  from places, numbered breadth first, to nodes, and `place` says at which place each
  frame of the recursion is. No node is in both layouts or at two places (`Apart`); what
  has been returned is linked to what is below it (`Settled`), a frame's node to nothing
  yet (`FrameAt`); a frame's place is one level below that of its caller, so that the
  stack fits the depth; nodes are made below made ones, left before right (`Reached`);
  there is room left for the rest of the tree (`Budget`); in a reference counting region
  what is live is just what the layouts show, each with a count of one. The exact
  counts follow: a node is held by the parent the layout gives it, or by the frame, the
  locals of the frame or of `run_test` that it is still to be handed to. What `discard_tree`
  frees (`OldUsedUp`), a trace finds (`TraceFindsTree`) and `count_nodes` counts
  (`NodeAtTree`) are recursive functions; each is shown to be the tree's layout by an
  induction over levels or places.
* `BenchmarkerProofs`: `CallbackNeverDangles`, `LibraryHeldWhileUsed`, `TypeCorrect`
  (`TypeOK`), `ExitTellsTruth` (`ExitTells`), `NothingLost` (`MeasurementsKept`),
  `TypesAsked` (`MeasuresTypeAsked`), `OneStory` (`ResultsAddUp`), `PercentilesTrue`
  (`PercentilesRanked`), `OptionsParsed` (`ParsedAsUsage`, an action property), and of `Recording`
  `SerialTellsAll` (`CollectorTellsAll`). What they leave out: `ExitTells` says nothing of
  the file, `ResultsAddUp` neither, `MeasuresTypeAsked` speaks of libraries that take a
  region type, and `CollectorTellsAll` of calls that do not overlap. `HarnessInv` joins
  to `CallbackLive` that the callback saved during a test is none, without which putting
  it back could install a collector that is gone; `LibraryInv` says where main may be
  while a test runs and where the library is open; `Progress` counts the results there
  must be at each place of main, from which what it returns follows; `MeasurementsKept`
  is inductive as it is; `Asked` adds to `MeasuresTypeAsked` that the results' numbers
  of calls place the measurements of each in the list of all, and that the run
  under way measures the type main is at; `AddsUp` adds to `ResultsAddUp` that the
  table, once printed, holds the breakdown of the measurements; `Reading` says that the
  loop over the arguments has read some pairs of words, each with a number that converts,
  and has the last number of each option among them. `OptionsParsed` has two directions:
  a line that main goes on with has the form of the usage message (`OpensAsUsage`), and
  for one that it turns away, or whose number does not convert, no number of
  pairs reads it that way (`RefusesOthers`). `Summarised` says that what was written and printed has the
  percentiles of the measurements there still are. Sorting is modelled by the place each
  measurement has (`SortedDurations`); that no two have the same and every place is taken
  (`PlacesDiffer`, `PlaceTaken`) makes the percentiles order statistics. For `CollectorTellsAll` the
  inductive invariant (`Serial`) says that as long as no two calls overlapped, at most one
  is under way, and the collector is the one before it with the members the call has got
  to replaced. What a thread has loaded is then what is still there
  (`LoadedIsCurrent`), so that both ways a `push_back` may write leave the same
  (`PushedAtEnd`).

Sums, maxima and counts by type are folds. The library's induction theorems cannot be
used (they take an operator as parameter), but induction over the numbers or lists
in a *set* can (`Induction`, `StrongInduction`, `SeqInduction`): with it `FoldExists` shows that a fold
is the last of its running totals, and from there follow what `SumOf` and
`LargestOf` do with an appended element and with concatenated lists.

The assumptions are those declared in the modules, under the names `*Assumption`: node
sets, slots and depths are finite, sizes, steps and mutations are natural numbers, a
region, a grid and the collection intervals are not empty or 0, `Null` and `NoNode` are
no addresses, nor is `Null` an argument of a `build_tree`; for the driver, the region types are the three there are, one
that is not Arena is among those it goes through, and what an event reports are
natural numbers (`EventAssumption`). `SerialTellsAll` states its assumption itself
(`RecordingAssumption`).

### What is only model-checked

* All liveness: `Terminates`, `AllReleased`, `Finishes`, `Ends`, `PlayedToEnd`,
  `Completes`. With fairness and `ENABLED` it is outside what the prover does.

Every invariant and every action property of the passing runs is stated by a theorem.
No module uses `RECURSIVE` operators.

## 5. What is not modelled

* The branch of the driver for Windows: it uses a variable `rt` that it does not declare
  (`benchmark_main.cc:134`) and does not compile. With it goes `set_gc_callback` of the
  libraries.
* The options of the entry points, whose values are constants of the models, and the
  `main` of the partially connected benchmark beyond the tests it runs: it calls
  `run_benchmark` of two `GCBenchmark` objects, each like the driver's one.
* Layout and formatting of the summary, `format_bytes` among it; the names "unknown" and
  "Unknown", for region types there are not. The rounding of a percentile's index is an
  integer division; the code's is one of a `double`, which could only differ where
  the quotient is whole.
* Without callers: `calculate_normalized_jitter` and `reset` of the harness,
  `isolate_node` of grid_walkers, `sum_values` of workload_tree. `start_collect` does
  nothing.
* No regions at all: the distribution of `random_regions` then has the bounds 0 and
  2^64 - 1 and what it indexes is undefined.
* The counter `num_nodes` of the graph benchmarks, whose race only affects log lines.
* The Verona runtime and the build files.

## 6. Plan

1. Modelled: all benchmarks, the measurement harness, its races, the driver. Proved: the
   graph benchmarks, pointer_churn, grid_walkers, the Game of Life, workload_tree, the
   recording of measurements from several threads, and the driver with its measurements.
2. Left to model: the `main` of the partially connected benchmark, as a second caller of
   `GCBenchmark`'s operations, with two objects and one callback.
