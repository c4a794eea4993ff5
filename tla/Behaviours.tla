----------------------------- MODULE Behaviours -----------------------------
(***************************************************************************)
(* The behaviours that run_test and run_churn_test of the graph benchmarks *)
(* schedule, and the lifetime of the regions they work on.  The main       *)
(* thread creates one cown per region (createGraph), schedules behaviours  *)
(* on each (when) and drops its references; scheduler workers run the      *)
(* behaviours of a cown one at a time and in the order they were           *)
(* scheduled, which is what `when' of the Verona runtime guarantees.  The  *)
(* last reference to a cown to go releases its region (~GraphRegionCown).  *)
(* What a behaviour does to the graph of its region is left to Traversal   *)
(* and Churn; here each graph operation is one entry of `log'.             *)
(***************************************************************************)
EXTENDS Integers, Sequences, FiniteSets

CONSTANTS
    NumRegions,           \* the argument `regions': cowns in the vector
    Worker,               \* the scheduler's threads
    NoWorker,
    InnerChurns,          \* bound of multi_churn's loop (10 in the code)
    ChurnsPerCollection   \* argument of multi_churn (4 in the code)

ASSUME BehavioursAssumption ==
    /\ NumRegions \in Nat \ {0}
    /\ InnerChurns \in Nat
    /\ ChurnsPerCollection \in Nat \ {0}
    /\ NoWorker \notin Worker

Region == 1..NumRegions

Kind == {"traverse", "multi", "churn", "collect"}

VARIABLES
    test,    \* "traverse" for run_test, "churn" for run_churn_test
    main,    \* where the main thread is
    next,    \* the element of graphRegions the main thread is at
    phase,   \* phase[r]: "absent", "live" or "released"
    refs,    \* refs[r]: references to the cown of region r
    queue,   \* queue[r]: behaviours scheduled on r and not yet started
    owner,   \* owner[r]: the worker running a behaviour on r, or NoWorker
    kind,    \* kind[r]: the behaviour owner[r] is running
    step,    \* step[r]: how far it is; the loop variable of multi_churn plus 1
    log      \* log[r]: the graph operations done on r so far (history)

mainVars == <<test, main, next>>
jobVars == <<owner, kind, step>>
vars == <<mainVars, phase, refs, queue, jobVars, log>>

-----------------------------------------------------------------------------
\* What dropping a reference to the cown of r does: ~GraphRegionCown calls
\* region_release when it was the last one.
DropRef(r) ==
    /\ refs' = [refs EXCEPT ![r] = @ - 1]
    /\ phase' = [phase EXCEPT ![r] = IF refs[r] = 1 THEN "released" ELSE @]

\* Mutant: the behaviours refer to the cown without owning it.
WhenBorrows(r, ks) ==
    /\ queue' = [queue EXCEPT ![r] = @ \o ks]
    /\ refs' = refs

\* when(cown) << ...: each behaviour holds a reference to its cown from the
\* moment it is scheduled until it has run.  The copy of the cown_ptr that the
\* lambda of multi_churn captures lives and dies with its behaviour.
When(r, ks) ==
    /\ queue' = [queue EXCEPT ![r] = @ \o ks]
    /\ refs' = [refs EXCEPT ![r] = @ + Len(ks)]

-----------------------------------------------------------------------------
\* The main thread moves on to the next element of the vector, or from the
\* last one to the first of the next loop.
Advance(from, to) ==
    /\ main = from
    /\ main' = IF next = NumRegions THEN to ELSE main
    /\ next' = IF next = NumRegions THEN 1 ELSE next + 1
    /\ UNCHANGED test

\* createGraph: allocates a region with its cown and puts it in the vector.
CreateRegion ==
    /\ Advance("creating", "scheduling")
    /\ phase' = [phase EXCEPT ![next] = "live"]
    /\ refs' = [refs EXCEPT ![next] = 1]
    /\ UNCHANGED <<queue, jobVars, log>>

\* The loop of run_test, or that of run_churn_test calling multi_churn.
ScheduleTest ==
    /\ Advance("scheduling", "leaving")
    /\ When(next, IF test = "churn" THEN <<"multi">> ELSE <<"traverse">>)
    /\ UNCHANGED <<phase, jobVars, log>>

\* The end of the scope: the vector's references go one after the other.
LeaveScope ==
    /\ Advance("leaving", "left")
    /\ DropRef(next)
    /\ UNCHANGED <<queue, jobVars, log>>

-----------------------------------------------------------------------------
\* A worker takes the oldest behaviour of a cown that nobody is running.
Start(w, r) ==
    /\ queue[r] # <<>>
    /\ owner[r] = NoWorker
    /\ \A s \in Region : owner[s] # w
    /\ owner' = [owner EXCEPT ![r] = w]
    /\ kind' = [kind EXCEPT ![r] = Head(queue[r])]
    /\ step' = [step EXCEPT ![r] = 0]
    /\ queue' = [queue EXCEPT ![r] = Tail(@)]
    /\ UNCHANGED <<mainVars, phase, refs, log>>

\* The graph operation a behaviour begins with: traverse_region, churn_region
\* (the one of multi_churn's outer lambda included) or region_collect.
Operate(r) ==
    /\ owner[r] # NoWorker
    /\ step[r] = 0
    /\ log' = [log EXCEPT ![r] =
                  Append(@, IF kind[r] = "multi" THEN "churn" ELSE kind[r])]
    /\ step' = [step EXCEPT ![r] = 1]
    /\ UNCHANGED <<mainVars, phase, refs, queue, owner, kind>>

\* Mutant: the collection of an iteration is scheduled before its churn.
IterationCollectsFirst(i) ==
    IF i % ChurnsPerCollection = 0 THEN <<"collect", "churn">> ELSE <<"churn">>

\* Mutant: an iteration that collects does not churn.
IterationOnlyCollects(i) ==
    IF i % ChurnsPerCollection = 0 THEN <<"collect">> ELSE <<"churn">>

\* What iteration i of multi_churn's loop schedules.
Iteration(i) ==
    IF i % ChurnsPerCollection = 0 THEN <<"churn", "collect">> ELSE <<"churn">>

\* One iteration of the loop of multi_churn, on the cown it is itself running
\* on: what it schedules waits until it has finished.
ScheduleInner(r) ==
    /\ owner[r] # NoWorker
    /\ kind[r] = "multi"
    /\ step[r] \in 1..InnerChurns
    /\ When(r, Iteration(step[r] - 1))
    /\ step' = [step EXCEPT ![r] = @ + 1]
    /\ UNCHANGED <<mainVars, phase, owner, kind, log>>

\* Mutant: the behaviour's reference to the cown is never given back.
FinishLeaks(r) ==
    /\ owner[r] # NoWorker
    /\ step[r] = IF kind[r] = "multi" THEN InnerChurns + 1 ELSE 1
    /\ owner' = [owner EXCEPT ![r] = NoWorker]
    /\ UNCHANGED <<mainVars, phase, refs, queue, kind, step, log>>

\* The behaviour returns, and its reference to the cown goes.
Finish(r) ==
    /\ owner[r] # NoWorker
    /\ step[r] = IF kind[r] = "multi" THEN InnerChurns + 1 ELSE 1
    /\ owner' = [owner EXCEPT ![r] = NoWorker]
    /\ DropRef(r)
    /\ UNCHANGED <<mainVars, queue, kind, step, log>>

-----------------------------------------------------------------------------
Init ==
    /\ test \in {"traverse", "churn"}
    /\ main = "creating"
    /\ next = 1
    /\ phase = [r \in Region |-> "absent"]
    /\ refs = [r \in Region |-> 0]
    /\ queue = [r \in Region |-> <<>>]
    /\ owner = [r \in Region |-> NoWorker]
    /\ kind = [r \in Region |-> "traverse"]
    /\ step = [r \in Region |-> 0]
    /\ log = [r \in Region |-> <<>>]

Next ==
    \/ CreateRegion
    \/ ScheduleTest
    \/ LeaveScope
    \/ \E r \in Region :
          \/ \E w \in Worker : Start(w, r)
          \/ Operate(r)
          \/ ScheduleInner(r)
          \/ Finish(r)

Spec == Init /\ [][Next]_vars

\* The main thread runs on, and a scheduler with work left does some of it.
FairSpec == Spec /\ WF_vars(Next)

-----------------------------------------------------------------------------
TypeOK ==
    /\ test \in {"traverse", "churn"}
    /\ main \in {"creating", "scheduling", "leaving", "left"}
    /\ next \in Region
    /\ phase \in [Region -> {"absent", "live", "released"}]
    /\ refs \in [Region -> Nat]
    /\ queue \in [Region -> Seq(Kind)]
    /\ owner \in [Region -> Worker \cup {NoWorker}]
    /\ kind \in [Region -> Kind]
    /\ step \in [Region -> 0..(InnerChurns + 1)]
    /\ log \in [Region -> Seq(Kind)]

\* Whether the vector of the main thread holds the cown of r.
InVector(r) ==
    \/ main = "creating" /\ r < next
    \/ main = "scheduling"
    \/ main = "leaving" /\ r >= next

One(b) == IF b THEN 1 ELSE 0

\* The references the program really has to the cown of r.
Holders(r) == One(InVector(r)) + Len(queue[r]) + One(owner[r] # NoWorker)

\* The count that decides when ~GraphRegionCown runs is that of the references
\* there are: of the vector, of each behaviour waiting and of the one running.
RefsExact == \A r \in Region : refs[r] = Holders(r)

\* A behaviour that is running or waiting never finds its region released,
\* although the main thread may have left run_test long before.
LiveWhileNeeded ==
    \A r \in Region : queue[r] # <<>> \/ owner[r] # NoWorker => phase[r] = "live"

\* A region lives exactly as long as somebody refers to its cown: nothing is
\* left for heap::debug_check_empty to complain about once all have finished.
LiveIffHeld ==
    \A r \in Region : phase[r] = "live" <=> Holders(r) > 0

\* How often operation k occurs among the first n of region r.
CountBefore(r, k, n) == Cardinality({i \in 1..n : log[r][i] = k})

\* multi_churn interleaves its collections as written, whatever the workers
\* do meanwhile: the first one after two churns (its own and that of iteration
\* 0), each later one after ChurnsPerCollection more.
CollectionsPaced ==
    \A r \in Region : \A n \in 1..Len(log[r]) :
        log[r][n] = "collect" =>
            CountBefore(r, "churn", n) =
                2 + ChurnsPerCollection * (CountBefore(r, "collect", n) - 1)

\* The life of each region is the one RegionLifecycle allows: no release with
\* a worker inside, no entry after the release, no second release.
Lifecycle == INSTANCE RegionLifecycle WITH phase <- phase, owner <- owner
ImplementsLifecycle == Lifecycle!Spec

\* The whole test has been run on r: one traversal, or a churn of multi_churn's
\* own and one of each iteration, with a collection in every iteration that asks
\* for one.
WholeTestRun(r) ==
    IF test = "traverse"
    THEN log[r] = <<"traverse">>
    ELSE /\ CountBefore(r, "churn", Len(log[r])) = InnerChurns + 1
         /\ CountBefore(r, "collect", Len(log[r]))
              = Cardinality({i \in 0..(InnerChurns - 1) : i % ChurnsPerCollection = 0})

\* Every region is released in the end, and stays so, with the whole of its test
\* run on it: nothing that multi_churn schedules from inside a behaviour is lost
\* when the main thread leaves early, and no reference to a cown is kept.
AllReleased == <>[](\A r \in Region : phase[r] = "released" /\ WholeTestRun(r))

=============================================================================
