------------------------------- MODULE Recording ------------------------------
(***************************************************************************)
(* record_gc_measurement called from the scheduler's threads.  The GC      *)
(* callback is process-wide and run_benchmark gives it one collector with  *)
(* no lock, while the collections that multi_churn schedules on different  *)
(* regions run in parallel, on as many cores as the harness has.  Each     *)
(* member of the collector is updated by a load and a store; what two      *)
(* overlapping updates leave is undefined, and the outcomes modelled are   *)
(* those of their loads and stores in any order, and a container that is   *)
(* corrupted.  Behaviours of one region never overlap, so the regions are  *)
(* the actors here.                                                        *)
(***************************************************************************)
EXTENDS Collector, FiniteSets

CONSTANTS
    Region,
    Cores,            \* threads of the scheduler
    CollectionsEach,  \* bound: collections of each region
    NoEvent,
    Unwritten         \* what the memory of a vector holds where nothing was written

\* What the theorem about this module supposes.
RecordingAssumption ==
    /\ IsFiniteSet(Region)
    /\ Cores \in Nat \ {0}
    /\ CollectionsEach \in Nat
    /\ NoEvent \notin Event

VARIABLES
    shared,      \* the collector that all calls update
    event,       \* event[r]: what r's collection is reporting, or NoEvent
    member,      \* member[r]: how many members it has updated
    holding,     \* holding[r]: whether it has loaded the next one
    copy,        \* copy[r]: the member r has loaded, the others as constructed
    left,        \* left[r]: collections r has still to make
    crashed,     \* two threads have corrupted a container; the rest is undefined
    overlapped,  \* two calls have overlapped (history)
    reported     \* the events whose recording has begun (history)

recordingVars ==
    <<shared, event, member, holding, copy, left, crashed, overlapped, reported>>

\* The members in the order record_gc_measurement updates them.
Members == <<"measurements", "total", "duration", "count", "memSamples", "objSamples",
             "peakMem", "peakObj">>

VectorMembers == {"measurements", "memSamples", "objSamples"}
MapMembers == {"duration", "count"}

-----------------------------------------------------------------------------
Recording == {r \in Region : event[r] # NoEvent}
Current(r) == Members[member[r] + 1]

\* A collection of r ends and reports to the callback; a thread runs one
\* behaviour at a time and to its end.
Report(r) ==
    /\ ~crashed
    /\ event[r] = NoEvent
    /\ left[r] > 0
    /\ Cardinality(Recording) < Cores
    /\ \E e \in Event :
          /\ event' = [event EXCEPT ![r] = e]
          /\ reported' = Append(reported, e)
    /\ left' = [left EXCEPT ![r] = @ - 1]
    /\ overlapped' = (overlapped \/ Recording # {})
    /\ UNCHANGED <<shared, member, holding, copy, crashed>>

Load(r) ==
    /\ ~crashed
    /\ event[r] # NoEvent
    /\ ~holding[r]
    /\ copy' = [copy EXCEPT ![r][Current(r)] = shared[Current(r)]]
    /\ holding' = [holding EXCEPT ![r] = TRUE]
    /\ UNCHANGED <<shared, event, member, left, crashed, overlapped, reported>>

\* What the call writes to the member it has loaded.
Updated(r) == Record(copy[r], event[r])[Current(r)]

\* What push_back leaves when it puts its element where the end of the vector was
\* when it looked, but moves the end on from where it is by now: others may have
\* put theirs in the same slot, and the new end counts one that nobody wrote.
PushedOver(r) ==
    LET old == copy[r][Current(r)]
        now == shared[Current(r)]
    IN  [i \in 1..(Len(now) + 1) |->
            IF i = Len(old) + 1 THEN Last(Updated(r))
            ELSE IF i <= Len(now) THEN now[i] ELSE Unwritten]

\* The end of the vector is moved on from where it was, or from where it is.
Written(r) ==
    IF Current(r) \in VectorMembers THEN {Updated(r), PushedOver(r)} ELSE {Updated(r)}

Store(r) ==
    /\ ~crashed
    /\ holding[r]
    /\ \E w \in Written(r) : shared' = [shared EXCEPT ![Current(r)] = w]
    /\ holding' = [holding EXCEPT ![r] = FALSE]
    /\ copy' = [copy EXCEPT ![r] = EmptyCollector]
    /\ LET last == member[r] + 1 = Len(Members) IN
          /\ member' = [member EXCEPT ![r] = IF last THEN 0 ELSE @ + 1]
          /\ event' = [event EXCEPT ![r] = IF last THEN NoEvent ELSE @]
    /\ UNCHANGED <<left, crashed, overlapped, reported>>

\* A push_back may move the vector to a larger buffer, and operator[] of a map
\* inserts the type when it has not seen it.
Reallocates(r) ==
    \/ Current(r) \in VectorMembers
    \/ Current(r) \in MapMembers /\ copy[r][Current(r)][event[r].type] = 0

\* Two overlapping updates of one container may corrupt it when one of them
\* reallocates: a buffer is freed twice, a node of the map hangs in no list.
Corrupt(r, s) ==
    /\ ~crashed
    /\ r # s
    /\ holding[r] /\ holding[s]
    /\ Current(r) = Current(s)
    /\ Reallocates(r)
    /\ crashed' = TRUE
    /\ UNCHANGED <<shared, event, member, holding, copy, left, overlapped, reported>>

RecordingInit ==
    /\ shared = EmptyCollector
    /\ event = [r \in Region |-> NoEvent]
    /\ member = [r \in Region |-> 0]
    /\ holding = [r \in Region |-> FALSE]
    /\ copy = [r \in Region |-> EmptyCollector]
    /\ left = [r \in Region |-> CollectionsEach]
    /\ crashed = FALSE
    /\ overlapped = FALSE
    /\ reported = <<>>

Thread(r) == Report(r) \/ Load(r) \/ Store(r)

RecordingNext == \E r \in Region : Thread(r) \/ \E s \in Region : Corrupt(r, s)

RecordingSpec == RecordingInit /\ [][RecordingNext]_recordingVars

-----------------------------------------------------------------------------
\* run_benchmark reads the collector when no thread is left in a behaviour.
Quiescent == Recording = {} /\ ~crashed

\* Unless two calls have overlapped, all members of the collector tell of every
\* event reported when it is read: losses come from the race and nothing else.
CollectorTellsAll == Quiescent /\ ~overlapped => TellsOf(shared, reported)

\* Every collection reported is counted when the collector is read, whatever the
\* order they came in, and no container is corrupted on the way.
AllRecorded == ~crashed /\ (Quiescent => GcCount(shared) = Len(reported))

==============================================================================
