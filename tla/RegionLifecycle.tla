-------------------------- MODULE RegionLifecycle ---------------------------
(***************************************************************************)
(* What the graph benchmarks are promised about a region that hangs off a  *)
(* cown (GraphRegionCown): it is created once, then entered by one worker  *)
(* at a time, and released once, by nobody while a worker is inside it and *)
(* never to be entered again.                                              *)
(***************************************************************************)
CONSTANTS
    Region,
    Worker,
    NoWorker

VARIABLES
    phase,    \* phase[r]: "absent", "live" or "released"
    owner     \* owner[r]: the worker whose behaviour is inside r, or NoWorker

lifecycleVars == <<phase, owner>>

Init ==
    /\ phase = [r \in Region |-> "absent"]
    /\ owner = [r \in Region |-> NoWorker]

Create(r) ==
    /\ phase[r] = "absent"
    /\ phase' = [phase EXCEPT ![r] = "live"]
    /\ UNCHANGED owner

Enter(r, w) ==
    /\ phase[r] = "live"
    /\ owner[r] = NoWorker
    /\ \A s \in Region : owner[s] # w
    /\ owner' = [owner EXCEPT ![r] = w]
    /\ UNCHANGED phase

\* The worker leaves; when it held the last reference the region goes with it.
Leave(r) ==
    /\ owner[r] # NoWorker
    /\ owner' = [owner EXCEPT ![r] = NoWorker]
    /\ \/ UNCHANGED phase
       \/ phase' = [phase EXCEPT ![r] = "released"]

Release(r) ==
    /\ phase[r] = "live"
    /\ owner[r] = NoWorker
    /\ phase' = [phase EXCEPT ![r] = "released"]
    /\ UNCHANGED owner

Next ==
    \E r \in Region :
        \/ Create(r)
        \/ \E w \in Worker : Enter(r, w)
        \/ Leave(r)
        \/ Release(r)

Spec == Init /\ [][Next]_lifecycleVars

=============================================================================
