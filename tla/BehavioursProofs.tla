--------------------------- MODULE BehavioursProofs ---------------------------
(***************************************************************************)
(* The lifetime of the regions of the graph benchmarks, for any number of  *)
(* regions, workers and iterations of multi_churn's loop: references are   *)
(* counted exactly, a region lives as long as it is referred to, the       *)
(* behaviours implement RegionLifecycle, and the collections of a region   *)
(* come when multi_churn has them due.                                     *)
(***************************************************************************)
EXTENDS Behaviours, SequenceTheorems, FiniteSetTheorems, TLAPS

\* Nothing is scheduled while the regions are being created, and the ones to
\* come are absent.
CreationFirst ==
    main = "creating" => \A r \in Region :
        /\ queue[r] = <<>>
        /\ owner[r] = NoWorker
        /\ r >= next => phase[r] = "absent"

IInv == TypeOK /\ RefsExact /\ LiveIffHeld /\ CreationFirst

-----------------------------------------------------------------------------
\* The number of references is a natural, and none only where nobody holds one.
LEMMA HoldersNat ==
  ASSUME TypeOK, NEW r \in Region
  PROVE  /\ Len(queue[r]) \in Nat
         /\ Holders(r) \in Nat
         /\ Holders(r) = 0 <=> ~InVector(r) /\ queue[r] = <<>> /\ owner[r] = NoWorker
<1>1. queue[r] \in Seq(Kind)
  BY DEF TypeOK
<1>2. Len(queue[r]) \in Nat /\ (Len(queue[r]) = 0 <=> queue[r] = <<>>)
  BY <1>1
<1>3. One(InVector(r)) \in {0, 1} /\ (One(InVector(r)) = 0 <=> ~InVector(r))
  BY DEF One
<1>4. /\ One(owner[r] # NoWorker) \in {0, 1}
      /\ One(owner[r] # NoWorker) = 0 <=> owner[r] = NoWorker
  BY DEF One
<1> QED
  BY <1>2, <1>3, <1>4 DEF Holders

\* What the loop of multi_churn schedules are behaviours.
LEMMA IterationKinds ==
  ASSUME NEW i \in Nat
  PROVE  Iteration(i) \in Seq(Kind)
<1>1. "churn" \in Kind /\ "collect" \in Kind
  BY DEF Kind
<1>2. <<"churn", "collect">> \in Seq(Kind) /\ <<"churn">> \in Seq(Kind)
  BY <1>1
<1> QED
  BY <1>2 DEF Iteration

\* The state before the main thread has done anything.
LEMMA InitIInv == Init => IInv
<1> SUFFICES ASSUME Init
             PROVE  IInv
  OBVIOUS
<1>1. Region # {} /\ 1 \in Region /\ Region \subseteq Nat
  BY BehavioursAssumption DEF Region
<1>2. TypeOK
  BY <1>1, BehavioursAssumption DEF Init, TypeOK, Kind
<1>3. CreationFirst
  BY DEF Init, CreationFirst
<1>4. ASSUME NEW r \in Region
      PROVE  Holders(r) = 0 /\ refs[r] = 0 /\ phase[r] # "live"
  <2>1. ~InVector(r)
    BY <1>1 DEF Init, InVector, Region
  <2> QED
    BY <2>1, <1>2, HoldersNat DEF Init
<1> QED
  BY <1>2, <1>3, <1>4 DEF IInv, RefsExact, LiveIffHeld

-----------------------------------------------------------------------------
\* TypeOK after a step, given what the invariant says before.
LEMMA NextTypeOK == IInv /\ [Next]_vars => TypeOK'
<1> SUFFICES ASSUME IInv, [Next]_vars
             PROVE  TypeOK'
  OBVIOUS
<1> USE BehavioursAssumption DEF IInv
<1>1. \A r \in Region : Holders(r) \in Nat /\ refs[r] = Holders(r)
  BY HoldersNat DEF RefsExact
<1>2. \A r \in Region : queue[r] # <<>> \/ owner[r] # NoWorker \/ InVector(r) => refs[r] \in Nat \ {0}
  BY <1>1, HoldersNat
<1>3. CASE CreateRegion
  BY <1>3 DEF CreateRegion, Advance, jobVars, TypeOK, Region
<1>4. CASE ScheduleTest
  <2> DEFINE ks == IF test = "churn" THEN <<"multi">> ELSE <<"traverse">>
  <2>1. ks \in Seq(Kind) /\ Len(ks) = 1
    <3>1. "multi" \in Kind /\ "traverse" \in Kind
      BY DEF Kind
    <3> QED
      BY <3>1
  <2>2. /\ next \in Region /\ queue[next] \o ks \in Seq(Kind)
        /\ refs[next] + Len(ks) \in Nat
    BY <2>1 DEF TypeOK
  <2>3. When(next, ks) /\ Advance("scheduling", "leaving")
    BY <1>4 DEF ScheduleTest
  <2> HIDE DEF ks
  <2>4. queue' \in [Region -> Seq(Kind)] /\ refs' \in [Region -> Nat]
    BY <2>2, <2>3 DEF When, TypeOK
  <2>5. main' \in {"scheduling", "leaving"} /\ next' \in Region /\ test' = test
    BY <2>3 DEF Advance, TypeOK, Region
  <2> QED
    BY <1>4, <2>4, <2>5 DEF ScheduleTest, jobVars, TypeOK
<1>5. CASE LeaveScope
  <2>1. InVector(next) /\ next \in Region
    BY <1>5 DEF LeaveScope, Advance, InVector, TypeOK, Region
  <2>2. main' \in {"leaving", "left"} /\ next' \in Region /\ test' = test
    BY <1>5 DEF LeaveScope, Advance, TypeOK, Region
  <2>3. /\ refs' \in [Region -> Nat]
        /\ phase' \in [Region -> {"absent", "live", "released"}]
    BY <1>5, <2>1, <1>2 DEF LeaveScope, DropRef, TypeOK
  <2> QED
    BY <1>5, <2>2, <2>3 DEF LeaveScope, jobVars, TypeOK
<1>6. ASSUME NEW r \in Region, NEW w \in Worker, Start(w, r)
      PROVE  TypeOK'
  <2>1. queue[r] \in Seq(Kind) /\ queue[r] # <<>>
    BY <1>6 DEF Start, TypeOK
  <2>2. Head(queue[r]) \in Kind /\ Tail(queue[r]) \in Seq(Kind)
    BY <2>1
  <2>3. queue' \in [Region -> Seq(Kind)] /\ kind' \in [Region -> Kind]
    BY <1>6, <2>2 DEF Start, TypeOK
  <2>4. /\ owner' \in [Region -> Worker \cup {NoWorker}]
        /\ step' \in [Region -> 0..(InnerChurns + 1)]
    BY <1>6 DEF Start, TypeOK
  <2> QED
    BY <1>6, <2>3, <2>4 DEF Start, mainVars, TypeOK
<1>7. ASSUME NEW r \in Region, Operate(r)
      PROVE  TypeOK'
  <2>1. Append(log[r], IF kind[r] = "multi" THEN "churn" ELSE kind[r]) \in Seq(Kind)
    BY DEF TypeOK, Kind
  <2> QED
    BY <1>7, <2>1 DEF Operate, mainVars, TypeOK
<1>8. ASSUME NEW r \in Region, ScheduleInner(r)
      PROVE  TypeOK'
  <2>0. step[r] \in Nat \ {0} /\ step[r] <= InnerChurns
    BY <1>8 DEF ScheduleInner
  <2>1. Iteration(step[r] - 1) \in Seq(Kind)
    BY <2>0, IterationKinds
  <2>2. queue[r] \o Iteration(step[r] - 1) \in Seq(Kind) /\ Len(Iteration(step[r] - 1)) \in Nat
    BY <2>1 DEF TypeOK
  <2>3. /\ queue' \in [Region -> Seq(Kind)]
        /\ refs' \in [Region -> Nat]
    BY <1>8, <2>2 DEF ScheduleInner, When, TypeOK
  <2>4. step' \in [Region -> 0..(InnerChurns + 1)]
    BY <1>8, <2>0 DEF ScheduleInner, TypeOK
  <2> QED
    BY <1>8, <2>3, <2>4 DEF ScheduleInner, mainVars, TypeOK
<1>9. ASSUME NEW r \in Region, Finish(r)
      PROVE  TypeOK'
  BY <1>9, <1>2 DEF Finish, DropRef, mainVars, TypeOK
<1>10. CASE UNCHANGED vars
  BY <1>10 DEF vars, mainVars, jobVars, TypeOK
<1> QED
  BY <1>3, <1>4, <1>5, <1>6, <1>7, <1>8, <1>9, <1>10 DEF Next

-----------------------------------------------------------------------------
\* What the main thread's steps do to the vector of cowns.
LEMMA AdvanceVector ==
  ASSUME TypeOK, NEW r \in Region
  PROVE  /\ Advance("creating", "scheduling") =>
               ~InVector(next) /\ (InVector(r)' <=> InVector(r) \/ r = next)
         /\ Advance("scheduling", "leaving") => InVector(r)' /\ InVector(r)
         /\ Advance("leaving", "left") =>
               InVector(next) /\ (InVector(r)' <=> InVector(r) /\ r # next)
<1> next \in 1..NumRegions /\ r \in 1..NumRegions /\ NumRegions \in Nat \ {0}
  BY BehavioursAssumption DEF TypeOK, Region
<1>1. ASSUME Advance("creating", "scheduling")
      PROVE  ~InVector(next) /\ (InVector(r)' <=> InVector(r) \/ r = next)
  BY <1>1 DEF Advance, InVector
<1>2. ASSUME Advance("scheduling", "leaving")
      PROVE  InVector(r)' /\ InVector(r)
  BY <1>2 DEF Advance, InVector
<1>3. ASSUME Advance("leaving", "left")
      PROVE  InVector(next) /\ (InVector(r)' <=> InVector(r) /\ r # next)
  BY <1>3 DEF Advance, InVector
<1> QED
  BY <1>1, <1>2, <1>3

\* A step of a worker leaves the vector as it is.
LEMMA WorkerVector ==
  ASSUME UNCHANGED mainVars, NEW r \in Region
  PROVE  InVector(r)' = InVector(r)
BY DEF mainVars, InVector

\* The count of one cown: exact, and not zero as long as the region lives.
Counted(r) == refs[r] = Holders(r) /\ (phase[r] = "live" <=> refs[r] > 0)

\* The two invariants say that every cown is counted.
LEMMA CountedAll ==
  ASSUME TypeOK
  PROVE  RefsExact /\ LiveIffHeld <=> \A r \in Region : Counted(r)
BY HoldersNat DEF RefsExact, LiveIffHeld, Counted

\* A step that leaves the references and holders of r alone keeps its count.
LEMMA CountedKept ==
  ASSUME NEW r \in Region, Counted(r),
         refs'[r] = refs[r], phase'[r] = phase[r], Holders(r)' = Holders(r)
  PROVE  Counted(r)'
BY DEF Counted

\* Dropping a reference that some holder has just given up.
LEMMA CountedDropped ==
  ASSUME TypeOK, NEW r \in Region, Counted(r), DropRef(r),
         Holders(r) \in Nat \ {0}, Holders(r)' = Holders(r) - 1
  PROVE  Counted(r)'
<1>1. refs[r] \in Nat \ {0} /\ refs[r] = Holders(r) /\ phase[r] = "live"
  BY DEF Counted
<1>2. refs'[r] = refs[r] - 1 /\ phase'[r] = IF refs[r] = 1 THEN "released" ELSE phase[r]
  BY DEF DropRef, TypeOK
<1> QED
  BY <1>1, <1>2 DEF Counted

\* Scheduling on a cown that is referred to: each behaviour adds a reference.
LEMMA WhenCounted ==
  ASSUME TypeOK, NEW r \in Region, Counted(r), NEW s \in Region,
         NEW ks \in Seq(Kind), When(s, ks),
         InVector(r)' = InVector(r), owner' = owner, phase' = phase,
         InVector(s) \/ owner[s] # NoWorker
  PROVE  Counted(r)'
<1>1. CASE r = s
  <2>1. queue[r] \in Seq(Kind) /\ queue'[r] = queue[r] \o ks /\ refs'[r] = refs[r] + Len(ks)
    BY <1>1 DEF When, TypeOK
  <2>2. Len(queue[r]) \in Nat /\ Len(ks) \in Nat /\ Len(queue'[r]) = Len(queue[r]) + Len(ks)
    BY <2>1
  <2>3. /\ One(InVector(r))' = One(InVector(r)) /\ One(InVector(r)) \in {0, 1}
        /\ One(owner[r] # NoWorker)' = One(owner[r] # NoWorker)
        /\ One(owner[r] # NoWorker) \in {0, 1}
    BY DEF One
  <2>4. Holders(r)' = Holders(r) + Len(ks) /\ Holders(r) \in Nat
    <3> DEFINE a == One(InVector(r))
               b == One(owner[r] # NoWorker)
    <3>1. /\ Holders(r) = a + Len(queue[r]) + b
          /\ Holders(r)' = a' + Len(queue'[r]) + b'
      BY DEF Holders
    <3>2. a' = a /\ b' = b /\ a \in Nat /\ b \in Nat
      BY <2>3
    <3> HIDE DEF a, b
    <3> QED
      BY <3>1, <3>2, <2>2
  <2>5. Holders(r) # 0
    <3>1. InVector(r) \/ owner[r] # NoWorker
      BY <1>1 DEF InVector
    <3> QED
      BY <3>1, HoldersNat
  <2> QED
    BY <2>1, <2>2, <2>4, <2>5 DEF Counted
<1>2. CASE r # s
  <2>1. queue'[r] = queue[r] /\ refs'[r] = refs[r]
    BY <1>2 DEF When, TypeOK
  <2>2. Holders(r)' = Holders(r)
    BY <2>1 DEF Holders, One
  <2> QED
    BY <2>1, <2>2, CountedKept
<1> QED
  BY <1>1, <1>2

\* Every step keeps every cown counted.
LEMMA NextCounted ==
  ASSUME IInv, Next, NEW r \in Region
  PROVE  Counted(r)'
<1> USE DEF IInv
<1>1. TypeOK /\ Counted(r) /\ Holders(r) \in Nat /\ Len(queue[r]) \in Nat
  BY CountedAll, HoldersNat
<1>2. CASE CreateRegion
  <2>1. /\ ~InVector(next) /\ (InVector(r)' <=> InVector(r) \/ r = next)
        /\ next \in Region /\ main = "creating"
    BY <1>2, <1>1, AdvanceVector DEF CreateRegion, Advance, TypeOK
  <2>2. queue' = queue /\ owner' = owner
    BY <1>2 DEF CreateRegion, jobVars
  <2>3. CASE r = next
    <3>1. queue[r] = <<>> /\ owner[r] = NoWorker
      BY <2>1 DEF CreationFirst
    <3>2. Holders(r)' = 1
      BY <2>1, <2>2, <2>3, <3>1 DEF Holders, One
    <3>3. refs'[r] = 1 /\ phase'[r] = "live"
      BY <1>1, <1>2, <2>1, <2>3 DEF CreateRegion, TypeOK
    <3> QED
      BY <3>2, <3>3 DEF Counted
  <2>4. CASE r # next
    <3>1. Holders(r)' = Holders(r)
      BY <2>1, <2>2, <2>4 DEF Holders, One
    <3>2. refs'[r] = refs[r] /\ phase'[r] = phase[r]
      BY <1>1, <1>2, <2>1, <2>4 DEF CreateRegion, TypeOK
    <3> QED
      BY <1>1, <3>1, <3>2, CountedKept
  <2> QED
    BY <2>3, <2>4
<1>3. CASE ScheduleTest
  <2> DEFINE ks == IF test = "churn" THEN <<"multi">> ELSE <<"traverse">>
  <2>1. ks \in Seq(Kind) /\ Len(ks) = 1
    <3>1. "multi" \in Kind /\ "traverse" \in Kind
      BY DEF Kind
    <3> QED
      BY <3>1
  <2>2. /\ When(next, ks) /\ next \in Region
        /\ InVector(r)' /\ InVector(r) /\ owner' = owner /\ phase' = phase
    BY <1>3, <1>1, AdvanceVector DEF ScheduleTest, jobVars, TypeOK
  <2>3. InVector(next) /\ InVector(r)' = InVector(r)
    BY <1>3, <1>1, <2>2, AdvanceVector DEF ScheduleTest
  <2> HIDE DEF ks
  <2> QED
    BY <1>1, <2>1, <2>2, <2>3, WhenCounted
<1>4. CASE LeaveScope
  <2>1. /\ InVector(next) /\ (InVector(r)' <=> InVector(r) /\ r # next)
        /\ next \in Region /\ DropRef(next) /\ queue' = queue /\ owner' = owner
    BY <1>4, <1>1, AdvanceVector DEF LeaveScope, jobVars, TypeOK
  <2>2. CASE r = next
    <3>1. Holders(r) \in Nat \ {0} /\ Holders(r)' = Holders(r) - 1
      <4>1. One(InVector(r)) = 1 /\ One(InVector(r))' = 0
        BY <2>1, <2>2 DEF One
      <4>2. /\ Len(queue'[r]) = Len(queue[r])
            /\ One(owner[r] # NoWorker)' = One(owner[r] # NoWorker)
            /\ One(owner[r] # NoWorker) \in {0, 1}
        BY <2>1 DEF One
      <4> QED
        BY <1>1, <4>1, <4>2 DEF Holders
    <3> QED
      BY <1>1, <2>1, <2>2, <3>1, CountedDropped
  <2>3. CASE r # next
    <3>1. Holders(r)' = Holders(r)
      BY <2>1, <2>3 DEF Holders, One
    <3>2. refs'[r] = refs[r] /\ phase'[r] = phase[r]
      BY <1>1, <2>1, <2>3 DEF DropRef, TypeOK
    <3> QED
      BY <1>1, <3>1, <3>2, CountedKept
  <2> QED
    BY <2>2, <2>3
<1>5. ASSUME NEW s \in Region, NEW w \in Worker, Start(w, s)
      PROVE  Counted(r)'
  <2>1. InVector(r)' = InVector(r) /\ refs' = refs /\ phase' = phase
    BY <1>5, WorkerVector DEF Start
  <2>2. CASE r = s
    <3>1. Len(queue'[r]) = Len(queue[r]) - 1
      <4>1. queue[r] \in Seq(Kind) /\ queue[r] # <<>> /\ queue'[r] = Tail(queue[r])
        BY <1>1, <1>5, <2>2 DEF Start, TypeOK
      <4> QED
        BY <4>1
    <3>2. One(owner[r] # NoWorker) = 0 /\ One(owner[r] # NoWorker)' = 1
      BY <1>1, <1>5, <2>2, BehavioursAssumption DEF Start, TypeOK, One
    <3>3. One(InVector(r))' = One(InVector(r)) /\ One(InVector(r)) \in {0, 1}
      BY <2>1 DEF One
    <3>4. Holders(r)' = Holders(r)
      BY <1>1, <3>1, <3>2, <3>3 DEF Holders
    <3> QED
      BY <1>1, <2>1, <3>4, CountedKept
  <2>3. CASE r # s
    <3>1. queue'[r] = queue[r] /\ owner'[r] = owner[r]
      BY <1>1, <1>5, <2>3 DEF Start, TypeOK
    <3>2. Holders(r)' = Holders(r)
      BY <2>1, <3>1 DEF Holders, One
    <3> QED
      BY <1>1, <2>1, <3>2, CountedKept
  <2> QED
    BY <2>2, <2>3
<1>6. ASSUME NEW s \in Region, Operate(s)
      PROVE  Counted(r)'
  <2>1. InVector(r)' = InVector(r) /\ UNCHANGED <<refs, phase, queue, owner>>
    BY <1>6, WorkerVector DEF Operate
  <2>2. Holders(r)' = Holders(r)
    BY <2>1 DEF Holders, One
  <2> QED
    BY <1>1, <2>1, <2>2, CountedKept
<1>7. ASSUME NEW s \in Region, ScheduleInner(s)
      PROVE  Counted(r)'
  <2>1. step[s] - 1 \in Nat
    <3>1. step[s] \in 1..InnerChurns
      BY <1>7 DEF ScheduleInner
    <3>2. InnerChurns \in Nat
      BY BehavioursAssumption
    <3> QED BY <3>1, <3>2
  <2>2. Iteration(step[s] - 1) \in Seq(Kind)
    BY <2>1, IterationKinds
  <2>3. /\ When(s, Iteration(step[s] - 1)) /\ InVector(r)' = InVector(r)
        /\ owner' = owner /\ phase' = phase /\ owner[s] # NoWorker
    BY <1>7, WorkerVector DEF ScheduleInner
  <2> QED
    BY <1>1, <2>2, <2>3, WhenCounted
<1>8. ASSUME NEW s \in Region, Finish(s)
      PROVE  Counted(r)'
  <2>1. /\ InVector(r)' = InVector(r) /\ queue' = queue /\ DropRef(s)
    BY <1>8, WorkerVector DEF Finish
  <2>2. CASE r = s
    <3>1. One(owner[r] # NoWorker) = 1 /\ One(owner[r] # NoWorker)' = 0
      BY <1>1, <1>8, <2>2 DEF Finish, TypeOK, One
    <3>2. One(InVector(r))' = One(InVector(r)) /\ One(InVector(r)) \in {0, 1}
      BY <2>1 DEF One
    <3>3. Holders(r) \in Nat \ {0} /\ Holders(r)' = Holders(r) - 1
      BY <1>1, <2>1, <3>1, <3>2 DEF Holders
    <3> QED
      BY <1>1, <2>1, <2>2, <3>3, CountedDropped
  <2>3. CASE r # s
    <3>1. /\ owner'[r] = owner[r] /\ refs'[r] = refs[r] /\ phase'[r] = phase[r]
      BY <1>1, <1>8, <2>1, <2>3 DEF Finish, DropRef, TypeOK
    <3>2. Holders(r)' = Holders(r)
      BY <2>1, <3>1 DEF Holders, One
    <3> QED
      BY <1>1, <3>1, <3>2, CountedKept
  <2> QED
    BY <2>2, <2>3
<1> QED
  BY <1>2, <1>3, <1>4, <1>5, <1>6, <1>7, <1>8 DEF Next

\* Nothing is scheduled before all the regions are there.
LEMMA NextCreationFirst == IInv /\ Next => CreationFirst'
<1> SUFFICES ASSUME IInv, Next, main' = "creating", NEW r \in Region
             PROVE  queue'[r] = <<>> /\ owner'[r] = NoWorker /\ (r >= next' => phase'[r] = "absent")
  BY DEF CreationFirst
<1> USE DEF IInv
<1>1. CASE CreateRegion
  <2>1. /\ main = "creating" /\ next' = next + 1 /\ queue' = queue /\ owner' = owner
        /\ next \in 1..NumRegions /\ r \in 1..NumRegions
    BY <1>1 DEF CreateRegion, Advance, jobVars, TypeOK, Region
  <2>2. r >= next' => r # next /\ r >= next
    BY <2>1
  <2>3. r # next => phase'[r] = phase[r]
    BY <1>1 DEF CreateRegion, TypeOK
  <2> QED
    BY <2>1, <2>2, <2>3 DEF CreationFirst
<1>2. CASE ScheduleTest
  BY <1>2 DEF ScheduleTest, Advance
<1>3. CASE LeaveScope
  BY <1>3 DEF LeaveScope, Advance
<1>4. ASSUME NEW s \in Region, NEW w \in Worker, Start(w, s)
      PROVE  FALSE
  BY <1>4 DEF Start, mainVars, CreationFirst
<1>5. ASSUME NEW s \in Region, Operate(s) \/ ScheduleInner(s) \/ Finish(s)
      PROVE  FALSE
  BY <1>5 DEF Operate, ScheduleInner, Finish, mainVars, CreationFirst
<1> QED
  BY <1>1, <1>2, <1>3, <1>4, <1>5 DEF Next

-----------------------------------------------------------------------------
\* Every step keeps the inductive invariant.
LEMMA NextIInv == IInv /\ [Next]_vars => IInv'
<1> SUFFICES ASSUME IInv, [Next]_vars
             PROVE  IInv'
  OBVIOUS
<1>1. TypeOK'
  BY NextTypeOK
<1>2. CASE Next
  <2>1. \A r \in Region : Counted(r)'
    BY <1>2, NextCounted
  <2>2. RefsExact' /\ LiveIffHeld'
    <3>1. ASSUME NEW r \in Region
          PROVE  Holders(r)' \in Nat
      BY <1>1, <2>1 DEF TypeOK, Counted
    <3> QED
      BY <2>1, <3>1 DEF RefsExact, LiveIffHeld, Counted
  <2> QED
    BY <1>1, <1>2, <2>2, NextCreationFirst DEF IInv
<1>3. CASE UNCHANGED vars
  BY <1>3 DEF vars, mainVars, jobVars, IInv, TypeOK, RefsExact, LiveIffHeld,
              CreationFirst, Holders, InVector, One
<1> QED
  BY <1>2, <1>3

\* The inductive invariant holds in every behaviour of the specification.
THEOREM Invariant == Spec => []IInv
  BY InitIInv, NextIInv, PTL DEF Spec

\* Type correctness of the main thread's, the scheduler's and the cowns' state.
THEOREM TypeCorrect == Spec => []TypeOK
<1>1. IInv => TypeOK
  BY DEF IInv
<1> QED
  BY <1>1, Invariant, PTL

\* The reference count that decides when a region is released is that of the
\* references there are, for any number of regions, workers and iterations.
THEOREM ReferencesExact == Spec => []RefsExact
<1>1. IInv => RefsExact
  BY DEF IInv
<1> QED
  BY <1>1, Invariant, PTL

\* A region is live exactly as long as somebody refers to its cown.
THEOREM LiveExactlyWhileHeld == Spec => []LiveIffHeld
<1>1. IInv => LiveIffHeld
  BY DEF IInv
<1> QED
  BY <1>1, Invariant, PTL

\* What the inductive invariant says of a region that is needed.
LEMMA NeededIsLive == IInv => LiveWhileNeeded
<1> SUFFICES ASSUME IInv, NEW r \in Region, queue[r] # <<>> \/ owner[r] # NoWorker
             PROVE  phase[r] = "live"
  BY DEF LiveWhileNeeded
<1>1. Holders(r) \in Nat /\ Holders(r) # 0
  BY HoldersNat DEF IInv
<1> QED
  BY <1>1 DEF IInv, LiveIffHeld

\* No behaviour that waits or runs finds its region released.
THEOREM NeverReleasedInUse == Spec => []LiveWhileNeeded
  BY NeededIsLive, Invariant, PTL

-----------------------------------------------------------------------------
\* The initial state is one of RegionLifecycle.
LEMMA InitLifecycle == Init => Lifecycle!Init
  BY DEF Init, Lifecycle!Init

\* Every step is one of RegionLifecycle or changes nothing it speaks of.
LEMMA NextLifecycle == IInv /\ [Next]_vars => [Lifecycle!Next]_(Lifecycle!lifecycleVars)
<1> SUFFICES ASSUME IInv, [Next]_vars
             PROVE  Lifecycle!Next \/ UNCHANGED <<phase, owner>>
  BY DEF Lifecycle!lifecycleVars
<1> USE DEF IInv
<1>1. TypeOK /\ next \in Region
  BY DEF TypeOK
<1>2. CASE CreateRegion
  <2>1. phase[next] = "absent"
    BY <1>1, <1>2 DEF CreateRegion, Advance, CreationFirst, Region
  <2>2. Lifecycle!Create(next)
    BY <1>2, <2>1 DEF CreateRegion, jobVars, Lifecycle!Create
  <2> QED
    BY <1>1, <2>2 DEF Lifecycle!Next
<1>3. CASE ScheduleTest
  BY <1>3 DEF ScheduleTest, jobVars
<1>4. CASE LeaveScope
  <2>1. InVector(next) /\ DropRef(next) /\ owner' = owner
    BY <1>1, <1>4, AdvanceVector DEF LeaveScope, jobVars
  <2>2. Holders(next) = refs[next] /\ phase[next] = "live"
    BY <1>1, <2>1, HoldersNat DEF RefsExact, LiveIffHeld
  <2>3. CASE refs[next] = 1
    <3>1. owner[next] = NoWorker
      <4>1. /\ One(InVector(next)) = 1 /\ Len(queue[next]) \in Nat
            /\ One(owner[next] # NoWorker) \in {0, 1}
            /\ One(owner[next] # NoWorker) = 0 <=> owner[next] = NoWorker
        BY <1>1, <2>1, HoldersNat DEF One
      <4>2. One(InVector(next)) + Len(queue[next]) + One(owner[next] # NoWorker) = 1
        BY <2>2, <2>3 DEF Holders
      <4> QED
        BY <4>1, <4>2
    <3>2. phase' = [phase EXCEPT ![next] = "released"]
      BY <2>1, <2>3 DEF DropRef
    <3>3. Lifecycle!Release(next)
      BY <2>1, <2>2, <3>1, <3>2 DEF Lifecycle!Release
    <3> QED
      BY <1>1, <3>3 DEF Lifecycle!Next
  <2>4. CASE refs[next] # 1
    BY <1>1, <2>1, <2>4 DEF DropRef, TypeOK
  <2> QED
    BY <2>3, <2>4
<1>5. ASSUME NEW r \in Region, NEW w \in Worker, Start(w, r)
      PROVE  Lifecycle!Next
  <2>1. phase[r] = "live"
    BY <1>5, NeededIsLive DEF Start, LiveWhileNeeded
  <2>2. Lifecycle!Enter(r, w)
    BY <1>5, <2>1 DEF Start, Lifecycle!Enter
  <2> QED
    BY <1>5, <2>2 DEF Lifecycle!Next
<1>6. ASSUME NEW r \in Region, Operate(r) \/ ScheduleInner(r)
      PROVE  UNCHANGED <<phase, owner>>
  BY <1>6 DEF Operate, ScheduleInner
<1>7. ASSUME NEW r \in Region, Finish(r)
      PROVE  Lifecycle!Next
  <2>1. UNCHANGED phase \/ phase' = [phase EXCEPT ![r] = "released"]
    BY <1>1, <1>7 DEF Finish, DropRef, TypeOK
  <2>2. Lifecycle!Leave(r)
    BY <1>7, <2>1 DEF Finish, Lifecycle!Leave
  <2> QED
    BY <1>7, <2>2 DEF Lifecycle!Next
<1>8. CASE UNCHANGED vars
  BY <1>8 DEF vars, jobVars
<1> QED
  BY <1>2, <1>3, <1>4, <1>5, <1>6, <1>7, <1>8 DEF Next

\* The scheduling and reference counting implement the lifecycle promised for
\* a region: no release under a running behaviour, no entry after a release.
THEOREM LifecycleImplemented == Spec => ImplementsLifecycle
  BY InitLifecycle, NextLifecycle, Invariant, PTL
     DEF Spec, ImplementsLifecycle, Lifecycle!Spec

-----------------------------------------------------------------------------
\* How often operation k occurs among the first n of a sequence.
Count(s, k, n) == Cardinality({i \in 1..n : s[i] = k})

Operations == {"churn", "collect"}

\* CollectionsPaced, of a sequence of operations.
Paced(s) ==
    \A n \in 1..Len(s) :
        s[n] = "collect" =>
            Count(s, "churn", n) = 2 + ChurnsPerCollection * (Count(s, "collect", n) - 1)

\* s is what a multi_churn does once it has scheduled i iterations: it collects
\* for every multiple of ChurnsPerCollection below i.
Planned(s, i) ==
    /\ Paced(s)
    /\ Count(s, "churn", Len(s)) = 1 + i
    /\ ChurnsPerCollection * (Count(s, "collect", Len(s)) - 1) < i
    /\ i <= ChurnsPerCollection * Count(s, "collect", Len(s))

\* The operation that the behaviour running on r is still to do.
Doing(r) == IF owner[r] # NoWorker /\ step[r] = 0 THEN <<kind[r]>> ELSE <<>>

\* The stages of a region's course: nothing scheduled yet; the multi_churn
\* waits; it has been started; it runs its loop; it has returned.
Untouched(r) == queue[r] = <<>> /\ owner[r] = NoWorker /\ log[r] = <<>>

Waiting(r) == queue[r] = <<"multi">> /\ owner[r] = NoWorker /\ log[r] = <<>>

Beginning(r) ==
    /\ owner[r] # NoWorker /\ kind[r] = "multi" /\ step[r] = 0
    /\ queue[r] = <<>> /\ log[r] = <<>>

Looping(r) ==
    /\ owner[r] # NoWorker /\ kind[r] = "multi" /\ step[r] # 0
    /\ queue[r] \in Seq(Operations) /\ log[r] \in Seq(Operations)
    /\ Planned(log[r] \o queue[r], step[r] - 1)

Winding(r) ==
    /\ owner[r] # NoWorker => kind[r] \in Operations
    /\ queue[r] \in Seq(Operations) /\ log[r] \in Seq(Operations)
    /\ Paced(log[r] \o (Doing(r) \o queue[r]))

\* run_test schedules traversals only.
Traversing(r) ==
    /\ owner[r] # NoWorker => kind[r] = "traverse"
    /\ queue[r] \in Seq({"traverse"}) /\ log[r] \in Seq({"traverse"})

OnCourse(r) ==
    \/ test = "traverse" /\ Traversing(r)
    \/ test = "churn" /\ (Waiting(r) \/ Beginning(r) \/ Looping(r) \/ Winding(r))

\* Whether the main thread has yet to schedule the test of r.
ToSchedule(r) == main = "creating" \/ (main = "scheduling" /\ r >= next)

Course == \A r \in Region : OnCourse(r) /\ (ToSchedule(r) => Untouched(r))

-----------------------------------------------------------------------------
\* A remainder is zero for multiples.
LEMMA Multiple ==
  ASSUME NEW c \in Nat \ {0}, NEW i \in Nat
  PROVE  i % c = 0 <=> \E q \in Nat : i = c * q
<1>1. PICK q \in Nat, r \in 0..(c - 1) : i = c * q + r
  <2> DEFINE q == i \div c
  <2>1. q \in Nat /\ c * q <= i /\ i < c * (q + 1)
    OBVIOUS
  <2> HIDE DEF q
  <2>2. c * q \in Nat /\ c * (q + 1) = c * q + c
    BY <2>1
  <2>3. i - c * q \in 0..(c - 1) /\ i = c * q + (i - c * q)
    BY <2>1, <2>2
  <2> QED
    BY <2>1, <2>3
<1>2. (c * q + r) % c = r
  BY Z3
<1>3. i % c = r
  BY <1>1, <1>2, Zenon
<1>4. r = 0 => i = c * q
  BY <1>1
<1>5. ASSUME NEW p \in Nat, i = c * p
      PROVE  i % c = 0
  BY <1>5, Z3
<1> QED
  BY <1>3, <1>4, <1>5

\* Counts are naturals.
LEMMA CountNat ==
  ASSUME NEW s, NEW k, NEW n \in Nat
  PROVE  /\ Count(s, k, n) \in Nat
         /\ IsFiniteSet({i \in 1..n : s[i] = k})
<1>1. IsFiniteSet(1..n)
  BY FS_Interval
<1>2. IsFiniteSet({i \in 1..n : s[i] = k})
  BY <1>1, FS_Subset
<1> QED
  BY <1>2, FS_CardinalityType DEF Count

\* What a sequence is continued with does not change the counts in it.
LEMMA CountPrefix ==
  ASSUME NEW S, NEW s \in Seq(S), NEW t \in Seq(S), NEW k, NEW n \in 0..Len(s)
  PROVE  Count(s \o t, k, n) = Count(s, k, n)
<1>1. \A i \in 1..n : (s \o t)[i] = s[i]
  BY ConcatProperties, LenProperties
<1>2. {i \in 1..n : (s \o t)[i] = k} = {i \in 1..n : s[i] = k}
  BY <1>1
<1> QED
  BY <1>2 DEF Count

\* The count after one more operation.
LEMMA CountLast ==
  ASSUME NEW S, NEW s \in Seq(S), NEW x \in S, NEW k
  PROVE  Count(s \o <<x>>, k, Len(s) + 1) = Count(s, k, Len(s)) + One(x = k)
<1> DEFINE u == s \o <<x>>
           A == {i \in 1..Len(s) : s[i] = k}
           B == {i \in 1..(Len(s) + 1) : u[i] = k}
<1>1. Len(s) \in Nat
  BY LenProperties
<1>2. <<x>> \in Seq(S) /\ Len(<<x>>) = 1 /\ <<x>>[1] = x
  OBVIOUS
<1>3. (\A i \in 1..Len(s) : u[i] = s[i]) /\ u[Len(s) + 1] = x
  BY <1>1, <1>2, ConcatProperties
<1>4. IsFiniteSet(A) /\ Cardinality(A) \in Nat
  <2>1. IsFiniteSet(A)
    BY <1>1, CountNat
  <2> QED
    BY <2>1, FS_CardinalityType
<1>7. Len(s) + 1 \notin A
  BY <1>1
<1> HIDE DEF u
<1>5. CASE x = k
  <2>1. B = A \cup {Len(s) + 1}
    BY <1>1, <1>3, <1>5
  <2>2. Cardinality(B) = Cardinality(A) + 1
    BY <1>4, <1>7, <2>1, FS_AddElement
  <2> QED
    BY <2>2, <1>5 DEF Count, One, u
<1>6. CASE x # k
  <2>1. B = A
    BY <1>1, <1>3, <1>6
  <2> HIDE DEF A, B
  <2>2. Cardinality(B) = Cardinality(A) + 0
    BY <1>4, <2>1
  <2> QED
    BY <2>2, <1>6 DEF Count, One, u, A, B
<1> QED
  BY <1>5, <1>6

\* The sequence before the last operation of a paced one is paced, and so on.
LEMMA PacedPrefix ==
  ASSUME NEW S, NEW s \in Seq(S), NEW t \in Seq(S), Paced(s \o t)
  PROVE  Paced(s)
<1> SUFFICES ASSUME NEW n \in 1..Len(s), s[n] = "collect"
             PROVE  Count(s, "churn", n) =
                      2 + ChurnsPerCollection * (Count(s, "collect", n) - 1)
  BY DEF Paced
<1>1. /\ Len(s) \in Nat /\ Len(t) \in Nat /\ Len(s \o t) = Len(s) + Len(t)
      /\ (s \o t)[n] = s[n]
  BY LenProperties, ConcatProperties
<1>2. n \in 1..Len(s \o t) /\ n \in 0..Len(s)
  BY <1>1
<1> QED
  BY <1>1, <1>2, CountPrefix DEF Paced

\* A churn may always follow; a collection where it is due.
LEMMA PacedMore ==
  ASSUME NEW s \in Seq(Operations), Paced(s), NEW x \in Operations,
         x = "collect" =>
            Count(s, "churn", Len(s)) = 2 + ChurnsPerCollection * Count(s, "collect", Len(s))
  PROVE  Paced(s \o <<x>>)
<1> DEFINE u == s \o <<x>>
<1>1. <<x>> \in Seq(Operations) /\ Len(<<x>>) = 1 /\ <<x>>[1] = x /\ Len(s) \in Nat
  BY LenProperties
<1>2. Len(u) = Len(s) + 1 /\ (\A i \in 1..Len(s) : u[i] = s[i]) /\ u[Len(s) + 1] = x
  BY <1>1, ConcatProperties
<1> SUFFICES ASSUME NEW n \in 1..Len(u), u[n] = "collect"
             PROVE  Count(u, "churn", n) =
                      2 + ChurnsPerCollection * (Count(u, "collect", n) - 1)
  BY DEF Paced
<1>3. CASE n \in 1..Len(s)
  <2>1. \A k : Count(u, k, n) = Count(s, k, n)
    <3>1. n \in 0..Len(s)
      BY <1>1, <1>3
    <3> QED
      BY <1>1, <3>1, CountPrefix
  <2>2. s[n] = "collect"
    BY <1>2, <1>3
  <2> QED
    BY <1>3, <2>1, <2>2 DEF Paced
<1>4. CASE n = Len(s) + 1
  <2>1. x = "collect"
    BY <1>2, <1>4
  <2>2. /\ Count(u, "churn", n) = Count(s, "churn", Len(s)) + One(x = "churn")
        /\ Count(u, "collect", n) = Count(s, "collect", Len(s)) + One(x = "collect")
    BY <1>4, CountLast
  <2>3. One(x = "churn") = 0 /\ One(x = "collect") = 1
    BY <2>1 DEF One
  <2>4. Count(s, "churn", Len(s)) \in Nat /\ Count(s, "collect", Len(s)) \in Nat
    BY <1>1, CountNat
  <2>5. /\ Count(u, "churn", n) = Count(s, "churn", Len(s))
        /\ Count(u, "collect", n) - 1 = Count(s, "collect", Len(s))
    BY <2>2, <2>3, <2>4
  <2> HIDE DEF u
  <2> QED
    BY <2>1, <2>5
<1> QED
  BY <1>1, <1>2, <1>3, <1>4

\* One more iteration of the loop of multi_churn.
LEMMA PlannedMore ==
  ASSUME NEW s \in Seq(Operations), NEW i \in Nat, Planned(s, i)
  PROVE  /\ Iteration(i) \in Seq(Operations)
         /\ Planned(s \o Iteration(i), i + 1)
<1> DEFINE c == ChurnsPerCollection
           e == Count(s, "collect", Len(s))
           t == s \o <<"churn">>
           u == t \o <<"collect">>
<1>1. /\ "churn" \in Operations /\ "collect" \in Operations
      /\ Len(s) \in Nat /\ c \in Nat \ {0}
  BY LenProperties, BehavioursAssumption DEF Operations
<1>2. e \in Nat
  BY <1>1, CountNat
<1>3. /\ t \in Seq(Operations) /\ Len(t) = Len(s) + 1 /\ Paced(t)
      /\ Count(t, "churn", Len(t)) = 2 + i
      /\ Count(t, "collect", Len(t)) = e
  <2>1. t \in Seq(Operations) /\ Len(t) = Len(s) + 1
    BY <1>1
  <2>2. Paced(t)
    BY <1>1, PacedMore DEF Planned
  <2>3. /\ Count(t, "churn", Len(t)) = Count(s, "churn", Len(s)) + One("churn" = "churn")
        /\ Count(t, "collect", Len(t)) = e + One("churn" = "collect")
    BY <1>1, <2>1, CountLast
  <2>4. One("churn" = "churn") = 1 /\ One("churn" = "collect") = 0
    BY DEF One
  <2> QED
    BY <1>2, <2>1, <2>2, <2>3, <2>4 DEF Planned
<1>4. c * (e - 1) < i /\ i <= c * e
  BY DEF Planned
<1> HIDE DEF c, t
<1>5. CASE i % c = 0
  <2>1. i = c * e
    <3>1. PICK q \in Nat : i = c * q
      BY <1>1, <1>5, Multiple
    <3>2. q = e
      <4>1. q <= e
        BY <1>1, <1>2, <1>4, <3>1
      <4>2. e - 1 < q
        BY <1>1, <1>2, <1>4, <3>1
      <4> QED
        BY <1>2, <4>1, <4>2
    <3> QED
      BY <3>1, <3>2
  <2>2. /\ u \in Seq(Operations) /\ Len(u) = Len(t) + 1
    BY <1>1, <1>3
  <2>3. Paced(u)
    BY <1>1, <1>3, <2>1, PacedMore DEF c
  <2>4. /\ Count(u, "churn", Len(u)) = Count(t, "churn", Len(t)) + One("collect" = "churn")
        /\ Count(u, "collect", Len(u)) = Count(t, "collect", Len(t)) + One("collect" = "collect")
    BY <1>1, <1>3, <2>2, CountLast
  <2>5. One("collect" = "churn") = 0 /\ One("collect" = "collect") = 1
    BY DEF One
  <2>6. Count(u, "churn", Len(u)) = 1 + (i + 1) /\ Count(u, "collect", Len(u)) = e + 1
    BY <1>2, <1>3, <2>4, <2>5
  <2>7. c * ((e + 1) - 1) < i + 1 /\ i + 1 <= c * (e + 1)
    <3>1. (e + 1) - 1 = e
      BY <1>2
    <3>2. c * (e + 1) = c * e + c /\ c * e \in Nat
      BY <1>1, <1>2
    <3> QED
      BY <1>1, <2>1, <3>1, <3>2
  <2>8. Planned(u, i + 1)
    BY <2>3, <2>6, <2>7 DEF Planned, c
  <2>9. <<"churn", "collect">> = <<"churn">> \o <<"collect">>
    BY <1>1
  <2>10. u = s \o <<"churn", "collect">>
    BY <1>1, <2>9, ConcatAssociative DEF t
  <2>11. Iteration(i) = <<"churn", "collect">> /\ <<"churn", "collect">> \in Seq(Operations)
    BY <1>1, <1>5 DEF Iteration, c
  <2> QED
    BY <2>8, <2>10, <2>11
<1>6. CASE i % c # 0
  <2>1. i # c * e
    BY <1>1, <1>2, <1>6, Multiple
  <2>2. c * (e - 1) < i + 1 /\ i + 1 <= c * e
    <3>1. c * e \in Nat /\ c * (e - 1) \in Int
      BY <1>1, <1>2
    <3> QED
      BY <1>4, <2>1, <3>1
  <2>3. Planned(t, i + 1)
    BY <1>3, <2>2 DEF Planned, c
  <2>4. Iteration(i) = <<"churn">> /\ <<"churn">> \in Seq(Operations)
    BY <1>1, <1>6 DEF Iteration, c
  <2> QED
    BY <2>3, <2>4 DEF t
<1> QED
  BY <1>5, <1>6

\* Concatenation is associative, of sequences of operations.
LEMMA OperationsConcat ==
  \A s, t, u \in Seq(Operations) : (s \o t) \o u = s \o (t \o u)
BY ConcatAssociative

\* A region that nothing has been scheduled on is on course in either test.
LEMMA UntouchedOnCourse ==
  ASSUME NEW r \in Region, Untouched(r), test \in {"traverse", "churn"}
  PROVE  OnCourse(r)
<1>1. Doing(r) = <<>>
  BY DEF Untouched, Doing
<1>2. log[r] \o (Doing(r) \o queue[r]) = <<>>
  BY <1>1 DEF Untouched
<1>3. Paced(<<>>)
  BY DEF Paced
<1>4. Winding(r) /\ Traversing(r)
  BY <1>2, <1>3 DEF Untouched, Winding, Traversing
<1> QED
  BY <1>4 DEF OnCourse

\* The course starts with regions that nothing has been scheduled on.
LEMMA InitCourse == Init => Course
  BY UntouchedOnCourse DEF Init, Course, Untouched

\* A step that does not touch what region r is at keeps r on course.
LEMMA CourseKept ==
  ASSUME NEW r \in Region, OnCourse(r), test' = test,
         queue'[r] = queue[r], owner'[r] = owner[r], kind'[r] = kind[r],
         step'[r] = step[r], log'[r] = log[r]
  PROVE  OnCourse(r)' /\ (Untouched(r) => Untouched(r)')
BY DEF OnCourse, Traversing, Waiting, Beginning, Looping, Winding, Untouched, Doing

\* A worker takes up what is next on r.
LEMMA StartOnCourse ==
  ASSUME TypeOK, NEW r \in Region, NEW w \in Worker, Start(w, r), OnCourse(r)
  PROVE  OnCourse(r)'
<1>1. /\ queue[r] # <<>> /\ owner[r] = NoWorker /\ owner'[r] # NoWorker
      /\ kind'[r] = Head(queue[r]) /\ step'[r] = 0 /\ queue'[r] = Tail(queue[r])
      /\ log'[r] = log[r] /\ test' = test
  BY BehavioursAssumption DEF Start, TypeOK, mainVars
<1>2. CASE test = "traverse" /\ Traversing(r)
  <2>1. queue[r] \in Seq({"traverse"}) /\ log[r] \in Seq({"traverse"})
    BY <1>2 DEF Traversing
  <2>2. Head(queue[r]) = "traverse" /\ Tail(queue[r]) \in Seq({"traverse"})
    BY <1>1, <2>1
  <2>3. Traversing(r)'
    BY <1>1, <2>1, <2>2 DEF Traversing
  <2> QED
    BY <1>1, <1>2, <2>3 DEF OnCourse
<1>3. CASE test = "churn" /\ Waiting(r)
  <2>1. queue[r] = <<"multi">> /\ log[r] = <<>>
    BY <1>3 DEF Waiting
  <2>2. Head(<<"multi">>) = "multi" /\ Tail(<<"multi">>) = <<>>
    OBVIOUS
  <2> QED
    BY <1>1, <1>3, <2>1, <2>2 DEF Beginning, OnCourse
<1>4. CASE test = "churn" /\ Winding(r)
  <2>1. /\ queue[r] \in Seq(Operations) /\ log[r] \in Seq(Operations)
        /\ Paced(log[r] \o (Doing(r) \o queue[r]))
    BY <1>4 DEF Winding
  <2>2. Doing(r) = <<>> /\ Doing(r)' = <<Head(queue[r])>>
    BY <1>1 DEF Doing
  <2>3. Head(queue[r]) \in Operations /\ Tail(queue[r]) \in Seq(Operations)
    BY <1>1, <2>1
  <2>4. <<Head(queue[r])>> \o Tail(queue[r]) = queue[r] /\ <<>> \o queue[r] = queue[r]
    BY <1>1, <2>1, <2>3
  <2>5. Winding(r)'
    BY <1>1, <2>1, <2>2, <2>3, <2>4 DEF Winding
  <2> QED
    BY <1>1, <1>4, <2>5 DEF OnCourse
<1> QED
  BY <1>1, <1>2, <1>3, <1>4 DEF OnCourse, Beginning, Looping

\* The behaviour that runs on r does its graph operation.
LEMMA OperateOnCourse ==
  ASSUME TypeOK, NEW r \in Region, Operate(r), OnCourse(r)
  PROVE  OnCourse(r)'
<1>1. /\ owner[r] # NoWorker /\ step[r] = 0 /\ step'[r] = 1
      /\ log'[r] = Append(log[r], IF kind[r] = "multi" THEN "churn" ELSE kind[r])
      /\ queue'[r] = queue[r] /\ owner'[r] = owner[r] /\ kind'[r] = kind[r] /\ test' = test
  BY DEF Operate, TypeOK, mainVars
<1>2. CASE test = "traverse" /\ Traversing(r)
  <2>1. kind[r] = "traverse" /\ log[r] \in Seq({"traverse"}) /\ queue[r] \in Seq({"traverse"})
    BY <1>1, <1>2 DEF Traversing
  <2>2. log'[r] \in Seq({"traverse"})
    BY <1>1, <2>1
  <2> QED
    BY <1>1, <1>2, <2>1, <2>2 DEF Traversing, OnCourse
<1>3. CASE test = "churn" /\ Beginning(r)
  <2> DEFINE s == <<"churn">>
             e == <<>>
  <2>1. log'[r] = s /\ queue'[r] = e
    BY <1>1, <1>3 DEF Beginning
  <2>2. /\ "churn" \in Operations /\ s \in Seq(Operations) /\ Len(s) = 1 /\ s[1] = "churn"
        /\ s \o e = s /\ e \o <<"churn">> = s /\ Len(e) = 0 /\ e \in Seq(Operations)
    BY DEF Operations
  <2>4. \A k : Count(e, k, 0) = 0
    BY FS_EmptySet DEF Count
  <2> HIDE DEF s, e
  <2>3. /\ Count(s, "churn", 1) = Count(e, "churn", 0) + One("churn" = "churn")
        /\ Count(s, "collect", 1) = Count(e, "collect", 0) + One("churn" = "collect")
    <3>1. /\ Count(e \o <<"churn">>, "churn", Len(e) + 1)
                = Count(e, "churn", Len(e)) + One("churn" = "churn")
          /\ Count(e \o <<"churn">>, "collect", Len(e) + 1)
                = Count(e, "collect", Len(e)) + One("churn" = "collect")
      <4>1. e \in Seq(Operations) /\ "churn" \in Operations
        BY <2>2
      <4> QED
        BY <4>1, CountLast
    <3> QED
      BY <2>2, <3>1
  <2>5. Count(s, "churn", 1) = 1 /\ Count(s, "collect", 1) = 0
    BY <2>3, <2>4 DEF One
  <2>6. Paced(s)
    BY <2>2 DEF Paced
  <2>7. Planned(s, 0)
    BY <2>2, <2>5, <2>6, BehavioursAssumption DEF Planned
  <2>8. step'[r] - 1 = 0 /\ step'[r] # 0
    BY <1>1
  <2>9. log'[r] \o queue'[r] = s
    BY <2>1, <2>2
  <2>10. Looping(r)'
    BY <1>1, <1>3, <2>1, <2>2, <2>7, <2>8, <2>9 DEF Looping, Beginning
  <2> QED
    BY <1>1, <1>3, <2>10 DEF OnCourse
<1>4. CASE test = "churn" /\ Winding(r)
  <2>1. /\ kind[r] \in Operations /\ queue[r] \in Seq(Operations) /\ log[r] \in Seq(Operations)
        /\ Paced(log[r] \o (Doing(r) \o queue[r]))
    BY <1>1, <1>4 DEF Winding
  <2>2. Doing(r) = <<kind[r]>> /\ Doing(r)' = <<>>
    BY <1>1 DEF Doing
  <2>3. log'[r] = Append(log[r], kind[r])
    BY <1>1, <2>1 DEF Operations
  <2>4. /\ <<kind[r]>> \in Seq(Operations)
        /\ Append(log[r], kind[r]) = log[r] \o <<kind[r]>>
        /\ Append(log[r], kind[r]) \in Seq(Operations)
        /\ <<>> \o queue[r] = queue[r]
    BY <2>1
  <2>5. log'[r] \o (<<>> \o queue[r]) = log[r] \o (<<kind[r]>> \o queue[r])
    <3>1. (log[r] \o <<kind[r]>>) \o queue[r] = log[r] \o (<<kind[r]>> \o queue[r])
      BY <2>1, <2>4, OperationsConcat
    <3> QED
      BY <2>3, <2>4, <3>1
  <2>6. Winding(r)'
    BY <1>1, <2>1, <2>2, <2>3, <2>4, <2>5 DEF Winding
  <2> QED
    BY <1>1, <1>4, <2>6 DEF OnCourse
<1> QED
  BY <1>1, <1>2, <1>3, <1>4 DEF OnCourse, Waiting, Looping

\* An iteration of multi_churn's loop schedules what it should.
LEMMA ScheduleOnCourse ==
  ASSUME TypeOK, NEW r \in Region, ScheduleInner(r), OnCourse(r)
  PROVE  OnCourse(r)'
<1> DEFINE i == step[r] - 1
<1>1. /\ owner[r] # NoWorker /\ kind[r] = "multi" /\ step'[r] = step[r] + 1
      /\ i \in Nat /\ step'[r] # 0 /\ step'[r] - 1 = i + 1 /\ step[r] # 0
  BY BehavioursAssumption DEF ScheduleInner, TypeOK
<1>2. /\ queue'[r] = queue[r] \o Iteration(i) /\ log'[r] = log[r]
      /\ owner'[r] = owner[r] /\ kind'[r] = kind[r] /\ test' = test
  BY DEF ScheduleInner, When, TypeOK, mainVars
<1>3. test = "churn" /\ Looping(r)
  BY <1>1 DEF OnCourse, Traversing, Waiting, Beginning, Winding, Operations
<1>4. /\ queue[r] \in Seq(Operations) /\ log[r] \in Seq(Operations)
      /\ log[r] \o queue[r] \in Seq(Operations) /\ Planned(log[r] \o queue[r], i)
  BY <1>3 DEF Looping
<1> HIDE DEF i
<1>5. Iteration(i) \in Seq(Operations) /\ Planned((log[r] \o queue[r]) \o Iteration(i), i + 1)
  <2> DEFINE s == log[r] \o queue[r]
  <2>1. s \in Seq(Operations) /\ Planned(s, i)
    BY <1>4
  <2> HIDE DEF s
  <2>2. Iteration(i) \in Seq(Operations) /\ Planned(s \o Iteration(i), i + 1)
    BY <1>1, <2>1, PlannedMore
  <2> QED
    BY <2>2 DEF s
<1>6. (log[r] \o queue[r]) \o Iteration(i) = log'[r] \o queue'[r]
  <2>1. (log[r] \o queue[r]) \o Iteration(i) = log[r] \o (queue[r] \o Iteration(i))
    BY <1>4, <1>5, OperationsConcat
  <2> QED
    BY <1>2, <2>1
<1>7. queue'[r] \in Seq(Operations)
  BY <1>2, <1>4, <1>5
<1>8. Looping(r)'
  BY <1>1, <1>2, <1>4, <1>5, <1>6, <1>7 DEF Looping
<1> QED
  BY <1>2, <1>3, <1>8 DEF OnCourse

\* A behaviour that returns leaves what it scheduled.
LEMMA FinishOnCourse ==
  ASSUME TypeOK, NEW r \in Region, Finish(r), OnCourse(r)
  PROVE  OnCourse(r)'
<1>1. /\ owner[r] # NoWorker /\ owner'[r] = NoWorker
      /\ step[r] # 0
      /\ queue'[r] = queue[r] /\ log'[r] = log[r] /\ test' = test
  BY BehavioursAssumption DEF Finish, TypeOK, mainVars
<1>2. Doing(r) = <<>> /\ Doing(r)' = <<>>
  BY <1>1 DEF Doing
<1>3. CASE test = "traverse" /\ Traversing(r)
  BY <1>1, <1>3 DEF Traversing, OnCourse
<1>4. CASE test = "churn" /\ Winding(r)
  <2>1. Winding(r)'
    BY <1>1, <1>2, <1>4 DEF Winding
  <2> QED
    BY <1>1, <1>4, <2>1 DEF OnCourse
<1>5. CASE test = "churn" /\ Looping(r)
  <2>1. /\ queue[r] \in Seq(Operations) /\ log[r] \in Seq(Operations)
        /\ Paced(log[r] \o queue[r]) /\ <<>> \o queue[r] = queue[r]
    BY <1>5 DEF Looping, Planned
  <2>2. Winding(r)'
    BY <1>1, <1>2, <2>1 DEF Winding
  <2> QED
    BY <1>1, <1>5, <2>2 DEF OnCourse
<1> QED
  BY <1>1, <1>3, <1>4, <1>5 DEF OnCourse, Waiting, Beginning

\* Every step keeps every region on its course.
LEMMA NextCourse == IInv /\ Course /\ [Next]_vars => Course'
<1> SUFFICES ASSUME IInv, Course, [Next]_vars, NEW r \in Region
             PROVE  OnCourse(r)' /\ (ToSchedule(r)' => Untouched(r)')
  BY DEF Course
<1>1. TypeOK /\ OnCourse(r) /\ (ToSchedule(r) => Untouched(r))
  BY DEF IInv, Course
<1>2. UNCHANGED mainVars => (ToSchedule(r)' <=> ToSchedule(r))
  BY DEF mainVars, ToSchedule
<1>3. next \in 1..NumRegions /\ r \in 1..NumRegions /\ NumRegions \in Nat \ {0}
  BY <1>1, BehavioursAssumption DEF TypeOK, Region
<1>4. CASE CreateRegion
  <2>1. OnCourse(r)' /\ (Untouched(r) => Untouched(r)') /\ main = "creating"
    BY <1>1, <1>4, CourseKept DEF CreateRegion, Advance, jobVars
  <2> QED
    BY <1>1, <2>1 DEF ToSchedule
<1>5. CASE ScheduleTest
  <2>1. /\ main = "scheduling" /\ main' = IF next = NumRegions THEN "leaving" ELSE main
        /\ next' = IF next = NumRegions THEN 1 ELSE next + 1
        /\ test' = test
        /\ UNCHANGED <<owner, kind, step, log>>
    BY <1>5 DEF ScheduleTest, Advance, jobVars
  <2>2. ToSchedule(r)' => r # next /\ ToSchedule(r)
    BY <1>3, <2>1 DEF ToSchedule
  <2>3. CASE r # next
    <3>1. queue'[r] = queue[r]
      BY <1>1, <1>5, <2>3 DEF ScheduleTest, When, TypeOK
    <3> QED
      BY <1>1, <2>1, <2>2, <3>1, CourseKept
  <2>4. CASE r = next
    <3>1. Untouched(r)
      BY <1>1, <1>3, <2>1, <2>4 DEF ToSchedule
    <3>2. queue'[r] = <<>> \o (IF test = "churn" THEN <<"multi">> ELSE <<"traverse">>)
      BY <1>1, <1>5, <2>4, <3>1 DEF ScheduleTest, When, TypeOK, Untouched
    <3>3. <<>> \o <<"multi">> = <<"multi">> /\ <<>> \o <<"traverse">> = <<"traverse">>
      OBVIOUS
    <3>4. CASE test = "churn"
      <4>1. queue'[r] = <<"multi">> /\ owner'[r] = NoWorker /\ log'[r] = <<>> /\ test' = "churn"
        BY <2>1, <3>1, <3>2, <3>3, <3>4 DEF Untouched
      <4> QED
        BY <2>2, <2>4, <4>1 DEF OnCourse, Waiting
    <3>5. CASE test = "traverse"
      <4>1. queue'[r] = <<"traverse">>
        BY <3>2, <3>3, <3>5
      <4>2. <<"traverse">> \in Seq({"traverse"}) /\ <<>> \in Seq({"traverse"})
        OBVIOUS
      <4> QED
        <5>1. owner'[r] = NoWorker /\ log'[r] = <<>> /\ test' = "traverse"
          BY <2>1, <3>1, <3>5 DEF Untouched
        <5> QED
          BY <2>2, <2>4, <4>1, <4>2, <5>1 DEF OnCourse, Traversing
    <3> QED
      BY <1>1, <2>2, <2>4, <3>4, <3>5 DEF TypeOK
  <2> QED
    BY <2>3, <2>4
<1>6. CASE LeaveScope
  <2>1. OnCourse(r)' /\ (Untouched(r) => Untouched(r)')
    BY <1>1, <1>6, CourseKept DEF LeaveScope, Advance, jobVars
  <2>2. ~ToSchedule(r)'
    BY <1>6 DEF LeaveScope, Advance, ToSchedule
  <2> QED
    BY <2>1, <2>2
<1>7. ASSUME NEW s \in Region, NEW w \in Worker, Start(w, s)
      PROVE  OnCourse(r)' /\ (ToSchedule(r)' => Untouched(r)')
  <2>1. UNCHANGED mainVars /\ log' = log
    BY <1>7 DEF Start
  <2>2. CASE r = s
    <3>1. ~Untouched(r)
      BY <1>7, <2>2 DEF Start, Untouched
    <3>2. OnCourse(r)'
      BY <1>1, <1>7, <2>2, StartOnCourse
    <3> QED
      BY <1>1, <1>2, <2>1, <3>1, <3>2
  <2>3. CASE r # s
    <3>1. /\ queue'[r] = queue[r] /\ owner'[r] = owner[r] /\ kind'[r] = kind[r]
          /\ step'[r] = step[r]
      BY <1>1, <1>7, <2>3 DEF Start, TypeOK
    <3> QED
      BY <1>1, <1>2, <2>1, <3>1, CourseKept DEF mainVars
  <2> QED
    BY <2>2, <2>3
<1>8. ASSUME NEW s \in Region, Operate(s) \/ ScheduleInner(s) \/ Finish(s)
      PROVE  OnCourse(r)' /\ (ToSchedule(r)' => Untouched(r)')
  <2>1. UNCHANGED mainVars /\ owner[s] # NoWorker
    BY <1>8 DEF Operate, ScheduleInner, Finish
  <2>2. CASE r = s
    <3>1. ~Untouched(r)
      BY <2>1, <2>2 DEF Untouched
    <3>2. OnCourse(r)'
      BY <1>1, <1>8, <2>2, OperateOnCourse, ScheduleOnCourse, FinishOnCourse
    <3> QED
      BY <1>1, <1>2, <2>1, <3>1, <3>2
  <2>3. CASE r # s
    <3>1. /\ queue'[r] = queue[r] /\ owner'[r] = owner[r] /\ kind'[r] = kind[r]
          /\ step'[r] = step[r] /\ log'[r] = log[r]
      BY <1>1, <1>8, <2>3 DEF Operate, ScheduleInner, Finish, When, TypeOK
    <3> QED
      BY <1>1, <1>2, <2>1, <3>1, CourseKept DEF mainVars
  <2> QED
    BY <2>2, <2>3
<1>9. CASE UNCHANGED vars
  <2>1. UNCHANGED <<mainVars, queue, owner, kind, step, log>>
    BY <1>9 DEF vars, jobVars
  <2> QED
    BY <1>1, <1>2, <2>1, CourseKept DEF mainVars
<1> QED
  BY <1>4, <1>5, <1>6, <1>7, <1>8, <1>9 DEF Next

\* A region on its course has had its collections when they were due.
LEMMA CoursePaced == TypeOK /\ Course => CollectionsPaced
<1> SUFFICES ASSUME TypeOK, Course, NEW r \in Region
             PROVE  Paced(log[r])
  BY DEF Paced, Count, CountBefore, CollectionsPaced
<1>1. OnCourse(r)
  BY DEF Course
<1>2. CASE Traversing(r)
  BY <1>2 DEF Traversing, Paced
<1>3. CASE Waiting(r) \/ Beginning(r)
  BY <1>3 DEF Waiting, Beginning, Paced
<1>4. CASE Looping(r)
  BY <1>4, PacedPrefix DEF Looping, Planned
<1>5. CASE Winding(r)
  <2>1. /\ log[r] \in Seq(Operations) /\ queue[r] \in Seq(Operations)
        /\ Paced(log[r] \o (Doing(r) \o queue[r]))
    BY <1>5 DEF Winding
  <2>2. Doing(r) \in Seq(Operations)
    BY <1>5 DEF Winding, Doing
  <2>3. Doing(r) \o queue[r] \in Seq(Operations)
    BY <2>1, <2>2
  <2> QED
    BY <2>1, <2>3, PacedPrefix
<1> QED
  BY <1>1, <1>2, <1>3, <1>4, <1>5 DEF OnCourse

\* Whatever the workers do meanwhile, a collection of a region stands in the order
\* of what was done to it where multi_churn's loop has it: the first after two
\* churns, each later one after ChurnsPerCollection more.  That the collections
\* all come is liveness, and not said.
THEOREM CollectionsArePaced == Spec => []CollectionsPaced
<1>1. Spec => []Course
  BY InitCourse, NextCourse, Invariant, PTL DEF Spec
<1>2. IInv /\ Course => CollectionsPaced
  BY CoursePaced DEF IInv
<1> QED
  BY <1>1, <1>2, Invariant, PTL

==============================================================================
