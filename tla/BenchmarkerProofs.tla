--------------------------- MODULE BenchmarkerProofs --------------------------
(***************************************************************************)
(* What main, run_benchmark and the collectors keep for any options,       *)
(* region types, events and numbers of runs.  HarnessInv is what every     *)
(* operation of a GCBenchmark keeps, whoever calls it; LibraryInv adds     *)
(* where main may be meanwhile, Typed the types, Progress how many results *)
(* there are at each place of main, and Asked where in the list of all     *)
(* measurements those of a result are.  Facts about sums come first: a     *)
(* fold is the last of its running totals.  The last two sections are      *)
(* about calls of record_gc_measurement that overlap, which use the same   *)
(* sums, and about percentiles.                                            *)
(***************************************************************************)
EXTENDS Benchmarker, Recording, TLAPS, SequenceTheorems, FiniteSetTheorems, NaturalsInduction

Testing == {"warmupTest", "measureTest"}

\* A call of run_benchmark starts with no callback, so that none is what it
\* puts back after each run.
HarnessInv ==
    /\ CallbackLive
    /\ InTest => prev = 0

\* Tests run in the loop over the region types only, where the library is open.
LibraryInv ==
    /\ at \in {"args", "open", "lookup", "types", "csv", "table", "close",
               "exited", "aborted"}
    /\ InTest => at \in {"types", "aborted"} /\ loaded
    /\ at \in {"lookup", "types", "csv", "table", "close"} => loaded
    /\ at \in {"args", "open", "exited"} => ~loaded

Inv == HarnessInv /\ LibraryInv

-----------------------------------------------------------------------------
\* What the harness's own steps do to pc, whatever else they do: between tests
\* they install a callback, after a test they take it away.

\* Entering a test installs a callback into the collector just constructed.
LEMMA EnterKeeps ==
    ASSUME NEW from, NEW to, HarnessInv, from \notin Testing, to \in Testing,
           EnterTest(from, to)
    PROVE  HarnessInv'
BY DEF EnterTest, HarnessInv, CallbackLive, InTest, Testing

\* Leaving one puts back that there was none.
LEMMA LeaveKeeps ==
    ASSUME NEW from, NEW to, HarnessInv, from \in Testing, to \notin Testing,
           LeaveTest(from, to)
    PROVE  HarnessInv' /\ ~InTest'
BY DEF LeaveTest, HarnessInv, CallbackLive, InTest, Testing

\* The steps of run_benchmark between its call and its return.
LEMMA RunBenchmarkKeeps ==
    ASSUME HarnessInv, RunBenchmark
    PROVE  HarnessInv'
<1>1. CASE BeginWarmup
  BY <1>1, EnterKeeps DEF BeginWarmup, Testing
<1>2. CASE EndWarmup
  BY <1>2, LeaveKeeps DEF EndWarmup, Testing
<1>3. CASE EndWarmups
  BY <1>3 DEF EndWarmups, callVars, HarnessInv, CallbackLive, InTest
<1>4. CASE BeginRun
  BY <1>4, EnterKeeps DEF BeginRun, Testing
<1>5. CASE EndRun
  BY <1>5, LeaveKeeps DEF EndRun, Testing
<1> QED BY <1>1, <1>2, <1>3, <1>4, <1>5 DEF RunBenchmark

\* Nothing the harness's state depends on is touched.
LEMMA IdleKeeps ==
    ASSUME HarnessInv, UNCHANGED <<pc, callback, prev, scope>>
    PROVE  HarnessInv' /\ (InTest' <=> InTest)
BY DEF HarnessInv, CallbackLive, InTest

-----------------------------------------------------------------------------
\* The invariant is inductive, one step of the proof for each action of Next.
LEMMA InvInductive ==
    ASSUME Inv, [Next]_vars
    PROVE  Inv'
<1> USE DEF Inv
<1> DEFINE driverKept == UNCHANGED <<pc, callback, prev, scope>>
<1>1. CASE driverKept /\ UNCHANGED <<at, loaded>>
  BY <1>1, IdleKeeps DEF LibraryInv
<1>2. CASE ReadOption
  BY <1>2, <1>1 DEF ReadOption, harnessVars, callVars
<1>3. CASE StoulThrows
  BY <1>3, IdleKeeps DEF StoulThrows, harnessVars, callVars, LibraryInv
<1>4. CASE Usage
  BY <1>4, IdleKeeps DEF Usage, Exit, harnessVars, callVars, LibraryInv
<1>5. CASE FoundPath
  BY <1>5, IdleKeeps DEF FoundPath, harnessVars, callVars, LibraryInv
<1>6. CASE OpenFails
  BY <1>6, IdleKeeps DEF OpenFails, Exit, harnessVars, callVars, LibraryInv
<1>7. CASE OpenLibrary
  BY <1>7, IdleKeeps DEF OpenLibrary, harnessVars, callVars, LibraryInv
<1>8. CASE LookupFails
  BY <1>8, IdleKeeps DEF LookupFails, Exit, harnessVars, callVars, LibraryInv
<1>9. CASE LookupEntry
  BY <1>9, IdleKeeps DEF LookupEntry, harnessVars, callVars, LibraryInv
<1>10. CASE SkipArena
  BY <1>10, <1>1 DEF SkipArena, harnessVars, callVars
<1>11. CASE BeginType
  BY <1>11 DEF BeginType, CallRunBenchmark, callVars, driverVars,
                HarnessInv, CallbackLive, InTest, LibraryInv
<1>12. CASE EndType
  BY <1>12 DEF EndType, EndRuns, callVars, HarnessInv, CallbackLive, InTest, LibraryInv
<1>13. CASE EndTypes
  BY <1>13, IdleKeeps DEF EndTypes, harnessVars, callVars, InTest, LibraryInv
<1>14. CASE Measure
  BY <1>14, RunBenchmarkKeeps DEF Measure, driverVars, LibraryInv
<1>15. CASE SummaryCsv
  BY <1>15, IdleKeeps DEF SummaryCsv, WriteCsv, callVars, LibraryInv
<1>16. CASE CsvThrows
  BY <1>16, IdleKeeps DEF CsvThrows, harnessVars, callVars, LibraryInv
<1>17. CASE SummaryTablePrinted
  BY <1>17, IdleKeeps DEF SummaryTablePrinted, PrintTable, callVars, LibraryInv
<1>18. CASE CloseLibrary
  BY <1>18, IdleKeeps DEF CloseLibrary, Exit, harnessVars, callVars, LibraryInv
<1>19. CASE TestCollects
  BY <1>19, <1>1 DEF TestCollects, Collect, driverVars
<1>20. CASE TestThrows
  BY <1>20, IdleKeeps DEF TestThrows, harnessVars, callVars, LibraryInv
<1>21. CASE UNCHANGED vars
  BY <1>21, <1>1 DEF vars, harnessVars, callVars, driverVars
<1> QED
  BY <1>2, <1>3, <1>4, <1>5, <1>6, <1>7, <1>8, <1>9, <1>10, <1>11, <1>12, <1>13,
     <1>14, <1>15, <1>16, <1>17, <1>18, <1>19, <1>20, <1>21 DEF Next, Step

\* Every behaviour of main keeps the invariant.
LEMMA InvHolds == Spec => []Inv
<1>1. Init => Inv
  BY DEF Init, HarnessInit, Inv, HarnessInv, CallbackLive, InTest, LibraryInv
<1>2. Inv /\ [Next]_vars => Inv'
  BY InvInductive
<1> QED BY <1>1, <1>2, PTL DEF Spec

-----------------------------------------------------------------------------
\* The runtime's GC callback leads to the collector of the run under way while a
\* test runs, and nowhere between runs and after them.
THEOREM CallbackNeverDangles == Spec => []CallbackLive
<1>1. Inv => CallbackLive
  BY DEF Inv, HarnessInv
<1> QED BY <1>1, InvHolds, PTL

\* The library is open while its code or the callback may be called, and closed
\* whenever main returns.
THEOREM LibraryHeldWhileUsed == Spec => []LibraryHeld
<1>1. Inv => LibraryHeld
  BY DEF Inv, HarnessInv, CallbackLive, LibraryInv, LibraryHeld
<1> QED BY <1>1, InvHolds, PTL

-----------------------------------------------------------------------------
\* A set of numbers with 0 and the successor of each of its members has them all.
LEMMA Induction ==
    ASSUME NEW S, 0 \in S, \A n \in Nat : n \in S => n + 1 \in S
    PROVE  Nat \subseteq S
<1> SUFFICES ASSUME Nat \ S # {} PROVE FALSE
  OBVIOUS
<1>1. PICK n \in Nat \ S : \A m \in Nat \ S : ~(<<m, n>> \in OpToRel(<, Nat))
  BY NatLessThanWellFounded, WFMin
<1>2. n # 0 /\ n - 1 \in Nat
  OBVIOUS
<1>3. n - 1 \in S
  BY <1>1, <1>2, n - 1 < n DEF OpToRel
<1> QED BY <1>2, <1>3

\* 2^w is a positive natural: as many as the subsets of 1..w.
LEMMA PowerPositive ==
    ASSUME NEW w \in Nat
    PROVE  2^w \in Nat \ {0}
<1>1. IsFiniteSet(1..w) /\ Cardinality(1..w) = w
  <2>1. \A n \in Nat : IsFiniteSet(1..n) /\ Cardinality(1..n) = n
    BY FS_Interval
  <2> QED BY <2>1
<1>2. IsFiniteSet(SUBSET (1..w)) /\ Cardinality(SUBSET (1..w)) = 2^w
  BY <1>1, FS_SUBSET, Zenon
<1>3. {} \in SUBSET (1..w)
  OBVIOUS
<1>4. 2^w \in Nat
  BY <1>2, FS_CardinalityType, Zenon
<1>5. 2^w # 0
  BY <1>2, <1>3, FS_EmptySet, Zenon
<1> QED BY <1>4, <1>5

-----------------------------------------------------------------------------
\* The largest of some of the first k + 1 numbers, with k + 1 among them.
LEMMA MaxOfInitial ==
    ASSUME NEW k \in Nat, NEW s \in SUBSET (1..(k + 1)), k + 1 \in s
    PROVE  Max(s) = k + 1
<1>1. \A y \in s : k + 1 >= y
  OBVIOUS
<1>2. \A x \in s : (\A y \in s : x >= y) => x = k + 1
  OBVIOUS
<1> QED BY <1>1, <1>2 DEF Max

\* A set of indices has a largest.
LEMMA MaxMember ==
    ASSUME NEW n \in Nat, NEW s \in SUBSET (1..n), s # {}
    PROVE  Max(s) \in s
<1> DEFINE Has(t) == \E x \in t : \A y \in t : x >= y
           Ok == {k \in Nat : \A t \in SUBSET (1..k) : t # {} => Has(t)}
<1>1. 0 \in Ok
  BY 1..0 = {}
<1>2. ASSUME NEW k \in Nat, k \in Ok
      PROVE  k + 1 \in Ok
  <2> SUFFICES ASSUME NEW t \in SUBSET (1..(k + 1)), t # {}
               PROVE  Has(t)
    OBVIOUS
  <2>1. CASE k + 1 \in t
    BY <2>1
  <2>2. CASE k + 1 \notin t
    BY <1>2, <2>2, t \in SUBSET (1..k)
  <2> QED BY <2>1, <2>2
<1>3. n \in Ok
  <2> HIDE DEF Ok
  <2> QED BY <1>1, <1>2, Induction
<1>4. Has(s)
  BY <1>3
<1> QED BY <1>4, Zenon DEF Max

\* FoldLeft recurses on sets of indices, the largest index last: for a step F
\* there is a function that does.
Recurses(h, F, base, n, seq) ==
    \A s \in SUBSET (1..n) :
       h[s] = IF s = {} THEN base ELSE F[h[s \ {Max(s)}], seq[Max(s)]]

\* By induction on how many indices there are.
LEMMA FoldExists ==
    ASSUME NEW V, NEW base \in V, NEW F \in [V \X V -> V], NEW n \in Nat,
           NEW seq \in [1..n -> V]
    PROVE  \E h \in [SUBSET (1..n) -> V] : Recurses(h, F, base, n, seq)
<1> DEFINE Folds(h, k) ==
             \A s \in SUBSET (1..k) :
                h[s] = IF s = {} THEN base ELSE F[h[s \ {Max(s)}], seq[Max(s)]]
           Has(k) == \E h \in [SUBSET (1..k) -> V] : Folds(h, k)
           Ok == {k \in Nat : k <= n => Has(k)}
<1>1. 0 \in Ok
  <2> DEFINE h == [s \in SUBSET (1..0) |-> base]
  <2>1. \A s \in SUBSET (1..0) : s = {}
    OBVIOUS
  <2>2. Folds(h, 0) /\ h \in [SUBSET (1..0) -> V]
    BY <2>1
  <2> HIDE DEF Folds, h
  <2> QED BY <2>2
<1>2. ASSUME NEW k \in Nat, k \in Ok
      PROVE  k + 1 \in Ok
  <2> SUFFICES ASSUME k + 1 <= n
               PROVE  Has(k + 1)
    <3> HIDE DEF Has
    <3> QED OBVIOUS
  <2>0. k + 1 \in 1..n /\ seq[k + 1] \in V
    OBVIOUS
  <2>1. Has(k)
    <3> HIDE DEF Has
    <3> QED BY <1>2
  <2>1a. PICK h \in [SUBSET (1..k) -> V] : Folds(h, k)
    BY <2>1
  <2> DEFINE g == [s \in SUBSET (1..(k + 1)) |->
                     IF k + 1 \in s THEN F[h[s \ {k + 1}], seq[k + 1]] ELSE h[s]]
  <2>2. ASSUME NEW s \in SUBSET (1..(k + 1))
        PROVE  /\ g[s] \in V
               /\ g[s] = IF s = {} THEN base ELSE F[g[s \ {Max(s)}], seq[Max(s)]]
    <3>1. CASE k + 1 \in s
      <4>1. Max(s) = k + 1
        BY <3>1, MaxOfInitial
      <4>2. s \ {k + 1} \in SUBSET (1..k) /\ s \ {k + 1} \in SUBSET (1..(k + 1))
            /\ k + 1 \notin s \ {k + 1}
        OBVIOUS
      <4>3. g[s \ {k + 1}] = h[s \ {k + 1}] /\ h[s \ {k + 1}] \in V
        BY <4>2
      <4>4. g[s] = F[h[s \ {k + 1}], seq[k + 1]]
        BY <3>1
      <4> QED BY <2>0, <3>1, <4>1, <4>3, <4>4
    <3>2. CASE k + 1 \notin s
      <4>1. s \in SUBSET (1..k) /\ g[s] = h[s]
        BY <3>2
      <4>2. s \ {Max(s)} \in SUBSET (1..k) /\ g[s \ {Max(s)}] = h[s \ {Max(s)}]
        BY <3>2, <4>1
      <4>3. h[s] = IF s = {} THEN base ELSE F[h[s \ {Max(s)}], seq[Max(s)]]
        BY <2>1a, <4>1
      <4> QED BY <4>1, <4>2, <4>3
    <3> QED BY <3>1, <3>2
  <2>3. g \in [SUBSET (1..(k + 1)) -> V]
    <3>1. g = [s \in SUBSET (1..(k + 1)) |-> g[s]]
      OBVIOUS
    <3> HIDE DEF g
    <3> QED BY <2>2, <3>1
  <2>4. Folds(g, k + 1)
    <3> HIDE DEF g
    <3> QED BY <2>2
  <2> HIDE DEF Folds, g
  <2> QED BY <2>3, <2>4
<1>3. n \in Ok
  <2> HIDE DEF Ok
  <2> QED BY <1>1, <1>2, Induction
<1>4. Has(n)
  <2> HIDE DEF Has
  <2> QED BY <1>3
<1> QED BY <1>4 DEF Recurses

-----------------------------------------------------------------------------
\* A sum is the last of the running totals, a largest member the last of the
\* largest so far.
LEMMA SumRuns ==
    ASSUME NEW seq \in Seq(Nat)
    PROVE  \E g \in [0..Len(seq) -> Nat] :
              /\ g[0] = 0
              /\ \A k \in 0..(Len(seq) - 1) : g[k + 1] = g[k] + seq[k + 1]
              /\ SumOf(seq) = g[Len(seq)]
<1> DEFINE n == Len(seq)
           plus == [p \in Nat \X Nat |-> p[1] + p[2]]
           Adds(f) == f = [s \in SUBSET DOMAIN seq |->
                             IF s = {} THEN 0 ELSE f[s \ {Max(s)}] + seq[Max(s)]]
           f == CHOOSE f : Adds(f)
<1>1. n \in Nat /\ DOMAIN seq = 1..n /\ seq \in [1..n -> Nat]
  OBVIOUS
<1>2. plus \in [Nat \X Nat -> Nat]
  OBVIOUS
<1>3. PICK h \in [SUBSET (1..n) -> Nat] : Recurses(h, plus, 0, n, seq)
  <2>1. 0 \in Nat
    OBVIOUS
  <2> HIDE DEF plus, n
  <2> QED BY <1>1, <1>2, <2>1, FoldExists, Zenon
<1>4. h = [s \in SUBSET (1..n) |-> IF s = {} THEN 0 ELSE h[s \ {Max(s)}] + seq[Max(s)]]
  <2>1. ASSUME NEW s \in SUBSET (1..n), s # {}
        PROVE  h[s] = h[s \ {Max(s)}] + seq[Max(s)]
    <3>1. Max(s) \in 1..n
      BY <1>1, <2>1, MaxMember
    <3> QED BY <1>1, <1>3, <2>1, <3>1 DEF Recurses
  <2> QED BY <1>3, <2>1 DEF Recurses
<1>5. Adds(f)
  <2>1. Adds(h)
    BY <1>1, <1>4
  <2> HIDE DEF Adds
  <2> QED BY <2>1
<1>6. SumOf(seq) = f[1..n]
  BY <1>1 DEF SumOf, FoldLeft, MapThenFoldSet
<1> HIDE DEF f
<1>7. \A s \in SUBSET (1..n) : f[s] = IF s = {} THEN 0 ELSE f[s \ {Max(s)}] + seq[Max(s)]
  BY <1>1, <1>5, Zenon
<1>8. ASSUME NEW k \in 0..(n - 1)
      PROVE  f[1..(k + 1)] = f[1..k] + seq[k + 1]
  <2>1. Max(1..(k + 1)) = k + 1
    BY MaxOfInitial
  <2>2. (1..(k + 1)) \ {k + 1} = 1..k /\ 1..(k + 1) \in SUBSET (1..n) /\ 1..(k + 1) # {}
    OBVIOUS
  <2> QED BY <1>7, <2>1, <2>2
<1>9. f[1..0] = 0
  BY <1>7, 1..0 = {}
<1>10. ASSUME NEW k \in 0..n
       PROVE  f[1..k] \in Nat
  <2> DEFINE Ok == {j \in Nat : j <= n => f[1..j] \in Nat}
  <2>1. 0 \in Ok
    BY <1>9
  <2>2. ASSUME NEW j \in Nat, j \in Ok
        PROVE  j + 1 \in Ok
    <3> SUFFICES ASSUME j + 1 <= n PROVE f[1..(j + 1)] \in Nat
      BY <1>1
    <3>1. j \in 0..(n - 1) /\ seq[j + 1] \in Nat
      BY <1>1
    <3> QED BY <1>8, <2>2, <3>1
  <2>3. k \in Ok
    <3>1. k \in Nat
      BY <1>1
    <3> HIDE DEF Ok
    <3> QED BY <2>1, <2>2, <3>1, Induction
  <2> QED BY <2>3
<1> DEFINE g == [k \in 0..n |-> f[1..k]]
<1>11. g \in [0..n -> Nat]
  BY <1>10
<1>12. g[0] = 0 /\ SumOf(seq) = g[n]
  BY <1>1, <1>6, <1>9
<1>13. \A k \in 0..(n - 1) : g[k + 1] = g[k] + seq[k + 1]
  BY <1>1, <1>8
<1> HIDE DEF g, n
<1> QED BY <1>11, <1>12, <1>13 DEF n

\* The same of the largest member.
LEMMA LargestRuns ==
    ASSUME NEW seq \in Seq(Nat)
    PROVE  \E g \in [0..Len(seq) -> Nat] :
              /\ g[0] = 0
              /\ \A k \in 0..(Len(seq) - 1) : g[k + 1] = Larger(g[k], seq[k + 1])
              /\ LargestOf(seq) = g[Len(seq)]
<1> DEFINE n == Len(seq)
           larger == [p \in Nat \X Nat |-> Larger(p[1], p[2])]
           Takes(f) == f = [s \in SUBSET DOMAIN seq |->
                             IF s = {} THEN 0 ELSE Larger(f[s \ {Max(s)}], seq[Max(s)])]
           f == CHOOSE f : Takes(f)
<1>1. n \in Nat /\ DOMAIN seq = 1..n /\ seq \in [1..n -> Nat]
  OBVIOUS
<1>2. larger \in [Nat \X Nat -> Nat]
  BY DEF Larger
<1>3. PICK h \in [SUBSET (1..n) -> Nat] : Recurses(h, larger, 0, n, seq)
  <2>1. 0 \in Nat
    OBVIOUS
  <2> HIDE DEF larger, n
  <2> QED BY <1>1, <1>2, <2>1, FoldExists, Zenon
<1>4. h = [s \in SUBSET (1..n) |-> IF s = {} THEN 0 ELSE Larger(h[s \ {Max(s)}], seq[Max(s)])]
  <2>1. ASSUME NEW s \in SUBSET (1..n), s # {}
        PROVE  h[s] = Larger(h[s \ {Max(s)}], seq[Max(s)])
    <3>1. Max(s) \in 1..n
      BY <1>1, <2>1, MaxMember
    <3> QED BY <1>1, <1>3, <2>1, <3>1 DEF Recurses
  <2> QED BY <1>3, <2>1 DEF Recurses
<1>5. Takes(f)
  <2>1. Takes(h)
    BY <1>1, <1>4
  <2> HIDE DEF Takes
  <2> QED BY <2>1
<1>6. LargestOf(seq) = f[1..n]
  BY <1>1 DEF LargestOf, FoldLeft, MapThenFoldSet
<1> HIDE DEF f
<1>7. \A s \in SUBSET (1..n) : f[s] = IF s = {} THEN 0 ELSE Larger(f[s \ {Max(s)}], seq[Max(s)])
  BY <1>1, <1>5, Zenon
<1>8. ASSUME NEW k \in 0..(n - 1)
      PROVE  f[1..(k + 1)] = Larger(f[1..k], seq[k + 1])
  <2>1. Max(1..(k + 1)) = k + 1
    BY MaxOfInitial
  <2>2. (1..(k + 1)) \ {k + 1} = 1..k /\ 1..(k + 1) \in SUBSET (1..n) /\ 1..(k + 1) # {}
    OBVIOUS
  <2> QED BY <1>7, <2>1, <2>2
<1>9. f[1..0] = 0
  BY <1>7, 1..0 = {}
<1>10. ASSUME NEW k \in 0..n
       PROVE  f[1..k] \in Nat
  <2> DEFINE Ok == {j \in Nat : j <= n => f[1..j] \in Nat}
  <2>1. 0 \in Ok
    BY <1>9
  <2>2. ASSUME NEW j \in Nat, j \in Ok
        PROVE  j + 1 \in Ok
    <3> SUFFICES ASSUME j + 1 <= n PROVE f[1..(j + 1)] \in Nat
      BY <1>1
    <3>1. j \in 0..(n - 1) /\ seq[j + 1] \in Nat
      BY <1>1
    <3> QED BY <1>8, <2>2, <3>1 DEF Larger
  <2>3. k \in Ok
    <3>1. k \in Nat
      BY <1>1
    <3> HIDE DEF Ok
    <3> QED BY <2>1, <2>2, <3>1, Induction
  <2> QED BY <2>3
<1> DEFINE g == [k \in 0..n |-> f[1..k]]
<1>11. g \in [0..n -> Nat]
  BY <1>10
<1>12. g[0] = 0 /\ LargestOf(seq) = g[n]
  BY <1>1, <1>6, <1>9
<1>13. \A k \in 0..(n - 1) : g[k + 1] = Larger(g[k], seq[k + 1])
  BY <1>1, <1>8
<1> HIDE DEF g, n
<1> QED BY <1>11, <1>12, <1>13 DEF n

-----------------------------------------------------------------------------
\* A sum of naturals is a natural,
LEMMA SumNat ==
    ASSUME NEW seq \in Seq(Nat)
    PROVE  SumOf(seq) \in Nat
BY SumRuns

\* 0 if there are none,
LEMMA SumEmpty == SumOf(<<>>) = 0
<1>1. <<>> \in Seq(Nat) /\ Len(<<>>) = 0
  OBVIOUS
<1> QED BY <1>1, SumRuns

\* and grows by the member appended.
LEMMA SumAppend ==
    ASSUME NEW seq \in Seq(Nat), NEW x \in Nat
    PROVE  SumOf(Append(seq, x)) = SumOf(seq) + x
<1> DEFINE n == Len(seq)
           more == Append(seq, x)
<1>1. /\ n \in Nat /\ more \in Seq(Nat) /\ Len(more) = n + 1
      /\ \A k \in 1..n : more[k] = seq[k]
      /\ more[n + 1] = x
  OBVIOUS
<1>2. PICK g \in [0..n -> Nat] :
              /\ g[0] = 0
              /\ \A k \in 0..(n - 1) : g[k + 1] = g[k] + seq[k + 1]
              /\ SumOf(seq) = g[n]
  BY SumRuns
<1> HIDE DEF more, n
<1>3. PICK h \in [0..(n + 1) -> Nat] :
              /\ h[0] = 0
              /\ \A k \in 0..n : h[k + 1] = h[k] + more[k + 1]
              /\ SumOf(more) = h[n + 1]
  <2>1. (n + 1) - 1 = n
    BY <1>1
  <2> QED BY <1>1, <2>1, SumRuns
<1> DEFINE Ok == {k \in Nat : k <= n => h[k] = g[k]}
<1>4. 0 \in Ok
  BY <1>2, <1>3
<1>5. ASSUME NEW k \in Nat, k \in Ok
      PROVE  k + 1 \in Ok
  <2> SUFFICES ASSUME k + 1 <= n PROVE h[k + 1] = g[k + 1]
    BY <1>1
  <2>1. k \in 0..(n - 1) /\ k \in 0..n /\ k + 1 \in 1..n
    BY <1>1
  <2> QED BY <1>1, <1>2, <1>3, <1>5, <2>1
<1>6. n \in Ok
  <2> HIDE DEF Ok
  <2> QED BY <1>1, <1>4, <1>5, Induction
<1>7. h[n] = g[n]
  BY <1>1, <1>6
<1> QED BY <1>1, <1>2, <1>3, <1>7 DEF more

-----------------------------------------------------------------------------
\* Types

Measurement == [dur : Nat, type : RegionType]

CollectorSet ==
    [measurements : Seq(Measurement), total : Nat, duration : [RegionType -> Nat],
     count : [RegionType -> Nat], memSamples : Seq(Nat), objSamples : Seq(Nat),
     peakMem : Nat, peakObj : Nat]

Row ==
    [total : Nat, calls : Nat, avg : Nat, max : Nat, peakMem : Nat, peakObj : Nat,
     avgMem : Nat, avgObj : Nat]

\* The types of what TypeOK leaves out, and what main knows at its places: it
\* has found a path before it opens it, and is at a type to measure while
\* run_benchmark runs.
Typed ==
    /\ TypeOK
    /\ collector \in CollectorSet
    /\ all \in Seq(Measurement)
    /\ heard \in Seq(Event)
    /\ results \in Seq(Row)
    /\ at = "open" => arg = 1 /\ argv # <<>>
    /\ pc # "idle" => at \in {"types", "aborted"} /\ typeAt \in Measured
                      /\ numRuns = runs /\ warmupRuns = warmups

\* Adding up and averaging naturals gives naturals.
LEMMA DurationsTyped ==
    ASSUME NEW ms \in Seq(Measurement)
    PROVE  Durations(ms) \in Seq(Nat) /\ Len(Durations(ms)) = Len(ms)
<1>1. Len(ms) \in Nat /\ \A i \in 1..Len(ms) : ms[i] \in Measurement
  OBVIOUS
<1>2. \A i \in 1..Len(ms) : ms[i].dur \in Nat
  BY <1>1 DEF Measurement
<1> QED BY <1>1, <1>2 DEF Durations

\* The quotient of naturals is a natural.
LEMMA QuotientNat ==
    ASSUME NEW a \in Nat, NEW b \in Nat \ {0}
    PROVE  a \div b \in Nat
BY Z3

\* So is a mean,
LEMMA MeanNat ==
    ASSUME NEW seq \in Seq(Nat)
    PROVE  MeanOf(seq) \in Nat
<1>1. CASE seq = <<>>
  BY <1>1 DEF MeanOf
<1>2. CASE seq # <<>>
  <2>1. Len(seq) \in Nat \ {0}
    BY <1>2
  <2> QED BY <1>2, <2>1, SumNat, QuotientNat DEF MeanOf
<1> QED BY <1>1, <1>2

\* and a largest member.
LEMMA LargestNat ==
    ASSUME NEW seq \in Seq(Nat)
    PROVE  LargestOf(seq) \in Nat
BY LargestRuns

\* A run ends in a row.
LEMMA RunResultTyped ==
    ASSUME NEW c \in CollectorSet
    PROVE  RunResult(c) \in Row
<1>1. /\ c.total \in Nat /\ c.measurements \in Seq(Measurement)
      /\ c.peakMem \in Nat /\ c.peakObj \in Nat
      /\ c.memSamples \in Seq(Nat) /\ c.objSamples \in Seq(Nat)
  BY DEF CollectorSet
<1>2. GcCount(c) \in Nat
  BY <1>1 DEF GcCount
<1>3. (IF GcCount(c) > 0 THEN c.total \div GcCount(c) ELSE 0) \in Nat
  BY <1>1, <1>2, QuotientNat
<1>4. LargestOf(Durations(c.measurements)) \in Nat
  BY <1>1, DurationsTyped, LargestNat
<1>5. AverageMemory(c) \in Nat /\ AverageObjects(c) \in Nat
  BY <1>1, MeanNat DEF AverageMemory, AverageObjects
<1> QED BY <1>1, <1>2, <1>3, <1>4, <1>5 DEF RunResult, Row

\* A new collector is a collector.
LEMMA EmptyTyped == EmptyCollector \in CollectorSet
BY DEF EmptyCollector, CollectorSet

\* What an event has.
LEMMA EventTyped ==
    ASSUME NEW e \in Event
    PROVE  e.dur \in Nat /\ e.type \in RegionType /\ e.mem \in Nat /\ e.obj \in Nat
BY EventAssumption

\* A collector that records an event is one, with one measurement more.
LEMMA RecordTyped ==
    ASSUME NEW c \in CollectorSet, NEW e \in Event
    PROVE  /\ Record(c, e) \in CollectorSet
           /\ GcCount(Record(c, e)) = GcCount(c) + 1
<1>1. [dur |-> e.dur, type |-> e.type] \in Measurement
  BY EventTyped DEF Measurement
<1>2. /\ Append(c.measurements, [dur |-> e.dur, type |-> e.type]) \in Seq(Measurement)
      /\ Len(Append(c.measurements, [dur |-> e.dur, type |-> e.type])) = Len(c.measurements) + 1
      /\ Append(c.memSamples, e.mem) \in Seq(Nat)
      /\ Append(c.objSamples, e.obj) \in Seq(Nat)
  BY <1>1, EventTyped DEF CollectorSet
<1>3. /\ [c.duration EXCEPT ![e.type] = @ + e.dur] \in [RegionType -> Nat]
      /\ [c.count EXCEPT ![e.type] = @ + 1] \in [RegionType -> Nat]
      /\ c.total + e.dur \in Nat
      /\ Larger(c.peakMem, e.mem) \in Nat /\ Larger(c.peakObj, e.obj) \in Nat
  <2>1. /\ c.duration \in [RegionType -> Nat] /\ c.count \in [RegionType -> Nat]
        /\ c.total \in Nat /\ c.peakMem \in Nat /\ c.peakObj \in Nat
    BY DEF CollectorSet
  <2> QED BY <2>1, EventTyped DEF Larger
<1> QED BY <1>2, <1>3 DEF CollectorSet, Record, GcCount

\* What a step of the driver leaves to the harness.
Quiet == UNCHANGED <<pc, callParams, iter, callVars, results, all, heard>>

\* Such a step keeps the types of the harness.
LEMMA QuietTyped ==
    ASSUME Typed, Quiet
    PROVE  /\ HarnessTypeOK'
           /\ (collector \in CollectorSet)' /\ (all \in Seq(Measurement))'
           /\ (heard \in Seq(Event))' /\ (results \in Seq(Row))'
BY DEF Typed, TypeOK, HarnessTypeOK, InTest, Quiet, callParams, callVars

\* A number taken from a word fits a size_t.
LEMMA StoulTyped ==
    ASSUME NEW word, Converts(word)
    PROVE  Stoul(word) \in 0..(2^Width - 1)
<1>1. 2^Width \in Nat \ {0}
  BY PowerPositive, BenchmarkerAssumption
<1>2. ValueOf[word] \in Int
  BY BenchmarkerAssumption DEF Converts
<1>3. \A v \in Int, m \in Nat \ {0} : (v % m) \in 0..(m - 1)
  BY Z3
<1> QED BY <1>1, <1>2, <1>3 DEF Stoul

\* Entering a test and leaving it keep the types,
LEMMA EnterTyped ==
    ASSUME Typed, NEW from \in {"warmup", "measure"}, NEW to \in Testing,
           from = "warmup" <=> to = "warmupTest",
           iter < IF to = "warmupTest" THEN warmupRuns ELSE numRuns,
           EnterTest(from, to), UNCHANGED driverVars
    PROVE  Typed'
<1>1. collector' \in CollectorSet /\ GcCount(collector') = 0
  BY EmptyTyped DEF EnterTest, GcCount, EmptyCollector
<1>2. HarnessTypeOK'
  BY <1>1, GCBenchmarkAssumption
     DEF Typed, TypeOK, HarnessTypeOK, InTest, EnterTest, callParams, Testing
<1> QED BY <1>1, <1>2 DEF Typed, TypeOK, EnterTest, callParams, resultVars, driverVars, optionVars

\* whatever is kept of what it measured,
LEMMA LeaveTyped ==
    ASSUME Typed, NEW from \in Testing, NEW to \in {"warmup", "measure"},
           to = "warmup" <=> from = "warmupTest",
           LeaveTest(from, to), UNCHANGED driverVars,
           all' \in Seq(Measurement), results' \in Seq(Row)
    PROVE  Typed'
<1>1. HarnessTypeOK'
  BY DEF Typed, TypeOK, HarnessTypeOK, InTest, LeaveTest, callParams, Testing
<1>2. /\ UNCHANGED <<scope, collector, heard, numRuns, warmupRuns>> /\ pc' = to
      /\ pc # "idle"
  BY DEF LeaveTest, callParams, Testing
<1> QED BY <1>1, <1>2 DEF Typed, TypeOK, driverVars, optionVars

\* and so does every step of run_benchmark.
LEMMA RunBenchmarkTyped ==
    ASSUME Typed, Measure
    PROVE  Typed'
<1> USE DEF Measure
<1>1. CASE BeginWarmup
  BY <1>1, EnterTyped DEF BeginWarmup, Testing
<1>2. CASE EndWarmup
  BY <1>2, LeaveTyped DEF EndWarmup, Testing, Typed
<1>3. CASE EndWarmups
  <2>1. HarnessTypeOK'
    BY <1>3 DEF Typed, TypeOK, HarnessTypeOK, InTest, EndWarmups, callParams, callVars
  <2> QED BY <1>3, <2>1 DEF Typed, TypeOK, EndWarmups, callParams, callVars, resultVars,
                            driverVars, optionVars
<1>4. CASE BeginRun
  BY <1>4, EnterTyped DEF BeginRun, Testing
<1>5. CASE EndRun
  <2>1. RunResult(collector) \in Row /\ collector.measurements \in Seq(Measurement)
    BY RunResultTyped DEF Typed, CollectorSet
  <2>2. all' \in Seq(Measurement) /\ results' \in Seq(Row)
    BY <1>5, <2>1 DEF EndRun, Typed
  <2> QED BY <1>5, <2>2, LeaveTyped DEF EndRun, Testing
<1> QED BY <1>1, <1>2, <1>3, <1>4, <1>5 DEF RunBenchmark

\* Every action of main keeps the types, one step of the proof for each.
LEMMA TypedInductive ==
    ASSUME Typed, Inv, [Next]_vars
    PROVE  Typed'
<1> DEFINE same == UNCHANGED <<harnessVars, argv, runs, warmups, typeAt>>
<1>0. ASSUME UNCHANGED harnessVars PROVE Quiet
  BY <1>0 DEF Quiet, harnessVars, callVars, resultVars, callParams
<1>1. ASSUME UNCHANGED harnessVars PROVE HarnessTypeOK'
  BY <1>0, <1>1, QuietTyped
<1> USE DEF Typed, TypeOK, harnessVars, callVars, resultVars, callParams, optionVars
<1>2. CASE ReadOption
  <2>1. arg + 2 \in 1..(Len(argv) + 1)
    BY <1>2 DEF ReadOption, OptionAt
  <2>2. runs' \in 0..(2^Width - 1) /\ warmups' \in 0..(2^Width - 1)
    BY <1>2, StoulTyped DEF ReadOption
  <2> QED BY <1>1, <1>2, <2>1, <2>2 DEF ReadOption, Inv, LibraryInv
<1>3. CASE StoulThrows
  BY <1>1, <1>3 DEF StoulThrows
<1>4. CASE Usage
  BY <1>1, <1>4 DEF Usage, Exit, Inv, LibraryInv
<1>5. CASE FoundPath
  <2>1. argv' \in Seq(Word) /\ argv' # <<>> /\ arg' = 1 /\ Len(argv') \in Nat
    <3>1. arg \in 1..Len(argv) /\ Len(argv) \in Nat /\ argv' = SubSeq(argv, arg, Len(argv)) /\ arg' = 1
      BY <1>5 DEF FoundPath
    <3>2. \A i \in arg..Len(argv) : argv[i] \in Word
      BY <3>1
    <3>3. /\ SubSeq(argv, arg, Len(argv)) \in Seq(Word)
          /\ Len(SubSeq(argv, arg, Len(argv))) = Len(argv) - arg + 1
      BY <3>1, <3>2, SubSeqProperties
    <3>4. Len(argv') \in Nat \ {0}
      BY <3>1, <3>3
    <3>5. argv' # <<>>
      BY <3>4
    <3> QED BY <3>1, <3>3, <3>4, <3>5
  <2>2. 1 \in 1..(Len(argv') + 1)
    BY <2>1
  <2> QED BY <1>1, <1>5, <2>1, <2>2 DEF FoundPath, Inv, LibraryInv
<1>6. CASE OpenFails
  BY <1>1, <1>6 DEF OpenFails, Exit, Inv, LibraryInv
<1>7. CASE OpenLibrary
  BY <1>1, <1>7 DEF OpenLibrary, Inv, LibraryInv
<1>8. CASE LookupFails
  <2>1. /\ pc = "idle" /\ at' = "exited" /\ status' = 1 /\ loaded' = FALSE
        /\ UNCHANGED <<harnessVars, optionVars, library, typeAt>>
    BY <1>8 DEF LookupFails, Exit, Inv, LibraryInv
  <2>2. HarnessTypeOK'
    BY <1>1, <2>1
  <2>3. loaded' \in BOOLEAN
    BY <2>1
  <2>4. status' \in -1..1
    BY <2>1
  <2> QED BY <2>1, <2>2, <2>3, <2>4
<1>9. CASE LookupEntry
  BY <1>1, <1>9 DEF LookupEntry, Inv, LibraryInv
<1>10. CASE SkipArena
  BY <1>1, <1>10 DEF SkipArena, Inv, LibraryInv
<1>11. CASE BeginType
  <2>1. HarnessTypeOK'
    BY <1>11 DEF BeginType, CallRunBenchmark, driverVars, HarnessTypeOK, InTest
  <2> QED BY <1>11, <2>1 DEF BeginType, CallRunBenchmark, driverVars, Measured
<1>12. CASE EndType
  <2>1. HarnessTypeOK'
    BY <1>12 DEF EndType, EndRuns, HarnessTypeOK, InTest
  <2> QED BY <1>12, <2>1 DEF EndType, EndRuns, Measured
<1>13. CASE EndTypes
  BY <1>1, <1>13 DEF EndTypes
<1>14. CASE Measure
  BY <1>14, RunBenchmarkTyped
<1>15. CASE SummaryCsv
  <2>1. Quiet
    BY <1>15 DEF SummaryCsv, WriteCsv, Quiet
  <2> QED BY <1>15, <2>1, QuietTyped DEF SummaryCsv, WriteCsv, Quiet
<1>16. CASE CsvThrows
  BY <1>1, <1>16 DEF CsvThrows
<1>17. CASE SummaryTablePrinted
  <2>1. Quiet
    BY <1>17 DEF SummaryTablePrinted, PrintTable, Quiet
  <2> QED BY <1>17, <2>1, QuietTyped DEF SummaryTablePrinted, PrintTable, Quiet
<1>18. CASE CloseLibrary
  <2>1. /\ pc = "idle" /\ at' = "exited" /\ status' = 0 /\ loaded' = FALSE
        /\ UNCHANGED <<harnessVars, optionVars, library, typeAt>>
    BY <1>18 DEF CloseLibrary, Exit, Inv, LibraryInv
  <2>2. HarnessTypeOK'
    BY <1>1, <2>1
  <2>3. loaded' \in BOOLEAN
    BY <2>1
  <2>4. status' \in -1..1
    BY <2>1
  <2> QED BY <2>1, <2>2, <2>3, <2>4
<1>19. CASE TestCollects
  <2>1. PICK e \in Event : Collect(e)
    BY <1>19 DEF TestCollects
  <2>2. collector' \in CollectorSet /\ GcCount(collector') \in 0..MaxEvents
    <3>1. GcCount(collector) \in Nat /\ GcCount(collector) < MaxEvents /\ MaxEvents \in Nat
      BY <2>1, GCBenchmarkAssumption DEF Collect, HarnessTypeOK
    <3>2. collector' = Record(collector, e) \/ collector' = collector
      BY <2>1 DEF Collect
    <3> QED BY <3>1, <3>2, RecordTyped
  <2>3. HarnessTypeOK'
    BY <2>1, <2>2 DEF Collect, HarnessTypeOK, InTest
  <2> QED BY <1>19, <2>1, <2>2, <2>3 DEF TestCollects, Collect, driverVars
<1>20. CASE TestThrows
  BY <1>1, <1>20 DEF TestThrows
<1>21. CASE UNCHANGED vars
  BY <1>1, <1>21 DEF vars, driverVars
<1> QED
  BY <1>2, <1>3, <1>4, <1>5, <1>6, <1>7, <1>8, <1>9, <1>10, <1>11, <1>12, <1>13,
     <1>14, <1>15, <1>16, <1>17, <1>18, <1>19, <1>20, <1>21 DEF Next, Step

-----------------------------------------------------------------------------
\* How far main has come

\* The elements measured before the k-th.
Before(k) == {j \in Measured : j < k}

\* Until the library is found nothing has happened; in the loop over the types
\* there are as many results as runs complete; after it, all that were asked
\* for, and a table of them before main closes the library.
Progress ==
    /\ at \in {"args", "open", "lookup"} =>
          /\ pc = "idle" /\ results = <<>> /\ table = NoTable /\ scope = 0
          /\ typeAt = 1
    /\ at \in {"open", "lookup", "types", "csv", "table", "close"} => runs # 0
    /\ at = "types" =>
          Len(results) = runs * Cardinality(Before(typeAt))
                         + IF pc \in {"measure", "measureTest"} THEN iter ELSE 0
    /\ at \in {"csv", "table", "close"} => Len(results) = runs * Cardinality(Measured)
    /\ at \in {"types", "csv", "table"} => table = NoTable
    /\ at = "close" => table # NoTable /\ table.rows = results
    /\ at # "exited" => status = -1
    /\ ExitTells

\* There is a finite number of types to measure, at least one.
LEMMA MeasuredFinite ==
    /\ IsFiniteSet(Measured)
    /\ Cardinality(Measured) \in Nat \ {0}
<1>1. Len(AllRegionTypes) \in Nat
  BY BenchmarkerAssumption
<1>2. IsFiniteSet(1..Len(AllRegionTypes))
  <2>1. \A n \in Nat : IsFiniteSet(1..n)
    BY FS_Interval
  <2> QED BY <1>1, <2>1
<1>3. Measured \subseteq 1..Len(AllRegionTypes) /\ Measured # {}
  BY BenchmarkerAssumption DEF Measured
<1>4. IsFiniteSet(Measured)
  BY <1>2, <1>3, FS_Subset
<1> QED BY <1>3, <1>4, FS_CardinalityType, FS_EmptySet

\* How many elements were measured before the k-th grows by one at each of them.
LEMMA BeforeSteps ==
    /\ Cardinality(Before(1)) = 0
    /\ Before(Len(AllRegionTypes) + 1) = Measured
    /\ \A k \in Nat :
          /\ Cardinality(Before(k)) \in Nat
          /\ k \notin Measured => Before(k + 1) = Before(k)
          /\ k \in Measured => Cardinality(Before(k + 1)) = Cardinality(Before(k)) + 1
<1>0. /\ Len(AllRegionTypes) \in Nat
      /\ \A j \in Measured : j \in Nat /\ 1 <= j /\ j < Len(AllRegionTypes) + 1
  BY BenchmarkerAssumption DEF Measured
<1>1. Cardinality(Before(1)) = 0
  <2>1. Before(1) = {}
    BY <1>0 DEF Before
  <2> QED BY <2>1, FS_EmptySet
<1>2. Before(Len(AllRegionTypes) + 1) = Measured
  BY <1>0 DEF Before
<1>3. ASSUME NEW k \in Nat
      PROVE  /\ Cardinality(Before(k)) \in Nat
             /\ k \notin Measured => Before(k + 1) = Before(k)
             /\ k \in Measured => Cardinality(Before(k + 1)) = Cardinality(Before(k)) + 1
  <2>1. IsFiniteSet(Before(k))
    <3>1. Before(k) \subseteq Measured
      BY DEF Before
    <3> QED BY <3>1, MeasuredFinite, FS_Subset
  <2>2. k \notin Measured => Before(k + 1) = Before(k)
    BY <1>0 DEF Before
  <2>3. ASSUME k \in Measured
        PROVE  Cardinality(Before(k + 1)) = Cardinality(Before(k)) + 1
    <3>0. \A j \in Measured : j < k + 1 <=> (j < k \/ j = k)
      BY <1>0
    <3>1. Before(k + 1) = Before(k) \cup {k}
      BY <2>3, <3>0, Zenon DEF Before
    <3>2. k \notin Before(k)
      BY DEF Before
    <3> QED BY <2>1, <3>1, <3>2, FS_AddElement
  <2> QED BY <2>1, <2>2, <2>3, FS_CardinalityType
<1> QED BY <1>1, <1>2, <1>3

\* Products of naturals.
LEMMA ProductStep ==
    ASSUME NEW a \in Nat, NEW b \in Nat
    PROVE  /\ a * (b + 1) = a * b + a
           /\ a * 0 = 0
           /\ a * b \in Nat
           /\ a # 0 /\ b # 0 => a * b # 0
BY Z3

\* Every action keeps count of the results, one step of the proof for each.
LEMMA ProgressInductive ==
    ASSUME Typed, Inv, Progress, [Next]_vars
    PROVE  Progress'
<1> USE DEF harnessVars, callVars, resultVars, callParams, optionVars
<1>0. /\ runs \in Nat /\ typeAt \in 1..(Len(AllRegionTypes) + 1)
      /\ Len(AllRegionTypes) \in Nat /\ typeAt \in Nat
      /\ Cardinality(Before(typeAt)) \in Nat
  <2>1. /\ runs \in 0..(2^Width - 1) /\ typeAt \in 1..(Len(AllRegionTypes) + 1)
    BY DEF Typed, TypeOK
  <2>2. Len(AllRegionTypes) \in Nat
    BY BenchmarkerAssumption
  <2> QED BY <2>1, <2>2, BeforeSteps
<1>0a. iter \in Nat /\ results \in Seq(Row) /\ Len(results) \in Nat
  <2>1. /\ numRuns \in Nat /\ warmupRuns \in Nat
        /\ iter \in 0..(IF pc \in {"warmup", "warmupTest"} THEN warmupRuns ELSE numRuns)
        /\ results \in Seq(Row)
    BY DEF Typed, TypeOK, HarnessTypeOK
  <2> QED BY <2>1
<1>2. CASE ReadOption
  BY <1>2 DEF ReadOption, Progress, ExitTells
<1>3. CASE StoulThrows
  BY <1>3 DEF StoulThrows, Progress, ExitTells
<1>4. CASE Usage
  BY <1>4 DEF Usage, Exit, Progress, ExitTells
<1>5. CASE FoundPath
  BY <1>5 DEF FoundPath, Progress, ExitTells
<1>6. CASE OpenFails
  BY <1>6 DEF OpenFails, Exit, Progress, ExitTells
<1>7. CASE OpenLibrary
  BY <1>7 DEF OpenLibrary, Progress, ExitTells
<1>8. CASE LookupFails
  BY <1>8 DEF LookupFails, Exit, Progress, ExitTells
<1>9. CASE LookupEntry
  <2>1. Len(results) = runs * Cardinality(Before(typeAt))
    BY <1>0, <1>9, BeforeSteps, ProductStep DEF LookupEntry, Progress
  <2> QED BY <1>9, <2>1 DEF LookupEntry, Progress, ExitTells
<1>10. CASE SkipArena
  <2>1. Before(typeAt + 1) = Before(typeAt)
    BY <1>0, <1>10, BeforeSteps DEF SkipArena, Measured
  <2> QED BY <1>10, <2>1 DEF SkipArena, Progress, ExitTells
<1>11. CASE BeginType
  BY <1>0, <1>11 DEF BeginType, CallRunBenchmark, driverVars, Progress, ExitTells
<1>12. CASE EndType
  <2>1. typeAt \in Measured /\ iter = runs /\ pc = "measure" /\ at = "types"
    BY <1>12 DEF EndType, EndRuns, Typed, TypeOK, HarnessTypeOK
  <2>2. runs * Cardinality(Before(typeAt + 1)) = runs * Cardinality(Before(typeAt)) + runs
    BY <1>0, <2>1, BeforeSteps, ProductStep
  <2>3. Len(results) = runs * Cardinality(Before(typeAt + 1))
    BY <2>1, <2>2 DEF Progress
  <2> QED BY <1>12, <2>1, <2>3, <1>0, <1>0a DEF EndType, EndRuns, Progress, ExitTells
<1>13. CASE EndTypes
  <2>1. typeAt = Len(AllRegionTypes) + 1
    BY <1>0, <1>13 DEF EndTypes
  <2>2. Len(results) = runs * Cardinality(Measured)
    BY <1>0, <1>13, <2>1, BeforeSteps, ProductStep DEF EndTypes, Progress
  <2> QED BY <1>13, <2>2 DEF EndTypes, Progress, ExitTells
<1>14. CASE Measure
  <2>0. /\ UNCHANGED driverVars /\ at = "types"
        /\ table = NoTable /\ table' = table /\ typeAt' = typeAt /\ runs' = runs
    BY <1>14 DEF Measure, driverVars, RunBenchmark, BeginWarmup, EndWarmup, EndWarmups,
                 BeginRun, EndRun, EnterTest, LeaveTest, Progress
  <2>1. Len(results') = runs * Cardinality(Before(typeAt))
                        + IF pc' \in {"measure", "measureTest"} THEN iter' ELSE 0
    <3>1. CASE BeginWarmup \/ EndWarmup \/ EndWarmups
      BY <1>0, <2>0, <3>1 DEF BeginWarmup, EndWarmup, EndWarmups, EnterTest, LeaveTest, Progress
    <3>2. CASE BeginRun
      BY <1>0, <2>0, <3>2 DEF BeginRun, EnterTest, Progress
    <3>3. CASE EndRun
      <4>1. Len(results') = Len(results) + 1 /\ iter' = iter + 1 /\ pc' = "measure"
            /\ pc = "measureTest"
        BY <1>0a, <3>3 DEF EndRun, LeaveTest
      <4>2. runs * Cardinality(Before(typeAt)) \in Nat
        BY <1>0, ProductStep
      <4>3. Len(results) = runs * Cardinality(Before(typeAt)) + iter
        BY <2>0, <4>1 DEF Progress
      <4> QED BY <1>0a, <4>1, <4>2, <4>3
    <3> QED BY <1>14, <3>1, <3>2, <3>3 DEF Measure, RunBenchmark
  <2> QED BY <2>0, <2>1 DEF driverVars, Progress, ExitTells
<1>15. CASE SummaryCsv
  BY <1>15 DEF SummaryCsv, WriteCsv, Progress, ExitTells
<1>16. CASE CsvThrows
  BY <1>16 DEF CsvThrows, Progress, ExitTells
<1>17. CASE SummaryTablePrinted
  <2>1. Len(results) = runs * Cardinality(Measured) /\ runs # 0
    BY <1>17 DEF SummaryTablePrinted, Progress
  <2>2. results # <<>>
    BY <1>0, <1>0a, <2>1, MeasuredFinite, ProductStep
  <2>3. table' = SummaryTable /\ table'.rows = results /\ table' # NoTable
    <3>1. SummaryTable.rows = results /\ NoTable.rows = <<>>
      BY DEF SummaryTable, NoTable
    <3> QED BY <1>17, <2>2, <3>1 DEF SummaryTablePrinted, PrintTable
  <2> QED BY <1>17, <2>1, <2>3 DEF SummaryTablePrinted, PrintTable, Progress, ExitTells
<1>18. CASE CloseLibrary
  BY <1>18 DEF CloseLibrary, Exit, Progress, ExitTells
<1>19. CASE TestCollects
  BY <1>19 DEF TestCollects, Collect, driverVars, Progress, ExitTells
<1>20. CASE TestThrows
  BY <1>20 DEF TestThrows, Progress, ExitTells
<1>21. CASE UNCHANGED vars
  BY <1>21 DEF vars, driverVars, Progress, ExitTells
<1> QED
  BY <1>2, <1>3, <1>4, <1>5, <1>6, <1>7, <1>8, <1>9, <1>10, <1>11, <1>12, <1>13,
     <1>14, <1>15, <1>16, <1>17, <1>18, <1>19, <1>20, <1>21 DEF Next, Step

-----------------------------------------------------------------------------
\* What a collector tells

\* Append as a function of the index.
LEMMA AppendDef ==
    ASSUME NEW S, NEW seq \in Seq(S), NEW x \in S
    PROVE  Append(seq, x)
           = [i \in 1..(Len(seq) + 1) |-> IF i = Len(seq) + 1 THEN x ELSE seq[i]]
<1> DEFINE more == Append(seq, x)
<1>1. /\ Len(seq) \in Nat /\ more \in Seq(S) /\ Len(more) = Len(seq) + 1
      /\ \A i \in 1..Len(seq) : more[i] = seq[i]
      /\ more[Len(seq) + 1] = x
  OBVIOUS
<1> HIDE DEF more
<1>2. more = [i \in 1..(Len(seq) + 1) |-> more[i]]
  BY <1>1
<1>3. \A i \in 1..(Len(seq) + 1) : more[i] = IF i = Len(seq) + 1 THEN x ELSE seq[i]
  BY <1>1
<1> QED BY <1>2, <1>3 DEF more

\* The durations of one event more,
LEMMA DurationsAppend ==
    ASSUME NEW S, NEW es \in Seq(S), NEW e \in S
    PROVE  Durations(Append(es, e)) = Append(Durations(es), e.dur)
<1>1. Len(es) \in Nat /\ Len(Append(es, e)) = Len(es) + 1
      /\ Append(es, e)[Len(es) + 1] = e
      /\ \A i \in 1..Len(es) : Append(es, e)[i] = es[i]
  OBVIOUS
<1>2. Durations(es) \in Seq({es[i].dur : i \in 1..Len(es)}) /\ Len(Durations(es)) = Len(es)
  BY <1>1 DEF Durations
<1>3. \A i \in 1..(Len(es) + 1) :
         Append(Durations(es), e.dur)[i] = Append(es, e)[i].dur
  BY <1>1, <1>2 DEF Durations
<1>4. Append(Durations(es), e.dur)
      = [i \in 1..(Len(es) + 1) |-> Append(Durations(es), e.dur)[i]]
  BY <1>1, <1>2
<1>5. Durations(Append(es, e)) = [i \in 1..(Len(es) + 1) |-> Append(es, e)[i].dur]
  BY <1>1 DEF Durations
<1> QED BY <1>3, <1>4, <1>5

\* those of one type,
LEMMA DurationsOfTypeAppend ==
    ASSUME NEW es \in Seq(Event), NEW e \in Event, NEW t
    PROVE  /\ DurationsOfType(es, t) \in Seq(Nat)
           /\ DurationsOfType(Append(es, e), t)
              = Append(DurationsOfType(es, t), IF e.type = t THEN e.dur ELSE 0)
<1>1. Len(es) \in Nat /\ Len(Append(es, e)) = Len(es) + 1
      /\ Append(es, e)[Len(es) + 1] = e
      /\ \A i \in 1..Len(es) : Append(es, e)[i] = es[i] /\ es[i] \in Event
  OBVIOUS
<1> DEFINE d(x) == IF x.type = t THEN x.dur ELSE 0
           ds == DurationsOfType(es, t)
<1>2. \A x \in Event : d(x) \in Nat
  BY EventTyped
<1>3. ds = [i \in 1..Len(es) |-> d(es[i])]
  BY DEF DurationsOfType
<1>4. DurationsOfType(Append(es, e), t) = [i \in 1..(Len(es) + 1) |-> d(Append(es, e)[i])]
  BY <1>1 DEF DurationsOfType
<1> HIDE DEF d, ds
<1>5. ds \in Seq(Nat) /\ Len(ds) = Len(es)
  BY <1>1, <1>2, <1>3
<1>6. d(e) \in Nat
  BY <1>2
<1>7. Append(ds, d(e)) = [i \in 1..(Len(es) + 1) |-> IF i = Len(es) + 1 THEN d(e) ELSE ds[i]]
  <2>1. \A q \in Seq(Nat), x \in Nat :
           Append(q, x) = [i \in 1..(Len(q) + 1) |-> IF i = Len(q) + 1 THEN x ELSE q[i]]
    BY AppendDef
  <2> QED BY <1>5, <1>6, <2>1
<1>8. DurationsOfType(Append(es, e), t) = Append(ds, d(e))
  <2>1. \A i \in 1..(Len(es) + 1) :
           d(Append(es, e)[i]) = IF i = Len(es) + 1 THEN d(e) ELSE ds[i]
    BY <1>1, <1>3
  <2> QED BY <1>4, <1>7, <2>1
<1> QED BY <1>5, <1>8 DEF ds, d

\* and the number of events of one type.
LEMMA OfTypeAppend ==
    ASSUME NEW S, NEW es \in Seq(S), NEW e \in S, NEW t
    PROVE  /\ IsFiniteSet(OfType(es, t)) /\ Cardinality(OfType(es, t)) \in Nat
           /\ Cardinality(OfType(Append(es, e), t))
              = Cardinality(OfType(es, t)) + IF e.type = t THEN 1 ELSE 0
<1>1. Len(es) \in Nat /\ Len(Append(es, e)) = Len(es) + 1
      /\ Append(es, e)[Len(es) + 1] = e
      /\ \A i \in 1..Len(es) : Append(es, e)[i] = es[i]
  OBVIOUS
<1>2. IsFiniteSet(OfType(es, t))
  <2>1. \A n \in Nat : IsFiniteSet(1..n)
    BY FS_Interval
  <2>2. OfType(es, t) \subseteq 1..Len(es)
    BY DEF OfType
  <2> QED BY <1>1, <2>1, <2>2, FS_Subset
<1>3. OfType(Append(es, e), t)
      = OfType(es, t) \cup (IF e.type = t THEN {Len(es) + 1} ELSE {})
  BY <1>1 DEF OfType
<1>4. Len(es) + 1 \notin OfType(es, t)
  BY <1>1 DEF OfType
<1>5. CASE e.type = t
  BY <1>2, <1>3, <1>4, <1>5, FS_AddElement, FS_CardinalityType
<1>6. CASE e.type # t
  <2>1. OfType(Append(es, e), t) = OfType(es, t)
    BY <1>3, <1>6
  <2> QED BY <1>2, <1>6, <2>1, FS_CardinalityType
<1> QED BY <1>5, <1>6

\* The larger of a peak and a new sample is the peak of both.
LEMMA PeakAppend ==
    ASSUME NEW peak \in Nat, NEW samples \in Seq(Nat), NEW x \in Nat, PeakOf(peak, samples)
    PROVE  PeakOf(Larger(peak, x), Append(samples, x))
<1>1. Len(samples) \in Nat /\ Len(Append(samples, x)) = Len(samples) + 1
      /\ Append(samples, x)[Len(samples) + 1] = x
      /\ \A i \in 1..Len(samples) : Append(samples, x)[i] = samples[i] /\ samples[i] \in Nat
      /\ DOMAIN Append(samples, x) = 1..(Len(samples) + 1)
  OBVIOUS
<1>1a. Append(samples, x) # <<>>
  OBVIOUS
<1>2. \A i \in 1..(Len(samples) + 1) : Append(samples, x)[i] <= Larger(peak, x)
  BY <1>1 DEF PeakOf, Larger
<1>3. Larger(peak, x) \in ToSet(Append(samples, x))
  <2>1. CASE peak < x \/ peak = x
    <3>1. Larger(peak, x) = x /\ Len(samples) + 1 \in 1..(Len(samples) + 1)
      BY <1>1, <2>1 DEF Larger
    <3> QED BY <1>1, <3>1 DEF ToSet
  <2>2. CASE x < peak
    <3>1. Larger(peak, x) = peak /\ samples # <<>>
      BY <2>2 DEF Larger, PeakOf
    <3>2. PICK i \in DOMAIN samples : samples[i] = peak
      BY <3>1 DEF PeakOf, ToSet
    <3>3. i \in 1..Len(samples) /\ i \in 1..(Len(samples) + 1)
      BY <1>1
    <3> QED BY <1>1, <3>1, <3>2, <3>3 DEF ToSet
  <2> QED BY <2>1, <2>2
<1>4. 1..Len(Append(samples, x)) = 1..(Len(samples) + 1)
  BY <1>1
<1> QED BY <1>1a, <1>2, <1>3, <1>4, Zenon DEF PeakOf

\* The samples of one event more.
LEMMA SamplesAppend ==
    ASSUME NEW es \in Seq(Event), NEW e \in Event
    PROVE  /\ [i \in 1..Len(Append(es, e)) |-> Append(es, e)[i].mem]
              = Append([i \in 1..Len(es) |-> es[i].mem], e.mem)
           /\ [i \in 1..Len(Append(es, e)) |-> Append(es, e)[i].obj]
              = Append([i \in 1..Len(es) |-> es[i].obj], e.obj)
<1>1. Len(es) \in Nat /\ Len(Append(es, e)) = Len(es) + 1
      /\ Append(es, e)[Len(es) + 1] = e
      /\ \A i \in 1..Len(es) : Append(es, e)[i] = es[i] /\ es[i] \in Event
  OBVIOUS
<1>2. [i \in 1..Len(es) |-> es[i].mem] \in Seq(Nat)
      /\ [i \in 1..Len(es) |-> es[i].obj] \in Seq(Nat)
  BY <1>1, EventTyped
<1> QED BY <1>1, <1>2, EventTyped

\* Durations are naturals.
LEMMA EventDurations ==
    ASSUME NEW es \in Seq(Event)
    PROVE  Durations(es) \in Seq(Nat) /\ Len(Durations(es)) = Len(es)
<1>1. Len(es) \in Nat /\ \A i \in 1..Len(es) : es[i] \in Event
  OBVIOUS
<1>2. \A i \in 1..Len(es) : es[i].dur \in Nat
  BY <1>1, EventTyped
<1> QED BY <1>1, <1>2 DEF Durations

\* A collector that tells of some events tells of one more once it is recorded.
LEMMA RecordTells ==
    ASSUME NEW c \in CollectorSet, NEW es \in Seq(Event), NEW e \in Event, TellsOf(c, es)
    PROVE  TellsOf(Record(c, e), Append(es, e))
<1> DEFINE m == [dur |-> e.dur, type |-> e.type]
           d == Record(c, e)
<1>1. /\ c.measurements \in Seq(Measurement) /\ c.total \in Nat
      /\ c.duration \in [RegionType -> Nat] /\ c.count \in [RegionType -> Nat]
      /\ c.memSamples \in Seq(Nat) /\ c.objSamples \in Seq(Nat)
      /\ c.peakMem \in Nat /\ c.peakObj \in Nat
  BY DEF CollectorSet
<1>2. /\ d.measurements = Append(c.measurements, m) /\ d.total = c.total + e.dur
      /\ d.duration = [c.duration EXCEPT ![e.type] = @ + e.dur]
      /\ d.count = [c.count EXCEPT ![e.type] = @ + 1]
      /\ d.memSamples = Append(c.memSamples, e.mem)
      /\ d.objSamples = Append(c.objSamples, e.obj)
      /\ d.peakMem = Larger(c.peakMem, e.mem) /\ d.peakObj = Larger(c.peakObj, e.obj)
  BY DEF CollectorSet, Record
<1>3. m \in Measurement /\ m.dur = e.dur /\ e.dur \in Nat /\ e.mem \in Nat /\ e.obj \in Nat
      /\ e.type \in RegionType
  BY EventTyped DEF Measurement
<1> HIDE DEF d, m
<1>4. Durations(d.measurements) = Durations(Append(es, e))
  <2>1. Durations(d.measurements) = Append(Durations(c.measurements), e.dur)
    <3>1. Durations(Append(c.measurements, m)) = Append(Durations(c.measurements), m.dur)
      BY <1>1, <1>3, DurationsAppend
    <3> QED BY <1>2, <1>3, <3>1
  <2>2. Durations(Append(es, e)) = Append(Durations(es), e.dur)
    BY DurationsAppend
  <2> QED BY <2>1, <2>2 DEF TellsOf
<1>5. d.memSamples = [i \in 1..Len(Append(es, e)) |-> Append(es, e)[i].mem]
      /\ d.objSamples = [i \in 1..Len(Append(es, e)) |-> Append(es, e)[i].obj]
  BY <1>2, SamplesAppend DEF TellsOf
<1>6. d.total = SumOf(Durations(Append(es, e)))
  <2>1. Durations(Append(es, e)) = Append(Durations(es), e.dur)
    BY DurationsAppend
  <2> QED BY <1>2, <1>3, <2>1, SumAppend, EventDurations DEF TellsOf
<1>7. ASSUME NEW t \in RegionType
      PROVE  /\ d.count[t] = Cardinality(OfType(Append(es, e), t))
             /\ d.duration[t] = SumOf(DurationsOfType(Append(es, e), t))
  <2>1. c.count[t] = Cardinality(OfType(es, t))
        /\ c.duration[t] = SumOf(DurationsOfType(es, t))
    BY DEF TellsOf, GcCountByType, GcTimeByType
  <2>2. d.count[t] = c.count[t] + IF e.type = t THEN 1 ELSE 0
    BY <1>1, <1>2
  <2>3. d.duration[t] = c.duration[t] + IF e.type = t THEN e.dur ELSE 0
    <3>1. c.duration[t] \in Nat
      BY <1>1
    <3>2. CASE e.type = t
      BY <1>1, <1>2, <3>2
    <3>3. CASE e.type # t
      BY <1>1, <1>2, <3>1, <3>3
    <3> QED BY <3>2, <3>3
  <2>4. SumOf(DurationsOfType(Append(es, e), t))
        = SumOf(DurationsOfType(es, t)) + IF e.type = t THEN e.dur ELSE 0
    <3>1. (IF e.type = t THEN e.dur ELSE 0) \in Nat
      BY <1>3
    <3> QED BY <3>1, DurationsOfTypeAppend, SumAppend
  <2>5. Cardinality(OfType(Append(es, e), t))
        = Cardinality(OfType(es, t)) + IF e.type = t THEN 1 ELSE 0
    BY OfTypeAppend
  <2> QED BY <2>1, <2>2, <2>3, <2>4, <2>5
<1>8. PeakOf(d.peakMem, d.memSamples) /\ PeakOf(d.peakObj, d.objSamples)
  <2>1. PeakOf(c.peakMem, c.memSamples) /\ PeakOf(c.peakObj, c.objSamples)
    BY DEF TellsOf
  <2>2. PeakOf(d.peakMem, d.memSamples)
    <3>1. PeakOf(Larger(c.peakMem, e.mem), Append(c.memSamples, e.mem))
      BY <1>1, <1>3, <2>1, PeakAppend, Zenon
    <3> QED BY <1>2, <3>1, Zenon
  <2>3. PeakOf(d.peakObj, d.objSamples)
    <3>1. PeakOf(Larger(c.peakObj, e.obj), Append(c.objSamples, e.obj))
      BY <1>1, <1>3, <2>1, PeakAppend, Zenon
    <3> QED BY <1>2, <3>1, Zenon
  <2> QED BY <2>2, <2>3
<1>9. TellsOf(d, Append(es, e))
  BY <1>4, <1>5, <1>6, <1>7, <1>8 DEF TellsOf, GcCountByType, GcTimeByType
<1> QED BY <1>9 DEF d

\* A new collector tells of no event.
LEMMA EmptyTells == TellsOf(EmptyCollector, <<>>)
<1> DEFINE c == EmptyCollector
<1>1. Durations(<<>>) = <<>> /\ Len(<<>>) = 0
  BY DEF Durations
<1>2. /\ c.measurements = <<>> /\ c.memSamples = <<>> /\ c.objSamples = <<>>
      /\ c.total = 0 /\ c.peakMem = 0 /\ c.peakObj = 0
      /\ \A t \in RegionType : c.count[t] = 0 /\ c.duration[t] = 0
  BY DEF EmptyCollector
<1> HIDE DEF c
<1>3. \A t : Cardinality(OfType(<<>>, t)) = 0 /\ DurationsOfType(<<>>, t) = <<>>
  <2>1. \A t : OfType(<<>>, t) = {} /\ DurationsOfType(<<>>, t) = <<>>
    BY DEF OfType, DurationsOfType
  <2> QED BY <2>1, FS_EmptySet
<1>4. PeakOf(0, <<>>)
  BY DEF PeakOf
<1>5. [i \in 1..Len(<<>>) |-> <<>>[i].mem] = <<>> /\ [i \in 1..Len(<<>>) |-> <<>>[i].obj] = <<>>
  OBVIOUS
<1>6. TellsOf(c, <<>>)
  BY <1>1, <1>2, <1>3, <1>4, <1>5, SumEmpty DEF TellsOf, GcCountByType, GcTimeByType
<1> QED BY <1>6 DEF c

-----------------------------------------------------------------------------
\* What a step of the driver's main leaves alone, and what it does otherwise.
LEMMA NextCases ==
    ASSUME [Next]_vars
    PROVE  \/ Quiet
           \/ BeginType
           \/ EndType
           \/ Measure
           \/ TestCollects
<1> USE DEF Quiet, harnessVars, callVars, resultVars, callParams
<1>1. CASE ReadOption \/ StoulThrows \/ Usage \/ FoundPath
  BY <1>1 DEF ReadOption, StoulThrows, Usage, FoundPath
<1>2. CASE OpenFails \/ OpenLibrary \/ LookupFails \/ LookupEntry
  BY <1>2 DEF OpenFails, OpenLibrary, LookupFails, LookupEntry
<1>3. CASE SkipArena \/ EndTypes \/ SummaryCsv \/ CsvThrows
  BY <1>3 DEF SkipArena, EndTypes, SummaryCsv, WriteCsv, CsvThrows
<1>4. CASE SummaryTablePrinted \/ CloseLibrary \/ TestThrows
  BY <1>4 DEF SummaryTablePrinted, PrintTable, CloseLibrary, TestThrows
<1>5. CASE UNCHANGED vars
  BY <1>5 DEF vars
<1> QED BY <1>1, <1>2, <1>3, <1>4, <1>5 DEF Next, Step

Marks(es) == [i \in 1..Len(es) |-> [dur |-> es[i].dur, type |-> es[i].type]]

\* The marks of one event more.
LEMMA MarksAppend ==
    ASSUME NEW es \in Seq(Event), NEW e \in Event
    PROVE  /\ Marks(es) \in Seq(Measurement) /\ Len(Marks(es)) = Len(es)
           /\ Marks(Append(es, e)) = Append(Marks(es), [dur |-> e.dur, type |-> e.type])
<1> DEFINE m(x) == [dur |-> x.dur, type |-> x.type]
           ms == Marks(es)
<1>1. Len(es) \in Nat /\ Len(Append(es, e)) = Len(es) + 1
      /\ Append(es, e)[Len(es) + 1] = e
      /\ \A i \in 1..Len(es) : Append(es, e)[i] = es[i] /\ es[i] \in Event
  OBVIOUS
<1>2. \A x \in Event : m(x) \in Measurement
  BY EventTyped DEF Measurement
<1>3. ms = [i \in 1..Len(es) |-> m(es[i])]
  BY DEF Marks
<1>4. Marks(Append(es, e)) = [i \in 1..(Len(es) + 1) |-> m(Append(es, e)[i])]
  BY <1>1 DEF Marks
<1> HIDE DEF m, ms
<1>5. ms \in Seq(Measurement) /\ Len(ms) = Len(es)
  BY <1>1, <1>2, <1>3
<1>6. Append(ms, m(e)) = [i \in 1..(Len(es) + 1) |-> IF i = Len(es) + 1 THEN m(e) ELSE ms[i]]
  <2>1. \A x \in Measurement :
           Append(ms, x) = [i \in 1..(Len(ms) + 1) |-> IF i = Len(ms) + 1 THEN x ELSE ms[i]]
    BY <1>5, AppendDef
  <2> QED BY <1>2, <1>5, <2>1
<1>7. \A i \in 1..(Len(es) + 1) :
         m(Append(es, e)[i]) = IF i = Len(es) + 1 THEN m(e) ELSE ms[i]
  BY <1>1, <1>3
<1>8. Marks(Append(es, e)) = Append(ms, m(e))
  BY <1>4, <1>6, <1>7
<1> QED BY <1>5, <1>8 DEF ms, m

\* Appending to the second part is appending to both.
LEMMA ConcatAppend ==
    ASSUME NEW S, NEW s \in Seq(S), NEW t \in Seq(S), NEW x \in S
    PROVE  s \o Append(t, x) = Append(s \o t, x)
OBVIOUS

\* Appending to a sequence is appending to what follows its first n members.
LEMMA SuffixAppend ==
    ASSUME NEW S, NEW s \in Seq(S), NEW x \in S, NEW n \in 0..Len(s)
    PROVE  /\ SubSeq(s, n + 1, Len(s)) \in Seq(S)
           /\ SubSeq(Append(s, x), n + 1, Len(s) + 1)
              = Append(SubSeq(s, n + 1, Len(s)), x)
<1>1. Len(s) \in Nat /\ n \in Nat /\ n <= Len(s) /\ Len(Append(s, x)) = Len(s) + 1
      /\ \A i \in 1..Len(s) : s[i] \in S /\ Append(s, x)[i] = s[i]
      /\ Append(s, x)[Len(s) + 1] = x
      /\ Append(s, x) \in Seq(S)
  OBVIOUS
<1> DEFINE a == SubSeq(s, n + 1, Len(s))
           b == SubSeq(Append(s, x), n + 1, Len(s) + 1)
<1>2. /\ a \in Seq(S) /\ Len(a) = Len(s) - n
      /\ \A i \in 1..(Len(s) - n) : a[i] = s[n + i]
  <2>1. \A i \in (n + 1)..Len(s) : s[i] \in S
    BY <1>1
  <2> QED BY <1>1, <2>1
<1>3. /\ b \in Seq(S) /\ Len(b) = Len(s) - n + 1
      /\ \A i \in 1..(Len(s) - n + 1) : b[i] = Append(s, x)[n + i]
  <2>1. \A i \in (n + 1)..(Len(s) + 1) : Append(s, x)[i] \in S
    BY <1>1
  <2> QED BY <1>1, <2>1
<1> HIDE DEF a, b
<1>4. \A i \in 1..(Len(s) - n + 1) : b[i] = IF i = Len(a) + 1 THEN x ELSE a[i]
  <2> SUFFICES ASSUME NEW i \in 1..(Len(s) - n + 1)
               PROVE  b[i] = IF i = Len(a) + 1 THEN x ELSE a[i]
    OBVIOUS
  <2>1. CASE i = Len(a) + 1
    <3>1. n + i = Len(s) + 1
      BY <1>1, <1>2, <2>1
    <3> QED BY <1>1, <1>3, <2>1, <3>1
  <2>2. CASE i # Len(a) + 1
    <3>0. i \in Nat /\ 1 <= i /\ i <= Len(s) - n + 1 /\ i # Len(s) - n + 1
      BY <1>1, <1>2, <2>2
    <3>1. i \in 1..(Len(s) - n) /\ n + i \in 1..Len(s)
      BY <1>1, <3>0
    <3> QED BY <1>1, <1>2, <1>3, <2>2, <3>1
  <2> QED BY <2>1, <2>2
<1>5. Append(a, x) = [i \in 1..(Len(a) + 1) |-> IF i = Len(a) + 1 THEN x ELSE a[i]]
  <2>1. \A q \in Seq(S) :
           Append(q, x) = [i \in 1..(Len(q) + 1) |-> IF i = Len(q) + 1 THEN x ELSE q[i]]
    BY AppendDef
  <2> QED BY <1>2, <2>1
<1>6. b = [i \in 1..(Len(s) - n + 1) |-> b[i]]
  BY <1>1, <1>3
<1>7. b = Append(a, x)
  BY <1>1, <1>2, <1>4, <1>5, <1>6
<1> QED BY <1>2, <1>7 DEF a, b

\* No step loses, repeats or reorders a measurement.
LEMMA KeptInductive ==
    ASSUME Typed, Inv, MeasurementsKept, [Next]_vars
    PROVE  MeasurementsKept'
<1> DEFINE measured == pc = "measureTest"
           kept == IF measured THEN all \o collector.measurements ELSE all
<1>1. /\ kept = Marks(heard)
      /\ measured => TellsOf(collector, SubSeq(heard, Len(all) + 1, Len(heard)))
  BY DEF MeasurementsKept, Marks
<1>2. SUFFICES /\ kept' = Marks(heard)'
               /\ measured' => TellsOf(collector', SubSeq(heard', Len(all') + 1, Len(heard')))
  BY DEF MeasurementsKept, Marks
<1>3. /\ all \in Seq(Measurement) /\ heard \in Seq(Event) /\ collector \in CollectorSet
      /\ collector.measurements \in Seq(Measurement)
      /\ Len(all) \in Nat /\ Len(heard) \in Nat
  BY DEF Typed, CollectorSet
<1>4. Marks(heard) \in Seq(Measurement) /\ Len(Marks(heard)) = Len(heard)
  <2>1. Len(heard) \in Nat /\ \A i \in 1..Len(heard) : heard[i] \in Event
    BY <1>3
  <2>2. \A i \in 1..Len(heard) : [dur |-> heard[i].dur, type |-> heard[i].type] \in Measurement
    BY <2>1, EventTyped DEF Measurement
  <2> QED BY <2>1, <2>2 DEF Marks
<1>5. CASE Quiet
  BY <1>1, <1>5 DEF Quiet, callVars
<1>6. CASE BeginType
  BY <1>1, <1>6 DEF BeginType, CallRunBenchmark, callVars, resultVars
<1>7. CASE EndType
  BY <1>1, <1>7 DEF EndType, EndRuns, callVars, resultVars
<1>8. CASE Measure
  <2>1. CASE BeginWarmup \/ EndWarmup \/ EndWarmups
    BY <1>1, <2>1 DEF BeginWarmup, EndWarmup, EndWarmups, EnterTest, LeaveTest,
                      callVars, resultVars
  <2>2. CASE BeginRun
    <3>1. /\ pc = "measure" /\ pc' = "measureTest" /\ all' = all /\ heard' = heard
          /\ collector' = EmptyCollector /\ collector'.measurements = <<>>
      BY <2>2 DEF BeginRun, EnterTest, resultVars, EmptyCollector
    <3>2. Len(all) = Len(heard)
      BY <1>1, <1>4, <3>1
    <3>3. SubSeq(heard, Len(all) + 1, Len(heard)) = <<>>
      BY <1>3, <3>2
    <3>4. all \o <<>> = all
      BY <1>3
    <3> QED BY <1>1, <3>1, <3>3, <3>4, EmptyTells
  <2>3. CASE EndRun
    BY <1>1, <2>3 DEF EndRun, LeaveTest
  <2> QED BY <1>8, <2>1, <2>2, <2>3 DEF Measure, RunBenchmark
<1>9. CASE TestCollects
  <2>1. PICK e \in Event : Collect(e)
    BY <1>9 DEF TestCollects
  <2>2. pc' = pc /\ all' = all
    BY <2>1 DEF Collect, resultVars
  <2>3. CASE pc = "measureTest"
    <3> DEFINE m == [dur |-> e.dur, type |-> e.type]
    <3>1. collector' = Record(collector, e) /\ heard' = Append(heard, e)
      BY <2>1, <2>3 DEF Collect, Inv, HarnessInv, CallbackLive, InTest
    <3>2. collector'.measurements = Append(collector.measurements, m)
      BY <1>3, <3>1 DEF Record, CollectorSet
    <3>3. m \in Measurement
      BY EventTyped DEF Measurement
    <3>4. Marks(heard') = Append(Marks(heard), m)
      BY <1>3, <3>1, MarksAppend
    <3>5. all \o Append(collector.measurements, m) = Append(all \o collector.measurements, m)
      <4> HIDE DEF m
      <4> QED BY <1>3, <3>3, ConcatAppend
    <3>6. Len(all) \in 0..Len(heard)
      BY <1>1, <1>3, <1>4, <2>3
    <3>7. SubSeq(heard', Len(all) + 1, Len(heard'))
          = Append(SubSeq(heard, Len(all) + 1, Len(heard)), e)
          /\ SubSeq(heard, Len(all) + 1, Len(heard)) \in Seq(Event)
      <4>1. Len(heard') = Len(heard) + 1
        BY <1>3, <3>1
      <4> QED BY <1>3, <3>1, <3>6, <4>1, SuffixAppend
    <3>8. TellsOf(collector', SubSeq(heard', Len(all) + 1, Len(heard')))
      BY <1>1, <1>3, <2>3, <3>1, <3>7, RecordTells
    <3> QED BY <1>1, <2>2, <2>3, <3>2, <3>4, <3>5, <3>8
  <2>4. CASE pc # "measureTest"
    <3>1. heard' = heard
      BY <2>1, <2>4 DEF Collect
    <3> QED BY <1>1, <2>2, <2>4, <3>1
  <2> QED BY <2>3, <2>4
<1> QED BY <1>5, <1>6, <1>7, <1>8, <1>9, NextCases

-----------------------------------------------------------------------------
\* Which type a result is of

Calls == Column(results, "calls")

\* Every run's measurements have their place in the list of all, and those of
\* the run under way are of the type main is at.
Asked ==
    /\ SumOf(Calls) = Len(all)
    /\ \A i \in 1..Len(results) :
          SumOf(SubSeq(Calls, 1, i - 1)) + results[i].calls <= Len(all)
    /\ library = "typed" /\ pc = "measureTest" =>
          \A m \in ToSet(collector.measurements) : m.type = AllRegionTypes[typeAt]
    /\ MeasuresTypeAsked

\* Which steps change the library, the number of runs and the place in the array.
LEMMA DriverKept ==
    ASSUME [Next]_vars
    PROVE  /\ at \in {"args", "open"} \/ UNCHANGED <<library, runs>>
           /\ pc = "idle" \/ typeAt' = typeAt \/ EndType
<1> USE DEF driverVars, optionVars
<1>1. CASE ReadOption \/ StoulThrows \/ Usage \/ FoundPath
  BY <1>1 DEF ReadOption, StoulThrows, Usage, FoundPath
<1>2. CASE OpenFails \/ OpenLibrary \/ LookupFails \/ LookupEntry
  BY <1>2 DEF OpenFails, OpenLibrary, LookupFails, LookupEntry
<1>3. CASE SkipArena \/ EndTypes \/ SummaryCsv \/ CsvThrows
  BY <1>3 DEF SkipArena, EndTypes, SummaryCsv, WriteCsv, CsvThrows
<1>4. CASE SummaryTablePrinted \/ CloseLibrary \/ TestThrows
  BY <1>4 DEF SummaryTablePrinted, PrintTable, CloseLibrary, TestThrows
<1>5. CASE BeginType \/ EndType \/ Measure \/ TestCollects
  BY <1>5 DEF BeginType, EndType, Measure, TestCollects
<1>6. CASE UNCHANGED vars
  BY <1>6 DEF vars
<1> QED BY <1>1, <1>2, <1>3, <1>4, <1>5, <1>6 DEF Next, Step

\* A number b times and a remainder over: b again.
LEMMA Quotient ==
    ASSUME NEW a \in Nat \ {0}, NEW b \in Nat, NEW r \in 0..(a - 1)
    PROVE  (a * b + r) \div a = b
BY Z3

\* Sequences that agree on their first n members start alike.
LEMMA FirstOfEqual ==
    ASSUME NEW S, NEW c, NEW d, NEW n \in Nat, \A j \in 1..n : d[j] = c[j] /\ c[j] \in S
    PROVE  SubSeq(d, 1, n) = SubSeq(c, 1, n)
BY DEF SubSeq

\* One row more leaves the places of the rows before it as they are.
LEMMA ColumnAppend ==
    ASSUME NEW rows \in Seq(Row), NEW row \in Row
    PROVE  /\ Column(rows, "calls") \in Seq(Nat) /\ Len(Column(rows, "calls")) = Len(rows)
           /\ Column(Append(rows, row), "calls") = Append(Column(rows, "calls"), row.calls)
           /\ \A i \in 1..(Len(rows) + 1) :
                 SubSeq(Column(Append(rows, row), "calls"), 1, i - 1)
                 = SubSeq(Column(rows, "calls"), 1, i - 1)
           /\ SubSeq(Column(rows, "calls"), 1, Len(rows)) = Column(rows, "calls")
<1> DEFINE c == Column(rows, "calls")
           d == Column(Append(rows, row), "calls")
<1>1. /\ Len(rows) \in Nat /\ Len(Append(rows, row)) = Len(rows) + 1
      /\ \A i \in 1..Len(rows) : rows[i] \in Row /\ Append(rows, row)[i] = rows[i]
      /\ Append(rows, row)[Len(rows) + 1] = row
  OBVIOUS
<1>2. row.calls \in Nat /\ \A i \in 1..Len(rows) : rows[i].calls \in Nat
  BY <1>1 DEF Row
<1>3. c = [i \in 1..Len(rows) |-> rows[i].calls]
  BY DEF Column
<1>4. d = [i \in 1..(Len(rows) + 1) |-> Append(rows, row)[i].calls]
  BY <1>1 DEF Column
<1> HIDE DEF c, d
<1>5. c \in Seq(Nat) /\ Len(c) = Len(rows)
  BY <1>1, <1>2, <1>3
<1>6. d \in Seq(Nat) /\ Len(d) = Len(rows) + 1
  BY <1>1, <1>2, <1>4
<1>7. \A q \in Seq(Nat), x \in Nat :
         Append(q, x) = [i \in 1..(Len(q) + 1) |-> IF i = Len(q) + 1 THEN x ELSE q[i]]
  BY AppendDef
<1>8. d = Append(c, row.calls)
  BY <1>1, <1>2, <1>3, <1>4, <1>5, <1>7
<1>9. ASSUME NEW i \in 1..(Len(rows) + 1)
      PROVE  SubSeq(d, 1, i - 1) = SubSeq(c, 1, i - 1)
  <2>1. \A j \in 1..(i - 1) : d[j] = c[j] /\ d[j] \in Nat /\ c[j] \in Nat
    BY <1>1, <1>2, <1>3, <1>4
  <2>2. i - 1 \in Nat /\ i - 1 <= Len(rows)
    BY <1>1
  <2> QED BY <2>1, <2>2, FirstOfEqual
<1>10. SubSeq(c, 1, Len(rows)) = c
  BY <1>5, SubSeqFull
<1> QED BY <1>5, <1>8, <1>9, <1>10 DEF c, d

\* What is appended leaves the places before it as they are, and has its own.
LEMMA PlacesKept ==
    ASSUME NEW S, NEW s \in Seq(S), NEW t \in Seq(S)
    PROVE  /\ \A m \in Nat, n \in Nat : n <= Len(s) =>
                 SubSeq(s \o t, m + 1, n) = SubSeq(s, m + 1, n)
           /\ SubSeq(s \o t, Len(s) + 1, Len(s) + Len(t)) = t
<1>1. /\ Len(s) \in Nat /\ Len(t) \in Nat /\ s \o t \in Seq(S)
      /\ Len(s \o t) = Len(s) + Len(t)
      /\ \A i \in 1..Len(s) : s[i] \in S /\ (s \o t)[i] = s[i]
      /\ \A i \in 1..Len(t) : t[i] \in S /\ (s \o t)[Len(s) + i] = t[i]
  OBVIOUS
<1> DEFINE st == s \o t
<1> HIDE DEF st
<1>2. ASSUME NEW m \in Nat, NEW n \in Nat, n <= Len(s)
      PROVE  SubSeq(st, m + 1, n) = SubSeq(s, m + 1, n)
  <2>1. \A i \in (m + 1)..n : st[i] = s[i] /\ st[i] \in S /\ s[i] \in S
    BY <1>1, <1>2 DEF st
  <2> QED BY <1>1, <2>1
<1>3. SubSeq(st, Len(s) + 1, Len(s) + Len(t)) = t
  <2>1. \A i \in (Len(s) + 1)..(Len(s) + Len(t)) : st[i] \in S
    <3>1. \A i \in (Len(s) + 1)..(Len(s) + Len(t)) : i \in 1..Len(st) /\ st \in Seq(S)
      BY <1>1 DEF st
    <3> QED BY <3>1
  <2> DEFINE u == SubSeq(st, Len(s) + 1, Len(s) + Len(t))
  <2>2. u \in Seq(S) /\ Len(u) = Len(t) /\ \A i \in 1..Len(t) : u[i] = st[Len(s) + i]
    BY <1>1, <2>1
  <2> HIDE DEF u
  <2>3. \A i \in 1..Len(t) : u[i] = t[i]
    BY <1>1, <2>2 DEF st
  <2>4. u = [i \in 1..Len(t) |-> u[i]] /\ t = [i \in 1..Len(t) |-> t[i]]
    BY <1>1, <2>2
  <2> QED BY <2>3, <2>4 DEF u
<1> QED BY <1>2, <1>3 DEF st

\* What is measured of the type of a result: its place in the list of all, as
\* long as there are that many, whatever comes after.
LEMMA AskedKept ==
    ASSUME Asked, UNCHANGED <<results, all>>,
           results = <<>> \/ UNCHANGED <<library, runs>>,
           (library = "typed" /\ pc = "measureTest" =>
              \A m \in ToSet(collector.measurements) : m.type = AllRegionTypes[typeAt])'
    PROVE  Asked'
<1>1. CASE UNCHANGED <<library, runs>>
  BY <1>1 DEF Asked, Calls, MeasuresTypeAsked, CallOf, MeasurementsOf
<1>2. CASE results = <<>>
  <2>1. MeasuresTypeAsked'
    <3>1. 1..Len(results') = {}
      BY <1>2
    <3> QED BY <3>1 DEF MeasuresTypeAsked
  <2> QED BY <2>1 DEF Asked, Calls
<1> QED BY <1>1, <1>2

\* A run that ends adds its measurements at the end, and its result to the
\* group of the type that main is at.
LEMMA EndRunAsked ==
    ASSUME Typed, Progress, Asked, at = "types", EndRun, UNCHANGED driverVars
    PROVE  Asked'
<1> DEFINE n == Len(results)
           ms == collector.measurements
           row == RunResult(collector)
           place(i) == SumOf(SubSeq(Calls, 1, i - 1))
<1>1. /\ results \in Seq(Row) /\ row \in Row /\ n \in Nat /\ row.calls = Len(ms)
      /\ all \in Seq(Measurement) /\ ms \in Seq(Measurement)
      /\ Len(all) \in Nat /\ Len(ms) \in Nat
      /\ \A i \in 1..n : results[i] \in Row /\ results[i].calls \in Nat
  <2>1. /\ results \in Seq(Row) /\ row \in Row /\ row.calls = Len(ms)
        /\ all \in Seq(Measurement) /\ ms \in Seq(Measurement)
    BY RunResultTyped DEF Typed, RunResult, GcCount, CollectorSet
  <2>2. \A i \in 1..n : results[i] \in Row
    BY <2>1
  <2>3. \A x \in Row : x.calls \in Nat
    BY DEF Row
  <2>4. n \in Nat /\ Len(all) \in Nat /\ Len(ms) \in Nat
    BY <2>1
  <2> QED BY <2>1, <2>2, <2>3, <2>4
<1>2. /\ results' = Append(results, row) /\ all' = all \o ms
      /\ pc = "measureTest" /\ pc' = "measure"
      /\ library' = library /\ runs' = runs /\ typeAt' = typeAt
  BY DEF EndRun, LeaveTest, driverVars, optionVars
<1> HIDE DEF row
<1>3. /\ Calls \in Seq(Nat) /\ Len(Calls) = n
      /\ Calls' = Append(Calls, row.calls)
      /\ \A i \in 1..(n + 1) : SubSeq(Calls', 1, i - 1) = SubSeq(Calls, 1, i - 1)
      /\ SubSeq(Calls, 1, n) = Calls
  BY <1>1, <1>2, ColumnAppend DEF Calls
<1>4. /\ SumOf(Calls) = Len(all)
      /\ \A i \in 1..n : place(i) + results[i].calls <= Len(all)
  BY DEF Asked
<1>5. \A i \in 1..(n + 1) : place(i) \in Nat
  <2>1. ASSUME NEW i \in 1..(n + 1)
        PROVE  SubSeq(Calls, 1, i - 1) \in Seq(Nat)
    <3>1. \A j \in 1..(i - 1) : Calls[j] \in Nat
      BY <1>1, <1>3
    <3> QED BY <1>1, <3>1, SubSeqProperties
  <2> QED BY <2>1, SumNat
<1>6. place(n + 1) = Len(all)
  <2>1. (n + 1) - 1 = n
    BY <1>1
  <2> QED BY <1>3, <1>4, <2>1
<1>7. \A i \in 1..(n + 1) : SumOf(SubSeq(Calls', 1, i - 1)) = place(i)
  BY <1>3
<1>8. /\ Len(results') = n + 1 /\ results'[n + 1] = row
      /\ \A i \in 1..n : results'[i] = results[i]
      /\ Len(all') = Len(all) + Len(ms)
  BY <1>1, <1>2
<1> HIDE DEF place
<1>9. SumOf(Calls') = Len(all')
  <2>1. SumOf(Append(Calls, row.calls)) = SumOf(Calls) + row.calls
    BY <1>1, <1>3, SumAppend
  <2> QED BY <1>1, <1>3, <1>4, <1>8, <2>1
<1>10. \A i \in 1..(n + 1) : place(i) + results'[i].calls <= Len(all')
  <2> SUFFICES ASSUME NEW i \in 1..(n + 1)
               PROVE  place(i) + results'[i].calls <= Len(all')
    OBVIOUS
  <2>1. CASE i = n + 1
    BY <1>1, <1>6, <1>8, <2>1
  <2>2. CASE i # n + 1
    <3>1. i \in 1..n
      BY <1>1, <2>2
    <3>2. place(i) + results[i].calls <= Len(all) /\ results'[i] = results[i]
          /\ results[i].calls \in Nat /\ place(i) \in Nat
      BY <1>1, <1>4, <1>5, <1>8, <3>1
    <3> QED BY <1>1, <1>8, <3>2
  <2> QED BY <2>1, <2>2
<1>11. ASSUME library = "typed", NEW i \in 1..(n + 1)
       PROVE  \E k \in Measured :
                 /\ Cardinality({j \in Measured : j <= k}) = CallOf(i)
                 /\ \A m \in ToSet(SubSeq(all', place(i) + 1, place(i) + results'[i].calls)) :
                       m.type = AllRegionTypes[k]
  <2>1. CASE i = n + 1
    <3>1. SubSeq(all', place(i) + 1, place(i) + results'[i].calls) = ms
      BY <1>1, <1>2, <1>6, <1>8, <2>1, PlacesKept
    <3>2. \A m \in ToSet(ms) : m.type = AllRegionTypes[typeAt]
      BY <1>2, <1>11 DEF Asked
    <3>3. typeAt \in Measured /\ typeAt \in Nat
      <4>1. typeAt \in Measured /\ Len(AllRegionTypes) \in Nat
        BY <1>2, BenchmarkerAssumption DEF Typed
      <4> QED BY <4>1 DEF Measured
    <3>4. Cardinality({j \in Measured : j <= typeAt}) = CallOf(i)
      <4> DEFINE b == Cardinality(Before(typeAt))
      <4>1. b \in Nat /\ Cardinality(Before(typeAt + 1)) = b + 1
        BY <3>3, BeforeSteps
      <4>2. {j \in Measured : j <= typeAt} = Before(typeAt + 1)
        <5>1. \A j \in Measured : j \in Nat
          BY BenchmarkerAssumption DEF Measured
        <5>2. \A j \in Measured : j <= typeAt <=> j < typeAt + 1
          BY <3>3, <5>1
        <5> QED BY <5>2 DEF Before
      <4>3. n = runs * b + iter
        BY <1>2 DEF Progress
      <4>4. runs \in Nat \ {0} /\ iter \in 0..(runs - 1)
        <5>1. /\ numRuns = runs /\ numRuns \in Nat /\ iter < numRuns
              /\ iter \in 0..numRuns
          BY <1>2 DEF Typed, TypeOK, HarnessTypeOK, InTest
        <5> QED BY <5>1
      <4> HIDE DEF b
      <4>5. n \div runs = b
        BY <4>1, <4>3, <4>4, Quotient
      <4>6. i - 1 = n
        BY <1>1, <2>1
      <4>7. CallOf(i) = 1 + b
        BY <4>5, <4>6 DEF CallOf
      <4>8. b + 1 = 1 + b
        BY <4>1
      <4> QED BY <4>1, <4>2, <4>7, <4>8, Zenon
    <3> QED BY <3>1, <3>2, <3>3, <3>4
  <2>2. CASE i # n + 1
    <3>1. i \in 1..n
      BY <1>1, <2>2
    <3>2. SubSeq(all', place(i) + 1, place(i) + results'[i].calls) = MeasurementsOf(i)
      <4>1. place(i) + results[i].calls \in Nat /\ place(i) \in Nat
            /\ place(i) + results[i].calls <= Len(all) /\ results'[i] = results[i]
        BY <1>1, <1>4, <1>5, <1>8, <3>1
      <4>2. SubSeq(all \o ms, place(i) + 1, place(i) + results[i].calls)
            = SubSeq(all, place(i) + 1, place(i) + results[i].calls)
        <5>1. all \in Seq(Measurement) /\ ms \in Seq(Measurement)
          BY <1>1
        <5> HIDE DEF ms
        <5>2. \A a \in Nat, b \in Nat : b <= Len(all) =>
                 SubSeq(all \o ms, a + 1, b) = SubSeq(all, a + 1, b)
          BY <5>1, PlacesKept
        <5> QED BY <4>1, <5>2
      <4> QED BY <1>2, <4>1, <4>2 DEF MeasurementsOf, place, Calls
    <3> QED BY <1>11, <3>1, <3>2 DEF Asked, MeasuresTypeAsked
  <2> QED BY <2>1, <2>2
<1>12. ASSUME NEW i \in 1..(n + 1)
       PROVE  /\ CallOf(i)' = CallOf(i)
              /\ MeasurementsOf(i)'
                 = SubSeq(all', place(i) + 1, place(i) + results'[i].calls)
  <2>1. CallOf(i)' = CallOf(i)
    BY <1>2 DEF CallOf
  <2>2. MeasurementsOf(i)' = SubSeq(all', SumOf(SubSeq(Calls', 1, i - 1)) + 1,
                                    SumOf(SubSeq(Calls', 1, i - 1)) + results'[i].calls)
    BY DEF MeasurementsOf, Calls
  <2> QED BY <1>7, <2>1, <2>2
<1>13. MeasuresTypeAsked'
  <2> SUFFICES ASSUME library = "typed", NEW i \in 1..(n + 1)
               PROVE  (\E k \in Measured :
                         /\ Cardinality({j \in Measured : j <= k}) = CallOf(i)
                         /\ \A m \in ToSet(MeasurementsOf(i)) : m.type = AllRegionTypes[k])'
    BY <1>2, <1>8 DEF MeasuresTypeAsked
  <2> QED BY <1>11, <1>12
<1>14. (\A i \in 1..Len(results) :
          SumOf(SubSeq(Calls, 1, i - 1)) + results[i].calls <= Len(all))'
  BY <1>7, <1>8, <1>10
<1> QED BY <1>2, <1>9, <1>13, <1>14 DEF Asked

\* The members after one is appended.
LEMMA ToSetAppend ==
    ASSUME NEW S, NEW q \in Seq(S), NEW x \in S
    PROVE  ToSet(Append(q, x)) = ToSet(q) \cup {x}
<1>1. /\ Len(q) \in Nat /\ DOMAIN q = 1..Len(q) /\ DOMAIN Append(q, x) = 1..(Len(q) + 1)
      /\ Append(q, x)[Len(q) + 1] = x
      /\ \A i \in 1..Len(q) : Append(q, x)[i] = q[i]
  OBVIOUS
<1>2. 1..(Len(q) + 1) = (1..Len(q)) \cup {Len(q) + 1}
  BY <1>1
<1> QED BY <1>1, <1>2 DEF ToSet

\* Every step keeps the groups.
LEMMA AskedInductive ==
    ASSUME Typed, Inv, Progress, Asked, [Next]_vars
    PROVE  Asked'
<1> DEFINE ofType == library = "typed" /\ pc = "measureTest" =>
                        \A m \in ToSet(collector.measurements) : m.type = AllRegionTypes[typeAt]
<1>1. ofType
  BY DEF Asked
<1>2. CASE Quiet
  <2>1. UNCHANGED <<results, all, pc, collector>>
    BY <1>2 DEF Quiet, callVars
  <2>2. CASE at \in {"args", "open"}
    <3>1. results = <<>> /\ pc = "idle"
      BY <2>2 DEF Progress
    <3> QED BY <2>1, <3>1, AskedKept
  <2>3. CASE at \notin {"args", "open"}
    <3>1. UNCHANGED <<library, runs>>
      BY <2>3, DriverKept
    <3>2. ofType'
      <4>1. pc # "measureTest" \/ typeAt' = typeAt
        BY DriverKept DEF EndType, EndRuns
      <4> QED BY <1>1, <2>1, <3>1, <4>1
    <3> QED BY <2>1, <3>1, <3>2, AskedKept
  <2> QED BY <2>2, <2>3
<1>3. CASE BeginType
  BY <1>3, AskedKept DEF BeginType, CallRunBenchmark, resultVars, driverVars, optionVars
<1>4. CASE EndType
  BY <1>4, AskedKept DEF EndType, EndRuns, resultVars, optionVars
<1>5. CASE Measure
  <2>1. UNCHANGED <<library, runs, typeAt>> /\ at = "types"
    BY <1>5 DEF Measure, driverVars, optionVars
  <2>2. CASE BeginWarmup \/ EndWarmup \/ EndWarmups
    BY <2>1, <2>2, AskedKept DEF BeginWarmup, EndWarmup, EndWarmups, EnterTest, LeaveTest, resultVars
  <2>3. CASE BeginRun
    <3>1. UNCHANGED <<results, all>> /\ collector' = EmptyCollector
      BY <2>3 DEF BeginRun, EnterTest, resultVars
    <3>2. ToSet(collector'.measurements) = {}
      BY <3>1 DEF EmptyCollector, ToSet
    <3> QED BY <2>1, <3>1, <3>2, AskedKept
  <2>4. CASE EndRun
    BY <1>5, <2>1, <2>4, EndRunAsked DEF Measure
  <2> QED BY <1>5, <2>2, <2>3, <2>4 DEF Measure, RunBenchmark
<1>6. CASE TestCollects
  <2>1. PICK e \in Event : e.type = TypeTested /\ Collect(e)
    BY <1>6 DEF TestCollects
  <2>2. UNCHANGED <<results, all, library, runs, typeAt, pc>>
    BY <1>6, <2>1 DEF TestCollects, Collect, resultVars, driverVars, optionVars
  <2>3. ofType'
    <3> SUFFICES ASSUME library = "typed", pc = "measureTest",
                        NEW m \in ToSet(collector'.measurements)
                 PROVE  m.type = AllRegionTypes[typeAt]
      BY <2>2
    <3>1. e.type = AllRegionTypes[typeAt]
      <4>1. AllRegionTypes[typeAt] \in {"Trace", "Arena", "Rc"}
        <5>1. typeAt \in 1..Len(AllRegionTypes)
          BY DEF Typed, Measured
        <5> QED BY <5>1, BenchmarkerAssumption
      <4> QED BY <2>1, <4>1 DEF TypeTested, Dispatch
    <3>2. CASE collector' = collector
      BY <1>1, <3>2
    <3>3. CASE collector' = Record(collector, e)
      <4> DEFINE x == [dur |-> e.dur, type |-> e.type]
      <4>1. /\ collector'.measurements = Append(collector.measurements, x)
            /\ collector.measurements \in Seq(Measurement) /\ x \in Measurement
        BY <3>3, EventTyped DEF Typed, CollectorSet, Record, Measurement
      <4>2. x.type = e.type
        OBVIOUS
      <4> HIDE DEF x
      <4>3. \A q \in Seq(Measurement) : ToSet(Append(q, x)) = ToSet(q) \cup {x}
        BY <4>1, ToSetAppend
      <4>4. m \in ToSet(collector.measurements) \/ m = x
        BY <4>1, <4>3
      <4> QED BY <1>1, <3>1, <4>2, <4>4
    <3> QED BY <2>1, <3>2, <3>3 DEF Collect
  <2> QED BY <2>2, <2>3, AskedKept
<1> QED BY <1>2, <1>3, <1>4, <1>5, <1>6, NextCases

-----------------------------------------------------------------------------
\* How main starts: nothing is measured, and the arguments are words.
LEMMA Starts ==
    ASSUME Init
    PROVE  Typed /\ Inv /\ Progress /\ MeasurementsKept /\ Asked
<1> USE DEF Init, HarnessInit
<1>1. Inv
  BY DEF Inv, HarnessInv, CallbackLive, InTest, LibraryInv
<1>2. Typed
  <2>1. argv \in Seq(Word) /\ 1 \in 1..(Len(argv) + 1)
    <3>1. PICK n \in 0..MaxArgs : argv \in [1..n -> Word]
      OBVIOUS
    <3>2. n \in Nat
      BY BenchmarkerAssumption
    <3> QED BY <3>1, <3>2
  <2>2. 0 \in 0..(2^Width - 1)
    BY PowerPositive, BenchmarkerAssumption
  <2>3. 1 \in 1..(Len(AllRegionTypes) + 1)
    BY BenchmarkerAssumption
  <2>4. collector \in CollectorSet /\ GcCount(collector) = 0
    BY EmptyTyped DEF EmptyCollector, GcCount
  <2>5. HarnessTypeOK
    BY <2>4, GCBenchmarkAssumption DEF HarnessTypeOK, InTest
  <2>6. all \in Seq(Measurement) /\ heard \in Seq(Event) /\ results \in Seq(Row)
    OBVIOUS
  <2>7. status \in -1..1 /\ loaded \in BOOLEAN /\ at = "args" /\ pc = "idle"
        /\ library \in {"none", "typed", "untyped", "missing"}
    <3>1. status \in -1..1
      OBVIOUS
    <3>2. loaded \in BOOLEAN
      OBVIOUS
    <3> QED BY <3>1, <3>2
  <2>8. arg \in 1..(Len(argv) + 1) /\ typeAt \in 1..(Len(AllRegionTypes) + 1)
        /\ runs \in 0..(2^Width - 1) /\ warmups \in 0..(2^Width - 1)
    BY <2>1, <2>2, <2>3
  <2>9. TypeOK
    BY <2>1, <2>5, <2>7, <2>8 DEF TypeOK
  <2> QED BY <2>4, <2>6, <2>7, <2>9 DEF Typed
<1>3. Progress
  BY DEF Progress, ExitTells
<1>4. MeasurementsKept
  BY DEF MeasurementsKept
<1>5. Asked
  <2>1. Calls = <<>> /\ 1..Len(results) = {}
    BY DEF Calls, Column
  <2>2. MeasuresTypeAsked
    BY <2>1 DEF MeasuresTypeAsked
  <2> QED BY <2>1, <2>2, SumEmpty DEF Asked
<1> QED BY <1>1, <1>2, <1>3, <1>4, <1>5

\* Every behaviour of main keeps all five.
LEMMA AllHold == Spec => [](Typed /\ Inv /\ Progress /\ MeasurementsKept /\ Asked)
<1> DEFINE All == Typed /\ Inv /\ Progress /\ MeasurementsKept /\ Asked
<1>1. Init => All
  BY Starts
<1>2. All /\ [Next]_vars => All'
  <2> SUFFICES ASSUME All, [Next]_vars PROVE All'
    OBVIOUS
  <2>1. Typed' /\ Inv'
    BY TypedInductive, InvInductive
  <2>2. Progress'
    BY ProgressInductive
  <2>3. MeasurementsKept'
    BY KeptInductive
  <2>4. Asked'
    BY AskedInductive
  <2> QED BY <2>1, <2>2, <2>3, <2>4
<1> HIDE DEF All
<1>3. Spec => []All
  BY <1>1, <1>2, PTL DEF Spec
<1> QED BY <1>3 DEF All

-----------------------------------------------------------------------------
\* Options, loops, callback and collector stay in range: a number read from the
\* command line fits a size_t, however large or negative the word is, and main's
\* loop over the types never runs past its array.
THEOREM TypeCorrect == Spec => []TypeOK
<1>1. Typed => TypeOK
  BY DEF Typed
<1> QED BY <1>1, AllHold, PTL

\* main returns 0 only after it measured every type but Arena as often as
\* asked and printed the table of that, and 1 only if no test ever ran.  Of the
\* file the status tells nothing, nor of an abort.
THEOREM ExitTellsTruth == Spec => []ExitTells
<1>1. Progress => ExitTells
  BY DEF Progress
<1> QED BY <1>1, AllHold, PTL

\* print_summary's list has the measurements of the measured runs, each once
\* and in order, none of a warm-up; the collector in scope tells in all its
\* fields of what came since, whatever the runtime reports.
THEOREM NothingLost == Spec => []MeasurementsKept
<1> QED BY AllHold, PTL

\* Of a library whose entry point takes a region type, as those of two benchmarks
\* do not, every result stands in the group of the type it was measured on, and
\* each of its measurements is of that type.
THEOREM TypesAsked == Spec => []MeasuresTypeAsked
<1>1. Asked => MeasuresTypeAsked
  BY DEF Asked
<1> QED BY <1>1, AllHold, PTL

-----------------------------------------------------------------------------
\* Sums and largest members of longer sequences

\* A set of sequences with the empty one, closed under Append, has them all.
LEMMA SeqInduction ==
    ASSUME NEW S, NEW P, <<>> \in P,
           \A s \in Seq(S), x \in S : s \in P => Append(s, x) \in P
    PROVE  Seq(S) \subseteq P
<1> DEFINE Ok == {k \in Nat : \A s \in Seq(S) : Len(s) = k => s \in P}
<1>1. 0 \in Ok
  <2>1. \A s \in Seq(S) : Len(s) = 0 => s = <<>>
    OBVIOUS
  <2> QED BY <2>1
<1>2. ASSUME NEW k \in Nat, k \in Ok
      PROVE  k + 1 \in Ok
  <2> SUFFICES ASSUME NEW s \in Seq(S), Len(s) = k + 1
               PROVE  s \in P
    OBVIOUS
  <2> DEFINE front == [i \in 1..k |-> s[i]]
             last == s[k + 1]
  <2>1. front \in Seq(S) /\ Len(front) = k /\ last \in S
    OBVIOUS
  <2>2. s = [i \in 1..(k + 1) |-> s[i]]
    OBVIOUS
  <2>3. \A i \in 1..(k + 1) : s[i] = IF i = k + 1 THEN last ELSE front[i]
    OBVIOUS
  <2> HIDE DEF front, last
  <2>4. Append(front, last)
        = [i \in 1..(Len(front) + 1) |-> IF i = Len(front) + 1 THEN last ELSE front[i]]
    BY <2>1, AppendDef
  <2>5. Append(front, last) = s
    BY <2>1, <2>2, <2>3, <2>4
  <2> QED BY <1>2, <2>1, <2>5
<1>3. \A s \in Seq(S) : Len(s) \in Ok
  <2> HIDE DEF Ok
  <2> QED BY <1>1, <1>2, Induction
<1> QED BY <1>3

\* Running totals that are right at every step end in the sum.
LEMMA SumUnique ==
    ASSUME NEW seq \in Seq(Nat), NEW g, g[0] = 0,
           \A k \in 0..(Len(seq) - 1) : g[k + 1] = g[k] + seq[k + 1]
    PROVE  SumOf(seq) = g[Len(seq)]
<1> DEFINE n == Len(seq)
<1>1. n \in Nat
  OBVIOUS
<1>2. PICK h \in [0..n -> Nat] :
              /\ h[0] = 0
              /\ \A k \in 0..(n - 1) : h[k + 1] = h[k] + seq[k + 1]
              /\ SumOf(seq) = h[n]
  BY SumRuns
<1>2a. \A k \in 0..(n - 1) : g[k + 1] = g[k] + seq[k + 1]
  OBVIOUS
<1> HIDE DEF n
<1> DEFINE Ok == {k \in Nat : k <= n => h[k] = g[k]}
<1>3. 0 \in Ok
  BY <1>2
<1>4. ASSUME NEW k \in Nat, k \in Ok
      PROVE  k + 1 \in Ok
  <2> SUFFICES ASSUME k + 1 <= n PROVE h[k + 1] = g[k + 1]
    BY <1>1
  <2>1. k \in 0..(n - 1)
    BY <1>1
  <2> QED BY <1>1, <1>2, <1>2a, <1>4, <2>1
<1>5. n \in Ok
  <2> HIDE DEF Ok
  <2> QED BY <1>1, <1>3, <1>4, Induction
<1> QED BY <1>1, <1>2, <1>5 DEF n

\* The sum of two lists one after the other,
LEMMA SumConcat ==
    ASSUME NEW s \in Seq(Nat), NEW t \in Seq(Nat)
    PROVE  SumOf(s \o t) = SumOf(s) + SumOf(t)
<1> DEFINE P == {q \in Seq(Nat) : SumOf(s \o q) = SumOf(s) + SumOf(q)}
<1>1. <<>> \in P
  <2>1. s \o <<>> = s /\ <<>> \in Seq(Nat)
    OBVIOUS
  <2> QED BY <2>1, SumEmpty, SumNat
<1>2. ASSUME NEW q \in Seq(Nat), NEW x \in Nat, q \in P
      PROVE  Append(q, x) \in P
  <2>1. s \o Append(q, x) = Append(s \o q, x) /\ s \o q \in Seq(Nat)
        /\ Append(q, x) \in Seq(Nat)
    BY ConcatAppend
  <2>2. SumOf(Append(s \o q, x)) = SumOf(s \o q) + x
    BY <2>1, SumAppend
  <2>3. SumOf(Append(q, x)) = SumOf(q) + x
    BY SumAppend
  <2>4. SumOf(s) \in Nat /\ SumOf(q) \in Nat
    BY SumNat
  <2>5. SumOf(s \o q) = SumOf(s) + SumOf(q)
    BY <1>2
  <2>6. SumOf(s \o Append(q, x)) = SumOf(s) + SumOf(Append(q, x))
    BY <2>1, <2>2, <2>3, <2>4, <2>5
  <2> QED BY <2>1, <2>6
<1>3. t \in P
  <2> HIDE DEF P
  <2> QED BY <1>1, <1>2, SeqInduction
<1> QED BY <1>3

\* and the largest member: 0 if there is none,
LEMMA LargestEmpty == LargestOf(<<>>) = 0
<1>1. <<>> \in Seq(Nat) /\ Len(<<>>) = 0
  OBVIOUS
<1> QED BY <1>1, LargestRuns

\* the larger of the two with one appended,
LEMMA LargestAppend ==
    ASSUME NEW seq \in Seq(Nat), NEW x \in Nat
    PROVE  LargestOf(Append(seq, x)) = Larger(LargestOf(seq), x)
<1> DEFINE n == Len(seq)
           more == Append(seq, x)
<1>1. /\ n \in Nat /\ more \in Seq(Nat) /\ Len(more) = n + 1
      /\ \A k \in 1..n : more[k] = seq[k]
      /\ more[n + 1] = x
  OBVIOUS
<1>2. PICK g \in [0..n -> Nat] :
              /\ g[0] = 0
              /\ \A k \in 0..(n - 1) : g[k + 1] = Larger(g[k], seq[k + 1])
              /\ LargestOf(seq) = g[n]
  BY LargestRuns
<1> HIDE DEF more, n
<1>3. PICK h \in [0..(n + 1) -> Nat] :
              /\ h[0] = 0
              /\ \A k \in 0..n : h[k + 1] = Larger(h[k], more[k + 1])
              /\ LargestOf(more) = h[n + 1]
  <2>1. (n + 1) - 1 = n
    BY <1>1
  <2> QED BY <1>1, <2>1, LargestRuns
<1> DEFINE Ok == {k \in Nat : k <= n => h[k] = g[k]}
<1>4. 0 \in Ok
  BY <1>2, <1>3
<1>5. ASSUME NEW k \in Nat, k \in Ok
      PROVE  k + 1 \in Ok
  <2> SUFFICES ASSUME k + 1 <= n PROVE h[k + 1] = g[k + 1]
    BY <1>1
  <2>1. k \in 0..(n - 1) /\ k \in 0..n /\ k + 1 \in 1..n
    BY <1>1
  <2> QED BY <1>1, <1>2, <1>3, <1>5, <2>1
<1>6. n \in Ok
  <2> HIDE DEF Ok
  <2> QED BY <1>1, <1>4, <1>5, Induction
<1>7. h[n] = g[n]
  BY <1>1, <1>6
<1> QED BY <1>1, <1>2, <1>3, <1>7 DEF more

\* and of two lists one after the other.
LEMMA LargestConcat ==
    ASSUME NEW s \in Seq(Nat), NEW t \in Seq(Nat)
    PROVE  LargestOf(s \o t) = Larger(LargestOf(s), LargestOf(t))
<1> DEFINE P == {q \in Seq(Nat) : LargestOf(s \o q) = Larger(LargestOf(s), LargestOf(q))}
<1>1. <<>> \in P
  <2>1. s \o <<>> = s /\ <<>> \in Seq(Nat)
    OBVIOUS
  <2> QED BY <2>1, LargestEmpty, LargestNat DEF Larger
<1>2. ASSUME NEW q \in Seq(Nat), NEW x \in Nat, q \in P
      PROVE  Append(q, x) \in P
  <2>1. s \o Append(q, x) = Append(s \o q, x) /\ s \o q \in Seq(Nat)
        /\ Append(q, x) \in Seq(Nat)
    BY ConcatAppend
  <2>2. LargestOf(Append(s \o q, x)) = Larger(LargestOf(s \o q), x)
    BY <2>1, LargestAppend
  <2>3. LargestOf(Append(q, x)) = Larger(LargestOf(q), x)
    BY LargestAppend
  <2>4. LargestOf(s) \in Nat /\ LargestOf(q) \in Nat
    BY LargestNat
  <2>5. LargestOf(s \o q) = Larger(LargestOf(s), LargestOf(q))
    BY <1>2
  <2>6. LargestOf(s \o Append(q, x)) = Larger(LargestOf(s), LargestOf(Append(q, x)))
    BY <2>1, <2>2, <2>3, <2>4, <2>5 DEF Larger
  <2> QED BY <2>1, <2>6
<1>3. t \in P
  <2> HIDE DEF P
  <2> QED BY <1>1, <1>2, SeqInduction
<1> QED BY <1>3

\* Members of at most m sum up to at most m each.
LEMMA SumBound ==
    ASSUME NEW s \in Seq(Nat), NEW m \in Nat, \A i \in 1..Len(s) : s[i] <= m
    PROVE  SumOf(s) <= Len(s) * m
<1> DEFINE Small(q) == \A i \in 1..Len(q) : q[i] <= m
           P == {q \in Seq(Nat) : Small(q) => SumOf(q) <= Len(q) * m}
<1>1. <<>> \in P
  <2>1. <<>> \in Seq(Nat) /\ Len(<<>>) = 0 /\ 0 * m = 0
    OBVIOUS
  <2> QED BY <2>1, SumEmpty
<1>2. ASSUME NEW q \in Seq(Nat), NEW x \in Nat, q \in P
      PROVE  Append(q, x) \in P
  <2>1. Append(q, x) \in Seq(Nat) /\ Len(Append(q, x)) = Len(q) + 1 /\ Len(q) \in Nat
        /\ \A i \in 1..Len(q) : Append(q, x)[i] = q[i]
        /\ Append(q, x)[Len(q) + 1] = x
    OBVIOUS
  <2>2. ASSUME Small(Append(q, x))
        PROVE  SumOf(Append(q, x)) <= Len(Append(q, x)) * m
    <3>1. Small(q) /\ x <= m
      BY <2>1, <2>2
    <3>2. SumOf(q) <= Len(q) * m
      BY <1>2, <3>1
    <3>3. SumOf(Append(q, x)) = SumOf(q) + x /\ SumOf(q) \in Nat
      BY SumAppend, SumNat
    <3>4. (Len(q) + 1) * m = Len(q) * m + m /\ Len(q) * m \in Nat
      <4>1. \A k \in Nat : (k + 1) * m = k * m + m /\ k * m \in Nat
        BY Z3
      <4> QED BY <2>1, <4>1
    <3> QED BY <2>1, <3>1, <3>2, <3>3, <3>4
  <2> HIDE DEF Small
  <2> QED BY <2>1, <2>2
<1>3. s \in P
  <2> HIDE DEF P
  <2> QED BY <1>1, <1>2, SeqInduction
<1> QED BY <1>3

\* No member is larger than the largest, and the largest not than the sum.
LEMMA LargestBounds ==
    ASSUME NEW s \in Seq(Nat)
    PROVE  /\ \A i \in 1..Len(s) : s[i] <= LargestOf(s)
           /\ LargestOf(s) <= SumOf(s)
<1> DEFINE Above(q) == \A i \in 1..Len(q) : q[i] <= LargestOf(q)
           P == {q \in Seq(Nat) : Above(q) /\ LargestOf(q) <= SumOf(q)}
<1>1. <<>> \in P
  <2>1. <<>> \in Seq(Nat) /\ 1..Len(<<>>) = {}
    OBVIOUS
  <2> QED BY <2>1, SumEmpty, LargestEmpty
<1>2. ASSUME NEW q \in Seq(Nat), NEW x \in Nat, q \in P
      PROVE  Append(q, x) \in P
  <2>1. Append(q, x) \in Seq(Nat) /\ Len(Append(q, x)) = Len(q) + 1 /\ Len(q) \in Nat
        /\ \A i \in 1..Len(q) : Append(q, x)[i] = q[i] /\ q[i] \in Nat
        /\ Append(q, x)[Len(q) + 1] = x
    OBVIOUS
  <2>2. LargestOf(Append(q, x)) = Larger(LargestOf(q), x) /\ LargestOf(q) \in Nat
    BY LargestAppend, LargestNat
  <2>3. SumOf(Append(q, x)) = SumOf(q) + x /\ SumOf(q) \in Nat
    BY SumAppend, SumNat
  <2>4. Above(q) /\ LargestOf(q) <= SumOf(q)
    BY <1>2
  <2>5. Above(Append(q, x))
    BY <2>1, <2>2, <2>4 DEF Larger
  <2>6. LargestOf(Append(q, x)) <= SumOf(Append(q, x))
    BY <2>2, <2>3, <2>4 DEF Larger
  <2> HIDE DEF Above
  <2> QED BY <2>1, <2>5, <2>6
<1>3. s \in P
  <2> HIDE DEF P
  <2> QED BY <1>1, <1>2, SeqInduction
<1> QED BY <1>3

\* What is at most b times m is m once divided by b, at most.
LEMMA QuotientBound ==
    ASSUME NEW a \in Nat, NEW b \in Nat \ {0}, NEW m \in Nat, a <= b * m
    PROVE  a \div b <= m
BY Z3

\* A mean is at most what every member is at most.
LEMMA MeanBound ==
    ASSUME NEW s \in Seq(Nat), NEW m \in Nat, \A i \in 1..Len(s) : s[i] <= m
    PROVE  MeanOf(s) <= m
<1>1. CASE s = <<>>
  BY <1>1 DEF MeanOf
<1>2. CASE s # <<>>
  <2>1. Len(s) \in Nat \ {0} /\ SumOf(s) \in Nat /\ SumOf(s) <= Len(s) * m
    BY <1>2, SumNat, SumBound
  <2>2. SumOf(s) \div Len(s) <= m
    BY <2>1, QuotientBound
  <2> QED BY <1>2, <2>2 DEF MeanOf
<1> QED BY <1>1, <1>2

\* The averages of a run are at most its extremes, and its longest collection
\* at most its total.
InOrder(r) ==
    /\ r.avg <= r.max /\ r.max <= r.total
    /\ r.avgMem <= r.peakMem /\ r.avgObj <= r.peakObj

\* The row of a collector that tells of some events is of its measurements.
LEMMA RunResultAddsUp ==
    ASSUME NEW c \in CollectorSet, NEW es \in Seq(Event), TellsOf(c, es)
    PROVE  /\ RunResult(c).total = SumOf(Durations(c.measurements))
           /\ RunResult(c).max = LargestOf(Durations(c.measurements))
           /\ InOrder(RunResult(c))
<1> DEFINE ds == Durations(c.measurements)
           r == RunResult(c)
<1>1. /\ c.measurements \in Seq(Measurement) /\ c.total \in Nat
      /\ c.memSamples \in Seq(Nat) /\ c.objSamples \in Seq(Nat)
      /\ c.peakMem \in Nat /\ c.peakObj \in Nat
  BY DEF CollectorSet
<1>2. ds \in Seq(Nat) /\ Len(ds) = GcCount(c) /\ GcCount(c) \in Nat
  BY <1>1, DurationsTyped DEF GcCount
<1>3. c.total = SumOf(ds)
  BY DEF TellsOf
<1>4. /\ r.total = c.total /\ r.max = LargestOf(ds)
      /\ r.avg = IF GcCount(c) > 0 THEN c.total \div GcCount(c) ELSE 0
      /\ r.avgMem = MeanOf(c.memSamples) /\ r.peakMem = c.peakMem
      /\ r.avgObj = MeanOf(c.objSamples) /\ r.peakObj = c.peakObj
  BY DEF RunResult, AverageMemory, AverageObjects
<1> HIDE DEF ds, r
<1>5. LargestOf(ds) \in Nat /\ LargestOf(ds) <= SumOf(ds)
      /\ \A i \in 1..Len(ds) : ds[i] <= LargestOf(ds)
  BY <1>2, LargestNat, LargestBounds
<1>6. r.avg <= r.max
  <2>1. CASE GcCount(c) > 0
    <3>1. SumOf(ds) <= GcCount(c) * LargestOf(ds) /\ SumOf(ds) \in Nat
      BY <1>2, <1>5, SumBound, SumNat
    <3>2. GcCount(c) \in Nat \ {0}
      BY <1>2, <2>1
    <3>3. SumOf(ds) \div GcCount(c) <= LargestOf(ds)
      BY <1>5, <3>1, <3>2, QuotientBound
    <3> QED BY <1>3, <1>4, <2>1, <3>3
  <2>2. CASE ~(GcCount(c) > 0)
    BY <1>4, <1>5, <2>2
  <2> QED BY <2>1, <2>2
<1>7. r.avgMem <= r.peakMem /\ r.avgObj <= r.peakObj
  <2>1. /\ \A i \in 1..Len(c.memSamples) : c.memSamples[i] <= c.peakMem
        /\ \A i \in 1..Len(c.objSamples) : c.objSamples[i] <= c.peakObj
    BY DEF TellsOf, PeakOf
  <2>2. MeanOf(c.memSamples) <= c.peakMem /\ MeanOf(c.objSamples) <= c.peakObj
    BY <1>1, <2>1, MeanBound
  <2> QED BY <1>4, <2>2
<1>8. InOrder(r) /\ r.total = SumOf(ds) /\ r.max = LargestOf(ds)
  BY <1>3, <1>4, <1>5, <1>6, <1>7 DEF InOrder
<1> QED BY <1>8 DEF r, ds

-----------------------------------------------------------------------------
\* The lines by region type

\* The sum of sums.
LEMMA SumPointwise ==
    ASSUME NEW a \in Seq(Nat), NEW b \in Seq(Nat), NEW c \in Seq(Nat),
           Len(b) = Len(a), Len(c) = Len(a),
           \A i \in 1..Len(a) : c[i] = a[i] + b[i]
    PROVE  SumOf(c) = SumOf(a) + SumOf(b)
<1> DEFINE n == Len(a)
<1>1. n \in Nat /\ \A i \in 1..n : a[i] \in Nat /\ b[i] \in Nat
  OBVIOUS
<1>2. PICK g \in [0..n -> Nat] :
              /\ g[0] = 0
              /\ \A k \in 0..(n - 1) : g[k + 1] = g[k] + a[k + 1]
              /\ SumOf(a) = g[n]
  BY SumRuns
<1>3. PICK h \in [0..n -> Nat] :
              /\ h[0] = 0
              /\ \A k \in 0..(n - 1) : h[k + 1] = h[k] + b[k + 1]
              /\ SumOf(b) = h[n]
  <2>1. Len(b) = n
    OBVIOUS
  <2> QED BY <2>1, SumRuns
<1>4. Len(c) = n /\ \A i \in 1..n : c[i] = a[i] + b[i]
  OBVIOUS
<1> HIDE DEF n
<1> DEFINE s == [k \in 0..n |-> g[k] + h[k]]
<1>5. s[0] = 0 /\ s[n] = SumOf(a) + SumOf(b)
  BY <1>1, <1>2, <1>3
<1>6. \A k \in 0..(n - 1) : s[k + 1] = s[k] + c[k + 1]
  <2> SUFFICES ASSUME NEW k \in 0..(n - 1)
               PROVE  s[k + 1] = s[k] + c[k + 1]
    OBVIOUS
  <2>1. k \in 0..n /\ k + 1 \in 0..n /\ k + 1 \in 1..n
    BY <1>1
  <2>2. g[k] \in Nat /\ h[k] \in Nat /\ a[k + 1] \in Nat /\ b[k + 1] \in Nat
    BY <1>1, <1>2, <1>3, <2>1
  <2>3. s[k + 1] = g[k + 1] + h[k + 1] /\ s[k] = g[k] + h[k]
    BY <2>1
  <2>4. /\ g[k + 1] = g[k] + a[k + 1] /\ h[k + 1] = h[k] + b[k + 1]
        /\ c[k + 1] = a[k + 1] + b[k + 1]
    BY <1>2, <1>3, <1>4, <2>1
  <2>5. PICK p, q, x, y \in Nat : p = g[k] /\ q = h[k] /\ x = a[k + 1] /\ y = b[k + 1]
    BY <2>2, Zenon
  <2>6. (p + x) + (q + y) = (p + q) + (x + y)
    OBVIOUS
  <2> HIDE DEF s
  <2>7. s[k + 1] = (p + x) + (q + y) /\ s[k] = p + q /\ c[k + 1] = x + y
    BY <2>3, <2>4, <2>5, Zenon
  <2> QED BY <2>6, <2>7, Zenon
<1> HIDE DEF s
<1> QED BY <1>4, <1>5, <1>6, SumUnique

\* The places of the measurements of some types, and their durations with 0 for
\* the others.
PlacesIn(ms, T) == {i \in 1..Len(ms) : ms[i].type \in T}
DurationsIn(ms, T) == [i \in 1..Len(ms) |-> IF ms[i].type \in T THEN ms[i].dur ELSE 0]

\* One type more adds the measurements of that type,
LEMMA PlacesAdd ==
    ASSUME NEW ms \in Seq(Measurement), NEW T, NEW t, t \notin T
    PROVE  /\ Cardinality(PlacesIn(ms, {})) = 0
           /\ Cardinality(OfType(ms, t)) \in Nat
           /\ Cardinality(PlacesIn(ms, T \cup {t}))
              = Cardinality(PlacesIn(ms, T)) + Cardinality(OfType(ms, t))
<1>1. Len(ms) \in Nat
  OBVIOUS
<1>2. IsFiniteSet(1..Len(ms))
  <2>1. \A n \in Nat : IsFiniteSet(1..n)
    BY FS_Interval
  <2> QED BY <1>1, <2>1
<1>3. PlacesIn(ms, T) \subseteq 1..Len(ms) /\ OfType(ms, t) \subseteq 1..Len(ms)
  BY DEF PlacesIn, OfType
<1>4. IsFiniteSet(PlacesIn(ms, T)) /\ IsFiniteSet(OfType(ms, t))
  BY <1>2, <1>3, FS_Subset
<1>5. PlacesIn(ms, T \cup {t}) = PlacesIn(ms, T) \cup OfType(ms, t)
  BY DEF PlacesIn, OfType
<1>6. PlacesIn(ms, T) \cap OfType(ms, t) = {}
  BY DEF PlacesIn, OfType
<1>7. PlacesIn(ms, {}) = {}
  BY DEF PlacesIn
<1>8. /\ Cardinality(PlacesIn(ms, T) \cup OfType(ms, t))
         = Cardinality(PlacesIn(ms, T)) + Cardinality(OfType(ms, t))
           - Cardinality(PlacesIn(ms, T) \cap OfType(ms, t))
      /\ Cardinality(PlacesIn(ms, T)) \in Nat /\ Cardinality(OfType(ms, t)) \in Nat
  BY <1>4, FS_Union, FS_CardinalityType
<1>9. Cardinality({}) = 0
  BY FS_EmptySet
<1> DEFINE p == Cardinality(PlacesIn(ms, T))
           o == Cardinality(OfType(ms, t))
           u == Cardinality(PlacesIn(ms, T \cup {t}))
<1>10. u = p + o - Cardinality({}) /\ p \in Nat /\ o \in Nat
  BY <1>5, <1>6, <1>8
<1>11. Cardinality(PlacesIn(ms, {})) = 0
  BY <1>7, <1>9
<1> HIDE DEF p, o, u
<1>12. u = p + o
  BY <1>9, <1>10
<1> QED BY <1>10, <1>11, <1>12 DEF p, o, u

\* and their durations.
LEMMA DurationsAdd ==
    ASSUME NEW ms \in Seq(Measurement), NEW T, NEW t, t \notin T
    PROVE  /\ SumOf(DurationsIn(ms, {})) = 0
           /\ SumOf(DurationsOfType(ms, t)) \in Nat
           /\ SumOf(DurationsIn(ms, T \cup {t}))
              = SumOf(DurationsIn(ms, T)) + SumOf(DurationsOfType(ms, t))
<1>1. Len(ms) \in Nat /\ \A i \in 1..Len(ms) : ms[i].dur \in Nat
  <2>1. Len(ms) \in Nat /\ \A i \in 1..Len(ms) : ms[i] \in Measurement
    OBVIOUS
  <2> QED BY <2>1 DEF Measurement
<1>2. \A U : DurationsIn(ms, U) \in Seq(Nat) /\ Len(DurationsIn(ms, U)) = Len(ms)
  BY <1>1 DEF DurationsIn
<1>3. DurationsOfType(ms, t) \in Seq(Nat) /\ Len(DurationsOfType(ms, t)) = Len(ms)
  BY <1>1 DEF DurationsOfType
<1>4. \A i \in 1..Len(ms) :
         DurationsIn(ms, T \cup {t})[i] = DurationsIn(ms, T)[i] + DurationsOfType(ms, t)[i]
  BY <1>1 DEF DurationsIn, DurationsOfType
<1>5. SumOf(DurationsIn(ms, T \cup {t}))
      = SumOf(DurationsIn(ms, T)) + SumOf(DurationsOfType(ms, t))
  <2> DEFINE a == DurationsIn(ms, T)
             b == DurationsOfType(ms, t)
             c == DurationsIn(ms, T \cup {t})
  <2>1. /\ a \in Seq(Nat) /\ b \in Seq(Nat) /\ c \in Seq(Nat)
        /\ Len(b) = Len(a) /\ Len(c) = Len(a)
        /\ \A i \in 1..Len(a) : c[i] = a[i] + b[i]
    BY <1>2, <1>3, <1>4
  <2> HIDE DEF a, b, c
  <2>2. SumOf(c) = SumOf(a) + SumOf(b)
    BY <2>1, SumPointwise
  <2> QED BY <2>2 DEF a, b, c
<1>6. SumOf(DurationsIn(ms, {})) = 0
  <2>1. \A i \in 1..Len(ms) : DurationsIn(ms, {})[i] <= 0
    BY <1>1 DEF DurationsIn
  <2>2. SumOf(DurationsIn(ms, {})) <= Len(ms) * 0
    BY <1>2, <2>1, SumBound
  <2>3. SumOf(DurationsIn(ms, {})) \in Nat
    BY <1>2, SumNat
  <2> QED BY <1>1, <2>2, <2>3
<1> QED BY <1>3, <1>5, <1>6, SumNat

\* SetToSeq lists a finite set, each member once.
LEMMA SetListed ==
    ASSUME NEW S, IsFiniteSet(S)
    PROVE  /\ Cardinality(S) \in Nat
           /\ SetToSeq(S) \in [1..Cardinality(S) -> S]
           /\ \A i, j \in 1..Cardinality(S) : SetToSeq(S)[i] = SetToSeq(S)[j] => i = j
           /\ \A x \in S : \E i \in 1..Cardinality(S) : SetToSeq(S)[i] = x
<1> DEFINE n == Cardinality(S)
           f == SetToSeq(S)
<1>1. n \in Nat /\ ExistsBijection(1..n, S)
  BY FS_CardinalityType
<1>2. \E g \in [1..n -> S] : IsInjective(g)
  BY <1>1 DEF ExistsBijection, Bijection, Injection, IsInjective
<1>3. f \in [1..n -> S] /\ IsInjective(f)
  BY <1>2 DEF SetToSeq
<1>4. IsFiniteSet(1..n) /\ Cardinality(1..n) = n
  <2>1. \A m \in Nat : IsFiniteSet(1..m) /\ Cardinality(1..m) = m
    BY FS_Interval
  <2> QED BY <1>1, <2>1
<1> HIDE DEF f, n
<1>5. f \in Injection(1..n, S)
  BY <1>3 DEF Injection, IsInjective
<1>6. f \in Surjection(1..n, S)
  BY <1>4, <1>5, FS_Injection DEF n
<1>7. /\ \A i, j \in 1..n : f[i] = f[j] => i = j
      /\ \A x \in S : \E i \in 1..n : f[i] = x
  BY <1>5, <1>6 DEF Injection, IsInjective, Surjection
<1> QED BY <1>1, <1>3, <1>7 DEF f, n

\* The lines as a sequence: one for each type measured.
LEMMA BreakdownListed ==
    ASSUME all \in Seq(Measurement), Breakdown # {},
           NEW lines, lines = SetToSeq(Breakdown)
    PROVE  /\ Len(lines) \in Nat
           /\ \A j \in 1..Len(lines) :
                 /\ lines[j].calls = Cardinality(OfType(all, lines[j].type))
                 /\ lines[j].total = SumOf(DurationsOfType(all, lines[j].type))
           /\ \A i, j \in 1..Len(lines) : lines[i].type = lines[j].type => i = j
           /\ \A t \in TypesMeasured : \E j \in 1..Len(lines) : lines[j].type = t
<1> DEFINE calls(t) == Cardinality(OfType(all, t))
           total(t) == SumOf(DurationsOfType(all, t))
           line(t) == [type |-> t, name |-> TableNames[TypeId[t]], calls |-> calls(t),
                       total |-> total(t), avg |-> total(t) \div calls(t)]
           n == Cardinality(Breakdown)
<1>1. Breakdown = {line(t) : t \in TypesMeasured}
  BY DEF Breakdown
<1>2. \A t : line(t).type = t /\ line(t).calls = calls(t) /\ line(t).total = total(t)
  OBVIOUS
<1>3. IsFiniteSet(TypesMeasured)
  <2>1. IsFiniteSet({"Trace"} \cup {"Arena"} \cup {"Rc"})
    BY FS_Singleton, FS_AddElement
  <2>2. TypesMeasured \subseteq {"Trace"} \cup {"Arena"} \cup {"Rc"}
    <3>1. \A i \in 1..Len(all) : all[i] \in Measurement
      OBVIOUS
    <3> QED BY <3>1, BenchmarkerAssumption DEF TypesMeasured, Measurement
  <2> QED BY <2>1, <2>2, FS_Subset
<1> HIDE DEF line
<1>3a. /\ \A x \in Breakdown : \E t \in TypesMeasured : x = line(t)
       /\ \A t \in TypesMeasured : line(t) \in Breakdown
  BY <1>1
<1>4. IsFiniteSet(Breakdown)
  <2> DEFINE f == [t \in TypesMeasured |-> line(t)]
  <2>1. f \in Surjection(TypesMeasured, Breakdown)
    BY <1>1 DEF Surjection
  <2> HIDE DEF f
  <2> QED BY <1>3, <2>1, FS_Surjection
<1>5. /\ n \in Nat /\ lines \in [1..n -> Breakdown]
      /\ \A i, j \in 1..n : lines[i] = lines[j] => i = j
      /\ \A x \in Breakdown : \E i \in 1..n : lines[i] = x
  BY <1>4, SetListed
<1> HIDE DEF n
<1>6. Len(lines) = n
  BY <1>5
<1>7. \A j \in 1..n : \E t \in TypesMeasured : lines[j] = line(t)
  BY <1>3a, <1>5
<1>8. \A j \in 1..n : lines[j] = line(lines[j].type)
  BY <1>2, <1>7
<1>9. \A j \in 1..n : /\ lines[j].calls = calls(lines[j].type)
                      /\ lines[j].total = total(lines[j].type)
  BY <1>2, <1>7
<1>10. \A i, j \in 1..n : lines[i].type = lines[j].type => i = j
  BY <1>5, <1>8
<1>11. \A t \in TypesMeasured : \E j \in 1..n : lines[j].type = t
  BY <1>2, <1>3a, <1>5
<1> QED BY <1>5, <1>6, <1>9, <1>10, <1>11

\* Line by line the types seen so far add up, to all of them at the last.
LEMMA BreakdownAddsUp ==
    ASSUME all \in Seq(Measurement), Breakdown # {},
           NEW lines, lines = SetToSeq(Breakdown)
    PROVE  /\ SumOf(Column(lines, "calls")) = Len(all)
           /\ SumOf(Column(lines, "total")) = SumOf(Durations(all))
<1> DEFINE n == Len(lines)
           upTo(k) == {lines[j].type : j \in 1..k}
<1>1. /\ n \in Nat
      /\ \A j \in 1..n : /\ lines[j].calls = Cardinality(OfType(all, lines[j].type))
                         /\ lines[j].total = SumOf(DurationsOfType(all, lines[j].type))
      /\ \A i, j \in 1..n : lines[i].type = lines[j].type => i = j
      /\ \A t \in TypesMeasured : \E j \in 1..n : lines[j].type = t
  BY BreakdownListed
<1>2. upTo(0) = {}
  OBVIOUS
<1>3. ASSUME NEW k \in 0..(n - 1)
      PROVE  /\ upTo(k + 1) = upTo(k) \cup {lines[k + 1].type}
             /\ lines[k + 1].type \notin upTo(k)
  <2>1. 1..(k + 1) = (1..k) \cup {k + 1} /\ k + 1 \in 1..n /\ k + 1 \notin 1..k
        /\ \A j \in 1..k : j \in 1..n
    BY <1>1
  <2>2. lines[k + 1].type \notin upTo(k)
    BY <1>1, <2>1
  <2> QED BY <2>1, <2>2
<1>4. \A i \in 1..Len(all) : all[i].type \in upTo(n)
  <2>1. \A i \in 1..Len(all) : all[i].type \in TypesMeasured
    BY DEF TypesMeasured
  <2> QED BY <1>1, <2>1
<1> HIDE DEF n, upTo
<1>5. /\ \A j \in 1..n : lines[j].calls \in Nat /\ lines[j].total \in Nat
  <2>1. \A t : Cardinality(OfType(all, t)) \in Nat /\ SumOf(DurationsOfType(all, t)) \in Nat
    <3>1. \A t : t \notin {}
      OBVIOUS
    <3> QED BY <3>1, PlacesAdd, DurationsAdd
  <2> QED BY <1>1, <2>1
<1> DEFINE calls == Column(lines, "calls")
           total == Column(lines, "total")
<1>6. /\ calls = [j \in 1..n |-> lines[j].calls] /\ calls \in Seq(Nat) /\ Len(calls) = n
      /\ total = [j \in 1..n |-> lines[j].total] /\ total \in Seq(Nat) /\ Len(total) = n
  <2>1. calls = [j \in 1..n |-> lines[j].calls] /\ total = [j \in 1..n |-> lines[j].total]
    BY DEF Column, n
  <2> HIDE DEF calls, total
  <2>2. calls \in Seq(Nat) /\ Len(calls) = n
    BY <1>1, <1>5, <2>1
  <2>3. total \in Seq(Nat) /\ Len(total) = n
    BY <1>1, <1>5, <2>1
  <2> QED BY <2>1, <2>2, <2>3
<1> HIDE DEF calls, total
<1> DEFINE g == [k \in 0..n |-> Cardinality(PlacesIn(all, upTo(k)))]
           h == [k \in 0..n |-> SumOf(DurationsIn(all, upTo(k)))]
<1>7. g[0] = 0 /\ h[0] = 0
  <2>1. Cardinality(PlacesIn(all, {})) = 0 /\ SumOf(DurationsIn(all, {})) = 0
    <3>1. 1 \notin {}
      OBVIOUS
    <3> QED BY <3>1, PlacesAdd, DurationsAdd
  <2>2. 0 \in 0..n
    BY <1>1
  <2> QED BY <1>2, <2>1, <2>2
<1>8. \A k \in 0..(n - 1) : g[k + 1] = g[k] + calls[k + 1] /\ h[k + 1] = h[k] + total[k + 1]
  <2> SUFFICES ASSUME NEW k \in 0..(n - 1)
               PROVE  g[k + 1] = g[k] + calls[k + 1] /\ h[k + 1] = h[k] + total[k + 1]
    OBVIOUS
  <2> DEFINE t == lines[k + 1].type
             T == upTo(k)
  <2>1. k \in 0..n /\ k + 1 \in 0..n /\ k + 1 \in 1..n
    BY <1>1
  <2>2. upTo(k + 1) = T \cup {t} /\ t \notin T
    BY <1>3
  <2>3. calls[k + 1] = Cardinality(OfType(all, t)) /\ total[k + 1] = SumOf(DurationsOfType(all, t))
    BY <1>1, <1>6, <2>1
  <2>4. /\ g[k] = Cardinality(PlacesIn(all, T)) /\ h[k] = SumOf(DurationsIn(all, T))
        /\ g[k + 1] = Cardinality(PlacesIn(all, T \cup {t}))
        /\ h[k + 1] = SumOf(DurationsIn(all, T \cup {t}))
    BY <2>1, <2>2
  <2> HIDE DEF t, T, g, h
  <2> QED BY <2>2, <2>3, <2>4, PlacesAdd, DurationsAdd
<1>9. g[n] = Len(all)
  <2>1. PlacesIn(all, upTo(n)) = 1..Len(all)
    BY <1>4 DEF PlacesIn
  <2>2. Cardinality(1..Len(all)) = Len(all)
    <3>1. \A m \in Nat : Cardinality(1..m) = m
      BY FS_Interval
    <3> QED BY <3>1
  <2> QED BY <1>1, <2>1, <2>2
<1>10. h[n] = SumOf(Durations(all))
  <2>1. DurationsIn(all, upTo(n)) = Durations(all)
    BY <1>4 DEF DurationsIn, Durations
  <2> QED BY <1>1, <2>1
<1> HIDE DEF g, h
<1>11. SumOf(calls) = g[n] /\ SumOf(total) = h[n]
  BY <1>6, <1>7, <1>8, SumUnique
<1> QED BY <1>9, <1>10, <1>11 DEF calls, total

-----------------------------------------------------------------------------
\* The results and the list of all

\* The runs' totals and extremes are those of the list of all, and the table
\* printed is of that list: nothing is measured any more.
AddsUp ==
    /\ SumOf(Column(results, "total")) = SumOf(Durations(all))
    /\ LargestOf(Column(results, "max")) = LargestOf(Durations(all))
    /\ \A i \in 1..Len(results) : InOrder(results[i])
    /\ table # NoTable => at \in {"close", "exited"} /\ table.breakdown = Breakdown

\* The durations of two lists one after the other.
LEMMA DurationsConcat ==
    ASSUME NEW s \in Seq(Measurement), NEW t \in Seq(Measurement)
    PROVE  Durations(s \o t) = Durations(s) \o Durations(t)
<1> DEFINE a == Durations(s)
           b == Durations(t)
<1>1. /\ Len(s) \in Nat /\ Len(t) \in Nat /\ Len(s \o t) = Len(s) + Len(t)
      /\ \A i \in 1..(Len(s) + Len(t)) :
            (s \o t)[i] = IF i <= Len(s) THEN s[i] ELSE t[i - Len(s)]
  OBVIOUS
<1>2. /\ a \in Seq(Nat) /\ Len(a) = Len(s) /\ \A i \in 1..Len(s) : a[i] = s[i].dur
      /\ b \in Seq(Nat) /\ Len(b) = Len(t) /\ \A i \in 1..Len(t) : b[i] = t[i].dur
  <2>1. a \in Seq(Nat) /\ Len(a) = Len(s) /\ b \in Seq(Nat) /\ Len(b) = Len(t)
    BY DurationsTyped
  <2> QED BY <2>1 DEF Durations
<1> HIDE DEF a, b
<1>3. /\ a \o b = [i \in 1..(Len(s) + Len(t)) |-> (a \o b)[i]]
      /\ \A i \in 1..(Len(s) + Len(t)) :
            (a \o b)[i] = IF i <= Len(s) THEN a[i] ELSE b[i - Len(s)]
  <2>1. a \o b \in Seq(Nat) /\ Len(a \o b) = Len(a) + Len(b)
        /\ \A i \in 1..(Len(a) + Len(b)) :
              (a \o b)[i] = IF i <= Len(a) THEN a[i] ELSE b[i - Len(a)]
    BY <1>2, ConcatProperties
  <2>2. \A q \in Seq(Nat) : q = [i \in 1..Len(q) |-> q[i]]
    OBVIOUS
  <2> QED BY <1>2, <2>1, <2>2
<1>4. Durations(s \o t) = [i \in 1..(Len(s) + Len(t)) |-> (s \o t)[i].dur]
  BY <1>1 DEF Durations
<1>5. \A i \in 1..(Len(s) + Len(t)) : (s \o t)[i].dur = (a \o b)[i]
  <2> SUFFICES ASSUME NEW i \in 1..(Len(s) + Len(t))
               PROVE  (s \o t)[i].dur = (a \o b)[i]
    OBVIOUS
  <2>1. CASE i <= Len(s)
    <3>1. i \in 1..Len(s)
      BY <1>1, <2>1
    <3> QED BY <1>1, <1>2, <1>3, <2>1, <3>1
  <2>2. CASE ~(i <= Len(s))
    <3>1. i - Len(s) \in 1..Len(t)
      BY <1>1, <2>2
    <3> QED BY <1>1, <1>2, <1>3, <2>2, <3>1
  <2> QED BY <2>1, <2>2
<1>6. Durations(s \o t) = a \o b
  BY <1>3, <1>4, <1>5
<1> QED BY <1>6 DEF a, b

\* A column of one row more.
LEMMA FieldAppend ==
    ASSUME NEW rows \in Seq(Row), NEW row \in Row, NEW f \in {"total", "max"}
    PROVE  /\ Column(rows, f) \in Seq(Nat)
           /\ Column(Append(rows, row), f) = Append(Column(rows, f), row[f])
           /\ row[f] \in Nat
<1> DEFINE c == Column(rows, f)
           d == Column(Append(rows, row), f)
<1>1. /\ Len(rows) \in Nat /\ Len(Append(rows, row)) = Len(rows) + 1
      /\ \A i \in 1..Len(rows) : rows[i] \in Row /\ Append(rows, row)[i] = rows[i]
      /\ Append(rows, row)[Len(rows) + 1] = row
  OBVIOUS
<1>2. \A x \in Row : x[f] \in Nat
  <2>1. CASE f = "total"
    BY <2>1 DEF Row
  <2>2. CASE f = "max"
    BY <2>2 DEF Row
  <2> QED BY <2>1, <2>2
<1>3. c = [i \in 1..Len(rows) |-> rows[i][f]]
  BY DEF Column
<1>4. d = [i \in 1..(Len(rows) + 1) |-> Append(rows, row)[i][f]]
  BY <1>1 DEF Column
<1> HIDE DEF c, d
<1>5. c \in Seq(Nat) /\ Len(c) = Len(rows) /\ row[f] \in Nat
  BY <1>1, <1>2, <1>3
<1>6. \A q \in Seq(Nat), x \in Nat :
         Append(q, x) = [i \in 1..(Len(q) + 1) |-> IF i = Len(q) + 1 THEN x ELSE q[i]]
  BY AppendDef
<1>7. Append(c, row[f]) = [i \in 1..(Len(rows) + 1) |-> IF i = Len(rows) + 1 THEN row[f] ELSE c[i]]
  BY <1>5, <1>6
<1>8. \A i \in 1..(Len(rows) + 1) :
         Append(rows, row)[i][f] = IF i = Len(rows) + 1 THEN row[f] ELSE c[i]
  BY <1>1, <1>3
<1>9. d = Append(c, row[f])
  BY <1>4, <1>7, <1>8
<1> QED BY <1>5, <1>9 DEF c, d

\* A run that ends adds the same to the results and to the list.
LEMMA EndRunAddsUp ==
    ASSUME Typed, MeasurementsKept, AddsUp, EndRun
    PROVE  /\ (SumOf(Column(results, "total")) = SumOf(Durations(all)))'
           /\ (LargestOf(Column(results, "max")) = LargestOf(Durations(all)))'
           /\ (\A i \in 1..Len(results) : InOrder(results[i]))'
<1> DEFINE ms == collector.measurements
           row == RunResult(collector)
           since == SubSeq(heard, Len(all) + 1, Len(heard))
           ds == Durations(all)
           new == Durations(ms)
           totals == Column(results, "total")
           maxes == Column(results, "max")
<1>1. /\ results \in Seq(Row) /\ row \in Row /\ collector \in CollectorSet
      /\ all \in Seq(Measurement) /\ ms \in Seq(Measurement) /\ heard \in Seq(Event)
      /\ Len(all) \in Nat /\ Len(ms) \in Nat /\ Len(heard) \in Nat
  <2>1. /\ results \in Seq(Row) /\ row \in Row /\ collector \in CollectorSet
        /\ all \in Seq(Measurement) /\ ms \in Seq(Measurement) /\ heard \in Seq(Event)
    BY RunResultTyped DEF Typed, CollectorSet
  <2> QED BY <2>1
<1>2. results' = Append(results, row) /\ all' = all \o ms /\ pc = "measureTest"
  BY DEF EndRun, LeaveTest
<1>3. TellsOf(collector, since) /\ since \in Seq(Event)
  <2>1. all \o ms = Marks(heard) /\ TellsOf(collector, since)
    BY <1>2 DEF MeasurementsKept, Marks
  <2>2. Len(Marks(heard)) = Len(heard)
    BY <1>1 DEF Marks
  <2>3. Len(all) \in 0..Len(heard)
    BY <1>1, <2>1, <2>2
  <2>4. \A i \in (Len(all) + 1)..Len(heard) : heard[i] \in Event
    BY <1>1
  <2>5. since \in Seq(Event)
    BY <1>1, <2>3, <2>4, SubSeqProperties
  <2> QED BY <2>1, <2>5
<1>4. row.total = SumOf(new) /\ row.max = LargestOf(new) /\ InOrder(row)
  BY <1>1, <1>3, RunResultAddsUp
<1>5. /\ SumOf(totals) = SumOf(ds) /\ LargestOf(maxes) = LargestOf(ds)
      /\ \A i \in 1..Len(results) : InOrder(results[i])
  BY DEF AddsUp
<1>6. /\ totals \in Seq(Nat) /\ Column(Append(results, row), "total") = Append(totals, row.total)
      /\ maxes \in Seq(Nat) /\ Column(Append(results, row), "max") = Append(maxes, row.max)
      /\ row.total \in Nat /\ row.max \in Nat
  <2>1. /\ Column(results, "total") \in Seq(Nat)
        /\ Column(Append(results, row), "total") = Append(Column(results, "total"), row["total"])
        /\ row["total"] \in Nat
    BY <1>1, FieldAppend
  <2>2. /\ Column(results, "max") \in Seq(Nat)
        /\ Column(Append(results, row), "max") = Append(Column(results, "max"), row["max"])
        /\ row["max"] \in Nat
    BY <1>1, FieldAppend
  <2> QED BY <2>1, <2>2
<1>7. ds \in Seq(Nat) /\ new \in Seq(Nat) /\ Durations(all \o ms) = ds \o new
  BY <1>1, DurationsTyped, DurationsConcat
<1> HIDE DEF ms, row, ds, new, totals, maxes
<1>8. /\ SumOf(Append(totals, row.total)) = SumOf(totals) + row.total
      /\ LargestOf(Append(maxes, row.max)) = Larger(LargestOf(maxes), row.max)
      /\ SumOf(ds \o new) = SumOf(ds) + SumOf(new)
      /\ LargestOf(ds \o new) = Larger(LargestOf(ds), LargestOf(new))
  BY <1>6, <1>7, SumAppend, LargestAppend, SumConcat, LargestConcat
<1>9. (SumOf(Column(results, "total")) = SumOf(Durations(all)))'
  BY <1>2, <1>4, <1>5, <1>6, <1>7, <1>8
<1>10. (LargestOf(Column(results, "max")) = LargestOf(Durations(all)))'
  BY <1>2, <1>4, <1>5, <1>6, <1>7, <1>8
<1>11. (\A i \in 1..Len(results) : InOrder(results[i]))'
  <2>1. /\ Len(results) \in Nat /\ Len(results') = Len(results) + 1
        /\ results'[Len(results) + 1] = row
        /\ \A i \in 1..Len(results) : results'[i] = results[i]
    BY <1>1, <1>2
  <2> SUFFICES ASSUME NEW i \in 1..(Len(results) + 1)
               PROVE  InOrder(results'[i])
    BY <2>1 DEF InOrder
  <2>2. CASE i = Len(results) + 1
    BY <1>4, <2>1, <2>2
  <2>3. CASE i # Len(results) + 1
    <3>1. i \in 1..Len(results)
      BY <2>1, <2>3
    <3> QED BY <1>5, <2>1, <3>1
  <2> QED BY <2>2, <2>3
<1> QED BY <1>9, <1>10, <1>11

\* A table is printed once, after the last measurement.
LEMMA TableKept ==
    ASSUME Typed, Inv, Progress, AddsUp, [Next]_vars
    PROVE  /\ table' = table \/ (SummaryTablePrinted /\ at' = "close" /\ UNCHANGED all)
           /\ table # NoTable => UNCHANGED all /\ at' \in {"close", "exited"}
           /\ at' = "aborted" => table = NoTable /\ table' = table
<1> USE DEF harnessVars, resultVars
<1>1. CASE ReadOption \/ StoulThrows \/ Usage \/ FoundPath
  BY <1>1 DEF ReadOption, StoulThrows, Usage, FoundPath, Exit, Progress
<1>2. CASE OpenFails \/ OpenLibrary \/ LookupFails \/ LookupEntry
  BY <1>2 DEF OpenFails, OpenLibrary, LookupFails, LookupEntry, Exit, Progress
<1>3. CASE SkipArena \/ EndTypes \/ SummaryCsv \/ CsvThrows
  BY <1>3 DEF SkipArena, EndTypes, SummaryCsv, WriteCsv, CsvThrows, Progress
<1>4. CASE SummaryTablePrinted
  BY <1>4 DEF SummaryTablePrinted, PrintTable, Progress
<1>5. CASE CloseLibrary \/ TestThrows
  BY <1>5 DEF CloseLibrary, TestThrows, Exit, Progress
<1>6. CASE BeginType \/ EndType
  BY <1>6 DEF BeginType, CallRunBenchmark, EndType, EndRuns, driverVars, Progress
<1>7. CASE Measure \/ TestCollects
  BY <1>7 DEF Measure, RunBenchmark, BeginWarmup, EndWarmup, EndWarmups, BeginRun, EndRun,
              EnterTest, LeaveTest, TestCollects, Collect, driverVars, Progress
<1>8. CASE UNCHANGED vars
  BY <1>8 DEF vars, driverVars, AddsUp
<1> QED BY <1>1, <1>2, <1>3, <1>4, <1>5, <1>6, <1>7, <1>8 DEF Next, Step

\* Every step keeps the sums.
LEMMA AddsUpInductive ==
    ASSUME Typed, Inv, Progress, MeasurementsKept, AddsUp, [Next]_vars
    PROVE  AddsUp'
<1>1. /\ (SumOf(Column(results, "total")) = SumOf(Durations(all)))'
      /\ (LargestOf(Column(results, "max")) = LargestOf(Durations(all)))'
      /\ (\A i \in 1..Len(results) : InOrder(results[i]))'
  <2>1. CASE UNCHANGED <<results, all>>
    BY <2>1 DEF AddsUp, InOrder
  <2>2. CASE EndRun
    BY <2>2, EndRunAddsUp
  <2>3. CASE Quiet
    BY <2>1, <2>3 DEF Quiet
  <2>4. CASE BeginType \/ EndType \/ TestCollects
    BY <2>1, <2>4 DEF BeginType, CallRunBenchmark, EndType, EndRuns, TestCollects, Collect, resultVars
  <2>5. CASE Measure
    BY <2>1, <2>2, <2>5 DEF Measure, RunBenchmark, BeginWarmup, EndWarmup, EndWarmups, BeginRun,
                            EnterTest, LeaveTest, resultVars
  <2> QED BY <2>3, <2>4, <2>5, NextCases
<1>2. (table # NoTable => at \in {"close", "exited"} /\ table.breakdown = Breakdown)'
  <2>1. CASE SummaryTablePrinted /\ at' = "close" /\ UNCHANGED all
    <3>1. table' = NoTable \/ table' = SummaryTable
      BY <2>1 DEF SummaryTablePrinted, PrintTable
    <3>2. Breakdown' = Breakdown
      BY <2>1 DEF Breakdown, TypesMeasured
    <3>3. SummaryTable.breakdown = Breakdown
      BY DEF SummaryTable
    <3> QED BY <2>1, <3>1, <3>2, <3>3 DEF NoTable
  <2>2. CASE table' = table
    <3>1. CASE table = NoTable
      BY <2>2, <3>1 DEF NoTable
    <3>2. CASE table # NoTable
      <4>1. UNCHANGED all /\ at' \in {"close", "exited"}
        BY <3>2, TableKept
      <4>2. Breakdown' = Breakdown
        BY <4>1 DEF Breakdown, TypesMeasured
      <4> QED BY <2>2, <3>2, <4>1, <4>2 DEF AddsUp
    <3> QED BY <3>1, <3>2
  <2> QED BY <2>1, <2>2, TableKept
<1> QED BY <1>1, <1>2 DEF AddsUp

\* The invariants together are what ResultsAddUp says.
LEMMA AddsUpEnough ==
    ASSUME Typed, Asked, AddsUp
    PROVE  ResultsAddUp
<1>1. all \in Seq(Measurement)
  BY DEF Typed
<1>2. \A i \in 1..Len(results) :
         LET r == results[i] IN
         r.avg <= r.max /\ r.max <= r.total /\ r.avgMem <= r.peakMem /\ r.avgObj <= r.peakObj
  BY DEF AddsUp, InOrder
<1>3. ASSUME table # NoTable, SetToSeq(table.breakdown) # <<>>
      PROVE  /\ SumOf(Column(SetToSeq(table.breakdown), "calls")) = SumOf(Calls)
             /\ SumOf(Column(SetToSeq(table.breakdown), "total")) = SumOf(Column(results, "total"))
  <2>1. table.breakdown = Breakdown
    BY <1>3 DEF AddsUp
  <2>2. Breakdown # {}
    <3>1. IsFiniteSet({}) /\ Cardinality({}) = 0
      BY FS_EmptySet
    <3>2. SetToSeq({}) \in [1..0 -> {}]
      BY <3>1, SetListed
    <3>3. SetToSeq({}) = <<>>
      BY <3>2
    <3> QED BY <1>3, <2>1, <3>3
  <2> QED BY <1>1, <2>1, <2>2, BreakdownAddsUp DEF Asked, AddsUp
<1> QED BY <1>2, <1>3 DEF ResultsAddUp, Asked, AddsUp, Calls

\* The results per run, the list of all measurements and the lines by region
\* type of the table tell one story: the same numbers of collections, the same
\* times in total and at most, and no average above its extreme.
THEOREM OneStory == Spec => []ResultsAddUp
<1> DEFINE All == Typed /\ Inv /\ Progress /\ MeasurementsKept /\ Asked
<1>1. Init => AddsUp
  <2> SUFFICES ASSUME Init PROVE AddsUp
    OBVIOUS
  <2>1. results = <<>> /\ all = <<>> /\ table = NoTable
    BY DEF Init, HarnessInit
  <2>2. /\ Column(results, "total") = <<>> /\ Column(results, "max") = <<>>
        /\ Durations(all) = <<>> /\ 1..Len(results) = {}
    BY <2>1 DEF Column, Durations
  <2> QED BY <2>1, <2>2 DEF AddsUp
<1>2. All /\ AddsUp /\ [Next]_vars => AddsUp'
  BY AddsUpInductive
<1>3. All /\ AddsUp => ResultsAddUp
  BY AddsUpEnough
<1>4. Spec => []All
  BY AllHold
<1> HIDE DEF All
<1> QED BY <1>1, <1>2, <1>3, <1>4, PTL DEF Spec

-----------------------------------------------------------------------------
\* The options

\* A number given as a word, and what std::stoul makes of it.
LEMMA StoulValue ==
    ASSUME NEW word, Converts(word)
    PROVE  ValueOf[word] \in {Stoul(word), Stoul(word) - 2^Width}
<1>1. 2^Width \in Nat \ {0} /\ ValueOf[word] \in Int
  BY PowerPositive, BenchmarkerAssumption DEF Converts
<1>2. -(2^Width) < ValueOf[word] /\ ValueOf[word] < 2^Width
  BY DEF Converts
<1>3. ASSUME NEW v \in Int, NEW p \in Nat \ {0}, -p < v, v < p
      PROVE  v \in {v % p, (v % p) - p}
  <2>1. CASE v >= 0
    <3>1. v = p * 0 + v /\ v \in 0..(p - 1)
      BY <1>3, <2>1
    <3>2. v % p = v
      BY <1>3, <2>1, Z3
    <3> QED BY <3>2
  <2>2. CASE v < 0
    <3>1. v % p = v + p
      BY <1>3, <2>2, Z3
    <3> QED BY <3>1, <1>3
  <2> QED BY <2>1, <2>2, <1>3
<1> QED BY <1>1, <1>2, <1>3 DEF Stoul

\* Where the loop over the arguments is: after n pairs of an option and a
\* number, of which it has the last.
ReadSoFar(n) ==
    /\ n \in Nat
    /\ arg = 2 * n + 1
    /\ \A j \in 1..n : argv[2 * j - 1] \in Option /\ Converts(argv[2 * j])
    /\ LastGiven("--runs", n, runs)
    /\ LastGiven("--warmup_runs", n, warmups)

Reading == at = "args" => \E n \in Nat : ReadSoFar(n)

\* One more pair, which gives the option or gives another one.
LEMMA LastGivenStep ==
    ASSUME NEW n \in Nat, NEW option, NEW value, argv' = argv,
           LastGiven(option, n, value)
    PROVE  /\ argv[2 * n + 1] # option => LastGiven(option, n + 1, value)'
           /\ argv[2 * n + 1] = option =>
                 \A new : ValueOf[argv[2 * n + 2]] \in {new, new - 2^Width} =>
                    LastGiven(option, n + 1, new)'
<1> DEFINE Given(m) == {j \in 1..m : argv[2 * j - 1] = option}
<1>1. Given(n + 1) = Given(n) \cup (IF argv[2 * n + 1] = option THEN {n + 1} ELSE {})
  <2>1. 1..(n + 1) = 1..n \cup {n + 1} /\ 2 * (n + 1) - 1 = 2 * n + 1
    OBVIOUS
  <2> QED BY <2>1
<1>2. \A new : LastGiven(option, n + 1, new)' <=>
         IF Given(n + 1) = {} THEN new = 0
         ELSE \E last \in Given(n + 1) :
                 /\ \A j \in Given(n + 1) : j <= last
                 /\ ValueOf[argv[2 * last]] \in {new, new - 2^Width}
  BY DEF LastGiven
<1>3. CASE argv[2 * n + 1] # option
  <2>1. Given(n + 1) = Given(n)
    BY <1>1, <1>3
  <2> QED BY <1>2, <1>3, <2>1 DEF LastGiven
<1>4. CASE argv[2 * n + 1] = option
  <2>1. n + 1 \in Given(n + 1) /\ \A j \in Given(n + 1) : j <= n + 1
    BY <1>1, <1>4
  <2>2. argv[2 * (n + 1)] = argv[2 * n + 2]
    OBVIOUS
  <2> HIDE DEF Given
  <2> QED BY <1>2, <1>4, <2>1, <2>2
<1> QED BY <1>3, <1>4

\* Each turn of the loop reads one pair more; nothing reads after it.
LEMMA ReadingKept ==
    ASSUME Typed, Reading, [Next]_vars
    PROVE  Reading'
<1>1. CASE UNCHANGED <<at, argv, arg, runs, warmups>>
  BY <1>1 DEF Reading, ReadSoFar, LastGiven
<1>2. CASE ReadOption
  <2>1. PICK n \in Nat : ReadSoFar(n)
    BY <1>2 DEF ReadOption, Reading
  <2>2. /\ arg = 2 * n + 1 /\ arg + 1 = 2 * n + 2 /\ arg' = 2 * (n + 1) + 1
        /\ argv' = argv /\ argv[2 * n + 1] \in Option /\ Converts(argv[2 * n + 2])
    BY <1>2, <2>1 DEF ReadOption, ReadSoFar, OptionAt
  <2>3. \A j \in 1..(n + 1) : argv'[2 * j - 1] \in Option /\ Converts(argv'[2 * j])
    <3>1. ASSUME NEW j \in 1..(n + 1)
          PROVE  j \in 1..n \/ (2 * j - 1 = 2 * n + 1 /\ 2 * j = 2 * n + 2)
      OBVIOUS
    <3> QED BY <2>1, <2>2, <3>1 DEF ReadSoFar
  <2>4. PICK old, oldWarm, new :
           /\ old = runs /\ oldWarm = warmups /\ new = Stoul(argv[2 * n + 2])
           /\ ValueOf[argv[2 * n + 2]] \in {new, new - 2^Width}
    BY <1>2, <2>2, StoulValue DEF ReadOption
  <2>5. LastGiven("--runs", n, old) /\ LastGiven("--warmup_runs", n, oldWarm)
    BY <2>1, <2>4 DEF ReadSoFar
  <2>6. \A v : /\ v = runs' => (LastGiven("--runs", n + 1, v)' => LastGiven("--runs", n + 1, runs)')
             /\ v = warmups' =>
                   (LastGiven("--warmup_runs", n + 1, v)' => LastGiven("--warmup_runs", n + 1, warmups)')
    BY DEF LastGiven
  <2>7. CASE argv[2 * n + 1] = "--runs"
    <3>1. new = runs' /\ oldWarm = warmups'
      BY <1>2, <2>2, <2>4, <2>7 DEF ReadOption
    <3>2. LastGiven("--runs", n + 1, new)'
      <4>1. /\ argv' = argv /\ argv[2 * n + 1] = "--runs"
            /\ ValueOf[argv[2 * n + 2]] \in {new, new - 2^Width}
        BY <2>2, <2>4, <2>7
      <4>2. \A v : ValueOf[argv[2 * n + 2]] \in {v, v - 2^Width} =>
                      LastGiven("--runs", n + 1, v)'
        BY <2>5, <4>1, LastGivenStep
      <4> QED BY <4>1, <4>2
    <3>3. LastGiven("--warmup_runs", n + 1, oldWarm)'
      <4>1. argv' = argv /\ argv[2 * n + 1] # "--warmup_runs"
        BY <2>2, <2>7
      <4> QED BY <2>5, <4>1, LastGivenStep
    <3> QED BY <2>2, <2>3, <2>6, <3>1, <3>2, <3>3 DEF ReadSoFar, Reading
  <2>8. CASE argv[2 * n + 1] = "--warmup_runs"
    <3>1. new = warmups' /\ old = runs'
      BY <1>2, <2>2, <2>4, <2>8 DEF ReadOption
    <3>2. LastGiven("--runs", n + 1, old)' /\ LastGiven("--warmup_runs", n + 1, new)'
      BY <2>2, <2>4, <2>5, <2>8, LastGivenStep
    <3> QED BY <2>2, <2>3, <2>6, <3>1, <3>2 DEF ReadSoFar, Reading
  <2> QED BY <2>2, <2>7, <2>8 DEF Option
<1>3. CASE StoulThrows \/ Usage \/ FoundPath
  BY <1>3 DEF StoulThrows, Usage, Exit, FoundPath, Reading
<1>4. CASE OpenFails \/ OpenLibrary \/ LookupFails \/ LookupEntry
  BY <1>4 DEF OpenFails, Exit, OpenLibrary, LookupFails, LookupEntry, Reading
<1>5. CASE SkipArena \/ BeginType \/ EndType \/ EndTypes \/ TestThrows
  BY <1>5 DEF SkipArena, BeginType, EndType, EndTypes, TestThrows, driverVars, Reading
<1>6. CASE Measure \/ TestCollects
  <2>1. UNCHANGED <<at, argv, arg, runs, warmups>>
    BY <1>6 DEF Measure, TestCollects, driverVars, optionVars
  <2> QED BY <1>1, <2>1
<1>7. CASE SummaryCsv \/ CsvThrows \/ SummaryTablePrinted \/ CloseLibrary
  BY <1>7 DEF SummaryCsv, CsvThrows, SummaryTablePrinted, CloseLibrary, Exit, Reading
<1>8. CASE UNCHANGED vars
  <2>1. UNCHANGED <<at, argv, arg, runs, warmups>>
    BY <1>8 DEF vars, driverVars, optionVars
  <2> QED BY <1>1, <2>1
<1> QED BY <1>2, <1>3, <1>4, <1>5, <1>6, <1>7, <1>8 DEF Next, Step

\* A pair of options that gives no number, or 0, gives none but 0.
LEMMA ZeroGivesNone ==
    ASSUME NEW n \in Nat, NEW option, NEW r \in 1..(2^Width - 1),
           LastGiven(option, n, 0), LastGiven(option, n, r)
    PROVE  FALSE
<1> DEFINE given == {j \in 1..n : argv[2 * j - 1] = option}
<1>1. PICK p \in Nat \ {0} : p = 2^Width
  BY PowerPositive, BenchmarkerAssumption
<1>2. r \in 1..(p - 1)
  BY <1>1
<1>3. given # {}
  <2> SUFFICES ASSUME given = {} PROVE FALSE
    OBVIOUS
  <2>1. r = 0
    BY DEF LastGiven
  <2> QED BY <1>2, <2>1
<1>4. PICK last \in given : /\ \A j \in given : j <= last
                            /\ ValueOf[argv[2 * last]] \in {0, 0 - p}
  BY <1>1, <1>3 DEF LastGiven
<1>5. PICK final \in given : /\ \A j \in given : j <= final
                             /\ ValueOf[argv[2 * final]] \in {r, r - p}
  BY <1>1, <1>3 DEF LastGiven
<1>6. last = final
  <2>1. last \in Nat /\ final \in Nat /\ last <= final /\ final <= last
    BY <1>4, <1>5
  <2> QED BY <2>1
<1>7. PICK v : v \in {0, 0 - p} /\ v \in {r, r - p}
  BY <1>4, <1>5, <1>6
<1> QED BY <1>1, <1>2, <1>7

\* Where main opens the library it has read a command line of the usage message.
LEMMA OpensAsUsage ==
    ASSUME Typed, NEW n \in Nat, ReadSoFar(n), FoundPath
    PROVE  /\ n \in 0..(Len(argv) \div 2)
           /\ Gives(n, runs, warmups)
           /\ argv' = SubSeq(argv, 2 * n + 1, Len(argv))
<1>1. PICK l \in Nat : l = Len(argv)
  BY DEF Typed, TypeOK
<1>2. runs \in Nat /\ warmups \in Nat
  <2>1. 2^Width \in Nat
    BY PowerPositive, BenchmarkerAssumption
  <2> QED BY <2>1 DEF Typed, TypeOK
<1>3. /\ arg = 2 * n + 1 /\ 2 * n + 1 <= l /\ runs > 0 /\ warmups > 0
      /\ argv' = SubSeq(argv, 2 * n + 1, Len(argv))
      /\ argv[2 * n + 1] \in Option => ~(2 * n + 1 < l)
  BY <1>1, <1>2 DEF FoundPath, ReadSoFar, OptionAt
<1>4. n \in 0..(Len(argv) \div 2)
  <2>1. \A k \in Nat : 2 * n + 1 <= k => n <= k \div 2 /\ k \div 2 \in Nat
    BY Z3
  <2> QED BY <1>1, <1>3, <2>1
<1>5. 2 * n < l /\ (argv[2 * n + 1] \in Option => 2 * n + 1 = l)
  BY <1>3
<1>6. Gives(n, runs, warmups)
  BY <1>1, <1>3, <1>5 DEF ReadSoFar, Gives, UsageForm
<1> QED BY <1>3, <1>4, <1>6

\* Where it ends instead it has not: what has been read so far is all that could
\* be the pairs of such a line, and then there is no path or a number is 0.
LEMMA RefusesOthers ==
    ASSUME Typed, NEW m \in Nat, ReadSoFar(m), Usage \/ StoulThrows,
           NEW n \in Nat, NEW r \in 1..(2^Width - 1), NEW w \in 1..(2^Width - 1),
           Gives(n, r, w)
    PROVE  FALSE
<1>1. PICK l \in Nat : l = Len(argv)
  BY DEF Typed, TypeOK
<1>2. /\ 2 * n < l
      /\ \A j \in 1..n : argv[2 * j - 1] \in Option /\ Converts(argv[2 * j])
      /\ argv[2 * n + 1] \in Option => 2 * n + 1 = l
  BY <1>1 DEF Gives, UsageForm
<1>3. arg = 2 * m + 1 /\ arg \in 1..(l + 1)
  BY <1>1 DEF ReadSoFar, Typed, TypeOK
<1>4. CASE n < m
  <2>1. n + 1 \in 1..m /\ 2 * (n + 1) - 1 = 2 * n + 1
    BY <1>4
  <2>2. argv[2 * n + 1] \in Option
    BY <2>1 DEF ReadSoFar
  <2>3. 2 * n + 1 = l
    BY <1>2, <2>2
  <2> QED BY <1>3, <1>4, <2>3
<1>5. CASE m < n
  <2>1. m + 1 \in 1..n /\ 2 * (m + 1) - 1 = 2 * m + 1 /\ 2 * (m + 1) = 2 * m + 2 /\ 2 * m + 1 < l
    BY <1>2, <1>5
  <2>2. argv[2 * m + 1] \in Option /\ Converts(argv[2 * m + 2])
    BY <1>2, <2>1
  <2>3. arg + 1 = 2 * m + 2 /\ OptionAt(arg) /\ Converts(argv[arg + 1])
    BY <1>1, <1>3, <2>1, <2>2 DEF OptionAt
  <2> QED BY <2>3 DEF Usage, StoulThrows
<1>6. CASE n = m
  <2>1. ~OptionAt(arg)
    BY <1>1, <1>2, <1>3, <1>6 DEF OptionAt
  <2>2. arg <= Len(argv)
    BY <1>1, <1>2, <1>3, <1>6
  <2>3. runs = 0 \/ warmups = 0
    <3>1. ~(arg > Len(argv))
      BY <1>1, <1>3, <2>2
    <3> QED BY <2>1, <3>1 DEF Usage, StoulThrows
  <2>4. CASE runs = 0
    <3>1. LastGiven("--runs", n, 0) /\ LastGiven("--runs", n, r)
      BY <1>6, <2>4 DEF ReadSoFar, Gives
    <3> QED BY <3>1, ZeroGivesNone
  <2>5. CASE warmups = 0
    <3>1. LastGiven("--warmup_runs", n, 0) /\ LastGiven("--warmup_runs", n, w)
      BY <1>6, <2>5 DEF ReadSoFar, Gives
    <3> QED BY <3>1, ZeroGivesNone
  <2> QED BY <2>3, <2>4, <2>5
<1> QED BY <1>4, <1>5, <1>6

\* main leaves the loop over its arguments in three ways.
LEMMA LeavesArgs ==
    ASSUME [Next]_vars, at = "args", at' # "args"
    PROVE  \/ FoundPath /\ at' = "open"
           \/ (Usage \/ StoulThrows) /\ at' # "open"
<1>1. CASE ReadOption \/ StoulThrows \/ Usage \/ FoundPath
  BY <1>1 DEF ReadOption, StoulThrows, Usage, Exit, FoundPath
<1>2. CASE LookupFails \/ LookupEntry \/ SkipArena \/ BeginType \/ EndType \/ EndTypes
  BY <1>2 DEF LookupFails, LookupEntry, SkipArena, BeginType, EndType, EndTypes, driverVars
<1>3. CASE OpenFails \/ OpenLibrary \/ Measure \/ TestCollects \/ UNCHANGED vars
  BY <1>3 DEF OpenFails, OpenLibrary, Measure, TestCollects, driverVars, vars
<1>4. CASE TestThrows \/ SummaryCsv \/ CsvThrows \/ SummaryTablePrinted \/ CloseLibrary
  BY <1>4 DEF TestThrows, SummaryCsv, CsvThrows, SummaryTablePrinted, CloseLibrary
<1> QED BY <1>1, <1>2, <1>3, <1>4 DEF Next, Step

\* main goes on to the library exactly for the command lines of the usage
\* message, with the last number given for each option, and turns no other way
\* from one of them: lines of any length and words of any kind.
THEOREM OptionsParsed == Spec => ParsedAsUsage
<1>1. Init => Reading
  <2>1. ASSUME Init PROVE ReadSoFar(0)
    <3>1. 1..0 = {} /\ 0 \in Nat /\ 2 * 0 + 1 = 1
      OBVIOUS
    <3> QED BY <2>1, <3>1 DEF Init, ReadSoFar, LastGiven
  <2>2. 0 \in Nat
    OBVIOUS
  <2> QED BY <2>1, <2>2 DEF Reading
<1>2. Typed /\ Reading /\ [Next]_vars => Reading'
  BY ReadingKept
<1>3. ASSUME Typed, Reading, [Next]_vars, at = "args", at' # "args"
      PROVE  IF at' = "open"
             THEN \E n \in 0..(Len(argv) \div 2) :
                     /\ Gives(n, runs, warmups)
                     /\ argv' = SubSeq(argv, 2 * n + 1, Len(argv))
             ELSE \A n \in 0..(Len(argv) \div 2) : \A r, w \in 1..(2^Width - 1) : ~Gives(n, r, w)
  <2>1. PICK n \in Nat : ReadSoFar(n)
    BY <1>3 DEF Reading
  <2>2. CASE FoundPath /\ at' = "open"
    BY <1>3, <2>1, <2>2, OpensAsUsage
  <2>3. CASE (Usage \/ StoulThrows) /\ at' # "open"
    <3>1. \A k \in 0..(Len(argv) \div 2) : k \in Nat
      BY <1>3 DEF Typed, TypeOK
    <3>2. ASSUME NEW k \in 0..(Len(argv) \div 2), NEW r \in 1..(2^Width - 1), NEW w \in 1..(2^Width - 1)
          PROVE  ~Gives(k, r, w)
      BY <1>3, <2>1, <2>3, <3>1, <3>2, RefusesOthers
    <3> QED BY <2>3, <3>2
  <2> QED BY <1>3, <2>2, <2>3, LeavesArgs
<1>4. Typed /\ Reading /\ [Next]_vars =>
        [at = "args" /\ at' # "args" =>
           IF at' = "open"
           THEN \E n \in 0..(Len(argv) \div 2) :
                   /\ Gives(n, runs, warmups)
                   /\ argv' = SubSeq(argv, 2 * n + 1, Len(argv))
           ELSE \A n \in 0..(Len(argv) \div 2) : \A r, w \in 1..(2^Width - 1) : ~Gives(n, r, w)]_vars
  BY <1>3
<1> QED BY <1>1, <1>2, <1>4, AllHold, PTL DEF Spec, ParsedAsUsage

-----------------------------------------------------------------------------
(***************************************************************************)
(* Recording: the collector as the scheduler's threads update it.  Where   *)
(* two calls overlap their outcome is undefined; as long as none have, the *)
(* collector is the one before the call under way, with the members that   *)
(* it has got to replaced.                                                 *)
(***************************************************************************)

\* The collector c, but for the member m, which is that of d.
Mix(c, d, m) == [c EXCEPT ![m] = d[m]]

\* The names of the members in their order.
LEMMA MembersOf ==
    /\ Members[1] = "measurements" /\ Members[2] = "total" /\ Members[3] = "duration"
    /\ Members[4] = "count" /\ Members[5] = "memSamples" /\ Members[6] = "objSamples"
    /\ Members[7] = "peakMem" /\ Members[8] = "peakObj" /\ Len(Members) = 8
  BY DEF Members

\* The names are different ones, and those of the members.
LEMMA MembersNamed ==
    /\ \A k \in 0..7 : \A c \in CollectorSet : Members[k + 1] \in DOMAIN c
    /\ \A j \in 0..7, k \in 0..7 : Members[j + 1] = Members[k + 1] => j = k
<1> DEFINE M(k) == Members[k + 1]
<1>1. /\ M(0) = "measurements" /\ M(1) = "total" /\ M(2) = "duration"
      /\ M(3) = "count" /\ M(4) = "memSamples" /\ M(5) = "objSamples"
      /\ M(6) = "peakMem" /\ M(7) = "peakObj"
  BY MembersOf
<1>2. \A k \in 0..7 : k = 0 \/ k = 1 \/ k = 2 \/ k = 3 \/ k = 4 \/ k = 5 \/ k = 6 \/ k = 7
  OBVIOUS
<1> HIDE DEF M
<1>3. ASSUME NEW k \in 0..7, NEW c \in CollectorSet
      PROVE  M(k) \in DOMAIN c
  <2>1. DOMAIN c = {"measurements", "total", "duration", "count", "memSamples", "objSamples",
                    "peakMem", "peakObj"}
    BY DEF CollectorSet
  <2> QED BY <1>1, <1>2, <2>1
<1>4. ASSUME NEW j \in 0..7, NEW k \in 0..7, M(j) = M(k)
      PROVE  j = k
  BY <1>1, <1>2, <1>4
<1> QED BY <1>3, <1>4 DEF M

\* The mix has the one member of d and the others of c.
LEMMA MixTyped ==
    ASSUME NEW c \in CollectorSet, NEW d \in CollectorSet, NEW k \in 0..7
    PROVE  /\ Mix(c, d, Members[k + 1]) \in CollectorSet
           /\ Mix(c, d, Members[k + 1])[Members[k + 1]] = d[Members[k + 1]]
           /\ \A j \in 0..7 : j # k => Mix(c, d, Members[k + 1])[Members[j + 1]] = c[Members[j + 1]]
<1>1. k = 0 \/ k = 1 \/ k = 2 \/ k = 3 \/ k = 4 \/ k = 5 \/ k = 6 \/ k = 7
  OBVIOUS
<1>2. Mix(c, d, Members[k + 1]) \in CollectorSet
  <2>1. CASE k = 0
    BY <2>1, MembersOf DEF Mix, CollectorSet
  <2>2. CASE k = 1
    BY <2>2, MembersOf DEF Mix, CollectorSet
  <2>3. CASE k = 2
    BY <2>3, MembersOf DEF Mix, CollectorSet
  <2>4. CASE k = 3
    BY <2>4, MembersOf DEF Mix, CollectorSet
  <2>5. CASE k = 4
    BY <2>5, MembersOf DEF Mix, CollectorSet
  <2>6. CASE k = 5
    BY <2>6, MembersOf DEF Mix, CollectorSet
  <2>7. CASE k = 6
    BY <2>7, MembersOf DEF Mix, CollectorSet
  <2>8. CASE k = 7
    BY <2>8, MembersOf DEF Mix, CollectorSet
  <2> QED BY <1>1, <2>1, <2>2, <2>3, <2>4, <2>5, <2>6, <2>7, <2>8
<1>3. Mix(c, d, Members[k + 1])[Members[k + 1]] = d[Members[k + 1]]
  BY MembersNamed DEF Mix
<1>4. ASSUME NEW j \in 0..7, j # k
      PROVE  Mix(c, d, Members[k + 1])[Members[j + 1]] = c[Members[j + 1]]
  <2>1. Members[j + 1] \in DOMAIN c /\ Members[j + 1] # Members[k + 1]
    BY <1>4, MembersNamed
  <2> QED BY <2>1 DEF Mix
<1> QED BY <1>2, <1>3, <1>4

\* The types, and what a region that records nothing looks like.  What overlapping
\* calls have left in the collector has none.
RecordingTyped ==
    /\ event \in [Region -> Event \cup {NoEvent}]
    /\ member \in [Region -> 0..7]
    /\ holding \in [Region -> BOOLEAN]
    /\ reported \in Seq(Event)
    /\ \A r \in Region : holding[r] => event[r] # NoEvent
    /\ \A r \in Region : event[r] = NoEvent => member[r] = 0
    /\ ~overlapped => shared \in CollectorSet /\ copy \in [Region -> CollectorSet]

\* While no two calls have overlapped: between calls the collector tells of all
\* that was reported, and during the only one it is a collector that tells of
\* all but the last, with the members before the next one updated.
BeforeCall(r, before, told) ==
    /\ reported = Append(told, event[r])
    /\ TellsOf(before, told)
    /\ \A k \in 0..7 :
          shared[Members[k + 1]]
          = IF k < member[r] THEN Record(before, event[r])[Members[k + 1]]
                             ELSE before[Members[k + 1]]
    /\ holding[r] => copy[r][Members[member[r] + 1]] = before[Members[member[r] + 1]]

Serial ==
    ~overlapped =>
        /\ Recording = {} => TellsOf(shared, reported)
        /\ \A r \in Recording :
              /\ Recording = {r}
              /\ \E before \in CollectorSet, told \in Seq(Event) : BeforeCall(r, before, told)

\* What a store leaves when no calls have overlapped: the collector but for one
\* member, the region at its next member or at rest.
StoreWrites(r) ==
    /\ holding[r] /\ event[r] \in Event /\ member[r] \in 0..7 /\ copy[r] \in CollectorSet
    /\ shared' = Mix(shared, Record(copy[r], event[r]), Members[member[r] + 1])
    /\ holding' = [holding EXCEPT ![r] = FALSE]
    /\ copy' = [copy EXCEPT ![r] = EmptyCollector]
    /\ IF member[r] = 7
       THEN member' = [member EXCEPT ![r] = 0] /\ event' = [event EXCEPT ![r] = NoEvent]
       ELSE member' = [member EXCEPT ![r] = member[r] + 1] /\ event' = event
    /\ UNCHANGED <<crashed, overlapped, reported>>

\* An element put at the end of a vector that is as it was is appended to it.
LEMMA PushedAtEnd ==
    ASSUME NEW T, NEW q \in Seq(T), NEW x \in T, NEW other
    PROVE  [j \in 1..(Len(q) + 1) |->
               IF j = Len(q) + 1 THEN x ELSE IF j <= Len(q) THEN q[j] ELSE other]
           = Append(q, x)
<1>1. PICK n \in Nat : n = Len(q)
  OBVIOUS
<1> DEFINE pushed == [j \in 1..(n + 1) |-> IF j = n + 1 THEN x ELSE IF j <= n THEN q[j] ELSE other]
<1>2. \A j \in 1..(n + 1) : (j = n + 1 \/ j \in 1..n) /\ (j \in 1..n => j <= n /\ j # n + 1)
  OBVIOUS
<1>3. Append(q, x) = [j \in 1..(n + 1) |-> IF j \in 1..n THEN q[j] ELSE x]
  <2>1. PICK a \in Seq(T) : a = Append(q, x)
    <3>1. Append(q, x) \in Seq(T)
      BY AppendProperties
    <3> QED BY <3>1
  <2>2. Len(a) = n + 1 /\ \A j \in 1..(n + 1) : a[j] = IF j \in 1..n THEN q[j] ELSE x
    BY <1>1, <1>2, <2>1
  <2>3. a = [j \in 1..Len(a) |-> a[j]]
    OBVIOUS
  <2>4. a = [j \in 1..(n + 1) |-> a[j]]
    BY <2>2, <2>3
  <2> QED BY <2>1, <2>2, <2>4
<1>4. \A j \in 1..(n + 1) : pushed[j] = IF j \in 1..n THEN q[j] ELSE x
  BY <1>2
<1>5. pushed = [j \in 1..(n + 1) |-> IF j \in 1..n THEN q[j] ELSE x]
  BY <1>4
<1> QED BY <1>1, <1>3, <1>5

\* Recording appends an element to each vector.
LEMMA VectorsGrow ==
    ASSUME NEW c \in CollectorSet, NEW e \in Event, NEW m \in VectorMembers
    PROVE  \E T : c[m] \in Seq(T) /\ \E x \in T : Record(c, e)[m] = Append(c[m], x)
<1>1. e.dur \in Nat /\ e.type \in RegionType /\ e.mem \in Nat /\ e.obj \in Nat
  BY EventTyped
<1>2. CASE m = "measurements"
  <2>1. c.measurements \in Seq(Measurement) /\ [dur |-> e.dur, type |-> e.type] \in Measurement
    BY <1>1 DEF CollectorSet, Measurement
  <2>2. Record(c, e).measurements = Append(c.measurements, [dur |-> e.dur, type |-> e.type])
    BY DEF Record, CollectorSet
  <2> QED BY <1>2, <2>1, <2>2
<1>3. CASE m = "memSamples"
  <2>1. c.memSamples \in Seq(Nat) /\ Record(c, e).memSamples = Append(c.memSamples, e.mem)
    BY DEF Record, CollectorSet
  <2> QED BY <1>1, <1>3, <2>1
<1>4. CASE m = "objSamples"
  <2>1. c.objSamples \in Seq(Nat) /\ Record(c, e).objSamples = Append(c.objSamples, e.obj)
    BY DEF Record, CollectorSet
  <2> QED BY <1>1, <1>4, <2>1
<1> QED BY <1>2, <1>3, <1>4 DEF VectorMembers

\* What a thread has loaded is what is there as long as no calls have overlapped.
LEMMA LoadedIsCurrent ==
    ASSUME RecordingTyped, Serial, NEW r \in Region, holding[r], ~overlapped
    PROVE  copy[r][Current(r)] = shared[Current(r)]
<1>1. r \in Recording
  BY DEF RecordingTyped, Recording
<1>2. PICK before \in CollectorSet, told \in Seq(Event) : BeforeCall(r, before, told)
  BY <1>1 DEF Serial
<1>3. PICK k \in 0..7 : k = member[r]
  BY DEF RecordingTyped
<1>4. ~(k < k)
  OBVIOUS
<1> QED BY <1>2, <1>3, <1>4 DEF BeforeCall, Current

\* A store of the model is such a step: the vector's end is where it was.
LEMMA StoreShape ==
    ASSUME RecordingTyped, Serial, NEW r \in Region, Store(r), ~overlapped
    PROVE  StoreWrites(r)
<1>1. holding[r] /\ event[r] \in Event /\ member[r] \in 0..7 /\ copy[r] \in CollectorSet
  BY DEF RecordingTyped, Store
<1>2. shared' = Mix(shared, Record(copy[r], event[r]), Members[member[r] + 1])
  <2>1. ASSUME Current(r) \in VectorMembers
        PROVE  PushedOver(r) = Updated(r)
    <3> DEFINE old == copy[r][Current(r)]
    <3>1. copy[r][Current(r)] = old /\ shared[Current(r)] = old
      BY <1>1, LoadedIsCurrent
    <3>2. PICK T : old \in Seq(T) /\ \E x \in T : Record(copy[r], event[r])[Current(r)] = Append(old, x)
      BY <1>1, <2>1, VectorsGrow
    <3>3. PICK x \in T : Updated(r) = Append(old, x)
      BY <3>2 DEF Updated
    <3>4. Last(Updated(r)) = x
      BY <3>2, <3>3 DEF Last
    <3> HIDE DEF old
    <3>5. PushedOver(r) = [j \in 1..(Len(old) + 1) |->
                 IF j = Len(old) + 1 THEN x ELSE IF j <= Len(old) THEN old[j] ELSE Unwritten]
      <4>1. PushedOver(r) = [j \in 1..(Len(shared[Current(r)]) + 1) |->
                 IF j = Len(copy[r][Current(r)]) + 1 THEN Last(Updated(r))
                 ELSE IF j <= Len(shared[Current(r)]) THEN shared[Current(r)][j] ELSE Unwritten]
        BY DEF PushedOver
      <4> QED BY <3>1, <3>4, <4>1, Zenon
    <3>6. PushedOver(r) = Append(old, x)
      <4>1. old \in Seq(T) /\ x \in T
        BY <3>2, <3>3
      <4>2. [j \in 1..(Len(old) + 1) |->
                 IF j = Len(old) + 1 THEN x ELSE IF j <= Len(old) THEN old[j] ELSE Unwritten]
            = Append(old, x)
        BY <4>1, PushedAtEnd
      <4> QED BY <3>5, <4>2
    <3> QED BY <3>3, <3>6
  <2>2. shared' = [shared EXCEPT ![Current(r)] = Updated(r)]
    BY <2>1 DEF Store, Written
  <2> QED BY <2>2 DEF Updated, Current, Mix
<1>3. (member[r] + 1 = Len(Members)) <=> member[r] = 7
  BY <1>1, MembersOf
<1>4. /\ member' = [member EXCEPT ![r] = IF member[r] = 7 THEN 0 ELSE member[r] + 1]
      /\ event' = [event EXCEPT ![r] = IF member[r] = 7 THEN NoEvent ELSE event[r]]
  BY <1>1, <1>3 DEF Store, RecordingTyped
<1>5. event = [event EXCEPT ![r] = event[r]]
  BY DEF RecordingTyped
<1>6. IF member[r] = 7
      THEN member' = [member EXCEPT ![r] = 0] /\ event' = [event EXCEPT ![r] = NoEvent]
      ELSE member' = [member EXCEPT ![r] = member[r] + 1] /\ event' = event
  BY <1>4, <1>5
<1> QED BY <1>1, <1>2, <1>6 DEF StoreWrites, Store

\* What a load leaves.
LEMMA LoadShape ==
    ASSUME RecordingTyped, ~overlapped, NEW r \in Region, Load(r)
    PROVE  /\ event[r] \in Event /\ member[r] \in 0..7
           /\ copy' = [copy EXCEPT ![r] = Mix(copy[r], shared, Members[member[r] + 1])]
  BY DEF RecordingTyped, Load, Mix, Current

\* The types of a store, whatever the collector has come to.
LEMMA StoreTyped ==
    ASSUME RecordingAssumption, RecordingTyped, Serial, NEW r \in Region, Store(r)
    PROVE  RecordingTyped'
<1>1. holding[r] /\ event[r] \in Event /\ event[r] # NoEvent /\ member[r] \in 0..7
  BY DEF RecordingTyped, Store
<1>2. (member[r] + 1 = Len(Members)) <=> member[r] = 7
  BY <1>1, MembersOf
<1>3. /\ member' = [member EXCEPT ![r] = IF member[r] = 7 THEN 0 ELSE member[r] + 1]
      /\ event' = [event EXCEPT ![r] = IF member[r] = 7 THEN NoEvent ELSE event[r]]
      /\ holding' = [holding EXCEPT ![r] = FALSE]
      /\ reported' = reported /\ overlapped' = overlapped
  BY <1>1, <1>2 DEF Store, RecordingTyped
<1>4. /\ (IF member[r] = 7 THEN 0 ELSE member[r] + 1) \in 0..7
      /\ (IF member[r] = 7 THEN NoEvent ELSE event[r]) \in Event \cup {NoEvent}
  BY <1>1
<1>5. /\ event' \in [Region -> Event \cup {NoEvent}]
      /\ member' \in [Region -> 0..7] /\ holding' \in [Region -> BOOLEAN]
      /\ reported' \in Seq(Event)
  BY <1>3, <1>4 DEF RecordingTyped
<1>6. \A s \in Region : /\ member'[s] = IF s = r THEN IF member[r] = 7 THEN 0 ELSE member[r] + 1
                                        ELSE member[s]
                        /\ event'[s] = IF s = r THEN IF member[r] = 7 THEN NoEvent ELSE event[r]
                                       ELSE event[s]
                        /\ holding'[s] = IF s = r THEN FALSE ELSE holding[s]
  BY <1>3 DEF RecordingTyped
<1>7. /\ \A s \in Region : holding'[s] => event'[s] # NoEvent
      /\ \A s \in Region : event'[s] = NoEvent => member'[s] = 0
  BY <1>1, <1>6 DEF RecordingTyped
<1>8. ASSUME ~overlapped
      PROVE  shared' \in CollectorSet /\ copy' \in [Region -> CollectorSet]
  <2>1. StoreWrites(r)
    BY <1>8, StoreShape
  <2>2. shared \in CollectorSet /\ copy \in [Region -> CollectorSet]
    BY <1>8 DEF RecordingTyped
  <2>3. Record(copy[r], event[r]) \in CollectorSet
    BY <1>1, <2>2, RecordTyped
  <2>4. shared' \in CollectorSet
    BY <1>1, <2>1, <2>2, <2>3, MixTyped DEF StoreWrites
  <2> QED BY <2>1, <2>2, <2>4, EmptyTyped DEF StoreWrites
<1> QED BY <1>3, <1>5, <1>7, <1>8 DEF RecordingTyped

\* The types hold, whatever a thread does.
LEMMA RecordingTypedInductive ==
    ASSUME RecordingAssumption
    PROVE  /\ RecordingInit => RecordingTyped
           /\ RecordingTyped /\ Serial /\ [RecordingNext]_recordingVars => RecordingTyped'
<1>1. ASSUME RecordingInit PROVE RecordingTyped
  <2>1. <<>> \in Seq(Event) /\ 0 \in 0..7 /\ FALSE \in BOOLEAN
    OBVIOUS
  <2> QED BY <1>1, <2>1, EmptyTyped DEF RecordingInit, RecordingTyped
<1>2. ASSUME RecordingTyped, Serial, RecordingNext PROVE RecordingTyped'
  <2>1. ASSUME NEW r \in Region, Report(r) PROVE RecordingTyped'
    <3>1. PICK e \in Event : /\ event' = [event EXCEPT ![r] = e]
                             /\ reported' = Append(reported, e)
      BY <2>1 DEF Report
    <3>2. reported' \in Seq(Event) /\ event' \in [Region -> Event \cup {NoEvent}]
      BY <1>2, <3>1 DEF RecordingTyped
    <3>3. /\ UNCHANGED <<shared, member, holding, copy>> /\ event[r] = NoEvent
          /\ ~overlapped' => ~overlapped
      BY <2>1 DEF Report
    <3>4. \A s \in Region : /\ event'[s] = IF s = r THEN e ELSE event[s]
                            /\ e # NoEvent
      BY <1>2, <3>1 DEF RecordingAssumption, RecordingTyped
    <3> QED BY <1>2, <3>2, <3>3, <3>4 DEF RecordingTyped
  <2>2. ASSUME NEW r \in Region, Load(r) PROVE RecordingTyped'
    <3>1. /\ holding' = [holding EXCEPT ![r] = TRUE] /\ event[r] # NoEvent
          /\ UNCHANGED <<shared, event, member, reported, overlapped>>
      BY <2>2 DEF Load
    <3>2. ASSUME ~overlapped PROVE copy' \in [Region -> CollectorSet]
      <4>1. Mix(copy[r], shared, Members[member[r] + 1]) \in CollectorSet
        BY <1>2, <3>2, MixTyped DEF RecordingTyped
      <4> QED BY <1>2, <2>2, <3>2, <4>1, LoadShape DEF RecordingTyped
    <3> QED BY <1>2, <3>1, <3>2 DEF RecordingTyped
  <2>3. ASSUME NEW r \in Region, Store(r) PROVE RecordingTyped'
    BY <1>2, <2>3, StoreTyped
  <2>4. ASSUME NEW r \in Region, NEW s \in Region, Corrupt(r, s) PROVE RecordingTyped'
    BY <1>2, <2>4 DEF Corrupt, RecordingTyped
  <2> QED BY <1>2, <2>1, <2>2, <2>3, <2>4 DEF RecordingNext, Thread
<1>3. ASSUME RecordingTyped, UNCHANGED recordingVars PROVE RecordingTyped'
  BY <1>3 DEF RecordingTyped, recordingVars
<1> QED BY <1>1, <1>2, <1>3

\* What a call writes to a member depends on that member and its event alone.
LEMMA RecordMember ==
    ASSUME NEW c \in CollectorSet, NEW d \in CollectorSet, NEW e \in Event, NEW k \in 0..7,
           c[Members[k + 1]] = d[Members[k + 1]]
    PROVE  Record(c, e)[Members[k + 1]] = Record(d, e)[Members[k + 1]]
<1>1. k = 0 \/ k = 1 \/ k = 2 \/ k = 3 \/ k = 4 \/ k = 5 \/ k = 6 \/ k = 7
  OBVIOUS
<1>2. CASE k = 0
  <2>1. c.measurements = d.measurements
    BY <1>2, MembersOf
  <2>2. Record(c, e).measurements = Record(d, e).measurements
    BY <2>1 DEF Record, CollectorSet
  <2> QED BY <1>2, <2>2, MembersOf
<1>3. CASE k = 1
  <2>1. c.total = d.total
    BY <1>3, MembersOf
  <2>2. Record(c, e).total = Record(d, e).total
    BY <2>1 DEF Record, CollectorSet
  <2> QED BY <1>3, <2>2, MembersOf
<1>4. CASE k = 2
  <2>1. c.duration = d.duration
    BY <1>4, MembersOf
  <2>2. Record(c, e).duration = Record(d, e).duration
    BY <2>1 DEF Record, CollectorSet
  <2> QED BY <1>4, <2>2, MembersOf
<1>5. CASE k = 3
  <2>1. c.count = d.count
    BY <1>5, MembersOf
  <2>2. Record(c, e).count = Record(d, e).count
    BY <2>1 DEF Record, CollectorSet
  <2> QED BY <1>5, <2>2, MembersOf
<1>6. CASE k = 4
  <2>1. c.memSamples = d.memSamples
    BY <1>6, MembersOf
  <2>2. Record(c, e).memSamples = Record(d, e).memSamples
    BY <2>1 DEF Record, CollectorSet
  <2> QED BY <1>6, <2>2, MembersOf
<1>7. CASE k = 5
  <2>1. c.objSamples = d.objSamples
    BY <1>7, MembersOf
  <2>2. Record(c, e).objSamples = Record(d, e).objSamples
    BY <2>1 DEF Record, CollectorSet
  <2> QED BY <1>7, <2>2, MembersOf
<1>8. CASE k = 6
  <2>1. c.peakMem = d.peakMem
    BY <1>8, MembersOf
  <2>2. Record(c, e).peakMem = Record(d, e).peakMem
    BY <2>1 DEF Record, CollectorSet
  <2> QED BY <1>8, <2>2, MembersOf
<1>9. CASE k = 7
  <2>1. c.peakObj = d.peakObj
    BY <1>9, MembersOf
  <2>2. Record(c, e).peakObj = Record(d, e).peakObj
    BY <2>1 DEF Record, CollectorSet
  <2> QED BY <1>9, <2>2, MembersOf
<1> QED BY <1>1, <1>2, <1>3, <1>4, <1>5, <1>6, <1>7, <1>8, <1>9

\* Collectors with the same members are the same.
LEMMA SameMembers ==
    ASSUME NEW c \in CollectorSet, NEW d \in CollectorSet,
           \A k \in 0..7 : c[Members[k + 1]] = d[Members[k + 1]]
    PROVE  c = d
<1> DEFINE M(k) == Members[k + 1]
<1>1. /\ M(0) = "measurements" /\ M(1) = "total" /\ M(2) = "duration"
      /\ M(3) = "count" /\ M(4) = "memSamples" /\ M(5) = "objSamples"
      /\ M(6) = "peakMem" /\ M(7) = "peakObj"
  BY MembersOf
<1>2. \A k \in 0..7 : c[M(k)] = d[M(k)]
  OBVIOUS
<1>3. 0 \in 0..7 /\ 1 \in 0..7 /\ 2 \in 0..7 /\ 3 \in 0..7 /\ 4 \in 0..7 /\ 5 \in 0..7
      /\ 6 \in 0..7 /\ 7 \in 0..7
  OBVIOUS
<1> HIDE DEF M
<1>4. /\ c.measurements = d.measurements /\ c.total = d.total /\ c.duration = d.duration
      /\ c.count = d.count /\ c.memSamples = d.memSamples /\ c.objSamples = d.objSamples
      /\ c.peakMem = d.peakMem /\ c.peakObj = d.peakObj
  BY <1>1, <1>2, <1>3
<1> DEFINE names == {"measurements", "total", "duration", "count", "memSamples", "objSamples",
                     "peakMem", "peakObj"}
<1>5. \A x \in CollectorSet : x = [m \in names |-> x[m]]
  BY DEF CollectorSet
<1>6. \A m \in names : c[m] = d[m]
  BY <1>4
<1> HIDE DEF names
<1>7. [m \in names |-> c[m]] = [m \in names |-> d[m]]
  BY <1>6
<1> QED BY <1>5, <1>7

\* The first call starts from a collector that tells of all before it.
LEMMA SerialReport ==
    ASSUME RecordingAssumption, RecordingTyped, Serial, NEW r \in Region, Report(r), ~overlapped'
    PROVE  Serial'
<1>1. Recording = {} /\ TellsOf(shared, reported) /\ shared \in CollectorSet
  BY DEF Report, Serial, RecordingTyped
<1>2. PICK e \in Event : event' = [event EXCEPT ![r] = e] /\ reported' = Append(reported, e)
  BY DEF Report
<1>3. /\ \A s \in Region : event'[s] = IF s = r THEN e ELSE event[s]
      /\ e # NoEvent /\ event'[r] = e
  BY <1>2 DEF RecordingAssumption, RecordingTyped
<1>4. Recording' = {r}
  BY <1>1, <1>3 DEF Recording
<1>5. /\ UNCHANGED <<shared, member, holding, copy>> /\ member[r] = 0 /\ ~holding[r]
  BY DEF RecordingTyped, Report
<1>6. \E before \in CollectorSet, told \in Seq(Event) : BeforeCall(r, before, told)'
  <2>1. PICK before \in CollectorSet, told \in Seq(Event) : before = shared /\ told = reported
    BY <1>1 DEF RecordingTyped
  <2>2. \A k \in 0..7 : ~(k < 0)
    OBVIOUS
  <2>3. BeforeCall(r, before, told)'
    BY <1>1, <1>2, <1>3, <1>5, <2>1, <2>2 DEF BeforeCall
  <2> QED BY <2>3
<1> QED BY <1>4, <1>6 DEF Serial

\* What it loads is a member that it has not updated.
LEMMA SerialLoad ==
    ASSUME RecordingTyped, Serial, NEW r \in Region, Load(r), ~overlapped'
    PROVE  Serial'
<1>1. /\ UNCHANGED <<shared, event, member, overlapped, reported>> /\ r \in Recording
      /\ holding' = [holding EXCEPT ![r] = TRUE]
  BY DEF Load, Recording
<1>2. Recording = {r} /\ Recording' = {r}
  BY <1>1 DEF Serial, Recording
<1>3. PICK before \in CollectorSet, told \in Seq(Event) : BeforeCall(r, before, told)
  BY <1>1 DEF Serial
<1>4. PICK k \in 0..7 : k = member[r]
  BY DEF RecordingTyped
<1>5. copy'[r] = Mix(copy[r], shared, Members[k + 1])
  BY <1>1, <1>4, LoadShape DEF RecordingTyped
<1>6. copy'[r][Members[k + 1]] = shared[Members[k + 1]]
  BY <1>1, <1>5, MixTyped DEF RecordingTyped
<1>7. shared[Members[k + 1]] = before[Members[k + 1]]
  <2>1. ~(k < k)
    OBVIOUS
  <2> QED BY <1>3, <1>4, <2>1 DEF BeforeCall
<1>8. BeforeCall(r, before, told)'
  BY <1>1, <1>3, <1>4, <1>6, <1>7 DEF BeforeCall
<1> QED BY <1>2, <1>8 DEF Serial

\* What it stores is that member with its event recorded; the last store leaves a
\* collector with all of them.
LEMMA SerialStore ==
    ASSUME RecordingAssumption, RecordingTyped, Serial, NEW r \in Region, Store(r), ~overlapped'
    PROVE  Serial'
<1>1. StoreWrites(r)
  BY StoreShape DEF Store
<1>2. PICK e \in Event : e = event[r]
  BY <1>1 DEF StoreWrites
<1>3. r \in Recording /\ holding[r] /\ reported' = reported /\ ~overlapped
  BY <1>1 DEF RecordingAssumption, StoreWrites, Recording
<1>4. PICK before \in CollectorSet, told \in Seq(Event) : BeforeCall(r, before, told)
  BY <1>3 DEF Serial
<1>5. Recording = {r}
  BY <1>3 DEF Serial
<1>6. PICK k \in 0..7 : k = member[r]
  BY DEF RecordingTyped
<1> DEFINE next == Record(before, e)
           read == Record(copy[r], e)
<1>7. /\ shared \in CollectorSet /\ copy[r] \in CollectorSet
      /\ shared' = Mix(shared, read, Members[k + 1])
  BY <1>1, <1>2, <1>6 DEF RecordingTyped, StoreWrites
<1>8. next \in CollectorSet /\ read \in CollectorSet
  BY <1>7, RecordTyped
<1>9. read[Members[k + 1]] = next[Members[k + 1]]
  <2>1. copy[r][Members[k + 1]] = before[Members[k + 1]]
    BY <1>3, <1>4, <1>6 DEF BeforeCall
  <2> QED BY <1>7, <2>1, RecordMember
<1>10. \A j \in 0..7 : shared[Members[j + 1]]
                       = IF j < k THEN next[Members[j + 1]] ELSE before[Members[j + 1]]
  BY <1>2, <1>4, <1>6 DEF BeforeCall
<1>11. reported = Append(told, e) /\ TellsOf(before, told)
  BY <1>2, <1>4 DEF BeforeCall
<1>12. TellsOf(next, reported)
  BY <1>11, RecordTells
<1> HIDE DEF next, read
<1>13. /\ shared' \in CollectorSet /\ shared'[Members[k + 1]] = next[Members[k + 1]]
       /\ \A j \in 0..7 : j # k => shared'[Members[j + 1]] = shared[Members[j + 1]]
  BY <1>7, <1>8, <1>9, MixTyped
<1>14. ASSUME NEW j \in 0..7
       PROVE  shared'[Members[j + 1]]
              = IF j < k + 1 THEN next[Members[j + 1]] ELSE before[Members[j + 1]]
  <2>1. CASE j = k
    <3>1. j < k + 1
      BY <2>1
    <3> QED BY <1>13, <2>1, <3>1
  <2>2. CASE j # k
    <3>1. (j < k + 1) <=> (j < k)
      BY <2>2
    <3> QED BY <1>10, <1>13, <2>2, <3>1
  <2> QED BY <2>1, <2>2
<1>15. \A s \in Region : s # r => event'[s] = event[s]
  BY <1>1 DEF StoreWrites, RecordingTyped
<1>16. CASE k = 7
  <2>1. Recording' = {}
    <3>1. event'[r] = NoEvent
      BY <1>1, <1>6, <1>16 DEF StoreWrites, RecordingTyped
    <3> QED BY <1>5, <1>15, <3>1 DEF Recording
  <2>2. \A j \in 0..7 : j < k + 1
    BY <1>16
  <2>3. shared' = next
    BY <1>8, <1>13, <1>14, <2>2, SameMembers
  <2> QED BY <1>3, <1>12, <2>1, <2>3 DEF Serial
<1>17. CASE k # 7
  <2>1. event' = event /\ member'[r] = k + 1 /\ ~holding'[r]
    BY <1>1, <1>6, <1>17 DEF StoreWrites, RecordingTyped
  <2>2. Recording' = {r}
    BY <1>5, <2>1 DEF Recording
  <2>3. BeforeCall(r, before, told)'
    BY <1>2, <1>3, <1>11, <1>14, <2>1 DEF BeforeCall, next
  <2> QED BY <2>2, <2>3 DEF Serial
<1> QED BY <1>16, <1>17

\* As long as calls do not overlap this goes on.
LEMMA SerialInductive ==
    ASSUME RecordingAssumption
    PROVE  /\ RecordingInit => Serial
           /\ RecordingTyped /\ Serial /\ [RecordingNext]_recordingVars => Serial'
<1>1. ASSUME RecordingInit PROVE Serial
  <2>1. Recording = {} /\ shared = EmptyCollector /\ reported = <<>>
    BY <1>1 DEF RecordingInit, Recording
  <2> QED BY <2>1, EmptyTells DEF Serial
<1>2. ASSUME Serial, UNCHANGED <<shared, event, member, holding, copy, overlapped, reported>>
      PROVE  Serial'
  BY <1>2 DEF Serial, BeforeCall, Recording
<1>3. ASSUME RecordingTyped, Serial, RecordingNext PROVE Serial'
  <2>1. ASSUME NEW r \in Region, NEW s \in Region, Corrupt(r, s) PROVE Serial'
    BY <1>2, <1>3, <2>1 DEF Corrupt
  <2>2. CASE overlapped'
    BY <2>2 DEF Serial
  <2>3. CASE ~overlapped'
    BY <1>3, <2>1, <2>3, SerialReport, SerialLoad, SerialStore DEF RecordingNext, Thread
  <2> QED BY <2>2, <2>3
<1>4. ASSUME RecordingTyped, Serial, UNCHANGED recordingVars PROVE Serial'
  BY <1>2, <1>4 DEF recordingVars
<1> QED BY <1>1, <1>3, <1>4

\* As long as no two calls have overlapped, every member of the collector that
\* run_benchmark reads tells of every event reported, whichever regions and in
\* whichever order they came from.
THEOREM SerialTellsAll == RecordingAssumption => (RecordingSpec => []CollectorTellsAll)
<1> SUFFICES ASSUME RecordingAssumption
             PROVE  RecordingSpec => []CollectorTellsAll
  OBVIOUS
<1>1. Serial => CollectorTellsAll
  BY DEF Serial, CollectorTellsAll, Quiescent
<1>2. RecordingInit => RecordingTyped /\ Serial
  BY RecordingTypedInductive, SerialInductive
<1>3. RecordingTyped /\ Serial /\ [RecordingNext]_recordingVars => (RecordingTyped /\ Serial)'
  BY RecordingTypedInductive, SerialInductive
<1> QED BY <1>1, <1>2, <1>3, PTL DEF RecordingSpec

-----------------------------------------------------------------------------
\* Percentiles

\* The measurements that do not come behind the i-th when they are sorted.
UpTo(d, i) == {j \in 1..Len(d) : d[j] < d[i] \/ (d[j] = d[i] /\ j <= i)}

\* They are finitely many, the i-th among them.
LEMMA PlaceBounds ==
    ASSUME NEW d \in Seq(Nat), NEW i \in 1..Len(d)
    PROVE  /\ IsFiniteSet(UpTo(d, i))
           /\ Cardinality(UpTo(d, i)) \in 1..Len(d)
<1>1. IsFiniteSet(1..Len(d)) /\ Cardinality(1..Len(d)) = Len(d) /\ Len(d) \in Nat
  <2>1. \A n \in Nat : IsFiniteSet(1..n) /\ Cardinality(1..n) = n
    BY FS_Interval
  <2> QED BY <2>1
<1>2. UpTo(d, i) \in SUBSET (1..Len(d)) /\ i \in UpTo(d, i)
  BY DEF UpTo
<1>3. IsFiniteSet(UpTo(d, i)) /\ Cardinality(UpTo(d, i)) <= Len(d)
  BY <1>1, <1>2, FS_Subset
<1>4. Cardinality(UpTo(d, i)) \in Nat
  BY <1>3, FS_CardinalityType
<1>5. Cardinality(UpTo(d, i)) # 0
  BY <1>2, <1>3, FS_EmptySet
<1> QED BY <1>1, <1>3, <1>4, <1>5

\* No two stand at the same place.
LEMMA PlacesDiffer ==
    ASSUME NEW d \in Seq(Nat), NEW i \in 1..Len(d), NEW j \in 1..Len(d), i # j
    PROVE  Cardinality(UpTo(d, i)) # Cardinality(UpTo(d, j))
<1>0. \A k \in 1..Len(d) : d[k] \in Nat /\ k \in Nat
  OBVIOUS
<1>1. ASSUME NEW a \in 1..Len(d), NEW b \in 1..Len(d), a # b, d[a] < d[b] \/ (d[a] = d[b] /\ a <= b)
      PROVE  Cardinality(UpTo(d, a)) # Cardinality(UpTo(d, b))
  <2>1. ASSUME NEW x \in UpTo(d, a)
        PROVE  x \in UpTo(d, b)
    <3>1. PICK u \in Nat, v \in Nat, w \in Nat : u = d[x] /\ v = d[a] /\ w = d[b]
      BY <1>0 DEF UpTo
    <3>2. x \in 1..Len(d) /\ (u < v \/ (u = v /\ x <= a)) /\ (v < w \/ (v = w /\ a <= b))
      BY <1>1, <3>1 DEF UpTo
    <3>3. u < w \/ (u = w /\ x <= b)
      BY <1>0, <3>2
    <3> QED BY <3>1, <3>2, <3>3 DEF UpTo
  <2>2. b \in UpTo(d, b) /\ b \notin UpTo(d, a)
    BY <1>0, <1>1 DEF UpTo
  <2>3. UpTo(d, a) # UpTo(d, b)
    BY <2>2
  <2> QED BY <2>1, <2>3, PlaceBounds, FS_Subset
<1>2. \/ d[i] < d[j] \/ (d[i] = d[j] /\ i <= j)
      \/ d[j] < d[i] \/ (d[j] = d[i] /\ j <= i)
  BY <1>0
<1> QED BY <1>1, <1>2

\* So every place is taken: as many measurements as places.
LEMMA PlaceTaken ==
    ASSUME NEW d \in Seq(Nat), NEW k \in 1..Len(d)
    PROVE  \E i \in 1..Len(d) : Cardinality(UpTo(d, i)) = k
<1> DEFINE N == 1..Len(d)
           place == [i \in N |-> Cardinality(UpTo(d, i))]
<1>1. IsFiniteSet(N) /\ Cardinality(N) = Len(d) /\ Len(d) \in Nat
  <2>1. \A n \in Nat : IsFiniteSet(1..n) /\ Cardinality(1..n) = n
    BY FS_Interval
  <2> QED BY <2>1
<1>2. place \in [N -> N]
  BY PlaceBounds
<1>3. \A i, j \in N : place[i] = place[j] => i = j
  BY PlacesDiffer
<1>4. k \in N /\ \A i \in N : place[i] = Cardinality(UpTo(d, i))
  OBVIOUS
<1> HIDE DEF N, place
<1>5. place \in Injection(N, N)
  BY <1>2, <1>3, Zenon DEF Injection, IsInjective
<1>6. place \in Surjection(N, N)
  BY <1>1, <1>5, FS_Injection
<1> QED BY <1>4, <1>6 DEF Surjection, N

\* The measurement at a place has fewer smaller ones than that, and with its
\* equals at least as many.
LEMMA PlaceRanked ==
    ASSUME NEW d \in Seq(Nat), NEW i \in 1..Len(d)
    PROVE  LET k == Cardinality(UpTo(d, i))
           IN  /\ Cardinality({j \in 1..Len(d) : d[j] < d[i]}) <= k - 1
               /\ k <= Cardinality({j \in 1..Len(d) : d[j] <= d[i]})
<1> DEFINE k == Cardinality(UpTo(d, i))
           below == {j \in 1..Len(d) : d[j] < d[i]}
           upTo == {j \in 1..Len(d) : d[j] <= d[i]}
<1>0. \A j \in 1..Len(d) : d[j] \in Nat /\ j \in Nat
  OBVIOUS
<1>1. below \subseteq UpTo(d, i) \ {i} /\ UpTo(d, i) \subseteq upTo /\ i \in UpTo(d, i)
  BY <1>0 DEF UpTo
<1>2. upTo \subseteq 1..Len(d)
  OBVIOUS
<1>3. IsFiniteSet(1..Len(d))
  <2>1. Len(d) \in Nat /\ \A n \in Nat : IsFiniteSet(1..n)
    BY FS_Interval
  <2> QED BY <2>1
<1>4. IsFiniteSet(UpTo(d, i)) /\ k \in Nat
  BY PlaceBounds, FS_CardinalityType
<1> HIDE DEF below, upTo
<1>5. Cardinality(UpTo(d, i) \ {i}) = k - 1 /\ IsFiniteSet(UpTo(d, i) \ {i})
  BY <1>1, <1>4, FS_RemoveElement
<1>6. Cardinality(below) <= k - 1
  BY <1>1, <1>5, FS_Subset
<1>7. k <= Cardinality(upTo)
  BY <1>1, <1>2, <1>3, FS_Subset
<1> QED BY <1>6, <1>7 DEF below, upTo

\* The index calculate_percentile rounds down to is one of the list.
LEMMA RankInList ==
    ASSUME NEW n \in Nat \ {0}, NEW p \in 0..100
    PROVE  (p * (n - 1)) \div 100 \in 0..(n - 1)
<1>1. PICK m \in Nat : m = n - 1
  OBVIOUS
<1>2. p * m \in Nat /\ p * m <= 100 * m
  BY Z3
<1>3. (p * m) \div 100 \in Nat /\ (p * m) \div 100 <= m
  <2>1. PICK q \in Nat : q = p * m
    BY <1>2
  <2>2. q <= 100 * m
    BY <1>2, <2>1
  <2>3. q \div 100 \in Nat /\ q \div 100 <= m
    BY <2>2
  <2> QED BY <2>1, <2>3
<1> QED BY <1>1, <1>3

\* What calculate_percentile returns is one of the measurements, and it stands
\* where the percentage says.
LEMMA PercentileRanked ==
    ASSUME all \in Seq(Measurement), all # <<>>, NEW p \in 0..100
    PROVE  Percentile(p) \in Nat /\ RankedAt(Percentile(p), p)
<1> DEFINE d == Durations(all)
           rank == (p * (Len(all) - 1)) \div 100
           At(k) == CHOOSE i \in 1..Len(d) : Cardinality(UpTo(d, i)) = k
<1>1. d \in Seq(Nat) /\ Len(d) = Len(all) /\ \A i \in 1..Len(all) : d[i] = all[i].dur
  BY DurationsTyped DEF Durations
<1>2. Len(all) \in Nat \ {0}
  OBVIOUS
<1>3. rank \in Nat /\ rank + 1 \in 1..Len(d)
  <2>1. rank \in 0..(Len(all) - 1)
    BY <1>2, RankInList
  <2> HIDE DEF rank
  <2> QED BY <1>1, <1>2, <2>1
<1>4. Percentile(p) = d[At(rank + 1)]
  <2>1. SortedDurations = [k \in 1..Len(d) |-> d[At(k)]]
    BY DEF SortedDurations, UpTo
  <2>2. Percentile(p) = SortedDurations[1 + rank]
    BY DEF Percentile
  <2> HIDE DEF d, rank, At
  <2> QED BY <1>3, <2>1, <2>2
<1> HIDE DEF d, rank
<1>5. PICK i \in 1..Len(d) : i = At(rank + 1) /\ Cardinality(UpTo(d, i)) = rank + 1
  BY <1>1, <1>3, PlaceTaken
<1> HIDE DEF At
<1>6. d[i] \in Nat /\ Percentile(p) = d[i]
  BY <1>1, <1>4, <1>5
<1>7. /\ Cardinality({j \in 1..Len(d) : d[j] < d[i]}) <= rank
      /\ rank + 1 <= Cardinality({j \in 1..Len(d) : d[j] <= d[i]})
  <2>1. /\ Cardinality({j \in 1..Len(d) : d[j] < d[i]}) <= Cardinality(UpTo(d, i)) - 1
        /\ Cardinality(UpTo(d, i)) <= Cardinality({j \in 1..Len(d) : d[j] <= d[i]})
    BY <1>1, PlaceRanked
  <2>2. (rank + 1) - 1 = rank
    BY <1>3
  <2> QED BY <1>5, <2>1, <2>2
<1>8. /\ {j \in 1..Len(d) : d[j] < d[i]} = {j \in 1..Len(all) : all[j].dur < d[i]}
      /\ {j \in 1..Len(d) : d[j] <= d[i]} = {j \in 1..Len(all) : all[j].dur <= d[i]}
  BY <1>1
<1>9. Cardinality({j \in 1..Len(all) : all[j].dur <= d[i]}) \in Nat
  <2>1. Len(all) \in Nat /\ \A n \in Nat : IsFiniteSet(1..n)
    BY FS_Interval
  <2>2. {j \in 1..Len(all) : all[j].dur <= d[i]} \subseteq 1..Len(all)
    OBVIOUS
  <2> QED BY <2>1, <2>2, FS_Subset, FS_CardinalityType
<1>10. /\ Cardinality({j \in 1..Len(all) : all[j].dur < d[i]}) <= rank
       /\ rank < Cardinality({j \in 1..Len(all) : all[j].dur <= d[i]})
  <2>1. PICK u \in Nat : u = Cardinality({j \in 1..Len(all) : all[j].dur <= d[i]})
    BY <1>9
  <2>2. rank + 1 <= u
    BY <1>7, <1>8, <2>1
  <2>3. rank < u
    BY <1>3, <2>2
  <2> QED BY <1>7, <1>8, <2>1, <2>3
<1> QED BY <1>6, <1>10 DEF RankedAt, rank

\* A measurement further up in the order is no smaller.
LEMMA RanksOrdered ==
    ASSUME all \in Seq(Measurement), NEW v \in Nat, NEW w \in Nat,
           NEW p \in 0..100, NEW q \in 0..100, p <= q, RankedAt(v, p), RankedAt(w, q), all # <<>>
    PROVE  v <= w
<1> SUFFICES ASSUME w < v PROVE FALSE
  OBVIOUS
<1> DEFINE below == {i \in 1..Len(all) : all[i].dur < v}
           upTo == {i \in 1..Len(all) : all[i].dur <= w}
<1>1. Len(all) \in Nat \ {0} /\ \A i \in 1..Len(all) : all[i].dur \in Nat
  <2>1. Len(all) \in Nat \ {0} /\ \A i \in 1..Len(all) : all[i] \in Measurement
    OBVIOUS
  <2> QED BY <2>1 DEF Measurement
<1>2. upTo \subseteq below /\ below \subseteq 1..Len(all)
  BY <1>1
<1>3. IsFiniteSet(1..Len(all))
  <2>1. \A n \in Nat : IsFiniteSet(1..n)
    BY FS_Interval
  <2> QED BY <1>1, <2>1
<1>4. PICK r \in Nat, t \in Nat : /\ r = (p * (Len(all) - 1)) \div 100
                                  /\ t = (q * (Len(all) - 1)) \div 100
  <2>1. /\ (p * (Len(all) - 1)) \div 100 \in 0..(Len(all) - 1)
        /\ (q * (Len(all) - 1)) \div 100 \in 0..(Len(all) - 1)
    BY <1>1, RankInList
  <2> QED BY <2>1
<1>5. r <= t
  <2>1. PICK m \in Nat : m = Len(all) - 1
    BY <1>1
  <2>2. p * m \in Nat /\ q * m \in Nat /\ p * m <= q * m
    BY Z3
  <2>3. PICK a \in Nat, b \in Nat : a = p * m /\ b = q * m
    BY <2>2
  <2>4. a <= b /\ r = a \div 100 /\ t = b \div 100
    BY <1>4, <2>1, <2>2, <2>3
  <2> QED BY <2>4
<1>6. Cardinality(below) <= r /\ t < Cardinality(upTo)
  BY <1>4 DEF RankedAt
<1> HIDE DEF below, upTo
<1>7. IsFiniteSet(below) /\ Cardinality(upTo) <= Cardinality(below)
  BY <1>2, <1>3, FS_Subset
<1>8. Cardinality(below) \in Nat /\ Cardinality(upTo) \in Nat
  BY <1>2, <1>7, FS_Subset, FS_CardinalityType
<1> QED BY <1>5, <1>6, <1>7, <1>8

\* What is written and what is printed has the percentiles of all measurements:
\* nothing is measured any more.
PercentilesOf(summary) == summary.p50 = Percentile(50) /\ summary.p99 = Percentile(99)

Summarised ==
    /\ csv # NoFile => at \in {"table", "close", "exited"} /\ PercentilesOf(csv)
    /\ table # NoTable => at \in {"close", "exited"} /\ PercentilesOf(table)

\* Every step keeps that.
LEMMA SummarisedInductive ==
    ASSUME Progress, Inv, Summarised, [Next]_vars
    PROVE  Summarised'
<1> USE DEF harnessVars, resultVars
<1>0. ASSUME UNCHANGED all
      PROVE  Percentile(50)' = Percentile(50) /\ Percentile(99)' = Percentile(99)
  BY <1>0 DEF Percentile, SortedDurations
<1>1. CASE ReadOption \/ StoulThrows \/ Usage \/ FoundPath
  <2>1. UNCHANGED <<all, csv, table>> /\ at = "args"
    BY <1>1 DEF ReadOption, StoulThrows, Usage, FoundPath
  <2> QED BY <2>1 DEF Summarised
<1>2. CASE OpenFails \/ OpenLibrary \/ LookupFails \/ LookupEntry
  <2>1. UNCHANGED <<all, csv, table>> /\ at \in {"open", "lookup"}
    BY <1>2 DEF OpenFails, OpenLibrary, LookupFails, LookupEntry
  <2> QED BY <2>1 DEF Summarised
<1>3. CASE SkipArena \/ EndTypes \/ CsvThrows
  <2>1. UNCHANGED <<all, csv, table>> /\ at \in {"types", "csv"}
    BY <1>3 DEF SkipArena, EndTypes, CsvThrows
  <2> QED BY <2>1 DEF Summarised
<1>4. CASE BeginType \/ EndType \/ Measure \/ TestCollects \/ TestThrows
  <2>1. UNCHANGED <<csv, table>> /\ at = "types"
    BY <1>4 DEF BeginType, CallRunBenchmark, EndType, EndRuns, Measure, RunBenchmark, BeginWarmup,
                EndWarmup, EndWarmups, BeginRun, EndRun, EnterTest, LeaveTest, TestCollects,
                Collect, TestThrows
  <2> QED BY <2>1 DEF Summarised
<1>5. CASE SummaryCsv
  <2>1. at = "csv" /\ at' = "table" /\ UNCHANGED <<all, table>> /\ csv' \in {CsvFile, NoFile}
    BY <1>5 DEF SummaryCsv, WriteCsv
  <2>2. PercentilesOf(CsvFile)
    BY DEF PercentilesOf, CsvFile
  <2>3. csv' = CsvFile => PercentilesOf(csv)'
    BY <1>0, <2>1, <2>2 DEF PercentilesOf
  <2> QED BY <2>1, <2>3 DEF Summarised, NoFile, NoTable
<1>6. CASE SummaryTablePrinted
  <2>1. /\ at = "table" /\ at' = "close" /\ UNCHANGED <<all, csv>>
        /\ table' = NoTable \/ table' = SummaryTable
    BY <1>6 DEF SummaryTablePrinted, PrintTable
  <2>2. PercentilesOf(SummaryTable)
    BY DEF PercentilesOf, SummaryTable
  <2>3. table' = SummaryTable => PercentilesOf(table)'
    BY <1>0, <2>1, <2>2 DEF PercentilesOf
  <2>4. csv # NoFile => PercentilesOf(csv)'
    BY <1>0, <2>1 DEF PercentilesOf, Summarised
  <2> QED BY <2>1, <2>3, <2>4 DEF Summarised, NoFile, NoTable
<1>7. CASE CloseLibrary
  <2>1. at = "close" /\ at' = "exited" /\ UNCHANGED <<all, csv, table>>
    BY <1>7 DEF CloseLibrary, Exit
  <2>2. (csv # NoFile => PercentilesOf(csv)') /\ (table # NoTable => PercentilesOf(table)')
    BY <1>0, <2>1 DEF PercentilesOf, Summarised
  <2> QED BY <2>1, <2>2 DEF Summarised, NoFile, NoTable
<1>8. CASE UNCHANGED vars
  <2>1. UNCHANGED <<at, all, csv, table>>
    BY <1>8 DEF vars, driverVars
  <2>2. (csv # NoFile => PercentilesOf(csv)') /\ (table # NoTable => PercentilesOf(table)')
    BY <1>0, <2>1 DEF PercentilesOf, Summarised
  <2> QED BY <2>1, <2>2 DEF Summarised, NoFile, NoTable
<1> QED BY <1>1, <1>2, <1>3, <1>4, <1>5, <1>6, <1>7, <1>8 DEF Next, Step

\* The percentiles of the file and of the table are order statistics of all
\* that was measured, and the difference of the two never wraps.
THEOREM PercentilesTrue == Spec => []PercentilesRanked
<1>1. Init => Summarised
  BY DEF Init, HarnessInit, Summarised
<1>2. Progress /\ Inv /\ Summarised /\ [Next]_vars => Summarised'
  BY SummarisedInductive
<1>3. Typed /\ Summarised => PercentilesRanked
  <2> SUFFICES ASSUME Typed, Summarised, NEW s \in {csv, table} \ {NoFile, NoTable}
               PROVE  /\ all # <<>> => RankedAt(s.p50, 50) /\ RankedAt(s.p99, 99)
                      /\ all = <<>> => s.p50 = 0 /\ s.p99 = 0
                      /\ s.p50 <= s.p99
    BY DEF PercentilesRanked
  <2>1. s.p50 = Percentile(50) /\ s.p99 = Percentile(99) /\ all \in Seq(Measurement)
    BY DEF Summarised, PercentilesOf, Typed
  <2>2. CASE all = <<>>
    BY <2>1, <2>2 DEF Percentile
  <2>3. CASE all # <<>>
    <3>1. /\ Percentile(50) \in Nat /\ RankedAt(Percentile(50), 50)
          /\ Percentile(99) \in Nat /\ RankedAt(Percentile(99), 99)
      BY <2>1, <2>3, PercentileRanked
    <3>2. Percentile(50) <= Percentile(99)
      BY <2>1, <2>3, <3>1, RanksOrdered
    <3> QED BY <2>1, <2>3, <3>1, <3>2
  <2> QED BY <2>2, <2>3
<1> QED BY <1>1, <1>2, <1>3, AllHold, PTL DEF Spec

==============================================================================
