-------------------------- MODULE WorkloadTreeProofs --------------------------
(***************************************************************************)
(* run_test of workload_tree, for every set of depths, any number of       *)
(* transformations and each type of region: no pointer dangles, the counts *)
(* kept by hand are exact, the current tree is complete with the values it *)
(* should have, and the check on the heap never fails.  The inductive      *)
(* invariant lays the nodes out: old gives the node at each place of the   *)
(* current tree, new that of the tree being made, numbered breadth first,  *)
(* and place says which place each frame of the recursion is at.  Fields,  *)
(* values, frames and what is live are what the layout says.               *)
(***************************************************************************)
EXTENDS WorkloadTree, TLAPS, FiniteSetTheorems, NaturalsInduction, SequenceTheorems

-----------------------------------------------------------------------------
\* Induction and powers of two

\* A set of numbers with 0 and the successor of each of its members has them all.
LEMMA Induction ==
    ASSUME NEW S, 0 \in S, \A n \in Nat : n \in S => n + 1 \in S
    PROVE  Nat \subseteq S
<1> SUFFICES ASSUME Nat \ S # {} PROVE FALSE
  OBVIOUS
<1>1. PICK n \in Nat \ S : \A m \in Nat \ S : ~(<<m, n>> \in OpToRel(<, Nat))
  BY NatLessThanWellFounded, WFMin
<1>2. n # 0 /\ n - 1 \in Nat
  OBVIOUS
<1>3. n - 1 \in S
  BY <1>1, <1>2, n - 1 < n DEF OpToRel
<1> QED BY <1>2, <1>3

\* Course of values: a set that has a number as soon as it has all smaller ones.
LEMMA StrongInduction ==
    ASSUME NEW S, \A n \in Nat : (\A m \in Nat : m < n => m \in S) => n \in S
    PROVE  Nat \subseteq S
<1> DEFINE U == {n \in Nat : \A m \in Nat : m < n => m \in S}
<1>1. 0 \in U
  OBVIOUS
<1>2. ASSUME NEW n \in Nat, n \in U
      PROVE  n + 1 \in U
  <2>1. \A m \in Nat : m < n + 1 => m < n \/ m = n
    OBVIOUS
  <2>2. n \in S /\ \A m \in Nat : m < n => m \in S
    BY <1>2
  <2> QED BY <2>1, <2>2
<1>3. Nat \subseteq U
  <2> HIDE DEF U
  <2> QED BY <1>1, <1>2, Induction
<1> QED BY <1>3

\* How many numbers from 1 to n.
LEMMA Sized ==
    ASSUME NEW n \in Nat
    PROVE  IsFiniteSet(1..n) /\ Cardinality(1..n) = n
<1>1. \A m \in Nat : IsFiniteSet(1..m) /\ Cardinality(1..m) = m
  BY FS_Interval
<1> QED BY <1>1

\* 2^w counts the subsets of 1..w.
LEMMA PowerCounts ==
    ASSUME NEW w \in Nat
    PROVE  /\ IsFiniteSet(SUBSET (1..w)) /\ Cardinality(SUBSET (1..w)) = 2^w
           /\ 2^w \in Nat
<1>1. IsFiniteSet(1..w) /\ Cardinality(1..w) = w
  BY Sized
<1>2. IsFiniteSet(SUBSET (1..w)) /\ Cardinality(SUBSET (1..w)) = 2^w
  BY <1>1, FS_SUBSET, Zenon
<1> QED BY <1>2, FS_CardinalityType, Zenon

\* 2^0, from the one subset of the empty set.
LEMMA PowerZero == 2^0 = 1
<1>1. SUBSET (1..0) = {{}}
  BY 1..0 = {}
<1>2. Cardinality({{}}) = 1
  BY FS_Singleton
<1>3. 0 \in Nat
  OBVIOUS
<1> QED BY <1>1, <1>2, <1>3, PowerCounts, Zenon

\* The subsets with w + 1 are as many as those without.
LEMMA PowerStep ==
    ASSUME NEW w \in Nat
    PROVE  2^(w + 1) = 2 * 2^w /\ 2^w \in Nat \ {0}
<1> DEFINE A == SUBSET (1..w)
           With(x) == x \cup {w + 1}
           f == [x \in A |-> With(x)]
           B == {With(x) : x \in A}
<1>1. w + 1 \in Nat /\ w + 1 \notin 1..w /\ 1..(w + 1) = (1..w) \cup {w + 1}
  OBVIOUS
<1>2. \A x \in A : w + 1 \notin x
  BY <1>1
<1>3. f \in Bijection(A, B)
  <2>1. \A x, y \in A : With(x) = With(y) => x = y
    BY <1>2
  <2>2. \A x \in A : With(x) \in B
    OBVIOUS
  <2>3. f \in [A -> B] /\ \A x \in A : f[x] = With(x)
    BY <2>2
  <2>4. \A b \in B : \E x \in A : f[x] = b
    BY <2>3
  <2> HIDE DEF A, B, f, With
  <2>5. f \in Injection(A, B)
    BY <2>1, <2>3 DEF Injection, IsInjective
  <2>6. f \in Surjection(A, B)
    BY <2>3, <2>4 DEF Surjection
  <2> QED BY <2>5, <2>6 DEF Bijection
<1>4. SUBSET (1..(w + 1)) = A \cup B /\ A \cap B = {}
  <2>1. ASSUME NEW x \in SUBSET (1..(w + 1))
        PROVE  x \in A \cup B
    <3>1. CASE w + 1 \in x
      <4>1. x \ {w + 1} \in A /\ x = With(x \ {w + 1})
        BY <1>1, <3>1
      <4> QED BY <4>1
    <3>2. CASE w + 1 \notin x
      BY <1>1, <3>2
    <3> QED BY <3>1, <3>2
  <2>2. A \cup B \subseteq SUBSET (1..(w + 1))
    BY <1>1
  <2>3. A \cap B = {}
    BY <1>2
  <2> QED BY <2>1, <2>2, <2>3
<1>5. IsFiniteSet(A) /\ Cardinality(A) = 2^w /\ 2^w \in Nat
  BY PowerCounts
<1>6. Cardinality(A \cup B) = 2^(w + 1)
  BY <1>1, <1>4, PowerCounts, Zenon
<1>7. {} \in A
  OBVIOUS
<1> HIDE DEF A, B, f
<1>8. IsFiniteSet(B) /\ Cardinality(B) = 2^w
  BY <1>3, <1>5, FS_Bijection, Zenon DEF ExistsBijection
<1>9. Cardinality({}) = 0
  BY FS_EmptySet
<1>10. Cardinality(A \cup B) = Cardinality(A) + Cardinality(B) - Cardinality({})
  BY <1>4, <1>5, <1>8, FS_Union
<1>11. 2^w # 0
  BY <1>5, <1>7, FS_EmptySet
<1> QED BY <1>5, <1>6, <1>8, <1>9, <1>10, <1>11

\* Powers of two grow.
LEMMA PowerLess ==
    ASSUME NEW a \in Nat, NEW b \in Nat
    PROVE  /\ a < b => 2 * 2^a <= 2^b
           /\ a <= b => 2^a <= 2^b
<1> DEFINE Ok == {n \in Nat : 2^a <= 2^(a + n)}
<1>1. 0 \in Ok
  <2>1. a + 0 = a /\ 2^a \in Nat
    BY PowerStep
  <2> QED BY <2>1
<1>2. ASSUME NEW n \in Nat, n \in Ok
      PROVE  n + 1 \in Ok
  <2>1. a + n \in Nat /\ a + (n + 1) = (a + n) + 1
    OBVIOUS
  <2>2. 2^((a + n) + 1) = 2 * 2^(a + n) /\ 2^(a + n) \in Nat /\ 2^a \in Nat
    BY <2>1, PowerStep
  <2>3. 2^a <= 2^(a + n)
    BY <1>2
  <2> QED BY <2>1, <2>2, <2>3
<1>3. \A n \in Nat : 2^a <= 2^(a + n)
  <2>1. Nat \subseteq Ok
    <3> HIDE DEF Ok
    <3> QED BY <1>1, <1>2, Induction
  <2> QED BY <2>1
<1>4. ASSUME a <= b PROVE 2^a <= 2^b
  <2>1. b - a \in Nat /\ a + (b - a) = b
    BY <1>4
  <2> QED BY <1>3, <2>1
<1>5. ASSUME a < b PROVE 2 * 2^a <= 2^b
  <2>1. b - (a + 1) \in Nat /\ b = a + ((b - (a + 1)) + 1)
    BY <1>5
  <2>2. PICK n \in Nat : n = b - (a + 1)
    BY <2>1
  <2>3. b = (a + n) + 1 /\ a + n \in Nat
    BY <2>1, <2>2
  <2>4. 2^b = 2 * 2^(a + n) /\ 2^(a + n) \in Nat /\ 2^a \in Nat
    BY <2>3, PowerStep
  <2> QED BY <1>3, <2>4
<1> QED BY <1>4, <1>5

\* How many nodes there are at the k-th level of a tree.
Width(k) == 2^k

\* What is needed of powers of two: the levels double.
LEMMA WidthFacts ==
    /\ Width(0) = 1
    /\ \A k \in Nat : Width(k) \in Nat \ {0} /\ Width(k + 1) = 2 * Width(k)
    /\ \A a, b \in Nat : a <= b => Width(a) <= Width(b)
  BY PowerZero, PowerStep, PowerLess DEF Width

-----------------------------------------------------------------------------
\* Places and addresses

-----------------------------------------------------------------------------
\* Half of a place: the parent and the side.
LEMMA Halves ==
    ASSUME NEW v \in Nat \ {0}
    PROVE  \E u \in Nat, j \in {1, 2} :
              /\ v = 2 * u + j /\ u < v
              /\ (v - 1) \div 2 = u /\ (v % 2 = 1 <=> j = 1)
<1>1. PICK u \in Nat : u = (v - 1) \div 2
  BY Z3
<1>2. v = 2 * u + 1 \/ v = 2 * u + 2
  BY <1>1, Z3
<1>3. CASE v = 2 * u + 1
  <2>1. v % 2 = 1 /\ u < v
    BY <1>3, Z3
  <2> QED BY <1>1, <1>3, <2>1
<1>4. CASE v = 2 * u + 2
  <2>1. v % 2 # 1 /\ u < v
    BY <1>4, Z3
  <2> QED BY <1>1, <1>4, <2>1
<1> QED BY <1>2, <1>3, <1>4

\* There is a largest depth, and addresses for as many trees of any depth as the
\* test makes.
LEMMA LargestDepth ==
    \E d \in Depths : \A e \in Depths : e <= d
<1> DEFINE Has(S) == \E d \in S : \A e \in S : e <= d
           Ok == {k \in Nat : \A S \in SUBSET (0..k) : S # {} => Has(S)}
<1>1. 0 \in Ok
  <2>1. 0..0 = {0}
    OBVIOUS
  <2>2. \A S \in SUBSET {0} : S # {} => S = {0}
    OBVIOUS
  <2>3. Has({0})
    OBVIOUS
  <2> HIDE DEF Has
  <2> QED BY <2>1, <2>2, <2>3
<1>2. ASSUME NEW k \in Nat, k \in Ok
      PROVE  k + 1 \in Ok
  <2> SUFFICES ASSUME NEW S \in SUBSET (0..(k + 1)), S # {} PROVE Has(S)
    OBVIOUS
  <2>1. CASE k + 1 \in S
    BY <2>1
  <2>2. CASE k + 1 \notin S
    <3>1. S \in SUBSET (0..k)
      BY <2>2
    <3> QED BY <1>2, <3>1
  <2> QED BY <2>1, <2>2
<1>3. Nat \subseteq Ok
  <2> HIDE DEF Ok
  <2> QED BY <1>1, <1>2, Induction
<1>4. \E k \in Nat : Depths \subseteq 0..k
  <2>1. Depths \subseteq Nat /\ IsFiniteSet(Depths)
    BY WorkloadTreeAssumption
  <2> DEFINE Bound == {s \in SUBSET Depths : \E k \in Nat : s \subseteq 0..k}
  <2>2. {} \in Bound
    OBVIOUS
  <2>3. ASSUME NEW s \in SUBSET Depths, NEW x \in Depths \ s, s \in Bound
        PROVE  s \cup {x} \in Bound
    <3>1. PICK k \in Nat : s \subseteq 0..k
      BY <2>3
    <3>2. x \in Nat /\ k + x \in Nat /\ s \cup {x} \subseteq 0..(k + x)
      BY <2>1, <3>1
    <3> QED BY <3>2
  <2> DEFINE Full == {n \in Nat : \A s \in SUBSET Depths : Cardinality(s) = n => s \in Bound}
  <2>4. 0 \in Full
    <3>1. \A s \in SUBSET Depths : Cardinality(s) = 0 => s = {}
      BY <2>1, FS_Subset, FS_EmptySet
    <3> QED BY <2>2, <3>1
  <2>5. ASSUME NEW n \in Nat, n \in Full
        PROVE  n + 1 \in Full
    <3> SUFFICES ASSUME NEW s \in SUBSET Depths, Cardinality(s) = n + 1 PROVE s \in Bound
      OBVIOUS
    <3>1. IsFiniteSet(s)
      BY <2>1, FS_Subset
    <3>2. PICK x : x \in s
      BY <3>1, FS_EmptySet
    <3>3. s \ {x} \in SUBSET Depths /\ Cardinality(s \ {x}) = n /\ x \in Depths \ (s \ {x})
      BY <3>1, <3>2, FS_RemoveElement
    <3>4. s \ {x} \in Bound
      BY <2>5, <3>3
    <3>5. (s \ {x}) \cup {x} = s
      BY <3>2
    <3> QED BY <2>3, <3>3, <3>4, <3>5
  <2>6. Nat \subseteq Full
    <3> HIDE DEF Full
    <3> QED BY <2>4, <2>5, Induction
  <2>7. Cardinality(Depths) \in Nat
    BY <2>1, FS_CardinalityType
  <2>8. Depths \in Bound
    <3> HIDE DEF Bound
    <3> QED BY <2>6, <2>7
  <2> QED BY <2>8
<1> QED BY <1>3, <1>4, WorkloadTreeAssumption

\* How many inner places a tree has, and addresses the test.
Inner == 0..(2^depth - 2)
Size == 2^depth - 1

\* The inner places are the numbers below Size.
LEMMA InnerFacts ==
    ASSUME depth \in Depths
    PROVE  /\ depth \in Nat /\ Size \in Nat /\ Size + 1 = Width(depth) /\ Inner \subseteq Nat
           /\ IsFiniteSet(Inner) /\ Cardinality(Inner) = Size
           /\ \A v \in Nat : v \in Inner <=> v < Size
<1>1. depth \in Nat
  BY WorkloadTreeAssumption
<1>2. 2^depth \in Nat \ {0}
  BY <1>1, PowerStep
<1>3. PICK n \in Nat : n = 2^depth - 1
  BY <1>2
<1>4. Inner = 0..(n - 1)
  BY <1>2, <1>3 DEF Inner
<1>5. IsFiniteSet(0..(n - 1)) /\ Cardinality(0..(n - 1)) = n
  <2>1. \A a \in Int, b \in Int : /\ IsFiniteSet(a..b)
                                  /\ Cardinality(a..b) = IF a > b THEN 0 ELSE b-a+1
    BY FS_Interval
  <2> QED BY <2>1
<1>6. n = Size /\ Size + 1 = Width(depth)
  BY <1>2, <1>3 DEF Size, Width
<1> QED BY <1>1, <1>4, <1>5, <1>6

\* There is an address for every node an arena holds, and Null is none.
LEMMA AddressesEnough ==
    ASSUME depth \in Depths
    PROVE  /\ Addr \subseteq Nat \ {0} /\ Null \notin Addr
           /\ IsFiniteSet(Addr) /\ Cardinality(Addr) \in Nat
           /\ (Transforms + 1) * Size <= Cardinality(Addr)
<1>1. PICK d \in Depths : /\ \A e \in Depths : e <= d
                          /\ d = CHOOSE x \in Depths : \A e \in Depths : e <= x
  BY LargestDepth
<1>2. /\ d \in Nat /\ depth \in Nat /\ depth <= d /\ Transforms \in Nat /\ Null \notin Nat
  BY <1>1, WorkloadTreeAssumption
<1>3. 2^d \in Nat \ {0} /\ 2^depth \in Nat \ {0} /\ 2^depth <= 2^d
  BY <1>2, PowerStep, PowerLess
<1>4. Addr = 1..((Transforms + 1) * (2^d - 1))
  BY <1>1 DEF Addr
<1>5. PICK t \in Nat, a \in Nat, b \in Nat :
          t = Transforms + 1 /\ a = 2^depth - 1 /\ b = 2^d - 1 /\ a <= b
  BY <1>2, <1>3
<1>6. t * a \in Nat /\ t * b \in Nat /\ t * a <= t * b
  BY <1>5, Z3
<1>7. Addr = 1..(t * b) /\ IsFiniteSet(1..(t * b)) /\ Cardinality(1..(t * b)) = t * b
  BY <1>4, <1>5, <1>6, Sized
<1>8. Size = a
  BY <1>5 DEF Size
<1> QED BY <1>2, <1>5, <1>6, <1>7, <1>8

-----------------------------------------------------------------------------
\* The invariant

Node == Addr \cup {Null}

Frame == [node : Addr, from : [depth : Nat, start : Nat] \cup Addr, kids : Seq(Node)]

Heap ==
    [live : SUBSET Addr, left : [Addr -> Node], right : [Addr -> Node],
     value : [Addr -> Nat], rc : [Addr -> Nat]]

Typed ==
    /\ rt \in {"Trace", "Arena", "Rc"} /\ depth \in Depths
    /\ pc \in {"build", "transform", "assign", "collect", "check", "release", "done"}
    /\ i \in 0..Transforms
    /\ stack \in Seq(Frame)
    /\ made \in Seq(Node) /\ Len(made) <= 1
    /\ current \in Node /\ rootLeft \in Node
    /\ heap \in Heap

\* A tree laid out: the node at each place, Null where there is none.
Tree == {T \in [Nat -> Node] : \A v \in Nat : T[v] # Null => v \in Inner}
Full(T) == \A v \in Inner : T[v] # Null
Bare(T) == \A v \in Nat : T[v] = Null

\* The fields of the nodes at the places S lead to those below.
Linked(T, S) ==
    \A v \in S : heap.left[T[v]] = T[2 * v + 1] /\ heap.right[T[v]] = T[2 * v + 2]
Valued(T, k) == \A v \in Nat : T[v] # Null => heap.value[T[v]] = v + k
Stored(T) == \A v \in Nat : T[v] # Null => T[v] \in heap.live

\* The current tree and the one being made have no node in common, nor has a
\* node two places.
Apart(old, new) ==
    /\ \A v, w \in Nat : old[v] # Null /\ old[v] = old[w] => v = w
    /\ \A v, w \in Nat : new[v] # Null /\ new[v] = new[w] => v = w
    /\ \A v, w \in Nat : old[v] # Null => old[v] # new[w]

\* The current tree.
OldTree(old) ==
    /\ IF pc \in {"build", "assign"} THEN Bare(old) ELSE Full(old)
    /\ current = old[0]
    /\ pc # "assign" => rootLeft = current
    /\ Linked(old, {v \in Nat : old[v] # Null})
    /\ Valued(old, i)
    /\ Stored(old)

Kids(k) == Len(stack[k].kids)

\* The places whose nodes have been returned.
Settled(new, place) ==
    {v \in Nat : new[v] # Null /\ \A k \in 1..Len(stack) : place[k] # v}

\* The frame at place p of the k-th level of the tree.
FrameAt(old, new, place, k) ==
    /\ place[k] \in Inner
    /\ stack[k].node = new[place[k]]
    /\ heap.left[stack[k].node] = Null /\ heap.right[stack[k].node] = Null
    /\ Kids(k) <= 2
    /\ k < Len(stack) => Kids(k) < 2 /\ place[k + 1] = 2 * place[k] + 1 + Kids(k)
    /\ \A j \in 1..Kids(k) :
          /\ stack[k].kids[j] = new[2 * place[k] + j]
          /\ 2 * place[k] + j \in Inner => 2 * place[k] + j \in Settled(new, place)
    /\ Width(k - 1) <= place[k] + 1 /\ place[k] + 1 < Width(k)
    /\ stack[k].from = IF pc = "build" THEN [depth |-> depth - k + 1, start |-> place[k]]
                                       ELSE old[place[k]]
    /\ k = 1 => place[k] = 0

\* What has been returned is complete.
SettledTree(new, place) ==
    /\ Linked(new, Settled(new, place))
    /\ \A v \in Settled(new, place), j \in {1, 2} :
          2 * v + j \in Inner => 2 * v + j \in Settled(new, place)

\* Nodes are made below made ones, the left before the right.
Reached(new, place) ==
    \A u \in Nat, j \in {1, 2} :
       new[2 * u + j] # Null =>
          /\ new[u] # Null
          /\ \A k \in 1..Len(stack) :
                place[k] = u => j <= Kids(k) \/ (k < Len(stack) /\ j = Kids(k) + 1)

\* The tree being made.
NewTree(old, new, place) ==
    /\ \A k \in 1..Len(stack) : FrameAt(old, new, place, k)
    /\ SettledTree(new, place)
    /\ Reached(new, place)
    /\ Valued(new, IF pc = "build" THEN 0 ELSE i + 1)
    /\ Stored(new)

Phase(new) ==
    /\ stack # <<>> => pc \in {"build", "transform"} /\ made = <<>>
    /\ made # <<>> => pc \in {"build", "transform", "assign"} /\ made = <<new[0]>> /\ Full(new)
    /\ pc = "assign" => made # <<>>
    /\ stack = <<>> /\ made = <<>> => Bare(new)
    /\ pc \in {"transform", "assign"} => i < Transforms
    /\ pc = "build" => i = 0

\* The rest of the heap.
Trees == IF pc = "build" THEN 0 ELSE i + 1
Made(new) == {v \in Inner : new[v] # Null}

Closed == \A n \in heap.live : Children(heap, n) \subseteq heap.live
Budget(new) ==
    Cardinality(heap.live) <= Trees * Size + Cardinality(Made(new))
Exact(old, new) ==
    rt = "Rc" \/ (rt = "Trace" /\ pc \notin {"assign", "collect"}) =>
        \A n \in heap.live : \E v \in Nat : n = old[v] \/ n = new[v]
CountsOne == rt = "Rc" => \A n \in heap.live : heap.rc[n] = 1

Ghost(old, new, place) ==
    /\ Apart(old, new)
    /\ OldTree(old)
    /\ NewTree(old, new, place)
    /\ Phase(new)
    /\ Closed /\ Budget(new) /\ Exact(old, new) /\ CountsOne

HeapInv ==
    IF pc = "done" THEN stack = <<>> /\ heap.live = {}
    ELSE \E old \in Tree, new \in Tree, place \in [Nat -> Nat] : Ghost(old, new, place)

-----------------------------------------------------------------------------
\* What the types say.
LEMMA HeapTyped ==
    ASSUME NEW h \in Heap
    PROVE  /\ h.live \subseteq Addr /\ h.left \in [Addr -> Node] /\ h.right \in [Addr -> Node]
           /\ h.value \in [Addr -> Nat] /\ h.rc \in [Addr -> Nat]
  BY DEF Heap

\* The node at a place is Null but at the inner places.
LEMMA TreeTyped ==
    ASSUME depth \in Depths, NEW T \in Tree, NEW v \in Nat
    PROVE  /\ T[v] \in Node /\ (T[v] # Null => T[v] \in Addr /\ v \in Inner)
           /\ v \in Inner => v \in Nat
  BY DEF Tree, Node

\* A frame has a place of its own, one level below the frame under it.
LEMMA LevelsApart ==
    ASSUME Typed, NEW old, NEW new, NEW place \in [Nat -> Nat], NewTree(old, new, place),
           NEW k \in 1..Len(stack), NEW l \in 1..Len(stack), place[k] = place[l]
    PROVE  k = l
<1>1. k \in Nat \ {0} /\ l \in Nat \ {0} /\ k - 1 \in Nat /\ l - 1 \in Nat
  OBVIOUS
<1>2. /\ Width(k - 1) <= place[k] + 1 /\ place[k] + 1 < Width(k) /\ place[k] \in Nat
      /\ Width(l - 1) <= place[l] + 1 /\ place[l] + 1 < Width(l) /\ place[l] \in Nat
  BY <1>1 DEF NewTree, FrameAt
<1>3. /\ Width(k - 1) \in Nat /\ Width(k) \in Nat /\ Width(l - 1) \in Nat /\ Width(l) \in Nat
      /\ k <= l - 1 => Width(k) <= Width(l - 1)
      /\ l <= k - 1 => Width(l) <= Width(k - 1)
  BY <1>1, WidthFacts
<1>4. PICK a \in Nat, b \in Nat, c \in Nat, d \in Nat, x \in Nat :
         /\ a = Width(k - 1) /\ b = Width(k) /\ c = Width(l - 1) /\ d = Width(l)
         /\ x = place[k]
  BY <1>2, <1>3
<1>5. a <= x + 1 /\ x + 1 < b /\ c <= x + 1 /\ x + 1 < d
  BY <1>2, <1>4
<1>6. ~(b <= c) /\ ~(d <= a)
  BY <1>5
<1>7. ~(k <= l - 1) /\ ~(l <= k - 1)
  BY <1>3, <1>4, <1>6
<1> QED BY <1>1, <1>7

\* The stack is no higher than the tree.
LEMMA LevelsFit ==
    ASSUME Typed, NEW old, NEW new, NEW place \in [Nat -> Nat], NewTree(old, new, place),
           NEW k \in 1..Len(stack)
    PROVE  k <= depth
<1>1. k \in Nat \ {0} /\ k - 1 \in Nat
  OBVIOUS
<1>2. Width(k - 1) <= place[k] + 1 /\ place[k] \in Inner /\ place[k] \in Nat
  BY <1>1 DEF NewTree, FrameAt
<1>3. depth \in Nat /\ Size \in Nat /\ Size + 1 = Width(depth) /\ place[k] < Size
  BY <1>2, InnerFacts DEF Typed
<1>4. Width(k - 1) \in Nat /\ (depth <= k - 1 => Width(depth) <= Width(k - 1))
  BY <1>1, <1>3, WidthFacts
<1>5. ~(depth <= k - 1)
  BY <1>2, <1>3, <1>4
<1> QED BY <1>1, <1>3, <1>5

\* When the outermost call has returned a node the tree is complete.
LEMMA RootSettled ==
    ASSUME Typed, NEW new \in Tree, NEW S, 0 \in S,
           \A v \in S, j \in {1, 2} : 2 * v + j \in Inner => 2 * v + j \in S
    PROVE  Inner \subseteq S
<1> DEFINE Ok == {v \in Nat : v \in Inner => v \in S}
<1>1. ASSUME NEW v \in Nat, \A w \in Nat : w < v => w \in Ok
      PROVE  v \in Ok
  <2>1. CASE v = 0
    BY <2>1
  <2>2. CASE v # 0
    <3>1. PICK u \in Nat, j \in {1, 2} : v = 2 * u + j /\ u < v
      BY <2>2, Halves
    <3>2. v \in Inner => u \in Inner
      BY <3>1, InnerFacts DEF Typed
    <3>3. u \in Ok
      BY <1>1, <3>1
    <3> QED BY <3>1, <3>2, <3>3
  <2> QED BY <2>1, <2>2
<1>2. Nat \subseteq Ok
  <2> HIDE DEF Ok
  <2> QED BY <1>1, StrongInduction
<1>3. Inner \subseteq Nat
  BY InnerFacts DEF Typed
<1> QED BY <1>2, <1>3

-----------------------------------------------------------------------------
\* Calls of build_tree and transform_tree

\* There is an address left as long as a node of the tree is to be made.
LEMMA FreshThere ==
    ASSUME Typed, NEW new \in Tree, Budget(new), pc \in {"build", "transform"},
           pc = "transform" => i < Transforms,
           NEW q \in Inner, new[q] = Null
    PROVE  /\ Fresh(heap) \in Addr /\ Fresh(heap) \notin heap.live
           /\ IsFiniteSet(heap.live) /\ Cardinality(heap.live) \in Nat
<1>1. heap.live \subseteq Addr /\ i \in Nat /\ Transforms \in Nat
  BY HeapTyped, WorkloadTreeAssumption DEF Typed
<1>2. /\ IsFiniteSet(Addr) /\ Cardinality(Addr) \in Nat
      /\ (Transforms + 1) * Size <= Cardinality(Addr)
  BY AddressesEnough DEF Typed
<1>3. /\ IsFiniteSet(Inner) /\ Cardinality(Inner) = Size /\ Size \in Nat
  BY InnerFacts DEF Typed
<1>4. IsFiniteSet(heap.live) /\ Cardinality(heap.live) \in Nat
  BY <1>1, <1>2, FS_Subset, FS_CardinalityType
<1>5. Cardinality(Made(new)) \in Nat /\ Cardinality(Made(new)) < Size
  <2>1. IsFiniteSet(Inner \ {q}) /\ Cardinality(Inner \ {q}) = Cardinality(Inner) - 1
    BY <1>3, FS_RemoveElement
  <2>2. Made(new) \in SUBSET (Inner \ {q})
    BY DEF Made
  <2>3. IsFiniteSet(Made(new)) /\ Cardinality(Made(new)) <= Cardinality(Inner \ {q})
    BY <2>1, <2>2, FS_Subset
  <2>4. Cardinality(Made(new)) \in Nat /\ Cardinality(Inner) \in Nat
    BY <1>3, <2>3, FS_CardinalityType
  <2> QED BY <1>3, <2>1, <2>3, <2>4
<1>6. PICK a \in Nat, t \in Nat, b \in Nat, x \in Nat :
          /\ a = Size /\ t = Transforms + 1 /\ b = Trees /\ x = Cardinality(Made(new))
  <2>1. Size \in Nat /\ Transforms + 1 \in Nat /\ Cardinality(Made(new)) \in Nat
    BY <1>1, <1>3, <1>5
  <2>2. Trees \in Nat
    BY <1>1 DEF Trees
  <2> QED BY <2>1, <2>2
<1>7. b + 1 <= t
  BY <1>1, <1>6 DEF Trees, Typed
<1>8. b * a + x < t * a /\ b * a \in Nat /\ t * a \in Nat
  <2>1. x < a
    BY <1>5, <1>6
  <2>2. (b + 1) * a <= t * a /\ (b + 1) * a = b * a + a /\ b * a \in Nat /\ t * a \in Nat
    BY <1>6, <1>7, Z3
  <2> QED BY <1>6, <2>1, <2>2
<1>9. Cardinality(heap.live) <= b * a + x /\ t * a <= Cardinality(Addr)
  BY <1>2, <1>6 DEF Budget
<1>10. Cardinality(heap.live) < Cardinality(Addr)
  <2>1. PICK y \in Nat, z \in Nat : y = b * a /\ z = t * a
    BY <1>8
  <2>2. PICK c \in Nat, e \in Nat : c = Cardinality(heap.live) /\ e = Cardinality(Addr)
    BY <1>2, <1>4
  <2>3. c <= y + x /\ z <= e /\ y + x < z
    BY <1>8, <1>9, <2>1, <2>2
  <2>4. c < e
    BY <2>3
  <2> QED BY <2>2, <2>4
<1>11. Addr \ heap.live # {}
  <2>1. Addr \ heap.live = {} => Addr = heap.live
    BY <1>1
  <2>2. Addr # heap.live
    BY <1>4, <1>10
  <2> QED BY <2>1, <2>2
<1>12. Fresh(heap) \in Addr \ heap.live
  BY <1>11 DEF Fresh
<1> QED BY <1>4, <1>12

\* What is made next: the root, or a child of the node on top of the stack.
NextPlace(place) ==
    IF stack = <<>> THEN 0 ELSE 2 * place[Len(stack)] + 1 + Kids(Len(stack))

MayCall ==
    /\ pc \in {"build", "transform"} /\ made = <<>>
    /\ stack # <<>> => Kids(Len(stack)) < 2

\* The frames are typed, and the stack has a top unless it is empty.
LEMMA StackTyped ==
    ASSUME Typed
    PROVE  /\ Len(stack) \in Nat
           /\ stack # <<>> <=> Len(stack) > 0
           /\ stack # <<>> <=> Len(stack) \in 1..Len(stack)
           /\ \A k \in 1..Len(stack) : /\ stack[k] \in Frame /\ Kids(k) \in Nat
                                       /\ stack[k].node \in Addr
                                       /\ stack[k].kids \in Seq(Node)
<1>1. stack \in Seq(Frame)
  BY DEF Typed
<1>2. Len(stack) \in Nat /\ (stack # <<>> <=> Len(stack) > 0)
      /\ \A k \in 1..Len(stack) : stack[k] \in Frame
  BY <1>1
<1>3. \A f \in Frame : f.node \in Addr /\ f.kids \in Seq(Node) /\ Len(f.kids) \in Nat
  BY DEF Frame
<1> QED BY <1>2, <1>3 DEF Kids

\* It has not been made yet, and lies one level below.
LEMMA NextIsNew ==
    ASSUME Typed, NEW old \in Tree, NEW new \in Tree, NEW place \in [Nat -> Nat],
           Ghost(old, new, place), MayCall
    PROVE  /\ NextPlace(place) \in Nat
           /\ new[NextPlace(place)] = Null
           /\ Width(Len(stack)) <= NextPlace(place) + 1
           /\ NextPlace(place) + 1 < Width(Len(stack) + 1)
           /\ stack # <<>> => /\ place[Len(stack)] \in Inner
                              /\ NextPlace(place) = 2 * place[Len(stack)] + (Kids(Len(stack)) + 1)
                              /\ Kids(Len(stack)) + 1 \in {1, 2}
<1>1. CASE stack = <<>>
  <2>1. NextPlace(place) = 0 /\ Len(stack) = 0
    BY <1>1 DEF NextPlace
  <2>2. new[0] = Null
    BY <1>1 DEF Ghost, Phase, MayCall, Bare
  <2>3. Width(0) = 1 /\ Width(0 + 1) = 2 * Width(0)
    BY WidthFacts
  <2> QED BY <1>1, <2>1, <2>2, <2>3
<1>2. CASE stack # <<>>
  <2>1. PICK m \in Nat \ {0} : m = Len(stack) /\ m \in 1..Len(stack)
    BY <1>2, StackTyped
  <2>2. PICK u \in Nat : u = place[m]
    BY <2>1
  <2>0. PICK c \in Nat : c = Kids(m)
    BY <2>1, StackTyped
  <2>00. c < 2
    BY <1>2, <2>0, <2>1 DEF MayCall
  <2>3. PICK j \in {1, 2} : j = c + 1
    BY <2>0, <2>00
  <2>4. NextPlace(place) = 2 * u + j
    <3>1. NextPlace(place) = 2 * u + 1 + Kids(m)
      BY <1>2, <2>1, <2>2 DEF NextPlace
    <3> QED BY <2>0, <2>3, <3>1
  <2>5. FrameAt(old, new, place, m)
    BY <2>1 DEF Ghost, NewTree
  <2>6. new[2 * u + j] = Null
    <3>1. ~(j <= c) /\ ~(m < m)
      BY <2>3
    <3>2. Reached(new, place)
      BY DEF Ghost, NewTree
    <3>3. new[2 * u + j] # Null =>
             (place[m] = u => j <= Kids(m) \/ (m < Len(stack) /\ j = Kids(m) + 1))
      BY <2>1, <3>2 DEF Reached
    <3> QED BY <2>0, <2>1, <2>2, <3>1, <3>3
  <2>7. Width(m - 1) <= u + 1 /\ u + 1 < Width(m) /\ u \in Inner
    BY <2>2, <2>5 DEF FrameAt
  <2>8. PICK n \in Nat : n = m - 1
    BY <2>1
  <2>9. /\ Width(m) = 2 * Width(m - 1) /\ Width(m + 1) = 2 * Width(m) /\ Width(m - 1) \in Nat /\ Width(m) \in Nat
    <3>1. m = n + 1
      BY <2>8
    <3> QED BY <2>8, <3>1, WidthFacts
  <2>10. Width(m) <= (2 * u + j) + 1 /\ (2 * u + j) + 1 < Width(m + 1)
    <3>1. PICK a \in Nat, b \in Nat : a = Width(m - 1) /\ b = Width(m)
      BY <2>9
    <3>2. b = 2 * a /\ a <= u + 1 /\ u + 1 < b
      BY <2>7, <2>9, <3>1
    <3>3. b <= (2 * u + j) + 1 /\ (2 * u + j) + 1 < 2 * b
      BY <3>2
    <3>4. Width(m + 1) = 2 * b
      BY <2>9, <3>1
    <3> QED BY <3>1, <3>3, <3>4
  <2>11. Width(Len(stack)) = Width(m) /\ Width(Len(stack) + 1) = Width(m + 1)
    BY <2>1
  <2>12. place[Len(stack)] = u /\ Kids(Len(stack)) + 1 = j
    BY <2>0, <2>1, <2>2, <2>3
  <2>13. 2 * u + j \in Nat
    OBVIOUS
  <2> QED BY <2>4, <2>6, <2>7, <2>10, <2>11, <2>12, <2>13
<1> QED BY <1>1, <1>2

\* What appending to a sequence leaves alone.
LEMMA Appended ==
    ASSUME NEW S, NEW s \in Seq(S), NEW e \in S
    PROVE  /\ Append(s, e) \in Seq(S) /\ Len(Append(s, e)) = Len(s) + 1 /\ Len(s) \in Nat
           /\ Append(s, e)[Len(s) + 1] = e
           /\ \A k \in 1..Len(s) : Append(s, e)[k] = s[k]
  OBVIOUS

\* What new TreeNode() changes of the heap.
LEMMA AllocateTyped ==
    ASSUME NEW h \in Heap, NEW n \in Addr, NEW v \in Nat
    PROVE  /\ Allocate(h, n, v) \in Heap
           /\ Allocate(h, n, v).live = h.live \cup {n}
           /\ \A a \in Addr :
                 /\ Allocate(h, n, v).left[a] = IF a = n THEN Null ELSE h.left[a]
                 /\ Allocate(h, n, v).right[a] = IF a = n THEN Null ELSE h.right[a]
                 /\ Allocate(h, n, v).value[a] = IF a = n THEN v ELSE h.value[a]
                 /\ Allocate(h, n, v).rc[a] = IF a = n THEN 1 ELSE h.rc[a]
<1>1. /\ h.live \subseteq Addr /\ h.left \in [Addr -> Node] /\ h.right \in [Addr -> Node]
      /\ h.value \in [Addr -> Nat] /\ h.rc \in [Addr -> Nat]
  BY HeapTyped
<1>2. Null \in Node /\ 1 \in Nat
  BY DEF Node
<1>3. /\ Allocate(h, n, v).live = h.live \cup {n}
      /\ Allocate(h, n, v).left = [h.left EXCEPT ![n] = Null]
      /\ Allocate(h, n, v).right = [h.right EXCEPT ![n] = Null]
      /\ Allocate(h, n, v).value = [h.value EXCEPT ![n] = v]
      /\ Allocate(h, n, v).rc = [h.rc EXCEPT ![n] = 1]
  BY DEF Allocate, Heap
<1>4. Allocate(h, n, v) \in Heap
  BY <1>1, <1>2 DEF Allocate, Heap
<1> QED BY <1>1, <1>3, <1>4

\* What the frame at place p of the k-th level was called with.
FromAt(old, p, k) ==
    IF pc = "build" THEN [depth |-> depth - k + 1, start |-> p] ELSE old[p]

\* A call for the next place that allocates n.
CallAt(old, place, n) ==
    /\ n \in Addr /\ n \notin heap.live
    /\ NextPlace(place) \in Inner
    /\ heap' = Allocate(heap, n, NextPlace(place) + (IF pc = "build" THEN 0 ELSE i + 1))
    /\ stack' = Append(stack, [node |-> n, from |-> FromAt(old, NextPlace(place), Len(stack) + 1),
                               kids |-> <<>>])
    /\ UNCHANGED <<argVars, pc, i, made, current, rootLeft>>

\* A call keeps the types and the frames of the callers.
LEMMA CallTyped ==
    ASSUME Typed, NEW old \in Tree, NEW new \in Tree, NEW place \in [Nat -> Nat],
           Ghost(old, new, place), MayCall, NEW n, CallAt(old, place, n)
    PROVE  /\ Typed'
           /\ Len(stack') = Len(stack) + 1
           /\ \A k \in 1..Len(stack) : stack'[k] = stack[k]
           /\ stack'[Len(stack) + 1].node = n
           /\ stack'[Len(stack) + 1].kids = <<>>
           /\ stack'[Len(stack) + 1].from = FromAt(old, NextPlace(place), Len(stack) + 1)
<1> DEFINE q == NextPlace(place)
           m == Len(stack)
           frame == [node |-> n, from |-> FromAt(old, q, m + 1), kids |-> <<>>]
<1>1. q \in Nat /\ q \in Inner /\ Width(m) <= q + 1 /\ m \in Nat /\ stack \in Seq(Frame)
  BY NextIsNew, StackTyped DEF CallAt, Typed
<1> HIDE DEF q
<1>2. FromAt(old, q, m + 1) \in [depth : Nat, start : Nat] \cup Addr
  <2>1. CASE pc = "build"
    <3>1. depth \in Nat /\ q < Size /\ Size \in Nat /\ Size + 1 = Width(depth)
      BY <1>1, InnerFacts DEF Typed
    <3>2. Width(m) \in Nat /\ (depth <= m => Width(depth) <= Width(m))
      BY <1>1, <3>1, WidthFacts
    <3>3. ~(depth <= m)
      BY <1>1, <3>1, <3>2
    <3>4. depth - (m + 1) + 1 \in Nat
      BY <1>1, <3>1, <3>3
    <3> QED BY <1>1, <2>1, <3>4 DEF FromAt
  <2>2. CASE pc # "build"
    <3>1. old[q] # Null
      BY <1>1, <2>2 DEF Ghost, OldTree, Full, MayCall
    <3>2. old[q] \in Addr
      BY <1>1, <3>1, TreeTyped DEF Typed
    <3> QED BY <2>2, <3>2 DEF FromAt
  <2> QED BY <2>1, <2>2
<1>3. frame \in Frame
  <2>1. n \in Addr /\ <<>> \in Seq(Node)
    BY DEF CallAt
  <2> QED BY <1>2, <2>1 DEF Frame
<1>4. stack' = Append(stack, frame)
  BY DEF CallAt, q
<1>5. frame.node = n /\ frame.kids = <<>> /\ frame.from = FromAt(old, q, m + 1)
  OBVIOUS
<1> HIDE DEF frame
<1>6. /\ stack' \in Seq(Frame) /\ Len(stack') = m + 1 /\ stack'[m + 1] = frame
      /\ \A k \in 1..m : stack'[k] = stack[k]
  <2>1. /\ Append(stack, frame) \in Seq(Frame) /\ Len(Append(stack, frame)) = Len(stack) + 1
        /\ Append(stack, frame)[Len(stack) + 1] = frame
        /\ \A k \in 1..Len(stack) : Append(stack, frame)[k] = stack[k]
    BY <1>1, <1>3, Appended
  <2> QED BY <1>4, <2>1
<1>7. heap' \in Heap
  <2>1. PICK v \in Nat : v = q + (IF pc = "build" THEN 0 ELSE i + 1)
    <3>1. i + 1 \in Nat
      BY WorkloadTreeAssumption DEF Typed
    <3> QED BY <1>1, <3>1
  <2>2. heap' = Allocate(heap, n, v) /\ n \in Addr /\ heap \in Heap
    BY <2>1 DEF CallAt, q, Typed
  <2> QED BY <2>2, AllocateTyped
<1>8. Typed'
  <2>1. UNCHANGED <<rt, depth, pc, i, made, current, rootLeft>>
    BY DEF CallAt, argVars
  <2> QED BY <1>6, <1>7, <2>1 DEF Typed
<1> QED BY <1>5, <1>6, <1>8 DEF q

\* The tree and the places with the new node.
With(T, v, n) == [T EXCEPT ![v] = n]

\* A tree with a node more is a tree.
LEMMA WithTyped ==
    ASSUME depth \in Depths, NEW T \in Tree, NEW v \in Inner, NEW n \in Addr
    PROVE  /\ With(T, v, n) \in Tree
           /\ \A w \in Nat : With(T, v, n)[w] = IF w = v THEN n ELSE T[w]
<1>1. v \in Nat /\ n \in Node /\ T \in [Nat -> Node]
  BY InnerFacts DEF Node, Tree
<1> QED BY <1>1 DEF With, Tree

\* A call of build_tree or transform_tree keeps the invariant.
LEMMA CallKeeps ==
    ASSUME Typed, NEW old \in Tree, NEW new \in Tree, NEW place \in [Nat -> Nat],
           Ghost(old, new, place), MayCall, NEW n, CallAt(old, place, n)
    PROVE  HeapInv'
<1>1. PICK q \in Nat, m \in Nat : q = NextPlace(place) /\ m = Len(stack)
  BY NextIsNew, StackTyped
<1>2. q \in Inner /\ new[q] = Null
  BY <1>1, NextIsNew DEF CallAt
<1>3. Width(m) <= q + 1 /\ q + 1 < Width(m + 1)
  BY <1>1, NextIsNew
<1>4. stack = <<>> => q = 0 /\ m = 0
  BY <1>1 DEF NextPlace
<1>5. ASSUME stack # <<>>
      PROVE  /\ m \in 1..m /\ m # 0
             /\ place[m] \in Nat /\ place[m] \in Inner /\ new[place[m]] # Null
             /\ Kids(m) \in Nat /\ Kids(m) < 2
             /\ q = 2 * place[m] + (Kids(m) + 1)
  <2>1. m \in 1..Len(stack) /\ stack[m].node \in Addr /\ Kids(m) \in Nat
    BY <1>1, <1>5, StackTyped
  <2>2. FrameAt(old, new, place, m)
    BY <2>1 DEF Ghost, NewTree
  <2>3. stack[m].node = new[place[m]] /\ place[m] \in Inner
    BY <2>2 DEF FrameAt
  <2>4. new[place[m]] # Null
    BY <2>1, <2>3, AddressesEnough DEF Typed
  <2>5. q = 2 * place[m] + (Kids(m) + 1)
    BY <1>1, <1>5, NextIsNew
  <2>6. Kids(m) < 2
    BY <1>1, <1>5 DEF MayCall
  <2>7. m \in 1..m /\ m # 0
    BY <1>1, <2>1
  <2> QED BY <2>1, <2>3, <2>4, <2>5, <2>6, <2>7
<1>6. n \in Addr /\ n \notin heap.live /\ n # Null
  BY AddressesEnough DEF CallAt, Typed
<1>7. UNCHANGED <<rt, depth, pc, i, made, current, rootLeft>> /\ made = <<>>
  BY DEF CallAt, argVars, MayCall
<1>8. PICK t \in Tree : \A v \in Nat : t[v] = IF v = q THEN n ELSE new[v]
  <2>1. /\ With(new, q, n) \in Tree
        /\ \A v \in Nat : With(new, q, n)[v] = IF v = q THEN n ELSE new[v]
    BY <1>2, <1>6, WithTyped DEF Typed
  <2> QED BY <2>1
<1>9. PICK p \in [Nat -> Nat] : \A k \in Nat : p[k] = IF k = m + 1 THEN q ELSE place[k]
  <2> DEFINE f == [k \in Nat |-> IF k = m + 1 THEN q ELSE place[k]]
  <2>1. f \in [Nat -> Nat]
    OBVIOUS
  <2>2. \A k \in Nat : f[k] = IF k = m + 1 THEN q ELSE place[k]
    OBVIOUS
  <2> HIDE DEF f
  <2> QED BY <2>1, <2>2
<1>10. t[q] = n /\ (\A v \in Nat : v # q => t[v] = new[v])
  BY <1>8
<1>11. p[m + 1] = q /\ (\A k \in 1..m : p[k] = place[k])
  <2>1. m + 1 \in Nat /\ \A k \in 1..m : k \in Nat /\ k # m + 1
    OBVIOUS
  <2> QED BY <1>9, <2>1
<1>12. 1..(m + 1) = (1..m) \cup {m + 1} /\ m + 1 \notin 1..m /\ 1..m \subseteq Nat
  OBVIOUS
<1>13. \A v \in Nat : old[v] # n /\ new[v] # n
  BY <1>6 DEF Ghost, OldTree, NewTree, Stored
<1>14. PICK w \in Nat : w = q + (IF pc = "build" THEN 0 ELSE i + 1)
  <2>1. i + 1 \in Nat
    BY WorkloadTreeAssumption DEF Typed
  <2>2. CASE pc = "build"
    BY <2>2
  <2>3. CASE pc # "build"
    <3>1. q + (i + 1) \in Nat
      BY <2>1
    <3> QED BY <2>3, <3>1
  <2> QED BY <2>2, <2>3
<1>15. heap' = Allocate(heap, n, w) /\ heap \in Heap
  BY <1>1, <1>14 DEF CallAt, Typed
<1>16. heap'.live = heap.live \cup {n}
  <2>0. n \in Addr /\ heap \in Heap
    BY <1>6, <1>15
  <2>1. Allocate(heap, n, w).live = heap.live \cup {n}
    BY <2>0 DEF Allocate, Heap
  <2> QED BY <1>15, <2>1
<1>17. \A a \in Addr : /\ heap'.left[a] = IF a = n THEN Null ELSE heap.left[a]
                       /\ heap'.right[a] = IF a = n THEN Null ELSE heap.right[a]
                       /\ heap'.value[a] = IF a = n THEN w ELSE heap.value[a]
                       /\ heap'.rc[a] = IF a = n THEN 1 ELSE heap.rc[a]
  <2>0. n \in Addr /\ heap \in Heap
    BY <1>6, <1>15
  <2>1. \A a \in Addr :
           /\ Allocate(heap, n, w).left[a] = IF a = n THEN Null ELSE heap.left[a]
           /\ Allocate(heap, n, w).right[a] = IF a = n THEN Null ELSE heap.right[a]
           /\ Allocate(heap, n, w).value[a] = IF a = n THEN w ELSE heap.value[a]
           /\ Allocate(heap, n, w).rc[a] = IF a = n THEN 1 ELSE heap.rc[a]
    BY <2>0, AllocateTyped
  <2> QED BY <1>15, <2>1
<1>18. Len(stack) = m /\ Len(stack') = m + 1
  BY <1>1, CallTyped
<1>19. \A k \in 1..m : stack'[k] = stack[k]
  BY <1>1, CallTyped
<1>20. \A k \in 1..m : Len(stack'[k].kids) = Kids(k)
  BY <1>19 DEF Kids
<1>21. /\ stack'[m + 1].node = n /\ stack'[m + 1].kids = <<>>
       /\ stack'[m + 1].from = FromAt(old, q, m + 1)
  BY <1>1, CallTyped
<1>22. \A v \in Nat : (old[v] # Null => old[v] \in Addr) /\ (new[v] # Null => new[v] \in Addr)
  BY TreeTyped DEF Typed
<1>23. Inner' = Inner
  BY <1>7 DEF Inner
<1>24. \A v \in Nat : (\A k \in 1..(m + 1) : p[k] # v) <=> (v # q /\ \A k \in 1..m : place[k] # v)
  <2> SUFFICES ASSUME NEW v \in Nat
               PROVE  (\A k \in 1..(m + 1) : p[k] # v) <=> (v # q /\ \A k \in 1..m : place[k] # v)
    OBVIOUS
  <2>1. (\A k \in 1..(m + 1) : p[k] # v) <=> (p[m + 1] # v /\ \A k \in 1..m : p[k] # v)
    BY <1>12
  <2> QED BY <1>11, <2>1
<1>25. Settled(t, p)' = Settled(new, place)
  <2>1. Settled(t, p)' = {v \in Nat : t[v] # Null /\ \A k \in 1..(m + 1) : p[k] # v}
    BY <1>18 DEF Settled
  <2>2. Settled(new, place) = {v \in Nat : new[v] # Null /\ \A k \in 1..m : place[k] # v}
    BY <1>18 DEF Settled
  <2>3. ASSUME NEW v \in Nat
        PROVE  (t[v] # Null /\ v # q) <=> new[v] # Null
    BY <1>2, <1>10
  <2> QED BY <1>24, <2>1, <2>2, <2>3
<1>26. q \notin Settled(new, place)
  BY <1>2 DEF Settled
<1>27. Apart(old, t)'
  <2>1. Apart(old, new)
    BY DEF Ghost
  <2>2. \A v, u \in Nat : t[v] # Null /\ t[v] = t[u] => v = u
    BY <1>10, <1>13, <2>1 DEF Apart
  <2>3. \A v, u \in Nat : old[v] # Null => old[v] # t[u]
    BY <1>10, <1>13, <2>1 DEF Apart
  <2> QED BY <2>1, <2>2, <2>3 DEF Apart
<1>28. OldTree(old)'
  <2>1. OldTree(old)
    BY DEF Ghost
  <2>2. \A v \in Nat : old[v] # Null => /\ heap'.left[old[v]] = heap.left[old[v]]
                                        /\ heap'.right[old[v]] = heap.right[old[v]]
                                        /\ heap'.value[old[v]] = heap.value[old[v]]
    BY <1>13, <1>17, <1>22
  <2>3. Linked(old, {v \in Nat : old[v] # Null})'
    BY <2>1, <2>2 DEF OldTree, Linked
  <2>4. Valued(old, i)'
    BY <1>7, <2>1, <2>2 DEF OldTree, Valued
  <2>5. Stored(old)'
    BY <1>16, <2>1 DEF OldTree, Stored
  <2>6. (IF pc \in {"build", "assign"} THEN Bare(old) ELSE Full(old))'
    BY <1>7, <1>23, <2>1 DEF OldTree, Full, Bare
  <2> QED BY <1>7, <2>1, <2>3, <2>4, <2>5, <2>6 DEF OldTree
<1>29. Stored(t)' /\ Valued(t, IF pc = "build" THEN 0 ELSE i + 1)'
  <2>1. Stored(new) /\ Valued(new, IF pc = "build" THEN 0 ELSE i + 1)
    BY DEF Ghost, NewTree
  <2>2. Stored(t)'
    BY <1>10, <1>16, <2>1 DEF Stored
  <2>3. ASSUME NEW v \in Nat, t[v] # Null
        PROVE  heap'.value[t[v]] = v + (IF pc = "build" THEN 0 ELSE i + 1)
    <3>1. CASE v = q
      BY <1>6, <1>10, <1>14, <1>17, <3>1
    <3>2. CASE v # q
      <4>1. t[v] = new[v] /\ new[v] # Null /\ new[v] \in Addr /\ new[v] # n
        BY <1>10, <1>13, <1>22, <2>3, <3>2
      <4>2. heap.value[new[v]] = v + (IF pc = "build" THEN 0 ELSE i + 1)
        BY <2>1, <4>1 DEF Valued
      <4> QED BY <1>17, <4>1, <4>2
    <3> QED BY <3>1, <3>2
  <2> QED BY <1>7, <2>2, <2>3 DEF Valued
<1>30. SettledTree(t, p)'
  <2>1. SettledTree(new, place)
    BY DEF Ghost, NewTree
  <2>2. \A v \in Settled(new, place), j \in {1, 2} : t[2 * v + j] = new[2 * v + j]
    <3> SUFFICES ASSUME NEW v \in Settled(new, place), NEW j \in {1, 2}
                 PROVE  t[2 * v + j] = new[2 * v + j]
      OBVIOUS
    <3>1. 2 * v + j \in Nat
      BY DEF Settled
    <3>2. 2 * v + j # q
      BY <1>2, <1>26, <2>1 DEF SettledTree
    <3> QED BY <1>10, <3>1, <3>2
  <2>3. \A v \in Settled(new, place) : v \in Nat /\ t[v] = new[v] /\ new[v] \in Addr /\ new[v] # n
    BY <1>10, <1>13, <1>22, <1>26 DEF Settled
  <2>4. \A v \in Settled(new, place) :
           /\ heap'.left[t[v]] = t[2 * v + 1] /\ heap'.right[t[v]] = t[2 * v + 2]
    <3> SUFFICES ASSUME NEW v \in Settled(new, place)
                 PROVE  heap'.left[t[v]] = t[2 * v + 1] /\ heap'.right[t[v]] = t[2 * v + 2]
      OBVIOUS
    <3>1. t[2 * v + 1] = new[2 * v + 1] /\ t[2 * v + 2] = new[2 * v + 2]
      BY <2>2
    <3>2. heap.left[new[v]] = new[2 * v + 1] /\ heap.right[new[v]] = new[2 * v + 2]
      BY <2>1 DEF SettledTree, Linked
    <3> QED BY <1>17, <2>3, <3>1, <3>2
  <2>5. Linked(t, Settled(t, p))'
    BY <1>25, <2>4 DEF Linked
  <2>6. \A v \in Settled(new, place), j \in {1, 2} :
           2 * v + j \in Inner => 2 * v + j \in Settled(new, place)
    BY <2>1 DEF SettledTree
  <2> QED BY <1>23, <1>25, <2>5, <2>6 DEF SettledTree
<1>31. FrameAt(old, t, p, m + 1)'
  <2>1. Kids(m + 1)' = 0 /\ 1..0 = {}
    BY <1>21 DEF Kids
  <2>2. stack'[m + 1].from = IF pc = "build" THEN [depth |-> depth - (m + 1) + 1, start |-> q]
                                              ELSE old[q]
    BY <1>21 DEF FromAt
  <2>3. m + 1 = 1 => q = 0
    BY <1>1, <1>4, StackTyped
  <2>4. (m + 1) - 1 = m /\ ~(m + 1 < m + 1)
    OBVIOUS
  <2>5. heap'.left[n] = Null /\ heap'.right[n] = Null
    BY <1>6, <1>17
  <2>6. \A j \in 1..Kids(m + 1)' : FALSE
    BY <2>1
  <2>7. p[m + 1] = q /\ stack'[m + 1].node = n /\ t[q] = n /\ pc' = pc /\ depth' = depth
    BY <1>7, <1>10, <1>11, <1>21
  <2>8. Width((m + 1) - 1) <= q + 1 /\ q + 1 < Width(m + 1)
    BY <1>3, <2>4
  <2>9. ~(m + 1 < Len(stack'))
    BY <1>18, <2>4
  <2>10. Kids(m + 1)' <= 2
    BY <2>1
  <2> QED BY <1>2, <1>23, <2>2, <2>3, <2>5, <2>6, <2>7, <2>8, <2>9, <2>10 DEF FrameAt
<1>32. ASSUME NEW k \in 1..m
       PROVE  FrameAt(old, t, p, k)'
  <2>1. k \in Nat \ {0} /\ p[k] = place[k] /\ stack'[k] = stack[k] /\ Kids(k)' = Kids(k)
    <3>1. k \in Nat \ {0}
      OBVIOUS
    <3>2. p[k] = place[k]
      BY <1>11
    <3>3. stack'[k] = stack[k] /\ Len(stack'[k].kids) = Kids(k)
      BY <1>19, <1>20
    <3>4. Kids(k)' = Kids(k)
      BY <3>3 DEF Kids
    <3> QED BY <3>1, <3>2, <3>3, <3>4
  <2>2. FrameAt(old, new, place, k) /\ stack[k].node \in Addr /\ Kids(k) \in Nat
    BY <1>18, StackTyped DEF Ghost, NewTree
  <2>3. place[k] \in Inner /\ place[k] \in Nat /\ stack[k].node = new[place[k]]
    BY <2>1, <2>2 DEF FrameAt
  <2>4. t[place[k]] = new[place[k]]
    <3>1. place[k] # q
      BY <1>2, <2>2, <2>3, AddressesEnough DEF Typed
    <3> QED BY <1>10, <2>3, <3>1
  <2>5. Kids(k) < 2 /\ p[k + 1] = 2 * p[k] + 1 + Kids(k)
    <3>1. CASE k = m
      <4>1. stack # <<>>
        BY <1>18, <3>1, StackTyped
      <4>2. Kids(m) \in Nat /\ Kids(m) < 2 /\ place[m] \in Nat /\ q = 2 * place[m] + (Kids(m) + 1)
        BY <1>5, <4>1
      <4>3. q = 2 * place[m] + 1 + Kids(m)
        BY <4>2
      <4> QED BY <1>11, <2>1, <3>1, <4>2, <4>3
    <3>2. CASE k # m
      <4>1. k < Len(stack) /\ k + 1 \in 1..m
        BY <1>18, <3>2
      <4>2. Kids(k) < 2 /\ place[k + 1] = 2 * place[k] + 1 + Kids(k)
        BY <2>2, <4>1 DEF FrameAt
      <4> QED BY <1>11, <2>1, <4>1, <4>2
    <3> QED BY <3>1, <3>2
  <2>6. ASSUME NEW j \in 1..Kids(k)
        PROVE  /\ stack[k].kids[j] = t[2 * place[k] + j]
               /\ 2 * place[k] + j \in Inner => 2 * place[k] + j \in Settled(new, place)
    <3>1. /\ stack[k].kids[j] = new[2 * place[k] + j]
          /\ 2 * place[k] + j \in Inner => 2 * place[k] + j \in Settled(new, place)
      BY <2>2 DEF FrameAt
    <3>2. 2 * place[k] + j \in Nat
      BY <2>2, <2>3
    <3>3. 2 * place[k] + j # q
      BY <1>2, <1>26, <3>1
    <3> QED BY <1>10, <3>1, <3>2, <3>3
  <2>7. heap'.left[stack[k].node] = Null /\ heap'.right[stack[k].node] = Null
    BY <1>17, <2>2 DEF FrameAt
  <2>8. /\ Kids(k) <= 2 /\ Width(k - 1) <= place[k] + 1 /\ place[k] + 1 < Width(k)
        /\ k = 1 => place[k] = 0
    BY <2>2 DEF FrameAt
  <2>9. stack[k].from = IF pc = "build" THEN [depth |-> depth - k + 1, start |-> place[k]]
                                        ELSE old[place[k]]
    BY <2>2 DEF FrameAt
  <2> QED BY <1>7, <1>23, <1>25, <2>1, <2>3, <2>4, <2>5, <2>6, <2>7, <2>8, <2>9 DEF FrameAt
<1>33. Reached(t, p)'
  <2> SUFFICES ASSUME NEW u \in Nat, NEW j \in {1, 2}, t[2 * u + j] # Null
               PROVE  /\ t[u] # Null
                      /\ \A k \in 1..(m + 1) :
                            p[k] = u => j <= Kids(k)' \/ (k < m + 1 /\ j = Kids(k)' + 1)
    <3>1. Len(stack') = m + 1
      BY <1>18
    <3> QED BY <3>1, Zenon DEF Reached
  <2>1. 2 * u + j \in Nat
    OBVIOUS
  <2>2. NewTree(old, new, place)
    BY DEF Ghost
  <2>3. CASE 2 * u + j # q
    <3>1. new[2 * u + j] # Null
      BY <1>10, <2>1, <2>3
    <3>2. new[u] # Null /\ \A k \in 1..Len(stack) :
                              place[k] = u => j <= Kids(k) \/ (k < Len(stack) /\ j = Kids(k) + 1)
      BY <2>2, <3>1 DEF NewTree, Reached
    <3>3. u # q
      BY <1>2, <3>2
    <3>4. ASSUME NEW k \in 1..(m + 1), p[k] = u
          PROVE  j <= Kids(k)' \/ (k < m + 1 /\ j = Kids(k)' + 1)
      <4>1. k # m + 1
        BY <1>11, <3>3, <3>4
      <4>2. k \in 1..m /\ k < m + 1
        BY <4>1
      <4>3. place[k] = u /\ Kids(k)' = Kids(k)
        BY <1>11, <1>20, <3>4, <4>2 DEF Kids
      <4>4. j <= Kids(k) \/ (k < Len(stack) /\ j = Kids(k) + 1)
        BY <1>18, <3>2, <4>2, <4>3
      <4> QED BY <4>2, <4>3, <4>4
    <3>5. t[u] # Null
      BY <1>10, <3>2, <3>3
    <3> QED BY <3>4, <3>5
  <2>4. CASE 2 * u + j = q
    <3>1. q # 0
      BY <2>4
    <3>2. stack # <<>>
      BY <1>4, <3>1
    <3>3. /\ m \in 1..m /\ place[m] \in Nat /\ new[place[m]] # Null
          /\ Kids(m) \in Nat /\ Kids(m) < 2 /\ q = 2 * place[m] + (Kids(m) + 1)
      BY <1>5, <3>2
    <3>4. u = place[m] /\ j = Kids(m) + 1
      BY <2>4, <3>3
    <3>5. t[u] # Null /\ u # q
      BY <1>2, <1>10, <3>3, <3>4
    <3>6. ASSUME NEW k \in 1..(m + 1), p[k] = u
          PROVE  k < m + 1 /\ j = Kids(k)' + 1
      <4>1. k # m + 1
        BY <1>11, <3>5, <3>6
      <4>2. k \in 1..m /\ k < m + 1
        BY <4>1
      <4>3. place[k] = place[m]
        BY <1>11, <3>4, <3>6, <4>2
      <4>4. k = m
        <5>1. k \in 1..Len(stack) /\ m \in 1..Len(stack)
          BY <1>18, <3>3, <4>2
        <5> QED BY <2>2, <4>3, <5>1, LevelsApart
      <4>5. Kids(k)' = Kids(k)
        BY <1>20, <4>2 DEF Kids
      <4> QED BY <3>4, <4>2, <4>4, <4>5
    <3> QED BY <3>5, <3>6
  <2> QED BY <2>3, <2>4
<1>34. NewTree(old, t, p)'
  <2>1. \A k \in 1..(m + 1) : FrameAt(old, t, p, k)'
    BY <1>12, <1>31, <1>32
  <2> QED BY <1>18, <1>29, <1>30, <1>33, <2>1 DEF NewTree
<1>35. Phase(t)'
  <2>1. stack' # <<>>
    BY <1>18
  <2>2. Phase(new) /\ pc \in {"build", "transform"}
    BY DEF Ghost, MayCall
  <2> QED BY <1>7, <2>1, <2>2 DEF Phase
<1>36. Closed' /\ CountsOne'
  <2>1. Closed /\ CountsOne /\ heap.live \subseteq Addr
    BY HeapTyped DEF Ghost, Typed
  <2>2. Children(heap', n) = {} /\ \A a \in heap.live : Children(heap', a) = Children(heap, a)
    BY <1>6, <1>17, <2>1 DEF Children
  <2>3. Closed'
    BY <1>16, <2>1, <2>2 DEF Closed
  <2>4. ASSUME rt = "Rc", NEW a \in heap'.live
        PROVE  heap'.rc[a] = 1
    <3>1. a \in Addr /\ (a = n \/ a \in heap.live)
      BY <1>6, <1>16, <2>1, <2>4
    <3>2. a # n => heap.rc[a] = 1
      BY <2>1, <2>4, <3>1 DEF CountsOne
    <3> QED BY <1>17, <3>1, <3>2
  <2>5. CountsOne'
    BY <1>7, <2>4 DEF CountsOne
  <2> QED BY <2>3, <2>5
<1>37. Budget(t)'
  <2>1. IsFiniteSet(heap.live) /\ Cardinality(heap.live) \in Nat
    <3>1. Budget(new) /\ (pc = "transform" => i < Transforms) /\ pc \in {"build", "transform"}
      BY DEF Ghost, Phase, MayCall
    <3> QED BY <1>2, <3>1, FreshThere
  <2>2. Cardinality(heap'.live) = Cardinality(heap.live) + 1
    BY <1>6, <1>16, <2>1, FS_AddElement
  <2>3. IsFiniteSet(Made(new)) /\ Cardinality(Made(new)) \in Nat
    <3>1. IsFiniteSet(Inner)
      BY InnerFacts DEF Typed
    <3>2. Made(new) \in SUBSET Inner
      BY DEF Made
    <3> QED BY <3>1, <3>2, FS_Subset, FS_CardinalityType
  <2>4. Made(t)' = Made(new) \cup {q} /\ q \notin Made(new)
    <3>1. Inner \subseteq Nat
      BY InnerFacts DEF Typed
    <3>2. \A v \in Inner : t[v] # Null <=> v = q \/ new[v] # Null
      BY <1>6, <1>10, <3>1
    <3>3. Made(t)' = {v \in Inner : t[v] # Null}
      BY <1>23 DEF Made
    <3> QED BY <1>2, <3>2, <3>3 DEF Made
  <2>5. Cardinality(Made(t)') = Cardinality(Made(new)) + 1
    BY <2>3, <2>4, FS_AddElement
  <2>6. Trees \in Nat /\ Size \in Nat
    BY InnerFacts, WorkloadTreeAssumption DEF Trees, Typed
  <2>7. Trees' = Trees /\ Size' = Size
    BY <1>7 DEF Trees, Size
  <2>8. PICK a \in Nat, b \in Nat, c \in Nat, s \in Nat :
            a = Cardinality(heap.live) /\ b = Trees /\ s = Size /\ c = Cardinality(Made(new))
    BY <2>1, <2>3, <2>6
  <2>9. a <= b * s + c
    BY <2>8 DEF Ghost, Budget
  <2>10. PICK e \in Nat : e = b * s
    BY Z3
  <2>11. a + 1 <= e + (c + 1)
    BY <2>9, <2>10
  <2> QED BY <2>2, <2>5, <2>7, <2>8, <2>10, <2>11 DEF Budget
<1>38. Exact(old, t)'
  <2>1. Exact(old, new)
    BY DEF Ghost
  <2>2. \A a \in heap.live : a # Null
    BY AddressesEnough, HeapTyped DEF Typed
  <2>3. ASSUME NEW a \in heap.live, \E v \in Nat : a = old[v] \/ a = new[v]
        PROVE  \E v \in Nat : a = old[v] \/ a = t[v]
    BY <1>2, <1>10, <2>2, <2>3
  <2> QED BY <1>7, <1>10, <1>16, <2>1, <2>3 DEF Exact
<1>39. Ghost(old, t, p)'
  BY <1>27, <1>28, <1>34, <1>35, <1>36, <1>37, <1>38 DEF Ghost
<1>40. Tree' = Tree
  BY <1>23 DEF Node, Addr, Tree
<1>41. pc' # "done"
  BY <1>7 DEF MayCall
<1> QED BY <1>39, <1>40, <1>41 DEF HeapInv

\* The depth and the place of the outermost call, or the old tree.
RootFrom ==
    IF pc = "transform" THEN current
    ELSE IF depth = 0 THEN Null ELSE [depth |-> depth, start |-> 0]

\* What the next call is made from.
NextFrom == IF stack = <<>> THEN RootFrom ELSE SubtreeFrom(Top.from, Len(Top.kids))

\* An argument that is not Null stands for a place of the tree and is what its frame
\* will have, and gives the value of its node.
FromFits(old, q) ==
    IF q \in Inner
    THEN /\ NextFrom # Null /\ NextFrom = FromAt(old, q, Len(stack) + 1)
         /\ (IF pc = "build" THEN NextFrom.start ELSE heap.value[NextFrom] + 1)
            = q + (IF pc = "build" THEN 0 ELSE i + 1)
    ELSE NextFrom = Null

\* build_tree descends as far as there are inner places.
LEMMA BuildFromFits ==
    ASSUME Typed, NEW old \in Tree, NEW new \in Tree, NEW place \in [Nat -> Nat],
           Ghost(old, new, place), MayCall, pc = "build"
    PROVE  FromFits(old, NextPlace(place))
<1>1. PICK q \in Nat, m \in Nat, d \in Nat : q = NextPlace(place) /\ m = Len(stack) /\ d = depth
  BY NextIsNew, StackTyped, InnerFacts DEF Typed
<1>2. Width(m) <= q + 1 /\ q + 1 < Width(m + 1)
  BY <1>1, NextIsNew
<1>3. Size \in Nat /\ Size + 1 = Width(d) /\ (q \in Inner <=> q < Size)
  BY <1>1, InnerFacts DEF Typed
<1>4. q \in Inner <=> m < d
  <2>1. /\ d <= m => Width(d) <= Width(m)
        /\ m + 1 <= d => Width(m + 1) <= Width(d)
    <3>1. m + 1 \in Nat
      OBVIOUS
    <3> QED BY <3>1, WidthFacts
  <2>2. PICK a \in Nat, b \in Nat, s \in Nat : a = Width(m) /\ b = Width(m + 1) /\ s = Size
    <3>1. m + 1 \in Nat
      OBVIOUS
    <3>2. Width(m) \in Nat /\ Width(m + 1) \in Nat
      BY <3>1, WidthFacts
    <3> QED BY <1>3, <3>2
  <2>3. a <= q + 1 /\ q + 1 < b /\ (d <= m => s + 1 <= a) /\ (m + 1 <= d => b <= s + 1)
    BY <1>2, <1>3, <2>1, <2>2
  <2>4. q < s <=> m < d
    BY <2>3
  <2> QED BY <1>3, <2>2, <2>4
<1>5. Null \notin [depth : Nat, start : Nat]
  BY WorkloadTreeAssumption
<1>6. NextFrom = IF d = m THEN Null ELSE [depth |-> d - m, start |-> q]
  <2>1. CASE stack = <<>>
    <3>1. m = 0 /\ q = 0
      BY <1>1, <2>1 DEF NextPlace
    <3>2. NextFrom = IF d = 0 THEN Null ELSE [depth |-> d, start |-> 0]
      BY <1>1, <2>1 DEF NextFrom, RootFrom
    <3> QED BY <3>1, <3>2
  <2>2. CASE stack # <<>>
    <3>1. m \in 1..Len(stack) /\ Kids(m) \in Nat
      BY <1>1, <2>2, StackTyped
    <3>2. FrameAt(old, new, place, m)
      BY <3>1 DEF Ghost, NewTree
    <3>3. PICK u \in Nat, k \in Nat : u = place[m] /\ k = Kids(m)
      BY <1>1, <3>1
    <3>4. stack[m].from = [depth |-> d - m + 1, start |-> u]
      BY <1>1, <3>2, <3>3 DEF FrameAt
    <3>5. Top.from = stack[m].from /\ Len(Top.kids) = k
      BY <1>1, <3>3 DEF Top, Last, Kids
    <3>6. q = 2 * u + 1 + k
      BY <1>1, <2>2, <3>3 DEF NextPlace
    <3>7. NextFrom = IF d - m + 1 = 1 THEN Null
                     ELSE [depth |-> d - m + 1 - 1, start |-> 2 * u + 1 + k]
      BY <2>2, <3>4, <3>5 DEF NextFrom, SubtreeFrom
    <3>8. d - m + 1 = 1 <=> d = m
      OBVIOUS
    <3>9. d - m + 1 - 1 = d - m
      OBVIOUS
    <3> QED BY <3>6, <3>7, <3>8, <3>9
  <2> QED BY <2>1, <2>2
<1>7. m <= d
  <2>1. CASE stack = <<>>
    BY <1>1, <2>1
  <2>2. CASE stack # <<>>
    <3>1. m \in 1..Len(stack)
      BY <1>1, <2>2, StackTyped
    <3> QED BY <1>1, <3>1, LevelsFit DEF Ghost
  <2> QED BY <2>1, <2>2
<1>8. CASE d = m
  <2>1. q \notin Inner /\ NextFrom = Null
    BY <1>4, <1>6, <1>8
  <2> QED BY <1>1, <2>1 DEF FromFits
<1>9. CASE d # m
  <2>1. q \in Inner
    BY <1>4, <1>7, <1>9
  <2>2. NextFrom = [depth |-> d - m, start |-> q] /\ d - m \in Nat
    BY <1>6, <1>7, <1>9
  <2>3. NextFrom # Null
    BY <1>5, <2>2
  <2>4. FromAt(old, q, m + 1) = [depth |-> d - (m + 1) + 1, start |-> q]
    BY <1>1 DEF FromAt
  <2>5. d - (m + 1) + 1 = d - m
    OBVIOUS
  <2>6. NextFrom = FromAt(old, q, m + 1)
    BY <2>2, <2>4, <2>5
  <2>7. NextFrom.start = q + 0
    BY <2>2
  <2> QED BY <1>1, <2>1, <2>3, <2>6, <2>7 DEF FromFits
<1> QED BY <1>8, <1>9

\* transform_tree descends as far as the old tree goes, a Null of it being below a leaf.
LEMMA TransformFromFits ==
    ASSUME Typed, NEW old \in Tree, NEW new \in Tree, NEW place \in [Nat -> Nat],
           Ghost(old, new, place), MayCall, pc = "transform"
    PROVE  FromFits(old, NextPlace(place))
<1>1. PICK q \in Nat, m \in Nat : q = NextPlace(place) /\ m = Len(stack)
  BY NextIsNew, StackTyped
<1>2. OldTree(old) /\ Full(old)
  BY DEF Ghost, OldTree
<1>3. NextFrom = old[q]
  <2>1. CASE stack = <<>>
    <3>1. q = 0
      BY <1>1, <2>1 DEF NextPlace
    <3>2. NextFrom = current
      BY <2>1 DEF NextFrom, RootFrom
    <3> QED BY <1>2, <3>1, <3>2 DEF OldTree
  <2>2. CASE stack # <<>>
    <3>1. m \in 1..Len(stack) /\ Kids(m) \in Nat /\ Kids(m) < 2
      BY <1>1, <2>2, StackTyped DEF MayCall
    <3>2. FrameAt(old, new, place, m)
      BY <3>1 DEF Ghost, NewTree
    <3>3. PICK u \in Nat, k \in {0, 1} : u = place[m] /\ k = Kids(m)
      <4>1. place[m] \in Nat
        OBVIOUS
      <4>2. PICK c \in Nat : c = Kids(m)
        BY <3>1
      <4>3. c < 2
        BY <3>1, <4>2
      <4>4. c = 0 \/ c = 1
        BY <4>3
      <4> QED BY <4>1, <4>2, <4>4
    <3>4. stack[m].from = old[u] /\ u \in Inner
      BY <3>2, <3>3 DEF FrameAt
    <3>5. Top.from = stack[m].from /\ Len(Top.kids) = k
      BY <1>1, <3>3 DEF Top, Last, Kids
    <3>6. q = 2 * u + 1 + k
      BY <1>1, <2>2, <3>3 DEF NextPlace
    <3>7. NextFrom = IF k = 0 THEN heap.left[old[u]] ELSE heap.right[old[u]]
      BY <2>2, <3>4, <3>5 DEF NextFrom, SubtreeFrom
    <3>8. old[u] # Null
      BY <1>2, <3>4 DEF Full
    <3>9. heap.left[old[u]] = old[2 * u + 1] /\ heap.right[old[u]] = old[2 * u + 2]
      BY <1>2, <3>8 DEF OldTree, Linked
    <3>10. k = 0 => q = 2 * u + 1
      BY <3>6
    <3>11. k = 1 => q = 2 * u + 2
      BY <3>6
    <3> QED BY <3>7, <3>9, <3>10, <3>11
  <2> QED BY <2>1, <2>2
<1>4. CASE q \in Inner
  <2>1. old[q] # Null
    BY <1>2, <1>4 DEF Full
  <2>2. heap.value[old[q]] = q + i
    BY <1>2, <2>1 DEF OldTree, Valued
  <2>3. (q + i) + 1 = q + (i + 1)
    BY WorkloadTreeAssumption DEF Typed
  <2> QED BY <1>1, <1>3, <1>4, <2>1, <2>2, <2>3 DEF FromFits, FromAt
<1>5. CASE q \notin Inner
  <2>1. old[q] = Null
    BY <1>5, TreeTyped DEF Typed
  <2> QED BY <1>1, <1>3, <1>5, <2>1 DEF FromFits
<1> QED BY <1>4, <1>5

\* The subtree of a place that is no inner one is Null.
NullAt(place) ==
    /\ NextPlace(place) \notin Inner
    /\ Return(stack, Null)
    /\ UNCHANGED <<argVars, pc, i, current, rootLeft, heap>>

\* A call allocates the node of the next place or returns at once.
LEMMA Calls ==
    ASSUME Typed, NEW old \in Tree, NEW new \in Tree, NEW place \in [Nat -> Nat],
           Ghost(old, new, place), Begin \/ MakeSubtree
    PROVE  /\ MayCall
           /\ CallAt(old, place, Fresh(heap)) \/ NullAt(place)
<1>1. MayCall
  <2>1. CASE Begin
    BY <2>1 DEF Begin, MayCall
  <2>2. CASE MakeSubtree
    <3>1. stack # <<>> /\ Len(Top.kids) < 2
      BY <2>2 DEF MakeSubtree
    <3>2. pc \in {"build", "transform"} /\ made = <<>>
      BY <3>1 DEF Ghost, Phase
    <3> QED BY <3>1, <3>2 DEF MayCall, Top, Last, Kids
  <2> QED BY <2>1, <2>2
<1>2. FromFits(old, NextPlace(place))
  BY <1>1, BuildFromFits, TransformFromFits DEF MayCall
<1>3. PICK q \in Nat : q = NextPlace(place) /\ new[q] = Null
  BY <1>1, NextIsNew
<1>4. /\ IF NextFrom = Null
         THEN Return(stack, Null) /\ UNCHANGED heap
         ELSE Call(stack, NextFrom) /\ UNCHANGED made
      /\ UNCHANGED <<argVars, pc, i, current, rootLeft>>
  <2>1. CASE Begin
    <3>1. stack = <<>>
      BY <2>1 DEF Begin
    <3>2. NextFrom = RootFrom
      BY <3>1 DEF NextFrom
    <3> QED BY <2>1, <3>1, <3>2 DEF Begin, RootFrom
  <2>2. CASE MakeSubtree
    <3>1. NextFrom = SubtreeFrom(Top.from, Len(Top.kids))
      BY <2>2 DEF NextFrom, MakeSubtree
    <3> QED BY <2>2, <3>1 DEF MakeSubtree
  <2> QED BY <2>1, <2>2
<1>5. CASE q \in Inner
  <2>1. Fresh(heap) \in Addr /\ Fresh(heap) \notin heap.live
    <3>1. Budget(new) /\ (pc = "transform" => i < Transforms) /\ pc \in {"build", "transform"}
      BY <1>1 DEF Ghost, Phase, MayCall
    <3> QED BY <1>3, <1>5, <3>1, FreshThere
  <2>2. /\ NextFrom # Null /\ NextFrom = FromAt(old, q, Len(stack) + 1)
        /\ (IF pc = "build" THEN NextFrom.start ELSE heap.value[NextFrom] + 1)
           = q + (IF pc = "build" THEN 0 ELSE i + 1)
    BY <1>2, <1>3, <1>5 DEF FromFits
  <2>3. Call(stack, NextFrom) /\ UNCHANGED made
    BY <1>4, <2>2
  <2>4. heap' = Allocate(heap, Fresh(heap), q + (IF pc = "build" THEN 0 ELSE i + 1))
    BY <2>2, <2>3 DEF Call
  <2>5. stack' = Append(stack, [node |-> Fresh(heap), from |-> FromAt(old, q, Len(stack) + 1),
                                kids |-> <<>>])
    BY <2>2, <2>3 DEF Call
  <2> QED BY <1>1, <1>3, <1>4, <1>5, <2>1, <2>3, <2>4, <2>5 DEF CallAt
<1>6. CASE q \notin Inner
  <2>1. NextFrom = Null
    BY <1>2, <1>3, <1>6 DEF FromFits
  <2> QED BY <1>1, <1>3, <1>4, <1>6, <2>1 DEF NullAt
<1> QED BY <1>1, <1>5, <1>6

-----------------------------------------------------------------------------
\* Returns

\* What the caller has when it gets the subtree n.
LEMMA Returned ==
    ASSUME NEW callers, callers \in Seq(Frame), callers # <<>>, NEW n \in Node, Return(callers, n)
    PROVE  /\ stack' \in Seq(Frame) /\ Len(stack') = Len(callers) /\ made' = made
           /\ Len(callers) \in Nat
           /\ \A k \in 1..Len(callers) :
                 /\ stack'[k].node = callers[k].node
                 /\ stack'[k].from = callers[k].from
                 /\ stack'[k].kids = IF k = Len(callers) THEN Append(callers[k].kids, n)
                                     ELSE callers[k].kids
<1> DEFINE c == Len(callers)
           top == callers[c]
           frame == [top EXCEPT !.kids = Append(@, n)]
<1>1. c \in 1..c /\ c \in Nat
  OBVIOUS
<1>2. top \in Frame
  BY <1>1
<1>3. top.kids \in Seq(Node) /\ Append(top.kids, n) \in Seq(Node)
  BY <1>2, Appended DEF Frame
<1>4. frame \in Frame /\ frame.node = top.node /\ frame.from = top.from
      /\ frame.kids = Append(top.kids, n)
  BY <1>2, <1>3 DEF Frame
<1>5. stack' = [callers EXCEPT ![c] = frame] /\ made' = made
  BY DEF Return
<1>6. callers \in [1..c -> Frame]
  OBVIOUS
<1> HIDE DEF frame
<1>7. [callers EXCEPT ![c] = frame] \in Seq(Frame) /\ Len([callers EXCEPT ![c] = frame]) = c
  BY <1>1, <1>4
<1>8. \A k \in 1..c : [callers EXCEPT ![c] = frame][k] = IF k = c THEN frame ELSE callers[k]
  BY <1>6
<1>9. \A k \in 1..c : stack'[k] = IF k = c THEN frame ELSE callers[k]
  BY <1>5, <1>8
<1> HIDE DEF c, top
<1>10. ASSUME NEW k \in 1..c
       PROVE  /\ stack'[k].node = callers[k].node
              /\ stack'[k].from = callers[k].from
              /\ stack'[k].kids = IF k = c THEN Append(callers[k].kids, n) ELSE callers[k].kids
  <2>1. CASE k = c
    BY <1>4, <1>9, <2>1 DEF top
  <2>2. CASE k # c
    BY <1>9, <2>2
  <2> QED BY <2>1, <2>2
<1> QED BY <1>1, <1>5, <1>7, <1>10 DEF c

\* The places whose nodes are returned when c frames are left.
SettledIn(new, place, c) == {v \in Nat : new[v] # Null /\ \A k \in 1..c : place[k] # v}

\* The subtree at place r is returned to the frame c.
ReturnAt(old, new, place, c, r) ==
    /\ pc \in {"build", "transform"} /\ made = <<>>
    /\ c <= Len(stack)
    /\ IF c = 0 THEN r = 0 ELSE Kids(c) < 2 /\ r = 2 * place[c] + (Kids(c) + 1)
    /\ Return(SubSeq(stack, 1, c), new[r])
    /\ UNCHANGED <<argVars, pc, i, current, rootLeft>>
    /\ heap' \in Heap
    /\ heap'.live = heap.live /\ heap'.value = heap.value /\ heap'.rc = heap.rc
    /\ \A v \in Nat : old[v] # Null => /\ heap'.left[old[v]] = heap.left[old[v]]
                                       /\ heap'.right[old[v]] = heap.right[old[v]]
    /\ \A k \in 1..c : heap'.left[stack[k].node] = Null /\ heap'.right[stack[k].node] = Null
    /\ \A v \in SettledIn(new, place, c) :
          heap'.left[new[v]] = new[2 * v + 1] /\ heap'.right[new[v]] = new[2 * v + 2]
    /\ \A v \in SettledIn(new, place, c), j \in {1, 2} :
          2 * v + j \in Inner => 2 * v + j \in SettledIn(new, place, c)
    /\ r \in Inner => r \in SettledIn(new, place, c)
    /\ Closed'

\* The return of a subtree to its caller, or to run_test, keeps the invariant.
LEMMA ReturnKeeps ==
    ASSUME Typed, NEW old \in Tree, NEW new \in Tree, NEW place \in [Nat -> Nat],
           Ghost(old, new, place), NEW c \in Nat, NEW r \in Nat, ReturnAt(old, new, place, c, r)
    PROVE  Typed' /\ HeapInv'
<1>1. stack \in Seq(Frame) /\ Len(stack) \in Nat /\ c <= Len(stack)
  BY StackTyped DEF ReturnAt, Typed
<1>2. new[r] \in Node
  BY <1>1, TreeTyped DEF Typed
<1>3. UNCHANGED <<rt, depth, pc, i, current, rootLeft>>
  BY DEF ReturnAt, argVars
<1>4. pc \in {"build", "transform"} /\ made = <<>>
  BY DEF ReturnAt
<1>5. PICK callers \in Seq(Frame) :
         /\ callers = SubSeq(stack, 1, c)
         /\ Len(callers) = c /\ \A k \in 1..c : callers[k] = stack[k]
  <2>1. 1 \in Int /\ c \in Int /\ \A k \in 1..c : stack[k] \in Frame
    BY <1>1
  <2>2. /\ SubSeq(stack, 1, c) \in Seq(Frame)
        /\ Len(SubSeq(stack, 1, c)) = IF 1 <= c THEN c - 1 + 1 ELSE 0
        /\ \A k \in 1..(c - 1 + 1) : SubSeq(stack, 1, c)[k] = stack[1 + k - 1]
    BY <2>1, SubSeqProperties
  <2>3. c - 1 + 1 = c /\ (\A k \in 1..c : 1 + k - 1 = k)
    BY <1>1
  <2>4. Len(SubSeq(stack, 1, c)) = c
    BY <1>1, <2>2, <2>3
  <2>5. \A k \in 1..c : SubSeq(stack, 1, c)[k] = stack[k]
    BY <2>2, <2>3
  <2> QED BY <2>2, <2>4, <2>5
<1>6. Return(callers, new[r])
  BY <1>5 DEF ReturnAt
\* The stack and what has been returned.
<1>7. /\ stack' \in Seq(Frame) /\ Len(stack') = c
      /\ IF c = 0 THEN made' = <<new[0]>> ELSE made' = <<>>
      /\ \A k \in 1..c :
            /\ stack'[k].node = stack[k].node
            /\ stack'[k].from = stack[k].from
            /\ stack'[k].kids = IF k = c THEN Append(stack[k].kids, new[r]) ELSE stack[k].kids
  <2>1. CASE c = 0
    <3>1. callers = <<>> /\ r = 0
      BY <1>5, <2>1 DEF ReturnAt
    <3>2. stack' = <<>> /\ made' = <<new[0]>>
      BY <1>6, <3>1 DEF Return
    <3>3. <<>> \in Seq(Frame) /\ Len(<<>>) = 0 /\ 1..0 = {}
      OBVIOUS
    <3> QED BY <2>1, <3>2, <3>3
  <2>2. CASE c # 0
    <3>1. callers # <<>>
      BY <1>5, <2>2
    <3>2. /\ stack' \in Seq(Frame) /\ Len(stack') = c /\ made' = made
          /\ \A k \in 1..c :
                /\ stack'[k].node = callers[k].node
                /\ stack'[k].from = callers[k].from
                /\ stack'[k].kids = IF k = c THEN Append(callers[k].kids, new[r])
                                    ELSE callers[k].kids
      <4>1. /\ stack' \in Seq(Frame) /\ Len(stack') = Len(callers) /\ made' = made
            /\ \A k \in 1..Len(callers) :
                  /\ stack'[k].node = callers[k].node
                  /\ stack'[k].from = callers[k].from
                  /\ stack'[k].kids = IF k = Len(callers) THEN Append(callers[k].kids, new[r])
                                      ELSE callers[k].kids
        BY <1>2, <1>6, <3>1, Returned
      <4>2. Len(callers) = c
        BY <1>5
      <4> QED BY <4>1, <4>2
    <3>3. \A k \in 1..c : callers[k] = stack[k]
      BY <1>5
    <3>4. \A k \in 1..c :
             /\ stack'[k].node = stack[k].node
             /\ stack'[k].from = stack[k].from
             /\ stack'[k].kids = IF k = c THEN Append(stack[k].kids, new[r]) ELSE stack[k].kids
      BY <3>2, <3>3
    <3>5. made' = <<>>
      BY <1>4, <3>2
    <3> QED BY <2>2, <3>2, <3>4, <3>5
  <2> QED BY <2>1, <2>2
<1>8. Typed'
  <2>1. /\ made' \in Seq(Node) /\ Len(made') <= 1
    <3>1. new[0] \in Node
      BY TreeTyped DEF Typed
    <3>2. CASE c = 0
      <4>1. made' = <<new[0]>>
        BY <1>7, <3>2
      <4> QED BY <3>1, <4>1
    <3>3. CASE c # 0
      <4>1. made' = <<>>
        BY <1>7, <3>3
      <4> QED BY <4>1
    <3> QED BY <3>2, <3>3
  <2>2. heap' \in Heap
    BY DEF ReturnAt
  <2> QED BY <1>3, <1>7, <2>1, <2>2 DEF Typed
<1>9. \A k \in 1..c : k \in 1..Len(stack) /\ stack[k].kids \in Seq(Node) /\ stack[k].node \in Addr
  <2> SUFFICES ASSUME NEW k \in 1..c
               PROVE  k \in 1..Len(stack) /\ stack[k].kids \in Seq(Node) /\ stack[k].node \in Addr
    OBVIOUS
  <2>1. k \in 1..Len(stack)
    <3>1. PICK l \in Nat : l = Len(stack) /\ c <= l
      BY <1>1
    <3>2. k \in 1..l
      BY <3>1
    <3> QED BY <3>1, <3>2
  <2> QED BY <2>1, StackTyped
<1>10. \A k \in 1..c : Kids(k) \in Nat /\ Len(stack'[k].kids) = IF k = c THEN Kids(k) + 1 ELSE Kids(k)
  <2> SUFFICES ASSUME NEW k \in 1..c
               PROVE  Kids(k) \in Nat /\ Len(stack'[k].kids) = IF k = c THEN Kids(k) + 1 ELSE Kids(k)
    OBVIOUS
  <2>1. Len(stack[k].kids) \in Nat /\ Len(Append(stack[k].kids, new[r])) = Len(stack[k].kids) + 1
    <3>1. PICK s \in Seq(Node) : s = stack[k].kids
      BY <1>9
    <3>2. Len(s) \in Nat /\ Len(Append(s, new[r])) = Len(s) + 1
      BY <1>2, Appended
    <3> QED BY <3>1, <3>2
  <2> QED BY <1>7, <2>1 DEF Kids
<1>11. \A k \in 1..c, j \in Nat : j \in 1..Kids(k) => stack'[k].kids[j] = stack[k].kids[j]
  <2> SUFFICES ASSUME NEW k \in 1..c, NEW j \in 1..Kids(k)
               PROVE  stack'[k].kids[j] = stack[k].kids[j]
    OBVIOUS
  <2>1. Append(stack[k].kids, new[r])[j] = stack[k].kids[j]
    BY <1>2, <1>9, Appended DEF Kids
  <2> QED BY <1>7, <2>1
<1>12. c # 0 => stack'[c].kids[Kids(c) + 1] = new[r]
  <2> SUFFICES ASSUME c # 0 PROVE stack'[c].kids[Kids(c) + 1] = new[r]
    OBVIOUS
  <2>1. c \in 1..c
    BY <1>1
  <2>2. Append(stack[c].kids, new[r])[Kids(c) + 1] = new[r]
    <3>1. PICK s \in Seq(Node) : s = stack[c].kids
      BY <1>9, <2>1
    <3>2. Append(s, new[r])[Len(s) + 1] = new[r]
      BY <1>2, Appended
    <3> QED BY <3>1, <3>2 DEF Kids
  <2> QED BY <1>7, <2>1, <2>2
<1>13. Inner' = Inner
  BY <1>3 DEF Inner
<1>14. Settled(new, place)' = SettledIn(new, place, c)
  BY <1>7 DEF Settled, SettledIn
<1>15. Settled(new, place) \subseteq SettledIn(new, place, c)
  BY <1>9 DEF Settled, SettledIn
<1>16. \A v \in Nat : (old[v] # Null => old[v] \in Addr) /\ (new[v] # Null => new[v] \in Addr)
  BY TreeTyped DEF Typed
<1>17. OldTree(old)'
  <2>1. OldTree(old)
    BY DEF Ghost
  <2>2. /\ \A v \in Nat : old[v] # Null => /\ heap'.left[old[v]] = heap.left[old[v]]
                                           /\ heap'.right[old[v]] = heap.right[old[v]]
        /\ heap'.live = heap.live /\ heap'.value = heap.value
    BY DEF ReturnAt
  <2>3. Linked(old, {v \in Nat : old[v] # Null})'
    BY <2>1, <2>2 DEF OldTree, Linked
  <2>4. Valued(old, i)' /\ Stored(old)'
    BY <1>3, <2>1, <2>2 DEF OldTree, Valued, Stored
  <2>5. (IF pc \in {"build", "assign"} THEN Bare(old) ELSE Full(old))'
    BY <1>3, <1>13, <2>1 DEF OldTree, Full, Bare
  <2> QED BY <1>3, <2>1, <2>3, <2>4, <2>5 DEF OldTree
<1>18. ASSUME NEW k \in 1..c
       PROVE  FrameAt(old, new, place, k)'
  <2>1. FrameAt(old, new, place, k) /\ k \in Nat \ {0} /\ Kids(k) \in Nat /\ place[k] \in Nat
    <3>1. k \in 1..Len(stack) /\ Kids(k) \in Nat
      BY <1>9, <1>10
    <3>2. k \in Nat \ {0}
      OBVIOUS
    <3>3. place[k] \in Nat
      BY <3>2
    <3> QED BY <3>1, <3>2, <3>3 DEF Ghost, NewTree
  <2>2. k # c => Kids(k) < 2 /\ place[k + 1] = 2 * place[k] + 1 + Kids(k)
    <3>1. k # c => k < Len(stack)
      BY <1>1
    <3> QED BY <2>1, <3>1 DEF FrameAt
  <2>3. Kids(k)' = IF k = c THEN Kids(k) + 1 ELSE Kids(k)
    BY <1>10 DEF Kids
  <2>4. Kids(k)' <= 2
    <3>1. k = c => Kids(k) < 2
      BY DEF ReturnAt
    <3>2. Kids(k) < 2
      BY <2>2, <3>1
    <3>3. PICK l \in Nat : l = Kids(k) /\ l < 2
      BY <2>1, <3>2
    <3>4. Kids(k)' = l \/ Kids(k)' = l + 1
      BY <2>3, <3>3
    <3>5. l < 2
      BY <3>3
    <3>6. l <= 2 /\ l + 1 <= 2
      BY <3>5
    <3> QED BY <3>4, <3>6
  <2>5. ASSUME NEW j \in 1..Kids(k)'
        PROVE  /\ stack'[k].kids[j] = new[2 * place[k] + j]
               /\ 2 * place[k] + j \in Inner => 2 * place[k] + j \in SettledIn(new, place, c)
    <3>1. CASE j \in 1..Kids(k)
      <4>1. /\ stack[k].kids[j] = new[2 * place[k] + j]
            /\ 2 * place[k] + j \in Inner => 2 * place[k] + j \in Settled(new, place)
        BY <2>1, <3>1 DEF FrameAt
      <4>2. j \in Nat
        BY <2>1, <3>1
      <4>3. stack'[k].kids[j] = stack[k].kids[j]
        BY <1>11, <3>1, <4>2
      <4> QED BY <1>15, <4>1, <4>3
    <3>2. CASE j \notin 1..Kids(k)
      <4>1. k = c /\ j = Kids(c) + 1
        <5>1. PICK l \in Nat : l = Kids(k)
          BY <2>1
        <5>2. k # c => j \in 1..l
          BY <2>3, <2>5, <5>1
        <5>3. k = c => j \in 1..(l + 1)
          BY <2>3, <2>5, <5>1
        <5>4. j \notin 1..l
          BY <3>2, <5>1
        <5>5. k = c /\ j = l + 1
          BY <5>2, <5>3, <5>4
        <5> QED BY <5>1, <5>5
      <4>2. r = 2 * place[c] + j /\ (r \in Inner => r \in SettledIn(new, place, c))
        BY <2>1, <4>1 DEF ReturnAt
      <4> QED BY <1>12, <2>1, <4>1, <4>2
    <3> QED BY <3>1, <3>2
  <2>6. heap'.left[stack[k].node] = Null /\ heap'.right[stack[k].node] = Null
    BY DEF ReturnAt
  <2>7. /\ place[k] \in Inner /\ stack[k].node = new[place[k]]
        /\ Width(k - 1) <= place[k] + 1 /\ place[k] + 1 < Width(k)
        /\ k = 1 => place[k] = 0
    BY <2>1 DEF FrameAt
  <2>8. stack[k].from = IF pc = "build" THEN [depth |-> depth - k + 1, start |-> place[k]]
                                        ELSE old[place[k]]
    BY <2>1 DEF FrameAt
  <2>9. k < c => Kids(k)' < 2 /\ place[k + 1] = 2 * place[k] + 1 + Kids(k)'
    <3>1. k < c => k # c
      OBVIOUS
    <3> QED BY <2>2, <2>3, <3>1
  <2> QED BY <1>3, <1>7, <1>13, <1>14, <2>4, <2>5, <2>6, <2>7, <2>8, <2>9 DEF FrameAt
<1>19. SettledTree(new, place)'
  <2>1. Linked(new, Settled(new, place))'
    BY <1>14 DEF ReturnAt, Linked
  <2> QED BY <1>13, <1>14, <2>1 DEF ReturnAt, SettledTree
<1>20. Reached(new, place)'
  <2>1. Reached(new, place)
    BY DEF Ghost, NewTree
  <2> SUFFICES ASSUME NEW u \in Nat, NEW j \in {1, 2}, new[2 * u + j] # Null
               PROVE  /\ new[u] # Null
                      /\ \A k \in 1..c :
                            place[k] = u => j <= Kids(k)' \/ (k < c /\ j = Kids(k)' + 1)
    BY <1>7 DEF Reached
  <2>2. new[u] # Null /\ \A k \in 1..Len(stack) :
                            place[k] = u => j <= Kids(k) \/ (k < Len(stack) /\ j = Kids(k) + 1)
    BY <2>1 DEF Reached
  <2>3. ASSUME NEW k \in 1..c, place[k] = u
        PROVE  j <= Kids(k)' \/ (k < c /\ j = Kids(k)' + 1)
    <3>1. j <= Kids(k) \/ j = Kids(k) + 1
      BY <1>9, <2>2, <2>3
    <3>2. Kids(k) \in Nat /\ Kids(k)' = IF k = c THEN Kids(k) + 1 ELSE Kids(k)
      BY <1>10 DEF Kids
    <3>3. PICK l \in Nat : l = Kids(k)
      BY <3>2
    <3>4. j <= l \/ j = l + 1
      BY <3>1, <3>3
    <3>5. CASE k = c
      <4>1. Kids(k)' = l + 1
        BY <3>2, <3>3, <3>5
      <4>2. j <= l + 1
        BY <3>4
      <4> QED BY <4>1, <4>2
    <3>6. CASE k # c
      <4>1. k < c
        BY <3>6
      <4>2. Kids(k)' = l
        BY <3>2, <3>3, <3>6
      <4> QED BY <3>4, <4>1, <4>2
    <3> QED BY <3>5, <3>6
  <2> QED BY <2>2, <2>3
<1>21. Stored(new)' /\ Valued(new, IF pc = "build" THEN 0 ELSE i + 1)'
  <2>1. Stored(new) /\ Valued(new, IF pc = "build" THEN 0 ELSE i + 1)
    BY DEF Ghost, NewTree
  <2>2. heap'.live = heap.live /\ heap'.value = heap.value
    BY DEF ReturnAt
  <2> QED BY <1>3, <2>1, <2>2 DEF Stored, Valued
<1>22. NewTree(old, new, place)'
  BY <1>7, <1>18, <1>19, <1>20, <1>21 DEF NewTree
<1>23. c = 0 => Full(new)
  <2> SUFFICES ASSUME c = 0 PROVE Full(new)
    OBVIOUS
  <2> DEFINE S == SettledIn(new, place, c)
  <2>1. \A v \in S, j \in {1, 2} : 2 * v + j \in Inner => 2 * v + j \in S
    BY DEF ReturnAt
  <2>2. 0 \in Inner => 0 \in S
    BY DEF ReturnAt
  <2>3. CASE 0 \in Inner
    <3>1. 0 \in S
      BY <2>2, <2>3
    <3>2. Inner \subseteq S
      <4> HIDE DEF S
      <4> QED BY <2>1, <3>1, RootSettled
    <3> QED BY <3>2 DEF SettledIn, Full
  <2>4. CASE 0 \notin Inner
    <3>1. Inner = {}
      <4>1. Size \in Nat /\ ~(0 < Size) /\ \A v \in Inner : v \in Nat /\ v < Size
        BY <2>4, InnerFacts DEF Typed
      <4> QED BY <4>1
    <3> QED BY <3>1 DEF Full
  <2> QED BY <2>3, <2>4
<1>24. Phase(new)'
  <2>1. Phase(new)
    BY DEF Ghost
  <2>2. c = 0 => stack' = <<>>
    BY <1>7
  <2>3. stack' # <<>> => made' = <<>>
    BY <1>7, <2>2
  <2>4. made' # <<>> => made' = <<new[0]>> /\ Full(new)
    BY <1>7, <1>23
  <2>5. ~(stack' = <<>> /\ made' = <<>>)
    <3>1. CASE c = 0
      <4>1. made' = <<new[0]>>
        BY <1>7, <3>1
      <4> QED BY <4>1
    <3>2. CASE c # 0
      <4>1. Len(stack') = c
        BY <1>7
      <4>2. stack' # <<>>
        BY <3>2, <4>1
      <4> QED BY <4>2
    <3> QED BY <3>1, <3>2
  <2>6. Full(new)' <=> Full(new)
    BY <1>13 DEF Full
  <2>7. pc' # "assign"
    BY <1>3, <1>4
  <2> QED BY <1>3, <1>4, <2>1, <2>3, <2>4, <2>5, <2>6, <2>7 DEF Phase
<1>25. Budget(new)' /\ Exact(old, new)' /\ CountsOne' /\ Apart(old, new)'
  <2>1. Budget(new) /\ Exact(old, new) /\ CountsOne /\ Apart(old, new)
    BY DEF Ghost
  <2>2. heap'.live = heap.live /\ heap'.rc = heap.rc
    BY DEF ReturnAt
  <2>3. Trees' = Trees /\ Size' = Size /\ Made(new)' = Made(new)
    BY <1>3, <1>13 DEF Trees, Size, Made
  <2>4. Budget(new)'
    BY <2>1, <2>2, <2>3 DEF Budget
  <2>5. Exact(old, new)'
    BY <1>3, <2>1, <2>2 DEF Exact
  <2>6. CountsOne'
    <3>1. ASSUME rt = "Rc", NEW n \in heap.live
          PROVE  heap'.rc[n] = 1
      <4>1. heap.rc[n] = 1
        BY <2>1, <3>1 DEF CountsOne
      <4> QED BY <2>2, <4>1
    <3> QED BY <1>3, <2>2, <3>1 DEF CountsOne
  <2>7. Apart(old, new)'
    BY <2>1 DEF Apart
  <2> QED BY <2>4, <2>5, <2>6, <2>7
<1>26. Closed'
  BY DEF ReturnAt
<1>27. Ghost(old, new, place)'
  BY <1>17, <1>22, <1>24, <1>25, <1>26 DEF Ghost
<1>28. Tree' = Tree
  BY <1>13 DEF Node, Addr, Tree
<1>29. pc' # "done"
  BY <1>3, <1>4
<1> QED BY <1>8, <1>27, <1>28, <1>29 DEF HeapInv

\* A call that returns at once keeps the invariant.
LEMMA NullKeeps ==
    ASSUME Typed, NEW old \in Tree, NEW new \in Tree, NEW place \in [Nat -> Nat],
           Ghost(old, new, place), MayCall, NullAt(place)
    PROVE  Typed' /\ HeapInv'
<1>1. PICK r \in Nat, c \in Nat : r = NextPlace(place) /\ c = Len(stack)
  BY NextIsNew, StackTyped
<1>2. new[r] = Null /\ r \notin Inner
  BY <1>1, NextIsNew DEF NullAt
<1>3. SubSeq(stack, 1, c) = stack
  BY <1>1, SubSeqFull DEF Typed
<1>4. Return(SubSeq(stack, 1, c), new[r])
  BY <1>2, <1>3 DEF NullAt
<1>5. IF c = 0 THEN r = 0 ELSE Kids(c) < 2 /\ r = 2 * place[c] + (Kids(c) + 1)
  <2>1. CASE stack = <<>>
    BY <1>1, <2>1 DEF NextPlace
  <2>2. CASE stack # <<>>
    <3>1. c # 0 /\ Kids(c) < 2
      BY <1>1, <2>2, StackTyped DEF MayCall
    <3>2. r = 2 * place[c] + (Kids(c) + 1)
      BY <1>1, <2>2, NextIsNew
    <3> QED BY <3>1, <3>2
  <2> QED BY <2>1, <2>2
<1>6. heap' = heap /\ UNCHANGED <<argVars, pc, i, current, rootLeft>>
  BY DEF NullAt
<1>7. pc \in {"build", "transform"} /\ made = <<>> /\ c <= Len(stack)
  BY <1>1 DEF MayCall
<1>8. \A k \in 1..c : heap'.left[stack[k].node] = Null /\ heap'.right[stack[k].node] = Null
  BY <1>1, <1>6 DEF Ghost, NewTree, FrameAt
<1>9. SettledIn(new, place, c) = Settled(new, place)
  BY <1>1 DEF SettledIn, Settled
<1>10. SettledTree(new, place)
  BY DEF Ghost, NewTree
<1>11. \A v \in SettledIn(new, place, c) :
          heap'.left[new[v]] = new[2 * v + 1] /\ heap'.right[new[v]] = new[2 * v + 2]
  BY <1>6, <1>9, <1>10 DEF SettledTree, Linked
<1>12. \A v \in SettledIn(new, place, c), j \in {1, 2} :
          2 * v + j \in Inner => 2 * v + j \in SettledIn(new, place, c)
  BY <1>9, <1>10 DEF SettledTree
<1>13. Closed'
  BY <1>6 DEF Ghost, Closed
<1>14. heap' \in Heap
  BY <1>6 DEF Typed
<1>15. ReturnAt(old, new, place, c, r)
  BY <1>2, <1>4, <1>5, <1>6, <1>7, <1>8, <1>11, <1>12, <1>13, <1>14 DEF ReturnAt
<1> QED BY <1>15, ReturnKeeps

\* TRANSFER_REF of a node with one reference gives and takes one.
LEMMA TransferNothing ==
    ASSUME NEW h \in Heap, NEW n \in Node, rt = "Rc" /\ n # Null => h.rc[n] = 1
    PROVE  TRANSFER_REF(h, n) = h
<1>1. CASE ~(rt = "Rc" /\ n # Null)
  BY <1>1 DEF TRANSFER_REF, INCREF, DECREF
<1>2. CASE rt = "Rc" /\ n # Null
  <2>1. n \in Addr /\ h.rc \in [Addr -> Nat] /\ h.rc[n] = 1
    BY <1>2, HeapTyped DEF Node
  <2> DEFINE one == [h EXCEPT !.rc[n] = @ + 1]
             two == [one EXCEPT !.rc[n] = @ - 1]
  <2>2. one \in Heap /\ one.rc = [h.rc EXCEPT ![n] = 2] /\ one.live = h.live /\ one.left = h.left
        /\ one.right = h.right /\ one.value = h.value
    BY <2>1 DEF Heap
  <2>3. one.rc[n] = 2
    BY <2>1, <2>2
  <2>4. INCREF(h, n) = one
    BY <1>2 DEF INCREF
  <2>5. TRANSFER_REF(h, n) = two
    <3>1. one.rc[n] # 1
      BY <2>3
    <3> HIDE DEF one
    <3> QED BY <1>2, <2>4, <3>1 DEF TRANSFER_REF, DECREF
  <2>6. two.live = h.live /\ two.left = h.left /\ two.right = h.right /\ two.value = h.value
        /\ two.rc = [one.rc EXCEPT ![n] = 1] /\ two \in Heap
    <3> HIDE DEF one
    <3> QED BY <2>1, <2>2, <2>3 DEF Heap
  <2>7. [one.rc EXCEPT ![n] = 1] = h.rc
    BY <2>1, <2>2
  <2>8. two.rc = h.rc
    BY <2>6, <2>7
  <2>9. \A g \in Heap : g = [live |-> g.live, left |-> g.left, right |-> g.right,
                             value |-> g.value, rc |-> g.rc]
    BY DEF Heap
  <2> HIDE DEF one, two
  <2> QED BY <2>5, <2>6, <2>8, <2>9
<1> QED BY <1>1, <1>2

\* Assigning the subtrees to a node.
LEMMA AssignTyped ==
    ASSUME NEW h \in Heap, NEW n \in Addr, NEW kids, kids[1] \in Node, kids[2] \in Node
    PROVE  /\ Assign(h, n, kids) \in Heap
           /\ Assign(h, n, kids).live = h.live /\ Assign(h, n, kids).value = h.value
           /\ Assign(h, n, kids).rc = h.rc
           /\ \A a \in Addr :
                 /\ Assign(h, n, kids).left[a] = IF a = n THEN kids[1] ELSE h.left[a]
                 /\ Assign(h, n, kids).right[a] = IF a = n THEN kids[2] ELSE h.right[a]
<1>1. /\ h.live \subseteq Addr /\ h.left \in [Addr -> Node] /\ h.right \in [Addr -> Node]
      /\ h.value \in [Addr -> Nat] /\ h.rc \in [Addr -> Nat]
  BY HeapTyped
<1>2. /\ Assign(h, n, kids).live = h.live /\ Assign(h, n, kids).value = h.value
      /\ Assign(h, n, kids).rc = h.rc
      /\ Assign(h, n, kids).left = [h.left EXCEPT ![n] = kids[1]]
      /\ Assign(h, n, kids).right = [h.right EXCEPT ![n] = kids[2]]
  BY DEF Assign, Heap
<1>3. Assign(h, n, kids) \in Heap
  BY <1>1 DEF Assign, Heap
<1> QED BY <1>1, <1>2, <1>3

\* Assigning both subtrees and returning the node keeps the invariant: the counts end as they began.
LEMMA ReturnNodeKeeps ==
    ASSUME Typed, NEW old \in Tree, NEW new \in Tree, NEW place \in [Nat -> Nat],
           Ghost(old, new, place), ReturnNode
    PROVE  Typed' /\ HeapInv'
<1>1. stack # <<>> /\ Len(Top.kids) = 2
  BY DEF ReturnNode
<1>2. PICK m \in Nat, c \in Nat : m = Len(stack) /\ m \in 1..Len(stack) /\ m = c + 1
  <2>1. PICK m \in Nat : m = Len(stack) /\ m > 0 /\ m \in 1..Len(stack)
    BY <1>1, StackTyped
  <2>2. m - 1 \in Nat /\ m = (m - 1) + 1
    BY <2>1
  <2> QED BY <2>1, <2>2
<1>3. PICK r \in Nat : r = place[m]
  OBVIOUS
<1>4. FrameAt(old, new, place, m)
  BY <1>2 DEF Ghost, NewTree
<1>5. PICK n \in Addr : n = stack[m].node /\ n = new[r] /\ n # Null
  <2>1. stack[m].node \in Addr
    BY <1>2, StackTyped
  <2>2. stack[m].node = new[r]
    BY <1>3, <1>4 DEF FrameAt
  <2> QED BY <2>1, <2>2, AddressesEnough DEF Typed
<1>6. r \in Inner
  BY <1>3, <1>4 DEF FrameAt
<1>7. Top = stack[m] /\ Kids(m) = 2
  BY <1>1, <1>2 DEF Top, Last, Kids
\* The subtrees.
<1>8. \A j \in {1, 2} :
         /\ stack[m].kids[j] = new[2 * r + j]
         /\ 2 * r + j \in Inner => 2 * r + j \in Settled(new, place)
         /\ 2 * r + j \in Nat /\ new[2 * r + j] \in Node
  <2> SUFFICES ASSUME NEW j \in {1, 2}
               PROVE  /\ stack[m].kids[j] = new[2 * r + j]
                      /\ 2 * r + j \in Inner => 2 * r + j \in Settled(new, place)
                      /\ 2 * r + j \in Nat /\ new[2 * r + j] \in Node
    OBVIOUS
  <2>1. j \in 1..Kids(m)
    BY <1>7
  <2>2. 2 * r + j \in Nat
    OBVIOUS
  <2>3. new[2 * r + j] \in Node
    BY <2>2, TreeTyped DEF Typed
  <2> QED BY <1>3, <1>4, <2>1, <2>2, <2>3 DEF FrameAt
<1>9. PICK kids : kids = stack[m].kids
  OBVIOUS
<1>10. kids[1] = new[2 * r + 1] /\ kids[2] = new[2 * r + 2] /\ kids[1] \in Node /\ kids[2] \in Node
  BY <1>8, <1>9
<1>11. Stored(new) /\ CountsOne /\ heap \in Heap
  BY DEF Ghost, NewTree, Typed
<1>12. heap' = Assign(heap, n, kids)
  <2> DEFINE h == Assign(heap, n, kids)
  <2>1. h \in Heap /\ h.rc = heap.rc
    BY <1>10, <1>11, AssignTyped
  <2>2. \A j \in {1, 2} : rt = "Rc" /\ kids[j] # Null => h.rc[kids[j]] = 1
    <3> SUFFICES ASSUME NEW j \in {1, 2}, rt = "Rc", kids[j] # Null PROVE heap.rc[kids[j]] = 1
      BY <2>1
    <3>1. kids[j] = new[2 * r + j] /\ 2 * r + j \in Nat
      BY <1>8, <1>9
    <3>2. kids[j] \in heap.live
      BY <1>11, <3>1 DEF Stored
    <3> QED BY <1>11, <3>2 DEF CountsOne
  <2>3. heap' = TRANSFER_REF(TRANSFER_REF(h, kids[1]), kids[2])
    BY <1>5, <1>7, <1>9 DEF ReturnNode
  <2> HIDE DEF h
  <2>4. TRANSFER_REF(h, kids[1]) = h /\ TRANSFER_REF(h, kids[2]) = h
    BY <1>10, <2>1, <2>2, TransferNothing
  <2> QED BY <2>3, <2>4 DEF h
<1>13. /\ heap' \in Heap /\ heap'.live = heap.live /\ heap'.value = heap.value
       /\ heap'.rc = heap.rc
       /\ \A a \in Addr : /\ heap'.left[a] = IF a = n THEN kids[1] ELSE heap.left[a]
                          /\ heap'.right[a] = IF a = n THEN kids[2] ELSE heap.right[a]
  BY <1>10, <1>11, <1>12, AssignTyped
<1>14. \A v \in Nat : (old[v] # Null => old[v] \in Addr) /\ (new[v] # Null => new[v] \in Addr)
  BY TreeTyped DEF Typed
<1>15. /\ \A v \in Nat : new[v] = n => v = r
       /\ \A v \in Nat : old[v] # n
  BY <1>5, AddressesEnough DEF Ghost, Apart, Typed
<1>16. \A k \in 1..c : k \in 1..Len(stack) /\ k # m /\ k < Len(stack)
  BY <1>2
<1>17. \A k \in 1..c : place[k] # r
  BY <1>2, <1>3, <1>16, LevelsApart DEF Ghost
<1>18. SettledIn(new, place, c) = Settled(new, place) \cup {r}
  <2>1. 1..m = (1..c) \cup {m}
    BY <1>2
  <2>2. Settled(new, place) = {v \in Nat : new[v] # Null /\ \A k \in 1..m : place[k] # v}
    BY <1>2 DEF Settled
  <2>3. \A v \in Nat : (\A k \in 1..m : place[k] # v) <=> (v # r /\ \A k \in 1..c : place[k] # v)
    BY <1>3, <2>1
  <2> QED BY <1>5, <1>17, <2>2, <2>3 DEF SettledIn
<1>19. SettledTree(new, place)
  BY DEF Ghost, NewTree
<1>20. \A v \in SettledIn(new, place, c) :
          heap'.left[new[v]] = new[2 * v + 1] /\ heap'.right[new[v]] = new[2 * v + 2]
  <2> SUFFICES ASSUME NEW v \in SettledIn(new, place, c)
               PROVE  heap'.left[new[v]] = new[2 * v + 1] /\ heap'.right[new[v]] = new[2 * v + 2]
    OBVIOUS
  <2>1. v \in Nat /\ new[v] \in Addr
    BY <1>14 DEF SettledIn
  <2>2. CASE v = r
    BY <1>5, <1>10, <1>13, <2>2
  <2>3. CASE v # r
    <3>1. v \in Settled(new, place) /\ new[v] # n
      BY <1>15, <1>18, <2>1, <2>3
    <3>2. heap.left[new[v]] = new[2 * v + 1] /\ heap.right[new[v]] = new[2 * v + 2]
      BY <1>19, <3>1 DEF SettledTree, Linked
    <3> QED BY <1>13, <2>1, <3>1, <3>2
  <2> QED BY <2>2, <2>3
<1>21. \A v \in SettledIn(new, place, c), j \in {1, 2} :
          2 * v + j \in Inner => 2 * v + j \in SettledIn(new, place, c)
  BY <1>8, <1>18, <1>19 DEF SettledTree
<1>22. \A k \in 1..c : heap'.left[stack[k].node] = Null /\ heap'.right[stack[k].node] = Null
  <2> SUFFICES ASSUME NEW k \in 1..c
               PROVE  heap'.left[stack[k].node] = Null /\ heap'.right[stack[k].node] = Null
    OBVIOUS
  <2>1. k \in 1..Len(stack) /\ k \in Nat
    BY <1>16
  <2>2. FrameAt(old, new, place, k) /\ stack[k].node \in Addr
    BY <2>1, StackTyped DEF Ghost, NewTree
  <2>3. stack[k].node = new[place[k]] /\ place[k] \in Nat
    BY <2>1, <2>2 DEF FrameAt
  <2>4. stack[k].node # n
    BY <1>15, <1>17, <2>3
  <2> QED BY <1>13, <2>2, <2>4 DEF FrameAt
<1>23. \A v \in Nat : old[v] # Null => /\ heap'.left[old[v]] = heap.left[old[v]]
                                       /\ heap'.right[old[v]] = heap.right[old[v]]
  BY <1>13, <1>14, <1>15
<1>24. Closed'
  <2> SUFFICES ASSUME NEW a \in heap'.live
               PROVE  Children(heap', a) \subseteq heap'.live
    BY DEF Closed
  <2>1. a \in heap.live /\ a \in Addr /\ Closed
    BY <1>11, <1>13, HeapTyped DEF Ghost
  <2>2. CASE a = n
    <3>1. Children(heap', a) = {kids[1], kids[2]} \ {Null}
      BY <1>13, <2>1, <2>2 DEF Children
    <3>2. \A j \in {1, 2} : kids[j] # Null => kids[j] \in heap.live
      BY <1>8, <1>9, <1>11 DEF Stored
    <3> QED BY <1>13, <3>1, <3>2
  <2>3. CASE a # n
    <3>1. Children(heap', a) = Children(heap, a)
      BY <1>13, <2>1, <2>3 DEF Children
    <3> QED BY <1>13, <2>1, <3>1 DEF Closed
  <2> QED BY <2>2, <2>3
<1>25. IF c = 0 THEN r = 0 ELSE Kids(c) < 2 /\ r = 2 * place[c] + (Kids(c) + 1)
  <2>1. CASE c = 0
    <3>1. m = 1
      BY <1>2, <2>1
    <3> QED BY <1>3, <1>4, <2>1, <3>1 DEF FrameAt
  <2>2. CASE c # 0
    <3>1. c \in 1..c
      BY <2>2
    <3>2. FrameAt(old, new, place, c) /\ c < Len(stack) /\ Kids(c) \in Nat
      BY <1>16, <3>1, StackTyped DEF Ghost, NewTree
    <3>3. Kids(c) < 2 /\ r = 2 * place[c] + 1 + Kids(c)
      BY <1>2, <1>3, <3>2 DEF FrameAt
    <3>4. PICK u \in Nat, l \in Nat : u = place[c] /\ l = Kids(c)
      BY <3>2
    <3>5. 2 * u + 1 + l = 2 * u + (l + 1)
      OBVIOUS
    <3> QED BY <2>2, <3>3, <3>4, <3>5
  <2> QED BY <2>1, <2>2
<1>26. Return(SubSeq(stack, 1, c), new[r])
  <2>1. Front(stack) = SubSeq(stack, 1, c)
    <3>1. Len(stack) - 1 = c
      BY <1>2
    <3> QED BY <3>1 DEF Front
  <2>2. Top.node = new[r]
    BY <1>5, <1>7
  <2> QED BY <2>1, <2>2 DEF ReturnNode
<1>27. /\ pc \in {"build", "transform"} /\ made = <<>> /\ c <= Len(stack)
       /\ UNCHANGED <<argVars, pc, i, current, rootLeft>>
  BY <1>1, <1>2 DEF Ghost, Phase, ReturnNode
<1>28. ReturnAt(old, new, place, c, r)
  BY <1>13, <1>18, <1>20, <1>21, <1>22, <1>23, <1>24, <1>25, <1>26, <1>27 DEF ReturnAt
<1> QED BY <1>28, ReturnKeeps

-----------------------------------------------------------------------------
\* run_test: the first tree and the others taken

\* No tree.
LEMMA BareExists == \E T \in Tree : Bare(T)
<1> DEFINE T == [v \in Nat |-> Null]
<1>1. T \in Tree /\ Bare(T)
  BY DEF Tree, Bare, Node
<1> QED BY <1>1

\* A complete tree that has been returned is linked throughout.
LEMMA ReturnedLinked ==
    ASSUME NEW old, NEW new, NEW place, NewTree(old, new, place), stack = <<>>
    PROVE  Linked(new, {v \in Nat : new[v] # Null})
<1>1. Settled(new, place) = {v \in Nat : new[v] # Null}
  <2>1. 1..Len(<<>>) = {}
    OBVIOUS
  <2> QED BY <2>1 DEF Settled
<1> QED BY <1>1 DEF NewTree, SettledTree

\* The invariant holds when nothing is built.
LEMMA InitHolds ==
    ASSUME Init
    PROVE  Typed /\ HeapInv
<1>1. heap \in Heap /\ heap.live = {}
  <2>1. \A n \in Addr : Null \in Node /\ 0 \in Nat
    BY DEF Node
  <2> QED BY <2>1 DEF Init, Heap
<1>2. Typed
  <2>1. Null \in Node /\ 0 \in 0..Transforms
    BY WorkloadTreeAssumption DEF Node
  <2>2. stack \in Seq(Frame) /\ made \in Seq(Node) /\ Len(made) <= 1
    BY DEF Init
  <2> QED BY <1>1, <2>1, <2>2 DEF Init, Typed
<1>3. PICK T \in Tree : Bare(T)
  BY BareExists
<1>4. PICK place : place = [k \in Nat |-> 0]
  OBVIOUS
<1>5. place \in [Nat -> Nat]
  BY <1>4
<1>6. 1..Len(stack) = {} /\ stack = <<>> /\ made = <<>>
  BY DEF Init
<1>7. \A v \in Nat : T[v] = Null
  BY <1>3 DEF Bare
<1>8. Apart(T, T)
  BY <1>7 DEF Apart
<1>9. OldTree(T)
  BY <1>3, <1>7 DEF Init, OldTree, Linked, Valued, Stored
<1>10. NewTree(T, T, place)
  <2>1. Settled(T, place) = {}
    BY <1>7 DEF Settled
  <2>2. SettledTree(T, place)
    BY <2>1 DEF SettledTree, Linked
  <2>3. Reached(T, place)
    BY <1>7 DEF Reached
  <2> QED BY <1>6, <1>7, <2>2, <2>3 DEF NewTree, Valued, Stored
<1>11. Phase(T)
  BY <1>3, <1>6 DEF Phase, Init
<1>12. Closed /\ Exact(T, T) /\ CountsOne
  BY <1>1 DEF Closed, Exact, CountsOne
<1>13. Budget(T)
  <2>1. Made(T) = {}
    <3>1. Inner \subseteq Nat
      BY <1>2, InnerFacts DEF Typed
    <3> QED BY <1>7, <3>1 DEF Made
  <2>2. Cardinality({}) = 0
    BY FS_EmptySet
  <2>3. Trees = 0 /\ Size \in Nat
    BY <1>2, InnerFacts DEF Init, Trees, Typed
  <2>4. 0 <= 0 * Size + 0
    BY <2>3
  <2> QED BY <1>1, <2>1, <2>2, <2>3, <2>4 DEF Budget
<1>14. Ghost(T, T, place)
  BY <1>8, <1>9, <1>10, <1>11, <1>12, <1>13 DEF Ghost
<1>15. pc # "done"
  BY DEF Init
<1> QED BY <1>2, <1>3, <1>5, <1>14, <1>15 DEF HeapInv

\* The tree made becomes the current one.
LEMMA TakeKeeps ==
    ASSUME Typed, NEW old \in Tree, NEW new \in Tree, NEW place \in [Nat -> Nat],
           Ghost(old, new, place),
           pc \in {"build", "assign"}, made # <<>>, TakeTree,
           UNCHANGED <<argVars, stack, heap>>,
           i' = (IF pc = "build" THEN 0 ELSE i + 1),
           IF pc = "build" THEN pc' \in {"transform", "release"} ELSE pc' = "collect",
           pc' = "transform" => 0 < Transforms
    PROVE  Typed' /\ HeapInv'
<1>1. PICK T \in Tree : Bare(T)
  BY BareExists
<1>2. \A v \in Nat : T[v] = Null /\ old[v] = Null
  BY <1>1 DEF Bare, Ghost, OldTree
<1>3. stack = <<>> /\ made = <<new[0]>> /\ Full(new)
  BY DEF Ghost, Phase
<1>4. /\ UNCHANGED <<rt, depth, stack, heap>>
      /\ made' = <<>> /\ current' = new[0] /\ rootLeft' = new[0]
  BY <1>3 DEF TakeTree, argVars
<1>5. i \in Nat /\ i' \in Nat /\ i' \in 0..Transforms
  <2>1. i \in 0..Transforms /\ Transforms \in Nat
    BY WorkloadTreeAssumption DEF Typed
  <2>2. pc = "assign" => i < Transforms
    BY DEF Ghost, Phase
  <2> QED BY <2>1, <2>2
<1>6. pc' \in {"transform", "release", "collect"}
  OBVIOUS
<1>7. Typed'
  <2>1. new[0] \in Node
    BY TreeTyped DEF Typed
  <2>2. made' \in Seq(Node) /\ Len(made') <= 1
    BY <1>4
  <2> QED BY <1>4, <1>5, <1>6, <2>1, <2>2 DEF Typed
<1>8. Inner' = Inner
  BY <1>4 DEF Inner
<1>9. 1..Len(stack') = {} /\ stack' = <<>>
  BY <1>3, <1>4
<1>10. Apart(new, T)'
  BY <1>2 DEF Ghost, Apart
<1>11. OldTree(new)'
  <2>1. Linked(new, {v \in Nat : new[v] # Null})
    BY <1>3, ReturnedLinked DEF Ghost
  <2>2. Stored(new) /\ Valued(new, IF pc = "build" THEN 0 ELSE i + 1)
    BY DEF Ghost, NewTree
  <2>3. Linked(new, {v \in Nat : new[v] # Null})' /\ Stored(new)'
    BY <1>4, <2>1, <2>2 DEF Linked, Stored
  <2>4. Valued(new, i)'
    BY <1>4, <2>2 DEF Valued
  <2>5. Full(new)'
    BY <1>3, <1>8 DEF Full
  <2> QED BY <1>4, <1>6, <2>3, <2>4, <2>5 DEF OldTree
<1>12. NewTree(new, T, place)'
  <2>1. Settled(T, place)' = {}
    BY <1>2 DEF Settled
  <2>2. SettledTree(T, place)'
    BY <2>1 DEF SettledTree, Linked
  <2>3. Reached(T, place)'
    BY <1>2 DEF Reached
  <2> QED BY <1>2, <1>9, <2>2, <2>3 DEF NewTree, Valued, Stored
<1>13. Phase(T)'
  <2>1. Bare(T)'
    BY <1>2 DEF Bare
  <2>2. pc' = "transform" => i' < Transforms
    BY <1>6
  <2> QED BY <1>4, <1>6, <1>9, <2>1, <2>2 DEF Phase
<1>14. Closed'
  BY <1>4 DEF Ghost, Closed
<1>15. CountsOne'
  BY <1>4 DEF Ghost, CountsOne
<1>16. Exact(new, T)'
  <2>1. Exact(old, new)
    BY DEF Ghost
  <2>2. \A a \in heap.live : a # Null
    BY AddressesEnough, HeapTyped DEF Typed
  <2>3. rt' = "Rc" \/ (rt' = "Trace" /\ pc' \notin {"assign", "collect"}) =>
           rt = "Rc" \/ (rt = "Trace" /\ pc \notin {"assign", "collect"})
    BY <1>4
  <2> QED BY <1>2, <1>4, <2>1, <2>2, <2>3 DEF Exact
<1>17. Budget(T)'
  <2>1. IsFiniteSet(Inner) /\ Cardinality(Inner) = Size /\ Size \in Nat /\ Inner \subseteq Nat
    BY InnerFacts DEF Typed
  <2>2. Made(T)' = {}
    BY <1>2, <1>8, <2>1 DEF Made
  <2>3. Cardinality({}) = 0
    BY FS_EmptySet
  <2>4. Made(new) \in SUBSET Inner
    BY DEF Made
  <2>5. Cardinality(Made(new)) \in Nat /\ Cardinality(Made(new)) <= Size
    BY <2>1, <2>4, FS_Subset, FS_CardinalityType
  <2>6. Cardinality(heap.live) \in Nat
    <3>1. heap.live \in SUBSET Addr /\ IsFiniteSet(Addr)
      BY AddressesEnough, HeapTyped DEF Typed
    <3> QED BY <3>1, FS_Subset, FS_CardinalityType
  <2>7. Trees \in Nat /\ Trees' = Trees + 1
    <3>1. Trees = (IF pc = "build" THEN 0 ELSE i + 1) /\ Trees' = i' + 1
      BY <1>6 DEF Trees
    <3> QED BY <1>5, <3>1
  <2>8. Size' = Size
    BY <1>4 DEF Size
  <2>9. PICK a \in Nat, b \in Nat, s \in Nat, x \in Nat :
            a = Cardinality(heap.live) /\ b = Trees /\ s = Size /\ x = Cardinality(Made(new))
    BY <2>1, <2>5, <2>6, <2>7
  <2>10. a <= b * s + x /\ x <= s
    BY <2>5, <2>9 DEF Ghost, Budget
  <2>11. (b + 1) * s = b * s + s /\ b * s \in Nat
    BY Z3
  <2>12. a <= (b + 1) * s + 0
    BY <2>10, <2>11
  <2> QED BY <1>4, <2>2, <2>3, <2>7, <2>8, <2>9, <2>12 DEF Budget
<1>18. Ghost(new, T, place)'
  BY <1>10, <1>11, <1>12, <1>13, <1>14, <1>15, <1>16, <1>17 DEF Ghost
<1>19. Tree' = Tree
  BY <1>8 DEF Node, Addr, Tree
<1>20. pc' # "done"
  BY <1>6
<1> QED BY <1>1, <1>7, <1>18, <1>19, <1>20 DEF HeapInv

\* Taking the first tree keeps the invariant.
LEMMA BuiltKeeps ==
    ASSUME Typed, HeapInv, Built
    PROVE  Typed' /\ HeapInv'
<1>1. PICK old \in Tree, new \in Tree, place \in [Nat -> Nat] : Ghost(old, new, place)
  BY DEF HeapInv, Built
<1>2. /\ pc = "build" /\ made # <<>> /\ TakeTree /\ UNCHANGED <<argVars, stack, heap>> /\ i' = i
      /\ pc' = IF 0 < Transforms THEN "transform" ELSE "release"
  BY DEF Built, Proceed
<1>3. i = 0
  BY <1>1, <1>2 DEF Ghost, Phase
<1>4. i' = (IF pc = "build" THEN 0 ELSE i + 1)
  BY <1>2, <1>3
<1>5. IF pc = "build" THEN pc' \in {"transform", "release"} ELSE pc' = "collect"
  BY <1>2
<1>6. pc' = "transform" => 0 < Transforms
  BY <1>2
<1> QED BY <1>1, <1>2, <1>4, <1>5, <1>6, TakeKeeps

\* Taking a transformed tree keeps the invariant.
LEMMA AssignTreeKeeps ==
    ASSUME Typed, HeapInv, AssignTree
    PROVE  Typed' /\ HeapInv'
<1>1. PICK old \in Tree, new \in Tree, place \in [Nat -> Nat] : Ghost(old, new, place)
  BY DEF HeapInv, AssignTree
<1>2. /\ pc = "assign" /\ TakeTree /\ UNCHANGED <<argVars, stack, heap>> /\ i' = i + 1
      /\ pc' = "collect"
  BY DEF AssignTree
<1>3. made # <<>>
  BY <1>1, <1>2 DEF Ghost, Phase
<1>4. i' = (IF pc = "build" THEN 0 ELSE i + 1)
  BY <1>2
<1>5. IF pc = "build" THEN pc' \in {"transform", "release"} ELSE pc' = "collect"
  BY <1>2
<1>6. pc' = "transform" => 0 < Transforms
  BY <1>2
<1> QED BY <1>1, <1>2, <1>3, <1>4, <1>5, <1>6, TakeKeeps

-----------------------------------------------------------------------------
\* run_test: discard_tree

Nodes(T) == {T[v] : v \in {v \in Nat : T[v] # Null}}

\* A whole tree in the heap, each node of which has one place.
Whole(T) ==
    /\ Full(T) /\ Stored(T)
    /\ Linked(T, {v \in Nat : T[v] # Null})
    /\ \A v, w \in Nat : T[v] # Null /\ T[v] = T[w] => v = w

\* The nodes of a tree are those at its places.
LEMMA NodesTyped ==
    ASSUME depth \in Depths, NEW T \in Tree
    PROVE  /\ Nodes(T) \subseteq Addr
           /\ \A v \in Nat : T[v] # Null => T[v] \in Nodes(T)
           /\ \A n \in Nodes(T) : \E v \in Nat : n = T[v] /\ T[v] # Null
  BY TreeTyped DEF Nodes

\* A node below another has it as its parent.
LEMMA ParentThere ==
    ASSUME Typed, NEW T \in Tree, Whole(T), NEW u \in Nat, NEW j \in {1, 2}, T[2 * u + j] # Null
    PROVE  T[u] # Null /\ 2 * u + j \in Nat
<1>1. 2 * u + j \in Nat /\ u < 2 * u + j
  OBVIOUS
<1>2. 2 * u + j \in Inner
  BY <1>1, TreeTyped DEF Typed
<1>3. u \in Inner
  <2>1. PICK v \in Nat : v = 2 * u + j
    BY <1>1
  <2>2. Size \in Nat /\ v < Size /\ u < v
    BY <1>1, <1>2, <2>1, InnerFacts DEF Typed
  <2>3. u < Size
    BY <2>2
  <2> QED BY <2>3, InnerFacts DEF Typed
<1> QED BY <1>1, <1>3 DEF Whole, Full

\* Whose field leads to a node, when the heap holds no more than two trees.
LEMMA Parents ==
    ASSUME Typed, NEW A \in Tree, NEW B \in Tree, Whole(A), Whole(B),
           \A v, w \in Nat : A[v] # Null => A[v] # B[w],
           NEW p \in heap.live, \E v \in Nat : p = A[v] \/ p = B[v]
    PROVE  /\ A[0] # Null => A[0] \notin Children(heap, p)
           /\ \A u \in Nat, j \in {1, 2} :
                 A[2 * u + j] # Null =>
                    /\ heap.left[p] = A[2 * u + j] <=> p = A[u] /\ j = 1
                    /\ heap.right[p] = A[2 * u + j] <=> p = A[u] /\ j = 2
<1>1. p \in Addr /\ p # Null
  BY HeapTyped, AddressesEnough DEF Typed
<1>2. CASE \E v \in Nat : p = A[v]
  <2>1. PICK v \in Nat : p = A[v]
    BY <1>2
  <2>2. heap.left[p] = A[2 * v + 1] /\ heap.right[p] = A[2 * v + 2]
    BY <1>1, <2>1 DEF Whole, Linked
  <2>3. 2 * v + 1 \in Nat /\ 2 * v + 2 \in Nat /\ 0 # 2 * v + 1 /\ 0 # 2 * v + 2
    OBVIOUS
  <2>4. A[0] # Null => A[0] \notin Children(heap, p)
    BY <2>2, <2>3 DEF Children, Whole
  <2>5. ASSUME NEW u \in Nat, NEW j \in {1, 2}, A[2 * u + j] # Null
        PROVE  /\ heap.left[p] = A[2 * u + j] <=> p = A[u] /\ j = 1
               /\ heap.right[p] = A[2 * u + j] <=> p = A[u] /\ j = 2
    <3>1. 2 * u + j \in Nat /\ A[u] # Null
      BY <2>5, ParentThere
    <3>2. p = A[u] <=> u = v
      BY <2>1, <3>1 DEF Whole
    <3>3. A[2 * u + j] = A[2 * v + 1] <=> 2 * u + j = 2 * v + 1
      BY <2>3, <2>5, <3>1 DEF Whole
    <3>4. A[2 * u + j] = A[2 * v + 2] <=> 2 * u + j = 2 * v + 2
      BY <2>3, <2>5, <3>1 DEF Whole
    <3>5. 2 * u + j = 2 * v + 1 <=> u = v /\ j = 1
      OBVIOUS
    <3>6. 2 * u + j = 2 * v + 2 <=> u = v /\ j = 2
      OBVIOUS
    <3> QED BY <2>2, <3>2, <3>3, <3>4, <3>5, <3>6
  <2> QED BY <2>4, <2>5
<1>3. CASE ~ \E v \in Nat : p = A[v]
  <2>1. PICK v \in Nat : p = B[v]
    BY <1>3
  <2>2. heap.left[p] = B[2 * v + 1] /\ heap.right[p] = B[2 * v + 2]
    BY <1>1, <2>1 DEF Whole, Linked
  <2>3. \A w \in Nat : A[w] # Null => A[w] # heap.left[p] /\ A[w] # heap.right[p]
    <3>1. 2 * v + 1 \in Nat /\ 2 * v + 2 \in Nat
      OBVIOUS
    <3> QED BY <2>2, <3>1
  <2>4. A[0] # Null => A[0] \notin Children(heap, p)
    BY <2>3 DEF Children
  <2>5. \A u \in Nat, j \in {1, 2} : 2 * u + j \in Nat
    OBVIOUS
  <2> QED BY <1>3, <2>3, <2>4, <2>5
<1> QED BY <1>2, <1>3

\* The case of no old or no new tree is that of one tree.
LEMMA RoundWhole ==
    ASSUME Typed, NEW old \in Tree, NEW new \in Tree, NEW place \in [Nat -> Nat],
           Ghost(old, new, place), pc = "transform", made # <<>>
    PROVE  /\ stack = <<>> /\ made = <<new[0]>> /\ i < Transforms
           /\ Whole(old) /\ Whole(new)
           /\ \A v, w \in Nat : old[v] # Null => old[v] # new[w]
           /\ \A v, w \in Nat : new[v] # Null => new[v] # old[w]
           /\ rt # "Arena" => \A p \in heap.live : \E v \in Nat : p = old[v] \/ p = new[v]
<1>1. stack = <<>> /\ made = <<new[0]>> /\ Full(new) /\ i < Transforms
  BY DEF Ghost, Phase
<1>2. Linked(new, {v \in Nat : new[v] # Null})
  BY <1>1, ReturnedLinked DEF Ghost
<1>3. Apart(old, new) /\ Stored(new) /\ OldTree(old) /\ Full(old) /\ Exact(old, new)
  BY DEF Ghost, NewTree, OldTree
<1>4. Whole(old)
  BY <1>3 DEF Whole, OldTree, Apart
<1>5. Whole(new)
  BY <1>1, <1>2, <1>3 DEF Whole, Apart
<1>6. rt # "Arena" => \A p \in heap.live : \E v \in Nat : p = old[v] \/ p = new[v]
  BY <1>3 DEF Exact, Typed
<1> QED BY <1>1, <1>3, <1>4, <1>5, <1>6 DEF Apart

\* Nodes used up once the last reference to the root is dropped: all of the old tree.
LEMMA OldUsedUp ==
    ASSUME Typed, NEW old \in Tree, NEW new \in Tree, NEW place \in [Nat -> Nat],
           Ghost(old, new, place), pc = "transform", made # <<>>, rt = "Rc", old[0] # Null,
           NEW d \in Heap, d.live = heap.live, d.left = heap.left, d.right = heap.right,
           \A n \in Addr : d.rc[n] = IF n = old[0] THEN heap.rc[n] - 1 ELSE heap.rc[n]
    PROVE  UsedUp(d) = Nodes(old)
<1> DEFINE L == heap.live
           Up(F, n) == {p \in L : n \in Children(d, p) /\ p \in F}
           Ones(g) == {p \in L : g[p]}
           Rec(g) == g = [n \in L |-> d.rc[n] = Cardinality({p \in L : n \in Children(d, p) /\ g[p]})]
<1>0. Whole(old) /\ Whole(new)
  BY RoundWhole
<1>1. /\ \A v, w \in Nat : old[v] # Null => old[v] # new[w]
      /\ \A v, w \in Nat : new[v] # Null => new[v] # old[w]
  BY RoundWhole
<1>2. \A p \in L : \E v \in Nat : p = old[v] \/ p = new[v]
  BY RoundWhole
<1>3. \A n, p : Children(d, p) = Children(heap, p)
  BY DEF Children
<1>4. \A n \in L : n \in Addr /\ n # Null /\ d.rc[n] = IF n = old[0] THEN 0 ELSE 1
  <2>1. CountsOne /\ L \subseteq Addr /\ Null \notin Addr
    BY HeapTyped, AddressesEnough DEF Ghost, Typed
  <2> QED BY <2>1 DEF CountsOne
<1>5. ASSUME NEW p \in L
      PROVE  /\ old[0] # Null => old[0] \notin Children(heap, p)
             /\ \A u \in Nat, j \in {1, 2} :
                   old[2 * u + j] # Null =>
                      /\ heap.left[p] = old[2 * u + j] <=> p = old[u] /\ j = 1
                      /\ heap.right[p] = old[2 * u + j] <=> p = old[u] /\ j = 2
  <2>1. \E v \in Nat : p = old[v] \/ p = new[v]
    BY <1>2
  <2>2. \A v, w \in Nat : old[v] # Null => old[v] # new[w]
    BY <1>1
  <2> QED BY <1>0, <2>1, <2>2, Parents
<1>6. ASSUME NEW p \in L
      PROVE  /\ new[0] # Null => new[0] \notin Children(heap, p)
             /\ \A u \in Nat, j \in {1, 2} :
                   new[2 * u + j] # Null =>
                      /\ heap.left[p] = new[2 * u + j] <=> p = new[u] /\ j = 1
                      /\ heap.right[p] = new[2 * u + j] <=> p = new[u] /\ j = 2
  <2>1. \E v \in Nat : p = new[v] \/ p = old[v]
    BY <1>2
  <2>2. \A v, w \in Nat : new[v] # Null => new[v] # old[w]
    BY <1>1
  <2> QED BY <1>0, <2>1, <2>2, Parents
<1>7. \A F, n : n \in L /\ (n = old[0] \/ n = new[0]) => Up(F, n) = {}
  BY <1>3, <1>4, <1>5, <1>6
<1>8. \A u \in Nat, j \in {1, 2} :
         /\ old[2 * u + j] # Null => old[u] \in L /\ \A p \in L :
               old[2 * u + j] \in Children(heap, p) <=> p = old[u]
         /\ new[2 * u + j] # Null => new[u] \in L /\ \A p \in L :
               new[2 * u + j] \in Children(heap, p) <=> p = new[u]
  <2> SUFFICES ASSUME NEW u \in Nat, NEW j \in {1, 2}
               PROVE  /\ old[2 * u + j] # Null => old[u] \in L /\ \A p \in L :
                            old[2 * u + j] \in Children(heap, p) <=> p = old[u]
                      /\ new[2 * u + j] # Null => new[u] \in L /\ \A p \in L :
                            new[2 * u + j] \in Children(heap, p) <=> p = new[u]
    OBVIOUS
  <2>1. ASSUME old[2 * u + j] # Null
        PROVE  old[u] \in L /\ \A p \in L : old[2 * u + j] \in Children(heap, p) <=> p = old[u]
    <3>1. old[u] # Null
      BY <1>0, <2>1, ParentThere
    <3>2. old[u] \in L
      BY <1>0, <3>1 DEF Whole, Stored
    <3>3. ASSUME NEW p \in L
          PROVE  old[2 * u + j] \in Children(heap, p) <=> p = old[u]
      <4>1. /\ heap.left[p] = old[2 * u + j] <=> p = old[u] /\ j = 1
            /\ heap.right[p] = old[2 * u + j] <=> p = old[u] /\ j = 2
        BY <1>5, <2>1
      <4>2. j = 1 \/ j = 2
        OBVIOUS
      <4> QED BY <2>1, <4>1, <4>2 DEF Children
    <3> QED BY <3>2, <3>3
  <2>2. ASSUME new[2 * u + j] # Null
        PROVE  new[u] \in L /\ \A p \in L : new[2 * u + j] \in Children(heap, p) <=> p = new[u]
    <3>1. new[u] # Null
      BY <1>0, <2>2, ParentThere
    <3>2. new[u] \in L
      BY <1>0, <3>1 DEF Whole, Stored
    <3>3. ASSUME NEW p \in L
          PROVE  new[2 * u + j] \in Children(heap, p) <=> p = new[u]
      <4>1. /\ heap.left[p] = new[2 * u + j] <=> p = new[u] /\ j = 1
            /\ heap.right[p] = new[2 * u + j] <=> p = new[u] /\ j = 2
        BY <1>6, <2>2
      <4>2. j = 1 \/ j = 2
        OBVIOUS
      <4> QED BY <2>2, <4>1, <4>2 DEF Children
    <3> QED BY <3>2, <3>3
  <2> QED BY <2>1, <2>2
<1>9. \A F, n : /\ (\A p \in L : n \notin Children(heap, p)) => Up(F, n) = {}
                /\ \A q \in L : (\A p \in L : n \in Children(heap, p) <=> p = q) =>
                      /\ q \in F => Up(F, n) = {q}
                      /\ q \notin F => Up(F, n) = {}
  BY <1>3
<1>10. Cardinality({}) = 0 /\ \A q : Cardinality({q}) = 1
  BY FS_EmptySet, FS_Singleton
<1>11. /\ \A v \in Nat : old[v] # Null => old[v] \in L /\ old[v] \in Nodes(old)
       /\ \A v \in Nat : new[v] # Null => new[v] \in L /\ new[v] \notin Nodes(old)
  <2>1. \A v \in Nat : old[v] # Null => old[v] \in L /\ old[v] \in Nodes(old)
    BY <1>0 DEF Whole, Stored, Nodes
  <2>2. \A v \in Nat : new[v] # Null => new[v] \in L /\ new[v] \notin Nodes(old)
    BY <1>0, <1>1 DEF Whole, Stored, Nodes
  <2> QED BY <2>1, <2>2
<1> HIDE DEF Up, L
\* The count of a node says whether its parent is used up.
<1>12. ASSUME NEW F, NEW v \in Nat
       PROVE  /\ old[v] # Null =>
                    (d.rc[old[v]] = Cardinality(Up(F, old[v]))
                     <=> v = 0 \/ \E u \in Nat, j \in {1, 2} : v = 2 * u + j /\ old[u] \in F)
              /\ new[v] # Null =>
                    (d.rc[new[v]] = Cardinality(Up(F, new[v]))
                     <=> \E u \in Nat, j \in {1, 2} : v = 2 * u + j /\ new[u] \in F)
  <2>1. CASE v = 0
    <3>1. \A u \in Nat, j \in {1, 2} : 0 # 2 * u + j
      OBVIOUS
    <3>2. old[0] # Null => d.rc[old[0]] = 0 /\ Up(F, old[0]) = {}
      BY <1>4, <1>7, <1>11
    <3>3. new[0] # Null => d.rc[new[0]] = 1 /\ Up(F, new[0]) = {}
      BY <1>1, <1>4, <1>7, <1>11
    <3>4. ~ \E u \in Nat, j \in {1, 2} : v = 2 * u + j /\ new[u] \in F
      BY <2>1, <3>1
    <3>5. old[v] # Null => d.rc[old[v]] = Cardinality(Up(F, old[v]))
      BY <1>10, <2>1, <3>2
    <3>6. new[v] # Null => d.rc[new[v]] # Cardinality(Up(F, new[v]))
      <4> SUFFICES ASSUME new[0] # Null PROVE d.rc[new[0]] # Cardinality(Up(F, new[0]))
        BY <2>1
      <4>1. d.rc[new[0]] = 1 /\ Cardinality(Up(F, new[0])) = 0
        BY <1>10, <3>3
      <4> QED BY <4>1
    <3> QED BY <2>1, <3>4, <3>5, <3>6
  <2>2. CASE v # 0
    <3>1. PICK u \in Nat, j \in {1, 2} : v = 2 * u + j
      BY <2>2, Halves
    <3>2. \A w \in Nat, k \in {1, 2} : v = 2 * w + k => w = u
      BY <3>1
    <3>3. ASSUME old[v] # Null
          PROVE  d.rc[old[v]] = Cardinality(Up(F, old[v])) <=> old[u] \in F
      <4>1. old[v] # old[0] /\ old[v] \in L
        BY <1>0, <1>11, <2>2, <3>3 DEF Whole
      <4>2. d.rc[old[v]] = 1
        BY <1>4, <4>1
      <4>3. old[u] \in L /\ \A p \in L : old[v] \in Children(heap, p) <=> p = old[u]
        BY <1>8, <3>1, <3>3
      <4>4. CASE old[u] \in F
        <5>1. Up(F, old[v]) = {old[u]}
          BY <1>9, <4>3, <4>4
        <5>2. Cardinality(Up(F, old[v])) = 1
          BY <1>10, <5>1
        <5> QED BY <4>2, <4>4, <5>2
      <4>5. CASE old[u] \notin F
        <5>1. Up(F, old[v]) = {}
          BY <1>9, <4>3, <4>5
        <5>2. Cardinality(Up(F, old[v])) = 0
          BY <1>10, <5>1
        <5>3. 0 # 1
          OBVIOUS
        <5> QED BY <4>2, <4>5, <5>2, <5>3
      <4> QED BY <4>4, <4>5
    <3>4. ASSUME new[v] # Null
          PROVE  d.rc[new[v]] = Cardinality(Up(F, new[v])) <=> new[u] \in F
      <4>1. new[v] # old[0] /\ new[v] \in L
        BY <1>1, <1>11, <3>4
      <4>2. d.rc[new[v]] = 1
        BY <1>4, <4>1
      <4>3. new[u] \in L /\ \A p \in L : new[v] \in Children(heap, p) <=> p = new[u]
        BY <1>8, <3>1, <3>4
      <4>4. CASE new[u] \in F
        <5>1. Up(F, new[v]) = {new[u]}
          BY <1>9, <4>3, <4>4
        <5>2. Cardinality(Up(F, new[v])) = 1
          BY <1>10, <5>1
        <5> QED BY <4>2, <4>4, <5>2
      <4>5. CASE new[u] \notin F
        <5>1. Up(F, new[v]) = {}
          BY <1>9, <4>3, <4>5
        <5>2. Cardinality(Up(F, new[v])) = 0
          BY <1>10, <5>1
        <5>3. 0 # 1
          OBVIOUS
        <5> QED BY <4>2, <4>5, <5>2, <5>3
      <4> QED BY <4>4, <4>5
    <3> QED BY <2>2, <3>1, <3>2, <3>3, <3>4
  <2> QED BY <2>1, <2>2
\* The old tree is used up, and nothing else.
<1>13. ASSUME NEW n \in L
       PROVE  d.rc[n] = Cardinality(Up(Nodes(old), n)) <=> n \in Nodes(old)
  <2>1. PICK v \in Nat : n = old[v] \/ n = new[v]
    BY <1>2 DEF L
  <2>2. n # Null
    BY <1>4 DEF L
  <2>3. CASE n = old[v]
    <3>1. n \in Nodes(old)
      BY <1>11, <2>2, <2>3
    <3>2. v # 0 => \E u \in Nat, j \in {1, 2} : v = 2 * u + j /\ old[u] \in Nodes(old)
      <4> SUFFICES ASSUME v # 0
                   PROVE  \E u \in Nat, j \in {1, 2} : v = 2 * u + j /\ old[u] \in Nodes(old)
        OBVIOUS
      <4>1. PICK u \in Nat, j \in {1, 2} : v = 2 * u + j
        BY Halves
      <4>2. old[u] # Null
        BY <1>0, <2>2, <2>3, <4>1, ParentThere
      <4> QED BY <1>11, <4>1, <4>2
    <3>3. d.rc[old[v]] = Cardinality(Up(Nodes(old), old[v]))
          <=> v = 0 \/ \E u \in Nat, j \in {1, 2} : v = 2 * u + j /\ old[u] \in Nodes(old)
      BY <1>12, <2>2, <2>3
    <3> QED BY <2>3, <3>1, <3>2, <3>3
  <2>4. CASE n = new[v]
    <3>1. n \notin Nodes(old)
      BY <1>11, <2>2, <2>4
    <3>2. \A u \in Nat, j \in {1, 2} : v = 2 * u + j => new[u] \notin Nodes(old)
      <4> SUFFICES ASSUME NEW u \in Nat, NEW j \in {1, 2}, v = 2 * u + j
                   PROVE  new[u] \notin Nodes(old)
        OBVIOUS
      <4>1. new[u] # Null
        BY <1>0, <2>2, <2>4, ParentThere
      <4> QED BY <1>11, <4>1
    <3>3. d.rc[new[v]] = Cardinality(Up(Nodes(old), new[v]))
          <=> \E u \in Nat, j \in {1, 2} : v = 2 * u + j /\ new[u] \in Nodes(old)
      BY <1>12, <2>2, <2>4
    <3> QED BY <2>4, <3>1, <3>2, <3>3
  <2> QED BY <2>1, <2>3, <2>4
\* That there is such a function.
<1>14. \E g : Rec(g)
  <2> DEFINE used == [n \in L |-> n \in Nodes(old)]
  <2>1. \A n \in L : {p \in L : n \in Children(d, p) /\ used[p]} = Up(Nodes(old), n)
    BY DEF Up
  <2>2. ASSUME NEW n \in L
        PROVE  d.rc[n] = Cardinality({p \in L : n \in Children(d, p) /\ used[p]})
               <=> n \in Nodes(old)
    <3>1. {p \in L : n \in Children(d, p) /\ used[p]} = Up(Nodes(old), n)
      BY <2>1
    <3>2. d.rc[n] = Cardinality(Up(Nodes(old), n)) <=> n \in Nodes(old)
      BY <1>13
    <3>3. Cardinality({p \in L : n \in Children(d, p) /\ used[p]}) = Cardinality(Up(Nodes(old), n))
      BY <3>1
    <3> QED BY <3>2, <3>3, Zenon
  <2>3. PICK c : c = [n \in L |-> Cardinality({p \in L : n \in Children(d, p) /\ used[p]})]
    OBVIOUS
  <2>4. \A n \in L : d.rc[n] = c[n] <=> n \in Nodes(old)
    BY <2>2, <2>3
  <2>5. used = [n \in L |-> d.rc[n] = c[n]]
    BY <2>4
  <2>6. \A n \in L : c[n] = Cardinality({p \in L : n \in Children(d, p) /\ used[p]})
    BY <2>3
  <2>7. used = [n \in L |-> d.rc[n] = Cardinality({p \in L : n \in Children(d, p) /\ used[p]})]
    <3> HIDE DEF used
    <3>1. [n \in L |-> d.rc[n] = c[n]]
          = [n \in L |-> d.rc[n] = Cardinality({p \in L : n \in Children(d, p) /\ used[p]})]
      BY <2>6
    <3> QED BY <2>5, <3>1
  <2> QED BY <2>7
<1>15. PICK g : g = (CHOOSE f : Rec(f)) /\ Rec(g)
  BY <1>14
<1>16. UsedUp(d) = Ones(g)
  BY <1>15 DEF UsedUp, L
<1>17. \A n \in L : n \in Ones(g) <=> d.rc[n] = Cardinality(Up(Ones(g), n))
  <2>1. \A n : {p \in L : n \in Children(d, p) /\ g[p]} = Up(Ones(g), n)
    BY DEF Up
  <2>2. \A n \in L : g[n] = (d.rc[n] = Cardinality({p \in L : n \in Children(d, p) /\ g[p]}))
    <3>1. g = [n \in L |-> d.rc[n] = Cardinality({p \in L : n \in Children(d, p) /\ g[p]})]
      BY <1>15
    <3> QED BY <3>1, Zenon
  <2>3. \A n \in L : g[n] = (d.rc[n] = Cardinality(Up(Ones(g), n)))
    BY <2>1, <2>2
  <2> HIDE DEF Up
  <2> QED BY <2>3
\* That it is the only one.
<1>18. PICK F : F = Ones(g)
  OBVIOUS
<1>19. \A v \in Nat : (old[v] # Null => old[v] \in F) /\ (new[v] # Null => new[v] \notin F)
  <2> DEFINE Ok == {v \in Nat : (old[v] # Null => old[v] \in F) /\ (new[v] # Null => new[v] \notin F)}
  <2>1. ASSUME NEW v \in Nat, \A w \in Nat : w < v => w \in Ok
        PROVE  v \in Ok
    <3>1. ASSUME old[v] # Null, v # 0
          PROVE  \E u \in Nat, j \in {1, 2} : v = 2 * u + j /\ old[u] \in F
      <4>1. PICK u \in Nat, j \in {1, 2} : v = 2 * u + j /\ u < v
        BY <3>1, Halves
      <4>2. old[u] # Null
        BY <1>0, <3>1, <4>1, ParentThere
      <4> QED BY <2>1, <4>1, <4>2
    <3>2. ASSUME new[v] # Null, NEW u \in Nat, NEW j \in {1, 2}, v = 2 * u + j
          PROVE  new[u] \notin F
      <4>1. new[u] # Null
        BY <1>0, <3>2, ParentThere
      <4>2. u < v
        BY <3>2
      <4> QED BY <2>1, <4>1, <4>2
    <3>3. old[v] # Null => old[v] \in F
      <4> SUFFICES ASSUME old[v] # Null PROVE old[v] \in F
        OBVIOUS
      <4>1. v = 0 \/ \E u \in Nat, j \in {1, 2} : v = 2 * u + j /\ old[u] \in F
        BY <3>1
      <4>2. d.rc[old[v]] = Cardinality(Up(F, old[v]))
        BY <1>12, <4>1
      <4> QED BY <1>11, <1>17, <1>18, <4>2
    <3>4. new[v] # Null => new[v] \notin F
      <4> SUFFICES ASSUME new[v] # Null PROVE new[v] \notin F
        OBVIOUS
      <4>1. ~ \E u \in Nat, j \in {1, 2} : v = 2 * u + j /\ new[u] \in F
        BY <3>2
      <4>2. d.rc[new[v]] # Cardinality(Up(F, new[v]))
        BY <1>12, <4>1
      <4> QED BY <1>11, <1>17, <1>18, <4>2
    <3> QED BY <3>3, <3>4
  <2>2. Nat \subseteq Ok
    <3> HIDE DEF Ok
    <3> QED BY <2>1, StrongInduction
  <2> QED BY <2>2
<1>20. \A n \in L : n \in F <=> n \in Nodes(old)
  <2> SUFFICES ASSUME NEW n \in L PROVE n \in F <=> n \in Nodes(old)
    OBVIOUS
  <2>1. PICK v \in Nat : n = old[v] \/ n = new[v]
    BY <1>2 DEF L
  <2>2. n # Null
    BY <1>4 DEF L
  <2> QED BY <1>11, <1>19, <2>1, <2>2
<1>21. Nodes(old) \subseteq L /\ F \subseteq L
  BY <1>11, <1>18 DEF Nodes
<1> QED BY <1>16, <1>18, <1>20, <1>21

\* The old tree is dropped, the heap keeping at least the new one.
LEMMA DropKeeps ==
    ASSUME Typed, NEW old \in Tree, NEW new \in Tree, NEW place \in [Nat -> Nat],
           Ghost(old, new, place), pc = "transform", made # <<>>,
           pc' = "assign", current' = Null, UNCHANGED <<argVars, i, stack, made, rootLeft>>,
           heap' \in Heap, heap'.live \subseteq heap.live,
           heap'.left = heap.left, heap'.right = heap.right, heap'.value = heap.value,
           \A v \in Nat : new[v] # Null => new[v] \in heap'.live,
           rt = "Rc" => \A n \in heap'.live : heap'.rc[n] = 1 /\ \E v \in Nat : n = new[v],
           Closed'
    PROVE  Typed' /\ HeapInv'
<1>1. PICK T \in Tree : Bare(T)
  BY BareExists
<1>2. \A v \in Nat : T[v] = Null
  BY <1>1 DEF Bare
<1>3. stack = <<>> /\ made = <<new[0]>> /\ Full(new) /\ i < Transforms
  BY RoundWhole DEF Ghost, Phase
<1>4. UNCHANGED <<rt, depth, i, stack, made, rootLeft>>
  BY DEF argVars
<1>5. Typed'
  <2>1. Null \in Node
    BY DEF Node
  <2> QED BY <1>4, <2>1 DEF Typed
<1>6. Inner' = Inner
  BY <1>4 DEF Inner
<1>7. 1..Len(stack') = {} /\ stack' = <<>>
  BY <1>3, <1>4
<1>8. Apart(T, new)'
  BY <1>2 DEF Ghost, Apart
<1>9. OldTree(T)'
  <2>1. Bare(T)' /\ Linked(T, {v \in Nat : T[v] # Null})' /\ Valued(T, i)' /\ Stored(T)'
    BY <1>2 DEF Bare, Linked, Valued, Stored
  <2> QED BY <1>2, <2>1 DEF OldTree
<1>10. Settled(new, place)' = Settled(new, place)
  BY <1>4 DEF Settled
<1>11. NewTree(T, new, place)'
  <2>1. NewTree(old, new, place)
    BY DEF Ghost
  <2>2. SettledTree(new, place)'
    BY <1>6, <1>10, <2>1 DEF NewTree, SettledTree, Linked
  <2>3. Reached(new, place)'
    BY <1>7, <2>1 DEF NewTree, Reached
  <2>4. Valued(new, i + 1)'
    BY <1>4, <2>1 DEF NewTree, Valued
  <2>5. Stored(new)'
    BY DEF Stored
  <2> QED BY <1>7, <2>2, <2>3, <2>4, <2>5 DEF NewTree
<1>12. Phase(new)'
  <2>1. Full(new)'
    BY <1>3, <1>6 DEF Full
  <2>2. made' # <<>>
    BY <1>4
  <2> QED BY <1>3, <1>4, <1>7, <2>1, <2>2 DEF Phase
<1>13. CountsOne' /\ Exact(T, new)'
  BY <1>4 DEF CountsOne, Exact
<1>14. Budget(new)'
  <2>1. heap.live \in SUBSET Addr /\ IsFiniteSet(Addr)
    BY AddressesEnough, HeapTyped DEF Typed
  <2>2. IsFiniteSet(heap.live)
    BY <2>1, FS_Subset
  <2>3. heap'.live \in SUBSET heap.live
    OBVIOUS
  <2>4. IsFiniteSet(heap'.live) /\ Cardinality(heap'.live) <= Cardinality(heap.live)
    BY <2>2, <2>3, FS_Subset
  <2>5. Cardinality(heap.live) \in Nat /\ Cardinality(heap'.live) \in Nat
    BY <2>2, <2>4, FS_CardinalityType
  <2>6. Trees' = Trees /\ Size' = Size /\ Made(new)' = Made(new)
    BY <1>4, <1>6 DEF Trees, Size, Made
  <2>7. IsFiniteSet(Inner) /\ Size \in Nat /\ Made(new) \in SUBSET Inner
    BY InnerFacts DEF Typed, Made
  <2>8. Cardinality(Made(new)) \in Nat
    BY <2>7, FS_Subset, FS_CardinalityType
  <2>9. Trees \in Nat
    BY <1>5, WorkloadTreeAssumption DEF Typed, Trees
  <2>10. PICK b \in Nat : b = Trees * Size + Cardinality(Made(new))
    <3>1. PICK t \in Nat, s \in Nat, x \in Nat :
             t = Trees /\ s = Size /\ x = Cardinality(Made(new))
      BY <2>7, <2>8, <2>9
    <3>2. t * s + x \in Nat
      BY Z3
    <3> QED BY <3>1, <3>2
  <2>11. Cardinality(heap.live) <= b
    BY <2>10 DEF Ghost, Budget
  <2>12. Cardinality(heap'.live) <= b
    BY <2>4, <2>5, <2>11
  <2> QED BY <2>6, <2>10, <2>12 DEF Budget
<1>15. Ghost(T, new, place)'
  BY <1>8, <1>9, <1>11, <1>12, <1>13, <1>14 DEF Ghost
<1>16. Tree' = Tree
  BY <1>6 DEF Node, Addr, Tree
<1> QED BY <1>1, <1>5, <1>15, <1>16 DEF HeapInv

\* What no field leads to has no references.
LEMMA RefsNone ==
    ASSUME NEW d, NEW S, NEW n, \A p \in S : d.left[p] # n /\ d.right[p] # n
    PROVE  RefsFrom(d, S, n) = 0
<1> DEFINE L == {p \in S : d.left[p] = n}
           R == {p \in S : d.right[p] = n}
<1>1. L = {} /\ R = {}
  OBVIOUS
<1> HIDE DEF L, R
<1>2. Cardinality(L) = 0 /\ Cardinality(R) = 0
  BY <1>1, FS_EmptySet
<1>3. Cardinality(L) + Cardinality(R) = 0
  BY <1>2
<1> QED BY <1>3 DEF RefsFrom, L, R

\* What one field of one node leads to has one reference.
LEMMA RefsOne ==
    ASSUME NEW d, NEW S, NEW n, NEW q \in S, NEW j \in {1, 2},
           \A p \in S : /\ d.left[p] = n <=> p = q /\ j = 1
                        /\ d.right[p] = n <=> p = q /\ j = 2
    PROVE  RefsFrom(d, S, n) = 1
<1> DEFINE L == {p \in S : d.left[p] = n}
           R == {p \in S : d.right[p] = n}
<1>1. CASE j = 1
  <2>1. L = {q} /\ R = {}
    BY <1>1
  <2> HIDE DEF L, R
  <2>2. Cardinality(L) = 1 /\ Cardinality(R) = 0
    BY <2>1, FS_EmptySet, FS_Singleton
  <2>3. Cardinality(L) + Cardinality(R) = 1
    BY <2>2
  <2> QED BY <2>3 DEF RefsFrom, L, R
<1>2. CASE j = 2
  <2>1. L = {} /\ R = {q}
    BY <1>2
  <2> HIDE DEF L, R
  <2>2. Cardinality(L) = 0 /\ Cardinality(R) = 1
    BY <2>1, FS_EmptySet, FS_Singleton
  <2>3. Cardinality(L) + Cardinality(R) = 1
    BY <2>2
  <2> QED BY <2>3 DEF RefsFrom, L, R
<1> QED BY <1>1, <1>2

\* Who in the old tree refers to a node: the parent, for a node of that tree but
\* its root.
LEMMA RefsOfOld ==
    ASSUME Typed, NEW old \in Tree, NEW new \in Tree, NEW place \in [Nat -> Nat],
           Ghost(old, new, place), pc = "transform", made # <<>>, rt = "Rc",
           NEW d, d.left = heap.left, d.right = heap.right, NEW n \in Addr
    PROVE  RefsFrom(d, Nodes(old), n) = IF n \in Nodes(old) \ {old[0]} THEN 1 ELSE 0
<1>1. /\ Whole(old) /\ Whole(new) /\ Null \notin Addr
      /\ \A v, w \in Nat : old[v] # Null => old[v] # new[w]
      /\ \A p \in heap.live : \E v \in Nat : p = old[v] \/ p = new[v]
  BY RoundWhole, AddressesEnough DEF Typed
<1>2. Nodes(old) \subseteq heap.live
  BY <1>1 DEF Nodes, Whole, Stored
<1>3. ASSUME NEW p \in heap.live
      PROVE  /\ old[0] # Null => old[0] \notin Children(heap, p)
             /\ \A u \in Nat, j \in {1, 2} :
                   old[2 * u + j] # Null =>
                      /\ heap.left[p] = old[2 * u + j] <=> p = old[u] /\ j = 1
                      /\ heap.right[p] = old[2 * u + j] <=> p = old[u] /\ j = 2
  <2>1. \E v \in Nat : p = old[v] \/ p = new[v]
    BY <1>1
  <2>2. \A v, w \in Nat : old[v] # Null => old[v] # new[w]
    BY <1>1
  <2>3. Whole(old) /\ Whole(new)
    BY <1>1
  <2> QED BY <2>1, <2>2, <2>3, Parents
<1>4. CASE n \notin Nodes(old)
  <2>1. ASSUME NEW p \in Nodes(old)
        PROVE  d.left[p] # n /\ d.right[p] # n
    <3>1. PICK v \in Nat : p = old[v] /\ old[v] # Null
      BY DEF Nodes
    <3>2. d.left[p] = old[2 * v + 1] /\ d.right[p] = old[2 * v + 2]
      BY <1>1, <3>1 DEF Whole, Linked
    <3>3. 2 * v + 1 \in Nat /\ 2 * v + 2 \in Nat
      OBVIOUS
    <3>4. n # Null
      BY <1>1
    <3> QED BY <1>4, <3>2, <3>3, <3>4 DEF Nodes
  <2> QED BY <1>4, <2>1, RefsNone
<1>5. CASE n \in Nodes(old)
  <2>1. PICK v \in Nat : n = old[v] /\ old[v] # Null
    BY <1>5 DEF Nodes
  <2>2. CASE v = 0
    <3>1. \A p \in Nodes(old) : d.left[p] # n /\ d.right[p] # n
      BY <1>2, <1>3, <2>1, <2>2 DEF Children
    <3>2. RefsFrom(d, Nodes(old), n) = 0
      BY <3>1, RefsNone
    <3> QED BY <2>1, <2>2, <3>2
  <2>3. CASE v # 0
    <3>1. PICK u \in Nat, j \in {1, 2} : v = 2 * u + j
      BY <2>3, Halves
    <3>2. old[u] # Null
      BY <1>1, <2>1, <3>1, ParentThere
    <3>3. old[u] \in Nodes(old)
      BY <3>2 DEF Nodes
    <3>4. \A p \in Nodes(old) : /\ d.left[p] = n <=> p = old[u] /\ j = 1
                                /\ d.right[p] = n <=> p = old[u] /\ j = 2
      <4> SUFFICES ASSUME NEW p \in Nodes(old)
                   PROVE  /\ d.left[p] = n <=> p = old[u] /\ j = 1
                          /\ d.right[p] = n <=> p = old[u] /\ j = 2
        OBVIOUS
      <4>1. p \in heap.live
        BY <1>2
      <4>2. n = old[2 * u + j] /\ old[2 * u + j] # Null
        BY <2>1, <3>1
      <4>3. /\ heap.left[p] = old[2 * u + j] <=> p = old[u] /\ j = 1
            /\ heap.right[p] = old[2 * u + j] <=> p = old[u] /\ j = 2
        BY <1>3, <4>1, <4>2
      <4> QED BY <4>2, <4>3
    <3>5. n # old[0]
      BY <1>1, <2>1, <2>3 DEF Whole
    <3>6. RefsFrom(d, Nodes(old), n) = 1
      BY <3>3, <3>4, RefsOne
    <3> QED BY <1>5, <3>5, <3>6
  <2> QED BY <2>2, <2>3
<1> QED BY <1>4, <1>5

\* discard_tree keeps the invariant: with counts it frees the old tree and nothing else.
LEMMA DiscardHolds ==
    ASSUME Typed, HeapInv, Discard
    PROVE  Typed' /\ HeapInv'
<1>1. PICK old \in Tree, new \in Tree, place \in [Nat -> Nat] : Ghost(old, new, place)
  BY DEF HeapInv, Discard
<1>2. /\ pc = "transform" /\ made # <<>> /\ heap' = DECREF(heap, current)
      /\ pc' = "assign" /\ current' = Null /\ UNCHANGED <<argVars, i, stack, made, rootLeft>>
  BY DEF Discard
<1>3. /\ Whole(old) /\ Whole(new)
      /\ \A v, w \in Nat : old[v] # Null => old[v] # new[w]
      /\ \A v, w \in Nat : new[v] # Null => new[v] # old[w]
      /\ rt = "Rc" => \A p \in heap.live : \E v \in Nat : p = old[v] \/ p = new[v]
  BY <1>1, <1>2, RoundWhole
<1>4. current = old[0] /\ Closed /\ CountsOne
  BY <1>1 DEF Ghost, OldTree
<1>5. \A a \in heap.live : a \in Addr /\ a # Null
  BY AddressesEnough, HeapTyped DEF Typed
<1>6. \A v \in Nat : new[v] # Null => new[v] \in heap.live
  BY <1>3 DEF Whole, Stored
<1>7. CASE rt # "Rc" \/ current = Null
  <2>1. heap' = heap
    BY <1>2, <1>7 DEF DECREF
  <2>2. rt = "Rc" => \A n \in heap.live : heap.rc[n] = 1 /\ \E v \in Nat : n = new[v]
    <3> SUFFICES ASSUME rt = "Rc", NEW n \in heap.live
                 PROVE  heap.rc[n] = 1 /\ \E v \in Nat : n = new[v]
      OBVIOUS
    <3>1. heap.rc[n] = 1
      BY <1>4 DEF CountsOne
    <3>2. old[0] = Null
      BY <1>4, <1>7
    <3>3. 0 \notin Inner
      BY <1>3, <3>2 DEF Whole, Full
    <3>4. \A v \in Nat : v \notin Inner
      <4>1. Size \in Nat /\ (\A v \in Nat : v \in Inner <=> v < Size)
        BY InnerFacts DEF Typed
      <4>2. Size = 0
        BY <3>3, <4>1
      <4> QED BY <4>1, <4>2
    <3>5. \A v \in Nat : old[v] = Null
      BY <3>4, TreeTyped DEF Typed
    <3> QED BY <1>3, <1>5, <3>1, <3>5
  <2>3. Closed'
    BY <1>4, <2>1 DEF Closed
  <2>4. heap' \in Heap
    BY <2>1 DEF Typed
  <2> QED BY <1>1, <1>2, <1>6, <2>1, <2>2, <2>3, <2>4, DropKeeps
<1>8. CASE rt = "Rc" /\ current # Null
  <2> DEFINE d == [heap EXCEPT !.rc[current] = @ - 1]
             r == [n \in Addr |-> d.rc[n] - RefsFrom(d, Nodes(old), n)]
  <2>1. old[0] \in heap.live /\ old[0] # Null /\ old[0] \in Addr
    <3>1. old[0] # Null
      BY <1>4, <1>8
    <3> QED BY <1>3, <1>5, <3>1 DEF Whole, Stored
  <2>2. heap.rc[current] = 1
    BY <1>4, <1>8, <2>1 DEF CountsOne
  <2>3. heap \in Heap
    BY DEF Typed
  <2>4. /\ d \in Heap /\ d.live = heap.live /\ d.left = heap.left /\ d.right = heap.right
        /\ d.value = heap.value
        /\ \A n \in Addr : d.rc[n] = IF n = old[0] THEN heap.rc[n] - 1 ELSE heap.rc[n]
    <3>1. heap.rc \in [Addr -> Nat]
      BY <2>3, HeapTyped
    <3>2. [heap.rc EXCEPT ![current] = @ - 1] \in [Addr -> Nat]
      BY <1>4, <2>1, <2>2, <3>1
    <3>3. d = [heap EXCEPT !.rc = [heap.rc EXCEPT ![current] = @ - 1]]
      BY <2>3 DEF Heap
    <3>4. d \in Heap
      BY <2>3, <3>2, <3>3 DEF Heap
    <3>5. d.rc = [heap.rc EXCEPT ![current] = @ - 1]
      BY <2>3 DEF Heap
    <3>6. \A n \in Addr : d.rc[n] = IF n = old[0] THEN heap.rc[n] - 1 ELSE heap.rc[n]
      BY <1>4, <2>1, <3>1, <3>5
    <3>7. d.live = heap.live /\ d.left = heap.left /\ d.right = heap.right /\ d.value = heap.value
      BY <2>3 DEF Heap
    <3> QED BY <3>4, <3>6, <3>7
  <2>5. heap' = Free(d, UsedUp(d))
    BY <1>2, <1>8, <2>2 DEF DECREF
  <2> HIDE DEF d
  <2>6. UsedUp(d) = Nodes(old)
    BY <1>1, <1>2, <1>8, <2>1, <2>4, OldUsedUp
  <2>7. \A n \in Addr : RefsFrom(d, Nodes(old), n) = IF n \in Nodes(old) \ {old[0]} THEN 1 ELSE 0
    BY <1>1, <1>2, <1>8, <2>4, RefsOfOld
  <2>8. d.rc \in [Addr -> Nat]
    BY <2>4, HeapTyped
  <2>9. \A n \in Nodes(old) : n \in heap.live /\ heap.rc[n] = 1
    BY <1>3, <1>4, <1>8 DEF Nodes, Whole, Stored, CountsOne
  <2>10. \A n \in Addr : r[n] \in Nat /\ (n \notin Nodes(old) => r[n] = heap.rc[n])
    <3> SUFFICES ASSUME NEW n \in Addr
                 PROVE  r[n] \in Nat /\ (n \notin Nodes(old) => r[n] = heap.rc[n])
      OBVIOUS
    <3>1. r[n] = d.rc[n] - RefsFrom(d, Nodes(old), n) /\ d.rc[n] \in Nat
      BY <2>8
    <3>2. old[0] \in Nodes(old)
      BY <2>1 DEF Nodes
    <3> HIDE DEF r
    <3>3. CASE n \in Nodes(old) \ {old[0]}
      <4>1. d.rc[n] = 1 /\ RefsFrom(d, Nodes(old), n) = 1
        BY <2>4, <2>7, <2>9, <3>3
      <4> QED BY <3>1, <3>3, <4>1
    <3>4. CASE n \notin Nodes(old) \ {old[0]}
      <4>1. RefsFrom(d, Nodes(old), n) = 0
        BY <2>7, <3>4
      <4>2. r[n] = d.rc[n]
        BY <3>1, <4>1
      <4> QED BY <2>4, <3>1, <3>2, <4>2
    <3> QED BY <3>3, <3>4
  <2>11. /\ heap' \in Heap /\ heap'.live = heap.live \ Nodes(old) /\ heap'.rc = r
         /\ heap'.left = heap.left /\ heap'.right = heap.right /\ heap'.value = heap.value
    <3>1. r \in [Addr -> Nat]
      BY <2>10
    <3> HIDE DEF r
    <3>2. heap' = [d EXCEPT !.live = @ \ Nodes(old), !.rc = r]
      BY <2>5, <2>6 DEF Free, r
    <3> QED BY <2>4, <3>1, <3>2 DEF Heap
  <2> HIDE DEF r
  <2>12. \A v \in Nat : new[v] # Null => new[v] \in heap'.live
    BY <1>3, <1>6, <2>11 DEF Nodes
  <2>13. \A n \in heap'.live : heap'.rc[n] = 1 /\ \E v \in Nat : n = new[v]
    <3> SUFFICES ASSUME NEW n \in heap'.live
                 PROVE  heap'.rc[n] = 1 /\ \E v \in Nat : n = new[v]
      OBVIOUS
    <3>1. n \in heap.live /\ n \notin Nodes(old) /\ n \in Addr /\ n # Null
      BY <1>5, <2>11
    <3>2. heap'.rc[n] = 1
      BY <1>4, <1>8, <2>10, <2>11, <3>1 DEF CountsOne
    <3>3. \A v \in Nat : n # old[v]
      BY <3>1 DEF Nodes
    <3> QED BY <1>3, <1>8, <3>1, <3>2, <3>3
  <2>14. Closed'
    <3> SUFFICES ASSUME NEW n \in heap'.live
                 PROVE  Children(heap', n) \subseteq heap'.live
      BY DEF Closed
    <3>1. PICK v \in Nat : n = new[v]
      BY <2>13
    <3>2. n # Null
      BY <1>5, <2>11
    <3>3. heap.left[n] = new[2 * v + 1] /\ heap.right[n] = new[2 * v + 2]
      BY <1>3, <3>1, <3>2 DEF Whole, Linked
    <3>4. 2 * v + 1 \in Nat /\ 2 * v + 2 \in Nat
      OBVIOUS
    <3>5. Children(heap', n) = {new[2 * v + 1], new[2 * v + 2]} \ {Null}
      BY <2>11, <3>3 DEF Children
    <3> QED BY <2>12, <3>4, <3>5
  <2> QED BY <1>1, <1>2, <2>11, <2>12, <2>13, <2>14, DropKeeps
<1> QED BY <1>7, <1>8

-----------------------------------------------------------------------------
\* run_test: the collection and the check

\* What a trace of a whole tree finds.
LEMMA TraceFindsTree ==
    ASSUME Typed, NEW T \in Tree, Whole(T)
    PROVE  Marked(heap, {T[0]} \ {Null}) = Nodes(T)
<1> DEFINE S == {T[0]} \ {Null}
           Below(N) == UNION {Children(heap, n) : n \in N}
           Rec(f) == f = [k \in Nat |-> IF k = 0 THEN S ELSE f[k - 1] \cup Below(f[k - 1])]
           Down(k) == {T[v] : v \in {v \in Nat : v + 1 < Width(k + 1) /\ T[v] # Null}}
<1>1. Down(0) = S
  <2>1. Width(0 + 1) = 2
    BY WidthFacts
  <2>2. \A v \in Nat : v + 1 < 2 <=> v = 0
    OBVIOUS
  <2>3. 0 + 1 = 1
    OBVIOUS
  <2>4. {v \in Nat : v + 1 < Width(0 + 1) /\ T[v] # Null} = {v \in {0} : T[v] # Null}
    BY <2>1, <2>2
  <2> QED BY <2>4
<1>2. ASSUME NEW k \in Nat
      PROVE  Down(k + 1) = Down(k) \cup Below(Down(k))
  <2>1. PICK w \in Nat : w = Width(k + 1) /\ 2 <= w /\ Width((k + 1) + 1) = 2 * w
    <3>1. k + 1 \in Nat /\ 1 <= k + 1 /\ 0 + 1 = 1 /\ 1 \in Nat
      OBVIOUS
    <3>2. Width(0 + 1) = 2 /\ Width(1) <= Width(k + 1)
      BY <3>1, WidthFacts
    <3> QED BY <3>1, <3>2, WidthFacts
  <2>2. \A n : n \in Down(k) <=> \E v \in Nat : v + 1 < w /\ T[v] # Null /\ n = T[v]
    BY <2>1
  <2>3. \A n : n \in Down(k + 1) <=> \E v \in Nat : v + 1 < 2 * w /\ T[v] # Null /\ n = T[v]
    BY <2>1
  <2>4. \A v \in Nat : T[v] # Null => Children(heap, T[v]) = {T[2 * v + 1], T[2 * v + 2]} \ {Null}
    BY DEF Whole, Linked, Children
  <2> HIDE DEF Down
  <2>5. ASSUME NEW n \in Down(k + 1)
        PROVE  n \in Down(k) \cup Below(Down(k))
    <3>1. PICK v \in Nat : v + 1 < 2 * w /\ T[v] # Null /\ n = T[v]
      BY <2>3
    <3>2. CASE v = 0
      <4>1. v + 1 < w
        BY <2>1, <3>2
      <4> QED BY <2>2, <3>1, <4>1
    <3>3. CASE v # 0
      <4>1. PICK u \in Nat, j \in {1, 2} : v = 2 * u + j
        BY <3>3, Halves
      <4>2. u + 1 < w
        BY <3>1, <4>1
      <4>3. T[u] # Null
        BY <3>1, <4>1, ParentThere
      <4>4. T[u] \in Down(k)
        BY <2>2, <4>2, <4>3
      <4>5. n \in Children(heap, T[u])
        <5>1. j = 1 \/ j = 2
          OBVIOUS
        <5>2. n = T[2 * u + 1] \/ n = T[2 * u + 2]
          BY <3>1, <4>1, <5>1
        <5>3. n # Null
          BY <3>1
        <5> QED BY <2>4, <4>3, <5>2, <5>3
      <4> QED BY <4>4, <4>5
    <3> QED BY <3>2, <3>3
  <2>6. ASSUME NEW n \in Down(k)
        PROVE  n \in Down(k + 1) /\ Children(heap, n) \subseteq Down(k + 1)
    <3>1. PICK v \in Nat : v + 1 < w /\ T[v] # Null /\ n = T[v]
      BY <2>2
    <3>2. v + 1 < 2 * w /\ (2 * v + 1) + 1 < 2 * w /\ (2 * v + 2) + 1 < 2 * w
          /\ 2 * v + 1 \in Nat /\ 2 * v + 2 \in Nat
      BY <3>1
    <3>3. n \in Down(k + 1)
      BY <2>3, <3>1, <3>2
    <3>4. T[2 * v + 1] # Null => T[2 * v + 1] \in Down(k + 1)
      BY <2>3, <3>2
    <3>5. T[2 * v + 2] # Null => T[2 * v + 2] \in Down(k + 1)
      BY <2>3, <3>2
    <3>6. Children(heap, n) = {T[2 * v + 1], T[2 * v + 2]} \ {Null}
      BY <2>4, <3>1
    <3> QED BY <3>3, <3>4, <3>5, <3>6
  <2> QED BY <2>5, <2>6
<1> HIDE DEF Down, S, Below
<1>3. \E f : Rec(f)
  <2> DEFINE F == [k \in Nat |-> Down(k)]
  <2>1. \A k \in Nat : Down(k) = IF k = 0 THEN S ELSE F[k - 1] \cup Below(F[k - 1])
    <3> SUFFICES ASSUME NEW k \in Nat
                 PROVE  Down(k) = IF k = 0 THEN S ELSE F[k - 1] \cup Below(F[k - 1])
      OBVIOUS
    <3>1. CASE k = 0
      BY <1>1, <3>1
    <3>2. CASE k # 0
      <4>1. PICK m \in Nat : k = m + 1 /\ k - 1 = m
        BY <3>2
      <4>2. Down(k) = Down(m) \cup Below(Down(m)) /\ F[k - 1] = Down(m)
        BY <1>2, <4>1
      <4> QED BY <3>2, <4>2
    <3> QED BY <3>1, <3>2
  <2>2. Rec(F)
    BY <2>1
  <2> QED BY <2>2
<1>4. PICK g : g = (CHOOSE f : Rec(f)) /\ Rec(g)
  BY <1>3
<1>5. Marked(heap, S) = g[depth]
  BY <1>4 DEF Marked, Below
<1>6. \A k \in Nat : g[k] = IF k = 0 THEN S ELSE g[k - 1] \cup Below(g[k - 1])
  BY <1>4
<1>7. \A k \in Nat : g[k] = Down(k)
  <2> DEFINE Ok == {k \in Nat : g[k] = Down(k)}
  <2>1. 0 \in Ok
    BY <1>1, <1>6
  <2>2. ASSUME NEW k \in Nat, k \in Ok
        PROVE  k + 1 \in Ok
    <3>1. k + 1 \in Nat /\ k + 1 # 0 /\ (k + 1) - 1 = k
      OBVIOUS
    <3>2. g[k + 1] = g[k] \cup Below(g[k])
      BY <1>6, <3>1
    <3> QED BY <1>2, <2>2, <3>1, <3>2
  <2>3. Nat \subseteq Ok
    <3> HIDE DEF Ok
    <3> QED BY <2>1, <2>2, Induction
  <2> QED BY <2>3
<1>8. Down(depth) = Nodes(T)
  <2>1. depth \in Nat /\ Size \in Nat /\ Size + 1 = Width(depth)
        /\ \A v \in Nat : v \in Inner <=> v < Size
    BY InnerFacts DEF Typed
  <2>2. PICK w \in Nat : w = Width(depth) /\ Width(depth + 1) = 2 * w
    BY <2>1, WidthFacts
  <2>3. \A v \in Nat : T[v] # Null => v + 1 < Width(depth + 1)
    <3> SUFFICES ASSUME NEW v \in Nat, T[v] # Null PROVE v + 1 < 2 * w
      BY <2>2
    <3>1. v < Size
      BY <2>1, TreeTyped DEF Typed
    <3> QED BY <2>1, <2>2, <3>1
  <2>4. {v \in Nat : v + 1 < Width(depth + 1) /\ T[v] # Null} = {v \in Nat : T[v] # Null}
    BY <2>3
  <2> QED BY <2>4 DEF Down, Nodes
<1>9. depth \in Nat
  BY InnerFacts DEF Typed
<1> QED BY <1>5, <1>7, <1>8, <1>9 DEF S

\* The current tree is the only one, and what else an arena or the collector of a
\* trace region keeps.
LEMMA OneTree ==
    ASSUME Typed, NEW old \in Tree, NEW new \in Tree, NEW place \in [Nat -> Nat],
           Ghost(old, new, place), pc \in {"collect", "check", "release"}
    PROVE  /\ Whole(old) /\ current = old[0] /\ rootLeft = old[0]
           /\ stack = <<>> /\ made = <<>> /\ Bare(new)
           /\ rt = "Rc" \/ (rt = "Trace" /\ pc # "collect") => heap.live = Nodes(old)
<1>1. Apart(old, new) /\ OldTree(old) /\ Phase(new) /\ Exact(old, new)
  BY DEF Ghost
<1>2. Whole(old) /\ current = old[0] /\ rootLeft = old[0]
  BY <1>1 DEF Whole, Apart, OldTree
<1>3. stack = <<>> /\ made = <<>>
  BY <1>1 DEF Phase
<1>4. Bare(new)
  BY <1>1, <1>3 DEF Phase
<1>5. ASSUME rt = "Rc" \/ (rt = "Trace" /\ pc # "collect")
      PROVE  heap.live = Nodes(old)
  <2>1. \A n \in heap.live : n # Null /\ \E v \in Nat : n = old[v] \/ n = new[v]
    BY <1>1, <1>5, AddressesEnough, HeapTyped DEF Exact, Typed
  <2>2. \A v \in Nat : new[v] = Null
    BY <1>4 DEF Bare
  <2>3. heap.live \subseteq Nodes(old)
    BY <2>1, <2>2 DEF Nodes
  <2>4. Nodes(old) \subseteq heap.live
    BY <1>2 DEF Whole, Stored, Nodes
  <2> QED BY <2>3, <2>4
<1> QED BY <1>2, <1>3, <1>4, <1>5

\* What is collected is no node of the current tree.
LEMMA RoundKeeps ==
    ASSUME Typed, NEW old \in Tree, NEW new \in Tree, NEW place \in [Nat -> Nat],
           Ghost(old, new, place), pc \in {"collect", "check"},
           pc' \in {"check", "transform", "release"}, pc' = "transform" => i < Transforms,
           UNCHANGED <<argVars, i, stack, made, current, rootLeft>>,
           heap' \in Heap, heap'.live \subseteq heap.live, Nodes(old) \subseteq heap'.live,
           rt \in {"Rc", "Trace"} => heap'.live = Nodes(old),
           heap'.left = heap.left, heap'.right = heap.right, heap'.value = heap.value,
           heap'.rc = heap.rc, Closed'
    PROVE  Typed' /\ HeapInv'
<1>1. /\ Whole(old) /\ current = old[0] /\ rootLeft = old[0]
      /\ stack = <<>> /\ made = <<>> /\ Bare(new)
  BY OneTree
<1>2. \A v \in Nat : new[v] = Null
  BY <1>1 DEF Bare
<1>3. UNCHANGED <<rt, depth, i, stack, made, current, rootLeft>>
  BY DEF argVars
<1>4. Typed'
  BY <1>3 DEF Typed
<1>5. Inner' = Inner
  BY <1>3 DEF Inner
<1>6. 1..Len(stack') = {} /\ stack' = <<>> /\ made' = <<>>
  BY <1>1, <1>3
<1>7. Apart(old, new)'
  BY DEF Ghost, Apart
<1>8. OldTree(old)'
  <2>1. OldTree(old)
    BY DEF Ghost
  <2>2. Full(old)'
    BY <1>1, <1>5 DEF Whole, Full
  <2>3. Linked(old, {v \in Nat : old[v] # Null})'
    BY <2>1 DEF OldTree, Linked
  <2>4. Valued(old, i)'
    BY <1>3, <2>1 DEF OldTree, Valued
  <2>5. Stored(old)'
    BY DEF Stored, Nodes
  <2> QED BY <1>1, <1>3, <2>2, <2>3, <2>4, <2>5 DEF OldTree
<1>9. NewTree(old, new, place)'
  <2>1. Settled(new, place)' = {}
    BY <1>2 DEF Settled
  <2>2. SettledTree(new, place)'
    BY <2>1 DEF SettledTree, Linked
  <2>3. Reached(new, place)'
    <3>1. \A u \in Nat, j \in {1, 2} : 2 * u + j \in Nat
      OBVIOUS
    <3>2. \A u \in Nat, j \in {1, 2} : new[2 * u + j] = Null
      BY <1>2, <3>1
    <3> QED BY <3>2 DEF Reached
  <2> QED BY <1>2, <1>6, <2>2, <2>3 DEF NewTree, Valued, Stored
<1>10. Phase(new)'
  <2>1. Bare(new)'
    BY <1>2 DEF Bare
  <2> QED BY <1>3, <1>6, <2>1 DEF Phase
<1>11. CountsOne'
  BY <1>3 DEF Ghost, CountsOne
<1>12. Exact(old, new)'
  BY <1>3 DEF Exact, Nodes
<1>13. Budget(new)'
  <2>1. heap.live \in SUBSET Addr /\ IsFiniteSet(Addr)
    BY AddressesEnough, HeapTyped DEF Typed
  <2>2. IsFiniteSet(heap.live)
    BY <2>1, FS_Subset
  <2>3. heap'.live \in SUBSET heap.live
    OBVIOUS
  <2>4. IsFiniteSet(heap'.live) /\ Cardinality(heap'.live) <= Cardinality(heap.live)
    BY <2>2, <2>3, FS_Subset
  <2>5. Cardinality(heap.live) \in Nat /\ Cardinality(heap'.live) \in Nat
    BY <2>2, <2>4, FS_CardinalityType
  <2>6. Trees' = Trees /\ Size' = Size /\ Made(new)' = Made(new)
    BY <1>3, <1>5 DEF Trees, Size, Made
  <2>7. IsFiniteSet(Inner) /\ Size \in Nat /\ Made(new) \in SUBSET Inner
    BY InnerFacts DEF Typed, Made
  <2>8. Cardinality(Made(new)) \in Nat
    BY <2>7, FS_Subset, FS_CardinalityType
  <2>9. Trees \in Nat
    BY <1>4, WorkloadTreeAssumption DEF Typed, Trees
  <2>10. PICK b \in Nat : b = Trees * Size + Cardinality(Made(new))
    <3>1. PICK t \in Nat, s \in Nat, x \in Nat :
             t = Trees /\ s = Size /\ x = Cardinality(Made(new))
      BY <2>7, <2>8, <2>9
    <3>2. t * s + x \in Nat
      BY Z3
    <3> QED BY <3>1, <3>2
  <2>11. Cardinality(heap.live) <= b
    BY <2>10 DEF Ghost, Budget
  <2>12. Cardinality(heap'.live) <= b
    BY <2>4, <2>5, <2>11
  <2> QED BY <2>6, <2>10, <2>12 DEF Budget
<1>14. Ghost(old, new, place)'
  BY <1>7, <1>8, <1>9, <1>10, <1>11, <1>12, <1>13 DEF Ghost
<1>15. Tree' = Tree
  BY <1>5 DEF Node, Addr, Tree
<1> QED BY <1>4, <1>14, <1>15 DEF HeapInv

\* A collection keeps the invariant: a trace frees all but the current tree.
LEMMA CollectKeeps ==
    ASSUME Typed, HeapInv, Collect
    PROVE  Typed' /\ HeapInv'
<1>1. PICK old \in Tree, new \in Tree, place \in [Nat -> Nat] : Ghost(old, new, place)
  BY DEF HeapInv, Collect
<1>2. /\ pc = "collect" /\ pc' = "check" /\ heap' = Collected(heap)
      /\ UNCHANGED <<argVars, i, stack, made, current, rootLeft>>
  BY DEF Collect
<1>3. Whole(old) /\ rootLeft = old[0] /\ (rt = "Rc" => heap.live = Nodes(old))
  BY <1>1, <1>2, OneTree
<1>4. Nodes(old) \subseteq heap.live /\ Nodes(old) \subseteq Addr
  <2>1. Nodes(old) \subseteq heap.live
    BY <1>3 DEF Whole, Stored, Nodes
  <2> QED BY <2>1, NodesTyped DEF Typed
<1>5. heap \in Heap /\ Closed
  BY <1>1 DEF Ghost, Typed
<1>6. CASE rt = "Trace"
  <2>1. heap' = [heap EXCEPT !.live = Nodes(old)]
    BY <1>2, <1>3, <1>6, TraceFindsTree DEF Collected
  <2>2. /\ heap' \in Heap /\ heap'.live = Nodes(old)
        /\ heap'.left = heap.left /\ heap'.right = heap.right /\ heap'.value = heap.value
        /\ heap'.rc = heap.rc
    BY <1>4, <1>5, <2>1 DEF Heap
  <2>3. Closed'
    <3> SUFFICES ASSUME NEW n \in Nodes(old) PROVE Children(heap', n) \subseteq Nodes(old)
      BY <2>2 DEF Closed
    <3>1. PICK v \in Nat : n = old[v] /\ old[v] # Null
      BY DEF Nodes
    <3>2. heap.left[n] = old[2 * v + 1] /\ heap.right[n] = old[2 * v + 2]
      BY <1>3, <3>1 DEF Whole, Linked
    <3>3. 2 * v + 1 \in Nat /\ 2 * v + 2 \in Nat
      OBVIOUS
    <3>4. Children(heap', n) = {old[2 * v + 1], old[2 * v + 2]} \ {Null}
      BY <2>2, <3>2 DEF Children
    <3> QED BY <3>3, <3>4 DEF Nodes
  <2> QED BY <1>1, <1>2, <1>4, <2>2, <2>3, RoundKeeps
<1>7. CASE rt # "Trace"
  <2>1. heap' = heap
    BY <1>2, <1>7 DEF Collected
  <2>2. Closed'
    BY <1>5, <2>1 DEF Closed
  <2> QED BY <1>1, <1>2, <1>3, <1>4, <1>5, <1>7, <2>1, <2>2, RoundKeeps
<1> QED BY <1>6, <1>7

\* Which nodes the current tree is found to have.
LEMMA NodeAtTree ==
    ASSUME Typed, NEW T \in Tree, Whole(T), current = T[0]
    PROVE  /\ \A v \in Place : NodeAt[v] = T[v]
           /\ Inner \subseteq Place /\ Place \subseteq Nat
<1> DEFINE Side(f, v) == IF f[(v - 1) \div 2] = Null THEN Null
                         ELSE IF v % 2 = 1 THEN heap.left[f[(v - 1) \div 2]]
                         ELSE heap.right[f[(v - 1) \div 2]]
           Rec(f) == f = [v \in Place |-> IF v = 0 THEN current ELSE Side(f, v)]
<1>1. PICK w \in Nat \ {0} : /\ Size + 1 = w /\ 2^(depth + 1) = 2 * w /\ Size \in Nat
                             /\ \A v \in Nat : v \in Inner <=> v < Size
                             /\ Inner \subseteq Nat
  <2>1. depth \in Nat /\ Size \in Nat /\ Size + 1 = Width(depth) /\ Inner \subseteq Nat
        /\ \A v \in Nat : v \in Inner <=> v < Size
    BY InnerFacts DEF Typed
  <2>2. Width(depth) \in Nat \ {0} /\ Width(depth + 1) = 2 * Width(depth)
    BY <2>1, WidthFacts
  <2> QED BY <2>1, <2>2 DEF Width
<1>2. Place = 0..(2 * w - 2) /\ Place \subseteq Nat
  BY <1>1 DEF Place
<1>3. \A v \in Nat : v \in Place <=> v + 2 <= 2 * w
  BY <1>2
<1>4. Inner \subseteq Place
  <2> SUFFICES ASSUME NEW v \in Inner PROVE v \in Place
    OBVIOUS
  <2>1. v \in Nat /\ v < Size
    BY <1>1
  <2>2. v + 2 <= 2 * w
    BY <1>1, <2>1
  <2> QED BY <1>3, <2>1, <2>2
<1>5. ASSUME NEW v \in Place, v # 0
      PROVE  \E u \in Place : /\ u < v /\ (v - 1) \div 2 = u
                              /\ T[v] = IF T[u] = Null THEN Null
                                        ELSE IF v % 2 = 1 THEN heap.left[T[u]] ELSE heap.right[T[u]]
  <2>1. PICK u \in Nat, j \in {1, 2} : v = 2 * u + j /\ u < v /\ (v - 1) \div 2 = u
                                       /\ (v % 2 = 1 <=> j = 1)
    BY <1>2, <1>5, Halves
  <2>2. u \in Place
    BY <1>2, <1>3, <2>1
  <2>3. T[u] = Null => T[v] = Null
    BY <2>1, ParentThere
  <2>4. T[u] # Null => heap.left[T[u]] = T[2 * u + 1] /\ heap.right[T[u]] = T[2 * u + 2]
    BY DEF Whole, Linked
  <2>5. j = 1 \/ j = 2
    OBVIOUS
  <2> QED BY <2>1, <2>2, <2>3, <2>4, <2>5
<1>6. \E f : Rec(f)
  <2> DEFINE F == [v \in Place |-> T[v]]
  <2>1. \A v \in Place : T[v] = IF v = 0 THEN current ELSE Side(F, v)
    <3> SUFFICES ASSUME NEW v \in Place, v # 0 PROVE T[v] = Side(F, v)
      OBVIOUS
    <3>1. PICK u \in Place : /\ (v - 1) \div 2 = u
                             /\ T[v] = IF T[u] = Null THEN Null
                                       ELSE IF v % 2 = 1 THEN heap.left[T[u]] ELSE heap.right[T[u]]
      BY <1>5
    <3>2. F[u] = T[u]
      OBVIOUS
    <3> HIDE DEF F
    <3> QED BY <3>1, <3>2
  <2>2. Rec(F)
    BY <2>1
  <2> QED BY <2>2
<1>7. PICK g : g = (CHOOSE f : Rec(f)) /\ Rec(g)
  BY <1>6
<1>8. NodeAt = g
  BY <1>7 DEF NodeAt
<1>9. \A v \in Place : g[v] = IF v = 0 THEN current ELSE Side(g, v)
  BY <1>7
<1>10. \A v \in Nat : v \in Place => g[v] = T[v]
  <2> DEFINE Ok == {v \in Nat : v \in Place => g[v] = T[v]}
  <2>1. ASSUME NEW v \in Nat, \A x \in Nat : x < v => x \in Ok
        PROVE  v \in Ok
    <3> SUFFICES ASSUME v \in Place PROVE g[v] = T[v]
      OBVIOUS
    <3>1. CASE v = 0
      BY <1>9, <3>1
    <3>2. CASE v # 0
      <4>1. PICK u \in Place : /\ u < v /\ (v - 1) \div 2 = u
                               /\ T[v] = IF T[u] = Null THEN Null
                                         ELSE IF v % 2 = 1 THEN heap.left[T[u]]
                                         ELSE heap.right[T[u]]
        BY <1>5, <3>2
      <4>2. g[u] = T[u]
        BY <1>2, <2>1, <4>1
      <4>3. g[v] = Side(g, v)
        BY <1>9, <3>2
      <4> QED BY <4>1, <4>2, <4>3
    <3> QED BY <3>1, <3>2
  <2>2. Nat \subseteq Ok
    <3> HIDE DEF Ok
    <3> QED BY <2>1, StrongInduction
  <2> QED BY <2>2
<1> QED BY <1>2, <1>4, <1>8, <1>10

\* The current tree has as many nodes as it has inner places, and is found to.
LEMMA Counted ==
    ASSUME Typed, NEW T \in Tree, Whole(T), current = T[0]
    PROVE  /\ count_nodes = Size /\ IsFiniteSet(Nodes(T)) /\ Cardinality(Nodes(T)) = Size
<1>1. Inner \subseteq Nat /\ IsFiniteSet(Inner) /\ Cardinality(Inner) = Size
  BY InnerFacts DEF Typed
<1>2. \A v \in Nat : T[v] # Null <=> v \in Inner
  BY TreeTyped DEF Typed, Whole, Full
<1>3. {v \in Place : NodeAt[v] # Null} = Inner
  BY <1>1, <1>2, NodeAtTree
<1>4. Nodes(T) = {T[v] : v \in Inner}
  <2>1. {v \in Nat : T[v] # Null} = Inner
    BY <1>1, <1>2
  <2> QED BY <2>1 DEF Nodes
<1> DEFINE f == [v \in Inner |-> T[v]]
<1>5. f \in Bijection(Inner, Nodes(T))
  <2>1. \A v, x \in Inner : T[v] = T[x] => v = x
    BY <1>1, <1>2 DEF Whole
  <2>2. f \in [Inner -> Nodes(T)] /\ \A v \in Inner : f[v] = T[v]
    BY <1>4
  <2>3. \A n \in Nodes(T) : \E v \in Inner : f[v] = n
    BY <1>4
  <2> HIDE DEF f
  <2>4. f \in Injection(Inner, Nodes(T))
    BY <2>1, <2>2 DEF Injection, IsInjective
  <2>5. f \in Surjection(Inner, Nodes(T))
    BY <2>2, <2>3 DEF Surjection
  <2> QED BY <2>4, <2>5 DEF Bijection
<1> HIDE DEF f
<1>6. IsFiniteSet(Nodes(T)) /\ Cardinality(Nodes(T)) = Size
  BY <1>1, <1>5, FS_Bijection, Zenon DEF ExistsBijection
<1> QED BY <1>1, <1>3, <1>6 DEF count_nodes

\* The check does not fail.
LEMMA CheckKeeps ==
    ASSUME Typed, HeapInv, Check
    PROVE  Typed' /\ HeapInv'
<1>1. PICK old \in Tree, new \in Tree, place \in [Nat -> Nat] : Ghost(old, new, place)
  BY DEF HeapInv, Check
<1>2. pc = "check" /\ UNCHANGED <<argVars, i, stack, made, current, rootLeft, heap>>
  BY DEF Check
<1>3. /\ Whole(old) /\ current = old[0]
      /\ rt \in {"Rc", "Trace"} => heap.live = Nodes(old)
  BY <1>1, <1>2, OneTree
<1>4. rt = "Arena" \/ Cardinality(heap.live) + 1 = count_nodes + 1
  BY <1>3, Counted DEF Typed
<1>5. pc' = IF i < Transforms THEN "transform" ELSE "release"
  BY <1>4 DEF Check, Proceed
<1>6. heap' = heap /\ heap' \in Heap
  BY <1>2 DEF Typed
<1>7. Nodes(old) \subseteq heap'.live
  BY <1>3, <1>6 DEF Whole, Stored, Nodes
<1>8. Closed'
  BY <1>1, <1>6 DEF Ghost, Closed
<1>9. pc' \in {"check", "transform", "release"} /\ (pc' = "transform" => i < Transforms)
  BY <1>5
<1>10. rt \in {"Rc", "Trace"} => heap'.live = Nodes(old)
  BY <1>3, <1>6
<1> QED BY <1>1, <1>2, <1>6, <1>7, <1>8, <1>9, <1>10, RoundKeeps

-----------------------------------------------------------------------------
\* The invariant holds

\* Releasing the region keeps the invariant: no call is left that would use it.
LEMMA ReleaseKeeps ==
    ASSUME Typed, HeapInv, Release
    PROVE  Typed' /\ HeapInv'
<1>0. heap' = [heap EXCEPT !.live = {}] /\ heap'.live = {}
  BY DEF Release, Typed, Heap
<1>1. /\ pc = "release" /\ heap' = [heap EXCEPT !.live = {}] /\ pc' = "done"
      /\ UNCHANGED <<argVars, i, stack, made, current, rootLeft>>
  BY <1>0 DEF Release
<1>2. heap'.live = {} /\ heap' \in Heap
  BY <1>1 DEF Typed, Heap
<1>3. stack = <<>>
  BY <1>1, OneTree DEF HeapInv
<1> QED BY <1>1, <1>2, <1>3 DEF Typed, HeapInv, argVars

\* Every step keeps the invariant.
LEMMA NextKeeps ==
    ASSUME Typed, HeapInv, Next
    PROVE  Typed' /\ HeapInv'
<1>1. CASE Begin \/ MakeSubtree
  <2>1. pc # "done"
    BY <1>1 DEF Begin, MakeSubtree, HeapInv
  <2>2. PICK old \in Tree, new \in Tree, place \in [Nat -> Nat] : Ghost(old, new, place)
    BY <2>1 DEF HeapInv
  <2>3. /\ MayCall
        /\ CallAt(old, place, Fresh(heap)) \/ NullAt(place)
    BY <1>1, <2>2, Calls
  <2>4. CASE CallAt(old, place, Fresh(heap))
    BY <2>2, <2>3, <2>4, CallTyped, CallKeeps
  <2>5. CASE NullAt(place)
    BY <2>2, <2>3, <2>5, NullKeeps
  <2> QED BY <2>3, <2>4, <2>5
<1>2. CASE ReturnNode
  <2>1. pc # "done"
    BY <1>2 DEF ReturnNode, HeapInv
  <2>2. PICK old \in Tree, new \in Tree, place \in [Nat -> Nat] : Ghost(old, new, place)
    BY <2>1 DEF HeapInv
  <2> QED BY <1>2, <2>2, ReturnNodeKeeps
<1>3. CASE Built
  BY <1>3, BuiltKeeps
<1>4. CASE Discard
  BY <1>4, DiscardHolds
<1>5. CASE AssignTree
  BY <1>5, AssignTreeKeeps
<1>6. CASE Collect
  BY <1>6, CollectKeeps
<1>7. CASE Check
  BY <1>7, CheckKeeps
<1>8. CASE Release
  BY <1>8, ReleaseKeeps
<1> QED BY <1>1, <1>2, <1>3, <1>4, <1>5, <1>6, <1>7, <1>8 DEF Next

\* The invariant does not depend on anything else.
LEMMA StutterKeeps ==
    ASSUME Typed, HeapInv, UNCHANGED vars
    PROVE  Typed' /\ HeapInv'
<1>1. /\ rt' = rt /\ depth' = depth /\ pc' = pc /\ i' = i /\ stack' = stack /\ made' = made
      /\ current' = current /\ rootLeft' = rootLeft /\ heap' = heap
  BY DEF vars, argVars
<1>2. Typed'
  BY <1>1 DEF Typed
<1>3. Inner' = Inner /\ Size' = Size /\ Trees' = Trees /\ Tree' = Tree
  BY <1>1 DEF Inner, Size, Trees, Tree, Node, Addr
<1>4. CASE pc = "done"
  BY <1>1, <1>2, <1>4 DEF HeapInv
<1>5. CASE pc # "done"
  <2>1. PICK old \in Tree, new \in Tree, place \in [Nat -> Nat] : Ghost(old, new, place)
    BY <1>5 DEF HeapInv
  <2>2. OldTree(old)'
    BY <1>1, <1>3, <2>1 DEF Ghost, OldTree, Bare, Full, Linked, Valued, Stored
  <2>3. Settled(new, place)' = Settled(new, place) /\ \A k : Kids(k)' = Kids(k)
    BY <1>1 DEF Settled, Kids
  <2>4. NewTree(old, new, place)'
    <3>1. NewTree(old, new, place)
      BY <2>1 DEF Ghost
    <3>2. SettledTree(new, place)'
      BY <1>1, <1>3, <2>3, <3>1 DEF NewTree, SettledTree, Linked
    <3>3. Reached(new, place)'
      BY <1>1, <2>3, <3>1 DEF NewTree, Reached
    <3>4. Valued(new, IF pc = "build" THEN 0 ELSE i + 1)' /\ Stored(new)'
      BY <1>1, <3>1 DEF NewTree, Valued, Stored
    <3>5. ASSUME NEW k \in 1..Len(stack') PROVE FrameAt(old, new, place, k)'
      <4>1. FrameAt(old, new, place, k)
        BY <1>1, <3>1 DEF NewTree
      <4> QED BY <1>1, <1>3, <2>3, <4>1 DEF FrameAt
    <3> QED BY <3>2, <3>3, <3>4, <3>5 DEF NewTree
  <2>5. Phase(new)'
    BY <1>1, <1>3, <2>1 DEF Ghost, Phase, Full, Bare
  <2>6. Closed' /\ Exact(old, new)' /\ CountsOne'
    BY <1>1, <2>1 DEF Ghost, Closed, Exact, CountsOne
  <2>7. Budget(new)'
    BY <1>1, <1>3, <2>1 DEF Ghost, Budget, Made
  <2>8. Apart(old, new)'
    BY <2>1 DEF Ghost, Apart
  <2>9. Ghost(old, new, place)'
    BY <2>2, <2>4, <2>5, <2>6, <2>7, <2>8 DEF Ghost
  <2> QED BY <1>1, <1>2, <1>3, <1>5, <2>9 DEF HeapInv
<1> QED BY <1>2, <1>4, <1>5

\* Theorem: in every state of run_test the heap holds the current tree and the one being made,
\* each where the recursion of build_tree and transform_tree says, and nothing else but what is
\* still to be collected.
THEOREM HeapCorrect == Spec => [](Typed /\ HeapInv)
<1>1. Init => Typed /\ HeapInv
  BY InitHolds
<1>2. (Typed /\ HeapInv) /\ [Next]_vars => (Typed /\ HeapInv)'
  BY NextKeeps, StutterKeeps
<1> QED BY <1>1, <1>2, PTL DEF Spec

\* Theorem: check(heap_after == expected) succeeds after every transformation, for every depth
\* and number of transformations: what is left in the heap is the current tree and the root.
THEOREM CheckNeverFails == Spec => [](pc # "failed")
<1>1. Typed /\ HeapInv => pc # "failed"
  BY DEF Typed
<1> QED BY <1>1, HeapCorrect, PTL

\* Theorem: from the first tree on the current tree is complete, and each transformation has added
\* one to every value (transform_tree), whatever is freed in between.
THEOREM TreeStaysComplete == Spec => []TreeComplete
<1>1. ASSUME Typed, HeapInv PROVE TreeComplete
  <2> SUFFICES ASSUME pc \notin {"build", "assign", "done"}, NEW v \in Place
               PROVE  IF v >= 2 ^ depth - 1 THEN NodeAt[v] = Null
                      ELSE NodeAt[v] \in heap.live /\ heap.value[NodeAt[v]] = v + i
    BY DEF TreeComplete
  <2>1. PICK old \in Tree, new \in Tree, place \in [Nat -> Nat] : Ghost(old, new, place)
    BY <1>1 DEF HeapInv
  <2>2. OldTree(old) /\ Apart(old, new)
    BY <2>1 DEF Ghost
  <2>3. Whole(old) /\ current = old[0]
    BY <2>2 DEF Whole, OldTree, Apart
  <2>4. NodeAt[v] = old[v] /\ v \in Nat
    BY <1>1, <2>3, NodeAtTree
  <2>5. v \in Inner <=> v < Size
    BY <1>1, <2>4, InnerFacts DEF Typed
  <2>6. Size \in Nat /\ Size = 2 ^ depth - 1
    BY <1>1, InnerFacts DEF Typed, Size
  <2>7. CASE v >= Size
    <3>1. v \notin Inner
      BY <2>4, <2>5, <2>6, <2>7
    <3> QED BY <1>1, <2>4, <2>6, <2>7, <3>1, TreeTyped DEF Typed
  <2>8. CASE v < Size
    <3>1. old[v] # Null
      BY <2>3, <2>5, <2>8 DEF Whole, Full
    <3>2. old[v] \in heap.live /\ heap.value[old[v]] = v + i
      BY <2>2, <2>4, <3>1 DEF OldTree, Stored, Valued
    <3>3. ~(v >= Size)
      BY <2>4, <2>6, <2>8
    <3> QED BY <2>4, <2>6, <3>2, <3>3
  <2> QED BY <2>4, <2>6, <2>7, <2>8
<1> QED BY <1>1, HeapCorrect, PTL

-----------------------------------------------------------------------------
\* No dangling pointers

\* What the locals hold is a node of the two trees.
LEMMA LocalsHold ==
    ASSUME Typed, NEW old \in Tree, NEW new \in Tree, NEW place \in [Nat -> Nat],
           Ghost(old, new, place)
    PROVE  /\ \A k \in 1..Len(stack) :
                 /\ k \in Nat /\ place[k] \in Inner /\ place[k] \in Nat
                 /\ stack[k].node \in Addr /\ stack[k].node = new[place[k]]
                 /\ stack[k].kids \in Seq(Node) /\ Len(stack[k].kids) <= 2
                 /\ \A j \in 1..2 : j <= Len(stack[k].kids) =>
                       2 * place[k] + j \in Nat /\ stack[k].kids[j] = new[2 * place[k] + j]
           /\ made = <<>> \/ made = <<new[0]>>
           /\ current = old[0]
           /\ \A v \in Nat : (old[v] # Null => old[v] \in heap.live)
                             /\ (new[v] # Null => new[v] \in heap.live)
<1>1. ASSUME NEW k \in 1..Len(stack)
      PROVE  /\ k \in Nat /\ place[k] \in Inner /\ place[k] \in Nat
             /\ stack[k].node \in Addr /\ stack[k].node = new[place[k]]
             /\ stack[k].kids \in Seq(Node) /\ Len(stack[k].kids) <= 2
             /\ \A j \in 1..2 : j <= Len(stack[k].kids) =>
                   2 * place[k] + j \in Nat /\ stack[k].kids[j] = new[2 * place[k] + j]
  <2>1. FrameAt(old, new, place, k)
    BY DEF Ghost, NewTree
  <2>2. k \in Nat /\ place[k] \in Inner /\ stack[k].node = new[place[k]] /\ Kids(k) <= 2
    BY <2>1 DEF FrameAt
  <2>3. stack[k].node \in Addr /\ stack[k].kids \in Seq(Node) /\ Kids(k) \in Nat
    BY StackTyped
  <2>4. place[k] \in Nat
    BY <2>2, InnerFacts DEF Typed
  <2>5. \A j \in 1..Kids(k) : stack[k].kids[j] = new[2 * place[k] + j]
    BY <2>1 DEF FrameAt
  <2>6. PICK u \in Nat, l \in Nat : u = place[k] /\ l = Kids(k)
    BY <2>3, <2>4
  <2>7. \A j \in 1..2 : 2 * u + j \in Nat /\ (j <= l => j \in 1..l)
    OBVIOUS
  <2> QED BY <2>2, <2>3, <2>4, <2>5, <2>6, <2>7 DEF Kids
<1>2. made = <<>> \/ made = <<new[0]>>
  BY DEF Ghost, Phase
<1>3. current = old[0]
  BY DEF Ghost, OldTree
<1>4. \A v \in Nat : (old[v] # Null => old[v] \in heap.live)
                     /\ (new[v] # Null => new[v] \in heap.live)
  BY DEF Ghost, OldTree, NewTree, Stored
<1> QED BY <1>1, <1>2, <1>3, <1>4

\* A node that no local holds is owned by none.
LEMMA OwnersNone ==
    ASSUME NEW n,
           \A k \in 1..Len(stack) : stack[k].node # n,
           \A k \in 1..Len(stack), j \in 1..2 :
              j <= Len(stack[k].kids) => stack[k].kids[j] # n,
           \A k \in 1..Len(made) : made[k] # n,
           current # n
    PROVE  Owners(n) = 0
<1> DEFINE F == {k \in 1..Len(stack) : stack[k].node = n}
           K == {p \in (1..Len(stack)) \X (1..2) :
                   p[2] <= Len(stack[p[1]].kids) /\ stack[p[1]].kids[p[2]] = n}
           M == {k \in 1..Len(made) : made[k] = n}
<1>1. F = {} /\ K = {} /\ M = {}
  OBVIOUS
<1> HIDE DEF F, K, M
<1>2. Cardinality(F) = 0 /\ Cardinality(K) = 0 /\ Cardinality(M) = 0
  BY <1>1, FS_EmptySet
<1>3. Cardinality(F) + Cardinality(K) + Cardinality(M) + (IF current = n THEN 1 ELSE 0) = 0
  BY <1>2
<1> QED BY <1>3 DEF Owners, F, K, M

\* Theorem: no field of a node in the heap and no local of the recursion or of run_test points to
\* a freed node, whether discard_tree or a collection freed it.
THEOREM NothingDangles == Spec => []NoDangling
<1>1. ASSUME Typed, HeapInv, pc = "done" PROVE NoDangling
  <2>1. stack = <<>> /\ Len(stack) = 0
    BY <1>1 DEF HeapInv
  <2>2. depth \in Nat
    BY <1>1, InnerFacts DEF Typed
  <2>3. heap \in Heap /\ made \in Seq(Node) /\ Len(made) <= 1 /\ current \in Node /\ rootLeft \in Node
    BY <1>1 DEF Typed
  <2>4. TypeOK
    BY <1>1, <2>1, <2>2, <2>3 DEF TypeOK, Typed, Heap, Node
  <2> QED BY <1>1, <2>4 DEF NoDangling
<1>2. ASSUME Typed, HeapInv, pc # "done" PROVE NoDangling
  <2>1. PICK old \in Tree, new \in Tree, place \in [Nat -> Nat] : Ghost(old, new, place)
    BY <1>2 DEF HeapInv
  <2>2. /\ \A k \in 1..Len(stack) :
              /\ k \in Nat /\ place[k] \in Inner /\ place[k] \in Nat
              /\ stack[k].node \in Addr /\ stack[k].node = new[place[k]]
              /\ stack[k].kids \in Seq(Node) /\ Len(stack[k].kids) <= 2
              /\ \A j \in 1..2 : j <= Len(stack[k].kids) =>
                    2 * place[k] + j \in Nat /\ stack[k].kids[j] = new[2 * place[k] + j]
        /\ made = <<>> \/ made = <<new[0]>>
        /\ current = old[0]
        /\ \A v \in Nat : (old[v] # Null => old[v] \in heap.live)
                          /\ (new[v] # Null => new[v] \in heap.live)
    BY <1>2, <2>1, LocalsHold
  <2>3. Len(stack) <= depth
    <3>1. Len(stack) \in Nat /\ depth \in Nat
      BY <1>2, StackTyped, InnerFacts DEF Typed
    <3>2. CASE Len(stack) = 0
      BY <3>1, <3>2
    <3>3. CASE Len(stack) # 0
      <4>1. Len(stack) \in 1..Len(stack)
        BY <3>1, <3>3
      <4> QED BY <1>2, <2>1, <4>1, LevelsFit DEF Ghost
    <3> QED BY <3>2, <3>3
  <2>4. TypeOK
    <3>1. \A k \in 1..Len(stack) :
             /\ stack[k].node \in Addr
             /\ stack[k].kids \in Seq(Addr \cup {Null}) /\ Len(stack[k].kids) <= 2
      BY <2>2 DEF Node
    <3>2. heap \in Heap /\ made \in Seq(Node) /\ Len(made) <= 1 /\ current \in Node /\ rootLeft \in Node
      BY <1>2 DEF Typed
    <3>3. /\ rt \in {"Trace", "Arena", "Rc"} /\ depth \in Depths
          /\ pc \in {"build", "transform", "assign", "collect", "check", "release", "done"}
          /\ i \in 0..Transforms
      BY <1>2 DEF Typed
    <3> QED BY <2>3, <3>1, <3>2, <3>3 DEF TypeOK, Heap, Node
  <2>5. \A n \in heap.live : Children(heap, n) \subseteq heap.live
    BY <2>1 DEF Ghost, Closed
  <2>6. ASSUME NEW n \in Addr, Owners(n) > 0, n \notin heap.live PROVE FALSE
    <3>1. n # Null
      BY <1>2, AddressesEnough DEF Typed
    <3>2. \A v \in Nat : new[v] # n /\ old[v] # n
      BY <2>2, <2>6, <3>1
    <3>3. \A k \in 1..Len(stack) : stack[k].node # n
      BY <2>2, <3>2
    <3>4. \A k \in 1..Len(stack), j \in 1..2 :
             j <= Len(stack[k].kids) => stack[k].kids[j] # n
      <4> SUFFICES ASSUME NEW k \in 1..Len(stack), NEW j \in 1..2, j <= Len(stack[k].kids)
                   PROVE  stack[k].kids[j] # n
        OBVIOUS
      <4>1. 2 * place[k] + j \in Nat /\ stack[k].kids[j] = new[2 * place[k] + j]
        BY <2>2
      <4> QED BY <3>2, <4>1
    <3>5. \A k \in 1..Len(made) : made[k] # n
      <4>1. made = <<>> \/ made = <<new[0]>>
        BY <2>2
      <4>2. new[0] # n
        BY <3>2
      <4>3. CASE made = <<>>
        BY <4>3
      <4>4. CASE made = <<new[0]>>
        BY <4>2, <4>4
      <4> QED BY <4>1, <4>3, <4>4
    <3>6. current # n
      BY <2>2, <3>2
    <3>7. Owners(n) = 0
      BY <3>3, <3>4, <3>5, <3>6, OwnersNone
    <3> QED BY <2>6, <3>7
  <2>7. ASSUME pc = "transform", NEW k \in 1..Len(stack) PROVE stack[k].from \in heap.live
    <3>1. FrameAt(old, new, place, k) /\ OldTree(old)
      BY <2>1 DEF Ghost, NewTree
    <3>2. stack[k].from = old[place[k]] /\ place[k] \in Inner
      BY <2>7, <3>1 DEF FrameAt
    <3>3. old[place[k]] # Null
      BY <2>7, <3>1, <3>2 DEF OldTree, Full
    <3> QED BY <2>2, <3>2, <3>3
  <2>8. pc # "assign" /\ rootLeft # Null => rootLeft \in heap.live
    <3>1. pc # "assign" => rootLeft = old[0]
      BY <2>1 DEF Ghost, OldTree
    <3> QED BY <2>2, <3>1
  <2> QED BY <2>4, <2>5, <2>6, <2>7, <2>8 DEF NoDangling
<1>3. Typed /\ HeapInv => NoDangling
  BY <1>1, <1>2
<1> QED BY <1>3, HeapCorrect, PTL

-----------------------------------------------------------------------------
\* Counts

\* Where the fields of the nodes in the heap lead.
LEMMA FieldsLead ==
    ASSUME Typed, NEW old \in Tree, NEW new \in Tree, NEW place \in [Nat -> Nat],
           Ghost(old, new, place), rt = "Rc", NEW p \in heap.live
    PROVE  \/ \E w \in Nat : p = old[w] /\ heap.left[p] = old[2 * w + 1] /\ heap.right[p] = old[2 * w + 2]
           \/ \E w \in Settled(new, place) :
                 p = new[w] /\ heap.left[p] = new[2 * w + 1] /\ heap.right[p] = new[2 * w + 2]
           \/ heap.left[p] = Null /\ heap.right[p] = Null
<1>1. OldTree(old) /\ NewTree(old, new, place) /\ Exact(old, new)
  BY DEF Ghost
<1>2. p # Null
  BY HeapTyped, AddressesEnough DEF Typed
<1>3. PICK w \in Nat : p = old[w] \/ p = new[w]
  BY <1>1 DEF Exact
<1>4. CASE p = old[w]
  BY <1>1, <1>2, <1>4 DEF OldTree, Linked
<1>5. CASE p = new[w] /\ w \in Settled(new, place)
  BY <1>1, <1>5 DEF NewTree, SettledTree, Linked
<1>6. CASE p = new[w] /\ w \notin Settled(new, place)
  <2>1. PICK k \in 1..Len(stack) : place[k] = w
    BY <1>2, <1>6 DEF Settled
  <2>2. FrameAt(old, new, place, k)
    BY <1>1 DEF NewTree
  <2> QED BY <1>6, <2>1, <2>2 DEF FrameAt
<1> QED BY <1>3, <1>4, <1>5, <1>6

\* A node of the current tree is held by its parent or by current.
LEMMA OldHeldOnce ==
    ASSUME Typed, NEW old \in Tree, NEW new \in Tree, NEW place \in [Nat -> Nat],
           Ghost(old, new, place), rt = "Rc", NEW v \in Nat, old[v] # Null
    PROVE  RefsFrom(heap, heap.live, old[v]) + Owners(old[v]) = 1
<1>1. OldTree(old) /\ Apart(old, new)
  BY DEF Ghost
<1>2. Whole(old)
  BY <1>1 DEF Whole, OldTree, Apart, Bare
<1>3. \A w \in Nat : new[w] # old[v]
  BY <1>1 DEF Apart
<1>4. \A w \in Nat : 2 * w + 1 \in Nat /\ 2 * w + 2 \in Nat
  OBVIOUS
<1>5. ASSUME NEW p \in heap.live, heap.left[p] = old[v] \/ heap.right[p] = old[v]
      PROVE  \E w \in Nat : /\ p = old[w]
                            /\ heap.left[p] = old[v] => v = 2 * w + 1
                            /\ heap.right[p] = old[v] => v = 2 * w + 2
  <2>1. CASE \E w \in Nat : p = old[w] /\ heap.left[p] = old[2 * w + 1] /\ heap.right[p] = old[2 * w + 2]
    <3>1. PICK w \in Nat : p = old[w] /\ heap.left[p] = old[2 * w + 1] /\ heap.right[p] = old[2 * w + 2]
      BY <2>1
    <3>2. 2 * w + 1 \in Nat /\ 2 * w + 2 \in Nat
      BY <1>4
    <3>3. heap.left[p] = old[v] => v = 2 * w + 1
      BY <1>2, <3>1, <3>2 DEF Whole
    <3>4. heap.right[p] = old[v] => v = 2 * w + 2
      BY <1>2, <3>1, <3>2 DEF Whole
    <3> QED BY <3>1, <3>3, <3>4
  <2>2. CASE \E w \in Settled(new, place) :
                p = new[w] /\ heap.left[p] = new[2 * w + 1] /\ heap.right[p] = new[2 * w + 2]
    BY <1>3, <1>4, <1>5, <2>2 DEF Settled
  <2>3. CASE heap.left[p] = Null /\ heap.right[p] = Null
    BY <1>5, <2>3
  <2> QED BY <2>1, <2>2, <2>3, FieldsLead
<1>6. /\ \A k \in 1..Len(stack) : stack[k].node # old[v]
      /\ \A k \in 1..Len(stack), j \in 1..2 :
            j <= Len(stack[k].kids) => stack[k].kids[j] # old[v]
      /\ \A k \in 1..Len(made) : made[k] # old[v]
      /\ current = old[0]
  <2>1. /\ \A k \in 1..Len(stack) :
              /\ place[k] \in Nat /\ stack[k].node = new[place[k]]
              /\ \A j \in 1..2 : j <= Len(stack[k].kids) =>
                    2 * place[k] + j \in Nat /\ stack[k].kids[j] = new[2 * place[k] + j]
        /\ made = <<>> \/ made = <<new[0]>>
        /\ current = old[0]
    BY LocalsHold
  <2>2. \A k \in 1..Len(stack) : stack[k].node # old[v]
    <3> SUFFICES ASSUME NEW k \in 1..Len(stack) PROVE stack[k].node # old[v]
      OBVIOUS
    <3>1. place[k] \in Nat /\ stack[k].node = new[place[k]]
      BY <2>1
    <3> QED BY <1>3, <3>1
  <2>3. \A k \in 1..Len(stack), j \in 1..2 :
           j <= Len(stack[k].kids) => stack[k].kids[j] # old[v]
    <3> SUFFICES ASSUME NEW k \in 1..Len(stack), NEW j \in 1..2, j <= Len(stack[k].kids)
                 PROVE  stack[k].kids[j] # old[v]
      OBVIOUS
    <3>1. 2 * place[k] + j \in Nat /\ stack[k].kids[j] = new[2 * place[k] + j]
      BY <2>1
    <3> QED BY <1>3, <3>1
  <2>4. \A k \in 1..Len(made) : made[k] # old[v]
    <3>1. made = <<>> \/ made = <<new[0]>>
      BY <2>1
    <3>2. new[0] # old[v]
      BY <1>3
    <3>3. CASE made = <<>>
      BY <3>3
    <3>4. CASE made = <<new[0]>>
      BY <3>2, <3>4
    <3> QED BY <3>1, <3>3, <3>4
  <2> QED BY <2>1, <2>2, <2>3, <2>4
<1>7. CASE v = 0
  <2>1. ASSUME NEW p \in heap.live PROVE heap.left[p] # old[v] /\ heap.right[p] # old[v]
    <3>1. \A w \in Nat : 0 # 2 * w + 1 /\ 0 # 2 * w + 2
      OBVIOUS
    <3> QED BY <1>5, <1>7, <3>1
  <2>2. RefsFrom(heap, heap.live, old[v]) = 0
    BY <2>1, RefsNone
  <2>3. Owners(old[v]) = 1
    <3> DEFINE F == {k \in 1..Len(stack) : stack[k].node = old[v]}
               K == {p \in (1..Len(stack)) \X (1..2) :
                       p[2] <= Len(stack[p[1]].kids) /\ stack[p[1]].kids[p[2]] = old[v]}
               M == {k \in 1..Len(made) : made[k] = old[v]}
    <3>1. F = {} /\ K = {} /\ M = {}
      BY <1>6
    <3> HIDE DEF F, K, M
    <3>2. Cardinality(F) = 0 /\ Cardinality(K) = 0 /\ Cardinality(M) = 0
      BY <3>1, FS_EmptySet
    <3>3. current = old[v]
      BY <1>6, <1>7
    <3>4. Cardinality(F) + Cardinality(K) + Cardinality(M) + (IF current = old[v] THEN 1 ELSE 0) = 1
      BY <3>2, <3>3
    <3> QED BY <3>4 DEF Owners, F, K, M
  <2> QED BY <2>2, <2>3
<1>8. CASE v # 0
  <2>1. PICK u \in Nat, j \in {1, 2} : v = 2 * u + j
    BY <1>8, Halves
  <2>2. old[u] # Null
    BY <1>2, <2>1, ParentThere
  <2>3. old[u] \in heap.live /\ heap.left[old[u]] = old[2 * u + 1] /\ heap.right[old[u]] = old[2 * u + 2]
    BY <1>2, <2>2 DEF Whole, Stored, Linked
  <2>4. \A p \in heap.live : /\ heap.left[p] = old[v] <=> p = old[u] /\ j = 1
                             /\ heap.right[p] = old[v] <=> p = old[u] /\ j = 2
    <3> SUFFICES ASSUME NEW p \in heap.live
                 PROVE  /\ heap.left[p] = old[v] <=> p = old[u] /\ j = 1
                        /\ heap.right[p] = old[v] <=> p = old[u] /\ j = 2
      OBVIOUS
    <3>1. ASSUME heap.left[p] = old[v] PROVE p = old[u] /\ j = 1
      <4>1. PICK w \in Nat : p = old[w] /\ v = 2 * w + 1
        BY <1>5, <3>1
      <4>2. w = u /\ j = 1
        BY <2>1, <4>1
      <4> QED BY <4>1, <4>2
    <3>2. ASSUME heap.right[p] = old[v] PROVE p = old[u] /\ j = 2
      <4>1. PICK w \in Nat : p = old[w] /\ v = 2 * w + 2
        BY <1>5, <3>2
      <4>2. w = u /\ j = 2
        <5>1. 2 * w + 2 = 2 * u + j
          BY <2>1, <4>1
        <5> QED BY <5>1
      <4> QED BY <4>1, <4>2
    <3> QED BY <2>1, <2>3, <3>1, <3>2
  <2>5. RefsFrom(heap, heap.live, old[v]) = 1
    BY <2>3, <2>4, RefsOne
  <2>6. current # old[v]
    BY <1>2, <1>6, <1>8 DEF Whole
  <2>7. Owners(old[v]) = 0
    BY <1>6, <2>6, OwnersNone
  <2> QED BY <2>5, <2>7
<1> QED BY <1>7, <1>8

\* A node of the tree being made is held by its parent or by a local.
LEMMA NewHeldOnce ==
    ASSUME Typed, NEW old \in Tree, NEW new \in Tree, NEW place \in [Nat -> Nat],
           Ghost(old, new, place), rt = "Rc", NEW v \in Nat, new[v] # Null
    PROVE  RefsFrom(heap, heap.live, new[v]) + Owners(new[v]) = 1
<1> DEFINE n == new[v]
           F == {k \in 1..Len(stack) : stack[k].node = n}
           K == {p \in (1..Len(stack)) \X (1..2) :
                   p[2] <= Len(stack[p[1]].kids) /\ stack[p[1]].kids[p[2]] = n}
           M == {k \in 1..Len(made) : made[k] = n}
<1>1. /\ \A w, x \in Nat : new[w] # Null /\ new[w] = new[x] => w = x
      /\ \A w \in Nat : old[w] # Null => old[w] # new[v]
      /\ NewTree(old, new, place) /\ Phase(new)
  BY DEF Ghost, Apart
<1>2. \A w \in Nat : old[w] # n
  BY <1>1
<1>3. ASSUME NEW k \in 1..Len(stack)
      PROVE  /\ k \in Nat /\ place[k] \in Nat
             /\ stack[k].node = n <=> place[k] = v
             /\ \A j \in 1..2 : j <= Len(stack[k].kids) =>
                   (stack[k].kids[j] = n <=> v = 2 * place[k] + j)
  <2>1. /\ k \in Nat /\ place[k] \in Nat
        /\ stack[k].node = new[place[k]]
        /\ \A j \in 1..2 : j <= Len(stack[k].kids) =>
              2 * place[k] + j \in Nat /\ stack[k].kids[j] = new[2 * place[k] + j]
    BY LocalsHold
  <2>2. stack[k].node = n <=> place[k] = v
    BY <1>1, <2>1
  <2>3. ASSUME NEW j \in 1..2, j <= Len(stack[k].kids)
        PROVE  stack[k].kids[j] = n <=> v = 2 * place[k] + j
    <3>1. 2 * place[k] + j \in Nat /\ stack[k].kids[j] = new[2 * place[k] + j]
      BY <2>1, <2>3
    <3> QED BY <1>1, <3>1
  <2> QED BY <2>1, <2>2, <2>3
<1>4. current # n
  BY <1>2, LocalsHold
<1>5. ASSUME NEW p \in heap.live, heap.left[p] = n \/ heap.right[p] = n
      PROVE  \E w \in Settled(new, place) : /\ p = new[w]
                                            /\ heap.left[p] = n => v = 2 * w + 1
                                            /\ heap.right[p] = n => v = 2 * w + 2
  <2>1. CASE \E w \in Settled(new, place) :
                p = new[w] /\ heap.left[p] = new[2 * w + 1] /\ heap.right[p] = new[2 * w + 2]
    <3>1. PICK w \in Settled(new, place) :
             p = new[w] /\ heap.left[p] = new[2 * w + 1] /\ heap.right[p] = new[2 * w + 2]
      BY <2>1
    <3>2. w \in Nat
      BY DEF Settled
    <3>3. 2 * w + 1 \in Nat /\ 2 * w + 2 \in Nat
      BY <3>2
    <3>4. heap.left[p] = n => v = 2 * w + 1
      BY <1>1, <3>1, <3>3
    <3>5. heap.right[p] = n => v = 2 * w + 2
      BY <1>1, <3>1, <3>3
    <3> QED BY <3>1, <3>4, <3>5
  <2>2. CASE \E w \in Nat : p = old[w] /\ heap.left[p] = old[2 * w + 1] /\ heap.right[p] = old[2 * w + 2]
    <3>1. PICK w \in Nat : heap.left[p] = old[2 * w + 1] /\ heap.right[p] = old[2 * w + 2]
      BY <2>2
    <3>2. 2 * w + 1 \in Nat /\ 2 * w + 2 \in Nat
      OBVIOUS
    <3> QED BY <1>2, <1>5, <3>1, <3>2
  <2>3. CASE heap.left[p] = Null /\ heap.right[p] = Null
    BY <1>5, <2>3
  <2> QED BY <2>1, <2>2, <2>3, FieldsLead
<1>6. Cardinality({}) = 0 /\ \A q : Cardinality({q}) = 1
  BY FS_EmptySet, FS_Singleton
<1>7. Owners(n) = Cardinality(F) + Cardinality(K) + Cardinality(M)
  <2>1. Owners(n) = Cardinality(F) + Cardinality(K) + Cardinality(M)
                    + (IF current = n THEN 1 ELSE 0)
    BY DEF Owners
  <2>2. PICK a \in Nat, b \in Nat, c \in Nat :
           a = Cardinality(F) /\ b = Cardinality(K) /\ c = Cardinality(M)
    <3>1. Len(stack) \in Nat /\ Len(made) \in Nat
      <4>1. made \in Seq(Node)
        BY DEF Typed
      <4> QED BY <4>1, StackTyped
    <3>2. IsFiniteSet(1..Len(stack)) /\ IsFiniteSet(1..Len(made)) /\ IsFiniteSet(1..2)
      BY <3>1, Sized
    <3>3. IsFiniteSet((1..Len(stack)) \X (1..2))
      BY <3>2, FS_Product
    <3>4. F \in SUBSET (1..Len(stack)) /\ K \in SUBSET ((1..Len(stack)) \X (1..2))
          /\ M \in SUBSET (1..Len(made))
      OBVIOUS
    <3> HIDE DEF F, K, M
    <3>5. IsFiniteSet(F) /\ IsFiniteSet(K) /\ IsFiniteSet(M)
      BY <3>2, <3>3, <3>4, FS_Subset
    <3> QED BY <3>5, FS_CardinalityType
  <2> HIDE DEF F, K, M
  <2> QED BY <1>4, <2>1, <2>2
<1>8. made = <<>> \/ (stack = <<>> /\ made = <<new[0]>>)
  BY <1>1 DEF Phase
\* The root.
<1>9. CASE v = 0
  <2>1. ASSUME NEW p \in heap.live PROVE heap.left[p] # n /\ heap.right[p] # n
    <3>1. \A w \in Nat : 0 # 2 * w + 1 /\ 0 # 2 * w + 2
      OBVIOUS
    <3> QED BY <1>5, <1>9, <3>1 DEF Settled
  <2>2. RefsFrom(heap, heap.live, n) = 0
    <3> HIDE DEF n
    <3> QED BY <2>1, RefsNone
  <2>3. K = {}
    <3>1. \A k \in 1..Len(stack), j \in 1..2 : 0 # 2 * place[k] + j
      <4> SUFFICES ASSUME NEW k \in 1..Len(stack), NEW j \in 1..2 PROVE 0 # 2 * place[k] + j
        OBVIOUS
      <4>1. PICK u \in Nat : u = place[k]
        BY <1>3
      <4>2. 0 # 2 * u + j
        OBVIOUS
      <4> QED BY <4>1, <4>2
    <3>2. \A k \in 1..Len(stack), j \in 1..2 : j <= Len(stack[k].kids) => stack[k].kids[j] # n
      BY <1>3, <1>9, <3>1
    <3> QED BY <3>2
  <2>4. CASE stack = <<>>
    <3>1. made = <<new[0]>>
      BY <1>1, <1>8, <1>9, <2>4 DEF Phase, Bare
    <3>2. F = {} /\ M = {1}
      BY <1>9, <2>4, <3>1
    <3>3. Cardinality(F) + Cardinality(K) + Cardinality(M) = 1
      <4> HIDE DEF F, K, M
      <4>1. Cardinality(F) = 0 /\ Cardinality(K) = 0 /\ Cardinality(M) = 1
        BY <1>6, <2>3, <3>2
      <4> QED BY <4>1
    <3> QED BY <1>7, <2>2, <3>3
  <2>5. CASE stack # <<>>
    <3>1. 1 \in 1..Len(stack)
      BY <2>5, StackTyped
    <3>2. place[1] = 0
      BY <1>1, <3>1 DEF NewTree, FrameAt
    <3>3. \A k \in 1..Len(stack) : place[k] = 0 => k = 1
      <4> SUFFICES ASSUME NEW k \in 1..Len(stack), place[k] = 0 PROVE k = 1
        OBVIOUS
      <4>1. NewTree(old, new, place) /\ place[k] = place[1]
        BY <1>1, <3>2
      <4> QED BY <3>1, <4>1, LevelsApart
    <3>4. F = {1} /\ M = {}
      <4>1. F = {1}
        BY <1>3, <1>9, <3>1, <3>2, <3>3
      <4>2. M = {}
        BY <1>8, <2>5
      <4> QED BY <4>1, <4>2
    <3>5. Cardinality(F) + Cardinality(K) + Cardinality(M) = 1
      <4> HIDE DEF F, K, M
      <4>1. Cardinality(F) = 1 /\ Cardinality(K) = 0 /\ Cardinality(M) = 0
        BY <1>6, <2>3, <3>4
      <4> QED BY <4>1
    <3> QED BY <1>7, <2>2, <3>5
  <2> QED BY <2>4, <2>5
<1>10. CASE v # 0
  <2>1. PICK u \in Nat, j \in {1, 2} : v = 2 * u + j
    BY <1>10, Halves
  <2>2. new[u] # Null /\ v \in Inner
    BY <1>1, <2>1, TreeTyped DEF NewTree, Reached, Typed
  <2>3. \A w \in Nat, l \in 1..2 : v = 2 * w + l => w = u /\ l = j
    BY <2>1
  <2>4. M = {}
    <3>1. new[0] # n
      BY <1>1, <1>10
    <3>2. CASE made = <<>>
      BY <3>2
    <3>3. CASE made = <<new[0]>>
      BY <3>1, <3>3
    <3> QED BY <1>8, <3>2, <3>3
  <2>5. CASE \A k \in 1..Len(stack) : place[k] # u
    <3>1. u \in Settled(new, place)
      BY <2>2, <2>5 DEF Settled
    <3>2. /\ heap.left[new[u]] = new[2 * u + 1] /\ heap.right[new[u]] = new[2 * u + 2]
          /\ v \in Settled(new, place)
      BY <1>1, <2>1, <2>2, <3>1 DEF NewTree, SettledTree, Linked
    <3>3. new[u] \in heap.live
      BY <1>1, <2>2 DEF NewTree, Stored
    <3>4. \A p \in heap.live : /\ heap.left[p] = n <=> p = new[u] /\ j = 1
                               /\ heap.right[p] = n <=> p = new[u] /\ j = 2
      <4> SUFFICES ASSUME NEW p \in heap.live
                   PROVE  /\ heap.left[p] = n <=> p = new[u] /\ j = 1
                          /\ heap.right[p] = n <=> p = new[u] /\ j = 2
        OBVIOUS
      <4>1. ASSUME heap.left[p] = n PROVE p = new[u] /\ j = 1
        <5>1. PICK w \in Settled(new, place) : p = new[w] /\ v = 2 * w + 1
          BY <1>5, <4>1
        <5>2. w \in Nat
          BY DEF Settled
        <5>3. w = u /\ 1 = j
          BY <2>3, <5>1, <5>2
        <5> QED BY <5>1, <5>3
      <4>2. ASSUME heap.right[p] = n PROVE p = new[u] /\ j = 2
        <5>1. PICK w \in Settled(new, place) : p = new[w] /\ v = 2 * w + 2
          BY <1>5, <4>2
        <5>2. w \in Nat
          BY DEF Settled
        <5>3. w = u /\ 2 = j
          BY <2>3, <5>1, <5>2
        <5> QED BY <5>1, <5>3
      <4> QED BY <2>1, <3>2, <4>1, <4>2
    <3>5. RefsFrom(heap, heap.live, n) = 1
      <4> HIDE DEF n
      <4> QED BY <3>3, <3>4, RefsOne
    <3>6. F = {}
      BY <1>3, <3>2 DEF Settled
    <3>7. K = {}
      <4>1. ASSUME NEW k \in 1..Len(stack), NEW l \in 1..2, l <= Len(stack[k].kids)
            PROVE  stack[k].kids[l] # n
        <5>1. place[k] \in Nat /\ (stack[k].kids[l] = n => v = 2 * place[k] + l)
          BY <1>3, <4>1
        <5> QED BY <2>3, <2>5, <5>1
      <4> QED BY <4>1
    <3>8. Cardinality(F) + Cardinality(K) + Cardinality(M) = 0
      <4> HIDE DEF F, K, M
      <4>1. Cardinality(F) = 0 /\ Cardinality(K) = 0 /\ Cardinality(M) = 0
        BY <1>6, <2>4, <3>6, <3>7
      <4> QED BY <4>1
    <3> QED BY <1>7, <3>5, <3>8
  <2>6. CASE \E k \in 1..Len(stack) : place[k] = u
    <3>1. PICK k \in 1..Len(stack) : place[k] = u
      BY <2>6
    <3>2. \A l \in 1..Len(stack) : place[l] = u => l = k
      BY <1>1, <3>1, LevelsApart
    <3>3. FrameAt(old, new, place, k)
      BY <1>1 DEF NewTree
    <3>4. RefsFrom(heap, heap.live, n) = 0
      <4>1. ASSUME NEW p \in heap.live PROVE heap.left[p] # n /\ heap.right[p] # n
        <5> SUFFICES ASSUME heap.left[p] = n \/ heap.right[p] = n PROVE FALSE
          OBVIOUS
        <5>1. PICK w \in Settled(new, place) : v = 2 * w + 1 \/ v = 2 * w + 2
          BY <1>5
        <5>2. w \in Nat /\ \A l \in 1..Len(stack) : place[l] # w
          BY DEF Settled
        <5>3. 1 \in 1..2 /\ 2 \in 1..2
          OBVIOUS
        <5>4. w = u
          BY <2>3, <5>1, <5>2, <5>3
        <5> QED BY <3>1, <5>2, <5>4
      <4> HIDE DEF n
      <4> QED BY <4>1, RefsNone
    <3>5. stack # <<>> /\ Kids(k) \in Nat /\ Kids(k) = Len(stack[k].kids)
      <4>1. Len(stack) \in Nat /\ (stack # <<>> <=> Len(stack) > 0) /\ Kids(k) \in Nat
        BY StackTyped
      <4>2. Len(stack) > 0
        BY <4>1
      <4> QED BY <4>1, <4>2 DEF Kids
    <3>6. j <= Kids(k) \/ (k < Len(stack) /\ j = Kids(k) + 1)
      BY <1>1, <2>1, <3>1 DEF NewTree, Reached
    <3>7. CASE j <= Kids(k)
      <4>1. v \in Settled(new, place)
        <5>1. j \in 1..Kids(k)
          BY <3>5, <3>7
        <5> QED BY <2>1, <2>2, <3>1, <3>3, <5>1 DEF FrameAt
      <4>2. F = {}
        BY <1>3, <4>1 DEF Settled
      <4>3. K = {<<k, j>>}
        <5>1. j \in 1..2
          OBVIOUS
        <5>2. stack[k].kids[j] = n /\ j <= Len(stack[k].kids)
          BY <1>3, <2>1, <3>1, <3>5, <3>7, <5>1
        <5>3. ASSUME NEW m \in 1..Len(stack), NEW l \in 1..2, l <= Len(stack[m].kids),
                     stack[m].kids[l] = n
              PROVE  m = k /\ l = j
          <6>1. place[m] \in Nat /\ v = 2 * place[m] + l
            BY <1>3, <5>3
          <6>2. place[m] = u /\ l = j
            BY <2>3, <6>1
          <6> QED BY <3>2, <6>2
        <5>4. <<k, j>> \in K
          BY <5>1, <5>2
        <5>5. ASSUME NEW p \in K PROVE p = <<k, j>>
          <6>1. PICK m \in 1..Len(stack), l \in 1..2 : p = <<m, l>>
            OBVIOUS
          <6>2. l <= Len(stack[m].kids) /\ stack[m].kids[l] = n
            BY <6>1
          <6> QED BY <5>3, <6>1, <6>2
        <5> QED BY <5>4, <5>5
      <4>4. Cardinality(F) + Cardinality(K) + Cardinality(M) = 1
        <5> HIDE DEF F, K, M
        <5>1. Cardinality(F) = 0 /\ Cardinality(K) = 1 /\ Cardinality(M) = 0
          BY <1>6, <2>4, <4>2, <4>3
        <5> QED BY <5>1
      <4> QED BY <1>7, <3>4, <4>4
    <3>8. CASE k < Len(stack) /\ j = Kids(k) + 1
      <4>1. k + 1 \in 1..Len(stack)
        <5>1. k \in Nat /\ Len(stack) \in Nat
          BY StackTyped
        <5> QED BY <3>8, <5>1
      <4>2. place[k + 1] = v
        <5>1. place[k + 1] = 2 * u + 1 + Kids(k)
          BY <3>1, <3>3, <3>8 DEF FrameAt
        <5>2. PICK l \in Nat : l = Kids(k)
          BY <3>5
        <5>3. 2 * u + 1 + l = 2 * u + (l + 1)
          OBVIOUS
        <5> QED BY <2>1, <3>8, <5>1, <5>2, <5>3
      <4>3. F = {k + 1}
        <5>1. \A l \in 1..Len(stack) : place[l] = v => l = k + 1
          <6> SUFFICES ASSUME NEW l \in 1..Len(stack), place[l] = v PROVE l = k + 1
            OBVIOUS
          <6>1. NewTree(old, new, place) /\ place[l] = place[k + 1]
            BY <1>1, <4>2
          <6>2. PICK m \in 1..Len(stack) : m = k + 1
            BY <4>1
          <6> QED BY <6>1, <6>2, LevelsApart
        <5> QED BY <1>3, <4>1, <4>2, <5>1
      <4>4. K = {}
        <5>1. ASSUME NEW m \in 1..Len(stack), NEW l \in 1..2, l <= Len(stack[m].kids)
              PROVE  stack[m].kids[l] # n
          <6> SUFFICES ASSUME stack[m].kids[l] = n PROVE FALSE
            OBVIOUS
          <6>1. place[m] \in Nat /\ v = 2 * place[m] + l
            BY <1>3, <5>1
          <6>2. place[m] = u /\ l = j
            BY <2>3, <6>1
          <6>3. m = k
            BY <3>2, <6>2
          <6>4. j <= Kids(k)
            BY <3>5, <5>1, <6>2, <6>3
          <6>5. PICK c \in Nat : c = Kids(k)
            BY <3>5
          <6>6. j <= c /\ j = c + 1
            BY <3>8, <6>4, <6>5
          <6> QED BY <6>6
        <5> QED BY <5>1
      <4>5. Cardinality(F) + Cardinality(K) + Cardinality(M) = 1
        <5> HIDE DEF F, K, M
        <5>1. Cardinality(F) = 1 /\ Cardinality(K) = 0 /\ Cardinality(M) = 0
          BY <1>6, <2>4, <4>3, <4>4
        <5> QED BY <5>1
      <4> QED BY <1>7, <3>4, <4>5
    <3> QED BY <3>6, <3>7, <3>8
  <2> QED BY <2>5, <2>6
<1> QED BY <1>9, <1>10

\* Theorem: where the benchmark counts by hand (TRANSFER_REF, DECREF) the count of every node is
\* the number of fields and locals that own it.
THEOREM CountsExact == Spec => []RcExact
<1>1. ASSUME Typed, HeapInv PROVE RcExact
  <2> SUFFICES ASSUME rt = "Rc", NEW n \in heap.live
               PROVE  heap.rc[n] = RefsFrom(heap, heap.live, n) + Owners(n)
    BY DEF RcExact
  <2>1. PICK old \in Tree, new \in Tree, place \in [Nat -> Nat] : Ghost(old, new, place)
    BY <1>1 DEF HeapInv
  <2>2. heap.rc[n] = 1 /\ \E v \in Nat : n = old[v] \/ n = new[v]
    BY <2>1 DEF Ghost, CountsOne, Exact
  <2>3. n # Null
    BY <1>1, HeapTyped, AddressesEnough DEF Typed
  <2>4. PICK v \in Nat : n = old[v] \/ n = new[v]
    BY <2>2
  <2>5. CASE n = old[v]
    BY <1>1, <2>1, <2>2, <2>3, <2>5, OldHeldOnce
  <2>6. CASE n = new[v]
    BY <1>1, <2>1, <2>2, <2>3, <2>6, NewHeldOnce
  <2> QED BY <2>4, <2>5, <2>6
<1> QED BY <1>1, HeapCorrect, PTL

===============================================================================
