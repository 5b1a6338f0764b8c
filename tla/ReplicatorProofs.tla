-------------------------- MODULE ReplicatorProofs --------------------------
(***************************************************************************)
(* Proofs about OscFilter and Replicator, for every set of objects and of  *)
(* change files, any lag of the public Overpass and any number of faults.  *)
(***************************************************************************)
EXTENDS Replicator, FiniteSetTheorems, SequenceTheorems, WellFoundedInduction, TLAPS

-----------------------------------------------------------------------------
(* Finite sets of numbers.                                                 *)

LEMMA FirstInSet ==
  ASSUME NEW S \in SUBSET Nat, S # {}
  PROVE  \E m \in S : \A t \in S : m <= t
<1>1. PICK x \in S : \A y \in S : ~(<<y, x>> \in OpToRel(<, Nat))
  BY NatLessThanWellFounded, WFMin, Zenon
<1>2. ASSUME NEW t \in S PROVE x <= t
  <2>1. ~(t < x)
    BY <1>1 DEF OpToRel
  <2> QED
    BY <2>1
<1> QED
  BY <1>2

(* What holds of the empty set, and of a set if it does without any one of *)
(* its elements, holds of every finite set.                                *)
LEMMA SetInduction ==
  ASSUME NEW S, IsFiniteSet(S), NEW G, {} \in G,
         \A T \in SUBSET S : T # {} /\ (\A x \in T : T \ {x} \in G) => T \in G
  PROVE  SUBSET S \subseteq G
<1> DEFINE Bad == {T \in SUBSET S : T \notin G}
           Sizes == {Cardinality(T) : T \in Bad}
<1>1. \A T \in SUBSET S : IsFiniteSet(T) /\ Cardinality(T) \in Nat
  BY FS_Subset, FS_CardinalityType
<1>2. Bad = {}
  <2> SUFFICES ASSUME Bad # {} PROVE FALSE
    OBVIOUS
  <2>1. Sizes \in SUBSET Nat /\ Sizes # {}
    BY <1>1
  <2> HIDE DEF Sizes
  <2>2. PICK n \in Sizes : \A k \in Sizes : n <= k
    BY <2>1, FirstInSet
  <2> USE DEF Sizes
  <2>3. PICK T \in Bad : Cardinality(T) = n
    OBVIOUS
  <2>4. ASSUME NEW x \in T PROVE T \ {x} \in G
    <3>1. Cardinality(T \ {x}) = Cardinality(T) - 1
      BY <1>1, FS_RemoveElement
    <3>2. ~(n <= Cardinality(T \ {x}))
      BY <1>1, <2>3, <3>1
    <3>3. T \ {x} \notin Bad
      BY <2>2, <3>2
    <3> QED
      BY <3>3
  <2> QED
    BY <2>3, <2>4
<1> QED
  BY <1>2

LEMMA MaxInSet ==
  ASSUME NEW S \in SUBSET Nat, IsFiniteSet(S), S # {}
  PROVE  Max(S) \in S /\ \A s \in S : s <= Max(S)
<1> DEFINE G == {T \in SUBSET S : T = {} \/ \E m \in T : \A t \in T : t <= m}
<1>1. ASSUME NEW T \in SUBSET S, T # {}, \A x \in T : T \ {x} \in G
      PROVE  T \in G
  <2>1. PICK x \in T : T \ {x} \in G
    BY <1>1
  <2>2. CASE T \ {x} = {}
    BY <2>2
  <2>3. CASE T \ {x} # {}
    <3>1. PICK m \in T \ {x} : \A t \in T \ {x} : t <= m
      BY <2>1, <2>3
    <3>2. CASE x <= m
      BY <3>1, <3>2
    <3>3. CASE ~(x <= m)
      <4>1. \A t \in T : t <= x
        BY <3>1, <3>3
      <4> QED
        BY <4>1
    <3> QED
      BY <3>2, <3>3
  <2> QED
    BY <2>2, <2>3
<1>2. SUBSET S \subseteq G
  <2> HIDE DEF G
  <2>1. {} \in G
    BY DEF G
  <2> QED
    BY <1>1, <2>1, SetInduction
<1>3. PICK m \in S : \A s \in S : s <= m
  BY <1>2
<1>4. \E x \in S : \A y \in S : x >= y
  BY <1>3
<1> QED
  BY <1>4 DEF Max

(* The same from the greatest element on.                                  *)
LEMMA SortedInduction ==
  ASSUME NEW S \in SUBSET Nat, IsFiniteSet(S), NEW G, {} \in G,
         \A T \in SUBSET S : T # {} /\ T \ {Max(T)} \in G => T \in G
  PROVE  SUBSET S \subseteq G
<1>1. ASSUME NEW T \in SUBSET S, T # {}, \A x \in T : T \ {x} \in G
      PROVE  T \in G
  <2>1. Max(T) \in T
    BY <1>1, FS_Subset, MaxInSet
  <2> QED
    BY <1>1, <2>1
<1> QED
  BY <1>1, SetInduction

(* Every finite set of numbers can be sorted.                              *)
LEMMA InOrderSorts ==
  ASSUME NEW S \in SUBSET Nat, IsFiniteSet(S)
  PROVE  /\ Cardinality(S) \in Nat
         /\ InOrder(S) \in [1 .. Cardinality(S) -> S]
         /\ \A i, j \in 1 .. Cardinality(S) : i < j => InOrder(S)[i] < InOrder(S)[j]
<1> DEFINE Sorts(q, T) ==
             \A i, j \in 1 .. Cardinality(T) : i < j => q[i] < q[j]
           G == {T \in SUBSET S : \E q \in [1 .. Cardinality(T) -> T] : Sorts(q, T)}
<1>1. \A T \in SUBSET S : IsFiniteSet(T) /\ Cardinality(T) \in Nat
  BY FS_Subset, FS_CardinalityType
<1>2. {} \in G
  <2> DEFINE q == [i \in {} |-> 0]
  <2>1. Cardinality({}) = 0 /\ 1 .. 0 = {}
    BY FS_EmptySet
  <2>2. q \in [1 .. Cardinality({}) -> {}] /\ Sorts(q, {})
    BY <2>1
  <2> QED
    BY <2>2
<1>3. ASSUME NEW T \in SUBSET S, T # {}, T \ {Max(T)} \in G
      PROVE  T \in G
  <2> DEFINE m == Max(T)
             R == T \ {m}
             n == Cardinality(T)
  <2>1. m \in T /\ \A t \in T : t <= m
    BY <1>1, <1>3, MaxInSet
  <2>2. Cardinality(R) = n - 1 /\ n \in Nat /\ n - 1 \in Nat
    BY <1>1, <2>1, FS_RemoveElement
  <2>3. PICK q \in [1 .. (n - 1) -> R] :
          \A i, j \in 1 .. (n - 1) : i < j => q[i] < q[j]
    BY <1>3, <2>2
  <2> HIDE DEF m, n
  <2> DEFINE p == [i \in 1 .. n |-> IF i = n THEN m ELSE q[i]]
  <2>4. \A i \in 1 .. n : i = n \/ i \in 1 .. (n - 1)
    BY <2>2
  <2>5. p \in [1 .. n -> T]
    BY <2>1, <2>3, <2>4
  <2>6. ASSUME NEW i \in 1 .. n, NEW j \in 1 .. n, i < j PROVE p[i] < p[j]
    <3>1. i \in 1 .. (n - 1) /\ p[i] = q[i] /\ q[i] \in R
      BY <2>2, <2>3, <2>6
    <3>2. CASE j = n
      <4>1. q[i] <= m /\ q[i] # m /\ q[i] \in Nat /\ m \in Nat
        BY <2>1, <3>1
      <4> QED
        BY <3>1, <3>2, <4>1
    <3>3. CASE j # n
      BY <2>3, <2>4, <2>6, <3>1, <3>3
    <3> QED
      BY <3>2, <3>3
  <2> QED
    BY <2>5, <2>6 DEF n
<1>4. SUBSET S \subseteq G
  <2> HIDE DEF G
  <2> QED
    BY <1>2, <1>3, SortedInduction
<1>5. \E q \in [1 .. Cardinality(S) -> S] : Sorts(q, S)
  BY <1>4
<1> QED
  BY <1>1, <1>5 DEF InOrder

-----------------------------------------------------------------------------
(* The filter of one file.                                                 *)

Recursion(f, S, start, after) ==
  f = [T \in SUBSET S |->
         IF T = {} THEN start
         ELSE FilterElement(f[T \ {Max(T)}], Max(T), after[Max(T)])]

LEMMA RecursionExists ==
  ASSUME NEW S \in SUBSET Nat, IsFiniteSet(S), NEW start, NEW after
  PROVE  \E f : Recursion(f, S, start, after)
<1> DEFINE G == {D \in SUBSET S : \E f : Recursion(f, D, start, after)}
           Step(f, T) == IF T = {} THEN start
                         ELSE FilterElement(f[T \ {Max(T)}], Max(T), after[Max(T)])
<1>1. {} \in G
  <2> DEFINE f == [T \in SUBSET {} |-> start]
  <2>1. f = [T \in SUBSET {} |-> Step(f, T)]
    OBVIOUS
  <2>2. Recursion(f, {}, start, after)
    BY <2>1 DEF Recursion
  <2> QED
    BY <2>2
<1>2. ASSUME NEW D \in SUBSET S, D # {}, D \ {Max(D)} \in G
      PROVE  D \in G
  <2> DEFINE R == D \ {Max(D)}
  <2>1. PICK g : Recursion(g, R, start, after)
    BY <1>2
  <2>2. g = [T \in SUBSET R |-> Step(g, T)]
    BY <2>1 DEF Recursion
  <2> DEFINE f == [T \in SUBSET D |-> Step(g, T)]
  <2>3. ASSUME NEW T \in SUBSET D, T # {}
        PROVE  T \ {Max(T)} \in SUBSET R
    <3>1. /\ Max(T) \in T /\ \A t \in T : t <= Max(T)
          /\ Max(D) \in D /\ \A t \in D : t <= Max(D)
      BY <1>2, <2>3, FS_Subset, MaxInSet
    <3>2. Max(T) \in Nat /\ Max(D) \in Nat /\ Max(T) \in D
      BY <2>3, <3>1
    <3> HIDE DEF R
    <3>3. Max(D) \in T => Max(T) = Max(D)
      BY <3>1, <3>2
    <3> USE DEF R
    <3> QED
      BY <3>1, <3>3
  <2>4. ASSUME NEW T \in SUBSET R PROVE f[T] = g[T]
    <3>1. T \in SUBSET D
      OBVIOUS
    <3> HIDE DEF Step
    <3>2. g[T] = Step(g, T)
      <4> HIDE DEF R
      <4> QED
        BY <2>2
    <3>3. f[T] = Step(g, T)
      BY <3>1
    <3> QED
      BY <3>2, <3>3
  <2>5. ASSUME NEW T \in SUBSET D PROVE Step(g, T) = Step(f, T)
    BY <2>3, <2>4
  <2>6. f = [T \in SUBSET D |-> Step(f, T)]
    <3> HIDE DEF Step
    <3> QED
      BY <2>5
  <2>7. Recursion(f, D, start, after)
    BY <2>6 DEF Recursion
  <2> QED
    BY <2>7
<1>3. SUBSET S \subseteq G
  <2> HIDE DEF G
  <2> QED
    BY <1>1, <1>2, SortedInduction
<1> QED
  BY <1>3

(* What relates nothing to the start, and keeps relating when the next     *)
(* element is filtered, relates the file to the end.                       *)
LEMMA FilterRelates ==
  ASSUME NEW S \in SUBSET Nat, IsFiniteSet(S), NEW start, NEW after,
         NEW G, <<{}, start>> \in G,
         \A T \in SUBSET S : \A o \in S \ T : \A s :
           <<T, s>> \in G => <<T \cup {o}, FilterElement(s, o, after[o])>> \in G
  PROVE  <<S, FilterElements(start, S, after)>> \in G
<1> DEFINE f == CHOOSE f : Recursion(f, S, start, after)
<1>1. FilterElements(start, S, after) = f[S]
  BY DEF FilterElements, MapThenFoldSet, Recursion
<1>2. Recursion(f, S, start, after)
  BY RecursionExists
<1> HIDE DEF f
<1> DEFINE Good == {T \in SUBSET S : <<T, f[T]>> \in G}
<1>3. f[{}] = start
  BY <1>2 DEF Recursion
<1>4. ASSUME NEW T \in SUBSET S, T # {}, T \ {Max(T)} \in Good
      PROVE  T \in Good
  <2>1. Max(T) \in T
    BY <1>4, FS_Subset, MaxInSet
  <2>2. f[T] = FilterElement(f[T \ {Max(T)}], Max(T), after[Max(T)])
    BY <1>2, <1>4 DEF Recursion
  <2>3. (T \ {Max(T)}) \cup {Max(T)} = T
    BY <2>1
  <2>4. <<(T \ {Max(T)}) \cup {Max(T)}, f[T]>> \in G
    BY <1>4, <2>1, <2>2
  <2> QED
    BY <2>3, <2>4
<1>5. SUBSET S \subseteq Good
  <2> HIDE DEF Good
  <2>1. {} \in Good
    BY <1>3 DEF Good
  <2> QED
    BY <1>4, <2>1, SortedInduction
<1> QED
  BY <1>1, <1>5

(* A reachable set holds what it starts from.                              *)
LEMMA ReachContains ==
  ASSUME NEW refs \in Graph, NEW S \in SUBSET Object
  PROVE  Reach[refs][S] \in SUBSET Object /\ S \subseteq Reach[refs][S]
BY DEF Reach

LEMMA PromoteKeeps ==
  ASSUME NEW m \in Membership, NEW o \in Object
  PROVE  /\ Promote(m, o) \in Membership
         /\ Promote(m, o).roots = m.roots
         /\ m.deps \subseteq Promote(m, o).deps
<1>1. m.refs \in Graph /\ m.deps \in SUBSET Object
  BY DEF Membership
<1>2. Reach[m.refs][{o}] \in SUBSET Object
  <2> DEFINE S == {o}
  <2>1. S \in SUBSET Object
    OBVIOUS
  <2> HIDE DEF S
  <2>2. Reach[m.refs][S] \in SUBSET Object
    BY <1>1, <2>1, ReachContains
  <2> QED
    BY <2>2 DEF S
<1>3. UNION {m.refs[p] : p \in Reach[m.refs][{o}]} \in SUBSET Object
  BY <1>1, <1>2 DEF Graph
<1> QED
  BY <1>1, <1>3 DEF Promote, Membership

LEMMA SerializedKeeps ==
  ASSUME NEW m \in Membership
  PROVE  /\ Serialized(m) \in Membership
         /\ Serialized(m).roots = m.roots
         /\ Serialized(m).deps = m.deps
BY DEF Serialized, Membership, Graph

LEMMA ForgetKeeps ==
  ASSUME NEW m \in Membership, NEW o \in Object
  PROVE  /\ Forget(m, o) \in Membership
         /\ Forget(m, o).roots = m.roots \ {o}
         /\ Forget(m, o).deps = m.deps \ {o}
BY DEF Forget, Membership, Graph

(* What the filter has made of the objects of T, starting from m with the  *)
(* included dependencies: it announces the tagged ones, removes the others *)
(* from the roots, accounts for every known root and emits every known     *)
(* dependency; new dependencies come with something emitted.               *)
Filtered(m, include, after, T, s) ==
  /\ s \in Pass
  /\ s.added = T \cap Tagged(after)
  /\ s.put \subseteq T \cap Exists(after)
  /\ s.drop \subseteq T \ Tagged(after)
  /\ s.m.roots = (m.roots \ T) \cup (T \cap Tagged(after))
  /\ T \cap m.roots \subseteq s.put \cup s.drop
  /\ (m.deps \cup include) \cap T \cap Exists(after) \subseteq s.put
  /\ (m.deps \cup include) \ T \subseteq s.m.deps
  /\ s.put = {} => s.m.deps \subseteq m.deps \cup include

LEMMA FilterElementRelates ==
  ASSUME NEW m \in Membership, NEW include \in SUBSET Object, NEW after \in World,
         NEW T \in SUBSET Object, NEW o \in Object \ T, NEW s,
         Filtered(m, include, after, T, s)
  PROVE  Filtered(m, include, after, T \cup {o}, FilterElement(s, o, after[o]))
<1> DEFINE data == after[o]
           t == FilterElement(s, o, data)
           U == T \cup {o}
<1> SUFFICES Filtered(m, include, after, U, t)
  OBVIOUS
<1>1. /\ s \in Pass /\ s.m \in Membership
      /\ s.put \in SUBSET Object /\ s.drop \in SUBSET Object /\ s.added \in SUBSET Object
      /\ s.m.refs \in Graph /\ s.m.roots \in SUBSET Object /\ s.m.deps \in SUBSET Object
  BY DEF Filtered, Pass, Membership
<1>2. CASE data = None
  <2>1. t = [s EXCEPT !.m = Forget(s.m, o),
                      !.drop = IF o \in Retained(s.m) THEN s.drop \cup {o} ELSE s.drop]
    BY <1>2 DEF FilterElement, FilterDeleted
  <2> DEFINE drop == IF o \in Retained(s.m) THEN s.drop \cup {o} ELSE s.drop
  <2>2. /\ t.m = Forget(s.m, o) /\ t.drop = drop
        /\ t.put = s.put /\ t.added = s.added
    BY <1>1, <2>1 DEF Pass
  <2>3. t \in Pass
    <3>1. Forget(s.m, o) \in Membership /\ drop \in SUBSET Object
      BY <1>1, ForgetKeeps
    <3> QED
      BY <1>1, <2>1, <3>1 DEF Pass
  <2>4. /\ t.m.roots = s.m.roots \ {o} /\ t.m.deps = s.m.deps \ {o}
    BY <1>1, <2>2, ForgetKeeps
  <2>5. o \notin Exists(after) /\ o \notin Tagged(after)
    BY <1>2 DEF Exists, Tagged
  <2> HIDE DEF t, data
  <2>6. o \in m.roots => o \in Retained(s.m)
    BY DEF Filtered, Retained
  <2> QED
    BY <2>2, <2>3, <2>4, <2>5, <2>6 DEF Filtered
<1>3. CASE data # None
  <2>1. data \in Data /\ o \in Exists(after) /\ data.refs \in SUBSET Object
    BY <1>3 DEF World, Exists, Data
  <2>2. o \in Tagged(after) <=> data.tagged
    BY <2>1 DEF Tagged
  <2>3. CASE data.tagged
    <3> DEFINE r == [s.m EXCEPT !.roots = @ \cup {o}, !.refs[o] = data.refs]
    <3>1. /\ r \in Membership /\ r.roots = s.m.roots \cup {o}
          /\ r.deps = s.m.deps
      BY <1>1, <2>1 DEF Membership, Graph
    <3>2. t = [s EXCEPT !.put = @ \cup {o}, !.added = @ \cup {o}, !.m = Promote(r, o)]
      BY <1>3, <2>3 DEF FilterElement, FilterRoot
    <3> HIDE DEF r
    <3>3. /\ t.m = Promote(r, o) /\ t.drop = s.drop
          /\ t.put = s.put \cup {o} /\ t.added = s.added \cup {o}
      BY <1>1, <3>2 DEF Pass
    <3>4. t \in Pass
      <4>1. Promote(r, o) \in Membership
        BY <3>1, PromoteKeeps
      <4> QED
        BY <1>1, <3>3, <3>2, <4>1 DEF Pass
    <3>5. t.m.roots = s.m.roots \cup {o} /\ s.m.deps \subseteq t.m.deps
      BY <3>1, <3>3, PromoteKeeps
    <3> HIDE DEF t, data
    <3> QED
      BY <2>1, <2>2, <2>3, <3>3, <3>4, <3>5 DEF Filtered
  <2>4. CASE ~data.tagged /\ o \in s.m.deps
    <3> DEFINE r == [s.m EXCEPT !.roots = @ \ {o}, !.refs[o] = data.refs]
    <3>1. /\ r \in Membership /\ r.roots = s.m.roots \ {o}
          /\ r.deps = s.m.deps
      BY <1>1, <2>1 DEF Membership, Graph
    <3>2. t = [s EXCEPT !.put = @ \cup {o}, !.m = Promote(r, o)]
      BY <1>3, <2>4 DEF FilterElement, FilterDependency
    <3> HIDE DEF r
    <3>3. /\ t.m = Promote(r, o) /\ t.drop = s.drop
          /\ t.put = s.put \cup {o} /\ t.added = s.added
      BY <1>1, <3>2 DEF Pass
    <3>4. t \in Pass
      <4>1. Promote(r, o) \in Membership
        BY <3>1, PromoteKeeps
      <4> QED
        BY <1>1, <3>2, <4>1 DEF Pass
    <3>5. t.m.roots = s.m.roots \ {o} /\ s.m.deps \subseteq t.m.deps
      BY <3>1, <3>3, PromoteKeeps
    <3> HIDE DEF t, data
    <3> QED
      BY <2>1, <2>2, <2>4, <3>3, <3>4, <3>5 DEF Filtered
  <2>5. CASE ~data.tagged /\ o \notin s.m.deps /\ o \in s.m.roots
    <3>1. t = [s EXCEPT !.drop = @ \cup {o}, !.m = Forget(s.m, o)]
      BY <1>3, <2>5 DEF FilterElement, FilterUntagged
    <3>2. /\ t.m = Forget(s.m, o) /\ t.drop = s.drop \cup {o}
          /\ t.put = s.put /\ t.added = s.added
      BY <1>1, <3>1 DEF Pass
    <3>3. t \in Pass
      <4>1. Forget(s.m, o) \in Membership
        BY <1>1, ForgetKeeps
      <4> QED
        BY <1>1, <3>1, <4>1 DEF Pass
    <3>4. t.m.roots = s.m.roots \ {o} /\ t.m.deps = s.m.deps \ {o}
      BY <1>1, <3>2, ForgetKeeps
    <3> HIDE DEF t, data
    <3> QED
      BY <2>1, <2>2, <2>5, <3>2, <3>3, <3>4 DEF Filtered
  <2>6. CASE ~data.tagged /\ o \notin s.m.deps /\ o \notin s.m.roots
    <3>1. t = s
      BY <1>3, <2>6 DEF FilterElement
    <3> HIDE DEF t, data
    <3> QED
      BY <2>1, <2>2, <2>6, <3>1 DEF Filtered
  <2> QED
    BY <2>3, <2>4, <2>5, <2>6
<1> QED
  BY <1>2, <1>3

LEMMA FilterPassRelates ==
  ASSUME NEW m \in Membership, NEW changed \in SUBSET Object, NEW after \in World,
         NEW include \in SUBSET Object
  PROVE  Filtered(m, include, after, changed, FilterPass(m, changed, after, include))
<1> DEFINE start == [m |-> [m EXCEPT !.deps = @ \cup include],
                     put |-> {}, drop |-> {}, added |-> {}]
           end == FilterElements(start, changed, after)
           G == {p \in (SUBSET Object) \X Pass : Filtered(m, include, after, p[1], p[2])}
<1>1. changed \in SUBSET Nat /\ IsFiniteSet(changed)
  BY OscFilterAssumption, FS_Subset
<1>2. <<{}, start>> \in G
  <2>1. start \in Pass /\ start.m.roots = m.roots /\ start.m.deps = m.deps \cup include
    BY DEF Pass, Membership
  <2>2. Filtered(m, include, after, {}, start)
    BY <2>1 DEF Filtered
  <2> QED
    BY <2>1, <2>2
<1>3. ASSUME NEW T \in SUBSET changed, NEW o \in changed \ T, NEW s, <<T, s>> \in G
      PROVE  <<T \cup {o}, FilterElement(s, o, after[o])>> \in G
  <2>1. Filtered(m, include, after, T, s)
    BY <1>3
  <2>2. Filtered(m, include, after, T \cup {o}, FilterElement(s, o, after[o]))
    BY <2>1, FilterElementRelates
  <2>3. FilterElement(s, o, after[o]) \in Pass
    BY <2>2 DEF Filtered
  <2> QED
    BY <2>2, <2>3
<1>4. <<changed, end>> \in G
  <2> HIDE DEF G, start
  <2> QED
    BY <1>1, <1>2, <1>3, FilterRelates
<1> HIDE DEF end
<1>5. Filtered(m, include, after, changed, end)
  BY <1>4
<1>6. FilterPass(m, changed, after, include) = [end EXCEPT !.m = Serialized(end.m)]
  BY DEF FilterPass, end
<1>7. end \in Pass /\ end.m \in Membership
  BY <1>5 DEF Filtered, Pass
<1> DEFINE s == [end EXCEPT !.m = Serialized(end.m)]
<1>8. /\ s \in Pass /\ s.put = end.put /\ s.drop = end.drop /\ s.added = end.added
      /\ s.m.roots = end.m.roots /\ s.m.deps = end.m.deps
  BY <1>7, SerializedKeeps DEF Pass
<1> HIDE DEF s
<1>9. Filtered(m, include, after, changed, s)
  BY <1>5, <1>8 DEF Filtered
<1> QED
  BY <1>6, <1>9 DEF s

-----------------------------------------------------------------------------
(* The public Overpass, and the initial import.                            *)

LEMMA GraphsOfWorlds ==
  ASSUME NEW world \in World
  PROVE  /\ Exists(world) \in SUBSET Object /\ Tagged(world) \in SUBSET Exists(world)
         /\ RefsOf(world) \in Graph /\ Dependents(RefsOf(world)) \in Graph
         /\ \A o \in Exists(world) : world[o] \in Data /\ world[o].refs = RefsOf(world)[o]
BY DEF World, Data, Exists, Tagged, RefsOf, Dependents, Graph

LEMMA AnswerFinds ==
  ASSUME NEW world \in World, NEW o \in Exists(world)
  PROVE  Answer(world, o) \in SUBSET Exists(world) /\ o \in Answer(world, o)
<1> DEFINE refs == RefsOf(world)
           S == {o}
<1>1. refs \in Graph /\ Dependents(refs) \in Graph /\ o \in Object
  BY GraphsOfWorlds
<1>2. S \in SUBSET Object /\ o \in S
  BY <1>1
<1> HIDE DEF S, refs
<1>3. Reach[refs][S] \in SUBSET Object /\ o \in Reach[refs][S]
  BY <1>1, <1>2, ReachContains
<1> DEFINE A == Reach[Dependents(refs)][Reach[refs][S]]
<1>4. A \in SUBSET Object /\ o \in A
  BY <1>1, <1>3, ReachContains
<1> HIDE DEF A
<1>5. o \in Reach[refs][A]
  BY <1>1, <1>4, ReachContains
<1> USE DEF A, S, refs
<1>6. Answer(world, o) = Reach[refs][A] \cap Exists(world)
  BY DEF Answer
<1> QED
  BY <1>5, <1>6

LEMMA MergeKeeps ==
  ASSUME NEW world \in World, NEW o \in Exists(world), NEW m \in Membership
  PROVE  MergeAnswer(m, o, world) \in Membership /\ MergeAnswer(m, o, world).roots = m.roots \cup {o}
<1> DEFINE objects == Answer(world, o)
           roots == m.roots \cup {o}
           deps == m.deps \cup (objects \ {o})
           refs == [p \in Object |-> IF p \in objects THEN world[p].refs ELSE m.refs[p]]
           r == [roots |-> roots, deps |-> deps \ roots, refs |-> refs]
<1>1. objects \in SUBSET Exists(world)
  BY AnswerFinds
<1> HIDE DEF objects
<1>2. o \in Object /\ Exists(world) \in SUBSET Object
      /\ \A p \in Exists(world) : world[p].refs \in SUBSET Object
  BY GraphsOfWorlds DEF Data
<1>3. refs \in Graph
  BY <1>1, <1>2 DEF Graph, Membership
<1> HIDE DEF refs
<1>4. r \in Membership /\ r.roots = m.roots \cup {o}
  BY <1>1, <1>2, <1>3 DEF Membership
<1> HIDE DEF r
<1>5. MergeAnswer(m, o, world) = Serialized(r)
  BY DEF MergeAnswer, r, refs, objects
<1> QED
  BY <1>4, <1>5, SerializedKeeps

LEMMA NeededExists ==
  ASSUME NEW world \in World,
         \A o \in Exists(world) : world[o].refs \subseteq Exists(world)
  PROVE  Tagged(world) \subseteq Needed(world) /\ Needed(world) \subseteq Exists(world)
<1> DEFINE refs == RefsOf(world)
           S == Tagged(world)
           T == Exists(world)
<1>1. refs \in Graph /\ S \in SUBSET Object /\ T \in SUBSET Object /\ S \subseteq T
  BY GraphsOfWorlds
<1>2. ClosedUnder(refs, T)
  BY GraphsOfWorlds DEF ClosedUnder
<1>3. Needed(world) = Reach[refs][S]
  BY DEF Needed
<1> HIDE DEF refs, S, T
<1>4. Reach[refs][S] = {o \in Object : \A U \in SUBSET Object :
                          S \subseteq U /\ ClosedUnder(refs, U) => o \in U}
  BY <1>1 DEF Reach
<1>5. Reach[refs][S] \subseteq T
  BY <1>1, <1>2, <1>4
<1>6. S \subseteq Reach[refs][S]
  BY <1>1, ReachContains
<1> QED
  BY <1>3, <1>5, <1>6 DEF S, T

LEMMA BuildCatalogKeeps ==
  ASSUME NEW world \in World,
         \A o \in Exists(world) : world[o].refs \subseteq Exists(world)
  PROVE  BuildCatalog(world) \in Membership
<1>1. /\ Needed(world) \in SUBSET Object /\ Tagged(world) \in SUBSET Object
      /\ \A o \in Needed(world) : world[o].refs \in SUBSET Object
  BY NeededExists, GraphsOfWorlds DEF Data
<1> QED
  BY <1>1 DEF BuildCatalog, Membership, Graph

LEMMA UpsertKeeps ==
  ASSUME NEW d \in World, NEW world \in World, NEW objects \in SUBSET Exists(world)
  PROVE  /\ Upsert(d, world, objects) \in World
         /\ \A o \in Object : d[o] # None \/ o \in objects => Upsert(d, world, objects)[o] # None
BY DEF Upsert, World, Exists

LEMMA DeleteKeeps ==
  ASSUME NEW d \in World, NEW objects
  PROVE  /\ Delete(d, objects) \in World
         /\ \A o \in Object \ objects : Delete(d, objects)[o] = d[o]
BY DEF Delete, World

-----------------------------------------------------------------------------
(* The queue of the pool.                                                  *)

Distinct(q) == \A i, j \in DOMAIN q : q[i].root = q[j].root => i = j

LEMMA SubmitKeeps ==
  ASSUME TypeOK, NEW q \in Seq(Future), Distinct(q), Submit(q)
  PROVE  /\ queue' \in Seq(Future) /\ Distinct(queue')
         /\ \A n \in DOMAIN queue' :
              \/ n \in DOMAIN q /\ queue'[n] = q[n]
              \/ queue'[n].since = public /\ queue'[n].root \in catalog.roots
<1>1. CASE ~Pooled
  BY <1>1 DEF Submit
<1>2. CASE Pooled
  <2>1. PICK due \in SUBSET (catalog.roots \ {q[i].root : i \in DOMAIN q}) :
          queue' = q \o [i \in 1 .. Cardinality(due) |->
                          [root |-> InOrder(due)[i], since |-> public]]
    BY <1>2 DEF Submit, Schedule
  <2> DEFINE c == Cardinality(due)
             p == InOrder(due)
             new == [i \in 1 .. c |-> [root |-> p[i], since |-> public]]
  <2>2. due \in SUBSET Object /\ due \in SUBSET Nat /\ IsFiniteSet(due)
    BY OscFilterAssumption, FS_Subset DEF TypeOK, Membership
  <2>3. /\ c \in Nat /\ p \in [1 .. c -> due]
        /\ \A i, j \in 1 .. c : i < j => p[i] < p[j]
    BY <2>2, InOrderSorts
  <2> HIDE DEF p, c
  <2>4. public \in Index
    BY ReplicatorAssumption DEF TypeOK, Index
  <2>5. new \in Seq(Future) /\ Len(new) = c
    <3>1. new \in [1 .. c -> Future]
      BY <2>2, <2>3, <2>4 DEF Future
    <3> HIDE DEF new
    <3> QED
      BY <2>3, <3>1
  <2>6. \A i, j \in 1 .. c : p[i] = p[j] => i = j
    <3>1. ASSUME NEW i \in 1 .. c, NEW j \in 1 .. c, i < j PROVE p[i] # p[j]
      <4>1. p[i] < p[j] /\ p[i] \in Nat /\ p[j] \in Nat
        BY <2>2, <2>3, <3>1
      <4> QED
        BY <4>1
    <3> QED
      BY <2>3, <3>1
  <2>7. queue' = q \o new
    BY <2>1 DEF p, c
  <2> HIDE DEF new
  <2>8. /\ queue' \in Seq(Future) /\ Len(queue') = Len(q) + c
        /\ \A n \in 1 .. Len(q) : queue'[n] = q[n]
        /\ \A n \in Len(q) + 1 .. Len(q) + c : queue'[n] = new[n - Len(q)]
    <3> HIDE DEF Future
    <3>1. /\ q \o new \in Seq(Future) /\ Len(q \o new) = Len(q) + Len(new)
          /\ \A i \in 1 .. Len(q) + Len(new) :
               (q \o new)[i] = IF i <= Len(q) THEN q[i] ELSE new[i - Len(q)]
      BY <2>5, ConcatProperties
    <3>2. Len(q) \in Nat
      OBVIOUS
    <3>3. ASSUME NEW n \in 1 .. Len(q) PROVE queue'[n] = q[n]
      BY <2>3, <2>5, <2>7, <3>1, <3>2
    <3>4. ASSUME NEW n \in Len(q) + 1 .. Len(q) + c PROVE queue'[n] = new[n - Len(q)]
      <4>1. n \in 1 .. Len(q) + Len(new) /\ ~(n <= Len(q))
        BY <2>3, <2>5, <3>2
      <4> QED
        BY <2>7, <3>1, <4>1
    <3> QED
      BY <2>5, <2>7, <3>1, <3>3, <3>4
  <2>9. ASSUME NEW n \in DOMAIN queue'
        PROVE  \/ n \in DOMAIN q /\ queue'[n] = q[n]
               \/ /\ n - Len(q) \in 1 .. c
                  /\ queue'[n].root = p[n - Len(q)] /\ queue'[n].since = public
    <3>1. n \in 1 .. Len(q) \/ n \in Len(q) + 1 .. Len(q) + c
      BY <2>3, <2>8
    <3>2. CASE n \in 1 .. Len(q)
      BY <2>8, <3>2
    <3>3. CASE n \in Len(q) + 1 .. Len(q) + c
      <4>1. n - Len(q) \in 1 .. c
        BY <2>3, <3>3
      <4>2. new[n - Len(q)] = [root |-> p[n - Len(q)], since |-> public]
        BY <4>1 DEF new
      <4> QED
        BY <2>8, <3>3, <4>1, <4>2
    <3> QED
      BY <3>1, <3>2, <3>3
  <2>10. Distinct(queue')
    <3> SUFFICES ASSUME NEW i \in DOMAIN queue', NEW j \in DOMAIN queue',
                        queue'[i].root = queue'[j].root
                 PROVE  i = j
      BY DEF Distinct
    <3>1. CASE i \in DOMAIN q /\ queue'[i] = q[i] /\ j \in DOMAIN q /\ queue'[j] = q[j]
      BY <3>1 DEF Distinct
    <3>2. \A n \in DOMAIN q, k \in 1 .. c : p[k] # q[n].root
      BY <2>1, <2>3
    <3>3. CASE ~(i \in DOMAIN q /\ queue'[i] = q[i]) /\ ~(j \in DOMAIN q /\ queue'[j] = q[j])
      <4>1. i - Len(q) = j - Len(q)
        BY <2>6, <2>9, <3>3
      <4> QED
        BY <2>8, <4>1
    <3> QED
      BY <2>9, <3>1, <3>2, <3>3
  <2> QED
    BY <2>1, <2>3, <2>8, <2>9, <2>10
<1> QED
  BY <1>1, <1>2

-----------------------------------------------------------------------------
(* Type correctness.                                                       *)

(* The worlds that the file at hand lies between.                          *)
LEMMA WorldsAt ==
  ASSUME TypeOK
  PROVE  /\ Len(worlds) \in Nat /\ DOMAIN worlds = 1 .. Len(worlds)
         /\ \A i \in 1 .. Len(worlds) : worlds[i] \in World
         /\ Newest \in World /\ Len(worlds) \in 1 .. Len(worlds)
         /\ checkpoint \in Nat /\ checkpoint + 1 \in 1 .. Len(worlds)
         /\ Waiting => checkpoint + 2 \in 1 .. Len(worlds) /\ After \in World
         /\ Waiting = (checkpoint + 2 \in 1 .. Len(worlds))
         /\ Changed \in SUBSET Object
<1>1. worlds \in Seq(World) /\ Len(worlds) \in Nat \ {0} /\ checkpoint \in 0 .. Len(worlds) - 1
  BY ReplicatorAssumption DEF TypeOK, Index
<1> HIDE DEF World
<1>2. DOMAIN worlds = 1 .. Len(worlds) /\ \A i \in 1 .. Len(worlds) : worlds[i] \in World
  BY <1>1
<1>3. checkpoint \in Nat /\ checkpoint + 1 \in 1 .. Len(worlds) /\ Len(worlds) \in 1 .. Len(worlds)
      /\ Waiting = (checkpoint + 2 \in 1 .. Len(worlds))
  BY <1>1 DEF Waiting
<1> QED
  BY <1>1, <1>2, <1>3 DEF Newest, After, Changed

(* The refresh at hand is of an object that was found.                     *)
LEMMA RefreshAtHand ==
  ASSUME TypeOK, AtHand, w.pc \in {"apply", "record"}
  PROVE  /\ worlds[w.seen] \in World /\ w.seen \in 1 .. public /\ w.seen \in 1 .. Len(worlds)
         /\ w.root \in Exists(worlds[w.seen]) /\ w.root \in Object
         /\ Answer(worlds[w.seen], w.root) \in SUBSET Exists(worlds[w.seen])
         /\ w.root \in Answer(worlds[w.seen], w.root)
<1>1. w.seen \in Nat \ {0} /\ w.seen <= public /\ w.root \in Exists(worlds[w.seen])
  BY ReplicatorAssumption DEF TypeOK, AtHand, Worker, Index
<1>2. public \in 1 .. Len(worlds) /\ Len(worlds) \in Nat
  BY WorldsAt DEF TypeOK
<1>3. w.seen \in 1 .. public /\ w.seen \in 1 .. Len(worlds)
  BY <1>1, <1>2
<1>4. worlds[w.seen] \in World
  BY <1>3, WorldsAt
<1> QED
  BY <1>1, <1>3, <1>4, AnswerFinds, GraphsOfWorlds

(* A file adds a world; those before it stay.                              *)
LEMMA Arrives ==
  ASSUME TypeOK, FileArrives
  PROVE  \E world \in World :
           /\ Legal(world)
           /\ worlds' \in Seq(World) /\ Len(worlds') = Len(worlds) + 1
           /\ Len(worlds') \in Index
           /\ \A i \in 1 .. Len(worlds) : worlds'[i] = worlds[i]
           /\ worlds'[Len(worlds')] = world
           /\ public' \in public .. Len(worlds')
<1>1. PICK f \in Files : Legal(WorldAfter(f)) /\ worlds' = Append(worlds, WorldAfter(f))
  BY DEF FileArrives
<1>2. Newest \in World /\ Len(worlds) \in Nat /\ Len(worlds) \in 1 .. MaxFiles + 1
      /\ worlds \in Seq(World) /\ MaxFiles \in Nat /\ public \in 1 .. Len(worlds) /\ MaxLag \in Nat
  BY WorldsAt, ReplicatorAssumption DEF TypeOK, Index
<1> DEFINE world == WorldAfter(f)
<1>3. world \in World
  <2>1. \A o \in Object : o \in DOMAIN f => f[o] = None \/ f[o] \in [tagged : BOOLEAN, refs : SUBSET Object]
    BY ReplicatorAssumption
  <2>2. ASSUME NEW o \in Object PROVE world[o] \in Data \cup {None}
    <3>1. CASE o \notin DOMAIN f
      BY <1>2, <3>1 DEF WorldAfter, World
    <3>2. CASE o \in DOMAIN f /\ f[o] = None
      BY <3>2 DEF WorldAfter
    <3>3. CASE o \in DOMAIN f /\ f[o] # None
      BY <1>2, <2>1, <3>3 DEF WorldAfter, Data
    <3> QED
      BY <3>1, <3>2, <3>3
  <2>3. world = [o \in Object |-> world[o]]
    BY DEF WorldAfter
  <2> HIDE DEF world
  <2> QED
    BY <2>2, <2>3 DEF World
<1> HIDE DEF world, World
<1>4. worlds' = Append(worlds, world)
  BY <1>1 DEF world
<1>5. /\ worlds' \in Seq(World) /\ Len(worlds') = Len(worlds) + 1
      /\ \A i \in 1 .. Len(worlds) : worlds'[i] = worlds[i]
      /\ worlds'[Len(worlds) + 1] = world
  BY <1>2, <1>3, <1>4, AppendProperties
<1>6. Len(worlds') \in Index
  BY <1>2, <1>5 DEF FileArrives, Index
<1>7. public' \in public .. Len(worlds')
  BY <1>2, <1>5 DEF FileArrives
<1>8. Legal(world)
  BY <1>1 DEF world
<1> QED
  BY <1>3, <1>5, <1>6, <1>7, <1>8

LEMMA InitType ==
  ASSUME Init
  PROVE  TypeOK
<1>1. PICK world \in InitialWorlds :
        /\ worlds = <<world>>
        /\ public = 1
        /\ db = [o \in Object |-> IF o \in Needed(world) THEN world[o] ELSE None]
        /\ catalog = BuildCatalog(world)
        /\ checkpoint = 0
        /\ pending \in {<<>>, InOrder(Tagged(world))}
        /\ queue = <<>>
        /\ w = Idle
        /\ faults = 0
  BY DEF Init
<1>2. world \in World /\ \A o \in Exists(world) : world[o].refs \subseteq Exists(world)
  BY ReplicatorAssumption
<1>3. db \in World
  BY <1>1, <1>2 DEF World
<1>4. catalog \in Membership
  BY <1>1, <1>2, BuildCatalogKeeps
<1>5. pending \in Seq(Object)
  <2>1. Tagged(world) \in SUBSET Object
    BY <1>2, GraphsOfWorlds
  <2>2. /\ Cardinality(Tagged(world)) \in Nat
        /\ InOrder(Tagged(world)) \in [1 .. Cardinality(Tagged(world)) -> Tagged(world)]
    BY <2>1, OscFilterAssumption, FS_Subset, InOrderSorts
  <2>3. InOrder(Tagged(world)) \in [1 .. Cardinality(Tagged(world)) -> Object]
    BY <2>1, <2>2
  <2>4. InOrder(Tagged(world)) \in Seq(Object)
    BY <2>2, <2>3
  <2> DEFINE sorted == InOrder(Tagged(world))
  <2>5. pending = <<>> \/ pending = sorted
    BY <1>1
  <2> HIDE DEF sorted
  <2>6. <<>> \in Seq(Object)
    OBVIOUS
  <2>7. sorted \in Seq(Object)
    BY <2>4 DEF sorted
  <2> QED
    BY <2>5, <2>6, <2>7
<1>6. worlds \in Seq(World) /\ Len(worlds) = 1
  <2>1. \A W : world \in W => <<world>> \in Seq(W) /\ Len(<<world>>) = 1
    OBVIOUS
  <2> QED
    BY <1>1, <1>2, <2>1
<1>7. w \in Worker
  BY <1>1, ReplicatorAssumption DEF Idle, Worker, Index
<1> QED
  BY <1>1, <1>3, <1>4, <1>5, <1>6, <1>7, ReplicatorAssumption DEF TypeOK, Index

LEMMA TypeStep ==
  ASSUME TypeOK, AtHand, FoundInv, Next
  PROVE  TypeOK'
<1>1. /\ worlds \in Seq(World) /\ Len(worlds) \in Index
      /\ public \in 1 .. Len(worlds) /\ public \in Index
      /\ db \in World
      /\ catalog \in Membership
      /\ checkpoint \in 0 .. Len(worlds) - 1
      /\ pending \in Seq(Object)
      /\ queue \in Seq(Future) /\ Distinct(queue)
      /\ w \in Worker
      /\ faults \in 0 .. MaxFaults /\ faults \in Nat /\ MaxFaults \in Nat
      /\ MaxFiles \in Nat
  BY ReplicatorAssumption DEF TypeOK, Index, Distinct
<1>2. Idle \in Worker
  BY ReplicatorAssumption DEF Idle, Worker, Index
<1> DEFINE Upstream == /\ worlds \in Seq(World) /\ Len(worlds) \in Index
                       /\ public \in 1 .. Len(worlds)
                       /\ checkpoint \in 0 .. Len(worlds) - 1
           Stores == db \in World /\ catalog \in Membership /\ pending \in Seq(Object)
           Pool == queue \in Seq(Future) /\ Distinct(queue)
           Main == w \in Worker /\ faults \in 0 .. MaxFaults
<1>3. Upstream /\ Stores /\ Pool /\ Main
  BY <1>1
<1>4. Upstream' /\ Stores' /\ Pool' /\ Main' => TypeOK'
  BY DEF TypeOK, Distinct
<1>5. worlds' = worlds /\ public' = public /\ checkpoint' = checkpoint => Upstream'
  BY <1>3
<1>6. db' = db /\ catalog' = catalog /\ pending' = pending => Stores'
  BY <1>3
<1>7. queue' = queue => Pool'
  BY <1>3 DEF Distinct
<1>8. w' \in Worker /\ faults' = faults => Main'
  BY <1>3
<1>9. w' = w /\ faults' = faults => Main'
  BY <1>3
<1> HIDE DEF Upstream, Stores, Pool, Main
<1>10. CASE ApplyRefresh
  <2>1. worlds[w.seen] \in World /\ w.root \in Exists(worlds[w.seen])
    BY <1>10, RefreshAtHand DEF ApplyRefresh
  <2>2. db' \in World
    BY <1>1, <1>10, <2>1, AnswerFinds, UpsertKeeps DEF ApplyRefresh
  <2>3. w' \in Worker
    BY <1>1, <1>10 DEF ApplyRefresh, Go, Worker
  <2>4. Stores'
    BY <1>1, <1>10, <2>2 DEF ApplyRefresh, Stores
  <2> QED
    BY <1>4, <1>5, <1>7, <1>8, <1>10, <2>3, <2>4 DEF ApplyRefresh, upstream
<1>11. CASE RecordRefresh
  <2>1. worlds[w.seen] \in World /\ w.root \in Exists(worlds[w.seen])
    BY <1>11, RefreshAtHand DEF RecordRefresh
  <2>2. catalog' \in Membership
    BY <1>1, <1>11, <2>1, MergeKeeps DEF RecordRefresh
  <2>3. w' \in Worker
    BY <1>1, <1>2, <1>11 DEF RecordRefresh, Worker, Idle
  <2>4. Stores'
    BY <1>1, <1>11, <2>2 DEF RecordRefresh, Stores
  <2> QED
    BY <1>4, <1>5, <1>7, <1>8, <1>11, <2>3, <2>4 DEF RecordRefresh, upstream
<1>12. CASE QueryPending
  <2>1. pending # <<>> /\ Head(pending) \in Object /\ Tail(pending) \in Seq(Object)
    BY <1>1, <1>12 DEF QueryPending
  <2>2. w' \in Worker
    <3>1. w' = w \/ w' = [w EXCEPT !.pc = "apply", !.back = "ack",
                                   !.root = Head(pending), !.seen = public]
      BY <1>12 DEF QueryPending
    <3> QED
      BY <1>1, <2>1, <3>1 DEF Worker
  <2>3. Stores'
    BY <1>1, <1>12, <2>1 DEF QueryPending, Stores
  <2> QED
    BY <1>4, <1>5, <1>7, <1>8, <1>12, <2>2, <2>3 DEF QueryPending, upstream
<1>13. CASE AcknowledgePending
  <2>1. Stores'
    <3>1. pending # <<>>
      BY <1>13 DEF AcknowledgePending, AtHand
    <3>2. Tail(pending) \in Seq(Object)
      BY <1>1, <3>1
    <3> QED
      BY <1>1, <1>13, <3>2 DEF AcknowledgePending, Stores
  <2>2. w' \in Worker
    BY <1>1, <1>13 DEF AcknowledgePending, Go, Worker
  <2> QED
    BY <1>4, <1>5, <1>7, <1>8, <1>13, <2>1, <2>2 DEF AcknowledgePending, upstream
<1>14. CASE StartPool
  <2>1. <<>> \in Seq(Future) /\ Distinct(<<>>)
    BY DEF Distinct
  <2>2. Pool'
    BY <1>14, <2>1, SubmitKeeps DEF StartPool, Pool
  <2>3. w' \in Worker
    BY <1>1, <1>14 DEF StartPool, Go, Worker
  <2> QED
    BY <1>4, <1>5, <1>6, <1>8, <1>14, <2>2, <2>3 DEF StartPool, upstream
<1>15. CASE DrainStarts
  <2>1. Pool'
    BY <1>1, <1>15, SubmitKeeps DEF DrainStarts, Pool
  <2>2. w' \in Worker
    BY <1>1, <1>15 DEF DrainStarts, Go, Worker
  <2> QED
    BY <1>4, <1>5, <1>6, <1>8, <1>15, <2>1, <2>2 DEF DrainStarts, upstream
<1>16. ASSUME queue # <<>>
       PROVE  /\ Head(queue) \in Future
              /\ Tail(queue) \in Seq(Future) /\ Distinct(Tail(queue))
  <2>1. Head(queue) \in Future /\ Tail(queue) \in Seq(Future)
    BY <1>1, <1>16
  <2>2. DOMAIN Tail(queue) = 1 .. Len(queue) - 1 /\ Len(queue) \in Nat
        /\ \A i \in 1 .. Len(queue) - 1 : Tail(queue)[i] = queue[i + 1]
    BY <1>1, <1>16
  <2>3. \A i \in 1 .. Len(queue) - 1 : i + 1 \in DOMAIN queue
    BY <1>1, <2>2
  <2>4. Distinct(Tail(queue))
    <3> SUFFICES ASSUME NEW i \in 1 .. Len(queue) - 1, NEW j \in 1 .. Len(queue) - 1,
                        Tail(queue)[i].root = Tail(queue)[j].root
                 PROVE  i = j
      BY <2>2 DEF Distinct
    <3>1. queue[i + 1].root = queue[j + 1].root
      BY <2>2
    <3>2. i + 1 = j + 1
      BY <1>1, <2>3, <3>1 DEF Distinct
    <3> QED
      BY <2>2, <3>2
  <2> QED
    BY <2>1, <2>4
<1>17. CASE DrainApplies
  <2>1. Pool'
    BY <1>16, <1>17 DEF DrainApplies, Pool
  <2>2. w' \in Worker
    <3>1. PICK i \in Head(queue).since .. public :
            w' = [w EXCEPT !.pc = "apply", !.back = "drain",
                           !.root = Head(queue).root, !.seen = i]
      BY <1>17 DEF DrainApplies
    <3>2. Head(queue).root \in Object /\ Head(queue).since \in Index
      BY <1>16, <1>17 DEF DrainApplies, Future
    <3>3. i \in Index
      BY <1>1, <3>2 DEF Index
    <3> QED
      BY <1>1, <3>1, <3>2, <3>3 DEF Worker
  <2> QED
    BY <1>4, <1>5, <1>6, <1>8, <1>17, <2>1, <2>2 DEF DrainApplies, upstream
<1>18. CASE DrainFindsNothing
  <2>1. Pool'
    BY <1>16, <1>18 DEF DrainFindsNothing, Pool
  <2>2. catalog' \in Membership
    BY <1>1, <1>18 DEF DrainFindsNothing, Membership
  <2>3. Stores'
    BY <1>1, <1>18, <2>2 DEF DrainFindsNothing, Stores
  <2> QED
    BY <1>4, <1>5, <1>9, <1>18, <2>1, <2>3 DEF DrainFindsNothing, upstream
<1>19. CASE DrainEnds
  <2>1. Pool'
    BY <1>1, <1>7, <1>19, SubmitKeeps DEF DrainEnds, Pool
  <2>2. w' \in Worker
    BY <1>1, <1>2, <1>19 DEF DrainEnds, Worker
  <2> QED
    BY <1>4, <1>5, <1>6, <1>8, <1>19, <2>1, <2>2 DEF DrainEnds, upstream
<1>20. CASE TopDrains
  <2>1. w' \in Worker
    BY <1>2, <1>20 DEF TopDrains, GoDrain, Worker
  <2> QED
    BY <1>4, <1>5, <1>6, <1>7, <1>8, <1>20, <2>1 DEF TopDrains, upstream
<1>21. CASE TakeFile
  <2>1. w' \in Worker
    BY <1>1, <1>21 DEF TakeFile, Go, Worker
  <2> QED
    BY <1>4, <1>5, <1>6, <1>7, <1>8, <1>21, <2>1 DEF TakeFile, upstream
<1>22. CASE IdleFile
  <2>1. w' \in Worker
    BY <1>2, <1>22 DEF IdleFile, GoDrain, Worker
  <2> QED
    BY <1>4, <1>5, <1>6, <1>7, <1>8, <1>22, <2>1 DEF IdleFile, upstream
<1>23. CASE SaveCheckpoint
  <2>1. w' \in Worker
    BY <1>2, <1>23 DEF SaveCheckpoint, Worker
  <2>2. checkpoint' \in 0 .. Len(worlds) - 1
    BY <1>1, <1>23, WorldsAt DEF SaveCheckpoint, AtHand, Processed, Waiting
  <2>3. Upstream'
    BY <1>1, <1>23, <2>2 DEF SaveCheckpoint, Upstream, upstream
  <2> QED
    BY <1>4, <1>6, <1>7, <1>8, <1>23, <2>1, <2>3 DEF SaveCheckpoint
<1>24. CASE Discard
  <2>1. w' \in Worker
    BY <1>2, <1>24 DEF Discard, GoDrain, Worker
  <2> QED
    BY <1>4, <1>5, <1>6, <1>7, <1>8, <1>24, <2>1 DEF Discard, upstream
<1>25. CASE FilterFile
  <2> DEFINE s == FilterPass(catalog, Changed, After, w.include)
             new == IF NoEvents(s) THEN {} ELSE NewDependencies(s)
             include == w.include \cup new
  <2>1. /\ w' = IF new # {} /\ include \cap Changed # {}
                 THEN [w EXCEPT !.include = include]
                 ELSE IF s.added # {}
                 THEN [Idle EXCEPT !.pc = "roots", !.left = s.added, !.since = public]
                 ELSE [Idle EXCEPT !.pc = "filtered", !.found = s]
        /\ w.pc = "filter"
        /\ UNCHANGED <<upstream, db, catalog, checkpoint, pending, queue, faults>>
    BY <1>25 DEF FilterFile
  <2>2. Filtered(catalog, w.include, After, Changed, s)
    BY <1>1, <2>1, FilterPassRelates, WorldsAt DEF AtHand, Worker
  <2>3. s \in Pass
    BY <2>2 DEF Filtered
  <2> HIDE DEF s
  <2>4. s.added \in SUBSET Object /\ s.m.deps \in SUBSET Object
    BY <2>3 DEF Pass, Membership
  <2>5. new \in SUBSET Object
    BY <2>4 DEF NewDependencies
  <2>6. include \in SUBSET Object
    BY <1>1, <2>5 DEF Worker
  <2> HIDE DEF include, new
  <2>7. w' \in Worker
    BY <1>1, <1>2, <2>1, <2>3, <2>4, <2>6 DEF Worker
  <2> QED
    BY <1>4, <1>5, <1>6, <1>7, <1>8, <2>1, <2>7 DEF upstream
<1>26. CASE RefreshRoot
  <2> DEFINE o == Min(w.left)
  <2>1. PICK i \in w.since .. public :
          /\ o \in Exists(worlds[i])
          /\ w' = [w EXCEPT !.pc = "apply", !.back = "roots", !.root = o, !.seen = i,
                            !.left = @ \ {o}]
    BY <1>26 DEF RefreshRoot
  <2>2. i \in Index /\ o \in Object
    BY <1>1, <2>1 DEF Worker, Index, Exists
  <2> HIDE DEF o
  <2>3. w' \in Worker
    BY <1>1, <2>1, <2>2 DEF Worker
  <2> QED
    BY <1>4, <1>5, <1>6, <1>7, <1>8, <1>26, <2>3 DEF RefreshRoot, upstream
<1>27. CASE RootNotFound
  <2>1. w' \in Worker
    BY <1>2, <1>27 DEF RootNotFound, Worker
  <2> QED
    BY <1>4, <1>5, <1>6, <1>7, <1>8, <1>27, <2>1 DEF RootNotFound, upstream
<1>28. CASE RootsRefreshed
  <2>1. w' \in Worker
    BY <1>2, <1>28 DEF RootsRefreshed, GoDrain, Worker
  <2> QED
    BY <1>4, <1>5, <1>6, <1>7, <1>8, <1>28, <2>1 DEF RootsRefreshed, upstream
<1>29. CASE ApplyFiltered
  <2>1. Waiting /\ After \in World /\ w.found.put \in SUBSET Exists(After)
    BY <1>29, WorldsAt DEF ApplyFiltered, AtHand, FoundInv
  <2>2. db' \in World
    BY <1>1, <1>29, <2>1, UpsertKeeps, DeleteKeeps DEF ApplyFiltered
  <2>3. Stores'
    BY <1>1, <1>29, <2>2 DEF ApplyFiltered, Stores
  <2>4. w' \in Worker
    BY <1>1, <1>29 DEF ApplyFiltered, Go, Worker
  <2> QED
    BY <1>4, <1>5, <1>7, <1>8, <1>29, <2>3, <2>4 DEF ApplyFiltered, upstream
<1>30. CASE CommitDelta
  <2>1. catalog' \in Membership
    BY <1>1, <1>30 DEF CommitDelta, FoundInv, Pass
  <2>2. Stores'
    BY <1>1, <1>30, <2>1 DEF CommitDelta, Stores
  <2>3. w' \in Worker
    BY <1>2, <1>30 DEF CommitDelta, GoDrain, Worker
  <2> QED
    BY <1>4, <1>5, <1>7, <1>8, <1>30, <2>2, <2>3 DEF CommitDelta, upstream
<1>31. CASE FileArrives
  <2>1. PICK world \in World :
           /\ worlds' \in Seq(World) /\ Len(worlds') = Len(worlds) + 1
           /\ Len(worlds') \in Index
           /\ public' \in public .. Len(worlds')
    BY <1>31, Arrives
  <2>2. Upstream'
    BY <1>1, <1>31, <2>1 DEF FileArrives, Upstream, Index
  <2> QED
    BY <1>4, <1>6, <1>7, <1>9, <1>31, <2>2 DEF FileArrives
<1>32. CASE PublicAdvances
  <2>1. Upstream'
    BY <1>1, <1>32 DEF PublicAdvances, Upstream, Index
  <2> QED
    BY <1>4, <1>6, <1>7, <1>9, <1>32, <2>1 DEF PublicAdvances
<1>33. ASSUME faults < MaxFaults, faults' = faults + 1, w' \in Worker
       PROVE  Main'
  BY <1>1, <1>33 DEF Main
<1>34. CASE Killed
  <2>1. Pool'
    BY <1>34 DEF Killed, Pool, Distinct
  <2> QED
    BY <1>2, <1>4, <1>5, <1>6, <1>33, <1>34, <2>1 DEF Killed, upstream
<1>35. CASE DrainFails
  <2>1. Pool'
    BY <1>16, <1>35 DEF DrainFails, Pool
  <2> QED
    BY <1>1, <1>4, <1>5, <1>6, <1>33, <1>35, <2>1 DEF DrainFails, upstream
<1>36. CASE RootQueryFails
  <2>1. w' \in Worker
    BY <1>2, <1>36 DEF RootQueryFails, Worker
  <2> QED
    BY <1>4, <1>5, <1>6, <1>7, <1>33, <1>36, <2>1 DEF RootQueryFails, upstream
<1> QED
  BY <1>10, <1>11, <1>12, <1>13, <1>14, <1>15, <1>17, <1>18, <1>19, <1>20, <1>21, <1>22,
     <1>23, <1>24, <1>25, <1>26, <1>27, <1>28, <1>29, <1>30, <1>31, <1>32, <1>34, <1>35,
     <1>36
  DEF Next, Work


-----------------------------------------------------------------------------
(* The history of upstream, and what a step relies on.                     *)

(* A new world leaves the file at hand as it is, and brings nothing back.  *)
LEMMA ArrivesKeeps ==
  ASSUME TypeOK, Continuity, FileArrives
  PROVE  /\ Continuity'
         /\ \A i \in 1 .. Len(worlds) : /\ worlds'[i] = worlds[i]
                                        /\ Exists(worlds[i]) \cap Exists(Newest') \subseteq Exists(Newest)
         /\ Len(worlds') = Len(worlds) + 1 /\ public <= public' /\ public' \in Nat
         /\ Waiting => Waiting' /\ After' = After /\ Changed' = Changed /\ Announced' = Announced
<1>1. PICK world \in World :
           /\ Legal(world)
           /\ worlds' \in Seq(World) /\ Len(worlds') = Len(worlds) + 1
           /\ \A i \in 1 .. Len(worlds) : worlds'[i] = worlds[i]
           /\ worlds'[Len(worlds')] = world
           /\ public' \in public .. Len(worlds')
  BY Arrives
<1>2. Newest' = world
  BY <1>1 DEF Newest
<1>3. Len(worlds) \in Nat /\ Len(worlds) \in 1 .. Len(worlds) /\ DOMAIN worlds = 1 .. Len(worlds)
  BY WorldsAt
<1>4. DOMAIN worlds' = 1 .. Len(worlds) + 1
  <2> HIDE DEF World
  <2> QED
    BY <1>1
<1>5. ASSUME NEW i \in 1 .. Len(worlds)
      PROVE  Exists(worlds[i]) \cap Exists(world) \subseteq Exists(Newest)
  BY <1>1, <1>3 DEF Legal, Exists
<1>6. Continuity'
  <2> SUFFICES ASSUME NEW i \in 1 .. Len(worlds) + 1, NEW j \in 1 .. Len(worlds) + 1,
                      NEW k \in 1 .. Len(worlds) + 1, i <= j, j <= k,
                      NEW o \in Exists(worlds'[i]) \cap Exists(worlds'[k])
               PROVE  o \in Exists(worlds'[j])
    BY <1>4 DEF Continuity
  <2>1. CASE k \in 1 .. Len(worlds)
    <3>1. i \in 1 .. Len(worlds) /\ j \in 1 .. Len(worlds)
      BY <1>3, <2>1
    <3> QED
      BY <1>1, <1>3, <2>1, <3>1 DEF Continuity
  <2>2. CASE k = Len(worlds) + 1
    <3>1. CASE j = Len(worlds) + 1
      BY <2>2, <3>1
    <3>2. CASE j # Len(worlds) + 1
      <4>1. i \in 1 .. Len(worlds) /\ j \in 1 .. Len(worlds)
        BY <1>3, <3>2
      <4>2. o \in Exists(worlds[i]) /\ o \in Exists(Newest)
        BY <1>1, <1>5, <2>2, <4>1
      <4>3. j <= Len(worlds)
        BY <4>1
      <4>4. o \in Exists(worlds[j])
        BY <1>3, <4>1, <4>2, <4>3 DEF Continuity, Newest
      <4> QED
        BY <1>1, <4>1, <4>4
    <3> QED
      BY <3>1, <3>2
  <2> QED
    BY <1>3, <2>1, <2>2
<1>7. checkpoint' = checkpoint /\ public \in Nat
  BY WorldsAt DEF FileArrives, TypeOK
<1>8. Waiting => Waiting' /\ After' = After /\ Changed' = Changed /\ Announced' = Announced
  <2> SUFFICES ASSUME Waiting
               PROVE  Waiting' /\ After' = After /\ Changed' = Changed /\ Announced' = Announced
    OBVIOUS
  <2>1. Waiting' /\ checkpoint + 1 \in 1 .. Len(worlds) /\ checkpoint + 2 \in 1 .. Len(worlds)
    BY <1>1, <1>7, WorldsAt DEF Waiting
  <2>2. After' = After /\ worlds'[checkpoint' + 1] = worlds[checkpoint + 1]
    BY <1>1, <1>7, <2>1 DEF After
  <2>3. Changed' = Changed
    BY <2>2 DEF Changed
  <2> QED
    BY <2>1, <2>2, <2>3 DEF Announced
<1> QED
  BY <1>1, <1>2, <1>5, <1>6, <1>7, <1>8, WorldsAt

LEMMA ContinuityStep ==
  ASSUME TypeOK, Continuity, Next
  PROVE  Continuity'
<1>1. CASE FileArrives
  BY <1>1, ArrivesKeeps
<1>2. CASE ~FileArrives
  <2>1. worlds' = worlds
    BY <1>2 DEF Next, Work, upstream, ApplyRefresh, RecordRefresh, QueryPending,
       AcknowledgePending, StartPool, DrainStarts, DrainApplies, DrainFindsNothing, DrainEnds,
       TopDrains, TakeFile, IdleFile, SaveCheckpoint, Discard, FilterFile, RefreshRoot,
       RootNotFound, RootsRefreshed, ApplyFiltered, CommitDelta, PublicAdvances, Killed,
       DrainFails, RootQueryFails
  <2> QED
    BY <2>1 DEF Continuity
<1> QED
  BY <1>1, <1>2

LEMMA AtHandStep ==
  ASSUME TypeOK, Continuity, AtHand, Next
  PROVE  AtHand'
<1>1. /\ w \in Worker /\ public \in 1 .. Len(worlds) /\ public \in Nat /\ Len(worlds) \in Nat
      /\ w.seen \in Nat \ {0}
      /\ Idle.pc = "start" /\ Idle.back = "start" /\ Idle.next = "start"
  BY WorldsAt, ReplicatorAssumption DEF TypeOK, Idle, Worker, Index
<1>2. CASE ApplyRefresh
  <2>1. worlds[w.seen] \in World /\ w.root \in Exists(worlds[w.seen])
    BY <1>2, RefreshAtHand DEF ApplyRefresh
  <2>2. w.root \in Object
    BY <2>1, GraphsOfWorlds
  <2>3. db'[w.root] # None
    BY <1>2, <2>1, <2>2, AnswerFinds, UpsertKeeps DEF ApplyRefresh, TypeOK
  <2> QED
    BY <1>1, <1>2, <2>3 DEF ApplyRefresh, upstream, Go, Worker, AtHand, OnRoots, Processed, Waiting
<1>3. CASE RecordRefresh
  <2>1. /\ w.pc = "record" /\ w'.pc = w.back /\ w'.back = "start" /\ w'.next = w.next
        /\ w.back \in {"start", "ack", "roots", "drain"}
        /\ UNCHANGED <<upstream, db, checkpoint, pending>>
    BY <1>1, <1>3 DEF RecordRefresh, Worker
  <2> QED
    BY <2>1 DEF upstream, AtHand, OnRoots, Processed, Waiting
<1>4. CASE QueryPending
  <2>1. w.pc = "start" /\ pending # <<>> /\ UNCHANGED <<upstream, db, checkpoint>>
    BY <1>4 DEF QueryPending
  <2>2. CASE Head(pending) \in Exists(worlds[public])
    <3>1. /\ w' = [w EXCEPT !.pc = "apply", !.back = "ack", !.root = Head(pending), !.seen = public]
          /\ pending' = pending
      BY <1>4, <2>2 DEF QueryPending
    <3>2. /\ w'.pc = "apply" /\ w'.back = "ack" /\ w'.next = w.next
          /\ w'.root = Head(pending) /\ w'.seen = public
      BY <1>1, <3>1 DEF Worker
    <3> QED
      BY <1>1, <2>1, <2>2, <3>1, <3>2 DEF upstream, AtHand, OnRoots, Processed, Waiting
  <2>3. CASE Head(pending) \notin Exists(worlds[public])
    <3>1. w' = w
      BY <1>4, <2>3 DEF QueryPending
    <3> QED
      BY <2>1, <3>1 DEF upstream, AtHand, OnRoots, Processed, Waiting
  <2> QED
    BY <2>2, <2>3
<1>5. CASE AcknowledgePending
  BY <1>1, <1>5 DEF AcknowledgePending, upstream, Go, Worker, AtHand, OnRoots, Processed, Waiting
<1>6. CASE StartPool
  BY <1>1, <1>6 DEF StartPool, upstream, Go, Worker, AtHand, OnRoots, Processed, Waiting
<1>7. CASE DrainStarts
  BY <1>1, <1>7 DEF DrainStarts, upstream, Go, Worker, AtHand, OnRoots, Processed, Waiting
<1>8. CASE DrainApplies
  BY <1>1, <1>8 DEF DrainApplies, upstream, Worker, AtHand, OnRoots, Processed, Waiting
<1>9. CASE DrainFindsNothing
  BY <1>1, <1>9 DEF DrainFindsNothing, upstream, Worker, AtHand, OnRoots, Processed, Waiting
<1>10. CASE DrainEnds
  BY <1>1, <1>10 DEF DrainEnds, upstream, Idle, Worker, AtHand, OnRoots, Processed, Waiting
<1>11. CASE TopDrains
  BY <1>1, <1>11 DEF TopDrains, upstream, GoDrain, Idle, Worker, AtHand, OnRoots, Processed, Waiting
<1>12. CASE TakeFile
  BY <1>1, <1>12 DEF TakeFile, upstream, Go, Worker, AtHand, OnRoots, Processed, Waiting
<1>13. CASE IdleFile
  BY <1>1, <1>13 DEF IdleFile, upstream, GoDrain, Idle, Worker, AtHand, OnRoots, Processed, Waiting
<1>14. CASE SaveCheckpoint
  BY <1>1, <1>14 DEF SaveCheckpoint, upstream, Idle, Worker, AtHand, OnRoots, Processed, Waiting
<1>15. CASE Discard
  BY <1>1, <1>15 DEF Discard, upstream, GoDrain, Idle, Worker, AtHand, OnRoots, Processed, Waiting
<1>16. CASE FilterFile
  BY <1>1, <1>16 DEF FilterFile, upstream, Idle, Worker, AtHand, OnRoots, Processed, Waiting
<1>17. CASE RefreshRoot
  BY <1>1, <1>17 DEF RefreshRoot, upstream, Worker, AtHand, OnRoots, Processed, Waiting
<1>18. CASE RootNotFound
  BY <1>1, <1>18 DEF RootNotFound, upstream, Idle, Worker, AtHand, OnRoots, Processed, Waiting
<1>19. CASE RootsRefreshed
  BY <1>1, <1>19 DEF RootsRefreshed, upstream, GoDrain, Idle, Worker, AtHand, OnRoots, Processed, Waiting
<1>20. CASE ApplyFiltered
  BY <1>1, <1>20 DEF ApplyFiltered, upstream, Go, Worker, AtHand, OnRoots, Processed, Waiting
<1>21. CASE CommitDelta
  BY <1>1, <1>21 DEF CommitDelta, upstream, GoDrain, Idle, Worker, AtHand, OnRoots, Processed, Waiting
<1>22. CASE FileArrives
  <2>1. /\ \A i \in 1 .. Len(worlds) : worlds'[i] = worlds[i]
        /\ public <= public' /\ public' \in Nat /\ (Waiting => Waiting')
    BY <1>22, ArrivesKeeps
  <2>2. w.seen <= public => w.seen <= public' /\ worlds'[w.seen] = worlds[w.seen]
    BY <1>1, <2>1
  <2> QED
    BY <1>22, <2>1, <2>2 DEF FileArrives, AtHand, OnRoots, Processed
<1>23. CASE PublicAdvances
  BY <1>1, <1>23 DEF PublicAdvances, upstream, Worker, AtHand, OnRoots, Processed, Waiting
<1>24. CASE Killed
  BY <1>1, <1>24 DEF Killed, upstream, Idle, Worker, AtHand, OnRoots, Processed, Waiting
<1>25. CASE DrainFails
  BY <1>1, <1>25 DEF DrainFails, upstream, Worker, AtHand, OnRoots, Processed, Waiting
<1>26. CASE RootQueryFails
  BY <1>1, <1>26 DEF RootQueryFails, upstream, Idle, Worker, AtHand, OnRoots, Processed, Waiting
<1> QED
  BY <1>2, <1>3, <1>4, <1>5, <1>6, <1>7, <1>8, <1>9, <1>10, <1>11, <1>12, <1>13, <1>14,
     <1>15, <1>16, <1>17, <1>18, <1>19, <1>20, <1>21, <1>22, <1>23, <1>24, <1>25, <1>26
  DEF Next, Work

(* Nothing is queued or queried again that never was.                      *)
KnownRoots == \A o \in catalog.roots : \E i \in 1 .. public : o \in Exists(worlds[i])
KnownFutures(q) ==
  \A n \in DOMAIN q :
    /\ q[n].since <= public
    /\ \E i \in 1 .. q[n].since : q[n].root \in Exists(worlds[i])

LEMMA SubmitKnown ==
  ASSUME TypeOK, Known, NEW q \in Seq(Future), Distinct(q), KnownFutures(q), Submit(q),
         UNCHANGED upstream
  PROVE  KnownFutures(queue)'
<1> SUFFICES ASSUME NEW n \in DOMAIN queue'
             PROVE  /\ queue'[n].since <= public
                    /\ \E i \in 1 .. queue'[n].since : queue'[n].root \in Exists(worlds[i])
  BY DEF KnownFutures, upstream
<1>1. \/ n \in DOMAIN q /\ queue'[n] = q[n]
      \/ queue'[n].since = public /\ queue'[n].root \in catalog.roots
  BY SubmitKeeps
<1>2. public <= public
  BY DEF TypeOK
<1> QED
  BY <1>1, <1>2 DEF Known, KnownFutures

LEMMA TailKnown ==
  ASSUME TypeOK, KnownFutures(queue), queue # <<>>, queue' = Tail(queue), UNCHANGED upstream
  PROVE  KnownFutures(queue)'
<1>1. Len(queue) \in Nat /\ DOMAIN queue = 1 .. Len(queue)
  BY DEF TypeOK
<1>2. /\ DOMAIN queue' = 1 .. Len(queue) - 1
      /\ \A n \in 1 .. Len(queue) - 1 : queue'[n] = queue[n + 1] /\ n + 1 \in DOMAIN queue
  <2> HIDE DEF Future
  <2> QED
    BY <1>1, HeadTailProperties DEF TypeOK
<1> QED
  BY <1>2 DEF KnownFutures, upstream

LEMMA KnownStep ==
  ASSUME TypeOK, Continuity, AtHand, FoundInv, Known, Next
  PROVE  Known'
<1>1. KnownRoots /\ KnownFutures(queue) /\ queue \in Seq(Future) /\ Distinct(queue)
      /\ public \in 1 .. Len(worlds) /\ Len(worlds) \in Nat /\ w \in Worker
  BY WorldsAt DEF Known, KnownRoots, KnownFutures, TypeOK, Distinct
<1>2. KnownRoots' /\ KnownFutures(queue)' => Known'
  BY DEF Known, KnownRoots, KnownFutures
<1>3. UNCHANGED upstream /\ catalog'.roots \subseteq catalog.roots => KnownRoots'
  BY <1>1 DEF KnownRoots, upstream
<1>4. UNCHANGED <<upstream, catalog>> => KnownRoots'
  BY <1>3
<1>5. UNCHANGED <<upstream, queue>> => KnownFutures(queue)'
  BY <1>1 DEF KnownFutures, upstream
<1>6. ASSUME /\ \A i \in 1 .. Len(worlds) : worlds'[i] = worlds[i]
             /\ public <= public' /\ public' \in Nat
             /\ UNCHANGED <<catalog, queue>>
      PROVE  Known'
  <2>1. KnownRoots'
    <3> SUFFICES ASSUME NEW o \in catalog.roots
                 PROVE  \E i \in 1 .. public' : o \in Exists(worlds'[i])
      BY <1>6 DEF KnownRoots
    <3>1. PICK i \in 1 .. public : o \in Exists(worlds[i])
      BY <1>1 DEF KnownRoots
    <3>2. i \in 1 .. public' /\ i \in 1 .. Len(worlds)
      BY <1>1, <1>6
    <3> QED
      BY <1>6, <3>1, <3>2
  <2>2. KnownFutures(queue)'
    <3> SUFFICES ASSUME NEW n \in DOMAIN queue
                 PROVE  /\ queue[n].since <= public'
                        /\ \E i \in 1 .. queue[n].since : queue[n].root \in Exists(worlds'[i])
      BY <1>6 DEF KnownFutures
    <3>1. queue[n].since <= public /\ queue[n].since \in Nat
      <4>1. queue[n] \in Future
        BY <1>1
      <4> QED
        BY <1>1, <4>1, ReplicatorAssumption DEF KnownFutures, Future, Index
    <3>2. PICK i \in 1 .. queue[n].since : queue[n].root \in Exists(worlds[i])
      BY <1>1 DEF KnownFutures
    <3>3. i \in 1 .. Len(worlds) /\ queue[n].since <= public'
      BY <1>1, <1>6, <3>1
    <3> QED
      BY <1>6, <3>2, <3>3
  <2> QED
    BY <1>2, <2>1, <2>2
<1> HIDE DEF Known
<1>7. CASE ApplyRefresh
  BY <1>2, <1>4, <1>5, <1>7 DEF ApplyRefresh, upstream
<1>8. CASE RecordRefresh
  <2>1. /\ w.seen <= public /\ w.root \in Exists(worlds[w.seen]) /\ w.seen \in Nat \ {0}
        /\ w.seen \in 1 .. Len(worlds)
    BY <1>1, <1>8, RefreshAtHand DEF RecordRefresh, AtHand
  <2>2. worlds[w.seen] \in World /\ catalog \in Membership
    BY <2>1, WorldsAt DEF TypeOK
  <2>3. catalog'.roots = catalog.roots \cup {w.root}
    BY <1>8, <2>1, <2>2, MergeKeeps DEF RecordRefresh
  <2>4. w.seen \in 1 .. public
    BY <1>1, <2>1
  <2>5. KnownRoots'
    BY <1>1, <1>8, <2>1, <2>3, <2>4 DEF RecordRefresh, KnownRoots, upstream
  <2> QED
    BY <1>2, <1>5, <1>8, <2>5 DEF RecordRefresh
<1>9. CASE QueryPending
  BY <1>2, <1>4, <1>5, <1>9 DEF QueryPending, upstream
<1>10. CASE AcknowledgePending
  BY <1>2, <1>4, <1>5, <1>10 DEF AcknowledgePending, upstream
<1>11. CASE StartPool
  <2>1. <<>> \in Seq(Future) /\ Distinct(<<>>) /\ KnownFutures(<<>>)
    BY DEF Distinct, KnownFutures
  <2>2. KnownFutures(queue)'
    BY <1>11, <2>1, SubmitKnown DEF StartPool
  <2> QED
    BY <1>2, <1>4, <1>11, <2>2 DEF StartPool
<1>12. CASE DrainStarts
  <2>1. KnownFutures(queue)'
    BY <1>1, <1>12, SubmitKnown DEF DrainStarts
  <2> QED
    BY <1>2, <1>4, <1>12, <2>1 DEF DrainStarts
<1>13. CASE DrainApplies
  <2>1. KnownFutures(queue)'
    BY <1>1, <1>13, TailKnown DEF DrainApplies
  <2> QED
    BY <1>2, <1>4, <1>13, <2>1 DEF DrainApplies
<1>14. CASE DrainFindsNothing
  <2>1. KnownFutures(queue)'
    BY <1>1, <1>14, TailKnown DEF DrainFindsNothing
  <2>2. catalog'.roots \subseteq catalog.roots
    BY <1>14 DEF DrainFindsNothing, TypeOK, Membership
  <2> QED
    BY <1>2, <1>3, <1>14, <2>1, <2>2 DEF DrainFindsNothing
<1>15. CASE DrainEnds
  <2>1. KnownFutures(queue)'
    BY <1>1, <1>5, <1>15, SubmitKnown DEF DrainEnds
  <2> QED
    BY <1>2, <1>4, <1>15, <2>1 DEF DrainEnds
<1>16. CASE TopDrains
  BY <1>2, <1>4, <1>5, <1>16 DEF TopDrains, upstream
<1>17. CASE TakeFile
  BY <1>2, <1>4, <1>5, <1>17 DEF TakeFile, upstream
<1>18. CASE IdleFile
  BY <1>2, <1>4, <1>5, <1>18 DEF IdleFile, upstream
<1>19. CASE SaveCheckpoint
  BY <1>2, <1>4, <1>5, <1>19 DEF SaveCheckpoint, upstream
<1>20. CASE Discard
  BY <1>2, <1>4, <1>5, <1>20 DEF Discard, upstream
<1>21. CASE FilterFile
  BY <1>2, <1>4, <1>5, <1>21 DEF FilterFile, upstream
<1>22. CASE RefreshRoot
  BY <1>2, <1>4, <1>5, <1>22 DEF RefreshRoot, upstream
<1>23. CASE RootNotFound
  BY <1>2, <1>4, <1>5, <1>23 DEF RootNotFound, upstream
<1>24. CASE RootsRefreshed
  BY <1>2, <1>4, <1>5, <1>24 DEF RootsRefreshed, upstream
<1>25. CASE ApplyFiltered
  BY <1>2, <1>4, <1>5, <1>25 DEF ApplyFiltered, upstream
<1>26. CASE CommitDelta
  <2>1. catalog'.roots \subseteq catalog.roots
    BY <1>26 DEF CommitDelta, FoundInv
  <2> QED
    BY <1>2, <1>3, <1>5, <1>26, <2>1 DEF CommitDelta
<1>27. CASE FileArrives
  BY <1>6, <1>27, ArrivesKeeps DEF FileArrives
<1>28. CASE PublicAdvances
  BY <1>1, <1>6, <1>28 DEF PublicAdvances
<1>29. CASE Killed
  <2>1. KnownFutures(queue)'
    BY <1>29 DEF Killed, KnownFutures
  <2> QED
    BY <1>2, <1>4, <1>29, <2>1 DEF Killed
<1>30. CASE DrainFails
  <2>1. KnownFutures(queue)'
    BY <1>1, <1>30, TailKnown DEF DrainFails
  <2> QED
    BY <1>2, <1>4, <1>30, <2>1 DEF DrainFails
<1>31. CASE RootQueryFails
  BY <1>2, <1>4, <1>5, <1>31 DEF RootQueryFails, upstream
<1> QED
  BY <1>7, <1>8, <1>9, <1>10, <1>11, <1>12, <1>13, <1>14, <1>15, <1>16, <1>17, <1>18, <1>19,
     <1>20, <1>21, <1>22, <1>23, <1>24, <1>25, <1>26, <1>27, <1>28, <1>29, <1>30, <1>31
  DEF Next, Work

LEMMA FoundStep ==
  ASSUME TypeOK, Continuity, AtHand, FoundInv, Next
  PROVE  FoundInv'
<1>1. /\ w \in Worker /\ Idle.pc = "start" /\ Idle.next = "start"
  BY DEF TypeOK, Idle
<1>2. ASSUME w'.pc \notin {"filtered", "commit"}
      PROVE  FoundInv'
  BY <1>2 DEF FoundInv
<1>3. CASE ApplyRefresh
  BY <1>1, <1>2, <1>3 DEF ApplyRefresh, Go, Worker
<1>4. CASE RecordRefresh
  <2>1. w'.pc \in {"start", "ack", "roots", "drain"}
    BY <1>1, <1>4 DEF RecordRefresh, Worker
  <2> QED
    BY <1>2, <2>1
<1>5. CASE QueryPending
  BY <1>1, <1>2, <1>5 DEF QueryPending, Worker
<1>6. CASE AcknowledgePending
  BY <1>1, <1>2, <1>6 DEF AcknowledgePending, Go, Worker
<1>7. CASE StartPool
  BY <1>1, <1>2, <1>7 DEF StartPool, Go, Worker
<1>8. CASE DrainStarts
  BY <1>1, <1>2, <1>8 DEF DrainStarts, Go, Worker
<1>9. CASE DrainApplies
  BY <1>1, <1>2, <1>9 DEF DrainApplies, Worker
<1>10. CASE DrainFindsNothing
  BY <1>1, <1>2, <1>10 DEF DrainFindsNothing, Worker
<1>11. CASE DrainEnds
  <2>1. w'.pc \in {"start", "top", "latest", "checkpoint"}
    BY <1>1, <1>11 DEF DrainEnds, Worker, Idle
  <2> QED
    BY <1>2, <2>1
<1>12. CASE TopDrains
  BY <1>1, <1>2, <1>12 DEF TopDrains, GoDrain, Idle, Worker
<1>13. CASE TakeFile
  BY <1>1, <1>2, <1>13 DEF TakeFile, Go, Worker
<1>14. CASE IdleFile
  BY <1>1, <1>2, <1>14 DEF IdleFile, GoDrain, Idle, Worker
<1>15. CASE SaveCheckpoint
  BY <1>1, <1>2, <1>15 DEF SaveCheckpoint, Idle, Worker
<1>16. CASE Discard
  BY <1>1, <1>2, <1>16 DEF Discard, GoDrain, Idle, Worker
<1>17. CASE FilterFile
  <2> DEFINE s == FilterPass(catalog, Changed, After, w.include)
             new == IF NoEvents(s) THEN {} ELSE NewDependencies(s)
             include == w.include \cup new
  <2>1. /\ w' = IF new # {} /\ include \cap Changed # {}
                 THEN [w EXCEPT !.include = include]
                 ELSE IF s.added # {}
                 THEN [Idle EXCEPT !.pc = "roots", !.left = s.added, !.since = public]
                 ELSE [Idle EXCEPT !.pc = "filtered", !.found = s]
        /\ w.pc = "filter"
        /\ UNCHANGED <<upstream, db, catalog, checkpoint, pending, queue, faults>>
    BY <1>17 DEF FilterFile
  <2>2. After \in World /\ Changed \in SUBSET Object /\ catalog \in Membership
        /\ w.include \in SUBSET Object
    BY <1>1, <2>1, WorldsAt DEF AtHand, Worker, TypeOK
  <2>3. Filtered(catalog, w.include, After, Changed, s)
    BY <2>2, FilterPassRelates
  <2> HIDE DEF s
  <2>4. CASE new # {} /\ include \cap Changed # {}
    <3>1. w'.pc = "filter"
      BY <1>1, <2>1, <2>4 DEF Worker
    <3> QED
      BY <1>2, <3>1
  <2>5. CASE ~(new # {} /\ include \cap Changed # {}) /\ s.added # {}
    <3>1. w'.pc = "roots"
      BY <1>1, <2>1, <2>5 DEF Idle
    <3> QED
      BY <1>2, <3>1
  <2>6. CASE ~(new # {} /\ include \cap Changed # {}) /\ s.added = {}
    <3>1. w'.pc = "filtered" /\ w'.found = s /\ w'.next = "start"
      BY <1>1, <2>1, <2>6 DEF Idle
    <3>2. Announced = {}
      BY <2>3, <2>6 DEF Filtered, Announced
    <3>3. s.m.roots = catalog.roots \ Changed
      BY <2>3, <3>2 DEF Filtered, Announced
    <3>4. s.m.deps \cap Changed \subseteq catalog.deps \cup w.include
      <4>1. CASE NoEvents(s)
        BY <2>3, <4>1 DEF NoEvents, Filtered
      <4>2. CASE ~NoEvents(s)
        BY <2>6, <4>2 DEF NewDependencies
      <4> QED
        BY <4>1, <4>2
    <3>5. s.m.deps \cap Changed \cap Exists(After) \subseteq s.put
      BY <2>3, <3>4 DEF Filtered
    <3>6. /\ s \in Pass /\ s.put \subseteq Exists(After) /\ s.drop \subseteq Changed
          /\ catalog.roots \cap Changed \subseteq s.put \cup s.drop
      BY <2>3 DEF Filtered
    <3>7. UNCHANGED <<Changed, After, Announced>>
      BY <2>1 DEF upstream, Changed, After, Announced
    <3> QED
      BY <2>1, <3>1, <3>2, <3>3, <3>5, <3>6, <3>7 DEF FoundInv
  <2> QED
    BY <2>4, <2>5, <2>6
<1>18. CASE RefreshRoot
  BY <1>1, <1>2, <1>18 DEF RefreshRoot, Worker
<1>19. CASE RootNotFound
  BY <1>1, <1>2, <1>19 DEF RootNotFound, Idle, Worker
<1>20. CASE RootsRefreshed
  BY <1>1, <1>2, <1>20 DEF RootsRefreshed, GoDrain, Idle, Worker
<1>21. CASE ApplyFiltered
  <2>1. w.pc = "filtered" /\ w'.next = w.next /\ w'.found = w.found
    BY <1>1, <1>21 DEF ApplyFiltered, Go, Worker
  <2>2. UNCHANGED <<catalog, Changed, After, Announced>>
    BY <1>21 DEF ApplyFiltered, upstream, Changed, After, Announced
  <2> QED
    BY <2>1, <2>2 DEF FoundInv
<1>22. CASE CommitDelta
  BY <1>1, <1>2, <1>22 DEF CommitDelta, GoDrain, Idle, Worker
<1>23. CASE FileArrives
  <2>1. w' = w /\ catalog' = catalog
    BY <1>23 DEF FileArrives
  <2>2. CASE w.pc \in {"filtered", "commit"}
    <3>1. UNCHANGED <<Changed, After, Announced>>
      BY <1>23, <2>2, ArrivesKeeps DEF AtHand
    <3> QED
      BY <2>1, <2>2, <3>1 DEF FoundInv
  <2> QED
    BY <1>2, <2>1, <2>2
<1>24. CASE PublicAdvances
  <2>1. UNCHANGED <<w, catalog, Changed, After, Announced>>
    BY <1>24 DEF PublicAdvances, Changed, After, Announced
  <2> QED
    BY <2>1 DEF FoundInv
<1>25. CASE Killed
  BY <1>1, <1>2, <1>25 DEF Killed, Idle, Worker
<1>26. CASE DrainFails
  BY <1>1, <1>2, <1>26 DEF DrainFails, Worker
<1>27. CASE RootQueryFails
  BY <1>1, <1>2, <1>27 DEF RootQueryFails, Idle, Worker
<1> QED
  BY <1>3, <1>4, <1>5, <1>6, <1>7, <1>8, <1>9, <1>10, <1>11, <1>12, <1>13, <1>14, <1>15,
     <1>16, <1>17, <1>18, <1>19, <1>20, <1>21, <1>22, <1>23, <1>24, <1>25, <1>26, <1>27
  DEF Next, Work

-----------------------------------------------------------------------------
(* Tagged objects are served.                                              *)

(* What the file at hand does not announce was tagged before.              *)
LEMMA AnnouncedSuffice ==
  ASSUME TypeOK, RootsServed, Waiting, \A o \in Announced \cap Exists(Newest) : Has(o)
  PROVE  \A o \in Tagged(After) \cap Exists(Newest) : Has(o)
<1> SUFFICES ASSUME NEW o \in Tagged(After) \cap Exists(Newest), o \notin Changed PROVE Has(o)
  BY DEF Announced
<1>1. /\ After \in World /\ checkpoint + 1 \in 1 .. Len(worlds)
      /\ worlds[checkpoint + 1] \in World
      /\ checkpoint \in Nat
  BY WorldsAt
<1>2. o \in Object /\ worlds[checkpoint + 1][o] = After[o]
  BY <1>1, GraphsOfWorlds DEF Changed
<1>3. o \in Tagged(worlds[checkpoint + 1])
  BY <1>2 DEF Tagged, Exists
<1>4. \A i \in {checkpoint + 1, checkpoint + 2} \cap DOMAIN worlds : o \in Tagged(worlds[i])
  BY <1>3 DEF After
<1> QED
  BY <1>4 DEF RootsServed, Has

(* The public Overpass does not show what once was there: it is gone.      *)
LEMMA NotFoundIsGone ==
  ASSUME TypeOK, Continuity, Known, queue # <<>>,
         NEW i \in Head(queue).since .. public, Head(queue).root \notin Exists(worlds[i])
  PROVE  Head(queue).root \notin Exists(Newest)
<1>1. Head(queue) = queue[1] /\ 1 \in DOMAIN queue /\ Head(queue) \in Future
  <2> HIDE DEF Future
  <2> QED
    BY DEF TypeOK
<1>2. PICK j \in 1 .. Head(queue).since : Head(queue).root \in Exists(worlds[j])
  BY <1>1 DEF Known
<1>3. Head(queue).since \in Nat /\ public \in 1 .. Len(worlds) /\ Len(worlds) \in Nat
      /\ DOMAIN worlds = 1 .. Len(worlds)
  BY <1>1, WorldsAt, ReplicatorAssumption DEF TypeOK, Future, Index
<1>4. /\ j \in 1 .. Len(worlds) /\ i \in 1 .. Len(worlds) /\ j <= i /\ i <= Len(worlds)
      /\ Len(worlds) \in 1 .. Len(worlds)
  BY <1>3
<1> QED
  BY <1>2, <1>3, <1>4 DEF Continuity, Newest

LEMMA ServedStep ==
  ASSUME TypeOK, TypeOK', Continuity, AtHand, AtHand', Known, FoundInv, ServedInv, Next
  PROVE  ServedInv'
<1> DEFINE Keeps == \A o \in Exists(Newest) : Has(o) => Has(o)'
           Stays == UNCHANGED <<worlds, checkpoint>>
<1>1. /\ w \in Worker /\ Idle.pc = "start" /\ Idle.next = "start" /\ Idle.back = "start"
      /\ RootsServed
  BY DEF TypeOK, Idle, ServedInv
<1>2. Stays => UNCHANGED <<Newest, After, Changed, Announced, Waiting>>
  BY DEF Newest, After, Changed, Announced, Waiting
<1>3. UNCHANGED <<db, catalog>> => Keeps
  BY DEF Has
<1>4. Stays /\ Keeps => RootsServed'
  BY <1>1, <1>2 DEF RootsServed, Has
<1>5. ASSUME Stays, Keeps, w'.pc \notin {"roots", "checkpoint"},
             w'.back = w.back, w'.left = w.left, w'.root = w.root, w'.next = w.next
      PROVE  ServedInv'
  BY <1>2, <1>4, <1>5 DEF ServedInv, OnRoots, Processed
<1>6. ASSUME Stays, Keeps, w'.pc # "roots", w'.back # "roots", Processed' => Processed
      PROVE  ServedInv'
  BY <1>2, <1>4, <1>6 DEF ServedInv, OnRoots
<1>7. ASSUME Stays, Waiting, w'.pc # "roots", w'.back # "roots",
             \A o \in Tagged(After) \cap Exists(Newest) : Has(o)'
      PROVE  ServedInv'
  <2>1. RootsServed'
    <3>1. Waiting' /\ \A o \in Tagged(After') \cap Exists(Newest') : Has(o)'
      BY <1>2, <1>7
    <3>2. checkpoint' + 2 \in DOMAIN worlds'
      BY <1>7, WorldsAt
    <3> QED
      BY <3>1, <3>2 DEF RootsServed, Has, After
  <2> QED
    BY <1>2, <1>7, <2>1 DEF ServedInv, OnRoots
<1> HIDE DEF Keeps, Stays
<1>8. UNCHANGED <<worlds, checkpoint>> => Stays
  BY DEF Stays
<1>9. UNCHANGED <<worlds, checkpoint, db, catalog, w>> => ServedInv'
  BY DEF ServedInv, RootsServed, OnRoots, Processed, Has, Announced, Changed, After, Newest
<1>10. CASE ApplyRefresh
  <2>1. /\ worlds[w.seen] \in World /\ w.root \in Exists(worlds[w.seen])
        /\ Answer(worlds[w.seen], w.root) \in SUBSET Exists(worlds[w.seen])
    BY <1>10, RefreshAtHand DEF ApplyRefresh
  <2>2. Keeps
    <3>1. \A o \in Object : db[o] # None => db'[o] # None
      BY <1>10, <2>1, UpsertKeeps DEF ApplyRefresh, TypeOK
    <3> QED
      BY <1>10, <3>1 DEF ApplyRefresh, Keeps, Has, TypeOK, Membership
  <2>3. /\ w'.pc \notin {"roots", "checkpoint"}
        /\ w'.back = w.back /\ w'.left = w.left /\ w'.root = w.root /\ w'.next = w.next
    BY <1>1, <1>10 DEF ApplyRefresh, Go, Worker
  <2>4. Stays
    BY <1>10 DEF ApplyRefresh, upstream, Stays
  <2> QED
    BY <1>5, <2>2, <2>3, <2>4
<1>11. CASE RecordRefresh
  <2>1. /\ worlds[w.seen] \in World /\ w.root \in Exists(worlds[w.seen])
        /\ catalog \in Membership /\ db[w.root] # None
    BY <1>1, <1>11, RefreshAtHand DEF RecordRefresh, AtHand, TypeOK
  <2>2. catalog'.roots = catalog.roots \cup {w.root} /\ db' = db
    BY <1>11, <2>1, MergeKeeps DEF RecordRefresh
  <2>3. Keeps /\ w.root \in catalog'.roots /\ db'[w.root] # None
    BY <2>1, <2>2 DEF Keeps, Has
  <2>4. Stays
    BY <1>11 DEF RecordRefresh, upstream, Stays
  <2>5. /\ w'.pc = w.back /\ w'.back = "start" /\ w'.left = w.left /\ w'.next = w.next
        /\ w.back # "checkpoint"
    BY <1>1, <1>11 DEF RecordRefresh, Worker
  <2>6. CASE w.back # "roots"
    <3>1. Processed' => Processed
      BY <2>5 DEF Processed
    <3> QED
      BY <1>6, <2>3, <2>4, <2>5, <2>6, <3>1
  <2>7. CASE w.back = "roots"
    <3>1. UNCHANGED <<Newest, After, Changed, Announced>> /\ RootsServed'
      BY <1>2, <1>4, <2>3, <2>4
    <3>2. \A o \in (Announced \cap Exists(Newest)) \ w.left : Has(o)'
      <4>1. ASSUME NEW o \in (Announced \cap Exists(Newest)) \ w.left PROVE Has(o)'
        <5>1. CASE o = w.root
          BY <2>3, <5>1 DEF Has
        <5>2. CASE o # w.root
          BY <2>3, <2>7, <5>2 DEF ServedInv, Keeps
        <5> QED
          BY <5>1, <5>2
      <4> QED
        BY <4>1
    <3>3. Processed' => Processed
      BY <2>5 DEF Processed
    <3> QED
      BY <2>3, <2>5, <2>7, <3>1, <3>2, <3>3 DEF ServedInv, OnRoots, Keeps
  <2> QED
    BY <2>6, <2>7
<1>12. CASE QueryPending
  <2>1. UNCHANGED <<worlds, checkpoint, db, catalog>> /\ w.pc = "start"
    BY <1>12 DEF QueryPending, upstream
  <2>2. CASE Head(pending) \in Exists(worlds[public])
    <3>1. w'.pc = "apply" /\ w'.back = "ack" /\ w'.next = w.next
      BY <1>1, <1>12, <2>2 DEF QueryPending, Worker
    <3> QED
      BY <1>3, <1>6, <1>8, <2>1, <3>1 DEF Processed
  <2>3. CASE Head(pending) \notin Exists(worlds[public])
    <3>1. w' = w
      BY <1>12, <2>3 DEF QueryPending
    <3> QED
      BY <1>9, <2>1, <3>1
  <2> QED
    BY <2>2, <2>3
<1>13. CASE AcknowledgePending
  <2>1. UNCHANGED <<worlds, checkpoint, db, catalog>>
    BY <1>13 DEF AcknowledgePending, upstream
  <2>2. /\ w'.pc \notin {"roots", "checkpoint"}
        /\ w'.back = w.back /\ w'.left = w.left /\ w'.root = w.root /\ w'.next = w.next
    BY <1>1, <1>13 DEF AcknowledgePending, Go, Worker
  <2> QED
    BY <1>3, <1>5, <1>8, <2>1, <2>2
<1>14. CASE StartPool
  <2>1. UNCHANGED <<worlds, checkpoint, db, catalog>>
    BY <1>14 DEF StartPool, upstream
  <2>2. /\ w'.pc \notin {"roots", "checkpoint"}
        /\ w'.back = w.back /\ w'.left = w.left /\ w'.root = w.root /\ w'.next = w.next
    BY <1>1, <1>14 DEF StartPool, Go, Worker
  <2> QED
    BY <1>3, <1>5, <1>8, <2>1, <2>2
<1>15. CASE DrainStarts
  <2>1. UNCHANGED <<worlds, checkpoint, db, catalog>>
    BY <1>15 DEF DrainStarts, upstream
  <2>2. /\ w'.pc \notin {"roots", "checkpoint"}
        /\ w'.back = w.back /\ w'.left = w.left /\ w'.root = w.root /\ w'.next = w.next
    BY <1>1, <1>15 DEF DrainStarts, Go, Worker
  <2> QED
    BY <1>3, <1>5, <1>8, <2>1, <2>2
<1>16. CASE DrainApplies
  <2>1. UNCHANGED <<worlds, checkpoint, db, catalog>>
    BY <1>16 DEF DrainApplies, upstream
  <2>2. w'.pc # "roots" /\ w'.back # "roots" /\ (Processed' => Processed)
    BY <1>1, <1>16 DEF DrainApplies, Processed, Worker
  <2> QED
    BY <1>3, <1>6, <1>8, <2>1, <2>2
<1>17. CASE DrainFindsNothing
  <2>1. /\ Stays /\ w' = w /\ w.pc = "drain" /\ db' = db
        /\ catalog'.roots = catalog.roots \ {Head(queue).root}
    BY <1>17 DEF DrainFindsNothing, upstream, Stays, TypeOK, Membership
  <2>2. Head(queue).root \notin Exists(Newest)
    BY <1>17, NotFoundIsGone DEF DrainFindsNothing
  <2>3. Keeps
    BY <2>1, <2>2 DEF Keeps, Has
  <2> QED
    BY <1>5, <2>1, <2>3
<1>18. CASE DrainEnds
  <2>1. UNCHANGED <<worlds, checkpoint, db, catalog>>
    BY <1>18 DEF DrainEnds, upstream
  <2>2. w'.pc # "roots" /\ w'.back # "roots" /\ (Processed' => Processed)
    BY <1>1, <1>18 DEF DrainEnds, Processed, Idle, Worker
  <2> QED
    BY <1>3, <1>6, <1>8, <2>1, <2>2
<1>19. CASE TopDrains
  <2>1. UNCHANGED <<worlds, checkpoint, db, catalog>>
    BY <1>19 DEF TopDrains, upstream
  <2>2. w'.pc # "roots" /\ w'.back # "roots" /\ (Processed' => Processed)
    BY <1>1, <1>19 DEF TopDrains, Processed, GoDrain, Idle, Worker
  <2> QED
    BY <1>3, <1>6, <1>8, <2>1, <2>2
<1>20. CASE TakeFile
  <2>1. UNCHANGED <<worlds, checkpoint, db, catalog>>
    BY <1>20 DEF TakeFile, upstream
  <2>2. /\ w'.pc \notin {"roots", "checkpoint"}
        /\ w'.back = w.back /\ w'.left = w.left /\ w'.root = w.root /\ w'.next = w.next
    BY <1>1, <1>20 DEF TakeFile, Go, Worker
  <2> QED
    BY <1>3, <1>5, <1>8, <2>1, <2>2
<1>21. CASE IdleFile
  <2>1. UNCHANGED <<worlds, checkpoint, db, catalog>>
    BY <1>21 DEF IdleFile, upstream
  <2>2. w'.pc # "roots" /\ w'.back # "roots" /\ (Processed' => Processed)
    BY <1>1, <1>21 DEF IdleFile, Processed, GoDrain, Idle, Worker
  <2> QED
    BY <1>3, <1>6, <1>8, <2>1, <2>2
<1>22. CASE SaveCheckpoint
  <2>1. w.pc = "checkpoint" /\ checkpoint' = checkpoint + 1 /\ UNCHANGED <<worlds, db, catalog>>
    BY <1>22 DEF SaveCheckpoint, upstream
  <2>2. w'.pc = "top" /\ w'.back = "start" /\ w'.next = "start"
    BY <1>22 DEF SaveCheckpoint, Idle
  <2>3. checkpoint + 2 \in DOMAIN worlds /\ checkpoint \in Nat
    BY <2>1, WorldsAt DEF AtHand, Processed
  <2>4. \A o \in Tagged(After) \cap Exists(Newest) : Has(o)
    BY <2>1 DEF ServedInv, Processed
  <2>5. RootsServed'
    <3> SUFFICES ASSUME NEW o \in Exists(Newest),
                        \A i \in {checkpoint' + 1, checkpoint' + 2} \cap DOMAIN worlds :
                          o \in Tagged(worlds[i])
                 PROVE  Has(o)
      BY <2>1 DEF RootsServed, Has, Newest
    <3>1. checkpoint' + 1 = checkpoint + 2
      BY <2>1, <2>3
    <3>2. o \in Tagged(After)
      BY <2>3, <3>1 DEF After
    <3> QED
      BY <2>4, <3>2
  <2> QED
    BY <2>2, <2>5 DEF ServedInv, OnRoots, Processed
<1>23. CASE Discard
  <2>1. UNCHANGED <<worlds, checkpoint, db, catalog>> /\ w.pc = "filter" /\ Announced = {}
    BY <1>23 DEF Discard, upstream, QuickCheck, Announced
  <2>2. w'.pc = "pool" /\ w'.back = "start"
    BY <1>23 DEF Discard, GoDrain, Idle
  <2>3. Waiting
    BY <2>1 DEF AtHand
  <2>4. \A o \in Tagged(After) \cap Exists(Newest) : Has(o)
    BY <1>1, <2>1, <2>3, AnnouncedSuffice
  <2>5. \A o \in Tagged(After) \cap Exists(Newest) : Has(o)'
    BY <2>1, <2>4 DEF Has
  <2> QED
    BY <1>7, <1>8, <2>1, <2>2, <2>3, <2>5
<1>24. CASE FilterFile
  <2> DEFINE s == FilterPass(catalog, Changed, After, w.include)
             new == IF NoEvents(s) THEN {} ELSE NewDependencies(s)
             include == w.include \cup new
  <2>1. /\ w' = IF new # {} /\ include \cap Changed # {}
                 THEN [w EXCEPT !.include = include]
                 ELSE IF s.added # {}
                 THEN [Idle EXCEPT !.pc = "roots", !.left = s.added, !.since = public]
                 ELSE [Idle EXCEPT !.pc = "filtered", !.found = s]
        /\ w.pc = "filter"
        /\ UNCHANGED <<worlds, checkpoint, db, catalog>>
    BY <1>24 DEF FilterFile, upstream
  <2>2. After \in World /\ Changed \in SUBSET Object /\ catalog \in Membership
        /\ w.include \in SUBSET Object
    BY <1>1, <2>1, WorldsAt DEF AtHand, Worker, TypeOK
  <2>3. s.added = Announced
    <3>1. Filtered(catalog, w.include, After, Changed, s)
      BY <2>2, FilterPassRelates
    <3> QED
      BY <3>1 DEF Filtered, Announced
  <2> HIDE DEF s
  <2>4. CASE new # {} /\ include \cap Changed # {}
    <3>1. /\ w'.pc = "filter"
          /\ w'.back = w.back /\ w'.left = w.left /\ w'.root = w.root /\ w'.next = w.next
      BY <1>1, <2>1, <2>4 DEF Worker
    <3> QED
      BY <1>3, <1>5, <1>8, <2>1, <3>1
  <2>5. CASE ~(new # {} /\ include \cap Changed # {}) /\ s.added # {}
    <3>1. /\ w'.pc = "roots" /\ w'.left = Announced /\ Announced # {}
          /\ w'.back = "start" /\ w'.next = "start"
      BY <1>1, <2>1, <2>3, <2>5 DEF Idle
    <3>2. UNCHANGED <<Newest, After, Changed, Announced>> /\ RootsServed'
      BY <1>2, <1>3, <1>4, <1>8, <2>1
    <3> QED
      BY <3>1, <3>2 DEF ServedInv, OnRoots, Processed
  <2>6. CASE ~(new # {} /\ include \cap Changed # {}) /\ s.added = {}
    <3>1. w'.pc = "filtered" /\ w'.back = "start" /\ w'.next = "start"
      BY <1>1, <2>1, <2>6 DEF Idle
    <3> QED
      BY <1>3, <1>6, <1>8, <2>1, <3>1 DEF Processed
  <2> QED
    BY <2>4, <2>5, <2>6
<1>25. CASE RefreshRoot
  <2> DEFINE o == Min(w.left)
  <2>1. /\ w.pc = "roots" /\ w'.pc = "apply" /\ w'.back = "roots" /\ w'.root = o
        /\ w'.left = w.left \ {o} /\ w'.next = w.next
        /\ UNCHANGED <<worlds, checkpoint, db, catalog>>
    BY <1>1, <1>25 DEF RefreshRoot, Worker, upstream
  <2> HIDE DEF o
  <2>2. UNCHANGED <<Newest, After, Changed, Announced>> /\ RootsServed'
    BY <1>2, <1>3, <1>4, <1>8, <2>1
  <2> QED
    BY <2>1, <2>2 DEF ServedInv, OnRoots, Processed, Has
<1>26. CASE RootNotFound
  <2>1. UNCHANGED <<worlds, checkpoint, db, catalog>>
    BY <1>26 DEF RootNotFound, upstream
  <2>2. w'.pc # "roots" /\ w'.back # "roots" /\ (Processed' => Processed)
    BY <1>1, <1>26 DEF RootNotFound, Processed, Idle, Worker
  <2> QED
    BY <1>3, <1>6, <1>8, <2>1, <2>2
<1>27. CASE RootsRefreshed
  <2>1. UNCHANGED <<worlds, checkpoint, db, catalog>> /\ w.pc = "roots" /\ w.left = {}
    BY <1>27 DEF RootsRefreshed, upstream
  <2>2. w'.pc = "pool" /\ w'.back = "start"
    BY <1>27 DEF RootsRefreshed, GoDrain, Idle
  <2>3. Waiting
    BY <2>1 DEF AtHand, OnRoots
  <2>4. \A o \in Tagged(After) \cap Exists(Newest) : Has(o)
    BY <1>1, <2>1, <2>3, AnnouncedSuffice DEF ServedInv
  <2>5. \A o \in Tagged(After) \cap Exists(Newest) : Has(o)'
    BY <2>1, <2>4 DEF Has
  <2> QED
    BY <1>7, <1>8, <2>1, <2>2, <2>3, <2>5
<1>28. CASE ApplyFiltered
  <2>1. /\ UNCHANGED <<worlds, checkpoint, catalog>> /\ w.pc = "filtered" /\ Announced = {}
        /\ w'.pc = "commit" /\ w'.back = w.back
    BY <1>1, <1>28 DEF ApplyFiltered, upstream, FoundInv, Go, Worker
  <2>2. w.back # "roots"
    BY <2>1 DEF ServedInv, OnRoots
  <2>3. Waiting /\ After \in World
    BY <2>1, WorldsAt DEF AtHand
  <2>4. \A o \in Tagged(After) \cap Exists(Newest) : Has(o)
    BY <1>1, <2>1, <2>3, AnnouncedSuffice
  <2>5. ASSUME NEW o \in Tagged(After) \cap Exists(Newest) PROVE Has(o)'
    <3>1. o \in Object /\ o \notin w.found.drop /\ w.found.put \in SUBSET Exists(After)
      BY <2>1, <2>3, GraphsOfWorlds DEF FoundInv, Announced
    <3>2. Upsert(db, After, w.found.put)[o] # None /\ Upsert(db, After, w.found.put) \in World
      BY <2>3, <2>4, <3>1, UpsertKeeps DEF Has, TypeOK
    <3>3. db'[o] # None
      BY <1>28, <3>1, <3>2, DeleteKeeps DEF ApplyFiltered
    <3> QED
      BY <2>1, <2>4, <3>3 DEF Has
  <2> QED
    BY <1>7, <1>8, <2>1, <2>2, <2>3, <2>5
<1>29. CASE CommitDelta
  <2>1. UNCHANGED <<worlds, checkpoint, db>> /\ w.pc = "commit" /\ Announced = {}
    BY <1>29 DEF CommitDelta, upstream, FoundInv
  <2>2. w'.pc = "pool" /\ w'.back = "start"
    BY <1>29 DEF CommitDelta, GoDrain, Idle
  <2>3. Waiting
    BY <2>1 DEF AtHand
  <2>4. \A o \in Tagged(After) \cap Exists(Newest) : Has(o)
    BY <1>1, <2>1, <2>3, AnnouncedSuffice
  <2>5. \A o \in Tagged(After) \cap Exists(Newest) : Has(o)'
    BY <1>29, <2>1, <2>4 DEF CommitDelta, FoundInv, Has, Announced
  <2> QED
    BY <1>7, <1>8, <2>1, <2>2, <2>3, <2>5
<1>30. CASE FileArrives
  <2>1. UNCHANGED <<checkpoint, db, catalog, w>>
    BY <1>30 DEF FileArrives
  <2>2. /\ Len(worlds) \in Nat /\ checkpoint + 1 \in 1 .. Len(worlds)
        /\ DOMAIN worlds = 1 .. Len(worlds) /\ DOMAIN worlds' = 1 .. Len(worlds) + 1
        /\ \A i \in 1 .. Len(worlds) : /\ worlds'[i] = worlds[i]
                                       /\ Exists(worlds[i]) \cap Exists(Newest') \subseteq Exists(Newest)
        /\ Waiting => UNCHANGED <<After, Changed, Announced>>
        /\ Waiting => checkpoint + 2 \in 1 .. Len(worlds)
    <3>1. DOMAIN worlds' = 1 .. Len(worlds') /\ Len(worlds') = Len(worlds) + 1
      <4> HIDE DEF World
      <4> QED
        BY <1>30, ArrivesKeeps DEF TypeOK
    <3> QED
      BY <1>30, <3>1, ArrivesKeeps, WorldsAt
  <2>3. RootsServed'
    <3> SUFFICES ASSUME NEW o \in Exists(Newest'),
                        \A i \in {checkpoint + 1, checkpoint + 2} \cap DOMAIN worlds' :
                          o \in Tagged(worlds'[i])
                 PROVE  Has(o)
      BY <2>1 DEF RootsServed, Has
    <3>1. \A i \in {checkpoint + 1, checkpoint + 2} \cap DOMAIN worlds : o \in Tagged(worlds[i])
      BY <2>2
    <3>2. o \in Exists(worlds[checkpoint + 1])
      BY <2>2, <3>1 DEF Tagged
    <3>3. o \in Exists(Newest)
      BY <2>2, <3>2
    <3> QED
      BY <1>1, <3>1, <3>3 DEF RootsServed, Has
  <2>4. Waiting => Tagged(After) \cap Exists(Newest') \subseteq Exists(Newest)
    BY <2>2 DEF After, Tagged
  <2>5. (OnRoots \/ Processed => Waiting) /\ Announced \subseteq Tagged(After)
    BY DEF AtHand, Announced
  <2>6. \A o : Has(o) <=> Has(o)'
    BY <2>1 DEF Has
  <2>7. UNCHANGED <<OnRoots, Processed, w>>
    BY <2>1 DEF OnRoots, Processed
  <2>8. CASE Waiting
    <3>1. UNCHANGED <<After, Changed, Announced>>
          /\ Announced \cap Exists(Newest') \subseteq Exists(Newest)
          /\ Tagged(After) \cap Exists(Newest') \subseteq Exists(Newest)
      BY <2>2, <2>4, <2>5, <2>8
    <3> QED
      BY <2>3, <2>6, <2>7, <3>1 DEF ServedInv
  <2>9. CASE ~Waiting
    BY <2>3, <2>5, <2>7, <2>9 DEF ServedInv, OnRoots
  <2> QED
    BY <2>8, <2>9
<1>31. CASE PublicAdvances
  BY <1>9, <1>31 DEF PublicAdvances
<1>32. CASE Killed
  <2>1. UNCHANGED <<worlds, checkpoint, db, catalog>>
    BY <1>32 DEF Killed, upstream
  <2>2. w'.pc # "roots" /\ w'.back # "roots" /\ (Processed' => Processed)
    BY <1>1, <1>32 DEF Killed, Processed, Idle, Worker
  <2> QED
    BY <1>3, <1>6, <1>8, <2>1, <2>2
<1>33. CASE DrainFails
  BY <1>9, <1>33 DEF DrainFails, upstream
<1>34. CASE RootQueryFails
  <2>1. UNCHANGED <<worlds, checkpoint, db, catalog>>
    BY <1>34 DEF RootQueryFails, upstream
  <2>2. w'.pc # "roots" /\ w'.back # "roots" /\ (Processed' => Processed)
    BY <1>1, <1>34 DEF RootQueryFails, Processed, Idle, Worker
  <2> QED
    BY <1>3, <1>6, <1>8, <2>1, <2>2
<1> QED
  BY <1>10, <1>11, <1>12, <1>13, <1>14, <1>15, <1>16, <1>17, <1>18, <1>19, <1>20, <1>21, <1>22,
     <1>23, <1>24, <1>25, <1>26, <1>27, <1>28, <1>29, <1>30, <1>31, <1>32, <1>33, <1>34
  DEF Next, Work

-----------------------------------------------------------------------------
(* Roots are loaded.                                                       *)

LEMMA LoadedStep ==
  ASSUME TypeOK, Continuity, AtHand, FoundInv, ServedInv, LoadedInv, Next
  PROVE  LoadedInv'
<1> DEFINE Stays == UNCHANGED <<worlds, checkpoint>>
<1>1. /\ w \in Worker /\ Idle.pc = "start" /\ Idle.next = "start" /\ Idle.back = "start"
      /\ catalog.roots \subseteq Object /\ catalog \in Membership
  BY DEF TypeOK, Idle, Membership
<1>2. Stays => UNCHANGED <<After, Changed, Announced, Waiting>>
  BY DEF After, Changed, Announced, Waiting
<1>3. ASSUME Stays, Processed' => Processed,
             \A o \in catalog'.roots : db'[o] = None => o \in catalog.roots /\ db[o] = None
      PROVE  LoadedInv'
  BY <1>2, <1>3 DEF LoadedInv
<1>4. ASSUME \A o \in catalog'.roots : db'[o] # None
      PROVE  LoadedInv'
  BY <1>4 DEF LoadedInv
<1> HIDE DEF Stays
<1>5. UNCHANGED <<worlds, checkpoint>> => Stays
  BY DEF Stays
<1>6. ASSUME UNCHANGED <<worlds, checkpoint, db, catalog>>, Processed' => Processed
      PROVE  LoadedInv'
  BY <1>3, <1>5, <1>6
<1>7. CASE ApplyRefresh
  <2>1. /\ worlds[w.seen] \in World /\ w.root \in Exists(worlds[w.seen])
        /\ Answer(worlds[w.seen], w.root) \in SUBSET Exists(worlds[w.seen])
    BY <1>7, RefreshAtHand DEF ApplyRefresh
  <2>2. \A o \in Object : db[o] # None => db'[o] # None
    BY <1>7, <2>1, UpsertKeeps DEF ApplyRefresh, TypeOK
  <2>3. Processed' => Processed
    BY <1>1, <1>7 DEF ApplyRefresh, Go, Worker, Processed
  <2> QED
    BY <1>1, <1>3, <1>5, <1>7, <2>2, <2>3 DEF ApplyRefresh, upstream
<1>8. CASE RecordRefresh
  <2>1. /\ worlds[w.seen] \in World /\ w.root \in Exists(worlds[w.seen])
        /\ db[w.root] # None
    BY <1>1, <1>8, RefreshAtHand DEF RecordRefresh, AtHand, TypeOK
  <2>2. catalog'.roots = catalog.roots \cup {w.root}
    BY <1>1, <1>8, <2>1, MergeKeeps DEF RecordRefresh
  <2>3. Processed' => Processed
    BY <1>1, <1>8 DEF RecordRefresh, Worker, Processed
  <2> QED
    BY <1>3, <1>5, <1>8, <2>1, <2>2, <2>3 DEF RecordRefresh, upstream
<1>9. CASE QueryPending
  <2>1. UNCHANGED <<worlds, checkpoint, db, catalog>> /\ w.pc = "start"
    BY <1>9 DEF QueryPending, upstream
  <2>2. w'.pc \in {"start", "apply"} /\ w'.next = w.next
    BY <1>1, <1>9 DEF QueryPending, Worker
  <2> QED
    BY <1>6, <2>1, <2>2 DEF Processed
<1>10. CASE AcknowledgePending
  BY <1>1, <1>6, <1>10 DEF AcknowledgePending, upstream, Go, Worker, Processed
<1>11. CASE StartPool
  BY <1>1, <1>6, <1>11 DEF StartPool, upstream, Go, Worker, Processed
<1>12. CASE DrainStarts
  BY <1>1, <1>6, <1>12 DEF DrainStarts, upstream, Go, Worker, Processed
<1>13. CASE DrainApplies
  BY <1>1, <1>6, <1>13 DEF DrainApplies, upstream, Worker, Processed
<1>14. CASE DrainFindsNothing
  <2>1. /\ UNCHANGED <<worlds, checkpoint, db, w>>
        /\ catalog'.roots = catalog.roots \ {Head(queue).root}
    BY <1>1, <1>14 DEF DrainFindsNothing, upstream, Membership
  <2> QED
    BY <1>3, <1>5, <2>1 DEF Processed
<1>15. CASE DrainEnds
  BY <1>1, <1>6, <1>15 DEF DrainEnds, upstream, Idle, Worker, Processed
<1>16. CASE TopDrains
  BY <1>1, <1>6, <1>16 DEF TopDrains, upstream, GoDrain, Idle, Worker, Processed
<1>17. CASE TakeFile
  BY <1>1, <1>6, <1>17 DEF TakeFile, upstream, Go, Worker, Processed
<1>18. CASE IdleFile
  BY <1>1, <1>6, <1>18 DEF IdleFile, upstream, GoDrain, Idle, Worker, Processed
<1>19. CASE SaveCheckpoint
  <2>1. Processed /\ UNCHANGED <<db, catalog>>
    BY <1>19 DEF SaveCheckpoint, Processed
  <2> QED
    BY <1>4, <2>1 DEF LoadedInv
<1>20. CASE Discard
  <2>1. catalog.roots \cap Changed = {} /\ UNCHANGED <<db, catalog>>
    BY <1>20 DEF Discard, QuickCheck, Retained
  <2> QED
    BY <1>4, <2>1 DEF LoadedInv
<1>21. CASE FilterFile
  <2>1. w'.pc \in {"filter", "roots", "filtered"} /\ w'.next \in {"start", w.next}
    BY <1>1, <1>21 DEF FilterFile, Worker, Idle
  <2> QED
    BY <1>6, <1>21, <2>1 DEF FilterFile, upstream, Processed
<1>22. CASE RefreshRoot
  BY <1>1, <1>6, <1>22 DEF RefreshRoot, upstream, Worker, Processed
<1>23. CASE RootNotFound
  BY <1>1, <1>6, <1>23 DEF RootNotFound, upstream, Idle, Worker, Processed
<1>24. CASE RootsRefreshed
  <2>1. Announced # {} /\ UNCHANGED <<db, catalog>>
    BY <1>24 DEF RootsRefreshed, ServedInv, OnRoots
  <2> QED
    BY <1>4, <2>1 DEF LoadedInv
<1>25. CASE ApplyFiltered
  <2>1. /\ UNCHANGED <<worlds, checkpoint, catalog>> /\ w.pc = "filtered" /\ Announced = {}
        /\ w'.pc = "commit" /\ w'.next = "start"
    BY <1>1, <1>25 DEF ApplyFiltered, upstream, FoundInv, Go, Worker
  <2>2. Waiting /\ After \in World
    BY <2>1, WorldsAt DEF AtHand
  <2>3. UNCHANGED <<After, Changed, Announced, Waiting>> /\ ~Processed'
    BY <1>2, <1>5, <2>1 DEF Processed
  <2>4. ASSUME NEW o \in catalog.roots, db'[o] = None PROVE o \in Changed
    <3>1. CASE o \in w.found.drop
      BY <2>1, <3>1 DEF FoundInv
    <3>2. CASE o \notin w.found.drop
      <4>1. w.found.put \in SUBSET Exists(After) /\ db \in World /\ o \in Object
        BY <1>1, <2>1 DEF FoundInv, TypeOK
      <4>2. Upsert(db, After, w.found.put) \in World
            /\ (db[o] # None => Upsert(db, After, w.found.put)[o] # None)
        BY <2>2, <4>1, UpsertKeeps
      <4>3. db[o] = None
        BY <1>25, <2>4, <3>2, <4>1, <4>2, DeleteKeeps DEF ApplyFiltered
      <4> QED
        BY <4>3 DEF LoadedInv
    <3> QED
      BY <3>1, <3>2
  <2> QED
    BY <2>1, <2>2, <2>3, <2>4 DEF LoadedInv
<1>26. CASE CommitDelta
  <2>1. w.pc = "commit" /\ db' = db
    BY <1>26 DEF CommitDelta
  <2>2. catalog'.roots \cap Changed = {} /\ catalog'.roots \subseteq catalog.roots
    <3>1. CASE NoEvents(w.found)
      BY <1>26, <2>1, <3>1 DEF CommitDelta, FoundInv, NoEvents
    <3>2. CASE ~NoEvents(w.found)
      BY <1>26, <2>1, <3>2 DEF CommitDelta, FoundInv
    <3> QED
      BY <3>1, <3>2
  <2> QED
    BY <1>4, <2>1, <2>2 DEF LoadedInv
<1>27. CASE FileArrives
  <2>1. UNCHANGED <<db, catalog, w>>
    BY <1>27 DEF FileArrives
  <2>2. Waiting => Waiting' /\ UNCHANGED <<Changed, Announced>>
    BY <1>27, ArrivesKeeps
  <2> QED
    BY <2>1, <2>2 DEF LoadedInv, Processed
<1>28. CASE PublicAdvances
  BY <1>6, <1>28 DEF PublicAdvances, Processed
<1>29. CASE Killed
  BY <1>1, <1>6, <1>29 DEF Killed, upstream, Idle, Worker, Processed
<1>30. CASE DrainFails
  BY <1>1, <1>6, <1>30 DEF DrainFails, upstream, Worker, Processed
<1>31. CASE RootQueryFails
  BY <1>1, <1>6, <1>31 DEF RootQueryFails, upstream, Idle, Worker, Processed
<1> QED
  BY <1>7, <1>8, <1>9, <1>10, <1>11, <1>12, <1>13, <1>14, <1>15, <1>16, <1>17, <1>18, <1>19,
     <1>20, <1>21, <1>22, <1>23, <1>24, <1>25, <1>26, <1>27, <1>28, <1>29, <1>30, <1>31
  DEF Next, Work

-----------------------------------------------------------------------------
(* The invariant, and what follows.                                        *)

LEMMA InitReplicatorInv ==
  ASSUME Init
  PROVE  ReplicatorInv
<1>1. PICK world \in InitialWorlds :
        /\ worlds = <<world>>
        /\ public = 1
        /\ db = [o \in Object |-> IF o \in Needed(world) THEN world[o] ELSE None]
        /\ catalog = BuildCatalog(world)
        /\ checkpoint = 0
        /\ queue = <<>>
        /\ w = Idle
  BY DEF Init
<1>2. world \in World /\ \A o \in Exists(world) : world[o].refs \subseteq Exists(world)
  BY ReplicatorAssumption
<1>3. /\ Len(worlds) = 1 /\ DOMAIN worlds = {1} /\ worlds[1] = world
      /\ Newest = world
  BY <1>1 DEF Newest
<1>4. catalog.roots = Tagged(world) /\ \A o \in Tagged(world) : db[o] # None
  BY <1>1, <1>2, NeededExists DEF BuildCatalog, Tagged, Exists
<1>5. w.pc = "start" /\ w.back = "start" /\ w.next = "start"
  BY <1>1 DEF Idle
<1>6. Continuity
  BY <1>3 DEF Continuity
<1>7. AtHand
  BY <1>5 DEF AtHand, OnRoots, Processed
<1>8. Known
  BY <1>1, <1>3, <1>4 DEF Known, Tagged
<1>9. FoundInv
  BY <1>5 DEF FoundInv
<1>10. ServedInv
  <2>1. RootsServed
    BY <1>1, <1>3, <1>4 DEF RootsServed
  <2> QED
    BY <1>5, <2>1 DEF ServedInv, OnRoots, Processed
<1>11. LoadedInv
  BY <1>4 DEF LoadedInv
<1> QED
  BY <1>6, <1>7, <1>8, <1>9, <1>10, <1>11 DEF ReplicatorInv

LEMMA ReplicatorAlways == Spec => [](TypeOK /\ ReplicatorInv)
<1>1. Init => TypeOK /\ ReplicatorInv
  BY InitType, InitReplicatorInv
<1>2. TypeOK /\ ReplicatorInv /\ [Next]_vars => (TypeOK /\ ReplicatorInv)'
  <2>1. ASSUME TypeOK, ReplicatorInv, Next PROVE (TypeOK /\ ReplicatorInv)'
    <3>1. Continuity /\ AtHand /\ Known /\ FoundInv /\ ServedInv /\ LoadedInv
      BY <2>1 DEF ReplicatorInv
    <3>2. TypeOK' /\ Continuity' /\ AtHand' /\ Known' /\ FoundInv'
      BY <2>1, <3>1, TypeStep, ContinuityStep, AtHandStep, KnownStep, FoundStep
    <3>3. ServedInv' /\ LoadedInv'
      BY <2>1, <3>1, <3>2, ServedStep, LoadedStep
    <3> QED
      BY <3>2, <3>3 DEF ReplicatorInv
  <2>2. ASSUME TypeOK, ReplicatorInv, UNCHANGED vars PROVE (TypeOK /\ ReplicatorInv)'
    BY <2>2 DEF vars, TypeOK, ReplicatorInv, Continuity, AtHand, Known, FoundInv, ServedInv,
       LoadedInv, RootsServed, OnRoots, Processed, Waiting, Has, Announced, Changed, After, Newest
  <2> QED
    BY <2>1, <2>2
<1> QED
  BY <1>1, <1>2, PTL DEF Spec

(* The variables of the replicator keep their types; a root has at most one *)
(* future in the queue of the pool (replicator.py, _schedule_due).         *)
THEOREM ReplicatorTypeCorrect == Spec => []TypeOK
<1> QED
  BY ReplicatorAlways, PTL

(* No restart, failing query, late answer or filtered file loses a root    *)
(* that is tagged, and that the next file does not untag: it is in the     *)
(* catalog and in the database as long as it exists (process_one,          *)
(* drain_ready).                                                           *)
THEOREM TaggedIsServed == Spec => []RootsServed
<1>1. ReplicatorInv => RootsServed
  BY DEF ReplicatorInv, ServedInv
<1> QED
  BY <1>1, ReplicatorAlways, PTL

(* A root that the catalog lists is in the database, unless the file at    *)
(* hand removes it, whatever restarts come between the database and the    *)
(* catalog (apply_remote_refresh, commit_delta).                           *)
THEOREM CatalogIsLoaded == Spec => []RootsLoaded
<1>1. TypeOK /\ ReplicatorInv => RootsLoaded
  <2> SUFFICES ASSUME TypeOK, LoadedInv, NEW o \in catalog.roots, db[o] = None
               PROVE  checkpoint + 1 < Len(worlds) /\ o \in Changed \ Tagged(After)
    BY DEF ReplicatorInv, RootsLoaded
  <2>1. Waiting /\ o \in Changed /\ Announced = {}
    BY DEF LoadedInv
  <2> QED
    BY <2>1 DEF Waiting, Announced
<1> QED
  BY <1>1, ReplicatorAlways, PTL

(* Every dependency that the file changes is in what the filter emits,     *)
(* also one that was discovered behind its place in the file: the passes   *)
(* of process_one, with --include, suffice (replicator.py, osc_filter.py). *)
THEOREM LastPassSuffices == Spec => []DependenciesEmitted
<1>1. ReplicatorInv => DependenciesEmitted
  BY DEF ReplicatorInv, FoundInv, DependenciesEmitted
<1> QED
  BY <1>1, ReplicatorAlways, PTL
=============================================================================
