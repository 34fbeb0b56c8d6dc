----------------------- MODULE TaskDependenciesProofs -----------------------
(***************************************************************************)
(* What the dependency walk of TaskDependencies computes, for every graph   *)
(* and every depth.  Facts about a recursive function are proved by         *)
(* induction in the form of sets: a set that holds 0 and, with a number,    *)
(* the next one, holds all of Nat.                                          *)
(***************************************************************************)
EXTENDS TaskDependencies, Integers, WellFoundedInduction, TLAPS

\* A set of naturals that is not empty has a least element.
LEMMA LeastElement ==
  ASSUME NEW T \in SUBSET Nat, T # {}
  PROVE  \E x \in T : \A y \in T : x <= y
<1> DEFINE R == OpToRel(<, Nat)
<1>1. IsWellFoundedOn(R, Nat)
  BY NatLessThanWellFounded
<1>2. \A x, y \in Nat : x < y => <<x, y>> \in R
  BY DEF OpToRel
<1> HIDE DEF R
<1>3. PICK x \in T : \A y \in T : ~ (<<y, x>> \in R)
  BY <1>1, WFMin
<1>4. \A y \in T : ~ (y < x)
  BY <1>2, <1>3
<1>5. \A y \in T : x <= y
  BY <1>4
<1> QED BY <1>5

\* Induction over the naturals, for a set.
LEMMA SetInduction ==
  ASSUME NEW T, 0 \in T, \A n \in Nat : n \in T => n + 1 \in T
  PROVE  Nat \subseteq T
<1> DEFINE B == {n \in Nat : n \notin T}
<1> SUFFICES ASSUME B # {} PROVE FALSE
  OBVIOUS
<1>1. PICK x \in B : \A y \in B : x <= y
  BY LeastElement
<1>2. x # 0 /\ x \in Nat /\ x \notin T
  OBVIOUS
<1>3. x - 1 \in Nat /\ x - 1 \notin B
  BY <1>1, <1>2
<1>4. (x - 1) + 1 \in T
  BY <1>3
<1> QED BY <1>2, <1>4

-----------------------------------------------------------------------------
(* The cursor of the walk.                                                 *)

\* One position of the walk, from the one before it.
Position(t, dep, rows, c, k) ==
  IF k = 0 THEN t ELSE IF c[k - 1] \in rows THEN dep[c[k - 1]] ELSE NoTask

\* The function f satisfies the recursive equation of Chain up to position n.
IsWalk(f, t, dep, rows, n) == f = [k \in 0..n |-> Position(t, dep, rows, f, k)]

\* There is such a function.
LEMMA WalkExists ==
  ASSUME NEW t, NEW dep, NEW rows, NEW m \in Nat
  PROVE  \E f : IsWalk(f, t, dep, rows, m)
<1> DEFINE T == {n \in Nat : \E f : f = [k \in 0..n |-> Position(t, dep, rows, f, k)]}
<1>1. 0 \in T
  <2> DEFINE f == [k \in 0..0 |-> t]
  <2>1. f = [k \in 0..0 |-> Position(t, dep, rows, f, k)]
    BY DEF Position
  <2> QED BY <2>1
<1>2. \A n \in Nat : n \in T => n + 1 \in T
  <2> SUFFICES ASSUME NEW n \in Nat, n \in T
               PROVE  \E g : g = [k \in 0..(n + 1) |-> Position(t, dep, rows, g, k)]
    OBVIOUS
  <2>1. PICK f : f = [k \in 0..n |-> Position(t, dep, rows, f, k)]
    OBVIOUS
  <2> DEFINE g == [k \in 0..(n + 1) |-> IF k \in 0..n THEN f[k] ELSE Position(t, dep, rows, f, k)]
  <2>2. ASSUME NEW k \in 0..(n + 1) PROVE g[k] = Position(t, dep, rows, g, k)
    <3>1. k # 0 => g[k - 1] = f[k - 1]
      OBVIOUS
    <3>2. g[k] = Position(t, dep, rows, f, k)
      BY <2>1
    <3> QED BY <3>1, <3>2 DEF Position
  <2>3. g = [k \in 0..(n + 1) |-> g[k]]
    OBVIOUS
  <2> HIDE DEF g
  <2>4. g = [k \in 0..(n + 1) |-> Position(t, dep, rows, g, k)]
    BY <2>2, <2>3
  <2> QED BY <2>4
<1> HIDE DEF T
<1>3. Nat \subseteq T
  BY <1>1, <1>2, SetInduction
<1>4. m \in T
  BY <1>3
<1> QED BY <1>4 DEF T, IsWalk

\* So Chain is that function.
LEMMA ChainDef ==
  ASSUME NEW t, NEW dep, NEW rows, NEW depth \in Nat
  PROVE  Chain(t, dep, rows, depth) =
           [k \in 0..(depth + 1) |-> Position(t, dep, rows, Chain(t, dep, rows, depth), k)]
<1>1. \E f : IsWalk(f, t, dep, rows, depth + 1)
  BY WalkExists
<1> DEFINE c == CHOOSE f : IsWalk(f, t, dep, rows, depth + 1)
<1>2. IsWalk(c, t, dep, rows, depth + 1)
  BY <1>1
<1>3. Chain(t, dep, rows, depth) = c
  BY DEF Chain, Position, IsWalk
<1> HIDE DEF c
<1> QED BY <1>2, <1>3 DEF IsWalk

\* Its positions.
LEMMA ChainAt ==
  ASSUME NEW t, NEW dep, NEW rows, NEW depth \in Nat
  PROVE  LET c == Chain(t, dep, rows, depth) IN
         /\ c[0] = t /\ c[1] = (IF t \in rows THEN dep[t] ELSE NoTask)
         /\ \A k \in 0..depth : c[k + 1] = IF c[k] \in rows THEN dep[c[k]] ELSE NoTask
<1> DEFINE c == Chain(t, dep, rows, depth)
<1>1. c = [k \in 0..(depth + 1) |-> Position(t, dep, rows, c, k)]
  BY ChainDef
<1> HIDE DEF c
<1>2. c[0] = t
  BY <1>1 DEF Position
<1>3. ASSUME NEW k \in 0..depth PROVE c[k + 1] = IF c[k] \in rows THEN dep[c[k]] ELSE NoTask
  <2>1. k + 1 \in 0..(depth + 1) /\ k + 1 # 0 /\ (k + 1) - 1 = k
    OBVIOUS
  <2>2. c[k + 1] = Position(t, dep, rows, c, k + 1)
    BY <1>1, <2>1
  <2> QED BY <2>1, <2>2 DEF Position
<1>4. c[0 + 1] = IF c[0] \in rows THEN dep[c[0]] ELSE NoTask
  BY <1>3
<1> QED BY <1>2, <1>3, <1>4 DEF c

\* The walk of a table whose dependencies have rows stays in the table.
LEMMA ChainStays ==
  ASSUME NEW t, NEW dep, NEW rows, NEW depth \in Nat, t \in rows,
         \A u \in rows : dep[u] \in rows \cup {NoTask}
  PROVE  \A k \in 0..(depth + 1) : Chain(t, dep, rows, depth)[k] \in rows \cup {NoTask}
<1> DEFINE c == Chain(t, dep, rows, depth)
           T == {k \in Nat : k \in 0..(depth + 1) => c[k] \in rows \cup {NoTask}}
<1> HIDE DEF c
<1>1. c[0] = t /\ \A k \in 0..depth : c[k + 1] = IF c[k] \in rows THEN dep[c[k]] ELSE NoTask
  BY ChainAt DEF c
<1>2. 0 \in T
  BY <1>1
<1>3. ASSUME NEW n \in Nat, n \in T PROVE n + 1 \in T
  BY <1>1, <1>3
<1> HIDE DEF T
<1>4. Nat \subseteq T
  BY <1>2, <1>3, SetInduction
<1> QED BY <1>4 DEF T, c

\* Rows that are added leave the walks of the others as they are.
LEMMA ChainStable ==
  ASSUME NEW t, NEW dep, NEW rows, NEW depth \in Nat, t \in rows,
         \A u \in rows : dep[u] \in rows \cup {NoTask},
         NEW dep2, NEW rows2, rows \subseteq rows2, NoTask \notin rows2,
         \A u \in rows : dep2[u] = dep[u]
  PROVE  \A k \in 0..(depth + 1) : Chain(t, dep2, rows2, depth)[k] = Chain(t, dep, rows, depth)[k]
<1> DEFINE c == Chain(t, dep, rows, depth)
           d == Chain(t, dep2, rows2, depth)
           T == {k \in Nat : k \in 0..(depth + 1) => d[k] = c[k]}
<1> HIDE DEF c, d
<1>1. c[0] = t /\ \A k \in 0..depth : c[k + 1] = IF c[k] \in rows THEN dep[c[k]] ELSE NoTask
  BY ChainAt DEF c
<1>2. d[0] = t /\ \A k \in 0..depth : d[k + 1] = IF d[k] \in rows2 THEN dep2[d[k]] ELSE NoTask
  BY ChainAt DEF d
<1>3. \A k \in 0..(depth + 1) : c[k] \in rows \cup {NoTask}
  BY ChainStays DEF c
<1>4. 0 \in T
  BY <1>1, <1>2
<1>5. ASSUME NEW n \in Nat, n \in T PROVE n + 1 \in T
  BY <1>1, <1>2, <1>3, <1>5
<1> HIDE DEF T
<1>6. Nat \subseteq T
  BY <1>4, <1>5, SetInduction
<1> QED BY <1>6 DEF T, c, d

-----------------------------------------------------------------------------
(* The verdict.                                                            *)

\* Where the walk ends.
Ends(t, dep, node, rows, depth) ==
  {k \in 1..(depth + 1) : Stops(k, t, Chain(t, dep, rows, depth), dep, node, rows, depth)}

\* The first place where it ends.
FirstEnd(t, dep, node, rows, depth) ==
  CHOOSE i \in Ends(t, dep, node, rows, depth) :
    \A j \in Ends(t, dep, node, rows, depth) : i <= j

\* A walk that ends has a first end.
LEMMA FirstEndIsEnd ==
  ASSUME NEW t, NEW dep, NEW node, NEW rows, NEW depth \in Nat,
         Ends(t, dep, node, rows, depth) # {}
  PROVE  /\ FirstEnd(t, dep, node, rows, depth) \in Ends(t, dep, node, rows, depth)
         /\ \A j \in Ends(t, dep, node, rows, depth) : FirstEnd(t, dep, node, rows, depth) <= j
<1> DEFINE E == Ends(t, dep, node, rows, depth)
<1>1. E \in SUBSET Nat
  BY DEF Ends
<1> HIDE DEF E
<1>2. \E i \in E : \A j \in E : i <= j
  BY <1>1, LeastElement DEF E
<1> QED BY <1>2 DEF E, FirstEnd

\* The verdict, in terms of where the walk ends.
LEMMA VerdictDef ==
  ASSUME NEW t, NEW dep, NEW node, NEW rows, NEW depth
  PROVE  LET c == Chain(t, dep, rows, depth)
             k == FirstEnd(t, dep, node, rows, depth)
         IN  ChainVerdict(t, dep, node, rows, depth) =
               IF dep[t] = NoTask THEN "none"
               ELSE IF Ends(t, dep, node, rows, depth) = {} THEN "deep"
               ELSE IF Missing(k, c, rows) THEN "missing"
               ELSE IF Foreign(k, c, node, t) THEN "foreign"
               ELSE IF Repeated(k, c, depth) THEN "cycle"
               ELSE "ok"
BY DEF ChainVerdict, Ends, FirstEnd

\* Only a task that depends on nothing has no chain.
LEMMA VerdictNone ==
  ASSUME NEW t, NEW dep, NEW node, NEW rows, NEW depth
  PROVE  ChainVerdict(t, dep, node, rows, depth) = "none" <=> dep[t] = NoTask
BY VerdictDef

\* The verdict on a task never changes: rows that are created later, by any
\* handler, are on no walk that began before them.
LEMMA VerdictStable ==
  ASSUME NEW t, NEW dep, NEW node, NEW rows, NEW depth \in Nat, t \in rows,
         \A u \in rows : dep[u] \in rows \cup {NoTask},
         NEW dep2, NEW rows2, rows \subseteq rows2, NoTask \notin rows2,
         \A u \in rows : dep2[u] = dep[u]
  PROVE  ChainVerdict(t, dep2, node, rows2, depth) = ChainVerdict(t, dep, node, rows, depth)
<1> DEFINE c == Chain(t, dep, rows, depth)
           d == Chain(t, dep2, rows2, depth)
           E == Ends(t, dep, node, rows, depth)
           F == Ends(t, dep2, node, rows2, depth)
           k == FirstEnd(t, dep, node, rows, depth)
           l == FirstEnd(t, dep2, node, rows2, depth)
<1> HIDE DEF c, d, E, F, k, l
<1>1. \A j \in 0..(depth + 1) : d[j] = c[j] /\ c[j] \in rows \cup {NoTask}
  BY ChainStable, ChainStays DEF c, d
<1>2. ASSUME NEW j \in 1..(depth + 1)
      PROVE  /\ Missing(j, c, rows) <=> Missing(j, d, rows2)
             /\ Foreign(j, c, node, t) <=> Foreign(j, d, node, t)
             /\ Repeated(j, c, depth) <=> Repeated(j, d, depth)
             /\ ~ Missing(j, c, rows) =>
                  (Root(j, c, dep, depth) <=> Root(j, d, dep2, depth))
  <2>1. j \in 0..(depth + 1) /\ \A i \in 0..(j - 1) : i \in 0..(depth + 1)
    OBVIOUS
  <2>2. Missing(j, c, rows) <=> Missing(j, d, rows2)
    BY <1>1, <2>1 DEF Missing
  <2>3. Foreign(j, c, node, t) <=> Foreign(j, d, node, t)
    BY <1>1, <2>1 DEF Foreign
  <2>4. Repeated(j, c, depth) <=> Repeated(j, d, depth)
    BY <1>1, <2>1 DEF Repeated
  <2>5. ~ Missing(j, c, rows) => (Root(j, c, dep, depth) <=> Root(j, d, dep2, depth))
    BY <1>1, <2>1 DEF Missing, Root
  <2> QED BY <2>2, <2>3, <2>4, <2>5
<1>3. E = F
  BY <1>2 DEF E, F, Ends, Stops, c, d
<1>4. k = l
  BY <1>3 DEF k, l, E, F, FirstEnd
<1>5. E # {} => k \in 1..(depth + 1)
  BY FirstEndIsEnd DEF E, k, Ends
<1>6. dep2[t] = dep[t]
  OBVIOUS
<1>7. ChainVerdict(t, dep, node, rows, depth) =
        IF dep[t] = NoTask THEN "none" ELSE IF E = {} THEN "deep"
        ELSE IF Missing(k, c, rows) THEN "missing" ELSE IF Foreign(k, c, node, t) THEN "foreign"
        ELSE IF Repeated(k, c, depth) THEN "cycle" ELSE "ok"
  BY VerdictDef DEF c, E, k
<1>8. ChainVerdict(t, dep2, node, rows2, depth) =
        IF dep2[t] = NoTask THEN "none" ELSE IF F = {} THEN "deep"
        ELSE IF Missing(l, d, rows2) THEN "missing" ELSE IF Foreign(l, d, node, t) THEN "foreign"
        ELSE IF Repeated(l, d, depth) THEN "cycle" ELSE "ok"
  BY VerdictDef DEF d, F, l
<1> QED BY <1>2, <1>3, <1>4, <1>5, <1>6, <1>7, <1>8
=============================================================================
