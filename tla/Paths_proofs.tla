---------------------------- MODULE Paths_proofs ----------------------------
(***************************************************************************)
(* Facts about functions defined by recursion on 0 .. N, and about the nodes   *)
(* on the paths of a finite graph.  They carry the proofs that the analyses    *)
(* compute what they mean.                                                   *)
(*                                                                         *)
(* Induction is stated for a set S in place of a predicate: to show P(n) for   *)
(* every n up to N, cite it with {n \in 0 .. N : P(n)} for S.                 *)
(***************************************************************************)
EXTENDS Wtac, FiniteSetTheorems, WellFoundedInduction, TLAPS

\* Every nonempty set of natural numbers has a least element.
LEMMA Smallest ==
  ASSUME NEW T, T \subseteq Nat, T # {}
  PROVE  \E x \in T : \A y \in T : ~(y < x)
<1> DEFINE Less == OpToRel(<, Nat)
<1>1. IsWellFoundedOn(Less, Nat)
  BY NatLessThanWellFounded
<1>2. \A x, y \in Nat : x < y => <<x, y>> \in Less
  BY DEF OpToRel
<1> HIDE DEF Less
<1>3. \E x \in T : \A y \in T : ~(<<y, x>> \in Less)
  BY <1>1, WFMin
<1> QED
  BY <1>2, <1>3

\* Induction up to N.
LEMMA UpTo ==
  ASSUME NEW N \in Nat, NEW S, 0 \in S, \A n \in 1 .. N : n - 1 \in S => n \in S
  PROVE  0 .. N \subseteq S
<1> DEFINE T == (0 .. N) \ S
<1>1. CASE T = {}
  BY <1>1
<1>2. CASE T # {}
  <2>1. T \subseteq Nat
    OBVIOUS
  <2>2. PICK n \in T : \A m \in T : ~(m < n)
    <3> HIDE DEF T
    <3> QED
      BY <1>2, <2>1, Smallest
  <2> QED
    BY <2>2
<1> QED
  BY <1>1, <1>2

Steps(N, V) == [1 .. N -> [V -> V]]

\* The values a recursion on 0 .. N goes through.
IsTrace(f, N, V, base, step) ==
  /\ f \in [0 .. N -> V]
  /\ f[0] = base
  /\ \A n \in 1 .. N : f[n] = step[n][f[n - 1]]

\* A function defined by recursion on 0 .. N exists, whatever its n-th step does.
LEMMA IterationExists ==
  ASSUME NEW N \in Nat, NEW V, NEW base \in V, NEW step \in Steps(N, V)
  PROVE  \E f : IsTrace(f, N, V, base, step)
<1> USE DEF Steps
<1> DEFINE Traces(n) ==
      {f \in [0 .. n -> V] : f[0] = base /\ \A i \in 1 .. n : f[i] = step[i][f[i - 1]]}
<1> DEFINE S == {n \in 0 .. N : Traces(n) # {}}
<1>1. 0 \in S
  <2>1. [n \in 0 .. 0 |-> base] \in Traces(0)
    OBVIOUS
  <2> QED
    BY <2>1
<1>2. ASSUME NEW n \in 1 .. N, n - 1 \in S PROVE n \in S
  <2>1. PICK f \in [0 .. (n - 1) -> V] :
          f[0] = base /\ \A i \in 1 .. (n - 1) : f[i] = step[i][f[i - 1]]
    BY <1>2
  <2> DEFINE g == [i \in 0 .. n |-> IF i = n THEN step[n][f[n - 1]] ELSE f[i]]
  <2>2. step[n] \in [V -> V] /\ f[n - 1] \in V
    BY <2>1
  <2>3. step[n][f[n - 1]] \in V
    BY <2>2
  <2>4. g \in [0 .. n -> V]
    BY <2>1, <2>3
  <2>5. g[0] = base /\ \A i \in 1 .. n : g[i] = step[i][g[i - 1]]
    BY <2>1
  <2>6. g \in Traces(n)
    BY <2>4, <2>5
  <2> HIDE DEF g, Traces
  <2> QED
    BY <2>6
<1> HIDE DEF S
<1>3. N \in S
  <2>1. 0 .. N \subseteq S
    BY <1>1, <1>2, UpTo
  <2> QED
    BY <2>1
<1>4. \E f \in [0 .. N -> V] :
        f[0] = base /\ \A i \in 1 .. N : f[i] = step[i][f[i - 1]]
  BY <1>3 DEF S
<1> QED
  BY <1>4 DEF IsTrace

-----------------------------------------------------------------------------

IsGraph(P, next) == IsFiniteSet(P) /\ next \in [P -> SUBSET P]

\* The rounds of ReachedFrom.
AreRounds(reach, P, next, from) ==
  /\ reach \in [0 .. Cardinality(P) -> SUBSET P]
  /\ ReachedFrom(from, next) = reach[Cardinality(P)]
  /\ reach[0] = from
  /\ \A n \in 1 .. Cardinality(P) :
       reach[n] = reach[n - 1] \cup UNION {next[p] : p \in reach[n - 1]}

\* There is a function that computes the nodes reached in each number of rounds.
LEMMA Rounds ==
  ASSUME NEW P, NEW next, IsGraph(P, next), NEW from, from \subseteq P
  PROVE  \E reach : AreRounds(reach, P, next, from)
<1> DEFINE N == Cardinality(P)
<1> DEFINE V == SUBSET P
<1> DEFINE Grow(R) == R \cup UNION {next[p] : p \in R}
<1> DEFINE IsReach(f) == f = [n \in 0 .. N |-> IF n = 0 THEN from ELSE Grow(f[n - 1])]
<1> DEFINE step == [n \in 1 .. N |-> [R \in V |-> Grow(R)]]
<1> DEFINE reach == CHOOSE g : IsReach(g)
<1> USE DEF IsGraph
<1>1. N \in Nat
  BY FS_CardinalityType
<1>2. \A R \in V : Grow(R) \in V
  OBVIOUS
<1>3. from \in V
  OBVIOUS
<1>4. ReachedFrom(from, next) = reach[N]
  BY DEF ReachedFrom
<1> HIDE DEF N, V, Grow, reach
<1>5. step \in Steps(N, V)
  BY <1>2 DEF Steps
<1>6. PICK f : IsTrace(f, N, V, from, step)
  <2> HIDE DEF step
  <2> QED
    BY <1>1, <1>3, <1>5, IterationExists
<1>7. \A n \in 0 .. N : n # 0 => n \in 1 .. N /\ n - 1 \in 0 .. N
  BY <1>1
<1>8. \A n \in 1 .. N : step[n][f[n - 1]] = Grow(f[n - 1])
  <2>1. \A n \in 1 .. N : f[n - 1] \in V
    BY <1>1, <1>6 DEF IsTrace
  <2> QED
    BY <2>1
<1>9. IsReach(f)
  <2> HIDE DEF step
  <2> QED
    BY <1>6, <1>7, <1>8 DEF IsTrace
<1>10. IsReach(reach)
  <2> HIDE DEF IsReach
  <2> QED
    BY <1>9 DEF reach
<1>11. reach[0] = from /\ \A n \in 1 .. N : reach[n] = Grow(reach[n - 1])
  BY <1>1, <1>7, <1>10
<1> DEFINE S == {n \in 0 .. N : reach[n] \in V}
<1>12. 0 .. N \subseteq S
  <2>1. 0 \in S
    BY <1>1, <1>3, <1>11
  <2>2. ASSUME NEW n \in 1 .. N, n - 1 \in S PROVE n \in S
    BY <1>1, <1>2, <1>11, <2>2
  <2> HIDE DEF S
  <2> QED
    BY <1>1, <2>1, <2>2, UpTo
<1>13. reach \in [0 .. N -> V]
  BY <1>10, <1>12
<1> QED
  BY <1>4, <1>11, <1>13 DEF N, V, Grow, AreRounds

\* ReachedFrom is the smallest set that contains `from` and is closed under next:
\* each round adds a node unless there is none to add.
LEMMA ReachedLeast ==
  ASSUME NEW P, NEW next, IsGraph(P, next), NEW from, from \subseteq P
  PROVE  LET R == ReachedFrom(from, next)
         IN  /\ from \subseteq R /\ R \subseteq P
             /\ \A p \in R : next[p] \subseteq R
             /\ \A S : from \subseteq S /\ (\A p \in S \cap P : next[p] \subseteq S)
                         => R \subseteq S
<1> DEFINE N == Cardinality(P)
<1> DEFINE Grow(R) == R \cup UNION {next[p] : p \in R}
<1>1. N \in Nat
  BY FS_CardinalityType DEF IsGraph
<1>0. PICK reach : AreRounds(reach, P, next, from)
  BY Rounds
<1>2. /\ reach \in [0 .. N -> SUBSET P]
      /\ ReachedFrom(from, next) = reach[N]
      /\ reach[0] = from
      /\ \A n \in 1 .. N : reach[n] = Grow(reach[n - 1])
  BY <1>0 DEF AreRounds
<1> HIDE DEF N
<1> DEFINE R == reach[N]
<1>3. \A n \in 0 .. N : n # 0 => n \in 1 .. N /\ n - 1 \in 0 .. N
  BY <1>1
<1>4. \A n \in 0 .. N : reach[n] \subseteq P
  BY <1>1, <1>2
\* The start is never lost.
<1>5. from \subseteq R
  <2> DEFINE T == {n \in 0 .. N : from \subseteq reach[n]}
  <2>1. 0 \in T
    BY <1>1, <1>2
  <2>2. ASSUME NEW n \in 1 .. N, n - 1 \in T PROVE n \in T
    BY <1>1, <1>2, <2>2
  <2> HIDE DEF T
  <2>3. N \in T
    <3>1. 0 .. N \subseteq T
      BY <1>1, <2>1, <2>2, UpTo
    <3> QED
      BY <1>1, <3>1
  <2> QED
    BY <2>3 DEF T
\* Nothing is added that has to be.
<1>6. ASSUME NEW S, from \subseteq S, \A p \in S \cap P : next[p] \subseteq S
      PROVE  R \subseteq S
  <2> DEFINE T == {n \in 0 .. N : reach[n] \subseteq S}
  <2>1. 0 \in T
    BY <1>1, <1>2, <1>6
  <2>2. ASSUME NEW n \in 1 .. N, n - 1 \in T PROVE n \in T
    <3>1. reach[n - 1] \subseteq S \cap P
      BY <1>3, <1>4, <2>2
    <3>2. Grow(reach[n - 1]) \subseteq S
      BY <1>6, <3>1
    <3> QED
      BY <1>1, <1>2, <3>2
  <2> HIDE DEF T
  <2>3. N \in T
    <3>1. 0 .. N \subseteq T
      BY <1>1, <2>1, <2>2, UpTo
    <3> QED
      BY <1>1, <3>1
  <2> QED
    BY <2>3 DEF T
\* A round that adds nothing is the last to; one that does adds a node.
<1>7. Grow(R) \subseteq R
  <2> DEFINE T == {n \in 0 .. N :
                     Grow(reach[n]) \subseteq reach[n] \/ Cardinality(reach[n]) >= n}
  <2>1. \A n \in 0 .. N : IsFiniteSet(reach[n]) /\ Cardinality(reach[n]) \in Nat
    BY <1>4, FS_Subset, FS_CardinalityType DEF IsGraph
  <2>2. 0 \in T
    BY <1>1, <2>1
  <2>3. ASSUME NEW n \in 1 .. N, n - 1 \in T PROVE n \in T
    <3> DEFINE before == reach[n - 1]
    <3>0. n - 1 \in 0 .. N /\ n \in 0 .. N
      BY <1>1
    <3>1. reach[n] = Grow(before) /\ before \subseteq reach[n]
      BY <1>2
    <3>2. CASE Grow(before) \subseteq before
      <4>1. reach[n] = before
        BY <3>1, <3>2
      <4> QED
        BY <3>0, <3>2, <4>1
    <3>3. CASE ~(Grow(before) \subseteq before)
      <4>1. Cardinality(before) >= n - 1
        BY <2>3, <3>3
      <4>2. before # reach[n]
        BY <3>1, <3>3
      <4> HIDE DEF before
      <4>3. Cardinality(before) < Cardinality(reach[n])
        <5>1. /\ Cardinality(before) <= Cardinality(reach[n])
              /\ Cardinality(before) = Cardinality(reach[n]) => before = reach[n]
          BY <2>1, <3>0, <3>1, FS_Subset
        <5> QED
          BY <2>1, <3>0, <4>2, <5>1 DEF before
      <4>4. Cardinality(reach[n]) >= n
        BY <2>1, <3>0, <4>1, <4>3 DEF before
      <4> QED
        BY <3>0, <4>4
    <3> QED
      BY <3>2, <3>3
  <2>4. N \in T
    <3> HIDE DEF T
    <3>1. 0 .. N \subseteq T
      BY <1>1, <2>2, <2>3, UpTo
    <3> QED
      BY <1>1, <3>1
  <2>5. CASE Cardinality(R) >= N
    <3>1. N \in 0 .. N
      BY <1>1
    <3>2. Cardinality(R) <= N /\ (Cardinality(R) = N => R = P)
      BY <1>4, <3>1, FS_Subset DEF IsGraph, N
    <3>3. R = P
      BY <1>1, <2>1, <2>5, <3>1, <3>2
    <3> QED
      BY <3>3 DEF IsGraph
  <2> QED
    BY <2>4, <2>5
<1>8. \A p \in R : next[p] \subseteq R
  BY <1>7
<1>9. R \subseteq P
  BY <1>1, <1>4
<1> QED
  BY <1>2, <1>5, <1>6, <1>8, <1>9

\* No path leaves the graph.
LEMMA ReachedInside ==
  ASSUME NEW P, NEW next, IsGraph(P, next), NEW from, from \subseteq P
  PROVE  ReachedFrom(from, next) \subseteq P
BY ReachedLeast

\* A path from p is p, or goes on from one of the nodes next to p.
LEMMA FirstStep ==
  ASSUME NEW P, NEW next, IsGraph(P, next), NEW p \in P
  PROVE  ReachedFrom({p}, next) = {p} \cup UNION {ReachedFrom({q}, next) : q \in next[p]}
<1> DEFINE R(q) == ReachedFrom({q}, next)
<1> DEFINE S == {p} \cup UNION {R(q) : q \in next[p]}
<1>1. \A q \in P : /\ q \in R(q) /\ R(q) \subseteq P
                   /\ \A r \in R(q) : next[r] \subseteq R(q)
                   /\ \A T : q \in T /\ (\A r \in T \cap P : next[r] \subseteq T)
                               => R(q) \subseteq T
  BY ReachedLeast
<1>2. next[p] \subseteq P
  BY DEF IsGraph
<1> HIDE DEF R
<1>3. R(p) \subseteq S
  <2>1. \A r \in S : next[r] \subseteq S
    BY <1>1, <1>2
  <2>2. p \in S
    OBVIOUS
  <2> HIDE DEF S
  <2> QED
    BY <1>1, <2>1, <2>2
<1>4. ASSUME NEW q \in next[p] PROVE R(q) \subseteq R(p)
  <2>1. q \in R(p)
    BY <1>1
  <2> QED
    BY <1>1, <1>2, <2>1
<1>5. S \subseteq R(p)
  BY <1>1, <1>4
<1> QED
  BY <1>3, <1>5 DEF R

\* What a path reaches it starts at, or steps to from another node it reaches.
LEMMA LastStep ==
  ASSUME NEW P, NEW next, IsGraph(P, next), NEW from, from \subseteq P
  PROVE  ReachedFrom(from, next) = from \cup UNION {next[q] : q \in ReachedFrom(from, next)}
<1> DEFINE R == ReachedFrom(from, next)
<1> DEFINE S == from \cup UNION {next[q] : q \in R}
<1>1. /\ from \subseteq R
      /\ \A q \in R : next[q] \subseteq R
      /\ \A T : from \subseteq T /\ (\A q \in T \cap P : next[q] \subseteq T) => R \subseteq T
  BY ReachedLeast
<1> HIDE DEF R
<1>2. S \subseteq R
  BY <1>1
<1>3. \A q \in S : next[q] \subseteq S
  BY <1>2
<1>4. R \subseteq S
  BY <1>1, <1>3
<1> QED
  BY <1>2, <1>4 DEF R

-----------------------------------------------------------------------------
\* The points of a control flow graph: <<b, n>> is the place in block b with n
\* instructions before it.

IsCode(c) ==
  /\ IsFiniteSet(c.blocks)
  /\ c.preds \in [c.blocks -> SUBSET c.blocks]
  /\ c.succs \in [c.blocks -> SUBSET c.blocks]
  /\ \A a, b \in c.blocks : a \in c.preds[b] <=> b \in c.succs[a]
  /\ \A b \in c.blocks : Len(c.code[b]) \in Nat

PointsOf(c) == UNION {{b} \X (0 .. Len(c.code[b])) : b \in c.blocks}

\* From point to point, but past an instruction only from a point in K.
PointGraph(c, K) ==
  [p \in PointsOf(c) |->
     IF p[2] < Len(c.code[p[1]]) THEN (IF p \in K THEN {<<p[1], p[2] + 1>>} ELSE {})
     ELSE {<<b, 0>> : b \in c.succs[p[1]]}]

\* The points are the places before, between and behind the instructions of a block.
LEMMA PointIs ==
  ASSUME NEW c
  PROVE  /\ \A p \in PointsOf(c) : /\ p = <<p[1], p[2]>> /\ p[1] \in c.blocks
                                   /\ p[2] \in 0 .. Len(c.code[p[1]])
         /\ \A b \in c.blocks : \A n \in 0 .. Len(c.code[b]) : <<b, n>> \in PointsOf(c)
BY DEF PointsOf

\* There are finitely many points.
LEMMA PointsFinite ==
  ASSUME NEW c, IsCode(c)
  PROVE  IsFiniteSet(PointsOf(c))
<1> DEFINE part == [b \in c.blocks |-> {b} \X (0 .. Len(c.code[b]))]
<1> DEFINE Parts == {{b} \X (0 .. Len(c.code[b])) : b \in c.blocks}
<1>1. ASSUME NEW b \in c.blocks PROVE IsFiniteSet({b} \X (0 .. Len(c.code[b])))
  <2>1. IsFiniteSet({b})
    BY FS_Singleton
  <2>2. Len(c.code[b]) \in Int
    BY DEF IsCode
  <2> DEFINE m == Len(c.code[b])
  <2> HIDE DEF m
  <2>3. IsFiniteSet(0 .. m)
    BY <2>2, FS_Interval DEF m
  <2> DEFINE T == 0 .. m
  <2> DEFINE B == {b}
  <2>4. IsFiniteSet(B \X T)
    <3> HIDE DEF T, B
    <3>1. IsFiniteSet(T) /\ IsFiniteSet(B)
      BY <2>1, <2>3 DEF T, B
    <3> QED
      BY <3>1, FS_Product
  <2> QED
    BY <2>4 DEF m
<1>2. part \in Surjection(c.blocks, Parts)
  BY DEF Surjection
<1> HIDE DEF part, Parts
<1>3. IsFiniteSet(Parts)
  BY <1>2, FS_Surjection DEF IsCode
<1>4. \A T \in Parts : IsFiniteSet(T)
  BY <1>1 DEF Parts
<1>5. IsFiniteSet(UNION Parts)
  BY <1>3, <1>4, FS_UNION
<1> QED
  BY <1>5 DEF PointsOf, Parts

\* The graph of points: through a block as far as K goes, and from its end to the
\* starts of its successors.
LEMMA PointGraphIs ==
  ASSUME NEW c, IsCode(c), NEW K
  PROVE  /\ IsGraph(PointsOf(c), PointGraph(c, K))
         /\ \A b \in c.blocks : \A n \in 1 .. Len(c.code[b]) :
              PointGraph(c, K)[<<b, n - 1>>] = IF <<b, n - 1>> \in K THEN {<<b, n>>} ELSE {}
         /\ \A b \in c.blocks :
              PointGraph(c, K)[<<b, Len(c.code[b])>>] = {<<a, 0>> : a \in c.succs[b]}
<1> DEFINE next == PointGraph(c, K)
<1>1. ASSUME NEW b \in c.blocks, NEW n \in 1 .. Len(c.code[b])
      PROVE  next[<<b, n - 1>>] = IF <<b, n - 1>> \in K THEN {<<b, n>>} ELSE {}
  <2>1. Len(c.code[b]) \in Nat
    BY DEF IsCode
  <2>2. n - 1 \in 0 .. Len(c.code[b]) /\ n - 1 < Len(c.code[b]) /\ n - 1 + 1 = n
    BY <2>1
  <2>3. <<b, n - 1>> \in PointsOf(c)
    BY <2>2, PointIs
  <2> QED
    BY <2>2, <2>3 DEF PointGraph
<1>2. ASSUME NEW b \in c.blocks
      PROVE  next[<<b, Len(c.code[b])>>] = {<<a, 0>> : a \in c.succs[b]}
  <2>1. Len(c.code[b]) \in Nat
    BY DEF IsCode
  <2>2. Len(c.code[b]) \in 0 .. Len(c.code[b]) /\ ~(Len(c.code[b]) < Len(c.code[b]))
    BY <2>1
  <2>3. <<b, Len(c.code[b])>> \in PointsOf(c)
    BY <2>2, PointIs
  <2> QED
    BY <2>2, <2>3 DEF PointGraph
<1>3. ASSUME NEW p \in PointsOf(c) PROVE next[p] \subseteq PointsOf(c)
  <2>1. p = <<p[1], p[2]>> /\ p[1] \in c.blocks /\ p[2] \in 0 .. Len(c.code[p[1]])
    BY PointIs
  <2>2. Len(c.code[p[1]]) \in Nat
    BY <2>1 DEF IsCode
  <2>3. CASE p[2] < Len(c.code[p[1]])
    <3>1. next[p] \subseteq {<<p[1], p[2] + 1>>}
      BY <2>3 DEF PointGraph
    <3>2. p[2] + 1 \in 0 .. Len(c.code[p[1]])
      BY <2>1, <2>2, <2>3
    <3> QED
      BY <2>1, <3>1, <3>2, PointIs
  <2>4. CASE ~(p[2] < Len(c.code[p[1]]))
    <3>1. next[p] = {<<a, 0>> : a \in c.succs[p[1]]}
      BY <2>4 DEF PointGraph
    <3>2. \A a \in c.succs[p[1]] : a \in c.blocks /\ Len(c.code[a]) \in Nat
      BY <2>1 DEF IsCode
    <3>3. \A a \in c.succs[p[1]] : <<a, 0>> \in PointsOf(c)
      BY <3>2, PointIs
    <3> QED
      BY <3>1, <3>3
  <2> QED
    BY <2>3, <2>4
<1>4. next \in [PointsOf(c) -> SUBSET PointsOf(c)]
  <2>1. next = [p \in PointsOf(c) |-> next[p]]
    BY DEF PointGraph
  <2> HIDE DEF next
  <2> QED
    BY <1>3, <2>1
<1> QED
  BY <1>1, <1>2, <1>4, PointsFinite DEF IsGraph

\* A point is before an instruction or at the end of its block.
LEMMA PointCases ==
  ASSUME NEW c, IsCode(c), NEW p \in PointsOf(c)
  PROVE  \E b \in c.blocks : \/ \E n \in 1 .. Len(c.code[b]) : p = <<b, n - 1>>
                             \/ p = <<b, Len(c.code[b])>>
<1>1. p = <<p[1], p[2]>> /\ p[1] \in c.blocks /\ p[2] \in 0 .. Len(c.code[p[1]])
  BY PointIs
<1>2. Len(c.code[p[1]]) \in Nat
  BY <1>1 DEF IsCode
<1>3. CASE p[2] = Len(c.code[p[1]])
  BY <1>1, <1>3
<1>4. CASE p[2] # Len(c.code[p[1]])
  <2> DEFINE n == p[2] + 1
  <2>1. n \in 1 .. Len(c.code[p[1]]) /\ p[2] = n - 1
    BY <1>1, <1>2, <1>4
  <2> HIDE DEF n
  <2> QED
    BY <1>1, <2>1
<1> QED
  BY <1>3, <1>4

\* The points reached: those to start from, those behind an instruction that is
\* passed, and those at the start of a block behind a block whose end is reached.
ClosedForwards(c, K, S) ==
  /\ \A b \in c.blocks : \A n \in 1 .. Len(c.code[b]) :
       <<b, n - 1>> \in S /\ <<b, n - 1>> \in K => <<b, n>> \in S
  /\ \A b \in c.blocks : \A a \in c.preds[b] : <<a, Len(c.code[a])>> \in S => <<b, 0>> \in S

\* The points reached from a set, one step back at a time.
LEMMA Forwards ==
  ASSUME NEW c, IsCode(c), NEW K, NEW from, from \subseteq PointsOf(c)
  PROVE  LET W == ReachedFrom(from, PointGraph(c, K))
         IN  /\ W \subseteq PointsOf(c)
             /\ \A b \in c.blocks : \A n \in 1 .. Len(c.code[b]) :
                  <<b, n>> \in W <=>
                    <<b, n>> \in from \/ (<<b, n - 1>> \in W /\ <<b, n - 1>> \in K)
             /\ \A b \in c.blocks :
                  <<b, 0>> \in W <=>
                    <<b, 0>> \in from \/ \E a \in c.preds[b] : <<a, Len(c.code[a])>> \in W
             /\ \A S : from \subseteq S /\ ClosedForwards(c, K, S) => W \subseteq S
<1> DEFINE next == PointGraph(c, K)
<1> DEFINE W == ReachedFrom(from, next)
<1>1. /\ IsGraph(PointsOf(c), next)
      /\ \A b \in c.blocks : \A n \in 1 .. Len(c.code[b]) :
           next[<<b, n - 1>>] = IF <<b, n - 1>> \in K THEN {<<b, n>>} ELSE {}
      /\ \A b \in c.blocks : next[<<b, Len(c.code[b])>>] = {<<a, 0>> : a \in c.succs[b]}
  BY PointGraphIs
<1>2. /\ \A b \in c.blocks : Len(c.code[b]) \in Nat
      /\ \A b \in c.blocks : c.preds[b] \subseteq c.blocks /\ c.succs[b] \subseteq c.blocks
      /\ \A a, b \in c.blocks : a \in c.preds[b] <=> b \in c.succs[a]
  BY DEF IsCode
<1>3. /\ from \subseteq W /\ W \subseteq PointsOf(c)
      /\ \A p \in W : next[p] \subseteq W
      /\ \A S : from \subseteq S /\ (\A p \in S \cap PointsOf(c) : next[p] \subseteq S) => W \subseteq S
      /\ W = from \cup UNION {next[q] : q \in W}
  <2> HIDE DEF next
  <2> QED
    BY <1>1, ReachedLeast, LastStep
<1> HIDE DEF next, W
\* What a step from q may reach.
<1>4. ASSUME NEW q \in PointsOf(c), NEW b \in c.blocks, NEW n \in 1 .. Len(c.code[b])
      PROVE  <<b, n>> \in next[q] <=> q = <<b, n - 1>> /\ q \in K
  <2>1. n # 0
    BY <1>2
  <2>2. PICK a \in c.blocks : \/ \E m \in 1 .. Len(c.code[a]) : q = <<a, m - 1>>
                              \/ q = <<a, Len(c.code[a])>>
    BY PointCases
  <2>3. CASE \E m \in 1 .. Len(c.code[a]) : q = <<a, m - 1>>
    <3>1. PICK m \in 1 .. Len(c.code[a]) : q = <<a, m - 1>>
      BY <2>3
    <3>2. next[q] = IF q \in K THEN {<<a, m>>} ELSE {}
      BY <1>1, <3>1
    <3>3. <<b, n>> = <<a, m>> <=> q = <<b, n - 1>>
      BY <1>2, <3>1
    <3> QED
      BY <3>2, <3>3
  <2>4. CASE q = <<a, Len(c.code[a])>>
    <3>1. <<b, n>> \notin next[q]
      BY <1>1, <2>1, <2>4
    <3>2. q # <<b, n - 1>>
      BY <1>2, <2>4
    <3> QED
      BY <3>1, <3>2
  <2> QED
    BY <2>2, <2>3, <2>4
<1>5. ASSUME NEW q \in PointsOf(c), NEW b \in c.blocks
      PROVE  <<b, 0>> \in next[q] <=> \E a \in c.preds[b] : q = <<a, Len(c.code[a])>>
  <2>1. PICK a \in c.blocks : \/ \E m \in 1 .. Len(c.code[a]) : q = <<a, m - 1>>
                              \/ q = <<a, Len(c.code[a])>>
    BY PointCases
  <2>2. CASE \E m \in 1 .. Len(c.code[a]) : q = <<a, m - 1>>
    <3>1. PICK m \in 1 .. Len(c.code[a]) : q = <<a, m - 1>>
      BY <2>2
    <3>2. next[q] = IF q \in K THEN {<<a, m>>} ELSE {}
      BY <1>1, <3>1
    <3>0. m # 0
      BY <1>2
    <3>3. \A e \in c.preds[b] : q # <<e, Len(c.code[e])>>
      <4>1. ASSUME a \in c.preds[b] PROVE m - 1 # Len(c.code[a])
        BY <1>2
      <4> QED
        BY <3>1, <4>1
    <3> QED
      BY <3>0, <3>2, <3>3
  <2>3. CASE q = <<a, Len(c.code[a])>>
    <3>1. <<b, 0>> \in next[q] <=> b \in c.succs[a]
      BY <1>1, <2>3
    <3>2. (\E e \in c.preds[b] : q = <<e, Len(c.code[e])>>) <=> a \in c.preds[b]
      BY <2>3
    <3> QED
      BY <1>2, <3>1, <3>2
  <2> QED
    BY <2>1, <2>2, <2>3
<1>6. ASSUME NEW b \in c.blocks, NEW n \in 1 .. Len(c.code[b])
      PROVE  <<b, n>> \in W <=>
               <<b, n>> \in from \/ (<<b, n - 1>> \in W /\ <<b, n - 1>> \in K)
  <2>1. <<b, n>> \in W <=> <<b, n>> \in from \/ \E q \in W : <<b, n>> \in next[q]
    BY <1>3
  <2> QED
    BY <1>3, <1>4, <2>1
<1>7. ASSUME NEW b \in c.blocks
      PROVE  <<b, 0>> \in W <=>
               <<b, 0>> \in from \/ \E a \in c.preds[b] : <<a, Len(c.code[a])>> \in W
  <2>1. <<b, 0>> \in W <=> <<b, 0>> \in from \/ \E q \in W : <<b, 0>> \in next[q]
    BY <1>3
  <2>2. (\E q \in W : <<b, 0>> \in next[q]) <=> \E a \in c.preds[b] : <<a, Len(c.code[a])>> \in W
    <3>1. (\E q \in W : <<b, 0>> \in next[q]) <=>
            \E q \in W : \E a \in c.preds[b] : q = <<a, Len(c.code[a])>>
      BY <1>3, <1>5
    <3> QED
      BY <3>1
  <2> QED
    BY <2>1, <2>2
<1>8. ASSUME NEW S, from \subseteq S, ClosedForwards(c, K, S) PROVE W \subseteq S
  <2>1. ASSUME NEW p \in S \cap PointsOf(c) PROVE next[p] \subseteq S
    <3>1. PICK a \in c.blocks : \/ \E m \in 1 .. Len(c.code[a]) : p = <<a, m - 1>>
                                \/ p = <<a, Len(c.code[a])>>
      BY PointCases
    <3>2. CASE \E m \in 1 .. Len(c.code[a]) : p = <<a, m - 1>>
      <4>1. PICK m \in 1 .. Len(c.code[a]) : p = <<a, m - 1>>
        BY <3>2
      <4>2. p \in K => <<a, m>> \in S
        BY <1>8, <2>1, <4>1 DEF ClosedForwards
      <4> QED
        BY <1>1, <4>1, <4>2
    <3>3. CASE p = <<a, Len(c.code[a])>>
      <4>1. \A e \in c.succs[a] : <<e, 0>> \in S
        BY <1>2, <1>8, <2>1, <3>3 DEF ClosedForwards
      <4> QED
        BY <1>1, <3>3, <4>1
    <3> QED
      BY <3>1, <3>2, <3>3
  <2> QED
    BY <1>3, <1>8, <2>1
<1> QED
  BY <1>3, <1>6, <1>7, <1>8 DEF W, next

\* The points from which H is reached: those of H, those before an instruction that
\* is passed, and the end of a block before a block whose start they have.
ClosedBackwards(c, K, S) ==
  /\ \A b \in c.blocks : \A n \in 1 .. Len(c.code[b]) :
       <<b, n>> \in S /\ <<b, n - 1>> \in K => <<b, n - 1>> \in S
  /\ \A b \in c.blocks : \A a \in c.succs[b] : <<a, 0>> \in S => <<b, Len(c.code[b])>> \in S

LeadingTo(c, K, H) == {p \in PointsOf(c) : ReachedFrom({p}, PointGraph(c, K)) \cap H # {}}

\* The points that lead to a set, one step on at a time.
LEMMA Backwards ==
  ASSUME NEW c, IsCode(c), NEW K, NEW H
  PROVE  LET W == LeadingTo(c, K, H)
         IN  /\ \A b \in c.blocks : \A n \in 1 .. Len(c.code[b]) :
                  <<b, n - 1>> \in W <=>
                    <<b, n - 1>> \in H \/ (<<b, n>> \in W /\ <<b, n - 1>> \in K)
             /\ \A b \in c.blocks :
                  <<b, Len(c.code[b])>> \in W <=>
                    <<b, Len(c.code[b])>> \in H \/ \E a \in c.succs[b] : <<a, 0>> \in W
             /\ \A S : H \cap PointsOf(c) \subseteq S /\ ClosedBackwards(c, K, S) => W \subseteq S
<1> DEFINE next == PointGraph(c, K)
<1> DEFINE From(p) == ReachedFrom({p}, next)
<1> DEFINE W == LeadingTo(c, K, H)
<1>1. /\ IsGraph(PointsOf(c), next)
      /\ \A b \in c.blocks : \A n \in 1 .. Len(c.code[b]) :
           next[<<b, n - 1>>] = IF <<b, n - 1>> \in K THEN {<<b, n>>} ELSE {}
      /\ \A b \in c.blocks : next[<<b, Len(c.code[b])>>] = {<<a, 0>> : a \in c.succs[b]}
  BY PointGraphIs
<1>2. /\ \A b \in c.blocks : Len(c.code[b]) \in Nat
      /\ \A b \in c.blocks : c.succs[b] \subseteq c.blocks
  BY DEF IsCode
<1>3. \A p : p \in W <=> p \in PointsOf(c) /\ From(p) \cap H # {}
  BY DEF LeadingTo
<1> HIDE DEF next, W
<1>4. ASSUME NEW p \in PointsOf(c)
      PROVE  /\ From(p) = {p} \cup UNION {From(q) : q \in next[p]}
             /\ next[p] \subseteq PointsOf(c)
             /\ \A S : p \in S /\ (\A q \in S \cap PointsOf(c) : next[q] \subseteq S) => From(p) \subseteq S
  <2>1. From(p) = {p} \cup UNION {From(q) : q \in next[p]}
    BY <1>1, FirstStep
  <2>2. next[p] \subseteq PointsOf(c)
    BY <1>1 DEF IsGraph
  <2>3. \A S : {p} \subseteq S /\ (\A q \in S \cap PointsOf(c) : next[q] \subseteq S) => From(p) \subseteq S
    BY <1>1, ReachedLeast
  <2> QED
    BY <2>1, <2>2, <2>3
<1> HIDE DEF From
<1>5. ASSUME NEW p \in PointsOf(c)
      PROVE  p \in W <=> p \in H \/ \E q \in next[p] : q \in W
  BY <1>3, <1>4
<1>6. ASSUME NEW b \in c.blocks, NEW n \in 1 .. Len(c.code[b])
      PROVE  <<b, n - 1>> \in W <=>
               <<b, n - 1>> \in H \/ (<<b, n>> \in W /\ <<b, n - 1>> \in K)
  <2>1. n - 1 \in 0 .. Len(c.code[b])
    BY <1>2
  <2>2. <<b, n - 1>> \in PointsOf(c)
    BY <2>1, PointIs
  <2>3. next[<<b, n - 1>>] = IF <<b, n - 1>> \in K THEN {<<b, n>>} ELSE {}
    BY <1>1
  <2> DEFINE p == <<b, n - 1>>
  <2>4. p \in W <=> p \in H \/ \E q \in next[p] : q \in W
    BY <1>5, <2>2
  <2> HIDE DEF p
  <2>5. (\E q \in next[p] : q \in W) <=> (p \in K /\ <<b, n>> \in W)
    BY <2>3 DEF p
  <2> QED
    BY <2>4, <2>5 DEF p
<1>7. ASSUME NEW b \in c.blocks
      PROVE  <<b, Len(c.code[b])>> \in W <=>
               <<b, Len(c.code[b])>> \in H \/ \E a \in c.succs[b] : <<a, 0>> \in W
  <2>1. Len(c.code[b]) \in 0 .. Len(c.code[b])
    BY <1>2
  <2>2. <<b, Len(c.code[b])>> \in PointsOf(c)
    BY <2>1, PointIs
  <2>3. next[<<b, Len(c.code[b])>>] = {<<a, 0>> : a \in c.succs[b]}
    BY <1>1
  <2> DEFINE p == <<b, Len(c.code[b])>>
  <2>4. p \in W <=> p \in H \/ \E q \in next[p] : q \in W
    BY <1>5, <2>2
  <2> HIDE DEF p
  <2>5. (\E q \in next[p] : q \in W) <=> \E a \in c.succs[b] : <<a, 0>> \in W
    BY <2>3 DEF p
  <2> QED
    BY <2>4, <2>5 DEF p
<1>8. ASSUME NEW S, H \cap PointsOf(c) \subseteq S, ClosedBackwards(c, K, S) PROVE W \subseteq S
  <2> DEFINE T == PointsOf(c) \ S
  <2>1. ASSUME NEW p \in T PROVE next[p] \subseteq T
    <3>1. PICK a \in c.blocks : \/ \E m \in 1 .. Len(c.code[a]) : p = <<a, m - 1>>
                                \/ p = <<a, Len(c.code[a])>>
      BY PointCases
    <3>2. CASE \E m \in 1 .. Len(c.code[a]) : p = <<a, m - 1>>
      <4>1. PICK m \in 1 .. Len(c.code[a]) : p = <<a, m - 1>>
        BY <3>2
      <4>2. p \in K => <<a, m>> \notin S
        BY <1>8, <2>1, <4>1 DEF ClosedBackwards
      <4>3. next[p] = IF p \in K THEN {<<a, m>>} ELSE {}
        BY <1>1, <4>1
      <4>4. next[p] \subseteq PointsOf(c)
        BY <1>4
      <4> QED
        BY <4>2, <4>3, <4>4
    <3>3. CASE p = <<a, Len(c.code[a])>>
      <4>1. \A e \in c.succs[a] : <<e, 0>> \notin S
        BY <1>2, <1>8, <2>1, <3>3 DEF ClosedBackwards
      <4> QED
        BY <1>1, <1>4, <3>3, <4>1
    <3> QED
      BY <3>1, <3>2, <3>3
  <2>2. ASSUME NEW p \in W, p \notin S PROVE FALSE
    <3>1. p \in PointsOf(c) /\ From(p) \cap H # {}
      BY <1>3, <2>2
    <3>2. p \in T /\ \A q \in T \cap PointsOf(c) : next[q] \subseteq T
      BY <2>1, <2>2, <3>1
    <3> HIDE DEF T
    <3>3. From(p) \subseteq T
      BY <1>4, <3>1, <3>2
    <3> QED
      BY <1>8, <3>1, <3>3 DEF T
  <2> QED
    BY <2>2
<1> QED
  BY <1>6, <1>7, <1>8 DEF W
=============================================================================
