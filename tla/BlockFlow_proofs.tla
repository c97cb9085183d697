-------------------------- MODULE BlockFlow_proofs --------------------------
(***************************************************************************)
(* What Solver::flow_block and the facts per instruction compute, for every    *)
(* block, whatever the analysis: a fact is carried on an instruction at a      *)
(* time.  V stands for the facts of the analysis.                             *)
(***************************************************************************)
EXTENDS BlockFlow, Paths_proofs

\* The flow function keeps to V, on the code of block b.
FlowsIn(c, b, V) ==
  /\ Len(c.code[b]) \in Nat
  /\ \A n \in 1 .. Len(c.code[b]) : \A f \in V : Flow(c, f, Visited(c, b, n)) \in V

\* The point of block b that an analysis reaches after n instructions.
PointAfter(c, b, n) == IF Direction = "Forwards" THEN <<b, n>> ELSE <<b, Len(c.code[b]) - n>>

\* Carried is the function its recursion describes, whatever the facts are.
LEMMA CarriedIs ==
  ASSUME NEW c, NEW b, Len(c.code[b]) \in Nat, NEW fact
  PROVE  /\ Carried(c, b, fact)[0] = fact
         /\ \A n \in 1 .. Len(c.code[b]) :
              Carried(c, b, fact)[n] = Flow(c, Carried(c, b, fact)[n - 1], Visited(c, b, n))
<1> DEFINE N == Len(c.code[b])
<1> DEFINE F(n, f) == Flow(c, f, Visited(c, b, n))
<1> DEFINE IsIt(n, g) == g = [k \in 0 .. n |-> IF k = 0 THEN fact ELSE F(k, g[k - 1])]
<1> DEFINE S == {n \in 0 .. N : \E g : IsIt(n, g)}
<1> DEFINE carried == CHOOSE g : IsIt(N, g)
<1>1. N \in Nat /\ Carried(c, b, fact) = carried
  BY DEF Carried
<1> HIDE DEF N, F, carried
<1>2. 0 \in S
  <2> DEFINE g == [k \in 0 .. 0 |-> fact]
  <2>1. IsIt(0, g)
    OBVIOUS
  <2> HIDE DEF g
  <2> QED
    BY <1>1, <2>1
<1>3. ASSUME NEW n \in 1 .. N, n - 1 \in S PROVE n \in S
  <2>1. PICK f : IsIt(n - 1, f)
    BY <1>3
  <2> DEFINE g == [k \in 0 .. n |-> IF k = n THEN F(n, f[n - 1]) ELSE f[k]]
  <2>2. \A k \in 0 .. n : k # 0 => k - 1 \in 0 .. n /\ k - 1 # n /\ g[k - 1] = f[k - 1]
    BY <1>1
  <2>3. \A k \in 0 .. n : g[k] = IF k = 0 THEN fact ELSE F(k, g[k - 1])
    <3> TAKE k \in 0 .. n
    <3>1. CASE k = n
      BY <1>1, <2>2, <3>1
    <3>2. CASE k # n
      <4>1. k \in 0 .. (n - 1)
        BY <1>1, <3>2
      <4>2. f[k] = IF k = 0 THEN fact ELSE F(k, f[k - 1])
        BY <2>1, <4>1
      <4> QED
        BY <2>2, <3>2, <4>2
    <3> QED
      BY <3>1, <3>2
  <2>4. IsIt(n, g)
    <3>1. g = [k \in 0 .. n |-> g[k]]
      OBVIOUS
    <3> HIDE DEF g
    <3> QED
      BY <2>3, <3>1
  <2> HIDE DEF g, IsIt
  <2> QED
    BY <1>1, <2>4
<1>4. IsIt(N, carried)
  <2> HIDE DEF IsIt
  <2>1. 0 .. N \subseteq S
    <3> HIDE DEF S
    <3> QED
      BY <1>1, <1>2, <1>3, UpTo
  <2>2. \E g : IsIt(N, g)
    BY <1>1, <2>1
  <2> QED
    BY <2>2 DEF carried
<1>5. carried[0] = fact /\ \A n \in 1 .. N : carried[n] = F(n, carried[n - 1])
  <2>1. 0 \in 0 .. N /\ \A n \in 1 .. N : n \in 0 .. N /\ n # 0
    BY <1>1
  <2> QED
    BY <1>4, <2>1
<1> QED
  BY <1>1, <1>5 DEF N, F

\* Facts of the analysis flow to facts of the analysis.
LEMMA CarriedSteps ==
  ASSUME NEW c, NEW b, NEW V, FlowsIn(c, b, V), NEW fact \in V
  PROVE  /\ Carried(c, b, fact) \in [0 .. Len(c.code[b]) -> V]
         /\ Carried(c, b, fact)[0] = fact
         /\ \A n \in 1 .. Len(c.code[b]) :
              Carried(c, b, fact)[n] = Flow(c, Carried(c, b, fact)[n - 1], Visited(c, b, n))
<1> DEFINE N == Len(c.code[b])
<1> DEFINE F(n, f) == Flow(c, f, Visited(c, b, n))
<1> DEFINE IsIt(g) == g = [n \in 0 .. N |-> IF n = 0 THEN fact ELSE F(n, g[n - 1])]
<1> DEFINE step == [n \in 1 .. N |-> [f \in V |-> F(n, f)]]
<1> DEFINE carried == CHOOSE g : IsIt(g)
<1>1. N \in Nat /\ \A n \in 1 .. N : \A f \in V : F(n, f) \in V
  BY DEF FlowsIn
<1>2. Carried(c, b, fact) = carried
  BY DEF Carried
<1> HIDE DEF N, F, carried
<1>3. step \in Steps(N, V)
  BY <1>1 DEF Steps
<1>4. PICK g : IsTrace(g, N, V, fact, step)
  <2> HIDE DEF step
  <2> QED
    BY <1>1, <1>3, IterationExists
<1>5. \A n \in 0 .. N : n # 0 => n \in 1 .. N /\ n - 1 \in 0 .. N
  BY <1>1
<1>6. \A n \in 1 .. N : step[n][g[n - 1]] = F(n, g[n - 1])
  <2>1. \A n \in 1 .. N : g[n - 1] \in V
    BY <1>1, <1>4 DEF IsTrace
  <2> QED
    BY <2>1
<1>7. IsIt(g)
  <2> HIDE DEF step
  <2> QED
    BY <1>4, <1>5, <1>6 DEF IsTrace
<1>8. IsIt(carried)
  <2> HIDE DEF IsIt
  <2> QED
    BY <1>7 DEF carried
<1>9. carried[0] = fact /\ \A n \in 1 .. N : carried[n] = F(n, carried[n - 1])
  BY <1>1, <1>5, <1>8
<1> DEFINE S == {n \in 0 .. N : carried[n] \in V}
<1>10. 0 .. N \subseteq S
  <2>1. 0 \in S
    BY <1>1, <1>9
  <2>2. ASSUME NEW n \in 1 .. N, n - 1 \in S PROVE n \in S
    BY <1>1, <1>9, <2>2
  <2> HIDE DEF S
  <2> QED
    BY <1>1, <2>1, <2>2, UpTo
<1>11. carried \in [0 .. N -> V]
  BY <1>8, <1>10
<1> QED
  BY <1>2, <1>9, <1>11 DEF N, F

\* flow_block yields a fact of the analysis.
LEMMA FlowBlockType ==
  ASSUME NEW c, NEW b, NEW V, FlowsIn(c, b, V), NEW fact \in V
  PROVE  FlowBlock(c, b, fact) \in V
<1> DEFINE N == Len(c.code[b])
<1> DEFINE carried == Carried(c, b, fact)
<1>1. carried \in [0 .. N -> V]
  BY CarriedSteps
<1>2. N \in 0 .. N
  BY DEF FlowsIn
<1> HIDE DEF N, carried
<1>3. carried[N] \in V
  BY <1>1, <1>2
<1> QED
  BY <1>3 DEF FlowBlock, N, carried

\* If the flow of every instruction is monotone, so is that of the block.
LEMMA FlowBlockMonotone ==
  ASSUME NEW c, NEW b, NEW V, FlowsIn(c, b, V), NEW f \in V, NEW g \in V, f \subseteq g,
         \A n \in 1 .. Len(c.code[b]) : \A x, y \in V :
           x \subseteq y => Flow(c, x, Visited(c, b, n)) \subseteq Flow(c, y, Visited(c, b, n))
  PROVE  FlowBlock(c, b, f) \subseteq FlowBlock(c, b, g)
<1> DEFINE N == Len(c.code[b])
<1> DEFINE low == Carried(c, b, f)
<1> DEFINE high == Carried(c, b, g)
<1> DEFINE S == {n \in 0 .. N : low[n] \subseteq high[n]}
<1>1. /\ low \in [0 .. N -> V] /\ low[0] = f
      /\ \A n \in 1 .. N : low[n] = Flow(c, low[n - 1], Visited(c, b, n))
  BY CarriedSteps
<1>2. /\ high \in [0 .. N -> V] /\ high[0] = g
      /\ \A n \in 1 .. N : high[n] = Flow(c, high[n - 1], Visited(c, b, n))
  BY CarriedSteps
<1>3. N \in Nat
  BY DEF FlowsIn
<1> HIDE DEF low, high
<1>4. 0 \in S
  BY <1>1, <1>2, <1>3
<1>5. ASSUME NEW n \in 1 .. N, n - 1 \in S PROVE n \in S
  <2>1. low[n - 1] \in V /\ high[n - 1] \in V /\ low[n - 1] \subseteq high[n - 1]
    BY <1>1, <1>2, <1>3, <1>5
  <2>2. Flow(c, low[n - 1], Visited(c, b, n)) \subseteq Flow(c, high[n - 1], Visited(c, b, n))
    BY <2>1
  <2> QED
    BY <1>1, <1>2, <1>3, <2>2
<1> HIDE DEF S
<1>6. 0 .. N \subseteq S
  BY <1>3, <1>4, <1>5, UpTo
<1>7. N \in S
  BY <1>3, <1>6
<1> QED
  BY <1>7 DEF S, low, high, FlowBlock

\* If u labels the points of block b with facts each of which flows from the one
\* before, these are the facts that flow_block computes along the way.
LEMMA CarriedAlong ==
  ASSUME NEW c, NEW b, NEW V, FlowsIn(c, b, V), NEW u, u[PointAfter(c, b, 0)] \in V,
         \A n \in 1 .. Len(c.code[b]) :
           u[PointAfter(c, b, n)] = Flow(c, u[PointAfter(c, b, n - 1)], Visited(c, b, n))
  PROVE  \A n \in 0 .. Len(c.code[b]) :
           Carried(c, b, u[PointAfter(c, b, 0)])[n] = u[PointAfter(c, b, n)]
<1> DEFINE N == Len(c.code[b])
<1> DEFINE carried == Carried(c, b, u[PointAfter(c, b, 0)])
<1> DEFINE S == {n \in 0 .. N : carried[n] = u[PointAfter(c, b, n)]}
<1>1. /\ carried[0] = u[PointAfter(c, b, 0)]
      /\ \A n \in 1 .. N : carried[n] = Flow(c, carried[n - 1], Visited(c, b, n))
  BY CarriedSteps
<1>2. N \in Nat
  BY DEF FlowsIn
<1> HIDE DEF carried
<1>3. 0 \in S
  BY <1>1, <1>2
<1>4. ASSUME NEW n \in 1 .. N, n - 1 \in S PROVE n \in S
  BY <1>1, <1>2, <1>4
<1> HIDE DEF S
<1>5. 0 .. N \subseteq S
  BY <1>2, <1>3, <1>4, UpTo
<1> QED
  BY <1>5 DEF S, carried
=============================================================================
