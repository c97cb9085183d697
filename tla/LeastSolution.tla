---------------------------- MODULE LeastSolution ----------------------------
(***************************************************************************)
(* When does the answer of the solver not depend on the order its HashMap   *)
(* happens to give the worklist?  This module states the lattice conditions  *)
(* on an analysis (opt/solver.rs, trait Analysis) under which every run of   *)
(* Solver::solve ends in the same facts: the least solution of the dataflow   *)
(* equations, where a smaller fact is one closer to the start value.  A may   *)
(* analysis takes \subseteq for Leq, a must analysis \supseteq.              *)
(***************************************************************************)
EXTENDS Solver, FiniteSetTheorems, SequenceTheorems, FunctionTheorems, TLAPS

CONSTANTS
  Facts(_),  \* graph -> the facts of the analysis on that graph
  Leq(_,_)   \* the order of the lattice

ASSUME OrderAssumption ==
  \A c \in Cfgs :
    /\ \A f \in Facts(c) : Leq(f, f)
    /\ \A f, g, h \in Facts(c) : Leq(f, g) /\ Leq(g, h) => Leq(f, h)

\* Analysis::combine is the least upper bound.
ASSUME CombineAssumption ==
  \A c \in Cfgs : \A A \in (SUBSET Facts(c)) \ {{}} :
    /\ Combine(A) \in Facts(c)
    /\ \A u \in Facts(c) : Leq(Combine(A), u) <=> \A a \in A : Leq(a, u)

\* The fold of Analysis::flow over a block is monotone.
ASSUME FlowAssumption ==
  \A c \in Cfgs : \A b \in c.blocks :
    /\ \A f \in Facts(c) : FlowBlock(c, b, f) \in Facts(c)
    /\ \A f, g \in Facts(c) : Leq(f, g) => Leq(FlowBlock(c, b, f), FlowBlock(c, b, g))

\* Solver::solve joins over these neighbours ...
Sources(c) == IF Direction = "Forwards" THEN c.preds ELSE c.succs

\* ... or, where there are none, keeps this fact, ...
Own(c) == IF Direction = "Forwards" THEN InitIn(c) ELSE InitOut(c)

\* ... and first sees these facts at the neighbours.
Start(c) == IF Direction = "Forwards" THEN InitOut(c) ELSE InitIn(c)

\* Analysis::init_facts starts at or below anything the block can produce.
ASSUME StartAssumption ==
  \A c \in Cfgs : \A b \in c.blocks :
    /\ Own(c)[b] \in Facts(c)
    /\ Start(c)[b] \in Facts(c)
    /\ IF Sources(c)[b] = {}
       THEN Leq(Start(c)[b], FlowBlock(c, b, Own(c)[b]))
       ELSE \A f \in Facts(c) : Leq(Start(c)[b], FlowBlock(c, b, f))

-----------------------------------------------------------------------------

FactMaps(c) == [c.blocks -> Facts(c)]

\* The dataflow equations, for the facts t that travel along the edges.
IsSolution(c, t) ==
  /\ t \in FactMaps(c)
  /\ \A b \in c.blocks :
       t[b] = FlowBlock(c, b, Joined(Sources(c)[b], t, Own(c)[b]))

\* Out facts travel forwards, in facts travel backwards.
Travelling == IF Direction = "Forwards" THEN out_facts ELSE in_facts

\* The facts a block computes from its neighbours stay with the block.
Resting == IF Direction = "Forwards" THEN in_facts ELSE out_facts

\* At every moment of a run, whatever was popped and in whatever order, no
\* travelling fact has gone past any solution of the equations.
BelowEverySolution ==
  \A t \in FactMaps(cfg) :
    IsSolution(cfg, t) => \A b \in cfg.blocks : Leq(Travelling[b], t[b])

\* What solve returns is itself a solution.  With BelowEverySolution it is the
\* least one, so the passes see the same facts in every run of the compiler.
SolutionWhenDone == Done => IsSolution(cfg, Travelling)

-----------------------------------------------------------------------------
\* First, what Solver::solve guarantees on every graph and for every analysis.  The
\* inductive invariant is TypeOK /\ NoDuplicates /\ Settled: popping a block takes
\* it out of the queue only because it occurs there once, and that is what makes it
\* safe to ask of it, when it leaves, to be consistent.  Then, for every analysis that
\* meets the assumptions above, that all its runs return the same facts.

\* Every listing of a finite set is a sequence of its elements, without
\* repetition, that misses none.
LEMMA ListingProperties ==
  ASSUME NEW S, IsFiniteSet(S), NEW listing \in Listings(S)
  PROVE  /\ listing \in Seq(S)
         /\ Len(listing) \in Nat
         /\ DOMAIN listing = 1 .. Len(listing)
         /\ IsInjective(listing)
         /\ Range(listing) = S
<1>1. Cardinality(S) \in Nat
  BY FS_CardinalityType
<1>2. /\ listing \in [1 .. Cardinality(S) -> S]
      /\ \A i, j \in 1 .. Cardinality(S) : listing[i] = listing[j] => i = j
      /\ \A x \in S : \E i \in 1 .. Cardinality(S) : listing[i] = x
  BY DEF Listings, Bijection, Injection, Surjection, IsInjective
<1>3. listing \in Seq(S) /\ Len(listing) = Cardinality(S)
  BY <1>1, <1>2, SMT
<1>4. IsInjective(listing)
  BY <1>2 DEF IsInjective
<1>5. Range(listing) = S
  BY <1>2 DEF Range
<1> QED
  BY <1>1, <1>2, <1>3, <1>4, <1>5

\* What `pop` takes from a queue, and what it leaves.
Latest(w)        == w[Len(w)]
WithoutLatest(w) == SubSeq(w, 1, Len(w) - 1)

\* What is left of a nonempty queue when its last element is popped.
LEMMA FrontProperties ==
  ASSUME NEW B, NEW w \in Seq(B), w # <<>>
  PROVE  /\ Len(w) \in Nat \ {0}
         /\ DOMAIN w = 1 .. Len(w)
         /\ Latest(w) \in B
         /\ WithoutLatest(w) \in Seq(B)
         /\ Len(WithoutLatest(w)) = Len(w) - 1
         /\ DOMAIN WithoutLatest(w) = 1 .. Len(w) - 1
         /\ \A i \in 1 .. Len(w) - 1 : WithoutLatest(w)[i] = w[i]
<1> DEFINE n == Len(w)
<1>1. n \in Nat \ {0} /\ DOMAIN w = 1 .. n /\ \A i \in 1 .. n : w[i] \in B
  BY EmptySeq, LenProperties, ElementOfSeq
<1>2. \A i \in 1 .. n - 1 : w[i] \in B
  BY <1>1
<1>3. /\ SubSeq(w, 1, n - 1) \in Seq(B)
      /\ Len(SubSeq(w, 1, n - 1)) = IF 1 <= n - 1 THEN (n - 1) - 1 + 1 ELSE 0
      /\ \A i \in 1 .. (n - 1) - 1 + 1 : SubSeq(w, 1, n - 1)[i] = w[1 + i - 1]
  BY <1>1, <1>2, SubSeqProperties
<1> DEFINE rest == SubSeq(w, 1, n - 1)
<1> HIDE DEF n
<1>4. /\ rest \in Seq(B)
      /\ Len(rest) = n - 1
      /\ \A i \in 1 .. n - 1 : rest[i] = w[i]
  BY <1>1, <1>3
<1> HIDE DEF rest
<1>5. DOMAIN rest = 1 .. n - 1
  BY <1>4, LenProperties
<1> QED
  BY <1>1, <1>4, <1>5 DEF n, rest, Latest, WithoutLatest

\* Popping the last block and pushing the neighbours that are not waiting: the
\* queue stays free of duplicates, loses the popped block, and has gained every
\* neighbour, whether it was pushed or was there already.
LEMMA PopAndPush ==
  ASSUME NEW B,
         NEW w \in Seq(B), w # <<>>, IsInjective(w),
         NEW N, N \subseteq B,
         NEW listing \in Seq(B), IsInjective(listing),
         Range(listing) = N \ Range(WithoutLatest(w))
  PROVE  /\ Latest(w) \in Range(w)
         /\ WithoutLatest(w) \o listing \in Seq(B)
         /\ IsInjective(WithoutLatest(w) \o listing)
         /\ Range(WithoutLatest(w) \o listing) = (Range(w) \ {Latest(w)}) \cup N
<1> DEFINE front == WithoutLatest(w)
<1> DEFINE n == Len(w)
<1> DEFINE m == Len(listing)
<1>1. n \in Nat \ {0} /\ DOMAIN w = 1 .. n
  BY FrontProperties
<1>2. /\ front \in Seq(B)
      /\ Len(front) = n - 1
      /\ DOMAIN front = 1 .. n - 1
      /\ \A i \in 1 .. n - 1 : front[i] = w[i]
  BY FrontProperties
<1>3. m \in Nat /\ DOMAIN listing = 1 .. m
  BY LenProperties
<1>4. IsInjective(listing) /\ Range(listing) = N \ Range(front)
  OBVIOUS
<1> DEFINE q == front \o listing
<1>5. /\ q \in Seq(B)
      /\ Len(q) = n - 1 + m
      /\ DOMAIN q = 1 .. n - 1 + m
      /\ \A i \in 1 .. n - 1 : q[i] = w[i]
      /\ \A i \in n .. n - 1 + m : q[i] = listing[i - (n - 1)]
  <2>1. /\ q \in Seq(B)
        /\ Len(q) = Len(front) + Len(listing)
        /\ \A i \in 1 .. Len(front) + Len(listing) :
             q[i] = IF i <= Len(front) THEN front[i] ELSE listing[i - Len(front)]
    <3> HIDE DEF front
    <3> QED
      BY <1>2, ConcatProperties
  <2>2. /\ q \in Seq(B)
        /\ Len(q) = n - 1 + m
        /\ \A i \in 1 .. n - 1 + m :
             q[i] = IF i <= n - 1 THEN front[i] ELSE listing[i - (n - 1)]
    <3> HIDE DEF front, q
    <3> QED
      BY <1>2, <2>1
  <2>3. DOMAIN q = 1 .. n - 1 + m
    BY <2>2, LenProperties
  <2> HIDE DEF front, n, m, q
  <2> QED
    BY <1>1, <1>2, <1>3, <2>2, <2>3
<1> HIDE DEF front, n, m, q
<1>6. n \in 1 .. n /\ w[n] \in Range(w)
  BY <1>1 DEF Range
<1>7. Range(front) = {w[i] : i \in 1 .. n - 1}
  BY <1>2 DEF Range
<1>8. Range(front) = Range(w) \ {w[n]}
  <2>1. \A i \in 1 .. n - 1 : i \in DOMAIN w /\ n \in DOMAIN w /\ i # n
    BY <1>1
  <2>2. \A i \in 1 .. n - 1 : w[i] # w[n]
    BY <2>1 DEF IsInjective
  <2>3. \A i \in DOMAIN w : i # n => i \in 1 .. n - 1
    BY <1>1
  <2> QED
    BY <1>7, <2>1, <2>2, <2>3 DEF Range
<1>9. \A i \in n .. n - 1 + m : i - (n - 1) \in 1 .. m
  BY <1>1, <1>3, <1>4
<1>10. \A i \in 1 .. m : i + (n - 1) \in n .. n - 1 + m /\ (i + (n - 1)) - (n - 1) = i
  BY <1>1, <1>3, <1>4
<1>11. Range(q) = Range(front) \cup Range(listing)
  <2>1. \A i \in 1 .. n - 1 + m : i \in 1 .. n - 1 \/ i \in n .. n - 1 + m
    BY <1>1, <1>3, <1>4
  <2>2. \A i \in 1 .. n - 1 : i \in 1 .. n - 1 + m
    BY <1>1, <1>3, <1>4
  <2>3. \A i \in n .. n - 1 + m : i \in 1 .. n - 1 + m
    BY <1>1, <1>3, <1>4
  <2>4. Range(q) \subseteq Range(front) \cup Range(listing)
    BY <1>3, <1>4, <1>5, <1>7, <1>9, <2>1 DEF Range
  <2>5. Range(front) \subseteq Range(q)
    BY <1>5, <1>7, <2>2 DEF Range
  <2>6. \A i \in 1 .. m : listing[i] = q[i + (n - 1)] /\ i + (n - 1) \in DOMAIN q
    BY <1>5, <1>10, <2>3
  <2>7. Range(listing) \subseteq Range(q)
    BY <1>3, <1>4, <2>6 DEF Range
  <2> QED
    BY <2>4, <2>5, <2>7
<1>12. IsInjective(q)
  <2> SUFFICES ASSUME NEW i \in 1 .. n - 1 + m, NEW j \in 1 .. n - 1 + m, q[i] = q[j]
               PROVE  i = j
    BY <1>5 DEF IsInjective
  <2>1. \A k \in n .. n - 1 + m : q[k] \in Range(listing)
    BY <1>3, <1>4, <1>5, <1>9 DEF Range
  <2>2. \A k \in 1 .. n - 1 : q[k] \in Range(front)
    BY <1>5, <1>7
  <2>3. CASE i \in 1 .. n - 1 /\ j \in 1 .. n - 1
    <3>1. w[i] = w[j] /\ i \in DOMAIN w /\ j \in DOMAIN w
      BY <1>1, <1>5, <2>3
    <3> QED
      BY <3>1 DEF IsInjective
  <2>4. CASE i \in n .. n - 1 + m /\ j \in n .. n - 1 + m
    <3>1. listing[i - (n - 1)] = listing[j - (n - 1)]
      BY <1>5, <2>4
    <3>2. i - (n - 1) = j - (n - 1)
      BY <1>3, <1>4, <1>9, <2>4, <3>1 DEF IsInjective
    <3> QED
      BY <1>1, <1>3, <1>4, <3>2
  <2>5. CASE i \in 1 .. n - 1 /\ j \in n .. n - 1 + m
    BY <1>3, <1>4, <2>1, <2>2, <2>5
  <2>6. CASE j \in 1 .. n - 1 /\ i \in n .. n - 1 + m
    BY <1>3, <1>4, <2>1, <2>2, <2>6
  <2> QED
    BY <1>1, <1>3, <1>4, <2>3, <2>4, <2>5, <2>6
<1>13. Range(q) = (Range(w) \ {w[n]}) \cup N
  BY <1>3, <1>4, <1>8, <1>11
<1> QED
  BY <1>5, <1>6, <1>12, <1>13 DEF n, q, front, Latest

-----------------------------------------------------------------------------

\* A fact map that agrees on the neighbours joins to the same fact.
LEMMA SameJoin ==
  ASSUME NEW N, NEW f, NEW g, NEW own, \A a \in N : f[a] = g[a]
  PROVE  Joined(N, f, own) = Joined(N, g, own)
<1>1. {f[a] : a \in N} = {g[a] : a \in N}
  OBVIOUS
<1> QED
  BY <1>1 DEF Joined

\* The fact of a block without neighbours stays what it was.
LEMMA JoinAgain ==
  ASSUME NEW N, NEW f, NEW own
  PROVE  Joined(N, f, Joined(N, f, own)) = Joined(N, f, own)
BY DEF Joined

IInv == TypeOK /\ NoDuplicates /\ Settled

\* What a step does to the queue, in either direction.
LEMMA PushStep ==
  ASSUME TypeOK, NoDuplicates, worklist # <<>>,
         NEW N \in SUBSET cfg.blocks, Push(N)
  PROVE  /\ Top \in cfg.blocks
         /\ Top \in Queued
         /\ worklist' \in Seq(cfg.blocks)
         /\ IsInjective(worklist')
         /\ Queued' = (Queued \ {Top}) \cup N
<1>1. /\ IsFiniteSet(cfg.blocks)
      /\ worklist \in Seq(cfg.blocks) /\ worklist # <<>> /\ IsInjective(worklist)
  BY CfgsAssumption DEF TypeOK, NoDuplicates
<1>2. PICK listing \in Listings(N \ Range(Popped)) :
        worklist' = Popped \o listing
  BY DEF Push
<1>3. IsFiniteSet(N \ Range(Popped))
  BY <1>1, FS_Subset
<1>4. /\ listing \in Seq(N \ Range(Popped))
      /\ IsInjective(listing)
      /\ Range(listing) = N \ Range(Popped)
  BY <1>3, ListingProperties
<1>5. listing \in Seq(cfg.blocks)
  BY <1>4, SeqMonotonic
<1>6. /\ Top \in Range(worklist)
      /\ Popped \o listing \in Seq(cfg.blocks)
      /\ IsInjective(Popped \o listing)
      /\ Range(Popped \o listing) = (Range(worklist) \ {Top}) \cup N
  <2>1. N \subseteq cfg.blocks
    OBVIOUS
  <2>2. Top = Latest(worklist) /\ Popped = WithoutLatest(worklist)
    BY DEF Top, Popped, Latest, WithoutLatest
  <2>3. Range(listing) = N \ Range(WithoutLatest(worklist))
    BY <1>4, <2>2
  <2>4. /\ Latest(worklist) \in Range(worklist)
        /\ WithoutLatest(worklist) \o listing \in Seq(cfg.blocks)
        /\ IsInjective(WithoutLatest(worklist) \o listing)
        /\ Range(WithoutLatest(worklist) \o listing) = (Range(worklist) \ {Latest(worklist)}) \cup N
    BY ONLY <1>1, <1>4, <1>5, <2>1, <2>3, PopAndPush
  <2> QED
    BY ONLY <2>2, <2>4
<1>7. Top \in cfg.blocks
  BY <1>1, FrontProperties DEF Top, Latest
<1> QED
  BY <1>2, <1>6, <1>7 DEF Queued

\* Solver::new and the listing of all blocks establish the invariant: every
\* block waits, so none has to be consistent yet.
LEMMA InitInv == Init => IInv
<1> SUFFICES ASSUME Init PROVE IInv
  OBVIOUS
<1>1. /\ IsFiniteSet(cfg.blocks)
      /\ InitIn(cfg)  = [b \in cfg.blocks |-> InitIn(cfg)[b]]
      /\ InitOut(cfg) = [b \in cfg.blocks |-> InitOut(cfg)[b]]
  BY CfgsAssumption, InitFactsAssumption DEF Init
<1>2. worklist \in Seq(cfg.blocks) /\ IsInjective(worklist) /\ Range(worklist) = cfg.blocks
  BY <1>1, ListingProperties DEF Init
<1>3. TypeOK
  BY <1>1, <1>2 DEF Init, TypeOK
<1>4. NoDuplicates
  BY <1>2 DEF NoDuplicates
<1>5. Settled
  BY <1>2 DEF Settled, Queued
<1> QED
  BY <1>3, <1>4, <1>5 DEF IInv

\* One iteration of a forward analysis.
LEMMA ForwardsInv ==
  ASSUME IInv, worklist # <<>>, Direction = "Forwards", StepForwards, UNCHANGED cfg
  PROVE  IInv'
<1> DEFINE b == Top
<1> DEFINE new_in == Joined(cfg.preds[b], out_facts, in_facts[b])
<1> DEFINE new_out == FlowBlock(cfg, b, new_in)
<1> DEFINE N == IF new_out # out_facts[b] THEN cfg.succs[b] ELSE {}
<1>1. /\ cfg \in Cfgs
      /\ in_facts  = [a \in cfg.blocks |-> in_facts[a]]
      /\ out_facts = [a \in cfg.blocks |-> out_facts[a]]
      /\ TypeOK /\ NoDuplicates /\ Settled
  BY DEF IInv, TypeOK
<1>2. b \in cfg.blocks
  <2>1. worklist \in Seq(cfg.blocks) /\ Len(worklist) \in Nat \ {0}
    BY <1>1, EmptySeq DEF TypeOK
  <2> QED
    BY <2>1, ElementOfSeq DEF Top
<1>3. N \in SUBSET cfg.blocks
  BY <1>1, <1>2, CfgsAssumption
<1>4. /\ in_facts'  = [in_facts EXCEPT ![b] = new_in]
      /\ out_facts' = [out_facts EXCEPT ![b] = new_out]
      /\ Push(N)
  BY DEF StepForwards
<1> HIDE DEF N
<1>5. /\ b \in Queued
      /\ worklist' \in Seq(cfg.blocks)
      /\ IsInjective(worklist')
      /\ Queued' = (Queued \ {b}) \cup N
  BY <1>1, <1>3, <1>4, PushStep
<1> HIDE DEF b, new_in, new_out
<1>6. TypeOK'
  BY <1>1, <1>2, <1>4, <1>5 DEF TypeOK
<1>7. NoDuplicates'
  BY <1>5 DEF NoDuplicates
<1>8. ASSUME NEW a \in cfg.blocks, a \notin Queued'
      PROVE  /\ in_facts'[a] = Joined(cfg.preds[a], out_facts', in_facts'[a])
             /\ out_facts'[a] = FlowBlock(cfg, a, in_facts'[a])
  \* b is not a predecessor of a, or its out fact is the same as before.
  <2>1. \A p \in cfg.preds[a] : out_facts'[p] = out_facts[p]
    <3>1. CASE new_out = out_facts[b]
      BY <1>1, <1>2, <1>4, <3>1
    <3>2. CASE new_out # out_facts[b]
      <4>1. a \notin cfg.succs[b]
        BY <1>5, <1>8, <3>2 DEF N
      <4>2. b \notin cfg.preds[a]
        BY <1>1, <1>2, <4>1, CfgsAssumption DEF IsValid
      <4> QED
        BY <1>1, <1>4, <4>2, CfgsAssumption
    <3> QED
      BY <3>1, <3>2
  <2>2. CASE a = b
    <3>1. in_facts'[b] = new_in /\ out_facts'[b] = new_out
      BY <1>1, <1>2, <1>4
    <3>2. new_in = Joined(cfg.preds[b], out_facts, new_in)
      BY JoinAgain DEF new_in
    <3>3. new_in = Joined(cfg.preds[b], out_facts', new_in)
      BY <2>1, <2>2, <3>2, SameJoin
    <3> QED
      BY <2>2, <3>1, <3>3 DEF new_out
  <2>3. CASE a # b
    <3>1. in_facts'[a] = in_facts[a] /\ out_facts'[a] = out_facts[a]
      BY <1>1, <1>2, <1>4, <2>3
    <3>2. Consistent(a)
      BY <1>1, <1>5, <1>8, <2>3 DEF Settled
    <3>3. /\ in_facts[a] = Joined(cfg.preds[a], out_facts, in_facts[a])
          /\ out_facts[a] = FlowBlock(cfg, a, in_facts[a])
      BY <3>2 DEF Consistent
    <3>4. Joined(cfg.preds[a], out_facts', in_facts[a])
            = Joined(cfg.preds[a], out_facts, in_facts[a])
      BY <2>1, SameJoin
    <3> QED
      BY <3>1, <3>3, <3>4
  <2> QED
    BY <2>2, <2>3
<1>9. Settled'
  BY <1>8 DEF Settled, Consistent
<1> QED
  BY <1>6, <1>7, <1>9 DEF IInv

\* One iteration of a backward analysis, where the roles of in and out are swapped.
LEMMA BackwardsInv ==
  ASSUME IInv, worklist # <<>>, Direction = "Backwards", StepBackwards, UNCHANGED cfg
  PROVE  IInv'
<1> DEFINE b == Top
<1> DEFINE new_out == Joined(cfg.succs[b], in_facts, out_facts[b])
<1> DEFINE new_in == FlowBlock(cfg, b, new_out)
<1> DEFINE N == IF new_in # in_facts[b] THEN cfg.preds[b] ELSE {}
<1>1. /\ cfg \in Cfgs
      /\ out_facts  = [a \in cfg.blocks |-> out_facts[a]]
      /\ in_facts = [a \in cfg.blocks |-> in_facts[a]]
      /\ TypeOK /\ NoDuplicates /\ Settled
  BY DEF IInv, TypeOK
<1>2. b \in cfg.blocks
  <2>1. worklist \in Seq(cfg.blocks) /\ Len(worklist) \in Nat \ {0}
    BY <1>1, EmptySeq DEF TypeOK
  <2> QED
    BY <2>1, ElementOfSeq DEF Top
<1>3. N \in SUBSET cfg.blocks
  BY <1>1, <1>2, CfgsAssumption
<1>4. /\ out_facts'  = [out_facts EXCEPT ![b] = new_out]
      /\ in_facts' = [in_facts EXCEPT ![b] = new_in]
      /\ Push(N)
  BY DEF StepBackwards
<1> HIDE DEF N
<1>5. /\ b \in Queued
      /\ worklist' \in Seq(cfg.blocks)
      /\ IsInjective(worklist')
      /\ Queued' = (Queued \ {b}) \cup N
  BY <1>1, <1>3, <1>4, PushStep
<1> HIDE DEF b, new_out, new_in
<1>6. TypeOK'
  BY <1>1, <1>2, <1>4, <1>5 DEF TypeOK
<1>7. NoDuplicates'
  BY <1>5 DEF NoDuplicates
<1>8. ASSUME NEW a \in cfg.blocks, a \notin Queued'
      PROVE  /\ out_facts'[a] = Joined(cfg.succs[a], in_facts', out_facts'[a])
             /\ in_facts'[a] = FlowBlock(cfg, a, out_facts'[a])
  \* b is not a successor of a, or its in fact is the same as before.
  <2>1. \A p \in cfg.succs[a] : in_facts'[p] = in_facts[p]
    <3>1. CASE new_in = in_facts[b]
      BY <1>1, <1>2, <1>4, <3>1
    <3>2. CASE new_in # in_facts[b]
      <4>1. a \notin cfg.preds[b]
        BY <1>5, <1>8, <3>2 DEF N
      <4>2. b \notin cfg.succs[a]
        BY <1>1, <1>2, <4>1, CfgsAssumption DEF IsValid
      <4> QED
        BY <1>1, <1>4, <4>2, CfgsAssumption
    <3> QED
      BY <3>1, <3>2
  <2>2. CASE a = b
    <3>1. out_facts'[b] = new_out /\ in_facts'[b] = new_in
      BY <1>1, <1>2, <1>4
    <3>2. new_out = Joined(cfg.succs[b], in_facts, new_out)
      BY JoinAgain DEF new_out
    <3>3. new_out = Joined(cfg.succs[b], in_facts', new_out)
      BY <2>1, <2>2, <3>2, SameJoin
    <3> QED
      BY <2>2, <3>1, <3>3 DEF new_in
  <2>3. CASE a # b
    <3>1. out_facts'[a] = out_facts[a] /\ in_facts'[a] = in_facts[a]
      BY <1>1, <1>2, <1>4, <2>3
    <3>2. Consistent(a)
      BY <1>1, <1>5, <1>8, <2>3 DEF Settled
    <3>3. /\ out_facts[a] = Joined(cfg.succs[a], in_facts, out_facts[a])
          /\ in_facts[a] = FlowBlock(cfg, a, out_facts[a])
      BY <3>2 DEF Consistent
    <3>4. Joined(cfg.succs[a], in_facts', out_facts[a])
            = Joined(cfg.succs[a], in_facts, out_facts[a])
      BY <2>1, SameJoin
    <3> QED
      BY <3>1, <3>3, <3>4
  <2> QED
    BY <2>2, <2>3
<1>9. Settled'
  BY <1>8 DEF Settled, Consistent
<1> QED
  BY <1>6, <1>7, <1>9 DEF IInv

\* One iteration of the loop keeps the invariant, in either direction.
LEMMA StepInv == IInv /\ [Next]_vars => IInv'
<1> SUFFICES ASSUME IInv, [Next]_vars PROVE IInv'
  OBVIOUS
<1>1. CASE Next
  <2>1. worklist # <<>> /\ UNCHANGED cfg
    BY <1>1 DEF Next, Step
  <2>2. CASE Direction = "Forwards" /\ StepForwards
    BY <2>1, <2>2, ForwardsInv
  <2>3. CASE Direction = "Backwards" /\ StepBackwards
    BY <2>1, <2>3, BackwardsInv
  <2> QED
    BY <1>1, <2>2, <2>3 DEF Next, Step
<1>2. CASE UNCHANGED vars
  BY <1>2 DEF vars, IInv, TypeOK, NoDuplicates, Settled, Consistent, Queued
<1> QED
  BY <1>1, <1>2

\* The invariant of the loop of Solver::solve: the fact maps have their keys, no
\* block waits twice, and every block that does not wait is consistent.  Settled
\* alone is not inductive: popping a block that is queued twice would leave it
\* waiting and say nothing of it.
THEOREM Invariance == Spec => []IInv
BY InitInv, StepInv, PTL DEF Spec

-----------------------------------------------------------------------------

\* Every lookup of Solver::solve finds its key, and every block id it pushes
\* names a block.
THEOREM TypeCorrect == Spec => []TypeOK
BY Invariance, PTL DEF IInv

\* `worklist.contains` keeps the worklist free of duplicates.
THEOREM NeverQueuedTwice == Spec => []NoDuplicates
BY Invariance, PTL DEF IInv

\* A block that is not waiting agrees with its neighbours: no change of a fact
\* is ever missed, whatever the analysis and the order of the worklist.
THEOREM AlwaysSettled == Spec => []Settled
BY Invariance, PTL DEF IInv

\* What solve returns is a fixed point of the dataflow equations.
THEOREM ReturnsFixpoint == Spec => []FixpointWhenDone
<1>1. IInv => FixpointWhenDone
  BY DEF IInv, Settled, FixpointWhenDone, Done, Queued, Range
<1> QED
  BY <1>1, Invariance, PTL

-----------------------------------------------------------------------------

\* The worklist is one way to choose among the pending blocks: the solver
\* implements chaotic iteration.
THEOREM Refinement == Spec => ImplementsChaotic
<1>1. Init => Chaotic!Init
  <2> SUFFICES ASSUME Init PROVE Chaotic!Init
    OBVIOUS
  <2>1. IsFiniteSet(cfg.blocks)
    BY CfgsAssumption DEF Init
  <2>2. Queued = cfg.blocks
    BY <2>1, ListingProperties DEF Init, Queued
  <2> QED
    BY <2>2 DEF Init, Chaotic!Init
<1>2. IInv /\ [Next]_vars => [Chaotic!Next]_(Chaotic!vars)
  <2> SUFFICES ASSUME IInv, [Next]_vars PROVE [Chaotic!Next]_(Chaotic!vars)
    OBVIOUS
  <2>1. TypeOK /\ NoDuplicates
    BY DEF IInv
  <2>2. CASE worklist # <<>> /\ Direction = "Forwards" /\ StepForwards /\ UNCHANGED cfg
    <3> DEFINE b == Top
    <3> DEFINE new_out == FlowBlock(cfg, b, Joined(cfg.preds[b], out_facts, in_facts[b]))
    <3> DEFINE N == IF new_out # out_facts[b] THEN cfg.succs[b] ELSE {}
    <3>1. b \in cfg.blocks
      BY <2>1, <2>2, FrontProperties DEF TypeOK, Top, Latest
    <3>2. N \in SUBSET cfg.blocks
      BY <2>1, <3>1, CfgsAssumption DEF TypeOK
    <3>3. Push(N)
      BY <2>2 DEF StepForwards
    <3>4. b \in Queued /\ Queued' = (Queued \ {b}) \cup N
      <4> HIDE DEF N, b
      <4> QED
        BY <2>1, <2>2, <3>2, <3>3, PushStep DEF b
    <3>5. Chaotic!EvaluateForwards(b)
      BY <2>2, <3>4 DEF StepForwards, Chaotic!EvaluateForwards, Joined, Chaotic!Joined
    <3> QED
      BY <2>2, <3>4, <3>5 DEF Chaotic!Next, Chaotic!Evaluate
  <2>3. CASE worklist # <<>> /\ Direction = "Backwards" /\ StepBackwards /\ UNCHANGED cfg
    <3> DEFINE b == Top
    <3> DEFINE new_in == FlowBlock(cfg, b, Joined(cfg.succs[b], in_facts, out_facts[b]))
    <3> DEFINE N == IF new_in # in_facts[b] THEN cfg.preds[b] ELSE {}
    <3>1. b \in cfg.blocks
      BY <2>1, <2>3, FrontProperties DEF TypeOK, Top, Latest
    <3>2. N \in SUBSET cfg.blocks
      BY <2>1, <3>1, CfgsAssumption DEF TypeOK
    <3>3. Push(N)
      BY <2>3 DEF StepBackwards
    <3>4. b \in Queued /\ Queued' = (Queued \ {b}) \cup N
      <4> HIDE DEF N, b
      <4> QED
        BY <2>1, <2>3, <3>2, <3>3, PushStep DEF b
    <3>5. Chaotic!EvaluateBackwards(b)
      BY <2>3, <3>4 DEF StepBackwards, Chaotic!EvaluateBackwards, Joined, Chaotic!Joined
    <3> QED
      BY <2>3, <3>4, <3>5 DEF Chaotic!Next, Chaotic!Evaluate
  <2>4. CASE UNCHANGED vars
    BY <2>4 DEF vars, Chaotic!vars, Queued
  <2> QED
    BY <2>2, <2>3, <2>4 DEF Next, Step
<1> QED
  BY <1>1, <1>2, Invariance, PTL DEF Spec, ImplementsChaotic, Chaotic!Spec

-----------------------------------------------------------------------------

\* Every fact is one of the analysis, and a block without neighbours on the
\* joining side still has the fact init_facts gave it.
FactsOK ==
  /\ Travelling \in FactMaps(cfg)
  /\ Resting \in FactMaps(cfg)
  /\ \A b \in cfg.blocks : Sources(cfg)[b] = {} => Resting[b] = Own(cfg)[b]

LInv == FactsOK /\ BelowEverySolution

\* The fact a step joins for block b.
JoinedAt(b) == Joined(Sources(cfg)[b], Travelling, Resting[b])

\* Solver::solve joins over sets of existing blocks.
LEMMA SourcesType ==
  ASSUME NEW c \in Cfgs, NEW b \in c.blocks
  PROVE  Sources(c)[b] \subseteq c.blocks
BY CfgsAssumption DEF Sources

\* The two arms of solve, as one.
LEMMA StepFacts ==
  ASSUME TypeOK, Next
  PROVE  \E b \in cfg.blocks :
           /\ Resting' = [Resting EXCEPT ![b] = JoinedAt(b)]
           /\ Travelling' = [Travelling EXCEPT ![b] = FlowBlock(cfg, b, JoinedAt(b))]
           /\ UNCHANGED cfg
<1>1. Top \in cfg.blocks
  BY FrontProperties DEF TypeOK, Top, Latest, Next, Step
<1>2. CASE Direction = "Forwards" /\ StepForwards
  BY <1>1, <1>2 DEF Next, Step, StepForwards, Resting, Travelling, JoinedAt, Sources
<1>3. CASE Direction = "Backwards" /\ StepBackwards
  BY <1>1, <1>3 DEF Next, Step, StepBackwards, Resting, Travelling, JoinedAt, Sources
<1> QED
  BY <1>2, <1>3 DEF Next, Step

\* What the solver joins is a nonempty set of facts.
LEMMA JoinArgument ==
  ASSUME NEW c \in Cfgs, NEW N, N # {}, N \subseteq c.blocks, NEW t \in FactMaps(c)
  PROVE  {t[n] : n \in N} \in (SUBSET Facts(c)) \ {{}}
<1>1. \A n \in N : t[n] \in Facts(c)
  BY DEF FactMaps
<1> DEFINE A == {t[n] : n \in N}
<1>2. \A f \in A : f \in Facts(c)
  BY <1>1
<1>3. A # {}
  OBVIOUS
<1> HIDE DEF A
<1>4. A \in (SUBSET Facts(c)) \ {{}}
  BY <1>2, <1>3
<1> QED
  BY <1>4 DEF A

\* A join of facts is a fact.
LEMMA JoinedFact ==
  ASSUME NEW c \in Cfgs, NEW b \in c.blocks, NEW t \in FactMaps(c), NEW own \in Facts(c)
  PROVE  Joined(Sources(c)[b], t, own) \in Facts(c)
<1>1. CASE Sources(c)[b] = {}
  BY <1>1 DEF Joined
<1>2. CASE Sources(c)[b] # {}
  <2>1. {t[n] : n \in Sources(c)[b]} \in (SUBSET Facts(c)) \ {{}}
    BY <1>2, SourcesType, JoinArgument
  <2> QED
    BY <1>2, <2>1, CombineAssumption DEF Joined
<1> QED
  BY <1>1, <1>2

\* Joining smaller facts gives a smaller fact.
LEMMA CombineMonotone ==
  ASSUME NEW c \in Cfgs, NEW N, N # {}, NEW t \in FactMaps(c), NEW u \in FactMaps(c),
         N \subseteq c.blocks, \A n \in N : Leq(t[n], u[n])
  PROVE  Leq(Combine({t[n] : n \in N}), Combine({u[n] : n \in N}))
<1> DEFINE T == {t[n] : n \in N}
<1> DEFINE U == {u[n] : n \in N}
<1>1. T \in (SUBSET Facts(c)) \ {{}} /\ U \in (SUBSET Facts(c)) \ {{}}
  BY JoinArgument
<1>2. Combine(T) \in Facts(c) /\ Combine(U) \in Facts(c)
  BY <1>1, CombineAssumption
<1>3. Leq(Combine(U), Combine(U))
  BY <1>2, OrderAssumption
<1>4. \A f \in U : Leq(f, Combine(U))
  BY <1>1, <1>2, <1>3, CombineAssumption
<1>5. \A n \in N : t[n] \in Facts(c) /\ u[n] \in Facts(c) /\ u[n] \in U
  BY DEF FactMaps
<1> HIDE DEF U
<1>6. \A n \in N : Leq(t[n], Combine(U))
  BY <1>2, <1>4, <1>5, OrderAssumption
<1>7. \A f \in T : Leq(f, Combine(U))
  BY <1>6
<1> HIDE DEF T
<1>8. Leq(Combine(T), Combine(U))
  BY <1>1, <1>2, <1>7, CombineAssumption
<1> QED
  BY <1>8 DEF T, U

\* The start facts of Analysis::init_facts are below every solution.
LEMMA LInit == Init => LInv
<1> SUFFICES ASSUME Init PROVE LInv
  OBVIOUS
<1>1. /\ cfg \in Cfgs
      /\ Travelling = Start(cfg) /\ Resting = Own(cfg)
  BY DEF Init, Travelling, Resting, Start, Own
<1>2. \A b \in cfg.blocks : Start(cfg)[b] \in Facts(cfg) /\ Own(cfg)[b] \in Facts(cfg)
  BY <1>1, StartAssumption
<1>3. /\ Start(cfg) = [b \in cfg.blocks |-> Start(cfg)[b]]
      /\ Own(cfg) = [b \in cfg.blocks |-> Own(cfg)[b]]
  BY <1>1, InitFactsAssumption DEF Start, Own
<1>4. Travelling \in FactMaps(cfg) /\ Resting \in FactMaps(cfg)
  BY <1>1, <1>2, <1>3 DEF FactMaps
<1>5. FactsOK
  BY <1>1, <1>4 DEF FactsOK
<1>6. ASSUME NEW t \in FactMaps(cfg), IsSolution(cfg, t), NEW b \in cfg.blocks
      PROVE  Leq(Travelling[b], t[b])
  <2> DEFINE j == Joined(Sources(cfg)[b], t, Own(cfg)[b])
  <2>1. t[b] = FlowBlock(cfg, b, j)
    BY <1>6 DEF IsSolution
  <2>2. j \in Facts(cfg)
    BY <1>1, <1>2, JoinedFact
  <2>3. Sources(cfg)[b] = {} => j = Own(cfg)[b]
    BY DEF Joined
  <2> HIDE DEF j
  <2> QED
    BY <1>1, <2>1, <2>2, <2>3, StartAssumption
<1>7. BelowEverySolution
  BY <1>6 DEF BelowEverySolution
<1> QED
  BY <1>5, <1>7 DEF LInv

\* Evaluating a block below every solution gives a fact below every solution,
\* since joining and flow are monotone.
LEMMA LNext == TypeOK /\ LInv /\ [Next]_vars => LInv'
<1> SUFFICES ASSUME TypeOK, LInv, [Next]_vars PROVE LInv'
  OBVIOUS
<1>1. CASE Next
  <2>1. PICK b \in cfg.blocks :
          /\ Resting' = [Resting EXCEPT ![b] = JoinedAt(b)]
          /\ Travelling' = [Travelling EXCEPT ![b] = FlowBlock(cfg, b, JoinedAt(b))]
          /\ cfg' = cfg
    BY <1>1, StepFacts
  <2>2. /\ cfg \in Cfgs
        /\ Travelling \in FactMaps(cfg) /\ Resting \in FactMaps(cfg)
        /\ \A a \in cfg.blocks : Sources(cfg)[a] = {} => Resting[a] = Own(cfg)[a]
    BY DEF TypeOK, LInv, FactsOK
  <2>3. JoinedAt(b) \in Facts(cfg)
    BY <2>2, JoinedFact DEF JoinedAt, FactMaps
  <2>4. FlowBlock(cfg, b, JoinedAt(b)) \in Facts(cfg)
    BY <2>2, <2>3, FlowAssumption
  <2>5. Sources(cfg)[b] = {} => JoinedAt(b) = Own(cfg)[b]
    BY <2>2 DEF JoinedAt, Joined
  <2>6. FactsOK'
    BY <2>1, <2>2, <2>3, <2>4, <2>5 DEF FactsOK, FactMaps
  <2>7. ASSUME NEW t \in FactMaps(cfg), IsSolution(cfg, t)
        PROVE  \A a \in cfg.blocks : Leq(Travelling'[a], t[a])
    <3> DEFINE N == Sources(cfg)[b]
    <3> DEFINE j == Joined(N, t, Own(cfg)[b])
    <3>1. \A a \in cfg.blocks : Leq(Travelling[a], t[a])
      BY <2>7 DEF LInv, BelowEverySolution
    <3>2. t[b] = FlowBlock(cfg, b, j)
      BY <2>7 DEF IsSolution
    <3>3. Own(cfg)[b] \in Facts(cfg)
      BY <2>2, StartAssumption
    <3>4. j \in Facts(cfg)
      BY <2>2, <3>3, JoinedFact
    <3>5. Leq(JoinedAt(b), j)
      <4>1. CASE N = {}
        BY <2>2, <2>5, <3>3, <4>1, OrderAssumption DEF Joined
      <4>2. CASE N # {}
        <5>1. N \subseteq cfg.blocks
          BY <2>2, SourcesType
        <5>2. Leq(Combine({Travelling[n] : n \in N}), Combine({t[n] : n \in N}))
          BY <2>2, <3>1, <4>2, <5>1, CombineMonotone
        <5> QED
          BY <4>2, <5>2 DEF JoinedAt, Joined
      <4> QED
        BY <4>1, <4>2
    <3> HIDE DEF j, N
    <3>6. Leq(FlowBlock(cfg, b, JoinedAt(b)), t[b])
      BY <2>2, <2>3, <3>2, <3>4, <3>5, FlowAssumption
    <3> QED
      BY <2>1, <2>2, <3>1, <3>6 DEF FactMaps
  <2>8. BelowEverySolution'
    BY <2>1, <2>7 DEF BelowEverySolution
  <2> QED
    BY <2>6, <2>8 DEF LInv
<1>2. CASE UNCHANGED vars
  BY <1>2 DEF vars, LInv, FactsOK, BelowEverySolution, Travelling, Resting
<1> QED
  BY <1>1, <1>2

\* The invariant of Solver::solve for a monotone analysis: all facts are facts of
\* the lattice, and those that travel along the edges are below every solution.
THEOREM LInvariance == Spec => []LInv
BY LInit, LNext, TypeCorrect, PTL DEF Spec

\* No travelling fact ever passes a solution of the dataflow equations.
THEOREM NeverPastASolution == Spec => []BelowEverySolution
BY LInvariance, PTL DEF LInv

\* Both invariants as one, for analyses that are defined elsewhere.
SolverInv == IInv /\ LInv

\* The solver starts in its invariant,
LEMMA SolverInvInit == Init => SolverInv
BY InitInv, LInit DEF SolverInv

\* and every step keeps it.
LEMMA SolverInvNext == SolverInv /\ [Next]_vars => SolverInv'
BY StepInv, LNext DEF SolverInv, IInv

\* What they say when the solver is done: the travelling facts are the least
\* solution, and the facts at the other side of each block are joined from them.
Solved ==
  /\ cfg \in Cfgs
  /\ IsSolution(cfg, Travelling)
  /\ BelowEverySolution
  /\ \A b \in cfg.blocks : Resting[b] = Joined(Sources(cfg)[b], Travelling, Own(cfg)[b])

\* With an empty worklist no block is left out of Settled.
LEMMA SolvedWhenDone ==
  ASSUME SolverInv, Done
  PROVE  Solved
<1>1. \A b \in cfg.blocks : Consistent(b)
  BY DEF SolverInv, IInv, Settled, Done, Queued, Range
<1>2. FactsOK
  BY DEF SolverInv, LInv
<1>3. ASSUME NEW b \in cfg.blocks
      PROVE  /\ Resting[b] = Joined(Sources(cfg)[b], Travelling, Own(cfg)[b])
             /\ Travelling[b] = FlowBlock(cfg, b, Joined(Sources(cfg)[b], Travelling, Own(cfg)[b]))
  <2>1. /\ Resting[b] = Joined(Sources(cfg)[b], Travelling, Resting[b])
        /\ Travelling[b] = FlowBlock(cfg, b, Resting[b])
    BY <1>1, DirectionAssumption DEF Consistent, Resting, Travelling, Sources
  <2>2. Joined(Sources(cfg)[b], Travelling, Resting[b])
          = Joined(Sources(cfg)[b], Travelling, Own(cfg)[b])
    BY <1>2 DEF FactsOK, Joined
  <2> QED
    BY <2>1, <2>2
<1>4. IsSolution(cfg, Travelling)
  BY <1>2, <1>3 DEF IsSolution, FactsOK
<1>5. cfg \in Cfgs /\ BelowEverySolution
  BY DEF SolverInv, IInv, TypeOK, LInv
<1> QED
  BY <1>3, <1>4, <1>5 DEF Solved

\* The facts Solver::solve returns solve the dataflow equations; being below
\* every solution, they are the least one, and so they do not depend on the
\* order in which the HashMap handed out the blocks.
THEOREM ReturnsLeastSolution == Spec => []SolutionWhenDone
<1>1. IInv /\ LInv => SolutionWhenDone
  BY SolvedWhenDone DEF SolverInv, Solved, SolutionWhenDone
<1> QED
  BY <1>1, Invariance, LInvariance, PTL
=============================================================================
