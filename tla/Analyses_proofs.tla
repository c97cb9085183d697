-------------------------- MODULE Analyses_proofs --------------------------
(***************************************************************************)
(* What the analyses answer, for every graph the code generator may build:     *)
(* live variables, reaching definitions, available copies, dominators and      *)
(* post-dominators.  The solver ends with the least solution of the equations   *)
(* of each (module LeastSolution), and that is what the analysis means; and,    *)
(* where all blocks are reachable, exactly one block is an immediate           *)
(* dominator.                                                                *)
(***************************************************************************)
EXTENDS Analyses, Paths_proofs

\* The lattices, from the side the solver starts on.
Smaller(f, g) == f \subseteq g
Larger(f, g)  == g \subseteq f

\* The graphs of the analyses that read instructions.
LEMMA ScalarCode ==
  ASSUME NEW c \in ScalarCfgs
  PROVE  /\ IsCode(c)
         /\ \A b \in c.blocks : Len(c.code[b]) \in Nat /\ DOMAIN c.code[b] = 1 .. Len(c.code[b])
         /\ c.entry \in c.blocks /\ c.preds[c.entry] = {}
         /\ c.exit \in c.blocks /\ c.succs[c.exit] = {}
<1>1. IsProper(c) /\ \A b \in c.blocks : Len(c.code[b]) \in Nat /\ DOMAIN c.code[b] = 1 .. Len(c.code[b])
  BY ScalarCfgsAssumption, Zenon
<1> QED
  BY <1>1 DEF IsProper, IsCode

-----------------------------------------------------------------------------
\* Liveness.

VarSets(c) == SUBSET L!Variables(c)

LB == INSTANCE BlockFlow_proofs WITH Direction <- L!Direction, Flow <- L!Flow

LiveP ==
  INSTANCE LeastSolution WITH Cfgs <- ScalarCfgs, Direction <- L!Direction,
    FlowBlock <- L!FlowBlock, Combine <- L!Combine, InitIn <- L!InitIn, InitOut <- L!InitOut,
    Facts <- VarSets, Leq <- Smaller

\* The variables an instruction adds to a fact are variables of the function.
LEMMA LiveVariables ==
  ASSUME NEW c \in ScalarCfgs
  PROVE  /\ c.globals \subseteq L!Variables(c)
         /\ \A b \in c.blocks : \A n \in 1 .. Len(c.code[b]) :
              L!UsedVars(c.code[b][n].instr) \subseteq L!Variables(c)
<1>1. ASSUME NEW b \in c.blocks, NEW n \in 1 .. Len(c.code[b])
      PROVE  c.code[b][n] \in L!Instructions(c)
  BY ScalarCode DEF L!Instructions, L!Range
<1>2. \A li \in L!Instructions(c) : L!UsedVars(li.instr) \subseteq L!Variables(c)
  BY DEF L!Variables
<1> QED
  BY <1>1, <1>2 DEF L!Variables

\* Where an instruction keeps x, and where it is read.
LiveKept(c, x) == {p \in PointsOf(c) : x \notin L!def_of_instr(L!NextInstr(c, p))}

LiveRead(c, x) ==
  {p \in PointsOf(c) : \/ L!HasNext(c, p) /\ L!Reads(c, x, L!NextInstr(c, p))
                       \/ p = L!EndOf(c, c.exit) /\ x \in c.globals}

\* The points of liveness are those of module Paths_proofs,
LEMMA LivePoints == \A c : L!Points(c) = PointsOf(c)
BY DEF L!Points, PointsOf

\* and so are the paths between them.
LEMMA LiveReachedFrom ==
  ASSUME NEW from, NEW next PROVE L!ReachedFrom(from, next) = ReachedFrom(from, next)
BY DEF L!ReachedFrom, ReachedFrom, L!Cardinality, Cardinality, L!IsFiniteSet, IsFiniteSet

\* The variables live at a point are those that it leads to a read of.
LEMMA LiveAtIs ==
  ASSUME NEW c \in ScalarCfgs, NEW p \in PointsOf(c)
  PROVE  L!LiveAt(c, p) = {x \in L!Variables(c) : p \in LeadingTo(c, LiveKept(c, x), LiveRead(c, x))}
<1>1. ASSUME NEW x \in L!Variables(c)
      PROVE  L!MayBeRead(c, x, p) <=> p \in LeadingTo(c, LiveKept(c, x), LiveRead(c, x))
  <2> DEFINE next == [q \in L!Points(c) |->
                        IF L!HasNext(c, q) => x \notin L!def_of_instr(L!NextInstr(c, q))
                        THEN L!After(c, q) ELSE {}]
  <2>1. next = PointGraph(c, LiveKept(c, x))
    BY LivePoints DEF PointGraph, LiveKept, L!HasNext, L!After, L!StartOf
  <2> DEFINE R1 == L!ReachedFrom({p}, next)
  <2>2. L!MayBeRead(c, x, p) <=>
          \E q \in R1 : \/ L!HasNext(c, q) /\ L!Reads(c, x, L!NextInstr(c, q))
                        \/ q = L!EndOf(c, c.exit) /\ x \in c.globals
    BY DEF L!MayBeRead, L!Reachable
  <2>3. R1 = ReachedFrom({p}, PointGraph(c, LiveKept(c, x)))
    BY <2>1, LiveReachedFrom
  <2> HIDE DEF R1, next
  <2>4. R1 \subseteq PointsOf(c)
    <3>1. IsGraph(PointsOf(c), PointGraph(c, LiveKept(c, x)))
      BY ScalarCode, PointGraphIs
    <3>2. {p} \subseteq PointsOf(c)
      OBVIOUS
    <3> QED
      BY <2>3, <3>1, <3>2, ReachedInside
  <2> QED
    BY <2>2, <2>3, <2>4 DEF LeadingTo, LiveRead
<1> QED
  BY <1>1 DEF L!LiveAt

\* One instruction back, and at the end of a block.
LEMMA LiveSteps ==
  ASSUME NEW c \in ScalarCfgs
  PROVE  /\ \A b \in c.blocks : \A n \in 0 .. Len(c.code[b]) : L!LiveAt(c, <<b, n>>) \in VarSets(c)
         /\ \A b \in c.blocks : \A n \in 1 .. Len(c.code[b]) :
              L!LiveAt(c, <<b, n - 1>>) = L!Flow(c, L!LiveAt(c, <<b, n>>), c.code[b][n])
         /\ \A b \in c.blocks :
              L!LiveAt(c, <<b, Len(c.code[b])>>)
                = (IF b = c.exit THEN c.globals ELSE {})
                    \cup UNION {L!LiveAt(c, <<a, 0>>) : a \in c.succs[b]}
<1> DEFINE Lead(x) == LeadingTo(c, LiveKept(c, x), LiveRead(c, x))
<1>1. /\ IsCode(c)
      /\ c.exit \in c.blocks /\ c.succs[c.exit] = {}
      /\ \A b \in c.blocks : Len(c.code[b]) \in Nat /\ c.succs[b] \subseteq c.blocks
  BY ScalarCode DEF IsCode
<1>2. ASSUME NEW x
      PROVE  /\ \A b \in c.blocks : \A n \in 1 .. Len(c.code[b]) :
                  <<b, n - 1>> \in Lead(x) <=> \/ <<b, n - 1>> \in LiveRead(c, x)
                                               \/ <<b, n>> \in Lead(x) /\ <<b, n - 1>> \in LiveKept(c, x)
             /\ \A b \in c.blocks :
                  <<b, Len(c.code[b])>> \in Lead(x) <=>
                    \/ <<b, Len(c.code[b])>> \in LiveRead(c, x)
                    \/ \E a \in c.succs[b] : <<a, 0>> \in Lead(x)
  BY <1>1, Backwards, Zenon
<1>3. \A b \in c.blocks : \A n \in 0 .. Len(c.code[b]) :
        L!LiveAt(c, <<b, n>>) = {x \in L!Variables(c) : <<b, n>> \in Lead(x)}
  BY LiveAtIs, PointIs, Zenon
<1> HIDE DEF Lead
<1>4. ASSUME NEW b \in c.blocks, NEW n \in 1 .. Len(c.code[b])
      PROVE  L!LiveAt(c, <<b, n - 1>>) = L!Flow(c, L!LiveAt(c, <<b, n>>), c.code[b][n])
  <2> DEFINE i == c.code[b][n].instr
  <2>1. /\ n \in 0 .. Len(c.code[b]) /\ n - 1 \in 0 .. Len(c.code[b])
        /\ n - 1 < Len(c.code[b]) /\ n - 1 # Len(c.code[b]) /\ n - 1 + 1 = n
    BY <1>1
  <2>2. <<b, n - 1>> \in PointsOf(c)
    BY <2>1, PointIs
  <2>3. L!HasNext(c, <<b, n - 1>>) /\ L!NextInstr(c, <<b, n - 1>>) = i
    BY <2>1 DEF L!HasNext, L!NextInstr
  <2>4. <<b, n - 1>> # L!EndOf(c, c.exit)
    BY <2>1 DEF L!EndOf
  <2>5. \A x : /\ <<b, n - 1>> \in LiveRead(c, x) <=> L!Reads(c, x, i)
               /\ <<b, n - 1>> \in LiveKept(c, x) <=> x \notin L!def_of_instr(i)
    BY <2>2, <2>3, <2>4 DEF LiveRead, LiveKept
  <2>6. /\ L!LiveAt(c, <<b, n>>) = {x \in L!Variables(c) : <<b, n>> \in Lead(x)}
        /\ L!LiveAt(c, <<b, n - 1>>) = {x \in L!Variables(c) : <<b, n - 1>> \in Lead(x)}
    BY <1>3, <2>1
  <2>7. \A x : <<b, n - 1>> \in Lead(x) <=>
                 L!Reads(c, x, i) \/ (<<b, n>> \in Lead(x) /\ x \notin L!def_of_instr(i))
    BY <1>2, <2>5
  <2>8. c.globals \subseteq L!Variables(c) /\ L!UsedVars(i) \subseteq L!Variables(c)
    BY LiveVariables
  <2> HIDE DEF i
  <2>9. \A x : L!Reads(c, x, i) <=> x \in L!UsedVars(i) \/ (L!IsCall(i) /\ x \in c.globals)
    BY DEF L!Reads
  <2>10. L!Flow(c, L!LiveAt(c, <<b, n>>), c.code[b][n])
           = (L!LiveAt(c, <<b, n>>) \ L!def_of_instr(i))
               \cup (IF L!IsCall(i) THEN c.globals ELSE {}) \cup L!UsedVars(i)
    BY DEF L!Flow, i
  <2> QED
    BY <2>6, <2>7, <2>8, <2>9, <2>10, Zenon
<1>5. ASSUME NEW b \in c.blocks
      PROVE  L!LiveAt(c, <<b, Len(c.code[b])>>)
               = (IF b = c.exit THEN c.globals ELSE {})
                   \cup UNION {L!LiveAt(c, <<a, 0>>) : a \in c.succs[b]}
  <2> DEFINE e == <<b, Len(c.code[b])>>
  <2>1. Len(c.code[b]) \in 0 .. Len(c.code[b]) /\ ~(Len(c.code[b]) < Len(c.code[b]))
    BY <1>1
  <2>2. e \in PointsOf(c)
    BY <2>1, PointIs
  <2>3. ~L!HasNext(c, e) /\ (e = L!EndOf(c, c.exit) <=> b = c.exit)
    BY <2>1 DEF L!HasNext, L!EndOf
  <2>4. \A x : e \in LiveRead(c, x) <=> b = c.exit /\ x \in c.globals
    BY <2>2, <2>3 DEF LiveRead
  <2>5. L!LiveAt(c, e) = {x \in L!Variables(c) : e \in Lead(x)}
    BY <1>3, <2>1
  <2>6. \A x : e \in Lead(x) <=> (b = c.exit /\ x \in c.globals) \/ \E a \in c.succs[b] : <<a, 0>> \in Lead(x)
    BY <1>2, <2>4, Zenon
  <2>7. c.globals \subseteq L!Variables(c)
    BY LiveVariables
  <2>8. \A a \in c.succs[b] : L!LiveAt(c, <<a, 0>>) = {x \in L!Variables(c) : <<a, 0>> \in Lead(x)}
    <3>1. \A a \in c.succs[b] : a \in c.blocks /\ 0 \in 0 .. Len(c.code[a])
      BY <1>1
    <3> QED
      BY <1>3, <3>1
  <2> HIDE DEF e
  <2> DEFINE own == IF b = c.exit THEN c.globals ELSE {}
  <2> DEFINE joined == UNION {L!LiveAt(c, <<a, 0>>) : a \in c.succs[b]}
  <2>9. ASSUME NEW x PROVE x \in L!LiveAt(c, e) <=> x \in own \/ x \in joined
    <3>1. x \in own <=> b = c.exit /\ x \in c.globals
      OBVIOUS
    <3>2. x \in joined <=> \E a \in c.succs[b] : x \in L!LiveAt(c, <<a, 0>>)
      BY Zenon
    <3>3. x \in joined <=> x \in L!Variables(c) /\ \E a \in c.succs[b] : <<a, 0>> \in Lead(x)
      BY <2>8, <3>2, Zenon
    <3> HIDE DEF own, joined
    <3>4. x \in L!LiveAt(c, e) <=> x \in L!Variables(c) /\ e \in Lead(x)
      BY <2>5
    <3>5. x \in c.globals => x \in L!Variables(c)
      BY <2>7
    <3> QED
      BY <2>6, <3>1, <3>3, <3>4, <3>5
  <2> HIDE DEF own, joined
  <2>10. L!LiveAt(c, e) = own \cup joined
    BY <2>9
  <2> QED
    BY <2>10, Zenon DEF e, own, joined
<1>6. \A b \in c.blocks : \A n \in 0 .. Len(c.code[b]) : L!LiveAt(c, <<b, n>>) \in VarSets(c)
  BY <1>3 DEF VarSets
<1> QED
  BY <1>4, <1>5, <1>6, Zenon

\* A variable that may be read is in every labelling of the points that satisfies
\* the equations.
LEMMA LiveLeast ==
  ASSUME NEW c \in ScalarCfgs, NEW x \in L!Variables(c), NEW S,
         \A b \in c.blocks : \A n \in 1 .. Len(c.code[b]) :
           L!Reads(c, x, c.code[b][n].instr)
             \/ (<<b, n>> \in S /\ x \notin L!def_of_instr(c.code[b][n].instr)) => <<b, n - 1>> \in S,
         \A b \in c.blocks :
           (b = c.exit /\ x \in c.globals) \/ (\E a \in c.succs[b] : <<a, 0>> \in S)
             => <<b, Len(c.code[b])>> \in S,
         NEW p \in PointsOf(c), x \in L!LiveAt(c, p)
  PROVE  p \in S
<1>1. /\ IsCode(c)
      /\ c.exit \in c.blocks
      /\ \A b \in c.blocks : Len(c.code[b]) \in Nat
  BY ScalarCode
<1>2. ASSUME NEW b \in c.blocks, NEW n \in 1 .. Len(c.code[b])
      PROVE  L!NextInstr(c, <<b, n - 1>>) = c.code[b][n].instr
  BY <1>1 DEF L!NextInstr
<1>3. LiveRead(c, x) \cap PointsOf(c) \subseteq S
  <2> SUFFICES ASSUME NEW q \in LiveRead(c, x) PROVE q \in S
    OBVIOUS
  <2>1. /\ q \in PointsOf(c)
        /\ \/ L!HasNext(c, q) /\ L!Reads(c, x, L!NextInstr(c, q))
           \/ q = L!EndOf(c, c.exit) /\ x \in c.globals
    BY DEF LiveRead
  <2>2. PICK b \in c.blocks : \/ \E n \in 1 .. Len(c.code[b]) : q = <<b, n - 1>>
                              \/ q = <<b, Len(c.code[b])>>
    BY <1>1, <2>1, PointCases
  <2>3. CASE q = L!EndOf(c, c.exit) /\ x \in c.globals
    BY <1>1, <2>3 DEF L!EndOf
  <2>4. CASE L!HasNext(c, q) /\ L!Reads(c, x, L!NextInstr(c, q))
    <3>1. q # <<b, Len(c.code[b])>>
      BY <1>1, <2>4 DEF L!HasNext
    <3>2. PICK n \in 1 .. Len(c.code[b]) : q = <<b, n - 1>>
      BY <2>2, <3>1
    <3> QED
      BY <1>2, <2>4, <3>2, Zenon
  <2> QED
    BY <2>1, <2>3, <2>4
<1>4. ClosedBackwards(c, LiveKept(c, x), S)
  <2>1. ASSUME NEW b \in c.blocks, NEW n \in 1 .. Len(c.code[b]),
               <<b, n>> \in S, <<b, n - 1>> \in LiveKept(c, x)
        PROVE  <<b, n - 1>> \in S
    BY <1>2, <2>1 DEF LiveKept
  <2> QED
    BY <2>1 DEF ClosedBackwards
<1>5. p \in LeadingTo(c, LiveKept(c, x), LiveRead(c, x))
  BY LiveAtIs
<1> QED
  BY <1>1, <1>3, <1>4, <1>5, Backwards

\* The blocks, as module BlockFlow_proofs has them.
LEMMA LiveBlocks ==
  ASSUME NEW c, NEW b, NEW f
  PROVE  L!Carried(c, b, f) = LB!Carried(c, b, f) /\ L!FlowBlock(c, b, f) = LB!FlowBlock(c, b, f)
<1>1. L!Carried(c, b, f) = LB!Carried(c, b, f)
  BY DEF L!Carried, LB!Carried, L!Visited, LB!Visited
<1> QED
  BY <1>1 DEF L!FlowBlock, LB!FlowBlock

\* Instructions are visited from the last to the first.
LEMMA LiveVisited ==
  ASSUME NEW c \in ScalarCfgs, NEW b \in c.blocks, NEW n
  PROVE  /\ LB!Visited(c, b, n) = c.code[b][Len(c.code[b]) + 1 - n]
         /\ LB!PointAfter(c, b, n) = <<b, Len(c.code[b]) - n>>
BY DEF LB!Visited, LB!PointAfter, L!Direction

\* An instruction takes sets of variables to sets of variables, and larger ones to larger ones;
LEMMA LiveFlows ==
  ASSUME NEW c \in ScalarCfgs, NEW b \in c.blocks
  PROVE  /\ LB!FlowsIn(c, b, VarSets(c))
         /\ \A n \in 1 .. Len(c.code[b]) : \A f, g \in VarSets(c) :
              f \subseteq g => L!Flow(c, f, LB!Visited(c, b, n)) \subseteq L!Flow(c, g, LB!Visited(c, b, n))
<1>1. Len(c.code[b]) \in Nat
  BY ScalarCode
<1>2. ASSUME NEW n \in 1 .. Len(c.code[b])
      PROVE  /\ L!UsedVars(LB!Visited(c, b, n).instr) \subseteq L!Variables(c)
             /\ c.globals \subseteq L!Variables(c)
  <2> DEFINE m == Len(c.code[b]) + 1 - n
  <2>1. m \in 1 .. Len(c.code[b])
    BY <1>1
  <2>2. LB!Visited(c, b, n) = c.code[b][m]
    BY LiveVisited
  <2> HIDE DEF m
  <2> QED
    BY <2>1, <2>2, LiveVariables
<1>3. \A n \in 1 .. Len(c.code[b]) : \A f \in VarSets(c) :
        L!Flow(c, f, LB!Visited(c, b, n)) \in VarSets(c)
  BY <1>2 DEF L!Flow, VarSets
<1>4. LB!FlowsIn(c, b, VarSets(c))
  BY <1>1, <1>3 DEF LB!FlowsIn
<1> QED
  BY <1>4 DEF L!Flow

\* and so does a block.
LEMMA LiveFlowBlock ==
  ASSUME NEW c \in ScalarCfgs, NEW b \in c.blocks
  PROVE  /\ \A f \in VarSets(c) : L!FlowBlock(c, b, f) \in VarSets(c)
         /\ \A f, g \in VarSets(c) :
              f \subseteq g => L!FlowBlock(c, b, f) \subseteq L!FlowBlock(c, b, g)
<1>1. ASSUME NEW f \in VarSets(c) PROVE L!FlowBlock(c, b, f) \in VarSets(c)
  BY LiveBlocks, LiveFlows, LB!FlowBlockType
<1>2. ASSUME NEW f \in VarSets(c), NEW g \in VarSets(c), f \subseteq g
      PROVE  L!FlowBlock(c, b, f) \subseteq L!FlowBlock(c, b, g)
  <2>1. /\ LB!FlowsIn(c, b, VarSets(c))
        /\ \A n \in 1 .. Len(c.code[b]) : \A x, y \in VarSets(c) :
             x \subseteq y => L!Flow(c, x, LB!Visited(c, b, n)) \subseteq L!Flow(c, y, LB!Visited(c, b, n))
    BY LiveFlows
  <2>2. LB!FlowBlock(c, b, f) \subseteq LB!FlowBlock(c, b, g)
    BY <1>2, <2>1, LB!FlowBlockMonotone
  <2> QED
    BY <2>2, LiveBlocks
<1> QED
  BY <1>1, <1>2

\* Finite sets are finite sets in the instance, too.
LEMMA LiveFinite == \A S : LiveP!IsFiniteSet(S) <=> IsFiniteSet(S)
BY DEF IsFiniteSet, LiveP!IsFiniteSet

\* The analysis of liveness meets the assumptions of the solver's theorems.
LEMMA LiveAssumptions ==
  /\ LiveP!DirectionAssumption /\ LiveP!CfgsAssumption /\ LiveP!InitFactsAssumption
  /\ LiveP!OrderAssumption /\ LiveP!CombineAssumption /\ LiveP!FlowAssumption
  /\ LiveP!StartAssumption
<1>1. LiveP!DirectionAssumption
  BY DEF LiveP!DirectionAssumption, L!Direction
<1>2. LiveP!CfgsAssumption
  <2>1. ASSUME NEW c \in ScalarCfgs
        PROVE  /\ LiveP!IsFiniteSet(c.blocks)
               /\ c.preds \in [c.blocks -> SUBSET c.blocks]
               /\ c.succs \in [c.blocks -> SUBSET c.blocks]
               /\ LiveP!IsValid(c)
    BY ScalarCode, LiveFinite DEF LiveP!IsValid, IsCode
  <2> QED
    BY <2>1 DEF LiveP!CfgsAssumption
<1>3. LiveP!InitFactsAssumption
  BY DEF LiveP!InitFactsAssumption, L!InitIn, L!InitOut
<1>4. LiveP!OrderAssumption
  BY DEF LiveP!OrderAssumption, Smaller
<1>5. ASSUME NEW c \in ScalarCfgs, NEW F \in (SUBSET VarSets(c)) \ {{}}
      PROVE  /\ L!Combine(F) \in VarSets(c)
             /\ \A u \in VarSets(c) : Smaller(L!Combine(F), u) <=> \A f \in F : Smaller(f, u)
  BY DEF L!Combine, VarSets, Smaller
<1>6. LiveP!CombineAssumption
  BY <1>5 DEF LiveP!CombineAssumption
<1>7. LiveP!FlowAssumption
  BY LiveFlowBlock DEF LiveP!FlowAssumption, Smaller
<1>8. ASSUME NEW c \in ScalarCfgs, NEW b \in c.blocks
      PROVE  /\ L!InitOut(c)[b] \in VarSets(c)
             /\ L!InitIn(c)[b] \in VarSets(c)
             /\ \A f : Smaller(L!InitIn(c)[b], L!FlowBlock(c, b, f))
  BY LiveVariables DEF L!InitOut, L!InitIn, VarSets, Smaller
<1>9. LiveP!StartAssumption
  BY <1>8 DEF LiveP!StartAssumption, LiveP!Own, LiveP!Start, LiveP!Sources, L!Direction
<1> QED
  BY <1>1, <1>2, <1>3, <1>4, <1>6, <1>7, <1>9

\* The solver of the analysis is the solver of the theorems.
LEMMA SameLive == (Live!Init <=> LiveP!Init) /\ (Live!Next <=> LiveP!Next)
<1>1. ASSUME NEW S PROVE Live!Listings(S) = LiveP!Listings(S)
  BY DEF Live!Listings, Live!Bijection, Live!Injection, Live!Surjection, Live!IsInjective,
         Live!Cardinality, Live!IsFiniteSet, LiveP!Listings, LiveP!Bijection, LiveP!Injection,
         LiveP!Surjection, LiveP!IsInjective, LiveP!Cardinality, LiveP!IsFiniteSet
<1>2. ASSUME NEW N PROVE Live!Push(N) <=> LiveP!Push(N)
  BY <1>1, Zenon DEF Live!Push, Live!Range, Live!Popped, LiveP!Push, LiveP!Range, LiveP!Popped
<1>3. Live!Init <=> LiveP!Init
  BY <1>1 DEF Live!Init, LiveP!Init
<1>4. Live!StepForwards <=> LiveP!StepForwards
  BY <1>2 DEF Live!StepForwards, Live!Top, Live!Joined,
              LiveP!StepForwards, LiveP!Top, LiveP!Joined
<1>5. Live!StepBackwards <=> LiveP!StepBackwards
  BY <1>2 DEF Live!StepBackwards, Live!Top, Live!Joined,
              LiveP!StepBackwards, LiveP!Top, LiveP!Joined
<1> QED
  BY <1>3, <1>4, <1>5 DEF Live!Next, Live!Step, LiveP!Next, LiveP!Step

\* During this analysis the invariant of the solver holds;
LEMMA LiveInvariant == Spec => [](analysis = "liveness" => LiveP!SolverInv)
<1>1. Init => (analysis = "liveness" => LiveP!SolverInv)
  <2> SUFFICES ASSUME Init, analysis = "liveness" PROVE LiveP!SolverInv
    OBVIOUS
  <2>1. LiveP!Init
    BY SameLive DEF Init
  <2>2. LiveP!Init => LiveP!SolverInv
    BY LiveAssumptions, LiveP!SolverInvInit, Zenon
  <2> QED
    BY <2>1, <2>2
<1>2. /\ analysis = "liveness" => LiveP!SolverInv
      /\ [Next]_vars
      => (analysis = "liveness" => LiveP!SolverInv)'
  <2> SUFFICES ASSUME analysis = "liveness" => LiveP!SolverInv, [Next]_vars, analysis' = "liveness"
               PROVE  LiveP!SolverInv'
    OBVIOUS
  <2>1. analysis = "liveness" /\ [LiveP!Next]_(LiveP!vars)
    BY SameLive DEF Next, vars, LiveP!vars
  <2>2. LiveP!SolverInv /\ [LiveP!Next]_(LiveP!vars) => LiveP!SolverInv'
    BY LiveAssumptions, LiveP!SolverInvNext, Zenon
  <2> QED
    BY <2>1, <2>2
<1> QED
  BY <1>1, <1>2, PTL DEF Spec

\* so, when it is done, it has the least solution.
LEMMA LiveSolved == (analysis = "liveness" => LiveP!SolverInv) /\ Answered("liveness") => LiveP!Solved
<1> SUFFICES ASSUME LiveP!SolverInv, Done PROVE LiveP!Solved
  BY DEF Answered
<1>1. LiveP!Done
  BY DEF Done, LiveP!Done
<1> QED
  BY <1>1, LiveAssumptions, LiveP!SolvedWhenDone, Zenon

\* The fact a block joins from the travelling facts t.
LiveJoined(c, t, b) == LiveP!Joined(c.succs[b], t, L!InitOut(c)[b])

\* Behind a block, everything is live that is live at the head of a successor, and
\* the globals at the exit.
LEMMA LiveJoin ==
  ASSUME NEW c \in ScalarCfgs, NEW t \in LiveP!FactMaps(c), NEW b \in c.blocks
  PROVE  /\ LiveJoined(c, t, b) = (IF b = c.exit THEN c.globals ELSE {})
                                    \cup UNION {t[a] : a \in c.succs[b]}
         /\ LiveJoined(c, t, b) \in VarSets(c)
<1>1. /\ c.exit \in c.blocks /\ c.succs[c.exit] = {}
      /\ c.succs[b] \subseteq c.blocks
  BY ScalarCode DEF IsCode
<1>2. L!InitOut(c)[b] = IF b = c.exit THEN c.globals ELSE {}
  BY DEF L!InitOut
<1>3. LiveJoined(c, t, b) = IF c.succs[b] # {} THEN UNION {t[a] : a \in c.succs[b]}
                            ELSE L!InitOut(c)[b]
  BY DEF LiveJoined, LiveP!Joined, L!Combine
<1>4. \A a \in c.succs[b] : t[a] \subseteq L!Variables(c)
  BY <1>1 DEF LiveP!FactMaps, VarSets
<1>5. c.globals \subseteq L!Variables(c)
  BY LiveVariables
<1>6. LiveJoined(c, t, b) = (IF b = c.exit THEN c.globals ELSE {})
                              \cup UNION {t[a] : a \in c.succs[b]}
  BY <1>1, <1>2, <1>3
<1>7. LiveJoined(c, t, b) \subseteq L!Variables(c)
  BY <1>4, <1>5, <1>6
<1> QED
  BY <1>6, <1>7 DEF VarSets

\* A solution, a block at a time.
LEMMA LiveSolutionIs ==
  ASSUME NEW c, NEW t
  PROVE  LiveP!IsSolution(c, t) <=>
           /\ t \in LiveP!FactMaps(c)
           /\ \A b \in c.blocks : t[b] = L!FlowBlock(c, b, LiveJoined(c, t, b))
BY DEF LiveP!IsSolution, LiveP!Sources, LiveP!Own, L!Direction, LiveJoined

\* The variables that may be read from each point on, ...
LiveMeant(c) == [p \in PointsOf(c) |-> L!LiveAt(c, p)]

LiveMeantIn(c) == [b \in c.blocks |-> LiveMeant(c)[<<b, 0>>]]

\* ... are what the flow through the blocks makes of what is meant at their ends, ...
LEMMA LiveMeantSolves ==
  ASSUME NEW c \in ScalarCfgs
  PROVE  /\ LiveP!IsSolution(c, LiveMeantIn(c))
         /\ \A b \in c.blocks : \A n \in 0 .. Len(c.code[b]) :
              LB!Carried(c, b, LiveJoined(c, LiveMeantIn(c), b))[n]
                = L!LiveAt(c, <<b, Len(c.code[b]) - n>>)
<1> DEFINE u == LiveMeant(c)
<1> DEFINE t == LiveMeantIn(c)
<1>1. \A b \in c.blocks : Len(c.code[b]) \in Nat /\ c.succs[b] \subseteq c.blocks
  BY ScalarCode DEF IsCode
<1>2. \A b \in c.blocks : \A n \in 0 .. Len(c.code[b]) :
        u[<<b, n>>] = L!LiveAt(c, <<b, n>>) /\ u[<<b, n>>] \in VarSets(c)
  BY LiveSteps, PointIs, Zenon DEF LiveMeant
<1>3. \A b \in c.blocks : t[b] = L!LiveAt(c, <<b, 0>>) /\ t[b] \in VarSets(c)
  BY <1>1, <1>2 DEF LiveMeantIn
<1>4. t \in LiveP!FactMaps(c)
  <2>1. t = [b \in c.blocks |-> t[b]]
    BY DEF LiveMeantIn
  <2> HIDE DEF t
  <2> QED
    BY <1>3, <2>1, Zenon DEF LiveP!FactMaps
<1> HIDE DEF u, t
<1>5. ASSUME NEW b \in c.blocks
      PROVE  LiveJoined(c, t, b) = u[<<b, Len(c.code[b])>>]
  <2>1. {t[a] : a \in c.succs[b]} = {L!LiveAt(c, <<a, 0>>) : a \in c.succs[b]}
    BY <1>1, <1>3, Zenon
  <2>2. LiveJoined(c, t, b) = (IF b = c.exit THEN c.globals ELSE {})
                                \cup UNION {t[a] : a \in c.succs[b]}
    BY <1>4, LiveJoin
  <2>3. L!LiveAt(c, <<b, Len(c.code[b])>>)
          = (IF b = c.exit THEN c.globals ELSE {})
              \cup UNION {L!LiveAt(c, <<a, 0>>) : a \in c.succs[b]}
    BY LiveSteps
  <2>4. u[<<b, Len(c.code[b])>>] = L!LiveAt(c, <<b, Len(c.code[b])>>)
    BY <1>1, <1>2
  <2> QED
    BY <2>1, <2>2, <2>3, <2>4, Zenon
<1>6. ASSUME NEW b \in c.blocks
      PROVE  \A n \in 0 .. Len(c.code[b]) :
               LB!Carried(c, b, LiveJoined(c, t, b))[n] = u[<<b, Len(c.code[b]) - n>>]
  <2> DEFINE N == Len(c.code[b])
  <2>1. N \in Nat
    BY <1>1
  <2>2. \A n : LB!PointAfter(c, b, n) = <<b, N - n>> /\ LB!Visited(c, b, n) = c.code[b][N + 1 - n]
    BY LiveVisited
  <2>3. \A n \in 1 .. N : u[<<b, n - 1>>] = L!Flow(c, u[<<b, n>>], c.code[b][n])
    <3>1. \A n \in 1 .. N : n \in 0 .. N /\ n - 1 \in 0 .. N
      BY <2>1
    <3> QED
      BY <1>2, <3>1, LiveSteps
  <2> HIDE DEF N
  <2>4. ASSUME NEW n \in 1 .. N
        PROVE  u[LB!PointAfter(c, b, n)] = L!Flow(c, u[LB!PointAfter(c, b, n - 1)], LB!Visited(c, b, n))
    <3> DEFINE m == N + 1 - n
    <3>1. m \in 1 .. N /\ m - 1 = N - n /\ m = N - (n - 1)
      BY <2>1
    <3>2. u[<<b, m - 1>>] = L!Flow(c, u[<<b, m>>], c.code[b][m])
      BY <2>3, <3>1
    <3> QED
      BY <2>2, <3>1, <3>2
  <2>5. LB!PointAfter(c, b, 0) = <<b, N>>
    BY <2>1, <2>2
  <2>6. u[LB!PointAfter(c, b, 0)] \in VarSets(c)
    BY <1>2, <2>1, <2>5 DEF N
  <2>7. \A n \in 1 .. Len(c.code[b]) :
          u[LB!PointAfter(c, b, n)] = L!Flow(c, u[LB!PointAfter(c, b, n - 1)], LB!Visited(c, b, n))
    BY <2>4 DEF N
  <2>8. LB!FlowsIn(c, b, VarSets(c))
    BY LiveFlows
  <2>9. \A n \in 0 .. Len(c.code[b]) :
          LB!Carried(c, b, u[LB!PointAfter(c, b, 0)])[n] = u[LB!PointAfter(c, b, n)]
    BY <2>6, <2>7, <2>8, LB!CarriedAlong
  <2> QED
    BY <1>5, <2>2, <2>5, <2>9, Zenon DEF N
<1>7. \A b \in c.blocks : t[b] = L!FlowBlock(c, b, LiveJoined(c, t, b))
  <2> SUFFICES ASSUME NEW b \in c.blocks PROVE t[b] = L!FlowBlock(c, b, LiveJoined(c, t, b))
    OBVIOUS
  <2>1. Len(c.code[b]) \in 0 .. Len(c.code[b]) /\ Len(c.code[b]) - Len(c.code[b]) = 0
        /\ 0 \in 0 .. Len(c.code[b])
    BY <1>1
  <2>2. LB!FlowBlock(c, b, LiveJoined(c, t, b)) = u[<<b, 0>>]
    BY <1>6, <2>1, Zenon DEF LB!FlowBlock
  <2> QED
    BY <1>2, <1>3, <2>1, <2>2, LiveBlocks
<1>8. ASSUME NEW b \in c.blocks, NEW n \in 0 .. Len(c.code[b])
      PROVE  LB!Carried(c, b, LiveJoined(c, t, b))[n] = L!LiveAt(c, <<b, Len(c.code[b]) - n>>)
  <2>1. Len(c.code[b]) - n \in 0 .. Len(c.code[b])
    BY <1>1
  <2> QED
    BY <1>2, <1>6, <2>1
<1>9. LiveP!IsSolution(c, t)
  BY <1>4, <1>7, LiveSolutionIs
<1> QED
  BY <1>8, <1>9 DEF t

\* ... and below every solution.
LEMMA LiveMeantBelow ==
  ASSUME NEW c \in ScalarCfgs, NEW t, LiveP!IsSolution(c, t)
  PROVE  \A b \in c.blocks : LiveMeantIn(c)[b] \subseteq t[b]
<1> DEFINE join(b) == LiveJoined(c, t, b)
<1> DEFINE w(b, n) == LB!Carried(c, b, join(b))[Len(c.code[b]) - n]
<1>1. \A b \in c.blocks : Len(c.code[b]) \in Nat /\ c.succs[b] \subseteq c.blocks
  BY ScalarCode DEF IsCode
<1>2. t \in LiveP!FactMaps(c) /\ \A b \in c.blocks : t[b] = L!FlowBlock(c, b, join(b))
  BY LiveSolutionIs
<1>3. ASSUME NEW b \in c.blocks
      PROVE  /\ w(b, Len(c.code[b])) = join(b)
             /\ w(b, 0) = t[b]
             /\ \A n \in 1 .. Len(c.code[b]) : w(b, n - 1) = L!Flow(c, w(b, n), c.code[b][n])
  <2> DEFINE N == Len(c.code[b])
  <2> DEFINE carried == LB!Carried(c, b, join(b))
  <2>1. join(b) \in VarSets(c) /\ LB!FlowsIn(c, b, VarSets(c))
    BY <1>2, LiveJoin, LiveFlows
  <2>2. carried[0] = join(b) /\ \A n \in 1 .. N : carried[n] = L!Flow(c, carried[n - 1], LB!Visited(c, b, n))
    <3> HIDE DEF join
    <3> QED
      BY <2>1, LB!CarriedSteps
  <2>3. \A n : LB!Visited(c, b, n) = c.code[b][N + 1 - n]
    BY LiveVisited
  <2>4. N \in Nat /\ N - N = 0 /\ N - 0 = N
    BY <1>1
  <2>5. carried[N] = t[b]
    BY <1>2, LiveBlocks DEF LB!FlowBlock
  <2> HIDE DEF carried, N
  <2>6. ASSUME NEW n \in 1 .. N
        PROVE  carried[N - (n - 1)] = L!Flow(c, carried[N - n], c.code[b][n])
    <3> DEFINE m == N + 1 - n
    <3>1. m \in 1 .. N /\ m - 1 = N - n /\ m = N - (n - 1) /\ N + 1 - m = n
      BY <2>4
    <3>2. carried[m] = L!Flow(c, carried[m - 1], c.code[b][N + 1 - m])
      BY <2>2, <2>3, <3>1
    <3> QED
      BY <3>1, <3>2
  <2> QED
    BY <2>2, <2>4, <2>5, <2>6 DEF carried, N
<1> HIDE DEF w
<1>4. ASSUME NEW b \in c.blocks
      PROVE  join(b) = (IF b = c.exit THEN c.globals ELSE {}) \cup UNION {t[a] : a \in c.succs[b]}
  BY <1>2, LiveJoin
<1> HIDE DEF join
<1>5. ASSUME NEW b \in c.blocks, NEW x \in LiveMeantIn(c)[b] PROVE x \in t[b]
  <2> DEFINE S == {p \in PointsOf(c) : x \in w(p[1], p[2])}
  <2>1. \A a \in c.blocks : \A n \in 0 .. Len(c.code[a]) : <<a, n>> \in S <=> x \in w(a, n)
    BY PointIs, Zenon
  <2>2. \A a \in c.blocks : 0 \in 0 .. Len(c.code[a]) /\ Len(c.code[a]) \in 0 .. Len(c.code[a])
    BY <1>1
  <2>3. <<b, 0>> \in PointsOf(c) /\ x \in L!LiveAt(c, <<b, 0>>)
    BY <1>5, <2>2, PointIs, Zenon DEF LiveMeantIn, LiveMeant
  <2>4. x \in L!Variables(c)
    BY <2>3 DEF L!LiveAt
  <2> HIDE DEF S
  <2>5. ASSUME NEW a \in c.blocks, NEW n \in 1 .. Len(c.code[a]),
               L!Reads(c, x, c.code[a][n].instr)
                 \/ (<<a, n>> \in S /\ x \notin L!def_of_instr(c.code[a][n].instr))
        PROVE  <<a, n - 1>> \in S
    <3>1. n \in 0 .. Len(c.code[a]) /\ n - 1 \in 0 .. Len(c.code[a])
      BY <1>1
    <3>2. w(a, n - 1) = L!Flow(c, w(a, n), c.code[a][n])
      BY <1>3
    <3>3. x \in L!Flow(c, w(a, n), c.code[a][n])
      <4>1. <<a, n>> \in S => x \in w(a, n)
        BY <2>1, <3>1
      <4> QED
        BY <2>5, <4>1 DEF L!Flow, L!Reads
    <3> QED
      BY <2>1, <3>1, <3>2, <3>3
  <2>6. ASSUME NEW a \in c.blocks,
               (a = c.exit /\ x \in c.globals) \/ (\E e \in c.succs[a] : <<e, 0>> \in S)
        PROVE  <<a, Len(c.code[a])>> \in S
    <3>1. \A e \in c.succs[a] : <<e, 0>> \in S => x \in t[e]
      BY <1>1, <1>3, <2>1, <2>2
    <3>2. x \in join(a)
      BY <1>4, <2>6, <3>1, Zenon
    <3> QED
      BY <1>3, <2>1, <2>2, <3>2
  <2>7. <<b, 0>> \in S
    BY <2>3, <2>4, <2>5, <2>6, LiveLeast, Zenon
  <2> QED
    BY <1>3, <2>1, <2>2, <2>7
<1> QED
  BY <1>5

\* dce keeps every instruction whose result may be read, and no other, in every
\* function: liveness.rs finds the variables that may be read.
THEOREM LivenessIsExact == Spec => []LivenessExact
<1>1. (analysis = "liveness" => LiveP!SolverInv) => LivenessExact
  <2> SUFFICES ASSUME analysis = "liveness" => LiveP!SolverInv, Answered("liveness"),
                      NEW b \in cfg.blocks, NEW n \in DOMAIN cfg.code[b]
               PROVE  L!instr_fact(cfg, b, n, out_facts[b]) = L!LiveAt(cfg, <<b, n>>)
    BY Zenon DEF LivenessExact
  <2>1. LiveP!Solved
    BY LiveSolved
  <2>2. /\ cfg \in ScalarCfgs
        /\ LiveP!IsSolution(cfg, in_facts)
        /\ \A t \in LiveP!FactMaps(cfg) :
             LiveP!IsSolution(cfg, t) => \A a \in cfg.blocks : in_facts[a] \subseteq t[a]
        /\ \A a \in cfg.blocks : out_facts[a] = LiveJoined(cfg, in_facts, a)
    BY <2>1 DEF LiveP!Solved, LiveP!Travelling, LiveP!Resting, LiveP!BelowEverySolution,
                LiveP!Sources, LiveP!Own, L!Direction, Smaller, LiveJoined
  <2>3. LiveP!IsSolution(cfg, LiveMeantIn(cfg))
    BY <2>2, LiveMeantSolves
  <2>4. in_facts \in LiveP!FactMaps(cfg) /\ LiveMeantIn(cfg) \in LiveP!FactMaps(cfg)
    BY <2>2, <2>3 DEF LiveP!IsSolution
  <2>5. \A a \in cfg.blocks : in_facts[a] = LiveMeantIn(cfg)[a]
    BY <2>2, <2>3, <2>4, LiveMeantBelow, Zenon
  <2>6. in_facts = LiveMeantIn(cfg)
    BY <2>4, <2>5 DEF LiveP!FactMaps
  <2>7. Len(cfg.code[b]) \in Nat /\ n \in 1 .. Len(cfg.code[b])
    BY <2>2, ScalarCode
  <2> DEFINE m == Len(cfg.code[b]) - n
  <2>8. m \in 0 .. Len(cfg.code[b]) /\ Len(cfg.code[b]) - m = n
    <3> DEFINE N == Len(cfg.code[b])
    <3>1. N \in Nat /\ n \in 1 .. N
      BY <2>7
    <3> HIDE DEF N
    <3>2. N - n \in 0 .. N /\ N - (N - n) = n
      BY <3>1
    <3> QED
      BY <3>2 DEF N
  <2>9. LB!Carried(cfg, b, LiveJoined(cfg, LiveMeantIn(cfg), b))[m] = L!LiveAt(cfg, <<b, n>>)
    BY <2>2, <2>8, LiveMeantSolves
  <2>10. L!instr_fact(cfg, b, n, out_facts[b]) = LB!Carried(cfg, b, out_facts[b])[m]
    BY LiveBlocks DEF L!instr_fact, L!Direction
  <2> QED
    BY <2>2, <2>6, <2>9, <2>10
<1> QED
  BY <1>1, LiveInvariant, PTL

-----------------------------------------------------------------------------
\* Reaching definitions.

DefSets(c) == SUBSET R!AllDefs(c)

RB == INSTANCE BlockFlow_proofs WITH Direction <- R!Direction, Flow <- R!Flow

ReachP ==
  INSTANCE LeastSolution WITH Cfgs <- ScalarCfgs, Direction <- R!Direction,
    FlowBlock <- R!FlowBlock, Combine <- R!Combine, InitIn <- R!InitIn, InitOut <- R!InitOut,
    Facts <- DefSets, Leq <- Smaller

\* What enters a fact is a definition of the function.
LEMMA ReachDefs ==
  ASSUME NEW c \in ScalarCfgs
  PROVE  /\ R!EntryDefs(c) \subseteq R!AllDefs(c)
         /\ \A b \in c.blocks : \A n \in 1 .. Len(c.code[b]) :
              R!DefsOf(c, c.code[b][n]) \subseteq R!AllDefs(c)
<1>1. ASSUME NEW b \in c.blocks, NEW n \in 1 .. Len(c.code[b])
      PROVE  c.code[b][n] \in R!Instructions(c)
  BY ScalarCode DEF R!Instructions, R!Range
<1>2. \A li \in R!Instructions(c) : R!DefsOf(c, li) \subseteq R!AllDefs(c)
  BY Zenon DEF R!AllDefs
<1>3. R!EntryDefs(c) \subseteq R!AllDefs(c)
  BY Zenon DEF R!AllDefs
<1> QED
  BY <1>1, <1>2, <1>3, Zenon

\* Where an instruction keeps the variable of d.
ReachKept(c, d) == {p \in PointsOf(c) : d[2] \notin R!Defines(c, R!NextInstr(c, p))}

ReachPaths(c, d) == ReachedFrom(R!MadeAt(c, d), PointGraph(c, ReachKept(c, d)))

\* The points of reaching definitions are those of module Paths_proofs,
LEMMA ReachPoints == \A c : R!Points(c) = PointsOf(c)
BY DEF R!Points, PointsOf

\* and so are the paths between them.
LEMMA ReachReachedFrom ==
  ASSUME NEW from, NEW next PROVE R!ReachedFrom(from, next) = ReachedFrom(from, next)
BY DEF R!ReachedFrom, ReachedFrom, R!Cardinality, Cardinality, R!IsFiniteSet, IsFiniteSet

\* The definitions that reach a point are those with a path to it.
LEMMA DefsThatReachIs ==
  ASSUME NEW c \in ScalarCfgs, NEW p
  PROVE  R!DefsThatReach(c, p) = {d \in R!AllDefs(c) : p \in ReachPaths(c, d)}
<1>1. ASSUME NEW d
      PROVE  [q \in R!Points(c) |->
                IF R!HasNext(c, q) => d[2] \notin R!Defines(c, R!NextInstr(c, q))
                THEN R!After(c, q) ELSE {}]
               = PointGraph(c, ReachKept(c, d))
  BY ReachPoints DEF PointGraph, ReachKept, R!HasNext, R!After, R!StartOf
<1>2. ASSUME NEW d
      PROVE  R!ReachedFrom(R!MadeAt(c, d),
               [q \in R!Points(c) |->
                  IF R!HasNext(c, q) => d[2] \notin R!Defines(c, R!NextInstr(c, q))
                  THEN R!After(c, q) ELSE {}])
               = ReachPaths(c, d)
  BY <1>1, ReachReachedFrom, Zenon DEF ReachPaths
<1> QED
  BY <1>2, Zenon DEF R!DefsThatReach, R!Reachable

\* A definition is made behind its instruction or, if it is one of the entry's, at
\* the entry.
LEMMA ReachMadeAt ==
  ASSUME NEW c \in ScalarCfgs, NEW d
  PROVE  /\ R!MadeAt(c, d) \subseteq PointsOf(c)
         /\ \A b \in c.blocks : \A n \in 1 .. Len(c.code[b]) :
              <<b, n>> \in R!MadeAt(c, d) <=> d \in R!DefsOf(c, c.code[b][n])
         /\ \A b \in c.blocks :
              <<b, 0>> \in R!MadeAt(c, d) <=> b = c.entry /\ d \in R!EntryDefs(c)
<1>1. c.entry \in c.blocks /\ \A b \in c.blocks : Len(c.code[b]) \in Nat
  BY ScalarCode
<1>2. \A b \in c.blocks : 0 \in 0 .. Len(c.code[b])
  BY <1>1
<1>3. <<c.entry, 0>> \in PointsOf(c)
  BY <1>1, <1>2, PointIs
<1>4. R!MadeAt(c, d) =
        {p \in PointsOf(c) : p[2] > 0 /\ d \in R!DefsOf(c, c.code[p[1]][p[2]])}
          \cup IF d \in R!EntryDefs(c) THEN {<<c.entry, 0>>} ELSE {}
  BY ReachPoints DEF R!MadeAt, R!StartOf
<1>5. ASSUME NEW b \in c.blocks, NEW n \in 1 .. Len(c.code[b])
      PROVE  <<b, n>> \in R!MadeAt(c, d) <=> d \in R!DefsOf(c, c.code[b][n])
  <2>1. n \in 0 .. Len(c.code[b]) /\ n > 0 /\ n # 0
    BY <1>1
  <2>2. <<b, n>> \in PointsOf(c) /\ <<b, n>> # <<c.entry, 0>>
    BY <2>1, PointIs
  <2> QED
    BY <1>4, <2>1, <2>2
<1>6. ASSUME NEW b \in c.blocks
      PROVE  <<b, 0>> \in R!MadeAt(c, d) <=> b = c.entry /\ d \in R!EntryDefs(c)
  BY <1>4
<1> QED
  BY <1>3, <1>4, <1>5, <1>6

\* One instruction on, and at the start of a block.
LEMMA ReachSteps ==
  ASSUME NEW c \in ScalarCfgs
  PROVE  /\ \A p : R!DefsThatReach(c, p) \in DefSets(c)
         /\ \A b \in c.blocks : \A n \in 1 .. Len(c.code[b]) :
              R!DefsThatReach(c, <<b, n>>)
                = R!Flow(c, R!DefsThatReach(c, <<b, n - 1>>), c.code[b][n])
         /\ \A b \in c.blocks :
              R!DefsThatReach(c, <<b, 0>>)
                = (IF b = c.entry THEN R!EntryDefs(c) ELSE {})
                    \cup UNION {R!DefsThatReach(c, <<a, Len(c.code[a])>>) : a \in c.preds[b]}
<1>1. IsCode(c) /\ \A b \in c.blocks : Len(c.code[b]) \in Nat
  BY ScalarCode
<1>2. ASSUME NEW d
      PROVE  /\ \A b \in c.blocks : \A n \in 1 .. Len(c.code[b]) :
                  <<b, n>> \in ReachPaths(c, d) <=>
                    \/ <<b, n>> \in R!MadeAt(c, d)
                    \/ <<b, n - 1>> \in ReachPaths(c, d) /\ <<b, n - 1>> \in ReachKept(c, d)
             /\ \A b \in c.blocks :
                  <<b, 0>> \in ReachPaths(c, d) <=>
                    \/ <<b, 0>> \in R!MadeAt(c, d)
                    \/ \E a \in c.preds[b] : <<a, Len(c.code[a])>> \in ReachPaths(c, d)
  BY <1>1, ReachMadeAt, Forwards, Zenon DEF ReachPaths
<1>3. ASSUME NEW b \in c.blocks, NEW n \in 1 .. Len(c.code[b])
      PROVE  R!DefsThatReach(c, <<b, n>>)
               = R!Flow(c, R!DefsThatReach(c, <<b, n - 1>>), c.code[b][n])
  <2> DEFINE li == c.code[b][n]
  <2> DEFINE before == R!DefsThatReach(c, <<b, n - 1>>)
  <2>1. n - 1 \in 0 .. Len(c.code[b]) /\ n - 1 + 1 = n
    BY <1>1
  <2>2. <<b, n - 1>> \in PointsOf(c) /\ R!NextInstr(c, <<b, n - 1>>) = li.instr
    BY <2>1, PointIs DEF R!NextInstr
  <2>3. \A d : <<b, n - 1>> \in ReachKept(c, d) <=> d[2] \notin R!Defines(c, li.instr)
    BY <2>2 DEF ReachKept
  <2>4. \A d : <<b, n>> \in R!MadeAt(c, d) <=> d \in R!DefsOf(c, li)
    BY ReachMadeAt
  <2>5. R!DefsOf(c, li) \subseteq R!AllDefs(c)
    BY ReachDefs
  <2>6. /\ R!DefsThatReach(c, <<b, n>>) = {d \in R!AllDefs(c) : <<b, n>> \in ReachPaths(c, d)}
        /\ before = {d \in R!AllDefs(c) : <<b, n - 1>> \in ReachPaths(c, d)}
    BY DefsThatReachIs
  <2>7. \A d : <<b, n>> \in ReachPaths(c, d) <=>
                 \/ d \in R!DefsOf(c, li)
                 \/ <<b, n - 1>> \in ReachPaths(c, d) /\ d[2] \notin R!Defines(c, li.instr)
    BY <1>2, <2>3, <2>4, Zenon
  <2>8. R!Flow(c, before, li) = {d \in before : d[2] \notin R!Defines(c, li.instr)} \cup R!DefsOf(c, li)
    BY DEF R!Flow, R!DefsOf
  <2> HIDE DEF li, before
  <2> QED
    BY <2>5, <2>6, <2>7, <2>8, Zenon DEF li, before
<1>4. ASSUME NEW b \in c.blocks
      PROVE  R!DefsThatReach(c, <<b, 0>>)
               = (IF b = c.entry THEN R!EntryDefs(c) ELSE {})
                   \cup UNION {R!DefsThatReach(c, <<a, Len(c.code[a])>>) : a \in c.preds[b]}
  <2> DEFINE own == IF b = c.entry THEN R!EntryDefs(c) ELSE {}
  <2> DEFINE joined == UNION {R!DefsThatReach(c, <<a, Len(c.code[a])>>) : a \in c.preds[b]}
  <2>1. \A a : R!DefsThatReach(c, <<a, Len(c.code[a])>>)
                 = {d \in R!AllDefs(c) : <<a, Len(c.code[a])>> \in ReachPaths(c, d)}
    BY DefsThatReachIs
  <2>2. R!DefsThatReach(c, <<b, 0>>) = {d \in R!AllDefs(c) : <<b, 0>> \in ReachPaths(c, d)}
    BY DefsThatReachIs
  <2>3. \A d : <<b, 0>> \in ReachPaths(c, d) <=>
                 \/ b = c.entry /\ d \in R!EntryDefs(c)
                 \/ \E a \in c.preds[b] : <<a, Len(c.code[a])>> \in ReachPaths(c, d)
    BY <1>2, ReachMadeAt, Zenon
  <2>4. R!EntryDefs(c) \subseteq R!AllDefs(c)
    BY ReachDefs
  <2>5. ASSUME NEW d PROVE d \in R!DefsThatReach(c, <<b, 0>>) <=> d \in own \/ d \in joined
    <3>1. d \in own <=> b = c.entry /\ d \in R!EntryDefs(c)
      OBVIOUS
    <3>2. d \in joined <=> \E a \in c.preds[b] : d \in R!DefsThatReach(c, <<a, Len(c.code[a])>>)
      BY Zenon
    <3>3. d \in joined <=>
            d \in R!AllDefs(c) /\ \E a \in c.preds[b] : <<a, Len(c.code[a])>> \in ReachPaths(c, d)
      BY <2>1, <3>2, Zenon
    <3> HIDE DEF own, joined
    <3>4. d \in R!DefsThatReach(c, <<b, 0>>) <=> d \in R!AllDefs(c) /\ <<b, 0>> \in ReachPaths(c, d)
      BY <2>2
    <3> QED
      BY <2>3, <2>4, <3>1, <3>3, <3>4, Zenon
  <2> HIDE DEF own, joined
  <2>6. R!DefsThatReach(c, <<b, 0>>) = own \cup joined
    BY <2>5
  <2> QED
    BY <2>6, Zenon DEF own, joined
<1>5. ASSUME NEW p PROVE R!DefsThatReach(c, p) \in DefSets(c)
  BY DefsThatReachIs DEF DefSets
<1> QED
  BY <1>3, <1>4, <1>5, Zenon

\* A definition that reaches a point is in every labelling of the points that
\* satisfies the equations.
LEMMA ReachLeast ==
  ASSUME NEW c \in ScalarCfgs, NEW d, NEW S,
         \A b \in c.blocks : \A n \in 1 .. Len(c.code[b]) :
           d \in R!DefsOf(c, c.code[b][n])
             \/ (<<b, n - 1>> \in S /\ d[2] \notin R!Defines(c, c.code[b][n].instr)) => <<b, n>> \in S,
         \A b \in c.blocks :
           (b = c.entry /\ d \in R!EntryDefs(c)) \/ (\E a \in c.preds[b] : <<a, Len(c.code[a])>> \in S)
             => <<b, 0>> \in S,
         NEW p, d \in R!DefsThatReach(c, p)
  PROVE  p \in S
<1>1. IsCode(c) /\ \A b \in c.blocks : Len(c.code[b]) \in Nat
  BY ScalarCode
<1>2. R!MadeAt(c, d) \subseteq S
  <2> SUFFICES ASSUME NEW q \in R!MadeAt(c, d) PROVE q \in S
    OBVIOUS
  <2>1. q \in PointsOf(c)
    BY ReachMadeAt
  <2>2. PICK b \in c.blocks : \E n \in 0 .. Len(c.code[b]) : q = <<b, n>>
    BY <2>1, PointIs
  <2>3. PICK n \in 0 .. Len(c.code[b]) : q = <<b, n>>
    BY <2>2
  <2>4. CASE n = 0
    <3>1. <<b, 0>> \in R!MadeAt(c, d)
      BY <2>3, <2>4
    <3>2. b = c.entry /\ d \in R!EntryDefs(c)
      BY <3>1, ReachMadeAt
    <3> QED
      BY <2>3, <2>4, <3>2
  <2>5. CASE n # 0
    <3>1. n \in 1 .. Len(c.code[b])
      BY <1>1, <2>5
    <3>2. <<b, n>> \in R!MadeAt(c, d)
      BY <2>3
    <3>3. d \in R!DefsOf(c, c.code[b][n])
      BY <3>1, <3>2, ReachMadeAt
    <3> QED
      BY <2>3, <3>1, <3>3, Zenon
  <2> QED
    BY <2>4, <2>5
<1>3. ClosedForwards(c, ReachKept(c, d), S)
  <2>1. ASSUME NEW b \in c.blocks, NEW n \in 1 .. Len(c.code[b]),
               <<b, n - 1>> \in S, <<b, n - 1>> \in ReachKept(c, d)
        PROVE  <<b, n>> \in S
    <3>1. R!NextInstr(c, <<b, n - 1>>) = c.code[b][n].instr
      BY <1>1 DEF R!NextInstr
    <3>2. d[2] \notin R!Defines(c, c.code[b][n].instr)
      BY <2>1, <3>1 DEF ReachKept
    <3> QED
      BY <2>1, <3>2
  <2> QED
    BY <2>1 DEF ClosedForwards
<1>4. p \in ReachPaths(c, d)
  BY DefsThatReachIs
<1>5. R!MadeAt(c, d) \subseteq PointsOf(c)
  BY ReachMadeAt
<1> QED
  BY <1>1, <1>2, <1>3, <1>4, <1>5, Forwards, Zenon DEF ReachPaths

\* The blocks, as module BlockFlow_proofs has them.
LEMMA ReachBlocks ==
  ASSUME NEW c, NEW b, NEW f
  PROVE  R!Carried(c, b, f) = RB!Carried(c, b, f) /\ R!FlowBlock(c, b, f) = RB!FlowBlock(c, b, f)
<1>1. R!Carried(c, b, f) = RB!Carried(c, b, f)
  BY DEF R!Carried, RB!Carried, R!Visited, RB!Visited
<1> QED
  BY <1>1 DEF R!FlowBlock, RB!FlowBlock

\* Instructions are visited from the first to the last.
LEMMA ReachVisited ==
  ASSUME NEW c, NEW b, NEW n
  PROVE  RB!Visited(c, b, n) = c.code[b][n] /\ RB!PointAfter(c, b, n) = <<b, n>>
BY DEF RB!Visited, RB!PointAfter, R!Direction

\* An instruction takes sets of definitions to sets of definitions, and larger ones to larger ones;
LEMMA ReachFlows ==
  ASSUME NEW c \in ScalarCfgs, NEW b \in c.blocks
  PROVE  /\ RB!FlowsIn(c, b, DefSets(c))
         /\ \A n \in 1 .. Len(c.code[b]) : \A f, g \in DefSets(c) :
              f \subseteq g => R!Flow(c, f, RB!Visited(c, b, n)) \subseteq R!Flow(c, g, RB!Visited(c, b, n))
<1>1. Len(c.code[b]) \in Nat
  BY ScalarCode
<1>2. \A n : RB!Visited(c, b, n) = c.code[b][n]
  BY ReachVisited
<1>3. \A f, li : R!Flow(c, f, li) = {d \in f : d[2] \notin R!Defines(c, li.instr)} \cup R!DefsOf(c, li)
  BY DEF R!Flow, R!DefsOf
<1>4. ASSUME NEW n \in 1 .. Len(c.code[b]), NEW f \in DefSets(c)
      PROVE  R!Flow(c, f, RB!Visited(c, b, n)) \in DefSets(c)
  <2>1. R!DefsOf(c, c.code[b][n]) \subseteq R!AllDefs(c)
    BY ReachDefs
  <2> QED
    BY <1>2, <1>3, <2>1 DEF DefSets
<1>5. RB!FlowsIn(c, b, DefSets(c))
  BY <1>1, <1>4 DEF RB!FlowsIn
<1>6. ASSUME NEW n, NEW f, NEW g, f \subseteq g
      PROVE  R!Flow(c, f, RB!Visited(c, b, n)) \subseteq R!Flow(c, g, RB!Visited(c, b, n))
  BY <1>2, <1>3, <1>6
<1> QED
  BY <1>5, <1>6

\* and so does a block.
LEMMA ReachFlowBlock ==
  ASSUME NEW c \in ScalarCfgs, NEW b \in c.blocks
  PROVE  /\ \A f \in DefSets(c) : R!FlowBlock(c, b, f) \in DefSets(c)
         /\ \A f, g \in DefSets(c) :
              f \subseteq g => R!FlowBlock(c, b, f) \subseteq R!FlowBlock(c, b, g)
<1>1. ASSUME NEW f \in DefSets(c) PROVE R!FlowBlock(c, b, f) \in DefSets(c)
  BY ReachBlocks, ReachFlows, RB!FlowBlockType
<1>2. ASSUME NEW f \in DefSets(c), NEW g \in DefSets(c), f \subseteq g
      PROVE  R!FlowBlock(c, b, f) \subseteq R!FlowBlock(c, b, g)
  <2>1. /\ RB!FlowsIn(c, b, DefSets(c))
        /\ \A n \in 1 .. Len(c.code[b]) : \A x, y \in DefSets(c) :
             x \subseteq y => R!Flow(c, x, RB!Visited(c, b, n)) \subseteq R!Flow(c, y, RB!Visited(c, b, n))
    BY ReachFlows
  <2>2. RB!FlowBlock(c, b, f) \subseteq RB!FlowBlock(c, b, g)
    BY <1>2, <2>1, RB!FlowBlockMonotone
  <2> QED
    BY <2>2, ReachBlocks
<1> QED
  BY <1>1, <1>2

\* Finite sets are finite sets in the instance, too.
LEMMA ReachFinite == \A S : ReachP!IsFiniteSet(S) <=> IsFiniteSet(S)
BY DEF IsFiniteSet, ReachP!IsFiniteSet

\* The analysis of reaching definitions meets the assumptions of the solver's theorems.
LEMMA ReachAssumptions ==
  /\ ReachP!DirectionAssumption /\ ReachP!CfgsAssumption /\ ReachP!InitFactsAssumption
  /\ ReachP!OrderAssumption /\ ReachP!CombineAssumption /\ ReachP!FlowAssumption
  /\ ReachP!StartAssumption
<1>1. ReachP!DirectionAssumption
  BY DEF ReachP!DirectionAssumption, R!Direction
<1>2. ReachP!CfgsAssumption
  <2>1. ASSUME NEW c \in ScalarCfgs
        PROVE  /\ ReachP!IsFiniteSet(c.blocks)
               /\ c.preds \in [c.blocks -> SUBSET c.blocks]
               /\ c.succs \in [c.blocks -> SUBSET c.blocks]
               /\ ReachP!IsValid(c)
    BY ScalarCode, ReachFinite DEF ReachP!IsValid, IsCode
  <2> QED
    BY <2>1 DEF ReachP!CfgsAssumption
<1>3. ReachP!InitFactsAssumption
  BY DEF ReachP!InitFactsAssumption, R!InitIn, R!InitOut
<1>4. ReachP!OrderAssumption
  BY DEF ReachP!OrderAssumption, Smaller
<1>5. ASSUME NEW c \in ScalarCfgs, NEW F \in (SUBSET DefSets(c)) \ {{}}
      PROVE  /\ R!Combine(F) \in DefSets(c)
             /\ \A u \in DefSets(c) : Smaller(R!Combine(F), u) <=> \A f \in F : Smaller(f, u)
  BY DEF R!Combine, DefSets, Smaller
<1>6. ReachP!CombineAssumption
  BY <1>5 DEF ReachP!CombineAssumption
<1>7. ReachP!FlowAssumption
  BY ReachFlowBlock DEF ReachP!FlowAssumption, Smaller
<1>8. ASSUME NEW c \in ScalarCfgs, NEW b \in c.blocks
      PROVE  /\ R!InitIn(c)[b] \in DefSets(c)
             /\ R!InitOut(c)[b] \in DefSets(c)
             /\ \A f : Smaller(R!InitOut(c)[b], R!FlowBlock(c, b, f))
  BY ReachDefs DEF R!InitOut, R!InitIn, DefSets, Smaller
<1>9. ReachP!StartAssumption
  BY <1>8 DEF ReachP!StartAssumption, ReachP!Own, ReachP!Start, ReachP!Sources, R!Direction
<1> QED
  BY <1>1, <1>2, <1>3, <1>4, <1>6, <1>7, <1>9, Zenon

\* The solver of the analysis is the solver of the theorems.
LEMMA SameReach == (Reach!Init <=> ReachP!Init) /\ (Reach!Next <=> ReachP!Next)
<1>1. ASSUME NEW S PROVE Reach!Listings(S) = ReachP!Listings(S)
  BY DEF Reach!Listings, Reach!Bijection, Reach!Injection, Reach!Surjection, Reach!IsInjective,
         Reach!Cardinality, Reach!IsFiniteSet, ReachP!Listings, ReachP!Bijection, ReachP!Injection,
         ReachP!Surjection, ReachP!IsInjective, ReachP!Cardinality, ReachP!IsFiniteSet
<1>2. ASSUME NEW N PROVE Reach!Push(N) <=> ReachP!Push(N)
  BY <1>1, Zenon DEF Reach!Push, Reach!Range, Reach!Popped, ReachP!Push, ReachP!Range, ReachP!Popped
<1>3. Reach!Init <=> ReachP!Init
  BY <1>1 DEF Reach!Init, ReachP!Init
<1>4. Reach!StepForwards <=> ReachP!StepForwards
  BY <1>2 DEF Reach!StepForwards, Reach!Top, Reach!Joined,
              ReachP!StepForwards, ReachP!Top, ReachP!Joined
<1>5. Reach!StepBackwards <=> ReachP!StepBackwards
  BY <1>2 DEF Reach!StepBackwards, Reach!Top, Reach!Joined,
              ReachP!StepBackwards, ReachP!Top, ReachP!Joined
<1> QED
  BY <1>3, <1>4, <1>5 DEF Reach!Next, Reach!Step, ReachP!Next, ReachP!Step


\* During this analysis the invariant of the solver holds;
LEMMA ReachInvariant == Spec => [](analysis = "reaching" => ReachP!SolverInv)
<1>1. Init => (analysis = "reaching" => ReachP!SolverInv)
  <2> SUFFICES ASSUME Init, analysis = "reaching" PROVE ReachP!SolverInv
    OBVIOUS
  <2>1. ReachP!Init
    BY SameReach DEF Init
  <2>2. ReachP!Init => ReachP!SolverInv
    BY ReachAssumptions, ReachP!SolverInvInit, Zenon
  <2> QED
    BY <2>1, <2>2
<1>2. /\ analysis = "reaching" => ReachP!SolverInv
      /\ [Next]_vars
      => (analysis = "reaching" => ReachP!SolverInv)'
  <2> SUFFICES ASSUME analysis = "reaching" => ReachP!SolverInv, [Next]_vars, analysis' = "reaching"
               PROVE  ReachP!SolverInv'
    OBVIOUS
  <2>1. analysis = "reaching" /\ [ReachP!Next]_(ReachP!vars)
    BY SameReach DEF Next, vars, ReachP!vars
  <2>2. ReachP!SolverInv /\ [ReachP!Next]_(ReachP!vars) => ReachP!SolverInv'
    BY ReachAssumptions, ReachP!SolverInvNext, Zenon
  <2> QED
    BY <2>1, <2>2
<1> QED
  BY <1>1, <1>2, PTL DEF Spec

\* so, when it is done, it has the least solution.
LEMMA ReachSolved == (analysis = "reaching" => ReachP!SolverInv) /\ Answered("reaching") => ReachP!Solved
<1> SUFFICES ASSUME ReachP!SolverInv, Done PROVE ReachP!Solved
  BY DEF Answered
<1>1. ReachP!Done
  BY DEF Done, ReachP!Done
<1> QED
  BY <1>1, ReachAssumptions, ReachP!SolvedWhenDone, Zenon


\* The fact a block joins from the travelling facts t.
ReachJoined(c, t, b) == ReachP!Joined(c.preds[b], t, R!InitIn(c)[b])

\* A block is reached by all that reaches the end of a predecessor.
LEMMA ReachJoin ==
  ASSUME NEW c \in ScalarCfgs, NEW t \in ReachP!FactMaps(c), NEW b \in c.blocks
  PROVE  /\ ReachJoined(c, t, b) = (IF b = c.entry THEN R!EntryDefs(c) ELSE {})
                                     \cup UNION {t[a] : a \in c.preds[b]}
         /\ ReachJoined(c, t, b) \in DefSets(c)
<1>1. /\ c.entry \in c.blocks /\ c.preds[c.entry] = {}
      /\ c.preds[b] \subseteq c.blocks
  BY ScalarCode DEF IsCode
<1>2. R!InitIn(c)[b] = IF b = c.entry THEN R!EntryDefs(c) ELSE {}
  BY DEF R!InitIn
<1>3. ReachJoined(c, t, b) = IF c.preds[b] # {} THEN UNION {t[a] : a \in c.preds[b]}
                             ELSE R!InitIn(c)[b]
  BY DEF ReachJoined, ReachP!Joined, R!Combine
<1>4. \A a \in c.preds[b] : t[a] \subseteq R!AllDefs(c)
  BY <1>1 DEF ReachP!FactMaps, DefSets
<1>5. R!EntryDefs(c) \subseteq R!AllDefs(c)
  BY ReachDefs
<1>6. ReachJoined(c, t, b) = (IF b = c.entry THEN R!EntryDefs(c) ELSE {})
                               \cup UNION {t[a] : a \in c.preds[b]}
  BY <1>1, <1>2, <1>3
<1>7. ReachJoined(c, t, b) \subseteq R!AllDefs(c)
  BY <1>4, <1>5, <1>6
<1> QED
  BY <1>6, <1>7 DEF DefSets

\* A solution, a block at a time.
LEMMA ReachSolutionIs ==
  ASSUME NEW c, NEW t
  PROVE  ReachP!IsSolution(c, t) <=>
           /\ t \in ReachP!FactMaps(c)
           /\ \A b \in c.blocks : t[b] = R!FlowBlock(c, b, ReachJoined(c, t, b))
BY DEF ReachP!IsSolution, ReachP!Sources, ReachP!Own, R!Direction, ReachJoined

\* The definitions that reach each point, ...
ReachMeant(c) == [p \in PointsOf(c) |-> R!DefsThatReach(c, p)]

ReachMeantOut(c) == [b \in c.blocks |-> ReachMeant(c)[<<b, Len(c.code[b])>>]]

\* ... are what the flow through the blocks makes of what is meant at their starts, ...
LEMMA ReachMeantSolves ==
  ASSUME NEW c \in ScalarCfgs
  PROVE  /\ ReachP!IsSolution(c, ReachMeantOut(c))
         /\ \A b \in c.blocks : \A n \in 0 .. Len(c.code[b]) :
              RB!Carried(c, b, ReachJoined(c, ReachMeantOut(c), b))[n] = R!DefsThatReach(c, <<b, n>>)
<1> DEFINE u == ReachMeant(c)
<1> DEFINE t == ReachMeantOut(c)
<1>1. \A b \in c.blocks : /\ Len(c.code[b]) \in Nat /\ c.preds[b] \subseteq c.blocks
                          /\ 0 \in 0 .. Len(c.code[b]) /\ Len(c.code[b]) \in 0 .. Len(c.code[b])
                          /\ \A n \in 1 .. Len(c.code[b]) : n \in 0 .. Len(c.code[b])
                                                           /\ n - 1 \in 0 .. Len(c.code[b])
  BY ScalarCode DEF IsCode
<1>2. \A b \in c.blocks : \A n \in 0 .. Len(c.code[b]) :
        u[<<b, n>>] = R!DefsThatReach(c, <<b, n>>) /\ u[<<b, n>>] \in DefSets(c)
  BY ReachSteps, PointIs, Zenon DEF ReachMeant
<1>3. \A b \in c.blocks : t[b] = R!DefsThatReach(c, <<b, Len(c.code[b])>>) /\ t[b] \in DefSets(c)
  BY <1>1, <1>2 DEF ReachMeantOut
<1>4. t \in ReachP!FactMaps(c)
  <2>1. t = [b \in c.blocks |-> t[b]]
    BY DEF ReachMeantOut
  <2> HIDE DEF t
  <2> QED
    BY <1>3, <2>1, Zenon DEF ReachP!FactMaps
<1> HIDE DEF u, t
<1>5. ASSUME NEW b \in c.blocks
      PROVE  ReachJoined(c, t, b) = u[<<b, 0>>]
  <2>1. {t[a] : a \in c.preds[b]} = {R!DefsThatReach(c, <<a, Len(c.code[a])>>) : a \in c.preds[b]}
    BY <1>1, <1>3, Zenon
  <2>2. ReachJoined(c, t, b) = (IF b = c.entry THEN R!EntryDefs(c) ELSE {})
                                 \cup UNION {t[a] : a \in c.preds[b]}
    BY <1>4, ReachJoin
  <2>3. R!DefsThatReach(c, <<b, 0>>)
          = (IF b = c.entry THEN R!EntryDefs(c) ELSE {})
              \cup UNION {R!DefsThatReach(c, <<a, Len(c.code[a])>>) : a \in c.preds[b]}
    BY ReachSteps
  <2>4. u[<<b, 0>>] = R!DefsThatReach(c, <<b, 0>>)
    BY <1>1, <1>2
  <2> QED
    BY <2>1, <2>2, <2>3, <2>4, Zenon
<1>6. ASSUME NEW b \in c.blocks
      PROVE  \A n \in 0 .. Len(c.code[b]) : RB!Carried(c, b, ReachJoined(c, t, b))[n] = u[<<b, n>>]
  <2>1. \A n : RB!PointAfter(c, b, n) = <<b, n>> /\ RB!Visited(c, b, n) = c.code[b][n]
    BY ReachVisited
  <2>2. \A n \in 1 .. Len(c.code[b]) : u[<<b, n>>] = R!Flow(c, u[<<b, n - 1>>], c.code[b][n])
    <3>1. \A n \in 1 .. Len(c.code[b]) : n \in 0 .. Len(c.code[b]) /\ n - 1 \in 0 .. Len(c.code[b])
      BY <1>1
    <3> QED
      BY <1>2, <3>1, ReachSteps
  <2>3. \A n \in 1 .. Len(c.code[b]) :
          u[RB!PointAfter(c, b, n)] = R!Flow(c, u[RB!PointAfter(c, b, n - 1)], RB!Visited(c, b, n))
    BY <2>1, <2>2
  <2>4. RB!PointAfter(c, b, 0) = <<b, 0>> /\ u[RB!PointAfter(c, b, 0)] \in DefSets(c)
    BY <1>1, <1>2, <2>1
  <2>5. RB!FlowsIn(c, b, DefSets(c))
    BY ReachFlows
  <2>6. \A n \in 0 .. Len(c.code[b]) :
          RB!Carried(c, b, u[RB!PointAfter(c, b, 0)])[n] = u[RB!PointAfter(c, b, n)]
    BY <2>3, <2>4, <2>5, RB!CarriedAlong
  <2> QED
    BY <1>5, <2>1, <2>4, <2>6, Zenon
<1>7. \A b \in c.blocks : t[b] = R!FlowBlock(c, b, ReachJoined(c, t, b))
  <2> SUFFICES ASSUME NEW b \in c.blocks PROVE t[b] = R!FlowBlock(c, b, ReachJoined(c, t, b))
    OBVIOUS
  <2>1. RB!FlowBlock(c, b, ReachJoined(c, t, b)) = u[<<b, Len(c.code[b])>>]
    BY <1>1, <1>6, Zenon DEF RB!FlowBlock
  <2> QED
    BY <1>1, <1>2, <1>3, <2>1, ReachBlocks
<1>8. \A b \in c.blocks : \A n \in 0 .. Len(c.code[b]) :
        RB!Carried(c, b, ReachJoined(c, t, b))[n] = R!DefsThatReach(c, <<b, n>>)
  BY <1>2, <1>6, Zenon
<1>9. ReachP!IsSolution(c, t)
  BY <1>4, <1>7, ReachSolutionIs
<1> QED
  BY <1>8, <1>9 DEF t

\* ... and below every solution.
LEMMA ReachMeantBelow ==
  ASSUME NEW c \in ScalarCfgs, NEW t, ReachP!IsSolution(c, t)
  PROVE  \A b \in c.blocks : ReachMeantOut(c)[b] \subseteq t[b]
<1> DEFINE join(b) == ReachJoined(c, t, b)
<1> DEFINE w(b, n) == RB!Carried(c, b, join(b))[n]
<1>1. \A b \in c.blocks : /\ Len(c.code[b]) \in Nat /\ c.preds[b] \subseteq c.blocks
                          /\ 0 \in 0 .. Len(c.code[b]) /\ Len(c.code[b]) \in 0 .. Len(c.code[b])
                          /\ \A n \in 1 .. Len(c.code[b]) : n \in 0 .. Len(c.code[b])
                                                           /\ n - 1 \in 0 .. Len(c.code[b])
  BY ScalarCode DEF IsCode
<1>2. t \in ReachP!FactMaps(c) /\ \A b \in c.blocks : t[b] = R!FlowBlock(c, b, join(b))
  BY ReachSolutionIs
<1>3. ASSUME NEW b \in c.blocks
      PROVE  /\ w(b, 0) = join(b)
             /\ w(b, Len(c.code[b])) = t[b]
             /\ \A n \in 1 .. Len(c.code[b]) : w(b, n) = R!Flow(c, w(b, n - 1), c.code[b][n])
  <2> DEFINE carried == RB!Carried(c, b, join(b))
  <2>1. join(b) \in DefSets(c) /\ RB!FlowsIn(c, b, DefSets(c))
    BY <1>2, ReachJoin, ReachFlows
  <2>2. carried[0] = join(b)
        /\ \A n \in 1 .. Len(c.code[b]) : carried[n] = R!Flow(c, carried[n - 1], RB!Visited(c, b, n))
    <3> HIDE DEF join
    <3> QED
      BY <2>1, RB!CarriedSteps
  <2>3. \A n : RB!Visited(c, b, n) = c.code[b][n]
    BY ReachVisited
  <2>4. carried[Len(c.code[b])] = t[b]
    BY <1>2, ReachBlocks DEF RB!FlowBlock
  <2> HIDE DEF carried
  <2> QED
    BY <2>2, <2>3, <2>4 DEF carried
<1> HIDE DEF w
<1>4. ASSUME NEW b \in c.blocks
      PROVE  join(b) = (IF b = c.entry THEN R!EntryDefs(c) ELSE {}) \cup UNION {t[a] : a \in c.preds[b]}
  BY <1>2, ReachJoin
<1> HIDE DEF join
<1>5. ASSUME NEW b \in c.blocks, NEW d \in ReachMeantOut(c)[b] PROVE d \in t[b]
  <2> DEFINE S == {p \in PointsOf(c) : d \in w(p[1], p[2])}
  <2>1. \A a \in c.blocks : \A n \in 0 .. Len(c.code[a]) : <<a, n>> \in S <=> d \in w(a, n)
    BY PointIs, Zenon
  <2>2. <<b, Len(c.code[b])>> \in PointsOf(c) /\ d \in R!DefsThatReach(c, <<b, Len(c.code[b])>>)
    BY <1>1, <1>5, PointIs, Zenon DEF ReachMeantOut, ReachMeant
  <2> HIDE DEF S
  <2>3. ASSUME NEW a \in c.blocks, NEW n \in 1 .. Len(c.code[a]),
               d \in R!DefsOf(c, c.code[a][n])
                 \/ (<<a, n - 1>> \in S /\ d[2] \notin R!Defines(c, c.code[a][n].instr))
        PROVE  <<a, n>> \in S
    <3>1. n \in 0 .. Len(c.code[a]) /\ n - 1 \in 0 .. Len(c.code[a])
      BY <1>1
    <3>2. w(a, n) = R!Flow(c, w(a, n - 1), c.code[a][n])
      BY <1>3
    <3>3. d \in R!Flow(c, w(a, n - 1), c.code[a][n])
      <4>1. <<a, n - 1>> \in S => d \in w(a, n - 1)
        BY <2>1, <3>1
      <4> QED
        BY <2>3, <4>1 DEF R!Flow, R!DefsOf
    <3> QED
      BY <2>1, <3>1, <3>2, <3>3
  <2>4. ASSUME NEW a \in c.blocks,
               (a = c.entry /\ d \in R!EntryDefs(c)) \/ (\E e \in c.preds[a] : <<e, Len(c.code[e])>> \in S)
        PROVE  <<a, 0>> \in S
    <3>1. \A e \in c.preds[a] : <<e, Len(c.code[e])>> \in S => d \in t[e]
      BY <1>1, <1>3, <2>1
    <3>2. d \in join(a)
      BY <1>4, <2>4, <3>1, Zenon
    <3> QED
      BY <1>1, <1>3, <2>1, <3>2
  <2>5. <<b, Len(c.code[b])>> \in S
    BY <2>2, <2>3, <2>4, ReachLeast, Zenon
  <2> QED
    BY <1>1, <1>3, <2>1, <2>5
<1> QED
  BY <1>5

\* Constant propagation sees every definition that may be the latest one, and no
\* other, in every function: reaching.rs finds the definitions that reach a point.
THEOREM ReachingIsExact == Spec => []ReachingExact
<1>1. (analysis = "reaching" => ReachP!SolverInv) => ReachingExact
  <2> SUFFICES ASSUME analysis = "reaching" => ReachP!SolverInv, Answered("reaching"),
                      NEW b \in cfg.blocks, NEW n \in DOMAIN cfg.code[b]
               PROVE  R!instr_fact(cfg, b, n, in_facts[b]) = R!DefsThatReach(cfg, <<b, n - 1>>)
    BY Zenon DEF ReachingExact
  <2>1. ReachP!Solved
    BY ReachSolved
  <2>2. /\ cfg \in ScalarCfgs
        /\ ReachP!IsSolution(cfg, out_facts)
        /\ \A t \in ReachP!FactMaps(cfg) :
             ReachP!IsSolution(cfg, t) => \A a \in cfg.blocks : out_facts[a] \subseteq t[a]
        /\ \A a \in cfg.blocks : in_facts[a] = ReachJoined(cfg, out_facts, a)
    BY <2>1 DEF ReachP!Solved, ReachP!Travelling, ReachP!Resting, ReachP!BelowEverySolution,
                ReachP!Sources, ReachP!Own, R!Direction, Smaller, ReachJoined
  <2>3. ReachP!IsSolution(cfg, ReachMeantOut(cfg))
    BY <2>2, ReachMeantSolves
  <2>4. out_facts \in ReachP!FactMaps(cfg) /\ ReachMeantOut(cfg) \in ReachP!FactMaps(cfg)
    BY <2>2, <2>3 DEF ReachP!IsSolution
  <2>5. \A a \in cfg.blocks : out_facts[a] = ReachMeantOut(cfg)[a]
    BY <2>2, <2>3, <2>4, ReachMeantBelow, Zenon
  <2>6. out_facts = ReachMeantOut(cfg)
    BY <2>4, <2>5 DEF ReachP!FactMaps
  <2>7. Len(cfg.code[b]) \in Nat /\ n \in 1 .. Len(cfg.code[b])
    BY <2>2, ScalarCode
  <2>8. n - 1 \in 0 .. Len(cfg.code[b])
    BY <2>7
  <2>9. RB!Carried(cfg, b, ReachJoined(cfg, ReachMeantOut(cfg), b))[n - 1]
          = R!DefsThatReach(cfg, <<b, n - 1>>)
    BY <2>2, <2>8, ReachMeantSolves
  <2>10. R!instr_fact(cfg, b, n, in_facts[b]) = RB!Carried(cfg, b, in_facts[b])[n - 1]
    BY ReachBlocks DEF R!instr_fact, R!Direction
  <2> QED
    BY <2>2, <2>6, <2>9, <2>10
<1> QED
  BY <1>1, ReachInvariant, PTL

-----------------------------------------------------------------------------
\* Available copies.

CopySets(c) == SUBSET A!all_copies(c)

AB == INSTANCE BlockFlow_proofs WITH Direction <- A!Direction, Flow <- A!Flow

AvailP ==
  INSTANCE LeastSolution WITH Cfgs <- ScalarCfgs, Direction <- A!Direction,
    FlowBlock <- A!FlowBlock, Combine <- A!Combine, InitIn <- A!InitIn, InitOut <- A!InitOut,
    Facts <- CopySets, Leq <- Larger

\* The copies that an instruction makes are among all copies.
LEMMA AvailCopies ==
  ASSUME NEW c \in ScalarCfgs, NEW b \in c.blocks, NEW n \in 1 .. Len(c.code[b])
  PROVE  A!Generates(c.code[b][n].instr) \subseteq A!all_copies(c)
<1>1. c.code[b][n] \in A!Instructions(c)
  BY ScalarCode DEF A!Instructions, A!Range
<1> QED
  BY <1>1, Zenon DEF A!all_copies

\* Where no instruction executes the copy.
CopyKept(c, pair) == {p \in PointsOf(c) : pair \notin A!Generates(A!NextInstr(c, p))}

CopyPaths(c, pair) == ReachedFrom(A!Unsure(c, pair), PointGraph(c, CopyKept(c, pair)))

\* Instruction i may write a side of the copy, and does not execute it.
Spoils(c, pair, i) == pair \notin A!Generates(i) /\ A!Range(pair) \cap A!Clobbers(c, i) # {}

\* The points of available copies are those of module Paths_proofs,
LEMMA AvailPoints == \A c : A!Points(c) = PointsOf(c)
BY DEF A!Points, PointsOf

\* and so are the paths between them.
LEMMA AvailReachedFrom ==
  ASSUME NEW from, NEW next PROVE A!ReachedFrom(from, next) = ReachedFrom(from, next)
BY DEF A!ReachedFrom, ReachedFrom, A!Cardinality, Cardinality, A!IsFiniteSet, IsFiniteSet

\* The copies available at a point are those that no path leaves in doubt.
LEMMA AvailableIs ==
  ASSUME NEW c \in ScalarCfgs, NEW p
  PROVE  A!Available(c, p) = {pair \in A!all_copies(c) : p \notin CopyPaths(c, pair)}
<1>1. ASSUME NEW pair
      PROVE  [q \in A!Points(c) |->
                IF A!HasNext(c, q) => pair \notin A!Generates(A!NextInstr(c, q))
                THEN A!After(c, q) ELSE {}]
               = PointGraph(c, CopyKept(c, pair))
  BY AvailPoints DEF PointGraph, CopyKept, A!HasNext, A!After, A!StartOf
<1>2. ASSUME NEW pair
      PROVE  A!Doubtful(c, pair) = CopyPaths(c, pair)
  BY <1>1, AvailReachedFrom, Zenon DEF CopyPaths, A!Doubtful, A!Reachable
<1> QED
  BY <1>2 DEF A!Available

\* A copy is put in doubt behind an instruction that spoils it, and at the entry.
LEMMA UnsureIs ==
  ASSUME NEW c \in ScalarCfgs, NEW pair
  PROVE  /\ A!Unsure(c, pair) \subseteq PointsOf(c)
         /\ \A b \in c.blocks : \A n \in 1 .. Len(c.code[b]) :
              <<b, n>> \in A!Unsure(c, pair) <=> Spoils(c, pair, c.code[b][n].instr)
         /\ \A b \in c.blocks : <<b, 0>> \in A!Unsure(c, pair) <=> b = c.entry
<1>1. c.entry \in c.blocks /\ \A b \in c.blocks : Len(c.code[b]) \in Nat
  BY ScalarCode
<1>2. \A b \in c.blocks : 0 \in 0 .. Len(c.code[b])
  BY <1>1
<1>3. <<c.entry, 0>> \in PointsOf(c)
  BY <1>1, <1>2, PointIs
<1>4. A!Unsure(c, pair) =
        {<<c.entry, 0>>} \cup {p \in PointsOf(c) : p[2] > 0 /\ Spoils(c, pair, c.code[p[1]][p[2]].instr)}
  BY AvailPoints DEF A!Unsure, A!StartOf, Spoils
<1>5. ASSUME NEW b \in c.blocks, NEW n \in 1 .. Len(c.code[b])
      PROVE  <<b, n>> \in A!Unsure(c, pair) <=> Spoils(c, pair, c.code[b][n].instr)
  <2>1. n \in 0 .. Len(c.code[b]) /\ n > 0 /\ n # 0
    BY <1>1
  <2>2. <<b, n>> \in PointsOf(c) /\ <<b, n>> # <<c.entry, 0>>
    BY <2>1, PointIs
  <2> QED
    BY <1>4, <2>1, <2>2
<1>6. ASSUME NEW b \in c.blocks
      PROVE  <<b, 0>> \in A!Unsure(c, pair) <=> b = c.entry
  BY <1>4
<1> QED
  BY <1>3, <1>4, <1>5, <1>6

\* Only the entry block has no predecessor.
LEMMA AvailPreds ==
  ASSUME NEW c \in ScalarCfgs, NEW b \in c.blocks, b # c.entry
  PROVE  c.preds[b] # {}
<1>1. /\ IsCode(c) /\ c.entry \in c.blocks
      /\ \A a \in c.blocks : a \in c.preds[b] <=> b \in c.succs[a]
  BY ScalarCode DEF IsCode
<1>2. IsGraph(c.blocks, c.succs)
  BY <1>1 DEF IsGraph, IsCode
<1>3. L!ReachedFrom({c.entry}, c.succs) = c.blocks
  BY ScalarCfgsAssumption, Zenon
<1>4. ReachedFrom({c.entry}, c.succs) = c.blocks
  BY <1>3, LiveReachedFrom
<1>5. c.blocks = {c.entry} \cup UNION {c.succs[q] : q \in c.blocks}
  <2>1. {c.entry} \subseteq c.blocks
    BY <1>1
  <2> QED
    BY <1>2, <1>4, <2>1, LastStep
<1> QED
  BY <1>1, <1>5

\* One instruction on, and at the start of a block.
LEMMA AvailPathSteps ==
  ASSUME NEW c \in ScalarCfgs, NEW pair
  PROVE  /\ \A b \in c.blocks : \A n \in 1 .. Len(c.code[b]) :
              <<b, n>> \in CopyPaths(c, pair) <=>
                \/ Spoils(c, pair, c.code[b][n].instr)
                \/ <<b, n - 1>> \in CopyPaths(c, pair) /\ pair \notin A!Generates(c.code[b][n].instr)
         /\ \A b \in c.blocks :
              <<b, 0>> \in CopyPaths(c, pair) <=>
                b = c.entry \/ \E a \in c.preds[b] : <<a, Len(c.code[a])>> \in CopyPaths(c, pair)
<1>1. IsCode(c) /\ \A b \in c.blocks : Len(c.code[b]) \in Nat
  BY ScalarCode
<1>2. /\ \A b \in c.blocks : \A n \in 1 .. Len(c.code[b]) :
           <<b, n>> \in CopyPaths(c, pair) <=>
             \/ <<b, n>> \in A!Unsure(c, pair)
             \/ <<b, n - 1>> \in CopyPaths(c, pair) /\ <<b, n - 1>> \in CopyKept(c, pair)
      /\ \A b \in c.blocks :
           <<b, 0>> \in CopyPaths(c, pair) <=>
             \/ <<b, 0>> \in A!Unsure(c, pair)
             \/ \E a \in c.preds[b] : <<a, Len(c.code[a])>> \in CopyPaths(c, pair)
  BY <1>1, UnsureIs, Forwards, Zenon DEF CopyPaths
<1>3. ASSUME NEW b \in c.blocks, NEW n \in 1 .. Len(c.code[b])
      PROVE  <<b, n - 1>> \in CopyKept(c, pair) <=> pair \notin A!Generates(c.code[b][n].instr)
  <2>1. n - 1 \in 0 .. Len(c.code[b]) /\ n - 1 + 1 = n
    BY <1>1
  <2>2. <<b, n - 1>> \in PointsOf(c) /\ A!NextInstr(c, <<b, n - 1>>) = c.code[b][n].instr
    BY <2>1, PointIs DEF A!NextInstr
  <2> QED
    BY <2>2 DEF CopyKept
<1> QED
  BY <1>2, <1>3, UnsureIs, Zenon

\* What is available follows from what was, instruction by instruction, and at the
\* head of a block from what is available at the ends of its predecessors.
LEMMA AvailSteps ==
  ASSUME NEW c \in ScalarCfgs
  PROVE  /\ \A p : A!Available(c, p) \in CopySets(c)
         /\ \A b \in c.blocks : \A n \in 1 .. Len(c.code[b]) :
              A!Available(c, <<b, n>>) = A!Flow(c, A!Available(c, <<b, n - 1>>), c.code[b][n])
         /\ A!Available(c, <<c.entry, 0>>) = {}
         /\ \A b \in c.blocks \ {c.entry} :
              A!Available(c, <<b, 0>>) = A!Combine({A!Available(c, <<a, Len(c.code[a])>>) : a \in c.preds[b]})
<1>1. ASSUME NEW b \in c.blocks, NEW n \in 1 .. Len(c.code[b])
      PROVE  A!Available(c, <<b, n>>) = A!Flow(c, A!Available(c, <<b, n - 1>>), c.code[b][n])
  <2> DEFINE li == c.code[b][n]
  <2> DEFINE before == A!Available(c, <<b, n - 1>>)
  <2>1. A!Generates(li.instr) \subseteq A!all_copies(c)
    BY AvailCopies
  <2>2. /\ A!Available(c, <<b, n>>) = {pair \in A!all_copies(c) : <<b, n>> \notin CopyPaths(c, pair)}
        /\ before = {pair \in A!all_copies(c) : <<b, n - 1>> \notin CopyPaths(c, pair)}
    BY AvailableIs
  <2>3. \A pair : <<b, n>> \notin CopyPaths(c, pair) <=>
                    \/ pair \in A!Generates(li.instr)
                    \/ /\ <<b, n - 1>> \notin CopyPaths(c, pair)
                       /\ A!Range(pair) \cap A!Clobbers(c, li.instr) = {}
    BY AvailPathSteps, Zenon DEF Spoils
  <2>4. A!Flow(c, before, li) =
          {pair \in before : A!Range(pair) \cap A!Clobbers(c, li.instr) = {}} \cup A!Generates(li.instr)
    BY DEF A!Flow
  <2> HIDE DEF li, before
  <2> QED
    BY <2>1, <2>2, <2>3, <2>4, Zenon DEF li, before
<1>2. c.entry \in c.blocks
  BY ScalarCode
<1>3. A!Available(c, <<c.entry, 0>>) = {}
  <2>1. \A pair : <<c.entry, 0>> \in CopyPaths(c, pair)
    BY <1>2, AvailPathSteps, Zenon
  <2>2. A!Available(c, <<c.entry, 0>>) = {pair \in A!all_copies(c) : <<c.entry, 0>> \notin CopyPaths(c, pair)}
    BY AvailableIs
  <2> QED
    BY <2>1, <2>2, Zenon
<1>4. ASSUME NEW b \in c.blocks, b # c.entry
      PROVE  A!Available(c, <<b, 0>>) = A!Combine({A!Available(c, <<a, Len(c.code[a])>>) : a \in c.preds[b]})
  <2> DEFINE F == {A!Available(c, <<a, Len(c.code[a])>>) : a \in c.preds[b]}
  <2>1. \A a : A!Available(c, <<a, Len(c.code[a])>>)
                 = {pair \in A!all_copies(c) : <<a, Len(c.code[a])>> \notin CopyPaths(c, pair)}
    BY AvailableIs
  <2>2. A!Available(c, <<b, 0>>) = {pair \in A!all_copies(c) : <<b, 0>> \notin CopyPaths(c, pair)}
    BY AvailableIs
  <2>3. \A pair : <<b, 0>> \notin CopyPaths(c, pair) <=>
                    \A a \in c.preds[b] : <<a, Len(c.code[a])>> \notin CopyPaths(c, pair)
    BY <1>4, AvailPathSteps, Zenon
  <2>4. PICK e \in c.preds[b] : TRUE
    BY <1>4, AvailPreds
  <2>5. ASSUME NEW pair
        PROVE  pair \in A!Combine(F) <=> \A a \in c.preds[b] : pair \in A!Available(c, <<a, Len(c.code[a])>>)
    BY <2>4, Zenon DEF A!Combine
  <2> HIDE DEF F
  <2>6. ASSUME NEW pair PROVE pair \in A!Available(c, <<b, 0>>) <=> pair \in A!Combine(F)
    BY <2>1, <2>2, <2>3, <2>4, <2>5, Zenon
  <2>7. A!Available(c, <<b, 0>>) = A!Combine(F)
    <3> DEFINE X == A!Available(c, <<b, 0>>)
    <3> DEFINE Y == A!Combine(F)
    <3>1. \A pair : pair \in X <=> pair \in Y
      BY <2>6
    <3> HIDE DEF X, Y
    <3>2. X = Y
      BY <3>1
    <3> QED
      BY <3>2 DEF X, Y
  <2> QED
    BY <2>7 DEF F
<1>5. ASSUME NEW p PROVE A!Available(c, p) \in CopySets(c)
  BY AvailableIs DEF CopySets
<1> QED
  BY <1>1, <1>3, <1>4, <1>5, Zenon

\* Where a copy is in doubt, every labelling of the points that satisfies the
\* equations has it so.
LEMMA AvailLeast ==
  ASSUME NEW c \in ScalarCfgs, NEW pair, NEW S,
         \A b \in c.blocks : \A n \in 1 .. Len(c.code[b]) :
           Spoils(c, pair, c.code[b][n].instr)
             \/ (<<b, n - 1>> \in S /\ pair \notin A!Generates(c.code[b][n].instr)) => <<b, n>> \in S,
         \A b \in c.blocks :
           b = c.entry \/ (\E a \in c.preds[b] : <<a, Len(c.code[a])>> \in S) => <<b, 0>> \in S
  PROVE  CopyPaths(c, pair) \subseteq S
<1>1. IsCode(c) /\ \A b \in c.blocks : Len(c.code[b]) \in Nat
  BY ScalarCode
<1>2. A!Unsure(c, pair) \subseteq S
  <2> SUFFICES ASSUME NEW q \in A!Unsure(c, pair) PROVE q \in S
    OBVIOUS
  <2>1. q \in PointsOf(c)
    BY UnsureIs
  <2>2. PICK b \in c.blocks : \E n \in 0 .. Len(c.code[b]) : q = <<b, n>>
    BY <2>1, PointIs
  <2>3. PICK n \in 0 .. Len(c.code[b]) : q = <<b, n>>
    BY <2>2
  <2>4. CASE n = 0
    <3>1. <<b, 0>> \in A!Unsure(c, pair)
      BY <2>3, <2>4
    <3>2. b = c.entry
      BY <3>1, UnsureIs
    <3> QED
      BY <2>3, <2>4, <3>2
  <2>5. CASE n # 0
    <3>1. n \in 1 .. Len(c.code[b])
      BY <1>1, <2>5
    <3>2. <<b, n>> \in A!Unsure(c, pair)
      BY <2>3
    <3>3. Spoils(c, pair, c.code[b][n].instr)
      BY <3>1, <3>2, UnsureIs
    <3> QED
      BY <2>3, <3>1, <3>3, Zenon
  <2> QED
    BY <2>4, <2>5
<1>3. ClosedForwards(c, CopyKept(c, pair), S)
  <2>1. ASSUME NEW b \in c.blocks, NEW n \in 1 .. Len(c.code[b]),
               <<b, n - 1>> \in S, <<b, n - 1>> \in CopyKept(c, pair)
        PROVE  <<b, n>> \in S
    <3>1. A!NextInstr(c, <<b, n - 1>>) = c.code[b][n].instr
      BY <1>1 DEF A!NextInstr
    <3>2. pair \notin A!Generates(c.code[b][n].instr)
      BY <2>1, <3>1 DEF CopyKept
    <3> QED
      BY <2>1, <3>2
  <2> QED
    BY <2>1 DEF ClosedForwards
<1>4. A!Unsure(c, pair) \subseteq PointsOf(c)
  BY UnsureIs
<1> QED
  BY <1>1, <1>2, <1>3, <1>4, Forwards, Zenon DEF CopyPaths

\* The blocks, as module BlockFlow_proofs has them.
LEMMA AvailBlocks ==
  ASSUME NEW c, NEW b, NEW f
  PROVE  A!Carried(c, b, f) = AB!Carried(c, b, f) /\ A!FlowBlock(c, b, f) = AB!FlowBlock(c, b, f)
<1>1. A!Carried(c, b, f) = AB!Carried(c, b, f)
  BY DEF A!Carried, AB!Carried, A!Visited, AB!Visited
<1> QED
  BY <1>1 DEF A!FlowBlock, AB!FlowBlock

\* Instructions are visited from the first to the last.
LEMMA AvailVisited ==
  ASSUME NEW c, NEW b, NEW n
  PROVE  AB!Visited(c, b, n) = c.code[b][n] /\ AB!PointAfter(c, b, n) = <<b, n>>
BY DEF AB!Visited, AB!PointAfter, A!Direction

\* An instruction takes sets of copies to sets of copies, and larger ones to larger ones;
LEMMA AvailFlows ==
  ASSUME NEW c \in ScalarCfgs, NEW b \in c.blocks
  PROVE  /\ AB!FlowsIn(c, b, CopySets(c))
         /\ \A n \in 1 .. Len(c.code[b]) : \A f, g \in CopySets(c) :
              f \subseteq g => A!Flow(c, f, AB!Visited(c, b, n)) \subseteq A!Flow(c, g, AB!Visited(c, b, n))
<1>1. Len(c.code[b]) \in Nat
  BY ScalarCode
<1>2. \A n : AB!Visited(c, b, n) = c.code[b][n]
  BY AvailVisited
<1>3. \A f, li : A!Flow(c, f, li) =
        {pair \in f : A!Range(pair) \cap A!Clobbers(c, li.instr) = {}} \cup A!Generates(li.instr)
  BY DEF A!Flow
<1>4. ASSUME NEW n \in 1 .. Len(c.code[b]), NEW f \in CopySets(c)
      PROVE  A!Flow(c, f, AB!Visited(c, b, n)) \in CopySets(c)
  <2>1. A!Generates(c.code[b][n].instr) \subseteq A!all_copies(c)
    BY AvailCopies
  <2> QED
    BY <1>2, <1>3, <2>1 DEF CopySets
<1>5. AB!FlowsIn(c, b, CopySets(c))
  BY <1>1, <1>4 DEF AB!FlowsIn
<1>6. ASSUME NEW n, NEW f, NEW g, f \subseteq g
      PROVE  A!Flow(c, f, AB!Visited(c, b, n)) \subseteq A!Flow(c, g, AB!Visited(c, b, n))
  BY <1>2, <1>3, <1>6
<1> QED
  BY <1>5, <1>6

\* and so does a block.
LEMMA AvailFlowBlock ==
  ASSUME NEW c \in ScalarCfgs, NEW b \in c.blocks
  PROVE  /\ \A f \in CopySets(c) : A!FlowBlock(c, b, f) \in CopySets(c)
         /\ \A f, g \in CopySets(c) :
              f \subseteq g => A!FlowBlock(c, b, f) \subseteq A!FlowBlock(c, b, g)
<1>1. ASSUME NEW f \in CopySets(c) PROVE A!FlowBlock(c, b, f) \in CopySets(c)
  BY AvailBlocks, AvailFlows, AB!FlowBlockType
<1>2. ASSUME NEW f \in CopySets(c), NEW g \in CopySets(c), f \subseteq g
      PROVE  A!FlowBlock(c, b, f) \subseteq A!FlowBlock(c, b, g)
  <2>1. /\ AB!FlowsIn(c, b, CopySets(c))
        /\ \A n \in 1 .. Len(c.code[b]) : \A x, y \in CopySets(c) :
             x \subseteq y => A!Flow(c, x, AB!Visited(c, b, n)) \subseteq A!Flow(c, y, AB!Visited(c, b, n))
    BY AvailFlows
  <2>2. AB!FlowBlock(c, b, f) \subseteq AB!FlowBlock(c, b, g)
    BY <1>2, <2>1, AB!FlowBlockMonotone, Zenon
  <2> QED
    BY <2>2, AvailBlocks
<1> QED
  BY <1>1, <1>2

\* Nothing happens in the entry block.
LEMMA AvailEntry ==
  ASSUME NEW c \in ScalarCfgs
  PROVE  A!FlowBlock(c, c.entry, {}) = {}
<1>1. c.code[c.entry] = <<>> /\ c.entry \in c.blocks
  BY ScalarCfgsAssumption, ScalarCode, Zenon
<1>2. Len(c.code[c.entry]) = 0
  BY <1>1
<1>3. {} \in CopySets(c) /\ AB!FlowsIn(c, c.entry, CopySets(c))
  BY <1>1, AvailFlows, Zenon DEF CopySets
<1>4. AB!Carried(c, c.entry, {})[0] = {}
  BY <1>3, AB!CarriedSteps
<1> QED
  BY <1>2, <1>4, AvailBlocks DEF AB!FlowBlock

\* Finite sets are finite sets in the instance, too.
LEMMA AvailFinite == \A S : AvailP!IsFiniteSet(S) <=> IsFiniteSet(S)
BY DEF IsFiniteSet, AvailP!IsFiniteSet

\* The analysis of available copies meets the assumptions of the solver's theorems.
LEMMA AvailAssumptions ==
  /\ AvailP!DirectionAssumption /\ AvailP!CfgsAssumption /\ AvailP!InitFactsAssumption
  /\ AvailP!OrderAssumption /\ AvailP!CombineAssumption /\ AvailP!FlowAssumption
  /\ AvailP!StartAssumption
<1>1. AvailP!DirectionAssumption
  BY DEF AvailP!DirectionAssumption, A!Direction
<1>2. AvailP!CfgsAssumption
  <2>1. ASSUME NEW c \in ScalarCfgs
        PROVE  /\ AvailP!IsFiniteSet(c.blocks)
               /\ c.preds \in [c.blocks -> SUBSET c.blocks]
               /\ c.succs \in [c.blocks -> SUBSET c.blocks]
               /\ AvailP!IsValid(c)
    BY ScalarCode, AvailFinite DEF AvailP!IsValid, IsCode
  <2> QED
    BY <2>1 DEF AvailP!CfgsAssumption
<1>3. AvailP!InitFactsAssumption
  BY DEF AvailP!InitFactsAssumption, A!InitIn, A!InitOut
<1>4. AvailP!OrderAssumption
  BY DEF AvailP!OrderAssumption, Larger
<1>5. ASSUME NEW c \in ScalarCfgs, NEW F \in (SUBSET CopySets(c)) \ {{}}
      PROVE  /\ A!Combine(F) \in CopySets(c)
             /\ \A u \in CopySets(c) : Larger(A!Combine(F), u) <=> \A f \in F : Larger(f, u)
  <2>1. \A pair : pair \in A!Combine(F) <=> \A f \in F : pair \in f
    BY DEF A!Combine
  <2>2. \A f \in F : f \subseteq A!all_copies(c)
    BY DEF CopySets
  <2>3. PICK e \in F : TRUE
    OBVIOUS
  <2> QED
    BY <2>1, <2>2, <2>3 DEF CopySets, Larger
<1>6. AvailP!CombineAssumption
  BY <1>5 DEF AvailP!CombineAssumption
<1>7. AvailP!FlowAssumption
  BY AvailFlowBlock DEF AvailP!FlowAssumption, Larger
<1>8. ASSUME NEW c \in ScalarCfgs, NEW b \in c.blocks
      PROVE  /\ A!InitIn(c)[b] \in CopySets(c)
             /\ A!InitOut(c)[b] \in CopySets(c)
             /\ c.preds[b] = {} => Larger(A!InitOut(c)[b], A!FlowBlock(c, b, A!InitIn(c)[b]))
             /\ c.preds[b] # {} =>
                  \A f \in CopySets(c) : Larger(A!InitOut(c)[b], A!FlowBlock(c, b, f))
  <2>1. A!InitIn(c)[b] = {} /\ A!InitOut(c)[b] = IF b = c.entry THEN {} ELSE A!all_copies(c)
    BY DEF A!InitIn, A!InitOut
  <2>2. b = c.entry <=> c.preds[b] = {}
    BY ScalarCode, AvailPreds
  <2>3. \A f \in CopySets(c) : A!FlowBlock(c, b, f) \subseteq A!all_copies(c)
    BY AvailFlowBlock DEF CopySets
  <2> QED
    BY <2>1, <2>2, <2>3, AvailEntry DEF CopySets, Larger
<1>9. AvailP!StartAssumption
  BY <1>8 DEF AvailP!StartAssumption, AvailP!Own, AvailP!Start, AvailP!Sources, A!Direction
<1> QED
  BY <1>1, <1>2, <1>3, <1>4, <1>6, <1>7, <1>9, Zenon

\* The solver of the analysis is the solver of the theorems.
LEMMA SameAvail == (Avail!Init <=> AvailP!Init) /\ (Avail!Next <=> AvailP!Next)
<1>1. ASSUME NEW S PROVE Avail!Listings(S) = AvailP!Listings(S)
  BY DEF Avail!Listings, Avail!Bijection, Avail!Injection, Avail!Surjection, Avail!IsInjective,
         Avail!Cardinality, Avail!IsFiniteSet, AvailP!Listings, AvailP!Bijection, AvailP!Injection,
         AvailP!Surjection, AvailP!IsInjective, AvailP!Cardinality, AvailP!IsFiniteSet
<1>2. ASSUME NEW N PROVE Avail!Push(N) <=> AvailP!Push(N)
  BY <1>1, Zenon DEF Avail!Push, Avail!Range, Avail!Popped, AvailP!Push, AvailP!Range, AvailP!Popped
<1>3. Avail!Init <=> AvailP!Init
  BY <1>1 DEF Avail!Init, AvailP!Init
<1>4. Avail!StepForwards <=> AvailP!StepForwards
  BY <1>2 DEF Avail!StepForwards, Avail!Top, Avail!Joined,
              AvailP!StepForwards, AvailP!Top, AvailP!Joined
<1>5. Avail!StepBackwards <=> AvailP!StepBackwards
  BY <1>2 DEF Avail!StepBackwards, Avail!Top, Avail!Joined,
              AvailP!StepBackwards, AvailP!Top, AvailP!Joined
<1> QED
  BY <1>3, <1>4, <1>5 DEF Avail!Next, Avail!Step, AvailP!Next, AvailP!Step


\* During this analysis the invariant of the solver holds;
LEMMA AvailInvariant == Spec => [](analysis = "copies" => AvailP!SolverInv)
<1>1. Init => (analysis = "copies" => AvailP!SolverInv)
  <2> SUFFICES ASSUME Init, analysis = "copies" PROVE AvailP!SolverInv
    OBVIOUS
  <2>1. AvailP!Init
    BY SameAvail DEF Init
  <2>2. AvailP!Init => AvailP!SolverInv
    BY AvailAssumptions, AvailP!SolverInvInit, Zenon
  <2> QED
    BY <2>1, <2>2
<1>2. /\ analysis = "copies" => AvailP!SolverInv
      /\ [Next]_vars
      => (analysis = "copies" => AvailP!SolverInv)'
  <2> SUFFICES ASSUME analysis = "copies" => AvailP!SolverInv, [Next]_vars, analysis' = "copies"
               PROVE  AvailP!SolverInv'
    OBVIOUS
  <2>1. analysis = "copies" /\ [AvailP!Next]_(AvailP!vars)
    BY SameAvail DEF Next, vars, AvailP!vars
  <2>2. AvailP!SolverInv /\ [AvailP!Next]_(AvailP!vars) => AvailP!SolverInv'
    BY AvailAssumptions, AvailP!SolverInvNext, Zenon
  <2> QED
    BY <2>1, <2>2
<1> QED
  BY <1>1, <1>2, PTL DEF Spec

\* so, when it is done, it has the least solution.
LEMMA AvailSolved == (analysis = "copies" => AvailP!SolverInv) /\ Answered("copies") => AvailP!Solved
<1> SUFFICES ASSUME AvailP!SolverInv, Done PROVE AvailP!Solved
  BY DEF Answered
<1>1. AvailP!Done
  BY DEF Done, AvailP!Done
<1> QED
  BY <1>1, AvailAssumptions, AvailP!SolvedWhenDone, Zenon


\* The fact a block joins from the travelling facts t.
AvailJoined(c, t, b) == AvailP!Joined(c.preds[b], t, A!InitIn(c)[b])

\* At the head of a block, the copies are those of all predecessors, and none at the
\* entry.
LEMMA AvailJoin ==
  ASSUME NEW c \in ScalarCfgs, NEW t \in AvailP!FactMaps(c), NEW b \in c.blocks
  PROVE  /\ b = c.entry => AvailJoined(c, t, b) = {}
         /\ b # c.entry => AvailJoined(c, t, b) = A!Combine({t[a] : a \in c.preds[b]})
         /\ b # c.entry => \A pair : pair \in AvailJoined(c, t, b) <=> \A a \in c.preds[b] : pair \in t[a]
         /\ AvailJoined(c, t, b) \in CopySets(c)
<1>1. b = c.entry <=> c.preds[b] = {}
  BY ScalarCode, AvailPreds
<1>2. c.preds[b] \subseteq c.blocks
  BY ScalarCode DEF IsCode
<1>3. A!InitIn(c)[b] = {}
  BY DEF A!InitIn
<1>4. AvailJoined(c, t, b) = IF c.preds[b] # {} THEN A!Combine({t[a] : a \in c.preds[b]})
                             ELSE A!InitIn(c)[b]
  BY DEF AvailJoined, AvailP!Joined
<1>5. \A a \in c.preds[b] : t[a] \subseteq A!all_copies(c)
  BY <1>2 DEF AvailP!FactMaps, CopySets
<1>6. ASSUME b # c.entry, NEW pair
      PROVE  pair \in A!Combine({t[a] : a \in c.preds[b]}) <=> \A a \in c.preds[b] : pair \in t[a]
  <2>1. PICK e \in c.preds[b] : TRUE
    BY <1>1, <1>6
  <2> QED
    BY <2>1, Zenon DEF A!Combine
<1>7. b # c.entry => \A pair : pair \in AvailJoined(c, t, b) <=> \A a \in c.preds[b] : pair \in t[a]
  BY <1>1, <1>4, <1>6
<1>8. b = c.entry => AvailJoined(c, t, b) = {}
  BY <1>1, <1>3, <1>4
<1>9. b # c.entry => AvailJoined(c, t, b) = A!Combine({t[a] : a \in c.preds[b]})
  BY <1>1, <1>4
<1>10. AvailJoined(c, t, b) \subseteq A!all_copies(c)
  <2>1. CASE b = c.entry
    BY <1>8, <2>1
  <2>2. CASE b # c.entry
    <3>1. PICK e \in c.preds[b] : TRUE
      BY <1>1, <2>2
    <3>2. AvailJoined(c, t, b) \subseteq t[e]
      BY <1>7, <2>2, <3>1
    <3> QED
      BY <1>5, <3>1, <3>2
  <2> QED
    BY <2>1, <2>2
<1> QED
  BY <1>7, <1>8, <1>9, <1>10 DEF CopySets

\* A solution, a block at a time.
LEMMA AvailSolutionIs ==
  ASSUME NEW c, NEW t
  PROVE  AvailP!IsSolution(c, t) <=>
           /\ t \in AvailP!FactMaps(c)
           /\ \A b \in c.blocks : t[b] = A!FlowBlock(c, b, AvailJoined(c, t, b))
BY DEF AvailP!IsSolution, AvailP!Sources, AvailP!Own, A!Direction, AvailJoined

\* The copies that are available at each point, ...
AvailMeant(c) == [p \in PointsOf(c) |-> A!Available(c, p)]

AvailMeantOut(c) == [b \in c.blocks |-> AvailMeant(c)[<<b, Len(c.code[b])>>]]

\* ... are what the flow through the blocks makes of what is meant at their starts, ...
LEMMA AvailMeantSolves ==
  ASSUME NEW c \in ScalarCfgs
  PROVE  /\ AvailP!IsSolution(c, AvailMeantOut(c))
         /\ \A b \in c.blocks : \A n \in 0 .. Len(c.code[b]) :
              AB!Carried(c, b, AvailJoined(c, AvailMeantOut(c), b))[n] = A!Available(c, <<b, n>>)
<1> DEFINE u == AvailMeant(c)
<1> DEFINE t == AvailMeantOut(c)
<1>1. \A b \in c.blocks : /\ Len(c.code[b]) \in Nat /\ c.preds[b] \subseteq c.blocks
                          /\ 0 \in 0 .. Len(c.code[b]) /\ Len(c.code[b]) \in 0 .. Len(c.code[b])
                          /\ \A n \in 1 .. Len(c.code[b]) : n \in 0 .. Len(c.code[b])
                                                           /\ n - 1 \in 0 .. Len(c.code[b])
  BY ScalarCode DEF IsCode
<1>2. \A b \in c.blocks : \A n \in 0 .. Len(c.code[b]) :
        u[<<b, n>>] = A!Available(c, <<b, n>>) /\ u[<<b, n>>] \in CopySets(c)
  BY AvailSteps, PointIs, Zenon DEF AvailMeant
<1>3. \A b \in c.blocks : t[b] = A!Available(c, <<b, Len(c.code[b])>>) /\ t[b] \in CopySets(c)
  BY <1>1, <1>2 DEF AvailMeantOut
<1>4. t \in AvailP!FactMaps(c)
  <2>1. t = [b \in c.blocks |-> t[b]]
    BY DEF AvailMeantOut
  <2> HIDE DEF t
  <2> QED
    BY <1>3, <2>1, Zenon DEF AvailP!FactMaps
<1> HIDE DEF u, t
<1>5. ASSUME NEW b \in c.blocks
      PROVE  AvailJoined(c, t, b) = u[<<b, 0>>]
  <2>1. {t[a] : a \in c.preds[b]} = {A!Available(c, <<a, Len(c.code[a])>>) : a \in c.preds[b]}
    BY <1>1, <1>3, Zenon
  <2>2. u[<<b, 0>>] = A!Available(c, <<b, 0>>)
    BY <1>1, <1>2
  <2>3. CASE b = c.entry
    <3>1. AvailJoined(c, t, b) = {}
      BY <1>4, <2>3, AvailJoin, Zenon
    <3>2. A!Available(c, <<c.entry, 0>>) = {}
      BY AvailSteps, Zenon
    <3> QED
      BY <2>2, <2>3, <3>1, <3>2
  <2>4. CASE b # c.entry
    <3>1. AvailJoined(c, t, b) = A!Combine({t[a] : a \in c.preds[b]})
      BY <1>4, <2>4, AvailJoin
    <3>2. A!Available(c, <<b, 0>>)
            = A!Combine({A!Available(c, <<a, Len(c.code[a])>>) : a \in c.preds[b]})
      BY <2>4, AvailSteps, Zenon
    <3> QED
      BY <2>1, <2>2, <3>1, <3>2, Zenon
  <2> QED
    BY <2>3, <2>4
<1>6. ASSUME NEW b \in c.blocks
      PROVE  \A n \in 0 .. Len(c.code[b]) : AB!Carried(c, b, AvailJoined(c, t, b))[n] = u[<<b, n>>]
  <2>1. \A n : AB!PointAfter(c, b, n) = <<b, n>> /\ AB!Visited(c, b, n) = c.code[b][n]
    BY AvailVisited
  <2>2. \A n \in 1 .. Len(c.code[b]) : u[<<b, n>>] = A!Flow(c, u[<<b, n - 1>>], c.code[b][n])
    <3>1. \A n \in 1 .. Len(c.code[b]) : n \in 0 .. Len(c.code[b]) /\ n - 1 \in 0 .. Len(c.code[b])
      BY <1>1
    <3> QED
      BY <1>2, <3>1, AvailSteps, Zenon
  <2>3. \A n \in 1 .. Len(c.code[b]) :
          u[AB!PointAfter(c, b, n)] = A!Flow(c, u[AB!PointAfter(c, b, n - 1)], AB!Visited(c, b, n))
    BY <2>1, <2>2
  <2>4. AB!PointAfter(c, b, 0) = <<b, 0>> /\ u[AB!PointAfter(c, b, 0)] \in CopySets(c)
    BY <1>1, <1>2, <2>1
  <2>5. AB!FlowsIn(c, b, CopySets(c))
    BY AvailFlows
  <2>6. \A n \in 0 .. Len(c.code[b]) :
          AB!Carried(c, b, u[AB!PointAfter(c, b, 0)])[n] = u[AB!PointAfter(c, b, n)]
    BY <2>3, <2>4, <2>5, AB!CarriedAlong
  <2> QED
    BY <1>5, <2>1, <2>4, <2>6, Zenon
<1>7. \A b \in c.blocks : t[b] = A!FlowBlock(c, b, AvailJoined(c, t, b))
  <2> SUFFICES ASSUME NEW b \in c.blocks PROVE t[b] = A!FlowBlock(c, b, AvailJoined(c, t, b))
    OBVIOUS
  <2>1. AB!FlowBlock(c, b, AvailJoined(c, t, b)) = u[<<b, Len(c.code[b])>>]
    BY <1>1, <1>6, Zenon DEF AB!FlowBlock
  <2> QED
    BY <1>1, <1>2, <1>3, <2>1, AvailBlocks
<1>8. \A b \in c.blocks : \A n \in 0 .. Len(c.code[b]) :
        AB!Carried(c, b, AvailJoined(c, t, b))[n] = A!Available(c, <<b, n>>)
  BY <1>2, <1>6, Zenon
<1>9. AvailP!IsSolution(c, t)
  BY <1>4, <1>7, AvailSolutionIs
<1> QED
  BY <1>8, <1>9 DEF t

\* ... and contain every solution.
LEMMA AvailMeantAbove ==
  ASSUME NEW c \in ScalarCfgs, NEW t, AvailP!IsSolution(c, t)
  PROVE  \A b \in c.blocks : t[b] \subseteq AvailMeantOut(c)[b]
<1> DEFINE join(b) == AvailJoined(c, t, b)
<1> DEFINE w(b, n) == AB!Carried(c, b, join(b))[n]
<1>1. \A b \in c.blocks : /\ Len(c.code[b]) \in Nat /\ c.preds[b] \subseteq c.blocks
                          /\ 0 \in 0 .. Len(c.code[b]) /\ Len(c.code[b]) \in 0 .. Len(c.code[b])
                          /\ \A n \in 1 .. Len(c.code[b]) : n \in 0 .. Len(c.code[b])
                                                           /\ n - 1 \in 0 .. Len(c.code[b])
  BY ScalarCode DEF IsCode
<1>2. t \in AvailP!FactMaps(c) /\ \A b \in c.blocks : t[b] = A!FlowBlock(c, b, join(b))
  BY AvailSolutionIs
<1>3. ASSUME NEW b \in c.blocks
      PROVE  /\ w(b, 0) = join(b)
             /\ w(b, Len(c.code[b])) = t[b]
             /\ \A n \in 1 .. Len(c.code[b]) : w(b, n) = A!Flow(c, w(b, n - 1), c.code[b][n])
  <2> DEFINE carried == AB!Carried(c, b, join(b))
  <2>1. join(b) \in CopySets(c) /\ AB!FlowsIn(c, b, CopySets(c))
    BY <1>2, AvailJoin, AvailFlows, Zenon
  <2>2. carried[0] = join(b)
        /\ \A n \in 1 .. Len(c.code[b]) : carried[n] = A!Flow(c, carried[n - 1], AB!Visited(c, b, n))
    <3> HIDE DEF join
    <3> QED
      BY <2>1, AB!CarriedSteps
  <2>3. \A n : AB!Visited(c, b, n) = c.code[b][n]
    BY AvailVisited
  <2>4. carried[Len(c.code[b])] = t[b]
    BY <1>2, AvailBlocks DEF AB!FlowBlock
  <2> HIDE DEF carried
  <2> QED
    BY <2>2, <2>3, <2>4 DEF carried
<1> HIDE DEF w
<1>4. ASSUME NEW b \in c.blocks
      PROVE  /\ b = c.entry => join(b) = {}
             /\ b # c.entry => \A pair : pair \in join(b) <=> \A a \in c.preds[b] : pair \in t[a]
  BY <1>2, AvailJoin, Zenon
<1>5. c.entry \in c.blocks /\ c.preds[c.entry] = {}
  BY ScalarCode
<1> HIDE DEF join
<1>6. ASSUME NEW b \in c.blocks, NEW pair \in t[b] PROVE pair \in AvailMeantOut(c)[b]
  <2> DEFINE S == {p \in PointsOf(c) : pair \notin w(p[1], p[2])}
  <2>1. \A a \in c.blocks : \A n \in 0 .. Len(c.code[a]) : <<a, n>> \in S <=> pair \notin w(a, n)
    BY PointIs, Zenon
  <2>2. pair \in A!all_copies(c)
    BY <1>2, <1>6 DEF AvailP!FactMaps, CopySets
  <2> HIDE DEF S
  <2>3. ASSUME NEW a \in c.blocks, NEW n \in 1 .. Len(c.code[a]),
               Spoils(c, pair, c.code[a][n].instr)
                 \/ (<<a, n - 1>> \in S /\ pair \notin A!Generates(c.code[a][n].instr))
        PROVE  <<a, n>> \in S
    <3>1. n \in 0 .. Len(c.code[a]) /\ n - 1 \in 0 .. Len(c.code[a])
      BY <1>1
    <3>2. w(a, n) = A!Flow(c, w(a, n - 1), c.code[a][n])
      BY <1>3
    <3>3. pair \notin A!Flow(c, w(a, n - 1), c.code[a][n])
      <4>1. <<a, n - 1>> \in S => pair \notin w(a, n - 1)
        BY <2>1, <3>1
      <4> QED
        BY <2>3, <4>1 DEF A!Flow, Spoils
    <3> QED
      BY <2>1, <3>1, <3>2, <3>3
  <2>4. ASSUME NEW a \in c.blocks,
               a = c.entry \/ (\E e \in c.preds[a] : <<e, Len(c.code[e])>> \in S)
        PROVE  <<a, 0>> \in S
    <3>1. \A e \in c.preds[a] : <<e, Len(c.code[e])>> \in S => pair \notin t[e]
      BY <1>1, <1>3, <2>1
    <3>2. pair \notin join(a)
      BY <1>4, <1>5, <2>4, <3>1, Zenon
    <3> QED
      BY <1>1, <1>3, <2>1, <3>2
  <2>5. CopyPaths(c, pair) \subseteq S
    BY <2>3, <2>4, AvailLeast, Zenon
  <2>6. <<b, Len(c.code[b])>> \notin S
    BY <1>1, <1>3, <1>6, <2>1
  <2>7. pair \in A!Available(c, <<b, Len(c.code[b])>>)
    BY <2>2, <2>5, <2>6, AvailableIs
  <2> QED
    BY <1>1, <2>7, PointIs DEF AvailMeantOut, AvailMeant
<1> QED
  BY <1>6

\* What the solver ends with, before each instruction.
LEMMA AvailFound ==
  ASSUME analysis = "copies" => AvailP!SolverInv, Answered("copies")
  PROVE  /\ cfg \in ScalarCfgs
         /\ \A b \in cfg.blocks : \A n \in DOMAIN cfg.code[b] :
              A!instr_fact(cfg, b, n, in_facts[b]) = A!Available(cfg, <<b, n - 1>>)
<1>1. AvailP!Solved
  BY AvailSolved
<1>2. /\ cfg \in ScalarCfgs
      /\ AvailP!IsSolution(cfg, out_facts)
      /\ \A t \in AvailP!FactMaps(cfg) :
           AvailP!IsSolution(cfg, t) => \A a \in cfg.blocks : t[a] \subseteq out_facts[a]
      /\ \A a \in cfg.blocks : in_facts[a] = AvailJoined(cfg, out_facts, a)
  BY <1>1 DEF AvailP!Solved, AvailP!Travelling, AvailP!Resting, AvailP!BelowEverySolution,
              AvailP!Sources, AvailP!Own, A!Direction, Larger, AvailJoined
<1>3. AvailP!IsSolution(cfg, AvailMeantOut(cfg))
  BY <1>2, AvailMeantSolves
<1>4. out_facts \in AvailP!FactMaps(cfg) /\ AvailMeantOut(cfg) \in AvailP!FactMaps(cfg)
  BY <1>2, <1>3 DEF AvailP!IsSolution
<1>5. \A a \in cfg.blocks : out_facts[a] = AvailMeantOut(cfg)[a]
  BY <1>2, <1>3, <1>4, AvailMeantAbove, Zenon
<1>6. out_facts = AvailMeantOut(cfg)
  BY <1>4, <1>5 DEF AvailP!FactMaps
<1>7. ASSUME NEW b \in cfg.blocks, NEW n \in DOMAIN cfg.code[b]
      PROVE  A!instr_fact(cfg, b, n, in_facts[b]) = A!Available(cfg, <<b, n - 1>>)
  <2>1. Len(cfg.code[b]) \in Nat /\ n \in 1 .. Len(cfg.code[b])
    BY <1>2, ScalarCode
  <2>2. n - 1 \in 0 .. Len(cfg.code[b])
    BY <2>1
  <2>3. AB!Carried(cfg, b, AvailJoined(cfg, AvailMeantOut(cfg), b))[n - 1] = A!Available(cfg, <<b, n - 1>>)
    BY <1>2, <2>2, AvailMeantSolves
  <2>4. A!instr_fact(cfg, b, n, in_facts[b]) = AB!Carried(cfg, b, in_facts[b])[n - 1]
    BY AvailBlocks DEF A!instr_fact, A!Direction
  <2> QED
    BY <1>2, <1>6, <2>3, <2>4
<1> QED
  BY <1>2, <1>7

\* Copy propagation sees exactly the copies that hold on every path, in every
\* function: the definition at the head of copies.rs.
THEOREM CopiesAreExact == Spec => []CopiesExact
<1>1. (analysis = "copies" => AvailP!SolverInv) => CopiesExact
  BY AvailFound, Zenon DEF CopiesExact
<1> QED
  BY <1>1, AvailInvariant, PTL

\* Of two copies to one variable, one is in doubt at every point: whichever is
\* executed writes a side of the other.
LEMMA OneInDoubt ==
  ASSUME NEW c \in ScalarCfgs,
         NEW p \in A!all_copies(c), NEW q \in A!all_copies(c), p[1] = q[1], p # q
  PROVE  \A b \in c.blocks : \A n \in 0 .. Len(c.code[b]) :
           <<b, n>> \in CopyPaths(c, p) \cup CopyPaths(c, q)
<1> DEFINE S == CopyPaths(c, p) \cup CopyPaths(c, q)
<1>1. /\ IsCode(c) /\ c.entry \in c.blocks
      /\ \A b \in c.blocks : Len(c.code[b]) \in Nat
  BY ScalarCode
<1>2. ASSUME NEW i, NEW x \in A!Generates(i), NEW y, y \in {p, q}, y # x, x[1] = y[1],
             i.op = "Copy" => 1 \in DOMAIN i.dst
      PROVE  Spoils(c, y, i)
  <2>1. /\ i.op = "Copy" /\ i.dst[1].kind = "Var"
        /\ x = <<i.dst[1].name, i.srcs[1].name>>
        /\ y \notin A!Generates(i)
    BY <1>2 DEF A!Generates, A!IsVarCopy
  <2>2. i.dst[1] \in A!Range(i.dst)
    BY <1>2, <2>1 DEF A!Range
  <2>3. x[1] \in A!def_of_instr(i)
    BY <2>1, <2>2 DEF A!def_of_instr
  <2>4. x[1] \in A!Clobbers(c, i)
    BY <2>3 DEF A!Clobbers
  <2>5. PICK j : y \in A!Generates(j)
    BY <1>2 DEF A!all_copies
  <2>6. y[1] \in A!Range(y)
    BY <2>5 DEF A!Generates, A!Range
  <2> QED
    BY <1>2, <2>1, <2>4, <2>6 DEF Spoils
<1>3. ASSUME NEW b \in c.blocks, NEW n \in 1 .. Len(c.code[b]), <<b, n - 1>> \in S
      PROVE  <<b, n>> \in S
  <2> DEFINE i == c.code[b][n].instr
  <2>1. i.op = "Copy" => 1 \in DOMAIN i.dst
    BY ScalarCfgsAssumption, Zenon
  <2>2. \A pair : <<b, n>> \in CopyPaths(c, pair) <=>
                    \/ Spoils(c, pair, i)
                    \/ <<b, n - 1>> \in CopyPaths(c, pair) /\ pair \notin A!Generates(i)
    BY AvailPathSteps, Zenon
  <2> HIDE DEF i
  <2>3. CASE p \in A!Generates(i)
    BY <1>2, <2>1, <2>2, <2>3
  <2>4. CASE q \in A!Generates(i)
    BY <1>2, <2>1, <2>2, <2>4
  <2>5. CASE p \notin A!Generates(i) /\ q \notin A!Generates(i)
    BY <1>3, <2>2, <2>5
  <2> QED
    BY <2>3, <2>4, <2>5
<1>4. ASSUME NEW b \in c.blocks, b = c.entry \/ \E a \in c.preds[b] : <<a, Len(c.code[a])>> \in S
      PROVE  <<b, 0>> \in S
  BY <1>4, AvailPathSteps, Zenon
<1> HIDE DEF S
<1>5. ASSUME NEW b \in c.blocks, <<b, 0>> \in S
      PROVE  \A n \in 0 .. Len(c.code[b]) : <<b, n>> \in S
  <2> DEFINE N == Len(c.code[b])
  <2> DEFINE T == {n \in 0 .. N : <<b, n>> \in S}
  <2>1. N \in Nat
    BY <1>1
  <2>2. \A n \in 1 .. N : <<b, n - 1>> \in S => <<b, n>> \in S
    BY <1>3
  <2> HIDE DEF N
  <2>3. 0 \in T /\ \A n \in 1 .. N : n - 1 \in T => n \in T
    BY <1>5, <2>1, <2>2
  <2> HIDE DEF T
  <2>4. 0 .. N \subseteq T
    BY <2>1, <2>3, UpTo
  <2> QED
    BY <2>4 DEF T, N
<1> DEFINE B == {b \in c.blocks : <<b, 0>> \in S}
<1>6. {c.entry} \subseteq B
  BY <1>1, <1>4
<1>7. ASSUME NEW a \in B, NEW b \in c.succs[a] PROVE b \in B
  <2>1. a \in c.blocks /\ b \in c.blocks /\ a \in c.preds[b]
    BY <1>1 DEF IsCode
  <2>2. <<a, Len(c.code[a])>> \in S
    <3>1. Len(c.code[a]) \in 0 .. Len(c.code[a])
      BY <1>1, <2>1
    <3> QED
      BY <1>5, <2>1, <3>1
  <2> QED
    BY <1>4, <2>1, <2>2, Zenon
<1>8. c.blocks \subseteq B
  <2>1. IsGraph(c.blocks, c.succs) /\ {c.entry} \subseteq c.blocks
    BY <1>1 DEF IsGraph, IsCode
  <2>2. L!ReachedFrom({c.entry}, c.succs) = c.blocks
    BY ScalarCfgsAssumption, Zenon
  <2>3. ReachedFrom({c.entry}, c.succs) = c.blocks
    BY <2>2, LiveReachedFrom
  <2>4. \A b \in B \cap c.blocks : c.succs[b] \subseteq B
    BY <1>7, Zenon
  <2> HIDE DEF B
  <2>5. ReachedFrom({c.entry}, c.succs) \subseteq B
    BY <1>6, <2>1, <2>4, ReachedLeast
  <2> QED
    BY <2>3, <2>5
<1> QED
  BY <1>5, <1>8, Zenon DEF S

\* copy_propagation has no choice between two pairs, in any function: the comment in
\* copies.rs that there is at most one per destination.
THEOREM CopiesArePerDst == Spec => []OnePairPerDst
<1>1. (analysis = "copies" => AvailP!SolverInv) => OnePairPerDst
  <2> SUFFICES ASSUME analysis = "copies" => AvailP!SolverInv, Answered("copies"),
                      NEW b \in cfg.blocks, NEW n \in DOMAIN cfg.code[b],
                      NEW p \in A!instr_fact(cfg, b, n, in_facts[b]),
                      NEW q \in A!instr_fact(cfg, b, n, in_facts[b]), p[1] = q[1], p # q
               PROVE  FALSE
    BY Zenon DEF OnePairPerDst
  <2>1. /\ cfg \in ScalarCfgs
        /\ A!instr_fact(cfg, b, n, in_facts[b]) = A!Available(cfg, <<b, n - 1>>)
    BY AvailFound
  <2>2. A!Available(cfg, <<b, n - 1>>)
          = {pair \in A!all_copies(cfg) : <<b, n - 1>> \notin CopyPaths(cfg, pair)}
    BY <2>1, AvailableIs
  <2>3. n - 1 \in 0 .. Len(cfg.code[b])
    <3>1. Len(cfg.code[b]) \in Nat /\ n \in 1 .. Len(cfg.code[b])
      BY <2>1, ScalarCode
    <3> QED
      BY <3>1
  <2>4. /\ p \in A!all_copies(cfg) /\ <<b, n - 1>> \notin CopyPaths(cfg, p)
        /\ q \in A!all_copies(cfg) /\ <<b, n - 1>> \notin CopyPaths(cfg, q)
    BY <2>1, <2>2
  <2> QED
    BY <2>1, <2>3, <2>4, OneInDoubt
<1> QED
  BY <1>1, AvailInvariant, PTL

-----------------------------------------------------------------------------
\* Dominance in a graph that is given by its blocks, the root, and the edges in
\* both directions: those along which a path goes on, and those along which an
\* analysis joins.

IsFlowGraph(g) ==
  /\ IsFiniteSet(g.blocks)
  /\ g.joining \in [g.blocks -> SUBSET g.blocks]
  /\ g.edges \in [g.blocks -> SUBSET g.blocks]
  /\ \A a, b \in g.blocks : a \in g.joining[b] <=> b \in g.edges[a]
  /\ g.root \in g.blocks
  /\ g.joining[g.root] = {}

ReachedWithout(g, d) ==
  ReachedFrom({g.root} \ {d}, [b \in g.blocks |-> g.edges[b] \ {d}])

Dominates(g, d, n) == d = n \/ n \notin ReachedWithout(g, d)

Start(g) == [b \in g.blocks |-> IF b = g.root THEN {b} ELSE g.blocks]

\* t solves the equations of the analysis.
Solves(g, t) ==
  /\ t \in [g.blocks -> SUBSET g.blocks]
  /\ \A b \in g.blocks :
       t[b] = D!FlowBlock(g, b, IF g.joining[b] # {} THEN D!Combine({t[a] : a \in g.joining[b]})
                              ELSE Start(g)[b])

\* The equations, a block at a time: d is in the fact of b if it is b itself or in
\* the facts of all blocks before b, of which only the root has none by right.
LEMMA EquationsAtBlock ==
  ASSUME NEW g, IsFlowGraph(g), NEW t \in [g.blocks -> SUBSET g.blocks]
  PROVE  Solves(g, t) <=>
           \A d, b \in g.blocks :
             d \in t[b] <=> \/ d = b
                            \/ b # g.root /\ \A a \in g.joining[b] : d \in t[a]
<1> DEFINE E(b) == IF g.joining[b] # {} THEN D!Combine({t[a] : a \in g.joining[b]})
                                         ELSE Start(g)[b]
<1> DEFINE C(d, b) == \/ d = b
                      \/ b # g.root /\ \A a \in g.joining[b] : d \in t[a]
<1>1. ASSUME NEW b \in g.blocks
      PROVE  /\ D!FlowBlock(g, b, E(b)) \subseteq g.blocks
             /\ \A d \in g.blocks : d \in D!FlowBlock(g, b, E(b)) <=> C(d, b)
  <2>1. CASE g.joining[b] = {}
    <3>1. E(b) = IF b = g.root THEN {b} ELSE g.blocks
      BY <2>1 DEF Start
    <3> QED
      BY <2>1, <3>1 DEF D!FlowBlock
  <2>2. CASE g.joining[b] # {}
    <3>1. g.joining[b] \subseteq g.blocks /\ b # g.root
      BY <2>2 DEF IsFlowGraph
    <3> DEFINE X == {t[a] : a \in g.joining[b]}
    <3>2. \A d : d \in D!Combine(X) <=> \A a \in g.joining[b] : d \in t[a]
      BY <2>2 DEF D!Combine
    <3>3. E(b) = D!Combine(X)
      BY <2>2
    <3> HIDE DEF X, E
    <3>4. D!Combine(X) \subseteq g.blocks
      BY <2>2, <3>1, <3>2
    <3> QED
      BY <3>1, <3>2, <3>3, <3>4 DEF D!FlowBlock
  <2> QED
    BY <2>1, <2>2
<1>2. \A b \in g.blocks : t[b] \subseteq g.blocks
  OBVIOUS
<1>3. Solves(g, t) <=> \A b \in g.blocks : t[b] = D!FlowBlock(g, b, E(b))
  BY DEF Solves
<1> HIDE DEF E, C
<1>4. ASSUME NEW b \in g.blocks
      PROVE  t[b] = D!FlowBlock(g, b, E(b)) <=> \A d \in g.blocks : d \in t[b] <=> C(d, b)
  BY <1>1, <1>2
<1>5. Solves(g, t) <=> \A b \in g.blocks : \A d \in g.blocks : d \in t[b] <=> C(d, b)
  BY <1>3, <1>4
<1> QED
  BY <1>5 DEF C

\* ReachedWithout(g, d) is the smallest set of blocks other than d that has the root
\* and goes on along every edge but those to d, and each of its blocks is there
\* for one of these reasons.
LEMMA Avoiding ==
  ASSUME NEW g, IsFlowGraph(g), NEW d \in g.blocks
  PROVE  LET W == ReachedWithout(g, d)
         IN  /\ W \subseteq g.blocks /\ d \notin W
             /\ g.root # d => g.root \in W
             /\ \A a \in W : \A b \in g.edges[a] : b # d => b \in W
             /\ \A b \in W : b # g.root => \E a \in W : b \in g.edges[a]
             /\ \A S : /\ g.root # d => g.root \in S
                       /\ \A a \in S \cap g.blocks : \A b \in g.edges[a] : b # d => b \in S
                       => W \subseteq S
<1> DEFINE from == {g.root} \ {d}
<1> DEFINE next == [b \in g.blocks |-> g.edges[b] \ {d}]
<1> DEFINE W == ReachedFrom(from, next)
<1>1. IsGraph(g.blocks, next) /\ from \subseteq g.blocks
  BY DEF IsGraph, IsFlowGraph
<1>2. \A a \in g.blocks : next[a] = g.edges[a] \ {d}
  OBVIOUS
<1>3. ReachedWithout(g, d) = W
  BY DEF ReachedWithout
<1> HIDE DEF next
<1>4. /\ from \subseteq W /\ W \subseteq g.blocks
      /\ \A a \in W : next[a] \subseteq W
      /\ \A S : from \subseteq S /\ (\A a \in S \cap g.blocks : next[a] \subseteq S) => W \subseteq S
  <2> HIDE DEF from
  <2> QED
    BY <1>1, ReachedLeast
<1>5. W = from \cup UNION {next[a] : a \in W}
  <2> HIDE DEF from
  <2> QED
    BY <1>1, LastStep
<1> HIDE DEF W
<1>6. W \subseteq g.blocks /\ (g.root # d => g.root \in W)
  BY <1>4
<1>7. \A b \in W : b # d /\ (b # g.root => \E a \in W : b \in g.edges[a])
  BY <1>2, <1>4, <1>5
<1>8. \A a \in W : \A b \in g.edges[a] : b # d => b \in W
  BY <1>2, <1>4
<1>9. ASSUME NEW S, g.root # d => g.root \in S,
             \A a \in S \cap g.blocks : \A b \in g.edges[a] : b # d => b \in S
      PROVE  W \subseteq S
  BY <1>2, <1>4, <1>9
<1> QED
  BY <1>3, <1>6, <1>7, <1>8, <1>9

\* t holds the blocks that dominate each block.
AreDominators(g, t) ==
  /\ t \in [g.blocks -> SUBSET g.blocks]
  /\ \A d, n \in g.blocks : d \in t[n] <=> Dominates(g, d, n)

\* The dominators solve the equations.
LEMMA DominatorsSolve ==
  ASSUME NEW g, IsFlowGraph(g), NEW t, AreDominators(g, t)
  PROVE  Solves(g, t)
<1>1. t \in [g.blocks -> SUBSET g.blocks]
  BY DEF AreDominators
<1>2. ASSUME NEW d \in g.blocks, NEW b \in g.blocks, d # b
      PROVE  d \in t[b] <=> b # g.root /\ \A a \in g.joining[b] : d \in t[a]
  <2> DEFINE W == ReachedWithout(g, d)
  <2>1. /\ W \subseteq g.blocks /\ d \notin W
        /\ g.root # d => g.root \in W
        /\ \A a \in W : \A e \in g.edges[a] : e # d => e \in W
        /\ \A e \in W : e # g.root => \E a \in W : e \in g.edges[a]
    BY Avoiding
  <2> HIDE DEF W
  <2>2. \A a \in g.blocks : d \in t[a] <=> a \notin W
    BY <2>1 DEF AreDominators, Dominates, W
  <2>3. g.joining[b] \subseteq g.blocks /\ \A a \in g.blocks : a \in g.joining[b] <=> b \in g.edges[a]
    BY DEF IsFlowGraph
  <2>4. b \in W <=> b = g.root \/ \E a \in g.joining[b] : a \in W
    BY <1>2, <2>1, <2>3
  <2> QED
    BY <2>2, <2>3, <2>4
<1>3. \A b \in g.blocks : b \in t[b]
  BY DEF AreDominators, Dominates
<1>4. \A d, b \in g.blocks :
        d \in t[b] <=> \/ d = b
                       \/ b # g.root /\ \A a \in g.joining[b] : d \in t[a]
  BY <1>2, <1>3
<1> QED
  BY <1>1, <1>4, EquationsAtBlock

\* Every other solution is smaller.
LEMMA DominatorsGreatest ==
  ASSUME NEW g, IsFlowGraph(g), NEW t, Solves(g, t),
         NEW d \in g.blocks, NEW n \in g.blocks, d \in t[n]
  PROVE  Dominates(g, d, n)
<1> DEFINE S == {b \in g.blocks : d \notin t[b]}
<1>1. t \in [g.blocks -> SUBSET g.blocks]
  BY DEF Solves
<1>2. \A b \in g.blocks :
        d \in t[b] <=> \/ d = b
                       \/ b # g.root /\ \A a \in g.joining[b] : d \in t[a]
  BY <1>1, EquationsAtBlock
<1>3. g.root # d => g.root \in S
  BY <1>2 DEF IsFlowGraph
<1>4. \A a \in S \cap g.blocks : \A b \in g.edges[a] : b # d => b \in S
  BY <1>2 DEF IsFlowGraph
<1> HIDE DEF S
<1>5. ReachedWithout(g, d) \subseteq S
  BY <1>3, <1>4, Avoiding
<1> QED
  BY <1>5 DEF S, Dominates

\* A solution that contains every other one holds exactly the dominators.
THEOREM GreatestIsExact ==
  ASSUME NEW g, IsFlowGraph(g), NEW t, Solves(g, t),
         \A u : Solves(g, u) => \A b \in g.blocks : u[b] \subseteq t[b]
  PROVE  AreDominators(g, t)
<1> DEFINE T == [n \in g.blocks |-> {d \in g.blocks : Dominates(g, d, n)}]
<1>1. AreDominators(g, T)
  BY DEF AreDominators
<1> HIDE DEF T
<1>2. \A n \in g.blocks : T[n] \subseteq t[n]
  BY <1>1, DominatorsSolve
<1>3. t \in [g.blocks -> SUBSET g.blocks]
  BY DEF Solves
<1>4. \A d, n \in g.blocks : d \in t[n] => Dominates(g, d, n)
  BY DominatorsGreatest
<1> QED
  BY <1>1, <1>2, <1>3, <1>4 DEF AreDominators

-----------------------------------------------------------------------------

\* Every block lies on a path from the root.
AllReached(g) == ReachedFrom({g.root}, g.edges) = g.blocks

\* A set that has the root and is closed under all edges then has every block.
LEMMA ClosedIsAll ==
  ASSUME NEW g, IsFlowGraph(g), AllReached(g), NEW S, g.root \in S,
         \A a \in S \cap g.blocks : g.edges[a] \subseteq S
  PROVE  g.blocks \subseteq S
<1>1. IsGraph(g.blocks, g.edges) /\ {g.root} \subseteq g.blocks
  BY DEF IsGraph, IsFlowGraph
<1>2. {g.root} \subseteq S
  OBVIOUS
<1>3. ReachedFrom({g.root}, g.edges) \subseteq S
  BY <1>1, <1>2, ReachedLeast
<1> QED
  BY <1>3 DEF AllReached

\* Dominance is a partial order in which the dominators of a block form a chain.
LEMMA Transitive ==
  ASSUME NEW g, IsFlowGraph(g), NEW d \in g.blocks, NEW e \in g.blocks, NEW n \in g.blocks,
         Dominates(g, e, d), Dominates(g, d, n)
  PROVE  Dominates(g, e, n)
<1> DEFINE WD == ReachedWithout(g, d)
<1> DEFINE WE == ReachedWithout(g, e)
<1>1. /\ WD \subseteq g.blocks /\ d \notin WD
      /\ g.root # d => g.root \in WD
      /\ \A a \in WD : \A b \in g.edges[a] : b # d => b \in WD
  BY Avoiding
<1>2. /\ WE \subseteq g.blocks /\ e \notin WE
      /\ g.root # e => g.root \in WE
      /\ \A a \in WE : \A b \in g.edges[a] : b # e => b \in WE
      /\ \A S : /\ g.root # e => g.root \in S
                /\ \A a \in S \cap g.blocks : \A b \in g.edges[a] : b # e => b \in S
                => WE \subseteq S
  BY Avoiding
<1>3. (e = d \/ d \notin WE) /\ (d = n \/ n \notin WD)
  BY DEF Dominates
<1> HIDE DEF WD, WE
<1>4. CASE e # d /\ e # n
  <2> DEFINE S == WE \cap WD
  <2>1. g.root # e => g.root \in S
    BY <1>1, <1>2, <1>3, <1>4
  <2>2. \A a \in S \cap g.blocks : \A b \in g.edges[a] : b # e => b \in S
    BY <1>1, <1>2, <1>3, <1>4
  <2>3. WE \subseteq S
    <3> HIDE DEF S
    <3> QED
      BY <1>2, <2>1, <2>2
  <2>4. n \notin WE
    BY <1>1, <1>3, <1>4, <2>3
  <2> QED
    BY <2>4 DEF Dominates, WE
<1> QED
  BY <1>4 DEF Dominates

\* Two blocks that dominate each other are one.
LEMMA Antisymmetric ==
  ASSUME NEW g, IsFlowGraph(g), AllReached(g), NEW d \in g.blocks, NEW e \in g.blocks,
         Dominates(g, d, e), Dominates(g, e, d)
  PROVE  d = e
<1> SUFFICES ASSUME d # e PROVE FALSE
  OBVIOUS
<1> DEFINE WD == ReachedWithout(g, d)
<1> DEFINE WE == ReachedWithout(g, e)
<1> DEFINE S == WD \cap WE
<1>1. /\ WD \subseteq g.blocks /\ d \notin WD
      /\ g.root # d => g.root \in WD
      /\ \A a \in WD : \A b \in g.edges[a] : b # d => b \in WD
  BY Avoiding
<1>2. /\ WE \subseteq g.blocks /\ e \notin WE
      /\ g.root # e => g.root \in WE
      /\ \A a \in WE : \A b \in g.edges[a] : b # e => b \in WE
  BY Avoiding
<1>3. e \notin WD /\ d \notin WE
  BY DEF Dominates
<1> HIDE DEF WD, WE
<1>4. g.root \in S
  BY <1>1, <1>2, <1>3
<1>5. \A a \in S \cap g.blocks : g.edges[a] \subseteq S
  BY <1>1, <1>2, <1>3
<1> HIDE DEF S
<1>6. g.blocks \subseteq S
  BY <1>4, <1>5, ClosedIsAll
<1> QED
  BY <1>1, <1>6 DEF S

\* Of two dominators of one block, one dominates the other.
LEMMA Chain ==
  ASSUME NEW g, IsFlowGraph(g), AllReached(g),
         NEW d \in g.blocks, NEW e \in g.blocks, NEW n \in g.blocks,
         Dominates(g, d, n), Dominates(g, e, n)
  PROVE  Dominates(g, d, e) \/ Dominates(g, e, d)
<1> SUFFICES ASSUME ~Dominates(g, d, e), ~Dominates(g, e, d) PROVE FALSE
  OBVIOUS
<1> DEFINE WD == ReachedWithout(g, d)
<1> DEFINE WE == ReachedWithout(g, e)
<1> DEFINE S == WD \cup WE
<1>1. /\ WD \subseteq g.blocks /\ d \notin WD
      /\ g.root # d => g.root \in WD
      /\ \A a \in WD : \A b \in g.edges[a] : b # d => b \in WD
  BY Avoiding
<1>2. /\ WE \subseteq g.blocks /\ e \notin WE
      /\ g.root # e => g.root \in WE
      /\ \A a \in WE : \A b \in g.edges[a] : b # e => b \in WE
  BY Avoiding
<1>3. e \in WD /\ d \in WE /\ d # e
  BY DEF Dominates
<1>4. n \notin WD /\ n \notin WE
  BY <1>3 DEF Dominates
<1> HIDE DEF WD, WE
<1>5. g.root \in S
  BY <1>1, <1>2, <1>3
<1>6. \A a \in S \cap g.blocks : g.edges[a] \subseteq S
  BY <1>1, <1>2, <1>3
<1> HIDE DEF S
<1>7. g.blocks \subseteq S
  BY <1>5, <1>6, ClosedIsAll
<1> QED
  BY <1>4, <1>7 DEF S

\* The root dominates every block.
LEMMA RootDominates ==
  ASSUME NEW g, IsFlowGraph(g), NEW n \in g.blocks
  PROVE  Dominates(g, g.root, n)
<1>1. g.root \in g.blocks
  BY DEF IsFlowGraph
<1> DEFINE W == ReachedWithout(g, g.root)
<1>2. \A S : /\ g.root # g.root => g.root \in S
             /\ \A a \in S \cap g.blocks : \A b \in g.edges[a] : b # g.root => b \in S
             => W \subseteq S
  BY <1>1, Avoiding
<1> DEFINE None == g.blocks \ g.blocks
<1> HIDE DEF W
<1>3. \A a \in None \cap g.blocks : \A b \in g.edges[a] : b # g.root => b \in None
  OBVIOUS
<1>4. None = {}
  OBVIOUS
<1> HIDE DEF None
<1>5. W \subseteq None
  BY <1>2, <1>3
<1> QED
  BY <1>4, <1>5 DEF Dominates, W

\* Every block but the root has exactly one immediate dominator: among the blocks
\* that strictly dominate it, the one with the most dominators.
THEOREM OneCandidate ==
  ASSUME NEW g, IsFlowGraph(g), AllReached(g), NEW t, AreDominators(g, t),
         NEW n \in g.blocks, n # g.root
  PROVE  Cardinality(D!Candidates(t, n)) = 1
<1> DEFINE S == t[n] \ {n}
<1>1. t \in [g.blocks -> SUBSET g.blocks] /\ \A d, b \in g.blocks : d \in t[b] <=> Dominates(g, d, b)
  BY DEF AreDominators
<1>2. g.root \in S
  BY <1>1, RootDominates DEF IsFlowGraph
<1>3. S \subseteq g.blocks /\ \A d \in S : Dominates(g, d, n)
  BY <1>1
<1>4. D!Candidates(t, n) = {d \in S : \A o \in S \ {d} : d \notin t[o]}
  BY DEF D!Candidates, D!StrictDoms
<1> HIDE DEF S
<1>5. \A d, e \in D!Candidates(t, n) : d = e
  <2> SUFFICES ASSUME NEW d \in D!Candidates(t, n), NEW e \in D!Candidates(t, n), d # e PROVE FALSE
    OBVIOUS
  <2>1. d \in S /\ e \in S /\ d \notin t[e] /\ e \notin t[d]
    BY <1>4
  <2>2. ~Dominates(g, d, e) /\ ~Dominates(g, e, d)
    BY <1>1, <1>3, <2>1
  <2> QED
    BY <1>3, <2>1, <2>2, Chain
<1>6. \E d \in S : d \in D!Candidates(t, n)
  <2> DEFINE Size(d) == Cardinality(t[d])
  <2> DEFINE Max == Cardinality(g.blocks)
  <2> DEFINE Missing == {Max - Size(d) : d \in S}
  <2>1. IsFiniteSet(g.blocks)
    BY DEF IsFlowGraph
  <2>2. \A d \in g.blocks : IsFiniteSet(t[d]) /\ Size(d) \in Nat /\ Size(d) <= Max
    BY <1>1, <2>1, FS_Subset, FS_CardinalityType
  <2>3. Max \in Nat
    BY <2>1, FS_CardinalityType
  <2> HIDE DEF Max, Size
  <2>4. Missing \subseteq Nat /\ Missing # {}
    BY <1>2, <1>3, <2>2, <2>3
  <2> HIDE DEF Missing
  <2>5. PICK m \in Missing : \A k \in Missing : ~(k < m)
    BY <2>4, Smallest
  <2>6. PICK d \in S : m = Max - Size(d)
    BY <2>5 DEF Missing
  <2>7. ASSUME NEW o \in S PROVE Size(o) <= Size(d)
    <3>1. Max - Size(o) \in Missing
      BY DEF Missing
    <3>2. ~(Max - Size(o) < Max - Size(d))
      BY <2>5, <2>6, <3>1
    <3> QED
      BY <1>3, <2>2, <2>3, <3>2
  <2>8. ASSUME NEW o \in S \ {d}, d \in t[o] PROVE FALSE
    <3>1. o \in g.blocks /\ d \in g.blocks /\ Dominates(g, d, o)
      BY <1>1, <1>3, <2>6, <2>8
    <3>2. t[d] \subseteq t[o]
      BY <1>1, <3>1, Transitive
    <3>3. o \notin t[d]
      BY <1>1, <2>8, <3>1, Antisymmetric
    <3>4. o \in t[o]
      BY <1>1, <3>1 DEF Dominates
    <3>5. t[d] # t[o]
      BY <3>3, <3>4
    <3>6. Size(d) < Size(o)
      <4>1. Cardinality(t[d]) <= Cardinality(t[o]) /\ (Cardinality(t[d]) = Cardinality(t[o]) => t[d] = t[o])
        BY <2>2, <3>1, <3>2, FS_Subset
      <4> QED
        BY <2>2, <3>1, <3>5, <4>1 DEF Size
    <3> QED
      BY <2>2, <2>7, <2>8, <3>1, <3>6
  <2> QED
    BY <1>4, <2>6, <2>8
<1>7. PICK d : D!Candidates(t, n) = {d}
  BY <1>5, <1>6
<1> QED
  BY <1>7, FS_Singleton

-----------------------------------------------------------------------------
BlockSets(c) == SUBSET c.blocks

DomsP ==
  INSTANCE LeastSolution WITH Cfgs <- Graphs, Direction <- "Forwards",
    FlowBlock <- D!FlowBlock, Combine <- D!Combine, InitIn <- D!InitIn, InitOut <- D!InitOut,
    Facts <- BlockSets, Leq <- Larger

PostDomsP ==
  INSTANCE LeastSolution WITH Cfgs <- Graphs, Direction <- "Backwards",
    FlowBlock <- PD!FlowBlock, Combine <- PD!Combine, InitIn <- PD!InitIn, InitOut <- PD!InitOut,
    Facts <- BlockSets, Leq <- Larger

-----------------------------------------------------------------------------
\* The analyses.

\* A graph as either analysis sees it.
DomGraph(c)     == [blocks |-> c.blocks, root |-> c.entry, edges |-> c.succs, joining |-> c.preds]
PostDomGraph(c) == [blocks |-> c.blocks, root |-> c.exit, edges |-> c.preds, joining |-> c.succs]

\* An instance of a module has operators of its own, which are the same.
LEMMA SameFinite ==
  ASSUME NEW S
  PROVE  /\ DomsP!IsFiniteSet(S) <=> IsFiniteSet(S)
         /\ PostDomsP!IsFiniteSet(S) <=> IsFiniteSet(S)
BY DEF IsFiniteSet, DomsP!IsFiniteSet, PostDomsP!IsFiniteSet

\* The instances of the module of the analysis speak of the same paths.
LEMMA SameReached ==
  ASSUME NEW from, NEW next
  PROVE  /\ D!ReachedFrom(from, next) = ReachedFrom(from, next)
         /\ PD!ReachedFrom(from, next) = ReachedFrom(from, next)
BY DEF ReachedFrom, D!ReachedFrom, PD!ReachedFrom, Cardinality, D!Cardinality, PD!Cardinality,
       IsFiniteSet, D!IsFiniteSet, PD!IsFiniteSet

\* The graphs of the analysis are such as the code generator may build,
LEMMA GraphIsProper ==
  ASSUME NEW c \in Graphs
  PROVE  IsProper(c)
<1>1. /\ IsProper(c)
      /\ D!ReachedFrom({c.entry}, c.succs) = c.blocks
      /\ D!ReachedFrom({c.exit}, c.preds) = c.blocks
  BY GraphsAssumption
<1> QED
  BY <1>1

\* and are flow graphs from the entry and, backwards, from the exit.
LEMMA FlowGraphs ==
  ASSUME NEW c \in Graphs
  PROVE  /\ IsFlowGraph(DomGraph(c)) /\ AllReached(DomGraph(c))
         /\ IsFlowGraph(PostDomGraph(c)) /\ AllReached(PostDomGraph(c))
<1>1. /\ IsProper(c)
      /\ D!ReachedFrom({c.entry}, c.succs) = c.blocks
      /\ D!ReachedFrom({c.exit}, c.preds) = c.blocks
  BY GraphsAssumption
<1>2. IsFlowGraph(DomGraph(c)) /\ IsFlowGraph(PostDomGraph(c))
  BY <1>1 DEF IsFlowGraph, DomGraph, PostDomGraph, IsProper
<1>3. AllReached(DomGraph(c)) /\ AllReached(PostDomGraph(c))
  BY <1>1, SameReached DEF AllReached, DomGraph, PostDomGraph
<1> QED
  BY <1>2, <1>3

\* The dominators of dominators.rs, in either direction, are an analysis of the
\* kind that the solver solves.
LEMMA DomsAssumptions ==
  /\ DomsP!DirectionAssumption /\ DomsP!CfgsAssumption /\ DomsP!InitFactsAssumption
  /\ DomsP!OrderAssumption /\ DomsP!CombineAssumption /\ DomsP!FlowAssumption
  /\ DomsP!StartAssumption
<1>1. DomsP!DirectionAssumption
  BY DEF DomsP!DirectionAssumption
<1>2. DomsP!CfgsAssumption
  <2>1. ASSUME NEW c \in Graphs
        PROVE  /\ DomsP!IsFiniteSet(c.blocks)
               /\ c.preds \in [c.blocks -> SUBSET c.blocks]
               /\ c.succs \in [c.blocks -> SUBSET c.blocks]
               /\ DomsP!IsValid(c)
    <3>1. IsProper(c)
      BY GraphIsProper
    <3>2. DomsP!IsFiniteSet(c.blocks)
      BY <3>1, SameFinite DEF IsProper
    <3> QED
      BY <3>1, <3>2 DEF DomsP!IsValid, IsProper
  <2> QED
    BY <2>1 DEF DomsP!CfgsAssumption
<1>3. DomsP!InitFactsAssumption
  BY DEF DomsP!InitFactsAssumption, D!InitIn, D!InitOut
<1>4. DomsP!OrderAssumption
  BY DEF DomsP!OrderAssumption, Larger
<1>5. ASSUME NEW c \in Graphs, NEW F \in (SUBSET BlockSets(c)) \ {{}}
      PROVE  /\ D!Combine(F) \in BlockSets(c)
             /\ \A u \in BlockSets(c) : Larger(D!Combine(F), u) <=> \A f \in F : Larger(f, u)
  BY DEF D!Combine, BlockSets, Larger
<1>6. DomsP!CombineAssumption
  BY <1>5 DEF DomsP!CombineAssumption
<1>7. DomsP!FlowAssumption
  BY DEF DomsP!FlowAssumption, D!FlowBlock, BlockSets, Larger
<1>8. ASSUME NEW c \in Graphs, NEW b \in c.blocks
      PROVE  /\ D!InitIn(c)[b] \in BlockSets(c)
             /\ c.preds[b] = {} => Larger(D!InitIn(c)[b], D!FlowBlock(c, b, D!InitIn(c)[b]))
             /\ c.preds[b] # {} =>
                  \A f \in BlockSets(c) : Larger(D!InitIn(c)[b], D!FlowBlock(c, b, f))
  <2>1. c.preds[c.entry] = {}
    BY GraphIsProper DEF IsProper
  <2>2. D!InitIn(c)[b] = IF b = c.entry THEN {b} ELSE c.blocks
    BY DEF D!InitIn, D!RootOf
  <2> QED
    BY <2>1, <2>2 DEF D!FlowBlock, BlockSets, Larger
<1>9. DomsP!StartAssumption
  BY <1>8 DEF DomsP!StartAssumption, DomsP!Own, DomsP!Start, DomsP!Sources, D!InitOut
<1> QED
  BY <1>1, <1>2, <1>3, <1>4, <1>6, <1>7, <1>9

\* The analysis of post-dominators meets the assumptions of the solver's theorems.
LEMMA PostDomsAssumptions ==
  /\ PostDomsP!DirectionAssumption /\ PostDomsP!CfgsAssumption /\ PostDomsP!InitFactsAssumption
  /\ PostDomsP!OrderAssumption /\ PostDomsP!CombineAssumption /\ PostDomsP!FlowAssumption
  /\ PostDomsP!StartAssumption
<1>1. PostDomsP!DirectionAssumption
  BY DEF PostDomsP!DirectionAssumption
<1>2. PostDomsP!CfgsAssumption
  <2>1. ASSUME NEW c \in Graphs
        PROVE  /\ PostDomsP!IsFiniteSet(c.blocks)
               /\ c.preds \in [c.blocks -> SUBSET c.blocks]
               /\ c.succs \in [c.blocks -> SUBSET c.blocks]
               /\ PostDomsP!IsValid(c)
    <3>1. IsProper(c)
      BY GraphIsProper
    <3>2. PostDomsP!IsFiniteSet(c.blocks)
      BY <3>1, SameFinite DEF IsProper
    <3> QED
      BY <3>1, <3>2 DEF PostDomsP!IsValid, IsProper
  <2> QED
    BY <2>1 DEF PostDomsP!CfgsAssumption
<1>3. PostDomsP!InitFactsAssumption
  BY DEF PostDomsP!InitFactsAssumption, PD!InitIn, PD!InitOut
<1>4. PostDomsP!OrderAssumption
  BY DEF PostDomsP!OrderAssumption, Larger
<1>5. ASSUME NEW c \in Graphs, NEW F \in (SUBSET BlockSets(c)) \ {{}}
      PROVE  /\ PD!Combine(F) \in BlockSets(c)
             /\ \A u \in BlockSets(c) : Larger(PD!Combine(F), u) <=> \A f \in F : Larger(f, u)
  BY DEF PD!Combine, BlockSets, Larger
<1>6. PostDomsP!CombineAssumption
  BY <1>5 DEF PostDomsP!CombineAssumption
<1>7. PostDomsP!FlowAssumption
  BY DEF PostDomsP!FlowAssumption, PD!FlowBlock, BlockSets, Larger
<1>8. ASSUME NEW c \in Graphs, NEW b \in c.blocks
      PROVE  /\ PD!InitIn(c)[b] \in BlockSets(c)
             /\ c.succs[b] = {} => Larger(PD!InitIn(c)[b], PD!FlowBlock(c, b, PD!InitIn(c)[b]))
             /\ c.succs[b] # {} =>
                  \A f \in BlockSets(c) : Larger(PD!InitIn(c)[b], PD!FlowBlock(c, b, f))
  <2>1. c.succs[c.exit] = {}
    BY GraphIsProper DEF IsProper
  <2>2. PD!InitIn(c)[b] = IF b = c.exit THEN {b} ELSE c.blocks
    BY DEF PD!InitIn, PD!RootOf
  <2> QED
    BY <2>1, <2>2 DEF PD!FlowBlock, BlockSets, Larger
<1>9. PostDomsP!StartAssumption
  BY <1>8 DEF PostDomsP!StartAssumption, PostDomsP!Own, PostDomsP!Start, PostDomsP!Sources, PD!InitOut
<1> QED
  BY <1>1, <1>2, <1>3, <1>4, <1>6, <1>7, <1>9

\* The solver of the analysis is the solver of the theorems,
LEMMA SameDoms == (Doms!Init <=> DomsP!Init) /\ (Doms!Next <=> DomsP!Next)
<1>1. ASSUME NEW S PROVE Doms!Listings(S) = DomsP!Listings(S)
  BY DEF Doms!Listings, Doms!Bijection, Doms!Injection, Doms!Surjection, Doms!IsInjective,
         Doms!Cardinality, Doms!IsFiniteSet, DomsP!Listings, DomsP!Bijection, DomsP!Injection,
         DomsP!Surjection, DomsP!IsInjective, DomsP!Cardinality, DomsP!IsFiniteSet
<1>2. ASSUME NEW N PROVE Doms!Push(N) <=> DomsP!Push(N)
  BY <1>1, Zenon DEF Doms!Push, Doms!Range, Doms!Popped, DomsP!Push, DomsP!Range, DomsP!Popped
<1>3. Doms!Init <=> DomsP!Init
  BY <1>1 DEF Doms!Init, DomsP!Init
<1>4. Doms!StepForwards <=> DomsP!StepForwards
  BY <1>2 DEF Doms!StepForwards, Doms!Top, Doms!Joined,
              DomsP!StepForwards, DomsP!Top, DomsP!Joined
<1>5. Doms!StepBackwards <=> DomsP!StepBackwards
  BY <1>2 DEF Doms!StepBackwards, Doms!Top, Doms!Joined,
              DomsP!StepBackwards, DomsP!Top, DomsP!Joined
<1> QED
  BY <1>3, <1>4, <1>5 DEF Doms!Next, Doms!Step, DomsP!Next, DomsP!Step

\* and so it is for post-dominators.
LEMMA SamePostDoms == (PostDoms!Init <=> PostDomsP!Init) /\ (PostDoms!Next <=> PostDomsP!Next)
<1>1. ASSUME NEW S PROVE PostDoms!Listings(S) = PostDomsP!Listings(S)
  BY DEF PostDoms!Listings, PostDoms!Bijection, PostDoms!Injection, PostDoms!Surjection, PostDoms!IsInjective,
         PostDoms!Cardinality, PostDoms!IsFiniteSet, PostDomsP!Listings, PostDomsP!Bijection, PostDomsP!Injection,
         PostDomsP!Surjection, PostDomsP!IsInjective, PostDomsP!Cardinality, PostDomsP!IsFiniteSet
<1>2. ASSUME NEW N PROVE PostDoms!Push(N) <=> PostDomsP!Push(N)
  BY <1>1, Zenon DEF PostDoms!Push, PostDoms!Range, PostDoms!Popped, PostDomsP!Push, PostDomsP!Range, PostDomsP!Popped
<1>3. PostDoms!Init <=> PostDomsP!Init
  BY <1>1 DEF PostDoms!Init, PostDomsP!Init
<1>4. PostDoms!StepForwards <=> PostDomsP!StepForwards
  BY <1>2 DEF PostDoms!StepForwards, PostDoms!Top, PostDoms!Joined,
              PostDomsP!StepForwards, PostDomsP!Top, PostDomsP!Joined
<1>5. PostDoms!StepBackwards <=> PostDomsP!StepBackwards
  BY <1>2 DEF PostDoms!StepBackwards, PostDoms!Top, PostDoms!Joined,
              PostDomsP!StepBackwards, PostDomsP!Top, PostDomsP!Joined
<1> QED
  BY <1>3, <1>4, <1>5 DEF PostDoms!Next, PostDoms!Step, PostDomsP!Next, PostDomsP!Step

\* While dominators are analysed, the invariant of the solver holds;
LEMMA DomsInvariant == Spec => [](analysis = "dominators" => DomsP!SolverInv)
<1>1. Init => (analysis = "dominators" => DomsP!SolverInv)
  <2> SUFFICES ASSUME Init, analysis = "dominators" PROVE DomsP!SolverInv
    OBVIOUS
  <2>1. DomsP!Init
    BY SameDoms DEF Init
  <2>2. DomsP!Init => DomsP!SolverInv
    BY DomsAssumptions, DomsP!SolverInvInit, Zenon
  <2> QED
    BY <2>1, <2>2
<1>2. /\ analysis = "dominators" => DomsP!SolverInv
      /\ [Next]_vars
      => (analysis = "dominators" => DomsP!SolverInv)'
  <2> SUFFICES ASSUME analysis = "dominators" => DomsP!SolverInv, [Next]_vars, analysis' = "dominators"
               PROVE  DomsP!SolverInv'
    OBVIOUS
  <2>1. analysis = "dominators" /\ [DomsP!Next]_(DomsP!vars)
    BY SameDoms DEF Next, vars, DomsP!vars
  <2>2. DomsP!SolverInv /\ [DomsP!Next]_(DomsP!vars) => DomsP!SolverInv'
    BY DomsAssumptions, DomsP!SolverInvNext, Zenon
  <2> QED
    BY <2>1, <2>2
<1> QED
  BY <1>1, <1>2, PTL DEF Spec

\* so, when it is done, it has the solution.
LEMMA DomsSolved == (analysis = "dominators" => DomsP!SolverInv) /\ Answered("dominators") => DomsP!Solved
<1> SUFFICES ASSUME DomsP!SolverInv, Done PROVE DomsP!Solved
  BY DEF Answered
<1>1. DomsP!Done
  BY DEF Done, DomsP!Done
<1> QED
  BY <1>1, DomsAssumptions, DomsP!SolvedWhenDone, Zenon

\* While post-dominators are analysed, the invariant of the solver holds;
LEMMA PostDomsInvariant == Spec => [](analysis = "post-dominators" => PostDomsP!SolverInv)
<1>1. Init => (analysis = "post-dominators" => PostDomsP!SolverInv)
  <2> SUFFICES ASSUME Init, analysis = "post-dominators" PROVE PostDomsP!SolverInv
    OBVIOUS
  <2>1. PostDomsP!Init
    BY SamePostDoms DEF Init
  <2>2. PostDomsP!Init => PostDomsP!SolverInv
    BY PostDomsAssumptions, PostDomsP!SolverInvInit, Zenon
  <2> QED
    BY <2>1, <2>2
<1>2. /\ analysis = "post-dominators" => PostDomsP!SolverInv
      /\ [Next]_vars
      => (analysis = "post-dominators" => PostDomsP!SolverInv)'
  <2> SUFFICES ASSUME analysis = "post-dominators" => PostDomsP!SolverInv, [Next]_vars, analysis' = "post-dominators"
               PROVE  PostDomsP!SolverInv'
    OBVIOUS
  <2>1. analysis = "post-dominators" /\ [PostDomsP!Next]_(PostDomsP!vars)
    BY SamePostDoms DEF Next, vars, PostDomsP!vars
  <2>2. PostDomsP!SolverInv /\ [PostDomsP!Next]_(PostDomsP!vars) => PostDomsP!SolverInv'
    BY PostDomsAssumptions, PostDomsP!SolverInvNext, Zenon
  <2> QED
    BY <2>1, <2>2
<1> QED
  BY <1>1, <1>2, PTL DEF Spec

\* so, when it is done, it has the solution.
LEMMA PostDomsSolved == (analysis = "post-dominators" => PostDomsP!SolverInv) /\ Answered("post-dominators") => PostDomsP!Solved
<1> SUFFICES ASSUME PostDomsP!SolverInv, Done PROVE PostDomsP!Solved
  BY DEF Answered
<1>1. PostDomsP!Done
  BY DEF Done, PostDomsP!Done
<1> QED
  BY <1>1, PostDomsAssumptions, PostDomsP!SolvedWhenDone, Zenon

\* The equations of dominance are those the solver solves for dominators.
LEMMA DomsEquations ==
  ASSUME NEW c \in Graphs, NEW t
  PROVE  Solves(DomGraph(c), t) <=> DomsP!IsSolution(c, t)
<1> DEFINE g == DomGraph(c)
<1>1. DomsP!FactMaps(c) = [g.blocks -> SUBSET g.blocks] /\ g.blocks = c.blocks
  BY DEF DomsP!FactMaps, BlockSets, DomGraph
<1>2. g.joining = DomsP!Sources(c) /\ Start(g) = DomsP!Own(c)
  BY DEF DomsP!Sources, DomsP!Own, Start, DomGraph, D!InitIn, D!InitOut, D!RootOf
<1> HIDE DEF g
<1>3. ASSUME NEW b
      PROVE  D!FlowBlock(g, b, IF g.joining[b] # {} THEN D!Combine({t[a] : a \in g.joining[b]})
                               ELSE Start(g)[b])
               = D!FlowBlock(c, b, DomsP!Joined(DomsP!Sources(c)[b], t, DomsP!Own(c)[b]))
  BY <1>2 DEF D!FlowBlock, D!Combine, D!FlowBlock, D!Combine, DomsP!Joined
<1>4. Solves(g, t) <=> DomsP!IsSolution(c, t)
  BY <1>1, <1>3, Zenon DEF Solves, DomsP!IsSolution
<1> QED
  BY <1>4 DEF g

\* The solver ends with the blocks that dominate each block.
LEMMA DomsFound ==
  ASSUME analysis = "dominators" => DomsP!SolverInv, Answered("dominators")
  PROVE  cfg \in Graphs /\ AreDominators(DomGraph(cfg), doms)
<1>1. DomsP!Solved
  BY DomsSolved
<1>2. doms = DomsP!Travelling
  BY DEF doms, DomsP!Travelling, Answered
<1>3. cfg \in Graphs /\ DomsP!IsSolution(cfg, doms) /\ DomsP!BelowEverySolution
  BY <1>1, <1>2 DEF DomsP!Solved
<1>4. ASSUME NEW u, Solves(DomGraph(cfg), u)
      PROVE  \A b \in cfg.blocks : u[b] \subseteq doms[b]
  <2>1. DomsP!IsSolution(cfg, u)
    BY <1>3, <1>4, DomsEquations
  <2>2. u \in DomsP!FactMaps(cfg)
    BY <2>1 DEF DomsP!IsSolution
  <2> QED
    BY <1>2, <1>3, <2>1, <2>2 DEF DomsP!BelowEverySolution, Larger
<1>5. Solves(DomGraph(cfg), doms) /\ IsFlowGraph(DomGraph(cfg))
  BY <1>3, DomsEquations, FlowGraphs
<1>6. DomGraph(cfg).blocks = cfg.blocks
  BY DEF DomGraph
<1> QED
  BY <1>3, <1>4, <1>5, <1>6, GreatestIsExact

\* Dominance as Dominance.tla defines it is dominance in the graph from the entry.
LEMMA SameD == \A c, d, n : D!Dominates(c, d, n) <=> Dominates(DomGraph(c), d, n)
<1>1. ASSUME NEW c, NEW d PROVE D!ReachedWithout(c, d) = ReachedWithout(DomGraph(c), d)
  BY SameReached DEF D!ReachedWithout, ReachedWithout, D!Edges, D!RootOf, DomGraph
<1> QED
  BY <1>1 DEF D!Dominates, Dominates

\* When the solver is done with dominators, its sets are those of the definition.
LEMMA DomsExact ==
  ASSUME analysis = "dominators" => DomsP!SolverInv, Answered("dominators")
  PROVE  /\ \A d, n \in cfg.blocks : d \in doms[n] <=> D!Dominates(cfg, d, n)
         /\ \A n \in cfg.blocks \ {cfg.entry} : Cardinality(D!Candidates(doms, n)) = 1
<1>1. cfg \in Graphs /\ AreDominators(DomGraph(cfg), doms)
  BY DomsFound
<1>2. DomGraph(cfg).blocks = cfg.blocks /\ DomGraph(cfg).root = cfg.entry
  BY DEF DomGraph
<1>3. \A d, n \in cfg.blocks : d \in doms[n] <=> D!Dominates(cfg, d, n)
  BY <1>1, <1>2, SameD DEF AreDominators
<1>4. IsFlowGraph(DomGraph(cfg)) /\ AllReached(DomGraph(cfg))
  BY <1>1, FlowGraphs
<1>5. \A n \in cfg.blocks \ {cfg.entry} : Cardinality(D!Candidates(doms, n)) = 1
  BY <1>1, <1>2, <1>4, OneCandidate
<1> QED
  BY <1>3, <1>5, SameD

\* The equations of dominance are those the solver solves for post-dominators.
LEMMA PostDomsEquations ==
  ASSUME NEW c \in Graphs, NEW t
  PROVE  Solves(PostDomGraph(c), t) <=> PostDomsP!IsSolution(c, t)
<1> DEFINE g == PostDomGraph(c)
<1>1. PostDomsP!FactMaps(c) = [g.blocks -> SUBSET g.blocks] /\ g.blocks = c.blocks
  BY DEF PostDomsP!FactMaps, BlockSets, PostDomGraph
<1>2. g.joining = PostDomsP!Sources(c) /\ Start(g) = PostDomsP!Own(c)
  BY DEF PostDomsP!Sources, PostDomsP!Own, Start, PostDomGraph, PD!InitIn, PD!InitOut, PD!RootOf
<1> HIDE DEF g
<1>3. ASSUME NEW b
      PROVE  D!FlowBlock(g, b, IF g.joining[b] # {} THEN D!Combine({t[a] : a \in g.joining[b]})
                               ELSE Start(g)[b])
               = PD!FlowBlock(c, b, PostDomsP!Joined(PostDomsP!Sources(c)[b], t, PostDomsP!Own(c)[b]))
  BY <1>2 DEF D!FlowBlock, D!Combine, PD!FlowBlock, PD!Combine, PostDomsP!Joined
<1>4. Solves(g, t) <=> PostDomsP!IsSolution(c, t)
  BY <1>1, <1>3, Zenon DEF Solves, PostDomsP!IsSolution
<1> QED
  BY <1>4 DEF g

\* The solver ends with the blocks that dominate each block.
LEMMA PostDomsFound ==
  ASSUME analysis = "post-dominators" => PostDomsP!SolverInv, Answered("post-dominators")
  PROVE  cfg \in Graphs /\ AreDominators(PostDomGraph(cfg), doms)
<1>1. PostDomsP!Solved
  BY PostDomsSolved
<1>2. doms = PostDomsP!Travelling
  BY DEF doms, PostDomsP!Travelling, Answered
<1>3. cfg \in Graphs /\ PostDomsP!IsSolution(cfg, doms) /\ PostDomsP!BelowEverySolution
  BY <1>1, <1>2 DEF PostDomsP!Solved
<1>4. ASSUME NEW u, Solves(PostDomGraph(cfg), u)
      PROVE  \A b \in cfg.blocks : u[b] \subseteq doms[b]
  <2>1. PostDomsP!IsSolution(cfg, u)
    BY <1>3, <1>4, PostDomsEquations
  <2>2. u \in PostDomsP!FactMaps(cfg)
    BY <2>1 DEF PostDomsP!IsSolution
  <2> QED
    BY <1>2, <1>3, <2>1, <2>2 DEF PostDomsP!BelowEverySolution, Larger
<1>5. Solves(PostDomGraph(cfg), doms) /\ IsFlowGraph(PostDomGraph(cfg))
  BY <1>3, PostDomsEquations, FlowGraphs
<1>6. PostDomGraph(cfg).blocks = cfg.blocks
  BY DEF PostDomGraph
<1> QED
  BY <1>3, <1>4, <1>5, <1>6, GreatestIsExact

\* Dominance as Dominance.tla defines it is, backwards, dominance in the graph from
\* the exit.
LEMMA SamePD ==
  /\ \A c, d, n : PD!Dominates(c, d, n) <=> Dominates(PostDomGraph(c), d, n)
  /\ \A t, n : PD!Candidates(t, n) = D!Candidates(t, n)
<1>1. ASSUME NEW c, NEW d PROVE PD!ReachedWithout(c, d) = ReachedWithout(PostDomGraph(c), d)
  BY SameReached DEF PD!ReachedWithout, ReachedWithout, PD!Edges, PD!RootOf, PostDomGraph
<1>2. ASSUME NEW t, NEW n PROVE PD!Candidates(t, n) = D!Candidates(t, n)
  BY DEF D!Candidates, PD!Candidates, D!StrictDoms, PD!StrictDoms
<1> QED
  BY <1>1, <1>2 DEF PD!Dominates, Dominates

\* When the solver is done with post-dominators, its sets are those of the definition.
LEMMA PostDomsExact ==
  ASSUME analysis = "post-dominators" => PostDomsP!SolverInv, Answered("post-dominators")
  PROVE  /\ \A d, n \in cfg.blocks : d \in doms[n] <=> PD!Dominates(cfg, d, n)
         /\ \A n \in cfg.blocks \ {cfg.exit} : Cardinality(PD!Candidates(doms, n)) = 1
<1>1. cfg \in Graphs /\ AreDominators(PostDomGraph(cfg), doms)
  BY PostDomsFound
<1>2. PostDomGraph(cfg).blocks = cfg.blocks /\ PostDomGraph(cfg).root = cfg.exit
  BY DEF PostDomGraph
<1>3. \A d, n \in cfg.blocks : d \in doms[n] <=> PD!Dominates(cfg, d, n)
  BY <1>1, <1>2, SamePD DEF AreDominators
<1>4. IsFlowGraph(PostDomGraph(cfg)) /\ AllReached(PostDomGraph(cfg))
  BY <1>1, FlowGraphs
<1>5. \A n \in cfg.blocks \ {cfg.exit} : Cardinality(D!Candidates(doms, n)) = 1
  BY <1>1, <1>2, <1>4, OneCandidate
<1> QED
  BY <1>3, <1>5, SamePD

\* compute_dominators and compute_post_dominators find what their definition
\* says, on every graph.
THEOREM DominatorsAreExact == Spec => []DominatorsExact
<1>1. /\ analysis = "dominators" => DomsP!SolverInv
      /\ analysis = "post-dominators" => PostDomsP!SolverInv
      => DominatorsExact
  BY DomsExact, PostDomsExact DEF DominatorsExact
<1> QED
  BY <1>1, DomsInvariant, PostDomsInvariant, PTL

\* The expect of immediate_dominators never fails, and what it takes first is all
\* there is to take.
THEOREM ImmediateDominatorIsUnique == Spec => []OneImmediateDominator
<1>1. /\ analysis = "dominators" => DomsP!SolverInv
      /\ analysis = "post-dominators" => PostDomsP!SolverInv
      => OneImmediateDominator
  BY DomsExact, PostDomsExact DEF OneImmediateDominator
<1> QED
  BY <1>1, DomsInvariant, PostDomsInvariant, PTL
=============================================================================
