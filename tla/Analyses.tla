------------------------------ MODULE Analyses ------------------------------
(***************************************************************************)
(* The one solver, run on each of the analyses the compiler has.  A behaviour *)
(* picks an analysis and a graph and solves it; the properties say what the   *)
(* answer means for that analysis.                                           *)
(***************************************************************************)
EXTENDS Integers, FiniteSets, Sequences

CONSTANTS
  ScalarCfgs,   \* graphs for liveness, reaching definitions and copies,
  PointerCfgs,  \* for pointer analysis,
  Graphs        \* and for (post-)dominators, which read no instruction

VARIABLES analysis, cfg, in_facts, out_facts, worklist

vars == <<analysis, cfg, in_facts, out_facts, worklist>>

L  == INSTANCE Liveness
R  == INSTANCE Reaching
A  == INSTANCE Copies
P  == INSTANCE Pointers
D  == INSTANCE Dominance WITH Direction <- "Forwards"
PD == INSTANCE Dominance WITH Direction <- "Backwards"

Live     == INSTANCE Solver WITH Cfgs <- ScalarCfgs, Direction <- L!Direction,
              FlowBlock <- L!FlowBlock, Combine <- L!Combine, InitIn <- L!InitIn, InitOut <- L!InitOut
Reach    == INSTANCE Solver WITH Cfgs <- ScalarCfgs, Direction <- R!Direction,
              FlowBlock <- R!FlowBlock, Combine <- R!Combine, InitIn <- R!InitIn, InitOut <- R!InitOut
Avail    == INSTANCE Solver WITH Cfgs <- ScalarCfgs, Direction <- A!Direction,
              FlowBlock <- A!FlowBlock, Combine <- A!Combine, InitIn <- A!InitIn, InitOut <- A!InitOut
Ptr      == INSTANCE Solver WITH Cfgs <- PointerCfgs, Direction <- P!Direction,
              FlowBlock <- P!FlowBlock, Combine <- P!Combine, InitIn <- P!InitIn, InitOut <- P!InitOut
Doms     == INSTANCE Solver WITH Cfgs <- Graphs, Direction <- "Forwards",
              FlowBlock <- D!FlowBlock, Combine <- D!Combine, InitIn <- D!InitIn, InitOut <- D!InitOut
PostDoms == INSTANCE Solver WITH Cfgs <- Graphs, Direction <- "Backwards",
              FlowBlock <- PD!FlowBlock, Combine <- PD!Combine, InitIn <- PD!InitIn, InitOut <- PD!InitOut

-----------------------------------------------------------------------------
\* What Cfg::new and the code generator see to.

\* The graph is finite and valid (Cfg::validate); the entry block has no label, so
\* no branch leads to it, and the exit block ends in a return.
IsProper(c) ==
  /\ IsFiniteSet(c.blocks)
  /\ c.preds \in [c.blocks -> SUBSET c.blocks]
  /\ c.succs \in [c.blocks -> SUBSET c.blocks]
  /\ \A a, b \in c.blocks : a \in c.preds[b] <=> b \in c.succs[a]
  /\ c.entry \in c.blocks /\ c.preds[c.entry] = {}
  /\ c.exit \in c.blocks /\ c.succs[c.exit] = {}

\* All code is reachable (eliminate_dead_br keeps nothing behind a terminator).
ASSUME GraphsAssumption ==
  \A c \in Graphs :
    /\ IsProper(c)
    /\ D!ReachedFrom({c.entry}, c.succs) = c.blocks
    /\ D!ReachedFrom({c.exit}, c.preds) = c.blocks

\* Besides, the entry block is empty (the body of a function is one block,
\* func_exit, and what follows it), and a copy has a destination.
ASSUME ScalarCfgsAssumption ==
  \A c \in ScalarCfgs :
    /\ IsProper(c)
    /\ L!ReachedFrom({c.entry}, c.succs) = c.blocks
    /\ \A b \in c.blocks : Len(c.code[b]) \in Nat /\ DOMAIN c.code[b] = 1 .. Len(c.code[b])
    /\ c.code[c.entry] = <<>>
    /\ \A b \in c.blocks : \A n \in 1 .. Len(c.code[b]) :
         c.code[b][n].instr.op = "Copy" => 1 \in DOMAIN c.code[b][n].instr.dst

-----------------------------------------------------------------------------

Init ==
  \/ analysis = "liveness"        /\ Live!Init
  \/ analysis = "reaching"        /\ Reach!Init
  \/ analysis = "copies"          /\ Avail!Init
  \/ analysis = "pointers"        /\ Ptr!Init
  \/ analysis = "dominators"      /\ Doms!Init
  \/ analysis = "post-dominators" /\ PostDoms!Init

Next ==
  /\ UNCHANGED analysis
  /\ \/ analysis = "liveness"        /\ Live!Next
     \/ analysis = "reaching"        /\ Reach!Next
     \/ analysis = "copies"          /\ Avail!Next
     \/ analysis = "pointers"        /\ Ptr!Next
     \/ analysis = "dominators"      /\ Doms!Next
     \/ analysis = "post-dominators" /\ PostDoms!Next

Spec == Init /\ [][Next]_vars

\* `while let Some(b) = worklist.pop()` runs until the worklist is empty.
FairSpec == Spec /\ WF_vars(Next)

-----------------------------------------------------------------------------

Done == worklist = <<>>

\* The solver has finished this analysis.
Answered(name) == analysis = name /\ Done

\* Solver::solve returns for every analysis the compiler has, in every order of
\* the worklist.  For pointer analysis (memory.rs), whose flow is not monotone,
\* no general argument says so.
EveryAnalysisStops == <>Done

\* dce keeps every instruction whose result may still be read, and sees every
\* one whose result cannot: when the solver stops, in whatever order it took
\* the blocks, the fact liveness.rs finds after each instruction is the set of
\* variables that may be read from there on.
LivenessExact ==
  Answered("liveness") =>
    \A b \in cfg.blocks : \A n \in DOMAIN cfg.code[b] :
      L!instr_fact(cfg, b, n, out_facts[b]) = L!LiveAt(cfg, <<b, n>>)

\* Constant propagation may trust the use-def chains: the fact reaching.rs finds
\* before each instruction holds every definition that may be the latest one
\* there, and no other.
ReachingExact ==
  Answered("reaching") =>
    \A b \in cfg.blocks : \A n \in DOMAIN cfg.code[b] :
      R!instr_fact(cfg, b, n, in_facts[b]) = R!DefsThatReach(cfg, <<b, n - 1>>)

\* "A copy is available at a program point if on every path from the entry to
\* that point the copy was executed and neither side was assigned afterwards"
\* (copies.rs): exactly these copies are found.
CopiesExact ==
  Answered("copies") =>
    \A b \in cfg.blocks : \A n \in DOMAIN cfg.code[b] :
      A!instr_fact(cfg, b, n, in_facts[b]) = A!Available(cfg, <<b, n - 1>>)

\* "There is at most one pair per dst" (copies.rs): copy_propagation takes
\* whichever pair a HashSet yields first, so there must be no second.
OnePairPerDst ==
  Answered("copies") =>
    \A b \in cfg.blocks : \A n \in DOMAIN cfg.code[b] :
      \A p, q \in A!instr_fact(cfg, b, n, in_facts[b]) : p[1] = q[1] => p = q

\* The facts compute_dominators keeps.
doms == IF analysis = "dominators" THEN out_facts ELSE in_facts

\* The definition at the head of dominators.rs: d dominates n exactly if every
\* path from the entry to n passes through d (post-dominates: from n to the
\* exit), whatever order the solver took the blocks in.
DominatorsExact ==
  /\ Answered("dominators") =>
       \A d, n \in cfg.blocks : d \in doms[n] <=> D!Dominates(cfg, d, n)
  /\ Answered("post-dominators") =>
       \A d, n \in cfg.blocks : d \in doms[n] <=> PD!Dominates(cfg, d, n)

\* "Every Node should have an immediate Dominator!": the expect of
\* immediate_dominators never fails, and the block it finds first is the only
\* one, so reconstruction does not depend on the order of a HashSet.
OneImmediateDominator ==
  /\ Answered("dominators") =>
       \A n \in cfg.blocks \ {cfg.entry} : Cardinality(D!Candidates(doms, n)) = 1
  /\ Answered("post-dominators") =>
       \A n \in cfg.blocks \ {cfg.exit} : Cardinality(PD!Candidates(doms, n)) = 1
=============================================================================
