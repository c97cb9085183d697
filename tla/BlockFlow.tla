------------------------------ MODULE BlockFlow ------------------------------
(***************************************************************************)
(* From instructions to blocks: Solver::flow_block and the two maps of facts  *)
(* per instruction that Solver::into_results builds, for an analysis given    *)
(* by its direction and its flow function.                                   *)
(***************************************************************************)
EXTENDS Integers, Sequences

CONSTANTS
  Direction,
  Flow(_,_,_)   \* graph, fact, labelled instruction

\* The n-th instruction of block b that an analysis comes to.
Visited(c, b, n) ==
  IF Direction = "Forwards" THEN c.code[b][n] ELSE c.code[b][Len(c.code[b]) + 1 - n]

\* What becomes of a fact on the side of block b the solver joins at, its start in
\* a forward analysis and its end in a backward one, after n instructions.
Carried(c, b, fact) ==
  LET carried[n \in 0 .. Len(c.code[b])] ==
        IF n = 0 THEN fact ELSE Flow(c, carried[n - 1], Visited(c, b, n))
  IN  carried

FlowBlock(c, b, fact) == Carried(c, b, fact)[Len(c.code[b])]

\* The fact on the joining side of the n-th instruction of b: before it in a
\* forward analysis (instr_in), after it in a backward one (instr_out).
instr_fact(c, b, n, fact) ==
  Carried(c, b, fact)[IF Direction = "Forwards" THEN n - 1 ELSE Len(c.code[b]) - n]
=============================================================================
