----------------------------- MODULE Dominance -----------------------------
(***************************************************************************)
(* DominatorAnalysis (Direction is "Forwards") and PostDominatorAnalysis       *)
(* ("Backwards") of opt/dominators.rs.  The two mirror each other; root is     *)
(* the block both start from.  A fact is a set of blocks.                     *)
(***************************************************************************)
EXTENDS Wtac

CONSTANT Direction

Combine(facts) == {b \in UNION facts : \A fact \in facts : b \in fact}

\* flow and empty_flow alike put the block itself into the fact; flow takes its id
\* from those of the instructions, which number them below 1000 in each block.
FlowBlock(c, b, fact) == fact \cup {b}

RootOf(c) == IF Direction = "Forwards" THEN c.entry ELSE c.exit

\* A broken variant: starting from the bottom.
InitIn_Bottom(c) == [b \in c.blocks |-> {b}]

InitIn(c) == [b \in c.blocks |-> IF b = RootOf(c) THEN {b} ELSE c.blocks]

InitOut(c) == InitIn(c)

StrictDoms(doms, n) == doms[n] \ {n}

\* A broken variant: any strict dominator will do.
Candidates_Any(doms, n) == StrictDoms(doms, n)

\* immediate_dominators takes the first of these its iterator meets.
Candidates(doms, n) ==
  {d \in StrictDoms(doms, n) : \A other \in StrictDoms(doms, n) \ {d} : d \notin doms[other]}

\* The expect of immediate_dominators.
HasImmediate(doms) == \A n \in DOMAIN doms : Cardinality(doms[n]) = 1 \/ Candidates(doms, n) # {}

immediate_dominators(doms) ==
  [n \in DOMAIN doms |-> IF Cardinality(doms[n]) = 1 THEN n
                         ELSE CHOOSE d \in Candidates(doms, n) : TRUE]

-----------------------------------------------------------------------------
\* What a fact means.

Edges(c) == IF Direction = "Forwards" THEN c.succs ELSE c.preds

\* The blocks some path from the root leads to without passing through d.
ReachedWithout(c, d) ==
  ReachedFrom({RootOf(c)} \ {d}, [b \in c.blocks |-> Edges(c)[b] \ {d}])

\* d dominates n: every path from the root to n passes through d.
Dominates(c, d, n) == d = n \/ n \notin ReachedWithout(c, d)
=============================================================================
