------------------------------ MODULE MCSolver ------------------------------
(***************************************************************************)
(* The solver on every graph of NBlocks blocks whose boundary block, 1, has   *)
(* no neighbour on the joining side: it is the entry (no predecessors) of a    *)
(* forward analysis or the exit (no successors) of a backward one.  Each       *)
(* block generates, kills or passes the one fact "f".  Union makes a may       *)
(* analysis of it and intersection a must analysis.                           *)
(***************************************************************************)
EXTENDS LeastSolution

CONSTANT NBlocks

Universe == {"f"}

MCBlocks == 1 .. NBlocks

\* Edges as pairs <<joining block, neighbour>>.
Edges == (MCBlocks \ {1}) \X MCBlocks

Joins(E)  == [b \in MCBlocks |-> {a \in MCBlocks : <<b, a>> \in E}]
Spreads(E) == [b \in MCBlocks |-> {a \in MCBlocks : <<a, b>> \in E}]

Graph(E, e) ==
  [ blocks |-> MCBlocks,
    preds  |-> IF Direction = "Forwards" THEN Joins(E) ELSE Spreads(E),
    succs  |-> IF Direction = "Forwards" THEN Spreads(E) ELSE Joins(E),
    effect |-> e ]

Effects == [MCBlocks -> {"gen", "kill", "pass"}]

AllGraphs == {Graph(E, e) : E \in SUBSET Edges, e \in Effects}

\* TLC evaluates AllGraphs once, but what a CONSTANT stands for at every use.
MCCfgs == AllGraphs

MCFacts(c) == SUBSET Universe

MCFlowBlock(c, b, f) ==
  CASE c.effect[b] = "gen"  -> Universe
    [] c.effect[b] = "kill" -> {}
    [] c.effect[b] = "pass" -> f

Union(facts) == UNION facts

Intersection(facts) == {x \in UNION facts : \A f \in facts : x \in f}

Below(f, g) == f \subseteq g
Above(f, g) == g \subseteq f

AllEmpty(c) == [b \in c.blocks |-> {}]
AllFull(c)  == [b \in c.blocks |-> Universe]
FullAtBoundary(c)  == [b \in c.blocks |-> IF b = 1 THEN Universe ELSE {}]
EmptyAtBoundary(c) == [b \in c.blocks |-> IF b = 1 THEN {} ELSE Universe]
=============================================================================
