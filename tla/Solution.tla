------------------------------ MODULE Solution ------------------------------
(***************************************************************************)
(* The facts an analysis ends with, as a value: what the passes get from      *)
(* `solver.solve(); solver.into_results()`.  Blocks are evaluated in sweeps   *)
(* until nothing changes.  That any order ends in the same facts is the        *)
(* subject of LeastSolution and of MCAnalyses!OneAnswer.                 *)
(***************************************************************************)
EXTENDS Dataflow

LOCAL Sweep(c, facts) ==
  IF Direction = "Forwards"
  THEN LET in == [b \in c.blocks |-> Joined(c.preds[b], facts.out, facts.in[b])]
       IN  [in |-> in, out |-> [b \in c.blocks |-> FlowBlock(c, b, in[b])]]
  ELSE LET out == [b \in c.blocks |-> Joined(c.succs[b], facts.in, facts.out[b])]
       IN  [out |-> out, in |-> [b \in c.blocks |-> FlowBlock(c, b, out[b])]]

RECURSIVE Stable(_,_)
Stable(c, facts) ==
  LET next == Sweep(c, facts) IN IF next = facts THEN facts ELSE Stable(c, next)

Facts(c) == Stable(c, [in |-> InitIn(c), out |-> InitOut(c)])
=============================================================================
