-------------------------- MODULE ChaoticIteration --------------------------
(***************************************************************************)
(* What the worklist solver promises, without its worklist: facts change    *)
(* only by evaluating one block, any pending block may be evaluated next,    *)
(* and a block is pending again when a fact it reads has changed.            *)
(* Solver.tla, which follows the code, is shown to implement this module.    *)
(***************************************************************************)
EXTENDS Dataflow

VARIABLES
  cfg,        \* the graph being analysed
  in_facts,   \* block -> fact at its start
  out_facts,  \* block -> fact at its end
  pending     \* the blocks whose facts may be out of date

vars == <<cfg, in_facts, out_facts, pending>>

Init ==
  /\ cfg \in Cfgs
  /\ in_facts = InitIn(cfg)
  /\ out_facts = InitOut(cfg)
  /\ pending = cfg.blocks

EvaluateForwards(b) ==
  LET new_in  == Joined(cfg.preds[b], out_facts, in_facts[b])
      new_out == FlowBlock(cfg, b, new_in)
  IN  /\ in_facts'  = [in_facts EXCEPT ![b] = new_in]
      /\ out_facts' = [out_facts EXCEPT ![b] = new_out]
      /\ pending'   = (pending \ {b}) \cup
                        IF new_out # out_facts[b] THEN cfg.succs[b] ELSE {}

EvaluateBackwards(b) ==
  LET new_out == Joined(cfg.succs[b], in_facts, out_facts[b])
      new_in  == FlowBlock(cfg, b, new_out)
  IN  /\ out_facts' = [out_facts EXCEPT ![b] = new_out]
      /\ in_facts'  = [in_facts EXCEPT ![b] = new_in]
      /\ pending'   = (pending \ {b}) \cup
                        IF new_in # in_facts[b] THEN cfg.preds[b] ELSE {}

Evaluate(b) ==
  /\ b \in pending
  /\ \/ Direction = "Forwards"  /\ EvaluateForwards(b)
     \/ Direction = "Backwards" /\ EvaluateBackwards(b)
  /\ UNCHANGED cfg

Next == \E b \in pending : Evaluate(b)

Spec == Init /\ [][Next]_vars
=============================================================================
