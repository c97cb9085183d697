------------------------------- MODULE Solver -------------------------------
(***************************************************************************)
(* The worklist solver of opt/solver.rs.  `cfg`, `in_facts` and `out_facts`  *)
(* are the fields of struct Solver, `worklist` the local of Solver::solve.   *)
(* One Step is one iteration of its loop.                                    *)
(*                                                                         *)
(* The code fills the worklist from the keys of a HashMap, so its first      *)
(* order is arbitrary; blocks are then pushed in the order of an edge        *)
(* vector.  The model takes every order in both places.                     *)
(***************************************************************************)
EXTENDS Dataflow, Sequences, Functions

VARIABLES cfg, in_facts, out_facts, worklist

vars == <<cfg, in_facts, out_facts, worklist>>

\* All ways to list the elements of a finite set once each.
Listings(S) == Bijection(1 .. Cardinality(S), S)

Queued == Range(worklist)

\* A broken variant, which the properties must reject: the two start maps swapped.
Init_Swapped ==
  /\ cfg \in Cfgs
  /\ in_facts = InitOut(cfg)
  /\ out_facts = InitIn(cfg)
  /\ worklist \in Listings(cfg.blocks)

\* Solver::new and the first line of solve.
Init ==
  /\ cfg \in Cfgs
  /\ in_facts = InitIn(cfg)
  /\ out_facts = InitOut(cfg)
  /\ worklist \in Listings(cfg.blocks)

\* A broken variant: evaluating the first block while removing the last.
Top_First == Head(worklist)

\* `worklist.pop()` takes the last element, and leaves the others.
Top    == worklist[Len(worklist)]
Popped == SubSeq(worklist, 1, Len(worklist) - 1)

\* Broken variants: no `contains` test; nothing pushed; the rest forgotten; the
\* block evaluated not removed.
Push_Unchecked(neighbours) ==
  \E listing \in Listings(neighbours) : worklist' = Popped \o listing

Push_Nothing(neighbours) == worklist' = Popped

Push_Replacing(neighbours) == worklist' \in Listings(neighbours)

Push_Unpopped(neighbours) ==
  \E listing \in Listings(neighbours \ Queued) : worklist' = worklist \o listing

\* `for n in neighbours { if !worklist.contains(n) { worklist.push(n) } }`
Push(neighbours) ==
  \E listing \in Listings(neighbours \ Range(Popped)) :
    worklist' = Popped \o listing

\* The Forwards arm: facts come from the predecessors.
StepForwards ==
  LET b       == Top
      new_in  == Joined(cfg.preds[b], out_facts, in_facts[b])
      new_out == FlowBlock(cfg, b, new_in)
  IN  /\ in_facts'  = [in_facts EXCEPT ![b] = new_in]
      /\ out_facts' = [out_facts EXCEPT ![b] = new_out]
      /\ Push(IF new_out # out_facts[b] THEN cfg.succs[b] ELSE {})

\* The Backwards arm: facts come from the successors.
StepBackwards ==
  LET b       == Top
      new_out == Joined(cfg.succs[b], in_facts, out_facts[b])
      new_in  == FlowBlock(cfg, b, new_out)
  IN  /\ out_facts' = [out_facts EXCEPT ![b] = new_out]
      /\ in_facts'  = [in_facts EXCEPT ![b] = new_in]
      /\ Push(IF new_in # in_facts[b] THEN cfg.preds[b] ELSE {})

Step ==
  /\ worklist # <<>>
  /\ \/ Direction = "Forwards"  /\ StepForwards
     \/ Direction = "Backwards" /\ StepBackwards
  /\ UNCHANGED cfg

Next == Step

Spec == Init /\ [][Next]_vars

\* `while let Some(b) = worklist.pop()` runs until the worklist is empty.
FairSpec == Spec /\ WF_vars(Next)

-----------------------------------------------------------------------------

Done == worklist = <<>>

\* The fact maps have a key for every block, so no lookup in the loop can fail,
\* and the worklist names existing blocks only.
TypeOK ==
  /\ cfg \in Cfgs
  /\ in_facts  = [b \in DOMAIN in_facts |-> in_facts[b]] /\ DOMAIN in_facts = cfg.blocks
  /\ out_facts = [b \in DOMAIN out_facts |-> out_facts[b]] /\ DOMAIN out_facts = cfg.blocks
  /\ worklist \in Seq(cfg.blocks)

\* No block waits twice: the `contains` test keeps the vector no longer than
\* the number of blocks, whatever the order of the pops.
NoDuplicates == IsInjective(worklist)

\* The two facts of block b agree with each other and with its neighbours.
Consistent(b) ==
  \/ /\ Direction = "Forwards"
     /\ in_facts[b] = Joined(cfg.preds[b], out_facts, in_facts[b])
     /\ out_facts[b] = FlowBlock(cfg, b, in_facts[b])
  \/ /\ Direction = "Backwards"
     /\ out_facts[b] = Joined(cfg.succs[b], in_facts, out_facts[b])
     /\ in_facts[b] = FlowBlock(cfg, b, out_facts[b])

\* A block that is not waiting is consistent: pushing only the neighbours on
\* one side, and only when the fact has changed, never leaves a stale block
\* behind.  This is why stopping at the empty worklist is right.
Settled == \A b \in cfg.blocks \ Queued : Consistent(b)

\* The result of solve: a fixed point of the dataflow equations.
FixpointWhenDone == Done => \A b \in cfg.blocks : Consistent(b)

\* Solver::solve returns.
Termination == <>Done

Chaotic == INSTANCE ChaoticIteration WITH pending <- Queued

\* The worklist is one order of evaluating pending blocks.
ImplementsChaotic == Chaotic!Spec
=============================================================================
