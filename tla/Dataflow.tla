------------------------------ MODULE Dataflow ------------------------------
(***************************************************************************)
(* A dataflow problem as the optimizer poses it: the control flow graphs    *)
(* and one implementation of the Rust trait `Analysis` (opt/solver.rs).     *)
(* The solver and its abstraction share this module.                        *)
(*                                                                         *)
(* A CFG is a record.  The fields every analysis needs are                  *)
(*    blocks        the block ids, the keys of Cfg::blocks                  *)
(*    preds, succs  block -> set of blocks; the code keeps vectors without   *)
(*                  duplicates (CfgBuilder::add_edge)                        *)
(* and an analysis reads others (code, entry, exit, ...) through the         *)
(* operators it supplies.                                                   *)
(***************************************************************************)
EXTENDS Integers, FiniteSets

CONSTANTS
  Cfgs,              \* the graphs the solver may be called with
  Direction,         \* Analysis::direction()
  FlowBlock(_,_,_),  \* graph, block, fact: fold of Analysis::flow over the block
  Combine(_),        \* Analysis::combine of a nonempty set of facts
  InitIn(_),         \* Analysis::init_facts(cfg).0: graph -> [block -> fact]
  InitOut(_)         \* Analysis::init_facts(cfg).1

\* Cfg::validate: each edge end exists and each edge is recorded at both ends.
IsValid(c) ==
  /\ \A b \in c.blocks : \A p \in c.preds[b] : p \in c.blocks /\ b \in c.succs[p]
  /\ \A b \in c.blocks : \A s \in c.succs[b] : s \in c.blocks /\ b \in c.preds[s]

ASSUME DirectionAssumption == Direction \in {"Forwards", "Backwards"}

(***************************************************************************)
(* What the solver may assume of a graph: it is finite, and it is valid.     *)
(* The fact maps init_facts returns have a key for every block.              *)
(***************************************************************************)
ASSUME CfgsAssumption ==
  \A c \in Cfgs :
    /\ IsFiniteSet(c.blocks)
    /\ c.preds \in [c.blocks -> SUBSET c.blocks]
    /\ c.succs \in [c.blocks -> SUBSET c.blocks]
    /\ IsValid(c)

ASSUME InitFactsAssumption ==
  \A c \in Cfgs :
    /\ InitIn(c)  = [b \in c.blocks |-> InitIn(c)[b]]
    /\ InitOut(c) = [b \in c.blocks |-> InitOut(c)[b]]

\* The fact at the joining side of block b: the combination of the facts of the
\* neighbours, or, without neighbours (entry or exit), the fact it already has.
Joined(neighbours, facts, own) ==
  IF neighbours # {} THEN Combine({facts[n] : n \in neighbours}) ELSE own
=============================================================================
