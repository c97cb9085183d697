----------------------------- MODULE Optimizer -----------------------------
(***************************************************************************)
(* run_pipeline of opt/optimizer.rs on the CFG of one function: single passes *)
(* in the order given, and groups of passes repeated until none of them       *)
(* reports a change.  Groups give up after MaxIterations                     *)
(* (MAX_FIXPOINT_ITERATIONS).                                               *)
(***************************************************************************)
EXTENDS Machine, PassFacts

CONSTANTS
  Tasks,          \* the CFGs and pipelines to run: [cfg, pipeline]
  Inputs,         \* what a function may be called with: [env, ...]
  Fuel,           \* steps after which a run is given up
  MaxIterations

\* Where a run ends.
RECURSIVE RunFrom(_,_,_,_)
RunFrom(c, input, m, fuel) ==
  IF m.status # "running" \/ fuel = 0 THEN m
  ELSE RunFrom(c, input, Step(c, input, m), fuel - 1)

\* What the rest of the program can tell about a run that came to an end.
Outcome(c, input) ==
  LET m == RunFrom(c, input, Start(c, input), Fuel)
  IN  [ status |-> m.status, log |-> m.log, result |-> m.result,
        globals |-> [g \in c.globals |-> IF m.status = "trapped" THEN 0 ELSE m.env[g]] ]

\* enum PipelineItem
Pass(p)          == [kind |-> "Pass", passes |-> <<p>>]
Fixpoint(passes) == [kind |-> "Fixpoint", passes |-> passes]

\* Pass::ALL and Pipeline::default_full
ALL == <<"cp", "copy", "cf", "dce", "ptr", "stl">>
default_full == <<Fixpoint(ALL)>>

VARIABLES
  cfg,         \* the graph, rewritten in place
  pipeline,    \* the items still to run, the current one first
  position,    \* in the current item, the pass to run next
  changed,     \* whether a pass of this iteration reported a change
  iterations,  \* of the current group
  gave_up,     \* whether a group was stopped before its fixed point
  expected     \* what the function did before optimization, by input

vars == <<cfg, pipeline, position, changed, iterations, gave_up, expected>>

Init ==
  /\ \E task \in Tasks : cfg = task.cfg /\ pipeline = task.pipeline
  /\ position = 1
  /\ changed = FALSE
  /\ iterations = 0
  /\ gave_up = FALSE
  /\ expected = [input \in Inputs |-> Outcome(cfg, input)]

Item == Head(pipeline)

NextItem ==
  /\ pipeline' = Tail(pipeline)
  /\ position' = 1
  /\ changed' = FALSE
  /\ iterations' = 0

RunSingle ==
  /\ pipeline # <<>> /\ Item.kind = "Pass"
  /\ cfg' = RunPass(cfg, Item.passes[1]).cfg
  /\ NextItem
  /\ UNCHANGED <<gave_up, expected>>

RunInGroup ==
  /\ pipeline # <<>> /\ Item.kind = "Fixpoint"
  /\ position <= Len(Item.passes)
  /\ LET result == RunPass(cfg, Item.passes[position])
     IN  /\ cfg' = result.cfg
         /\ changed' = (changed \/ result.changed)
  /\ position' = position + 1
  /\ UNCHANGED <<pipeline, iterations, gave_up, expected>>

EndOfIteration ==
  /\ pipeline # <<>> /\ Item.kind = "Fixpoint"
  /\ position > Len(Item.passes)
  /\ IF changed /\ iterations + 1 < MaxIterations
     THEN /\ position' = 1
          /\ changed' = FALSE
          /\ iterations' = iterations + 1
          /\ UNCHANGED <<pipeline, gave_up>>
     ELSE NextItem /\ gave_up' = (gave_up \/ changed)
  /\ UNCHANGED <<cfg, expected>>

Next == RunSingle \/ RunInGroup \/ EndOfIteration

Spec == Init /\ [][Next]_vars

-----------------------------------------------------------------------------

\* Whether the function came to an end without reading a local that no path to the
\* read has assigned.  Such a local is 0 at run time, which constant propagation
\* does not count among its values; NeverChangesTheMeaning is about these runs.
Defined(outcome) == outcome.status \in {"returned", "trapped"}

\* After every pass, in every pipeline, the function still does what it did:
\* the same stores and calls in the same order, seeing the same globals, the
\* same result, and a trap where there was one.
SameBehaviour ==
  Emittable(cfg) => \A input \in Inputs :
    Defined(expected[input]) => Outcome(cfg, input) = expected[input]

\* No group is stopped by the guard: the passes do not undo each other's work,
\* and none goes on reporting changes when nothing is left to change.
ReachesFixpoint == ~gave_up

\* "wrong result optimised -- the optimiser changed the program's meaning"
\* (compiler_tests.rs): of every run, whatever it reads, and of functions that the
\* emitter, which has no way to assign to an immediate, can no longer print.
NeverChangesTheMeaning ==
  /\ Emittable(cfg)
  /\ \A input \in Inputs : Outcome(cfg, input) = expected[input]
=============================================================================
