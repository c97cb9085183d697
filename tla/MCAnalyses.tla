----------------------------- MODULE MCAnalyses -----------------------------
(***************************************************************************)
(* The analyses on small functions of every shape an if or a while gives.     *)
(***************************************************************************)
EXTENDS Analyses, MCPrograms, TLC

CONSTANT NBlocks  \* of the graphs for dominators

Shapes == {If, While, WhileReturn, IfElse, WhileIf, ThenWhile}

\* Locals x, y and a global g.
ScalarMenu(block) ==
  { <<>>,
    <<Copy(x, g)>>,
    <<Copy(y, x)>>,
    <<Copy(x, y), Copy(g, x)>>,
    <<Copy(y, I64(1))>>,
    <<FCall(<<x>>, "f", <<x>>)>> }

ScalarFunctions == Functions(Shapes, ScalarMenu, <<Return(<<Var("x")>>)>>, {"g"})

\* a = {..} (create_simple_array), a = b, b = a, a = f(), a = bb[0].  The code
\* generator names every temporary freshly, so each block allocates into a
\* temporary of its own.
PointerMenu(block) ==
  LET New  == Var("new" \o ToString(block))
      Data == Var("data" \o ToString(block))
      a == Var("a")
      b == Var("b")
  IN  { <<FCall(<<New>>, "eta_malloc", <<Imm(16, "I32")>>),
          Binary(Data, "Add", New, Imm(8, "I32"), "I32"), Copy(a, Data)>>,
        <<Copy(a, b)>>,
        <<Copy(b, a)>>,
        <<FCall(<<a>>, "f", <<>>)>>,
        <<Copy(a, Mem("bb", 0, "I32"))>> }

PointerFunctions == Functions(Shapes, PointerMenu, <<Return(<<Var("a")>>)>>, {"g"})

\* Every graph of NBlocks blocks with at most two successors per block, an entry
\* without predecessors and an exit without successors, whose blocks all lie on
\* a path from the entry to the exit.
Blocks == 0 .. NBlocks - 1

Graph(targets) ==
  LET succs == [b \in Blocks |-> IF b = Exit THEN {} ELSE targets[b]]
  IN  [ blocks |-> Blocks,
        succs  |-> succs,
        preds  |-> [b \in Blocks |-> {p \in Blocks : b \in succs[p]}],
        entry  |-> Entry,
        exit   |-> Exit ]

Reached(from, edges) ==
  LET reach[k \in Nat] ==
        IF k = 0 THEN {from} ELSE reach[k - 1] \cup UNION {edges[b] : b \in reach[k - 1]}
  IN  reach[NBlocks]

Targets == {T \in SUBSET (Blocks \ {Entry}) : Cardinality(T) \in {1, 2}}

TwoWayGraphs ==
  {graph \in {Graph(targets) : targets \in [Blocks \ {Exit} -> Targets]} :
     Reached(Entry, graph.succs) = Blocks /\ Reached(Exit, graph.preds) = Blocks}

\* What sweeping over the blocks until nothing changes gives.
Swept == INSTANCE Solution WITH Cfgs <- PointerCfgs, Direction <- P!Direction,
           FlowBlock <- P!FlowBlock, Combine <- P!Combine, InitIn <- P!InitIn, InitOut <- P!InitOut

\* pointer_propagation sees the same facts in every run of the compiler.  The flow
\* of PointerAnalysis (memory.rs) is not monotone, so nothing general says so;
\* still, every order of the worklist ends in the same facts.
OneAnswer ==
  Answered("pointers") => [in |-> in_facts, out |-> out_facts] = Swept!Facts(cfg)

\* TLC evaluates a definition once, but what a CONSTANT stands for at every use.
MCScalarCfgs  == ScalarFunctions
MCPointerCfgs == PointerFunctions
MCGraphs      == TwoWayGraphs
=============================================================================
