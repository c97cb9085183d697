----------------------------- MODULE Restructure -----------------------------
(***************************************************************************)
(* What opt/optimizer.rs, optimize_function, does around its pipeline of        *)
(* passes: it cleans the structured code, builds the graph, and rebuilds       *)
(* structured code from the graph.  No pass changes the graph's edges or what  *)
(* a terminator says, so the passes themselves are left to Optimizer.          *)
(*                                                                         *)
(* To rebuild the code (opt/reconstruct_cfg.rs) an innermost if or loop is found *)
(* and collapsed into one block that holds it as nested code, until the graph   *)
(* is a line.  doms and ipdoms are the dominators and the immediate            *)
(* post-dominators of the graph.  An assert, unwrap or panic! that fails is an   *)
(* element of the Panics of its operator.                                    *)
(***************************************************************************)
EXTENDS CfgBuilder

RECURSIVE LinearCode(_,_,_)
LinearCode(c, b, visited) ==
  LET block == c.block[b]
  IN  block.instrs \o (IF block.succs = <<>> \/ Head(block.succs) \in visited \cup {b} THEN <<>>
                      ELSE LinearCode(c, Head(block.succs), visited \cup {b}))

\* linearize_subgraph on a region without ifs and loops.
linearize(c, region, start) ==
  LET sub == create_subgraph(c, region, start) IN LinearCode(sub, sub.entry, {})

\* A broken variant: what lies between the constructs is lost.
InstrsOf_None(c, blocks) == <<>>

\* The instructions of the blocks of a kind: of the one there is, or none.
InstrsOf(c, blocks) == IF blocks = {} THEN <<>> ELSE c.block[CHOOSE b \in blocks : TRUE].instrs

-----------------------------------------------------------------------------
(* Recognising what a block is the head of.                                   *)

Is(block, name) == block.label.name = name

Latches(c, doms, h) == {p \in Range(c.block[h].preds) : h \in doms[p]}

extract_loop_body(c, h, latch) ==
  Closure([b \in DOMAIN c.block |-> IF b = h THEN {} ELSE Range(c.block[b].preds)], {h, latch})

\* The blocks of the loop of h but h itself.
LoopBody(c, doms, h) == UNION {extract_loop_body(c, h, latch) : latch \in Latches(c, doms, h)} \ {h}

\* A broken variant: only loops are looked for.
contains_other_header_Loops(c, doms, region) == \E b \in region : Latches(c, doms, b) # {}

contains_other_header(c, doms, region) ==
  \E b \in region : Len(c.block[b].succs) = 2 \/ Latches(c, doms, b) # {}

NumOf(c, h)       == c.block[h].label.num
JoinOf(c, h, name) == find_kind(c, Label(name, NumOf(c, h)))

\* The successor that is not in S.
OtherThan(c, h, S) == Head(Without(c.block[h].succs, S))

\* get_if_info.
ThenEntry(c, h) == JoinOf(c, h, "merge_if_else")
ElseId(c, h)    == OtherThan(c, h, ThenEntry(c, h))
IfMerge(c, ipdoms, h) ==
  LET join == JoinOf(c, h, "merge_if_end") IN IF join = {} THEN {ipdoms[h]} ELSE join

Branch(c, ipdoms, h, start) ==
  UNION {get_region(c, start, merge) : merge \in IfMerge(c, ipdoms, h)}

IfRegion(c, ipdoms, h) ==
  Branch(c, ipdoms, h, ElseId(c, h)) \cup UNION {Branch(c, ipdoms, h, t) : t \in ThenEntry(c, h)}

\* The body of a loop that is never repeated.
DeadStart(c, h) == OtherThan(c, h, JoinOf(c, h, "merge_while_end"))
DeadBody(c, ipdoms, h) == get_region(c, DeadStart(c, h), ipdoms[h])

TwoWays(c, name) == {h \in DOMAIN c.block : Is(c.block[h], name) /\ Len(c.block[h].succs) = 2}

\* find_innermost_header; it returns the first it meets in a HashMap.
Innermost(c, doms, ipdoms) ==
       {[at |-> h, kind |-> "Loop"] : h \in
         {h \in DOMAIN c.block : /\ Latches(c, doms, h) # {}
                                 /\ ~contains_other_header(c, doms, LoopBody(c, doms, h))}}
  \cup {[at |-> h, kind |-> "DeadLoop"] : h \in
         {h \in TwoWays(c, "while_end") : ~contains_other_header(c, doms, DeadBody(c, ipdoms, h))}}
  \cup {[at |-> h, kind |-> "If"] : h \in
         {h \in TwoWays(c, "if_else") : ~contains_other_header(c, doms, IfRegion(c, ipdoms, h))}}

\* What find_innermost_header, get_if_info and the arms of reconstruct_helper assert.
SearchPanics(c, doms) ==
       {"two back edges" : h \in {h \in DOMAIN c.block : Cardinality(Latches(c, doms, h)) > 1}}
  \cup {"no loop header" : h \in
         {h \in DOMAIN c.block : Latches(c, doms, h) # {}
                                 /\ ~(Is(c.block[h], "while_loop") /\ LoopBody(c, doms, h) # {})}}
  \cup {"no join" : h \in {h \in TwoWays(c, "while_end") : JoinOf(c, h, "merge_while_end") = {}}}
  \cup {"no if" : h \in {h \in TwoWays(c, "if_else") :
                           Len(c.block[h].preds) # 1 \/ ThenEntry(c, h) = {}}}

-----------------------------------------------------------------------------
(* Collapsing.                                                              *)

\* A broken variant: no block is removed.
Remaining_All(c, region, h) == DOMAIN c.block

Remaining(c, region, h) == (DOMAIN c.block \ region) \cup {h}

\* collapse_region.
CollapseRegion(c, region, h, code) ==
  LET preds == UNION {Range(c.block[b].preds) : b \in region} \ region
      succs == UNION {Range(c.block[b].succs) : b \in region} \ region
      Rewired(edges, b, ends) == IF b \in ends THEN Append(Without(edges, region), h) ELSE edges
      Sorted(S) == SetToSortSeq(S, <)
      supernode == [label |-> NoLabel, instrs |-> code,
                    preds |-> Sorted(preds), succs |-> Sorted(succs)]
  IN  [c EXCEPT !.block = [b \in Remaining(c, region, h) |->
         IF b = h THEN supernode
         ELSE [@[b] EXCEPT !.succs = Rewired(@, b, preds), !.preds = Rewired(@, b, succs)]]]

CollapseLoop(c, doms, h) ==
  LET body      == LoopBody(c, doms, h)
      container == JoinOf(c, h, "while_end")
      join      == JoinOf(c, h, "merge_while_end")
      entry     == Head(SelectSeq(c.block[h].succs, LAMBDA b : b \in body))
      loop      == Loop(c.block[h].label, c.block[h].instrs \o linearize(c, body, entry))
      block     == Block(Label("while_end", NumOf(c, h)), Append(InstrsOf(c, container), loop))
  IN  CollapseRegion(c, body \cup {h} \cup container \cup join, h, <<block>> \o InstrsOf(c, join))

CollapseDeadLoop(c, ipdoms, h) ==
  LET body  == DeadBody(c, ipdoms, h) \cup {h}
      join  == JoinOf(c, h, "merge_while_end")
      block == Block(c.block[h].label, linearize(c, body, DeadStart(c, h)))
  IN  CollapseRegion(c, body \cup join, h, <<block>> \o InstrsOf(c, join))

\* A broken variant: the branches exchanged.
BranchCode_Swapped(c, ipdoms, h) ==
  LET then == CHOOSE t \in ThenEntry(c, h) : TRUE
  IN  [then |-> linearize(c, Branch(c, ipdoms, h, ElseId(c, h)), ElseId(c, h)),
       else |-> linearize(c, Branch(c, ipdoms, h, then), then)]

BranchCode(c, ipdoms, h) ==
  LET then == CHOOSE t \in ThenEntry(c, h) : TRUE
  IN  [then |-> linearize(c, Branch(c, ipdoms, h, then), then),
       else |-> linearize(c, Branch(c, ipdoms, h, ElseId(c, h)), ElseId(c, h))]

\* The edge to the exit, which an early return in a branch left behind, goes.
CollapseIf(c, ipdoms, h) ==
  LET join     == JoinOf(c, h, "merge_if_end")
      branches == BranchCode(c, ipdoms, h)
      else     == Block(c.block[h].label, c.block[h].instrs \o branches.else)
      block    == Block(Label("if_end", NumOf(c, h)), <<else>> \o branches.then)
      region   == IfRegion(c, ipdoms, h) \cup {h} \cup JoinOf(c, h, "if_end") \cup join
      next     == CollapseRegion(c, region, h, <<block>> \o InstrsOf(c, join))
  IN  IF Len(next.block[h].succs) > 1 THEN remove_edge(next, h, c.exit) ELSE next

CollapseAt(c, doms, ipdoms, header) ==
  CASE header.kind = "Loop"     -> CollapseLoop(c, doms, header.at)
    [] header.kind = "DeadLoop" -> CollapseDeadLoop(c, ipdoms, header.at)
    [] header.kind = "If"       -> CollapseIf(c, ipdoms, header.at)

-----------------------------------------------------------------------------
(* The line that is left.                                                    *)

FirstBlock(c) == Head(c.block[c.entry].succs)

\* The code of the blocks from b up to the epilogue.
RECURSIVE CodeUpTo(_,_,_)
CodeUpTo(c, b, end) ==
  IF b = end THEN <<>> ELSE c.block[b].instrs \o CodeUpTo(c, Head(c.block[b].succs), end)

\* The asserts of reconstruct: from the function body on, one block after another.
RECURSIVE IsLine(_,_,_)
IsLine(c, b, end) == b = end \/ (Len(c.block[b].succs) = 1 /\ IsLine(c, Head(c.block[b].succs), end))

LinePanics(c) ==
  LET end == find_kind(c, Merge(FuncExit))
  IN  IF end # {} /\ c.block[FirstBlock(c)].label = FuncExit
         /\ \A e \in end : IsLine(c, FirstBlock(c), e)
      THEN {} ELSE {"not a line"}

reconstruct(c) ==
  LET end == CHOOSE b \in find_kind(c, Merge(FuncExit)) : TRUE
  IN  <<Block(FuncExit, CodeUpTo(c, FirstBlock(c), end))>> \o c.block[end].instrs

-----------------------------------------------------------------------------
\* optimize_function.

CONSTANTS
  Functions,   \* bodies of functions, sequences of statements
  Outcomes     \* sequences of branch outcomes to compare executions on

VARIABLES
  function,      \* the source
  body,          \* the code wtac_gen makes of it
  clean_body,    \* the code without what cannot run
  cfg,           \* the graph, from Build on
  doms, ipdoms,  \* Dominators of the graph
  fn_body,       \* the code rebuilt, at the end
  phase          \* "clean", "build", "collapse", "done" or, after a panic, its cause

vars == <<function, body, clean_body, cfg, doms, ipdoms, fn_body, phase>>

Dom  == INSTANCE Dominance WITH Direction <- "Forwards"
Post == INSTANCE Dominance WITH Direction <- "Backwards"

DomFacts == INSTANCE Solution WITH Direction <- "Forwards", Cfgs <- {}, FlowBlock <- Dom!FlowBlock,
              Combine <- Dom!Combine, InitIn <- Dom!InitIn, InitOut <- Dom!InitOut
PostFacts == INSTANCE Solution WITH Direction <- "Backwards", Cfgs <- {}, FlowBlock <- Post!FlowBlock,
              Combine <- Post!Combine, InitIn <- Post!InitIn, InitOut <- Post!InitOut

-----------------------------------------------------------------------------

Init ==
  /\ function \in Functions
  /\ body = gen_function(function)
  /\ clean_body = eliminate_dead_br(body)
  /\ cfg = <<>> /\ doms = <<>> /\ ipdoms = <<>> /\ fn_body = <<>>
  /\ phase = "clean"

\* One turn of `while change`.
Clean ==
  /\ phase = "clean"
  /\ LET cleaned == eliminate_dead_blocks(clean_body, target_blocks(clean_body))
     IN  /\ phase' = IF cleaned = clean_body THEN "build" ELSE phase
         /\ clean_body' = eliminate_dead_br(cleaned)
  /\ UNCHANGED <<function, body, cfg, doms, ipdoms, fn_body>>

\* The graph has been built or changed: compute_dominators.
Analysed(c) ==
  LET d == DomFacts!Facts(Graph(c)).out
      p == PostFacts!Facts(Graph(c)).in
  IN  /\ cfg' = c
      /\ doms' = d
      /\ IF Dom!HasImmediate(d) /\ Post!HasImmediate(p)
         THEN phase' = "collapse" /\ ipdoms' = Post!immediate_dominators(p)
         ELSE phase' = "no immediate dominator" /\ ipdoms' = <<>>

Build ==
  /\ phase = "build"
  /\ Analysed(New(clean_body))
  /\ UNCHANGED <<function, body, clean_body, fn_body>>

\* One turn of the loop of reconstruct_helper.  A graph in which some order of the
\* search fails is taken to fail: it goes on with Panic only.
Collapse ==
  /\ phase = "collapse"
  /\ SearchPanics(cfg, doms) = {}
  /\ \E header \in Innermost(cfg, doms, ipdoms) : Analysed(CollapseAt(cfg, doms, ipdoms, header))
  /\ UNCHANGED <<function, body, clean_body, fn_body>>

NothingLeft == SearchPanics(cfg, doms) = {} /\ Innermost(cfg, doms, ipdoms) = {}

Finish ==
  /\ phase = "collapse"
  /\ NothingLeft
  /\ LinePanics(cfg) = {}
  /\ phase' = "done"
  /\ fn_body' = reconstruct(cfg)
  /\ UNCHANGED <<function, body, clean_body, cfg, doms, ipdoms>>

Panic ==
  /\ phase = "collapse"
  /\ phase' \in SearchPanics(cfg, doms) \cup (IF NothingLeft THEN LinePanics(cfg) ELSE {})
  /\ UNCHANGED <<function, body, clean_body, cfg, doms, ipdoms, fn_body>>

Terminated == phase \notin {"clean", "build", "collapse"} /\ UNCHANGED vars

Next == Clean \/ Build \/ Collapse \/ Finish \/ Panic \/ Terminated

Spec == Init /\ [][Next]_vars

-----------------------------------------------------------------------------

(* Three shapes of source that the reconstruction does not handle.            *)

\* A loop whose body always returns.
RECURSIVE HasDeadLoop(_)
HasDeadLoop(stmts) ==
  \E s \in Range(stmts) :
    CASE s.stmt = "While" -> typecheck_block(s.body) = "Void" \/ HasDeadLoop(s.body)
      [] s.stmt = "If"    -> HasDeadLoop(s.then) \/ HasDeadLoop(s.else)
      [] OTHER            -> FALSE

\* An if both branches of which always return, within a statement that may go on.
RECURSIVE HasStrandedIf(_,_)
HasStrandedIf(stmts, inside) ==
  \E s \in Range(stmts) :
    LET void == typecheck_statement(s) = "Void"
    IN  CASE s.stmt = "While" -> HasStrandedIf(s.body, TRUE)
          [] s.stmt = "If"    -> \/ void /\ inside
                                 \/ HasStrandedIf(s.then, inside \/ ~void)
                                 \/ HasStrandedIf(s.else, inside \/ ~void)
          [] OTHER            -> FALSE

\* An if or a while whose condition contains loops.
RECURSIVE HasConcatGuard(_)
HasConcatGuard(stmts) ==
  \E s \in Range(stmts) :
    CASE s.stmt = "While" -> s.guard = "concat" \/ HasConcatGuard(s.body)
      [] s.stmt = "If"    -> s.guard = "concat" \/ HasConcatGuard(s.then) \/ HasConcatGuard(s.else)
      [] OTHER            -> FALSE

Ordinary == ~HasDeadLoop(function) /\ ~HasStrandedIf(function, FALSE) /\ ~HasConcatGuard(function)

-----------------------------------------------------------------------------

Panicked == phase \notin {"clean", "build", "collapse", "done"}

\* runtime/tests/compiler_tests.rs: the optimizer does not change the meaning of a
\* program.  The code that is cleaned, and the code that is rebuilt, do what the
\* code of wtac_gen does, however the conditions turn out.
SameExecutions ==
  \A outcomes \in Outcomes :
    LET expected == Execution(body, outcomes)
    IN  /\ Execution(clean_body, outcomes) = expected
        /\ phase = "done" => Execution(fn_body, outcomes) = expected

\* What the code does: only loops that are never repeated lose their meaning.
SameUnlessDeadLoop == ~HasDeadLoop(function) => SameExecutions

\* No assert, expect or unwrap of dominators.rs and reconstruct_cfg.rs fails.
NeverPanics == ~Panicked

\* What the code does: it fails on none but the three shapes above.
OrdinaryNeverPanics == Ordinary => NeverPanics

\* The graph is the code it was built from, and after each collapse still is.
GraphMeansCode ==
  Ordinary /\ phase = "collapse" =>
    \A outcomes \in Outcomes : GraphExecution(cfg, outcomes) = Execution(body, outcomes)

\* A block leads where its last instruction can take control, and nowhere else;
\* what is collapsed into a block branches from within.
EdgesTaken ==
  \A b \in DOMAIN cfg.block :
    LET block == cfg.block[b]
    IN  EndsWith(block, {"Block"}) \/
        Len(block.succs) = CASE EndsWith(block, {"Return"}) -> 0
                             [] EndsWith(block, {"BrIf"})   -> 2
                             [] OTHER                       -> 1

\* Cfg::validate finds nothing, before and after each collapse, for the solver that
\* computes the dominators anew relies on it; and the edges are those control takes.
GraphIsValid ==
  phase = "collapse" => DomFacts!IsValid(Graph(cfg)) /\ (Ordinary => EdgesTaken)

\* tests/loop_preheader.rs: a loop has one back edge, and is entered only from
\* its container, a block outside the loop with no other successor.
LoopsHavePreheaders ==
  phase = "collapse" =>
    \A h \in DOMAIN cfg.block :
      LET latches == Latches(cfg, doms, h)
          entries == Range(cfg.block[h].preds) \ latches
      IN  latches # {} =>
            /\ Cardinality(latches) = 1
            /\ \E e \in entries : /\ entries = {e}
                                 /\ cfg.block[e].succs = <<h>>
                                 /\ cfg.block[e].label = Label("while_end", NumOf(cfg, h))

\* The code rebuilt does not depend on the order in which find_innermost_header
\* meets the blocks of a HashMap: here it is compared with one order.
RECURSIVE Rebuilt(_)
Rebuilt(c) ==
  LET d  == DomFacts!Facts(Graph(c)).out
      ip == Post!immediate_dominators(PostFacts!Facts(Graph(c)).in)
      headers == Innermost(c, d, ip)
  IN  IF headers = {} THEN reconstruct(c)
      ELSE Rebuilt(CollapseAt(c, d, ip, CHOOSE header \in headers : TRUE))

OneResult == phase = "done" => fn_body = Rebuilt(New(clean_body))

\* Both loops end: the one that removes dead blocks until nothing changes, for it
\* goes on only with fewer blocks and loops in the code, and the one that collapses
\* until no header is left, for it goes on only with fewer blocks in the graph.
RECURSIVE Nesting(_)
Nesting(instrs) ==
  FoldLeft(LAMBDA n, i : IF IsNested(i) THEN n + 1 + Nesting(i.body) ELSE n, 0, instrs)

Shrinks ==
  [][phase' = phase =>
       \/ phase = "clean" /\ Nesting(clean_body') < Nesting(clean_body)
       \/ phase = "collapse" /\ Cardinality(DOMAIN cfg'.block) < Cardinality(DOMAIN cfg.block)]_vars
=============================================================================
