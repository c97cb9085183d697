----------------------------- MODULE CfgBuilder -----------------------------
(***************************************************************************)
(* Structured WTAC code before it becomes a graph: how it runs, where it comes  *)
(* from (wtac_gen) and what dead code elimination takes away (opt/optimizer.rs);  *)
(* then the control flow graph built from it and the parts of a graph            *)
(* (opt/cfg.rs).  An instruction that is not about control flow is an Op with a   *)
(* number.  A graph is [entry, exit, block], where block maps the id of a block    *)
(* to its label, its instructions, and the ids of its predecessors and          *)
(* successors in the order the code keeps them.  The ids of instructions are left   *)
(* out: here only the analysis of dominators uses them, to find the block an      *)
(* instruction is in (see Dominance).                                         *)
(***************************************************************************)
EXTENDS Integers, FiniteSets, SequencesExt

\* A label is a name and the number its construct shares; labels of the blocks
\* that follow a construct get the prefix merge_.
Label(name, num) == [name |-> name, num |-> num]
FuncExit == Label("func_exit", 0)

Op(n)              == [op |-> "Op", n |-> n]
Br(label)          == [op |-> "Br", label |-> label]
BrIf(label)        == [op |-> "BrIf", label |-> label]
Return             == [op |-> "Return"]
Block(label, body) == [op |-> "Block", label |-> label, body |-> body]
Loop(label, body)  == [op |-> "Loop", label |-> label, body |-> body]

IsNested(i)     == i.op \in {"Block", "Loop"}
is_terminator(i) == i.op \in {"Return", "Br", "BrIf"}

\* What execution has done so far: the Ops, how the conditions of BrIf turned out,
\* and how many outcomes are still to come; jump says how control goes on:
\* "next", "return", "cut" when no outcome is left, or the label jumped to.
GoOn   == Label("next", 0)
Cut    == Label("cut", 0)
Exited == Label("return", 0)

Begin(outcomes) == [trace |-> <<>>, outcomes |-> outcomes, jump |-> GoOn]

Did(run, n) == [run EXCEPT !.trace = Append(@, n)]

Decide(run, label) ==
  IF run.outcomes = <<>> THEN [run EXCEPT !.jump = Cut]
  ELSE [run EXCEPT !.outcomes = Tail(@), !.jump = IF Head(run.outcomes) THEN label ELSE GoOn]

\* How WASM executes structured code: a branch to a block leaves it, a branch to
\* a loop starts it again, and at its end a loop is left.
RECURSIVE Exec(_,_)
Exec(instrs, run) ==
  IF instrs = <<>> THEN run
  ELSE LET i == Head(instrs)
           after == CASE i.op = "Op"     -> Did(run, i.n)
                      [] i.op = "Br"     -> [run EXCEPT !.jump = i.label]
                      [] i.op = "BrIf"   -> Decide(run, i.label)
                      [] i.op = "Return" -> [run EXCEPT !.jump = Exited]
                      [] OTHER           -> Exec(i.body, run)
       IN  IF after.jump = GoOn THEN Exec(Tail(instrs), after)
           ELSE IF i.op = "Block" /\ after.jump = i.label
                THEN Exec(Tail(instrs), [after EXCEPT !.jump = GoOn])
           ELSE IF i.op = "Loop" /\ after.jump = i.label
                THEN Exec(instrs, [after EXCEPT !.jump = GoOn])
           ELSE after

Execution(code, outcomes) == Exec(code, Begin(outcomes))
-----------------------------------------------------------------------------
\* The control flow of wtac/wtac_gen: what if, while, return and a function become,
\* and the rule of the type checker on what may follow a return.  Labels are
\* numbered by one counter, in the order the code asks for them.  Every gen
\* operator returns [code, next], next being the counter.

\* Statements.  A compound statement is a sequence of them; a guard is "plain" or
\* "concat", one whose evaluation concatenates two arrays.
OpStmt                  == [stmt |-> "Op"]
ReturnStmt              == [stmt |-> "Return"]
IfStmt(guard, then, else) == [stmt |-> "If", guard |-> guard, then |-> then, else |-> else]
WhileStmt(guard, body)  == [stmt |-> "While", guard |-> guard, body |-> body]

\* typecheck_block: nothing follows a statement that always returns.  A statement
\* has the type "Void" if it always returns, "Unit" if not, "Error" otherwise.
RECURSIVE typecheck_block(_)
typecheck_statement(s) ==
  CASE s.stmt = "Op"     -> "Unit"
    [] s.stmt = "Return" -> "Void"
    [] s.stmt = "If"     -> LET types == {typecheck_block(s.then), typecheck_block(s.else)}
                            IN  IF "Error" \in types THEN "Error"
                                ELSE IF "Unit" \in types THEN "Unit" ELSE "Void"
    [] s.stmt = "While"  -> IF typecheck_block(s.body) = "Error" THEN "Error" ELSE "Unit"

typecheck_block(stmts) ==
  IF stmts = <<>> THEN "Unit"
  ELSE IF \E s \in Range(Front(stmts)) : typecheck_statement(s) # "Unit" THEN "Error"
  ELSE typecheck_statement(Last(stmts))

\* A broken variant: a second branch back to the head.
While_Continue(n, guard, body) ==
  << Block(Label("while_end", n),
       << Loop(Label("while_loop", n),
            guard \o <<BrIf(Label("while_end", n))>> \o body
              \o <<BrIf(Label("while_loop", n)), Op(0), Br(Label("while_loop", n))>>) >>) >>

\* get_while_loop and the frame of gen_while.
While(n, guard, body) ==
  << Block(Label("while_end", n),
       << Loop(Label("while_loop", n),
            guard \o <<BrIf(Label("while_end", n))>> \o body \o <<Br(Label("while_loop", n))>>) >>) >>

\* gen_array_concat: two copy loops, one after the other.
gen_guard(guard, n) ==
  LET CopyLoop(k) == While(k, <<Op(k + 1)>>, <<Op(k + 2)>>)
  IN  IF guard = "plain"
      THEN [code |-> <<Op(n)>>, next |-> n + 1]
      ELSE [code |-> <<Op(n)>> \o CopyLoop(n + 1) \o <<Op(n + 4)>> \o CopyLoop(n + 5) \o <<Op(n + 8)>>, next |-> n + 9]

RECURSIVE gen_block(_,_)
gen_if(s, n) ==
  LET guard == gen_guard(s.guard, n)
      then  == gen_block(s.then, guard.next)
      else  == gen_block(s.else, then.next)
      k     == else.next
      if_end  == Label("if_end", k)
      if_else == Label("if_else", k)
      else_block == Block(if_else, guard.code \o <<BrIf(if_else)>> \o else.code \o <<Br(if_end)>>)
  IN  [code |-> <<Block(if_end, <<else_block>> \o then.code \o <<Br(if_end)>>)>>, next |-> k + 1]

gen_while(s, n) ==
  LET guard == gen_guard(s.guard, n)
      body  == gen_block(s.body, guard.next)
  IN  [code |-> While(body.next, guard.code, body.code), next |-> body.next + 1]

gen_statement(s, n) ==
  CASE s.stmt = "Op"     -> [code |-> <<Op(n)>>, next |-> n + 1]
    [] s.stmt = "Return" -> [code |-> <<Op(n), Br(FuncExit)>>, next |-> n + 1]
    [] s.stmt = "If"     -> gen_if(s, n)
    [] s.stmt = "While"  -> gen_while(s, n)

gen_block(stmts, n) ==
  FoldLeft(LAMBDA done, s : LET new == gen_statement(s, done.next)
                            IN  [code |-> done.code \o new.code, next |-> new.next],
           [code |-> <<>>, next |-> n], stmts)

\* Op(1) sets the frame up, Op(2) takes it down.
gen_function(stmts) ==
  << Block(FuncExit, <<Op(1)>> \o gen_block(stmts, 3).code \o <<Br(FuncExit)>>), Op(2), Return >>

-----------------------------------------------------------------------------
\* What opt/optimizer.rs removes before it builds a graph: code behind an
\* unconditional branch, and blocks and loops no branch names.

\* Where the first Br or Return of a list is; behind it nothing runs.
FirstExit(instrs) ==
  LET exits == {k \in DOMAIN instrs : instrs[k].op \in {"Br", "Return"}}
  IN  IF exits = {} THEN Len(instrs) ELSE CHOOSE k \in exits : \A j \in exits : k <= j

RECURSIVE eliminate_dead_br(_)
eliminate_dead_br(instrs) ==
  LET kept == SubSeq(instrs, 1, FirstExit(instrs))
  IN  [k \in DOMAIN kept |->
         IF IsNested(kept[k]) THEN [kept[k] EXCEPT !.body = eliminate_dead_br(@)] ELSE kept[k]]

\* The set eliminate_dead_br fills: the labels its result still branches to.
RECURSIVE target_blocks(_)
target_blocks(instrs) ==
  UNION {CASE i.op \in {"Br", "BrIf"} -> {i.label}
           [] IsNested(i)             -> target_blocks(i.body)
           [] OTHER                   -> {} : i \in Range(instrs)}

RECURSIVE eliminate_dead_blocks(_,_)
eliminate_dead_blocks(instrs, targets) ==
  FlattenSeq([k \in DOMAIN instrs |->
    LET i == instrs[k]
    IN  IF ~IsNested(i) THEN <<i>>
        ELSE IF i.label \in targets THEN << [i EXCEPT !.body = eliminate_dead_blocks(@, targets)] >>
        ELSE eliminate_dead_blocks(i.body, targets)])

-----------------------------------------------------------------------------

\* A BlockKind and its label determine each other; a block without a role has
\* the label NoLabel.
NoLabel      == Label("", 0)
Merge(label) == [label EXCEPT !.name = "merge_" \o @]

EmptyBlock(label) == [label |-> label, instrs |-> <<>>, preds |-> <<>>, succs |-> <<>>]

\* The last instruction of a block, if it is one of the ops.
EndsWith(block, ops) == block.instrs # <<>> /\ Last(block.instrs).op \in ops

-----------------------------------------------------------------------------
(* A builder is the fields of CfgBuilder and the block instructions go to.     *)

new_block(b, label) ==
  [b EXCEPT !.next_id = @ + 1, !.block = @ @@ (b.next_id :> EmptyBlock(label))]

RECURSIVE discover_labels(_,_)
discover_labels(instrs, b) ==
  FoldLeft(LAMBDA done, i :
             IF ~IsNested(i) THEN done
             ELSE LET made == new_block(done, IF i.op = "Block" THEN Merge(i.label) ELSE i.label)
                  IN  discover_labels(i.body, [made EXCEPT !.label_map = @ @@ (i.label :> done.next_id)]),
           b, instrs)

Add(seq, x) == IF x \in Range(seq) THEN seq ELSE Append(seq, x)

add_edge(b, from, to) ==
  [b EXCEPT !.block[from].succs = Add(@, to), !.block[to].preds = Add(@, from)]

PushInstr(b, i) == [b EXCEPT !.block[b.cur].instrs = Append(@, i)]

\* The end of a body continues behind it unless a terminator ends it.
FallsThrough(block) == ~EndsWith(block, {"Return", "Br", "BrIf"})

RECURSIVE build_recursive(_,_)
BuildBlock(b, i) ==
  LET opened == add_edge(new_block(b, i.label), b.cur, b.next_id)
      inside == build_recursive(i.body, [opened EXCEPT !.cur = b.next_id])
      merge  == b.label_map[i.label]
      closed == IF FallsThrough(inside.block[inside.cur]) THEN add_edge(inside, inside.cur, merge)
                ELSE inside
  IN  [closed EXCEPT !.cur = merge]

BuildLoop(b, i) ==
  LET header == b.label_map[i.label]
      inside == build_recursive(i.body, [add_edge(b, b.cur, header) EXCEPT !.cur = header])
  IN  [inside EXCEPT !.cur = header]

BuildBrIf(b, i) ==
  LET taken == add_edge(b, b.cur, b.label_map[i.label])
      other == add_edge(new_block(taken, NoLabel), b.cur, taken.next_id)
  IN  [other EXCEPT !.cur = taken.next_id]

build_recursive(instrs, b) ==
  FoldLeft(LAMBDA done, i :
      LET with == PushInstr(done, i)
      IN  CASE i.op = "Block" -> BuildBlock(done, i)
            [] i.op = "Loop"  -> BuildLoop(done, i)
            [] i.op = "Br"    -> add_edge(with, done.cur, done.label_map[i.label])
            [] i.op = "BrIf"  -> BuildBrIf(with, i)
            [] OTHER          -> with,   \* Return too
    b, instrs)

\* Cfg::new.
New(body) ==
  LET empty      == [next_id |-> 0, block |-> <<>>, label_map |-> <<>>, cur |-> 0]
      discovered == discover_labels(body, empty)
      entered    == [new_block(discovered, NoLabel) EXCEPT !.cur = discovered.next_id]
      built      == build_recursive(body, entered)
  IN  [entry |-> entered.cur, exit |-> built.cur, block |-> built.block]

-----------------------------------------------------------------------------
(* Operations on a finished graph.                                            *)

\* The graph as an analysis sees it.
Graph(c) ==
  [blocks |-> DOMAIN c.block, entry |-> c.entry, exit |-> c.exit,
   preds  |-> [b \in DOMAIN c.block |-> Range(c.block[b].preds)],
   succs  |-> [b \in DOMAIN c.block |-> Range(c.block[b].succs)]]

\* The blocks of a kind; the code relies on there being one at most.
find_kind(c, label) == {b \in DOMAIN c.block : c.block[b].label = label}

\* What the edges lead to from a set of blocks.
RECURSIVE Closure(_,_)
Closure(edges, S) ==
  LET more == S \cup UNION {edges[b] : b \in S} IN IF more = S THEN S ELSE Closure(edges, more)

\* A broken variant: going on behind an early exit.
get_region_Through(c, start, end) ==
  Closure([b \in DOMAIN c.block |-> Range(c.block[b].succs) \ {end}], {start} \ {end})

get_region(c, start, end) ==
  Closure([b \in DOMAIN c.block |->
             (IF EndsWith(c.block[b], {"Br", "Return"}) THEN {} ELSE Range(c.block[b].succs)) \ {end}],
          {start} \ {end})

Without(seq, S) == SelectSeq(seq, LAMBDA b : b \notin S)

create_subgraph(c, region, entry) ==
  LET outside == DOMAIN c.block \ region
  IN  [entry |-> entry,
       block |-> [b \in region |-> [c.block[b] EXCEPT !.preds = Without(@, outside),
                                                      !.succs = Without(@, outside)]]]

\* A broken variant: only the source forgets the edge.
remove_edge_OneSided(c, from, to) ==
  [c EXCEPT !.block[from].succs = Without(@, {to})]

remove_edge(c, from, to) ==
  [c EXCEPT !.block[from].succs = Without(@, {to}), !.block[to].preds = Without(@, {from})]

-----------------------------------------------------------------------------
(* How a graph of blocks without nested code executes.                        *)

\* The block a branch to a label leads to.
TargetOf(c, label) == CHOOSE b \in find_kind(c, label) \cup find_kind(c, Merge(label)) :
                        find_kind(c, Merge(label)) # {} => b \in find_kind(c, Merge(label))

RECURSIVE ExecFrom(_,_,_)
ExecFrom(c, b, run) ==
  LET block == c.block[b]
      after == Exec(block.instrs, [run EXCEPT !.jump = GoOn])
  IN  IF after.jump \in {Cut, Exited} THEN after
      ELSE IF after.jump # GoOn THEN ExecFrom(c, TargetOf(c, after.jump), after)
      ELSE IF block.succs = <<>> THEN after
      ELSE ExecFrom(c, Last(block.succs), after)

GraphExecution(c, outcomes) == ExecFrom(c, c.entry, Begin(outcomes))
=============================================================================
