-------------------------------- MODULE Wtac --------------------------------
(***************************************************************************)
(* The IR the optimizer works on (wtac/wtac_ast.rs) once control flow has     *)
(* become a graph, and what liveness.rs says an instruction reads and writes. *)
(*                                                                         *)
(* A basic block is a sequence of labelled instructions [id, instr].  A CFG   *)
(* has, besides blocks, preds and succs (module Dataflow), the fields         *)
(*    code     block -> its labelled instructions                           *)
(*    entry, exit, params, globals     as in struct Cfg                      *)
(*    globals always holds __stack_pointer, added by optmize.                *)
(***************************************************************************)
EXTENDS Integers, FiniteSets, Sequences, Functions

\* enum Value.  An immediate and a memory operand carry their width.
Var(x)       == [kind |-> "Var", name |-> x]
Mem(x, o, t) == [kind |-> "Mem", name |-> x, offset |-> o, t |-> t]
Imm(i, t)    == [kind |-> "Imm", int |-> i, t |-> t]

\* enum Instruction without Block and Loop, which CFG construction unfolds.  A
\* call has a sequence of zero or one destinations, a return of values.  Br is
\* the edge out of its block, so only the branch on a condition is kept; its
\* target is the block it jumps to when cond is nonzero.
Copy(dst, src)                 == [op |-> "Copy", dst |-> <<dst>>, srcs |-> <<src>>]
Unary(dst, fn, src, t)         == [op |-> "Unary", fn |-> fn, t |-> t, dst |-> <<dst>>, srcs |-> <<src>>]
Binary(dst, fn, src1, src2, t) == [op |-> "Binary", fn |-> fn, t |-> t, dst |-> <<dst>>, srcs |-> <<src1, src2>>]
FCall(dst, fn, args)           == [op |-> "FCall", fn |-> fn, dst |-> dst, srcs |-> args]
BrIf(cond, target)             == [op |-> "BrIf", target |-> target, dst |-> <<>>, srcs |-> <<cond>>]
Return(vals)                   == [op |-> "Return", dst |-> <<>>, srcs |-> vals]

MaxBlockLen == 1000
get_instr_id(block, n) == block * MaxBlockLen + n

\* The instructions of block b, numbered on from `first`, the place of the first
\* of them in the list of structured code it comes from, as in build_recursive.
Labelled(b, first, instrs) ==
  [n \in 1 .. Len(instrs) |-> [id |-> get_instr_id(b, first + n - 1), instr |-> instrs[n]]]

\* What an instruction reads, in the order of the code and with repetitions.  The
\* pointer a store goes through is read too.
Operands(i) == i.srcs \o IF i.op = "Copy" /\ i.dst[1].kind = "Mem" THEN i.dst ELSE <<>>

\* uses_of_instr, as a set.
UsedVars(i) == {v.name : v \in {w \in Range(Operands(i)) : w.kind # "Imm"}}

\* At most one variable; a store defines none.
def_of_instr(i) == {v.name : v \in {w \in Range(i.dst) : w.kind = "Var"}}

IsCall(i) == i.op = "FCall"

\* A copy from one variable to another.
IsVarCopy(i) == i.op = "Copy" /\ i.dst[1].kind = "Var" /\ i.srcs[1].kind = "Var"

\* Every labelled instruction of a graph.
Instructions(c) == UNION {Range(c.code[b]) : b \in c.blocks}

\* A function with a value changed or added; another with those of g instead.
Update(f, x, v) == [y \in DOMAIN f \cup {x} |-> IF y = x THEN v ELSE f[y]]
Override(f, g)  == [y \in DOMAIN f \cup DOMAIN g |-> IF y \in DOMAIN g THEN g[y] ELSE f[y]]

-----------------------------------------------------------------------------
\* Paths through a CFG, one instruction at a time.  The analyses are computed block
\* by block as fixed points; what they promise is a statement about paths, which
\* this makes it possible to write down.  Point <<b, n>> is the place in block b with
\* n instructions before it.

Points(c) == UNION {{b} \X (0 .. Len(c.code[b])) : b \in c.blocks}

StartOf(c, b) == <<b, 0>>
EndOf(c, b)   == <<b, Len(c.code[b])>>

HasNext(c, p)   == p[2] < Len(c.code[p[1]])
NextInstr(c, p) == c.code[p[1]][p[2] + 1].instr

\* The points that execution may go on to from p.
After(c, p) ==
  IF HasNext(c, p) THEN {<<p[1], p[2] + 1>>} ELSE {StartOf(c, s) : s \in c.succs[p[1]]}

\* A graph is given by the function that maps each of its nodes to the set of nodes
\* one step further.  The nodes some path leads to from a node of `from`: no path need be longer
\* than there are nodes.
ReachedFrom(from, next) ==
  LET Grow(R) == R \cup UNION {next[p] : p \in R}
      reach[n \in 0 .. Cardinality(DOMAIN next)] ==
        IF n = 0 THEN from ELSE Grow(reach[n - 1])
  IN  reach[Cardinality(DOMAIN next)]

\* The points some path leads to from a point of `from`, where a path goes past
\* an instruction i only if Passes(i).
Reachable(c, from, Passes(_)) ==
  ReachedFrom(from, [p \in Points(c) |->
    IF HasNext(c, p) => Passes(NextInstr(c, p)) THEN After(c, p) ELSE {}])

\* The variables a function mentions, and its parameters and globals.
Variables(c) ==
  (UNION {UsedVars(li.instr) \cup def_of_instr(li.instr) : li \in Instructions(c)})
    \cup c.params \cup c.globals
=============================================================================
