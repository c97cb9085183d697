------------------------------- MODULE Passes -------------------------------
(***************************************************************************)
(* The six optimization passes, each a function from a CFG, and the facts its  *)
(* analysis found on it, to a result [cfg, changed]: what run_pass            *)
(* (opt/optimizer.rs) does to the graph it is given, and the flag it returns.  *)
(***************************************************************************)
EXTENDS Wtac, Arith

L == INSTANCE Liveness
R == INSTANCE Reaching
A == INSTANCE Copies
P == INSTANCE Pointers
M == INSTANCE Loads

-----------------------------------------------------------------------------
\* Rewriting.

\* rewrite_instr's subst_val.  An immediate cannot replace a base pointer.
SubstVal(v, x, val) ==
  CASE v.kind = "Var" /\ v.name = x -> val
    [] v.kind = "Mem" /\ v.name = x /\ val.kind = "Var" -> [v EXCEPT !.name = val.name]
    [] v.kind = "Mem" /\ v.name = x /\ val.kind = "Mem" ->
         [v EXCEPT !.name = val.name, !.offset = @ + val.offset]
    [] OTHER -> v

SubstEach(vals, x, val) == [n \in DOMAIN vals |-> SubstVal(vals[n], x, val)]

\* The sources of an instruction, and the destination of a copy, a variable
\* there included.
rewrite_instr(i, x, val) ==
  LET reads == [i EXCEPT !.srcs = SubstEach(i.srcs, x, val)]
  IN  IF i.op = "Copy" THEN [reads EXCEPT !.dst = SubstEach(i.dst, x, val)] ELSE reads

SubstMem(v, x, base, offset) ==
  IF v.kind = "Mem" /\ v.name = x THEN [v EXCEPT !.name = base, !.offset = @ + offset] ELSE v

SubstEachMem(vals, x, base, offset) == [n \in DOMAIN vals |-> SubstMem(vals[n], x, base, offset)]

\* Memory operands only, and not those of calls.
rewrite_mem_instr(i, x, base, offset) ==
  LET reads == [i EXCEPT !.srcs = SubstEachMem(i.srcs, x, base, offset)]
  IN  CASE i.op = "Copy" -> [reads EXCEPT !.dst = SubstEachMem(i.dst, x, base, offset)]
        [] i.op \in {"Unary", "Binary"} -> reads
        [] OTHER -> i

\* contains_copy_mem
CopiesThrough(i, base) ==
  i.op = "Copy" /\ \E v \in {i.srcs[1], i.dst[1]} : v.kind = "Mem" /\ v.name = base

\* The body of `for var in uses { .. }`.  The pass knows the options subst[x] for x,
\* a value or, for pointer_propagation, a base and an offset.  An instruction goes
\* with the flag whether it was changed.
VisitUse(pass, subst, done, x) ==
  LET i    == done[1]
      vals == {val \in subst[x] : pass = "ptr" => CopiesThrough(i, val[1])}
      val  == CHOOSE v \in vals : TRUE
  IN  IF vals = {} THEN done
      ELSE IF pass = "ptr" THEN <<rewrite_mem_instr(i, x, val[1], val[2]), TRUE>>
      ELSE <<rewrite_instr(i, x, val), TRUE>>

\* The variables the instruction used at first, in turn.
ForEachUse(pass, subst, i) ==
  LET done[n \in 0 .. Len(Operands(i))] ==
        IF n = 0 THEN <<i, FALSE>>
        ELSE IF Operands(i)[n].kind = "Imm" THEN done[n - 1]
        ELSE VisitUse(pass, subst, done[n - 1], Operands(i)[n].name)
  IN  done[Len(Operands(i))]

-----------------------------------------------------------------------------
\* What each pass makes of the instruction at place n of block b.

\* get_constants: instruction id -> immediate, for every copy of an immediate; an
\* option.
get_constants(c, id) ==
  {li.instr.srcs[1] : li \in {l \in Instructions(c) :
                                l.id = id /\ l.instr.op = "Copy" /\ l.instr.srcs[1].kind = "Imm"}}

\* build_use_def: the definitions of x before instruction n of block b.
use_def(c, facts, b, n, x) ==
  {d \in R!instr_fact(c, b, n, facts.in[b]) : d[2] = x}

\* The constant that all of these definitions assign, an option.
ConstantOf(c, defs) ==
  LET values == UNION {get_constants(c, d[1]) : d \in defs}
  IN  IF \A d \in defs : get_constants(c, d[1]) # {} THEN {v \in values : values = {v}} ELSE {}

\* Use-def chains and constants are those of the graph before the pass.
constant_propagation(c, facts, b, n) ==
  LET i == c.code[b][n].instr
  IN  ForEachUse("cp", [x \in UsedVars(i) |-> ConstantOf(c, use_def(c, facts, b, n, x))], i)

copy_propagation(c, facts, b, n) ==
  LET i         == c.code[b][n].instr
      available == A!instr_fact(c, b, n, facts.in[b])
  IN  ForEachUse("copy", [x \in UsedVars(i) |->
                            {Var(pair[2]) : pair \in {p \in available : p[1] = x}}], i)

\* The instruction constant_folding puts in the place of i, an option.
Folded(i) ==
  LET AllImm == \A v \in Range(i.srcs) : v.kind = "Imm"
      Constants(results) == {Copy(i.dst[1], Imm(r, i.t)) : r \in results}
  IN  CASE i.op = "Binary" /\ AllImm -> Constants(perform_binary_op(i.fn, i.srcs[1].int, i.srcs[2].int))
        [] i.op = "Binary" /\ ~AllImm /\ i.fn \in {"Add", "Sub"}
             /\ i.srcs[2].kind = "Imm" /\ i.srcs[2].int = 0 -> {Copy(i.dst[1], i.srcs[1])}
        [] i.op = "Unary" /\ AllImm -> Constants(perform_unary_op(i.fn, i.srcs[1].int))
        [] OTHER -> {}

constant_folding(c, b, n) ==
  LET i == c.code[b][n].instr
  IN  IF Folded(i) = {} THEN <<i, FALSE>> ELSE <<CHOOSE j \in Folded(i) : TRUE, TRUE>>

\* A broken variant: a base counts as derived from itself.
IsDerived_Self(known, x) == x \in DOMAIN known

IsDerived(known, x) == x \in DOMAIN known /\ known[x][1] # x

pointer_propagation(c, facts, b, n) ==
  LET i     == c.code[b][n].instr
      known == P!instr_fact(c, b, n, facts.in[b])
  IN  ForEachUse("ptr", [x \in UsedVars(i) |-> IF IsDerived(known, x) THEN {known[x]} ELSE {}], i)

store_to_load_forwarding(c, facts, b, n) ==
  LET i     == c.code[b][n].instr
      known == M!instr_fact(c, b, n, facts.in[b])
  IN  IF M!IsLoad(i) /\ M!Location(i.srcs[1]) \in DOMAIN known
      THEN <<[i EXCEPT !.srcs = <<known[M!Location(i.srcs[1])]>>], TRUE>>
      ELSE <<i, FALSE>>

\* Five passes visit every instruction: the new one, and whether the pass says that
\* it changed something.
Rewritten(c, pass, facts, b, n) ==
  CASE pass = "cp"   -> constant_propagation(c, facts, b, n)
    [] pass = "copy" -> copy_propagation(c, facts, b, n)
    [] pass = "cf"   -> constant_folding(c, b, n)
    [] pass = "ptr"  -> pointer_propagation(c, facts, b, n)
    [] pass = "stl"  -> store_to_load_forwarding(c, facts, b, n)

rewrite_all(c, pass, facts) ==
  LET done == [b \in c.blocks |-> [n \in DOMAIN c.code[b] |-> Rewritten(c, pass, facts, b, n)]]
  IN  [ cfg |-> [c EXCEPT !.code = [b \in c.blocks |->
                   [n \in DOMAIN c.code[b] |-> [c.code[b][n] EXCEPT !.instr = done[b][n][1]]]]],
        changed |-> \E b \in c.blocks : \E n \in DOMAIN c.code[b] : done[b][n][2] ]

-----------------------------------------------------------------------------
\* The sixth removes instructions.

\* A broken variant: an operation is dropped although it would trap.
has_side_effect_CallsOnly(i) == IsCall(i)

\* Div and Mod can trap.
has_side_effect(i) == IsCall(i) \/ (i.op = "Binary" /\ i.fn \in {"Div", "Mod"})

IsDead(c, facts, b, n) ==
  LET i == c.code[b][n].instr
  IN  /\ def_of_instr(i) # {} /\ ~has_side_effect(i)
      /\ def_of_instr(i) \cap L!instr_fact(c, b, n, facts.out[b]) = {}

Kept(c, facts, b) == {n \in DOMAIN c.code[b] : ~IsDead(c, facts, b, n)}

\* The k-th of the places in `kept`: k of them are no further.
Upto(kept, n)   == {m \in kept : m <= n}
KeptAt(kept, k) == CHOOSE n \in kept : Cardinality(Upto(kept, n)) = k

Retain(c, facts, b) ==
  LET kept == Kept(c, facts, b)
  IN  [k \in 1 .. Cardinality(kept) |-> c.code[b][KeptAt(kept, k)]]

dce(c, facts) ==
  [ cfg     |-> [c EXCEPT !.code = [b \in c.blocks |-> Retain(c, facts, b)]],
    changed |-> \E b \in c.blocks : Kept(c, facts, b) # DOMAIN c.code[b] ]

run_pass(c, pass, facts) ==
  IF pass = "dce" THEN dce(c, facts) ELSE rewrite_all(c, pass, facts)

-----------------------------------------------------------------------------

\* The emitter panics on an immediate that is assigned to (emit_dst).
Emittable(c) == \A li \in Instructions(c) : \A v \in Range(li.instr.dst) : v.kind # "Imm"
=============================================================================
