------------------------------ MODULE Machine ------------------------------
(***************************************************************************)
(* What a function of the IR does when it runs, as far as its caller, its     *)
(* callees and the memory can tell.  The emitter maps each instruction to     *)
(* WASM one to one (emitter.rs), so this is also what the compiled code does.  *)
(*                                                                         *)
(* A machine state has                                                       *)
(*    pc      the program point (Wtac)                                       *)
(*    env     the variables that have a value                                *)
(*    log     the stores and calls so far; memory is what the log says        *)
(*    status  "running", "returned", "trapped", or "unassigned" when a local   *)
(*            is read that was never assigned                                *)
(*    result  the returned values                                           *)
(***************************************************************************)
EXTENDS Wtac, Arith

CONSTANTS
  Torn,         \* what a load gives that sees parts of several stores
  Callee(_,_,_) \* input, name, number of the call -> what a callee does:
                \* [ret |-> value, globals |-> new values, stores |-> stores]

Store(addr, width, value) == [kind |-> "store", addr |-> addr, width |-> width, value |-> value]

Width(t) == IF t = "I32" THEN 4 ELSE 8

Overlaps(s, addr, width) ==
  s.kind = "store" /\ s.addr < addr + width /\ addr < s.addr + s.width

\* Memory starts as zeros.
Load(log, addr, width) ==
  LET hits   == {k \in DOMAIN log : Overlaps(log[k], addr, width)}
      latest == log[CHOOSE k \in hits : \A j \in hits : j <= k]
  IN  IF hits = {} THEN 0
      ELSE IF latest.addr = addr /\ latest.width = width THEN latest.value ELSE Torn

Address(m, v) == m.env[v.name] + v.offset

Eval(m, v) ==
  CASE v.kind = "Imm" -> v.int
    [] v.kind = "Var" -> m.env[v.name]
    [] v.kind = "Mem" -> Load(m.log, Address(m, v), Width(v.t))

Advance(m) == [m EXCEPT !.pc[2] = @ + 1]

\* Assigning to a variable, or storing.
Assign(m, dst, value) ==
  IF dst.kind = "Var"
  THEN [Advance(m) EXCEPT !.env = Update(@, dst.name, value)]
  ELSE [Advance(m) EXCEPT !.log = Append(@, Store(Address(m, dst), Width(dst.t), value))]

\* A broken variant: the values are pushed, and no `return` is behind them.
Stopped_FallingThrough(m, status) ==
  IF status = "returned" THEN Advance(m) ELSE [m EXCEPT !.status = status]

Stopped(m, status) == [m EXCEPT !.status = status]

\* An operation that may trap.
Compute(m, dst, results) ==
  IF results = {} THEN Stopped(m, "trapped")
  ELSE Assign(m, dst, CHOOSE r \in results : TRUE)

CallsSoFar(m) == Cardinality({k \in DOMAIN m.log : m.log[k].kind = "call"})

\* A call is logged with everything the callee may look at; then it may change
\* every global and store through any pointer.
Call(c, input, m, i) ==
  LET effect == Callee(input, i.fn, CallsSoFar(m))
      event  == [ kind |-> "call", fn |-> i.fn,
                  args |-> [k \in DOMAIN i.srcs |-> Eval(m, i.srcs[k])],
                  globals |-> [g \in c.globals |-> m.env[g]] ]
      logged == [m EXCEPT !.log = Append(@, event) \o effect.stores]
      after  == [logged EXCEPT !.env = Override(@, effect.globals)]
  IN  IF i.dst = <<>> THEN Advance(after) ELSE Assign(after, i.dst[1], effect.ret)

\* i32 arithmetic is on addresses, which stay far from the end of either range.
Operate(i, m1, m2) == RunBinary(IntBits, i.fn, m1, m2)

Execute(c, input, m, i) ==
  CASE ~ UsedVars(i) \subseteq DOMAIN m.env -> Stopped(m, "unassigned")
    [] OTHER ->
  CASE i.op = "Copy"   -> Assign(m, i.dst[1], Eval(m, i.srcs[1]))
    [] i.op = "Unary"  -> Compute(m, i.dst[1], RunUnary(i.fn, Eval(m, i.srcs[1])))
    [] i.op = "Binary" -> Compute(m, i.dst[1], Operate(i, Eval(m, i.srcs[1]), Eval(m, i.srcs[2])))
    [] i.op = "FCall"  -> Call(c, input, m, i)
    [] i.op = "BrIf"   ->
         LET others == c.succs[m.pc[1]] \ {i.target}
         IN  [m EXCEPT !.pc = StartOf(c, IF Eval(m, i.srcs[1]) # 0 THEN i.target
                                         ELSE CHOOSE s \in others : TRUE)]
    [] i.op = "Return" ->
         LET vals == [k \in DOMAIN i.srcs |-> Eval(m, i.srcs[k])]
         IN  [Stopped(m, "returned") EXCEPT !.result = vals]

Step(c, input, m) ==
  IF HasNext(c, m.pc)
  THEN Execute(c, input, m, NextInstr(c, m.pc))
  ELSE [m EXCEPT !.pc = CHOOSE p \in After(c, m.pc) : TRUE]

Start(c, input) ==
  [ pc |-> StartOf(c, c.entry), env |-> input.env, log |-> <<>>,
    status |-> "running", result |-> <<>> ]
=============================================================================
