------------------------------ MODULE Lockstep ------------------------------
(***************************************************************************)
(* A function and what one pass makes of it (opt/optimizer.rs, run_pass), run  *)
(* side by side on the same input: whenever the source takes a step, the       *)
(* target takes the same step, or none if dce removed the instruction.  What   *)
(* each pass relies on is a relation between the facts of its analysis and the *)
(* state of the two runs.                                                    *)
(***************************************************************************)
EXTENDS Machine, Passes

CONSTANTS
  Tasks,      \* [cfg, pass, facts]: what a pass may be given, its analysis done
  Inputs,     \* what a function may be called with: [env, ...]
  MaxEvents   \* stores and calls after which a run is given up

LF == INSTANCE Dataflow WITH Cfgs <- {}, Direction <- L!Direction, FlowBlock <- L!FlowBlock,
        Combine <- L!Combine, InitIn <- L!InitIn, InitOut <- L!InitOut
RF == INSTANCE Dataflow WITH Cfgs <- {}, Direction <- R!Direction, FlowBlock <- R!FlowBlock,
        Combine <- R!Combine, InitIn <- R!InitIn, InitOut <- R!InitOut
AF == INSTANCE Dataflow WITH Cfgs <- {}, Direction <- A!Direction, FlowBlock <- A!FlowBlock,
        Combine <- A!Combine, InitIn <- A!InitIn, InitOut <- A!InitOut
MF == INSTANCE Dataflow WITH Cfgs <- {}, Direction <- M!Direction, FlowBlock <- M!FlowBlock,
        Combine <- M!Combine, InitIn <- M!InitIn, InitOut <- M!InitOut

-----------------------------------------------------------------------------
\* What the code generator and Cfg::new see to, and every pass keeps.

IsSeq(s) == Len(s) \in Nat /\ s = [k \in 1 .. Len(s) |-> s[k]]

IsOperand(v) ==
  \/ v.kind = "Var" /\ v = Var(v.name)
  \/ v.kind = "Mem" /\ v = Mem(v.name, v.offset, v.t) /\ v.offset \in Int
  \/ v.kind = "Imm" /\ v = Imm(v.int, v.t) /\ v.int \in Ints(IntBits)

IsVar(v) == v.kind = "Var" /\ v = Var(v.name)

\* Values are loaded into temporaries: no variable is overwritten by what it points
\* to.  Records and results that are returned, and the elements of arrays that are
\* joined, are copied from memory to memory.
IsCopy(i) ==
  /\ i.op = "Copy" /\ i = Copy(i.dst[1], i.srcs[1])
  /\ IsOperand(i.dst[1]) /\ i.dst[1].kind # "Imm" /\ IsOperand(i.srcs[1])
  /\ i.dst[1].kind = "Var" /\ i.srcs[1].kind = "Mem" => i.dst[1].name # i.srcs[1].name

IsUnary(i) ==
  /\ i.op = "Unary" /\ i = Unary(i.dst[1], i.fn, i.srcs[1], i.t)
  /\ IsVar(i.dst[1]) /\ IsOperand(i.srcs[1]) /\ i.fn \in {"Neg", "Not", "Wrap"}

\* The type checker gives And and Or operands that are Booleans.
IsBinary(i) ==
  /\ i.op = "Binary" /\ i = Binary(i.dst[1], i.fn, i.srcs[1], i.srcs[2], i.t)
  /\ IsVar(i.dst[1]) /\ IsOperand(i.srcs[1]) /\ IsOperand(i.srcs[2])
  /\ i.fn \in {"Add", "Sub", "Mult", "Div", "Mod", "And", "Or"} \cup Comparisons
  /\ i.fn \in {"And", "Or"} => \A k \in {1, 2} : i.srcs[k].kind = "Imm" => i.srcs[k].int \in {0, 1}

AreOperands(vals) == IsSeq(vals) /\ \A k \in 1 .. Len(vals) : IsOperand(vals[k])

IsFCall(i) ==
  /\ i.op = "FCall" /\ i = FCall(i.dst, i.fn, i.srcs)
  /\ i.dst = <<>> \/ (i.dst = <<i.dst[1]>> /\ IsVar(i.dst[1]))
  /\ AreOperands(i.srcs)

IsBrIf(i) == i.op = "BrIf" /\ i = BrIf(i.srcs[1], i.target) /\ IsOperand(i.srcs[1])

IsReturn(i) == i.op = "Return" /\ i = Return(i.srcs) /\ AreOperands(i.srcs)

IsInstruction(i) == IsCopy(i) \/ IsUnary(i) \/ IsBinary(i) \/ IsFCall(i) \/ IsBrIf(i) \/ IsReturn(i)

\* A branch or a return ends its block, the exit and no other block returns, and the
\* entry has no label to branch to.
IsFunction(c) ==
  /\ c = [ blocks |-> c.blocks, succs |-> c.succs, preds |-> c.preds, code |-> c.code,
           entry |-> c.entry, exit |-> c.exit, params |-> c.params, globals |-> c.globals ]
  /\ c.preds \in [c.blocks -> SUBSET c.blocks]
  /\ c.succs \in [c.blocks -> SUBSET c.blocks]
  /\ \A a, b \in c.blocks : a \in c.preds[b] <=> b \in c.succs[a]
  /\ c.entry \in c.blocks /\ c.preds[c.entry] = {}
  /\ c.exit \in c.blocks /\ c.succs[c.exit] = {}
  /\ \A b \in c.blocks \ {c.exit} : c.succs[b] # {}
  /\ \A b \in c.blocks :
       /\ IsSeq(c.code[b])
       /\ b = c.exit => Len(c.code[b]) > 0 /\ c.code[b][Len(c.code[b])].instr.op = "Return"
       /\ \A n \in 1 .. Len(c.code[b]) :
            LET li == c.code[b][n]
            IN  /\ li = [id |-> li.id, instr |-> li.instr] /\ IsInstruction(li.instr)
                /\ li.instr.op \in {"BrIf", "Return"} => n = Len(c.code[b])
                /\ li.instr.op = "Return" => b = c.exit
                /\ li.instr.op = "BrIf" =>
                     li.instr.target \in c.succs[b] /\ c.succs[b] \ {li.instr.target} # {}

-----------------------------------------------------------------------------
\* What the solver returns (Settled, of module LeastSolution): facts that
\* satisfy the equations of the analysis.  Folding has no analysis, and for
\* pointer_propagation any facts will do.

CopySolution(c, facts) ==
  \A b \in c.blocks : /\ facts.in[b] = AF!Joined(c.preds[b], facts.out, A!InitIn(c)[b])
                      /\ facts.out[b] = A!FlowBlock(c, b, facts.in[b])

ReachSolution(c, facts) ==
  \A b \in c.blocks : /\ facts.in[b] = RF!Joined(c.preds[b], facts.out, R!InitIn(c)[b])
                      /\ facts.out[b] = R!FlowBlock(c, b, facts.in[b])

LoadSolution(c, facts) ==
  \A b \in c.blocks : /\ facts.in[b] = MF!Joined(c.preds[b], facts.out, M!InitIn(c)[b])
                      /\ facts.out[b] = M!FlowBlock(c, b, facts.in[b])

LiveSolution(c, facts) ==
  \A b \in c.blocks : /\ facts.out[b] = LF!Joined(c.succs[b], facts.in, L!InitOut(c)[b])
                      /\ facts.in[b] = L!FlowBlock(c, b, facts.out[b])

IsSolution(pass, c, facts) ==
  /\ pass = "cp"   => ReachSolution(c, facts)
  /\ pass = "copy" => CopySolution(c, facts)
  /\ pass = "stl"  => LoadSolution(c, facts)
  /\ pass = "dce"  => LiveSolution(c, facts)

ASSUME TasksAssumption ==
  \A task \in Tasks :
    /\ task.pass \in {"cp", "copy", "cf", "dce", "ptr", "stl"}
    /\ IsFunction(task.cfg)
    /\ IsSolution(task.pass, task.cfg, task.facts)

-----------------------------------------------------------------------------
\* What three of the passes take for granted without looking.

\* constant_propagation knows an instruction by its id, and what the function starts
\* with by the id 0.  Ids are distinct while every list of a function is shorter than
\* MaxBlockLen.
DistinctIds(c) == \A li, lj \in Instructions(c) : li.id # 0 /\ (li.id = lj.id => li = lj)

\* A copy from memory to memory enters the place that it reads as what is known of the
\* place that it writes, and a later store to the place that was read does not take
\* this back.  A function does not load again what it copied in this way: it copies
\* through the pointer its results go to and through pointers computed for one copy.
LoadsValues(c, found) ==
  \A b \in c.blocks : \A n \in 1 .. Len(c.code[b]) :
    LET i     == c.code[b][n].instr
        known == M!instr_fact(c, b, n, found.in[b])
    IN  M!IsLoad(i) /\ M!Location(i.srcs[1]) \in DOMAIN known =>
          known[M!Location(i.srcs[1])].kind # "Mem"

CopiesMemory(i) == i.op = "Copy" /\ i.dst[1].kind = "Mem" /\ i.srcs[1].kind = "Mem"

\* Instruction n of block b copies from memory to memory through a pointer and the base
\* that it is derived from.
ThroughItsBase(c, found, b, n) ==
  LET i     == c.code[b][n].instr
      known == P!instr_fact(c, b, n, found.in[b])
  IN  CopiesMemory(i) /\ \E p \in UsedVars(i) : IsDerived(known, p) /\ CopiesThrough(i, known[p][1])

\* pointer_propagation goes by bindings that outlive an assignment to the pointer.  Such
\* a copy would be changed; the code generator makes none, as it copies to where results
\* go, from records in frames, and between elements whose index is counted.
PointersApart(c, found) ==
  \A b \in c.blocks : \A n \in 1 .. Len(c.code[b]) : ~ThroughItsBase(c, found, b, n)

Relies(pass, c, found) ==
  /\ pass = "cp"  => DistinctIds(c)
  /\ pass = "stl" => LoadsValues(c, found)
  /\ pass = "ptr" => PointersApart(c, found)

ASSUME RelianceAssumption == \A task \in Tasks : Relies(task.pass, task.cfg, task.facts)

-----------------------------------------------------------------------------
\* Variables with values that a register can hold.
IsEnv(env) == env \in [DOMAIN env -> Ints(IntBits)]

\* A function is called with its parameters and the globals.
ASSUME InputsAssumption ==
  \A inp \in Inputs :
    /\ IsEnv(inp.env)
    /\ \A task \in Tasks :
         task.cfg.globals \subseteq DOMAIN inp.env
           /\ DOMAIN inp.env \subseteq task.cfg.params \cup task.cfg.globals

IsStore(event) ==
  /\ event.kind = "store" /\ event = Store(event.addr, event.width, event.value)
  /\ event.addr \in Int /\ event.width \in {4, 8} /\ event.value \in Ints(IntBits)

\* A callee returns a value, may change globals and may store anywhere.
IsEffect(c, effect) ==
  /\ effect.ret \in Ints(IntBits)
  /\ DOMAIN effect.globals \subseteq c.globals
  /\ IsEnv(effect.globals)
  /\ IsSeq(effect.stores) /\ \A k \in 1 .. Len(effect.stores) : IsStore(effect.stores[k])

ASSUME CalleeAssumption ==
  \A inp \in Inputs : \A task \in Tasks : \A li \in Instructions(task.cfg) : \A k \in 0 .. MaxEvents :
    IsCall(li.instr) => IsEffect(task.cfg, Callee(inp, li.instr.fn, k))

ASSUME BoundsAssumption == MaxEvents \in Nat /\ Torn \in Ints(IntBits)

-----------------------------------------------------------------------------

VARIABLES
  cfg, pass, facts,  \* the source, the pass and what its analysis found
  optimized,         \* what the pass makes of it
  input,             \* of both runs
  source, target     \* the states of the two runs

vars == <<cfg, pass, facts, optimized, input, source, target>>

Init ==
  /\ \E task \in Tasks : cfg = task.cfg /\ pass = task.pass /\ facts = task.facts
  /\ optimized = run_pass(cfg, pass, facts).cfg
  /\ input \in Inputs
  /\ source = Start(cfg, input)
  /\ target = Start(optimized, input)

\* The source is about to execute an instruction that dce removed.
Removed ==
  /\ pass = "dce" /\ HasNext(cfg, source.pc)
  /\ IsDead(cfg, facts, source.pc[1], source.pc[2] + 1)

Next ==
  /\ source.status = "running" /\ Len(source.log) <= MaxEvents
  /\ source' = Step(cfg, input, source)
  /\ target' = IF Removed THEN target ELSE Step(optimized, input, target)
  /\ UNCHANGED <<cfg, pass, facts, optimized, input>>

Spec == Init /\ [][Next]_vars

-----------------------------------------------------------------------------
\* The state of the source.

IsEvent(event) == IsStore(event) \/ event.kind = "call"

IsLog(log) == IsSeq(log) /\ \A k \in 1 .. Len(log) : IsEvent(log[k])

IsState(c, m) ==
  /\ m = [pc |-> m.pc, env |-> m.env, log |-> m.log, status |-> m.status, result |-> m.result]
  /\ m.pc \in Points(c)
  /\ IsEnv(m.env) /\ c.globals \subseteq DOMAIN m.env
  /\ IsLog(m.log)
  /\ m.status \in {"running", "returned", "trapped", "unassigned"}
  /\ m.status = "running" => HasNext(c, m.pc) \/ c.succs[m.pc[1]] # {}

\* No step takes the source out of the function or past its end, loses a global or
\* leaves a variable or a store with a value that no register can hold.
TypeOK == IsState(cfg, source)

-----------------------------------------------------------------------------
\* What the passes rely on, of a state m of the source of a pass that found `found`.

\* Every variable has been given its value by a definition that reaches the point; if
\* that copies an immediate, the variable has this value.
ConstantsHold(c, found, m) ==
  LET fact == R!Carried(c, m.pc[1], found.in[m.pc[1]])[m.pc[2]]
  IN  \A x \in DOMAIN m.env :
        \E d \in fact : d[2] = x /\ \A v \in get_constants(c, d[1]) : m.env[x] = v.int

\* Both sides of an available copy have a value, the same.
CopiesHold(c, found, m) ==
  LET fact == A!Carried(c, m.pc[1], found.in[m.pc[1]])[m.pc[2]]
  IN  \A pair \in fact : /\ pair = <<pair[1], pair[2]>>
                         /\ {pair[1], pair[2]} \subseteq DOMAIN m.env
                         /\ m.env[pair[1]] = m.env[pair[2]]

\* What is known of a location is what a load from there gives; of another place in
\* memory nothing is claimed.
LoadHolds(m, loc, v) ==
  v.kind # "Mem" =>
    /\ loc.base \in DOMAIN m.env /\ loc.offset \in Int
    /\ v.kind = "Imm" \/ (IsVar(v) /\ v.name \in DOMAIN m.env)
    /\ Load(m.log, m.env[loc.base] + loc.offset, Width(loc.t)) = Eval(m, v)

LoadsHold(c, found, m) ==
  LET fact == M!Carried(c, m.pc[1], found.in[m.pc[1]])[m.pc[2]]
  IN  \A loc \in DOMAIN fact : LoadHolds(m, loc, fact[loc])

\* The two runs agree on every variable that is live.
LiveAt(c, found, p) == L!Carried(c, p[1], found.out[p[1]])[Len(c.code[p[1]]) - p[2]]

Agree(vs, m1, m2) ==
  \A x \in vs \cap DOMAIN m1.env : x \in DOMAIN m2.env /\ m2.env[x] = m1.env[x]

\* The target is behind the same instructions that are left.
Behind(c, found, p) == <<p[1], Cardinality(Upto(Kept(c, found, p[1]), p[2]))>>

InStep(c, found, m1, m2) ==
  /\ m2.pc = Behind(c, found, m1.pc)
  /\ m2.log = m1.log /\ m2.status = m1.status /\ m2.result = m1.result
  /\ Agree(LiveAt(c, found, m1.pc), m1, m2)

\* While both run, the facts of the analysis hold and the two are in step.
Simulation ==
  Emittable(optimized) /\ source.status = "running" =>
    /\ IF pass = "dce" THEN InStep(cfg, facts, source, target) ELSE target = source
    /\ pass = "cp"   => ConstantsHold(cfg, facts, source)
    /\ pass = "copy" => CopiesHold(cfg, facts, source)
    /\ pass = "stl"  => LoadsHold(cfg, facts, source)

\* A run that never reads a local that was never assigned has done the same before
\* and after the pass: the same stores and calls in the same order, seeing the same
\* globals; and it has come to the same end, with the same result and the same
\* globals, or both runs go on.
SameSoFar ==
  Emittable(optimized) /\ source.status # "unassigned" =>
    /\ target.status = source.status
    /\ target.log = source.log
    /\ target.result = source.result
    /\ source.status = "returned" => \A g \in cfg.globals : target.env[g] = source.env[g]
=============================================================================
