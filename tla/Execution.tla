------------------------------- MODULE Execution -------------------------------
(***************************************************************************)
(* What the generated program does: the emitter maps every instruction of WTAC to   *)
(* WASM one to one (emitter.rs), so this is the meaning of what it prints.  A run   *)
(* is one big step.  The state m of the machine has the globals (with               *)
(* __stack_pointer), the locals of the running function, the memory by address,      *)
(* the end of the heap, the label it is jumping to or "", the results and           *)
(* whether it is still all right.                                               *)
(***************************************************************************)
EXTENDS Generator

CONSTANTS
  Fuel,         \* jumps backward and calls after which a run is given up
  DataEnd, StackSize, MemBytes, Word   \* as in Memory

Layout == INSTANCE Memory WITH
  Depth <- 0, CallStack <- 0, FrameSizes <- {}, Magnitudes <- {}, Widths <- {},
  heap_ptr <- 0, sp <- 0, saved <- <<>>, blocks <- {}

\* The arithmetic of Arith, which Folding shows to be that of the instructions.
A == INSTANCE Arith WITH IntBits <- 28, HalfBits <- 28

Stop(m, why) == [m EXCEPT !.status = why]
Burn(m) == IF m.fuel = 0 THEN Stop(m, "fuel") ELSE [m EXCEPT !.fuel = @ - 1]

-----------------------------------------------------------------------------
\* Memory: cells of the width they were written with.

Width(wt) == IF wt = "I64" THEN 8 ELSE 4

Overlapping(mem, addr, width) ==
  {b \in {addr - 4, addr, addr + 4} \cap DOMAIN mem :
     b < addr + width /\ addr < b + mem[b].width}

Outside(addr, width) == addr < 0 \/ addr + width > MemBytes

\* What part of a cell holds is none of the values a program has written.
Torn == 777777

Load(mem, addr, width) ==
  LET over == Overlapping(mem, addr, width) IN
  CASE over = {} -> 0
    [] over = {addr} /\ mem[addr].width = width -> mem[addr].v
    [] OTHER -> Torn

StoreAt(m, addr, width, v) ==
  LET rest == DOMAIN m.mem \ Overlapping(m.mem, addr, width) IN
  IF Outside(addr, width) THEN Stop(m, "trap")
  ELSE [m EXCEPT !.mem = (addr :> [width |-> width, v |-> v]) @@ [b \in rest |-> m.mem[b]]]

-----------------------------------------------------------------------------
\* Values (emit_src, emit_dst, emit_addr_for_mem).

Lookup(m, x) == IF x \in DOMAIN m.env THEN m.env[x] ELSE m.globals[x]

Addr(m, v) == Lookup(m, v.name) + v.offset

Eval(m, v) ==
  CASE v.kind = "Imm" -> v.int
    [] v.kind = "Var" -> Lookup(m, v.name)
    [] v.kind = "Mem" -> Load(m.mem, Addr(m, v), Width(v.t))

Faults(m, v) == v.kind = "Mem" /\ Outside(Addr(m, v), Width(v.t))

Set(m, dst, v) ==
  CASE dst.kind = "Mem" -> StoreAt(m, Addr(m, dst), Width(dst.t), v)
    [] dst.name \in DOMAIN m.env -> [m EXCEPT !.env[dst.name] = v]
    [] OTHER -> [m EXCEPT !.globals[dst.name] = v]

-----------------------------------------------------------------------------
\* Instructions (emit_instruction).

RECURSIVE Exec(_, _, _)

FunNamed(P, f) == CHOOSE fun \in Range(P.funs) : fun.name = f

Allocate(m, dst, size) ==
  LET ptr == IF size < 0 THEN {} ELSE Layout!eta_malloc(m.heap, size) IN
  IF ptr = {} THEN Stop(m, "panic")
  ELSE LET p == CHOOSE p \in ptr : TRUE IN Set([m EXCEPT !.heap = p + size], dst, p)

\* Locals that are not parameters start as zeros.
Enter(fun, vals) ==
  [x \in {l[1] : l \in Range(fun.locals \o fun.params)} |->
     LET at == {k \in DOMAIN fun.params : fun.params[k][1] = x} IN
     IF at = {} THEN 0 ELSE vals[Max(at)]]

Call(P, m, i) ==
  LET fun  == FunNamed(P, i.fn)
      vals == [k \in DOMAIN i.srcs |-> Eval(m, i.srcs[k])]
      done == Exec(P, fun.body, [Burn(m) EXCEPT !.env = Enter(fun, vals)])
      back == [done EXCEPT !.env = m.env, !.jump = "", !.ret = <<>>] IN
  CASE i.fn = "eta_malloc" -> Allocate(m, i.dst[1], vals[1])
    [] done.status # "ok" \/ i.dst = <<>> -> back
    [] OTHER -> Set(back, i.dst[1], done.ret[1])

Compute(m, dst, results) ==
  IF results = {} THEN Stop(m, "trap") ELSE Set(m, dst, CHOOSE r \in results : TRUE)

Step(P, m, i) ==
  CASE \E k \in DOMAIN i.srcs : Faults(m, i.srcs[k]) -> Stop(m, "trap")
    [] i.op = "Copy"   -> Set(m, i.dst[1], Eval(m, i.srcs[1]))
    [] i.op = "Unary"  -> Compute(m, i.dst[1], A!perform_unary_op(i.fn, Eval(m, i.srcs[1])))
    [] i.op = "Binary" -> Compute(m, i.dst[1],
                            A!perform_binary_op(i.fn, Eval(m, i.srcs[1]), Eval(m, i.srcs[2])))
    [] i.op = "FCall"  -> Call(P, m, i)
    [] i.op = "Br"     -> [m EXCEPT !.jump = i.target]
    [] i.op = "BrIf"   -> IF Eval(m, i.srcs[1]) # 0 THEN [m EXCEPT !.jump = i.target] ELSE m
    [] i.op = "Return" -> [m EXCEPT !.jump = "return", !.ret = [k \in DOMAIN i.srcs |-> Eval(m, i.srcs[k])]]
    [] i.op \in {"Block", "Loop"} -> Exec(P, i.body, m)

\* A branch to a block leaves it, a branch to a loop starts it again.
Exec(P, code, m) ==
  IF code = <<>> \/ m.status # "ok" THEN m
  ELSE LET i     == Head(code)
           after == Step(P, m, i)
           here  == i.op \in {"Block", "Loop"} /\ after.jump = i.target
           go    == [after EXCEPT !.jump = ""] IN
       CASE after.status # "ok" -> after
         [] after.jump = ""     -> Exec(P, Tail(code), after)
         [] here /\ i.op = "Block" -> Exec(P, Tail(code), go)
         [] here /\ i.op = "Loop"  -> Exec(P, code, Burn(go))
         [] OTHER -> after

Boot(P) ==
  [globals |-> [d \in {"__stack_pointer"} |-> Layout!heap_base]
                 @@ [x \in {d.name : d \in Range(P.data)} |->
                       (CHOOSE d \in Range(P.data) : d.name = x).v.int],
   env |-> <<>>, mem |-> <<>>, heap |-> Layout!heap_base, jump |-> "", ret |-> <<>>,
   status |-> "ok", fuel |-> Fuel]

\* The runtime calls main without arguments.
Run(P) == Exec(P, FunNamed(P, "main").body, [Boot(P) EXCEPT !.env = Enter(FunNamed(P, "main"), <<>>)])

-----------------------------------------------------------------------------
\* What a WASM engine asks of a module before it runs it.

RECURSIVE Nested(_)
Nested(code) ==
  UNION {{code[k]} \cup (IF code[k].op \in {"Block", "Loop"} THEN Nested(code[k].body) ELSE {}) :
           k \in DOMAIN code}

TypeOf(P, fun, v) ==
  CASE v.kind = "Imm" -> v.t
    [] v.kind = "Mem" -> v.t
    [] v.kind = "Var" ->
         LET mine   == {l[2] : l \in {l \in Range(fun.locals \o fun.params) : l[1] = v.name}}
             shared == {d.t : d \in {d \in Range(P.data) : d.name = v.name}}
                         \cup (IF v = StackPointer THEN {"I32"} ELSE {}) IN
         IF mine \cup shared = {} THEN "none" ELSE CHOOSE t \in mine \cup shared : TRUE
    [] OTHER -> "none"

\* The operation has the width of its first operand.
FitsTypes(P, fun, i) ==
  LET T(v) == TypeOf(P, fun, v)
      src  == [k \in DOMAIN i.srcs |-> T(i.srcs[k])]
      dst  == [k \in DOMAIN i.dst |-> T(i.dst[k])] IN
  /\ \A v \in Range(i.srcs) \cup Range(i.dst) : v.kind = "Mem" => T(Var(v.name)) = "I32"
  /\ CASE i.op = "Copy" -> src = dst
       [] i.op = "Unary" -> <<src[1], dst[1]>> =
            (CASE i.fn = "Neg" -> <<"I64", "I64">> [] i.fn = "Not" -> <<"I32", "I32">>
               [] i.fn = "Wrap" -> <<"I64", "I32">>)
       [] i.op = "Binary" -> src[1] = src[2] /\ dst[1] = (IF i.fn \in A!Comparisons THEN "I32" ELSE src[1])
       [] i.op = "FCall" ->
            IF i.fn = "eta_malloc" THEN <<src, dst>> = <<<<"I32">>, <<"I32">>>>
            ELSE LET f == FunNamed(P, i.fn) IN
                 src = [k \in DOMAIN f.params |-> f.params[k][2]] /\ dst = f.ret
       [] i.op = "BrIf" -> src = <<"I32">>
       [] i.op = "Return" -> src = fun.ret
       [] OTHER -> TRUE

OnceEach(names) == \A j, k \in DOMAIN names : names[j] = names[k] => j = k

Names(ls) == [k \in DOMAIN ls |-> ls[k][1]]

\* Every branch goes to a construct it is in.
RECURSIVE Lands(_, _)
Lands(code, around) ==
  \A i \in Range(code) :
    CASE i.op \in {"Br", "BrIf"}    -> i.target \in around
      [] i.op \in {"Block", "Loop"} -> Lands(i.body, around \cup {i.target})
      [] OTHER -> TRUE

Valid(P) ==
  /\ OnceEach([k \in DOMAIN P.funs |-> P.funs[k].name])
  /\ OnceEach([k \in DOMAIN P.data |-> P.data[k].name])
  /\ \A fun \in Range(P.funs) :
       /\ OnceEach(Names(fun.locals \o fun.params))
       /\ \A i \in Nested(fun.body) : FitsTypes(P, fun, i)
       /\ Lands(fun.body, {})

\* The generator panicked.
Panicked(P) ==
  \/ P.panicked
  \/ \E fun \in Range(P.funs) : \E i \in Nested(fun.body) :
       \E v \in Range(i.srcs) \cup Range(i.dst) : v.kind = "Panic"
  \/ \E d \in Range(P.data) : d.v.kind = "Panic"
=============================================================================
