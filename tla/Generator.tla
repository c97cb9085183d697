------------------------------- MODULE Generator -------------------------------
(***************************************************************************)
(* WTAC generation (wtac/wtac_gen): what the checked tree becomes.  The state g   *)
(* of the generator is the counter behind fresh names, the symbol table, and for   *)
(* the function being generated the size of its frame, where the frame starts,     *)
(* where its results go and its locals; code is what it has emitted and v the      *)
(* value of the expression it generated last.  After a panic nothing is generated. *)
(***************************************************************************)
EXTENDS Typechecker, Wtac

Label(prefix, n) == prefix \o "." \o ToString(n)

Block(label, body) == [op |-> "Block", target |-> label, body |-> body, dst |-> <<>>, srcs |-> <<>>]
Loop(label, body)  == [op |-> "Loop", target |-> label, body |-> body, dst |-> <<>>, srcs |-> <<>>]
Br(label)          == [op |-> "Br", target |-> label, dst |-> <<>>, srcs |-> <<>>]

I32(n) == Imm(n, "I32")
I64(n) == Imm(n, "I64")

\* A tuple is an address.
convert_type(t) == IF t.c = "int" THEN "I64" ELSE "I32"

HasNoType(t) == t.c \in {"unknown", "fun"}   \* convert_type panics
HasNoSize(t) == HasNoType(t) \/ t.c = "tuple" \* and so does get_size

RetVal       == Var("__ret_val")
StackPointer == Var("__stack_pointer")

-----------------------------------------------------------------------------
\* builder.rs

Emit(g, i)      == [g EXCEPT !.code = Append(@, i)]
Require(g, b)   == IF b THEN g ELSE [g EXCEPT !.panicked = TRUE]
Fresh(g)        == [g EXCEPT !.next_id = @ + 1]
Local(g, x, wt) == [g EXCEPT !.locals = Append(@, <<x, wt>>)]
Result(g, v)    == [g EXCEPT !.v = v]
NoCode(g)       == [g EXCEPT !.code = <<>>]

make_wtac_var(g, wt) ==
  LET x == Label("tmp", g.next_id) IN Result(Local(Fresh(g), x, wt), Var(x))

\* The memory a variable points to.
mem_of_wtac_var(v, offset, wt) ==
  IF v.kind = "Var" THEN Mem(v.name, offset, wt) ELSE [kind |-> "Panic"]

copy_to(g, src, dst) == Emit(g, Copy(dst, src))

binary(g, fn, src1, src2, wt) ==
  LET h == make_wtac_var(g, wt) IN Emit(h, Binary(h.v, fn, src1, src2, wt))
unary(g, fn, src, wt) ==
  LET h == make_wtac_var(g, wt) IN Emit(h, Unary(h.v, fn, src, wt))
copy(g, src, wt) ==
  LET h == make_wtac_var(g, wt) IN copy_to(h, src, h.v)
call(g, f, args, wt) ==
  LET h == make_wtac_var(g, wt) IN Emit(h, FCall(<<h.v>>, f, args))

\* The value just computed, used once more.
AddTo(g, base)   == binary(g, "Add", base, g.v, "I32")
AddWide(g, n)    == binary(g, "Add", g.v, I64(n), "I64")
wrap(g)          == unary(g, "Wrap", g.v, "I32")

\* base + wrap(index * size)
ptr_offset(g, base, index, t) ==
  AddTo(wrap(binary(g, "Mult", index, I64(get_size(t)), "I64")), base)

-----------------------------------------------------------------------------
\* array.rs

\* The length goes in front of the data.
WithHeader(g, len) ==
  binary(copy_to(g, len, mem_of_wtac_var(g.v, 0, "I64")), "Add", g.v, I32(8), "I32")

create_simple_array(g, len, t) ==
  WithHeader(call(g, "eta_malloc", <<I32(len * get_size(t) + 8)>>, "I32"), I64(len))

Malloc(g) == call(g, "eta_malloc", <<g.v>>, "I32")

create_variable_array(g, len, t) ==
  WithHeader(Malloc(wrap(AddWide(binary(g, "Mult", len, I64(get_size(t)), "I64"), 8))), len)

\* A loop that g ends with; not holds the code of the guard, negated.
WhileLoop(g, exit, head, not, body) ==
  Emit([not EXCEPT !.code = g.code],
       Block(exit, <<Loop(head, not.code \o <<BrIf(not.v, exit)>> \o body \o <<Br(head)>>)>>))

\* guardInstr computes guard; the body goes back to it.
get_while_loop(g, guardInstr, guard, body) ==
  WhileLoop(g, Label("while_end", g.next_id), Label("while_loop", g.next_id),
            unary([Fresh(g) EXCEPT !.code = <<guardInstr>>], "Not", guard, "I32"), body)

Increment(g, ctr) == Emit(g, Binary(ctr, "Add", ctr, I64(1), "I64"))

CopyElement(g, src, ctr, dctr, wt) ==
  Increment(Increment(copy_to(g, mem_of_wtac_var(src, 0, wt), mem_of_wtac_var(g.v, 0, wt)), ctr), dctr)

CopyBody(guard, src, dst, t, ctr, dctr) ==
  LET from == ptr_offset(NoCode(guard), src, ctr, t) IN
  CopyElement(ptr_offset(from, dst, dctr, t), from.v, ctr, dctr, convert_type(t))

CopyLoop(guard, body, ctr, bound) ==
  get_while_loop([body EXCEPT !.code = guard.code],
                 Binary(guard.v, "Lt", ctr, bound, "I32"), guard.v, body.code)

build_copy_loop(g, src, dst, t, bound, start) ==
  IF g.panicked THEN g ELSE
  LET ctr   == copy(g, I64(0), "I64")
      dctr  == copy(ctr, start, "I64")
      guard == make_wtac_var(dctr, "I32") IN
  CopyLoop(guard, CopyBody(guard, src, dst, t, ctr.v, dctr.v), ctr.v, bound)

-----------------------------------------------------------------------------
\* expr.rs

convert_binop ==
  ("Plus" :> "Add") @@ ("Minus" :> "Sub") @@ ("Asterisk" :> "Mult") @@ ("Div" :> "Div") @@
  ("Mod" :> "Mod") @@ ("And" :> "And") @@ ("Bar" :> "Or") @@ ("LessThan" :> "Lt") @@
  ("LessEqual" :> "Leq") @@ ("GreaterThan" :> "Gt") @@ ("GreaterEqual" :> "Geq") @@
  ("DoubleEquals" :> "Eq") @@ ("NotEquals" :> "Neq")

record_size(G, tag) ==
  LET ms == G[tag].members IN
  IF ms = <<>> THEN 0
  ELSE round_to_n(Last(ms).offset + get_size(Last(ms).t), Max({get_align(m.t) : m \in Range(ms)}))

\* In a result, a record is its fields and not its address.
ResultSize(G, t) == IF t.c = "record" THEN record_size(G, t.tag) ELSE get_size(t)

SumOfSizes(G, ts) == FoldLeft(LAMBDA n, t : n + ResultSize(G, t), 0, ts)

IsSimple(ts) == Len(ts) = 1 /\ ts[1].c # "record"

\* The address of the next free part of the frame, which takes size bytes.
Reserve(g, size) ==
  LET ptr == binary(g, "Add", g.rsp, I32(g.offset), "I32")
      dst == copy(ptr, ptr.v, "I32") IN
  [dst EXCEPT !.offset = @ + round_to_n(size, 16)]

RECURSIVE gen_expression(_, _)

\* A place is loaded.
Loaded(g, t) ==
  IF g.v.kind = "Mem" THEN Require(copy(g, g.v, convert_type(t)), ~HasNoType(t)) ELSE g

gen_and_convert_expression(g, e) == Loaded(gen_expression(g, e), typecheck_expression(g.G, e))

\* One after the other; vals are their values.
AndValue(acc, g) == [g |-> g, vals |-> Append(acc.vals, g.v)]
NoValues(g)      == [g |-> g, vals |-> <<>>]

gen_all(g, es) ==
  FoldLeft(LAMBDA acc, e : AndValue(acc, gen_and_convert_expression(acc.g, e)), NoValues(g), es)

StoreElement(g, arr, offset, wt) == copy_to(g, g.v, mem_of_wtac_var(arr, offset, wt))

FillArray(g, es, t) ==
  Result(FoldLeft(LAMBDA h, i : StoreElement(gen_and_convert_expression(h, es[i]), g.v,
                                             (i - 1) * get_size(t), convert_type(t)),
                  g, [i \in DOMAIN es |-> i]), g.v)

gen_array_lit(g, es) ==
  LET t == IF es = <<>> THEN IntT ELSE typecheck_expression(g.G, es[1]) IN
  FillArray(create_simple_array(Require(g, ~HasNoSize(t)), Len(es), t), es, t)

CallInto(dst, f, vals) == Emit(dst, FCall(<<>>, f, <<dst.v>> \o vals))

gen_call(args, f, ret_t) ==
  IF IsSimple(ret_t) THEN call(args.g, f, args.vals, convert_type(ret_t[1]))
  ELSE CallInto(Reserve(args.g, SumOfSizes(args.g.G, ret_t)), f, args.vals)

StoreMembers(dst, vals, ms) ==
  FoldLeft(LAMBDA h, i : copy_to(h, vals[i], mem_of_wtac_var(dst.v, ms[i].offset, convert_type(ms[i].t))),
           dst, [i \in DOMAIN ms |-> i])

gen_record_lit(args, tag) ==
  StoreMembers(Reserve(args.g, record_size(args.g.G, tag)), args.vals, args.g.G[tag].members)

\* The index is computed before the array.
Element(g, a, i, t) ==
  LET ptr == ptr_offset([i EXCEPT !.code = g.code \o i.code \o a.code], a.v, i.v, t) IN
  Result(Require(ptr, ~HasNoSize(t)), mem_of_wtac_var(ptr.v, 0, convert_type(t)))

gen_subscript(g, e, idx) ==
  LET a == gen_and_convert_expression(NoCode(g), e) IN
  Element(g, a, gen_and_convert_expression(NoCode(a), idx), typecheck_expression(g.G, e).of[1])

\* A nested place stays a place.
Field(g, m) == Result(g, mem_of_wtac_var(g.v, m.offset, convert_type(m.t)))

gen_dot(g, e, field) ==
  Field(gen_expression(g, e),
        SelectSeq(g.G[typecheck_expression(g.G, e).tag].members, LAMBDA x : x.name = field)[1])

CopyBoth(arr, src1, src2, len1, len2, t) ==
  LET fill == build_copy_loop(arr, src1, arr.v, t, len1, I64(0)) IN
  Result(build_copy_loop(fill, src2, arr.v, t, len2, len1), arr.v)

Joined(g, src1, src2, len1, len2, t) ==
  CopyBoth(create_variable_array(Require(g, ~HasNoSize(t)), g.v, t), src1, src2, len1, len2, t)

gen_array_concat(g, src1, src2, t) ==
  LET left  == call(g, "length", <<src1>>, "I64")
      right == call(left, "length", <<src2>>, "I64") IN
  Joined(binary(right, "Add", left.v, right.v, "I64"), src1, src2, left.v, right.v, t)

Compares(op) == op \in Ordering \cup {"DoubleEquals", "NotEquals"}

Operation(g, op, src1, src2, t) ==
  IF g.panicked THEN g
  ELSE IF op = "Plus" /\ is_arr(t) THEN gen_array_concat(g, src1, src2, t.of[1])
  ELSE binary(g, convert_binop[op], src1, src2, IF Compares(op) THEN "I32" ELSE convert_type(t))

gen_binary(g, op, e1, e2) ==
  LET t == typecheck_expression(g.G, e1)
      a == gen_and_convert_expression(Require(g, t.c # "tuple"), e1)
      b == gen_and_convert_expression(a, e2) IN
  Operation(b, op, a.v, b.v, t)

gen_unary(g, op) ==
  IF op = "Minus" THEN unary(g, "Neg", g.v, "I64") ELSE unary(g, "Not", g.v, "I32")

gen_expression(g, e) ==
  IF g.panicked THEN g ELSE
  CASE e.k = "int"   -> Result(g, I64(e.n))
    [] e.k = "bool"  -> Result(g, I32(e.n))
    [] e.k = "var"   -> Result(g, Var(e.name))
    [] e.k = "array" -> gen_array_lit(g, e.es)
    [] e.k = "binary" -> gen_binary(g, e.name, e.es[1], e.es[2])
    [] e.k = "unary" -> gen_unary(gen_and_convert_expression(g, e.es[1]), e.name)
    [] e.k = "call"  -> IF IsRecord(g.G, e.name) THEN gen_record_lit(gen_all(g, e.es), e.name)
                        ELSE gen_call(gen_all(g, e.es), e.name, g.G[e.name].t.of[2].of)
    [] e.k = "subscript" -> gen_subscript(g, e.es[1], e.es[2])
    [] e.k = "dot"   -> gen_dot(g, e.es[1], e.name)

\* array.rs again: one loop for each dimension but the last.
RowsBody(slot, row, ctr) ==
  Increment(copy_to(slot, row, mem_of_wtac_var(slot.v, 0, "I32")), ctr)

RowsLoop(arr, body, guard, ctr, len) ==
  Result(get_while_loop(copy_to([body EXCEPT !.code = arr.code], I64(0), ctr),
                        Binary(guard, "Lt", ctr, len, "I32"), guard, body.code), arr.v)

Rows(arr, row, t, len) ==
  LET ctr   == make_wtac_var(row, "I64")
      guard == make_wtac_var(ctr, "I32") IN
  RowsLoop(arr, RowsBody(ptr_offset(guard, arr.v, ctr.v, t), row.v, ctr.v), guard.v, ctr.v, len)

RECURSIVE array_init_helper(_, _, _)
InitRows(arr, t, dims, len) ==
  IF Len(dims) = 1 THEN arr
  ELSE Rows(arr, array_init_helper(NoCode(arr), t.of[1], Tail(dims)), t, len)

array_init_helper(g, t, dims) ==
  LET len == gen_and_convert_expression(g, dims[1]) IN
  InitRows(create_variable_array(len, len.v, t), t, dims, len.v)

-----------------------------------------------------------------------------
\* stmt.rs

\* A broken variant: leaves without taking the frame off.
Leave_Directly(g) == Emit(g, Return(<<RetVal>>))

Leave(g) == Emit(g, Br("func_exit"))

\* Copies each of ts from src on to dst on, one behind the other.
CopyTuple(g, src, dst, offset, ts) ==
  FoldLeft(LAMBDA acc, t :
             [g |-> copy_to(acc.g, mem_of_wtac_var(src, acc.n, convert_type(t)),
                            mem_of_wtac_var(dst, offset + acc.n, convert_type(t))),
              n |-> acc.n + get_size(t)],
           [g |-> g, n |-> 0], ts)

CopyRecord(g, src, dst, offset, ms) ==
  FoldLeft(LAMBDA h, m :
             copy_to(h, mem_of_wtac_var(src, m.offset, convert_type(m.t)),
                     mem_of_wtac_var(dst, offset + m.offset, convert_type(m.t))),
           g, ms)

\* One result through the return pointer; n is where the next one goes.
PassTuple(g, n, copied) == [g |-> copied.g, n |-> n + copied.n]

PassOn(g, n, t) ==
  CASE t.c = "tuple"  -> PassTuple(g, n, CopyTuple(g, g.v, g.ret_ptr, n, t.of))
    [] t.c = "record" -> [g |-> CopyRecord(g, g.v, g.ret_ptr, n, g.G[t.tag].members),
                          n |-> n + record_size(g.G, t.tag)]
    [] OTHER -> [g |-> copy_to(g, g.v, mem_of_wtac_var(g.ret_ptr, n, convert_type(t))),
                 n |-> n + get_size(t)]

gen_results(g, es) ==
  FoldLeft(LAMBDA acc, e : PassOn(gen_and_convert_expression(acc.g, e), acc.n,
                                  typecheck_expression(acc.g.G, e)),
           [g |-> g, n |-> 0], es).g

CopyValue(g, dst) == copy_to(g, g.v, dst)

gen_return_of(g, es, ts) ==
  CASE ts = <<>>    -> g
    [] IsSimple(ts) -> CopyValue(gen_and_convert_expression(g, es[1]), RetVal)
    [] OTHER        -> gen_results(g, es)

gen_return(g, es) == Leave(gen_return_of(g, es, unfold_tuple_types(typecheck_all(g.G, es))))

gen_local_decl(g, vd) ==
  IF vd.init = <<>> THEN g ELSE CopyValue(gen_expression(g, vd.init[1]), Var(vd.name))

gen_local_array_decl(g, vd, dims) ==
  CASE vd.init # <<>> -> CopyValue(gen_and_convert_expression(g, vd.init[1]), Var(vd.name))
    [] dims # <<>>    -> CopyValue(array_init_helper(g, vd.t.of[1], dims), Var(vd.name))
    [] OTHER          -> g

gen_local(g, vd) ==
  IF vd.dims = <<>> THEN gen_local_decl(g, vd) ELSE gen_local_array_decl(g, vd, FlattenSeq(vd.dims))

gen_lval(g, lv) ==
  IF lv.k = "V" THEN Result(Local(g, lv.vd.name, convert_type(lv.vd.t)), Var(lv.vd.name))
  ELSE gen_expression(g, lv.e)

\* Results of type ts at v: a record's address, anything else loaded.
UnpackRecord(ptr, v, n, dst) ==
  copy_to(Emit(ptr, Binary(ptr.v, "Add", v, I32(n), "I32")), ptr.v, dst)

UnpackOne(dst, v, n, t) ==
  IF t.c = "record" THEN UnpackRecord(make_wtac_var(dst, "I32"), v, n, dst.v)
  ELSE copy_to(dst, mem_of_wtac_var(v, n, convert_type(t)), dst.v)

Unpacked(acc, dst, v, t) ==
  [g |-> UnpackOne(dst, v, acc.n, t), vals |-> Append(acc.vals, dst.v),
   n |-> acc.n + ResultSize(dst.G, t)]

Unpack(acc, v, ts) ==
  FoldLeft(LAMBDA a, t : Unpacked(a, make_wtac_var(a.g, convert_type(t)), v, t),
           [g |-> acc.g, vals |-> acc.vals, n |-> 0], ts)

\* A broken variant: a value that is no tuple stays where it is.
Settle_InPlace(acc, v, t) ==
  IF t.c = "tuple" THEN Unpack(acc, v, t.of) ELSE [g |-> acc.g, vals |-> Append(acc.vals, v)]

\* A value on the right in temporaries of its own.
Settle(acc, v, t) ==
  CASE t.c = "tuple" -> Unpack(acc, v, t.of)
    [] t.c \in {"int", "bool", "array"} -> AndValue(acc, copy(acc.g, v, convert_type(t)))
    [] OTHER -> [g |-> Require(acc.g, FALSE), vals |-> Append(acc.vals, v)]

SettleAll(g, vals, ts) ==
  FoldLeft(LAMBDA acc, i : Settle(acc, vals[i], ts[i]), NoValues(g), [i \in DOMAIN ts |-> i])

\* "_": no copy.
Ignored(lv) == lv.k = "E" /\ lv.e.k = "var" /\ lv.e.name = "_"

StoreAll(tmps, lhs, dsts) ==
  FoldLeft(LAMBDA h, i : IF Ignored(lhs[i]) THEN h ELSE copy_to(h, tmps.vals[i], dsts[i]),
           tmps.g, [i \in DOMAIN lhs |-> i])

gen_lvals(g, lhs) ==
  FoldLeft(LAMBDA acc, lv : AndValue(acc, gen_lval(acc.g, lv)), NoValues(g), lhs)

gen_assign(g, lhs, rhs) ==
  LET right == gen_all(g, rhs)
      left  == gen_lvals(right.g, lhs) IN
  StoreAll(SettleAll(left.g, right.vals, typecheck_all(g.G, rhs)), lhs, left.vals)

RECURSIVE gen_statement(_, _)
gen_statements(g, ss) == FoldLeft(gen_statement, g, ss)

\* The else branch comes first.
Branches(g, guard, then, else) ==
  LET if_else == Label("if_else", else.next_id)
      if_end  == Label("if_end", else.next_id)
      block   == Block(if_else, guard.code \o <<BrIf(guard.v, if_else)>> \o else.code \o <<Br(if_end)>>) IN
  Emit([Fresh(else) EXCEPT !.code = g.code],
       Block(if_end, <<block>> \o then.code \o <<Br(if_end)>>))

gen_if(g, s) ==
  LET guard == gen_and_convert_expression(NoCode(g), s.g)
      then  == gen_statement(NoCode(guard), s.then) IN
  Branches(g, guard, then, gen_statements(NoCode(then), s.else))

Rounds(g, guard, body) ==
  WhileLoop(g, Label("while_end", body.next_id), Label("while_loop", body.next_id),
            unary([Fresh(body) EXCEPT !.code = guard.code], "Not", guard.v, "I32"), body.code)

gen_while(g, s) ==
  LET guard == gen_and_convert_expression(NoCode(g), s.g) IN
  Rounds(g, guard, gen_statement(NoCode(guard), s.body))

gen_procedure_call(args, f) == Emit(args.g, FCall(<<>>, f, args.vals))

gen_statement(g, s) ==
  IF g.panicked THEN g ELSE
  CASE s.k = "return" -> gen_return(g, s.es)
    [] s.k = "local"  -> gen_local(Local(g, s.vd.name, convert_type(s.vd.t)), s.vd)
    [] s.k = "assign" -> gen_assign(g, s.lhs, s.rhs)
    [] s.k = "compound" -> gen_statements(g, s.ss)
    [] s.k = "if"     -> gen_if(g, s)
    [] s.k = "while"  -> gen_while(g, s)
    [] s.k = "procedure" -> gen_procedure_call(gen_all(g, s.es), s.name)

-----------------------------------------------------------------------------
\* mod.rs: functions, globals, the program.

Function(name, params, ret, locals, body) ==
  [name |-> name, params |-> params, ret |-> ret, locals |-> locals, body |-> body]

\* A function with several results, or a record, gets a pointer to where they go.
make_ret_ptr(g, ret_t) ==
  LET x == Label("ret_ptr", g.next_id) IN
  [Fresh(g) EXCEPT !.G = Add(@, x, Entry(Tuple(ret_t), "local")), !.ret_ptr = Var(x)]

\* What a body runs in: the frame below the stack pointer, and gone at the end.
FrameSetup(rbp, rsp, size) ==
  << Copy(rbp, StackPointer),
     Binary(StackPointer, "Sub", StackPointer, I32(size), "I32"),
     Copy(rsp, StackPointer) >>

ParamsOf(fun) == [i \in DOMAIN fun.params |-> <<fun.params[i], convert_type(fun.t.of[1].of[i])>>]

Simple(fun)  == IsSimple(fun.t.of[2].of)
ViaPtr(fun)  == fun.t.of[2].of # <<>> /\ ~Simple(fun)
RetType(fun) == convert_type(fun.t.of[2].of[1])

WholeFunction(body, fun, rbp, rsp) ==
  Function(fun.name,
    (IF ViaPtr(fun) THEN <<<<body.ret_ptr.name, "I32">>>> ELSE <<>>) \o ParamsOf(fun),
    IF Simple(fun) THEN <<RetType(fun)>> ELSE <<>>,
    body.locals \o (IF Simple(fun) THEN <<<<RetVal.name, RetType(fun)>>>> ELSE <<>>),
    << Block("func_exit", FrameSetup(rbp, rsp, body.offset) \o body.code \o <<Br("func_exit")>>),
       Copy(StackPointer, rbp),
       Return(IF Simple(fun) THEN <<RetVal>> ELSE <<>>) >>)

gen_function_end(g, fun, body, rbp, rsp) ==
  [body EXCEPT !.code = Append(g.code, WholeFunction(body, fun, rbp, rsp))]

gen_function_body(g, fun, rbp, rsp) ==
  gen_statements([g EXCEPT !.offset = 0, !.rsp = rsp, !.code = <<>>,
                           !.locals = <<<<rbp.name, "I32">>, <<rsp.name, "I32">>>>], fun.body)

gen_function(g, fun) ==
  IF g.panicked THEN g ELSE
  LET rbp == make_wtac_var(g, "I32")
      rsp == make_wtac_var(rbp, "I32")
      ptr == IF ViaPtr(fun) THEN make_ret_ptr(rsp, fun.t.of[2].of) ELSE [rsp EXCEPT !.ret_ptr = I32(0)] IN
  gen_function_end(g, fun, gen_function_body(ptr, fun, rbp.v, rsp.v), rbp.v, rsp.v)

add_length(g) ==
  LET a      == Label("tmp", g.next_id)
      header == binary([Fresh(g) EXCEPT !.code = <<>>, !.locals = <<>>], "Sub", Var(a), I32(8), "I32")
      len    == copy(header, mem_of_wtac_var(header.v, 0, "I64"), "I64") IN
  Function("length", <<<<a, "I32">>>>, <<"I64">>, len.locals,
           <<Block("func_exit", len.code \o <<Br("func_exit")>>), Return(<<len.v>>)>>)

\* A global has a literal as its value, or 0.
GlobalValue(vd) ==
  CASE vd.init = <<>> -> Imm(0, convert_type(vd.t))
    [] vd.init[1].k = "int"  -> I64(vd.init[1].n)
    [] vd.init[1].k = "bool" -> I32(vd.init[1].n)
    [] OTHER -> [kind |-> "Panic"]

Data(vd) == [name |-> vd.name, t |-> convert_type(vd.t), v |-> GlobalValue(vd)]

GeneratorStart(G) ==
  [next_id |-> 0, G |-> G, offset |-> 0, rsp |-> Var("Dummy"), ret_ptr |-> I32(0),
   locals |-> <<>>, code |-> <<>>, v |-> I32(0), panicked |-> FALSE]

Kind(p, k) == SelectSeq(p, LAMBDA decl : decl.k = k)

add_functions(g) == Append(g.code, add_length(g))

Module(g, globals) ==
  [funs |-> add_functions(g), panicked |-> g.panicked,
   data |-> [i \in DOMAIN globals |-> Data(globals[i].vd)]]

generate(G, p) ==
  Module(FoldLeft(gen_function, GeneratorStart(G), Kind(p, "fun")), Kind(p, "global"))
=============================================================================
