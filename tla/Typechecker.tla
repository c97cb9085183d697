------------------------------ MODULE Typechecker ------------------------------
(***************************************************************************)
(* The type checker (typecheck.rs) and the symbol table it fills (symbols.rs).   *)
(* The table G maps a name to its type and attribute; a record's attribute lists  *)
(* its members with their offsets.  An expression has a type or is in error; a     *)
(* panic of the checker itself is a third answer.                               *)
(***************************************************************************)
EXTENDS Syntax, FiniteSetsExt, SequencesExt, TLC

TypeError == Type("error", "", <<>>)
PanicT    == Type("panic", "", <<>>)
Bad(t)    == t.c \in {"error", "panic"}

\* `?` over a sequence: the first failure, or else t.
FirstBad(ts, t) ==
  LET bad == {i \in DOMAIN ts : Bad(ts[i])} IN IF bad = {} THEN t ELSE ts[Min(bad)]

Entry(t, attr)  == [t |-> t, attr |-> attr, members |-> <<>>]
Add(G, x, entry) == (x :> entry) @@ G

is_arr(t) == t.c = "array"

RECURSIVE eq_mod_unknown(_, _), unify(_, _)
eq_mod_unknown(t1, t2) ==
  \/ t1 = Unknown \/ t2 = Unknown \/ t1 = t2
  \/ is_arr(t1) /\ is_arr(t2) /\ eq_mod_unknown(t1.of[1], t2.of[1])

unify(t1, t2) ==
  CASE t1 = Unknown -> t2
    [] t2 = Unknown \/ t1 = t2 -> t1
    [] OTHER -> Array(unify(t1.of[1], t2.of[1]))

unfold_tuple_types(ts) ==
  FlattenSeq([i \in DOMAIN ts |->
    CASE ts[i].c = "tuple" -> ts[i].of
      [] ts[i].c = "fun"   -> <<PanicT>>
      [] OTHER             -> <<ts[i]>>])

-----------------------------------------------------------------------------
\* Expressions.

Arithmetic == {"Plus", "Minus", "Asterisk", "Div", "Mod"}
Ordering   == {"LessThan", "LessEqual", "GreaterThan", "GreaterEqual"}

\* A broken variant: anything may be compared.
typecheck_binary_Loose(op, t1, t2) ==
  CASE op = "Plus" /\ is_arr(t1) /\ is_arr(t2) ->
         IF eq_mod_unknown(t1, t2) THEN unify(t1, t2) ELSE TypeError
    [] op \in Arithmetic /\ t1 = IntT /\ t2 = IntT     -> IntT
    [] op \in Ordering /\ t1 = IntT /\ t2 = IntT       -> BoolT
    [] op \in {"And", "Bar"} /\ t1 = BoolT /\ t2 = BoolT -> BoolT
    [] op \in {"DoubleEquals", "NotEquals"} -> BoolT
    [] OTHER -> TypeError

typecheck_binary(op, t1, t2) ==
  CASE op = "Plus" /\ is_arr(t1) /\ is_arr(t2) ->
         IF eq_mod_unknown(t1, t2) THEN unify(t1, t2) ELSE TypeError
    [] op \in Arithmetic /\ t1 = IntT /\ t2 = IntT     -> IntT
    [] op \in Ordering /\ t1 = IntT /\ t2 = IntT       -> BoolT
    [] op \in {"And", "Bar"} /\ t1 = BoolT /\ t2 = BoolT -> BoolT
    [] op \in {"DoubleEquals", "NotEquals"} /\ t1 = t2 -> BoolT
    [] OTHER -> TypeError

IsRecord(G, x) == x \in DOMAIN G /\ G[x].attr = "record"

\* A call's type: of a procedure the empty tuple, of a constructor the record.
check_fun_args(G, f, ts) ==
  LET isRecord == IsRecord(G, f)
      isFun    == f \in DOMAIN G /\ G[f].t.c = "fun"
      param_t  == IF isRecord THEN [i \in DOMAIN G[f].members |-> G[f].members[i].t]
                  ELSE G[f].t.of[1].of
      ret_t    == IF isRecord THEN <<G[f].t>> ELSE G[f].t.of[2].of IN
  FirstBad(ts,
    CASE ~isRecord /\ ~isFun -> PanicT
      [] Len(param_t) # Len(ts) -> TypeError
      [] \E i \in DOMAIN ts : ~eq_mod_unknown(param_t[i], ts[i]) -> TypeError
      [] Len(ret_t) = 1 -> ret_t[1]
      [] OTHER -> Tuple(ret_t))

typecheck_dot(G, t, field) ==
  CASE t.c # "record"       -> TypeError
    [] ~IsRecord(G, t.tag)  -> PanicT
    [] OTHER -> LET ms == SelectSeq(G[t.tag].members, LAMBDA m : m.name = field) IN
                IF ms = <<>> THEN TypeError ELSE ms[1].t

ElementsOf(ts) ==
  CASE ts = <<>> -> Array(Unknown)
    [] \E i \in DOMAIN ts : ts[i] # ts[1] -> TypeError
    [] OTHER -> Array(ts[1])

Wants(t, want) == IF t = want THEN want ELSE TypeError

\* A call that is an expression has a value.
Valued(t) == IF t = Tuple(<<>>) THEN TypeError ELSE t

\* The type of an expression, from the types of its operands.
TypeFrom(G, e, ts) ==
  CASE e.k = "int"  -> IntT
    [] e.k = "bool" -> BoolT
    [] e.k = "var"  -> IF e.name \in DOMAIN G THEN G[e.name].t ELSE PanicT
    [] e.k = "array"  -> FirstBad(ts, ElementsOf(ts))
    [] e.k = "unary"  -> FirstBad(ts, Wants(ts[1], IF e.name = "Minus" THEN IntT ELSE BoolT))
    [] e.k = "binary" -> FirstBad(ts, typecheck_binary(e.name, ts[1], ts[2]))
    [] e.k = "subscript" ->
         FirstBad(ts, IF is_arr(ts[1]) /\ ts[2] = IntT THEN ts[1].of[1] ELSE TypeError)
    [] e.k = "dot" -> FirstBad(ts, typecheck_dot(G, ts[1], e.name))
    [] e.k = "call" -> Valued(check_fun_args(G, e.name, ts))

RECURSIVE typecheck_expression(_, _)
typecheck_all(G, es) == [i \in DOMAIN es |-> typecheck_expression(G, es[i])]
typecheck_expression(G, e) == TypeFrom(G, e, typecheck_all(G, e.es))

-----------------------------------------------------------------------------
\* Statements.  Each yields the table and what the statement does: "unit" if
\* it can end normally, "void" if it returns on every path.

Done(G, ty) == [G |-> G, ty |-> ty]

\* What a check yields that ends in type t, which only counts if it is bad.
Checked(G, t, ty) == Done(G, IF Bad(t) THEN t.c ELSE ty)

typecheck_return(G, es, ret_t) ==
  LET ts == unfold_tuple_types(typecheck_all(G, es)) IN
  Checked(G, FirstBad(typecheck_all(G, es) \o ts, IF ts = ret_t THEN BoolT ELSE TypeError), "void")

typecheck_scalar_decl(G, vd) ==
  IF vd.init = <<>> THEN BoolT
  ELSE LET t == typecheck_expression(G, vd.init[1])
           u == IF t.c = "tuple" THEN unfold_tuple_types(t.of) ELSE <<t>> IN
       FirstBad(<<t>>, IF u = <<vd.t>> THEN BoolT ELSE TypeError)

\* No size may follow a missing one.
dim_check(dims) ==
  \A i, j \in DOMAIN dims : i < j /\ dims[i] = <<>> => dims[j] = <<>>

ArrayInit(G, vd) ==
  IF vd.init = <<>> THEN BoolT
  ELSE LET t == typecheck_expression(G, vd.init[1]) IN
       CASE Bad(t) -> t
         [] \/ t = Array(Unknown) \/ t = vd.t
            \/ t.c = "tuple" /\ t.of[1] = vd.t -> BoolT
         [] OTHER -> TypeError

typecheck_arr_decl(G, vd) ==
  LET sizes == typecheck_all(G, FlattenSeq(vd.dims)) IN
  CASE ~dim_check(vd.dims) -> TypeError
    [] OTHER -> FirstBad(sizes,
         CASE \E i \in DOMAIN sizes : sizes[i] # IntT -> TypeError
           [] vd.init # <<>> /\ sizes # <<>> -> TypeError
           [] OTHER -> ArrayInit(G, vd))

typecheck_local(G, vd) ==
  LET H == Add(G, vd.name, Entry(vd.t, "local")) IN
  Checked(H, IF vd.dims = <<>> THEN typecheck_scalar_decl(H, vd)
             ELSE typecheck_arr_decl(H, vd), "unit")

is_lval(lv) == lv.k = "V" \/ lv.e.k \in {"var", "dot", "subscript"}

AddLval(G, lv) ==
  IF lv.k = "V" THEN Add(G, lv.vd.name, Entry(lv.vd.t, "local")) ELSE G

typecheck_lval(G, lv) ==
  CASE lv.k = "V" -> lv.vd.t
    [] lv.e.k = "var" /\ lv.e.name = "_" -> Unknown
    [] OTHER -> typecheck_expression(G, lv.e)

\* The declarations on the left are added before anything on the right is seen.
typecheck_assign(G, lhs, rhs) ==
  LET H     == FoldLeft(AddLval, G, lhs)
      lhs_t == [i \in DOMAIN lhs |-> typecheck_lval(FoldLeft(AddLval, G, SubSeq(lhs, 1, i)), lhs[i])]
      rhs_t == typecheck_all(H, rhs)
      flat  == unfold_tuple_types(rhs_t) IN
  Checked(H,
    IF \E i \in DOMAIN lhs : ~is_lval(lhs[i]) THEN TypeError
    ELSE FirstBad(lhs_t \o rhs_t \o flat,
           IF /\ Len(lhs_t) = Len(flat)
              /\ \A i \in DOMAIN flat : eq_mod_unknown(lhs_t[i], flat[i])
           THEN BoolT ELSE TypeError), "unit")

RECURSIVE typecheck_statement(_, _, _)

\* A statement that returns is the last of its block.
typecheck_block(G, ss, ret_t) ==
  FoldLeft(LAMBDA acc, s :
             CASE acc.ty = "unit" -> typecheck_statement(acc.G, s, ret_t)
               [] acc.ty = "void" -> Done(acc.G, "error")
               [] OTHER -> acc,
           Done(G, "unit"), ss)

typecheck_if(G, s, ret_t) ==
  LET g    == typecheck_expression(G, s.g)
      then == typecheck_statement(G, s.then, ret_t)
      else == typecheck_statement(then.G, s.else[1], ret_t) IN
  CASE Bad(g) -> Done(G, g.c)
    [] g # BoolT -> Done(G, "error")
    [] then.ty \in {"error", "panic"} -> then
    [] s.else = <<>> -> Done(then.G, "unit")
    [] else.ty \in {"error", "panic"} -> else
    [] OTHER -> Done(else.G, IF then.ty = "void" /\ else.ty = "void" THEN "void" ELSE "unit")

typecheck_while(G, s, ret_t) ==
  LET g    == typecheck_expression(G, s.g)
      body == typecheck_statement(G, s.body, ret_t) IN
  CASE Bad(g) -> Done(G, g.c)
    [] g # BoolT -> Done(G, "error")
    [] body.ty = "void" -> Done(body.G, "unit")
    [] OTHER -> body

typecheck_statement(G, s, ret_t) ==
  CASE s.k = "return" -> typecheck_return(G, s.es, ret_t)
    [] s.k = "local"  -> typecheck_local(G, s.vd)
    [] s.k = "assign" -> typecheck_assign(G, s.lhs, s.rhs)
    [] s.k = "compound" -> typecheck_block(G, s.ss, ret_t)
    [] s.k = "if"     -> typecheck_if(G, s, ret_t)
    [] s.k = "while"  -> typecheck_while(G, s, ret_t)
    [] s.k = "procedure" ->
         LET t == check_fun_args(G, s.name, typecheck_all(G, s.es)) IN
         Checked(G, IF Bad(t) \/ t = Tuple(<<>>) THEN t ELSE TypeError, "unit")

-----------------------------------------------------------------------------
\* Declarations.

\* Each field at the next multiple of its alignment.
layout(ms) ==
  FoldLeft(LAMBDA acc, m :
             LET offset == round_to_n(acc.end, get_align(m.t)) IN
             [end |-> offset + get_size(m.t),
              members |-> Append(acc.members, [name |-> m.name, t |-> m.t, offset |-> offset])],
           [end |-> 0, members |-> <<>>], ms).members

typecheck_record(G, rec) ==
  IF \/ \E i, j \in DOMAIN rec.members : i # j /\ rec.members[i].name = rec.members[j].name
     \/ \E i \in DOMAIN rec.members : rec.members[i].t.c = "record"
  THEN Done(G, "error")
  ELSE Done(Add(G, rec.name, [t |-> Record(rec.name), attr |-> "record",
                              members |-> layout(rec.members)]), "unit")

add_top_level(G, decl) ==
  CASE decl.k = "fun"    -> Done(Add(G, decl.name, Entry(decl.t, "declared")), "unit")
    [] decl.k = "record" -> typecheck_record(G, decl)
    [] decl.k = "global" -> Done(G, "unit")

typecheck_global(G, vd) ==
  LET H == Add(G, vd.name, Entry(vd.t, "global"))
      t == typecheck_expression(H, vd.init[1]) IN
  CASE vd.dims # <<>> ->
         Checked(H, IF vd.init # <<>> THEN TypeError ELSE typecheck_arr_decl(G, vd), "unit")
    [] vd.t.c = "record" -> Done(G, "error")
    [] vd.init = <<>> -> Done(H, "unit")
    [] OTHER -> Checked(H, FirstBad(<<t>>, IF t = vd.t THEN t ELSE TypeError), "unit")

\* A function with results must return on every path.
typecheck_fun(G, fun) ==
  LET ret_t  == fun.t.of[2].of
      params == [i \in DOMAIN fun.params |-> fun.params[i] :> Entry(fun.t.of[1].of[i], "local")]
      H      == FoldLeft(LAMBDA g, p : p @@ g,
                         Add(G, fun.name, Entry(fun.t, "defined")), params)
      block  == typecheck_block(H, fun.body, ret_t) IN
  CASE G[fun.name] # Entry(fun.t, "declared") -> Done(G, "error")
    [] block.ty = "unit" /\ ret_t # <<>> -> Done(block.G, "error")
    [] block.ty = "void" -> Done(block.G, "unit")
    [] OTHER -> block

typecheck_declarations(G, decl) ==
  CASE decl.k = "fun"    -> typecheck_fun(G, decl)
    [] decl.k = "global" -> typecheck_global(G, decl.vd)
    [] decl.k = "record" -> Done(G, "unit")

Builtins == "length" :> Entry(Fun(<<Array(Unknown)>>, <<IntT>>), "defined")

\* Stops at the first declaration that is in error.
EachDecl(start, p, Check(_, _)) ==
  FoldLeft(LAMBDA acc, decl : IF acc.ty = "unit" THEN Check(acc.G, decl) ELSE acc, start, p)

typecheck(p) ==
  EachDecl(EachDecl(Done(Builtins, "unit"), p, add_top_level), p, typecheck_declarations)
=============================================================================
