------------------------------- MODULE Meaning -------------------------------
(***************************************************************************)
(* What a program of the language means, said of the tree the programmer wrote and  *)
(* without any phase of the compiler: names are looked up in the scopes around      *)
(* them, operands are evaluated from left to right and both of "&" and "|" always,   *)
(* "every right-hand side is evaluated before any assignment lands", arrays and      *)
(* records are references, and a returned record is a copy (README, The Eta Grammar;  *)
(* runtime/tests/integration_tests).                                            *)
(*                                                                         *)
(* A program that reads what has no value, or indexes out of range, has no meaning:  *)
(* its status is "undefined".  One that applies an operation to a value it is not    *)
(* for, or uses a name out of scope, goes "wrong", which is what a type checker is    *)
(* there to prevent.                                                           *)
(***************************************************************************)
EXTENDS Syntax, FiniteSetsExt, SequencesExt, TLC

CONSTANT Patience     \* rounds of loops and calls after which a run is given up

A == INSTANCE Arith WITH IntBits <- 28, HalfBits <- 28

Value(k, v) == [k |-> k, v |-> v]
None        == Value("none", 0)
IntV(n)     == Value("int", n)
BoolV(b)    == Value("bool", IF b THEN 1 ELSE 0)

\* The state: the globals, the scopes of the running function, the objects on the
\* heap, the values of the last expression or return, and whether it has returned.
Beginning ==
  [globals |-> <<>>, scopes |-> <<>>, heap |-> <<>>, vals |-> <<>>, returned |-> FALSE,
   status |-> "ok", patience |-> Patience]

End(s, why)  == [s EXCEPT !.status = why]
Then(s, t)   == IF s.status = "ok" THEN t ELSE s
Need(s, b, why, t) == IF b THEN t ELSE End(s, why)
Give(s, vals) == [s EXCEPT !.vals = vals]
Tick(s) == IF s.patience = 0 THEN End(s, "impatient") ELSE [s EXCEPT !.patience = @ - 1]

New(s, k, tag, cells) ==
  [s EXCEPT !.heap = Append(@, [k |-> k, tag |-> tag, cells |-> cells]),
            !.vals = <<Value(k, Len(s.heap) + 1)>>]

\* Has the value this type?
RECURSIVE Has(_, _, _)
Has(s, v, t) ==
  \/ v = None \/ t = Unknown
  \/ t.c \in {"int", "bool"} /\ v.k = t.c
  \/ t.c = "record" /\ v.k = "record" /\ s.heap[v.v].tag = t.tag
  \/ t.c = "array" /\ v.k = "array" /\ \A c \in Range(s.heap[v.v].cells) : Has(s, c, t.of[1])

AllHave(s, vs, ts) == Len(vs) = Len(ts) /\ \A i \in DOMAIN vs : Has(s, vs[i], ts[i])

-----------------------------------------------------------------------------
\* Variables.

ScopesOf(s, x) == {i \in DOMAIN s.scopes : x \in DOMAIN s.scopes[i]}
InScope(s, x)  == ScopesOf(s, x) # {} \/ x \in DOMAIN s.globals

Content(s, x) == IF ScopesOf(s, x) # {} THEN s.scopes[Max(ScopesOf(s, x))][x] ELSE s.globals[x]

SetVar(s, x, v) ==
  IF ScopesOf(s, x) # {} THEN [s EXCEPT !.scopes[Max(ScopesOf(s, x))][x] = v]
  ELSE [s EXCEPT !.globals[x] = v]

Declare(s, x, v) ==
  Need(s, x \notin DOMAIN Last(s.scopes), "wrong", [s EXCEPT !.scopes[Len(s.scopes)] = (x :> v) @@ @])

\* A place: a variable, a cell of an object, or "_".
VarPlace(x)     == [k |-> "var", x |-> x, loc |-> 0, i |-> 0]
CellPlace(l, i) == [k |-> "cell", x |-> "", loc |-> l, i |-> i]

Old(s, at) == IF at.k = "var" THEN Content(s, at.x) ELSE s.heap[at.loc].cells[at.i]

Write(s, at, v) ==
  CASE at = VarPlace("_") -> s
    [] Old(s, at) # None /\ v # None /\ Old(s, at).k # v.k -> End(s, "wrong")
    [] at.k = "var" -> SetVar(s, at.x, v)
    [] OTHER -> [s EXCEPT !.heap[at.loc].cells[at.i] = v]

-----------------------------------------------------------------------------
\* Expressions.

Named(p, k, x) == SelectSeq(p, LAMBDA d : d.k = k /\ d.name = x)

Same(k) == k \in {"int", "bool", "array", "record"}

Operate(s, op, a, b) ==
  CASE None \in {a, b} -> End(s, "undefined")
    [] a.k # b.k -> End(s, "wrong")
    [] op = "Plus" /\ a.k = "array" -> New(s, "array", "", s.heap[a.v].cells \o s.heap[b.v].cells)
    [] op = "DoubleEquals" -> Give(s, <<BoolV(a.v = b.v)>>)
    [] op = "NotEquals"    -> Give(s, <<BoolV(a.v # b.v)>>)
    [] op \in {"And", "Bar"} ->
         Need(s, a.k = "bool", "wrong",
           Give(s, <<BoolV(IF op = "And" THEN a.v + b.v = 2 ELSE a.v + b.v > 0)>>))
    [] a.k # "int" -> End(s, "wrong")
    [] op \in {"Div", "Mod"} /\ b.v = 0 -> End(s, "trap")
    [] op = "Plus"     -> Give(s, <<IntV(A!Wrap(28, a.v + b.v))>>)
    [] op = "Minus"    -> Give(s, <<IntV(A!Wrap(28, a.v - b.v))>>)
    [] op = "Asterisk" -> Give(s, <<IntV(A!Wrap(28, a.v * b.v))>>)
    [] op = "Div" -> Give(s, <<IntV(A!Quotient(a.v, b.v))>>)
    [] op = "Mod" -> Give(s, <<IntV(A!Remainder(a.v, b.v))>>)
    [] op = "LessThan"     -> Give(s, <<BoolV(a.v < b.v)>>)
    [] op = "LessEqual"    -> Give(s, <<BoolV(a.v <= b.v)>>)
    [] op = "GreaterThan"  -> Give(s, <<BoolV(a.v > b.v)>>)
    [] op = "GreaterEqual" -> Give(s, <<BoolV(a.v >= b.v)>>)

Negate(s, op, a) ==
  CASE a = None -> End(s, "undefined")
    [] op = "Minus" -> Need(s, a.k = "int", "wrong", Give(s, <<IntV(-a.v)>>))
    [] op = "Bang"  -> Need(s, a.k = "bool", "wrong", Give(s, <<BoolV(a.v = 0)>>))

\* The cell of an array, counted from 0, or of a record.
CellAt(s, a, i) ==
  CASE None \in {a, i} -> [s |-> End(s, "undefined"), at |-> VarPlace("_")]
    [] a.k # "array" \/ i.k # "int" -> [s |-> End(s, "wrong"), at |-> VarPlace("_")]
    [] i.v \notin 0 .. Len(s.heap[a.v].cells) - 1 -> [s |-> End(s, "undefined"), at |-> VarPlace("_")]
    [] OTHER -> [s |-> s, at |-> CellPlace(a.v, i.v + 1)]

FieldAt(p, s, r, field) ==
  LET members == Named(p, "record", s.heap[r.v].tag)[1].members
      i == {j \in DOMAIN members : members[j].name = field} IN
  CASE r = None -> [s |-> End(s, "undefined"), at |-> VarPlace("_")]
    [] r.k # "record" -> [s |-> End(s, "wrong"), at |-> VarPlace("_")]
    [] i = {} -> [s |-> End(s, "wrong"), at |-> VarPlace("_")]
    [] OTHER -> [s |-> s, at |-> CellPlace(r.v, Max(i))]

RECURSIVE Eval(_, _, _), Place(_, _, _), Invoke(_, _, _, _), Do(_, _, _)

\* One after the other, the values of each behind those of the ones before.
Behind(vals, t) == Give(t, vals \o t.vals)

EvalAll(p, s, es) ==
  FoldLeft(LAMBDA t, e : Then(t, Behind(t.vals, Eval(p, t, e))), Give(s, <<>>), es)

\* As many values as operands: no tuple is among them.
Single(t, n) == Then(t, Need(t, Len(t.vals) = n, "wrong", t))

Operands(p, s, es) == Single(EvalAll(p, s, es), Len(es))

Apply(t, e) ==
  Then(t, CASE e.k = "array"  -> New(t, "array", "", t.vals)
            [] e.k = "binary" -> Operate(t, e.name, t.vals[1], t.vals[2])
            [] e.k = "unary"  -> Negate(t, e.name, t.vals[1]))

Read(r)        == Then(r.s, Give(r.s, <<Old(r.s, r.at)>>))
Call(p, s, f)  == Then(s, Invoke(p, s, f, s.vals))

Eval(p, s, e) ==
  CASE e.k = "int"  -> Give(s, <<IntV(e.n)>>)
    [] e.k = "bool" -> Give(s, <<BoolV(e.n = 1)>>)
    [] e.k \in {"var", "subscript", "dot"}  -> Read(Place(p, s, e))
    [] e.k \in {"array", "binary", "unary"} -> Apply(Operands(p, s, e.es), e)
    [] e.k = "call" -> Call(p, EvalAll(p, s, e.es), e.name)

Nowhere(s) == [s |-> s, at |-> VarPlace("_")]

Inside(p, t, e) ==
  CASE t.status # "ok"   -> Nowhere(t)
    [] e.k = "subscript" -> CellAt(t, t.vals[1], t.vals[2])
    [] e.k = "dot"       -> FieldAt(p, t, t.vals[1], e.name)
    [] OTHER             -> Nowhere(End(t, "wrong"))

Place(p, s, e) ==
  CASE e.k = "var" -> IF InScope(s, e.name) THEN [s |-> s, at |-> VarPlace(e.name)]
                      ELSE Nowhere(IF e.name = "_" THEN s ELSE End(s, "wrong"))
    [] OTHER       -> Inside(p, Operands(p, s, e.es), e)

\* What a function returns: its records are copied.
CopyOne(s, new, v) ==
  IF v.k = "record" THEN Behind(s.vals, new) ELSE Give(s, Append(s.vals, v))

Copied(s, vals) ==
  FoldLeft(LAMBDA t, v : CopyOne(t, New(t, "record", t.heap[v.v].tag, t.heap[v.v].cells), v),
           Give(s, <<>>), vals)

Ready(s, fun, vals) ==
  [s EXCEPT !.scopes = <<FoldLeft(LAMBDA f, i : (fun.params[i] :> vals[i]) @@ f, <<>>,
                                  [i \in DOMAIN fun.params |-> i])>>,
            !.returned = FALSE, !.vals = <<>>]

Expect(s, ts) == Need(s, AllHave(s, s.vals, ts), "wrong", s)

Back(done, scopes, ret_t) ==
  IF done.status # "ok" THEN done
  ELSE Expect([Copied(done, IF done.returned THEN done.vals ELSE <<>>)
                 EXCEPT !.scopes = scopes, !.returned = FALSE], ret_t)

Body(p, s, fun, vals) ==
  Back(Do(p, Ready(Tick(s), fun, vals), Compound(fun.body)), s.scopes, fun.t.of[2].of)

Invoke(p, s, f, vals) ==
  LET fun == Named(p, "fun", f)
      rec == Named(p, "record", f) IN
  CASE f = "length" ->
         (CASE Len(vals) # 1 -> End(s, "wrong")
            [] vals[1] = None -> End(s, "undefined")
            [] vals[1].k # "array" -> End(s, "wrong")
            [] OTHER -> Give(s, <<IntV(Len(s.heap[vals[1].v].cells))>>))
    [] fun # <<>> -> Need(s, AllHave(s, vals, fun[1].t.of[1].of), "wrong", Body(p, s, fun[1], vals))
    [] rec # <<>> -> Need(s, AllHave(s, vals, [i \in DOMAIN rec[1].members |-> rec[1].members[i].t]),
                          "wrong", New(s, "record", f, vals))
    [] OTHER -> End(s, "wrong")

-----------------------------------------------------------------------------
\* Statements.

\* An array of arrays, for as many dimensions as have a size.
RECURSIVE Fill(_, _)
Rows(s, n, dims) ==
  FoldLeft(LAMBDA t, i : Behind(t.vals, Fill(t, dims)), Give(s, <<>>), [i \in 1 .. n |-> i])

Fill(s, dims) ==
  CASE dims = <<>> -> Give(s, <<None>>)
    [] Head(dims) = None \/ Head(dims).v < 0 -> End(s, "undefined")
    [] OTHER -> LET rows == Rows(s, Head(dims).v, Tail(dims)) IN New(rows, "array", "", rows.vals)

Filled(t) == Then(t, Fill(t, t.vals))

DeclareAs(t, vd) == Then(t, Need(t, AllHave(t, t.vals, <<vd.t>>), "wrong", Declare(t, vd.name, t.vals[1])))

Local(p, s, vd) ==
  DeclareAs(IF vd.init # <<>> THEN EvalAll(p, s, vd.init)
         ELSE Filled(Operands(p, s, FlattenSeq(vd.dims))), vd)

\* The places on the left, from left to right; a declaration makes one.
AndPlace(ats, r) == [s |-> r.s, ats |-> Append(ats, r.at)]

PlaceOf(p, s, lv) ==
  IF lv.k = "V" THEN [s |-> Then(s, Declare(s, lv.vd.name, None)), at |-> VarPlace(lv.vd.name)]
  ELSE IF s.status = "ok" THEN Place(p, s, lv.e) ELSE Nowhere(s)

Places(p, s, lhs) ==
  FoldLeft(LAMBDA acc, lv : AndPlace(acc.ats, PlaceOf(p, acc.s, lv)), [s |-> s, ats |-> <<>>], lhs)

WriteAll(s, ats, vals) ==
  FoldLeft(LAMBDA t, i : Then(t, Write(t, ats[i], vals[i])), s, [i \in DOMAIN ats |-> i])

FitsAll(s, lhs, vals) ==
  Len(lhs) = Len(vals) /\ \A i \in DOMAIN lhs : lhs[i].k = "V" => Has(s, vals[i], lhs[i].vd.t)

Land(left, vals) == WriteAll(left.s, left.ats, vals)

AssignAll(p, right, lhs) ==
  Then(right, Need(right, FitsAll(right, lhs, right.vals), "wrong",
                   Land(Places(p, right, lhs), right.vals)))

DoAll(p, s, ss) ==
  FoldLeft(LAMBDA t, st : IF t.status = "ok" /\ ~t.returned THEN Do(p, t, st) ELSE t, s, ss)

\* The scope of a block goes with it.
Enter(s) == [s EXCEPT !.scopes = Append(@, <<>>)]
Exit(s)  == [s EXCEPT !.scopes = IF @ = <<>> THEN @ ELSE Front(@)]

Test(s, yes, no) ==
  CASE s.status # "ok" -> s
    [] Len(s.vals) # 1 -> End(s, "wrong")
    [] s.vals[1] = None -> End(s, "undefined")
    [] s.vals[1].k # "bool" -> End(s, "wrong")
    [] s.vals[1] = BoolV(TRUE)  -> yes
    [] s.vals[1] = BoolV(FALSE) -> no

DoIf(p, g, st) == Test(g, Do(p, g, st.then), DoAll(p, g, st.else))

Again(p, body, st) == IF body.status # "ok" \/ body.returned THEN body ELSE Do(p, body, st)

DoWhile(p, g, st) == Test(g, Again(p, DoAll(p, Tick(g), <<st.body>>), st), g)

DoReturn(t) == Then(t, [t EXCEPT !.returned = TRUE])

Do(p, s, st) ==
  CASE st.k = "local"  -> Local(p, s, st.vd)
    [] st.k = "assign" -> AssignAll(p, EvalAll(p, s, st.rhs), st.lhs)
    [] st.k = "return" -> DoReturn(EvalAll(p, s, st.es))
    [] st.k = "procedure" -> Call(p, EvalAll(p, s, st.es), st.name)
    [] st.k = "compound"  -> Exit(DoAll(p, Enter(s), st.ss))
    [] st.k = "if"    -> DoIf(p, Eval(p, s, st.g), st)
    [] st.k = "while" -> DoWhile(p, Eval(p, s, st.g), st)

-----------------------------------------------------------------------------
\* A program: the globals, which start with literals, and then main.

GlobalVars(p) ==
  LET ds == SelectSeq(p, LAMBDA d : d.k = "global")
      Start(vd) == IF vd.init = <<>> THEN None ELSE Eval(<<>>, Beginning, vd.init[1]).vals[1] IN
  FoldLeft(LAMBDA f, d : (d.vd.name :> Start(d.vd)) @@ f, <<>>, ds)

Result(p) ==
  IF Named(p, "fun", "main") = <<>> THEN End(Beginning, "wrong")
  ELSE Invoke(p, [Beginning EXCEPT !.globals = GlobalVars(p)], "main", <<>>)
=============================================================================
