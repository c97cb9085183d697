------------------------------- MODULE Resolver -------------------------------
(***************************************************************************)
(* Name resolution (resolver.rs): every local gets the name "name.id", an       *)
(* identifier of its scope being looked up from the innermost scope outward.     *)
(* The state is the stack of scopes, the next id, and whether no error has been  *)
(* reported.                                                                 *)
(***************************************************************************)
EXTENDS Syntax, FiniteSetsExt, SequencesExt, TLC

Scope(x, unique) == x :> unique
EmptyScope       == <<>>

find_curr(scopes, x) == x \in DOMAIN scopes[Len(scopes)]
Found(scopes, x)     == \E i \in DOMAIN scopes : x \in DOMAIN scopes[i]
find(scopes, x)      == scopes[Max({i \in DOMAIN scopes : x \in DOMAIN scopes[i]})][x]

push(st) == [st EXCEPT !.scopes = Append(@, EmptyScope)]
pop(st)  == [st EXCEPT !.scopes = Front(@)]
add(st, x, unique) ==
  [st EXCEPT !.scopes[Len(st.scopes)] = Scope(x, unique) @@ @]

Fail(st) == [st EXCEPT !.ok = FALSE]
Require(st, b) == IF b THEN st ELSE Fail(st)

-----------------------------------------------------------------------------
\* Expressions: the names that must be in scope, and the renaming.

RECURSIVE Mentioned(_), Renamed(_, _)
Mentioned(e) ==
  UNION {Mentioned(e.es[i]) : i \in DOMAIN e.es}
    \cup (IF e.k = "call" \/ (e.k = "var" /\ e.name # "_") THEN {e.name} ELSE {})

Renamed(scopes, e) ==
  [e EXCEPT !.es = [i \in DOMAIN e.es |-> Renamed(scopes, e.es[i])],
            !.name = IF e.k \in {"var", "call"} /\ Found(scopes, e.name)
                     THEN find(scopes, e.name) ELSE @]

resolve_exprs(st, es) ==
  [st |-> Require(st, \A i \in DOMAIN es : \A x \in Mentioned(es[i]) : Found(st.scopes, x)),
   node |-> [i \in DOMAIN es |-> Renamed(st.scopes, es[i])]]

resolve_expr(st, e) ==
  [st |-> Require(st, \A x \in Mentioned(e) : Found(st.scopes, x)),
   node |-> Renamed(st.scopes, e)]

\* The members of a sequence are resolved one after the other.
NoneYet(st)     == [st |-> st, node |-> <<>>]
Another(acc, r) == [st |-> r.st, node |-> Append(acc.node, r.node)]

-----------------------------------------------------------------------------
\* Declarations of variables.

UniqueName(x, id) == x \o "." \o ToString(id)

\* A broken variant: the id is not taken.
add_local_var_SameId(st, x) ==
  LET unique == UniqueName(x, st.next_id) IN
  [st |-> add(Require(st, ~find_curr(st.scopes, x)), x, unique), node |-> unique]

add_local_var(st, x) ==
  LET unique == UniqueName(x, st.next_id) IN
  [st |-> add([Require(st, ~find_curr(st.scopes, x)) EXCEPT !.next_id = @ + 1], x, unique),
   node |-> unique]

\* The initialiser does not see the name.
Named(vd, init, name) ==
  [st |-> name.st, node |-> [vd EXCEPT !.init = init.node, !.name = name.node]]

resolve_local_var_declaration(st, vd) ==
  LET init == resolve_exprs(st, vd.init) IN Named(vd, init, add_local_var(init.st, vd.name))

\* The sizes of an array see its name, and are left alone in an assignment.
Sized(vd, dims) == [st |-> dims.st, node |-> LocalDecl([vd EXCEPT !.dims = dims.node])]

resolve_dims(st, dims) ==
  FoldLeft(LAMBDA acc, es : Another(acc, resolve_exprs(acc.st, es)), NoneYet(st), dims)

resolve_local_decl(st, vd) ==
  LET d == resolve_local_var_declaration(st, vd) IN Sized(d.node, resolve_dims(d.st, vd.dims))

AsPlace(r)    == [st |-> r.st, node |-> E(r.node)]
AsDeclared(r) == [st |-> r.st, node |-> V(r.node)]

resolve_lval(st, lv) ==
  IF lv.k = "E" THEN AsPlace(resolve_expr(st, lv.e))
  ELSE AsDeclared(resolve_local_var_declaration(st, lv.vd))

-----------------------------------------------------------------------------
\* Statements.  Only a block opens a scope.

RECURSIVE resolve_stmt(_, _)
resolve_stmts(st, ss) ==
  FoldLeft(LAMBDA acc, s : Another(acc, resolve_stmt(acc.st, s)), NoneYet(st), ss)


resolve_block(st, ss) ==
  LET r == resolve_stmts(push(st), ss) IN [st |-> pop(r.st), node |-> r.node]

resolve_assign(lhs, rhs) ==
  LET left == FoldLeft(LAMBDA acc, lv : Another(acc, resolve_lval(acc.st, lv)), NoneYet(rhs.st), lhs) IN
  [st |-> left.st, node |-> Assign(left.node, rhs.node)]

\* The parts of a statement, in turn.
resolve_else(g, then, else) == [st |-> else.st, node |-> If(g.node, then.node, else.node)]
resolve_then(g, then, ss)   == resolve_else(g, then, resolve_stmts(then.st, ss))
resolve_if(g, s)            == resolve_then(g, resolve_stmt(g.st, s.then), s.else)

resolve_body(g, body) == [st |-> body.st, node |-> While(g.node, body.node)]
resolve_while(g, s)   == resolve_body(g, resolve_stmt(g.st, s.body))

resolve_return(es)      == [st |-> es.st, node |-> ReturnS(es.node)]
resolve_compound(ss)    == [st |-> ss.st, node |-> Compound(ss.node)]
resolve_procedure(call) == [st |-> call.st, node |-> Procedure(call.node.name, call.node.es)]

resolve_stmt(st, s) ==
  CASE s.k = "local"    -> resolve_local_decl(st, s.vd)
    [] s.k = "return"   -> resolve_return(resolve_exprs(st, s.es))
    [] s.k = "assign"   -> resolve_assign(s.lhs, resolve_exprs(st, s.rhs))
    [] s.k = "compound" -> resolve_compound(resolve_block(st, s.ss))
    [] s.k = "if"       -> resolve_if(resolve_expr(st, s.g), s)
    [] s.k = "while"    -> resolve_while(resolve_expr(st, s.g), s)
    [] s.k = "procedure" -> resolve_procedure(resolve_expr(st, CallE(s.name, s.es)))

-----------------------------------------------------------------------------
\* Declarations: all functions and records first, then each in order.

resolve_only_top_level(st, decl) ==
  IF decl.k = "global" THEN st
  ELSE add(Require(st, ~Found(st.scopes, decl.name)), decl.name, decl.name)

resolve_params(st, xs) ==
  FoldLeft(LAMBDA acc, x : Another(acc, add_local_var(acc.st, x)), NoneYet(st), xs)

Defined(fun, params, body) ==
  [st |-> pop(body.st), node |-> [fun EXCEPT !.params = params.node, !.body = body.node]]

resolve_function(st, fun) ==
  LET params == resolve_params(push(st), fun.params) IN
  Defined(fun, params, resolve_block(params.st, fun.body))

\* A global's initialiser and sizes are not resolved.
resolve_decl(st, decl) ==
  CASE decl.k = "fun"    -> resolve_function(st, decl)
    [] decl.k = "record" -> [st |-> st, node |-> decl]
    [] decl.k = "global" ->
         [st |-> add(Require(st, ~find_curr(st.scopes, decl.vd.name)), decl.vd.name, decl.vd.name),
          node |-> decl]

ResolverStart == [scopes |-> <<Scope("length", "length")>>, next_id |-> 0, ok |-> TRUE]

resolve_decls(st, p) ==
  FoldLeft(LAMBDA acc, decl : Another(acc, resolve_decl(acc.st, decl)), NoneYet(st), p)

resolve(p) == resolve_decls(FoldLeft(resolve_only_top_level, ResolverStart, p), p)
=============================================================================
