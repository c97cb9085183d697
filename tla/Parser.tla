-------------------------------- MODULE Parser --------------------------------
(***************************************************************************)
(* The recursive descent parser (parser.rs).  Each function takes the tokens     *)
(* the lexer returned and the position of the next one, and yields a result:    *)
(* a node and the position after it, a syntax error, or a panic.               *)
(***************************************************************************)
EXTENDS Syntax

Ok(node, at) == [res |-> "ok", node |-> node, at |-> at]
Err(at)      == [res |-> "error", node |-> <<>>, at |-> at]
Panic(at)    == [res |-> "panic", node |-> <<>>, at |-> at]

\* The `?` operator.
Then(r, Rest(_, _)) == IF r.res = "ok" THEN Rest(r.node, r.at) ELSE r

peek_n(ts, i, n) == IF i + n <= Len(ts) THEN ts[i + n].k ELSE "Eof"
peek(ts, i)      == peek_n(ts, i, 0)
is_eof(ts, i)    == i > Len(ts)

expect(ts, i, kind) == IF peek(ts, i) = kind THEN Ok(kind, i + 1) ELSE Err(i)

expect_id(ts, i) ==
  CASE is_eof(ts, i)        -> Panic(i)
    [] peek(ts, i) = "Var"  -> Ok(ts[i].name, i + 1)
    [] OTHER                -> Err(i)

peek_binop(ts, i) ==
  peek(ts, i) \in {"Plus", "Minus", "Asterisk", "Div", "Mod", "And", "Bar", "LessThan",
    "LessEqual", "GreaterThan", "GreaterEqual", "DoubleEquals", "NotEquals"}

binop_precedence(op) ==
  CASE op = "Bar" -> 1
    [] op = "And" -> 2
    [] op \in {"DoubleEquals", "NotEquals"} -> 3
    [] op \in {"LessThan", "LessEqual", "GreaterThan", "GreaterEqual"} -> 4
    [] op \in {"Plus", "Minus"} -> 5
    [] op \in {"Asterisk", "Div", "Mod"} -> 6

RECURSIVE parse_expression(_, _, _), climb(_, _, _, _), parse_unary(_, _), parse_postfix(_, _, _),
          parse_primary(_, _), parse_sep_list_comma(_, _, _, _), sep_list_rest(_, _, _, _, _),
          parse_item(_, _, _), parse_sep_list_comma_trailing(_, _, _, _),
          array_suffix(_, _, _), parse_dims(_, _, _), parse_statement(_, _), parse_block(_, _, _),
          parse_members(_, _, _), parse_program(_, _, _)

-----------------------------------------------------------------------------
\* Lists.  The function that parses an element is named by `rule`.

parse_sep_list_comma(ts, i, end, rule) ==
  IF peek(ts, i) = end THEN Ok(<<>>, i)
  ELSE Then(parse_item(ts, i, rule), LAMBDA x, j : sep_list_rest(ts, j, end, rule, <<x>>))

sep_list_rest(ts, i, end, rule, elems) ==
  IF peek(ts, i) # "Comma" THEN Ok(elems, i)
  ELSE Then(parse_item(ts, i + 1, rule), LAMBDA x, j :
         IF peek(ts, j) = end THEN Ok(Append(elems, x), j)
         ELSE sep_list_rest(ts, j, end, rule, Append(elems, x)))

parse_sep_list_comma_trailing(ts, i, end, elems) ==
  IF is_eof(ts, i) \/ peek(ts, i) = end THEN Ok(elems, i)
  ELSE Then(parse_expression(ts, i, 0), LAMBDA x, j :
         IF peek(ts, j) = "Comma"
         THEN parse_sep_list_comma_trailing(ts, j + 1, end, Append(elems, x))
         ELSE Ok(Append(elems, x), j))

-----------------------------------------------------------------------------
\* Expressions.

parse_expression(ts, i, min_prec) ==
  Then(parse_unary(ts, i), LAMBDA lhs, j : climb(ts, j, lhs, min_prec))

\* A broken variant: the right operand may hold the operator again.
climb_Right(ts, i, lhs, min_prec) ==
  IF ~peek_binop(ts, i) \/ binop_precedence(peek(ts, i)) < min_prec THEN Ok(lhs, i)
  ELSE Then(parse_expression(ts, i + 1, binop_precedence(peek(ts, i))), LAMBDA rhs, j :
         climb(ts, j, BinaryE(peek(ts, i), lhs, rhs), min_prec))

climb(ts, i, lhs, min_prec) ==
  IF ~peek_binop(ts, i) \/ binop_precedence(peek(ts, i)) < min_prec THEN Ok(lhs, i)
  ELSE Then(parse_expression(ts, i + 1, binop_precedence(peek(ts, i)) + 1), LAMBDA rhs, j :
         climb(ts, j, BinaryE(peek(ts, i), lhs, rhs), min_prec))

parse_unary(ts, i) ==
  IF peek(ts, i) \in {"Minus", "Bang"}
  THEN Then(parse_expression(ts, i + 1, 10), LAMBDA e, j : Ok(UnaryE(peek(ts, i), e), j))
  ELSE Then(parse_primary(ts, i), LAMBDA e, j : parse_postfix(ts, j, e))

parse_postfix(ts, i, expr) ==
  CASE peek(ts, i) = "LBrack" ->
         Then(parse_expression(ts, i + 1, 0), LAMBDA idx, j :
           Then(expect(ts, j, "RBrack"), LAMBDA tok, k :
             parse_postfix(ts, k, Subscript(expr, idx))))
    [] peek(ts, i) = "Dot" ->
         Then(expect_id(ts, i + 1), LAMBDA field, j : parse_postfix(ts, j, Dot(expr, field)))
    [] peek(ts, i) = "LParen" ->
         Then(parse_sep_list_comma(ts, i + 1, "RParen", "expr"), LAMBDA args, j :
           Then(expect(ts, j, "RParen"), LAMBDA tok, k :
             IF expr.k = "var" THEN parse_postfix(ts, k, CallE(expr.name, args)) ELSE Err(k)))
    [] OTHER -> Ok(expr, i)

parse_primary(ts, i) ==
  CASE is_eof(ts, i)         -> Panic(i)
    [] peek(ts, i) = "Int"   -> Ok(IntE(ts[i].n), i + 1)
    [] peek(ts, i) = "Var"   -> Ok(VarE(ts[i].name), i + 1)
    [] peek(ts, i) = "True"  -> Ok(BoolE(1), i + 1)
    [] peek(ts, i) = "False" -> Ok(BoolE(0), i + 1)
    [] peek(ts, i) = "LParen" ->
         Then(parse_expression(ts, i + 1, 0), LAMBDA e, j :
           Then(expect(ts, j, "RParen"), LAMBDA tok, k : Ok(e, k)))
    [] peek(ts, i) = "LBrace" ->
         Then(parse_sep_list_comma_trailing(ts, i + 1, "RBrace", <<>>), LAMBDA elems, j :
           Then(expect(ts, j, "RBrace"), LAMBDA tok, k : Ok(ArrayLit(elems), k)))
    [] peek(ts, i) = "StringLiteral" -> Ok(ArrayLit(<<IntE(ts[i].n)>>), i + 1)
    [] OTHER -> Err(i)

-----------------------------------------------------------------------------
\* Types and declarations of variables.

parse_prim_type(ts, i) ==
  CASE is_eof(ts, i)         -> Panic(i)
    [] peek(ts, i) = "TInt"  -> Ok(IntT, i + 1)
    [] peek(ts, i) = "TBool" -> Ok(BoolT, i + 1)
    [] peek(ts, i) = "Var"   -> Ok(Record(ts[i].name), i + 1)
    [] OTHER                 -> Err(i)

array_suffix(ts, i, t) ==
  IF peek(ts, i) # "LBrack" THEN Ok(t, i)
  ELSE Then(expect(ts, i + 1, "RBrack"), LAMBDA tok, j : array_suffix(ts, j, Array(t)))

parse_type(ts, i) == Then(parse_prim_type(ts, i), LAMBDA t, j : array_suffix(ts, j, t))

parse_dims(ts, i, dims) ==
  CASE peek(ts, i) # "LBrack" -> Ok(dims, i)
    [] peek_n(ts, i, 1) = "RBrack" -> parse_dims(ts, i + 2, Append(dims, <<>>))
    [] OTHER -> Then(parse_expression(ts, i + 1, 0), LAMBDA e, j :
                  Then(expect(ts, j, "RBrack"), LAMBDA tok, k :
                    parse_dims(ts, k, Append(dims, <<e>>))))

RECURSIVE ArrayOf(_, _)
ArrayOf(base, n) == IF n = 0 THEN base ELSE Array(ArrayOf(base, n - 1))

parse_local_decl(ts, i) ==
  Then(expect_id(ts, i), LAMBDA x, a :
    Then(expect(ts, a, "Colon"), LAMBDA tok, b :
      Then(parse_prim_type(ts, b), LAMBDA base, c :
        Then(parse_dims(ts, c, <<>>), LAMBDA dims, d :
          Ok(V(VarDecl(x, ArrayOf(base, Len(dims)), dims, <<>>)), d)))))

\* An initialiser, if there is one.
Initialise(ts, i, vd) ==
  IF peek(ts, i) # "Equal" THEN Ok(vd, i)
  ELSE Then(parse_expression(ts, i + 1, 0), LAMBDA e, j : Ok([vd EXCEPT !.init = <<e>>], j))

parse_variable_declaration(ts, i) ==
  Then(parse_local_decl(ts, i), LAMBDA lv, j : Initialise(ts, j, lv.vd))

parse_item(ts, i, rule) ==
  CASE rule = "expr" -> parse_expression(ts, i, 0)
    [] rule = "type" -> parse_type(ts, i)
    [] rule = "id"   -> expect_id(ts, i)
    [] rule = "param" ->
         Then(expect_id(ts, i), LAMBDA x, j :
           Then(expect(ts, j, "Colon"), LAMBDA tok, k :
             Then(parse_type(ts, k), LAMBDA t, l : Ok([name |-> x, t |-> t], l))))
    [] rule = "lval" ->
         IF peek_n(ts, i, 1) = "Colon" THEN parse_local_decl(ts, i)
         ELSE Then(parse_expression(ts, i, 0), LAMBDA e, j : Ok(E(e), j))

-----------------------------------------------------------------------------
\* Statements.

Semi(ts, i, stmt) == Then(expect(ts, i, "Semicolon"), LAMBDA tok, j : Ok(stmt, j))

parse_lvals(ts, i) == parse_sep_list_comma(ts, i, "Equal", "lval")

\* A lone declaration, or an assignment; one without a right-hand side makes
\* `rhs.last().unwrap()` panic.
DeclOrAssign(ts, i) ==
  Then(parse_lvals(ts, i), LAMBDA lvals, j :
    IF Len(lvals) = 1 /\ lvals[1].k = "V"
    THEN Then(Initialise(ts, j, lvals[1].vd), LAMBDA vd, k : Semi(ts, k, LocalDecl(vd)))
    ELSE Then(expect(ts, j, "Equal"), LAMBDA tok, k :
           Then(parse_sep_list_comma(ts, k, "Semicolon", "expr"), LAMBDA rhs, l :
             Then(Semi(ts, l, Assign(lvals, rhs)), LAMBDA stmt, m :
               IF rhs = <<>> THEN Panic(m) ELSE Ok(stmt, m)))))

parse_procedure(ts, i) ==
  Then(expect_id(ts, i), LAMBDA f, j :
    Then(parse_sep_list_comma(ts, j + 1, "RParen", "expr"), LAMBDA args, k :
      Then(expect(ts, k, "RParen"), LAMBDA tok, l : Semi(ts, l, Procedure(f, args)))))

parse_return(ts, i) ==
  Then(parse_sep_list_comma(ts, i + 1, "Semicolon", "expr"), LAMBDA es, j :
    Semi(ts, j, ReturnS(es)))

\* The guard, and the semicolon a line break after it has inserted.
Guard(ts, i) ==
  Then(parse_expression(ts, i, 0), LAMBDA g, j :
    Ok(g, IF peek(ts, j) = "Semicolon" THEN j + 1 ELSE j))

parse_while(ts, i) ==
  Then(Guard(ts, i + 1), LAMBDA g, j :
    Then(parse_statement(ts, j), LAMBDA body, k : Ok(While(g, body), k)))

\* A broken variant: forgets the else branch it has read.
parse_if_Lone(ts, i) ==
  Then(Guard(ts, i + 1), LAMBDA g, j :
    Then(parse_statement(ts, j), LAMBDA then, k :
      IF peek(ts, k) # "Else" THEN Ok(If(g, then, <<>>), k)
      ELSE Then(parse_statement(ts, k + 1), LAMBDA else, l : Ok(If(g, then, <<>>), l))))

parse_if(ts, i) ==
  Then(Guard(ts, i + 1), LAMBDA g, j :
    Then(parse_statement(ts, j), LAMBDA then, k :
      IF peek(ts, k) # "Else" THEN Ok(If(g, then, <<>>), k)
      ELSE Then(parse_statement(ts, k + 1), LAMBDA else, l : Ok(If(g, then, <<else>>), l))))

\* No semicolon stands between "}" and "else".
parse_compound(ts, i) ==
  Then(parse_block(ts, i + 1, <<>>), LAMBDA ss, j :
    Then(expect(ts, j, "RBrace"), LAMBDA tok, k :
      IF peek(ts, k) = "Else" THEN Ok(Compound(ss), k) ELSE Semi(ts, k, Compound(ss))))

parse_statement(ts, i) ==
  CASE peek(ts, i) = "If"     -> parse_if(ts, i)
    [] peek(ts, i) = "While"  -> parse_while(ts, i)
    [] peek(ts, i) = "Return" -> parse_return(ts, i)
    [] peek(ts, i) \in {"Var", "Int"} ->
         IF peek_n(ts, i, 1) = "LParen" THEN
           (IF peek(ts, i) = "Int" THEN Err(i) ELSE parse_procedure(ts, i))
         ELSE DeclOrAssign(ts, i)
    [] peek(ts, i) = "LBrace" -> parse_compound(ts, i)
    [] OTHER -> Err(i)

parse_block(ts, i, stmts) ==
  IF is_eof(ts, i) \/ peek(ts, i) = "RBrace" THEN Ok(stmts, i)
  ELSE Then(parse_statement(ts, i), LAMBDA stmt, j : parse_block(ts, j, Append(stmts, stmt)))

-----------------------------------------------------------------------------
\* Declarations.

parse_members(ts, i, members) ==
  IF is_eof(ts, i) \/ peek(ts, i) = "RBrace" THEN Ok(members, i)
  ELSE Then(parse_sep_list_comma(ts, i, "Colon", "id"), LAMBDA xs, j :
         Then(expect(ts, j, "Colon"), LAMBDA tok, k :
           Then(parse_type(ts, k), LAMBDA t, l :
             Then(expect(ts, l, "Semicolon"), LAMBDA semi, m :
               parse_members(ts, m,
                 members \o [x \in DOMAIN xs |-> [name |-> xs[x], t |-> t]])))))

parse_record(ts, i) ==
  Then(expect_id(ts, i + 1), LAMBDA tag, j :
    Then(expect(ts, j, "LBrace"), LAMBDA lbrace, k :
      Then(parse_members(ts, k, <<>>), LAMBDA ms, l :
        Then(expect(ts, l, "RBrace"), LAMBDA rbrace, m : Ok(RecordDecl(tag, ms), m)))))

\* The results after ":" may be none, and end at the "{" of the body.
parse_function(ts, i) ==
  Then(expect_id(ts, i), LAMBDA f, a :
    Then(parse_sep_list_comma(ts, a + 1, "RParen", "param"), LAMBDA params, b :
      Then(expect(ts, b, "RParen"), LAMBDA rparen, c :
        Then(IF peek(ts, c) = "Colon" THEN parse_sep_list_comma(ts, c + 1, "LBrace", "type")
             ELSE Ok(<<>>, c), LAMBDA ret_t, d :
          Then(expect(ts, d, "LBrace"), LAMBDA lbrace, e :
            Then(parse_block(ts, e, <<>>), LAMBDA body, g :
              Then(expect(ts, g, "RBrace"), LAMBDA rbrace, h :
                Ok(FunDecl(f, [p \in DOMAIN params |-> params[p].name],
                           Fun([p \in DOMAIN params |-> params[p].t], ret_t), body), h))))))))

parse_declaration(ts, i) ==
  CASE peek(ts, i) = "Var" ->
         IF peek_n(ts, i, 1) = "LParen" THEN parse_function(ts, i)
         ELSE Then(parse_variable_declaration(ts, i), LAMBDA vd, j : Ok(Global(vd), j))
    [] peek(ts, i) = "Record" -> parse_record(ts, i)
    [] OTHER -> Err(i)

parse_program(ts, i, decls) ==
  IF is_eof(ts, i) THEN Ok(decls, i)
  ELSE Then(parse_declaration(ts, i), LAMBDA decl, j :
         Then(expect(ts, j, "Semicolon"), LAMBDA tok, k :
           parse_program(ts, k, Append(decls, decl))))

parse(ts) == parse_program(ts, 1, <<>>)
=============================================================================
