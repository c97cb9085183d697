------------------------------ MODULE MCFrontend ------------------------------
(***************************************************************************)
(* Small programs for Frontend, and how they are written down: a tree becomes the   *)
(* tokens of a text with no parenthesis that is not needed, in one of three         *)
(* layouts.  What the compiler then makes of the text is compared with what the     *)
(* tree means.                                                                *)
(***************************************************************************)
EXTENDS Frontend

CONSTANT Patience

L == INSTANCE Meaning

-----------------------------------------------------------------------------
\* Writing a tree down.  A statement ends with the token End, which the layout
\* makes a ";" or a line break; Brk is a place where a line may be broken.

T(k) == <<Tok(k)>>
End  == T("End")
Brk  == T("Brk")

Separated(seqs) ==
  FlattenSeq([i \in DOMAIN seqs |-> IF i = 1 THEN seqs[i] ELSE T("Comma") \o seqs[i]])

Precedence ==
  [op \in {"Bar"} |-> 1] @@ [op \in {"And"} |-> 2] @@ [op \in {"DoubleEquals", "NotEquals"} |-> 3]
    @@ [op \in Ordering |-> 4] @@ [op \in {"Plus", "Minus"} |-> 5] @@ [op \in Arithmetic |-> 6]

Strength(e) ==
  CASE e.k = "binary" -> Precedence[e.name] [] e.k = "unary" -> 7 [] OTHER -> 8

\* An array of one large number is written as a character in quotes.
IsString(es) == Len(es) = 1 /\ es[1].k = "int" /\ es[1].n >= 65

RECURSIVE Text(_, _)
Texts(es) == Separated([i \in DOMAIN es |-> Text(es[i], 0)])

Text(e, least) ==
  LET plain ==
        CASE e.k = "int"   -> <<Num(e.n)>>
          [] e.k = "bool"  -> T(IF e.n = 1 THEN "True" ELSE "False")
          [] e.k = "var"   -> <<Id(e.name)>>
          [] e.k = "array" /\ IsString(e.es) -> <<Str(e.es[1].n)>>
          [] e.k = "array" /\ ~IsString(e.es) -> T("LBrace") \o Texts(e.es) \o T("RBrace")
          [] e.k = "binary" -> Text(e.es[1], Strength(e)) \o T(e.name) \o Text(e.es[2], Strength(e) + 1)
          [] e.k = "unary" -> T(e.name) \o Text(e.es[1], 7)
          [] e.k = "call"  -> <<Id(e.name)>> \o T("LParen") \o Texts(e.es) \o T("RParen")
          [] e.k = "subscript" -> Text(e.es[1], 8) \o T("LBrack") \o Text(e.es[2], 0) \o T("RBrack")
          [] e.k = "dot"   -> Text(e.es[1], 8) \o T("Dot") \o <<Id(e.name)>> IN
  IF Strength(e) < least THEN T("LParen") \o plain \o T("RParen") ELSE plain

Brackets == T("LBrack") \o T("RBrack")

RECURSIVE BaseText(_), TypeText(_)
BaseText(t) ==
  CASE t.c = "int" -> T("TInt") [] t.c = "bool" -> T("TBool") [] t.c = "record" -> <<Id(t.tag)>>
    [] t.c = "array" -> BaseText(t.of[1])
TypeText(t) == IF t.c = "array" THEN TypeText(t.of[1]) \o Brackets ELSE BaseText(t)

DeclText(vd) ==
  <<Id(vd.name)>> \o T("Colon") \o BaseText(vd.t)
    \o FlattenSeq([i \in DOMAIN vd.dims |->
         T("LBrack") \o FlattenSeq([j \in DOMAIN vd.dims[i] |-> Text(vd.dims[i][j], 0)]) \o T("RBrack")])
    \o (IF vd.init = <<>> THEN <<>> ELSE T("Equal") \o Text(vd.init[1], 0))

RECURSIVE StatementText(_)
BlockText(ss) ==
  T("LBrace") \o Brk \o FlattenSeq([i \in DOMAIN ss |-> StatementText(ss[i])]) \o T("RBrace")

StatementText(s) ==
  CASE s.k = "local"  -> DeclText(s.vd) \o End
    [] s.k = "return" -> T("Return") \o Texts(s.es) \o End
    [] s.k = "assign" ->
         Separated([i \in DOMAIN s.lhs |-> IF s.lhs[i].k = "V" THEN DeclText(s.lhs[i].vd)
                                           ELSE Text(s.lhs[i].e, 0)])
           \o T("Equal") \o Texts(s.rhs) \o End
    [] s.k = "compound" -> BlockText(s.ss) \o End
    [] s.k = "if" -> T("If") \o Text(s.g, 0) \o T("Guard") \o
         (IF s.else = <<>> THEN StatementText(s.then)
          ELSE (IF s.then.k = "compound" THEN BlockText(s.then.ss) ELSE StatementText(s.then))
                 \o T("Else") \o StatementText(s.else[1]))
    [] s.k = "while" -> T("While") \o Text(s.g, 0) \o T("Guard") \o StatementText(s.body)
    [] s.k = "procedure" -> <<Id(s.name)>> \o T("LParen") \o Texts(s.es) \o T("RParen") \o End

DeclarationText(d) ==
  CASE d.k = "global" -> DeclText(d.vd) \o End
    [] d.k = "record" ->
         T("Record") \o <<Id(d.name)>> \o T("LBrace") \o Brk
           \o FlattenSeq([i \in DOMAIN d.members |->
                <<Id(d.members[i].name)>> \o T("Colon") \o TypeText(d.members[i].t) \o End])
           \o T("RBrace") \o End
    [] d.k = "fun" ->
         LET ps == d.t.of[1].of
             rs == d.t.of[2].of IN
         <<Id(d.name)>> \o T("LParen")
           \o Separated([i \in DOMAIN ps |-> <<Id(d.params[i])>> \o T("Colon") \o TypeText(ps[i])])
           \o T("RParen")
           \o (IF rs = <<>> THEN <<>> ELSE T("Colon") \o Separated([i \in DOMAIN rs |-> TypeText(rs[i])]))
           \o BlockText(d.body) \o End

ProgramText(p) == FlattenSeq([i \in DOMAIN p |-> DeclarationText(p[i])])

\* One statement to a line; all on one line, where the last ";" is left to the end
\* of the text; or a line break at every place that allows one, a blank line for one
\* in three.
Laid(tok, style) ==
  CASE tok.k = "End"   -> IF style = "one line" THEN <<Semicolon>> ELSE <<Newline>>
    [] tok.k = "Brk"   -> IF style = "one line" THEN <<>> ELSE <<Newline>>
    [] tok.k = "Guard" -> IF style = "spread" THEN <<Newline>> ELSE <<>>
    [] style = "spread" /\ ~is_semicolon_candidate(tok) ->
         IF tok.k = "Comma" THEN <<tok, Newline, Newline>> ELSE <<tok, Newline>>
    [] OTHER -> <<tok>>

Written(p, style) ==
  LET text == ProgramText(p)
      laid == FlattenSeq([i \in DOMAIN text |-> Laid(text[i], style)]) IN
  IF style = "one line" THEN Front(laid) ELSE laid

-----------------------------------------------------------------------------
\* The programs.

Plus(a, b)  == BinaryE("Plus", a, b)
Minus(a, b) == BinaryE("Minus", a, b)
Times(a, b) == BinaryE("Asterisk", a, b)
Less(a, b)  == BinaryE("LessThan", a, b)
Neg(a)      == UnaryE("Minus", a)
Store(place, e) == Assign(<<E(place)>>, <<e>>)
Let(x, t, e)    == LocalDecl(VarDecl(x, t, <<>>, <<e>>))
Unset(x, t)     == LocalDecl(VarDecl(x, t, <<>>, <<>>))
Array1(x, e)    == LocalDecl(VarDecl(x, Array(IntT), <<<<>>>>, <<e>>))
Sized(x, e)     == LocalDecl(VarDecl(x, Array(IntT), <<<<e>>>>, <<>>))
New(x, t)       == V(VarDecl(x, t, <<>>, <<>>))
Function0(f, params, ps, rs, ss) == FunDecl(f, params, Fun(ps, rs), ss)
Main(rs, ss) == Function0("main", <<>>, <<>>, rs, ss)
Member(x, t) == [name |-> x, t |-> t]
Zero == IntE(0)
One  == IntE(1)
X == VarE("x")
Y == VarE("y")
A0 == VarE("a")
GlobalInt(x, e) == Global(VarDecl(x, IntT, <<>>, <<e>>))

\* One operator on the left or on the right of another.  Most are ill-typed.
Operators == DOMAIN Precedence
Operand(op, i) == IF op \in {"And", "Bar"} THEN BoolE(i % 2) ELSE IntE(i)
ResultT(op) == IF op \in Arithmetic THEN IntT ELSE BoolT

Nestings ==
  UNION {LET inner == BinaryE(q, Operand(q, 7), Operand(q, 2)) IN
         { <<Main(<<ResultT(op)>>, <<ReturnS(<<BinaryE(op, inner, Operand(op, 3))>>)>>)>>,
           <<Main(<<ResultT(op)>>, <<ReturnS(<<BinaryE(op, Operand(op, 3), inner)>>)>>)>> } :
           op \in Operators, q \in Operators}

\* Unary operators and postfixes around each other.
Prefixed ==
  LET return(t, e) == <<GlobalInt("g", IntE(5)), Main(<<t>>, <<Array1("a", ArrayLit(<<IntE(3), One>>)), ReturnS(<<e>>)>>)>> IN
  { return(IntT, Neg(Plus(IntE(2), One))), return(IntT, Plus(Neg(IntE(2)), One)),
    return(IntT, Minus(IntE(2), Neg(One))), return(IntT, Neg(Neg(IntE(4)))),
    return(IntT, Neg(Subscript(A0, One))), return(IntT, Subscript(A0, Plus(Subscript(A0, One), Neg(One)))),
    return(IntT, Times(Neg(VarE("g")), CallE("length", <<A0>>))),
    return(BoolT, UnaryE("Bang", Less(One, Zero))),
    return(BoolT, BinaryE("And", UnaryE("Bang", BoolE(0)), BoolE(1))),
    return(BoolT, UnaryE("Bang", BinaryE("And", BoolE(0), BoolE(1)))),
    return(BoolT, BinaryE("NotEquals", UnaryE("Bang", BoolE(0)), Less(One, Zero))),
    return(IntT, Subscript(Plus(A0, ArrayLit(<<IntE(8)>>)), IntE(2))),
    return(IntT, CallE("length", <<Plus(A0, A0)>>)),
    return(IntT, Subscript(Plus(ArrayLit(<<IntE(66)>>), A0), Zero)),
    return(IntT, BinaryE("Div", One, Zero)), return(IntT, BinaryE("Mod", Neg(IntE(7)), IntE(2))) }

\* Two statements, one after the other, on two variables, an array and a global.
Small == Compound(<<Store(X, Plus(X, One)), Store(Y, Times(Y, IntE(2)))>>)
Steps ==
  { Store(X, Plus(X, Y)),
    Assign(<<E(X), E(Y)>>, <<Y, X>>),
    Assign(<<E(Subscript(A0, Zero)), E(VarE("g"))>>, <<X, Subscript(A0, One)>>),
    Assign(<<E(VarE("_")), E(Y)>>, <<X, IntE(6)>>),
    Store(Subscript(A0, Minus(X, X)), Y),
    Store(A0, Plus(A0, A0)),
    If(Less(X, Y), Store(X, IntE(9)), <<>>),
    If(Less(X, Y), Small, <<Compound(<<Store(VarE("g"), X)>>)>>),
    While(Less(X, IntE(3)), Small),
    While(Less(X, IntE(3)), Compound(<<Store(X, Plus(X, One)), If(Less(X, IntE(2)), Small, <<>>)>>)),
    Compound(<<Let("x", IntT, Plus(Y, One)), Store(Y, X)>>),
    If(Less(Y, X), Compound(<<ReturnS(<<Y>>)>>), <<Small>>) }

Pairs ==
  {<< GlobalInt("g", IntE(4)),
      Main(<<IntT>>, << Let("x", IntT, One), Let("y", IntT, IntE(2)),
                        Array1("a", ArrayLit(<<IntE(7), IntE(8)>>)), s, t,
                        ReturnS(<<Plus(Plus(Times(X, IntE(1000)), Times(Y, IntE(100))),
                                       Plus(Subscript(A0, Zero), VarE("g")))>>) >>) >> :
     s \in Steps, t \in Steps}

\* Functions, arrays and records.
Rec == RecordDecl("R", <<Member("n", IntT), Member("b", BoolT), Member("m", IntT)>>)
R(e) == CallE("R", <<e, BoolE(1), Plus(e, One)>>)
RT  == Record("R")
Two == Function0("two", <<>>, <<>>, <<IntT, IntT>>, <<ReturnS(<<IntE(3), IntE(4)>>)>>)
Make == Function0("make", <<"n">>, <<IntT>>, <<RT>>, <<ReturnS(<<R(VarE("n"))>>)>>)
Both == Function0("both", <<"n">>, <<IntT>>, <<IntT, RT, IntT>>,
                  <<ReturnS(<<Plus(VarE("n"), One), R(VarE("n")), VarE("n")>>)>>)
Fib == Function0("fib", <<"n">>, <<IntT>>, <<IntT>>,
         << If(Less(VarE("n"), IntE(2)), ReturnS(<<VarE("n")>>), <<>>),
            ReturnS(<<Plus(CallE("fib", <<Minus(VarE("n"), One)>>), CallE("fib", <<Minus(VarE("n"), IntE(2))>>))>>) >>)
Bump == Function0("bump", <<"a", "i">>, <<Array(IntT), IntT>>, <<>>,
          << If(Less(VarE("i"), Zero), ReturnS(<<>>), <<>>),
             Store(Subscript(A0, VarE("i")), Plus(Subscript(A0, VarE("i")), One)),
             Store(VarE("g"), VarE("i")) >>)
Renew == Function0("renew", <<"r">>, <<RT>>, <<>>, <<Store(Dot(VarE("r"), "n"), IntE(50))>>)
Even == Function0("even", <<"n">>, <<IntT>>, <<BoolT>>,
          << If(BinaryE("DoubleEquals", VarE("n"), Zero), Compound(<<ReturnS(<<BoolE(1)>>)>>),
               <<Compound(<<ReturnS(<<CallE("odd", <<Minus(VarE("n"), One)>>)>>)>>)>>) >>)
Odd == Function0("odd", <<"n">>, <<IntT>>, <<BoolT>>,
         << While(BinaryE("NotEquals", VarE("n"), Zero),
                  Compound(<<ReturnS(<<CallE("even", <<Minus(VarE("n"), One)>>)>>)>>)),
            ReturnS(<<BoolE(0)>>) >>)
Fields(r) == Plus(Times(Dot(VarE(r), "n"), IntE(10)), Dot(VarE(r), "m"))
Grid == VarDecl("a", Array(Array(IntT)), <<<<IntE(2)>>, <<IntE(3)>>>>, <<>>)
Cell == Subscript(Subscript(A0, X), Y)
Holder == RecordDecl("H", <<Member("on", BoolT), Member("xs", Array(IntT)), Member("k", IntT)>>)

Returning(t, ss, e) == Main(<<t>>, Append(ss, ReturnS(<<e>>)))
Programs ==
  { <<Fib, Returning(IntT, <<>>, CallE("fib", <<IntE(4)>>))>>,
    <<Even, Odd, Returning(BoolT, <<>>, CallE("even", <<IntE(3)>>))>>,
    <<Two, Returning(IntT, << Unset("x", IntT), Unset("y", IntT),
                              Assign(<<E(Y), E(X)>>, <<CallE("two", <<>>)>>) >>, Plus(Times(X, IntE(10)), Y))>>,
    <<Two, Returning(IntT, << Assign(<<New("x", IntT), New("y", IntT), New("z", IntT)>>, <<One, CallE("two", <<>>)>>) >>,
                     Plus(Times(X, IntE(10)), Plus(Times(Y, IntE(100)), VarE("z"))))>>,
    <<Two, Function0("more", <<>>, <<>>, <<IntT, IntT, BoolT>>, <<ReturnS(<<CallE("two", <<>>), BoolE(1)>>)>>),
      Returning(IntT, << Assign(<<New("x", IntT), New("y", IntT), New("z", BoolT)>>, <<CallE("more", <<>>)>>),
                         If(VarE("z"), Store(X, Plus(X, Y)), <<>>) >>, X)>>,
    <<Rec, Make, Returning(IntT, << Let("r", RT, CallE("make", <<One>>)), Let("s", RT, CallE("make", <<IntE(5)>>)) >>,
                           Plus(Fields("r"), Times(Fields("s"), IntE(100))))>>,
    <<Rec, Both, Returning(IntT, << Assign(<<New("x", IntT), New("r", RT), New("y", IntT)>>, <<CallE("both", <<IntE(7)>>)>>),
                                    Assign(<<E(X), New("s", RT), E(VarE("_"))>>, <<CallE("both", <<IntE(2)>>)>>) >>,
                           Plus(Plus(X, Fields("r")), Plus(Times(Y, IntE(1000)), Fields("s"))))>>,
    <<Rec, Renew, Make, Returning(IntT, << Let("r", RT, R(IntE(2))), Let("s", RT, VarE("r")), Procedure("renew", <<VarE("r")>>),
                                           Procedure("renew", <<R(One)>>), Procedure("renew", <<CallE("make", <<One>>)>>) >>,
                                  Plus(Fields("r"), Fields("s")))>>,
    <<Rec, Returning(IntT, << LocalDecl(VarDecl("rs", Array(RT), <<<<>>>>, <<ArrayLit(<<R(One), R(IntE(2))>>)>>)),
                              Let("r", RT, Subscript(VarE("rs"), One)), Store(Dot(VarE("r"), "b"), BoolE(0)) >>, Fields("r"))>>,
    <<Holder, Returning(IntT, << Let("r", Record("H"), CallE("H", <<BoolE(0), ArrayLit(<<IntE(6), One>>), IntE(9)>>)),
                                 Store(Subscript(Dot(VarE("r"), "xs"), Zero), IntE(5)) >>,
                        Plus(Times(Subscript(Dot(VarE("r"), "xs"), Zero), IntE(10)), Dot(VarE("r"), "k")))>>,
    <<GlobalInt("g", IntE(9)), Bump,
      Returning(IntT, << Array1("a", ArrayLit(<<IntE(5), IntE(6)>>)), Array1("b", A0),
                         Procedure("bump", <<VarE("b"), One>>), Procedure("bump", <<A0, Neg(One)>>) >>,
                Plus(Times(Subscript(A0, One), IntE(10)), VarE("g")))>>,
    <<Returning(IntT, << LocalDecl(Grid), Let("x", IntT, Zero),
                         While(Less(X, IntE(2)),
                               Compound(<<Let("y", IntT, Zero),
                                          While(Less(Y, IntE(3)), Compound(<<Store(Cell, Plus(Times(X, IntE(10)), Y)), Store(Y, Plus(Y, One))>>)),
                                          Store(X, Plus(X, One))>>)) >>,
                Plus(Times(Subscript(Subscript(A0, One), IntE(2)), IntE(100)), CallE("length", <<Subscript(A0, Zero)>>)))>>,
    <<Returning(IntT, << Sized("a", IntE(2)), Store(Subscript(A0, One), IntE(4)), Array1("b", ArrayLit(<<IntE(6)>>)),
                         Store(VarE("b"), Plus(VarE("b"), Plus(ArrayLit(<<IntE(5)>>), ArrayLit(<<>>)))),
                         LocalDecl(VarDecl("c", Array(BoolT), <<<<>>>>, <<Plus(ArrayLit(<<BoolE(0)>>), ArrayLit(<<BoolE(1)>>))>>)),
                         If(Subscript(VarE("c"), One), Store(Subscript(A0, Zero), CallE("length", <<VarE("b")>>)), <<>>) >>,
                Plus(Times(Subscript(VarE("b"), One), IntE(100)), Plus(Times(Subscript(A0, Zero), IntE(10)), Subscript(A0, One))))>>,
    <<Global(VarDecl("g", IntT, <<>>, <<>>)), Global(VarDecl("h", BoolT, <<>>, <<BoolE(1)>>)),
      Main(<<>>, << Store(VarE("g"), IntE(3)), If(VarE("h"), Store(VarE("g"), BinaryE("Div", VarE("g"), Zero)), <<>>),
                    Store(VarE("g"), IntE(4)) >>)>> }

\* A value of one type where another is wanted.
Wanted == {IntT, BoolT, Array(IntT), Array(Array(IntT)), Array(BoolT), RT, Record("H")}
Offered ==
  LET x == VarE("x") b == VarE("b") a == VarE("a") r == VarE("r") IN
  { x, b, a, r, ArrayLit(<<>>), ArrayLit(<<One>>), ArrayLit(<<BoolE(0)>>), ArrayLit(<<a>>), ArrayLit(<<x, b>>),
    ArrayLit(<<ArrayLit(<<>>), a>>), Plus(a, a), Plus(a, ArrayLit(<<>>)), Plus(ArrayLit(<<>>), a), Plus(a, ArrayLit(<<b>>)),
    Plus(x, b), BinaryE("And", b, x), BinaryE("DoubleEquals", x, b), BinaryE("DoubleEquals", b, b), BinaryE("LessThan", b, b),
    Neg(b), UnaryE("Bang", x), Subscript(a, b), Subscript(a, Zero), Subscript(x, Zero), Subscript(r, Zero),
    Dot(r, "n"), Dot(r, "b"), Dot(r, "z"), Dot(a, "n"), R(One), CallE("R", <<One>>), CallE("R", <<b, b, One>>),
    CallE("length", <<a>>), CallE("length", <<b>>), CallE("length", <<>>), CallE("two", <<>>), CallE("none", <<>>),
    CallE("same", <<x>>), CallE("same", <<b>>), CallE("same", <<x, x>>), CallE("nobody", <<>>), VarE("z"), VarE("two") }

None0 == Function0("none", <<>>, <<>>, <<>>, <<>>)
Same  == Function0("same", <<"x">>, <<IntT>>, <<IntT>>, <<ReturnS(<<X>>)>>)
World == << Let("x", IntT, Zero), Let("b", BoolT, BoolE(0)), Array1("a", ArrayLit(<<IntE(2)>>)), Let("r", RT, R(One)) >>
Brought == <<Rec, Holder, Two, None0, Same>>
Dims(t) == IF t.c = "array" THEN (IF t.of[1].c = "array" THEN <<<<>>, <<>>>> ELSE <<<<>>>>) ELSE <<>>

Mixed(decls, ss) == Brought \o decls \o <<Main(<<>>, World \o ss)>>

\* v: t = e, v = e, and want(e) where want has a parameter of type t.
Declares(t, e) == Mixed(<<>>, <<LocalDecl(VarDecl("v", t, Dims(t), <<e>>))>>)
Assigns(t, e)  == Mixed(<<>>, <<LocalDecl(VarDecl("v", t, Dims(t), <<>>)), Store(VarE("v"), e)>>)
Hands(t, e)    == Mixed(<<Function0("want", <<"v">>, <<t>>, <<>>, <<>>)>>, <<Procedure("want", <<e>>)>>)

Mixes == UNION {{Declares(t, e), Assigns(t, e), Hands(t, e)} : t \in Wanted, e \in Offered}

\* Programs on which the checker or the generator panics: v = r and v = R(..) between
\* records, v = two where two is a function, and { } + a.
AssignsRecord   == {Assigns(RT, VarE("r")), Assigns(RT, R(One))}
AssignsFunction == {Assigns(t, VarE("two")) : t \in Wanted}
AppendsToEmpty  ==
  LET t == Array(IntT)
      e == Plus(ArrayLit(<<>>), VarE("a"))
  IN  {Declares(t, e), Assigns(t, e), Hands(t, e)}

\* Two statements that use or declare x and y, in a block, around one, and after one,
\* in a function with a parameter x, before a global y or after one.
Scoped ==
  LET Uses == { Let("x", IntT, IntE(4)), Let("y", IntT, X), Store(X, IntE(5)), Store(Y, Plus(X, One)), Let("x", IntT, Plus(X, One)),
                Assign(<<New("y", IntT), E(X)>>, <<X, IntE(8)>>), Assign(<<New("y", IntT), New("y", IntT)>>, <<One, X>>) }
      Fun1(ss) == Function0("f", <<"x">>, <<IntT>>, <<IntT>>, Append(ss, ReturnS(<<Plus(Times(X, IntE(10)), Y)>>)))
      Start == Main(<<IntT>>, <<ReturnS(<<CallE("f", <<IntE(3)>>)>>)>>)
      Glob  == Global(VarDecl("y", IntT, <<>>, <<IntE(2)>>)) IN
  UNION {{ <<Glob, Fun1(<<s, t>>), Start>>,
           <<Glob, Fun1(<<s, Compound(<<t>>)>>), Start>>,
           <<Glob, Fun1(<<Compound(<<s>>), t>>), Start>>,
           <<Fun1(<<If(Less(X, IntE(9)), Compound(<<s, t>>), <<>>)>>), Glob, Start>> } : s \in Uses, t \in Uses}

\* Texts with a token too few, one twice, or one that is none, which no one meant.
Samples ==
  { <<Two, Returning(IntT, << Let("x", IntT, Plus(Neg(One), Times(IntE(2), IntE(3)))),
                              While(Less(X, IntE(2)), Compound(<<Store(X, CallE("length", <<ArrayLit(<<X, One>>)>>))>>)),
                              Assign(<<New("y", IntT), E(X)>>, <<CallE("two", <<>>)>>),
                              If(BinaryE("And", Less(X, One), UnaryE("Bang", BoolE(0))), Small, <<Small>>) >>, Y)>>,
    <<Rec, GlobalInt("g", IntE(9)), Bump,
      Returning(IntT, << Let("r", RT, R(One)), Store(Dot(VarE("r"), "n"), One), LocalDecl(Grid),
                         Procedure("bump", <<Subscript(A0, Zero), One>>) >>, Subscript(Subscript(A0, One), IntE(2)))>> }

Without(text, i) == SubSeq(text, 1, i - 1) \o SubSeq(text, i + 1, Len(text))
Twice(text, i)   == SubSeq(text, 1, i) \o SubSeq(text, i, Len(text))

NoToken(text, i) == [text EXCEPT ![i] = Error]

Slips(text) == UNION {{Without(text, i), Twice(text, i), NoToken(text, i)} : i \in DOMAIN text}

Meant(programs, styles) == {[program |-> p, tokens |-> Written(p, style)] : p \in programs, style \in styles}

MCSources ==
       Meant(Nestings \cup Prefixed \cup Mixes \cup Scoped, {"lines"})
  \cup Meant(Pairs, {"spread"})
  \cup Meant(Programs, {"lines", "spread", "one line"})
  \cup {[program |-> <<>>, tokens |-> text] : text \in UNION {Slips(Written(p, "lines")) : p \in Samples}}

\* The shapes on which the compiler panics, with the beginnings of a text.
MCPanickingSources ==
       Meant(AssignsRecord \cup AssignsFunction \cup AppendsToEmpty, {"lines"})
  \cup {[program |-> <<>>, tokens |-> SubSeq(text, 1, n)] : text \in {Written(p, "lines") : p \in Samples}, n \in 1 .. 20}

-----------------------------------------------------------------------------

\* The tree the parser makes of the text is the tree that was written down, with
\* the operators grouped as their precedences say and each statement in the block
\* it was in, wherever lines were broken (parse_expression, parse_statement).
ParsesBack == phase = "resolve" /\ written # <<>> => ast = written

\* Of what the lexer returned nothing but punctuation is missing from the tree, and
\* the order is kept, whatever the text.  What follows a token that is none, the lexer
\* does not return, and without an error; of that this says nothing.
Punctuation == {"Semicolon", "Comma", "LParen", "RParen", "LBrace", "RBrace", "LBrack", "RBrack", "Colon", "Equal", "End", "Brk", "Guard"}

Words(text) == SelectSeq(text, LAMBDA tok : tok.k \notin Punctuation)

\* A line ": int" of a record, which names no member, is accepted and vanishes
\* (parse_members).
Nameless(text) == \E i \in 2 .. Len(text) : text[i].k = "Colon" /\ text[i - 1].k \in {"Semicolon", "LBrace"}

NothingLost ==
  phase = "resolve" => Nameless(output) \/ Words(ProgramText(ast)) = Words(output)

Means == L!Result(written)

\* A text that ends where more must come.
BreaksOff(text) == text = <<>> \/ text[Len(text)].k \notin {"Semicolon", "RBrace"}


\* "Errors never panic the compiler" (architecture.md).
ErrorsNeverPanic == phase # "panic"

\* A program the checker accepts never uses a value as what it is not: no integer is
\* indexed, no Boolean added, no member looked for in a record without it, and what
\* a call returns fits where it goes (typecheck.rs).
TypeSound == phase = "generate" /\ written # <<>> => Means.status # "wrong"

\* What the generator makes is accepted by the engine: each instruction finds values
\* of its types, each branch is inside its target, and each name it mentions is there,
\* once (Module::new in runtime/src/main.rs), so no program that passed the checker is
\* refused at the end.
CodeValidates == phase = "compiled" => Valid(code)

Agrees(m, r) ==
  CASE m.status \in {"undefined", "impatient"} \/ r.status = "fuel" -> TRUE
    [] m.status = "trap" -> r.status = "trap"
    [] OTHER ->
         /\ r.status = "ok"
         /\ Len(m.vals) = Len(r.ret)
         /\ \A i \in DOMAIN r.ret : m.vals[i].k \in {"int", "bool"} => m.vals[i].v = r.ret[i]
         /\ \A x \in DOMAIN m.globals : m.globals[x].k \in {"int", "bool"} => m.globals[x].v = r.globals[x]

\* The compiled program does what the tree means: the same results, the same globals
\* and a trap where there is one, whether values are on the stack, in a frame or on
\* the heap, with every call, return and assignment in between (wtac_gen, emitter).
SameMeaning == phase = "run" /\ written # <<>> => Agrees(Means, result)

\* Every path out of every function, each return of it and its end, gives its frame
\* back: after main the stack pointer is where it was (gen_function, gen_stmt).
FrameRestored ==
  phase = "run" /\ result.status = "ok" => result.globals["__stack_pointer"] = Layout!heap_base
=============================================================================
