----------------------------- MODULE MCPrograms -----------------------------
(***************************************************************************)
(* Small functions for the runs of the analyses.  Every function the code    *)
(* generator emits starts in an empty entry block and returns from block 0,  *)
(* the epilogue; the shapes below are what `if`, `while` and `return` make of *)
(* the rest, with runs of empty blocks folded into one edge.  A block with    *)
(* two successors ends in a branch on the variable c.  The epilogue stands      *)
(* behind the block func_exit, so its first instruction is number 1 of its list. *)
(***************************************************************************)
EXTENDS Wtac, TLC

Exit  == 0
Entry == 1

\* A shape maps every block but the exit to its successors, the target of the
\* conditional branch first.
Straight    == << <<2>>, <<0>> >>                              \* 2
If          == << <<2>>, <<3, 0>>, <<0>> >>                    \* if c { 3 }
IfElse      == << <<2>>, <<3, 4>>, <<0>>, <<0>> >>             \* if c { 3 } else { 4 }
IfThen      == << <<2>>, <<3, 4>>, <<4>>, <<0>> >>             \* if c { 3 } 4
While       == << <<2>>, <<0, 3>>, <<2>> >>                    \* while c { 3 }
WhileReturn == << <<2>>, <<0, 3>>, <<0, 2>> >>                 \* while c { if c { return } }
WhileIf     == << <<2>>, <<0, 3>>, <<4, 2>>, <<2>> >>          \* while c { if c { 4 } }
ThenWhile   == << <<2>>, <<3>>, <<0, 4>>, <<3>> >>             \* 2; while c { 4 }
WhileThen   == << <<2>>, <<3>>, <<5, 4>>, <<3>>, <<0>> >>      \* 2; while c { 4 } 5
Whiles      == << <<2>>, <<3>>, <<5, 4>>, <<3>>, <<6>>, <<8, 7>>, <<6>>, <<0>> >>
                                               \* 2; while c { 4 } 5; while c { 7 } 8

Succs(shape) == [b \in {0} \cup DOMAIN shape |-> IF b = 0 THEN {} ELSE Range(shape[b])]

Branch(shape, b) == IF Len(shape[b]) = 2 THEN <<BrIf(Var("c"), shape[b][1])>> ELSE <<>>

\* A function of the given shape; body gives the code of the blocks from 2 on.
Function(shape, body, epilogue, params, globals) ==
  LET succs  == Succs(shape)
      blocks == DOMAIN succs
      Instrs(b) == CASE b = Exit  -> epilogue
                     [] b = Entry -> <<>>
                     [] OTHER     -> body[b] \o Branch(shape, b)
  IN  [ blocks  |-> blocks,
        succs   |-> succs,
        preds   |-> [b \in blocks |-> {p \in blocks : b \in succs[p]}],
        code    |-> [b \in blocks |-> Labelled(b, IF b = Exit THEN 1 ELSE 0, Instrs(b))],
        entry   |-> Entry,
        exit    |-> Exit,
        params  |-> params,
        globals |-> globals ]

\* Every function of one of the shapes whose block b is taken from Menu(b).
Functions(shapes, Menu(_), epilogue, globals) ==
  LET Bodies(s) == {body \in [2 .. Len(s) -> UNION {Menu(b) : b \in 2 .. Len(s)}] :
                      \A b \in 2 .. Len(s) : body[b] \in Menu(b)}
  IN  UNION {{Function(s, body, epilogue, {"c"}, globals) : body \in Bodies(s)} : s \in shapes}

-----------------------------------------------------------------------------
\* Functions made of statements lowered the way wtac/wtac_gen lowers them: a value
\* to assign goes through a temporary, a loaded value and an operation get one too.
\* Statement k uses the temporaries t1_k, t2_k, ...

x == Var("x")
y == Var("y")
g == Var("g")
c == Var("c")
sp == Var("__stack_pointer")
rbp == Var("rbp")
ret == Var("__ret_val")
I64(n) == Imm(n, "I64")
I32(n) == Imm(n, "I32")
Tmp(n, k) == Var("t" \o ToString(n) \o "_" \o ToString(k))

\* gen_function
Prologue == <<Copy(rbp, sp), Binary(sp, "Sub", sp, I32(0), "I32"), Copy(Var("rsp"), sp)>>
Epilogue == <<Copy(sp, rbp), Return(<<ret>>)>>
ReturnX  == <<Copy(ret, x)>>

\* gen_assign, gen_binary, gen_call
Assignment(k, dst, val) == <<Copy(Tmp(1, k), val), Copy(dst, Tmp(1, k))>>
Operation(k, dst, fn, a, b) ==
  <<Binary(Tmp(2, k), fn, a, b, "I64")>> \o Assignment(k, dst, Tmp(2, k))
CallOf(k, dst, fn, args) ==
  <<FCall(<<Tmp(2, k)>>, fn, args)>> \o Assignment(k, dst, Tmp(2, k))

\* gen_dot and gen_subscript in an expression: the value is loaded first.
Loaded(k, dst, place) == <<Copy(Tmp(2, k), place)>> \o Assignment(k, dst, Tmp(2, k))

Scalars(k) ==
  { Assignment(k, x, I64(1)),
    Assignment(k, x, y),
    Assignment(k, y, x),
    Assignment(k, g, x),
    Assignment(k, y, g),
    Operation(k, x, "Add", I64(1), I64(2)),
    Operation(k, y, "Sub", x, y),
    Operation(k, x, "Div", x, y),
    CallOf(k, x, "f", <<x>>),
    <<FCall(<<>>, "p", <<y>>)>> }

\* r and q point to records with an int at 0 and at 8, a to an array.
rf == Mem("r", 0, "I64")
rg == Mem("r", 8, "I64")
qf == Mem("q", 0, "I64")

\* ptr_offset
PtrOffset(k, array, index) ==
  << Binary(Tmp(4, k), "Mult", index, I64(8), "I64"),
     Unary(Tmp(5, k), "Wrap", Tmp(4, k), "I32"),
     Binary(Tmp(6, k), "Add", array, Tmp(5, k), "I32") >>

Element(k) == Mem(Tmp(6, k).name, 0, "I64")

\* create_simple_array and gen_array_lit: a = {x}
NewArray(k) ==
  << FCall(<<Tmp(7, k)>>, "eta_malloc", <<I32(16)>>),
     Copy(Mem(Tmp(7, k).name, 0, "I64"), I64(1)),
     Binary(Tmp(8, k), "Add", Tmp(7, k), I32(8), "I32"),
     Copy(Mem(Tmp(8, k).name, 0, "I64"), x) >> \o Assignment(k, Var("a"), Tmp(8, k))

Memory(k) ==
  { Assignment(k, rf, x),
    Assignment(k, rg, I64(1)),
    Assignment(k, qf, I64(2)),
    Loaded(k, x, rf),
    Loaded(k, y, rg),
    Assignment(k, Var("r"), Var("q")),
    NewArray(k),
    PtrOffset(k, Var("a"), I64(0)) \o Assignment(k, Element(k), x),
    PtrOffset(k, Var("a"), I64(0)) \o Loaded(k, x, Element(k)),
    <<FCall(<<>>, "p", <<y>>)>> }

\* gen_if: the guard is a comparison.  gen_while: its negation leaves the loop.
IfGuard    == <<Binary(c, "Gt", y, I64(0), "I32")>>
WhileGuard == <<Binary(Tmp(3, 0), "Gt", y, I64(0), "I32"), Unary(c, "Not", Tmp(3, 0), "I32")>>
CountDown  == Operation(0, y, "Sub", y, I64(1))

Params  == {"x", "y", "r", "q", "a", "ret_ptr"}
Globals == {"g", "__stack_pointer"}

MCFunction(shape, body) == Function(shape, body, Epilogue, Params, Globals)

Statements(S(_), n) ==
  LET Lists[k \in 0 .. n] ==
        IF k = 0 THEN {<<>>} ELSE {s \o t : s \in Lists[k - 1], t \in S(k)}
  IN  Lists[n]

StraightLine(S(_), n) ==
  {MCFunction(Straight, [b \in {2} |-> Prologue \o s \o ReturnX]) : s \in Statements(S, n)}

\* s1; if y > 0 { s2 } return x
Conditional(S(_)) ==
  {MCFunction(IfThen, [b \in 2 .. 4 |-> CASE b = 2 -> Prologue \o s \o IfGuard
                                          [] b = 3 -> t
                                          [] b = 4 -> ReturnX]) : s \in S(1), t \in S(2)}

\* s1; while y > 0 { s2; y = y - 1 } return x
Looping(S(_)) ==
  {MCFunction(WhileThen, [b \in 2 .. 5 |-> CASE b = 2 -> Prologue \o s
                                             [] b = 3 -> WhileGuard
                                             [] b = 4 -> t \o CountDown
                                             [] b = 5 -> ReturnX]) : s \in S(1), t \in S(2)}

\* gen_return of what goes through the pointer to the results: a record, field by
\* field, or the results of a call, which are in the frame of the caller.
Fields(to, from) ==
  <<Copy(Mem(to, 0, "I64"), Mem(from, 0, "I64")), Copy(Mem(to, 8, "I64"), Mem(from, 8, "I64"))>>

ReturnsRecord(from) == Fields("ret_ptr", from)

ReturnsResults(k) ==
  << Binary(Tmp(9, k), "Add", Var("rsp"), I32(0), "I32"), FCall(<<>>, "two", <<Tmp(9, k), x>>) >>
    \o Fields("ret_ptr", Tmp(9, k).name)

\* The function itself returns nothing then.
NoValue == <<Copy(sp, rbp), Return(<<>>)>>

\* s1; s2; return r, or the results of a call; and s1; if y > 0 { return r } else { s2; return q }
Returning(S(_)) ==
  {Function(Straight, [b \in {2} |-> Prologue \o s \o tail], NoValue, Params, Globals) :
     s \in Statements(S, 2), tail \in {ReturnsRecord("r"), ReturnsResults(5)}} \cup
  {Function(IfElse, [b \in 2 .. 4 |-> CASE b = 2 -> Prologue \o s \o IfGuard
                                       [] b = 3 -> ReturnsRecord("r")
                                       [] b = 4 -> t \o ReturnsRecord("q")],
            NoValue, Params, Globals) : s \in S(1), t \in S(2)}

\* gen_array_concat: y = a1 + a2, both of them a.  The elements before `from` have been copied.
l1 == Var("l1")
l2 == Var("l2")
joined == Var("joined")

Allocated ==
  << FCall(<<l1>>, "length", <<Var("a")>>), FCall(<<l2>>, "length", <<Var("a")>>),
     Binary(Tmp(1, 6), "Add", l1, l2, "I64"),
     Binary(Tmp(2, 6), "Mult", Tmp(1, 6), I64(8), "I64"),
     Binary(Tmp(3, 6), "Add", Tmp(2, 6), I64(8), "I64"),
     Unary(Tmp(4, 6), "Wrap", Tmp(3, 6), "I32"),
     FCall(<<Tmp(5, 6)>>, "eta_malloc", <<Tmp(4, 6)>>),
     Copy(Mem(Tmp(5, 6).name, 0, "I64"), Tmp(1, 6)),
     Binary(joined, "Add", Tmp(5, 6), I32(8), "I32") >>

\* build_copy_loop, whose counters are Tmp(1, k) and Tmp(2, k); PtrOffset(k, ..) and
\* PtrOffset(k + 1, ..) give the elements.
Counted(k, from) == <<Copy(Tmp(1, k), I64(0)), Copy(Tmp(2, k), from)>>
CountGuard(k, bound) == <<Binary(Tmp(3, k), "Lt", Tmp(1, k), bound, "I32"), Unary(c, "Not", Tmp(3, k), "I32")>>
CopyElement(k) ==
  PtrOffset(k, Var("a"), Tmp(1, k)) \o PtrOffset(k + 1, joined, Tmp(2, k)) \o
  << Copy(Element(k + 1), Element(k)),
     Binary(Tmp(1, k), "Add", Tmp(1, k), I64(1), "I64"),
     Binary(Tmp(2, k), "Add", Tmp(2, k), I64(1), "I64") >>

\* s1; a + a; s2; return the element of the sum at `index`
Concatenating(S(_)) ==
  {MCFunction(Whiles, [b \in 2 .. 8 |-> CASE b = 2 -> Prologue \o s \o Allocated \o Counted(7, I64(0))
                                          [] b = 3 -> CountGuard(7, l1)
                                          [] b = 4 -> CopyElement(7)
                                          [] b = 5 -> Counted(9, l1)
                                          [] b = 6 -> CountGuard(9, l2)
                                          [] b = 7 -> CopyElement(9)
                                          [] b = 8 -> t \o PtrOffset(3, joined, I64(index))
                                                        \o Loaded(3, x, Element(3)) \o ReturnX]) :
     s \in S(1), t \in S(2), index \in {0, 2}}

\* Before a copy from memory to memory: stores to what it reads, or next to it.
Storing(k) == { <<>>, Assignment(k, rf, x), Assignment(k, qf, I64(2)), Loaded(k, x, rf) }

Elements(k) == { <<>>, PtrOffset(k, Var("a"), I64(0)) \o Assignment(k, Element(k), x) }

\* The k-th call returns k, or the k-th block of the heap, or an array's length; it sets
\* g to -k and stores 20 + k through a pointer it knows, or its two results.
MCCallee(input, fn, k) ==
  LET At(addr, value) == [kind |-> "store", addr |-> addr, width |-> 8, value |-> value]
  IN  [ ret     |-> CASE fn = "eta_malloc" -> 200 + 16 * k
                      [] fn = "length" -> input.length
                      [] OTHER -> k,
        globals |-> [v \in {"g"} |-> -k],
        stores  |-> CASE fn \in {"eta_malloc", "length"} -> <<>>
                      [] fn = "two" -> <<At(1000, 30 + k), At(1008, 40 + k)>>
                      [] OTHER -> <<At(32, 20 + k)>> ]

Input(vx, vy, vr, vq, va) ==
  [ env |-> [v \in Params \cup Globals |->
              CASE v = "x" -> vx [] v = "y" -> vy [] v = "r" -> vr [] v = "q" -> vq
                [] v = "a" -> va [] v = "ret_ptr" -> 300
                [] v = "g" -> 2 [] v = "__stack_pointer" -> 1000],
    length |-> vy ]
=============================================================================
