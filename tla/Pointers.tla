------------------------------ MODULE Pointers ------------------------------
(***************************************************************************)
(* PointerAnalysis of opt/memory.rs, a forward analysis.  A fact maps some    *)
(* variables to <<base, offset>>: the variable points offset bytes behind     *)
(* what `base = eta_malloc(..)` returned.                                    *)
(***************************************************************************)
EXTENDS Wtac

Direction == "Forwards"

\* The bindings that all facts share.
Combine(facts) ==
  LET first  == CHOOSE fact \in facts : TRUE
      Shared == {x \in DOMAIN first :
                   \A fact \in facts : x \in DOMAIN fact /\ fact[x] = first[x]}
  IN  [x \in Shared |-> first[x]]

Bind(fact, x, base, offset) == Update(fact, x, <<base, offset>>)

\* d = base + constant, and the constant.
IsOffset(i) ==
  /\ i.op = "Binary" /\ i.fn = "Add"
  /\ i.srcs[1].kind = "Var" /\ i.srcs[2].kind = "Imm" /\ i.dst[1].kind = "Var"

Offset(i) == IF IsOffset(i) THEN i.srcs[2].int ELSE 0

IsMalloc(i) == IsCall(i) /\ i.fn = "eta_malloc" /\ def_of_instr(i) # {}

\* No other instruction touches the fact; in particular an assignment of
\* something that is not a known pointer leaves the old binding in place.
Flow(c, fact, li) ==
  LET i == li.instr
  IN  CASE IsMalloc(i) -> Bind(fact, i.dst[1].name, i.dst[1].name, 0)
        [] (IsOffset(i) \/ IsVarCopy(i)) /\ i.srcs[1].name \in DOMAIN fact ->
             LET known == fact[i.srcs[1].name]
             IN  Bind(fact, i.dst[1].name, known[1], known[2] + Offset(i))
        [] OTHER -> fact

INSTANCE BlockFlow

InitIn(c) == [b \in c.blocks |-> <<>>]

InitOut(c) == [b \in c.blocks |-> <<>>]
=============================================================================
