-------------------------------- MODULE Loads --------------------------------
(***************************************************************************)
(* AvailableLoadAnalysis of opt/memory.rs, a forward must analysis.  A fact   *)
(* maps locations to values: what a load from the location would give.        *)
(***************************************************************************)
EXTENDS Wtac

Direction == "Forwards"

\* The entries that all facts share.
Combine(facts) ==
  LET first  == CHOOSE fact \in facts : TRUE
      Shared == {loc \in DOMAIN first :
                   \A fact \in facts : loc \in DOMAIN fact /\ fact[loc] = first[loc]}
  IN  [loc \in Shared |-> first[loc]]

\* struct MemLocation; the operand Mem(base, offset, t) names one.
Location(v) == [base |-> v.name, offset |-> v.offset, t |-> v.t]

width(t) == IF t = "I32" THEN 4 ELSE 8

Disjoint(l1, l2) ==
  l1.offset + width(l1.t) <= l2.offset \/ l2.offset + width(l2.t) <= l1.offset

IsStore(i) == i.op = "Copy" /\ i.dst[1].kind = "Mem"
IsLoad(i)  == i.op = "Copy" /\ i.srcs[1].kind = "Mem"

\* The entries that survive an assignment to x ...
KeepAssign(fact, x) ==
  Restrict(fact, {loc \in DOMAIN fact : loc.base # x /\ fact[loc] # Var(x)})

\* A broken variant: pointers with other names point elsewhere.
KeepStore_NoAlias(fact, loc) ==
  Restrict(fact, {l \in DOMAIN fact : l.base # loc.base \/ Disjoint(l, loc)})

\* ... and a store: pointers with other names may point to the same place.
KeepStore(fact, loc) ==
  Restrict(fact, {l \in DOMAIN fact : l.base = loc.base /\ Disjoint(l, loc)})

Flow(c, fact, li) ==
  LET i == li.instr
  IN  CASE IsCall(i)  -> <<>>
        [] IsStore(i) -> LET loc == Location(i.dst[1])
                         IN  Update(KeepStore(fact, loc), loc, i.srcs[1])
        [] ~IsCall(i) /\ def_of_instr(i) # {} -> KeepAssign(fact, i.dst[1].name)
        [] OTHER -> fact

INSTANCE BlockFlow

InitIn(c) == [b \in c.blocks |-> <<>>]

InitOut(c) == [b \in c.blocks |-> <<>>]
=============================================================================
