------------------------------ MODULE Liveness ------------------------------
(***************************************************************************)
(* LivenessAnalysis of opt/liveness.rs, a backward may analysis.  A fact is   *)
(* the set of live variables.                                               *)
(***************************************************************************)
EXTENDS Wtac

Direction == "Backwards"

Combine(facts) == UNION facts

\* A broken variant: callees are taken not to read globals.
Flow_LocalCalls(c, fact, li) == (fact \ def_of_instr(li.instr)) \cup UsedVars(li.instr)

\* in = (out - def) + (at a call: every global) + uses.
Flow(c, fact, li) ==
  (fact \ def_of_instr(li.instr))
    \cup (IF IsCall(li.instr) THEN c.globals ELSE {})
    \cup UsedVars(li.instr)

INSTANCE BlockFlow

InitIn(c) == [b \in c.blocks |-> {}]

\* Globals are live when the function returns.
InitOut(c) == [b \in c.blocks |-> IF b = c.exit THEN c.globals ELSE {}]

-----------------------------------------------------------------------------
\* What a fact means.

\* A callee may read any global.
Reads(c, x, i) == x \in UsedVars(i) \/ (IsCall(i) /\ x \in c.globals)

\* The value of x may be read from point p on: some path from p, on which x is
\* not assigned, leads to an instruction that reads x, or to the return if x is
\* global.
MayBeRead(c, x, p) ==
  LET Keeps(i) == x \notin def_of_instr(i)
  IN  \E q \in Reachable(c, {p}, Keeps) :
        \/ HasNext(c, q) /\ Reads(c, x, NextInstr(c, q))
        \/ q = EndOf(c, c.exit) /\ x \in c.globals

LiveAt(c, p) == {x \in Variables(c) : MayBeRead(c, x, p)}
=============================================================================
