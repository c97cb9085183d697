------------------------------- MODULE Copies -------------------------------
(***************************************************************************)
(* AvailableCopiesAnalysis of opt/copies.rs, a forward must analysis.  A fact *)
(* is a set of pairs <<d, s>>: the copy d = s was executed and both sides     *)
(* still have the value they had then.                                      *)
(***************************************************************************)
EXTENDS Wtac

Direction == "Forwards"

Combine(facts) == {pair \in UNION facts : \A fact \in facts : pair \in fact}

\* A call may write any global.
Clobbers(c, i) == def_of_instr(i) \cup IF IsCall(i) THEN c.globals ELSE {}

\* x = x says nothing.
Generates(i) ==
  IF IsVarCopy(i) /\ i.dst[1].name # i.srcs[1].name
  THEN {<<i.dst[1].name, i.srcs[1].name>>}
  ELSE {}

\* A broken variant: only an assignment to the source kills a pair.
Flow_HalfKill(c, fact, li) ==
  {pair \in fact : pair[2] \notin Clobbers(c, li.instr)} \cup Generates(li.instr)

Flow(c, fact, li) ==
  LET clobbered == Clobbers(c, li.instr)
  IN  {pair \in fact : Range(pair) \cap clobbered = {}} \cup Generates(li.instr)

INSTANCE BlockFlow

all_copies(c) == UNION {Generates(li.instr) : li \in Instructions(c)}

InitIn(c) == [b \in c.blocks |-> {}]

\* A broken variant: starting from the bottom, like the may analyses.
InitOut_Bottom(c) == [b \in c.blocks |-> {}]

\* A must analysis starts from the top, or a loop would never keep a copy.
InitOut(c) == [b \in c.blocks |-> IF b = c.entry THEN {} ELSE all_copies(c)]

-----------------------------------------------------------------------------
\* What a fact means.

\* Where a copy d = s cannot be relied on: at the entry, and behind every
\* instruction that may write one of its sides ...
Unsure(c, pair) ==
  {StartOf(c, c.entry)} \cup
    {p \in Points(c) : p[2] > 0 /\
       LET i == c.code[p[1]][p[2]].instr
       IN  pair \notin Generates(i) /\ Range(pair) \cap Clobbers(c, i) # {}}

\* ... and from there on until the copy is executed.
Doubtful(c, pair) ==
  LET Skips(i) == pair \notin Generates(i)
  IN  Reachable(c, Unsure(c, pair), Skips)

Available(c, p) == {pair \in all_copies(c) : p \notin Doubtful(c, pair)}
=============================================================================
