------------------------------ MODULE Reaching ------------------------------
(***************************************************************************)
(* ReachingAnalysis of opt/reaching.rs, a forward may analysis.  A fact is a  *)
(* set of definitions <<id, x>>: instruction id may have been the last to      *)
(* assign x.  Parameters and globals enter the function with id 0.            *)
(***************************************************************************)
EXTENDS Wtac

Direction == "Forwards"

Combine(facts) == UNION facts

\* A call assigns its destination and, for all we know, every global.
Defines(c, i) == def_of_instr(i) \cup IF IsCall(i) THEN c.globals ELSE {}

\* A broken variant: definitions are added and never killed.
Flow_NoKill(c, fact, li) == fact \cup ({li.id} \X Defines(c, li.instr))

Flow(c, fact, li) ==
  LET defined == Defines(c, li.instr)
  IN  {d \in fact : d[2] \notin defined} \cup ({li.id} \X defined)

INSTANCE BlockFlow

EntryDefs(c) == {0} \X (c.params \cup c.globals)

InitIn(c) == [b \in c.blocks |-> IF b = c.entry THEN EntryDefs(c) ELSE {}]

InitOut(c) == [b \in c.blocks |-> {}]

-----------------------------------------------------------------------------
\* What a fact means.

\* The definitions an instruction makes, and all there are.
DefsOf(c, li) == {li.id} \X Defines(c, li.instr)

AllDefs(c) == EntryDefs(c) \cup UNION {DefsOf(c, li) : li \in Instructions(c)}

\* The points right behind a definition.
MadeAt(c, d) ==
  {p \in Points(c) : p[2] > 0 /\ d \in DefsOf(c, c.code[p[1]][p[2]])}
    \cup IF d \in EntryDefs(c) THEN {StartOf(c, c.entry)} ELSE {}

\* The definitions that some path really brings to point p unchanged.
DefsThatReach(c, p) ==
  LET Arrives(d) == LET Keeps(i) == d[2] \notin Defines(c, i)
                    IN  p \in Reachable(c, MadeAt(c, d), Keeps)
  IN  {d \in AllDefs(c) : Arrives(d)}
=============================================================================
