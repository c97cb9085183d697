----------------------------- MODULE MCLockstep -----------------------------
(***************************************************************************)
(* Two runs side by side, of small functions in the form that each pass of     *)
(* Pass::ALL finds them in when the passes run one after the other.            *)
(***************************************************************************)
EXTENDS Lockstep, PassFacts, MCPrograms

CONSTANTS NStatements, Rounds

\* Three in a row of statements that pass a value through a global past a callee, or
\* divide by 0; and of stores and loads whose pointers may be equal.
Passing(k) ==
  { Assignment(k, x, I64(1)),
    Assignment(k, g, x),
    Operation(k, x, "Div", x, y),
    <<FCall(<<>>, "p", <<y>>)>> }

Aliasing(k) ==
  { Assignment(k, rf, x),
    Assignment(k, rg, I64(1)),
    Assignment(k, qf, I64(2)),
    Loaded(k, x, rf) }

Programs ==
       StraightLine(Scalars, NStatements) \cup StraightLine(Memory, NStatements)
  \cup StraightLine(Passing, NStatements + 1) \cup StraightLine(Aliasing, NStatements + 1)
  \cup Conditional(Scalars) \cup Looping(Scalars) \cup Conditional(Memory) \cup Looping(Memory)
  \cup Returning(Storing) \cup Concatenating(Elements)

\* What the passes `rest` work on, one after the other.
RECURSIVE TasksOn(_,_)
TasksOn(programs, rest) ==
  IF rest = <<>> THEN {}
  ELSE LET tasks == {[cfg |-> p, pass |-> Head(rest), facts |-> FactsFor(Head(rest), p)] : p \in programs}
       IN  tasks \cup TasksOn({run_pass(task.cfg, task.pass, task.facts).cfg : task \in tasks}, Tail(rest))

\* The passes of a fixpoint group, in its first rounds.
Group == <<"cp", "copy", "cf", "dce", "ptr", "stl">>

MCTasks == TasksOn(Programs, [n \in 1 .. Rounds * Len(Group) |-> Group[((n - 1) % Len(Group)) + 1]])

MCInputs == {Input(3, 0, 32, 64, 96), Input(3, 2, 32, 32, 96)}
=============================================================================
