----------------------------- MODULE MCOptimizer -----------------------------
(***************************************************************************)
(* The pipeline on small functions: the default one on all of them, and every   *)
(* sequence of three passes on some.                                         *)
(***************************************************************************)
EXTENDS Optimizer, MCPrograms

CONSTANT NStatements

\* Any three passes, one after the other.
Triples == {<<Pass(p), Pass(q), Pass(r)>> : p, q, r \in Range(ALL)}

TaskSet(programs, pipelines) == [cfg : programs, pipeline : pipelines]

\* What cp, copy, cf and dce work on.
Few(k) ==
  { Assignment(k, x, I64(1)),
    Assignment(k, x, y),
    Assignment(k, y, x),
    Operation(k, y, "Sub", x, y),
    Operation(k, x, "Div", x, y) }

\* The default pipeline on every function, and every sequence of three passes on
\* straight functions of two of the Few.
AllTasks ==
       TaskSet(StraightLine(Scalars, NStatements) \cup StraightLine(Memory, NStatements)
                 \cup Conditional(Scalars) \cup Looping(Scalars)
                 \cup Conditional(Memory) \cup Looping(Memory)
                 \cup Returning(Memory) \cup Concatenating(Elements), {default_full})
  \cup TaskSet(StraightLine(Few, 2), Triples)

SelfAssignments(k) == Scalars(k) \cup {Assignment(k, x, x)}

\* u: int; if y > 0 { u = 5 } return u
u == Var("u")
Unassigned ==
  MCFunction(IfThen, [b \in 2 .. 4 |-> CASE b = 2 -> Prologue \o IfGuard
                                         [] b = 3 -> Assignment(2, u, I64(5))
                                         [] b = 4 -> <<Copy(ret, u)>>])

MCTasks == AllTasks
MCMeaningTasks == TaskSet({Unassigned} \cup Conditional(SelfAssignments), {default_full})

\* With y = 0 a division traps, a guard fails and a loop is skipped; with y > 0
\* the loop is entered.  With the pointers r, q and a apart, with r = q, and with
\* a pointing to the second field of r.
MCInputs == {Input(3, 0, 32, 64, 96), Input(3, 2, 32, 64, 96), Input(3, 0, 32, 32, 96), Input(3, 1, 32, 64, 40)}

\* A local that is no parameter starts as 0.
MCInputsAndLocals == {[env |-> ("u" :> 0) @@ input.env] : input \in MCInputs}
=============================================================================
