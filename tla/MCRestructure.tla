---------------------------- MODULE MCRestructure ----------------------------
(***************************************************************************)
(* Restructuring of small functions: every if and while over the simple        *)
(* blocks, every nesting of two, pairs in sequence, and pairs in a loop.       *)
(***************************************************************************)
EXTENDS Restructure

CONSTANT Guards

\* What a branch or the body of a loop may hold: nothing, work, a return.
Simple == {<<>>, <<OpStmt>>, <<ReturnStmt>>}

Compound(guards, blocks) ==
       {IfStmt(guard, then, else) : guard \in guards, then \in blocks, else \in blocks}
  \cup {WhileStmt(guard, block) : guard \in guards, block \in blocks}

Typed(blocks) == {block \in blocks : typecheck_block(block) # "Error"}

Flat   == Compound(Guards, Simple)
Plain  == Compound({"plain"}, Simple)
Nested == Compound({"plain"}, Simple \cup {<<s>> : s \in Plain})

MCFunctions ==
  Typed(     {<<s>> : s \in Flat \cup Nested}
        \cup {<<s, t>> : s \in Plain, t \in Plain}
        \cup {<<s, ReturnStmt>> : s \in Nested}
        \cup {<<WhileStmt("plain", <<s, t>>)>> : s \in Plain, t \in Plain}
        \cup {<<WhileStmt("plain", <<s, OpStmt>>)>> : s \in Nested})

MCDeadLoops == {f \in MCFunctions : HasDeadLoop(f)}
MCPanicking == {f \in MCFunctions : ~HasDeadLoop(f) /\ (HasStrandedIf(f, FALSE) \/ HasConcatGuard(f))}

MCOutcomes == [1 .. 4 -> BOOLEAN]
=============================================================================
