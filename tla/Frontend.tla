------------------------------- MODULE Frontend -------------------------------
(***************************************************************************)
(* The compiler without the optimizer (compile.rs), and the run of what it makes:    *)
(* the phases one after the other, each on what the one before has left.  The parser  *)
(* asks the lexer for tokens as it goes; here it gets them when the lexer has ended,   *)
(* which makes no difference to a lexer that hears nothing of it.                  *)
(*                                                                         *)
(* The optimizer, which is off unless asked for, is the subject of Optimizer and     *)
(* Restructure.                                                               *)
(***************************************************************************)
EXTENDS Lexer, Execution

CONSTANT Sources     \* what is compiled: a program, or none, and its tokens

Parsing   == INSTANCE Parser
Resolving == INSTANCE Resolver

VARIABLES
  written,      \* the program the programmer had in mind, if there is one
  phase,        \* the phase to come, or how it ended
  ast,          \* the syntax tree as it is now
  table,        \* the symbol table
  code,         \* WTAC, of which the emitter makes WASM
  result        \* the state the run of the module ended in

tree == <<ast, table, code, result>>
vars == <<lexer, written, phase, tree>>

Init ==
  /\ \E s \in Sources : written = s.program /\ source = s.tokens
  /\ LexerInit
  /\ phase = "parse"
  /\ ast = <<>>
  /\ table = <<>>
  /\ code = [funs |-> <<>>, data |-> <<>>, panicked |-> FALSE]
  /\ result = [status |-> "none"]

Lex ==
  /\ LexerNext
  /\ UNCHANGED <<written, phase, tree>>

\* A phase that is over hands its result to the next one, or compilation ends.
Proceed(next, fails, panics) ==
  /\ phase' = CASE panics -> "panic" [] fails -> "error" [] OTHER -> next
  /\ UNCHANGED <<lexer, written>>

Parsed(r) ==
  /\ Proceed("resolve", r.res = "error", r.res = "panic")
  /\ ast' = r.node

Parse ==
  /\ phase = "parse"
  /\ ended
  /\ Parsed(Parsing!parse(output))
  /\ UNCHANGED <<table, code, result>>

Resolved(r) ==
  /\ Proceed("typecheck", ~r.st.ok, FALSE)
  /\ ast' = r.node

Resolve ==
  /\ phase = "resolve"
  /\ Resolved(Resolving!resolve(ast))
  /\ UNCHANGED <<table, code, result>>

Typechecked(r) ==
  /\ Proceed("generate", r.ty = "error", r.ty = "panic")
  /\ table' = r.G

Typecheck ==
  /\ phase = "typecheck"
  /\ Typechecked(typecheck(ast))
  /\ UNCHANGED <<ast, code, result>>

Generate ==
  /\ phase = "generate"
  /\ code' = generate(table, ast)
  /\ Proceed("compiled", FALSE, Panicked(code'))
  /\ UNCHANGED <<ast, table, result>>

\* The engine refuses a module that is not valid, or has no main.
Execute ==
  /\ phase = "compiled"
  /\ LET runs == Valid(code) /\ \E f \in Range(code.funs) : f.name = "main" IN
     /\ Proceed("run", ~runs, FALSE)
     /\ result' = IF runs THEN Run(code) ELSE [status |-> "refused"]
  /\ UNCHANGED <<ast, table, code>>

Over == phase \in {"run", "error", "panic"}

Finished == Over /\ UNCHANGED vars

Next == Lex \/ Parse \/ Resolve \/ Typecheck \/ Generate \/ Execute \/ Finished

Spec == Init /\ [][Next]_vars

\* The parser asks for the next token until there is none.
FairSpec == Spec /\ WF_vars(Lex)

-----------------------------------------------------------------------------

\* Every text is read to its end or its first error, blank lines and all: `next`
\* does not turn round in its loop for ever, and says None at last.
EveryTextIsRead == <>ended
=============================================================================
