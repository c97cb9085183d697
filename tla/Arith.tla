-------------------------------- MODULE Arith --------------------------------
(***************************************************************************)
(* Integer arithmetic, twice: what the constant folder computes in Rust       *)
(* (opt/reaching.rs) and what the WASM instruction the emitter chooses would   *)
(* have computed at run time.  An i64 has IntBits bits, an i32 HalfBits.       *)
(*                                                                         *)
(* An option is a set of at most one value.                                  *)
(***************************************************************************)
EXTENDS Integers

CONSTANTS IntBits, HalfBits

ASSUME BitsAssumption ==
  IntBits \in Nat \ {0, 1} /\ HalfBits \in Nat \ {0, 1} /\ HalfBits <= IntBits

MinInt(bits) == -(2 ^ (bits - 1))
MaxInt(bits) == 2 ^ (bits - 1) - 1
Ints(bits)   == MinInt(bits) .. MaxInt(bits)

\* The two's complement number of the given width congruent to n.
Wrap(bits, n) == ((n - MinInt(bits)) % (2 ^ bits)) + MinInt(bits)

Bool(p) == IF p THEN 1 ELSE 0

Abs(n) == IF n < 0 THEN -n ELSE n

\* Division rounds towards zero in Rust and in WASM; \div rounds down.
Quotient(m, n) ==
  LET q == Abs(m) \div Abs(n) IN IF (m < 0) = (n < 0) THEN q ELSE -q

Remainder(m, n) == m - n * Quotient(m, n)

Compare(op, m, n) ==
  CASE op = "Lt"  -> m < n
    [] op = "Leq" -> m <= n
    [] op = "Gt"  -> m > n
    [] op = "Geq" -> m >= n
    [] op = "Eq"  -> m = n
    [] op = "Neq" -> m # n

Comparisons == {"Lt", "Leq", "Gt", "Geq", "Eq", "Neq"}

\* Broken variants: no guard against the one quotient that does not fit; and
\* division that rounds down.
FoldQuotient_Unguarded(m, n) == IF n = 0 THEN {} ELSE {Wrap(IntBits, Quotient(m, n))}

FoldQuotient_Floor(m, n) ==
  CASE n = 0 \/ (m = MinInt(IntBits) /\ n = -1) -> {}
    [] n > 0 -> {m \div n}
    [] n < 0 -> {(-m) \div (-n)}

\* Nothing if the division would trap.
FoldQuotient(m, n) ==
  IF n = 0 \/ (m = MinInt(IntBits) /\ n = -1) THEN {} ELSE {Quotient(m, n)}

\* Folding at compile time, always on i64.  Nothing is folded that would trap.
perform_binary_op(op, i1, i2) ==
  CASE op = "Add"  -> {Wrap(IntBits, i1 + i2)}
    [] op = "Sub"  -> {Wrap(IntBits, i1 - i2)}
    [] op = "Mult" -> {Wrap(IntBits, i1 * i2)}
    [] op = "Div"  -> FoldQuotient(i1, i2)
    [] op = "Mod"  -> IF i2 = 0 THEN {} ELSE {Wrap(IntBits, Remainder(i1, i2))}
    [] op = "And"  -> {Bool(i1 # 0 /\ i2 # 0)}
    [] op = "Or"   -> {Bool(i1 # 0 \/ i2 # 0)}
    [] op \in Comparisons -> {Bool(Compare(op, i1, i2))}

perform_unary_op(op, i) ==
  CASE op = "Neg"  -> {Wrap(IntBits, -i)}
    [] op = "Not"  -> {Bool(i = 0)}
    [] op = "Wrap" -> IF i \in Ints(HalfBits) THEN {i} ELSE {}

-----------------------------------------------------------------------------

\* What the instruction does at run time on operands of the given width
\* (emitter.rs, emit_binary: the width is that of the first operand).  It traps
\* where the set is empty.  And and Or are bitwise; the type checker gives them
\* operands 0 and 1 only, and of others nothing is said here.
RunBinary(bits, op, m, n) ==
  CASE op = "Add"  -> {Wrap(bits, m + n)}
    [] op = "Sub"  -> {Wrap(bits, m - n)}
    [] op = "Mult" -> {Wrap(bits, m * n)}
    [] op = "Div"  -> {q \in Ints(bits) : n # 0 /\ Abs(m - q * n) < Abs(n) /\ Abs(q * n) <= Abs(m)}
    [] op = "Mod"  -> {r \in Ints(bits) : n # 0 /\ Abs(r) < Abs(n) /\ r * m >= 0 /\ (m - r) % Abs(n) = 0}
    [] op = "And"  -> IF {m, n} \subseteq {0, 1} THEN {m * n} ELSE Ints(bits)
    [] op = "Or"   -> IF {m, n} \subseteq {0, 1} THEN {m + n - m * n} ELSE Ints(bits)
    [] op \in Comparisons -> {Bool(Compare(op, m, n))}

\* emit_unary: 0 - x, i32.eqz and i32.wrap_i64.
RunUnary(op, m) ==
  CASE op = "Neg"  -> RunBinary(IntBits, "Sub", 0, m)
    [] op = "Not"  -> {Bool(m = 0)}
    [] op = "Wrap" -> {Wrap(HalfBits, m)}
=============================================================================
