------------------------------ MODULE Folding ------------------------------
(***************************************************************************)
(* Constant folding against execution: one state per instruction whose        *)
(* operands are constants of the types the type checker admits.              *)
(***************************************************************************)
EXTENDS Arith, Paths_proofs

VARIABLES
  op, operands,  \* the instruction
  seen,          \* whether constant_folding has looked at it
  folded         \* its result, an option

vars == <<op, operands, seen, folded>>

Logic      == {"And", "Or"}
Arithmetic == {"Add", "Sub", "Mult", "Div", "Mod"}
Unaries    == {"Neg", "Not", "Wrap"}

Init ==
  /\ seen = FALSE /\ folded = {}
  /\ \/ op \in Arithmetic \cup Comparisons /\ operands \in Ints(IntBits) \X Ints(IntBits)
     \/ op \in Logic /\ operands \in {0, 1} \X {0, 1}
     \/ op \in Unaries \ {"Not"} /\ operands \in {<<i>> : i \in Ints(IntBits)}
     \/ op = "Not" /\ operands \in {<<0>>, <<1>>}

FoldUnary ==
  /\ ~seen /\ op \in Unaries
  /\ seen' = TRUE
  /\ folded' = perform_unary_op(op, operands[1])
  /\ UNCHANGED <<op, operands>>

FoldBinary ==
  /\ ~seen /\ op \notin Unaries
  /\ seen' = TRUE
  /\ folded' = perform_binary_op(op, operands[1], operands[2])
  /\ UNCHANGED <<op, operands>>

Next == FoldUnary \/ FoldBinary

Spec == Init /\ [][Next]_vars

AtRunTime == IF op \in Unaries
             THEN RunUnary(op, operands[1])
             ELSE RunBinary(IntBits, op, operands[1], operands[2])

\* "Folding must produce exactly what the instruction it replaces would have
\* produced at run time", at the least integer, at zero and around them.
FoldsToTheSameValue == folded # {} => folded = AtRunTime

\* An instruction is left in place, to trap at run time, exactly if it would
\* trap; a wrap that loses bits is left in place too.
TrapsStay ==
  seen =>
    (folded = {} <=> AtRunTime = {} \/ (op = "Wrap" /\ operands[1] \notin Ints(HalfBits)))

-----------------------------------------------------------------------------
\* A set of n + 1 elements has twice as many subsets as one of n.
LEMMA PowerOfTwo ==
  ASSUME NEW n \in Nat
  PROVE  2^n \in Nat \ {0} /\ 2^(n + 1) = 2 * 2^n
<1> DEFINE S == 1 .. n
           x == n + 1
           A == SUBSET S
           B == {T \cup {x} : T \in A}
<1>1. /\ IsFiniteSet(S) /\ Cardinality(S) = n
      /\ IsFiniteSet(S \cup {x}) /\ Cardinality(S \cup {x}) = n + 1
  <2>1. IsFiniteSet(S) /\ Cardinality(S) = n
    BY FS_Interval
  <2>2. x \notin S
    OBVIOUS
  <2> QED
    BY <2>1, <2>2, FS_AddElement
<1>2. /\ IsFiniteSet(A) /\ Cardinality(A) = 2^n
      /\ Cardinality(SUBSET (S \cup {x})) = 2^(n + 1)
  BY <1>1, FS_SUBSET
<1>3. x \notin S
  OBVIOUS
<1> HIDE DEF S, x
<1>4. SUBSET (S \cup {x}) = A \cup B
  <2>1. ASSUME NEW T \in SUBSET (S \cup {x}) PROVE T \in A \cup B
    <3>1. CASE x \in T
      <4>1. T \ {x} \in A /\ T = (T \ {x}) \cup {x}
        BY <3>1
      <4> QED
        BY <4>1
    <3>2. CASE x \notin T
      BY <3>2
    <3> QED
      BY <3>1, <3>2
  <2> QED
    BY <2>1
<1>5. A \cap B = {}
  BY <1>3
<1>6. IsFiniteSet(B) /\ Cardinality(B) = Cardinality(A)
  <2> DEFINE f == [T \in A |-> T \cup {x}]
  <2>1. f \in Injection(A, B)
    <3>1. f \in [A -> B]
      OBVIOUS
    <3>2. ASSUME NEW T \in A, NEW U \in A, T \cup {x} = U \cup {x} PROVE T = U
      BY <1>3, <3>2
    <3> QED
      BY <3>1, <3>2 DEF Injection, IsInjective
  <2>2. f \in Surjection(A, B)
    BY DEF Surjection
  <2>3. ExistsBijection(A, B)
    BY <2>1, <2>2, Zenon DEF ExistsBijection, Bijection
  <2> QED
    BY <1>2, <2>3, FS_Bijection, Zenon
<1> HIDE DEF A, B
<1>7. Cardinality(A \cup B) = Cardinality(A) + Cardinality(B) - Cardinality({})
  <2>1. Cardinality(A \cup B) = Cardinality(A) + Cardinality(B) - Cardinality(A \cap B)
    BY <1>2, <1>6, FS_Union
  <2> QED
    BY <1>5, <2>1
<1>8. /\ Cardinality(A) \in Nat /\ Cardinality(A) # 0
      /\ Cardinality({}) = 0
  <2>1. {} \in A
    BY DEF A
  <2> QED
    BY <1>2, <2>1, FS_CardinalityType, FS_EmptySet
<1>9. 2^(n + 1) = Cardinality(A \cup B)
  BY <1>2, <1>4, Zenon
<1>10. Cardinality(A \cup B) = 2 * Cardinality(A)
  BY <1>6, <1>7, <1>8
<1> QED
  BY <1>2, <1>8, <1>9, <1>10

\* The numbers of a width.
LEMMA Widths ==
  ASSUME NEW bits \in Nat \ {0}
  PROVE  \E h \in Nat \ {0} : /\ 2^bits = 2 * h
                              /\ MinInt(bits) = -h /\ MaxInt(bits) = h - 1
                              /\ Ints(bits) = -h .. h - 1
<1>1. 2^(bits - 1) \in Nat \ {0} /\ 2^((bits - 1) + 1) = 2 * 2^(bits - 1)
  BY PowerOfTwo
<1>2. (bits - 1) + 1 = bits
  OBVIOUS
<1> QED
  BY <1>1, <1>2 DEF MinInt, MaxInt, Ints

\* Wrapping keeps the numbers that fit.
LEMMA WrapInRange ==
  ASSUME NEW bits \in Nat \ {0}, NEW n \in Ints(bits)
  PROVE  Wrap(bits, n) = n
<1>1. PICK h \in Nat \ {0} : /\ 2^bits = 2 * h /\ MinInt(bits) = -h
                             /\ Ints(bits) = -h .. h - 1
  BY Widths
<1>2. n + h \in 0 .. 2 * h - 1 /\ n \in Int
  BY <1>1
<1>3. (n + h) % (2 * h) = n + h
  BY <1>2
<1> QED
  BY <1>1, <1>2, <1>3 DEF Wrap

-----------------------------------------------------------------------------
\* The quotient, rounded down, is the only number of times b goes into a.
LEMMA OneQuotient ==
  ASSUME NEW a \in Int, NEW b \in Nat \ {0}
  PROVE  /\ a \div b \in Int /\ (a >= 0 => a \div b \in Nat)
         /\ (a \div b) * b <= a /\ a < (a \div b) * b + b
         /\ \A p \in Int : p * b <= a /\ a < p * b + b => p = a \div b
<1> DEFINE k == a \div b
<1>1. k \in Int /\ (a >= 0 => k \in Nat) /\ k * b <= a /\ a < k * b + b
  OBVIOUS
<1>2. ASSUME NEW p \in Int, p * b <= a, a < p * b + b PROVE p = k
  <2> HIDE DEF k
  <2>1. CASE p < k
    <3>1. (p + 1) * b <= k * b
      BY <1>1, <2>1
    <3>2. (p + 1) * b = p * b + b
      OBVIOUS
    <3> QED
      BY <1>1, <1>2, <3>1, <3>2
  <2>2. CASE k < p
    <3>1. (k + 1) * b <= p * b
      BY <1>1, <2>2
    <3>2. (k + 1) * b = k * b + b
      BY <1>1
    <3> QED
      BY <1>1, <1>2, <3>1, <3>2
  <2> QED
    BY <1>1, <2>1, <2>2
<1> QED
  BY <1>1, <1>2

\* The numbers with remainder 0 are the multiples.
LEMMA Multiples ==
  ASSUME NEW b \in Nat \ {0}
  PROVE  /\ \A q \in Int : q * b \in Int /\ (q * b) % b = 0
         /\ \A x \in Int : x % b = 0 => \E q \in Int : x = q * b
<1>1. ASSUME NEW q \in Int PROVE q * b \in Int /\ (q * b) % b = 0
  <2>1. q * b \in Int /\ q * b <= q * b /\ q * b < q * b + b
    OBVIOUS
  <2>2. q = (q * b) \div b
    BY <2>1, OneQuotient
  <2>3. \A x \in Int : x % b = x - b * (x \div b)
    OBVIOUS
  <2>4. (q * b) % b = q * b - b * q
    BY <2>1, <2>2, <2>3
  <2> QED
    BY <2>1, <2>4
<1>2. ASSUME NEW x \in Int, x % b = 0 PROVE x = (x \div b) * b /\ x \div b \in Int
  BY <1>2
<1> QED
  BY <1>1, <1>2

\* Rounding towards zero: the quotient, for the signs of the operands, is the one
\* the machine's specification picks out.
LEMMA QuotientIs ==
  ASSUME NEW m \in Int, NEW n \in Int, n # 0
  PROVE  /\ Quotient(m, n) \in Int
         /\ Abs(m - Quotient(m, n) * n) < Abs(n) /\ Abs(Quotient(m, n) * n) <= Abs(m)
         /\ \A q \in Int : Abs(m - q * n) < Abs(n) /\ Abs(q * n) <= Abs(m) => q = Quotient(m, n)
<1> DEFINE a == Abs(m)
           b == Abs(n)
           k == a \div b
           same == (m < 0) = (n < 0)
           Signed(q) == IF same THEN q ELSE -q
<1>1. a \in Nat /\ b \in Nat \ {0}
  BY DEF Abs
<1>2. /\ k \in Nat /\ k * b <= a /\ a < k * b + b
      /\ \A p \in Int : p * b <= a /\ a < p * b + b => p = k
  <2> HIDE DEF a, b
  <2> QED
    BY <1>1, OneQuotient
<1>3. Quotient(m, n) = Signed(k)
  BY DEF Quotient
<1>4. ASSUME NEW q \in Int
      PROVE  /\ Abs(m - q * n) < Abs(n) <=> /\ Signed(q) * b < a + b
                                             /\ a < Signed(q) * b + b
             /\ Abs(q * n) <= Abs(m) <=> /\ Signed(q) * b <= a
                                          /\ -a <= Signed(q) * b
  <2>1. CASE m < 0 /\ n < 0
    BY <2>1 DEF Abs
  <2>2. CASE m < 0 /\ n > 0
    BY <2>2 DEF Abs
  <2>3. CASE m >= 0 /\ n < 0
    BY <2>3 DEF Abs
  <2>4. CASE m >= 0 /\ n > 0
    BY <2>4 DEF Abs
  <2> QED
    BY <2>1, <2>2, <2>3, <2>4
<1>5. \A q \in Int : Signed(q) \in Int /\ Signed(Signed(q)) = q
  OBVIOUS
<1> HIDE DEF a, b, k, Signed
<1>6. Signed(k) \in Int /\ Signed(Signed(k)) = k
  BY <1>2, <1>5
<1>7. k * b \in Int /\ k * b >= 0
  BY <1>1, <1>2
<1>8. Abs(m - Signed(k) * n) < Abs(n) /\ Abs(Signed(k) * n) <= Abs(m)
  <2>1. /\ Abs(m - Signed(k) * n) < Abs(n) <=> /\ k * b < a + b
                                                /\ a < k * b + b
        /\ Abs(Signed(k) * n) <= Abs(m) <=> /\ k * b <= a
                                             /\ -a <= k * b
    <3>1. Signed(Signed(k)) * b = k * b
      BY <1>6, Zenon
    <3> QED
      BY <1>4, <1>6, <3>1, Zenon
  <2>2. k * b < a + b /\ -a <= k * b
    BY <1>1, <1>2, <1>7
  <2> QED
    BY <1>2, <2>1, <2>2, Zenon
<1>9. ASSUME NEW q \in Int, Abs(m - q * n) < Abs(n), Abs(q * n) <= Abs(m)
      PROVE  q = Signed(k)
  <2>1. Signed(q) = k
    BY <1>2, <1>4, <1>5, <1>9
  <2> QED
    BY <1>5, <2>1
<1> QED
  BY <1>3, <1>6, <1>8, <1>9

\* The remainder has the sign of the dividend and is less than the divisor.
LEMMA RemainderIs ==
  ASSUME NEW m \in Int, NEW n \in Int, n # 0
  PROVE  /\ Remainder(m, n) \in Int
         /\ Abs(Remainder(m, n)) < Abs(n)
         /\ Remainder(m, n) * m >= 0
         /\ (m - Remainder(m, n)) % Abs(n) = 0
         /\ \A r \in Int : Abs(r) < Abs(n) /\ r * m >= 0 /\ (m - r) % Abs(n) = 0
                             => r = Remainder(m, n)
<1> DEFINE a == Abs(m)
           b == Abs(n)
           k == a \div b
           s == a - k * b
           Toward(r) == IF m < 0 THEN -r ELSE r
<1>1. a \in Nat /\ b \in Nat \ {0} /\ m = Toward(a)
  BY DEF Abs
<1>2. /\ k \in Nat /\ k * b <= a /\ a < k * b + b
      /\ \A p \in Int : p * b <= a /\ a < p * b + b => p = k
  <2> HIDE DEF a, b
  <2> QED
    BY <1>1, OneQuotient
<1>3. n * Quotient(m, n) = Toward(k * b)
  <2>1. Quotient(m, n) = IF (m < 0) = (n < 0) THEN k ELSE -k
    BY DEF Quotient
  <2>2. b = IF n < 0 THEN -n ELSE n
    BY DEF Abs
  <2> HIDE DEF k, b
  <2> QED
    BY <1>2, <2>1, <2>2
<1>4. /\ \A q \in Int : q * b \in Int /\ (q * b) % b = 0
      /\ \A x \in Int : x % b = 0 => \E q \in Int : x = q * b
  BY <1>1, Multiples
<1> HIDE DEF a, b, k
<1>5. k * b \in Nat /\ s \in Nat /\ s < b /\ k * b = a - s
  <2>1. k * b >= 0
    BY <1>1, <1>2
  <2> QED
    BY <1>1, <1>2, <2>1
<1>6. Remainder(m, n) = Toward(s)
  BY <1>1, <1>3, <1>5 DEF Remainder
<1> HIDE DEF s
<1>7. (m - Toward(s)) % b = 0
  <2>1. m - Toward(s) = Toward(k) * b
    BY <1>1, <1>2, <1>5
  <2> QED
    BY <1>2, <1>4, <2>1
<1>8. Abs(Toward(s)) < b /\ Toward(s) * m >= 0
  <2>1. CASE m < 0
    BY <1>1, <1>5, <2>1 DEF Abs
  <2>2. CASE m >= 0
    BY <1>1, <1>5, <2>2 DEF Abs
  <2> QED
    BY <2>1, <2>2
<1>9. ASSUME NEW r \in Int, Abs(r) < b, r * m >= 0, (m - r) % b = 0
      PROVE  r = Toward(s)
  <2>1. PICK q \in Int : m - r = q * b
    BY <1>4, <1>9
  <2>2. CASE m = 0
    <3>1. r = -(q * b) /\ a = 0 /\ q * b \in Int
      BY <1>1, <1>4, <2>1, <2>2
    <3>2. -b < q * b /\ q * b < b
      BY <1>1, <1>9, <3>1 DEF Abs
    <3>3. q * b = 0
      <4>1. ASSUME q >= 1 PROVE q * b >= b
        BY <1>1, <4>1
      <4>2. ASSUME q <= -1 PROVE q * b <= -b
        BY <1>1, <4>2
      <4> QED
        BY <1>1, <3>2, <4>1, <4>2
    <3>4. s = 0
      BY <1>2, <1>5, <3>1
    <3> QED
      BY <2>2, <3>1, <3>3, <3>4
  <2>3. CASE m # 0
    <3>1. Toward(r) \in Int /\ Toward(r) >= 0 /\ Toward(r) < b
      BY <1>1, <1>9, <2>3 DEF Abs
    <3>2. a - Toward(r) = Toward(q) * b
      BY <1>1, <2>1
    <3>3. Toward(q) = k
      <4>1. Toward(q) \in Int /\ Toward(q) * b \in Int
        BY <1>4
      <4>2. Toward(q) * b <= a /\ a < Toward(q) * b + b
        BY <1>1, <3>1, <3>2, <4>1
      <4> QED
        BY <1>2, <4>1, <4>2
    <3>4. Toward(r) = s
      <4>1. a - Toward(r) = k * b
        BY <3>2, <3>3, Zenon
      <4> HIDE DEF Toward
      <4> QED
        BY <1>1, <1>5, <3>1, <4>1
    <3> QED
      BY <3>4
  <2> QED
    BY <2>2, <2>3
<1> QED
  BY <1>5, <1>6, <1>7, <1>8, <1>9 DEF b

\* The only quotient that does not fit is the one the folder leaves alone.
LEMMA FoldedDivision ==
  ASSUME NEW m \in Ints(IntBits), NEW n \in Ints(IntBits)
  PROVE  FoldQuotient(m, n) = RunBinary(IntBits, "Div", m, n)
<1>1. PICK h \in Nat \ {0} : /\ MinInt(IntBits) = -h
                             /\ Ints(IntBits) = -h .. h - 1
  BY Widths, BitsAssumption
<1>2. RunBinary(IntBits, "Div", m, n) =
        {q \in Ints(IntBits) : n # 0 /\ Abs(m - q * n) < Abs(n) /\ Abs(q * n) <= Abs(m)}
  BY Zenon DEF RunBinary, Comparisons
<1>3. m \in Int /\ n \in Int
  BY <1>1
<1>4. CASE n = 0
  BY <1>2, <1>4 DEF FoldQuotient
<1>5. CASE n # 0
  <2>1. /\ Quotient(m, n) \in Int
        /\ Abs(m - Quotient(m, n) * n) < Abs(n) /\ Abs(Quotient(m, n) * n) <= Abs(m)
        /\ \A q \in Int : Abs(m - q * n) < Abs(n) /\ Abs(q * n) <= Abs(m) => q = Quotient(m, n)
    BY <1>3, <1>5, QuotientIs
  <2>2. RunBinary(IntBits, "Div", m, n) = {Quotient(m, n)} \cap Ints(IntBits)
    BY <1>1, <1>2, <1>5, <2>1
  <2>3. CASE m = -h /\ n = -1
    <3>1. Quotient(m, n) = h
      <4>1. Abs(m - h * n) < Abs(n) /\ Abs(h * n) <= Abs(m)
        BY <1>1, <2>3 DEF Abs
      <4> QED
        BY <2>1, <4>1
    <3> QED
      BY <1>1, <2>2, <2>3, <3>1 DEF FoldQuotient
  <2>4. CASE ~(m = -h /\ n = -1)
    <3>1. Quotient(m, n) \in -h .. h - 1
      <4> DEFINE q == Quotient(m, n)
      <4>1. q \in Int /\ Abs(m - q * n) < Abs(n) /\ Abs(q * n) <= Abs(m)
        BY <2>1
      <4> HIDE DEF q
      <4>2. ASSUME n \in {1, -1} PROVE q \in -h .. h - 1
        <5>1. q = m \/ (q = -m /\ n = -1)
          BY <1>3, <4>1, <4>2 DEF Abs
        <5> QED
          BY <1>1, <2>4, <5>1
      <4>3. ASSUME n \notin {1, -1} PROVE q \in -h .. h - 1
        <5>1. Abs(q) \in Nat /\ Abs(n) \in Nat /\ Abs(n) >= 2 /\ Abs(m) <= h
          BY <1>1, <1>3, <1>5, <4>1, <4>3 DEF Abs
        <5>2. Abs(q * n) = Abs(q) * Abs(n)
          BY <1>3, <4>1 DEF Abs
        <5>3. Abs(q) * Abs(n) >= 2 * Abs(q)
          BY <5>1
        <5>4. Abs(q * n) <= h
          <6>1. Abs(q * n) \in Int /\ Abs(m) \in Int
            BY <1>3, <4>1 DEF Abs
          <6> QED
            BY <4>1, <5>1, <6>1
        <5>5. Abs(q) < h
          BY <5>1, <5>2, <5>3, <5>4
        <5> QED
          BY <4>1, <5>5 DEF Abs
      <4> QED
        BY <4>2, <4>3 DEF q
    <3> QED
      BY <1>1, <1>5, <2>2, <2>4, <3>1 DEF FoldQuotient
  <2> QED
    BY <2>3, <2>4
<1> QED
  BY <1>4, <1>5

\* The remainder always fits, that of the least integer by -1 included.
LEMMA FoldedRemainder ==
  ASSUME NEW m \in Ints(IntBits), NEW n \in Ints(IntBits)
  PROVE  perform_binary_op("Mod", m, n) = RunBinary(IntBits, "Mod", m, n)
<1>1. PICK h \in Nat \ {0} : Ints(IntBits) = -h .. h - 1
  BY Widths, BitsAssumption
<1>2. /\ RunBinary(IntBits, "Mod", m, n) =
           {r \in Ints(IntBits) : n # 0 /\ Abs(r) < Abs(n) /\ r * m >= 0 /\ (m - r) % Abs(n) = 0}
      /\ perform_binary_op("Mod", m, n) = IF n = 0 THEN {} ELSE {Wrap(IntBits, Remainder(m, n))}
  BY Zenon DEF RunBinary, perform_binary_op, Comparisons
<1>3. m \in Int /\ n \in Int
  BY <1>1
<1>4. CASE n = 0
  BY <1>2, <1>4
<1>5. CASE n # 0
  <2>1. /\ Remainder(m, n) \in Int
        /\ Abs(Remainder(m, n)) < Abs(n)
        /\ Remainder(m, n) * m >= 0
        /\ (m - Remainder(m, n)) % Abs(n) = 0
        /\ \A r \in Int : Abs(r) < Abs(n) /\ r * m >= 0 /\ (m - r) % Abs(n) = 0
                             => r = Remainder(m, n)
    BY <1>3, <1>5, RemainderIs
  <2>2. Remainder(m, n) \in Ints(IntBits)
    <3> DEFINE r == Remainder(m, n)
    <3> HIDE DEF r
    <3>1. r \in Int /\ Abs(r) < Abs(n)
      BY <2>1 DEF r
    <3>2. r \in -h .. h - 1
      BY <1>1, <3>1 DEF Abs
    <3> QED
      BY <1>1, <3>2 DEF r
  <2>3. Wrap(IntBits, Remainder(m, n)) = Remainder(m, n)
    BY <2>2, WrapInRange, BitsAssumption
  <2>4. Ints(IntBits) \subseteq Int
    BY <1>1
  <2> QED
    BY <1>2, <1>5, <2>1, <2>2, <2>3, <2>4
<1> QED
  BY <1>4, <1>5

\* On two operands, the folder and the machine agree to the last case, the traps
\* included.
LEMMA FoldedBinary ==
  ASSUME NEW fn, NEW m, NEW n,
         \/ fn \in Arithmetic \cup Comparisons /\ m \in Ints(IntBits) /\ n \in Ints(IntBits)
         \/ fn \in Logic /\ m \in {0, 1} /\ n \in {0, 1}
  PROVE  perform_binary_op(fn, m, n) = RunBinary(IntBits, fn, m, n)
<1>1. CASE fn \in Comparisons
  <2>1. /\ perform_binary_op(fn, m, n) = {Bool(Compare(fn, m, n))}
        /\ RunBinary(IntBits, fn, m, n) = {Bool(Compare(fn, m, n))}
    BY <1>1, Zenon DEF perform_binary_op, RunBinary, Comparisons
  <2> QED
    BY <2>1, Zenon
<1>2. CASE fn \in {"Add", "Sub", "Mult"}
  BY <1>2, Zenon DEF perform_binary_op, RunBinary, Comparisons
<1>3. CASE fn = "Div"
  <2>1. m \in Ints(IntBits) /\ n \in Ints(IntBits)
    BY <1>3 DEF Logic
  <2>2. FoldQuotient(m, n) = RunBinary(IntBits, "Div", m, n)
    BY <2>1, FoldedDivision, Zenon
  <2>3. perform_binary_op("Div", m, n) = FoldQuotient(m, n)
    BY Zenon DEF perform_binary_op, Comparisons
  <2> QED
    BY <1>3, <2>2, <2>3, Zenon
<1>4. CASE fn = "Mod"
  <2>1. m \in Ints(IntBits) /\ n \in Ints(IntBits)
    BY <1>4 DEF Logic
  <2>2. perform_binary_op("Mod", m, n) = RunBinary(IntBits, "Mod", m, n)
    BY <2>1, FoldedRemainder, Zenon
  <2> QED
    BY <1>4, <2>2, Zenon
<1>5. CASE fn \in Logic
  <2>1. m \in {0, 1} /\ n \in {0, 1}
    BY <1>5 DEF Logic, Arithmetic, Comparisons
  <2>2. Bool(m # 0 /\ n # 0) = m * n /\ Bool(m # 0 \/ n # 0) = m + n - m * n
    BY <2>1 DEF Bool
  <2>3. {m, n} \subseteq {0, 1}
    BY <2>1
  <2>4. /\ fn = "And" => /\ perform_binary_op(fn, m, n) = {Bool(m # 0 /\ n # 0)}
                         /\ RunBinary(IntBits, fn, m, n) = {m * n}
        /\ fn = "Or" => /\ perform_binary_op(fn, m, n) = {Bool(m # 0 \/ n # 0)}
                        /\ RunBinary(IntBits, fn, m, n) = {m + n - m * n}
    BY <2>3, Zenon DEF perform_binary_op, RunBinary, Comparisons
  <2> QED
    BY <1>5, <2>2, <2>4, Zenon DEF Logic
<1> QED
  BY <1>1, <1>2, <1>3, <1>4, <1>5, Zenon DEF Arithmetic

\* On one operand too, but for the wrap that loses bits, which is not folded.
LEMMA FoldedUnary ==
  ASSUME NEW fn \in Unaries, NEW m, fn = "Neg" => m \in Ints(IntBits)
  PROVE  /\ RunUnary(fn, m) # {}
         /\ perform_unary_op(fn, m) =
              IF fn = "Wrap" /\ m \notin Ints(HalfBits) THEN {} ELSE RunUnary(fn, m)
<1>1. CASE fn = "Neg"
  <2>1. 0 - m = -m
    BY <1>1, Widths, BitsAssumption
  <2>2. RunUnary("Neg", m) = {Wrap(IntBits, 0 - m)} /\ perform_unary_op("Neg", m) = {Wrap(IntBits, -m)}
    BY Zenon DEF RunUnary, RunBinary, perform_unary_op, Comparisons
  <2>3. RunUnary("Neg", m) = perform_unary_op("Neg", m) /\ RunUnary("Neg", m) # {}
    BY <2>1, <2>2
  <2> QED
    BY <1>1, <2>3, Zenon
<1>2. CASE fn = "Not"
  <2>1. RunUnary("Not", m) = {Bool(m = 0)} /\ perform_unary_op("Not", m) = {Bool(m = 0)}
    BY Zenon DEF RunUnary, perform_unary_op
  <2> QED
    BY <1>2, <2>1, Zenon
<1>3. CASE fn = "Wrap"
  <2>1. /\ RunUnary("Wrap", m) = {Wrap(HalfBits, m)}
        /\ perform_unary_op("Wrap", m) = IF m \in Ints(HalfBits) THEN {m} ELSE {}
    BY Zenon DEF RunUnary, perform_unary_op
  <2>2. m \in Ints(HalfBits) => Wrap(HalfBits, m) = m
    BY WrapInRange, BitsAssumption, Zenon
  <2> QED
    BY <1>3, <2>1, <2>2, Zenon
<1> QED
  BY <1>1, <1>2, <1>3, Zenon DEF Unaries

\* The folder puts one value in the place of an instruction, or leaves it.
LEMMA FoldedOnce ==
  ASSUME NEW fn, NEW m, NEW n
  PROVE  /\ fn \in Arithmetic \cup Comparisons \cup Logic =>
              \A v, w \in perform_binary_op(fn, m, n) : v = w
         /\ fn \in Unaries => \A v, w \in perform_unary_op(fn, m) : v = w
<1>1. CASE fn \in Arithmetic \cup Comparisons \cup Logic
  BY <1>1, Zenon DEF perform_binary_op, FoldQuotient, Arithmetic, Comparisons, Logic, Unaries
<1>2. CASE fn \in Unaries
  BY <1>2, Zenon DEF perform_unary_op, Arithmetic, Comparisons, Logic, Unaries
<1> QED
  BY <1>1, <1>2

\* What an instruction computes fits in a register; only a division can trap.
LEMMA WrapFits ==
  ASSUME NEW bits \in Nat \ {0}, NEW n \in Int
  PROVE  Wrap(bits, n) \in Ints(bits)
<1>1. PICK h \in Nat \ {0} : /\ 2^bits = 2 * h /\ MinInt(bits) = -h
                             /\ Ints(bits) = -h .. h - 1
  BY Widths
<1>2. (n + h) % (2 * h) \in 0 .. 2 * h - 1
  <2> DEFINE k == n + h
             d == 2 * h
  <2>1. k \in Int /\ d \in Nat /\ d > 0
    OBVIOUS
  <2> HIDE DEF k, d
  <2>2. k % d \in 0 .. d - 1
    BY <2>1
  <2> QED
    BY <2>2 DEF k, d
<1>3. Wrap(bits, n) = ((n + h) % (2 * h)) - h
  BY <1>1, <1>2 DEF Wrap
<1> QED
  BY <1>1, <1>2, <1>3

LEMMA NarrowFits == Ints(HalfBits) \subseteq Ints(IntBits)
<1> DEFINE S == {n \in 0 .. IntBits - HalfBits : 2^(HalfBits - 1) <= 2^(HalfBits - 1 + n)}
<1>1. IntBits - HalfBits \in Nat /\ HalfBits - 1 \in Nat
  BY BitsAssumption
<1>2. 0 \in S
  <2>1. HalfBits - 1 + 0 = HalfBits - 1 /\ 2^(HalfBits - 1) \in Nat
    BY <1>1, PowerOfTwo
  <2>2. 2^(HalfBits - 1) <= 2^(HalfBits - 1)
    BY <2>1
  <2>3. 2^(HalfBits - 1) <= 2^(HalfBits - 1 + 0)
    BY <2>1, <2>2, Zenon
  <2>4. 0 \in 0 .. IntBits - HalfBits
    BY <1>1
  <2> QED
    BY <2>3, <2>4, Zenon
<1>3. ASSUME NEW n \in 1 .. IntBits - HalfBits, n - 1 \in S PROVE n \in S
  <2> DEFINE k == HalfBits - 1 + (n - 1)
  <2>1. k \in Nat /\ k + 1 = HalfBits - 1 + n
    BY <1>1
  <2>2. 2^k \in Nat \ {0} /\ 2^(k + 1) = 2 * 2^k
    BY <2>1, PowerOfTwo
  <2>3. 2^(HalfBits - 1) \in Nat /\ 2^(HalfBits - 1) <= 2^k
    BY <1>1, <1>3, PowerOfTwo
  <2>4. 2^(HalfBits - 1) <= 2^(k + 1)
    BY <2>2, <2>3
  <2> QED
    BY <1>1, <2>1, <2>4
<1>4. 2^(HalfBits - 1) <= 2^(IntBits - 1)
  <2>1. 0 .. IntBits - HalfBits \subseteq S
    <3> HIDE DEF S
    <3> QED
      BY <1>1, <1>2, <1>3, UpTo
  <2>2. HalfBits - 1 + (IntBits - HalfBits) = IntBits - 1
    BY BitsAssumption
  <2> QED
    BY <1>1, <2>1, <2>2
<1>5. 2^(HalfBits - 1) \in Nat /\ 2^(IntBits - 1) \in Nat
  BY PowerOfTwo, BitsAssumption
<1> QED
  BY <1>4, <1>5 DEF Ints, MinInt, MaxInt

LEMMA TruthValues == {0, 1} \subseteq Ints(IntBits) /\ Ints(IntBits) \subseteq Int
<1>1. 2^(IntBits - 2) \in Nat \ {0} /\ 2^((IntBits - 2) + 1) = 2 * 2^(IntBits - 2)
  BY PowerOfTwo, BitsAssumption
<1>2. (IntBits - 2) + 1 = IntBits - 1
  BY BitsAssumption
<1> QED
  BY <1>1, <1>2 DEF Ints, MinInt, MaxInt

LEMMA RunsInRange ==
  ASSUME NEW fn, NEW m \in Ints(IntBits), NEW n \in Ints(IntBits)
  PROVE  /\ fn \in Arithmetic \cup Comparisons \cup Logic =>
              /\ RunBinary(IntBits, fn, m, n) \subseteq Ints(IntBits)
              /\ fn \notin {"Div", "Mod"} => RunBinary(IntBits, fn, m, n) # {}
         /\ fn \in Unaries => RunUnary(fn, m) \subseteq Ints(IntBits) /\ RunUnary(fn, m) # {}
<1>1. PICK h \in Nat \ {0} : Ints(IntBits) = -h .. h - 1
  BY Widths, BitsAssumption
<1>2. {0, 1} \subseteq Ints(IntBits)
  BY TruthValues
<1>3. /\ Wrap(IntBits, m + n) \in Ints(IntBits) /\ Wrap(IntBits, m - n) \in Ints(IntBits)
      /\ Wrap(IntBits, m * n) \in Ints(IntBits) /\ Wrap(IntBits, 0 - m) \in Ints(IntBits)
      /\ Wrap(HalfBits, m) \in Ints(IntBits)
  <2>1. m + n \in Int /\ m - n \in Int /\ m * n \in Int /\ 0 - m \in Int /\ m \in Int
    BY <1>1
  <2>2. IntBits \in Nat \ {0} /\ HalfBits \in Nat \ {0}
    BY BitsAssumption
  <2>3. Wrap(HalfBits, m) \in Ints(HalfBits)
    BY <2>1, <2>2, WrapFits
  <2> QED
    BY <2>1, <2>2, <2>3, WrapFits, NarrowFits, Zenon
<1>4. \A p : Bool(p) \in Ints(IntBits)
  BY <1>2 DEF Bool
<1>5. {m, n} \subseteq {0, 1} => m * n \in {0, 1} /\ m + n - m * n \in {0, 1}
  OBVIOUS
<1>6. CASE fn \in Comparisons
  BY <1>4, <1>6, Zenon DEF RunBinary, Comparisons, Unaries
<1>7. CASE fn \in {"Add", "Sub", "Mult"}
  BY <1>3, <1>7, Zenon DEF RunBinary, Comparisons, Unaries
<1>8. CASE fn \in {"Div", "Mod"}
  BY <1>8, Zenon DEF RunBinary, Comparisons, Unaries
<1>9. CASE fn \in Logic
  <2>1. /\ fn = "And" => RunBinary(IntBits, fn, m, n) = IF {m, n} \subseteq {0, 1} THEN {m * n} ELSE Ints(IntBits)
        /\ fn = "Or" => RunBinary(IntBits, fn, m, n) = IF {m, n} \subseteq {0, 1} THEN {m + n - m * n} ELSE Ints(IntBits)
    BY Zenon DEF RunBinary, Comparisons
  <2>2. fn \notin Unaries
    BY <1>9 DEF Logic, Unaries
  <2> QED
    BY <1>2, <1>5, <1>9, <2>1, <2>2, Zenon DEF Logic
<1>10. CASE fn \in Unaries
  <2>1. /\ RunUnary("Neg", m) = {Wrap(IntBits, 0 - m)}
        /\ RunUnary("Not", m) = {Bool(m = 0)}
        /\ RunUnary("Wrap", m) = {Wrap(HalfBits, m)}
    BY Zenon DEF RunUnary, RunBinary, Comparisons
  <2>2. RunUnary(fn, m) \subseteq Ints(IntBits) /\ RunUnary(fn, m) # {}
    <3>1. /\ {Wrap(IntBits, 0 - m)} \subseteq Ints(IntBits)
          /\ {Bool(m = 0)} \subseteq Ints(IntBits)
          /\ {Wrap(HalfBits, m)} \subseteq Ints(IntBits)
      BY <1>3, <1>4
    <3>2. fn = "Neg" \/ fn = "Not" \/ fn = "Wrap"
      BY <1>10 DEF Unaries
    <3> QED
      BY <2>1, <3>1, <3>2
  <2>3. fn \notin Arithmetic \cup Comparisons \cup Logic
    BY <1>10 DEF Unaries, Arithmetic, Comparisons, Logic
  <2> QED
    BY <2>2, <2>3
<1> QED
  BY <1>6, <1>7, <1>8, <1>9, <1>10, Zenon DEF Arithmetic

-----------------------------------------------------------------------------

\* An instruction the type checker admits, with constant operands.
IsInstruction ==
  \/ op \in Arithmetic \cup Comparisons /\ operands \in Ints(IntBits) \X Ints(IntBits)
  \/ op \in Logic /\ operands \in {0, 1} \X {0, 1}
  \/ op \in Unaries \ {"Not"} /\ operands \in {<<i>> : i \in Ints(IntBits)}
  \/ op = "Not" /\ operands \in {<<0>>, <<1>>}

\* The result is that of the one look the folder takes.
FoldingInv ==
  /\ IsInstruction
  /\ seen \in BOOLEAN
  /\ folded = IF ~seen THEN {}
              ELSE IF op \in Unaries THEN perform_unary_op(op, operands[1])
              ELSE perform_binary_op(op, operands[1], operands[2])

\* The folder looks at an instruction once, and the instruction stays what it was.
LEMMA FoldingInvHolds == Spec => []FoldingInv
<1>1. Init => FoldingInv
  BY DEF Init, FoldingInv, IsInstruction
<1>2. FoldingInv /\ [Next]_vars => FoldingInv'
  <2> SUFFICES ASSUME FoldingInv, [Next]_vars PROVE FoldingInv'
    OBVIOUS
  <2>1. CASE FoldUnary
    BY <2>1, Zenon DEF FoldUnary, FoldingInv, IsInstruction
  <2>2. CASE FoldBinary
    BY <2>2, Zenon DEF FoldBinary, FoldingInv, IsInstruction
  <2>3. CASE UNCHANGED vars
    BY <2>3, Zenon DEF vars, FoldingInv, IsInstruction
  <2> QED
    BY <2>1, <2>2, <2>3 DEF Next
<1> QED
  BY <1>1, <1>2, PTL DEF Spec

\* What is known of an instruction that was looked at.
LEMMA Looked ==
  ASSUME FoldingInv, seen
  PROVE  /\ op \in Unaries => /\ folded = perform_unary_op(op, operands[1])
                              /\ AtRunTime = RunUnary(op, operands[1])
                              /\ op = "Neg" => operands[1] \in Ints(IntBits)
         /\ op \notin Unaries => /\ folded = AtRunTime
                                 /\ op # "Wrap"
<1>1. CASE op \in Unaries
  <2>1. op = "Neg" => operands[1] \in Ints(IntBits)
    BY DEF FoldingInv, IsInstruction, Arithmetic, Comparisons, Logic
  <2> QED
    BY <1>1, <2>1, Zenon DEF FoldingInv, AtRunTime
<1>2. CASE op \notin Unaries
  <2>1. \/ op \in Arithmetic \cup Comparisons /\ operands[1] \in Ints(IntBits) /\ operands[2] \in Ints(IntBits)
        \/ op \in Logic /\ operands[1] \in {0, 1} /\ operands[2] \in {0, 1}
    BY <1>2 DEF FoldingInv, IsInstruction, Unaries
  <2>2. op # "Wrap"
    BY <1>2 DEF Unaries
  <2> QED
    BY <1>2, <2>1, <2>2, FoldedBinary, Zenon DEF FoldingInv, AtRunTime
<1> QED
  BY <1>1, <1>2

\* perform_binary_op and perform_unary_op of reaching.rs compute what the
\* instruction they replace would have computed, at whatever width.
THEOREM FoldingIsExact == Spec => []FoldsToTheSameValue
<1>1. FoldingInv => FoldsToTheSameValue
  BY Looked, FoldedUnary, Zenon DEF FoldingInv, FoldsToTheSameValue
<1> QED
  BY <1>1, FoldingInvHolds, PTL

\* They leave an instruction in the code exactly if it would trap, or if it is a
\* wrap that loses bits.
THEOREM FoldingKeepsTraps == Spec => []TrapsStay
<1>1. FoldingInv => TrapsStay
  BY Looked, FoldedUnary, Zenon DEF TrapsStay
<1> QED
  BY <1>1, FoldingInvHolds, PTL
=============================================================================
