-------------------------- MODULE Lockstep_proofs --------------------------
(***************************************************************************)
(* No pass changes what a function does: whatever the pass made of a function  *)
(* keeps in step with it, for every input and callee and every function of the  *)
(* form IsFunction that meets the RelianceAssumption of the pass.  The proofs   *)
(* go by way of what the facts of an analysis say of a run, one pass after the  *)
(* other.                                                                    *)
(***************************************************************************)
EXTENDS Lockstep, Paths_proofs

-----------------------------------------------------------------------------
\* Arithmetic, from module Folding, whose variables play no part in it.

F == INSTANCE Folding WITH op <- 0, operands <- 0, seen <- 0, folded <- 0

BinaryFns == {"Add", "Sub", "Mult", "Div", "Mod", "And", "Or"} \cup Comparisons
UnaryFns  == {"Neg", "Not", "Wrap"}

LEMMA SameArithmetic ==
  /\ F!Ints(IntBits) = Ints(IntBits) /\ F!Ints(HalfBits) = Ints(HalfBits)
  /\ F!Arithmetic \cup F!Comparisons \cup F!Logic = BinaryFns
  /\ F!Unaries = UnaryFns
  /\ F!Comparisons = Comparisons
<1>1. F!Ints(IntBits) = Ints(IntBits) /\ F!Ints(HalfBits) = Ints(HalfBits)
  BY DEF F!Ints, F!MinInt, F!MaxInt, Ints, MinInt, MaxInt
<1>2. F!Comparisons = Comparisons
  BY DEF F!Comparisons, Comparisons
<1>3. F!Arithmetic \cup F!Comparisons \cup F!Logic = BinaryFns
  BY <1>2 DEF F!Arithmetic, F!Logic, BinaryFns
<1>4. F!Unaries = UnaryFns
  BY DEF F!Unaries, UnaryFns
<1> QED
  BY <1>1, <1>2, <1>3, <1>4, Zenon

LEMMA SameRuns ==
  ASSUME NEW fn, NEW m, NEW n
  PROVE  /\ F!RunBinary(IntBits, fn, m, n) = RunBinary(IntBits, fn, m, n)
         /\ F!RunUnary(fn, m) = RunUnary(fn, m)
         /\ F!perform_binary_op(fn, m, n) = perform_binary_op(fn, m, n)
         /\ F!perform_unary_op(fn, m) = perform_unary_op(fn, m)
BY Zenon DEF F!RunBinary, F!RunUnary, F!perform_binary_op, F!perform_unary_op,
             RunBinary, RunUnary, perform_binary_op, perform_unary_op,
             F!Wrap, F!Abs, F!Bool, F!Compare, F!Comparisons, F!Ints, F!MinInt, F!MaxInt,
             F!FoldQuotient, F!Quotient, F!Remainder,
             Wrap, Abs, Bool, Compare, Comparisons, Ints, MinInt, MaxInt,
             FoldQuotient, Quotient, Remainder

\* What an instruction computes fits in a register; only a division can trap.
LEMMA Computed ==
  ASSUME NEW fn, NEW m \in Ints(IntBits), NEW n \in Ints(IntBits)
  PROVE  /\ fn \in BinaryFns =>
              /\ RunBinary(IntBits, fn, m, n) \subseteq Ints(IntBits)
              /\ fn \notin {"Div", "Mod"} => RunBinary(IntBits, fn, m, n) # {}
         /\ fn \in UnaryFns => RunUnary(fn, m) \subseteq Ints(IntBits) /\ RunUnary(fn, m) # {}
<1>1. m \in F!Ints(IntBits) /\ n \in F!Ints(IntBits) /\ F!BitsAssumption
  BY SameArithmetic, BitsAssumption DEF F!BitsAssumption
<1>2. /\ fn \in F!Arithmetic \cup F!Comparisons \cup F!Logic =>
            /\ F!RunBinary(IntBits, fn, m, n) \subseteq F!Ints(IntBits)
            /\ fn \notin {"Div", "Mod"} => F!RunBinary(IntBits, fn, m, n) # {}
      /\ fn \in F!Unaries => F!RunUnary(fn, m) \subseteq F!Ints(IntBits) /\ F!RunUnary(fn, m) # {}
  BY <1>1, F!RunsInRange, Zenon
<1> QED
  BY <1>2, SameArithmetic, SameRuns, Zenon

LEMMA SmallInts == {0, 1} \subseteq Ints(IntBits) /\ Ints(IntBits) \subseteq Int
<1>1. F!BitsAssumption /\ IntBits \in Nat \ {0}
  BY BitsAssumption DEF F!BitsAssumption
<1>2. {0, 1} \subseteq F!Ints(IntBits) /\ F!Ints(IntBits) \subseteq Int
  BY <1>1, F!TruthValues, Zenon
<1> QED
  BY <1>2, SameArithmetic

-----------------------------------------------------------------------------
\* Memory: what a load sees of the stores so far.

\* Every nonempty set of places has a last one.
LEMMA Last ==
  ASSUME NEW N \in Nat, NEW T, T \subseteq 1 .. N, T # {}
  PROVE  \E k \in T : \A j \in T : j <= k
<1> DEFINE U == {N - k : k \in T}
<1>1. U \subseteq Nat /\ U # {}
  <2>1. \A k \in T : N - k \in Nat
    OBVIOUS
  <2> QED
    BY <2>1
<1>2. PICK u \in U : \A v \in U : ~(v < u)
  <2> HIDE DEF U
  <2> QED
    BY <1>1, Smallest
<1>3. PICK k \in T : u = N - k
  OBVIOUS
<1>4. \A j \in T : ~(N - j < N - k)
  BY <1>2, <1>3
<1>5. \A j \in T : j <= k
  BY <1>4
<1> QED
  BY <1>5

Hits(log, a, w) == {k \in DOMAIN log : Overlaps(log[k], a, w)}

LatestOf(hits) == CHOOSE k \in hits : \A j \in hits : j <= k

LEMMA LatestIs ==
  ASSUME NEW N \in Nat, NEW hits, hits \subseteq 1 .. N, hits # {}
  PROVE  LatestOf(hits) \in hits /\ \A j \in hits : j <= LatestOf(hits)
<1>1. \E k \in hits : \A j \in hits : j <= k
  BY Last
<1> QED
  BY <1>1 DEF LatestOf

LEMMA LoadIs ==
  ASSUME NEW log, NEW a, NEW w
  PROVE  /\ Hits(log, a, w) = {} => Load(log, a, w) = 0
         /\ Hits(log, a, w) # {} =>
              LET latest == log[LatestOf(Hits(log, a, w))]
              IN  Load(log, a, w) = IF latest.addr = a /\ latest.width = w THEN latest.value ELSE Torn
BY Zenon DEF Load, Hits, LatestOf

\* A load gives what a register can hold.
LEMMA LoadFits ==
  ASSUME NEW log, IsLog(log), NEW a, NEW w
  PROVE  Load(log, a, w) \in Ints(IntBits)
<1>1. 0 \in Ints(IntBits)
  BY SmallInts
<1>2. CASE Hits(log, a, w) = {}
  BY <1>1, <1>2, LoadIs
<1>3. CASE Hits(log, a, w) # {}
  <2> DEFINE k == LatestOf(Hits(log, a, w))
  <2>1. Len(log) \in Nat /\ Hits(log, a, w) \subseteq 1 .. Len(log)
    BY DEF IsLog, IsSeq, Hits
  <2>2. k \in Hits(log, a, w)
    BY <1>3, <2>1, LatestIs
  <2> HIDE DEF k
  <2>3. log[k].kind = "store" /\ k \in 1 .. Len(log)
    BY <2>1, <2>2 DEF Hits, Overlaps
  <2>4. log[k].value \in Ints(IntBits)
    BY <2>3 DEF IsLog, IsEvent, IsStore
  <2> QED
    BY <1>3, <2>4, LoadIs, BoundsAssumption DEF k
<1> QED
  BY <1>2, <1>3

LEMMA SeqIs ==
  ASSUME NEW S, NEW s \in Seq(S)
  PROVE  IsSeq(s)
BY DEF IsSeq

\* One more event ...
LEMMA Appended ==
  ASSUME NEW log, IsLog(log), NEW e, IsEvent(e)
  PROVE  /\ IsLog(Append(log, e))
         /\ Len(Append(log, e)) = Len(log) + 1
         /\ \A k \in 1 .. Len(log) : Append(log, e)[k] = log[k]
         /\ Append(log, e)[Len(log) + 1] = e
<1> DEFINE S == {log[k] : k \in 1 .. Len(log)} \cup {e}
<1>1. Len(log) \in Nat /\ log = [k \in 1 .. Len(log) |-> log[k]]
  BY DEF IsLog, IsSeq
<1>2. log \in Seq(S) /\ e \in S
  BY <1>1
<1> HIDE DEF S
<1>3. /\ Append(log, e) \in Seq(S)
      /\ Len(Append(log, e)) = Len(log) + 1
      /\ \A k \in 1 .. Len(log) : Append(log, e)[k] = log[k]
      /\ Append(log, e)[Len(log) + 1] = e
  BY <1>2
<1>4. IsSeq(Append(log, e))
  BY <1>3, SeqIs
<1>5. \A k \in 1 .. Len(log) + 1 : IsEvent(Append(log, e)[k])
  <2>1. \A k \in 1 .. Len(log) + 1 : k = Len(log) + 1 \/ k \in 1 .. Len(log)
    BY <1>1
  <2> QED
    BY <1>3, <2>1 DEF IsLog
<1> QED
  BY <1>3, <1>4, <1>5 DEF IsLog

\* ... and several.
LEMMA Joined2 ==
  ASSUME NEW log, IsLog(log), NEW more, IsLog(more)
  PROVE  IsLog(log \o more)
<1> DEFINE S == {log[k] : k \in 1 .. Len(log)} \cup {more[k] : k \in 1 .. Len(more)}
<1>1. /\ Len(log) \in Nat /\ log = [k \in 1 .. Len(log) |-> log[k]]
      /\ Len(more) \in Nat /\ more = [k \in 1 .. Len(more) |-> more[k]]
  BY DEF IsLog, IsSeq
<1>2. log \in Seq(S) /\ more \in Seq(S)
  BY <1>1
<1>3. \A s \in S : IsEvent(s)
  BY DEF IsLog
<1> HIDE DEF S
<1>4. log \o more \in Seq(S)
  BY <1>2
<1>5. IsSeq(log \o more)
  BY <1>4, SeqIs
<1>6. \A k \in 1 .. Len(log \o more) : IsEvent((log \o more)[k])
  <2>1. \A k \in 1 .. Len(log \o more) : (log \o more)[k] \in S
    BY <1>4
  <2> QED
    BY <1>3, <2>1
<1> QED
  BY <1>5, <1>6 DEF IsLog

\* A store changes what is loaded from its own location, and nothing that it does not
\* overlap.
LEMMA StoreIs ==
  ASSUME NEW log, IsLog(log), NEW a \in Int, NEW w \in {4, 8}, NEW v \in Ints(IntBits)
  PROVE  /\ Load(Append(log, Store(a, w, v)), a, w) = v
         /\ \A a2 \in Int : \A w2 \in {4, 8} :
              a2 + w2 <= a \/ a + w <= a2 =>
                Load(Append(log, Store(a, w, v)), a2, w2) = Load(log, a2, w2)
<1> DEFINE e == Store(a, w, v)
           new == Append(log, e)
           N == Len(log)
<1>1. /\ e.kind = "store" /\ e.addr = a /\ e.width = w /\ e.value = v
      /\ e = Store(e.addr, e.width, e.value)
  BY DEF Store
<1>2. IsEvent(e)
  BY <1>1 DEF IsEvent, IsStore
<1> HIDE DEF e
<1>3. /\ IsLog(new) /\ Len(new) = N + 1
      /\ \A k \in 1 .. N : new[k] = log[k]
      /\ new[N + 1] = e
  BY <1>2, Appended
<1>4. N \in Nat /\ DOMAIN log = 1 .. N /\ DOMAIN new = 1 .. N + 1
  BY <1>3 DEF IsLog, IsSeq
<1> HIDE DEF new, N
<1>5. Load(new, a, w) = v
  <2> DEFINE hits == Hits(new, a, w)
  <2>1. Overlaps(e, a, w)
    BY <1>1 DEF Overlaps
  <2>2. N + 1 \in hits /\ hits \subseteq 1 .. N + 1
    BY <1>3, <1>4, <2>1 DEF Hits
  <2> HIDE DEF hits
  <2>3. LatestOf(hits) \in hits /\ \A j \in hits : j <= LatestOf(hits)
    <3>1. N + 1 \in Nat /\ hits # {}
      BY <1>4, <2>2
    <3> QED
      BY <2>2, <3>1, LatestIs
  <2>4. LatestOf(hits) = N + 1
    <3>1. LatestOf(hits) \in 1 .. N + 1 /\ N + 1 <= LatestOf(hits)
      BY <2>2, <2>3
    <3> QED
      BY <1>4, <3>1
  <2>5. hits # {} /\ new[LatestOf(hits)] = e
    BY <1>3, <2>2, <2>4
  <2> QED
    BY <1>1, <2>5, LoadIs DEF hits
<1>6. ASSUME NEW a2 \in Int, NEW w2 \in {4, 8}, a2 + w2 <= a \/ a + w <= a2
      PROVE  Load(new, a2, w2) = Load(log, a2, w2)
  <2>1. ~Overlaps(e, a2, w2)
    BY <1>1, <1>6 DEF Overlaps
  <2>2. Hits(new, a2, w2) = Hits(log, a2, w2)
    <3>1. \A k \in 1 .. N + 1 : k = N + 1 \/ k \in 1 .. N
      BY <1>4
    <3>2. \A k \in 1 .. N : k \in 1 .. N + 1
      BY <1>4
    <3> QED
      BY <1>3, <1>4, <2>1, <3>1, <3>2 DEF Hits
  <2> DEFINE hits == Hits(log, a2, w2)
  <2>3. hits \subseteq 1 .. N
    BY <1>4 DEF Hits
  <2> HIDE DEF hits
  <2>4. CASE hits = {}
    BY <2>2, <2>4, LoadIs DEF hits
  <2>5. CASE hits # {}
    <3>1. LatestOf(hits) \in 1 .. N
      BY <1>4, <2>3, <2>5, LatestIs
    <3>2. new[LatestOf(hits)] = log[LatestOf(hits)]
      BY <1>3, <3>1
    <3> QED
      BY <2>2, <2>5, <3>2, LoadIs DEF hits
  <2> QED
    BY <2>4, <2>5
<1> QED
  BY <1>5, <1>6 DEF new, e

-----------------------------------------------------------------------------
\* Instructions: their operands, and the variables they use.

\* What all instructions look like, whatever their operands are.
IsCopied(i) ==
  i.op = "Copy" /\ i = Copy(i.dst[1], i.srcs[1]) /\ IsOperand(i.dst[1]) /\ IsOperand(i.srcs[1])

IsUnaried(i) ==
  /\ i.op = "Unary" /\ i = Unary(i.dst[1], i.fn, i.srcs[1], i.t)
  /\ IsVar(i.dst[1]) /\ IsOperand(i.srcs[1])

IsBinaried(i) ==
  /\ i.op = "Binary" /\ i = Binary(i.dst[1], i.fn, i.srcs[1], i.srcs[2], i.t)
  /\ IsVar(i.dst[1]) /\ IsOperand(i.srcs[1]) /\ IsOperand(i.srcs[2])

IsShaped(i) ==
  IsCopied(i) \/ IsUnaried(i) \/ IsBinaried(i) \/ IsFCall(i) \/ IsBrIf(i) \/ IsReturn(i)

LEMMA InstructionShaped ==
  ASSUME NEW i, IsInstruction(i)
  PROVE  IsShaped(i)
BY DEF IsInstruction, IsShaped, IsCopy, IsUnary, IsBinary, IsCopied, IsUnaried, IsBinaried

LEMMA ShapedParameters ==
  ASSUME NEW i, IsShaped(i)
  PROVE  /\ AreOperands(i.srcs) /\ IsSeq(i.dst)
         /\ i.op \in {"Copy", "Unary", "Binary"} => i.dst = <<i.dst[1]>>
         /\ i.op \in {"Copy", "Unary", "BrIf"} => i.srcs = <<i.srcs[1]>> /\ Len(i.srcs) = 1
         /\ i.op = "Binary" => i.srcs = <<i.srcs[1], i.srcs[2]>> /\ Len(i.srcs) = 2
         /\ i.op \in {"BrIf", "Return"} => i.dst = <<>>
         /\ i.op \in {"Copy", "Unary", "Binary", "FCall", "BrIf", "Return"}
<1>1. CASE IsCopied(i)
  <2>1. i.op = "Copy" /\ i.dst = <<i.dst[1]>> /\ i.srcs = <<i.srcs[1]>> /\ IsOperand(i.srcs[1])
    BY <1>1 DEF IsCopied, Copy
  <2>2. Len(i.srcs) = 1
    BY <2>1
  <2> QED
    BY <2>1, <2>2 DEF AreOperands, IsSeq
<1>2. CASE IsUnaried(i)
  <2>1. i.op = "Unary" /\ i.dst = <<i.dst[1]>> /\ i.srcs = <<i.srcs[1]>> /\ IsOperand(i.srcs[1])
    BY <1>2 DEF IsUnaried, Unary
  <2>2. Len(i.srcs) = 1
    BY <2>1
  <2> QED
    BY <2>1, <2>2 DEF AreOperands, IsSeq
<1>3. CASE IsBinaried(i)
  <2>1. /\ i.op = "Binary" /\ i.dst = <<i.dst[1]>> /\ i.srcs = <<i.srcs[1], i.srcs[2]>>
        /\ IsOperand(i.srcs[1]) /\ IsOperand(i.srcs[2])
    BY <1>3 DEF IsBinaried, Binary
  <2>2. Len(i.srcs) = 2
    BY <2>1
  <2> QED
    BY <2>1, <2>2 DEF AreOperands, IsSeq
<1>4. CASE IsFCall(i)
  BY <1>4 DEF IsFCall, IsSeq
<1>5. CASE IsBrIf(i)
  <2>1. i.op = "BrIf" /\ i.dst = <<>> /\ i.srcs = <<i.srcs[1]>> /\ IsOperand(i.srcs[1])
    BY <1>5 DEF IsBrIf, BrIf
  <2>2. Len(i.srcs) = 1
    <3>1. \A v : Len(<<v>>) = 1
      OBVIOUS
    <3> QED
      BY <2>1, <3>1, Zenon
  <2> QED
    BY <2>1, <2>2 DEF AreOperands, IsSeq
<1>6. CASE IsReturn(i)
  <2>1. i.op = "Return" /\ i.dst = <<>> /\ AreOperands(i.srcs)
    BY <1>6 DEF IsReturn, Return
  <2> QED
    BY <2>1 DEF IsSeq
<1> QED
  BY <1>1, <1>2, <1>3, <1>4, <1>5, <1>6 DEF IsShaped

LEMMA PairIs ==
  ASSUME NEW S, NEW s \in Seq(S), Len(s) = 2, NEW v, NEW w, s[1] = v, s[2] = w
  PROVE  s = <<v, w>>
<1>1. s = [k \in 1 .. 2 |-> s[k]]
  BY SeqIs DEF IsSeq
<1>2. \A k \in 1 .. 2 : k = 1 \/ k = 2
  OBVIOUS
<1> QED
  BY <1>1, <1>2

LEMMA PairJoined ==
  ASSUME NEW v, NEW w
  PROVE  <<v>> \o <<w>> = <<v, w>>
<1> DEFINE s == <<v>> \o <<w>>
<1>1. <<v>> \in Seq({v, w}) /\ <<w>> \in Seq({v, w}) /\ Len(<<v>>) = 1 /\ Len(<<w>>) = 1
  OBVIOUS
<1>2. s \in Seq({v, w}) /\ Len(s) = 2 /\ s[1] = v /\ s[2] = w
  BY <1>1
<1> HIDE DEF s
<1>3. s = <<v, w>>
  BY <1>2, PairIs
<1> QED
  BY <1>3 DEF s

\* A store also reads the pointer it goes through.
StoresThrough(i) == i.op = "Copy" /\ i.dst[1].kind = "Mem"

LEMMA ShapedOperands ==
  ASSUME NEW i, IsShaped(i)
  PROVE  /\ ~StoresThrough(i) => Operands(i) = i.srcs
         /\ StoresThrough(i) => Operands(i) = <<i.srcs[1], i.dst[1]>>
         /\ AreOperands(Operands(i))
<1>1. /\ AreOperands(i.srcs) /\ IsSeq(i.dst)
      /\ i.op = "Copy" => i.dst = <<i.dst[1]>> /\ i.srcs = <<i.srcs[1]>>
  BY ShapedParameters
<1>2. CASE ~StoresThrough(i)
  <2>1. Operands(i) = i.srcs \o <<>>
    BY <1>2, Zenon DEF Operands, StoresThrough
  <2> DEFINE S == {i.srcs[k] : k \in 1 .. Len(i.srcs)}
  <2>2. i.srcs \in Seq(S)
    BY <1>1 DEF AreOperands, IsSeq
  <2> HIDE DEF S
  <2>3. i.srcs \o <<>> = i.srcs
    BY <2>2
  <2> QED
    BY <1>1, <1>2, <2>1, <2>3
<1>3. CASE StoresThrough(i)
  <2> DEFINE v == i.srcs[1]
             w == i.dst[1]
  <2>1. i.srcs = <<v>> /\ i.dst = <<w>>
    BY <1>1, <1>3 DEF StoresThrough
  <2>2. Operands(i) = i.srcs \o i.dst
    BY <1>3, Zenon DEF Operands, StoresThrough
  <2>3. IsOperand(v) /\ IsOperand(w)
    <3>1. IsCopied(i)
      BY <1>3 DEF StoresThrough, IsShaped, IsUnaried, IsBinaried, IsFCall, IsBrIf, IsReturn
    <3> QED
      BY <3>1 DEF IsCopied
  <2> HIDE DEF v, w
  <2>4. <<v>> \o <<w>> = <<v, w>>
    BY PairJoined
  <2>5. Operands(i) = <<v, w>>
    BY <2>1, <2>2, <2>4
  <2>6. AreOperands(<<v, w>>)
    BY <2>3 DEF AreOperands, IsSeq
  <2> QED
    BY <1>3, <2>5, <2>6 DEF v, w
<1> QED
  BY <1>2, <1>3

\* The variables an instruction uses are those of its operands.
LEMMA ShapedUsed ==
  ASSUME NEW i, IsShaped(i)
  PROVE  /\ \A k \in 1 .. Len(Operands(i)) :
              Operands(i)[k].kind # "Imm" => Operands(i)[k].name \in UsedVars(i)
         /\ \A k \in 1 .. Len(i.srcs) : i.srcs[k].kind # "Imm" => i.srcs[k].name \in UsedVars(i)
         /\ StoresThrough(i) => i.dst[1].name \in UsedVars(i)
<1>1. Range(Operands(i)) = {Operands(i)[k] : k \in 1 .. Len(Operands(i))}
  <2>1. DOMAIN Operands(i) = 1 .. Len(Operands(i))
    BY ShapedOperands DEF AreOperands, IsSeq
  <2> QED
    BY <2>1 DEF Range
<1>2. \A k \in 1 .. Len(Operands(i)) :
        Operands(i)[k].kind # "Imm" => Operands(i)[k].name \in UsedVars(i)
  BY <1>1 DEF UsedVars
<1>3. CASE StoresThrough(i)
  <2> DEFINE v == i.srcs[1]
             w == i.dst[1]
  <2>1. i.srcs = <<v>> /\ w.kind # "Imm"
    BY <1>3, ShapedParameters DEF StoresThrough
  <2>2. Operands(i) = <<v, w>>
    BY <1>3, ShapedOperands
  <2> HIDE DEF v, w
  <2>3. (v.kind # "Imm" => v.name \in UsedVars(i)) /\ w.name \in UsedVars(i)
    BY <1>2, <2>1, <2>2
  <2>4. \A k \in 1 .. Len(i.srcs) : i.srcs[k] = v
    BY <2>1
  <2> QED
    BY <1>2, <1>3, <2>3, <2>4 DEF w
<1>4. CASE ~StoresThrough(i)
  BY <1>2, <1>4, ShapedOperands
<1> QED
  BY <1>3, <1>4

\* ... of an instruction of a function in particular.
LEMMA ParametersAre ==
  ASSUME NEW i, IsInstruction(i)
  PROVE  /\ AreOperands(i.srcs) /\ IsSeq(i.dst)
         /\ i.op \in {"Copy", "Unary", "Binary"} => i.dst = <<i.dst[1]>>
         /\ i.op \in {"Copy", "Unary", "BrIf"} => i.srcs = <<i.srcs[1]>> /\ Len(i.srcs) = 1
         /\ i.op = "Binary" => i.srcs = <<i.srcs[1], i.srcs[2]>> /\ Len(i.srcs) = 2
         /\ i.op \in {"BrIf", "Return"} => i.dst = <<>>
         /\ i.op \in {"Copy", "Unary", "Binary", "FCall", "BrIf", "Return"}
BY InstructionShaped, ShapedParameters

LEMMA OperandsAre ==
  ASSUME NEW i, IsInstruction(i)
  PROVE  /\ ~StoresThrough(i) => Operands(i) = i.srcs
         /\ StoresThrough(i) => Operands(i) = <<i.srcs[1], i.dst[1]>>
         /\ AreOperands(Operands(i))
BY InstructionShaped, ShapedOperands

LEMMA UsedIs ==
  ASSUME NEW i, IsInstruction(i)
  PROVE  /\ \A k \in 1 .. Len(Operands(i)) :
              Operands(i)[k].kind # "Imm" => Operands(i)[k].name \in UsedVars(i)
         /\ \A k \in 1 .. Len(i.srcs) : i.srcs[k].kind # "Imm" => i.srcs[k].name \in UsedVars(i)
         /\ StoresThrough(i) => i.dst[1].name \in UsedVars(i)
BY InstructionShaped, ShapedUsed

-----------------------------------------------------------------------------
\* Functions and states.

LEMMA CodeIs ==
  ASSUME NEW c, IsFunction(c), NEW b \in c.blocks
  PROVE  /\ IsSeq(c.code[b]) /\ Len(c.code[b]) \in Nat /\ DOMAIN c.code[b] = 1 .. Len(c.code[b])
         /\ c.succs[b] \subseteq c.blocks /\ c.preds[b] \subseteq c.blocks
         /\ \A s \in c.succs[b] : b \in c.preds[s]
         /\ c.succs[b] = {} => b = c.exit
         /\ b = c.exit => /\ Len(c.code[b]) > 0 /\ c.succs[b] = {}
                          /\ c.code[b][Len(c.code[b])].instr.op = "Return"
BY DEF IsFunction, IsSeq

\* A branch has somewhere to go either way.
Branches(c, b, i) == i.target \in c.succs[b] /\ c.succs[b] \ {i.target} # {}

LEMMA InstrIs ==
  ASSUME NEW c, IsFunction(c), NEW b \in c.blocks, NEW n \in 1 .. Len(c.code[b])
  PROVE  /\ c.code[b][n] \in Instructions(c)
         /\ IsInstruction(c.code[b][n].instr)
         /\ c.code[b][n].instr.op \in {"BrIf", "Return"} => n = Len(c.code[b])
         /\ c.code[b][n].instr.op = "Return" => b = c.exit
         /\ c.code[b][n].instr.op = "BrIf" => Branches(c, b, c.code[b][n].instr)
<1>1. c.code[b][n] \in Instructions(c)
  <2>1. c.code[b][n] \in Range(c.code[b])
    BY CodeIs DEF Range
  <2> QED
    BY <2>1 DEF Instructions
<1>2. LET li == c.code[b][n]
      IN  /\ li = [id |-> li.id, instr |-> li.instr] /\ IsInstruction(li.instr)
          /\ li.instr.op \in {"BrIf", "Return"} => n = Len(c.code[b])
          /\ li.instr.op = "Return" => b = c.exit
          /\ li.instr.op = "BrIf" => Branches(c, b, li.instr)
  BY DEF IsFunction, Branches
<1> QED
  BY <1>1, <1>2

LEMMA LabelledIs ==
  ASSUME NEW c, IsFunction(c), NEW b \in c.blocks, NEW n \in 1 .. Len(c.code[b])
  PROVE  c.code[b][n] = [id |-> c.code[b][n].id, instr |-> c.code[b][n].instr]
BY DEF IsFunction

\* An instruction is known by its id.
LEMMA IdsDistinct ==
  ASSUME NEW c, DistinctIds(c), NEW li \in Instructions(c), NEW lj \in Instructions(c), li.id = lj.id
  PROVE  li = lj
BY DEF DistinctIds

LEMMA PointsAre ==
  ASSUME NEW c, NEW p
  PROVE  p \in Points(c) <=> /\ p = <<p[1], p[2]>> /\ p[1] \in c.blocks
                             /\ p[2] \in 0 .. Len(c.code[p[1]])
BY DEF Points

\* A state, field by field.
State(b, n, env, log, status, result) ==
  [pc |-> <<b, n>>, env |-> env, log |-> log, status |-> status, result |-> result]

IsRecord(m) == m = State(m.pc[1], m.pc[2], m.env, m.log, m.status, m.result)

LEMMA StateSteps ==
  ASSUME NEW m, IsRecord(m), NEW v, NEW w
  PROVE  /\ Advance(m) = State(m.pc[1], m.pc[2] + 1, m.env, m.log, m.status, m.result)
         /\ [m EXCEPT !.env = v] = State(m.pc[1], m.pc[2], v, m.log, m.status, m.result)
         /\ [m EXCEPT !.log = v] = State(m.pc[1], m.pc[2], m.env, v, m.status, m.result)
         /\ Stopped(m, v) = State(m.pc[1], m.pc[2], m.env, m.log, v, m.result)
         /\ [m EXCEPT !.result = v] = State(m.pc[1], m.pc[2], m.env, m.log, m.status, v)
         /\ [m EXCEPT !.pc = <<v, w>>] = State(v, w, m.env, m.log, m.status, m.result)
<1> DEFINE b == m.pc[1]
           n == m.pc[2]
           env == m.env
           log == m.log
           status == m.status
           result == m.result
<1>1. m = State(b, n, env, log, status, result)
  BY DEF IsRecord
<1> HIDE DEF b, n, env, log, status, result
<1>2. Advance(m) = State(b, n + 1, env, log, status, result)
  BY <1>1 DEF Advance, State
<1>3. [m EXCEPT !.env = v] = State(b, n, v, log, status, result)
  BY <1>1 DEF State
<1>4. [m EXCEPT !.log = v] = State(b, n, env, v, status, result)
  BY <1>1 DEF State
<1>6. Stopped(m, v) = State(b, n, env, log, v, result)
  BY <1>1 DEF State, Stopped
<1>7. [m EXCEPT !.result = v] = State(b, n, env, log, status, v)
  BY <1>1 DEF State
<1>8. [m EXCEPT !.pc = <<v, w>>] = State(v, w, env, log, status, result)
  BY <1>1 DEF State
<1> QED
  BY <1>2, <1>3, <1>4, <1>6, <1>7, <1>8, Zenon DEF b, n, env, log, status, result

LEMMA FieldsAre ==
  ASSUME NEW b, NEW n, NEW env, NEW log, NEW status, NEW result
  PROVE  LET m == State(b, n, env, log, status, result)
         IN  /\ m.pc = <<b, n>> /\ m.pc[1] = b /\ m.pc[2] = n /\ m.env = env /\ m.log = log
             /\ m.status = status /\ m.result = result /\ IsRecord(m)
BY DEF State, IsRecord

LEMMA StateIs ==
  ASSUME NEW c, IsFunction(c), NEW m, IsState(c, m)
  PROVE  /\ IsRecord(m)
         /\ m.pc[1] \in c.blocks /\ m.pc[2] \in 0 .. Len(c.code[m.pc[1]])
         /\ IsEnv(m.env) /\ IsLog(m.log)
         /\ c.globals \subseteq DOMAIN m.env
<1>1. m.pc = <<m.pc[1], m.pc[2]>> /\ m.pc[1] \in c.blocks /\ m.pc[2] \in 0 .. Len(c.code[m.pc[1]])
  BY PointsAre DEF IsState
<1>2. m = [pc |-> m.pc, env |-> m.env, log |-> m.log, status |-> m.status, result |-> m.result]
  BY DEF IsState
<1>3. IsRecord(m)
  BY <1>1, <1>2 DEF IsRecord, State
<1> QED
  BY <1>1, <1>3 DEF IsState

\* The state behind an instruction that does not branch.
Next1(m, env, log) == State(m.pc[1], m.pc[2] + 1, env, log, m.status, m.result)

LEMMA NextIs ==
  ASSUME NEW m, NEW env, NEW log, NEW r, r = Next1(m, env, log)
  PROVE  /\ r.pc = <<m.pc[1], m.pc[2] + 1>> /\ r.pc[1] = m.pc[1] /\ r.pc[2] = m.pc[2] + 1
         /\ r.env = env /\ r.log = log /\ r.status = m.status /\ r.result = m.result
         /\ IsRecord(r)
BY DEF Next1, State, IsRecord

LEMMA Assigned ==
  ASSUME NEW m, IsRecord(m), NEW dst, NEW v
  PROVE  /\ dst.kind = "Var" => Assign(m, dst, v) = Next1(m, Update(m.env, dst.name, v), m.log)
         /\ dst.kind # "Var" =>
              Assign(m, dst, v) =
                Next1(m, m.env, Append(m.log, Store(Address(m, dst), Width(dst.t), v)))
<1> DEFINE n == Advance(m)
<1>1. n = State(m.pc[1], m.pc[2] + 1, m.env, m.log, m.status, m.result)
  BY StateSteps
<1>2. /\ IsRecord(n) /\ n.pc[1] = m.pc[1] /\ n.pc[2] = m.pc[2] + 1
      /\ n.env = m.env /\ n.log = m.log /\ n.status = m.status /\ n.result = m.result
  <2> HIDE DEF n
  <2> QED
    BY <1>1, FieldsAre
<1> HIDE DEF n
<1>3. ASSUME NEW e PROVE [n EXCEPT !.env = e] = Next1(m, e, m.log)
  <2>1. [n EXCEPT !.env = e] = State(n.pc[1], n.pc[2], e, n.log, n.status, n.result)
    BY <1>2, StateSteps, Zenon
  <2> QED
    BY <1>2, <2>1, Zenon DEF Next1
<1>4. ASSUME NEW l PROVE [n EXCEPT !.log = l] = Next1(m, m.env, l)
  <2>1. [n EXCEPT !.log = l] = State(n.pc[1], n.pc[2], n.env, l, n.status, n.result)
    BY <1>2, StateSteps, Zenon
  <2> QED
    BY <1>2, <2>1, Zenon DEF Next1
<1> USE DEF n
<1>5. dst.kind = "Var" => Assign(m, dst, v) = [n EXCEPT !.env = Update(n.env, dst.name, v)]
  BY DEF Assign
<1>6. dst.kind # "Var" =>
        Assign(m, dst, v) = [n EXCEPT !.log = Append(n.log, Store(Address(m, dst), Width(dst.t), v))]
  BY DEF Assign
<1> HIDE DEF n
<1> QED
  BY <1>2, <1>3, <1>4, <1>5, <1>6

\* What a call makes of the log and the variables.
CalledEvent(c, m, i) ==
  [ kind |-> "call", fn |-> i.fn,
    args |-> [k \in DOMAIN i.srcs |-> Eval(m, i.srcs[k])],
    globals |-> [g \in c.globals |-> m.env[g]] ]

LEMMA Called ==
  ASSUME NEW c, NEW inp, NEW m, IsRecord(m), NEW i, IsFCall(i)
  PROVE  LET effect == Callee(inp, i.fn, CallsSoFar(m))
             env    == Override(m.env, effect.globals)
             log    == Append(m.log, CalledEvent(c, m, i)) \o effect.stores
         IN  /\ i.dst = <<>> => Call(c, inp, m, i) = Next1(m, env, log)
             /\ i.dst # <<>> =>
                  Call(c, inp, m, i) = Next1(m, Update(env, i.dst[1].name, effect.ret), log)
<1> DEFINE effect == Callee(inp, i.fn, CallsSoFar(m))
           env    == Override(m.env, effect.globals)
           event  == CalledEvent(c, m, i)
           log    == Append(m.log, event) \o effect.stores
           logged == [m EXCEPT !.log = log]
           after  == [logged EXCEPT !.env = env]
<1>1. Call(c, inp, m, i) = IF i.dst = <<>> THEN Advance(after) ELSE Assign(after, i.dst[1], effect.ret)
  BY DEF Call, CalledEvent
<1> HIDE DEF effect, env, event, log
<1>2. after = State(m.pc[1], m.pc[2], env, log, m.status, m.result)
  <2>1. logged = State(m.pc[1], m.pc[2], m.env, log, m.status, m.result)
    BY StateSteps, Zenon
  <2> HIDE DEF logged
  <2>2. /\ IsRecord(logged) /\ logged.pc[1] = m.pc[1] /\ logged.pc[2] = m.pc[2]
        /\ logged.log = log /\ logged.status = m.status /\ logged.result = m.result
    BY <2>1, FieldsAre
  <2>3. [logged EXCEPT !.env = env]
          = State(logged.pc[1], logged.pc[2], env, logged.log, logged.status, logged.result)
    BY <2>2, StateSteps, Zenon
  <2> QED
    BY <2>2, <2>3, Zenon
<1> HIDE DEF after
<1>3. Advance(after) = Next1(m, env, log)
  <2>1. /\ IsRecord(after) /\ after.pc[1] = m.pc[1] /\ after.pc[2] = m.pc[2]
        /\ after.env = env /\ after.log = log /\ after.status = m.status /\ after.result = m.result
    BY <1>2, FieldsAre
  <2> QED
    BY <2>1, StateSteps DEF Next1
<1>4. i.dst # <<>> => i.dst[1].kind = "Var"
  BY DEF IsFCall, IsVar
<1>5. i.dst # <<>> => Assign(after, i.dst[1], effect.ret) = Next1(m, Update(env, i.dst[1].name, effect.ret), log)
  <2>1. IsRecord(after) /\ after.env = env /\ after.log = log
    BY <1>2, FieldsAre
  <2>2. \A e, l : Next1(after, e, l) = Next1(m, e, l)
    BY <1>2, FieldsAre DEF Next1
  <2> QED
    BY <1>4, <2>1, <2>2, Assigned
<1> QED
  BY <1>1, <1>3, <1>5 DEF effect, env, event, log

-----------------------------------------------------------------------------
\* What an instruction does.

LEMMA EvalIs ==
  ASSUME NEW m, NEW v
  PROVE  /\ v.kind = "Imm" => Eval(m, v) = v.int
         /\ v.kind = "Var" => Eval(m, v) = m.env[v.name]
         /\ v.kind = "Mem" => Eval(m, v) = Load(m.log, m.env[v.name] + v.offset, Width(v.t))
BY Zenon DEF Eval, Address

LEMMA EvalFits ==
  ASSUME NEW m, IsEnv(m.env), IsLog(m.log),
         NEW v, IsOperand(v), v.kind # "Imm" => v.name \in DOMAIN m.env
  PROVE  Eval(m, v) \in Ints(IntBits)
<1>1. CASE v.kind = "Imm"
  BY <1>1, EvalIs DEF IsOperand
<1>2. CASE v.kind = "Var"
  BY <1>2, EvalIs DEF IsEnv
<1>3. CASE v.kind = "Mem"
  BY <1>3, EvalIs, LoadFits
<1> QED
  BY <1>1, <1>2, <1>3 DEF IsOperand

\* The values of the operands of an instruction whose variables are assigned.
LEMMA OperandsFit ==
  ASSUME NEW m, IsEnv(m.env), IsLog(m.log),
         NEW i, IsInstruction(i), UsedVars(i) \subseteq DOMAIN m.env
  PROVE  /\ \A k \in 1 .. Len(i.srcs) : Eval(m, i.srcs[k]) \in Ints(IntBits)
         /\ i.op \in {"Copy", "Unary", "Binary", "BrIf"} => Eval(m, i.srcs[1]) \in Ints(IntBits)
         /\ i.op = "Binary" => Eval(m, i.srcs[2]) \in Ints(IntBits)
         /\ StoresThrough(i) =>
              /\ i.dst[1].name \in DOMAIN m.env
              /\ Address(m, i.dst[1]) \in Int /\ Width(i.dst[1].t) \in {4, 8}
<1>1. AreOperands(i.srcs)
  BY ParametersAre
<1>2. ASSUME NEW k \in 1 .. Len(i.srcs) PROVE Eval(m, i.srcs[k]) \in Ints(IntBits)
  <2>1. IsOperand(i.srcs[k])
    BY <1>1 DEF AreOperands
  <2>2. i.srcs[k].kind # "Imm" => i.srcs[k].name \in DOMAIN m.env
    BY UsedIs
  <2> QED
    BY <2>1, <2>2, EvalFits
<1>3. /\ i.op \in {"Copy", "Unary", "BrIf"} => Len(i.srcs) = 1
      /\ i.op = "Binary" => Len(i.srcs) = 2
  BY ParametersAre
<1>4. i.op \in {"Copy", "Unary", "Binary", "BrIf"} => Eval(m, i.srcs[1]) \in Ints(IntBits)
  <2>1. i.op \in {"Copy", "Unary", "Binary", "BrIf"} => 1 \in 1 .. Len(i.srcs)
    BY <1>3
  <2> QED
    BY <1>2, <2>1
<1>5. i.op = "Binary" => Eval(m, i.srcs[2]) \in Ints(IntBits)
  <2>1. \A n : n = 2 => 2 \in 1 .. n
    OBVIOUS
  <2>2. i.op = "Binary" => 2 \in 1 .. Len(i.srcs)
    BY <1>3, <2>1, Zenon
  <2> QED
    BY <1>2, <2>2
<1>6. ASSUME StoresThrough(i)
      PROVE  /\ i.dst[1].name \in DOMAIN m.env
             /\ Address(m, i.dst[1]) \in Int /\ Width(i.dst[1].t) \in {4, 8}
  <2>1. i.dst[1].name \in DOMAIN m.env
    BY <1>6, UsedIs
  <2>2. IsCopy(i)
    BY <1>6 DEF StoresThrough, IsInstruction, IsUnary, IsBinary, IsFCall, IsBrIf, IsReturn
  <2>3. i.dst[1].offset \in Int
    BY <1>6, <2>2 DEF StoresThrough, IsCopy, IsOperand
  <2>4. m.env[i.dst[1].name] \in Int
    BY <2>1, SmallInts DEF IsEnv
  <2> QED
    BY <2>1, <2>3, <2>4 DEF Address, Width
<1> QED
  BY <1>2, <1>4, <1>5, <1>6

\* Where a branch on value v goes, and the edge out of a block without one.
Taken(c, b, i, v) == IF v # 0 THEN i.target ELSE CHOOSE s \in c.succs[b] \ {i.target} : TRUE

Onwards(c, b) == CHOOSE p \in {<<s, 0>> : s \in c.succs[b]} : TRUE

LEMMA BranchIs ==
  ASSUME NEW c, NEW inp, NEW m, IsRecord(m), NEW i, UsedVars(i) \subseteq DOMAIN m.env, i.op = "BrIf"
  PROVE  Execute(c, inp, m, i) =
           State(Taken(c, m.pc[1], i, Eval(m, i.srcs[1])), 0, m.env, m.log, m.status, m.result)
<1> DEFINE s == Taken(c, m.pc[1], i, Eval(m, i.srcs[1]))
<1>1. Execute(c, inp, m, i) = [m EXCEPT !.pc = <<s, 0>>]
  BY Zenon DEF Execute, Taken, StartOf
<1> HIDE DEF s
<1>2. [m EXCEPT !.pc = <<s, 0>>] = State(s, 0, m.env, m.log, m.status, m.result)
  BY StateSteps
<1> QED
  BY <1>1, <1>2 DEF s

\* The values of operands.
Values(m, vals) == [k \in DOMAIN vals |-> Eval(m, vals[k])]

LEMMA ReturnIs ==
  ASSUME NEW c, NEW inp, NEW m, IsRecord(m), NEW i, UsedVars(i) \subseteq DOMAIN m.env, i.op = "Return"
  PROVE  Execute(c, inp, m, i) =
           State(m.pc[1], m.pc[2], m.env, m.log, "returned", Values(m, i.srcs))
<1> DEFINE vals == Values(m, i.srcs)
           stopped == Stopped(m, "returned")
<1>1. Execute(c, inp, m, i) = [stopped EXCEPT !.result = vals]
  BY Zenon DEF Execute, Values
<1> HIDE DEF vals
<1>2. stopped = State(m.pc[1], m.pc[2], m.env, m.log, "returned", m.result)
  BY StateSteps
<1> HIDE DEF stopped
<1>3. /\ IsRecord(stopped) /\ stopped.pc[1] = m.pc[1] /\ stopped.pc[2] = m.pc[2]
      /\ stopped.env = m.env /\ stopped.log = m.log /\ stopped.status = "returned"
  BY <1>2, FieldsAre
<1>4. [stopped EXCEPT !.result = vals] =
        State(stopped.pc[1], stopped.pc[2], stopped.env, stopped.log, stopped.status, vals)
  BY <1>3, StateSteps
<1> QED
  BY <1>1, <1>3, <1>4 DEF vals

LEMMA OperationIs ==
  ASSUME NEW c, NEW inp, NEW m, NEW i, UsedVars(i) \subseteq DOMAIN m.env
  PROVE  /\ i.op = "Copy" => Execute(c, inp, m, i) = Assign(m, i.dst[1], Eval(m, i.srcs[1]))
         /\ i.op = "Unary" =>
              Execute(c, inp, m, i) = Compute(m, i.dst[1], RunUnary(i.fn, Eval(m, i.srcs[1])))
         /\ i.op = "Binary" =>
              Execute(c, inp, m, i) =
                Compute(m, i.dst[1], RunBinary(IntBits, i.fn, Eval(m, i.srcs[1]), Eval(m, i.srcs[2])))
         /\ i.op = "FCall" => Execute(c, inp, m, i) = Call(c, inp, m, i)
BY Zenon DEF Execute, Operate

LEMMA UnassignedIs ==
  ASSUME NEW c, NEW inp, NEW m, NEW i, ~(UsedVars(i) \subseteq DOMAIN m.env)
  PROVE  Execute(c, inp, m, i) = Stopped(m, "unassigned")
BY Zenon DEF Execute

LEMMA StepIs ==
  ASSUME NEW c, NEW inp, NEW m
  PROVE  /\ m.pc[2] < Len(c.code[m.pc[1]]) =>
              Step(c, inp, m) = Execute(c, inp, m, c.code[m.pc[1]][m.pc[2] + 1].instr)
         /\ ~(m.pc[2] < Len(c.code[m.pc[1]])) => Step(c, inp, m) = [m EXCEPT !.pc = Onwards(c, m.pc[1])]
BY Zenon DEF Step, HasNext, NextInstr, After, StartOf, Onwards

LEMMA OnwardsIs ==
  ASSUME NEW c, NEW b, c.succs[b] # {}
  PROVE  \E s \in c.succs[b] : Onwards(c, b) = <<s, 0>>
<1>1. {<<s, 0>> : s \in c.succs[b]} # {}
  OBVIOUS
<1>2. Onwards(c, b) \in {<<s, 0>> : s \in c.succs[b]}
  BY <1>1 DEF Onwards
<1> QED
  BY <1>2

LEMMA TakenIs ==
  ASSUME NEW c, NEW b, NEW i, Branches(c, b, i), NEW v
  PROVE  Taken(c, b, i, v) \in c.succs[b]
BY DEF Taken, Branches

\* The variables an instruction may write.
Writes(c, i) == def_of_instr(i) \cup IF IsCall(i) THEN c.globals ELSE {}

LEMMA DefIs ==
  ASSUME NEW i, IsInstruction(i)
  PROVE  /\ i.op \in {"BrIf", "Return"} \/ StoresThrough(i) \/ i.dst = <<>> => def_of_instr(i) = {}
         /\ i.op \in {"Copy", "Unary", "Binary", "FCall"} /\ ~StoresThrough(i) /\ i.dst # <<>> =>
              i.dst[1].kind = "Var" /\ i.dst = <<i.dst[1]>> /\ def_of_instr(i) = {i.dst[1].name}
<1>1. \A v : i.dst = <<v>> => def_of_instr(i) = IF v.kind = "Var" THEN {v.name} ELSE {}
  <2> SUFFICES ASSUME NEW v, i.dst = <<v>>
               PROVE  def_of_instr(i) = IF v.kind = "Var" THEN {v.name} ELSE {}
    OBVIOUS
  <2>1. Range(i.dst) = {v}
    BY DEF Range
  <2> QED
    BY <2>1 DEF def_of_instr
<1>2. i.dst = <<>> => def_of_instr(i) = {}
  BY DEF def_of_instr, Range
<1>3. CASE IsCopy(i)
  <2>1. i.op = "Copy" /\ i.dst = <<i.dst[1]>> /\ i.dst[1].kind \in {"Var", "Mem"} /\ i.dst # <<>>
    BY <1>3 DEF IsCopy, Copy, IsOperand
  <2> QED
    BY <1>1, <2>1 DEF StoresThrough
<1>4. CASE IsUnary(i)
  <2>1. i.op = "Unary" /\ i.dst = <<i.dst[1]>> /\ i.dst[1].kind = "Var" /\ i.dst # <<>>
    BY <1>4 DEF IsUnary, Unary, IsVar
  <2> QED
    BY <1>1, <2>1 DEF StoresThrough
<1>5. CASE IsBinary(i)
  <2>1. i.op = "Binary" /\ i.dst = <<i.dst[1]>> /\ i.dst[1].kind = "Var" /\ i.dst # <<>>
    BY <1>5 DEF IsBinary, Binary, IsVar
  <2> QED
    BY <1>1, <2>1 DEF StoresThrough
<1>6. CASE IsFCall(i)
  <2>1. i.op = "FCall" /\ (i.dst = <<>> \/ (i.dst = <<i.dst[1]>> /\ i.dst[1].kind = "Var" /\ i.dst # <<>>))
    BY <1>6 DEF IsFCall, IsVar
  <2> QED
    BY <1>1, <1>2, <2>1 DEF StoresThrough
<1>7. CASE i.op \in {"BrIf", "Return"}
  BY <1>2, <1>7, ParametersAre
<1> QED
  BY <1>3, <1>4, <1>5, <1>6, <1>7 DEF IsInstruction, IsBrIf, IsReturn

LEMMA DomainsAre ==
  ASSUME NEW f, NEW g, NEW x, NEW v
  PROVE  /\ DOMAIN Update(f, x, v) = DOMAIN f \cup {x}
         /\ DOMAIN Override(f, g) = DOMAIN f \cup DOMAIN g
BY DEF Update, Override

LEMMA UpdateIs ==
  ASSUME NEW f, IsEnv(f), NEW x, NEW v \in Ints(IntBits)
  PROVE  /\ IsEnv(Update(f, x, v))
         /\ Update(f, x, v)[x] = v
         /\ \A y \in DOMAIN f : y # x => Update(f, x, v)[y] = f[y]
BY DEF Update, IsEnv

LEMMA OverrideIs ==
  ASSUME NEW f, IsEnv(f), NEW g, IsEnv(g)
  PROVE  /\ IsEnv(Override(f, g))
         /\ \A y \in DOMAIN g : Override(f, g)[y] = g[y]
         /\ \A y \in DOMAIN f : y \notin DOMAIN g => Override(f, g)[y] = f[y]
BY DEF Override, IsEnv

\* A state with values that a register can hold.
IsSound(c, m) ==
  /\ IsRecord(m)
  /\ IsEnv(m.env) /\ c.globals \subseteq DOMAIN m.env
  /\ IsLog(m.log)

\* The results of an operation are one value, or it traps.
LEMMA ComputeIs ==
  ASSUME NEW m, NEW dst, NEW results
  PROVE  /\ results = {} => Compute(m, dst, results) = Stopped(m, "trapped")
         /\ results # {} => \E r \in results : /\ r = CHOOSE v \in results : TRUE
                                               /\ Compute(m, dst, results) = Assign(m, dst, r)
BY DEF Compute

LEMMA AssignsVar ==
  ASSUME NEW c, NEW m, IsSound(c, m), NEW dst, dst.kind = "Var", NEW v \in Ints(IntBits),
         NEW r, r = Assign(m, dst, v)
  PROVE  /\ r = Next1(m, r.env, r.log) /\ r.log = m.log
         /\ r.env = Update(m.env, dst.name, v)
         /\ IsEnv(r.env)
         /\ DOMAIN r.env = DOMAIN m.env \cup {dst.name}
         /\ \A x \in DOMAIN m.env \ {dst.name} : r.env[x] = m.env[x]
<1>1. r = Next1(m, Update(m.env, dst.name, v), m.log)
  BY Assigned DEF IsSound
<1>2. r.env = Update(m.env, dst.name, v) /\ r.log = m.log
  BY <1>1, NextIs
<1>3. IsEnv(m.env)
  BY DEF IsSound
<1>4. /\ IsEnv(Update(m.env, dst.name, v))
      /\ \A y \in DOMAIN m.env : y # dst.name => Update(m.env, dst.name, v)[y] = m.env[y]
  BY <1>3, UpdateIs
<1> DEFINE new == Update(m.env, dst.name, v)
<1>8. DOMAIN new = DOMAIN m.env \cup {dst.name}
  BY DomainsAre, Zenon
<1> HIDE DEF new
<1>5. /\ DOMAIN r.env = DOMAIN m.env \cup {dst.name}
      /\ IsEnv(r.env)
      /\ \A y \in DOMAIN m.env : y # dst.name => r.env[y] = m.env[y]
  BY <1>2, <1>4, <1>8 DEF new
<1>6. \A y \in DOMAIN m.env \ {dst.name} : r.env[y] = m.env[y]
  BY <1>5
<1>7. r = Next1(m, r.env, r.log)
  BY <1>1, <1>2, Zenon
<1> QED
  BY <1>2, <1>5, <1>6, <1>7, Zenon

\* The state at the start of block s.
Moved(m, s) == State(s, 0, m.env, m.log, m.status, m.result)

\* An instruction that does not trap, branch or return.
Goes(c, i, m, r) ==
  /\ r = Next1(m, r.env, r.log)
  /\ IsEnv(r.env) /\ IsLog(r.log)
  /\ DOMAIN r.env = DOMAIN m.env \cup def_of_instr(i)
  /\ \A x \in DOMAIN m.env \ Writes(c, i) : r.env[x] = m.env[x]
  /\ i.op # "FCall" /\ ~StoresThrough(i) => r.log = m.log

LEMMA Effects ==
  ASSUME NEW c, NEW inp, NEW m, IsSound(c, m), NEW i, IsInstruction(i),
         UsedVars(i) \subseteq DOMAIN m.env, i.op \in {"Copy", "Unary", "Binary", "FCall"},
         i.op = "FCall" => IsEffect(c, Callee(inp, i.fn, CallsSoFar(m))),
         NEW r, r = Execute(c, inp, m, i)
  PROVE  \/ /\ i.op = "Binary" /\ i.fn \in {"Div", "Mod"}
            /\ r = State(m.pc[1], m.pc[2], m.env, m.log, "trapped", m.result)
         \/ Goes(c, i, m, r)
<1>1. /\ IsEnv(m.env) /\ IsLog(m.log) /\ IsRecord(m)
      /\ c.globals \subseteq DOMAIN m.env
  BY DEF IsSound
<1>2. /\ i.op \in {"Copy", "Unary", "Binary", "BrIf"} => Eval(m, i.srcs[1]) \in Ints(IntBits)
      /\ i.op = "Binary" => Eval(m, i.srcs[2]) \in Ints(IntBits)
      /\ StoresThrough(i) =>
           /\ i.dst[1].name \in DOMAIN m.env
           /\ Address(m, i.dst[1]) \in Int /\ Width(i.dst[1].t) \in {4, 8}
  BY <1>1, OperandsFit
<1>3. def_of_instr(i) \subseteq Writes(c, i)
  BY DEF Writes
<1>4. ASSUME NEW v \in Ints(IntBits), i.op \in {"Copy", "Unary", "Binary"}, ~StoresThrough(i),
             r = Assign(m, i.dst[1], v)
      PROVE  Goes(c, i, m, r)
  <2>1. i.dst # <<>>
    <3>1. \A w : <<w>> # <<>>
      OBVIOUS
    <3> QED
      BY <1>4, <3>1, ParametersAre
  <2>2. i.dst[1].kind = "Var" /\ def_of_instr(i) = {i.dst[1].name}
    BY <1>4, <2>1, DefIs
  <2>3. /\ r = Next1(m, r.env, r.log) /\ r.log = m.log
        /\ IsEnv(r.env)
        /\ DOMAIN r.env = DOMAIN m.env \cup {i.dst[1].name}
        /\ \A x \in DOMAIN m.env \ {i.dst[1].name} : r.env[x] = m.env[x]
    BY <1>4, <2>2, AssignsVar
  <2> QED
    BY <1>1, <1>3, <2>2, <2>3 DEF Goes
<1>5. CASE i.op = "Copy" /\ ~StoresThrough(i)
  <2>1. r = Assign(m, i.dst[1], Eval(m, i.srcs[1]))
    BY <1>5, OperationIs
  <2> QED
    BY <1>2, <1>4, <1>5, <2>1
<1>6. CASE StoresThrough(i)
  <2> DEFINE e == Store(Address(m, i.dst[1]), Width(i.dst[1].t), Eval(m, i.srcs[1]))
             log == Append(m.log, e)
  <2>1. r = Assign(m, i.dst[1], Eval(m, i.srcs[1]))
    BY <1>6, OperationIs DEF StoresThrough
  <2>2. r = Next1(m, m.env, log)
    BY <1>1, <1>6, <2>1, Assigned DEF StoresThrough
  <2>3. IsEvent(e)
    BY <1>2, <1>6 DEF IsEvent, IsStore, Store, StoresThrough
  <2> HIDE DEF e, log
  <2>4. r.env = m.env /\ r.log = log
    BY <2>2, NextIs
  <2>5. IsLog(r.log)
    BY <1>1, <2>3, <2>4, Appended DEF log
  <2>6. def_of_instr(i) = {}
    BY <1>6, DefIs
  <2> QED
    BY <1>1, <1>6, <2>2, <2>4, <2>5, <2>6 DEF Goes
<1>7. ASSUME i.op \in {"Unary", "Binary"}, NEW results, results \subseteq Ints(IntBits),
             r = Compute(m, i.dst[1], results),
             results = {} => i.op = "Binary" /\ i.fn \in {"Div", "Mod"}
      PROVE  \/ /\ i.op = "Binary" /\ i.fn \in {"Div", "Mod"}
                /\ r = State(m.pc[1], m.pc[2], m.env, m.log, "trapped", m.result)
             \/ Goes(c, i, m, r)
  <2>1. CASE results = {}
    <3>1. r = Stopped(m, "trapped")
      BY <1>7, <2>1, ComputeIs
    <3>2. r = State(m.pc[1], m.pc[2], m.env, m.log, "trapped", m.result)
      BY <1>1, <3>1, StateSteps, Zenon
    <3> QED
      BY <1>7, <2>1, <3>2
  <2>2. CASE results # {}
    <3>1. PICK v \in results : Compute(m, i.dst[1], results) = Assign(m, i.dst[1], v)
      BY <2>2, ComputeIs
    <3>2. v \in Ints(IntBits) /\ r = Assign(m, i.dst[1], v)
      BY <1>7, <3>1
    <3>3. ~StoresThrough(i)
      BY <1>7 DEF StoresThrough
    <3> QED
      BY <1>4, <1>7, <3>2, <3>3
  <2> QED
    BY <2>1, <2>2
<1>8. CASE i.op = "Unary"
  <2>1. i.fn \in UnaryFns
    BY <1>8 DEF IsInstruction, IsCopy, IsUnary, IsBinary, IsFCall, IsBrIf, IsReturn, UnaryFns
  <2> DEFINE results == RunUnary(i.fn, Eval(m, i.srcs[1]))
  <2>2. results \subseteq Ints(IntBits) /\ results # {}
    BY <1>2, <1>8, <2>1, Computed
  <2>3. r = Compute(m, i.dst[1], results)
    BY <1>8, OperationIs
  <2> HIDE DEF results
  <2> QED
    BY <1>7, <1>8, <2>2, <2>3
<1>9. CASE i.op = "Binary"
  <2>1. i.fn \in BinaryFns
    BY <1>9 DEF IsInstruction, IsCopy, IsUnary, IsBinary, IsFCall, IsBrIf, IsReturn, BinaryFns
  <2> DEFINE results == RunBinary(IntBits, i.fn, Eval(m, i.srcs[1]), Eval(m, i.srcs[2]))
  <2>2. results \subseteq Ints(IntBits) /\ (results = {} => i.fn \in {"Div", "Mod"})
    BY <1>2, <1>9, <2>1, Computed
  <2>3. r = Compute(m, i.dst[1], results)
    BY <1>9, OperationIs
  <2> HIDE DEF results
  <2> QED
    BY <1>7, <1>9, <2>2, <2>3
<1>10. CASE i.op = "FCall"
  <2> DEFINE effect == Callee(inp, i.fn, CallsSoFar(m))
             env    == Override(m.env, effect.globals)
             log    == Append(m.log, CalledEvent(c, m, i)) \o effect.stores
  <2>1. IsFCall(i)
    BY <1>10 DEF IsInstruction, IsCopy, IsUnary, IsBinary, IsFCall, IsBrIf, IsReturn
  <2>2. /\ i.dst = <<>> => r = Next1(m, env, log)
        /\ i.dst # <<>> => r = Next1(m, Update(env, i.dst[1].name, effect.ret), log)
    <3>1. r = Call(c, inp, m, i)
      BY <1>10, OperationIs
    <3> QED
      BY <1>1, <2>1, <3>1, Called
  <2>3. IsEffect(c, effect)
    BY <1>10
  <2> HIDE DEF effect
  <2>4. IsLog(log)
    <3>1. IsEvent(CalledEvent(c, m, i))
      BY DEF IsEvent, CalledEvent
    <3>2. IsLog(Append(m.log, CalledEvent(c, m, i)))
      BY <1>1, <3>1, Appended
    <3>3. IsLog(effect.stores)
      BY <2>3 DEF IsEffect, IsLog, IsEvent
    <3> QED
      BY <3>2, <3>3, Joined2
  <2>5. /\ DOMAIN env = DOMAIN m.env /\ IsEnv(env)
        /\ \A y \in DOMAIN m.env : y \notin c.globals => env[y] = m.env[y]
    <3>1. /\ IsEnv(effect.globals)
          /\ DOMAIN effect.globals \subseteq c.globals
      BY <2>3 DEF IsEffect
    <3>2. /\ DOMAIN env = DOMAIN m.env \cup DOMAIN effect.globals
          /\ IsEnv(env)
          /\ \A y \in DOMAIN m.env : y \notin DOMAIN effect.globals => env[y] = m.env[y]
      <4>1. IsEnv(env) /\ \A y \in DOMAIN m.env : y \notin DOMAIN effect.globals => env[y] = m.env[y]
        BY <1>1, <3>1, OverrideIs
      <4> QED
        BY <4>1, DomainsAre, Zenon
    <3> HIDE DEF env
    <3> QED
      BY <1>1, <3>1, <3>2
  <2> HIDE DEF env, log
  <2>6. Writes(c, i) = def_of_instr(i) \cup c.globals
    BY <1>10 DEF Writes, IsCall
  <2>7. CASE i.dst = <<>>
    <3>1. r = Next1(m, env, log)
      BY <2>2, <2>7
    <3>2. r.env = env /\ r.log = log
      BY <3>1, NextIs
    <3>3. def_of_instr(i) = {}
      BY <2>7, DefIs
    <3> QED
      BY <1>10, <2>4, <2>5, <2>6, <3>1, <3>2, <3>3 DEF Goes
  <2>8. CASE i.dst # <<>>
    <3> DEFINE x == i.dst[1].name
               env2 == Update(env, x, effect.ret)
    <3>1. r = Next1(m, env2, log)
      BY <2>2, <2>8
    <3>2. /\ DOMAIN env2 = DOMAIN env \cup {x} /\ IsEnv(env2)
          /\ \A y \in DOMAIN env : y # x => env2[y] = env[y]
      <4>1. effect.ret \in Ints(IntBits)
        BY <2>3 DEF IsEffect
      <4>2. IsEnv(env2) /\ \A y \in DOMAIN env : y # x => env2[y] = env[y]
        BY <2>5, <4>1, UpdateIs
      <4> QED
        BY <4>2, DomainsAre, Zenon
    <3>3. def_of_instr(i) = {x}
      <4>1. ~StoresThrough(i)
        BY <1>10 DEF StoresThrough
      <4> QED
        BY <1>10, <2>8, <4>1, DefIs
    <3> HIDE DEF env2, x
    <3>4. r.env = env2 /\ r.log = log
      BY <3>1, NextIs
    <3> QED
      BY <1>10, <2>4, <2>5, <2>6, <3>1, <3>2, <3>3, <3>4 DEF Goes
  <2> QED
    BY <2>7, <2>8
<1>11. StoresThrough(i) => i.op = "Copy"
  BY DEF StoresThrough
<1> QED
  BY <1>5, <1>6, <1>8, <1>9, <1>10, Zenon

-----------------------------------------------------------------------------
\* A step of a function.

\* Every callee the function may call behaves as one.
Handles(c, inp) ==
  \A li \in Instructions(c) : \A k \in 0 .. MaxEvents :
    IsCall(li.instr) => IsEffect(c, Callee(inp, li.instr.fn, k))

LEMMA CallsCounted ==
  ASSUME NEW m, IsLog(m.log), Len(m.log) <= MaxEvents
  PROVE  CallsSoFar(m) \in 0 .. MaxEvents
<1> DEFINE N == Len(m.log)
           calls == {k \in DOMAIN m.log : m.log[k].kind = "call"}
<1>1. N \in Nat /\ DOMAIN m.log = 1 .. N
  BY DEF IsLog, IsSeq
<1>2. calls \subseteq 1 .. N
  BY <1>1
<1> HIDE DEF N, calls
<1>3. IsFiniteSet(1 .. N) /\ Cardinality(1 .. N) = N
  BY <1>1, FS_Interval
<1>4. IsFiniteSet(calls) /\ Cardinality(calls) <= N
  BY <1>2, <1>3, FS_Subset
<1>5. Cardinality(calls) \in Nat
  BY <1>4, FS_CardinalityType
<1> QED
  BY <1>4, <1>5, BoundsAssumption DEF CallsSoFar, calls, N

Does(c, i, m, r) ==
  \/ /\ ~(UsedVars(i) \subseteq DOMAIN m.env)
     /\ r = State(m.pc[1], m.pc[2], m.env, m.log, "unassigned", m.result)
  \/ /\ UsedVars(i) \subseteq DOMAIN m.env
     /\ \/ /\ i.op = "Binary" /\ i.fn \in {"Div", "Mod"}
           /\ r = State(m.pc[1], m.pc[2], m.env, m.log, "trapped", m.result)
        \/ /\ i.op = "Return" /\ m.pc[1] = c.exit
           /\ r = State(m.pc[1], m.pc[2], m.env, m.log, "returned", Values(m, i.srcs))
        \/ /\ i.op = "BrIf" /\ m.pc[2] + 1 = Len(c.code[m.pc[1]])
           /\ \E s \in c.succs[m.pc[1]] : r = Moved(m, s)
        \/ i.op \in {"Copy", "Unary", "Binary", "FCall"} /\ Goes(c, i, m, r)

\* The instruction a run has come to.
IsNext(c, m, i) ==
  m.pc[2] < Len(c.code[m.pc[1]]) /\ i = c.code[m.pc[1]][m.pc[2] + 1].instr

LEMMA Instruction ==
  ASSUME NEW c, IsFunction(c), NEW inp, Handles(c, inp), NEW m, IsState(c, m),
         Len(m.log) <= MaxEvents, NEW i, IsNext(c, m, i),
         NEW r, r = Execute(c, inp, m, i)
  PROVE  Does(c, i, m, r)
<1> DEFINE b == m.pc[1]
           n == m.pc[2]
<1>1. /\ IsRecord(m) /\ b \in c.blocks /\ n \in 0 .. Len(c.code[b])
      /\ IsEnv(m.env) /\ IsLog(m.log) /\ c.globals \subseteq DOMAIN m.env
  BY StateIs
<1>2. Len(c.code[b]) \in Nat
  BY <1>1, CodeIs
<1>3. n + 1 \in 1 .. Len(c.code[b])
  BY <1>1, <1>2 DEF IsNext
<1> HIDE DEF b, n
<1>4. /\ \E li \in Instructions(c) : li.instr = i
      /\ IsInstruction(i)
      /\ i.op \in {"BrIf", "Return"} => n + 1 = Len(c.code[b])
      /\ i.op = "Return" => b = c.exit
      /\ i.op = "BrIf" => Branches(c, b, i)
  <2> DEFINE k == n + 1
  <2>1. /\ c.code[b][k] \in Instructions(c)
        /\ IsInstruction(c.code[b][k].instr)
        /\ c.code[b][k].instr.op \in {"BrIf", "Return"} => k = Len(c.code[b])
        /\ c.code[b][k].instr.op = "Return" => b = c.exit
        /\ c.code[b][k].instr.op = "BrIf" => Branches(c, b, c.code[b][k].instr)
    <3>1. k \in 1 .. Len(c.code[b])
      BY <1>3
    <3> HIDE DEF k
    <3> QED
      BY <1>1, <3>1, InstrIs
  <2>2. i = c.code[b][k].instr
    BY DEF b, n, IsNext
  <2> QED
    BY <2>1, <2>2, Zenon
<1>5. i.op \in {"Copy", "Unary", "Binary", "FCall", "BrIf", "Return"}
  BY <1>4, ParametersAre
<1>6. CASE ~(UsedVars(i) \subseteq DOMAIN m.env)
  <2>1. r = Stopped(m, "unassigned")
    BY <1>6, UnassignedIs
  <2>2. r = State(m.pc[1], m.pc[2], m.env, m.log, "unassigned", m.result)
    BY <1>1, <2>1, StateSteps, Zenon
  <2> QED
    BY <1>6, <2>2 DEF Does
<1>7. CASE UsedVars(i) \subseteq DOMAIN m.env
  <2>1. CASE i.op \in {"Copy", "Unary", "Binary", "FCall"}
    <3>1. IsSound(c, m)
      BY <1>1 DEF IsSound
    <3>2. i.op = "FCall" => IsEffect(c, Callee(inp, i.fn, CallsSoFar(m)))
      <4>1. CallsSoFar(m) \in 0 .. MaxEvents
        BY <1>1, CallsCounted
      <4>2. i.op = "FCall" => IsCall(i)
        BY DEF IsCall
      <4> QED
        BY <1>4, <4>1, <4>2 DEF Handles
    <3>3. \/ /\ i.op = "Binary" /\ i.fn \in {"Div", "Mod"}
             /\ r = State(m.pc[1], m.pc[2], m.env, m.log, "trapped", m.result)
          \/ Goes(c, i, m, r)
      BY <1>4, <1>7, <2>1, <3>1, <3>2, Effects
    <3> QED
      BY <1>7, <2>1, <3>3, Zenon DEF Does
  <2>2. CASE i.op = "BrIf"
    <3> DEFINE s == Taken(c, m.pc[1], i, Eval(m, i.srcs[1]))
    <3>1. r = State(s, 0, m.env, m.log, m.status, m.result)
      BY <1>1, <1>7, <2>2, BranchIs
    <3>2. s \in c.succs[m.pc[1]]
      BY <1>4, <2>2, TakenIs DEF b
    <3> HIDE DEF s
    <3>3. r = Moved(m, s)
      BY <3>1, Zenon DEF Moved
    <3>4. m.pc[2] + 1 = Len(c.code[m.pc[1]])
      BY <1>4, <2>2 DEF b, n
    <3> QED
      BY <1>7, <2>2, <3>2, <3>3, <3>4, Zenon DEF Does
  <2>3. CASE i.op = "Return"
    <3>2. r = State(m.pc[1], m.pc[2], m.env, m.log, "returned", Values(m, i.srcs))
      <4>1. Execute(c, inp, m, i) = State(m.pc[1], m.pc[2], m.env, m.log, "returned", Values(m, i.srcs))
        BY <1>1, <1>7, <2>3, ReturnIs, Zenon
      <4> QED
        BY <4>1
    <3>3. m.pc[1] = c.exit
      BY <1>4, <2>3 DEF b
    <3> QED
      BY <1>7, <2>3, <3>2, <3>3, Zenon DEF Does
  <2> QED
    BY <1>5, <2>1, <2>2, <2>3
<1> QED
  BY <1>6, <1>7

\* A step of a run that goes on.
StepsTo(c, inp, m, r) ==
  \/ m.pc[2] = Len(c.code[m.pc[1]]) /\ \E s \in c.succs[m.pc[1]] : r = Moved(m, s)
  \/ \E i : IsNext(c, m, i) /\ r = Execute(c, inp, m, i) /\ Does(c, i, m, r)

LEMMA StepSteps ==
  ASSUME NEW c, IsFunction(c), NEW inp, Handles(c, inp), NEW m, IsState(c, m),
         m.status = "running", Len(m.log) <= MaxEvents, NEW r, r = Step(c, inp, m)
  PROVE  StepsTo(c, inp, m, r)
<1> DEFINE b == m.pc[1]
           n == m.pc[2]
<1>1. /\ IsRecord(m) /\ b \in c.blocks /\ n \in 0 .. Len(c.code[b])
      /\ IsEnv(m.env) /\ IsLog(m.log) /\ c.globals \subseteq DOMAIN m.env
  BY StateIs
<1>2. Len(c.code[b]) \in Nat
  BY <1>1, CodeIs
<1>3. CASE n < Len(c.code[b])
  <2>1. PICK i : i = c.code[b][n + 1].instr
    OBVIOUS
  <2>2. IsNext(c, m, i)
    BY <1>3, <2>1 DEF IsNext
  <2>3. r = Execute(c, inp, m, c.code[b][n + 1].instr)
    BY <1>3, StepIs
  <2> HIDE DEF b, n
  <2>4. r = Execute(c, inp, m, i)
    BY <2>1, <2>3
  <2>5. Does(c, i, m, r)
    BY <2>2, <2>4, Instruction
  <2> QED
    BY <2>2, <2>4, <2>5 DEF StepsTo
<1>4. CASE ~(n < Len(c.code[b]))
  <2>1. n = Len(c.code[b])
    BY <1>1, <1>2, <1>4
  <2>2. c.succs[b] # {}
    BY <1>4 DEF IsState, HasNext
  <2>3. PICK s \in c.succs[b] : Onwards(c, b) = <<s, 0>>
    BY <2>2, OnwardsIs
  <2>4. r = [m EXCEPT !.pc = Onwards(c, m.pc[1])]
    BY <1>4, StepIs
  <2>5. r = [m EXCEPT !.pc = <<s, 0>>]
    BY <2>3, <2>4
  <2>6. [m EXCEPT !.pc = <<s, 0>>] = State(s, 0, m.env, m.log, m.status, m.result)
    BY <1>1, StateSteps
  <2>7. r = Moved(m, s)
    BY <2>5, <2>6, Zenon DEF Moved
  <2> QED
    BY <2>1, <2>3, <2>7 DEF StepsTo
<1> QED
  BY <1>3, <1>4

LEMMA IsStateIs ==
  ASSUME NEW c, IsFunction(c), NEW m, IsRecord(m), m.pc[1] \in c.blocks,
         m.pc[2] \in 0 .. Len(c.code[m.pc[1]]), IsEnv(m.env), IsLog(m.log),
         c.globals \subseteq DOMAIN m.env,
         m.status \in {"running", "returned", "trapped", "unassigned"},
         m.status = "running" /\ m.pc[2] = Len(c.code[m.pc[1]]) => c.succs[m.pc[1]] # {}
  PROVE  IsState(c, m)
<1>1. m.pc = <<m.pc[1], m.pc[2]>>
  BY DEF IsRecord, State
<1>2. m.pc \in Points(c)
  BY <1>1, PointsAre
<1>3. m = [pc |-> m.pc, env |-> m.env, log |-> m.log, status |-> m.status, result |-> m.result]
  BY DEF IsRecord, State
<1>4. Len(c.code[m.pc[1]]) \in Nat
  BY CodeIs
<1>5. HasNext(c, m.pc) \/ m.pc[2] = Len(c.code[m.pc[1]])
  BY <1>4 DEF HasNext
<1>6. m.status = "running" => HasNext(c, m.pc) \/ c.succs[m.pc[1]] # {}
  BY <1>5
<1> QED
  BY <1>2, <1>3, <1>6 DEF IsState

LEMMA MovedTyped ==
  ASSUME NEW c, IsFunction(c), NEW m, IsState(c, m), NEW s \in c.succs[m.pc[1]]
  PROVE  IsState(c, Moved(m, s))
<1>1. /\ m.pc[1] \in c.blocks /\ IsEnv(m.env) /\ IsLog(m.log) /\ c.globals \subseteq DOMAIN m.env
  BY StateIs
<1>2. s \in c.blocks
  BY <1>1, CodeIs
<1>3. Len(c.code[s]) \in Nat /\ (c.succs[s] = {} => Len(c.code[s]) > 0)
  BY <1>2, CodeIs
<1>4. m.status \in {"running", "returned", "trapped", "unassigned"}
  BY DEF IsState
<1> DEFINE r == Moved(m, s)
<1>5. /\ IsRecord(r) /\ r.pc[1] = s /\ r.pc[2] = 0 /\ r.env = m.env /\ r.log = m.log
      /\ r.status = m.status
  BY FieldsAre DEF Moved
<1> HIDE DEF r
<1>6. r.pc[2] \in 0 .. Len(c.code[r.pc[1]])
  BY <1>3, <1>5
<1>7. r.status = "running" /\ r.pc[2] = Len(c.code[r.pc[1]]) => c.succs[r.pc[1]] # {}
  BY <1>3, <1>5
<1>8. IsState(c, r)
  BY <1>1, <1>2, <1>4, <1>5, <1>6, <1>7, IsStateIs
<1> QED
  BY <1>8 DEF r

LEMMA StoppedTyped ==
  ASSUME NEW c, IsFunction(c), NEW m, IsState(c, m), NEW status, NEW result,
         status \in {"returned", "trapped", "unassigned"}
  PROVE  IsState(c, State(m.pc[1], m.pc[2], m.env, m.log, status, result))
<1>1. /\ m.pc[1] \in c.blocks /\ IsEnv(m.env) /\ IsLog(m.log) /\ c.globals \subseteq DOMAIN m.env
      /\ m.pc[2] \in 0 .. Len(c.code[m.pc[1]])
  BY StateIs
<1> DEFINE r == State(m.pc[1], m.pc[2], m.env, m.log, status, result)
<1>2. /\ IsRecord(r) /\ r.pc[1] = m.pc[1] /\ r.pc[2] = m.pc[2] /\ r.env = m.env /\ r.log = m.log
      /\ r.status = status
  BY FieldsAre
<1> HIDE DEF r
<1>3. IsState(c, r)
  BY <1>1, <1>2, IsStateIs
<1> QED
  BY <1>3 DEF r

LEMMA GoesIs ==
  ASSUME NEW c, NEW m, NEW i, NEW r, Goes(c, i, m, r)
  PROVE  /\ IsRecord(r) /\ r.pc[1] = m.pc[1] /\ r.pc[2] = m.pc[2] + 1
         /\ r.status = m.status /\ r.result = m.result
         /\ IsEnv(r.env) /\ IsLog(r.log)
         /\ DOMAIN r.env = DOMAIN m.env \cup def_of_instr(i)
         /\ \A x \in DOMAIN m.env : x \notin Writes(c, i) => r.env[x] = m.env[x]
         /\ i.op # "FCall" /\ ~StoresThrough(i) => r.log = m.log
<1>1. PICK env, log : env = r.env /\ log = r.log
  OBVIOUS
<1>2. r = Next1(m, env, log)
  BY <1>1 DEF Goes
<1>3. /\ IsRecord(r) /\ r.pc[1] = m.pc[1] /\ r.pc[2] = m.pc[2] + 1
      /\ r.status = m.status /\ r.result = m.result
  BY <1>2, NextIs
<1>4. /\ IsEnv(r.env) /\ IsLog(r.log)
      /\ DOMAIN r.env = DOMAIN m.env \cup def_of_instr(i)
      /\ \A x \in DOMAIN m.env : x \notin Writes(c, i) => r.env[x] = m.env[x]
      /\ i.op # "FCall" /\ ~StoresThrough(i) => r.log = m.log
  BY DEF Goes
<1> QED
  BY <1>3, <1>4

LEMMA GoneTyped ==
  ASSUME NEW c, IsFunction(c), NEW m, IsState(c, m), NEW i, IsNext(c, m, i),
         i.op \in {"Copy", "Unary", "Binary", "FCall"}, NEW r, Goes(c, i, m, r)
  PROVE  IsState(c, r)
<1> DEFINE b == m.pc[1]
           n == m.pc[2]
<1>1. /\ b \in c.blocks /\ n \in 0 .. Len(c.code[b]) /\ c.globals \subseteq DOMAIN m.env
  BY StateIs
<1>2. /\ Len(c.code[b]) \in Nat
      /\ c.succs[b] = {} => c.code[b][Len(c.code[b])].instr.op = "Return"
  BY <1>1, CodeIs
<1>3. n < Len(c.code[b]) /\ i = c.code[b][n + 1].instr
  BY DEF IsNext
<1>4. m.status \in {"running", "returned", "trapped", "unassigned"}
  BY DEF IsState
<1>5. IsEnv(r.env) /\ IsLog(r.log) /\ DOMAIN r.env = DOMAIN m.env \cup def_of_instr(i)
  BY GoesIs
<1>6. IsRecord(r) /\ r.pc[1] = b /\ r.pc[2] = n + 1 /\ r.status = m.status
  BY GoesIs
<1> HIDE DEF b, n
<1>7. r.pc[2] \in 0 .. Len(c.code[r.pc[1]])
  BY <1>1, <1>2, <1>3, <1>6
<1>8. r.pc[2] = Len(c.code[r.pc[1]]) => c.succs[r.pc[1]] # {}
  BY <1>2, <1>3, <1>6
<1>9. c.globals \subseteq DOMAIN r.env
  BY <1>1, <1>5
<1> QED
  BY <1>1, <1>4, <1>5, <1>6, <1>7, <1>8, <1>9, IsStateIs

\* A step from a state of the function leads to one.
LEMMA StepTyped ==
  ASSUME NEW c, IsFunction(c), NEW inp, NEW m, IsState(c, m), NEW r, StepsTo(c, inp, m, r)
  PROVE  IsState(c, r)
<1>1. CASE \E s \in c.succs[m.pc[1]] : r = Moved(m, s)
  BY <1>1, MovedTyped
<1>2. ASSUME NEW i, IsNext(c, m, i), Does(c, i, m, r)
      PROVE  IsState(c, r)
  <2>1. CASE \E s \in c.succs[m.pc[1]] : r = Moved(m, s)
    BY <2>1, MovedTyped
  <2>2. CASE i.op \in {"Copy", "Unary", "Binary", "FCall"} /\ Goes(c, i, m, r)
    BY <1>2, <2>2, GoneTyped
  <2>3. CASE \E status \in {"returned", "trapped", "unassigned"} : \E result :
               r = State(m.pc[1], m.pc[2], m.env, m.log, status, result)
    BY <2>3, StoppedTyped
  <2> QED
    BY <1>2, <2>1, <2>2, <2>3 DEF Does
<1> QED
  BY <1>1, <1>2 DEF StepsTo

-----------------------------------------------------------------------------
\* Instructions that do the same.

LEMMA UsedWithin ==
  ASSUME NEW i, IsShaped(i), NEW D,
         \A k \in 1 .. Len(i.srcs) : i.srcs[k].kind # "Imm" => i.srcs[k].name \in D,
         StoresThrough(i) => i.dst[1].name \in D
  PROVE  UsedVars(i) \subseteq D
<1> DEFINE all == Operands(i)
<1>1. AreOperands(all)
  BY ShapedOperands
<1>2. \A k \in 1 .. Len(all) : all[k].kind # "Imm" => all[k].name \in D
  <2>1. CASE StoresThrough(i)
    <3> DEFINE v == i.srcs[1]
               w == i.dst[1]
    <3>1. all = <<v, w>>
      BY <2>1, ShapedOperands
    <3>2. i.srcs = <<v>>
      BY <2>1, ShapedParameters DEF StoresThrough
    <3>3. v.kind # "Imm" => v.name \in D
      <4>1. Len(i.srcs) = 1
        BY <2>1, ShapedParameters DEF StoresThrough
      <4> QED
        BY <4>1
    <3>4. w.name \in D
      BY <2>1
    <3> HIDE DEF v, w
    <3> QED
      BY <3>1, <3>3, <3>4
  <2>2. CASE ~StoresThrough(i)
    BY <2>2, ShapedOperands
  <2> QED
    BY <2>1, <2>2
<1>3. Range(all) = {all[k] : k \in 1 .. Len(all)}
  <2>1. DOMAIN all = 1 .. Len(all)
    BY <1>1 DEF AreOperands, IsSeq
  <2> QED
    BY <2>1 DEF Range
<1> HIDE DEF all
<1> QED
  BY <1>2, <1>3 DEF UsedVars, all

\* In state m, instruction j can be executed in the place of i.
Alike(c, inp, m, i, j) ==
  UsedVars(j) \subseteq DOMAIN m.env /\ Execute(c, inp, m, j) = Execute(c, inp, m, i)

LEMMA AssignAlike ==
  ASSUME NEW m, NEW dst, NEW dst2, NEW v,
         \/ dst2 = dst
         \/ /\ dst.kind # "Var" /\ dst2.kind # "Var" /\ dst.t = dst2.t
            /\ Address(m, dst) = Address(m, dst2)
  PROVE  Assign(m, dst2, v) = Assign(m, dst, v)
BY DEF Assign

LEMMA CopyAlike ==
  ASSUME NEW c, NEW inp, NEW m, NEW i, i.op = "Copy", NEW j, j.op = "Copy",
         UsedVars(i) \subseteq DOMAIN m.env, UsedVars(j) \subseteq DOMAIN m.env,
         Eval(m, j.srcs[1]) = Eval(m, i.srcs[1]),
         \/ j.dst[1] = i.dst[1]
         \/ /\ i.dst[1].kind # "Var" /\ j.dst[1].kind # "Var" /\ i.dst[1].t = j.dst[1].t
            /\ Address(m, i.dst[1]) = Address(m, j.dst[1])
  PROVE  Alike(c, inp, m, i, j)
<1>1. Execute(c, inp, m, i) = Assign(m, i.dst[1], Eval(m, i.srcs[1]))
  BY OperationIs
<1>2. Execute(c, inp, m, j) = Assign(m, j.dst[1], Eval(m, j.srcs[1]))
  BY OperationIs
<1>3. Assign(m, j.dst[1], Eval(m, i.srcs[1])) = Assign(m, i.dst[1], Eval(m, i.srcs[1]))
  BY AssignAlike
<1> QED
  BY <1>1, <1>2, <1>3 DEF Alike

\* Giving a variable the value it has changes nothing.
LEMMA SelfUpdate ==
  ASSUME NEW f, IsEnv(f), NEW x \in DOMAIN f
  PROVE  Update(f, x, f[x]) = f
BY DEF Update, IsEnv

LEMMA SelfAlike ==
  ASSUME NEW c, NEW inp, NEW m, IsRecord(m), IsEnv(m.env), NEW i, NEW j, NEW x, NEW y,
         i = Copy(Var(x), Var(x)), j = Copy(Var(y), Var(y)),
         x \in DOMAIN m.env, y \in DOMAIN m.env, UsedVars(j) \subseteq DOMAIN m.env,
         UsedVars(i) \subseteq DOMAIN m.env
  PROVE  Alike(c, inp, m, i, j)
<1>1. ASSUME NEW k, NEW z \in DOMAIN m.env, k = Copy(Var(z), Var(z)), UsedVars(k) \subseteq DOMAIN m.env
      PROVE  Execute(c, inp, m, k) = Next1(m, m.env, m.log)
  <2>1. /\ k.op = "Copy" /\ k.dst[1].kind = "Var" /\ k.dst[1].name = z
        /\ k.srcs[1].kind = "Var" /\ k.srcs[1].name = z
    BY <1>1 DEF Copy, Var
  <2>2. Execute(c, inp, m, k) = Assign(m, k.dst[1], Eval(m, k.srcs[1]))
    BY <1>1, <2>1, OperationIs
  <2>3. Eval(m, k.srcs[1]) = m.env[z]
    BY <2>1, EvalIs
  <2>4. Assign(m, k.dst[1], m.env[z]) = Next1(m, Update(m.env, z, m.env[z]), m.log)
    BY <2>1, Assigned
  <2>5. Update(m.env, z, m.env[z]) = m.env
    BY SelfUpdate
  <2> QED
    BY <2>2, <2>3, <2>4, <2>5
<1> QED
  BY <1>1 DEF Alike

\* The same values, read from elsewhere.
LEMMA ValuesAlike ==
  ASSUME NEW m, NEW vals, AreOperands(vals), NEW vals2, AreOperands(vals2), Len(vals2) = Len(vals),
         \A k \in 1 .. Len(vals) : Eval(m, vals2[k]) = Eval(m, vals[k])
  PROVE  Values(m, vals2) = Values(m, vals)
<1>1. DOMAIN vals = 1 .. Len(vals) /\ DOMAIN vals2 = 1 .. Len(vals)
  BY DEF AreOperands, IsSeq
<1> QED
  BY <1>1, Zenon DEF Values

\* An instruction but for its sources.
SameButReads(i, j) ==
  /\ j.op = i.op /\ j.dst = i.dst
  /\ i.op \in {"Unary", "Binary", "FCall"} => j.fn = i.fn
  /\ i.op = "BrIf" => j.target = i.target

\* A call, but for what is logged of it.
CallOf(m, fn, dst, event, effect) ==
  LET logged == [m EXCEPT !.log = Append(m.log, event) \o effect.stores]
      after  == [logged EXCEPT !.env = Override(logged.env, effect.globals)]
  IN  IF dst = <<>> THEN Advance(after) ELSE Assign(after, dst[1], effect.ret)

LEMMA CallAlike ==
  ASSUME NEW c, NEW inp, NEW m, NEW i, NEW j, j.fn = i.fn, j.dst = i.dst,
         Values(m, j.srcs) = Values(m, i.srcs)
  PROVE  Call(c, inp, m, j) = Call(c, inp, m, i)
<1>1. ASSUME NEW k
      PROVE  Call(c, inp, m, k) =
               CallOf(m, k.fn, k.dst, CalledEvent(c, m, k), Callee(inp, k.fn, CallsSoFar(m)))
  BY DEF Call, CallOf, CalledEvent
<1>2. CalledEvent(c, m, j) = CalledEvent(c, m, i)
  BY Zenon DEF CalledEvent, Values
<1>3. /\ Call(c, inp, m, i) =
           CallOf(m, i.fn, i.dst, CalledEvent(c, m, i), Callee(inp, i.fn, CallsSoFar(m)))
      /\ Call(c, inp, m, j) =
           CallOf(m, j.fn, j.dst, CalledEvent(c, m, j), Callee(inp, j.fn, CallsSoFar(m)))
  BY <1>1, Zenon
<1> QED
  BY <1>2, <1>3, Zenon

TakenTo(c, b, goal, v) == IF v # 0 THEN goal ELSE CHOOSE s \in c.succs[b] \ {goal} : TRUE

LEMMA ReadsAlike ==
  ASSUME NEW c, NEW inp, NEW m, IsRecord(m), NEW i, IsShaped(i), NEW j, IsShaped(j), SameButReads(i, j),
         i.op # "Copy", Len(j.srcs) = Len(i.srcs),
         UsedVars(i) \subseteq DOMAIN m.env, UsedVars(j) \subseteq DOMAIN m.env,
         \A k \in 1 .. Len(i.srcs) : Eval(m, j.srcs[k]) = Eval(m, i.srcs[k])
  PROVE  Alike(c, inp, m, i, j)
<1>1. Values(m, j.srcs) = Values(m, i.srcs)
  BY ValuesAlike, ShapedParameters
<1>2. /\ i.op \in {"Unary", "BrIf"} => Len(i.srcs) = 1
      /\ i.op = "Binary" => Len(i.srcs) = 2
  BY ShapedParameters
<1>3. i.op \in {"Unary", "BrIf", "Binary"} => Eval(m, j.srcs[1]) = Eval(m, i.srcs[1])
  <2>1. 1 \in 1 .. 1 /\ 1 \in 1 .. 2
    OBVIOUS
  <2> QED
    BY <1>2, <2>1
<1>4. i.op = "Binary" => Eval(m, j.srcs[2]) = Eval(m, i.srcs[2])
  <2>1. 2 \in 1 .. 2
    OBVIOUS
  <2> QED
    BY <1>2, <2>1
<1>5. /\ j.op = i.op /\ j.dst = i.dst
      /\ i.op \in {"Unary", "Binary", "FCall"} => j.fn = i.fn
      /\ i.op = "BrIf" => j.target = i.target
  BY DEF SameButReads
<1>6. CASE i.op = "Unary"
  <2>1. Execute(c, inp, m, i) = Compute(m, i.dst[1], RunUnary(i.fn, Eval(m, i.srcs[1])))
    BY <1>6, OperationIs
  <2>2. Execute(c, inp, m, j) = Compute(m, j.dst[1], RunUnary(j.fn, Eval(m, j.srcs[1])))
    BY <1>5, <1>6, OperationIs
  <2> QED
    BY <1>3, <1>5, <1>6, <2>1, <2>2 DEF Alike
<1>7. CASE i.op = "Binary"
  <2>1. Execute(c, inp, m, i) =
          Compute(m, i.dst[1], RunBinary(IntBits, i.fn, Eval(m, i.srcs[1]), Eval(m, i.srcs[2])))
    BY <1>7, OperationIs
  <2>2. Execute(c, inp, m, j) =
          Compute(m, j.dst[1], RunBinary(IntBits, j.fn, Eval(m, j.srcs[1]), Eval(m, j.srcs[2])))
    BY <1>5, <1>7, OperationIs
  <2> QED
    BY <1>3, <1>4, <1>5, <1>7, <2>1, <2>2 DEF Alike
<1>8. CASE i.op = "FCall"
  <2>1. Execute(c, inp, m, i) = Call(c, inp, m, i) /\ Execute(c, inp, m, j) = Call(c, inp, m, j)
    BY <1>5, <1>8, OperationIs
  <2>2. Call(c, inp, m, j) = Call(c, inp, m, i)
    BY <1>1, <1>5, <1>8, CallAlike
  <2> QED
    BY <2>1, <2>2 DEF Alike
<1>9. CASE i.op = "BrIf"
  <2>1. Execute(c, inp, m, i) =
          State(Taken(c, m.pc[1], i, Eval(m, i.srcs[1])), 0, m.env, m.log, m.status, m.result)
    BY <1>9, BranchIs
  <2>2. Execute(c, inp, m, j) =
          State(Taken(c, m.pc[1], j, Eval(m, j.srcs[1])), 0, m.env, m.log, m.status, m.result)
    BY <1>5, <1>9, BranchIs
  <2>3. \A b, v : Taken(c, b, j, v) = Taken(c, b, i, v)
    <3>1. j.target = i.target
      BY <1>5, <1>9
    <3>2. \A b, v, k : Taken(c, b, k, v) = TakenTo(c, b, k.target, v)
      BY Zenon DEF Taken, TakenTo
    <3> QED
      BY <3>1, <3>2, Zenon
  <2> QED
    BY <1>3, <1>9, <2>1, <2>2, <2>3 DEF Alike
<1>10. CASE i.op = "Return"
  <2>1. Execute(c, inp, m, i) = State(m.pc[1], m.pc[2], m.env, m.log, "returned", Values(m, i.srcs))
    BY <1>10, ReturnIs
  <2>2. Execute(c, inp, m, j) = State(m.pc[1], m.pc[2], m.env, m.log, "returned", Values(m, j.srcs))
    BY <1>5, <1>10, ReturnIs
  <2> QED
    BY <1>1, <2>1, <2>2 DEF Alike
<1>11. i.op \in {"Unary", "Binary", "FCall", "BrIf", "Return"}
  BY ShapedParameters
<1> QED
  BY <1>6, <1>7, <1>8, <1>9, <1>10, <1>11

-----------------------------------------------------------------------------
\* Rewriting instructions.

\* In state m, val is what x is.
Stands(m, x, val) ==
  /\ x \in DOMAIN m.env
  /\ \/ val.kind = "Imm" /\ val = Imm(val.int, val.t) /\ val.int \in Ints(IntBits)
     \/ val.kind = "Var" /\ val = Var(val.name) /\ val.name \in DOMAIN m.env
  /\ Eval(m, val) = m.env[x]

\* All variables of an operand have a value.
Assigns(m, v) == v.kind # "Imm" => v.name \in DOMAIN m.env

LEMMA SubstIs ==
  ASSUME NEW m, NEW x, NEW val, Stands(m, x, val), NEW v, IsOperand(v), Assigns(m, v),
         NEW w, w = SubstVal(v, x, val)
  PROVE  /\ IsOperand(w) /\ Assigns(m, w) /\ Eval(m, w) = Eval(m, v)
         /\ v.kind = "Mem" => w.kind = "Mem" /\ Address(m, w) = Address(m, v) /\ w.t = v.t
         /\ v.kind = "Imm" => w = v
         /\ v.kind = "Var" => IF v.name = x THEN w = val ELSE w = v
<1>1. CASE v.kind = "Imm"
  <2>1. w = v
    BY <1>1, Zenon DEF SubstVal
  <2> QED
    BY <1>1, <2>1
<1>2. CASE v.kind = "Var"
  <2>1. v.name = x => w = val
    BY <1>2, Zenon DEF SubstVal
  <2>2. v.name # x => w = v
    BY <1>2, Zenon DEF SubstVal
  <2>3. IsOperand(val) /\ Assigns(m, val)
    BY DEF Stands, IsOperand, Assigns
  <2>4. Eval(m, v) = m.env[v.name]
    BY <1>2, EvalIs
  <2> QED
    BY <1>2, <2>1, <2>2, <2>3, <2>4 DEF Stands
<1>3. CASE v.kind = "Mem"
  <2>1. v = Mem(v.name, v.offset, v.t) /\ v.offset \in Int
    BY <1>3 DEF IsOperand
  <2>2. val.kind \in {"Imm", "Var"}
    BY DEF Stands
  <2>3. CASE v.name = x /\ val.kind = "Var"
    <3>1. w = [v EXCEPT !.name = val.name]
      BY <1>3, <2>3, Zenon DEF SubstVal
    <3>2. w = Mem(val.name, v.offset, v.t)
      <4> DEFINE a == v.name
                 o == v.offset
                 t == v.t
      <4>1. v = Mem(a, o, t)
        BY <2>1
      <4> HIDE DEF a, o, t
      <4>2. w = Mem(val.name, o, t)
        BY <3>1, <4>1 DEF Mem
      <4> QED
        BY <4>2 DEF o, t
    <3>3. w.kind = "Mem" /\ w.name = val.name /\ w.offset = v.offset /\ w.t = v.t
      BY <3>2 DEF Mem
    <3>4. w = Mem(w.name, w.offset, w.t)
      BY <3>2, <3>3
    <3>5. IsOperand(w)
      BY <2>1, <3>3, <3>4 DEF IsOperand
    <3>6. Eval(m, val) = m.env[val.name] /\ val.name \in DOMAIN m.env
      BY <2>3, EvalIs DEF Stands
    <3>7. m.env[w.name] = m.env[v.name]
      BY <2>3, <3>3, <3>6 DEF Stands
    <3>8. Address(m, w) = Address(m, v)
      BY <3>3, <3>7 DEF Address
    <3>9. Eval(m, w) = Eval(m, v)
      BY <1>3, <3>3, <3>7, EvalIs
    <3> QED
      BY <1>3, <3>3, <3>5, <3>6, <3>8, <3>9 DEF Assigns
  <2>4. CASE ~(v.name = x /\ val.kind = "Var")
    <3>1. w = v
      BY <1>3, <2>2, <2>4, Zenon DEF SubstVal
    <3> QED
      BY <1>3, <3>1
  <2> QED
    BY <2>3, <2>4
<1> QED
  BY <1>1, <1>2, <1>3 DEF IsOperand

LEMMA SubstEachIs ==
  ASSUME NEW m, NEW x, NEW val, Stands(m, x, val), NEW vals, AreOperands(vals),
         \A k \in 1 .. Len(vals) : Assigns(m, vals[k]), NEW new, new = SubstEach(vals, x, val)
  PROVE  /\ AreOperands(new) /\ Len(new) = Len(vals)
         /\ \A k \in 1 .. Len(vals) : Assigns(m, new[k]) /\ Eval(m, new[k]) = Eval(m, vals[k])
<1>1. Len(vals) \in Nat /\ DOMAIN vals = 1 .. Len(vals)
  BY DEF AreOperands, IsSeq
<1>2. new = [k \in 1 .. Len(vals) |-> SubstVal(vals[k], x, val)]
  BY <1>1 DEF SubstEach
<1>3. \A k \in 1 .. Len(vals) : /\ IsOperand(new[k]) /\ Assigns(m, new[k])
                                /\ Eval(m, new[k]) = Eval(m, vals[k])
  <2> TAKE k \in 1 .. Len(vals)
  <2>1. new[k] = SubstVal(vals[k], x, val)
    BY <1>2
  <2>2. IsOperand(vals[k]) /\ Assigns(m, vals[k])
    BY DEF AreOperands
  <2> QED
    BY <2>1, <2>2, SubstIs
<1>4. Len(new) = Len(vals) /\ IsSeq(new)
  <2> DEFINE S == {SubstVal(vals[k], x, val) : k \in 1 .. Len(vals)}
  <2>1. new \in Seq(S)
    BY <1>1, <1>2
  <2>2. Len(new) = Len(vals)
    BY <1>1, <1>2
  <2> HIDE DEF S
  <2> QED
    BY <2>1, <2>2, SeqIs
<1> QED
  BY <1>3, <1>4 DEF AreOperands

LEMMA SubstOne ==
  ASSUME NEW v, NEW x, NEW val
  PROVE  SubstEach(<<v>>, x, val) = <<SubstVal(v, x, val)>>
BY DEF SubstEach

\* What rewrite_instr makes of an instruction.
LEMMA RewrittenIs ==
  ASSUME NEW i, IsShaped(i), NEW x, NEW val, NEW j, j = rewrite_instr(i, x, val)
  PROVE  /\ i.op = "Copy" => j = Copy(SubstVal(i.dst[1], x, val), SubstVal(i.srcs[1], x, val))
         /\ i.op = "Unary" => j = Unary(i.dst[1], i.fn, SubstVal(i.srcs[1], x, val), i.t)
         /\ i.op = "Binary" => j = Binary(i.dst[1], i.fn, SubstVal(i.srcs[1], x, val),
                                          SubstVal(i.srcs[2], x, val), i.t)
         /\ i.op = "FCall" => j = FCall(i.dst, i.fn, SubstEach(i.srcs, x, val))
         /\ i.op = "BrIf" => j = BrIf(SubstVal(i.srcs[1], x, val), i.target)
         /\ i.op = "Return" => j = Return(SubstEach(i.srcs, x, val))
<1>1. CASE i.op = "Copy"
  <2> DEFINE d == i.dst[1]
             s == i.srcs[1]
             reads == [i EXCEPT !.srcs = SubstEach(i.srcs, x, val)]
  <2>1. i = Copy(d, s)
    BY <1>1 DEF IsShaped, IsCopied, IsUnaried, IsBinaried, IsFCall, IsBrIf, IsReturn
  <2> HIDE DEF d, s
  <2>2. i.srcs = <<s>> /\ i.dst = <<d>>
    BY <2>1 DEF Copy
  <2>3. j = [reads EXCEPT !.dst = SubstEach(i.dst, x, val)]
    BY <1>1, Zenon DEF rewrite_instr
  <2>4. SubstEach(i.srcs, x, val) = <<SubstVal(s, x, val)>> /\ SubstEach(i.dst, x, val) = <<SubstVal(d, x, val)>>
    BY <2>2, SubstOne
  <2>5. reads = [op |-> "Copy", dst |-> <<d>>, srcs |-> <<SubstVal(s, x, val)>>]
    BY <2>1, <2>4 DEF Copy
  <2> HIDE DEF reads
  <2>6. j = [op |-> "Copy", dst |-> <<SubstVal(d, x, val)>>, srcs |-> <<SubstVal(s, x, val)>>]
    BY <2>3, <2>4, <2>5
  <2> QED
    BY <1>1, <2>6 DEF Copy, d, s
<1>2. CASE i.op # "Copy"
  <2>1. j = [i EXCEPT !.srcs = SubstEach(i.srcs, x, val)]
    BY <1>2, Zenon DEF rewrite_instr
  <2>2. CASE i.op = "Unary"
    <3> DEFINE d == i.dst[1]
               s == i.srcs[1]
               fn == i.fn
               t == i.t
    <3>1. i = Unary(d, fn, s, t)
      BY <2>2 DEF IsShaped, IsCopied, IsUnaried, IsBinaried, IsFCall, IsBrIf, IsReturn
    <3> HIDE DEF d, s, fn, t
    <3>2. i.srcs = <<s>>
      BY <3>1 DEF Unary
    <3>3. SubstEach(i.srcs, x, val) = <<SubstVal(s, x, val)>>
      BY <3>2, SubstOne
    <3>4. j = Unary(d, fn, SubstVal(s, x, val), t)
      BY <2>1, <3>1, <3>3 DEF Unary
    <3> QED
      BY <2>2, <3>4 DEF d, s, fn, t
  <2>3. CASE i.op = "Binary"
    <3> DEFINE d == i.dst[1]
               s1 == i.srcs[1]
               s2 == i.srcs[2]
               fn == i.fn
               t == i.t
    <3>1. i = Binary(d, fn, s1, s2, t)
      BY <2>3 DEF IsShaped, IsCopied, IsUnaried, IsBinaried, IsFCall, IsBrIf, IsReturn
    <3> HIDE DEF d, s1, s2, fn, t
    <3>2. i.srcs = <<s1, s2>>
      BY <3>1 DEF Binary
    <3>3. SubstEach(i.srcs, x, val) = <<SubstVal(s1, x, val), SubstVal(s2, x, val)>>
      BY <3>2 DEF SubstEach
    <3>4. j = Binary(d, fn, SubstVal(s1, x, val), SubstVal(s2, x, val), t)
      BY <2>1, <3>1, <3>3 DEF Binary
    <3> QED
      BY <2>3, <3>4 DEF d, s1, s2, fn, t
  <2>4. CASE i.op = "FCall"
    <3> DEFINE d == i.dst
               s == i.srcs
               fn == i.fn
    <3>1. i = FCall(d, fn, s)
      BY <2>4 DEF IsShaped, IsCopied, IsUnaried, IsBinaried, IsFCall, IsBrIf, IsReturn
    <3> HIDE DEF d, s, fn
    <3>2. j = FCall(d, fn, SubstEach(s, x, val))
      <4>1. i.srcs = s
        BY <3>1 DEF FCall
      <4> QED
        BY <2>1, <3>1, <4>1 DEF FCall
    <3> QED
      BY <2>4, <3>2 DEF d, s, fn
  <2>5. CASE i.op = "BrIf"
    <3> DEFINE s == i.srcs[1]
               goal == i.target
    <3>1. i = BrIf(s, goal)
      BY <2>5 DEF IsShaped, IsCopied, IsUnaried, IsBinaried, IsFCall, IsBrIf, IsReturn
    <3> HIDE DEF s, goal
    <3>2. i.srcs = <<s>>
      BY <3>1 DEF BrIf
    <3>3. SubstEach(i.srcs, x, val) = <<SubstVal(s, x, val)>>
      BY <3>2, SubstOne
    <3>4. j = BrIf(SubstVal(s, x, val), goal)
      BY <2>1, <3>1, <3>3 DEF BrIf
    <3> QED
      BY <2>5, <3>4 DEF s, goal
  <2>6. CASE i.op = "Return"
    <3> DEFINE s == i.srcs
    <3>1. i = Return(s)
      BY <2>6 DEF IsShaped, IsCopied, IsUnaried, IsBinaried, IsFCall, IsBrIf, IsReturn
    <3> HIDE DEF s
    <3>2. j = Return(SubstEach(s, x, val))
      <4>1. i.srcs = s
        BY <3>1 DEF Return
      <4> QED
        BY <2>1, <3>1, <4>1 DEF Return
    <3> QED
      BY <2>6, <3>2 DEF s
  <2> QED
    BY <1>2, <2>2, <2>3, <2>4, <2>5, <2>6, ShapedParameters
<1> QED
  BY <1>1, <1>2

\* Sources with variables or immediates in the place of variables of the same value
\* read the same; the destination of a copy apart.
LEMMA ReadsRewritten ==
  ASSUME NEW c, NEW inp, NEW m, IsRecord(m), NEW i, IsShaped(i), i.op # "Copy",
         UsedVars(i) \subseteq DOMAIN m.env,
         NEW x, NEW val, Stands(m, x, val), NEW j, j = rewrite_instr(i, x, val)
  PROVE  IsShaped(j) /\ j.op # "Copy" /\ Alike(c, inp, m, i, j)
<1> DEFINE new == SubstEach(i.srcs, x, val)
<1>1. AreOperands(i.srcs) /\ \A k \in 1 .. Len(i.srcs) : Assigns(m, i.srcs[k])
  BY ShapedParameters, ShapedUsed DEF Assigns
<1>2. /\ AreOperands(new) /\ Len(new) = Len(i.srcs)
      /\ \A k \in 1 .. Len(i.srcs) : Assigns(m, new[k]) /\ Eval(m, new[k]) = Eval(m, i.srcs[k])
  BY <1>1, SubstEachIs
<1>3. /\ i.op \in {"Copy", "Unary", "Binary", "FCall", "BrIf", "Return"}
      /\ i.op \in {"Unary", "BrIf"} => i.srcs = <<i.srcs[1]>>
      /\ i.op = "Binary" => i.srcs = <<i.srcs[1], i.srcs[2]>>
  BY ShapedParameters
<1>4. /\ i.op = "Unary" => IsUnaried(i) /\ i.dst = <<i.dst[1]>>
      /\ i.op = "Binary" => IsBinaried(i) /\ i.dst = <<i.dst[1]>>
      /\ i.op = "FCall" => IsFCall(i)
      /\ i.op \in {"BrIf", "Return"} => i.dst = <<>>
  <2>1. /\ i.op \in {"Unary", "Binary"} => i.dst = <<i.dst[1]>>
        /\ i.op \in {"BrIf", "Return"} => i.dst = <<>>
    BY ShapedParameters
  <2> QED
    BY <2>1 DEF IsShaped, IsCopied, IsUnaried, IsBinaried, IsFCall, IsBrIf, IsReturn
<1> DEFINE w1 == SubstVal(i.srcs[1], x, val)
           w2 == SubstVal(i.srcs[2], x, val)
<1>5. /\ i.op \in {"Unary", "BrIf"} => new = <<w1>>
      /\ i.op = "Binary" => new = <<w1, w2>>
  <2>1. \A v : SubstEach(<<v>>, x, val) = <<SubstVal(v, x, val)>>
    BY SubstOne
  <2>2. \A v, w : SubstEach(<<v, w>>, x, val) = <<SubstVal(v, x, val), SubstVal(w, x, val)>>
    BY DEF SubstEach
  <2> QED
    BY <1>3, <2>1, <2>2
<1>6. /\ i.op = "Unary" => j = Unary(i.dst[1], i.fn, w1, i.t)
      /\ i.op = "Binary" => j = Binary(i.dst[1], i.fn, w1, w2, i.t)
      /\ i.op = "FCall" => j = FCall(i.dst, i.fn, new)
      /\ i.op = "BrIf" => j = BrIf(w1, i.target)
      /\ i.op = "Return" => j = Return(new)
  BY RewrittenIs
<1> HIDE DEF new, w1, w2
<1>7. j.srcs = new /\ SameButReads(i, j) /\ IsShaped(j)
  <2>1. CASE i.op = "Unary"
    <3>1. /\ j.op = "Unary" /\ j.dst = <<i.dst[1]>> /\ j.fn = i.fn /\ j.t = i.t /\ j.srcs = <<w1>>
          /\ j.dst[1] = i.dst[1] /\ j.srcs[1] = w1
      BY <1>6, <2>1 DEF Unary
    <3>2. IsOperand(w1)
      BY <1>2, <1>5, <2>1 DEF AreOperands
    <3>3. j = Unary(j.dst[1], j.fn, j.srcs[1], j.t)
      BY <1>6, <2>1, <3>1
    <3>4. IsUnaried(j)
      BY <1>4, <2>1, <3>1, <3>2, <3>3 DEF IsUnaried
    <3> QED
      BY <1>4, <1>5, <2>1, <3>1, <3>4 DEF SameButReads, IsShaped
  <2>2. CASE i.op = "Binary"
    <3>1. /\ j.op = "Binary" /\ j.dst = <<i.dst[1]>> /\ j.fn = i.fn /\ j.t = i.t /\ j.srcs = <<w1, w2>>
          /\ j.dst[1] = i.dst[1] /\ j.srcs[1] = w1 /\ j.srcs[2] = w2
      BY <1>6, <2>2 DEF Binary
    <3>2. IsOperand(w1) /\ IsOperand(w2)
      <4>1. new = <<w1, w2>>
        BY <1>5, <2>2
      <4>2. new[1] = w1 /\ new[2] = w2 /\ Len(new) = 2
        BY <4>1
      <4>3. IsOperand(new[1]) /\ IsOperand(new[2])
        BY <1>2, <4>2 DEF AreOperands
      <4> QED
        BY <4>2, <4>3
    <3>3. j = Binary(j.dst[1], j.fn, j.srcs[1], j.srcs[2], j.t)
      BY <1>6, <2>2, <3>1
    <3>4. IsBinaried(j)
      BY <1>4, <2>2, <3>1, <3>2, <3>3 DEF IsBinaried
    <3> QED
      BY <1>4, <1>5, <2>2, <3>1, <3>4 DEF SameButReads, IsShaped
  <2>3. CASE i.op = "FCall"
    <3>1. j.op = "FCall" /\ j.dst = i.dst /\ j.fn = i.fn /\ j.srcs = new
      BY <1>6, <2>3 DEF FCall
    <3>2. IsFCall(j)
      BY <1>2, <1>4, <1>6, <2>3, <3>1 DEF IsFCall
    <3> QED
      BY <2>3, <3>1, <3>2 DEF SameButReads, IsShaped
  <2>4. CASE i.op = "BrIf"
    <3>1. j.op = "BrIf" /\ j.dst = <<>> /\ j.target = i.target /\ j.srcs = <<w1>> /\ j.srcs[1] = w1
      BY <1>6, <2>4 DEF BrIf
    <3>2. IsOperand(w1)
      BY <1>2, <1>5, <2>4 DEF AreOperands
    <3>3. j = BrIf(j.srcs[1], j.target)
      BY <1>6, <2>4, <3>1
    <3>4. IsBrIf(j)
      BY <3>1, <3>2, <3>3 DEF IsBrIf
    <3> QED
      BY <1>4, <1>5, <2>4, <3>1, <3>4 DEF SameButReads, IsShaped
  <2>5. CASE i.op = "Return"
    <3>1. j.op = "Return" /\ j.dst = <<>> /\ j.srcs = new
      BY <1>6, <2>5 DEF Return
    <3>2. IsReturn(j)
      BY <1>2, <1>6, <2>5, <3>1 DEF IsReturn
    <3> QED
      BY <1>4, <2>5, <3>1, <3>2 DEF SameButReads, IsShaped
  <2> QED
    BY <1>3, <2>1, <2>2, <2>3, <2>4, <2>5
<1>8. UsedVars(j) \subseteq DOMAIN m.env
  <2>1. ~StoresThrough(j)
    BY <1>7 DEF StoresThrough, SameButReads
  <2>2. \A k \in 1 .. Len(j.srcs) : j.srcs[k].kind # "Imm" => j.srcs[k].name \in DOMAIN m.env
    BY <1>2, <1>7 DEF Assigns
  <2> QED
    BY <1>7, <2>1, <2>2, UsedWithin
<1>9. Alike(c, inp, m, i, j)
  BY <1>2, <1>7, <1>8, ReadsAlike
<1> QED
  BY <1>7, <1>9 DEF SameButReads

\* What a copy uses.
LEMMA CopyUses ==
  ASSUME NEW m, NEW i, IsCopied(i)
  PROVE  UsedVars(i) \subseteq DOMAIN m.env <=>
           Assigns(m, i.srcs[1]) /\ (i.dst[1].kind = "Mem" => i.dst[1].name \in DOMAIN m.env)
<1>1. IsShaped(i) /\ i.op = "Copy"
  BY DEF IsShaped, IsCopied
<1>2. Len(i.srcs) = 1
  BY <1>1, ShapedParameters
<1>3. StoresThrough(i) <=> i.dst[1].kind = "Mem"
  BY <1>1 DEF StoresThrough
<1>4. 1 \in 1 .. Len(i.srcs) /\ \A k \in 1 .. Len(i.srcs) : k = 1
  BY <1>2
<1>5. ASSUME UsedVars(i) \subseteq DOMAIN m.env
      PROVE  Assigns(m, i.srcs[1]) /\ (i.dst[1].kind = "Mem" => i.dst[1].name \in DOMAIN m.env)
  BY <1>1, <1>3, <1>4, <1>5, ShapedUsed DEF Assigns
<1>6. ASSUME Assigns(m, i.srcs[1]), i.dst[1].kind = "Mem" => i.dst[1].name \in DOMAIN m.env
      PROVE  UsedVars(i) \subseteq DOMAIN m.env
  BY <1>1, <1>3, <1>4, <1>6, UsedWithin DEF Assigns
<1> QED
  BY <1>5, <1>6

\* A copy put together from two operands.
LEMMA CopyIs ==
  ASSUME NEW d, NEW s, NEW j, j = Copy(d, s), IsOperand(d), IsOperand(s)
  PROVE  IsCopied(j) /\ j.op = "Copy" /\ j.dst[1] = d /\ j.srcs[1] = s
BY DEF Copy, IsCopied

\* A store is rewritten on both sides.
LEMMA StoreRewritten ==
  ASSUME NEW c, NEW inp, NEW m, IsRecord(m), NEW i, IsCopied(i), i.dst[1].kind = "Mem",
         UsedVars(i) \subseteq DOMAIN m.env,
         NEW x, NEW val, Stands(m, x, val), NEW j, j = rewrite_instr(i, x, val)
  PROVE  IsCopied(j) /\ j.dst[1].kind = "Mem" /\ Alike(c, inp, m, i, j)
<1> DEFINE d == i.dst[1]
           s == i.srcs[1]
           d2 == SubstVal(d, x, val)
           s2 == SubstVal(s, x, val)
<1>1. i.op = "Copy" /\ IsOperand(d) /\ IsOperand(s) /\ IsShaped(i)
  BY DEF IsCopied, IsShaped
<1>2. j = Copy(d2, s2)
  BY <1>1, RewrittenIs
<1>3. Assigns(m, s) /\ Assigns(m, d)
  BY CopyUses DEF Assigns
<1>4. /\ IsOperand(d2) /\ d2.kind = "Mem" /\ Address(m, d2) = Address(m, d) /\ d2.t = d.t
      /\ Assigns(m, d2)
  BY <1>1, <1>3, SubstIs
<1>5. IsOperand(s2) /\ Assigns(m, s2) /\ Eval(m, s2) = Eval(m, s)
  BY <1>1, <1>3, SubstIs
<1> HIDE DEF d2, s2
<1>6. IsCopied(j) /\ j.op = "Copy" /\ j.dst[1] = d2 /\ j.srcs[1] = s2
  BY <1>2, <1>4, <1>5, CopyIs
<1>7. UsedVars(j) \subseteq DOMAIN m.env
  BY <1>4, <1>5, <1>6, CopyUses DEF Assigns
<1>8. Alike(c, inp, m, i, j)
  BY <1>1, <1>4, <1>5, <1>6, <1>7, CopyAlike
<1> QED
  BY <1>4, <1>6, <1>8

\* The emitter does not panic on what the instruction assigns to.
Assignable(i) == \A v \in Range(i.dst) : v.kind # "Imm"

\* So is x := x; otherwise a variable that is assigned to is not one that is read.
LEMMA LoadRewritten ==
  ASSUME NEW c, NEW inp, NEW m, IsRecord(m), IsEnv(m.env), NEW i, IsCopy(i), i.dst[1].kind = "Var",
         UsedVars(i) \subseteq DOMAIN m.env, i.srcs[1].kind # "Imm",
         NEW x, x = i.srcs[1].name,
         NEW val, Stands(m, x, val), NEW j, j = rewrite_instr(i, x, val)
  PROVE  ~Assignable(j) \/ Alike(c, inp, m, i, j)
<1> DEFINE d == i.dst[1]
           s == i.srcs[1]
           d2 == SubstVal(d, x, val)
           s2 == SubstVal(s, x, val)
<1>1. i.op = "Copy" /\ IsOperand(d) /\ IsOperand(s) /\ IsShaped(i) /\ IsCopied(i) /\ d = Var(d.name)
      /\ i = Copy(d, s)
  BY DEF IsCopy, IsCopied, IsShaped, IsOperand
<1>2. j = Copy(d2, s2)
  BY <1>1, RewrittenIs
<1>3. Assigns(m, s)
  BY <1>1, CopyUses
<1>4. /\ IsOperand(s2) /\ Assigns(m, s2) /\ Eval(m, s2) = Eval(m, s)
      /\ s.kind = "Var" => s2 = val
  BY <1>1, <1>3, SubstIs
<1>5. IF d.name = x THEN d2 = val ELSE d2 = d
  BY Zenon DEF SubstVal
<1>6. CASE d.name # x
  <2>1. IsCopied(j) /\ j.op = "Copy" /\ j.dst[1] = d /\ j.srcs[1] = s2
    BY <1>1, <1>2, <1>4, <1>5, <1>6, CopyIs
  <2>2. UsedVars(j) \subseteq DOMAIN m.env
    BY <1>4, <2>1, CopyUses
  <2> QED
    BY <1>1, <1>4, <2>1, <2>2, CopyAlike
<1>7. CASE d.name = x
  <2>1. s.kind = "Var" /\ s = Var(x)
    BY <1>7 DEF IsCopy, IsOperand
  <2>2. j = Copy(val, val)
    BY <1>2, <1>4, <1>5, <1>7, <2>1
  <2>3. CASE val.kind = "Imm"
    <3>1. j.dst = <<val>>
      BY <2>2 DEF Copy
    <3> QED
      BY <2>3, <3>1 DEF Assignable, Range
  <2>4. CASE val.kind # "Imm"
    <3> DEFINE y == val.name
    <3>1. val = Var(y) /\ y \in DOMAIN m.env /\ x \in DOMAIN m.env
      BY <2>4 DEF Stands
    <3>2. i = Copy(Var(x), Var(x)) /\ j = Copy(Var(y), Var(y))
      BY <1>1, <1>7, <2>1, <2>2, <3>1
    <3>3. IsCopied(j) /\ j.dst[1] = Var(y) /\ j.srcs[1] = Var(y)
      <4> DEFINE v == Var(y)
      <4>1. IsOperand(v)
        BY DEF IsOperand, Var
      <4>2. j = Copy(v, v)
        BY <3>2
      <4> HIDE DEF v
      <4>3. IsCopied(j) /\ j.dst[1] = v /\ j.srcs[1] = v
        BY <4>1, <4>2, CopyIs
      <4> QED
        BY <4>3 DEF v
    <3>4. UsedVars(j) \subseteq DOMAIN m.env
      <4>1. Assigns(m, Var(y)) /\ Var(y).kind # "Mem"
        BY <3>1 DEF Assigns, Var
      <4> QED
        BY <3>3, <4>1, CopyUses
    <3> QED
      BY <3>1, <3>2, <3>4, SelfAlike
  <2> QED
    BY <2>3, <2>4
<1> QED
  BY <1>6, <1>7

-----------------------------------------------------------------------------
\* Passes that replace variables in one instruction after the other.

\* What the pass has after each of the operands.
IsVisited(ps, subst, i, done) ==
  /\ done[0] = <<i, FALSE>>
  /\ \A n \in 1 .. Len(Operands(i)) :
       done[n] = IF Operands(i)[n].kind = "Imm" THEN done[n - 1]
                 ELSE VisitUse(ps, subst, done[n - 1], Operands(i)[n].name)
  /\ ForEachUse(ps, subst, i) = done[Len(Operands(i))]

\* ForEachUse is the function its recursion describes.
LEMMA Visits ==
  ASSUME NEW ps, NEW subst, NEW i, Len(Operands(i)) \in Nat
  PROVE  \E done : IsVisited(ps, subst, i, done)
<1> DEFINE N == Len(Operands(i))
<1> DEFINE fact == <<i, FALSE>>
<1> DEFINE Visit(n, d) == IF Operands(i)[n].kind = "Imm" THEN d
                      ELSE VisitUse(ps, subst, d, Operands(i)[n].name)
<1> DEFINE IsIt(n, g) == g = [k \in 0 .. n |-> IF k = 0 THEN fact ELSE Visit(k, g[k - 1])]
<1> DEFINE S == {n \in 0 .. N : \E g : IsIt(n, g)}
<1> DEFINE done == CHOOSE g : IsIt(N, g)
<1>1. N \in Nat /\ ForEachUse(ps, subst, i) = done[N]
  <2>1. \A g : IsIt(N, g) <=>
          g = [k \in 0 .. N |-> IF k = 0 THEN fact
                                ELSE IF Operands(i)[k].kind = "Imm" THEN g[k - 1]
                                ELSE VisitUse(ps, subst, g[k - 1], Operands(i)[k].name)]
    OBVIOUS
  <2> QED
    BY Zenon DEF ForEachUse
<1> HIDE DEF N, Visit, fact, done
<1>2. 0 \in S
  <2> DEFINE g == [k \in 0 .. 0 |-> fact]
  <2>1. IsIt(0, g)
    OBVIOUS
  <2> HIDE DEF g
  <2> QED
    BY <1>1, <2>1
<1>3. ASSUME NEW n \in 1 .. N, n - 1 \in S PROVE n \in S
  <2>1. PICK f : IsIt(n - 1, f)
    BY <1>3
  <2> DEFINE g == [k \in 0 .. n |-> IF k = n THEN Visit(n, f[n - 1]) ELSE f[k]]
  <2>2. \A k \in 0 .. n : k # 0 => k - 1 \in 0 .. n /\ k - 1 # n /\ g[k - 1] = f[k - 1]
    BY <1>1
  <2>3. \A k \in 0 .. n : g[k] = IF k = 0 THEN fact ELSE Visit(k, g[k - 1])
    <3> TAKE k \in 0 .. n
    <3>1. CASE k = n
      BY <1>1, <2>2, <3>1
    <3>2. CASE k # n
      <4>1. k \in 0 .. (n - 1)
        BY <1>1, <3>2
      <4>2. f[k] = IF k = 0 THEN fact ELSE Visit(k, f[k - 1])
        BY <2>1, <4>1
      <4> QED
        BY <2>2, <3>2, <4>2
    <3> QED
      BY <3>1, <3>2
  <2>4. IsIt(n, g)
    <3>1. g = [k \in 0 .. n |-> g[k]]
      OBVIOUS
    <3> HIDE DEF g
    <3> QED
      BY <2>3, <3>1
  <2> HIDE DEF g, IsIt
  <2> QED
    BY <1>1, <2>4
<1>4. IsIt(N, done)
  <2> HIDE DEF IsIt
  <2>1. 0 .. N \subseteq S
    <3> HIDE DEF S
    <3> QED
      BY <1>1, <1>2, <1>3, UpTo
  <2>2. \E g : IsIt(N, g)
    BY <1>1, <2>1
  <2> QED
    BY <2>2 DEF done
<1>5. done[0] = fact /\ \A n \in 1 .. N : done[n] = Visit(n, done[n - 1])
  <2>1. 0 \in 0 .. N /\ \A n \in 1 .. N : n \in 0 .. N /\ n # 0
    BY <1>1
  <2> QED
    BY <1>4, <2>1
<1>6. PICK d : d = done
  OBVIOUS
<1>7. /\ d[0] = <<i, FALSE>>
      /\ \A n \in 1 .. N : d[n] = IF Operands(i)[n].kind = "Imm" THEN d[n - 1]
                                  ELSE VisitUse(ps, subst, d[n - 1], Operands(i)[n].name)
      /\ ForEachUse(ps, subst, i) = d[N]
  BY <1>1, <1>5, <1>6 DEF Visit, fact
<1> QED
  BY <1>7 DEF IsVisited, N

\* A visit does nothing, or rewrites with one of the options.
LEMMA VisitIs ==
  ASSUME NEW ps, NEW subst, NEW done, NEW x
  PROVE  \/ VisitUse(ps, subst, done, x) = done
         \/ ps # "ptr" /\ \E val \in subst[x] :
              VisitUse(ps, subst, done, x) = <<rewrite_instr(done[1], x, val), TRUE>>
         \/ ps = "ptr" /\ \E val \in subst[x] :
              /\ CopiesThrough(done[1], val[1])
              /\ VisitUse(ps, subst, done, x) = <<rewrite_mem_instr(done[1], x, val[1], val[2]), TRUE>>
<1> DEFINE vals == {val \in subst[x] : ps = "ptr" => CopiesThrough(done[1], val[1])}
           val == CHOOSE v \in vals : TRUE
<1>1. VisitUse(ps, subst, done, x) =
        IF vals = {} THEN done
        ELSE IF ps = "ptr" THEN <<rewrite_mem_instr(done[1], x, val[1], val[2]), TRUE>>
        ELSE <<rewrite_instr(done[1], x, val), TRUE>>
  BY DEF VisitUse
<1>2. vals # {} => val \in vals
  OBVIOUS
<1>3. vals # {} => val \in subst[x] /\ (ps = "ptr" => CopiesThrough(done[1], val[1]))
  BY <1>2
<1> HIDE DEF vals, val
<1> QED
  BY <1>1, <1>3, Zenon

\* In state m, instruction k does what i does, and can be rewritten in the same way.
Fits(c, inp, m, i, k) ==
  /\ Alike(c, inp, m, i, k)
  /\ \/ k.op # "Copy" /\ IsShaped(k)
     \/ IsCopied(k) /\ k.dst[1].kind = "Mem"

LEMMA RewrittenFits ==
  ASSUME NEW c, NEW inp, NEW m, IsRecord(m), NEW i, NEW k, Fits(c, inp, m, i, k),
         NEW x, NEW val, Stands(m, x, val)
  PROVE  Fits(c, inp, m, i, rewrite_instr(k, x, val))
<1>1. PICK j : j = rewrite_instr(k, x, val)
  OBVIOUS
<1>2. UsedVars(k) \subseteq DOMAIN m.env
  BY DEF Fits, Alike
<1>3. CASE k.op # "Copy" /\ IsShaped(k)
  <2>1. IsShaped(j) /\ j.op # "Copy" /\ Alike(c, inp, m, k, j)
    BY <1>1, <1>2, <1>3, ReadsRewritten
  <2> QED
    BY <1>1, <2>1 DEF Fits, Alike
<1>4. CASE IsCopied(k) /\ k.dst[1].kind = "Mem"
  <2>1. IsCopied(j) /\ j.dst[1].kind = "Mem" /\ Alike(c, inp, m, k, j)
    BY <1>1, <1>2, <1>4, StoreRewritten
  <2> QED
    BY <1>1, <2>1 DEF Fits, Alike
<1> QED
  BY <1>3, <1>4 DEF Fits

\* Wherever every variable is replaced by what it is, the instruction does the same.
LEMMA SubstitutedAlike ==
  ASSUME NEW c, NEW inp, NEW m, IsRecord(m), IsEnv(m.env),
         NEW i, IsInstruction(i), UsedVars(i) \subseteq DOMAIN m.env,
         NEW ps, ps # "ptr", NEW subst,
         \A x \in UsedVars(i) : \A val \in subst[x] : Stands(m, x, val),
         NEW j, j = ForEachUse(ps, subst, i)[1]
  PROVE  ~Assignable(j) \/ Alike(c, inp, m, i, j)
<1> DEFINE N == Len(Operands(i))
<1>1. N \in Nat
  BY OperandsAre DEF AreOperands, IsSeq
<1>0. PICK done : IsVisited(ps, subst, i, done)
  BY <1>1, Visits
<1>2. /\ done[0] = <<i, FALSE>>
      /\ \A n \in 1 .. N :
           done[n] = IF Operands(i)[n].kind = "Imm" THEN done[n - 1]
                     ELSE VisitUse(ps, subst, done[n - 1], Operands(i)[n].name)
      /\ ForEachUse(ps, subst, i) = done[N]
  BY <1>0 DEF IsVisited
<1>3. ASSUME NEW n \in 1 .. N
      PROVE  \/ done[n] = done[n - 1]
             \/ /\ Operands(i)[n].kind # "Imm"
                /\ \E val : /\ Stands(m, Operands(i)[n].name, val)
                            /\ done[n][1] = rewrite_instr(done[n - 1][1], Operands(i)[n].name, val)
  <2> DEFINE x == Operands(i)[n].name
  <2>1. CASE Operands(i)[n].kind = "Imm"
    BY <1>2, <2>1
  <2>2. CASE Operands(i)[n].kind # "Imm"
    <3>1. done[n] = VisitUse(ps, subst, done[n - 1], x)
      BY <1>2, <2>2
    <3>2. x \in UsedVars(i)
      BY <2>2, UsedIs
    <3> HIDE DEF x
    <3>3. \/ done[n] = done[n - 1]
          \/ \E val \in subst[x] : done[n] = <<rewrite_instr(done[n - 1][1], x, val), TRUE>>
      BY <3>1, VisitIs
    <3>4. CASE \E val \in subst[x] : done[n] = <<rewrite_instr(done[n - 1][1], x, val), TRUE>>
      <4>1. PICK val \in subst[x] : done[n] = <<rewrite_instr(done[n - 1][1], x, val), TRUE>>
        BY <3>4
      <4>2. Stands(m, x, val)
        BY <3>2
      <4>3. done[n][1] = rewrite_instr(done[n - 1][1], x, val)
        BY <4>1
      <4> QED
        BY <2>2, <4>2, <4>3 DEF x
    <3> QED
      BY <3>3, <3>4
  <2> QED
    BY <2>1, <2>2
<1>4. Alike(c, inp, m, i, i)
  BY DEF Alike
<1>5. i = done[0][1]
  BY <1>2
<1>6. CASE i.op = "Copy" /\ i.dst[1].kind = "Var"
  <2>1. IsCopy(i)
    BY <1>6 DEF IsInstruction, IsUnary, IsBinary, IsFCall, IsBrIf, IsReturn
  <2>2. ~StoresThrough(i)
    BY <1>6 DEF StoresThrough
  <2>3. Operands(i) = i.srcs /\ Len(i.srcs) = 1
    BY <1>6, <2>2, OperandsAre, ParametersAre
  <2>4. N = 1 /\ Operands(i)[1] = i.srcs[1]
    BY <2>3
  <2>5. j = done[1][1]
    BY <1>2, <2>4
  <2>6. \/ j = i
        \/ \E val : /\ i.srcs[1].kind # "Imm" /\ Stands(m, i.srcs[1].name, val)
                    /\ j = rewrite_instr(i, i.srcs[1].name, val)
    <3>1. 1 \in 1 .. N /\ 1 - 1 = 0
      BY <2>4
    <3>2. \/ done[1] = done[1 - 1]
          \/ /\ Operands(i)[1].kind # "Imm"
             /\ \E val : /\ Stands(m, Operands(i)[1].name, val)
                         /\ done[1][1] = rewrite_instr(done[1 - 1][1], Operands(i)[1].name, val)
      BY <1>3, <3>1
    <3>3. \/ done[1] = done[0]
          \/ /\ Operands(i)[1].kind # "Imm"
             /\ \E val : /\ Stands(m, Operands(i)[1].name, val)
                         /\ done[1][1] = rewrite_instr(done[0][1], Operands(i)[1].name, val)
      BY <3>1, <3>2, Zenon
    <3> QED
      BY <1>5, <2>4, <2>5, <3>3, Zenon
  <2>7. CASE \E val : /\ i.srcs[1].kind # "Imm" /\ Stands(m, i.srcs[1].name, val)
                      /\ j = rewrite_instr(i, i.srcs[1].name, val)
    <3>1. ~Assignable(j) \/ Alike(c, inp, m, i, j)
      BY <1>6, <2>1, <2>7, LoadRewritten
    <3> QED
      BY <1>6, <3>1
  <2> QED
    BY <1>4, <2>6, <2>7
<1>7. CASE ~(i.op = "Copy" /\ i.dst[1].kind = "Var")
  <2> DEFINE S == {n \in 0 .. N : Fits(c, inp, m, i, done[n][1])}
  <2>1. 0 \in S
    <3>1. \/ i.op # "Copy" /\ IsShaped(i)
          \/ IsCopied(i) /\ i.dst[1].kind = "Mem"
      <4>1. IsShaped(i)
        BY InstructionShaped
      <4>2. i.op = "Copy" => IsCopy(i)
        BY DEF IsInstruction, IsUnary, IsBinary, IsFCall, IsBrIf, IsReturn
      <4>3. IsCopy(i) => IsCopied(i) /\ i.dst[1].kind \in {"Var", "Mem"}
        BY DEF IsCopy, IsCopied, IsOperand
      <4> QED
        BY <1>7, <4>1, <4>2, <4>3
    <3>2. Fits(c, inp, m, i, i)
      BY <1>4, <3>1 DEF Fits
    <3>3. 0 \in 0 .. N
      BY <1>1
    <3> QED
      BY <1>5, <3>2, <3>3, Zenon
  <2>2. ASSUME NEW n \in 1 .. N, n - 1 \in S PROVE n \in S
    <3>1. Fits(c, inp, m, i, done[n - 1][1]) /\ n \in 0 .. N
      BY <1>1, <2>2
    <3>2. CASE done[n] = done[n - 1]
      BY <3>1, <3>2
    <3>3. CASE \E x, val : Stands(m, x, val) /\ done[n][1] = rewrite_instr(done[n - 1][1], x, val)
      <4>1. PICK x, val : Stands(m, x, val) /\ done[n][1] = rewrite_instr(done[n - 1][1], x, val)
        BY <3>3
      <4>2. Fits(c, inp, m, i, rewrite_instr(done[n - 1][1], x, val))
        BY <3>1, <4>1, RewrittenFits
      <4> QED
        BY <3>1, <4>1, <4>2
    <3> HIDE DEF S
    <3> QED
      BY <1>3, <3>2, <3>3
  <2> HIDE DEF S
  <2>3. 0 .. N \subseteq S
    BY <1>1, <2>1, <2>2, UpTo
  <2>4. N \in S
    BY <1>1, <2>3
  <2>5. Fits(c, inp, m, i, done[N][1])
    BY <2>4 DEF S
  <2> QED
    BY <1>2, <2>5 DEF Fits
<1> QED
  BY <1>6, <1>7

-----------------------------------------------------------------------------
\* The facts of an analysis, from point to point.

AB == INSTANCE BlockFlow_proofs WITH Direction <- A!Direction, Flow <- A!Flow
RB == INSTANCE BlockFlow_proofs WITH Direction <- R!Direction, Flow <- R!Flow
MB == INSTANCE BlockFlow_proofs WITH Direction <- M!Direction, Flow <- M!Flow
LB == INSTANCE BlockFlow_proofs WITH Direction <- L!Direction, Flow <- L!Flow

CopiesAt(c, found, b, n) == A!Carried(c, b, found.in[b])[n]
DefsAt(c, found, b, n)   == R!Carried(c, b, found.in[b])[n]
LoadsAt(c, found, b, n)  == M!Carried(c, b, found.in[b])[n]
LiveAfter(c, found, b, n) == L!Carried(c, b, found.out[b])[Len(c.code[b]) - n]

\* A fact, and what it becomes past an instruction.
CopyStep(c, old, li, new) == new = A!Flow(c, old, li)
DefStep(c, old, li, new)  == new = R!Flow(c, old, li)
LoadStep(c, old, li, new) == new = M!Flow(c, old, li)
LiveStep(c, old, li, new) == new = L!Flow(c, old, li)

LEMMA CopiesCarried ==
  ASSUME NEW c, NEW b, Len(c.code[b]) \in Nat, NEW found
  PROVE  /\ CopiesAt(c, found, b, 0) = found.in[b]
         /\ \A n \in 1 .. Len(c.code[b]) :
              CopyStep(c, CopiesAt(c, found, b, n - 1), c.code[b][n], CopiesAt(c, found, b, n))
<1> DEFINE f == found.in[b]
<1>1. /\ AB!Carried(c, b, f)[0] = f
      /\ \A n \in 1 .. Len(c.code[b]) :
           AB!Carried(c, b, f)[n] = A!Flow(c, AB!Carried(c, b, f)[n - 1], AB!Visited(c, b, n))
  BY AB!CarriedIs
<1>2. A!Carried(c, b, f) = AB!Carried(c, b, f)
  BY DEF A!Carried, AB!Carried, A!Visited, AB!Visited
<1>3. \A n : AB!Visited(c, b, n) = c.code[b][n]
  BY DEF AB!Visited, A!Direction
<1> QED
  BY <1>1, <1>2, <1>3 DEF CopiesAt, CopyStep

LEMMA DefsCarried ==
  ASSUME NEW c, NEW b, Len(c.code[b]) \in Nat, NEW found
  PROVE  /\ DefsAt(c, found, b, 0) = found.in[b]
         /\ \A n \in 1 .. Len(c.code[b]) :
              DefStep(c, DefsAt(c, found, b, n - 1), c.code[b][n], DefsAt(c, found, b, n))
<1> DEFINE f == found.in[b]
<1>1. /\ RB!Carried(c, b, f)[0] = f
      /\ \A n \in 1 .. Len(c.code[b]) :
           RB!Carried(c, b, f)[n] = R!Flow(c, RB!Carried(c, b, f)[n - 1], RB!Visited(c, b, n))
  BY RB!CarriedIs
<1>2. R!Carried(c, b, f) = RB!Carried(c, b, f)
  BY DEF R!Carried, RB!Carried, R!Visited, RB!Visited
<1>3. \A n : RB!Visited(c, b, n) = c.code[b][n]
  BY DEF RB!Visited, R!Direction
<1> QED
  BY <1>1, <1>2, <1>3 DEF DefsAt, DefStep

LEMMA LoadsCarried ==
  ASSUME NEW c, NEW b, Len(c.code[b]) \in Nat, NEW found
  PROVE  /\ LoadsAt(c, found, b, 0) = found.in[b]
         /\ \A n \in 1 .. Len(c.code[b]) :
              LoadStep(c, LoadsAt(c, found, b, n - 1), c.code[b][n], LoadsAt(c, found, b, n))
<1> DEFINE f == found.in[b]
<1>1. /\ MB!Carried(c, b, f)[0] = f
      /\ \A n \in 1 .. Len(c.code[b]) :
           MB!Carried(c, b, f)[n] = M!Flow(c, MB!Carried(c, b, f)[n - 1], MB!Visited(c, b, n))
  BY MB!CarriedIs
<1>2. M!Carried(c, b, f) = MB!Carried(c, b, f)
  BY DEF M!Carried, MB!Carried, M!Visited, MB!Visited
<1>3. \A n : MB!Visited(c, b, n) = c.code[b][n]
  BY DEF MB!Visited, M!Direction
<1> QED
  BY <1>1, <1>2, <1>3 DEF LoadsAt, LoadStep

LEMMA LiveCarried ==
  ASSUME NEW c, NEW b, Len(c.code[b]) \in Nat, NEW found
  PROVE  /\ LiveAfter(c, found, b, Len(c.code[b])) = found.out[b]
         /\ \A n \in 1 .. Len(c.code[b]) :
              LiveStep(c, LiveAfter(c, found, b, n), c.code[b][n], LiveAfter(c, found, b, n - 1))
<1> DEFINE f == found.out[b]
           N == Len(c.code[b])
<1>1. /\ LB!Carried(c, b, f)[0] = f
      /\ \A n \in 1 .. N :
           LB!Carried(c, b, f)[n] = L!Flow(c, LB!Carried(c, b, f)[n - 1], LB!Visited(c, b, n))
  BY LB!CarriedIs
<1>2. L!Carried(c, b, f) = LB!Carried(c, b, f)
  BY DEF L!Carried, LB!Carried, L!Visited, LB!Visited
<1>3. \A n : LB!Visited(c, b, n) = c.code[b][N + 1 - n]
  BY DEF LB!Visited, L!Direction
<1>4. LiveAfter(c, found, b, N) = f
  <2>1. N - N = 0
    OBVIOUS
  <2> QED
    BY <1>1, <1>2, <2>1 DEF LiveAfter
<1>5. ASSUME NEW n \in 1 .. N
      PROVE  LiveStep(c, LiveAfter(c, found, b, n), c.code[b][n], LiveAfter(c, found, b, n - 1))
  <2> DEFINE k == N - (n - 1)
  <2>1. k \in 1 .. N /\ k - 1 = N - n /\ N + 1 - k = n
    OBVIOUS
  <2> HIDE DEF k, N
  <2>2. LB!Carried(c, b, f)[k] = L!Flow(c, LB!Carried(c, b, f)[k - 1], LB!Visited(c, b, k))
    BY <1>1, <2>1
  <2> QED
    BY <1>2, <1>3, <2>1, <2>2 DEF LiveAfter, LiveStep, k, N
<1> QED
  BY <1>4, <1>5

\* What an instruction does to the facts, in the terms of this module.
CopiesMade(i) ==
  IF IsVarCopy(i) /\ i.dst[1].name # i.srcs[1].name
  THEN {<<i.dst[1].name, i.srcs[1].name>>}
  ELSE {}

LEMMA SameWrites ==
  ASSUME NEW c, NEW i
  PROVE  /\ A!Clobbers(c, i) = Writes(c, i) /\ R!Defines(c, i) = Writes(c, i)
         /\ M!def_of_instr(i) = def_of_instr(i) /\ L!def_of_instr(i) = def_of_instr(i)
         /\ (M!IsCall(i) <=> IsCall(i)) /\ (L!IsCall(i) <=> IsCall(i))
         /\ L!UsedVars(i) = UsedVars(i)
<1>1. /\ A!def_of_instr(i) = def_of_instr(i) /\ R!def_of_instr(i) = def_of_instr(i)
      /\ M!def_of_instr(i) = def_of_instr(i) /\ L!def_of_instr(i) = def_of_instr(i)
  BY Zenon DEF A!def_of_instr, R!def_of_instr, M!def_of_instr, L!def_of_instr, def_of_instr,
               A!Range, R!Range, M!Range, L!Range, Range
<1>2. /\ (A!IsCall(i) <=> IsCall(i)) /\ (R!IsCall(i) <=> IsCall(i))
      /\ (M!IsCall(i) <=> IsCall(i)) /\ (L!IsCall(i) <=> IsCall(i))
  BY DEF A!IsCall, R!IsCall, M!IsCall, L!IsCall, IsCall
<1>3. L!UsedVars(i) = UsedVars(i)
  BY Zenon DEF L!UsedVars, L!Operands, L!Range, UsedVars, Operands, Range
<1> QED
  BY <1>1, <1>2, <1>3 DEF A!Clobbers, R!Defines, Writes

LEMMA CopyFlow ==
  ASSUME NEW c, NEW fact, NEW li, NEW new, CopyStep(c, fact, li, new)
  PROVE  new =
           {pair \in fact : Range(pair) \cap Writes(c, li.instr) = {}} \cup CopiesMade(li.instr)
<1>1. A!Generates(li.instr) = CopiesMade(li.instr)
  BY DEF A!Generates, A!IsVarCopy, CopiesMade, IsVarCopy
<1>2. \A pair : A!Range(pair) = Range(pair)
  BY DEF A!Range, Range
<1> QED
  BY <1>1, <1>2, SameWrites DEF A!Flow, CopyStep

LEMMA DefFlow ==
  ASSUME NEW c, NEW fact, NEW li, NEW new, DefStep(c, fact, li, new)
  PROVE  new =
           {d \in fact : d[2] \notin Writes(c, li.instr)} \cup ({li.id} \X Writes(c, li.instr))
BY SameWrites DEF R!Flow, DefStep

LEMMA LiveFlow ==
  ASSUME NEW c, NEW fact, NEW li, NEW new, LiveStep(c, fact, li, new)
  PROVE  new =
           (fact \ def_of_instr(li.instr)) \cup (IF IsCall(li.instr) THEN c.globals ELSE {})
             \cup UsedVars(li.instr)
BY SameWrites DEF L!Flow, LiveStep

\* What is known of loads that are left when x is assigned to, or the location stored to.
Kept1(fact, x) == {loc \in DOMAIN fact : loc.base # x /\ fact[loc] # Var(x)}
Kept2(fact, loc) ==
  {l \in DOMAIN fact : l.base = loc.base
     /\ (l.offset + Width(l.t) <= loc.offset \/ loc.offset + Width(loc.t) <= l.offset)}
LocationOf(v) == [base |-> v.name, offset |-> v.offset, t |-> v.t]

LoadStored(fact, loc, v, new) ==
  /\ DOMAIN new = Kept2(fact, loc) \cup {loc}
  /\ new[loc] = v
  /\ \A l \in Kept2(fact, loc) : l # loc => new[l] = fact[l]

LoadAssigned(fact, x, new) ==
  DOMAIN new = Kept1(fact, x) /\ \A l \in Kept1(fact, x) : new[l] = fact[l]

LEMMA LoadFlow ==
  ASSUME NEW c, NEW fact, NEW li, NEW i, i = li.instr, NEW new, LoadStep(c, fact, li, new),
         StoresThrough(i) => def_of_instr(i) = {}
  PROVE  /\ IsCall(i) => DOMAIN new = {}
         /\ ~IsCall(i) /\ StoresThrough(i) => LoadStored(fact, LocationOf(i.dst[1]), i.srcs[1], new)
         /\ ~IsCall(i) /\ ~StoresThrough(i) /\ def_of_instr(i) # {} =>
              LoadAssigned(fact, i.dst[1].name, new)
         /\ ~IsCall(i) /\ ~StoresThrough(i) /\ def_of_instr(i) = {} => new = fact
<1>1. M!IsStore(i) <=> StoresThrough(i)
  BY DEF M!IsStore, StoresThrough
<1>0. /\ M!IsCall(li.instr) <=> IsCall(i)
      /\ M!IsStore(li.instr) => ~IsCall(i)
      /\ StoresThrough(i) => M!def_of_instr(li.instr) = {}
  <2>1. M!IsCall(li.instr) <=> IsCall(i)
    BY SameWrites
  <2>2. M!IsStore(li.instr) => ~IsCall(i)
    BY DEF M!IsStore, IsCall
  <2>3. M!def_of_instr(li.instr) = def_of_instr(i)
    BY SameWrites
  <2> QED
    BY <2>1, <2>2, <2>3
<1>2. CASE IsCall(i)
  <2>1. new = << >>
    BY <1>0, <1>2, Zenon DEF M!Flow, LoadStep
  <2> QED
    BY <1>2, <2>1
<1>3. CASE ~IsCall(i) /\ StoresThrough(i)
  <2> DEFINE loc == LocationOf(i.dst[1])
             kept == M!KeepStore(fact, loc)
  <2>1. new = M!Update(kept, loc, i.srcs[1])
    <3>1. M!Location(i.dst[1]) = loc
      BY DEF M!Location, LocationOf
    <3>2. new = LET l == M!Location(i.dst[1])
                IN  M!Update(M!KeepStore(fact, l), l, i.srcs[1])
      <4>1. ~M!IsCall(li.instr) /\ M!IsStore(li.instr) /\ M!def_of_instr(li.instr) = {}
        BY <1>0, <1>1, <1>3, Zenon
      <4> QED
        BY <4>1, Zenon DEF M!Flow, LoadStep
    <3> QED
      BY <3>1, <3>2
  <2> HIDE DEF loc
  <2>2. kept = [l \in Kept2(fact, loc) |-> fact[l]]
    BY DEF M!KeepStore, M!Restrict, M!Disjoint, M!width, Kept2, Width
  <2> HIDE DEF kept
  <2>3. DOMAIN kept = Kept2(fact, loc) /\ \A l \in Kept2(fact, loc) : kept[l] = fact[l]
    BY <2>2
  <2>4. new = [y \in DOMAIN kept \cup {loc} |-> IF y = loc THEN i.srcs[1] ELSE kept[y]]
    BY <2>1, Zenon DEF M!Update
  <2>5. /\ DOMAIN new = Kept2(fact, loc) \cup {loc} /\ new[loc] = i.srcs[1]
        /\ \A l \in Kept2(fact, loc) : l # loc => new[l] = fact[l]
    <3> HIDE DEF Kept2
    <3> QED
      BY <2>3, <2>4
  <2> QED
    BY <1>3, <2>5 DEF loc, LoadStored
<1>4. CASE ~IsCall(i) /\ ~StoresThrough(i) /\ def_of_instr(i) # {}
  <2> DEFINE x == i.dst[1].name
  <2>1. new = M!KeepAssign(fact, x)
    BY <1>1, <1>4, SameWrites, Zenon DEF M!Flow, LoadStep
  <2> HIDE DEF x
  <2>2. \A v : M!Var(v) = Var(v)
    BY DEF M!Var, Var
  <2>3. new = [l \in Kept1(fact, x) |-> fact[l]]
    BY <2>1, <2>2 DEF M!KeepAssign, M!Restrict, Kept1
  <2>4. DOMAIN new = Kept1(fact, x) /\ \A l \in Kept1(fact, x) : new[l] = fact[l]
    BY <2>3
  <2> QED
    BY <1>4, <2>4 DEF x, LoadAssigned
<1>5. CASE ~IsCall(i) /\ ~StoresThrough(i) /\ def_of_instr(i) = {}
  BY <1>1, <1>5, SameWrites, Zenon DEF M!Flow, LoadStep
<1> QED
  BY <1>2, <1>3, <1>4, <1>5

\* The facts of a solution, from block to block.
LEMMA CopyEdges ==
  ASSUME NEW c, IsFunction(c), NEW found, CopySolution(c, found), NEW b \in c.blocks
  PROVE  /\ \A s \in c.succs[b] : found.in[s] \subseteq CopiesAt(c, found, b, Len(c.code[b]))
         /\ b = c.entry => found.in[b] = {}
<1>1. ASSUME NEW s \in c.blocks, b \in c.preds[s]
      PROVE  found.in[s] \subseteq found.out[b]
  <2>1. found.in[s] = A!Combine({found.out[p] : p \in c.preds[s]})
    BY <1>1 DEF CopySolution, AF!Joined
  <2> QED
    BY <1>1, <2>1 DEF A!Combine
<1>2. found.out[b] = CopiesAt(c, found, b, Len(c.code[b]))
  BY DEF CopySolution, CopiesAt, A!FlowBlock
<1>3. b = c.entry => found.in[b] = {}
  <2>1. c.preds[c.entry] = {}
    BY DEF IsFunction
  <2> QED
    BY <2>1 DEF CopySolution, AF!Joined, A!InitIn
<1> QED
  BY <1>1, <1>2, <1>3, CodeIs

LEMMA DefEdges ==
  ASSUME NEW c, IsFunction(c), NEW found, ReachSolution(c, found), NEW b \in c.blocks
  PROVE  /\ \A s \in c.succs[b] : DefsAt(c, found, b, Len(c.code[b])) \subseteq found.in[s]
         /\ b = c.entry => found.in[b] = {0} \X (c.params \cup c.globals)
<1>1. ASSUME NEW s \in c.blocks, b \in c.preds[s]
      PROVE  found.out[b] \subseteq found.in[s]
  <2>1. found.in[s] = R!Combine({found.out[p] : p \in c.preds[s]})
    BY <1>1 DEF ReachSolution, RF!Joined
  <2> QED
    BY <1>1, <2>1 DEF R!Combine
<1>2. found.out[b] = DefsAt(c, found, b, Len(c.code[b]))
  BY DEF ReachSolution, DefsAt, R!FlowBlock
<1>3. b = c.entry => found.in[b] = {0} \X (c.params \cup c.globals)
  <2>1. c.preds[c.entry] = {}
    BY DEF IsFunction
  <2> QED
    BY <2>1 DEF ReachSolution, RF!Joined, R!InitIn, R!EntryDefs
<1> QED
  BY <1>1, <1>2, <1>3, CodeIs

LEMMA LoadEdges ==
  ASSUME NEW c, IsFunction(c), NEW found, LoadSolution(c, found), NEW b \in c.blocks
  PROVE  /\ \A s \in c.succs[b] : \A loc \in DOMAIN found.in[s] :
              /\ loc \in DOMAIN LoadsAt(c, found, b, Len(c.code[b]))
              /\ LoadsAt(c, found, b, Len(c.code[b]))[loc] = found.in[s][loc]
         /\ b = c.entry => DOMAIN found.in[b] = {}
<1>1. ASSUME NEW s \in c.blocks, b \in c.preds[s], NEW loc \in DOMAIN found.in[s]
      PROVE  loc \in DOMAIN found.out[b] /\ found.out[b][loc] = found.in[s][loc]
  <2> DEFINE all == {found.out[p] : p \in c.preds[s]}
             first == CHOOSE fact \in all : TRUE
             Shared == {l \in DOMAIN first : \A fact \in all : l \in DOMAIN fact /\ fact[l] = first[l]}
  <2>1. found.in[s] = M!Combine(all)
    BY <1>1 DEF LoadSolution, MF!Joined
  <2>2. found.in[s] = [l \in Shared |-> first[l]]
    BY <2>1, Zenon DEF M!Combine
  <2>3. found.out[b] \in all
    BY <1>1
  <2> HIDE DEF all, first
  <2>4. loc \in Shared /\ found.in[s][loc] = first[loc]
    BY <2>2
  <2> QED
    BY <2>3, <2>4
<1>2. found.out[b] = LoadsAt(c, found, b, Len(c.code[b]))
  BY DEF LoadSolution, LoadsAt, M!FlowBlock
<1>3. b = c.entry => DOMAIN found.in[b] = {}
  <2>1. c.preds[c.entry] = {}
    BY DEF IsFunction
  <2>2. b = c.entry => found.in[b] = << >>
    BY <2>1 DEF LoadSolution, MF!Joined, M!InitIn
  <2> QED
    BY <2>2
<1> QED
  BY <1>1, <1>2, <1>3, CodeIs

LEMMA LiveEdges ==
  ASSUME NEW c, IsFunction(c), NEW found, LiveSolution(c, found), NEW b \in c.blocks
  PROVE  /\ \A s \in c.succs[b] : LiveAfter(c, found, s, 0) \subseteq LiveAfter(c, found, b, Len(c.code[b]))
         /\ b = c.exit => LiveAfter(c, found, b, Len(c.code[b])) = c.globals
<1>1. found.out[b] = LiveAfter(c, found, b, Len(c.code[b]))
  BY CodeIs, LiveCarried
<1>2. ASSUME NEW s \in c.blocks
      PROVE  found.in[s] = LiveAfter(c, found, s, 0)
  <2>1. Len(c.code[s]) - 0 = Len(c.code[s])
    BY CodeIs
  <2> QED
    BY <2>1 DEF LiveSolution, LiveAfter, L!FlowBlock
<1>3. ASSUME NEW s \in c.succs[b]
      PROVE  found.in[s] \subseteq found.out[b]
  <2>1. found.out[b] = L!Combine({found.in[p] : p \in c.succs[b]})
    BY <1>3 DEF LiveSolution, LF!Joined
  <2> QED
    BY <1>3, <2>1 DEF L!Combine
<1>4. b = c.exit => found.out[b] = c.globals
  <2>1. c.succs[c.exit] = {}
    BY DEF IsFunction
  <2> QED
    BY <2>1 DEF LiveSolution, LF!Joined, L!InitOut
<1>5. c.succs[b] \subseteq c.blocks
  BY CodeIs
<1> QED
  BY <1>1, <1>2, <1>3, <1>4, <1>5

-----------------------------------------------------------------------------
\* What the passes rely on goes on to hold.

Passed(c, m, i) == IsNext(c, m, i) /\ UsedVars(i) \subseteq DOMAIN m.env

\* The ways of a step after which a run goes on.
LEMMA Ways ==
  ASSUME NEW c, NEW inp, NEW m, NEW r, StepsTo(c, inp, m, r), r.status = "running"
  PROVE  \/ m.pc[2] = Len(c.code[m.pc[1]]) /\ \E s \in c.succs[m.pc[1]] : r = Moved(m, s)
         \/ \E i : /\ Passed(c, m, i) /\ r = Execute(c, inp, m, i)
                   /\ \/ /\ i.op = "BrIf" /\ m.pc[2] + 1 = Len(c.code[m.pc[1]])
                         /\ \E s \in c.succs[m.pc[1]] : r = Moved(m, s)
                      \/ i.op \in {"Copy", "Unary", "Binary", "FCall"} /\ Goes(c, i, m, r)
<1>1. CASE m.pc[2] = Len(c.code[m.pc[1]]) /\ \E s \in c.succs[m.pc[1]] : r = Moved(m, s)
  BY <1>1
<1>2. CASE \E i : IsNext(c, m, i) /\ r = Execute(c, inp, m, i) /\ Does(c, i, m, r)
  <2>1. PICK i : IsNext(c, m, i) /\ r = Execute(c, inp, m, i) /\ Does(c, i, m, r)
    BY <1>2
  <2>2. \A b, n, env, log, status, result :
          r = State(b, n, env, log, status, result) => r.status = status
    BY FieldsAre
  <2>3. UsedVars(i) \subseteq DOMAIN m.env
    BY <2>1, <2>2 DEF Does
  <2>4. \/ /\ i.op = "BrIf" /\ m.pc[2] + 1 = Len(c.code[m.pc[1]])
           /\ \E s \in c.succs[m.pc[1]] : r = Moved(m, s)
        \/ i.op \in {"Copy", "Unary", "Binary", "FCall"} /\ Goes(c, i, m, r)
    BY <2>1, <2>2, <2>3 DEF Does
  <2> QED
    BY <2>1, <2>3, <2>4 DEF Passed
<1> QED
  BY <1>1, <1>2 DEF StepsTo

\* The instruction, and where it stands.
LEMMA PassedIs ==
  ASSUME NEW c, IsFunction(c), NEW m, IsState(c, m), NEW i, Passed(c, m, i)
  PROVE  /\ m.pc[1] \in c.blocks /\ m.pc[2] + 1 \in 1 .. Len(c.code[m.pc[1]])
         /\ c.code[m.pc[1]][m.pc[2] + 1] \in Instructions(c)
         /\ c.code[m.pc[1]][m.pc[2] + 1].instr = i
         /\ IsInstruction(i) /\ UsedVars(i) \subseteq DOMAIN m.env
<1> DEFINE b == m.pc[1]
           k == m.pc[2] + 1
<1>1. b \in c.blocks /\ m.pc[2] \in 0 .. Len(c.code[b])
  BY StateIs
<1>2. Len(c.code[b]) \in Nat
  BY <1>1, CodeIs
<1>3. k \in 1 .. Len(c.code[b]) /\ i = c.code[b][k].instr
  BY <1>1, <1>2 DEF Passed, IsNext
<1> HIDE DEF b, k
<1>4. c.code[b][k] \in Instructions(c) /\ IsInstruction(c.code[b][k].instr)
  BY <1>1, <1>3, InstrIs
<1> QED
  BY <1>1, <1>3, <1>4 DEF Passed, b, k

LEMMA MovedIs ==
  ASSUME NEW m, NEW s, NEW r, r = Moved(m, s)
  PROVE  r.pc[1] = s /\ r.pc[2] = 0 /\ r.env = m.env /\ r.log = m.log /\ r.status = m.status
BY FieldsAre DEF Moved

LEMMA BranchWrites ==
  ASSUME NEW c, NEW i, IsInstruction(i), i.op = "BrIf"
  PROVE  Writes(c, i) = {} /\ def_of_instr(i) = {} /\ ~IsCall(i) /\ ~StoresThrough(i)
<1>1. def_of_instr(i) = {}
  BY DefIs
<1>2. ~IsCall(i) /\ ~StoresThrough(i)
  BY DEF IsCall, StoresThrough
<1> QED
  BY <1>1, <1>2 DEF Writes

\* What a copy does.
LEMMA CopyDone ==
  ASSUME NEW c, NEW inp, NEW m, IsRecord(m), NEW i, UsedVars(i) \subseteq DOMAIN m.env, i.op = "Copy",
         NEW r, r = Execute(c, inp, m, i)
  PROVE  /\ i.dst[1].kind = "Var" => r.env = Update(m.env, i.dst[1].name, Eval(m, i.srcs[1]))
         /\ i.dst[1].kind # "Var" =>
              /\ r.env = m.env
              /\ r.log = Append(m.log, Store(Address(m, i.dst[1]), Width(i.dst[1].t), Eval(m, i.srcs[1])))
<1>1. r = Assign(m, i.dst[1], Eval(m, i.srcs[1]))
  BY OperationIs
<1>2. PICK v : v = Eval(m, i.srcs[1])
  OBVIOUS
<1>3. /\ i.dst[1].kind = "Var" => r = Next1(m, Update(m.env, i.dst[1].name, v), m.log)
      /\ i.dst[1].kind # "Var" =>
           r = Next1(m, m.env, Append(m.log, Store(Address(m, i.dst[1]), Width(i.dst[1].t), v)))
  BY <1>1, <1>2, Assigned
<1>4. ASSUME NEW env, NEW log, r = Next1(m, env, log)
      PROVE  r.env = env /\ r.log = log
  BY <1>4, NextIs
<1> QED
  BY <1>2, <1>3, <1>4

\* A variable or store gets the value.
LEMMA CopyGives ==
  ASSUME NEW c, NEW inp, NEW m, IsRecord(m), IsEnv(m.env), IsLog(m.log),
         NEW i, IsInstruction(i), UsedVars(i) \subseteq DOMAIN m.env, i.op = "Copy",
         i.dst[1].kind = "Var", NEW r, r = Execute(c, inp, m, i)
  PROVE  r.env[i.dst[1].name] = Eval(m, i.srcs[1])
<1>1. r.env = Update(m.env, i.dst[1].name, Eval(m, i.srcs[1]))
  BY CopyDone
<1>2. Eval(m, i.srcs[1]) \in Ints(IntBits)
  BY OperandsFit
<1> QED
  BY <1>1, <1>2, UpdateIs

PairsHold(m, fact) ==
  \A pair \in fact : /\ pair = <<pair[1], pair[2]>>
                     /\ {pair[1], pair[2]} \subseteq DOMAIN m.env
                     /\ m.env[pair[1]] = m.env[pair[2]]

LEMMA CopiesHoldIs ==
  ASSUME NEW c, NEW found, NEW m
  PROVE  CopiesHold(c, found, m) <=> PairsHold(m, CopiesAt(c, found, m.pc[1], m.pc[2]))
BY DEF CopiesHold, PairsHold, CopiesAt

LEMMA CopiesKept ==
  ASSUME NEW c, IsFunction(c), NEW found, CopySolution(c, found), NEW inp, NEW m, IsState(c, m),
         CopiesHold(c, found, m), NEW r, StepsTo(c, inp, m, r), r.status = "running"
  PROVE  CopiesHold(c, found, r)
<1> DEFINE b == m.pc[1]
           n == m.pc[2]
<1>1. /\ b \in c.blocks /\ n \in 0 .. Len(c.code[b]) /\ IsRecord(m) /\ IsEnv(m.env) /\ IsLog(m.log)
      /\ Len(c.code[b]) \in Nat
  BY StateIs, CodeIs
<1>2. PairsHold(m, CopiesAt(c, found, b, n))
  BY CopiesHoldIs
<1>3. ASSUME NEW s \in c.succs[b], r = Moved(m, s), PairsHold(m, CopiesAt(c, found, b, Len(c.code[b])))
      PROVE  CopiesHold(c, found, r)
  <2>1. r.pc[1] = s /\ r.pc[2] = 0 /\ r.env = m.env
    BY <1>3, MovedIs
  <2>2. s \in c.blocks /\ Len(c.code[s]) \in Nat
    BY <1>1, CodeIs
  <2>3. CopiesAt(c, found, s, 0) = found.in[s]
    BY <2>2, CopiesCarried
  <2>4. found.in[s] \subseteq CopiesAt(c, found, b, Len(c.code[b]))
    BY <1>1, CopyEdges
  <2>5. PairsHold(r, CopiesAt(c, found, s, 0))
    BY <1>3, <2>1, <2>3, <2>4 DEF PairsHold
  <2> QED
    BY <2>1, <2>5, CopiesHoldIs
<1>4. CASE n = Len(c.code[b]) /\ \E s \in c.succs[b] : r = Moved(m, s)
  BY <1>2, <1>3, <1>4
<1>5. ASSUME NEW i, Passed(c, m, i)
      PROVE  /\ IsInstruction(i) /\ UsedVars(i) \subseteq DOMAIN m.env /\ n + 1 \in 1 .. Len(c.code[b])
             /\ CopiesAt(c, found, b, n + 1) =
                  {pair \in CopiesAt(c, found, b, n) : Range(pair) \cap Writes(c, i) = {}} \cup CopiesMade(i)
  <2> DEFINE k == n + 1
  <2>1. /\ IsInstruction(i) /\ UsedVars(i) \subseteq DOMAIN m.env /\ k \in 1 .. Len(c.code[b])
        /\ c.code[b][k].instr = i
    BY <1>5, PassedIs
  <2>2. k - 1 = n
    BY <1>1
  <2> HIDE DEF k
  <2>3. CopyStep(c, CopiesAt(c, found, b, k - 1), c.code[b][k], CopiesAt(c, found, b, k))
    BY <1>1, <2>1, CopiesCarried
  <2> DEFINE old == CopiesAt(c, found, b, k - 1)
             new == CopiesAt(c, found, b, k)
  <2> HIDE DEF old, new
  <2>4. new = {pair \in old : Range(pair) \cap Writes(c, i) = {}} \cup CopiesMade(i)
    BY <2>1, <2>3, CopyFlow DEF old, new
  <2> QED
    BY <2>1, <2>2, <2>4 DEF k, old, new
<1>6. ASSUME NEW i, Passed(c, m, i), i.op = "BrIf", n + 1 = Len(c.code[b]),
             NEW s \in c.succs[b], r = Moved(m, s)
      PROVE  CopiesHold(c, found, r)
  <2>1. Writes(c, i) = {} /\ CopiesMade(i) = {}
    BY <1>5, <1>6, BranchWrites DEF CopiesMade, IsVarCopy
  <2>2. CopiesAt(c, found, b, n + 1) \subseteq CopiesAt(c, found, b, n)
    BY <1>5, <1>6, <2>1
  <2>3. PairsHold(m, CopiesAt(c, found, b, Len(c.code[b])))
    BY <1>2, <1>6, <2>2 DEF PairsHold
  <2> QED
    BY <1>3, <1>6, <2>3
<1>7. ASSUME NEW i, Passed(c, m, i), r = Execute(c, inp, m, i), Goes(c, i, m, r)
      PROVE  CopiesHold(c, found, r)
  <2>1. /\ r.pc[1] = b /\ r.pc[2] = n + 1
        /\ DOMAIN r.env = DOMAIN m.env \cup def_of_instr(i)
        /\ \A x \in DOMAIN m.env : x \notin Writes(c, i) => r.env[x] = m.env[x]
    BY <1>7, GoesIs
  <2>2. ASSUME NEW pair \in CopiesAt(c, found, b, n), Range(pair) \cap Writes(c, i) = {}
        PROVE  /\ pair = <<pair[1], pair[2]>>
               /\ {pair[1], pair[2]} \subseteq DOMAIN r.env
               /\ r.env[pair[1]] = r.env[pair[2]]
    <3>1. PICK x, y : pair = <<x, y>> /\ x \in DOMAIN m.env /\ y \in DOMAIN m.env /\ m.env[x] = m.env[y]
      BY <1>2 DEF PairsHold
    <3>2. pair[1] = x /\ pair[2] = y /\ Range(pair) = {x, y}
      BY <3>1 DEF Range
    <3> QED
      BY <2>1, <2>2, <3>1, <3>2
  <2>3. ASSUME NEW pair \in CopiesMade(i)
        PROVE  /\ pair = <<pair[1], pair[2]>>
               /\ {pair[1], pair[2]} \subseteq DOMAIN r.env
               /\ r.env[pair[1]] = r.env[pair[2]]
    <3> DEFINE d == i.dst[1].name
               s == i.srcs[1].name
    <3>1. pair = <<d, s>> /\ IsVarCopy(i) /\ d # s
      BY <2>3 DEF CopiesMade
    <3>2. i.op = "Copy" /\ i.dst[1].kind = "Var" /\ i.srcs[1].kind = "Var"
      BY <3>1 DEF IsVarCopy
    <3>3. ~StoresThrough(i) /\ i.dst # << >>
      BY <1>5, <1>7, <3>2, ParametersAre DEF StoresThrough
    <3>4. def_of_instr(i) = {d}
      BY <1>5, <1>7, <3>2, <3>3, DefIs
    <3>5. s \in DOMAIN m.env
      <4>1. 1 \in 1 .. Len(i.srcs)
        BY <1>5, <1>7, <3>2, ParametersAre
      <4>2. s \in UsedVars(i)
        BY <1>5, <1>7, <3>2, <4>1, UsedIs
      <4> QED
        BY <1>5, <1>7, <4>2
    <3>6. Writes(c, i) = {d}
      BY <3>2, <3>4 DEF Writes, IsCall
    <3>7. r.env[d] = m.env[s]
      <4>1. r.env[d] = Eval(m, i.srcs[1])
        BY <1>1, <1>5, <1>7, <3>2, CopyGives
      <4> QED
        BY <3>2, <4>1, EvalIs
    <3>8. r.env[s] = m.env[s]
      BY <2>1, <3>1, <3>5, <3>6
    <3> HIDE DEF d, s
    <3>9. pair[1] = d /\ pair[2] = s
      BY <3>1
    <3> QED
      BY <2>1, <3>1, <3>4, <3>5, <3>7, <3>8, <3>9
  <2>4. PairsHold(r, CopiesAt(c, found, b, n + 1))
    BY <1>5, <1>7, <2>2, <2>3 DEF PairsHold
  <2> QED
    BY <2>1, <2>4, CopiesHoldIs
<1> QED
  BY <1>4, <1>6, <1>7, Ways

\* What the definitions of constants say of a state.
DefsHold(c, m, fact) ==
  \A x \in DOMAIN m.env :
    \E d \in fact : d[2] = x /\ \A v \in get_constants(c, d[1]) : m.env[x] = v.int

LEMMA ConstantsHoldIs ==
  ASSUME NEW c, NEW found, NEW m
  PROVE  ConstantsHold(c, found, m) <=> DefsHold(c, m, DefsAt(c, found, m.pc[1], m.pc[2]))
BY DEF ConstantsHold, DefsHold, DefsAt

\* The constant that an instruction assigns.
LEMMA ConstantIs ==
  ASSUME NEW c, DistinctIds(c), NEW li \in Instructions(c), NEW v \in get_constants(c, li.id)
  PROVE  li.instr.op = "Copy" /\ li.instr.srcs[1].kind = "Imm" /\ v = li.instr.srcs[1]
<1>1. PICK lj \in Instructions(c) :
        lj.id = li.id /\ lj.instr.op = "Copy" /\ lj.instr.srcs[1].kind = "Imm" /\ v = lj.instr.srcs[1]
  BY DEF get_constants
<1>2. lj = li
  BY <1>1, IdsDistinct
<1> QED
  BY <1>1, <1>2

LEMMA ConstantsKept ==
  ASSUME NEW c, IsFunction(c), DistinctIds(c), NEW found, ReachSolution(c, found),
         NEW inp, NEW m, IsState(c, m), ConstantsHold(c, found, m), NEW r, StepsTo(c, inp, m, r), r.status = "running"
  PROVE  ConstantsHold(c, found, r)
<1> DEFINE b == m.pc[1]
           n == m.pc[2]
<1>1. /\ b \in c.blocks /\ n \in 0 .. Len(c.code[b]) /\ IsRecord(m) /\ IsEnv(m.env) /\ IsLog(m.log)
      /\ Len(c.code[b]) \in Nat
  BY StateIs, CodeIs
<1>2. DefsHold(c, m, DefsAt(c, found, b, n))
  BY ConstantsHoldIs
<1>3. ASSUME NEW s \in c.succs[b], r = Moved(m, s), DefsHold(c, m, DefsAt(c, found, b, Len(c.code[b])))
      PROVE  ConstantsHold(c, found, r)
  <2>1. r.pc[1] = s /\ r.pc[2] = 0 /\ r.env = m.env
    BY <1>3, MovedIs
  <2>2. s \in c.blocks /\ Len(c.code[s]) \in Nat
    BY <1>1, CodeIs
  <2>3. DefsAt(c, found, s, 0) = found.in[s]
    BY <2>2, DefsCarried
  <2>4. DefsAt(c, found, b, Len(c.code[b])) \subseteq found.in[s]
    BY <1>1, DefEdges
  <2>5. DefsHold(c, r, DefsAt(c, found, s, 0))
    BY <1>3, <2>1, <2>3, <2>4 DEF DefsHold
  <2> QED
    BY <2>1, <2>5, ConstantsHoldIs
<1>4. CASE n = Len(c.code[b]) /\ \E s \in c.succs[b] : r = Moved(m, s)
  BY <1>2, <1>3, <1>4
<1>5. ASSUME NEW i, Passed(c, m, i)
      PROVE  /\ IsInstruction(i) /\ UsedVars(i) \subseteq DOMAIN m.env /\ n + 1 \in 1 .. Len(c.code[b])
             /\ \E li \in Instructions(c) :
                  /\ li.instr = i
                  /\ DefsAt(c, found, b, n + 1) =
                       {d \in DefsAt(c, found, b, n) : d[2] \notin Writes(c, i)}
                         \cup ({li.id} \X Writes(c, i))
  <2> DEFINE k == n + 1
  <2>1. /\ IsInstruction(i) /\ UsedVars(i) \subseteq DOMAIN m.env /\ k \in 1 .. Len(c.code[b])
        /\ c.code[b][k].instr = i /\ c.code[b][k] \in Instructions(c)
    BY <1>5, PassedIs
  <2>2. k - 1 = n
    BY <1>1
  <2> HIDE DEF k
  <2>3. DefStep(c, DefsAt(c, found, b, k - 1), c.code[b][k], DefsAt(c, found, b, k))
    BY <1>1, <2>1, DefsCarried
  <2> DEFINE old == DefsAt(c, found, b, k - 1)
             new == DefsAt(c, found, b, k)
             li  == c.code[b][k]
  <2> HIDE DEF old, new, li
  <2>4. new = {d \in old : d[2] \notin Writes(c, i)} \cup ({li.id} \X Writes(c, i))
    BY <2>1, <2>3, DefFlow DEF old, new, li
  <2>5. li \in Instructions(c) /\ li.instr = i
    BY <2>1 DEF li
  <2> QED
    BY <2>1, <2>2, <2>4, <2>5 DEF k, old, new
<1>6. ASSUME NEW i, Passed(c, m, i), i.op = "BrIf", n + 1 = Len(c.code[b]),
             NEW s \in c.succs[b], r = Moved(m, s)
      PROVE  ConstantsHold(c, found, r)
  <2>1. Writes(c, i) = {}
    BY <1>5, <1>6, BranchWrites
  <2>2. DefsAt(c, found, b, n) \subseteq DefsAt(c, found, b, n + 1)
    BY <1>5, <1>6, <2>1
  <2>3. DefsHold(c, m, DefsAt(c, found, b, Len(c.code[b])))
    BY <1>2, <1>6, <2>2 DEF DefsHold
  <2> QED
    BY <1>3, <1>6, <2>3
<1>7. ASSUME NEW i, Passed(c, m, i), r = Execute(c, inp, m, i), Goes(c, i, m, r)
      PROVE  ConstantsHold(c, found, r)
  <2>1. /\ r.pc[1] = b /\ r.pc[2] = n + 1
        /\ DOMAIN r.env = DOMAIN m.env \cup def_of_instr(i)
        /\ \A x \in DOMAIN m.env : x \notin Writes(c, i) => r.env[x] = m.env[x]
    BY <1>7, GoesIs
  <2>2. PICK li \in Instructions(c) :
          /\ li.instr = i
          /\ DefsAt(c, found, b, n + 1) =
               {d \in DefsAt(c, found, b, n) : d[2] \notin Writes(c, i)} \cup ({li.id} \X Writes(c, i))
    BY <1>5, <1>7
  <2>3. ASSUME NEW x \in DOMAIN r.env
        PROVE  \E d \in DefsAt(c, found, b, n + 1) :
                 d[2] = x /\ \A v \in get_constants(c, d[1]) : r.env[x] = v.int
    <3>1. CASE x \in Writes(c, i)
      <4>1. <<li.id, x>> \in DefsAt(c, found, b, n + 1)
        BY <2>2, <3>1
      <4>2. ASSUME NEW v \in get_constants(c, li.id)
            PROVE  r.env[x] = v.int
        <5>1. i.op = "Copy" /\ i.srcs[1].kind = "Imm" /\ v = i.srcs[1]
          BY <2>2, ConstantIs
        <5>2. x \in def_of_instr(i)
          BY <3>1, <5>1 DEF Writes, IsCall
        <5>3. ~StoresThrough(i) /\ i.dst # << >>
          BY <1>5, <1>7, <5>1, <5>2, DefIs, ParametersAre
        <5>4. i.dst[1].kind = "Var" /\ x = i.dst[1].name
          BY <1>5, <1>7, <5>1, <5>2, <5>3, DefIs
        <5>5. r.env[x] = Eval(m, i.srcs[1])
          BY <1>1, <1>5, <1>7, <5>1, <5>4, CopyGives
        <5> QED
          BY <5>1, <5>5, EvalIs
      <4> DEFINE d == <<li.id, x>>
      <4>3. d[1] = li.id /\ d[2] = x
        OBVIOUS
      <4> HIDE DEF d
      <4> QED
        BY <4>1, <4>2, <4>3 DEF d
    <3>2. CASE x \notin Writes(c, i)
      <4>1. x \in DOMAIN m.env /\ r.env[x] = m.env[x]
        BY <2>1, <3>2 DEF Writes
      <4>2. PICK d \in DefsAt(c, found, b, n) :
              d[2] = x /\ \A v \in get_constants(c, d[1]) : m.env[x] = v.int
        BY <1>2, <4>1 DEF DefsHold
      <4>3. d \in DefsAt(c, found, b, n + 1)
        BY <2>2, <3>2, <4>2
      <4> QED
        BY <4>1, <4>2, <4>3
    <3> QED
      BY <3>1, <3>2
  <2>4. DefsHold(c, r, DefsAt(c, found, b, n + 1))
    BY <2>3 DEF DefsHold
  <2> QED
    BY <2>1, <2>4, ConstantsHoldIs
<1> QED
  BY <1>4, <1>6, <1>7, Ways

\* What is known of loads.
AllHold(m, fact) == \A loc \in DOMAIN fact : LoadHolds(m, loc, fact[loc])

LEMMA LoadsHoldIs ==
  ASSUME NEW c, NEW found, NEW m
  PROVE  LoadsHold(c, found, m) <=> AllHold(m, LoadsAt(c, found, m.pc[1], m.pc[2]))
BY DEF LoadsHold, AllHold, LoadsAt

\* It stays true while the variables and the memory it is about stay as they are.
LEMMA LoadFrame ==
  ASSUME NEW m, NEW r, NEW loc, NEW v, LoadHolds(m, loc, v),
         loc.base \in DOMAIN r.env, r.env[loc.base] = m.env[loc.base],
         v.kind = "Var" => v.name \in DOMAIN r.env /\ r.env[v.name] = m.env[v.name],
         Load(r.log, m.env[loc.base] + loc.offset, Width(loc.t))
           = Load(m.log, m.env[loc.base] + loc.offset, Width(loc.t))
  PROVE  LoadHolds(r, loc, v)
<1> SUFFICES ASSUME v.kind # "Mem" PROVE LoadHolds(r, loc, v)
  BY DEF LoadHolds
<1>1. v.kind = "Imm" \/ (v.kind = "Var" /\ v = Var(v.name) /\ v.name \in DOMAIN m.env)
  BY DEF LoadHolds, IsVar
<1>2. Eval(r, v) = Eval(m, v)
  BY <1>1, EvalIs
<1>3. /\ loc.offset \in Int
      /\ Load(m.log, m.env[loc.base] + loc.offset, Width(loc.t)) = Eval(m, v)
      /\ v.kind = "Imm" \/ (IsVar(v) /\ v.name \in DOMAIN m.env)
  BY DEF LoadHolds
<1>4. Load(r.log, r.env[loc.base] + loc.offset, Width(loc.t)) = Eval(r, v)
  BY <1>2, <1>3
<1>5. v.kind = "Imm" \/ (IsVar(v) /\ v.name \in DOMAIN r.env)
  BY <1>1, <1>3
<1> QED
  BY <1>3, <1>4, <1>5 DEF LoadHolds

LEMMA Widths2 == \A t : Width(t) \in {4, 8}
BY DEF Width

\* A store changes what is loaded from where it stores, and from nowhere apart.
LEMMA StoreKeeps ==
  ASSUME NEW c, NEW inp, NEW m, IsRecord(m), IsEnv(m.env), IsLog(m.log),
         NEW i, IsInstruction(i), UsedVars(i) \subseteq DOMAIN m.env, StoresThrough(i),
         NEW r, r = Execute(c, inp, m, i), NEW fact, AllHold(m, fact),
         NEW new, LoadStored(fact, LocationOf(i.dst[1]), i.srcs[1], new)
  PROVE  AllHold(r, new)
<1> DEFINE x == i.dst[1].name
           o == i.dst[1].offset
           t == i.dst[1].t
           s == i.srcs[1]
           v == Eval(m, s)
           loc == LocationOf(i.dst[1])
           a == m.env[x] + o
           w == Width(t)
<1>1. loc.base = x /\ loc.offset = o /\ loc.t = t
  BY DEF LocationOf
<1>2. i.op = "Copy" /\ i.dst[1].kind = "Mem"
  BY DEF StoresThrough
<1>3. IsCopy(i) /\ o \in Int /\ (s.kind \in {"Imm", "Mem"} \/ IsVar(s))
  <2>1. IsCopy(i)
    BY <1>2 DEF IsInstruction, IsUnary, IsBinary, IsFCall, IsBrIf, IsReturn
  <2>2. IsOperand(i.dst[1]) /\ IsOperand(s)
    BY <1>2, <2>1 DEF IsCopy
  <2> QED
    BY <1>2, <2>1, <2>2 DEF IsOperand, IsVar
<1>4. /\ x \in DOMAIN m.env /\ a \in Int /\ w \in {4, 8} /\ v \in Ints(IntBits)
      /\ Address(m, i.dst[1]) = a
  BY <1>2, OperandsFit DEF Address
<1>5. r.env = m.env /\ r.log = Append(m.log, Store(a, w, v))
  BY <1>2, <1>4, CopyDone
<1>6. s.kind # "Imm" => s.name \in DOMAIN m.env
  <2>1. 1 \in 1 .. Len(i.srcs)
    BY <1>2, ParametersAre
  <2> QED
    BY <2>1, UsedIs
<1>7. /\ Load(r.log, a, w) = v
      /\ \A a2 \in Int : \A w2 \in {4, 8} :
           a2 + w2 <= a \/ a + w <= a2 => Load(r.log, a2, w2) = Load(m.log, a2, w2)
  <2> HIDE DEF a, w, v
  <2> QED
    BY <1>4, <1>5, StoreIs
<1>8. s.kind # "Mem" => Eval(r, s) = v
  <2>1. s.kind \in {"Imm", "Mem", "Var"}
    BY <1>3 DEF IsVar
  <2> QED
    BY <1>5, <2>1, EvalIs
<1>9. LoadHolds(r, loc, s)
  <2> SUFFICES ASSUME s.kind # "Mem" PROVE LoadHolds(r, loc, s)
    BY DEF LoadHolds
  <2>1. Load(r.log, r.env[loc.base] + loc.offset, Width(loc.t)) = Eval(r, s)
    BY <1>1, <1>5, <1>7, <1>8
  <2> HIDE DEF s, loc, x, o
  <2> QED
    BY <1>1, <1>3, <1>4, <1>5, <1>6, <2>1 DEF LoadHolds
<1>10. ASSUME NEW l \in Kept2(fact, loc)
       PROVE  LoadHolds(r, l, fact[l])
  <2> SUFFICES ASSUME fact[l].kind # "Mem" PROVE LoadHolds(r, l, fact[l])
    BY DEF LoadHolds
  <2>1. /\ l \in DOMAIN fact /\ l.base = x
        /\ l.offset + Width(l.t) <= o \/ o + w <= l.offset
    BY <1>1 DEF Kept2
  <2>2. LoadHolds(m, l, fact[l])
    BY <2>1 DEF AllHold
  <2>3. l.offset \in Int /\ (fact[l].kind = "Var" => fact[l].name \in DOMAIN m.env)
    BY <2>2 DEF LoadHolds
  <2>4. m.env[x] \in Int
    BY <1>4, SmallInts DEF IsEnv
  <2>5. Width(l.t) \in {4, 8}
    BY Widths2
  <2>6. Load(r.log, m.env[x] + l.offset, Width(l.t)) = Load(m.log, m.env[x] + l.offset, Width(l.t))
    <3> DEFINE a2 == m.env[x] + l.offset
               w2 == Width(l.t)
               e  == m.env[x]
    <3>1. a2 \in Int /\ (a2 + w2 <= a \/ a + w <= a2)
      <4>1. e \in Int /\ l.offset \in Int /\ w2 \in {4, 8} /\ w \in {4, 8} /\ o \in Int
        BY <1>3, <1>4, <2>3, <2>4, <2>5
      <4>2. l.offset + w2 <= o \/ o + w <= l.offset
        BY <2>1
      <4> HIDE DEF e, w2, w, o
      <4>3. e + l.offset + w2 <= e + o \/ e + o + w <= e + l.offset
        BY <4>1, <4>2
      <4> QED
        BY <4>1, <4>3 DEF e, w2, w, o
    <3> HIDE DEF a2, w2, a, w
    <3>2. Load(r.log, a2, w2) = Load(m.log, a2, w2)
      BY <1>7, <2>5, <3>1 DEF w2
    <3> QED
      BY <3>2 DEF a2, w2
  <2> HIDE DEF loc, x
  <2> QED
    BY <1>4, <1>5, <2>1, <2>2, <2>3, <2>6, LoadFrame
<1>11. /\ DOMAIN new = Kept2(fact, loc) \cup {loc}
       /\ new[loc] = s
       /\ \A l \in Kept2(fact, loc) : l # loc => new[l] = fact[l]
  BY DEF LoadStored
<1> HIDE DEF loc, s
<1> QED
  BY <1>9, <1>10, <1>11 DEF AllHold

LEMMA LoadsKept ==
  ASSUME NEW c, IsFunction(c), NEW found, LoadSolution(c, found), NEW inp, NEW m, IsState(c, m),
         LoadsHold(c, found, m), NEW r, StepsTo(c, inp, m, r), r.status = "running"
  PROVE  LoadsHold(c, found, r)
<1> DEFINE b == m.pc[1]
           n == m.pc[2]
<1>1. /\ b \in c.blocks /\ n \in 0 .. Len(c.code[b]) /\ IsRecord(m) /\ IsEnv(m.env) /\ IsLog(m.log)
      /\ Len(c.code[b]) \in Nat
  BY StateIs, CodeIs
<1>2. AllHold(m, LoadsAt(c, found, b, n))
  BY LoadsHoldIs
<1>3. ASSUME NEW s \in c.succs[b], r = Moved(m, s), AllHold(m, LoadsAt(c, found, b, Len(c.code[b])))
      PROVE  LoadsHold(c, found, r)
  <2>1. r.pc[1] = s /\ r.pc[2] = 0 /\ r.env = m.env /\ r.log = m.log
    BY <1>3, MovedIs
  <2>2. s \in c.blocks /\ Len(c.code[s]) \in Nat
    BY <1>1, CodeIs
  <2>3. LoadsAt(c, found, s, 0) = found.in[s]
    BY <2>2, LoadsCarried
  <2>4. ASSUME NEW loc \in DOMAIN found.in[s]
        PROVE  LoadHolds(r, loc, found.in[s][loc])
    <3> SUFFICES ASSUME found.in[s][loc].kind # "Mem" PROVE LoadHolds(r, loc, found.in[s][loc])
      BY DEF LoadHolds
    <3>1. LoadHolds(m, loc, found.in[s][loc])
      BY <1>1, <1>3, LoadEdges DEF AllHold
    <3>2. /\ loc.base \in DOMAIN m.env
          /\ found.in[s][loc].kind = "Var" => found.in[s][loc].name \in DOMAIN m.env
      BY <3>1 DEF LoadHolds
    <3> QED
      BY <2>1, <3>1, <3>2, LoadFrame
  <2>5. AllHold(r, LoadsAt(c, found, s, 0))
    BY <2>3, <2>4 DEF AllHold
  <2> QED
    BY <2>1, <2>5, LoadsHoldIs
<1>4. CASE n = Len(c.code[b]) /\ \E s \in c.succs[b] : r = Moved(m, s)
  BY <1>2, <1>3, <1>4
<1>5. ASSUME NEW i, Passed(c, m, i)
      PROVE  /\ IsInstruction(i) /\ UsedVars(i) \subseteq DOMAIN m.env /\ n + 1 \in 1 .. Len(c.code[b])
             /\ \E li : li.instr = i /\ LoadStep(c, LoadsAt(c, found, b, n), li, LoadsAt(c, found, b, n + 1))
  <2> DEFINE k == n + 1
  <2>1. /\ IsInstruction(i) /\ UsedVars(i) \subseteq DOMAIN m.env /\ k \in 1 .. Len(c.code[b])
        /\ c.code[b][k].instr = i
    BY <1>5, PassedIs
  <2>2. k - 1 = n
    BY <1>1
  <2> HIDE DEF k
  <2>3. LoadStep(c, LoadsAt(c, found, b, k - 1), c.code[b][k], LoadsAt(c, found, b, k))
    BY <1>1, <2>1, LoadsCarried
  <2>4. LoadStep(c, LoadsAt(c, found, b, n), c.code[b][k], LoadsAt(c, found, b, k))
    BY <2>2, <2>3
  <2> QED
    BY <2>1, <2>4 DEF k
<1> DEFINE old == LoadsAt(c, found, b, n)
           new == LoadsAt(c, found, b, n + 1)
<1>6. ASSUME NEW i, Passed(c, m, i), i.op = "BrIf", n + 1 = Len(c.code[b]),
             NEW s \in c.succs[b], r = Moved(m, s)
      PROVE  LoadsHold(c, found, r)
  <2>1. def_of_instr(i) = {} /\ ~IsCall(i) /\ ~StoresThrough(i)
    BY <1>5, <1>6, BranchWrites
  <2>2. PICK li : li.instr = i /\ LoadStep(c, old, li, new)
    BY <1>5, <1>6
  <2>3. new = old
    <3> HIDE DEF old, new
    <3> QED
      BY <2>1, <2>2, LoadFlow
  <2>4. AllHold(m, LoadsAt(c, found, b, Len(c.code[b])))
    BY <1>2, <1>6, <2>3
  <2> QED
    BY <1>3, <1>6, <2>4
<1>7. ASSUME NEW i, Passed(c, m, i), r = Execute(c, inp, m, i), Goes(c, i, m, r),
             i.op \in {"Copy", "Unary", "Binary", "FCall"}
      PROVE  LoadsHold(c, found, r)
  <2>1. /\ r.pc[1] = b /\ r.pc[2] = n + 1
        /\ DOMAIN r.env = DOMAIN m.env \cup def_of_instr(i)
        /\ \A x \in DOMAIN m.env : x \notin Writes(c, i) => r.env[x] = m.env[x]
        /\ i.op # "FCall" /\ ~StoresThrough(i) => r.log = m.log
    BY <1>7, GoesIs
  <2>2. PICK li : li.instr = i /\ LoadStep(c, old, li, new)
    BY <1>5, <1>7
  <2>3. AllHold(m, old)
    BY <1>2
  <2>4. AllHold(r, new)
    <3> HIDE DEF old, new
    <3>1. StoresThrough(i) => def_of_instr(i) = {}
      BY <1>5, <1>7, DefIs
    <3>2. CASE IsCall(i)
      <4>1. DOMAIN new = {}
        BY <2>2, <3>1, <3>2, LoadFlow
      <4> QED
        BY <4>1 DEF AllHold
    <3>3. CASE ~IsCall(i) /\ StoresThrough(i)
      <4>1. LoadStored(old, LocationOf(i.dst[1]), i.srcs[1], new)
        BY <2>2, <3>1, <3>3, LoadFlow
      <4> QED
        BY <1>1, <1>5, <1>7, <2>3, <3>3, <4>1, StoreKeeps
    <3>4. CASE ~IsCall(i) /\ ~StoresThrough(i)
      <4> DEFINE x == i.dst[1].name
      <4>1. i.op # "FCall" /\ Writes(c, i) = def_of_instr(i) /\ r.log = m.log
        BY <2>1, <3>4 DEF Writes, IsCall
      <4>2. i.dst # << >>
        BY <1>5, <1>7, <4>1, ParametersAre
      <4>3. def_of_instr(i) = {x}
        BY <1>5, <1>7, <3>4, <4>2, DefIs
      <4> HIDE DEF x
      <4>4. DOMAIN new = Kept1(old, x) /\ \A l \in Kept1(old, x) : new[l] = old[l]
        <5>1. def_of_instr(i) # {}
          BY <4>3
        <5>2. LoadAssigned(old, i.dst[1].name, new)
          BY <2>2, <3>1, <3>4, <5>1, LoadFlow
        <5> QED
          BY <5>2 DEF x, LoadAssigned
      <4>5. ASSUME NEW loc \in DOMAIN new
            PROVE  LoadHolds(r, loc, new[loc])
        <5>1. loc \in DOMAIN old /\ loc.base # x /\ old[loc] # Var(x) /\ new[loc] = old[loc]
          BY <4>4 DEF Kept1
        <5>2. PICK v : v = old[loc]
          OBVIOUS
        <5> SUFFICES ASSUME v.kind # "Mem" PROVE LoadHolds(r, loc, new[loc])
          BY <5>1, <5>2 DEF LoadHolds
        <5>3. LoadHolds(m, loc, v)
          BY <2>3, <5>1, <5>2 DEF AllHold
        <5>4. /\ loc.base \in DOMAIN m.env
              /\ v.kind = "Var" => v.name \in DOMAIN m.env /\ v.name # x
          BY <5>1, <5>2, <5>3 DEF LoadHolds, IsVar
        <5>5. /\ loc.base \in DOMAIN r.env /\ r.env[loc.base] = m.env[loc.base]
              /\ v.kind = "Var" => v.name \in DOMAIN r.env /\ r.env[v.name] = m.env[v.name]
          BY <2>1, <4>1, <4>3, <5>1, <5>4
        <5> QED
          BY <4>1, <5>1, <5>2, <5>3, <5>5, LoadFrame
      <4> QED
        BY <4>5 DEF AllHold
    <3> QED
      BY <3>2, <3>3, <3>4
  <2> QED
    BY <2>1, <2>4, LoadsHoldIs
<1> QED
  BY <1>4, <1>6, <1>7, Ways

-----------------------------------------------------------------------------
\* Constant folding.

\* What the folder computes is the one thing the program would have computed.
LEMMA FoldIs ==
  ASSUME NEW fn, NEW a \in Ints(IntBits), NEW b \in Ints(IntBits)
  PROVE  /\ fn \in BinaryFns /\ (fn \in {"And", "Or"} => a \in {0, 1} /\ b \in {0, 1}) =>
              /\ perform_binary_op(fn, a, b) = RunBinary(IntBits, fn, a, b)
              /\ \A v, w \in RunBinary(IntBits, fn, a, b) : v = w
         /\ fn \in UnaryFns =>
              /\ perform_unary_op(fn, a) \subseteq RunUnary(fn, a)
              /\ \A v, w \in RunUnary(fn, a) : v = w
<1>1. a \in F!Ints(IntBits) /\ b \in F!Ints(IntBits)
  BY SameArithmetic
<1>2. F!BitsAssumption
  BY BitsAssumption DEF F!BitsAssumption
<1>3. ASSUME fn \in BinaryFns, fn \in {"And", "Or"} => a \in {0, 1} /\ b \in {0, 1}
      PROVE  /\ perform_binary_op(fn, a, b) = RunBinary(IntBits, fn, a, b)
             /\ \A v, w \in RunBinary(IntBits, fn, a, b) : v = w
  <2>1. \/ fn \in F!Arithmetic \cup F!Comparisons
        \/ fn \in F!Logic /\ a \in {0, 1} /\ b \in {0, 1}
    BY <1>3, SameArithmetic DEF F!Logic
  <2>2. fn \in F!Arithmetic \cup F!Comparisons \cup F!Logic
    BY <1>3, SameArithmetic
  <2>3. F!perform_binary_op(fn, a, b) = F!RunBinary(IntBits, fn, a, b)
    BY <1>1, <1>2, <2>1, F!FoldedBinary, Zenon
  <2>4. \A v, w \in F!perform_binary_op(fn, a, b) : v = w
    BY <1>2, <2>2, F!FoldedOnce, Zenon
  <2> QED
    BY <2>3, <2>4, SameRuns
<1>4. ASSUME fn \in UnaryFns
      PROVE  /\ perform_unary_op(fn, a) \subseteq RunUnary(fn, a)
             /\ \A v, w \in RunUnary(fn, a) : v = w
  <2>1. fn \in F!Unaries
    BY <1>4, SameArithmetic
  <2>2. F!perform_unary_op(fn, a) =
          IF fn = "Wrap" /\ a \notin F!Ints(HalfBits) THEN {} ELSE F!RunUnary(fn, a)
    BY <1>1, <1>2, <2>1, F!FoldedUnary, Zenon
  <2>3. perform_unary_op(fn, a) \subseteq RunUnary(fn, a)
    BY <2>2, SameRuns
  <2>4. RunUnary(fn, a) = {Wrap(IntBits, 0 - a)} \/ RunUnary(fn, a) = {Bool(a = 0)}
          \/ RunUnary(fn, a) = {Wrap(HalfBits, a)}
    <3>1. RunBinary(IntBits, "Sub", 0, a) = {Wrap(IntBits, 0 - a)}
      BY Zenon DEF RunBinary, Comparisons
    <3>2. fn = "Neg" \/ fn = "Not" \/ fn = "Wrap"
      BY <1>4 DEF UnaryFns
    <3> QED
      BY <3>1, <3>2, Zenon DEF RunUnary
  <2>5. \A v, w \in RunUnary(fn, a) : v = w
    BY <2>4
  <2> QED
    BY <2>3, <2>5
<1> QED
  BY <1>3, <1>4

\* Nothing is added or taken away.
LEMMA PlusZero ==
  ASSUME NEW a \in Ints(IntBits), NEW fn \in {"Add", "Sub"}
  PROVE  RunBinary(IntBits, fn, a, 0) = {a}
<1>1. a \in Int
  BY SmallInts
<1>2. a + 0 = a /\ a - 0 = a
  BY <1>1
<1>3. Wrap(IntBits, a) = a
  <2>1. a \in F!Ints(IntBits)
    BY SameArithmetic
  <2>2. F!Wrap(IntBits, a) = a
    BY <2>1, BitsAssumption, F!WrapInRange, Zenon
  <2> QED
    BY <2>2, Zenon DEF Wrap, MinInt, F!Wrap, F!MinInt
<1>4. fn = "Add" => RunBinary(IntBits, fn, a, 0) = {Wrap(IntBits, a + 0)}
  BY Zenon DEF RunBinary, Comparisons
<1>5. fn = "Sub" => RunBinary(IntBits, fn, a, 0) = {Wrap(IntBits, a - 0)}
  BY Zenon DEF RunBinary, Comparisons
<1> QED
  BY <1>2, <1>3, <1>4, <1>5

\* An assignment of what an operation would give.
LEMMA ComputedAlike ==
  ASSUME NEW c, NEW inp, NEW m, IsRecord(m), NEW i, UsedVars(i) \subseteq DOMAIN m.env,
         NEW d, IsVar(d), NEW s, IsOperand(s), Assigns(m, s), NEW j, j = Copy(d, s),
         NEW results, results = {Eval(m, s)}, Execute(c, inp, m, i) = Compute(m, d, results)
  PROVE  Alike(c, inp, m, i, j)
<1>1. IsOperand(d) /\ d.kind = "Var"
  BY DEF IsVar, IsOperand
<1>2. IsCopied(j) /\ j.op = "Copy" /\ j.dst[1] = d /\ j.srcs[1] = s
  BY <1>1, CopyIs
<1>3. UsedVars(j) \subseteq DOMAIN m.env
  BY <1>1, <1>2, CopyUses
<1>4. Execute(c, inp, m, j) = Assign(m, d, Eval(m, s))
  BY <1>2, <1>3, OperationIs
<1>5. Compute(m, d, results) = Assign(m, d, Eval(m, s))
  BY ComputeIs
<1> QED
  BY <1>3, <1>4, <1>5 DEF Alike

LEMMA FoldedAlike ==
  ASSUME NEW c, NEW inp, NEW m, IsRecord(m), IsEnv(m.env), IsLog(m.log),
         NEW i, IsInstruction(i), UsedVars(i) \subseteq DOMAIN m.env, NEW j \in Folded(i)
  PROVE  Alike(c, inp, m, i, j)
<1> DEFINE AllImm == \A v \in Range(i.srcs) : v.kind = "Imm"
           d == i.dst[1]
           s == i.srcs[1]
           a == i.srcs[1].int
           b == i.srcs[2].int
<1>1. \A k \in 1 .. Len(i.srcs) : i.srcs[k] \in Range(i.srcs)
  BY ParametersAre DEF AreOperands, IsSeq, Range
<1>2. /\ i.op = "Binary" =>
           /\ Len(i.srcs) = 2 /\ IsVar(d) /\ IsOperand(s) /\ IsOperand(i.srcs[2]) /\ i.fn \in BinaryFns
           /\ AllImm => /\ s.kind = "Imm" /\ i.srcs[2].kind = "Imm"
                        /\ i.fn \in {"And", "Or"} => a \in {0, 1} /\ b \in {0, 1}
      /\ i.op = "Unary" =>
           /\ Len(i.srcs) = 1 /\ IsVar(d) /\ IsOperand(s) /\ i.fn \in UnaryFns
           /\ AllImm => s.kind = "Imm"
  <2>1. i.op = "Binary" => IsBinary(i)
    BY DEF IsInstruction, IsCopy, IsUnary, IsFCall, IsBrIf, IsReturn
  <2>2. i.op = "Unary" => IsUnary(i)
    BY DEF IsInstruction, IsCopy, IsBinary, IsFCall, IsBrIf, IsReturn
  <2>3. /\ i.op = "Binary" => Len(i.srcs) = 2
        /\ i.op = "Unary" => Len(i.srcs) = 1
    BY ParametersAre
  <2>4. i.op = "Binary" => i.srcs[1] \in Range(i.srcs) /\ i.srcs[2] \in Range(i.srcs)
    BY <1>1, <2>3
  <2>5. i.op = "Unary" => i.srcs[1] \in Range(i.srcs)
    BY <1>1, <2>3
  <2>6. i.op = "Binary" /\ AllImm => s.kind = "Imm" /\ i.srcs[2].kind = "Imm"
    BY <2>4
  <2>7. i.op = "Unary" /\ AllImm => s.kind = "Imm"
    BY <2>5
  <2> HIDE DEF AllImm
  <2> QED
    BY <2>1, <2>2, <2>3, <2>6, <2>7 DEF IsBinary, IsUnary, BinaryFns, UnaryFns
<1>3. \A v : IsOperand(v) /\ v.kind = "Imm" => v.int \in Ints(IntBits)
  BY DEF IsOperand
<1>4. ASSUME NEW r \in Ints(IntBits), j = Copy(d, Imm(r, i.t)), IsVar(d),
             NEW results, r \in results, \A v, w \in results : v = w,
             Execute(c, inp, m, i) = Compute(m, d, results)
      PROVE  Alike(c, inp, m, i, j)
  <2> DEFINE v == Imm(r, i.t)
  <2>1. IsOperand(v) /\ Assigns(m, v) /\ v.kind = "Imm" /\ v.int = r
    BY <1>4 DEF IsOperand, Imm, Assigns
  <2>2. Eval(m, v) = r
    BY <2>1, EvalIs
  <2>3. results = {r}
    BY <1>4
  <2>4. j = Copy(d, v)
    BY <1>4
  <2> HIDE DEF v, d
  <2> QED
    BY <1>4, <2>1, <2>2, <2>3, <2>4, ComputedAlike
<1>5. CASE i.op = "Binary" /\ AllImm
  <2>1. Folded(i) = {Copy(d, Imm(r, i.t)) : r \in perform_binary_op(i.fn, a, b)}
    BY <1>5, Zenon DEF Folded
  <2>2. PICK r \in perform_binary_op(i.fn, a, b) : j = Copy(d, Imm(r, i.t))
    BY <2>1
  <2>3. a \in Ints(IntBits) /\ b \in Ints(IntBits) /\ Eval(m, s) = a /\ Eval(m, i.srcs[2]) = b
    BY <1>2, <1>3, <1>5, EvalIs
  <2>4. Execute(c, inp, m, i) = Compute(m, d, RunBinary(IntBits, i.fn, a, b))
    BY <1>5, <2>3, OperationIs
  <2> HIDE DEF a, b, d, s
  <2>5. /\ perform_binary_op(i.fn, a, b) = RunBinary(IntBits, i.fn, a, b)
        /\ \A v, w \in RunBinary(IntBits, i.fn, a, b) : v = w
    BY <1>2, <1>5, <2>3, FoldIs
  <2>6. r \in Ints(IntBits)
    BY <1>2, <1>5, <2>2, <2>3, <2>5, Computed
  <2> QED
    BY <1>2, <1>4, <1>5, <2>2, <2>4, <2>5, <2>6
<1>6. CASE i.op = "Unary" /\ AllImm
  <2>1. Folded(i) = {Copy(d, Imm(r, i.t)) : r \in perform_unary_op(i.fn, a)}
    BY <1>6, Zenon DEF Folded
  <2>2. PICK r \in perform_unary_op(i.fn, a) : j = Copy(d, Imm(r, i.t))
    BY <2>1
  <2>3. a \in Ints(IntBits) /\ Eval(m, s) = a
    BY <1>2, <1>3, <1>6, EvalIs
  <2>4. Execute(c, inp, m, i) = Compute(m, d, RunUnary(i.fn, a))
    BY <1>6, <2>3, OperationIs
  <2> HIDE DEF a, d, s
  <2>5. /\ perform_unary_op(i.fn, a) \subseteq RunUnary(i.fn, a)
        /\ \A v, w \in RunUnary(i.fn, a) : v = w
    BY <1>2, <1>6, <2>3, FoldIs
  <2>6. r \in Ints(IntBits)
    BY <1>2, <1>6, <2>2, <2>3, <2>5, Computed
  <2> QED
    BY <1>2, <1>4, <1>6, <2>2, <2>4, <2>5, <2>6
<1>7. CASE i.op = "Binary" /\ ~AllImm
  <2>1. i.fn \in {"Add", "Sub"} /\ i.srcs[2].kind = "Imm" /\ b = 0 /\ j = Copy(d, s)
    <3>1. (i.fn \in {"Add", "Sub"} /\ i.srcs[2].kind = "Imm" /\ b = 0) \/ Folded(i) = {}
      BY <1>7, Zenon DEF Folded
    <3>2. i.fn \in {"Add", "Sub"} /\ i.srcs[2].kind = "Imm" /\ b = 0 => Folded(i) = {Copy(d, s)}
      BY <1>7, Zenon DEF Folded
    <3> QED
      BY <3>1, <3>2
  <2>2. Eval(m, i.srcs[2]) = 0
    BY <2>1, EvalIs
  <2>3. Eval(m, s) \in Ints(IntBits)
    BY <1>7, OperandsFit
  <2>4. RunBinary(IntBits, i.fn, Eval(m, s), 0) = {Eval(m, s)}
    BY <2>1, <2>3, PlusZero
  <2>5. Execute(c, inp, m, i) = Compute(m, d, {Eval(m, s)})
    BY <1>7, <2>2, <2>4, OperationIs
  <2>6. Assigns(m, s)
    <3>1. 1 \in 1 .. Len(i.srcs)
      BY <1>2, <1>7
    <3> QED
      BY <3>1, UsedIs DEF Assigns
  <2> HIDE DEF s, d
  <2> QED
    BY <1>2, <1>7, <2>1, <2>5, <2>6, ComputedAlike
<1>8. i.op \in {"Binary", "Unary"} /\ (i.op = "Unary" => AllImm)
  <2>1. ASSUME ~(i.op \in {"Binary", "Unary"} /\ (i.op = "Unary" => AllImm))
        PROVE  Folded(i) = {}
    BY <2>1, Zenon DEF Folded
  <2> QED
    BY <2>1
<1> QED
  BY <1>5, <1>6, <1>7, <1>8

\* A folded instruction, or the instruction itself.
LEMMA FoldingAlike ==
  ASSUME NEW c, NEW inp, NEW m, IsRecord(m), IsEnv(m.env), IsLog(m.log), NEW b, NEW n,
         NEW i, i = c.code[b][n].instr, IsInstruction(i), UsedVars(i) \subseteq DOMAIN m.env,
         NEW j, j = constant_folding(c, b, n)[1]
  PROVE  Alike(c, inp, m, i, j)
<1>1. CASE Folded(i) = {}
  <2>1. j = i
    BY <1>1 DEF constant_folding
  <2> QED
    BY <2>1 DEF Alike
<1>2. CASE Folded(i) # {}
  <2>1. j = CHOOSE k \in Folded(i) : TRUE
    BY <1>2 DEF constant_folding
  <2>2. j \in Folded(i)
    BY <1>2, <2>1
  <2> QED
    BY <2>2, FoldedAlike
<1> QED
  BY <1>1, <1>2

-----------------------------------------------------------------------------
\* The instruction that each pass puts in the place of another does the same.

LEMMA InstructionsAre ==
  ASSUME NEW c, IsFunction(c), NEW li \in Instructions(c)
  PROVE  IsInstruction(li.instr)
<1>1. PICK b \in c.blocks : li \in Range(c.code[b])
  BY DEF Instructions
<1>2. DOMAIN c.code[b] = 1 .. Len(c.code[b])
  BY <1>1, CodeIs
<1>3. PICK n \in 1 .. Len(c.code[b]) : li = c.code[b][n]
  BY <1>1, <1>2 DEF Range
<1> QED
  BY <1>1, <1>3, InstrIs

\* A copy that is available is of the value that the variable has.
LEMMA CopiesAlike ==
  ASSUME NEW c, NEW found, NEW inp, NEW m, IsRecord(m), IsEnv(m.env), NEW b, NEW n,
         PairsHold(m, CopiesAt(c, found, b, n - 1)),
         NEW i, i = c.code[b][n].instr, IsInstruction(i), UsedVars(i) \subseteq DOMAIN m.env,
         NEW j, j = copy_propagation(c, found, b, n)[1]
  PROVE  ~Assignable(j) \/ Alike(c, inp, m, i, j)
<1> DEFINE available == CopiesAt(c, found, b, n - 1)
           subst == [x \in UsedVars(i) |-> {Var(pair[2]) : pair \in {p \in available : p[1] = x}}]
<1>1. A!instr_fact(c, b, n, found.in[b]) = available
  BY DEF A!instr_fact, A!Direction, CopiesAt
<1>2. j = ForEachUse("copy", subst, i)[1]
  BY <1>1, Zenon DEF copy_propagation
<1>3. ASSUME NEW x \in UsedVars(i), NEW val \in subst[x]
      PROVE  Stands(m, x, val)
  <2>1. PICK pair \in available : pair[1] = x /\ val = Var(pair[2])
    BY <1>3
  <2>2. pair[1] \in DOMAIN m.env /\ pair[2] \in DOMAIN m.env /\ m.env[pair[1]] = m.env[pair[2]]
    BY <2>1 DEF PairsHold
  <2>3. val.kind = "Var" /\ val = Var(val.name) /\ val.name = pair[2]
    BY <2>1 DEF Var
  <2>4. Eval(m, val) = m.env[x]
    BY <2>1, <2>2, <2>3, EvalIs
  <2> QED
    BY <2>1, <2>2, <2>3, <2>4 DEF Stands
<1> HIDE DEF subst
<1>4. \A x \in UsedVars(i) : \A val \in subst[x] : Stands(m, x, val)
  BY <1>3
<1> QED
  BY <1>2, <1>4, SubstitutedAlike

\* If all definitions that reach the instruction agree on a constant, so does the one
\* that the variable has its value from.
LEMMA ConstantsAlike ==
  ASSUME NEW c, IsFunction(c), NEW found, NEW inp, NEW m, IsRecord(m), IsEnv(m.env), NEW b, NEW n,
         DefsHold(c, m, DefsAt(c, found, b, n - 1)),
         NEW i, i = c.code[b][n].instr, IsInstruction(i), UsedVars(i) \subseteq DOMAIN m.env,
         NEW j, j = constant_propagation(c, found, b, n)[1]
  PROVE  ~Assignable(j) \/ Alike(c, inp, m, i, j)
<1> DEFINE reach == DefsAt(c, found, b, n - 1)
           subst == [x \in UsedVars(i) |-> ConstantOf(c, use_def(c, found, b, n, x))]
<1>1. R!instr_fact(c, b, n, found.in[b]) = reach
  BY DEF R!instr_fact, R!Direction, DefsAt
<1>2. j = ForEachUse("cp", subst, i)[1]
  BY Zenon DEF constant_propagation
<1>3. ASSUME NEW x \in UsedVars(i), NEW val \in subst[x]
      PROVE  Stands(m, x, val)
  <2> DEFINE defs == use_def(c, found, b, n, x)
             values == UNION {get_constants(c, d[1]) : d \in defs}
  <2>1. defs = {d \in reach : d[2] = x}
    BY <1>1, Zenon DEF use_def
  <2>2. val \in ConstantOf(c, defs)
    BY <1>3
  <2>3. (\A d \in defs : get_constants(c, d[1]) # {}) /\ values = {val}
    BY <2>2 DEF ConstantOf
  <2>4. x \in DOMAIN m.env
    BY <1>3
  <2>5. PICK d \in reach : d[2] = x /\ \A v \in get_constants(c, d[1]) : m.env[x] = v.int
    BY <2>4 DEF DefsHold
  <2>6. d \in defs
    BY <2>1, <2>5
  <2> HIDE DEF defs
  <2>7. val \in get_constants(c, d[1])
    BY <2>3, <2>6
  <2>8. m.env[x] = val.int
    BY <2>5, <2>7
  <2>9. PICK li \in Instructions(c) :
          li.instr.op = "Copy" /\ li.instr.srcs[1].kind = "Imm" /\ val = li.instr.srcs[1]
    BY <2>7 DEF get_constants
  <2>10. IsOperand(val)
    <3>1. IsInstruction(li.instr)
      BY InstructionsAre
    <3>2. AreOperands(li.instr.srcs) /\ Len(li.instr.srcs) = 1
      BY <2>9, <3>1, ParametersAre
    <3> QED
      BY <2>9, <3>2 DEF AreOperands
  <2>11. val.kind = "Imm" /\ val = Imm(val.int, val.t) /\ val.int \in Ints(IntBits)
    BY <2>9, <2>10 DEF IsOperand
  <2> QED
    BY <2>4, <2>8, <2>11, EvalIs DEF Stands
<1> HIDE DEF subst
<1>4. \A x \in UsedVars(i) : \A val \in subst[x] : Stands(m, x, val)
  BY <1>3
<1> QED
  BY <1>2, <1>4, SubstitutedAlike

\* The value that is known of a location is what a load from there gives.
LEMMA LoadsAlike ==
  ASSUME NEW c, NEW found, NEW inp, NEW m, IsRecord(m), IsEnv(m.env), NEW b, NEW n,
         AllHold(m, LoadsAt(c, found, b, n - 1)), LoadsValues(c, found),
         b \in c.blocks, n \in 1 .. Len(c.code[b]),
         NEW i, i = c.code[b][n].instr, IsInstruction(i), UsedVars(i) \subseteq DOMAIN m.env,
         NEW j, j = store_to_load_forwarding(c, found, b, n)[1]
  PROVE  Alike(c, inp, m, i, j)
<1> DEFINE known == LoadsAt(c, found, b, n - 1)
           loc == M!Location(i.srcs[1])
<1>1. M!instr_fact(c, b, n, found.in[b]) = known
  BY DEF M!instr_fact, M!Direction, LoadsAt
<1>2. \/ j = i
      \/ M!IsLoad(i) /\ loc \in DOMAIN known /\ j = [i EXCEPT !.srcs = <<known[loc]>>]
  <2>1. store_to_load_forwarding(c, found, b, n) =
          IF M!IsLoad(i) /\ loc \in DOMAIN known
          THEN <<[i EXCEPT !.srcs = <<known[loc]>>], TRUE>>
          ELSE <<i, FALSE>>
    BY <1>1, Zenon DEF store_to_load_forwarding
  <2> HIDE DEF known, loc
  <2> QED
    BY <2>1
<1>3. CASE j = i
  BY <1>3 DEF Alike
<1>4. CASE M!IsLoad(i) /\ loc \in DOMAIN known /\ j = [i EXCEPT !.srcs = <<known[loc]>>]
  <2> DEFINE v == known[loc]
             s == i.srcs[1]
             d == i.dst[1]
  <2>1. i.op = "Copy" /\ s.kind = "Mem"
    BY <1>4 DEF M!IsLoad
  <2>2. IsCopy(i)
    BY <2>1 DEF IsInstruction, IsUnary, IsBinary, IsFCall, IsBrIf, IsReturn
  <2>3. i = Copy(d, s) /\ d.kind \in {"Var", "Mem"}
    BY <2>1, <2>2 DEF IsCopy, IsOperand
  <2>4. LoadHolds(m, loc, v) /\ v.kind # "Mem"
    BY <1>1, <1>4 DEF AllHold, LoadsValues
  <2>5. loc.base = s.name /\ loc.offset = s.offset /\ loc.t = s.t
    BY DEF M!Location
  <2>6. d.kind = "Mem" => d.name \in DOMAIN m.env
    BY <2>1, UsedIs DEF StoresThrough
  <2> HIDE DEF loc, v
  <2>7. /\ v.kind = "Imm" \/ (v.kind = "Var" /\ v.name \in DOMAIN m.env)
        /\ Load(m.log, m.env[loc.base] + loc.offset, Width(loc.t)) = Eval(m, v)
    BY <2>4 DEF LoadHolds, IsVar
  <2>8. Eval(m, s) = Eval(m, v)
    <3>1. Eval(m, s) = Load(m.log, m.env[s.name] + s.offset, Width(s.t))
      BY <2>1, EvalIs, Zenon
    <3> HIDE DEF s
    <3> QED
      BY <2>5, <2>7, <3>1
  <2>9. j = Copy(d, v)
    <3>1. j = [i EXCEPT !.srcs = <<v>>]
      BY <1>4 DEF v
    <3> HIDE DEF d, s
    <3> QED
      BY <2>3, <3>1 DEF Copy
  <2> HIDE DEF d, s
  <2>10. j.op = "Copy" /\ j.dst = <<d>> /\ j.srcs = <<v>> /\ j.dst[1] = d /\ j.srcs[1] = v
    BY <2>9 DEF Copy
  <2>11. UsedVars(j) \subseteq DOMAIN m.env
    <3>1. CASE d.kind = "Var"
      <4>1. Operands(j) = j.srcs \o << >>
        BY <2>10, <3>1 DEF Operands
      <4>2. <<v>> \o << >> = <<v>>
        OBVIOUS
      <4> QED
        BY <2>7, <2>10, <4>1, <4>2 DEF UsedVars, Range
    <3>2. CASE d.kind = "Mem"
      <4>1. Operands(j) = j.srcs \o j.dst
        BY <2>10, <3>2 DEF Operands
      <4>2. <<v>> \o <<d>> = <<v, d>>
        BY PairJoined
      <4>3. Operands(j) = <<v, d>>
        BY <2>10, <4>1, <4>2
      <4>4. Range(<<v, d>>) = {v, d}
        BY DEF Range
      <4>5. UsedVars(j) = {w.name : w \in {u \in {v, d} : u.kind # "Imm"}}
        BY <4>3, <4>4, Zenon DEF UsedVars
      <4> QED
        BY <2>6, <2>7, <3>2, <4>5
    <3> QED
      BY <2>3, <3>1, <3>2
  <2>12. i.dst[1] = d /\ i.srcs[1] = s
    BY DEF d, s
  <2> QED
    BY <2>1, <2>8, <2>10, <2>11, <2>12, CopyAlike
<1> QED
  BY <1>2, <1>3, <1>4

LEMMA MemKept ==
  ASSUME NEW v, NEW x, NEW base, NEW offset, v.kind = "Mem" => v.name # x
  PROVE  SubstEachMem(<<v>>, x, base, offset) = <<v>>
BY DEF SubstEachMem, SubstMem

\* A base pointer is replaced only in a copy through the base that it is derived from,
\* and most copies go through no other pointer.
LEMMA PointersAlike ==
  ASSUME NEW c, NEW found, NEW b, NEW n, ~ThroughItsBase(c, found, b, n),
         NEW i, i = c.code[b][n].instr, IsInstruction(i),
         NEW j, j = pointer_propagation(c, found, b, n)[1]
  PROVE  j = i
<1> DEFINE known == P!instr_fact(c, b, n, found.in[b])
           subst == [x \in UsedVars(i) |-> IF IsDerived(known, x) THEN {known[x]} ELSE {}]
           N == Len(Operands(i))
<1>1. j = ForEachUse("ptr", subst, i)[1]
  BY Zenon DEF pointer_propagation
<1>2. \A x \in UsedVars(i) : \A val \in subst[x] :
        val[1] # x /\ IsDerived(known, x) /\ val = known[x]
  BY DEF IsDerived
<1>0. ASSUME NEW x \in UsedVars(i), NEW val \in subst[x], CopiesThrough(i, val[1])
      PROVE  ~CopiesMemory(i)
  BY <1>0, <1>2 DEF ThroughItsBase
<1> HIDE DEF subst, known
<1>3. N \in Nat
  BY OperandsAre DEF AreOperands, IsSeq
<1>4. PICK done : IsVisited("ptr", subst, i, done)
  BY <1>3, Visits
<1>5. /\ done[0] = <<i, FALSE>>
      /\ \A k \in 1 .. N :
           done[k] = IF Operands(i)[k].kind = "Imm" THEN done[k - 1]
                     ELSE VisitUse("ptr", subst, done[k - 1], Operands(i)[k].name)
      /\ ForEachUse("ptr", subst, i) = done[N]
  BY <1>4 DEF IsVisited
<1>6. ASSUME NEW x, NEW base, NEW offset, base # x, CopiesThrough(i, base), ~CopiesMemory(i)
      PROVE  rewrite_mem_instr(i, x, base, offset) = i
  <2> DEFINE d == i.dst[1]
             s == i.srcs[1]
  <2>1. i.op = "Copy"
    BY <1>6 DEF CopiesThrough
  <2>2. IsCopy(i)
    BY <2>1 DEF IsInstruction, IsUnary, IsBinary, IsFCall, IsBrIf, IsReturn
  <2>3. i = Copy(d, s) /\ (s.kind = "Mem" => d.kind # "Mem")
    BY <1>6, <2>2 DEF IsCopy, CopiesMemory
  <2>4. (s.kind = "Mem" => s.name # x) /\ (d.kind = "Mem" => d.name # x)
    BY <1>6, <2>3 DEF CopiesThrough
  <2> DEFINE reads == [i EXCEPT !.srcs = SubstEachMem(i.srcs, x, base, offset)]
  <2>5. rewrite_mem_instr(i, x, base, offset) = [reads EXCEPT !.dst = SubstEachMem(i.dst, x, base, offset)]
    BY <2>1, Zenon DEF rewrite_mem_instr
  <2> HIDE DEF d, s, reads
  <2>6. i.srcs = <<s>> /\ i.dst = <<d>>
    BY <2>3 DEF Copy
  <2>7. SubstEachMem(i.srcs, x, base, offset) = i.srcs /\ SubstEachMem(i.dst, x, base, offset) = i.dst
    BY <2>4, <2>6, MemKept
  <2>8. reads = i
    BY <2>3, <2>6, <2>7 DEF reads, Copy
  <2> QED
    BY <2>3, <2>5, <2>6, <2>7, <2>8 DEF Copy
<1> DEFINE S == {k \in 0 .. N : done[k][1] = i}
<1>7. 0 \in S
  BY <1>3, <1>5
<1>8. ASSUME NEW k \in 1 .. N, k - 1 \in S PROVE k \in S
  <2> DEFINE x == Operands(i)[k].name
  <2>1. done[k - 1][1] = i /\ k \in 0 .. N
    BY <1>3, <1>8
  <2>2. CASE Operands(i)[k].kind = "Imm"
    <3>1. done[k] = done[k - 1]
      BY <1>5, <2>2
    <3> QED
      BY <2>1, <3>1
  <2>3. CASE Operands(i)[k].kind # "Imm"
    <3>1. done[k] = VisitUse("ptr", subst, done[k - 1], x)
      BY <1>5, <2>3
    <3>2. x \in UsedVars(i)
      BY <2>3, UsedIs
    <3> HIDE DEF x, N
    <3>3. CASE done[k] = done[k - 1]
      BY <2>1, <3>3
    <3>4. CASE \E val \in subst[x] :
                 /\ CopiesThrough(done[k - 1][1], val[1])
                 /\ done[k] = <<rewrite_mem_instr(done[k - 1][1], x, val[1], val[2]), TRUE>>
      <4>1. PICK val \in subst[x] :
              /\ CopiesThrough(done[k - 1][1], val[1])
              /\ done[k] = <<rewrite_mem_instr(done[k - 1][1], x, val[1], val[2]), TRUE>>
        BY <3>4
      <4>2. val[1] # x /\ CopiesThrough(i, val[1]) /\ ~CopiesMemory(i)
        BY <1>0, <1>2, <2>1, <3>2, <4>1
      <4>3. done[k] = <<rewrite_mem_instr(i, x, val[1], val[2]), TRUE>>
        BY <2>1, <4>1, Zenon
      <4>4. done[k] = <<i, TRUE>>
        BY <1>6, <4>2, <4>3
      <4> QED
        BY <2>1, <4>4
    <3>5. \/ VisitUse("ptr", subst, done[k - 1], x) = done[k - 1]
          \/ \E val \in subst[x] :
               /\ CopiesThrough(done[k - 1][1], val[1])
               /\ VisitUse("ptr", subst, done[k - 1], x)
                    = <<rewrite_mem_instr(done[k - 1][1], x, val[1], val[2]), TRUE>>
      BY VisitIs
    <3> HIDE DEF S
    <3> QED
      BY <3>1, <3>3, <3>4, <3>5, Zenon
  <2> QED
    BY <2>2, <2>3
<1> HIDE DEF S
<1>9. 0 .. N \subseteq S
  BY <1>3, <1>7, <1>8, UpTo
<1>10. N \in S
  BY <1>3, <1>9
<1>11. done[N][1] = i
  BY <1>10 DEF S
<1> QED
  BY <1>1, <1>5, <1>11

\* In state m, x points val[2] bytes behind val[1].
PointsBehind(m, x, val) ==
  val[2] \in Int /\ (val[1] \in DOMAIN m.env => m.env[x] = m.env[val[1]] + val[2])

\* An operand through the base instead names the same place.
LEMMA SubstMemIs ==
  ASSUME NEW m, IsEnv(m.env), NEW x \in DOMAIN m.env, NEW base \in DOMAIN m.env, NEW offset \in Int,
         m.env[x] = m.env[base] + offset, NEW v, IsOperand(v), Assigns(m, v),
         NEW w, w = SubstMem(v, x, base, offset)
  PROVE  /\ IsOperand(w) /\ Assigns(m, w) /\ Eval(m, w) = Eval(m, v)
         /\ v.kind = "Mem" => w.kind = "Mem" /\ Address(m, w) = Address(m, v) /\ w.t = v.t
         /\ v.kind # "Mem" => w = v
<1>1. CASE ~(v.kind = "Mem" /\ v.name = x)
  <2>1. w = v
    BY <1>1, Zenon DEF SubstMem
  <2> QED
    BY <2>1
<1>2. CASE v.kind = "Mem" /\ v.name = x
  <2> DEFINE o == v.offset
             t == v.t
  <2>1. v = Mem(x, o, t) /\ o \in Int
    BY <1>2 DEF IsOperand
  <2>2. w = [v EXCEPT !.name = base, !.offset = @ + offset]
    BY <1>2, Zenon DEF SubstMem
  <2> HIDE DEF o, t
  <2>3. w = Mem(base, o + offset, t)
    BY <2>1, <2>2 DEF Mem
  <2>4. w.kind = "Mem" /\ w.name = base /\ w.offset = o + offset /\ w.t = t
    BY <2>3 DEF Mem
  <2>5. v.name = x /\ v.offset = o /\ v.t = t
    BY <1>2 DEF o, t
  <2>6. m.env[x] \in Int /\ m.env[base] \in Int
    BY SmallInts DEF IsEnv
  <2>7. m.env[base] + (o + offset) = m.env[x] + o
    BY <2>1, <2>6
  <2>8. Address(m, w) = Address(m, v)
    BY <2>4, <2>5, <2>7 DEF Address
  <2>9. IsOperand(w)
    <3>1. w = Mem(w.name, w.offset, w.t) /\ w.offset \in Int
      BY <2>1, <2>3, <2>4
    <3> QED
      BY <2>4, <3>1 DEF IsOperand
  <2>10. Eval(m, w) = Eval(m, v)
    <3>1. Eval(m, w) = Load(m.log, m.env[base] + (o + offset), Width(t))
      BY <2>4, EvalIs
    <3>2. Eval(m, v) = Load(m.log, m.env[x] + o, Width(t))
      BY <1>2, <2>5, EvalIs
    <3> QED
      BY <2>7, <3>1, <3>2
  <2> QED
    BY <1>2, <2>4, <2>5, <2>8, <2>9, <2>10 DEF Assigns
<1> QED
  BY <1>1, <1>2

LEMMA MemRewritten ==
  ASSUME NEW c, NEW inp, NEW m, IsEnv(m.env), NEW k, IsCopied(k), UsedVars(k) \subseteq DOMAIN m.env,
         NEW x \in DOMAIN m.env, NEW base, CopiesThrough(k, base), NEW offset,
         PointsBehind(m, x, <<base, offset>>), NEW j, j = rewrite_mem_instr(k, x, base, offset)
  PROVE  IsCopied(j) /\ Alike(c, inp, m, k, j)
<1> DEFINE d == k.dst[1]
           s == k.srcs[1]
           d2 == SubstMem(d, x, base, offset)
           s2 == SubstMem(s, x, base, offset)
           reads == [k EXCEPT !.srcs = SubstEachMem(k.srcs, x, base, offset)]
<1>1. k.op = "Copy" /\ k = Copy(d, s) /\ IsOperand(d) /\ IsOperand(s)
  BY DEF IsCopied
<1>2. Assigns(m, s) /\ (d.kind = "Mem" => d.name \in DOMAIN m.env)
  BY CopyUses
<1>3. base \in DOMAIN m.env
  BY <1>2 DEF CopiesThrough, Assigns
<1>4. offset \in Int /\ m.env[x] = m.env[base] + offset
  BY <1>3 DEF PointsBehind
<1>5. IsOperand(s2) /\ Assigns(m, s2) /\ Eval(m, s2) = Eval(m, s)
  BY <1>1, <1>2, <1>3, <1>4, SubstMemIs
<1>6. /\ IsOperand(d2) /\ (d.kind # "Mem" => d2 = d)
      /\ d.kind = "Mem" =>
           d2.kind = "Mem" /\ Address(m, d2) = Address(m, d) /\ d2.t = d.t /\ d2.name \in DOMAIN m.env
  <2>1. CASE d.kind = "Mem"
    <3>1. Assigns(m, d)
      BY <1>2, <2>1 DEF Assigns
    <3>2. /\ IsOperand(d2) /\ Assigns(m, d2)
          /\ d2.kind = "Mem" /\ Address(m, d2) = Address(m, d) /\ d2.t = d.t
      BY <1>1, <1>3, <1>4, <2>1, <3>1, SubstMemIs
    <3> QED
      BY <2>1, <3>2 DEF Assigns
  <2>2. CASE d.kind # "Mem"
    <3>1. d2 = d
      BY <2>2, Zenon DEF SubstMem
    <3> QED
      BY <1>1, <2>2, <3>1
  <2> QED
    BY <2>1, <2>2
<1>7. j = Copy(d2, s2)
  <2>1. j = [reads EXCEPT !.dst = SubstEachMem(k.dst, x, base, offset)]
    BY <1>1, Zenon DEF rewrite_mem_instr
  <2>2. k.dst = <<d>> /\ k.srcs = <<s>>
    BY <1>1 DEF Copy
  <2>3. SubstEachMem(k.dst, x, base, offset) = <<d2>> /\ SubstEachMem(k.srcs, x, base, offset) = <<s2>>
    BY <2>2 DEF SubstEachMem
  <2> HIDE DEF d, s, d2, s2
  <2>4. reads = Copy(d, s2)
    BY <1>1, <2>3 DEF Copy
  <2> HIDE DEF reads
  <2> QED
    BY <2>1, <2>3, <2>4 DEF Copy
<1> HIDE DEF d2, s2
<1>8. IsCopied(j) /\ j.op = "Copy" /\ j.dst[1] = d2 /\ j.srcs[1] = s2
  BY <1>5, <1>6, <1>7, CopyIs
<1>9. UsedVars(j) \subseteq DOMAIN m.env
  BY <1>1, <1>5, <1>6, <1>8, CopyUses
<1>10. Alike(c, inp, m, k, j)
  BY <1>1, <1>5, <1>6, <1>8, <1>9, CopyAlike
<1> QED
  BY <1>8, <1>10

\* Where the pointers point to where the analysis takes them to, the new instruction
\* does the same.
LEMMA PointersMeant ==
  ASSUME NEW c, NEW inp, NEW found, NEW b, NEW n, NEW m, IsEnv(m.env),
         NEW i, i = c.code[b][n].instr, IsInstruction(i), UsedVars(i) \subseteq DOMAIN m.env,
         NEW known, known = P!instr_fact(c, b, n, found.in[b]),
         \A x \in UsedVars(i) \cap DOMAIN known : PointsBehind(m, x, known[x]),
         NEW j, j = pointer_propagation(c, found, b, n)[1]
  PROVE  Alike(c, inp, m, i, j)
<1> DEFINE subst == [x \in UsedVars(i) |-> IF IsDerived(known, x) THEN {known[x]} ELSE {}]
           N == Len(Operands(i))
<1>1. j = ForEachUse("ptr", subst, i)[1]
  BY Zenon DEF pointer_propagation
<1>2. \A x \in UsedVars(i) : \A val \in subst[x] : PointsBehind(m, x, val)
  BY DEF IsDerived
<1> HIDE DEF subst
<1>3. N \in Nat
  BY OperandsAre DEF AreOperands, IsSeq
<1>4. PICK done : IsVisited("ptr", subst, i, done)
  BY <1>3, Visits
<1>5. /\ done[0] = <<i, FALSE>>
      /\ \A k \in 1 .. N :
           done[k] = IF Operands(i)[k].kind = "Imm" THEN done[k - 1]
                     ELSE VisitUse("ptr", subst, done[k - 1], Operands(i)[k].name)
      /\ ForEachUse("ptr", subst, i) = done[N]
  BY <1>4 DEF IsVisited
<1> DEFINE Meant(k) == Alike(c, inp, m, i, k) /\ (k.op = "Copy" => IsCopied(k))
           S == {k \in 0 .. N : Meant(done[k][1])}
<1>6. Meant(i)
  <2>1. i.op = "Copy" => IsCopied(i)
    BY InstructionShaped DEF IsShaped, IsUnaried, IsBinaried, IsFCall, IsBrIf, IsReturn
  <2> QED
    BY <2>1 DEF Alike
<1>7. 0 \in S
  <2>1. done[0][1] = i /\ 0 \in 0 .. N
    BY <1>3, <1>5
  <2> HIDE DEF Meant
  <2> QED
    BY <1>6, <2>1
<1>8. ASSUME NEW k \in 1 .. N, k - 1 \in S PROVE k \in S
  <2> DEFINE x == Operands(i)[k].name
             old == done[k - 1][1]
  <2>1. Meant(old) /\ k \in 0 .. N
    BY <1>3, <1>8
  <2>2. CASE done[k] = done[k - 1]
    BY <2>1, <2>2
  <2>3. CASE \E val : /\ x \in UsedVars(i) /\ val \in subst[x] /\ CopiesThrough(old, val[1])
                      /\ done[k][1] = rewrite_mem_instr(old, x, val[1], val[2])
    <3>1. PICK val : /\ x \in UsedVars(i) /\ val \in subst[x] /\ CopiesThrough(old, val[1])
                     /\ done[k][1] = rewrite_mem_instr(old, x, val[1], val[2])
      BY <2>3
    <3>2. PointsBehind(m, x, <<val[1], val[2]>>)
      <4>1. PointsBehind(m, x, val)
        BY <1>2, <3>1
      <4> QED
        BY <4>1 DEF PointsBehind
    <3>3. IsCopied(old) /\ UsedVars(old) \subseteq DOMAIN m.env /\ Alike(c, inp, m, i, old)
      BY <2>1, <3>1 DEF CopiesThrough, Alike
    <3>4. x \in DOMAIN m.env
      BY <3>1
    <3> HIDE DEF old, x
    <3>5. IsCopied(done[k][1]) /\ Alike(c, inp, m, old, done[k][1])
      BY <3>1, <3>2, <3>3, <3>4, MemRewritten
    <3>6. Meant(done[k][1])
      BY <3>3, <3>5 DEF Alike
    <3> HIDE DEF Meant
    <3> QED
      BY <2>1, <3>6
  <2>4. CASE Operands(i)[k].kind = "Imm"
    <3>1. done[k] = done[k - 1]
      BY <1>5, <2>4
    <3> QED
      BY <2>2, <3>1
  <2>5. CASE Operands(i)[k].kind # "Imm"
    <3>1. done[k] = VisitUse("ptr", subst, done[k - 1], x) /\ x \in UsedVars(i)
      BY <1>5, <2>5, UsedIs
    <3> HIDE DEF x
    <3>2. PICK d : d = done[k - 1]
      OBVIOUS
    <3>3. \/ VisitUse("ptr", subst, d, x) = d
          \/ \E val \in subst[x] :
               /\ CopiesThrough(d[1], val[1])
               /\ VisitUse("ptr", subst, d, x) = <<rewrite_mem_instr(d[1], x, val[1], val[2]), TRUE>>
      BY VisitIs
    <3>4. CASE VisitUse("ptr", subst, d, x) = d
      <4>1. done[k] = done[k - 1]
        BY <3>1, <3>2, <3>4
      <4> HIDE DEF S, Meant, old
      <4> QED
        BY <2>2, <4>1
    <3>5. CASE \E val \in subst[x] :
                 /\ CopiesThrough(d[1], val[1])
                 /\ VisitUse("ptr", subst, d, x) = <<rewrite_mem_instr(d[1], x, val[1], val[2]), TRUE>>
      <4>1. PICK val \in subst[x] :
              /\ CopiesThrough(d[1], val[1])
              /\ VisitUse("ptr", subst, d, x) = <<rewrite_mem_instr(d[1], x, val[1], val[2]), TRUE>>
        BY <3>5
      <4>2. done[k] = <<rewrite_mem_instr(old, x, val[1], val[2]), TRUE>> /\ CopiesThrough(old, val[1])
        BY <3>1, <3>2, <4>1
      <4>3. done[k][1] = rewrite_mem_instr(old, x, val[1], val[2])
        BY <4>2
      <4> HIDE DEF old, Meant, S
      <4> QED
        BY <2>3, <3>1, <4>1, <4>2, <4>3 DEF x
    <3> QED
      BY <3>3, <3>4, <3>5
  <2> QED
    BY <2>4, <2>5
<1> HIDE DEF S, Meant
<1>9. 0 .. N \subseteq S
  BY <1>3, <1>7, <1>8, UpTo
<1>10. Meant(done[N][1])
  <2>1. N \in S
    BY <1>3, <1>9
  <2> QED
    BY <2>1 DEF S
<1> QED
  BY <1>1, <1>5, <1>10 DEF Meant

-----------------------------------------------------------------------------
\* A pass that rewrites every instruction in its place.

Rewriting == {"cp", "copy", "cf", "ptr", "stl"}

\* A function but for its code.
SameFrame(c, c2) ==
  c2.blocks = c.blocks /\ c2.succs = c.succs /\ c2.globals = c.globals /\ c2.entry = c.entry

LEMMA ExecuteSame ==
  ASSUME NEW c, NEW c2, SameFrame(c, c2), NEW inp, NEW m, NEW i
  PROVE  Execute(c2, inp, m, i) = Execute(c, inp, m, i)
<1>1. c2.succs = c.succs /\ c2.globals = c.globals
  BY DEF SameFrame
<1>2. Call(c2, inp, m, i) = Call(c, inp, m, i)
  <2>1. \A g : Call(g, inp, m, i) =
               CallOf(m, i.fn, i.dst, CalledEvent(g, m, i), Callee(inp, i.fn, CallsSoFar(m)))
    BY DEF Call, CallOf, CalledEvent
  <2>2. CalledEvent(c2, m, i) = CalledEvent(c, m, i)
    BY <1>1 DEF CalledEvent
  <2> QED
    BY <2>1, <2>2, Zenon
<1>3. \A b : StartOf(c2, b) = StartOf(c, b)
  BY DEF StartOf
<1> QED
  BY <1>1, <1>2, <1>3, Zenon DEF Execute

LEMMA OnwardsSame ==
  ASSUME NEW c, NEW c2, SameFrame(c, c2), NEW b
  PROVE  Onwards(c2, b) = Onwards(c, b)
BY Zenon DEF Onwards, StartOf, SameFrame

\* What the pass makes of a function.
LEMMA RewriteIs ==
  ASSUME NEW c, IsFunction(c), NEW ps, NEW found, ps # "dce",
         NEW c2, c2 = run_pass(c, ps, found).cfg
  PROVE  /\ SameFrame(c, c2)
         /\ \A b \in c.blocks :
              /\ Len(c2.code[b]) = Len(c.code[b]) /\ DOMAIN c2.code[b] = 1 .. Len(c.code[b])
              /\ \A n \in 1 .. Len(c.code[b]) :
                   c2.code[b][n].instr = Rewritten(c, ps, found, b, n)[1]
<1> DEFINE done == [b \in c.blocks |-> [n \in DOMAIN c.code[b] |-> Rewritten(c, ps, found, b, n)]]
           code == [b \in c.blocks |->
                     [n \in DOMAIN c.code[b] |-> [c.code[b][n] EXCEPT !.instr = done[b][n][1]]]]
<1>1. c2 = [c EXCEPT !.code = code]
  BY DEF run_pass, rewrite_all
<1>2. c = [ blocks |-> c.blocks, succs |-> c.succs, preds |-> c.preds, code |-> c.code,
            entry |-> c.entry, exit |-> c.exit, params |-> c.params, globals |-> c.globals ]
  BY DEF IsFunction
<1>3. ASSUME NEW b \in c.blocks
      PROVE  /\ Len(code[b]) = Len(c.code[b]) /\ DOMAIN code[b] = 1 .. Len(c.code[b])
             /\ \A n \in 1 .. Len(c.code[b]) : code[b][n].instr = Rewritten(c, ps, found, b, n)[1]
  <2> DEFINE new == [n \in 1 .. Len(c.code[b]) |-> [c.code[b][n] EXCEPT !.instr = done[b][n][1]]]
  <2>1. DOMAIN c.code[b] = 1 .. Len(c.code[b]) /\ Len(c.code[b]) \in Nat
    BY CodeIs
  <2>2. code[b] = new
    BY <2>1
  <2>3. Len(new) = Len(c.code[b]) /\ DOMAIN new = 1 .. Len(c.code[b])
    BY <2>1
  <2>4. ASSUME NEW n \in 1 .. Len(c.code[b])
        PROVE  new[n].instr = Rewritten(c, ps, found, b, n)[1]
    <3>1. done[b][n] = Rewritten(c, ps, found, b, n)
      BY <2>1
    <3>2. new[n] = [c.code[b][n] EXCEPT !.instr = done[b][n][1]]
      OBVIOUS
    <3>3. PICK li : li = c.code[b][n]
      OBVIOUS
    <3>4. li = [id |-> li.id, instr |-> li.instr]
      BY <3>3, LabelledIs
    <3> HIDE DEF done, new
    <3>5. new[n] = [id |-> li.id, instr |-> done[b][n][1]]
      BY <3>2, <3>3, <3>4
    <3> QED
      BY <3>1, <3>5
  <2> HIDE DEF new, code
  <2> QED
    BY <2>2, <2>3, <2>4
<1> HIDE DEF code
<1>4. PICK blocks, succs, preds, old, entry, exit, params, globals :
        /\ c = [ blocks |-> blocks, succs |-> succs, preds |-> preds, code |-> old,
                 entry |-> entry, exit |-> exit, params |-> params, globals |-> globals ]
  BY <1>2
<1>5. c2 = [ blocks |-> blocks, succs |-> succs, preds |-> preds, code |-> code,
             entry |-> entry, exit |-> exit, params |-> params, globals |-> globals ]
  BY <1>1, <1>4
<1>6. SameFrame(c, c2) /\ c2.code = code
  BY <1>4, <1>5 DEF SameFrame
<1> QED
  BY <1>3, <1>6

\* What a pass relies on.
Holds(ps, c, found, m) ==
  /\ ps = "cp"   => ConstantsHold(c, found, m)
  /\ ps = "copy" => CopiesHold(c, found, m)
  /\ ps = "stl"  => LoadsHold(c, found, m)

\* pointer_propagation "replaces derived pointer variables in memory operations with their
\* canonical base pointer and combined offset".  Of all the instructions of a function,
\* whatever the analysis found, it changes none but a copy from memory to memory through a
\* pointer and the base that it is derived from; and what it makes of that does the same
\* wherever the pointers point to where the analysis takes them to.
THEOREM PointersStay ==
  ASSUME NEW c, IsFunction(c), NEW found,
         NEW b \in c.blocks, NEW n \in 1 .. Len(c.code[b]), NEW i, i = c.code[b][n].instr,
         NEW j, j = run_pass(c, "ptr", found).cfg.code[b][n].instr
  PROVE  /\ ~ThroughItsBase(c, found, b, n) => j = i
         /\ \A inp, m : /\ IsEnv(m.env) /\ UsedVars(i) \subseteq DOMAIN m.env
                        /\ \A x \in UsedVars(i) \cap DOMAIN P!instr_fact(c, b, n, found.in[b]) :
                             PointsBehind(m, x, P!instr_fact(c, b, n, found.in[b])[x])
                        => Alike(c, inp, m, i, j)
<1> DEFINE known == P!instr_fact(c, b, n, found.in[b])
<1>1. j = Rewritten(c, "ptr", found, b, n)[1]
  BY RewriteIs
<1>2. j = pointer_propagation(c, found, b, n)[1]
  BY <1>1, Zenon DEF Rewritten
<1>3. IsInstruction(i)
  BY DEF IsFunction
<1>4. ~ThroughItsBase(c, found, b, n) => j = i
  BY <1>2, <1>3, PointersAlike
<1>5. ASSUME NEW inp, NEW m, IsEnv(m.env), UsedVars(i) \subseteq DOMAIN m.env,
             \A x \in UsedVars(i) \cap DOMAIN known : PointsBehind(m, x, known[x])
      PROVE  Alike(c, inp, m, i, j)
  <2> HIDE DEF known
  <2> QED
    BY <1>2, <1>3, <1>5, PointersMeant DEF known
<1> QED
  BY <1>4, <1>5

\* The instruction does what it does in the source.
LEMMA RewrittenAlike ==
  ASSUME NEW c, IsFunction(c), NEW ps \in Rewriting, NEW found, Relies(ps, c, found),
         NEW inp, NEW m, IsState(c, m), Holds(ps, c, found, m), NEW i, Passed(c, m, i),
         NEW j, j = Rewritten(c, ps, found, m.pc[1], m.pc[2] + 1)[1]
  PROVE  ~Assignable(j) \/ Alike(c, inp, m, i, j)
<1> DEFINE b == m.pc[1]
           n == m.pc[2] + 1
<1>1. /\ IsRecord(m) /\ IsEnv(m.env) /\ IsLog(m.log) /\ m.pc[2] \in 0 .. Len(c.code[b])
      /\ b \in c.blocks
  BY StateIs
<1>2. /\ i = c.code[b][n].instr /\ IsInstruction(i) /\ UsedVars(i) \subseteq DOMAIN m.env
      /\ n \in 1 .. Len(c.code[b])
  BY PassedIs
<1>3. n - 1 = m.pc[2]
  <2>1. Len(c.code[b]) \in Nat
    BY <1>1, CodeIs
  <2> QED
    BY <1>1, <2>1
<1>4. CASE ps = "cp"
  <2>1. j = constant_propagation(c, found, b, n)[1]
    BY <1>4, Zenon DEF Rewritten
  <2>2. DefsHold(c, m, DefsAt(c, found, b, n - 1))
    BY <1>3, <1>4, ConstantsHoldIs DEF Holds
  <2> HIDE DEF b, n
  <2> QED
    BY <1>1, <1>2, <2>1, <2>2, ConstantsAlike
<1>5. CASE ps = "copy"
  <2>1. j = copy_propagation(c, found, b, n)[1]
    BY <1>5, Zenon DEF Rewritten
  <2>2. PairsHold(m, CopiesAt(c, found, b, n - 1))
    BY <1>3, <1>5, CopiesHoldIs DEF Holds
  <2> HIDE DEF b, n
  <2> QED
    BY <1>1, <1>2, <2>1, <2>2, CopiesAlike
<1>6. CASE ps = "stl"
  <2>1. j = store_to_load_forwarding(c, found, b, n)[1]
    BY <1>6, Zenon DEF Rewritten
  <2>2. AllHold(m, LoadsAt(c, found, b, n - 1)) /\ LoadsValues(c, found)
    BY <1>3, <1>6, LoadsHoldIs DEF Holds, Relies
  <2> HIDE DEF b, n
  <2> QED
    BY <1>1, <1>2, <2>1, <2>2, LoadsAlike
<1>7. CASE ps = "cf"
  <2>1. j = constant_folding(c, b, n)[1]
    BY <1>7, Zenon DEF Rewritten
  <2> HIDE DEF b, n
  <2> QED
    BY <1>1, <1>2, <2>1, FoldingAlike
<1>8. CASE ps = "ptr"
  <2>1. j = pointer_propagation(c, found, b, n)[1]
    BY <1>8, Zenon DEF Rewritten
  <2>2. ~ThroughItsBase(c, found, b, n)
    BY <1>1, <1>2, <1>8 DEF Relies, PointersApart
  <2> HIDE DEF b, n
  <2>3. j = i
    BY <1>2, <2>1, <2>2, PointersAlike
  <2> QED
    BY <1>2, <2>3 DEF Alike
<1> QED
  BY <1>4, <1>5, <1>6, <1>7, <1>8 DEF Rewriting

\* So does every step.
LEMMA RewrittenStep ==
  ASSUME NEW c, IsFunction(c), NEW ps \in Rewriting, NEW found, Relies(ps, c, found),
         NEW inp, NEW m, IsState(c, m), Holds(ps, c, found, m),
         NEW c2, c2 = run_pass(c, ps, found).cfg, Emittable(c2),
         NEW r, r = Step(c, inp, m), r.status # "unassigned"
  PROVE  Step(c2, inp, m) = r
<1> DEFINE b == m.pc[1]
           n == m.pc[2]
<1>1. /\ IsRecord(m) /\ b \in c.blocks /\ n \in 0 .. Len(c.code[b])
      /\ Len(c.code[b]) \in Nat
  BY StateIs, CodeIs
<1>2. ps # "dce"
  BY DEF Rewriting
<1>3. /\ SameFrame(c, c2) /\ Len(c2.code[b]) = Len(c.code[b])
      /\ DOMAIN c2.code[b] = 1 .. Len(c.code[b])
      /\ \A k \in 1 .. Len(c.code[b]) : c2.code[b][k].instr = Rewritten(c, ps, found, b, k)[1]
  BY <1>1, <1>2, RewriteIs
<1>4. CASE n < Len(c.code[b])
  <2> DEFINE k == n + 1
             i == c.code[b][k].instr
             j == c2.code[b][k].instr
  <2>1. k \in 1 .. Len(c.code[b])
    BY <1>1, <1>4
  <2>2. r = Execute(c, inp, m, i)
    BY <1>4, StepIs
  <2>3. Step(c2, inp, m) = Execute(c2, inp, m, j)
    BY <1>3, <1>4, StepIs
  <2>4. UsedVars(i) \subseteq DOMAIN m.env
    <3>1. ASSUME ~(UsedVars(i) \subseteq DOMAIN m.env)
          PROVE  r.status = "unassigned"
      <4>1. r = Stopped(m, "unassigned")
        BY <2>2, <3>1, UnassignedIs
      <4>2. r = State(m.pc[1], m.pc[2], m.env, m.log, "unassigned", m.result)
        BY <1>1, <4>1, StateSteps, Zenon
      <4> QED
        BY <4>2, FieldsAre
    <3> QED
      BY <3>1
  <2>5. Passed(c, m, i)
    BY <1>4, <2>4 DEF Passed, IsNext
  <2>6. j = Rewritten(c, ps, found, m.pc[1], m.pc[2] + 1)[1]
    BY <1>3, <2>1
  <2>7. Assignable(j)
    <3>1. c2.code[b][k] \in Instructions(c2)
      <4>1. b \in c2.blocks /\ k \in DOMAIN c2.code[b]
        BY <1>1, <1>3, <2>1 DEF SameFrame
      <4> QED
        BY <4>1 DEF Instructions, Range
    <3> QED
      BY <3>1 DEF Emittable, Assignable
  <2> HIDE DEF i, j
  <2>8. Alike(c, inp, m, i, j)
    BY <2>5, <2>6, <2>7, RewrittenAlike
  <2>9. Execute(c2, inp, m, j) = Execute(c, inp, m, j)
    BY <1>3, ExecuteSame
  <2> QED
    BY <2>2, <2>3, <2>8, <2>9 DEF Alike
<1>5. CASE ~(n < Len(c.code[b]))
  <2>1. /\ r = [m EXCEPT !.pc = Onwards(c, b)]
        /\ Step(c2, inp, m) = [m EXCEPT !.pc = Onwards(c2, b)]
    BY <1>3, <1>5, StepIs
  <2>2. Onwards(c2, b) = Onwards(c, b)
    BY <1>3, OnwardsSame
  <2> QED
    BY <2>1, <2>2
<1> QED
  BY <1>4, <1>5

-----------------------------------------------------------------------------
\* The instructions that dce keeps, and where they go.

Rank(kept, n) == Cardinality(Upto(kept, n))

LEMMA Ranks ==
  ASSUME NEW N \in Nat, NEW kept, kept \subseteq 1 .. N
  PROVE  /\ Cardinality(kept) \in Nat /\ Rank(kept, 0) = 0 /\ Rank(kept, N) = Cardinality(kept)
         /\ \A n \in 0 .. N : Rank(kept, n) \in Nat /\ Rank(kept, n) <= Cardinality(kept)
         /\ \A n \in 1 .. N : Rank(kept, n) = IF n \in kept THEN Rank(kept, n - 1) + 1
                                              ELSE Rank(kept, n - 1)
<1>1. IsFiniteSet(1 .. N)
  BY FS_Interval
<1>2. IsFiniteSet(kept) /\ Cardinality(kept) \in Nat
  BY <1>1, FS_Subset, FS_CardinalityType
<1>3. ASSUME NEW n \in Int
      PROVE  /\ IsFiniteSet(Upto(kept, n)) /\ Rank(kept, n) \in Nat
             /\ Rank(kept, n) <= Cardinality(kept)
  <2>1. Upto(kept, n) \subseteq kept
    BY DEF Upto
  <2> QED
    BY <1>2, <2>1, FS_Subset, FS_CardinalityType DEF Rank
<1>0. /\ \A x \in kept : x \in Int /\ 1 <= x /\ x <= N
      /\ \A n, x : x \in Upto(kept, n) <=> x \in kept /\ x <= n
  BY DEF Upto
<1>10. ASSUME NEW n \in 1 .. N, NEW x
       PROVE  x \in Upto(kept, n) <=> x \in Upto(kept, n - 1) \/ (x = n /\ n \in kept)
  <2>1. x \in kept => (x <= n <=> x <= n - 1 \/ x = n)
    BY <1>0
  <2>2. /\ x \in Upto(kept, n) <=> x \in kept /\ x <= n
        /\ x \in Upto(kept, n - 1) <=> x \in kept /\ x <= n - 1
    BY <1>0, Zenon
  <2>3. n <= n
    OBVIOUS
  <2> QED
    BY <2>1, <2>2, <2>3, Zenon
<1>4. Upto(kept, 0) = {} /\ Upto(kept, N) = kept
  <2>1. ASSUME NEW x PROVE x \notin Upto(kept, 0)
    <3>1. x \in Upto(kept, 0) => x \in kept /\ x <= 0
      BY <1>0, Zenon
    <3>2. x \in kept => x \in Int /\ 1 <= x
      BY <1>0
    <3> QED
      BY <3>1, <3>2
  <2>2. \A x : x \in Upto(kept, N) <=> x \in kept
    BY <1>0
  <2> QED
    BY <2>1, <2>2, Zenon
<1>5. ASSUME NEW n \in 1 .. N
      PROVE  Rank(kept, n) = IF n \in kept THEN Rank(kept, n - 1) + 1 ELSE Rank(kept, n - 1)
  <2>1. CASE n \in kept
    <3>1. Upto(kept, n) = Upto(kept, n - 1) \cup {n} /\ n \notin Upto(kept, n - 1)
      <4>1. \A x : x \in Upto(kept, n) <=> x \in Upto(kept, n - 1) \/ x = n
        BY <1>10, <2>1
      <4>2. n \notin Upto(kept, n - 1)
        BY <1>0
      <4> QED
        BY <4>1, <4>2, Zenon
    <3>2. IsFiniteSet(Upto(kept, n - 1))
      BY <1>3
    <3>3. Cardinality(Upto(kept, n - 1) \cup {n}) = Cardinality(Upto(kept, n - 1)) + 1
      BY <3>1, <3>2, FS_AddElement
    <3> QED
      BY <2>1, <3>1, <3>3 DEF Rank
  <2>2. CASE n \notin kept
    <3>1. Upto(kept, n) = Upto(kept, n - 1)
      <4>1. \A x : x \in Upto(kept, n) <=> x \in Upto(kept, n - 1)
        BY <1>10, <2>2
      <4> QED
        BY <4>1, Zenon
    <3> QED
      BY <2>2, <3>1 DEF Rank
  <2> QED
    BY <2>1, <2>2
<1>6. Rank(kept, 0) = 0
  BY <1>4, FS_EmptySet DEF Rank
<1> QED
  BY <1>2, <1>3, <1>4, <1>5, <1>6 DEF Rank

LEMMA KeptAtIs ==
  ASSUME NEW N \in Nat, NEW kept, kept \subseteq 1 .. N, NEW n \in kept
  PROVE  KeptAt(kept, Rank(kept, n)) = n
<1>1. IsFiniteSet(1 .. N)
  BY FS_Interval
<1>2. ASSUME NEW p \in kept, NEW q \in kept, p < q
      PROVE  Rank(kept, p) # Rank(kept, q)
  <2> DEFINE S == Upto(kept, p)
             T == Upto(kept, q)
  <2>1. S \cup {q} \subseteq T /\ q \notin S /\ T \subseteq kept
    <3>1. /\ \A x \in kept : x \in Int
          /\ \A k, x : x \in Upto(kept, k) <=> x \in kept /\ x <= k
      BY DEF Upto
    <3>2. \A x \in kept : x <= p => x <= q
      BY <1>2, <3>1
    <3>3. ~(q <= p) /\ q <= q
      BY <1>2, <3>1
    <3> QED
      BY <3>1, <3>2, <3>3, Zenon
  <2> HIDE DEF S, T
  <2>2. IsFiniteSet(T) /\ IsFiniteSet(S)
    BY <1>1, <2>1, FS_Subset
  <2>3. Cardinality(S \cup {q}) = Cardinality(S) + 1 /\ Cardinality(S) \in Nat
    BY <2>1, <2>2, FS_AddElement, FS_CardinalityType
  <2>4. Cardinality(S \cup {q}) <= Cardinality(T) /\ Cardinality(T) \in Nat
    BY <2>1, <2>2, FS_Subset, FS_CardinalityType
  <2>5. Cardinality(S) # Cardinality(T)
    BY <2>3, <2>4
  <2> QED
    BY <2>5 DEF Rank, S, T
<1>3. \A p \in kept : Rank(kept, p) = Rank(kept, n) => p = n
  <2> TAKE p \in kept
  <2>1. p \in Int /\ n \in Int
    OBVIOUS
  <2> QED
    BY <1>2, <2>1
<1>4. KeptAt(kept, Rank(kept, n)) = CHOOSE p \in kept : Rank(kept, p) = Rank(kept, n)
  BY DEF KeptAt, Rank
<1> QED
  BY <1>3, <1>4

\* What dce makes of a function.
LEMMA RetainIs ==
  ASSUME NEW c, IsFunction(c), NEW found, NEW c2, c2 = run_pass(c, "dce", found).cfg,
         NEW b \in c.blocks, NEW kept, kept = Kept(c, found, b)
  PROVE  /\ SameFrame(c, c2) /\ kept \subseteq 1 .. Len(c.code[b])
         /\ Len(c2.code[b]) = Cardinality(kept)
         /\ \A n \in kept : c2.code[b][Rank(kept, n)] = c.code[b][n]
<1> DEFINE code == [d \in c.blocks |-> Retain(c, found, d)]
           N == Len(c.code[b])
<1>1. c2 = [c EXCEPT !.code = code]
  BY DEF run_pass, dce
<1>2. c = [ blocks |-> c.blocks, succs |-> c.succs, preds |-> c.preds, code |-> c.code,
            entry |-> c.entry, exit |-> c.exit, params |-> c.params, globals |-> c.globals ]
  BY DEF IsFunction
<1> HIDE DEF code
<1>3. PICK blocks, succs, preds, old, entry, exit, params, globals :
        /\ c = [ blocks |-> blocks, succs |-> succs, preds |-> preds, code |-> old,
                 entry |-> entry, exit |-> exit, params |-> params, globals |-> globals ]
  BY <1>2
<1>4. c2 = [ blocks |-> blocks, succs |-> succs, preds |-> preds, code |-> code,
             entry |-> entry, exit |-> exit, params |-> params, globals |-> globals ]
  BY <1>1, <1>3
<1>5. SameFrame(c, c2) /\ c2.code = code
  BY <1>3, <1>4 DEF SameFrame
<1>6. kept \subseteq 1 .. N /\ N \in Nat
  BY CodeIs DEF Kept
<1>7. c2.code[b] = [k \in 1 .. Cardinality(kept) |-> c.code[b][KeptAt(kept, k)]]
  <2>1. c2.code[b] = Retain(c, found, b)
    BY <1>5 DEF code
  <2> QED
    BY <2>1 DEF Retain
<1> HIDE DEF N
<1>8. Cardinality(kept) \in Nat
  BY <1>6, Ranks
<1>9. Len(c2.code[b]) = Cardinality(kept)
  BY <1>7, <1>8
<1>10. ASSUME NEW n \in kept
       PROVE  c2.code[b][Rank(kept, n)] = c.code[b][n]
  <2>1. KeptAt(kept, Rank(kept, n)) = n
    BY <1>6, KeptAtIs
  <2>2. n \in 1 .. N /\ n \in 0 .. N /\ n - 1 \in 0 .. N
    BY <1>6
  <2>3. Rank(kept, n) = Rank(kept, n - 1) + 1 /\ Rank(kept, n - 1) \in Nat
        /\ Rank(kept, n) <= Cardinality(kept)
    BY <1>6, <2>2, Ranks
  <2>4. Rank(kept, n) \in 1 .. Cardinality(kept)
    BY <1>8, <2>3
  <2> QED
    BY <1>7, <2>1, <2>4
<1> QED
  BY <1>5, <1>6, <1>9, <1>10 DEF N

\* What is live at a point, and what is dead there.
LEMMA LiveAtIs ==
  ASSUME NEW c, NEW found, NEW p
  PROVE  LiveAt(c, found, p) = LiveAfter(c, found, p[1], p[2])
BY DEF LiveAt, LiveAfter

LEMMA DeadIs ==
  ASSUME NEW c, NEW found, NEW b, NEW n, NEW i, i = c.code[b][n].instr
  PROVE  IsDead(c, found, b, n) <=>
           /\ def_of_instr(i) # {} /\ ~IsCall(i) /\ ~(i.op = "Binary" /\ i.fn \in {"Div", "Mod"})
           /\ def_of_instr(i) \cap LiveAfter(c, found, b, n) = {}
<1>1. L!instr_fact(c, b, n, found.out[b]) = LiveAfter(c, found, b, n)
  BY DEF L!instr_fact, L!Direction, LiveAfter
<1> QED
  BY <1>1 DEF IsDead, has_side_effect

-----------------------------------------------------------------------------
\* An instruction in two states that agree on the variables that matter.

EnvAgree(vs, e1, e2) == \A x \in vs \cap DOMAIN e1 : x \in DOMAIN e2 /\ e2[x] = e1[x]

LEMMA AgreeIs ==
  ASSUME NEW vs, NEW m1, NEW m2
  PROVE  Agree(vs, m1, m2) <=> EnvAgree(vs, m1.env, m2.env)
BY DEF Agree, EnvAgree

LEMMA UpdateAgree ==
  ASSUME NEW V, NEW f, NEW g, EnvAgree(V, f, g), NEW x, NEW v, NEW W, W \ {x} \subseteq V
  PROVE  EnvAgree(W, Update(f, x, v), Update(g, x, v))
<1>1. ASSUME NEW h
      PROVE  /\ DOMAIN Update(h, x, v) = DOMAIN h \cup {x} /\ Update(h, x, v)[x] = v
             /\ \A y \in DOMAIN h : y # x => Update(h, x, v)[y] = h[y]
  BY DEF Update
<1> DEFINE f2 == Update(f, x, v)
           g2 == Update(g, x, v)
<1>2. /\ DOMAIN f2 = DOMAIN f \cup {x} /\ DOMAIN g2 = DOMAIN g \cup {x} /\ f2[x] = v /\ g2[x] = v
      /\ \A y \in DOMAIN f : y # x => f2[y] = f[y]
      /\ \A y \in DOMAIN g : y # x => g2[y] = g[y]
  BY <1>1
<1> HIDE DEF f2, g2
<1>3. EnvAgree(W, f2, g2)
  BY <1>2 DEF EnvAgree
<1> QED
  BY <1>3 DEF f2, g2

LEMMA OverrideAgree ==
  ASSUME NEW V, NEW f, NEW g, EnvAgree(V, f, g), NEW h
  PROVE  EnvAgree(V, Override(f, h), Override(g, h))
<1>1. ASSUME NEW e
      PROVE  /\ DOMAIN Override(e, h) = DOMAIN e \cup DOMAIN h
             /\ \A y \in DOMAIN h : Override(e, h)[y] = h[y]
             /\ \A y \in DOMAIN e : y \notin DOMAIN h => Override(e, h)[y] = e[y]
  BY DEF Override
<1> DEFINE f2 == Override(f, h)
           g2 == Override(g, h)
<1>2. /\ DOMAIN f2 = DOMAIN f \cup DOMAIN h /\ DOMAIN g2 = DOMAIN g \cup DOMAIN h
      /\ \A y \in DOMAIN h : f2[y] = h[y] /\ g2[y] = h[y]
      /\ \A y \in DOMAIN f : y \notin DOMAIN h => f2[y] = f[y]
      /\ \A y \in DOMAIN g : y \notin DOMAIN h => g2[y] = g[y]
  BY <1>1
<1> HIDE DEF f2, g2
<1>3. EnvAgree(V, f2, g2)
  BY <1>2 DEF EnvAgree
<1> QED
  BY <1>3 DEF f2, g2

\* Two runs do the same: they go on, stop or go to another block, and agree on W.
Both(W, m1, m2, r1, r2) ==
  \/ \E e1, e2, log : /\ r1 = Next1(m1, e1, log) /\ r2 = Next1(m2, e2, log)
                      /\ EnvAgree(W, e1, e2)
  \/ \E status, result : /\ r1 = State(m1.pc[1], m1.pc[2], m1.env, m1.log, status, result)
                         /\ r2 = State(m2.pc[1], m2.pc[2], m2.env, m2.log, status, result)
                         /\ status # "running"
  \/ \E s : r1 = Moved(m1, s) /\ r2 = Moved(m2, s)

LEMMA OperandsAgree ==
  ASSUME NEW m1, NEW m2, m2.log = m1.log, NEW V, EnvAgree(V, m1.env, m2.env),
         NEW i, IsInstruction(i), UsedVars(i) \subseteq DOMAIN m1.env, UsedVars(i) \subseteq V
  PROVE  /\ UsedVars(i) \subseteq DOMAIN m2.env
         /\ \A k \in 1 .. Len(i.srcs) : Eval(m2, i.srcs[k]) = Eval(m1, i.srcs[k])
         /\ i.op \in {"Copy", "Unary", "Binary", "BrIf"} => Eval(m2, i.srcs[1]) = Eval(m1, i.srcs[1])
         /\ i.op = "Binary" => Eval(m2, i.srcs[2]) = Eval(m1, i.srcs[2])
         /\ StoresThrough(i) => Address(m2, i.dst[1]) = Address(m1, i.dst[1])
<1>1. \A x \in UsedVars(i) : x \in DOMAIN m2.env /\ m2.env[x] = m1.env[x]
  BY DEF EnvAgree
<1>2. AreOperands(i.srcs)
  BY ParametersAre
<1>3. ASSUME NEW k \in 1 .. Len(i.srcs) PROVE Eval(m2, i.srcs[k]) = Eval(m1, i.srcs[k])
  <2> DEFINE v == i.srcs[k]
  <2>1. v.kind \in {"Var", "Mem", "Imm"}
    BY <1>2 DEF AreOperands, IsOperand
  <2>2. v.kind # "Imm" => m2.env[v.name] = m1.env[v.name]
    BY <1>1, UsedIs
  <2> HIDE DEF v
  <2>3. Eval(m2, v) = Eval(m1, v)
    BY <2>1, <2>2, EvalIs
  <2> QED
    BY <2>3 DEF v
<1>4. /\ i.op \in {"Copy", "Unary", "BrIf"} => Len(i.srcs) = 1
      /\ i.op = "Binary" => Len(i.srcs) = 2
  BY ParametersAre
<1>5. i.op \in {"Copy", "Unary", "Binary", "BrIf"} => Eval(m2, i.srcs[1]) = Eval(m1, i.srcs[1])
  <2>1. i.op \in {"Copy", "Unary", "Binary", "BrIf"} => 1 \in 1 .. Len(i.srcs)
    BY <1>4
  <2> QED
    BY <1>3, <2>1
<1>6. i.op = "Binary" => Eval(m2, i.srcs[2]) = Eval(m1, i.srcs[2])
  <2>1. \A n : n = 2 => 2 \in 1 .. n
    OBVIOUS
  <2>2. i.op = "Binary" => 2 \in 1 .. Len(i.srcs)
    BY <1>4, <2>1, Zenon
  <2> QED
    BY <1>3, <2>2
<1>7. StoresThrough(i) => Address(m2, i.dst[1]) = Address(m1, i.dst[1])
  BY <1>1, UsedIs DEF Address
<1> QED
  BY <1>1, <1>3, <1>5, <1>6, <1>7

LEMMA AssignAgree ==
  ASSUME NEW m1, IsRecord(m1), NEW m2, IsRecord(m2), m2.log = m1.log,
         NEW V, EnvAgree(V, m1.env, m2.env), NEW dst, NEW W,
         \/ dst.kind = "Var" /\ W \ {dst.name} \subseteq V
         \/ dst.kind # "Var" /\ W \subseteq V /\ Address(m2, dst) = Address(m1, dst),
         NEW v, NEW r1, r1 = Assign(m1, dst, v), NEW r2, r2 = Assign(m2, dst, v)
  PROVE  Both(W, m1, m2, r1, r2)
<1>1. CASE dst.kind = "Var"
  <2> DEFINE e1 == Update(m1.env, dst.name, v)
             e2 == Update(m2.env, dst.name, v)
  <2>1. EnvAgree(W, e1, e2)
    BY <1>1, UpdateAgree
  <2>2. r1 = Next1(m1, e1, m1.log) /\ r2 = Next1(m2, e2, m1.log)
    BY <1>1, Assigned
  <2> HIDE DEF e1, e2
  <2> QED
    BY <2>1, <2>2, Zenon DEF Both
<1>2. CASE dst.kind # "Var"
  <2> DEFINE log == Append(m1.log, Store(Address(m1, dst), Width(dst.t), v))
  <2>1. Address(m2, dst) = Address(m1, dst) /\ W \subseteq V
    BY <1>2
  <2>2. r1 = Next1(m1, m1.env, log)
    BY <1>2, Assigned
  <2>3. r2 = Next1(m2, m2.env, Append(m2.log, Store(Address(m2, dst), Width(dst.t), v)))
    BY <1>2, Assigned
  <2>4. r2 = Next1(m2, m2.env, log)
    BY <2>1, <2>3
  <2>5. EnvAgree(W, m1.env, m2.env)
    BY <2>1 DEF EnvAgree
  <2> HIDE DEF log
  <2> QED
    BY <2>2, <2>4, <2>5, Zenon DEF Both
<1> QED
  BY <1>1, <1>2

LEMMA ComputeAgree ==
  ASSUME NEW m1, IsRecord(m1), NEW m2, IsRecord(m2), m2.log = m1.log, m2.result = m1.result,
         NEW V, EnvAgree(V, m1.env, m2.env), NEW dst, dst.kind = "Var",
         NEW W, W \ {dst.name} \subseteq V,
         NEW results, NEW r1, r1 = Compute(m1, dst, results), NEW r2, r2 = Compute(m2, dst, results)
  PROVE  Both(W, m1, m2, r1, r2)
<1>1. CASE results = {}
  <2>1. r1 = Stopped(m1, "trapped") /\ r2 = Stopped(m2, "trapped")
    BY <1>1, ComputeIs
  <2>2. r1 = State(m1.pc[1], m1.pc[2], m1.env, m1.log, "trapped", m1.result)
    BY <2>1, StateSteps, Zenon
  <2>3. r2 = State(m2.pc[1], m2.pc[2], m2.env, m2.log, "trapped", m2.result)
    BY <2>1, StateSteps, Zenon
  <2>4. "trapped" # "running"
    OBVIOUS
  <2> QED
    BY <2>2, <2>3, <2>4, Zenon DEF Both
<1>2. CASE results # {}
  <2>1. PICK v : v = CHOOSE r \in results : TRUE
    OBVIOUS
  <2>2. r1 = Assign(m1, dst, v) /\ r2 = Assign(m2, dst, v)
    BY <1>2, <2>1 DEF Compute
  <2> QED
    BY <2>2, AssignAgree
<1> QED
  BY <1>1, <1>2

LEMMA CallAgree ==
  ASSUME NEW c, NEW inp, NEW m1, IsRecord(m1), NEW m2, IsRecord(m2), m2.log = m1.log,
         c.globals \subseteq DOMAIN m1.env,
         NEW V, EnvAgree(V, m1.env, m2.env), c.globals \subseteq V,
         NEW i, IsFCall(i), \A k \in 1 .. Len(i.srcs) : Eval(m2, i.srcs[k]) = Eval(m1, i.srcs[k]),
         NEW W, W \ def_of_instr(i) \subseteq V, IsInstruction(i),
         NEW r1, r1 = Call(c, inp, m1, i), NEW r2, r2 = Call(c, inp, m2, i)
  PROVE  Both(W, m1, m2, r1, r2)
<1>1. CalledEvent(c, m2, i) = CalledEvent(c, m1, i)
  <2>1. DOMAIN i.srcs = 1 .. Len(i.srcs)
    BY ParametersAre DEF AreOperands, IsSeq
  <2>2. [k \in DOMAIN i.srcs |-> Eval(m2, i.srcs[k])] = [k \in DOMAIN i.srcs |-> Eval(m1, i.srcs[k])]
    BY <2>1
  <2>3. [g \in c.globals |-> m2.env[g]] = [g \in c.globals |-> m1.env[g]]
    BY DEF EnvAgree
  <2> QED
    BY <2>2, <2>3, Zenon DEF CalledEvent
<1>2. CallsSoFar(m2) = CallsSoFar(m1)
  BY DEF CallsSoFar
<1> DEFINE effect == Callee(inp, i.fn, CallsSoFar(m1))
           e1 == Override(m1.env, effect.globals)
           e2 == Override(m2.env, effect.globals)
           log == Append(m1.log, CalledEvent(c, m1, i)) \o effect.stores
           x == i.dst[1].name
           ret == effect.ret
<1>3. /\ i.dst = <<>> => r1 = Next1(m1, e1, log)
      /\ i.dst # <<>> => r1 = Next1(m1, Update(e1, x, ret), log)
  BY Called
<1>4. /\ i.dst = <<>> => r2 = Next1(m2, e2, log)
      /\ i.dst # <<>> => r2 = Next1(m2, Update(e2, x, ret), log)
  <2> DEFINE effect2 == Callee(inp, i.fn, CallsSoFar(m2))
             log2 == Append(m2.log, CalledEvent(c, m2, i)) \o effect2.stores
  <2>1. /\ i.dst = <<>> => r2 = Next1(m2, Override(m2.env, effect2.globals), log2)
        /\ i.dst # <<>> => r2 = Next1(m2, Update(Override(m2.env, effect2.globals), x, effect2.ret), log2)
    BY Called
  <2>2. effect2 = effect
    BY <1>2
  <2>3. log2 = log
    BY <1>1, <2>2
  <2> HIDE DEF effect, effect2, log, log2
  <2> QED
    BY <2>1, <2>2, <2>3
<1>5. EnvAgree(V, e1, e2)
  BY OverrideAgree
<1> HIDE DEF e1, e2, log, ret
<1>6. CASE i.dst = <<>>
  <2>1. def_of_instr(i) = {}
    BY <1>6, DefIs
  <2>2. EnvAgree(W, e1, e2)
    BY <1>5, <2>1 DEF EnvAgree
  <2> QED
    BY <1>3, <1>4, <1>6, <2>2, Zenon DEF Both
<1>7. CASE i.dst # <<>>
  <2>1. i.op = "FCall" /\ ~StoresThrough(i)
    BY DEF IsFCall, StoresThrough
  <2>2. def_of_instr(i) = {x}
    BY <1>7, <2>1, DefIs
  <2>3. W \ {x} \subseteq V
    BY <2>2
  <2> HIDE DEF x
  <2>4. EnvAgree(W, Update(e1, x, ret), Update(e2, x, ret))
    BY <1>5, <2>3, UpdateAgree
  <2> QED
    BY <1>3, <1>4, <1>7, <2>4, Zenon DEF Both
<1> QED
  BY <1>6, <1>7

\* An instruction that dce keeps.
LEMMA ExecuteAgree ==
  ASSUME NEW c, NEW inp, NEW m1, IsRecord(m1), NEW m2, IsRecord(m2),
         m2.pc[1] = m1.pc[1], m2.log = m1.log, m2.result = m1.result, c.globals \subseteq DOMAIN m1.env,
         NEW V, EnvAgree(V, m1.env, m2.env),
         NEW i, IsInstruction(i), UsedVars(i) \subseteq DOMAIN m1.env, UsedVars(i) \subseteq V,
         IsCall(i) => c.globals \subseteq V, NEW W, W \ def_of_instr(i) \subseteq V,
         NEW r1, r1 = Execute(c, inp, m1, i), NEW r2, r2 = Execute(c, inp, m2, i)
  PROVE  Both(W, m1, m2, r1, r2)
<1>1. /\ UsedVars(i) \subseteq DOMAIN m2.env
      /\ \A k \in 1 .. Len(i.srcs) : Eval(m2, i.srcs[k]) = Eval(m1, i.srcs[k])
      /\ i.op \in {"Copy", "Unary", "Binary", "BrIf"} => Eval(m2, i.srcs[1]) = Eval(m1, i.srcs[1])
      /\ i.op = "Binary" => Eval(m2, i.srcs[2]) = Eval(m1, i.srcs[2])
      /\ StoresThrough(i) => Address(m2, i.dst[1]) = Address(m1, i.dst[1])
  BY OperandsAgree
<1>2. i.op \in {"Copy", "Unary", "Binary"} /\ ~StoresThrough(i) =>
        i.dst[1].kind = "Var" /\ W \ {i.dst[1].name} \subseteq V
  <2>1. i.op \in {"Copy", "Unary", "Binary"} => i.dst # <<>>
    <3>1. \A w : <<w>> # <<>>
      OBVIOUS
    <3> QED
      BY <3>1, ParametersAre
  <2> QED
    BY <2>1, DefIs
<1>3. CASE i.op = "Copy"
  <2>1. PICK v : v = Eval(m1, i.srcs[1])
    OBVIOUS
  <2>2. r1 = Assign(m1, i.dst[1], v) /\ r2 = Assign(m2, i.dst[1], v)
    BY <1>1, <1>3, <2>1, OperationIs
  <2>3. CASE StoresThrough(i)
    <3>1. def_of_instr(i) = {} /\ i.dst[1].kind # "Var"
      BY <2>3, DefIs DEF StoresThrough
    <3>2. W \subseteq V
      BY <3>1
    <3> QED
      BY <1>1, <2>2, <2>3, <3>1, <3>2, AssignAgree
  <2>4. CASE ~StoresThrough(i)
    BY <1>2, <1>3, <2>2, <2>4, AssignAgree
  <2> QED
    BY <2>3, <2>4
<1>4. CASE i.op = "Unary"
  <2>1. ~StoresThrough(i)
    BY <1>4 DEF StoresThrough
  <2>2. PICK results : results = RunUnary(i.fn, Eval(m1, i.srcs[1]))
    OBVIOUS
  <2>3. r1 = Compute(m1, i.dst[1], results) /\ r2 = Compute(m2, i.dst[1], results)
    BY <1>1, <1>4, <2>2, OperationIs
  <2> QED
    BY <1>2, <1>4, <2>1, <2>3, ComputeAgree
<1>5. CASE i.op = "Binary"
  <2>1. ~StoresThrough(i)
    BY <1>5 DEF StoresThrough
  <2>2. PICK results : results = RunBinary(IntBits, i.fn, Eval(m1, i.srcs[1]), Eval(m1, i.srcs[2]))
    OBVIOUS
  <2>3. r1 = Compute(m1, i.dst[1], results) /\ r2 = Compute(m2, i.dst[1], results)
    BY <1>1, <1>5, <2>2, OperationIs
  <2> QED
    BY <1>2, <1>5, <2>1, <2>3, ComputeAgree
<1>6. CASE i.op = "FCall"
  <2>1. IsFCall(i) /\ IsCall(i)
    BY <1>6 DEF IsInstruction, IsCopy, IsUnary, IsBinary, IsBrIf, IsReturn, IsCall
  <2>2. r1 = Call(c, inp, m1, i) /\ r2 = Call(c, inp, m2, i)
    BY <1>1, <1>6, OperationIs
  <2> QED
    BY <1>1, <2>1, <2>2, CallAgree
<1>7. CASE i.op = "BrIf"
  <2>1. PICK v : v = Eval(m1, i.srcs[1])
    OBVIOUS
  <2>2. /\ r1 = State(Taken(c, m1.pc[1], i, v), 0, m1.env, m1.log, m1.status, m1.result)
        /\ r2 = State(Taken(c, m2.pc[1], i, v), 0, m2.env, m2.log, m2.status, m2.result)
    BY <1>1, <1>7, <2>1, BranchIs
  <2> DEFINE s == Taken(c, m1.pc[1], i, v)
  <2>3. r1 = Moved(m1, s) /\ r2 = Moved(m2, s)
    BY <2>2 DEF Moved
  <2> HIDE DEF s
  <2> QED
    BY <2>3, Zenon DEF Both
<1>8. CASE i.op = "Return"
  <2>1. /\ r1 = State(m1.pc[1], m1.pc[2], m1.env, m1.log, "returned", Values(m1, i.srcs))
        /\ r2 = State(m2.pc[1], m2.pc[2], m2.env, m2.log, "returned", Values(m2, i.srcs))
    BY <1>1, <1>8, ReturnIs
  <2>2. Values(m2, i.srcs) = Values(m1, i.srcs)
    <3>1. DOMAIN i.srcs = 1 .. Len(i.srcs)
      BY ParametersAre DEF AreOperands, IsSeq
    <3> QED
      BY <1>1, <3>1, Zenon DEF Values
  <2>3. "returned" # "running"
    OBVIOUS
  <2> QED
    BY <2>1, <2>2, <2>3, Zenon DEF Both
<1> QED
  BY <1>3, <1>4, <1>5, <1>6, <1>7, <1>8, ParametersAre

-----------------------------------------------------------------------------
\* A step of the source, and what the target makes of it after dce.

LEMMA RankAfter ==
  ASSUME NEW N \in Nat, NEW kept, kept \subseteq 1 .. N, NEW n \in 0 .. N, n < N
  PROVE  Rank(kept, n + 1) = IF n + 1 \in kept THEN Rank(kept, n) + 1 ELSE Rank(kept, n)
<1>1. PICK k \in 1 .. N : k = n + 1 /\ k - 1 = n
  OBVIOUS
<1>2. Rank(kept, k) = IF k \in kept THEN Rank(kept, k - 1) + 1 ELSE Rank(kept, k - 1)
  <2>1. \A j \in 1 .. N : Rank(kept, j) = IF j \in kept THEN Rank(kept, j - 1) + 1
                                         ELSE Rank(kept, j - 1)
    BY Ranks, Zenon
  <2> QED
    BY <2>1, Zenon
<1> QED
  BY <1>1, <1>2, Zenon

LEMMA KeptRank ==
  ASSUME NEW c, IsFunction(c), NEW found, NEW b \in c.blocks,
         NEW n \in Nat, n + 1 \in 1 .. Len(c.code[b])
  PROVE  /\ IsDead(c, found, b, n + 1) => Rank(Kept(c, found, b), n + 1) = Rank(Kept(c, found, b), n)
         /\ ~IsDead(c, found, b, n + 1) =>
              /\ n + 1 \in Kept(c, found, b)
              /\ Rank(Kept(c, found, b), n + 1) = Rank(Kept(c, found, b), n) + 1
<1>1. PICK N, kept : N = Len(c.code[b]) /\ kept = Kept(c, found, b)
  OBVIOUS
<1>2. N \in Nat /\ kept \subseteq 1 .. N /\ DOMAIN c.code[b] = 1 .. N
  BY <1>1, CodeIs DEF Kept
<1>3. n \in 0 .. N /\ n < N
  BY <1>1, <1>2
<1>4. Rank(kept, n + 1) = IF n + 1 \in kept THEN Rank(kept, n) + 1 ELSE Rank(kept, n)
  BY <1>2, <1>3, RankAfter
<1>5. n + 1 \in kept <=> ~IsDead(c, found, b, n + 1)
  BY <1>1, <1>2 DEF Kept
<1> QED
  BY <1>1, <1>4, <1>5

\* The target is at the corresponding place, and agrees on what is live there.
Follows(c, found, m1, m2) ==
  /\ IsRecord(m2)
  /\ m2.pc[1] = m1.pc[1] /\ m2.pc[2] = Rank(Kept(c, found, m1.pc[1]), m1.pc[2])
  /\ m2.log = m1.log /\ m2.status = m1.status /\ m2.result = m1.result
  /\ EnvAgree(LiveAfter(c, found, m1.pc[1], m1.pc[2]), m1.env, m2.env)

LEMMA FollowsIs ==
  ASSUME NEW c, NEW found, NEW m1, NEW m2, IsRecord(m2)
  PROVE  InStep(c, found, m1, m2) <=> Follows(c, found, m1, m2)
<1> DEFINE k == Rank(Kept(c, found, m1.pc[1]), m1.pc[2])
<1>1. Behind(c, found, m1.pc) = <<m1.pc[1], k>>
  BY DEF Behind, Rank
<1>2. m2.pc = <<m2.pc[1], m2.pc[2]>>
  <2>1. PICK b, n, env, log, status, result : m2 = State(b, n, env, log, status, result)
    BY Zenon DEF IsRecord
  <2>2. m2.pc = <<b, n>>
    BY <2>1, FieldsAre
  <2> QED
    BY <2>2
<1>3. Agree(LiveAt(c, found, m1.pc), m1, m2)
        <=> EnvAgree(LiveAfter(c, found, m1.pc[1], m1.pc[2]), m1.env, m2.env)
  BY AgreeIs, LiveAtIs
<1> HIDE DEF k
<1>4. m2.pc = <<m1.pc[1], k>> <=> m2.pc[1] = m1.pc[1] /\ m2.pc[2] = k
  BY <1>2
<1> QED
  BY <1>1, <1>3, <1>4 DEF InStep, Follows, k

\* Both have come to another block.
LEMMA MovedFollows ==
  ASSUME NEW c, IsFunction(c), NEW found, LiveSolution(c, found), NEW m1, NEW m2,
         NEW b \in c.blocks, NEW s \in c.succs[b],
         m2.log = m1.log, m2.status = m1.status, m2.result = m1.result,
         EnvAgree(LiveAfter(c, found, b, Len(c.code[b])), m1.env, m2.env),
         NEW r1, r1 = Moved(m1, s), NEW r2, r2 = Moved(m2, s)
  PROVE  Follows(c, found, r1, r2)
<1>1. /\ r1.pc[1] = s /\ r1.pc[2] = 0 /\ r1.env = m1.env /\ r1.log = m1.log
      /\ r1.status = m1.status /\ r1.result = m1.result
  BY FieldsAre DEF Moved
<1>2. /\ r2.pc[1] = s /\ r2.pc[2] = 0 /\ r2.env = m2.env /\ r2.log = m2.log
      /\ r2.status = m2.status /\ r2.result = m2.result /\ IsRecord(r2)
  BY FieldsAre DEF Moved
<1>3. s \in c.blocks
  BY CodeIs
<1>4. Rank(Kept(c, found, s), 0) = 0
  <2>1. Len(c.code[s]) \in Nat /\ Kept(c, found, s) \subseteq 1 .. Len(c.code[s])
    BY <1>3, CodeIs DEF Kept
  <2> QED
    BY <2>1, Ranks
<1>5. LiveAfter(c, found, s, 0) \subseteq LiveAfter(c, found, b, Len(c.code[b]))
  BY LiveEdges
<1>6. EnvAgree(LiveAfter(c, found, s, 0), m1.env, m2.env)
  BY <1>5 DEF EnvAgree
<1> QED
  BY <1>1, <1>2, <1>4, <1>6 DEF Follows

\* What is live before an instruction.
LEMMA LiveBefore ==
  ASSUME NEW c, IsFunction(c), NEW found, NEW b \in c.blocks, NEW n \in 1 .. Len(c.code[b]),
         NEW i, i = c.code[b][n].instr
  PROVE  LiveAfter(c, found, b, n - 1) =
           (LiveAfter(c, found, b, n) \ def_of_instr(i))
             \cup (IF IsCall(i) THEN c.globals ELSE {}) \cup UsedVars(i)
<1>1. Len(c.code[b]) \in Nat
  BY CodeIs
<1>2. LiveStep(c, LiveAfter(c, found, b, n), c.code[b][n], LiveAfter(c, found, b, n - 1))
  BY <1>1, LiveCarried
<1> QED
  BY <1>2, LiveFlow

\* The source passes an instruction that dce removed: the target waits.
LEMMA DeadPassed ==
  ASSUME NEW c, IsFunction(c), NEW found, NEW m1, IsState(c, m1), NEW m2, Follows(c, found, m1, m2),
         NEW i, IsNext(c, m1, i), IsDead(c, found, m1.pc[1], m1.pc[2] + 1),
         NEW r1, Goes(c, i, m1, r1)
  PROVE  Follows(c, found, r1, m2)
<1> DEFINE b == m1.pc[1]
           n == m1.pc[2]
           kept == Kept(c, found, b)
           V == LiveAfter(c, found, b, n)
           W == LiveAfter(c, found, b, n + 1)
<1>1. b \in c.blocks /\ n \in Nat /\ n + 1 \in 1 .. Len(c.code[b]) /\ (n + 1) - 1 = n
      /\ Len(c.code[b]) \in Nat /\ kept \subseteq 1 .. Len(c.code[b]) /\ i = c.code[b][n + 1].instr
  BY StateIs, CodeIs DEF IsNext, Kept
<1>2. /\ def_of_instr(i) # {} /\ ~IsCall(i) /\ def_of_instr(i) \cap W = {}
  BY <1>1, DeadIs
<1>3. i.op # "FCall" /\ ~StoresThrough(i) /\ Writes(c, i) = def_of_instr(i)
  <2>1. IsInstruction(i)
    BY <1>1, InstrIs
  <2> QED
    BY <1>2, <2>1, DefIs DEF IsCall, Writes
<1>4. V = (W \ def_of_instr(i)) \cup (IF IsCall(i) THEN c.globals ELSE {}) \cup UsedVars(i)
  <2>1. PICK k : k = n + 1
    OBVIOUS
  <2> HIDE DEF b
  <2>2. /\ k \in 1 .. Len(c.code[b]) /\ i = c.code[b][k].instr /\ b \in c.blocks
    BY <1>1, <2>1
  <2>3. LiveAfter(c, found, b, k - 1)
          = (LiveAfter(c, found, b, k) \ def_of_instr(i))
              \cup (IF IsCall(i) THEN c.globals ELSE {}) \cup UsedVars(i)
    BY <2>2, LiveBefore
  <2>4. k - 1 = n
    BY <1>1, <2>1
  <2> QED
    BY <2>1, <2>3, <2>4
<1>6. Rank(kept, n + 1) = Rank(kept, n)
  BY <1>1, KeptRank
<1>7. /\ r1.pc[1] = b /\ r1.pc[2] = n + 1 /\ r1.status = m1.status /\ r1.result = m1.result
      /\ DOMAIN r1.env = DOMAIN m1.env \cup def_of_instr(i)
      /\ \A x \in DOMAIN m1.env : x \notin def_of_instr(i) => r1.env[x] = m1.env[x]
      /\ r1.log = m1.log
  BY <1>3, GoesIs
<1>8. EnvAgree(V, m1.env, m2.env)
  BY DEF Follows
<1> HIDE DEF V, W, kept, b, n
<1>9. EnvAgree(W, r1.env, m2.env)
  BY <1>2, <1>4, <1>7, <1>8 DEF EnvAgree
<1> QED
  BY <1>6, <1>7, <1>9 DEF Follows, V, W, kept, b, n

\* What the target has come to when the source has come to r1.
Accords(c, found, r1, r2) ==
  /\ IsRecord(r2)
  /\ r2.log = r1.log /\ r2.status = r1.status /\ r2.result = r1.result
  /\ r1.status = "running" => Follows(c, found, r1, r2)
  /\ r1.status = "returned" => \A g \in c.globals : r2.env[g] = r1.env[g]

\* What the target executes in place of an instruction that dce kept.
LEMMA KeptNext ==
  ASSUME NEW c, IsFunction(c), NEW found, NEW inp, NEW m1, IsState(c, m1), NEW m2,
         Follows(c, found, m1, m2), NEW i, IsNext(c, m1, i),
         ~IsDead(c, found, m1.pc[1], m1.pc[2] + 1),
         NEW c2, c2 = run_pass(c, "dce", found).cfg
  PROVE  /\ Step(c2, inp, m2) = Execute(c, inp, m2, i)
         /\ Rank(Kept(c, found, m1.pc[1]), m1.pc[2] + 1) = m2.pc[2] + 1
<1>1. PICK b, n, kept, N : /\ b = m1.pc[1] /\ n = m1.pc[2] /\ kept = Kept(c, found, b)
                           /\ N = Len(c.code[b])
  OBVIOUS
<1>2. b \in c.blocks /\ n \in Nat /\ n + 1 \in 1 .. N /\ N \in Nat /\ n \in 0 .. N /\ n + 1 \in 0 .. N
  BY <1>1, StateIs, CodeIs DEF IsNext
<1>3. i = c.code[b][n + 1].instr
  BY <1>1 DEF IsNext
<1>4. n + 1 \in kept /\ Rank(kept, n + 1) = Rank(kept, n) + 1
  BY <1>1, <1>2, KeptRank
<1>5. /\ SameFrame(c, c2) /\ kept \subseteq 1 .. N /\ Len(c2.code[b]) = Cardinality(kept)
      /\ c2.code[b][Rank(kept, n + 1)] = c.code[b][n + 1]
  <2>1. PICK k \in kept : k = n + 1
    BY <1>4
  <2>2. /\ SameFrame(c, c2) /\ kept \subseteq 1 .. N /\ Len(c2.code[b]) = Cardinality(kept)
        /\ c2.code[b][Rank(kept, k)] = c.code[b][k]
    BY <1>1, <1>2, RetainIs
  <2> QED
    BY <2>1, <2>2
<1>6. /\ Rank(kept, n) \in Nat /\ Rank(kept, n + 1) <= Cardinality(kept) /\ Cardinality(kept) \in Nat
  BY <1>2, <1>5, Ranks
<1>7. m2.pc[1] = b /\ m2.pc[2] = Rank(kept, n)
  BY <1>1 DEF Follows
<1>8. m2.pc[2] < Len(c2.code[m2.pc[1]])
  BY <1>4, <1>5, <1>6, <1>7
<1>9. Step(c2, inp, m2) = Execute(c2, inp, m2, c2.code[m2.pc[1]][m2.pc[2] + 1].instr)
  BY <1>8, StepIs
<1>10. c2.code[m2.pc[1]][m2.pc[2] + 1].instr = i
  BY <1>3, <1>4, <1>5, <1>7
<1>11. Step(c2, inp, m2) = Execute(c2, inp, m2, i)
  BY <1>9, <1>10
<1> QED
  BY <1>1, <1>4, <1>5, <1>7, <1>11, ExecuteSame

\* Both execute it.
LEMMA KeptPassed ==
  ASSUME NEW c, IsFunction(c), NEW found, LiveSolution(c, found), NEW inp, NEW m1, IsState(c, m1),
         m1.status = "running", NEW m2, Follows(c, found, m1, m2), NEW i, Passed(c, m1, i),
         ~IsDead(c, found, m1.pc[1], m1.pc[2] + 1),
         NEW r1, r1 = Execute(c, inp, m1, i), Does(c, i, m1, r1),
         NEW r2, r2 = Execute(c, inp, m2, i),
         Rank(Kept(c, found, m1.pc[1]), m1.pc[2] + 1) = m2.pc[2] + 1
  PROVE  Accords(c, found, r1, r2)
<1>1. PICK b, n, V, W : /\ b = m1.pc[1] /\ n = m1.pc[2]
                        /\ V = LiveAfter(c, found, b, n) /\ W = LiveAfter(c, found, b, n + 1)
  OBVIOUS
<1>2. /\ b \in c.blocks /\ n \in Nat /\ n + 1 \in 1 .. Len(c.code[b]) /\ (n + 1) - 1 = n
      /\ i = c.code[b][n + 1].instr /\ IsInstruction(i) /\ UsedVars(i) \subseteq DOMAIN m1.env
  BY <1>1, StateIs, PassedIs
<1>3. V = (W \ def_of_instr(i)) \cup (IF IsCall(i) THEN c.globals ELSE {}) \cup UsedVars(i)
  <2>1. LiveAfter(c, found, b, (n + 1) - 1)
          = (W \ def_of_instr(i)) \cup (IF IsCall(i) THEN c.globals ELSE {}) \cup UsedVars(i)
    <3>1. PICK k : k = n + 1
      OBVIOUS
    <3>2. k \in 1 .. Len(c.code[b]) /\ i = c.code[b][k].instr
      BY <1>2, <3>1
    <3>3. LiveAfter(c, found, b, k - 1)
            = (LiveAfter(c, found, b, k) \ def_of_instr(i))
                \cup (IF IsCall(i) THEN c.globals ELSE {}) \cup UsedVars(i)
      BY <1>2, <3>2, LiveBefore
    <3> QED
      BY <1>1, <3>1, <3>3
  <2> QED
    BY <1>1, <1>2, <2>1
<1>4. UsedVars(i) \subseteq V /\ (IsCall(i) => c.globals \subseteq V) /\ W \ def_of_instr(i) \subseteq V
  BY <1>3
<1>5. /\ IsRecord(m2) /\ m2.pc[1] = b
      /\ m2.log = m1.log /\ m2.status = m1.status /\ m2.result = m1.result
      /\ EnvAgree(V, m1.env, m2.env)
  BY <1>1 DEF Follows
<1>6. IsRecord(m1) /\ c.globals \subseteq DOMAIN m1.env
  BY StateIs
<1>7. Both(W, m1, m2, r1, r2)
  BY <1>1, <1>2, <1>4, <1>5, <1>6, ExecuteAgree
<1>8. CASE \E e1, e2, log : /\ r1 = Next1(m1, e1, log) /\ r2 = Next1(m2, e2, log)
                            /\ EnvAgree(W, e1, e2)
  <2>1. PICK e1, e2, log : r1 = Next1(m1, e1, log) /\ r2 = Next1(m2, e2, log) /\ EnvAgree(W, e1, e2)
    BY <1>8
  <2>2. /\ r1.pc[1] = b /\ r1.pc[2] = n + 1 /\ r1.env = e1 /\ r1.log = log
        /\ r1.status = m1.status /\ r1.result = m1.result
    BY <1>1, <2>1, NextIs
  <2>3. /\ r2.pc[1] = b /\ r2.pc[2] = m2.pc[2] + 1 /\ r2.env = e2 /\ r2.log = log
        /\ r2.status = m1.status /\ r2.result = m1.result /\ IsRecord(r2)
    BY <1>5, <2>1, NextIs
  <2>4. Follows(c, found, r1, r2)
    BY <1>1, <2>1, <2>2, <2>3 DEF Follows
  <2>5. r1.status # "returned"
    BY <2>2
  <2> QED
    BY <2>2, <2>3, <2>4, <2>5 DEF Accords
<1>9. CASE \E status, result :
             /\ r1 = State(m1.pc[1], m1.pc[2], m1.env, m1.log, status, result)
             /\ r2 = State(m2.pc[1], m2.pc[2], m2.env, m2.log, status, result)
             /\ status # "running"
  <2>1. PICK status, result : /\ r1 = State(m1.pc[1], m1.pc[2], m1.env, m1.log, status, result)
                              /\ r2 = State(m2.pc[1], m2.pc[2], m2.env, m2.log, status, result)
                              /\ status # "running"
    BY <1>9
  <2>2. r1.pc[2] = n /\ r1.env = m1.env /\ r1.log = m1.log /\ r1.status = status /\ r1.result = result
    BY <1>1, <2>1, FieldsAre
  <2>3. /\ r2.env = m2.env /\ r2.log = m2.log /\ r2.status = status /\ r2.result = result
        /\ IsRecord(r2)
    BY <2>1, FieldsAre
  <2>4. ASSUME r1.status = "returned"
        PROVE  \A g \in c.globals : r2.env[g] = r1.env[g]
    <3>1. i.op = "Return" /\ b = c.exit
      <4>1. \/ r1.status = "unassigned" \/ r1.status = "trapped"
            \/ i.op = "Return" /\ m1.pc[1] = c.exit
            \/ \E s : r1 = Moved(m1, s)
            \/ Goes(c, i, m1, r1)
        BY FieldsAre DEF Does
      <4>2. (\E s : r1 = Moved(m1, s)) => r1.status = m1.status
        BY MovedIs
      <4>3. Goes(c, i, m1, r1) => r1.status = m1.status
        BY GoesIs
      <4> QED
        BY <1>1, <2>4, <4>1, <4>2, <4>3
    <3>2. n + 1 = Len(c.code[b]) /\ def_of_instr(i) = {}
      BY <1>2, <3>1, InstrIs, DefIs
    <3>3. W = c.globals
      BY <1>1, <1>2, <3>1, <3>2, LiveEdges
    <3>4. c.globals \subseteq V
      BY <1>4, <3>2, <3>3
    <3> QED
      BY <1>5, <1>6, <2>2, <2>3, <3>4 DEF EnvAgree
  <2> QED
    BY <1>5, <2>1, <2>2, <2>3, <2>4 DEF Accords
<1>10. CASE \E s : r1 = Moved(m1, s) /\ r2 = Moved(m2, s)
  <2>1. PICK s : r1 = Moved(m1, s) /\ r2 = Moved(m2, s)
    BY <1>10
  <2>2. r1.pc[1] = s /\ r1.pc[2] = 0 /\ r1.status = m1.status
    BY <2>1, MovedIs
  <2>3. i.op = "BrIf" /\ n + 1 = Len(c.code[b]) /\ s \in c.succs[b]
    <3>1. \/ r1.status = "unassigned" \/ r1.status = "trapped" \/ r1.status = "returned"
          \/ /\ i.op = "BrIf" /\ m1.pc[2] + 1 = Len(c.code[m1.pc[1]])
             /\ \E t \in c.succs[m1.pc[1]] : r1 = Moved(m1, t)
          \/ Goes(c, i, m1, r1)
      BY FieldsAre DEF Does
    <3>2. Goes(c, i, m1, r1) => r1.pc[2] = n + 1
      BY <1>1, GoesIs
    <3>3. 0 # n + 1
      BY <1>2
    <3>4. \A t : r1 = Moved(m1, t) => t = s
      BY <2>2, MovedIs
    <3> QED
      BY <1>1, <2>2, <3>1, <3>2, <3>3, <3>4
  <2>4. def_of_instr(i) = {}
    BY <1>2, <2>3, DefIs
  <2>5. EnvAgree(LiveAfter(c, found, b, Len(c.code[b])), m1.env, m2.env)
    <3>1. W \subseteq V
      BY <1>4, <2>4
    <3> QED
      BY <1>1, <1>5, <2>3, <3>1 DEF EnvAgree
  <2>6. Follows(c, found, r1, r2)
    BY <1>2, <1>5, <2>1, <2>3, <2>5, MovedFollows
  <2>7. r1.status # "returned"
    BY <2>2
  <2> QED
    BY <2>6, <2>7 DEF Accords, Follows
<1> QED
  BY <1>7, <1>8, <1>9, <1>10, Zenon DEF Both

\* A step of the source and of the target, if it takes one, after dce.
LEMMA DceStep ==
  ASSUME NEW c, IsFunction(c), NEW found, LiveSolution(c, found), NEW inp, NEW m1, IsState(c, m1),
         m1.status = "running", NEW m2, Follows(c, found, m1, m2),
         NEW c2, c2 = run_pass(c, "dce", found).cfg,
         NEW r1, r1 = Step(c, inp, m1), StepsTo(c, inp, m1, r1), r1.status # "unassigned"
  PROVE  /\ HasNext(c, m1.pc) /\ IsDead(c, found, m1.pc[1], m1.pc[2] + 1) =>
              Accords(c, found, r1, m2)
         /\ ~(HasNext(c, m1.pc) /\ IsDead(c, found, m1.pc[1], m1.pc[2] + 1)) =>
              Accords(c, found, r1, Step(c2, inp, m2))
<1>1. PICK b, n : b = m1.pc[1] /\ n = m1.pc[2]
  OBVIOUS
<1>2. b \in c.blocks /\ n \in 0 .. Len(c.code[b]) /\ Len(c.code[b]) \in Nat /\ IsRecord(m1)
  BY <1>1, StateIs, CodeIs
<1>3. HasNext(c, m1.pc) <=> n < Len(c.code[b])
  BY <1>1 DEF HasNext
<1>4. CASE n < Len(c.code[b])
  <2>1. PICK i : IsNext(c, m1, i) /\ r1 = Execute(c, inp, m1, i) /\ Does(c, i, m1, r1)
    <3>1. n # Len(c.code[b])
      BY <1>2, <1>4
    <3> QED
      BY <1>1, <3>1 DEF StepsTo
  <2>2. Passed(c, m1, i)
    <3>1. UsedVars(i) \subseteq DOMAIN m1.env
      BY <2>1, FieldsAre DEF Does
    <3> QED
      BY <2>1, <3>1 DEF Passed
  <2>3. CASE IsDead(c, found, b, n + 1)
    <3>1. i = c.code[b][n + 1].instr /\ IsInstruction(i)
      BY <1>1, <2>2, StateIs, PassedIs
    <3>2. def_of_instr(i) # {} /\ ~(i.op = "Binary" /\ i.fn \in {"Div", "Mod"})
      BY <2>3, <3>1, DeadIs
    <3>3. i.op \notin {"BrIf", "Return"}
      BY <3>1, <3>2, DefIs
    <3>4. Goes(c, i, m1, r1)
      BY <2>1, <2>2, <3>2, <3>3 DEF Does, Passed
    <3>5. Follows(c, found, r1, m2)
      BY <1>1, <2>1, <2>3, <3>4, DeadPassed
    <3>6. r1.status = "running"
      BY <3>4, GoesIs
    <3>7. Accords(c, found, r1, m2)
      BY <3>5, <3>6 DEF Accords, Follows
    <3> QED
      BY <1>1, <1>3, <1>4, <2>3, <3>7
  <2>4. CASE ~IsDead(c, found, b, n + 1)
    <3>1. PICK r2 : r2 = Step(c2, inp, m2)
      OBVIOUS
    <3>2. r2 = Execute(c, inp, m2, i) /\ Rank(Kept(c, found, m1.pc[1]), m1.pc[2] + 1) = m2.pc[2] + 1
      BY <1>1, <2>1, <2>4, <3>1, KeptNext
    <3>3. Accords(c, found, r1, r2)
      BY <1>1, <2>1, <2>2, <2>4, <3>2, KeptPassed
    <3> QED
      BY <1>1, <2>4, <3>1, <3>3
  <2> QED
    BY <2>3, <2>4
<1>5. CASE ~(n < Len(c.code[b]))
  <2>1. n = Len(c.code[b])
    BY <1>2, <1>5
  <2>2. PICK s \in c.succs[b] : r1 = Moved(m1, s)
    BY <1>1, <1>5 DEF StepsTo, IsNext
  <2>3. PICK r2 : r2 = Step(c2, inp, m2)
    OBVIOUS
  <2>4. SameFrame(c, c2) /\ Kept(c, found, b) \subseteq 1 .. Len(c.code[b])
          /\ Len(c2.code[b]) = Cardinality(Kept(c, found, b))
    BY <1>2, RetainIs
  <2>5. /\ IsRecord(m2) /\ m2.pc[1] = b /\ m2.pc[2] = Rank(Kept(c, found, b), n)
        /\ m2.log = m1.log /\ m2.status = m1.status /\ m2.result = m1.result
        /\ EnvAgree(LiveAfter(c, found, b, n), m1.env, m2.env)
    BY <1>1 DEF Follows
  <2>6. Cardinality(Kept(c, found, b)) \in Nat
          /\ Rank(Kept(c, found, b), Len(c.code[b])) = Cardinality(Kept(c, found, b))
    BY <1>2, <2>4, Ranks
  <2>7. ~(m2.pc[2] < Len(c2.code[m2.pc[1]]))
    BY <2>1, <2>4, <2>5, <2>6
  <2>8. r2 = [m2 EXCEPT !.pc = Onwards(c2, b)]
    BY <2>3, <2>5, <2>7, StepIs
  <2>9. r1 = [m1 EXCEPT !.pc = Onwards(c, b)]
    BY <1>1, <1>5, StepIs
  <2>10. PICK t \in c.succs[b] : Onwards(c, b) = <<t, 0>>
    BY <2>2, OnwardsIs
  <2>11. r1 = Moved(m1, t)
    <3>1. [m1 EXCEPT !.pc = <<t, 0>>] = Moved(m1, t)
      BY <1>2, StateSteps DEF Moved
    <3> QED
      BY <2>9, <2>10, <3>1
  <2>12. r2 = Moved(m2, t)
    <3>1. Onwards(c2, b) = <<t, 0>>
      BY <2>4, <2>10, OnwardsSame
    <3>2. IsRecord(m2)
      BY <2>5
    <3>3. [m2 EXCEPT !.pc = <<t, 0>>] = Moved(m2, t)
      BY <3>2, StateSteps DEF Moved
    <3> QED
      BY <2>8, <3>1, <3>3
  <2>13. Follows(c, found, r1, r2)
    BY <1>2, <2>1, <2>5, <2>11, <2>12, MovedFollows
  <2>14. r1.status = "running"
    BY <2>11, MovedIs
  <2>15. Accords(c, found, r1, r2)
    BY <2>13, <2>14 DEF Accords, Follows
  <2> QED
    BY <1>3, <1>5, <2>3, <2>15
<1> QED
  BY <1>4, <1>5

-----------------------------------------------------------------------------
\* Where the two runs start.

LEMMA StartIs ==
  ASSUME NEW c, NEW inp, NEW m, m = Start(c, inp)
  PROVE  /\ m = State(c.entry, 0, inp.env, <<>>, "running", <<>>)
         /\ m.pc = <<c.entry, 0>> /\ m.pc[1] = c.entry /\ m.pc[2] = 0 /\ m.env = inp.env
         /\ m.log = <<>> /\ m.status = "running" /\ m.result = <<>> /\ IsRecord(m)
<1>1. m = State(c.entry, 0, inp.env, <<>>, "running", <<>>)
  BY DEF Start, StartOf, State
<1> QED
  BY <1>1, FieldsAre

LEMMA StartTyped ==
  ASSUME NEW c, IsFunction(c), NEW inp, IsEnv(inp.env), c.globals \subseteq DOMAIN inp.env,
         NEW m, m = Start(c, inp)
  PROVE  IsState(c, m)
<1>1. /\ IsRecord(m) /\ m.pc[1] = c.entry /\ m.pc[2] = 0 /\ m.env = inp.env
      /\ m.log = <<>> /\ m.status = "running"
  BY StartIs
<1>2. c.entry \in c.blocks
  BY DEF IsFunction
<1>3. 0 \in 0 .. Len(c.code[c.entry])
  BY <1>2, CodeIs
<1>4. IsLog(<<>>)
  BY DEF IsLog, IsSeq
<1>5. 0 = Len(c.code[c.entry]) => c.succs[c.entry] # {}
  BY <1>2, CodeIs
<1> QED
  BY <1>1, <1>2, <1>3, <1>4, <1>5, IsStateIs

LEMMA StartHolds ==
  ASSUME NEW c, IsFunction(c), NEW ps, NEW found, IsSolution(ps, c, found), Relies(ps, c, found), NEW inp,
         DOMAIN inp.env \subseteq c.params \cup c.globals, NEW m, m = Start(c, inp)
  PROVE  Holds(ps, c, found, m)
<1>1. m.pc[1] = c.entry /\ m.pc[2] = 0 /\ m.env = inp.env
  BY StartIs
<1>2. c.entry \in c.blocks /\ Len(c.code[c.entry]) \in Nat
  BY CodeIs DEF IsFunction
<1>3. ASSUME ps = "cp" PROVE ConstantsHold(c, found, m)
  <2>1. ReachSolution(c, found)
    BY <1>3 DEF IsSolution
  <2>2. DefsAt(c, found, c.entry, 0) = {0} \X (c.params \cup c.globals)
    BY <1>2, <2>1, DefsCarried, DefEdges
  <2>3. get_constants(c, 0) = {}
    BY <1>3 DEF Relies, DistinctIds, get_constants
  <2>4. DefsHold(c, m, {0} \X (c.params \cup c.globals))
    <3> SUFFICES ASSUME NEW x \in DOMAIN m.env
                 PROVE  \E d \in {0} \X (c.params \cup c.globals) :
                          d[2] = x /\ \A v \in get_constants(c, d[1]) : m.env[x] = v.int
      BY DEF DefsHold
    <3>1. <<0, x>> \in {0} \X (c.params \cup c.globals) /\ <<0, x>>[2] = x /\ <<0, x>>[1] = 0
      BY <1>1
    <3> QED
      BY <2>3, <3>1
  <2> QED
    BY <1>1, <2>2, <2>4, ConstantsHoldIs
<1>4. ASSUME ps = "copy" PROVE CopiesHold(c, found, m)
  <2>1. CopySolution(c, found)
    BY <1>4 DEF IsSolution
  <2>2. CopiesAt(c, found, c.entry, 0) = {}
    BY <1>2, <2>1, CopiesCarried, CopyEdges
  <2>3. PairsHold(m, {})
    BY DEF PairsHold
  <2> QED
    BY <1>1, <2>2, <2>3, CopiesHoldIs
<1>5. ASSUME ps = "stl" PROVE LoadsHold(c, found, m)
  <2>1. LoadSolution(c, found)
    BY <1>5 DEF IsSolution
  <2>2. DOMAIN LoadsAt(c, found, c.entry, 0) = {}
    <3>1. LoadsAt(c, found, c.entry, 0) = found.in[c.entry]
      BY <1>2, LoadsCarried
    <3>2. DOMAIN found.in[c.entry] = {}
      BY <1>2, <2>1, LoadEdges
    <3> QED
      BY <3>1, <3>2
  <2>3. AllHold(m, LoadsAt(c, found, c.entry, 0))
    BY <2>2 DEF AllHold
  <2> QED
    BY <1>1, <2>3, LoadsHoldIs
<1> QED
  BY <1>3, <1>4, <1>5 DEF Holds

\* Facts that hold go on to hold.
LEMMA HoldsKept ==
  ASSUME NEW c, IsFunction(c), NEW ps, NEW found, IsSolution(ps, c, found), Relies(ps, c, found), NEW inp,
         NEW m, IsState(c, m), Holds(ps, c, found, m),
         NEW r, StepsTo(c, inp, m, r), r.status = "running"
  PROVE  Holds(ps, c, found, r)
<1>1. ps = "cp" => ConstantsHold(c, found, r)
  BY ConstantsKept DEF Holds, IsSolution, Relies
<1>2. ps = "copy" => CopiesHold(c, found, r)
  BY CopiesKept DEF Holds, IsSolution
<1>3. ps = "stl" => LoadsHold(c, found, r)
  BY LoadsKept DEF Holds, IsSolution
<1> QED
  BY <1>1, <1>2, <1>3 DEF Holds

-----------------------------------------------------------------------------
\* Source and target together.

\* The two have done the same, and if they go on, they are in step.
Together(c, ps, found, m1, m2) ==
  /\ IsRecord(m2)
  /\ m2.log = m1.log /\ m2.status = m1.status /\ m2.result = m1.result
  /\ m1.status = "returned" => \A g \in c.globals : m2.env[g] = m1.env[g]
  /\ m1.status = "running" =>
       /\ ps = "dce" => Follows(c, found, m1, m2)
       /\ ps # "dce" => m2 = m1

LEMMA StartTogether ==
  ASSUME NEW c, IsFunction(c), NEW ps, NEW found, NEW c2, c2 = run_pass(c, ps, found).cfg,
         NEW inp, NEW m1, m1 = Start(c, inp), NEW m2, m2 = Start(c2, inp)
  PROVE  Together(c, ps, found, m1, m2)
<1>1. c.entry \in c.blocks
  BY DEF IsFunction
<1>2. c2.entry = c.entry
  <2>1. PICK kept : kept = Kept(c, found, c.entry)
    OBVIOUS
  <2>2. ps = "dce" => SameFrame(c, c2)
    BY <1>1, <2>1, RetainIs
  <2>3. ps # "dce" => SameFrame(c, c2)
    BY RewriteIs
  <2> QED
    BY <2>2, <2>3 DEF SameFrame
<1>3. m2 = m1
  BY <1>2 DEF Start, StartOf
<1>4. /\ m1.pc[1] = c.entry /\ m1.pc[2] = 0 /\ m1.status = "running" /\ IsRecord(m1)
  BY StartIs
<1>5. Rank(Kept(c, found, c.entry), 0) = 0
  <2>1. Len(c.code[c.entry]) \in Nat /\ Kept(c, found, c.entry) \subseteq 1 .. Len(c.code[c.entry])
    BY <1>1, CodeIs DEF Kept
  <2> QED
    BY <2>1, Ranks
<1>6. \A V, e : EnvAgree(V, e, e)
  BY DEF EnvAgree
<1>7. Follows(c, found, m1, m1)
  BY <1>4, <1>5, <1>6 DEF Follows
<1> QED
  BY <1>3, <1>4, <1>7 DEF Together

LEMMA StepTogether ==
  ASSUME NEW c, IsFunction(c), NEW ps, ps \in Rewriting \cup {"dce"},
         NEW found, IsSolution(ps, c, found), Relies(ps, c, found),
         NEW inp, NEW c2, c2 = run_pass(c, ps, found).cfg, Emittable(c2),
         NEW m1, IsState(c, m1), m1.status = "running", Holds(ps, c, found, m1),
         NEW m2, Together(c, ps, found, m1, m2),
         NEW r1, r1 = Step(c, inp, m1), StepsTo(c, inp, m1, r1), r1.status # "unassigned",
         NEW r2, r2 = IF ps = "dce" /\ HasNext(c, m1.pc) /\ IsDead(c, found, m1.pc[1], m1.pc[2] + 1)
                      THEN m2 ELSE Step(c2, inp, m2)
  PROVE  Together(c, ps, found, r1, r2)
<1>1. CASE ps = "dce"
  <2>1. LiveSolution(c, found) /\ Follows(c, found, m1, m2)
    BY <1>1 DEF IsSolution, Together
  <2>2. /\ HasNext(c, m1.pc) /\ IsDead(c, found, m1.pc[1], m1.pc[2] + 1) =>
             Accords(c, found, r1, m2)
        /\ ~(HasNext(c, m1.pc) /\ IsDead(c, found, m1.pc[1], m1.pc[2] + 1)) =>
             Accords(c, found, r1, Step(c2, inp, m2))
    BY <1>1, <2>1, DceStep
  <2>3. Accords(c, found, r1, r2)
    BY <1>1, <2>2
  <2> QED
    BY <1>1, <2>3 DEF Accords, Together
<1>2. CASE ps # "dce"
  <2>1. ps \in Rewriting /\ m2 = m1
    BY <1>2 DEF Together
  <2>2. Step(c2, inp, m1) = r1
    BY <2>1, RewrittenStep
  <2>3. r2 = r1
    BY <1>2, <2>1, <2>2
  <2>4. IsRecord(r1)
    <3>1. IsState(c, r1)
      BY StepTyped
    <3> QED
      BY <3>1, StateIs
  <2> QED
    BY <1>2, <2>3, <2>4 DEF Together
<1> QED
  BY <1>1, <1>2

-----------------------------------------------------------------------------
\* The invariant.

Setting ==
  /\ \E task \in Tasks : cfg = task.cfg /\ pass = task.pass /\ facts = task.facts
  /\ optimized = run_pass(cfg, pass, facts).cfg
  /\ input \in Inputs

LEMMA SettingIs ==
  ASSUME Setting
  PROVE  /\ IsFunction(cfg) /\ pass \in Rewriting \cup {"dce"}
         /\ IsSolution(pass, cfg, facts) /\ Relies(pass, cfg, facts)
         /\ optimized = run_pass(cfg, pass, facts).cfg
         /\ Handles(cfg, input)
         /\ IsEnv(input.env) /\ cfg.globals \subseteq DOMAIN input.env
         /\ DOMAIN input.env \subseteq cfg.params \cup cfg.globals
<1>1. PICK task \in Tasks : cfg = task.cfg /\ pass = task.pass /\ facts = task.facts
  BY DEF Setting
<1>2. input \in Inputs /\ optimized = run_pass(cfg, pass, facts).cfg
  BY DEF Setting
<1>3. IsFunction(cfg) /\ pass \in {"cp", "copy", "cf", "dce", "ptr", "stl"}
        /\ IsSolution(pass, cfg, facts) /\ Relies(pass, cfg, facts)
  BY <1>1, TasksAssumption, RelianceAssumption
<1>4. /\ IsEnv(input.env) /\ cfg.globals \subseteq DOMAIN input.env
      /\ DOMAIN input.env \subseteq cfg.params \cup cfg.globals
  BY <1>1, <1>2, InputsAssumption
<1>5. Handles(cfg, input)
  BY <1>1, <1>2, CalleeAssumption DEF Handles
<1> QED
  BY <1>2, <1>3, <1>4, <1>5 DEF Rewriting

\* Besides what the properties say: where the runs come from, and that the facts hold
\* whether or not the emitter would take the result.
IInv ==
  /\ Setting
  /\ TypeOK
  /\ source.status = "running" => Holds(pass, cfg, facts, source)
  /\ Emittable(optimized) /\ source.status # "unassigned" =>
       Together(cfg, pass, facts, source, target)

LEMMA InitIInv == Init => IInv
<1> SUFFICES ASSUME Init PROVE IInv
  OBVIOUS
<1>1. Setting /\ source = Start(cfg, input) /\ target = Start(optimized, input)
  BY DEF Init, Setting
<1>2. IsState(cfg, source)
  BY <1>1, SettingIs, StartTyped
<1>3. Holds(pass, cfg, facts, source)
  BY <1>1, SettingIs, StartHolds
<1>4. Together(cfg, pass, facts, source, target)
  BY <1>1, SettingIs, StartTogether
<1> QED
  BY <1>1, <1>2, <1>3, <1>4 DEF IInv, TypeOK

LEMMA NextIInv == IInv /\ [Next]_vars => IInv'
<1> SUFFICES ASSUME IInv, [Next]_vars PROVE IInv'
  OBVIOUS
<1>1. CASE Next
  <2>1. /\ source.status = "running" /\ Len(source.log) <= MaxEvents
        /\ source' = Step(cfg, input, source)
        /\ target' = IF Removed THEN target ELSE Step(optimized, input, target)
        /\ cfg' = cfg /\ pass' = pass /\ facts' = facts /\ optimized' = optimized /\ input' = input
    BY <1>1 DEF Next
  <2>2. Setting /\ IsState(cfg, source) /\ Holds(pass, cfg, facts, source)
    BY <2>1 DEF IInv, TypeOK
  <2>3. Setting'
    BY <2>1, <2>2 DEF Setting
  <2>4. PICK r1 : r1 = Step(cfg, input, source)
    OBVIOUS
  <2>5. StepsTo(cfg, input, source, r1)
    BY <2>1, <2>2, <2>4, SettingIs, StepSteps
  <2>6. IsState(cfg, r1)
    BY <2>2, <2>5, SettingIs, StepTyped
  <2>7. r1.status = "running" => Holds(pass, cfg, facts, r1)
    BY <2>2, <2>5, SettingIs, HoldsKept
  <2>8. ASSUME Emittable(optimized), r1.status # "unassigned"
        PROVE  Together(cfg, pass, facts, r1, target')
    <3>1. Together(cfg, pass, facts, source, target)
      BY <2>1, <2>8 DEF IInv
    <3>2. PICK r2 : /\ r2 = IF pass = "dce" /\ HasNext(cfg, source.pc)
                                 /\ IsDead(cfg, facts, source.pc[1], source.pc[2] + 1)
                            THEN target ELSE Step(optimized, input, target)
      OBVIOUS
    <3>3. target' = r2
      BY <2>1, <3>2 DEF Removed
    <3>4. Together(cfg, pass, facts, r1, r2)
      BY <2>1, <2>2, <2>4, <2>5, <2>8, <3>1, <3>2, SettingIs, StepTogether
    <3> QED
      BY <3>3, <3>4
  <2> QED
    BY <2>1, <2>3, <2>4, <2>6, <2>7, <2>8 DEF IInv, TypeOK
<1>2. CASE UNCHANGED vars
  BY <1>2 DEF vars, IInv, Setting, TypeOK
<1> QED
  BY <1>1, <1>2

\* Every step of the two runs keeps the invariant.
THEOREM Invariant == Spec => []IInv
BY InitIInv, NextIInv, PTL DEF Spec

LEMMA IInvSimulates == IInv => Simulation
<1> SUFFICES ASSUME IInv, Emittable(optimized), source.status = "running"
             PROVE  /\ IF pass = "dce" THEN InStep(cfg, facts, source, target) ELSE target = source
                    /\ pass = "cp"   => ConstantsHold(cfg, facts, source)
                    /\ pass = "copy" => CopiesHold(cfg, facts, source)
                    /\ pass = "stl"  => LoadsHold(cfg, facts, source)
  BY DEF Simulation
<1>1. Holds(pass, cfg, facts, source) /\ Together(cfg, pass, facts, source, target)
  BY DEF IInv
<1>2. pass = "dce" => InStep(cfg, facts, source, target)
  BY <1>1, FollowsIs DEF Together
<1>3. pass # "dce" => target = source
  BY <1>1 DEF Together
<1> QED
  BY <1>1, <1>2, <1>3 DEF Holds

\* No run leaves its function, runs past its end, or gives a variable or a place in memory
\* a value that does not fit a register.
THEOREM TypeCorrect == Spec => []TypeOK
BY Invariant, PTL DEF IInv

\* Whatever run_pass made of a function goes through the same instructions, but for those
\* dce removed, with the same values in every variable that is live; and the facts of the
\* analysis hold of the run at every point.
THEOREM StaysInStep == Spec => []Simulation
BY Invariant, IInvSimulates, PTL

\* A pass changes nothing that the callers, the callees and the memory can see.
THEOREM SameBefore == Spec => []SameSoFar
<1>1. IInv => SameSoFar
  BY DEF IInv, Together, SameSoFar
<1> QED
  BY <1>1, Invariant, PTL
=============================================================================
