-------------------------------- MODULE Memory --------------------------------
(***************************************************************************)
(* The memory of a compiled program: frames of functions on a stack that grows    *)
(* down (wtac_gen/mod.rs, gen_function), and above it the heap, where the          *)
(* allocator of the runtime (runtime/src/main.rs, eta_malloc) only moves up.       *)
(* Nothing checks the stack against its end: a store there traps if its address     *)
(* is outside the memory and goes ahead if it is not.                            *)
(*                                                                         *)
(* Addresses are counted in bytes.  The stack pointer is an i32 and wraps; sp is   *)
(* the number it stands for before it does.                                     *)
(***************************************************************************)
EXTENDS Integers, Sequences, SequenceTheorems, TLAPS

CONSTANTS
  DataEnd,      \* DATA_END + stk_offset
  StackSize,    \* STACK_SIZE
  MemBytes,     \* the size of the memory
  Word,         \* the number of values of an i32
  Depth,        \* the calls the engine's own stack has room for
  CallStack,    \* and the bytes their frames take at most
  FrameSizes,   \* sizes of frames
  Magnitudes,   \* lengths an array is created with, up to the sign: any i64
  Widths        \* sizes of elements

ASSUME LayoutAssumption ==
  /\ DataEnd \in Nat /\ StackSize \in Nat /\ MemBytes \in Nat /\ Word \in Nat
  /\ Depth \in Nat /\ CallStack \in Nat
  /\ DataEnd + StackSize <= MemBytes
  /\ MemBytes + 8 <= Word
  /\ MemBytes + CallStack <= Word

ASSUME SizesAssumption ==
  /\ FrameSizes \subseteq Nat
  /\ Magnitudes \subseteq Nat
  /\ Widths \subseteq Nat \ {0}

\* The stack grows down from here and the heap up.
heap_base == DataEnd + StackSize

\* A broken variant: rounds down.
align_Down(heap) == (heap \div 8) * 8

\* (heap + 7) & !7
align(heap) == ((heap + 7) \div 8) * 8

\* Nothing if the allocator panics: on overflow, or at the end of the memory.
eta_malloc(heap, size) ==
  LET ptr == align(heap) IN
  IF ptr + size < Word /\ ptr + size < MemBytes THEN {ptr} ELSE {}

-----------------------------------------------------------------------------

VARIABLES
  heap_ptr,
  sp,           \* __stack_pointer
  saved,        \* the stack pointer each running function found
  blocks        \* what has been allocated: [ptr, size, len, width]

memory == <<heap_ptr, sp, saved, blocks>>

\* A broken variant: the heap starts below the stack.
Init_HeapBelow ==
  heap_ptr = DataEnd /\ sp = heap_base /\ saved = <<>> /\ blocks = {}

Init ==
  /\ heap_ptr = heap_base
  /\ sp = heap_base
  /\ saved = <<>>
  /\ blocks = {}

\* A function with a frame of the given size is called.
Enter(size) ==
  /\ Len(saved) < Depth
  /\ heap_base - (sp - size) <= CallStack
  /\ saved' = Append(saved, sp)
  /\ sp' = sp - size
  /\ UNCHANGED <<heap_ptr, blocks>>

\* A broken variant: the frame stays.
Leave_Leaking ==
  /\ saved # <<>>
  /\ saved' = SubSeq(saved, 1, Len(saved) - 1)
  /\ UNCHANGED <<heap_ptr, sp, blocks>>

Leave ==
  /\ saved # <<>>
  /\ sp' = saved[Len(saved)]
  /\ saved' = SubSeq(saved, 1, Len(saved) - 1)
  /\ UNCHANGED <<heap_ptr, blocks>>

Lengths == Magnitudes \cup {-n : n \in Magnitudes}

\* A broken variant: no room for the header.
Requested_Bare(len, width) == (len * width) % Word

\* The size of an array and its header, wrapped to the i32 the allocator takes.
Requested(len, width) == (len * width + 8) % Word

NewArray(len, width) ==
  \E ptr \in eta_malloc(heap_ptr, Requested(len, width)) :
    /\ heap_ptr' = ptr + Requested(len, width)
    /\ blocks' = blocks \cup {[ptr |-> ptr, size |-> Requested(len, width), len |-> len, width |-> width]}
    /\ UNCHANGED <<sp, saved>>

Next ==
  \/ \E size \in FrameSizes : Enter(size)
  \/ Leave
  \/ \E len \in Lengths, width \in Widths : NewArray(len, width)

Spec == Init /\ [][Next]_memory

-----------------------------------------------------------------------------

\* The allocator's pointer and what it has handed out are numbers without a sign;
\* only the stack pointer may pass zero (eta_malloc, gen_function).
TypeOK ==
  /\ heap_ptr \in Nat
  /\ sp \in Int
  /\ saved \in Seq(Int)
  /\ blocks \subseteq [ptr : Nat, size : Nat, len : Lengths, width : Widths]

\* The bytes of the array can be counted in an i32.  The language says nothing of
\* a length that is negative or larger.
Honest(b) == b.len >= 0 /\ b.len * b.width + 8 < Word

\* Behind the last element; the header is in front of the first.
End(b) == b.ptr + 8 + b.len * b.width

\* Two arrays never share a byte, header or element, however close to the end of
\* the memory they are and whatever else was asked for in between.
ArraysApart ==
  \A a, b \in blocks :
    Honest(a) /\ Honest(b) /\ a # b => End(a) <= b.ptr \/ End(b) <= a.ptr

\* Every array is in the memory, above the stack, its header and with it an i64
\* element at a multiple of 8.
ArraysInMemory ==
  \A b \in blocks : Honest(b) => heap_base <= b.ptr /\ End(b) < MemBytes /\ b.ptr % 8 = 0

\* "the stack grows down and the heap grows up from one address, so neither can
\* run into the other" (emitter.rs): what can be stored in the running frames is
\* below every array, even after the stack has left the memory at its lower end
\* and the addresses of its frames have wrapped.
StackBelowHeap ==
  \A x \in sp .. heap_base - 1 :
    x % Word < MemBytes => \A b \in blocks : x % Word < b.ptr

\* When all calls are over the stack is where it was.
ReturnsToStart == saved = <<>> => sp = heap_base

-----------------------------------------------------------------------------
\* Proofs.

\* Every block was taken from the heap as it was then, and no two overlap.
HeapInv ==
  /\ heap_base <= heap_ptr
  /\ \A b \in blocks :
       /\ b.size = Requested(b.len, b.width)
       /\ heap_base <= b.ptr /\ b.ptr % 8 = 0
       /\ b.ptr + b.size <= heap_ptr /\ b.ptr + b.size < MemBytes
  /\ \A a, b \in blocks : a # b => a.ptr + a.size <= b.ptr \/ b.ptr + b.size <= a.ptr

\* Every stack pointer, the saved ones too, is where calls can have moved it.
InReach(s) == s <= heap_base /\ heap_base - s <= CallStack

StackInv ==
  /\ InReach(sp)
  /\ \A i \in DOMAIN saved : InReach(saved[i])
  /\ saved = <<>> => sp = heap_base
  /\ saved # <<>> => saved[1] = heap_base

\* What rounding does: up, by a multiple of 8.
LEMMA Rounded ==
  ASSUME NEW heap \in Nat
  PROVE  align(heap) \in Nat /\ heap <= align(heap) /\ align(heap) % 8 = 0
  BY SMT DEF align

\* The remainder of what is small enough already, and of what has wrapped once.
LEMMA Remainder ==
  ASSUME NEW x \in Int, NEW w \in Nat, -w <= x, x < w
  PROVE  x % w = IF x >= 0 THEN x ELSE x + w
  BY SMT

\* The allocator starts inside the memory.
LEMMA BaseInMemory == heap_base \in Nat /\ heap_base <= MemBytes /\ Word \in Nat /\ Word > 0
  BY LayoutAssumption DEF heap_base

\* The size an array asks for, wrapped, is a natural number.
LEMMA RequestedSize ==
  ASSUME NEW len \in Lengths, NEW width \in Widths
  PROVE  Requested(len, width) \in Nat
<1>1. CASE len \in Magnitudes
  BY <1>1, SizesAssumption, BaseInMemory DEF Requested
<1>2. CASE len \in {-n : n \in Magnitudes}
  <2> PICK n \in Magnitudes : len = -n
    BY <1>2, Zenon
  <2> n \in Nat /\ width \in Nat
    BY SizesAssumption
  <2> QED
    BY BaseInMemory DEF Requested
<1> QED
  BY <1>1, <1>2 DEF Lengths

\* The types of the variables hold in every reachable state.
THEOREM TypeCorrect == Spec => []TypeOK
<1>1. Init => TypeOK
  BY BaseInMemory DEF Init, TypeOK
<1>2. TypeOK /\ [Next]_memory => TypeOK'
  <2> SUFFICES ASSUME TypeOK, [Next]_memory PROVE TypeOK'
    OBVIOUS
  <2>1. ASSUME NEW size \in FrameSizes, Enter(size) PROVE TypeOK'
    <3> size \in Int
      BY SizesAssumption
    <3> QED
      BY <2>1 DEF TypeOK, Enter
  <2>2. CASE Leave
    BY <2>2 DEF TypeOK, Leave
  <2>3. ASSUME NEW len \in Lengths, NEW width \in Widths, NewArray(len, width) PROVE TypeOK'
    <3> PICK ptr \in eta_malloc(heap_ptr, Requested(len, width)) :
          /\ heap_ptr' = ptr + Requested(len, width)
          /\ blocks' = blocks \cup
               {[ptr |-> ptr, size |-> Requested(len, width), len |-> len, width |-> width]}
          /\ UNCHANGED <<sp, saved>>
      BY <2>3 DEF NewArray
    <3>1. ptr \in Nat
      BY Rounded DEF TypeOK, eta_malloc
    <3>2. [ptr |-> ptr, size |-> Requested(len, width), len |-> len, width |-> width]
            \in [ptr : Nat, size : Nat, len : Lengths, width : Widths]
      BY <3>1, RequestedSize, SizesAssumption
    <3> QED
      BY <3>1, <3>2, RequestedSize DEF TypeOK
  <2>4. CASE UNCHANGED memory
    BY <2>4 DEF TypeOK, memory
  <2> QED
    BY <2>1, <2>2, <2>3, <2>4 DEF Next
<1> QED
  BY <1>1, <1>2, PTL DEF Spec

\* The heap and the stack as the next theorems need them.
THEOREM Inductive == Spec => [](TypeOK /\ HeapInv /\ StackInv)
<1>1. Init => HeapInv /\ StackInv
  <2> SUFFICES ASSUME Init PROVE HeapInv /\ StackInv
    OBVIOUS
  <2>1. HeapInv
    BY BaseInMemory DEF Init, HeapInv
  <2>2. StackInv
    BY BaseInMemory, LayoutAssumption DEF Init, StackInv, InReach
  <2> QED
    BY <2>1, <2>2
<1>2. TypeOK /\ HeapInv /\ [Next]_memory => HeapInv'
  <2> SUFFICES ASSUME TypeOK, HeapInv, [Next]_memory PROVE HeapInv'
    OBVIOUS
  <2>1. ASSUME UNCHANGED <<heap_ptr, blocks>> PROVE HeapInv'
    BY <2>1 DEF HeapInv
  <2>2. ASSUME NEW len \in Lengths, NEW width \in Widths, NewArray(len, width) PROVE HeapInv'
    <3> DEFINE size == Requested(len, width)
    <3> PICK ptr \in eta_malloc(heap_ptr, size) :
          /\ heap_ptr' = ptr + size
          /\ blocks' = blocks \cup {[ptr |-> ptr, size |-> size, len |-> len, width |-> width]}
      BY <2>2 DEF NewArray
    <3>1. size \in Nat
      BY RequestedSize
    <3>2. ptr \in Nat /\ heap_ptr \in Nat /\ heap_ptr <= ptr /\ ptr % 8 = 0 /\ ptr + size < MemBytes
      BY Rounded DEF TypeOK, eta_malloc
    <3> DEFINE new == [ptr |-> ptr, size |-> size, len |-> len, width |-> width]
    <3>3. \A b \in blocks : b.ptr \in Nat /\ b.size \in Nat /\ b.ptr + b.size <= heap_ptr
      BY DEF TypeOK, HeapInv
    <3>4. /\ new.ptr = ptr /\ new.size = size /\ new.len = len /\ new.width = width
          /\ blocks' = blocks \cup {new}
      OBVIOUS
    <3> HIDE DEF size, new
    <3>5. heap_base <= heap_ptr'
      BY <3>1, <3>2, BaseInMemory DEF TypeOK, HeapInv
    <3>6. ASSUME NEW b \in blocks'
          PROVE  /\ b.size = Requested(b.len, b.width)
                 /\ heap_base <= b.ptr /\ b.ptr % 8 = 0
                 /\ b.ptr + b.size <= heap_ptr' /\ b.ptr + b.size < MemBytes
      <4>1. CASE b = new
        BY <4>1, <3>1, <3>2, <3>4, BaseInMemory DEF TypeOK, HeapInv, size
      <4>2. CASE b \in blocks
        BY <4>2, <3>1, <3>2, <3>3, BaseInMemory DEF TypeOK, HeapInv
      <4> QED
        BY <4>1, <4>2, <3>4
    <3>7. ASSUME NEW a \in blocks', NEW b \in blocks', a # b
          PROVE  a.ptr + a.size <= b.ptr \/ b.ptr + b.size <= a.ptr
      <4>1. CASE a \in blocks /\ b \in blocks
        BY <4>1, <3>7 DEF HeapInv
      <4>2. CASE a = new /\ b \in blocks
        <5>1. b.ptr + b.size <= heap_ptr /\ b.ptr \in Nat /\ b.size \in Nat
          BY <4>2, <3>3
        <5>2. b.ptr + b.size <= a.ptr
          BY <5>1, <4>2, <3>2, <3>4
        <5> QED
          BY <5>2
      <4>3. CASE b = new /\ a \in blocks
        <5>1. a.ptr + a.size <= heap_ptr /\ a.ptr \in Nat /\ a.size \in Nat
          BY <4>3, <3>3
        <5>2. a.ptr + a.size <= b.ptr
          BY <5>1, <4>3, <3>2, <3>4
        <5> QED
          BY <5>2
      <4> QED
        BY <4>1, <4>2, <4>3, <3>4, <3>7
    <3> QED
      BY <3>5, <3>6, <3>7 DEF HeapInv
  <2> QED
    BY <2>1, <2>2 DEF Next, Enter, Leave, memory
<1>3. TypeOK /\ StackInv /\ [Next]_memory => StackInv'
  <2> SUFFICES ASSUME TypeOK, StackInv, [Next]_memory PROVE StackInv'
    OBVIOUS
  <2>1. ASSUME UNCHANGED <<sp, saved>> PROVE StackInv'
    BY <2>1 DEF StackInv, InReach
  <2>2. ASSUME NEW size \in FrameSizes, Enter(size) PROVE StackInv'
    <3>1. size \in Nat
      BY SizesAssumption
    <3>2. InReach(sp)'
      BY <2>2, <3>1, BaseInMemory, LayoutAssumption DEF TypeOK, StackInv, InReach, Enter
    <3>3. \A i \in DOMAIN saved' : InReach(saved'[i])
      BY <2>2 DEF TypeOK, StackInv, InReach, Enter
    <3>4. saved' # <<>> /\ saved'[1] = heap_base
      BY <2>2 DEF TypeOK, StackInv, Enter
    <3> QED
      BY <3>2, <3>3, <3>4 DEF StackInv, InReach
  <2>3. CASE Leave
    <3>1. /\ saved \in Seq(Int) /\ saved # <<>> /\ Len(saved) \in Nat \ {0}
          /\ sp' = saved[Len(saved)] /\ saved' = SubSeq(saved, 1, Len(saved) - 1)
      BY <2>3 DEF TypeOK, Leave
    <3>2. \A i \in DOMAIN saved' : saved'[i] = saved[i] /\ i \in DOMAIN saved
      BY <3>1
    <3>3. saved' = <<>> => Len(saved) = 1
      <4>1. \A i \in 1 .. Len(saved) - 1 : saved[i] \in Int
        BY <3>1
      <4>2. Len(saved') = IF 1 <= Len(saved) - 1 THEN Len(saved) - 1 ELSE 0
        BY <3>1, <4>1, SubSeqProperties
      <4>3. Len(<<>>) = 0
        BY EmptySeq
      <4> QED
        <5> SUFFICES ASSUME saved' = <<>> PROVE Len(saved) = 1
          OBVIOUS
        <5>1. Len(saved') = 0
          BY <4>3
        <5>2. Len(saved) \in Nat \ {0}
          BY <3>1
        <5>3. \A n \in Nat \ {0} : (IF 1 <= n - 1 THEN n - 1 ELSE 0) = 0 => n = 1
          OBVIOUS
        <5>4. (IF 1 <= Len(saved) - 1 THEN Len(saved) - 1 ELSE 0) = 0
          BY ONLY <4>2, <5>1, Zenon
        <5> QED
          BY ONLY <5>2, <5>3, <5>4, Zenon
    <3>4. InReach(sp)' /\ \A i \in DOMAIN saved' : InReach(saved'[i])
      BY <3>1, <3>2 DEF StackInv, InReach
    <3>5. saved' = <<>> => sp' = heap_base
      BY <3>1, <3>3 DEF StackInv
    <3>6. saved' # <<>> => saved'[1] = heap_base
      BY <3>1, <3>2 DEF StackInv
    <3> QED
      BY <3>4, <3>5, <3>6 DEF StackInv, InReach
  <2> QED
    BY <2>1, <2>2, <2>3 DEF Next, NewArray, memory
<1> QED
  BY TypeCorrect, <1>1, <1>2, <1>3, PTL DEF Spec

\* An honest array has room for its header and all its elements.
LEMMA Fits ==
  ASSUME NEW b \in blocks, TypeOK, HeapInv, Honest(b)
  PROVE  End(b) = b.ptr + b.size /\ b.ptr \in Nat /\ b.size \in Nat
<1>1. b.ptr \in Nat /\ b.size \in Nat /\ b.width \in Nat /\ b.len \in Lengths
  BY SizesAssumption DEF TypeOK
<1>2. b.len \in Nat
  <2>1. CASE b.len \in Magnitudes
    BY <2>1, SizesAssumption
  <2>2. CASE b.len \in {-n : n \in Magnitudes}
    <3> PICK n \in Magnitudes : b.len = -n
      BY <2>2, Zenon
    <3> n \in Nat
      BY SizesAssumption
    <3> QED
      BY DEF Honest
  <2> QED
    BY <1>1, <2>1, <2>2 DEF Lengths
<1> DEFINE bytes == b.len * b.width
<1>3. bytes \in Nat
  BY <1>1, <1>2
<1>4. bytes + 8 < Word
  BY DEF Honest
<1>5. b.size = (bytes + 8) % Word
  BY DEF HeapInv, Requested
<1> HIDE DEF bytes
<1>6. b.size = bytes + 8
  BY <1>3, <1>4, <1>5, BaseInMemory, Remainder
<1>7. End(b) = b.ptr + 8 + bytes
  BY DEF End, bytes
<1> QED
  BY <1>1, <1>3, <1>6, <1>7

\* No two honest arrays share a byte, for every layout and every sequence of calls.
THEOREM ArraysNeverOverlap == Spec => []ArraysApart
<1>1. TypeOK /\ HeapInv => ArraysApart
  <2> SUFFICES ASSUME TypeOK, HeapInv, NEW a \in blocks, NEW b \in blocks,
                      Honest(a), Honest(b), a # b
               PROVE  End(a) <= b.ptr \/ End(b) <= a.ptr
    BY DEF ArraysApart
  <2>1. End(a) = a.ptr + a.size /\ End(b) = b.ptr + b.size
    BY Fits
  <2> QED
    BY <2>1 DEF HeapInv
<1> QED
  BY Inductive, <1>1, PTL

\* Every honest array is in the memory, above the stack and aligned.
THEOREM ArraysAlwaysInMemory == Spec => []ArraysInMemory
<1>1. TypeOK /\ HeapInv => ArraysInMemory
  <2> SUFFICES ASSUME TypeOK, HeapInv, NEW b \in blocks, Honest(b)
               PROVE  heap_base <= b.ptr /\ End(b) < MemBytes /\ b.ptr % 8 = 0
    BY DEF ArraysInMemory
  <2>1. End(b) = b.ptr + b.size
    BY Fits
  <2> QED
    BY <2>1 DEF HeapInv
<1> QED
  BY Inductive, <1>1, PTL

\* The stack and the heap never meet, however deep the calls go.
THEOREM StackNeverMeetsHeap == Spec => []StackBelowHeap
<1>1. TypeOK /\ HeapInv /\ StackInv => StackBelowHeap
  <2> SUFFICES ASSUME TypeOK, HeapInv, StackInv, NEW x \in sp .. heap_base - 1,
                      x % Word < MemBytes, NEW b \in blocks
               PROVE  x % Word < b.ptr
    BY DEF StackBelowHeap
  <2>1. /\ x \in Int /\ x < heap_base /\ sp <= x /\ heap_base - sp <= CallStack
        /\ sp \in Int /\ heap_base \in Nat
    BY BaseInMemory DEF TypeOK, StackInv, InReach
  <2>2. MemBytes + CallStack <= Word /\ heap_base <= MemBytes
          /\ MemBytes \in Nat /\ CallStack \in Nat /\ Word \in Nat
    BY LayoutAssumption, BaseInMemory
  <2>3. -Word <= x /\ x < Word
    BY <2>1, <2>2
  <2>4. x % Word = IF x >= 0 THEN x ELSE x + Word
    BY <2>1, <2>2, <2>3, Remainder
  <2>5. x >= 0
    BY <2>1, <2>2, <2>4
  <2>6. heap_base <= b.ptr /\ b.ptr \in Nat
    BY DEF HeapInv, TypeOK
  <2> QED
    BY <2>1, <2>4, <2>5, <2>6
<1> QED
  BY Inductive, <1>1, PTL

\* When every call has returned, the stack pointer is back at the base.
THEOREM FramesComeOff == Spec => []ReturnsToStart
<1>1. StackInv => ReturnsToStart
  BY DEF StackInv, ReturnsToStart
<1> QED
  BY Inductive, <1>1, PTL
=============================================================================
