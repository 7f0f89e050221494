-------------------------- MODULE ArmInterpreter --------------------------
(***************************************************************************)
(* ArmInterpreter (core/cpu/arm_interpreter.cpp), on a narrower machine: a *)
(* byte has two bits, so a word of four bytes has eight, addresses are     *)
(* words, and there are four general registers.  An instruction is the     *)
(* record of its decoded fields; what its bits are is left out.  Every     *)
(* operator gives the machine after it: the registers r, the flags n z c v *)
(* t, the memory, whether the instruction set the pc itself, and whether   *)
(* the interpreter threw UnimplementedInstruction.                         *)
(*                                                                         *)
(* The programs at the end are what compiled code does with it: wide       *)
(* arithmetic, comparisons, shifts, frames on the stack, calls between the *)
(* two instruction sets, from every combination of a set of operands.  A   *)
(* program ends in the call-out range, where the host takes over.          *)
(***************************************************************************)
EXTENDS Integers, Sequences, FiniteSets, FiniteSetsExt, TLC

CONSTANT Samples    \* the operand words of the programs

Bits == 8           \* of a word; 32
ByteBits == 2       \* 8
W == 256            \* values of a word; 2^32
HalfWord == 16      \* values of half a word
Byte == 4           \* values of a byte

Low == 0..3         \* registers that Thumb's short fields name; 0..7
SP == 4             \* 13
LR == 5             \* 14
PC == 6             \* 15
Registers == 0..6

UserMode == 4       \* kModeUser, in the low bits of the CPSR

Reset(pc) ==
    [r |-> [i \in Registers |-> IF i = PC THEN pc ELSE 0], n |-> FALSE, z |-> FALSE, c |-> FALSE,
     v |-> FALSE, t |-> FALSE, mode |-> UserMode, mem |-> <<>>, jumped |-> FALSE, thrown |-> FALSE]

-----------------------------------------------------------------------------
(* Words. *)

Mod(x) == x % W

Inverted(x) == W - 1 - x

SignBit(x) == x >= W \div 2

Value(x) == IF SignBit(x) THEN x - W ELSE x       \* as int32_t

SignExtended(x, width) == IF x >= width \div 2 THEN Mod(x - width) ELSE x

Truth(b) == IF b THEN 1 ELSE 0

RotateRight(x, k) ==
    LET d == 2 ^ (k % Bits) IN x \div d + (x % d) * (W \div d)

AddWithFlags_NoCarryIn(a, b, cin) == [value |-> Mod(a + b), c |-> a + b >= W, v |-> FALSE]

AddWithFlags(a, b, cin) ==
    LET sum == a + b + cin IN
    [value |-> Mod(sum), c |-> sum >= W,
     v |-> SignBit(a) = SignBit(b) /\ SignBit(Mod(sum)) # SignBit(a)]

Bit(x, k) == (x \div 2 ^ k) % 2 = 1

(* The bitwise operators, by the bits that are set. *)
Ones(x) == {k \in 0 .. Bits - 1 : Bit(x, k)}
WordOf(ones) == SumSet({2 ^ k : k \in ones})
And(x, y) == WordOf(Ones(x) \cap Ones(y))
Or(x, y) == WordOf(Ones(x) \cup Ones(y))
Xor(x, y) == WordOf((Ones(x) \cup Ones(y)) \ (Ones(x) \cap Ones(y)))

Lsl(x, k, cin) ==
    IF k = 0 THEN [value |-> x, c |-> cin]
    ELSE IF k >= Bits THEN [value |-> 0, c |-> k = Bits /\ Bit(x, 0)]
    ELSE [value |-> Mod(x * 2 ^ k), c |-> Bit(x, Bits - k)]

(* An immediate shift of 0 means one of a whole word, or RRX for ROR. *)
Lsr(x, k, cin, imm) ==
    IF k = 0 THEN IF imm THEN [value |-> 0, c |-> SignBit(x)] ELSE [value |-> x, c |-> cin]
    ELSE IF k >= Bits THEN [value |-> 0, c |-> k = Bits /\ SignBit(x)]
    ELSE [value |-> x \div 2 ^ k, c |-> Bit(x, k - 1)]

Asr(x, k, cin, imm) ==
    IF k = 0 /\ ~imm THEN [value |-> x, c |-> cin]
    ELSE IF k = 0 \/ k >= Bits THEN [value |-> IF SignBit(x) THEN W - 1 ELSE 0, c |-> SignBit(x)]
    ELSE [value |-> Mod(Value(x) \div 2 ^ k), c |-> Bit(x, k - 1)]

Ror(x, k, cin, imm) ==
    IF k = 0 THEN IF imm THEN [value |-> Truth(cin) * (W \div 2) + x \div 2, c |-> Bit(x, 0)]
                  ELSE [value |-> x, c |-> cin]
    ELSE IF k % Bits = 0 THEN [value |-> x, c |-> SignBit(x)]
    ELSE [value |-> RotateRight(x, k), c |-> Bit(x, (k % Bits) - 1)]

ShiftWithCarry(type, x, k, cin, imm) ==
    CASE type = "lsl" -> Lsl(x, k, cin)
      [] type = "lsr" -> Lsr(x, k, cin, imm)
      [] type = "asr" -> Asr(x, k, cin, imm)
      [] type = "ror" -> Ror(x, k, cin, imm)

-----------------------------------------------------------------------------
(* Memory, byte by byte; what was never written reads 0. *)

Read8(s, a) == LET k == Mod(a) IN IF k \in DOMAIN s.mem THEN s.mem[k] ELSE 0

Write8(s, a, x) == [s EXCEPT !.mem = (Mod(a) :> x % Byte) @@ @]

Read16(s, a) == Read8(s, a) + Byte * Read8(s, a + 1)

Read32(s, a) == Read16(s, a) + HalfWord * Read16(s, a + 2)

Write16(s, a, x) == Write8(Write8(s, a, x), a + 1, x \div Byte)

Write32(s, a, x) == Write16(Write16(s, a, x), a + 2, x \div HalfWord)

-----------------------------------------------------------------------------
(* The machine. *)

Operand(s, i) == IF i = PC THEN Mod(s.r[PC] + 8) ELSE s.r[i]

(* A register of the thumb instruction set. *)
ThumbOperand(s, i) == IF i = PC THEN Mod(s.r[PC] + 4) ELSE s.r[i]

Put(s, i, x) == [s EXCEPT !.r[i] = x]

Jump(s, x) == [s EXCEPT !.r[PC] = x, !.jumped = TRUE]

(* Where the code looks whether the register is the pc. *)
PutOrJump(s, i, x) == IF i = PC THEN Jump(s, x) ELSE Put(s, i, x)

SetNZ(s, x) == [s EXCEPT !.n = SignBit(x), !.z = x = 0]

SetFlags(s, res) == [s EXCEPT !.n = SignBit(res.value), !.z = res.value = 0, !.c = res.c, !.v = res.v]

(* SetPcInterworking: bit 0 selects the instruction set. *)
SetPc(s, target) ==
    [s EXCEPT !.t = Bit(target, 0), !.jumped = TRUE,
              !.r[PC] = IF Bit(target, 0) THEN target - 1 ELSE (target \div 4) * 4]

Throw(s) == [s EXCEPT !.thrown = TRUE]

ConditionPassed(s, cond) ==
    CASE cond = "eq" -> s.z         [] cond = "ne" -> ~s.z
      [] cond = "cs" -> s.c         [] cond = "cc" -> ~s.c
      [] cond = "mi" -> s.n         [] cond = "pl" -> ~s.n
      [] cond = "vs" -> s.v         [] cond = "vc" -> ~s.v
      [] cond = "hi" -> s.c /\ ~s.z [] cond = "ls" -> ~s.c \/ s.z
      [] cond = "ge" -> s.n = s.v   [] cond = "lt" -> s.n # s.v
      [] cond = "gt" -> ~s.z /\ s.n = s.v
      [] cond = "le" -> s.z \/ s.n # s.v
      [] cond = "al" -> TRUE        [] cond = "nv" -> FALSE

(* An operand: an immediate and its rotation, or a register shifted by an
   immediate or by a register. *)
DecodeOperand2(s, o) ==
    CASE o.is = "imm" ->
            LET x == RotateRight(o.imm, 2 * o.rot) IN
            [value |-> x, c |-> IF o.rot = 0 THEN s.c ELSE SignBit(x)]
      [] o.is = "reg" -> ShiftWithCarry(o.type, Operand(s, o.rm), o.by, s.c, TRUE)
      [] o.is = "rsh" -> ShiftWithCarry(o.type, Operand(s, o.rm), Operand(s, o.rs), s.c, FALSE)

Logical(s, x, c) == [value |-> x, c |-> c, v |-> s.v]

Alu(s, op, a, b, c) ==
    CASE op \in {"and", "tst"} -> Logical(s, And(a, b), c)
      [] op \in {"eor", "teq"} -> Logical(s, Xor(a, b), c)
      [] op \in {"sub", "cmp"} -> AddWithFlags(a, Inverted(b), 1)
      [] op = "rsb" -> AddWithFlags(b, Inverted(a), 1)
      [] op \in {"add", "cmn"} -> AddWithFlags(a, b, 0)
      [] op = "adc" -> AddWithFlags(a, b, Truth(s.c))
      [] op = "sbc" -> AddWithFlags(a, Inverted(b), Truth(s.c))
      [] op = "rsc" -> AddWithFlags(b, Inverted(a), Truth(s.c))
      [] op = "orr" -> Logical(s, Or(a, b), c)
      [] op = "mov" -> Logical(s, b, c)
      [] op = "bic" -> Logical(s, And(a, Inverted(b)), c)
      [] op = "mvn" -> Logical(s, Inverted(b), c)

Compares == {"tst", "teq", "cmp", "cmn"}

DataProcessing(s, i) ==
    LET b == DecodeOperand2(s, i.o)
        res == Alu(s, i.op, Operand(s, i.rn), b.value, b.c)
        s1 == IF i.op \in Compares THEN s ELSE PutOrJump(s, i.rd, res.value)
    IN  IF i.s THEN SetFlags(s1, res) ELSE s1

Branch(s, i) ==
    LET s1 == IF i.link THEN Put(s, LR, Mod(s.r[PC] + 4)) ELSE s
    IN  Jump(s1, Mod(s.r[PC] + 8 + i.offset))

BranchExchange(s, i) ==
    SetPc(IF i.link THEN Put(s, LR, Mod(s.r[PC] + 4)) ELSE s, Operand(s, i.rm))

Offset(base, add, off) == Mod(IF add THEN base + off ELSE base - off)

(* The base is written after the transfer, and always by a post-indexed one. *)
Indexed(s, i, base, off) ==
    IF ~i.pre \/ i.wb THEN Put(s, i.rn, Offset(base, i.add, off)) ELSE s

SingleDataTransfer(s, i) ==
    LET off == IF i.o.is = "imm" THEN i.o.imm
               ELSE ShiftWithCarry(i.o.type, Operand(s, i.o.rm), i.o.by, s.c, TRUE).value
        base == Operand(s, i.rn)
        a == IF i.pre THEN Offset(base, i.add, off) ELSE base
        x == IF i.byte THEN Read8(s, a) ELSE Read32(s, a)
        s1 == IF i.load THEN IF i.rd = PC THEN SetPc(s, x) ELSE Put(s, i.rd, x)
              ELSE IF i.byte THEN Write8(s, a, Operand(s, i.rd)) ELSE Write32(s, a, Operand(s, i.rd))
    IN  Indexed(s1, i, base, off)

HalfwordTransfer(s, i) ==
    LET off == IF i.o.is = "imm" THEN i.o.imm ELSE Operand(s, i.o.rm)
        base == Operand(s, i.rn)
        a == IF i.pre THEN Offset(base, i.add, off) ELSE base
        s1 == CASE i.kind = "ldrh" -> PutOrJump(s, i.rd, Read16(s, a))
                [] i.kind = "ldrsb" -> PutOrJump(s, i.rd, SignExtended(Read8(s, a), Byte))
                [] i.kind = "ldrsh" -> PutOrJump(s, i.rd, SignExtended(Read16(s, a), HalfWord))
                [] i.kind = "strh" -> Write16(s, a, Operand(s, i.rd))
                [] i.kind = "ldrd" -> Put(Put(s, i.rd, Read32(s, a)), i.rd + 1, Read32(s, a + 4))
                [] i.kind = "strd" -> Write32(Write32(s, a, Operand(s, i.rd)), a + 4, Operand(s, i.rd + 1))
    IN  Indexed(s1, i, base, off)

(* The register i's place in a list, from 0. *)
Rank(list, i) == Cardinality({j \in list : j < i})

StoreAll(s, list, from) ==
    FoldSet(LAMBDA i, x : Write32(x, from + 4 * Rank(list, i), Operand(s, i)), s, list)

LoadAll(s, list, from) ==
    LET low == [s EXCEPT !.r = [i \in Registers |-> IF i \in list \ {PC} THEN Read32(s, from + 4 * Rank(list, i))
                                                     ELSE @[i]]]
    IN  IF PC \in list THEN SetPc(low, Read32(s, from + 4 * Rank(list, PC))) ELSE low

(* Registers go to rising addresses whatever the direction. *)
BlockDataTransfer(s, i) ==
    LET size == 4 * Cardinality(i.list)
        base == s.r[i.rn]
        from == IF i.up THEN base + (IF i.pre THEN 4 ELSE 0)
                ELSE base - size + (IF i.pre THEN 0 ELSE 4)
        s1 == IF i.load THEN LoadAll(s, i.list, from) ELSE StoreAll(s, i.list, from)
    IN  IF i.user /\ PC \notin i.list THEN Throw(s)
        ELSE IF i.wb THEN [s1 EXCEPT !.r[i.rn] = Mod(IF i.up THEN base + size ELSE base - size)]
        ELSE s1

Multiply(s, i) ==
    LET x == Mod(Operand(s, i.rm) * Operand(s, i.rs) + (IF i.acc THEN Operand(s, i.rn) ELSE 0))
        s1 == Put(s, i.rd, x)
    IN  IF i.s THEN SetNZ(s1, x) ELSE s1

LongMultiply(s, i) ==
    LET x == IF i.signed THEN Value(Operand(s, i.rm)) * Value(Operand(s, i.rs))
             ELSE Operand(s, i.rm) * Operand(s, i.rs)
        p == (x + (IF i.acc THEN s.r[i.hi] * W + s.r[i.lo] ELSE 0)) % (W * W)
        s1 == Put(Put(s, i.lo, p % W), i.hi, p \div W)
    IN  IF i.s THEN [s1 EXCEPT !.n = p >= (W * W) \div 2, !.z = p = 0] ELSE s1

(* i.rn = PC selects the form that does not add. *)
Extend(s, i) ==
    LET x == Ror(Operand(s, i.rm), i.rot * ByteBits, s.c, FALSE).value
        e == CASE i.kind = "uxtb" -> x % Byte [] i.kind = "uxth" -> x % HalfWord
               [] i.kind = "sxtb" -> SignExtended(x % Byte, Byte)
               [] i.kind = "sxth" -> SignExtended(x % HalfWord, HalfWord)
    IN  Put(s, i.rd, IF i.rn = PC THEN e ELSE Mod(Operand(s, i.rn) + e))

ByteOf(x, k) == (x \div Byte ^ k) % Byte

Rev(s, i) ==
    LET x == Operand(s, i.rm) IN
    Put(s, i.rd, IF i.half THEN ByteOf(x, 1) + Byte * ByteOf(x, 0)
                                + HalfWord * (ByteOf(x, 3) + Byte * ByteOf(x, 2))
                 ELSE ByteOf(x, 3) + Byte * ByteOf(x, 2) + HalfWord * (ByteOf(x, 1) + Byte * ByteOf(x, 0)))

Clz(s, i) ==
    LET x == Operand(s, i.rm) IN
    Put(s, i.rd, Bits - Cardinality({k \in 0..Bits - 1 : x >= 2 ^ k}))

Half(x, top) ==
    LET h == IF top THEN x \div HalfWord ELSE x % HalfWord IN
    IF h >= HalfWord \div 2 THEN h - HalfWord ELSE h

(* SMULxy and SMLAxy. *)
HalfMultiply(s, i) ==
    Put(s, i.rd, Mod(Half(Operand(s, i.rm), i.x) * Half(Operand(s, i.rs), i.y)
                     + (IF i.acc THEN Operand(s, i.rn) ELSE 0)))

(* SMULWy and SMLAWy. *)
WideHalfMultiply(s, i) ==
    Put(s, i.rd, Mod((Value(Operand(s, i.rm)) * Half(Operand(s, i.rs), i.y)) \div HalfWord
                     + (IF i.acc THEN Operand(s, i.rn) ELSE 0)))

Cpsr(s) ==
    128 * Truth(s.n) + 64 * Truth(s.z) + 32 * Truth(s.c) + 16 * Truth(s.v) + 8 * Truth(s.t) + s.mode

Mrs(s, i) == Put(s, i.rd, Cpsr(s))

(* Two of the four fields of the mask mean something here. *)
Msr(s, i) ==
    LET x == Operand(s, i.rm)
        s1 == IF "flags" \in i.mask
              THEN [s EXCEPT !.n = Bit(x, 7), !.z = Bit(x, 6), !.c = Bit(x, 5), !.v = Bit(x, 4)] ELSE s
    IN  IF "control" \in i.mask THEN [s1 EXCEPT !.t = Bit(x, 3), !.mode = x % 8] ELSE s1

(* Semihosting only reads; every call succeeds. *)
Swi(s) == Put(s, 0, 0)

(* CP15 reads: the end of a cache loop, the processor's name, or 0. *)
Coprocessor(s, i) ==
    IF ~i.mrc THEN s
    ELSE IF i.which = "clean" THEN IF i.rd = PC THEN [s EXCEPT !.z = TRUE] ELSE Put(s, i.rd, W \div 4)
    ELSE IF i.rd = PC THEN s ELSE Put(s, i.rd, IF i.which = "id" THEN 1 ELSE 0)

-----------------------------------------------------------------------------
(* Thumb. *)

ThumbShift(s, i) ==                         \* format 1
    LET x == ShiftWithCarry(i.type, s.r[i.rs], i.by, s.c, TRUE) IN
    SetFlags(Put(s, i.rd, x.value), [value |-> x.value, c |-> x.c, v |-> s.v])

ThumbAddSubtract(s, i) ==                   \* format 2
    LET b == IF i.imm THEN i.rn ELSE s.r[i.rn]
        x == IF i.sub THEN AddWithFlags(s.r[i.rs], Inverted(b), 1) ELSE AddWithFlags(s.r[i.rs], b, 0)
    IN  SetFlags(Put(s, i.rd, x.value), x)

ThumbImmediate(s, i) ==                     \* format 3
    LET x == Alu(s, i.op, s.r[i.rd], i.imm, s.c) IN
    SetFlags(IF i.op = "cmp" THEN s ELSE Put(s, i.rd, x.value), x)

ThumbAlu(s, i) ==                           \* format 4
    LET d == s.r[i.rd]  m == s.r[i.rs]
        x == CASE i.op \in {"lsl", "lsr", "asr", "ror"} ->
                     LET sh == ShiftWithCarry(i.op, d, m, s.c, FALSE) IN Logical(s, sh.value, sh.c)
               [] i.op = "neg" -> AddWithFlags(0, Inverted(m), 1)
               [] i.op = "mul" -> Logical(s, Mod(d * m), s.c)
               [] OTHER -> Alu(s, i.op, d, m, s.c)
    IN  SetFlags(IF i.op \in Compares THEN s ELSE Put(s, i.rd, x.value), x)

ThumbHiRegister(s, i) ==                    \* format 5
    LET m == ThumbOperand(s, i.rs)  d == ThumbOperand(s, i.rd) IN
    CASE i.op = "bx" -> SetPc(IF i.link THEN Put(s, LR, Or(Mod(s.r[PC] + 2), 1)) ELSE s, m)
      [] i.op = "add" -> LET x == Mod(d + m) IN
                         IF i.rd = PC THEN Jump(s, (x \div 2) * 2) ELSE Put(s, i.rd, x)
      [] i.op = "cmp" -> SetFlags(s, AddWithFlags(d, Inverted(m), 1))
      [] i.op = "mov" -> IF i.rd = PC THEN SetPc(s, m) ELSE Put(s, i.rd, m)

AlignedPc(s) == (Mod(s.r[PC] + 4) \div 4) * 4

ThumbPcLoad(s, i) == Put(s, i.rd, Read32(s, AlignedPc(s) + i.imm * 4))     \* format 6

(* Formats 7 to 11: the kinds of transfer, at the address each forms. *)
ThumbTransfer(s, i, a) ==
    CASE i.kind = "str" -> Write32(s, a, s.r[i.rd])
      [] i.kind = "strb" -> Write8(s, a, s.r[i.rd])
      [] i.kind = "strh" -> Write16(s, a, s.r[i.rd])
      [] i.kind = "ldr" -> Put(s, i.rd, Read32(s, a))
      [] i.kind = "ldrb" -> Put(s, i.rd, Read8(s, a))
      [] i.kind = "ldrh" -> Put(s, i.rd, Read16(s, a))
      [] i.kind = "ldrsb" -> Put(s, i.rd, SignExtended(Read8(s, a), Byte))
      [] i.kind = "ldrsh" -> Put(s, i.rd, SignExtended(Read16(s, a), HalfWord))

ThumbRegisterOffset(s, i) == ThumbTransfer(s, i, s.r[i.rb] + s.r[i.ro])

ThumbImmediateOffset(s, i) ==
    ThumbTransfer(s, i, s.r[i.rb] + (IF i.kind \in {"strb", "ldrb"} THEN i.imm ELSE i.imm * 4))

ThumbHalfwordOffset(s, i) == ThumbTransfer(s, i, s.r[i.rb] + i.imm * 2)

ThumbSpOffset(s, i) == ThumbTransfer(s, i, s.r[SP] + i.imm * 4)

ThumbLoadAddress(s, i) == Put(s, i.rd, Mod((IF i.sp THEN s.r[SP] ELSE AlignedPc(s)) + i.imm * 4))

ThumbAddSp(s, i) == Put(s, SP, Offset(s.r[SP], ~i.neg, i.imm * 4))

ThumbPush(s, i) ==
    LET list == i.list \cup (IF i.extra THEN {LR} ELSE {})
        a == Mod(s.r[SP] - 4 * Cardinality(list))
    IN  Put(StoreAll(s, list, a), SP, a)

ThumbPop(s, i) ==
    LET end == Mod(s.r[SP] + 4 * Cardinality(i.list))
        s1 == LoadAll(s, i.list, s.r[SP])
    IN  IF i.extra THEN SetPc(Put(s1, SP, Mod(end + 4)), Read32(s, end)) ELSE Put(s1, SP, end)

(* A base that is loaded keeps what was loaded. *)
ThumbMultiple(s, i) ==
    LET s1 == IF i.load THEN LoadAll(s, i.list, s.r[i.rb]) ELSE StoreAll(s, i.list, s.r[i.rb]) IN
    IF i.load /\ i.rb \in i.list THEN s1
    ELSE Put(s1, i.rb, Mod(s.r[i.rb] + 4 * Cardinality(i.list)))

ThumbConditionalBranch(s, i) ==
    IF i.cond = "swi" THEN Swi(s) ELSE IF i.cond = "al" THEN Throw(s)
    ELSE IF ConditionPassed(s, i.cond) THEN Jump(s, Mod(s.r[PC] + 4 + i.offset * 2)) ELSE s

ThumbBranch(s, i) == Jump(s, Mod(s.r[PC] + 4 + i.offset * 2))

(* Two halfwords: the first leaves the high part of the way in LR. *)
ThumbLongBranch(s, i) ==
    LET target == Mod(s.r[LR] + i.offset * 2)
        back == Put(s, LR, Or(Mod(s.r[PC] + 2), 1))
    IN  CASE i.half = "first" -> Put(s, LR, Mod(s.r[PC] + 4 + i.high))
          [] i.half = "bl" -> Jump(back, (target \div 2) * 2)
          [] i.half = "blx" -> [Jump(back, (target \div 4) * 4) EXCEPT !.t = FALSE]

-----------------------------------------------------------------------------
(* The dispatch, and a step. *)

ExecuteArm(s, i) ==
    CASE i.do = "data" -> DataProcessing(s, i)      [] i.do = "branch" -> Branch(s, i)
      [] i.do = "bx" -> BranchExchange(s, i)        [] i.do = "single" -> SingleDataTransfer(s, i)
      [] i.do = "half" -> HalfwordTransfer(s, i)    [] i.do = "block" -> BlockDataTransfer(s, i)
      [] i.do = "mul" -> Multiply(s, i)             [] i.do = "mull" -> LongMultiply(s, i)
      [] i.do = "extend" -> Extend(s, i)            [] i.do = "rev" -> Rev(s, i)
      [] i.do = "clz" -> Clz(s, i)                  [] i.do = "smul" -> HalfMultiply(s, i)
      [] i.do = "smulw" -> WideHalfMultiply(s, i)   [] i.do = "mrs" -> Mrs(s, i)
      [] i.do = "msr" -> Msr(s, i)                  [] i.do = "swi" -> Swi(s)
      [] i.do = "cp" -> Coprocessor(s, i)           [] i.do = "undefined" -> Throw(s)

ExecuteThumb(s, i) ==
    CASE i.do = "shift" -> ThumbShift(s, i)         [] i.do = "addsub" -> ThumbAddSubtract(s, i)
      [] i.do = "imm" -> ThumbImmediate(s, i)       [] i.do = "alu" -> ThumbAlu(s, i)
      [] i.do = "hi" -> ThumbHiRegister(s, i)       [] i.do = "pcload" -> ThumbPcLoad(s, i)
      [] i.do = "regoff" -> ThumbRegisterOffset(s, i)
      [] i.do = "immoff" -> ThumbImmediateOffset(s, i)
      [] i.do = "halfoff" -> ThumbHalfwordOffset(s, i)
      [] i.do = "spoff" -> ThumbSpOffset(s, i)      [] i.do = "address" -> ThumbLoadAddress(s, i)
      [] i.do = "addsp" -> ThumbAddSp(s, i)         [] i.do = "push" -> ThumbPush(s, i)
      [] i.do = "pop" -> ThumbPop(s, i)             [] i.do = "multiple" -> ThumbMultiple(s, i)
      [] i.do = "bcond" -> ThumbConditionalBranch(s, i)
      [] i.do = "b" -> ThumbBranch(s, i)            [] i.do = "long" -> ThumbLongBranch(s, i)
      [] i.do = "undefined" -> Throw(s)

(* One instruction outside the call-out range. *)
Step(s, i) ==
    LET s0 == [s EXCEPT !.jumped = FALSE]
        s1 == IF s.t THEN ExecuteThumb(s0, i)
              ELSE IF ConditionPassed(s, i.cond) THEN ExecuteArm(s0, i) ELSE s0
    IN  IF s1.thrown \/ s1.jumped THEN s1
        ELSE Put(s1, PC, Mod(s.r[PC] + (IF s.t THEN 2 ELSE 4)))
-----------------------------------------------------------------------------
(* Programs. *)

VARIABLES
    program,    \* which program runs
    before,     \* the machine at its start
    cpu         \* the machine

armVars == <<program, before, cpu>>

CallOut == 192      \* call_out_base_
CallOutSize == 16

(* Instructions, always executed and setting the flags. *)
Rg(m) == [is |-> "reg", rm |-> m, type |-> "lsl", by |-> 0]
Im(x) == [is |-> "imm", imm |-> x, rot |-> 0]
By(m, type, k) == [is |-> "rsh", rm |-> m, type |-> type, rs |-> k]
Shift(m, type, k) == [is |-> "reg", rm |-> m, type |-> type, by |-> k]

Dp(op, d, n, o) == [do |-> "data", cond |-> "al", op |-> op, s |-> TRUE, rd |-> d, rn |-> n, o |-> o]
Silent(i) == [i EXCEPT !.s = FALSE]
If(cond, i) == [i EXCEPT !.cond = cond]
Bl(offset) == [do |-> "branch", cond |-> "al", link |-> TRUE, offset |-> offset]
B(offset) == [do |-> "branch", cond |-> "al", link |-> FALSE, offset |-> offset]
Bx(m) == [do |-> "bx", cond |-> "al", link |-> FALSE, rm |-> m]
Blx(m) == [do |-> "bx", cond |-> "al", link |-> TRUE, rm |-> m]
Single(load, byte, d, n, off, pre, wb) ==
    [do |-> "single", cond |-> "al", load |-> load, byte |-> byte, rd |-> d, rn |-> n,
     o |-> Im(off), pre |-> pre, add |-> TRUE, wb |-> wb]
HalfTransfer(kind, d, n) ==
    [do |-> "half", cond |-> "al", kind |-> kind, rd |-> d, rn |-> n, o |-> Im(0),
     pre |-> TRUE, add |-> TRUE, wb |-> FALSE]
Block(load, list, pre, up) ==
    [do |-> "block", cond |-> "al", load |-> load, rn |-> SP, list |-> list, pre |-> pre, up |-> up,
     wb |-> TRUE, user |-> FALSE]
Mull(signed, acc) == [do |-> "mull", cond |-> "al", signed |-> signed, acc |-> acc, s |-> TRUE,
                      rm |-> 0, rs |-> 1, lo |-> 2, hi |-> 3]
Op(do, f) == f @@ [do |-> do, cond |-> "al"]

(* Code laid out from an address. *)
Arm(from, is) == [a \in {from + 4 * (k - 1) : k \in DOMAIN is} |-> is[(a - from) \div 4 + 1]]
Thumb(from, is) == [a \in {from + 2 * (k - 1) : k \in DOMAIN is} |-> is[(a - from) \div 2 + 1]]
Ends(from, is) == Arm(from, Append(is, B(CallOut - (from + 4 * Len(is)) - 8)))

ShiftTypes == {"lsl", "lsr", "asr", "ror"}

Frames == {[pre |-> FALSE, up |-> FALSE], [pre |-> TRUE, up |-> FALSE],
           [pre |-> FALSE, up |-> TRUE], [pre |-> TRUE, up |-> TRUE]}

Scramble == <<Dp("mvn", 0, 0, Rg(0)), Dp("mvn", 1, 1, Rg(1)), Dp("mvn", 2, 2, Rg(2))>>

(* A thumb function that keeps its frame, at an odd address for BLX. *)
ThumbFunction(at) ==
    Thumb(at, <<[do |-> "push", list |-> {0, 1}, extra |-> TRUE],
                [do |-> "imm", op |-> "mov", rd |-> 0, imm |-> 1],
                [do |-> "alu", op |-> "orr", rd |-> 1, rs |-> 0],
                [do |-> "pop", list |-> {0, 1}, extra |-> TRUE]>>)

Programs ==
    {[name |-> "compare", code |-> Ends(0, <<Dp("cmp", 0, 0, Rg(1))>>)],
     [name |-> "add", code |-> Ends(0, <<Dp("add", 0, 0, Rg(2)), Dp("adc", 1, 1, Rg(3))>>)],
     [name |-> "sub", code |-> Ends(0, <<Dp("sub", 0, 0, Rg(2)), Dp("sbc", 1, 1, Rg(3))>>)],
     [name |-> "rsb", code |-> Ends(0, <<Dp("rsb", 0, 2, Rg(0)), Dp("rsc", 1, 3, Rg(1))>>)],
     [name |-> "umull", code |-> Ends(0, <<Mull(FALSE, FALSE)>>)],
     [name |-> "umlal", code |-> Ends(0, <<Mull(FALSE, TRUE)>>)],
     [name |-> "smull", code |-> Ends(0, <<Mull(TRUE, FALSE)>>)],
     [name |-> "mla", code |-> Ends(0, <<Op("mul", [rd |-> 0, rm |-> 0, rs |-> 1, rn |-> 2,
                                                     acc |-> TRUE, s |-> TRUE])>>)],
     [name |-> "bits", code |-> Ends(0, <<Dp("bic", 3, 0, Rg(1)), Dp("and", 2, 0, Rg(1)),
                                          Dp("orr", 2, 2, Rg(3)), Dp("eor", 3, 2, Rg(0))>>)],
     [name |-> "psr", code |-> Ends(0, <<Dp("cmp", 0, 0, Rg(1)), Op("mrs", [rd |-> 3]),
                                         Dp("cmp", 0, 1, Rg(0)),
                                         Op("msr", [rm |-> 3, mask |-> {"flags"}])>>)],
     [name |-> "rev", code |-> Ends(0, <<Op("rev", [rd |-> 2, rm |-> 0, half |-> FALSE]),
                                         Op("rev", [rd |-> 3, rm |-> 2, half |-> TRUE]),
                                         Op("clz", [rd |-> 2, rm |-> 0])>>)],
     [name |-> "halves", code |-> Ends(0, <<Op("smul", [rd |-> 2, rm |-> 0, rs |-> 1, x |-> TRUE,
                                                       y |-> TRUE, acc |-> FALSE, rn |-> 0]),
                                            Op("smul", [rd |-> 2, rm |-> 0, rs |-> 1, x |-> FALSE,
                                                       y |-> FALSE, acc |-> TRUE, rn |-> 2]),
                                            Op("smulw", [rd |-> 3, rm |-> 0, rs |-> 1, y |-> TRUE,
                                                        acc |-> FALSE, rn |-> 0])>>)],
     [name |-> "narrow", code |-> Ends(0, <<HalfTransfer("strh", 0, SP), HalfTransfer("ldrsh", 2, SP),
                                            Single(FALSE, TRUE, 1, SP, 4, TRUE, TRUE),
                                            HalfTransfer("ldrsb", 3, SP)>>)],
     [name |-> "extend", code |-> Ends(0, <<Op("extend", [kind |-> "sxth", rd |-> 2, rm |-> 0,
                                                         rn |-> PC, rot |-> 0]),
                                            Op("extend", [kind |-> "sxtb", rd |-> 3, rm |-> 1,
                                                         rn |-> PC, rot |-> 0])>>)],
     [name |-> "pair", code |-> Ends(0, <<HalfTransfer("strd", 0, SP), HalfTransfer("ldrd", 2, SP)>>)],
     [name |-> "copy", code |-> Ends(0, <<Single(FALSE, FALSE, 0, SP, 4, FALSE, FALSE),
                                          Single(FALSE, FALSE, 1, SP, 4, TRUE, TRUE),
                                          Single(TRUE, FALSE, 2, SP, 0, TRUE, FALSE),
                                          Dp("sub", SP, SP, Im(8)),
                                          Single(TRUE, FALSE, 3, SP, 8, FALSE, FALSE)>>)],
     [name |-> "cache", code |-> Ends(0, <<Op("cp", [mrc |-> TRUE, which |-> "clean", rd |-> PC]),
                                           If("ne", B(-12)), Op("swi", <<>>)>>)],
     [name |-> "undefined", code |-> Ends(0, <<Op("undefined", <<>>)>>)],
     (* BL to an ARM function that returns by BX, BLX to a thumb one by POP. *)
     [name |-> "call", code |-> Ends(0, <<Bl(48), Dp("mov", 3, 0, Im(65)), Blx(3)>>)
                                @@ Arm(56, <<Bx(LR)>>) @@ ThumbFunction(64)],
     (* From thumb, BL to the thumb function and BLX to the ARM one. *)
     [name |-> "thumb", code |->
         Arm(0, <<Dp("mov", 3, 0, Im(97)), Bx(3)>>)
         @@ Thumb(96, <<[do |-> "long", half |-> "first", high |-> 0],
                        [do |-> "long", half |-> "bl", offset |-> -18],
                        [do |-> "long", half |-> "first", high |-> 0],
                        [do |-> "long", half |-> "blx", offset |-> -24],
                        [do |-> "b", offset |-> (CallOut - 108) \div 2]>>)
         @@ Arm(56, <<Bx(LR)>>) @@ ThumbFunction(64)],
     [name |-> "loop", code |-> Ends(0, <<Dp("mov", 3, 0, Im(3)), Dp("add", 2, 2, Im(1)),
                                          Dp("sub", 3, 3, Im(1)), If("ne", B(-16))>>)],
     (* Thumb: formats 1 to 4, memory through every address form. *)
     [name |-> "thumbdata", code |->
         Arm(0, <<Dp("mov", 3, 0, Im(97)), Bx(3)>>)
         @@ Thumb(96, <<[do |-> "addsub", imm |-> FALSE, sub |-> TRUE, rn |-> 1, rs |-> 0, rd |-> 2],
                        [do |-> "alu", op |-> "neg", rd |-> 3, rs |-> 2],
                        [do |-> "alu", op |-> "mul", rd |-> 3, rs |-> 1],
                        [do |-> "shift", type |-> "asr", rs |-> 2, rd |-> 2, by |-> 1],
                        [do |-> "addsp", neg |-> TRUE, imm |-> 2],
                        [do |-> "spoff", kind |-> "str", rd |-> 2, imm |-> 1],
                        [do |-> "address", sp |-> TRUE, rd |-> 2, imm |-> 1],
                        [do |-> "immoff", kind |-> "ldr", rd |-> 2, rb |-> 2, imm |-> 0],
                        [do |-> "addsp", neg |-> FALSE, imm |-> 2],
                        [do |-> "b", offset |-> (CallOut - 118) \div 2]>>)],
     (* The greater of two numbers, and the low half of one, over the stack. *)
     [name |-> "thumbmax", code |->
         Arm(0, <<Dp("mov", 3, 0, Im(97)), Bx(3)>>)
         @@ Thumb(96, <<[do |-> "push", list |-> {0, 1}, extra |-> FALSE],
                        [do |-> "hi", op |-> "mov", rd |-> 2, rs |-> SP],
                        [do |-> "multiple", load |-> TRUE, rb |-> 2, list |-> {0, 3}],
                        [do |-> "halfoff", kind |-> "strh", rd |-> 3, rb |-> 2, imm |-> 1],
                        [do |-> "imm", op |-> "mov", rd |-> 1, imm |-> 2],
                        [do |-> "regoff", kind |-> "ldrsh", rd |-> 1, rb |-> 2, ro |-> 1],
                        [do |-> "hi", op |-> "cmp", rd |-> 0, rs |-> 3],
                        [do |-> "bcond", cond |-> "ge", offset |-> 0],
                        [do |-> "hi", op |-> "mov", rd |-> 0, rs |-> 3],
                        [do |-> "pop", list |-> {2}, extra |-> FALSE],
                        [do |-> "addsp", neg |-> FALSE, imm |-> 1],
                        [do |-> "b", offset |-> (CallOut - 122) \div 2]>>)]}
    \cup {[name |-> "shift", type |-> type, code |-> Ends(0, <<Dp("mov", 2, 0, By(0, type, 1))>>)] :
          type \in ShiftTypes}
    \cup {[name |-> "shiftby", type |-> type, by |-> k,
           code |-> Ends(0, <<Dp("mov", 2, 0, Shift(0, type, k))>>)] : type \in ShiftTypes, k \in {0, 1, 7}}
    \cup {[name |-> "frame", code |->
           Ends(0, <<Block(FALSE, {0, 1, 2, LR}, f.pre, f.up)>> \o Scramble
                   \o <<Block(TRUE, {0, 1, 2, LR}, ~f.pre, ~f.up)>>)] : f \in Frames}

-----------------------------------------------------------------------------
Started(a, b, carry) ==
    LET s == Reset(0) IN
    [s EXCEPT !.r[0] = a, !.r[1] = b, !.r[2] = b, !.r[3] = a, !.r[SP] = 232, !.r[LR] = 77, !.c = carry]

ArmInit ==
    /\ program \in Programs
    /\ \E a, b \in Samples, carry \in BOOLEAN : before = Started(a, b, carry)
    /\ cpu = before

InCallOut == cpu.r[PC] >= CallOut /\ cpu.r[PC] < CallOut + CallOutSize

(* Run ends at a call-out and at a throw. *)
RunStep ==
    /\ ~InCallOut /\ ~cpu.thrown
    /\ cpu' = Step(cpu, program.code[cpu.r[PC]])
    /\ UNCHANGED <<program, before>>

ArmSpec == ArmInit /\ [][RunStep]_armVars

ArmTypeOK ==
    /\ cpu.r \in [Registers -> 0..W - 1] /\ DOMAIN cpu.mem \subseteq 0..W - 1
    /\ \A a \in DOMAIN cpu.mem : cpu.mem[a] \in 0..Byte - 1
    /\ {cpu.n, cpu.z, cpu.c, cpu.v, cpu.t, cpu.jumped, cpu.thrown} \subseteq BOOLEAN

Ended(name) == program.name = name /\ InCallOut

R0 == before.r[0]
R1 == before.r[1]

(* r1 and r0, r3 and r2 at the start, and the result in r1 and r0. *)
WideA == R1 * W + R0
WideB == R0 * W + R1
WideResult == cpu.r[1] * W + cpu.r[0]

(* After a comparison every condition decides what its name says, of the operands
   as they stand (ConditionPassed, AddWithFlags), and MSR puts back the flags MRS
   read. *)
ConditionsDecide ==
    program.name \in {"compare", "psr"} /\ InCallOut =>
        LET a == Value(R0)  b == Value(R1)
        IN  \A d \in {<<"eq", R0 = R1>>, <<"ne", R0 # R1>>, <<"cs", R0 >= R1>>, <<"cc", R0 < R1>>,
                        <<"hi", R0 > R1>>, <<"ls", R0 <= R1>>, <<"ge", a >= b>>, <<"lt", a < b>>,
                        <<"gt", a > b>>, <<"le", a <= b>>,
                        <<"vs", (a - b) \notin -(W \div 2)..(W \div 2 - 1)>>} :
                ConditionPassed(cpu, d[1]) = d[2]

(* Arithmetic over two words, products and shifts give what the numbers give;
   a shift's carry is the last bit it moved out (DataProcessing, ShiftWithCarry,
   Multiply). *)
ArithmeticRight ==
    /\ Ended("add") => /\ WideResult = (WideA + WideB) % (W * W)
                       /\ cpu.c <=> WideA + WideB >= W * W
    /\ Ended("sub") => /\ WideResult = (WideA - WideB) % (W * W)
                       /\ cpu.c <=> WideA >= WideB
    /\ Ended("rsb") => WideResult = (WideA - WideB) % (W * W)
    /\ Ended("umull") => cpu.r[3] * W + cpu.r[2] = R0 * R1
    /\ Ended("umlal") => cpu.r[3] * W + cpu.r[2] = (R0 * R1 + WideB) % (W * W)
    /\ Ended("smull") => cpu.r[3] * W + cpu.r[2] = (Value(R0) * Value(R1)) % (W * W)
    /\ Ended("mla") => cpu.r[0] = Mod(R0 * R1 + R1)
    /\ Ended("bits") => cpu.r[2] = R0 /\ cpu.r[3] = 0 /\ cpu.z
    /\ Ended("rev") => cpu.r[3] = ((R0 % HalfWord) * HalfWord + R0 \div HalfWord)
                       /\ R0 < 2 ^ (Bits - cpu.r[2]) /\ (R0 > 0 => R0 >= 2 ^ (Bits - 1 - cpu.r[2]))
    /\ Ended("halves") => /\ cpu.r[2] = Mod(Half(R0, TRUE) * Half(R1, TRUE) + Half(R0, FALSE) * Half(R1, FALSE))
                          /\ cpu.r[3] = Mod((Value(R0) * Half(R1, TRUE)) \div HalfWord)
    /\ program.name = "shift" /\ InCallOut /\ R1 > 0 =>
           CASE program.type = "lsl" -> cpu.r[2] = IF R1 < Bits THEN Mod(R0 * 2 ^ R1) ELSE 0
             [] program.type = "lsr" -> cpu.r[2] = (IF R1 < Bits THEN R0 \div 2 ^ R1 ELSE 0)
             [] program.type = "asr" -> Value(cpu.r[2]) = Value(R0) \div 2 ^ Min({R1, Bits})
             [] program.type = "ror" -> RotateRight(cpu.r[2], Bits - (R1 % Bits)) = R0
    /\ program.name = "shift" /\ InCallOut /\ R1 = 0 => cpu.r[2] = R0 /\ (cpu.c <=> before.c)
    /\ program.name = "shiftby" /\ InCallOut /\ program.by = 0 =>
           CASE program.type = "lsl" -> cpu.r[2] = R0 /\ (cpu.c <=> before.c)
             [] program.type = "lsr" -> cpu.r[2] = 0 /\ (cpu.c <=> SignBit(R0))
             [] program.type = "asr" -> cpu.r[2] \in {0, W - 1} /\ (cpu.c <=> SignBit(R0))
             [] program.type = "ror" -> cpu.r[2] * 2 + Truth(cpu.c) = Truth(before.c) * W + R0
    /\ program.name = "shiftby" /\ InCallOut /\ program.type = "lsr" /\ program.by > 0 =>
           /\ cpu.r[2] = R0 \div 2 ^ program.by
           /\ cpu.c <=> (R0 \div 2 ^ (program.by - 1)) % 2 = 1

(* What a function puts on the stack it finds there: every STM has an LDM that
   restores all its registers and the stack pointer; a call comes back to the
   instruction after it, in the caller's instruction set, with the frame's
   registers as they were; bytes and halves come back with their sign
   (BlockDataTransfer, ThumbPush, SetPcInterworking, ThumbLongBranch). *)
FramesRestored ==
    /\ Ended("frame") => \A i \in {0, 1, 2, LR, SP} : cpu.r[i] = before.r[i]
    /\ Ended("call") => \A i \in {0, 1, SP} : cpu.r[i] = before.r[i]
    /\ Ended("call") => ~cpu.t /\ cpu.r[LR] = 12 /\ cpu.r[PC] = CallOut
    /\ Ended("thumb") => \A i \in {0, 1, SP} : cpu.r[i] = before.r[i]
    /\ Ended("thumb") => cpu.t /\ cpu.r[LR] = 105 /\ cpu.r[PC] = CallOut
    /\ Ended("narrow") => /\ cpu.r[2] = SignExtended(R0 % HalfWord, HalfWord)
                          /\ cpu.r[3] = SignExtended(R1 % Byte, Byte)
    /\ Ended("extend") => /\ cpu.r[2] = SignExtended(R0 % HalfWord, HalfWord)
                          /\ cpu.r[3] = SignExtended(R1 % Byte, Byte)
    /\ Ended("pair") => cpu.r[2] = R0 /\ cpu.r[3] = R1
    /\ Ended("copy") => cpu.r[2] = R1 /\ cpu.r[3] = R0 /\ cpu.r[SP] = Mod(before.r[SP] + 8)
    /\ Ended("loop") => cpu.r[2] = Mod(R1 + 3)
    /\ Ended("cache") => cpu.r[0] = 0
    /\ Ended("thumbdata") => /\ Value(cpu.r[2]) = Value(Mod(R0 - R1)) \div 2
                             /\ cpu.r[3] = Mod((R1 - R0) * R1) /\ cpu.r[SP] = before.r[SP]
    /\ Ended("thumbmax") => /\ Value(cpu.r[0]) = Max({Value(R0), Value(R1)})
                            /\ cpu.r[1] = SignExtended(R1 % HalfWord, HalfWord)
                            /\ cpu.r[2] = R0 /\ cpu.r[SP] = before.r[SP]
    /\ program.name = "undefined" => ~InCallOut
=============================================================================
