------------------------------- MODULE R2000 --------------------------------
(***************************************************************************)
(* The processor the simulators of machine/ and bin/ stand for ("cf.       *)
(* Kane's book"), one instruction at a time: what a user program sees.     *)
(* Words have four bytes of ByteBits bits, so that every operand can be    *)
(* tried.  A machine is a record: the registers r (LinkReg stands for      *)
(* R31), hi and lo, pc and npc (the instruction after a branch is          *)
(* executed), the delayed load ldReg and ldVal, bad (the address of the    *)
(* last fault), exc (the exception the last instruction raised), mmu, mem. *)
(* An instruction has been decoded: extra is its sign-extended immediate,  *)
(* its shift amount or its jump index.                                     *)
(***************************************************************************)
EXTENDS Translation

CONSTANT LinkReg
ASSUME R2000Assumption == LinkReg \in Nat \ {0}

WordBits == 4 * ByteBits
HalfBits == 2 * ByteBits
Word == 0..(2^WordBits - 1)
Wrap(x) == x % 2^WordBits
Signed(v, bits) == IF v >= 2^(bits - 1) THEN v - 2^bits ELSE v
SInt(v) == Signed(v, WordBits)
Negative(v) == v >= 2^(WordBits - 1)

\* Sets of bit numbers, in which the logical operations and shifts are stated.
BitsOf(v) == {n \in 0..(WordBits - 1) : (v \div 2^n) % 2 = 1}
FromBits(S) == SumSet({2^n : n \in S \cap 0..(WordBits - 1)})
Low(v) == v % 2^HalfBits
Abs(x) == IF x < 0 THEN -x ELSE x
TruncDiv(x, y) == LET q == Abs(x) \div Abs(y) IN IF (x < 0) = (y < 0) THEN q ELSE -q

\* The instructions by what they do with their fields.
ShiftOps  == {"SLL", "SRL", "SRA"}
ShiftVOps == {"SLLV", "SRLV", "SRAV"}
RdOps     == {"ADD", "ADDU", "SUB", "SUBU", "AND", "OR", "XOR", "NOR", "SLT", "SLTU", "MFHI", "MFLO"}
ImmOps    == {"ADDI", "ADDIU", "SLTI", "SLTIU", "ANDI", "ORI", "XORI", "LUI"}
HiLoOps   == {"MTHI", "MTLO", "MULT", "MULTU", "DIV", "DIVU"}
BranchOps == {"BEQ", "BNE", "BLEZ", "BGTZ", "BLTZ", "BGEZ", "BLTZAL", "BGEZAL"}
JumpOps   == {"J", "JAL", "JR", "JALR"}
LoadOps   == {"LB", "LBU", "LH", "LHU", "LW"}
StoreOps  == {"SB", "SH", "SW"}
UnalignedOps == {"LWL", "LWR", "SWL", "SWR"}
TrapOps   == {"SYSCALL", "RES", "UNIMP"}
OpCodes   == ShiftOps \cup ShiftVOps \cup RdOps \cup ImmOps \cup HiLoOps \cup BranchOps
             \cup JumpOps \cup LoadOps \cup StoreOps \cup UnalignedOps \cup TrapOps

-----------------------------------------------------------------------------
\* The value an instruction computes from its operands a = rs and b = rt.
Result(m, i) ==
    LET a == m.r[i.rs]  b == m.r[i.rt]
        Shifted(by) == FromBits({n + by : n \in BitsOf(b)})
        One(p) == IF p THEN 1 ELSE 0
        Arith(by) == FromBits({n - by : n \in BitsOf(b)}
                       \cup (IF Negative(b) THEN (WordBits - by)..(WordBits - 1) ELSE {}))
    IN CASE i.op \in {"ADD", "ADDU"}    -> Wrap(a + b)
         [] i.op \in {"SUB", "SUBU"}    -> Wrap(a - b)
         [] i.op \in {"ADDI", "ADDIU"}  -> Wrap(a + i.extra)
         [] i.op = "AND"  -> FromBits(BitsOf(a) \cap BitsOf(b))
         [] i.op = "OR"   -> FromBits(BitsOf(a) \cup BitsOf(b))
         [] i.op = "XOR"  -> FromBits((BitsOf(a) \cup BitsOf(b)) \ (BitsOf(a) \cap BitsOf(b)))
         [] i.op = "NOR"  -> FromBits((0..(WordBits - 1)) \ (BitsOf(a) \cup BitsOf(b)))
         [] i.op = "ANDI" -> FromBits(BitsOf(a) \cap BitsOf(Low(i.extra)))
         [] i.op = "ORI"  -> FromBits(BitsOf(a) \cup BitsOf(Low(i.extra)))
         [] i.op = "XORI" -> LET c == BitsOf(Low(i.extra)) IN
                             FromBits((BitsOf(a) \cup c) \ (BitsOf(a) \cap c))
         [] i.op = "LUI"  -> Low(i.extra) * 2^HalfBits
         [] i.op = "SLT"  -> One(SInt(a) < SInt(b))
         [] i.op = "SLTU" -> One(a < b)
         [] i.op = "SLTI"  -> One(SInt(a) < SInt(i.extra))
         [] i.op = "SLTIU" -> One(a < i.extra)
         [] i.op = "MFHI" -> m.hi
         [] i.op = "MFLO" -> m.lo
         [] i.op = "SLL"  -> Shifted(i.extra)
         [] i.op = "SRL"  -> Shifted(-i.extra)
         [] i.op = "SRA"  -> Arith(i.extra)
         [] i.op = "SLLV" -> Shifted(a % WordBits)
         [] i.op = "SRLV" -> Shifted(-(a % WordBits))
         [] i.op = "SRAV" -> Arith(a % WordBits)

\* The pair HI, LO.  Division by zero leaves anything: the code's choice is 0.
HiLo(m, i) ==
    LET a == m.r[i.rs]  b == m.r[i.rt]
        Pair(product) == LET p == product % 2^(2 * WordBits) IN
                         [hi |-> p \div 2^WordBits, lo |-> Wrap(p)]
    IN CASE i.op = "MTHI"  -> [hi |-> a, lo |-> m.lo]
         [] i.op = "MTLO"  -> [hi |-> m.hi, lo |-> a]
         [] i.op = "MULT"  -> Pair(SInt(a) * SInt(b))
         [] i.op = "MULTU" -> Pair(a * b)
         [] i.op \in {"DIV", "DIVU"} /\ b = 0 -> [hi |-> 0, lo |-> 0]
         [] i.op = "DIV" /\ b # 0 -> LET q == TruncDiv(SInt(a), SInt(b)) IN
                           [hi |-> Wrap(SInt(a) - q * SInt(b)), lo |-> Wrap(q)]
         [] i.op = "DIVU" /\ b # 0 -> [hi |-> a % b, lo |-> a \div b]

Taken(m, i) ==
    LET a == SInt(m.r[i.rs]) IN
    CASE i.op = "BEQ" -> m.r[i.rs] = m.r[i.rt]
      [] i.op = "BNE" -> m.r[i.rs] # m.r[i.rt]
      [] i.op = "BLEZ" -> a <= 0
      [] i.op = "BGTZ" -> a > 0
      [] i.op \in {"BLTZ", "BLTZAL"} -> a < 0
      [] i.op \in {"BGEZ", "BGEZAL"} -> a >= 0

Target(m, i) ==
    CASE i.op \in BranchOps -> IF Taken(m, i) THEN Wrap(m.npc + 4 * SInt(i.extra)) ELSE Wrap(m.npc + 4)
      [] i.op \in {"JR", "JALR"} -> m.r[i.rs]
      [] i.op \in {"J", "JAL"}   -> (m.npc \div 2^(WordBits - 4)) * 2^(WordBits - 4) + 4 * i.extra
      [] OTHER -> Wrap(m.npc + 4)

Width(op) == CASE op \in {"LB", "LBU", "SB"} -> 1 [] op \in {"LH", "LHU", "SH"} -> 2 [] OTHER -> 4
Overflows(m, i) ==
    LET a == SInt(m.r[i.rs])  b == SInt(m.r[i.rt])
        Out(x) == x \notin -(2^(WordBits - 1))..(2^(WordBits - 1) - 1)
    IN CASE i.op = "ADD" -> Out(a + b)
         [] i.op = "SUB" -> Out(a - b)
         [] i.op = "ADDI" -> Out(a + SInt(i.extra))
         [] OTHER -> FALSE

\* The register an instruction writes at once.
Dest(i) ==
    CASE i.op \in RdOps \cup ShiftOps \cup ShiftVOps \cup {"JALR"} -> i.rd
      [] i.op \in ImmOps -> i.rt
      [] i.op \in {"BLTZAL", "BGEZAL", "JAL"} -> LinkReg
      [] OTHER -> 0
Links == {"JALR", "JAL", "BLTZAL", "BGEZAL"}

-----------------------------------------------------------------------------
\* The load that was under way is finished, and R0 is zero.
Loaded(m) == [[m.r EXCEPT ![m.ldReg] = m.ldVal] EXCEPT ![0] = 0]

\* An exception is precise: the instruction had no effect, those before it have
\* completed, and pc still points to it.
Trap(m, exc, bad) == [m EXCEPT !.r = Loaded(m), !.ldReg = 0, !.ldVal = 0, !.exc = exc, !.bad = bad]

\* The instruction reads its operands before the load that is under way, and
\* writes after it.  reg and value are the load it starts.
Complete(m, i, reg, value) ==
    LET dest == Dest(i) IN
    [m EXCEPT
        !.r = [[Loaded(m) EXCEPT ![dest] =
                  IF i.op \in Links THEN Wrap(m.npc + 4)
                  ELSE IF dest # 0 THEN Result(m, i) ELSE 0] EXCEPT ![0] = 0],
        !.hi = IF i.op \in HiLoOps THEN HiLo(m, i).hi ELSE @,
        !.lo = IF i.op \in HiLoOps THEN HiLo(m, i).lo ELSE @,
        !.ldReg = reg, !.ldVal = value,
        !.pc = m.npc, !.npc = Target(m, i), !.exc = "none"]

\* What a load brings.  LWL moves the first bytes of a word, LWR the last: for an
\* aligned address, in the big-endian order, that is the whole word and its most
\* significant byte.
Brought(m, i, word) ==
    LET old == IF m.ldReg = i.rt THEN m.ldVal ELSE m.r[i.rt] IN
    CASE i.op \in {"LB", "LH"} -> Wrap(Signed(word, Width(i.op) * ByteBits))
      [] i.op = "LWR"          -> old - (old % 2^ByteBits) + (word \div 2^(3 * ByteBits))
      [] OTHER                 -> word

\* An access that fails traps; SWR writes only the most significant byte.
Load(m, i) ==
    LET addr == Wrap(m.r[i.rs] + i.extra)
        After(read) == IF read.exc # "none" THEN Trap(read.m, read.exc, addr)
                       ELSE Complete(read.m, i, i.rt, Brought(m, i, read.value))
    IN  After(ReadMem(m, addr, Width(i.op)))
Store(m, i) ==
    LET addr == Wrap(m.r[i.rs] + i.extra)
        After(write) == IF write.exc # "none" THEN Trap(write.m, write.exc, addr)
                        ELSE Complete(write.m, i, 0, 0)
        Merged(read) == IF read.exc # "none" THEN Trap(read.m, read.exc, addr)
                        ELSE After(IF i.op = "SWL" THEN WriteMem(read.m, addr, 4, m.r[i.rt])
                                   ELSE WriteMem(read.m, addr + 3, 1, m.r[i.rt]))
    IN  IF i.op \in StoreOps THEN After(WriteMem(m, addr, Width(i.op), m.r[i.rt]))
        ELSE Merged(ReadMem(m, addr, 4))

Instruct(m, i) ==
    CASE i.op = "SYSCALL" -> Trap(m, "Syscall", 0)
      [] i.op \in {"RES", "UNIMP"} -> Trap(m, "IllegalInstr", 0)
      [] i.op \in LoadOps \cup {"LWL", "LWR"}  -> Load(m, i)
      [] i.op \in StoreOps \cup {"SWL", "SWR"} -> Store(m, i)
      [] OTHER -> IF Overflows(m, i) THEN Trap(m, "Overflow", 0) ELSE Complete(m, i, 0, 0)

\* One instruction, with its fetch.
R2000Step(m, i) ==
    LET After(fetch) == IF fetch.exc # "none" THEN Trap(fetch.m, fetch.exc, m.pc) ELSE Instruct(fetch.m, i)
    IN  After(ReadMem(m, m.pc, 4))
=============================================================================
