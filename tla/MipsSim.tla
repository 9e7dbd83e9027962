------------------------------ MODULE MipsSim -------------------------------
(***************************************************************************)
(* machine/mipssim.cc: Machine::OneInstruction, which executes user        *)
(* programs, with DelayedLoad, Mult and RaiseException.  Registers are     *)
(* unsigned int; tmp, sum, diff and value are int.                         *)
(***************************************************************************)
EXTENDS R2000, Bitwise

SIGN_BIT == 2^(WordBits - 1)
IndexToAddr(x) == Wrap(4 * x)
ShiftMask == WordBits - 1    \* 0x1f
LowHalf(x) == x & (2^HalfBits - 1)
Complement(x) == (2^WordBits - 1) - x
SignClear(x) == (x & SIGN_BIT) = 0

\* Shifts of an int and of an unsigned int.
Asr(x, by) == Wrap(SInt(x) \div 2^by)
Lsr(x, by) == x \div 2^by
Lsl(x, by) == Wrap(x * 2^by)

-----------------------------------------------------------------------------
(* Mult: shift and add on double words.                                    *)

\* One round of the loop, on s.  Mutant: the carry out of the low word is lost.
MultRoundNoCarry(s) ==
    LET odd == s.a % 2 = 1 IN
    [s EXCEPT !.lo = IF odd THEN Wrap(@ + s.bLo) ELSE @, !.hi = IF odd THEN Wrap(@ + s.bHi) ELSE @,
              !.bHi = Wrap(2 * @) + (s.bLo \div SIGN_BIT), !.bLo = Wrap(2 * @), !.a = Asr(@, 1)]
MultRound(s) ==
    LET odd == s.a % 2 = 1
        sum == Wrap(s.lo + s.bLo)
    IN  IF odd /\ s.a = 1
        THEN [s EXCEPT !.lo = sum, !.hi = Wrap(@ + s.bHi + (IF sum < s.bLo THEN 1 ELSE 0)), !.a = 0]
        ELSE [s EXCEPT !.lo = IF odd THEN sum ELSE @,
                       !.hi = IF odd THEN Wrap(@ + s.bHi + (IF sum < s.bLo THEN 1 ELSE 0)) ELSE @,
                       !.bHi = Wrap(2 * @) + (s.bLo \div SIGN_BIT),
                       !.bLo = Wrap(2 * @), !.a = Asr(@, 1)]

Mult(a, b, signedArith) ==
    LET Magnitude(x) == IF signedArith /\ Negative(x) THEN Wrap(-x) ELSE x
        negative == signedArith /\ Negative(a) # Negative(b)
        rounds[n \in 0..WordBits] ==
            IF n = 0 THEN [a |-> Magnitude(a), bLo |-> Magnitude(b), bHi |-> 0, lo |-> 0, hi |-> 0]
            ELSE MultRound(rounds[n - 1])
        res == rounds[WordBits]
        lo  == IF negative THEN Wrap(Complement(res.lo) + 1) ELSE res.lo
    IN  IF a = 0 \/ b = 0 THEN [hi |-> 0, lo |-> 0]
        ELSE [lo |-> lo, hi |-> IF ~negative THEN res.hi
                                ELSE Wrap(Complement(res.hi) + (IF lo = 0 THEN 1 ELSE 0))]

-----------------------------------------------------------------------------
(* DelayedLoad, RaiseException and the end of OneInstruction               *)

DelayedLoad(m, nextReg, nextValue) ==
    [m EXCEPT !.r = [[@ EXCEPT ![m.ldReg] = m.ldVal] EXCEPT ![0] = 0],
              !.ldReg = nextReg, !.ldVal = nextValue]

RaiseException(m, which, badVAddr) ==
    [DelayedLoad([m EXCEPT !.bad = badVAddr], 0, 0) EXCEPT !.exc = which]

Advance(m, nextLoadReg, nextLoadValue, pcAfter) ==
    [DelayedLoad(m, nextLoadReg, nextLoadValue)
        EXCEPT !.pc = m.npc, !.npc = pcAfter, !.exc = "none"]

Sets(m, result) == Advance([m EXCEPT !.r[result[1]] = result[2]], 0, 0, Wrap(m.npc + 4))
Goes(m, pcAfter) == Advance(m, 0, 0, pcAfter)

-----------------------------------------------------------------------------
(* The cases of OneInstruction                                             *)

\* The overflow checks on sign bits.
Overflow(m, i) ==
    LET a == m.r[i.rs]  b == m.r[i.rt]  SameSign(x, y) == SignClear(x ^^ y) IN
    CASE i.op = "ADD"  -> SameSign(a, b) /\ ~SameSign(a, Wrap(a + b))
      [] i.op = "ADDI" -> SameSign(a, i.extra) /\ ~SameSign(i.extra, Wrap(a + i.extra))
      [] i.op = "SUB"  -> ~SameSign(a, b) /\ ~SameSign(a, Wrap(a - b))
      [] OTHER         -> FALSE

\* Instructions that write a register: its number and the value, in the order
\* of the switch.
Adds(m, i) ==
    LET a == m.r[i.rs]  b == m.r[i.rt] IN
    CASE i.op \in {"ADD", "ADDU"}    -> <<i.rd, Wrap(a + b)>>
      [] i.op \in {"ADDI", "ADDIU"}  -> <<i.rt, Wrap(a + i.extra)>>
      [] i.op = "AND"                -> <<i.rd, a & b>>
      [] i.op = "ANDI"               -> <<i.rt, a & LowHalf(i.extra)>>
LoadsUpper(m, i) == <<i.rt, Lsl(i.extra, HalfBits)>>
MovesFrom(m, i) == <<i.rd, IF i.op = "MFHI" THEN m.hi ELSE m.lo>>
Ors(m, i) ==
    LET a == m.r[i.rs] IN
    CASE i.op = "NOR" -> <<i.rd, Complement(a | m.r[i.rt])>>
      [] i.op = "OR"  -> <<i.rd, a | a>>
      [] i.op = "ORI" -> <<i.rt, a | LowHalf(i.extra)>>
ShiftsComparesSubtracts(m, i) ==
    LET a == m.r[i.rs]  b == m.r[i.rt]  One(p) == IF p THEN 1 ELSE 0
        amount == a & ShiftMask
    IN CASE i.op = "SLL"   -> <<i.rd, Lsl(b, i.extra)>>
         [] i.op = "SLLV"  -> <<i.rd, Lsl(b, amount)>>
         [] i.op \in {"SLT", "SLTU"}   -> <<i.rd, One(a < b)>>
         [] i.op \in {"SLTI", "SLTIU"} -> <<i.rt, One(a < i.extra)>>
         [] i.op = "SRA"   -> <<i.rd, Lsr(b, i.extra)>>
         [] i.op = "SRAV"  -> <<i.rd, Lsr(b, amount)>>
         [] i.op = "SRL"   -> <<i.rd, Asr(b, i.extra)>>
         [] i.op = "SRLV"  -> <<i.rd, Asr(b, amount)>>
         [] i.op \in {"SUB", "SUBU"}   -> <<i.rd, Wrap(a - b)>>
Xors(m, i) ==
    IF i.op = "XOR" THEN <<i.rd, m.r[i.rs] ^^ m.r[i.rt]>>
    ELSE <<i.rt, m.r[i.rs] ^^ LowHalf(i.extra)>>
Computes(m, i) ==
    CASE i.op \in {"ADD", "ADDU", "ADDI", "ADDIU", "AND", "ANDI"} -> Adds(m, i)
      [] i.op = "LUI"                   -> LoadsUpper(m, i)
      [] i.op \in {"MFHI", "MFLO"}      -> MovesFrom(m, i)
      [] i.op \in {"NOR", "OR", "ORI"}  -> Ors(m, i)
      [] i.op \in {"XOR", "XORI"}       -> Xors(m, i)
      [] OTHER                          -> ShiftsComparesSubtracts(m, i)

\* HI and LO.  DIV divides unsigned registers, as DIVU does.
SetHiLo(m, hi, lo) == Goes([m EXCEPT !.hi = hi, !.lo = lo], Wrap(m.npc + 4))
Divides(m, i) ==
    LET a == m.r[i.rs]  b == m.r[i.rt] IN
    IF b = 0 THEN SetHiLo(m, 0, 0) ELSE SetHiLo(m, a % b, a \div b)
Multiplies(m, i) ==
    LET a == m.r[i.rs]  product == Mult(a, m.r[i.rt], i.op = "MULT") IN
    CASE i.op = "MTHI" -> SetHiLo(m, a, m.lo)
      [] i.op = "MTLO" -> SetHiLo(m, m.hi, a)
      [] i.op \in {"MULT", "MULTU"} -> SetHiLo(m, product.hi, product.lo)

\* Branches and jumps; those that link write the register first.
Condition(m, i) ==
    LET a == m.r[i.rs] IN
    CASE i.op = "BEQ" -> a = m.r[i.rt]
      [] i.op = "BNE" -> a # m.r[i.rt]
      [] i.op \in {"BGEZ", "BGEZAL"} -> SignClear(a)
      [] i.op \in {"BLTZ", "BLTZAL"} -> ~SignClear(a)
      [] i.op = "BGTZ" -> a > 0
      [] i.op = "BLEZ" -> a <= 0
Linked(m, i) ==
    CASE i.op \in {"BGEZAL", "BLTZAL", "JAL"} -> [m EXCEPT !.r[LinkReg] = Wrap(m.npc + 4)]
      [] i.op = "JALR"                        -> [m EXCEPT !.r[i.rd] = Wrap(m.npc + 4)]
      [] OTHER                                -> m
Branches(m, i) ==
    LET pcAfter == Wrap(m.npc + 4)  n == Linked(m, i) IN
    CASE i.op \in BranchOps -> Goes(n, IF Condition(n, i) THEN Wrap(m.npc + IndexToAddr(i.extra)) ELSE pcAfter)
      [] i.op \in {"J", "JAL"} -> Goes(n, (pcAfter & (15 * 2^(WordBits - 4))) | IndexToAddr(i.extra))
      [] i.op \in {"JR", "JALR"} -> Goes(n, n.r[i.rs])

\* Loads: LH and LW check the alignment themselves.  LB and LH extend the sign.
Loads(m, i) ==
    LET tmp  == Wrap(m.r[i.rs] + i.extra)
        bits == Width(i.op) * ByteBits
        Extended(value) == IF i.op \in {"LB", "LH"} /\ (value & 2^(bits - 1)) # 0
                           THEN value | ((2^WordBits - 1) - (2^bits - 1)) ELSE value
        After(read) == IF read.exc # "none" THEN RaiseException(read.m, read.exc, tmp)
                       ELSE Advance(read.m, i.rt, Extended(read.value), Wrap(m.npc + 4))
    IN  IF tmp % Width(i.op) # 0 THEN RaiseException(m, "AddressError", tmp)
        ELSE After(ReadMem(m, tmp, Width(i.op)))

\* The end of every store.
Stored(write, addr) ==
    IF write.exc # "none" THEN RaiseException(write.m, write.exc, addr)
    ELSE Goes(write.m, Wrap(write.m.npc + 4))
Stores(m, i) ==
    LET addr == Wrap(m.r[i.rs] + i.extra) IN Stored(WriteMem(m, addr, Width(i.op), m.r[i.rt]), addr)

\* LWL, LWR, SWL and SWR: an ASSERT leaves only the aligned case of each.
LoadMerges(m, i) ==
    LET tmp  == Wrap(m.r[i.rs] + i.extra)
        old  == IF m.ldReg = i.rt THEN m.ldVal ELSE m.r[i.rt]
        Merged(value) == IF i.op = "LWL" THEN value
                         ELSE (old & Complement(2^ByteBits - 1)) | Lsr(value, 3 * ByteBits)
        After(read) == IF read.exc # "none" THEN RaiseException(read.m, read.exc, tmp)
                       ELSE Advance(read.m, i.rt, Merged(read.value), Wrap(m.npc + 4))
    IN  IF tmp % 4 # 0 THEN [m EXCEPT !.exc = "ASSERT"] ELSE After(ReadMem(m, tmp, 4))
StoreMerges(m, i) ==
    LET tmp   == Wrap(m.r[i.rs] + i.extra)
        Merged(value) == IF i.op = "SWL" THEN m.r[i.rt]
                         ELSE (value & (2^(3 * ByteBits) - 1)) | Lsl(m.r[i.rt], 3 * ByteBits)
        After(read) == IF read.exc # "none" THEN RaiseException(read.m, read.exc, tmp)
                       ELSE Stored(WriteMem(read.m, tmp, 4, Merged(read.value)), tmp)
    IN  IF tmp % 4 # 0 THEN [m EXCEPT !.exc = "ASSERT"] ELSE After(ReadMem(m, tmp, 4))

Execute(m, i) ==
    CASE i.op \in BranchOps \cup JumpOps -> Branches(m, i)
      [] i.op \in LoadOps  -> Loads(m, i)
      [] i.op \in StoreOps -> Stores(m, i)
      [] i.op \in {"LWL", "LWR"}  -> LoadMerges(m, i)
      [] i.op \in {"SWL", "SWR"}  -> StoreMerges(m, i)
      [] i.op \in {"DIV", "DIVU"} -> Divides(m, i)
      [] i.op \in HiLoOps \ {"DIV", "DIVU"} -> Multiplies(m, i)
      [] i.op = "SYSCALL"  -> RaiseException(m, "Syscall", 0)
      [] i.op \in {"RES", "UNIMP"} -> RaiseException(m, "IllegalInstr", 0)
      [] i.op \in RdOps \cup ShiftOps \cup ShiftVOps \cup ImmOps ->
           IF Overflow(m, i) THEN RaiseException(m, "Overflow", 0)
           ELSE Sets(m, Computes(m, i))

OneInstruction(m, i) ==
    LET After(fetch) == IF fetch.exc # "none" THEN RaiseException(fetch.m, fetch.exc, m.pc)
                        ELSE Execute(fetch.m, i)
    IN  After(ReadMem(m, m.pc, 4))

-----------------------------------------------------------------------------
\* Where the code departs from the R2000, each time for a reason that can be
\* read off one line: registers are unsigned, so that the signed comparisons,
\* DIV and SRA are the unsigned ones; tmp is an int, so that SRL extends the
\* sign; OR reads rs twice; a jump takes its region from the instruction after
\* the delay slot; a load overwrites what the instruction in its delay slot
\* wrote; the ASSERT on unaligned addresses.  JALR and the linking branches
\* read rs after they have written the link; the R2000 leaves that undefined.
KnownDeviation(m, i) ==
    LET a == m.r[i.rs]  b == m.r[i.rt] IN
    \/ i.op \in {"BGTZ", "BLEZ", "SLTI"} /\ (Negative(a) \/ (i.op = "SLTI" /\ Negative(i.extra)))
    \/ i.op \in {"SLT", "DIV"} /\ (Negative(a) \/ Negative(b))
    \/ i.op \in {"SRA", "SRAV", "SRL", "SRLV"} /\ Negative(b)
    \/ i.op = "OR" /\ a # b
    \/ i.op \in {"J", "JAL"} /\ m.npc \div 2^(WordBits - 4) # Wrap(m.npc + 4) \div 2^(WordBits - 4)
    \/ Dest(i) = m.ldReg /\ m.ldReg # 0
    \/ i.op \in UnalignedOps /\ (a + i.extra) % 4 # 0
    \/ i.op \in Links /\ i.rs = Dest(i)
=============================================================================
