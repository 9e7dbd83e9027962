------------------------------- MODULE BinSim -------------------------------
(***************************************************************************)
(* bin/execute.c: runprogram, the stand-alone interpreter for the same     *)
(* processor.  Registers are int, memory is one array that begins at       *)
(* memoffset, loads are not delayed and nothing traps: the program ends    *)
(* (u(), exit) or the host does (a division by zero).  A variable shift    *)
(* takes the amount modulo the word size, as the hosts' instructions do.   *)
(***************************************************************************)
EXTENDS R2000, Bitwise

CONSTANT MemOffset

\* fetch, sfetch, cfetch and their stores: no check of any kind.
FetchAt(m, addr, size) == FromBytes(m.mem, addr - MemOffset, size)
StoreAt(m, addr, size, value) == [m EXCEPT !.mem = ToBytes(@, addr - MemOffset, size, value)]

\* HI of a product, from the half words; the products are int, and >> keeps
\* their sign.  The carries of the lower parts are not added.
HighWord(x, y) ==
    LET t1l == Low(x)  t1h == x \div 2^HalfBits  t2l == Low(y)  t2h == y \div 2^HalfBits
        Upper(p) == SInt(Wrap(p)) \div 2^HalfBits
    IN  Wrap(t1h * t2h + Upper(t1h * t2l) + Upper(t2h * t1l))

MultSigned(a, b) ==
    LET t1 == Wrap(Abs(SInt(a)))  t2 == Wrap(Abs(SInt(b)))
        lo == Wrap(-(t1 * t2))
    IN  IF Negative(a) = Negative(b) THEN [hi |-> HighWord(t1, t2), lo |-> Wrap(t1 * t2)]
        ELSE [lo |-> lo, hi |-> Wrap((2^WordBits - 1) - HighWord(t1, t2) + (IF lo = 0 THEN 1 ELSE 0))]

\* SLT.  Mutant: a comparison of unsigned registers.
SetLessUnsigned(m, i) == IF m.r[i.rs] < m.r[i.rt] THEN 1 ELSE 0
SetLess(m, i) == IF SInt(m.r[i.rs]) < SInt(m.r[i.rt]) THEN 1 ELSE 0

\* The values register instructions compute, on int: shifts, the others of
\* I_SPECIAL, and those with an immediate.
ShiftsInt(m, i) ==
    LET b == SInt(m.r[i.rt])  ub == m.r[i.rt]  by == m.r[i.rs] % WordBits IN
    CASE i.op = "SLL"   -> b * 2^i.extra
      [] i.op = "SRL"   -> ub \div 2^i.extra
      [] i.op = "SRA"   -> b \div 2^i.extra
      [] i.op = "SLLV"  -> b * 2^by
      [] i.op = "SRLV"  -> ub \div 2^by
      [] i.op = "SRAV"  -> b \div 2^by
ComputesInt(m, i) ==
    LET a == SInt(m.r[i.rs])  b == SInt(m.r[i.rt])  ua == m.r[i.rs]  ub == m.r[i.rt] IN
    CASE i.op \in {"ADD", "ADDU"}   -> a + b
      [] i.op \in {"SUB", "SUBU"}   -> a - b
      [] i.op = "AND"   -> ua & ub
      [] i.op = "OR"    -> ua | ub
      [] i.op = "XOR"   -> ua ^^ ub
      [] i.op = "NOR"   -> -1 - (ua | ub)
      [] i.op = "SLT"   -> SetLess(m, i)
      [] i.op = "SLTU"  -> IF ua < ub THEN 1 ELSE 0
      [] i.op = "MFHI"  -> m.hi
      [] i.op = "MFLO"  -> m.lo
ComputesImmediate(m, i) ==
    LET a == SInt(m.r[i.rs])  ua == m.r[i.rs]  immed == SInt(i.extra) IN
    CASE i.op \in {"ADDI", "ADDIU"} -> a + immed
      [] i.op = "SLTI"  -> IF a < immed THEN 1 ELSE 0
      [] i.op = "SLTIU" -> IF ua < i.extra THEN 1 ELSE 0
      [] i.op = "ANDI"  -> ua & i.extra
      [] i.op = "ORI"   -> ua | i.extra
      [] i.op = "XORI"  -> ua ^^ i.extra
      [] i.op = "LUI"   -> i.extra * 2^HalfBits

\* pc has advanced already: m.pc is the next instruction, xpc this one.
BranchIf(taken, m, i, xpc) == IF taken THEN Wrap(xpc + 4 + 4 * SInt(i.extra)) ELSE m.npc
BcondTo(m, i, xpc) ==
    BranchIf(IF i.op \in {"BLTZ", "BLTZAL"} THEN SInt(m.r[i.rs]) < 0 ELSE SInt(m.r[i.rs]) >= 0, m, i, xpc)
JumpTo(m, i, xpc) ==
    LET a == SInt(m.r[i.rs]) IN
    CASE i.op \in {"J", "JAL"} -> (xpc & (15 * 2^(WordBits - 4))) | (4 * i.extra)
      [] i.op = "BEQ"  -> BranchIf(m.r[i.rs] = m.r[i.rt], m, i, xpc)
      [] i.op = "BNE"  -> BranchIf(m.r[i.rs] # m.r[i.rt], m, i, xpc)
      [] i.op = "BLEZ" -> BranchIf(a <= 0, m, i, xpc)
      [] i.op = "BGTZ" -> BranchIf(a > 0, m, i, xpc)

LoadsNow(m, i) ==
    LET addr == Wrap(m.r[i.rs] + i.extra)
        word == FetchAt(m, addr - (addr % 4), 4)
        Times(k) == 2^(ByteBits * k)
    IN CASE i.op \in {"LB", "LH"} -> Wrap(Signed(FetchAt(m, addr, Width(i.op)), Width(i.op) * ByteBits))
         [] i.op \in {"LBU", "LHU", "LW"} -> FetchAt(m, addr, Width(i.op))
         [] i.op = "LWL" -> m.r[i.rt] | Wrap(word * Times(addr % 4))
         [] i.op = "LWR" ->
              (IF addr % 4 = 0 THEN 0 ELSE m.r[i.rt] - (m.r[i.rt] % Times(addr % 4)))
                | Wrap(SInt(word) \div Times((-addr) % 4))

\* SB, SH and SW; there is no SWL and no SWR.
StoresNow(m, i) == StoreAt(m, Wrap(m.r[i.rs] + i.extra), Width(i.op), m.r[i.rt])

Exits(m) == [m EXCEPT !.exc = "exit"]
Crashes(m) == [m EXCEPT !.exc = "crash"]

\* DIV and DIVU; dividing by zero, or the smallest int by -1, ends the host.
DivideInt(m, i) ==
    LET a == SInt(m.r[i.rs])  b == SInt(m.r[i.rt]) IN
    IF b = 0 \/ (i.op = "DIV" /\ b = -1 /\ a = -(2^(WordBits - 1))) THEN Crashes(m)
    ELSE IF i.op = "DIV" THEN [m EXCEPT !.lo = Wrap(TruncDiv(a, b)), !.hi = Wrap(a - TruncDiv(a, b) * b)]
    ELSE [m EXCEPT !.lo = m.r[i.rs] \div m.r[i.rt], !.hi = m.r[i.rs] % m.r[i.rt]]

\* One round of the loop of runprogram; a SYSCALL is answered by the host.
RunInstruction(start, i) ==
    LET xpc == start.pc
        m   == [start EXCEPT !.pc = start.npc, !.npc = Wrap(start.npc + 4), !.r[0] = 0]
        Set(reg, v) == [m EXCEPT !.r[reg] = Wrap(v)]
        linked == Set(LinkReg, xpc + 8)
        p == MultSigned(m.r[i.rs], m.r[i.rt])
    IN CASE i.op \in ShiftOps \cup ShiftVOps -> Set(i.rd, ShiftsInt(m, i))
         [] i.op \in RdOps    -> Set(i.rd, ComputesInt(m, i))
         [] i.op \in ImmOps   -> Set(i.rt, ComputesImmediate(m, i))
         [] i.op = "JR"       -> [m EXCEPT !.npc = m.r[i.rs]]
         [] i.op = "JALR"     -> [Set(i.rd, xpc + 8) EXCEPT !.npc = m.r[i.rs]]
         [] i.op = "JAL"      -> [linked EXCEPT !.npc = JumpTo(m, i, xpc)]
         [] i.op \in {"BLTZAL", "BGEZAL"} -> [linked EXCEPT !.npc = BcondTo(linked, i, xpc)]
         [] i.op \in {"BLTZ", "BGEZ"}     -> [m EXCEPT !.npc = BcondTo(m, i, xpc)]
         [] i.op \in {"J", "BEQ", "BNE", "BLEZ", "BGTZ"} -> [m EXCEPT !.npc = JumpTo(m, i, xpc)]
         [] i.op = "MTHI"     -> [m EXCEPT !.hi = m.r[i.rs]]
         [] i.op = "MTLO"     -> [m EXCEPT !.lo = m.r[i.rs]]
         [] i.op = "MULT"     -> [m EXCEPT !.hi = p.hi, !.lo = p.lo]
         [] i.op = "MULTU"    -> [m EXCEPT !.hi = HighWord(m.r[i.rs], m.r[i.rt]),
                                           !.lo = Wrap(m.r[i.rs] * m.r[i.rt])]
         [] i.op \in {"DIV", "DIVU"} -> DivideInt(m, i)
         [] i.op \in LoadOps \cup {"LWL", "LWR"} -> Set(i.rt, LoadsNow(m, i))
         [] i.op \in StoreOps -> StoresNow(m, i)
         [] i.op = "SYSCALL"  -> m
         [] i.op \in {"SWL", "SWR", "RES", "UNIMP"} -> Exits(m)

\* ilog2, by halves; the masks are those of 32 bits cut to the width.
Above(half) == FromBits({n \in 0..(WordBits - 1) : (n \div half) % 2 = 1})
ilog2(v) ==
    LET Halve(s, half) == IF (s.i & Above(half)) # 0 THEN [i |-> s.i & Above(half), l |-> s.l + half] ELSE s
        Wider(s) == IF WordBits > 8 THEN Halve(s, 8) ELSE s
    IN  IF v = 0 THEN 0 ELSE Halve(Halve(Halve(Wider([i |-> v, l |-> 1]), 4), 2), 1).l

-----------------------------------------------------------------------------
\* What the interpreter does otherwise than the R2000: no traps; immediates of
\* logical instructions are sign-extended; HI loses carries; a jump takes its
\* region from the jump; LWL and LWR merge in another order, SWL and SWR exit.
KnownShortcut(m, i, arch) ==
    \/ arch.exc # "none"
    \/ i.op \in {"ANDI", "ORI", "XORI"} /\ Negative(i.extra)
    \/ i.op \in {"J", "JAL"} /\ m.pc \div 2^(WordBits - 4) # m.npc \div 2^(WordBits - 4)
    \/ i.op \in UnalignedOps
    \/ i.op \in {"DIV", "DIVU"} /\ m.r[i.rt] = 0
    \/ i.op = "DIV" /\ m.r[i.rs] = 2^(WordBits - 1) /\ m.r[i.rt] = 2^WordBits - 1
    \/ i.op \in {"BLTZAL", "BGEZAL"} /\ i.rs = LinkReg

\* The state after the load delay, as far as both machines have it.
Settled(m) ==
    [r |-> Loaded(m), lo |-> m.lo, pc |-> m.pc, npc |-> m.npc, mem |-> m.mem]

\* The interpreter's result n is the processor's, arch, but for a known shortcut.
Shortcut(m, i, arch, n) ==
    \/ KnownShortcut(m, i, arch)
    \/ Settled(n) = Settled(arch) /\ (i.op \notin {"MULT", "MULTU"} => n.hi = arch.hi)
=============================================================================
