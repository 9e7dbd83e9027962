------------------------------ MODULE Decoders ------------------------------
(***************************************************************************)
(* The three decoders of the instruction word: Instruction::Decode with    *)
(* the tables of machine/mipssim.h, the numbers of bin/encode.h by which   *)
(* bin/execute.c and bin/d.c switch, and the names bin/opstrings.c prints. *)
(* A word is the record of its fields; the shifts and masks that cut it    *)
(* are the same in machine/mipssim.cc and in bin/instr.h.                  *)
(***************************************************************************)
EXTENDS R2000

Field == 0..63
Row(k, names) == [n \in k..(k + Len(names) - 1) |-> names[n - k + 1]]
Over(f, g) == [n \in DOMAIN f \cup DOMAIN g |-> IF n \in DOMAIN f THEN f[n] ELSE g[n]]
Everywhere(name) == [n \in Field |-> name]

\* opTable of mipssim.h.
opTable ==
    Over(Row(0, <<"SPECIAL", "BCOND", "J", "JAL", "BEQ", "BNE", "BLEZ", "BGTZ",
                  "ADDI", "ADDIU", "SLTI", "SLTIU", "ANDI", "ORI", "XORI", "LUI",
                  "UNIMP", "UNIMP", "UNIMP", "UNIMP">>),
    Over(Row(32, <<"LB", "LH", "LWL", "LW", "LBU", "LHU", "LWR", "RES",
                   "SB", "SH", "SWL", "SW", "RES", "RES", "SWR", "RES",
                   "UNIMP", "UNIMP", "UNIMP", "UNIMP", "RES", "RES", "RES", "RES",
                   "UNIMP", "UNIMP", "UNIMP", "UNIMP">>),
         Everywhere("RES")))

specialTable ==
    Over(Row(0, <<"SLL", "RES", "SRL", "SRA", "SLLV", "RES", "SRLV", "SRAV",
                  "JR", "JALR", "RES", "RES", "SYSCALL", "UNIMP", "RES", "RES",
                  "MFHI", "MTHI", "MFLO", "MTLO", "RES", "RES", "RES", "RES",
                  "MULT", "MULTU", "DIV", "DIVU", "RES", "RES", "RES", "RES",
                  "ADD", "ADDU", "SUB", "SUBU", "AND", "OR", "XOR", "NOR",
                  "RES", "RES", "SLT", "SLTU">>),
         Everywhere("RES"))

\* BCOND is told apart by the whole rt field.
Bcond(rt) ==
    CASE rt = 0 -> "BLTZ" [] rt = 1 -> "BGEZ" [] rt = 16 -> "BLTZAL" [] rt = 17 -> "BGEZAL"
      [] OTHER -> "UNIMP"

\* Instruction::Decode: the operation, and extra as a number.
Immediate(w) == w.rd * 2^11 + w.shamt * 2^6 + w.funct
Decode(w) ==
    LET entry == opTable[w.op] IN
    [op    |-> CASE entry = "SPECIAL" -> specialTable[w.funct]
                 [] entry = "BCOND"   -> Bcond(w.rt)
                 [] OTHER             -> entry,
     extra |-> CASE entry = "SPECIAL"     -> w.shamt
                 [] entry \in {"J", "JAL"} -> w.rs * 2^21 + w.rt * 2^16 + Immediate(w)
                 [] OTHER                 -> IF Immediate(w) >= 2^15 THEN Immediate(w) - 2^16
                                             ELSE Immediate(w)]

-----------------------------------------------------------------------------
(* bin/encode.h, in octal as there, and bin/instr.h                        *)

NormalCode ==
    [SPECIAL |-> \o00, BCOND |-> \o01, J |-> \o02, JAL |-> \o03, BEQ |-> \o04, BNE |-> \o05,
     BLEZ |-> \o06, BGTZ |-> \o07, ADDI |-> \o10, ADDIU |-> \o11, SLTI |-> \o12, SLTIU |-> \o13,
     ANDI |-> \o14, ORI |-> \o15, XORI |-> \o16, LUI |-> \o17,
     COP0 |-> \o20, COP1 |-> \o21, COP2 |-> \o22, COP3 |-> \o23,
     LB |-> \o40, LH |-> \o41, LWL |-> \o42, LW |-> \o43, LBU |-> \o44, LHU |-> \o45, LWR |-> \o46,
     SB |-> \o50, SH |-> \o51, SWL |-> \o52, SW |-> \o53, SWR |-> \o56,
     LWC0 |-> \o60, LWC1 |-> \o61, LWC2 |-> \o62, LWC3 |-> \o63,
     SWC0 |-> \o70, SWC1 |-> \o71, SWC2 |-> \o72, SWC3 |-> \o73]
SpecialCode ==
    [SLL |-> \o00, SRL |-> \o02, SRA |-> \o03, SLLV |-> \o04, SRLV |-> \o06, SRAV |-> \o07,
     JR |-> \o10, JALR |-> \o11, SYSCALL |-> \o14, BREAK |-> \o15,
     MFHI |-> \o20, MTHI |-> \o21, MFLO |-> \o22, MTLO |-> \o23,
     MULT |-> \o30, MULTU |-> \o31, DIV |-> \o32, DIVU |-> \o33,
     ADD |-> \o40, ADDU |-> \o41, SUB |-> \o42, SUBU |-> \o43,
     AND |-> \o44, OR |-> \o45, XOR |-> \o46, NOR |-> \o47, SLT |-> \o52, SLTU |-> \o53]
BcondCode == [BLTZ |-> \o00, BGEZ |-> \o01, BLTZAL |-> \o20, BGEZAL |-> \o21]

Named(code, number, otherwise) ==
    IF \E name \in DOMAIN code : code[name] = number
    THEN CHOOSE name \in DOMAIN code : code[name] = number ELSE otherwise
SwitchOn(w) ==
    LET name == Named(NormalCode, w.op, "u") IN
    CASE name = "SPECIAL" -> Named(SpecialCode, w.funct, "u")
      [] name = "BCOND"   -> Named(BcondCode, w.rt, "u")
      [] OTHER            -> name

\* immed, shamt and off26 of instr.h (the last without its shift).
OperandOf(w) ==
    LET name == Named(NormalCode, w.op, "u")
        immed == IF (Immediate(w) \div 2^15) % 2 = 1 THEN -(2^15) + (Immediate(w) % 2^15)
                 ELSE Immediate(w) % 2^15
    IN CASE name = "SPECIAL" -> w.shamt
         [] name \in {"J", "JAL"} -> ((w.rs * 2^5 + w.rt) * 2^16) + Immediate(w)
         [] OTHER -> immed

\* normalops and specialops of opstrings.c, "" for the octal numbers.
normalops ==
    Over(Row(0, <<"SPECIAL", "BCOND", "J", "JAL", "BEQ", "BNE", "BLEZ", "BGTZ",
                  "ADDI", "ADDIU", "SLTI", "SLTIU", "ANDI", "ORI", "XORI", "LUI",
                  "COP0", "COP1", "COP2", "COP3">>),
    Over(Row(32, <<"LB", "LH", "LWL", "LW", "LBU", "LHU", "LWR", "",
                   "SB", "SH", "SWL", "SW", "", "", "SWR", "",
                   "LWC0", "LWC1", "LWC2", "LWC3", "", "", "", "",
                   "SWC0", "SWC1", "SWC2", "SWC3">>),
         Everywhere("")))
specialops ==
    Over(Row(0, <<"SLL", "", "SRL", "SRA", "SLLV", "", "SRLV", "SRAV",
                  "JR", "JALR", "", "", "SYSCALL", "BREAK", "", "",
                  "MFHI", "MTHI", "MFLO", "MTLO", "", "", "", "",
                  "MULT", "MULTU", "DIV", "DIVU", "", "", "", "",
                  "ADD", "ADDU", "SUB", "SUBU", "AND", "OR", "XOR", "NOR",
                  "", "", "SLT", "SLTU">>),
         Everywhere(""))
Printed(w) ==
    LET name == normalops[w.op] IN
    CASE name = "SPECIAL" -> specialops[w.funct]
      [] name = "BCOND"   -> Named(BcondCode, w.rt, "BCOND")
      [] OTHER            -> name

-----------------------------------------------------------------------------
(* Operands, as the traces show them                                       *)

\* opStrings of mipssim.h: the registers among args.
SimTrace(op) ==
    CASE op \in (RdOps \cup ShiftVOps) \ {"MFHI", "MFLO"} -> {"rd", "rs", "rt"}
      [] op \in ShiftOps -> {"rd", "rt"}
      [] op \in ImmOps \ {"LUI"} -> {"rt", "rs"}
      [] op \in {"BEQ", "BNE", "MULT", "MULTU", "DIV", "DIVU"} -> {"rs", "rt"}
      [] op \in BranchOps \ {"BEQ", "BNE"} -> {"rs"}
      [] op \in LoadOps \cup StoreOps \cup UnalignedOps -> {"rt", "rs"}
      [] op = "LUI" -> {"rt"}
      [] op \in {"JALR", "JR"} -> {"rd", "rs"}
      [] op \in {"MFHI", "MFLO"} -> {"rd"}
      [] op \in {"MTHI", "MTLO"} -> {"rs"}
      [] OTHER -> {}

\* dump_ascii of d.c: SPECIAL instructions, and the others, by the name the
\* switch of d.c gives them; BCOND shows rs whatever its rt says.
DumpSpecial(op) ==
    CASE op \in ShiftOps -> {"rd", "rt"}
      [] op \in ShiftVOps -> {"rd", "rt", "rs"}
      [] op \in {"JR", "JALR", "MFLO", "MTLO"} -> {"rs"}
      [] op \in {"MFHI", "MTHI"} -> {"rd"}
      [] op \in {"MULT", "MULTU", "DIV", "DIVU"} -> {"rs", "rt"}
      [] op \in {"ADD", "ADDU", "SUB", "SUBU", "AND", "OR", "XOR", "NOR", "SLT", "SLTU"} ->
           {"rd", "rs", "rt"}
      [] OTHER -> {}
CoprocessorMoves == {"LWC0", "LWC1", "LWC2", "LWC3", "SWC0", "SWC1", "SWC2", "SWC3"}
DumpNormal(op) ==
    CASE op \in DOMAIN BcondCode \cup {"BCOND"} -> {"rs"}
      [] op \in {"BEQ", "BNE"} -> {"rt", "rs"}
      [] op \in ImmOps \ {"LUI"} -> {"rt", "rs"}
      [] op = "LUI" -> {"rt"}
      [] op \in LoadOps \cup StoreOps \cup UnalignedOps \cup CoprocessorMoves -> {"rt", "rs"}
      [] OTHER -> {}

\* The registers an instruction reads or writes.
Registers(op) ==
    {f \in {"rd"} : op \in RdOps \cup ShiftOps \cup ShiftVOps \cup {"JALR"}}
    \cup {f \in {"rt"} : op \in (RdOps \cup ShiftOps \cup ShiftVOps \cup ImmOps \cup LoadOps \cup StoreOps
             \cup UnalignedOps \cup {"BEQ", "BNE", "MULT", "MULTU", "DIV", "DIVU"}) \ {"MFHI", "MFLO"}}
    \cup {f \in {"rs"} : op \in (RdOps \cup ShiftVOps \cup ImmOps \cup BranchOps \cup HiLoOps \cup LoadOps
             \cup StoreOps \cup UnalignedOps \cup {"JR", "JALR"}) \ {"MFHI", "MFLO", "LUI"}}

-----------------------------------------------------------------------------
\* Every word has one meaning: mipssim.cc, the switch of execute.c and the names
\* of opstrings.c agree, where the simulator calls coprocessor instructions and
\* BREAK unimplemented and the others reserved.
DecodersAgree(w) ==
    LET op == Decode(w).op  name == SwitchOn(w) IN
    /\ Decode(w).extra = OperandOf(w)
    /\ op \notin {"UNIMP", "RES"} => name = op /\ Printed(w) = op
    /\ op = "UNIMP" => name \in {"COP0", "COP1", "COP2", "COP3", "LWC0", "LWC1", "LWC2", "LWC3",
                                 "SWC0", "SWC1", "SWC2", "SWC3", "BREAK"}
                       \/ (name = "u" /\ Printed(w) = "BCOND")
    /\ op = "RES" => name = "u" /\ Printed(w) = ""

\* Both traces name the registers the instruction works on, but for JR, whose
\* unused rd mipssim.h shows, and five instructions of d.c: JALR without rd, MFLO
\* and MTHI with the wrong field, BLEZ and BGTZ with nothing.  Of the words that
\* mipssim.h calls unimplemented and shows without operands, d.c shows the base
\* and the register of the coprocessor loads and stores, and the rs of a BCOND
\* with an unknown rt; of reserved words neither shows any.
TracesShowOperands(w) ==
    LET op == Decode(w).op
        name == SwitchOn(w)
        dump == CASE w.op = 0 -> DumpSpecial(name)
                  [] w.op = 1 -> DumpNormal(IF name = "u" THEN "BCOND" ELSE name)
                  [] OTHER    -> DumpNormal(name)
    IN  /\ op # "JR" => SimTrace(op) = Registers(op)
        /\ op \notin {"JALR", "MFLO", "MTHI", "BLEZ", "BGTZ", "UNIMP"} => dump = Registers(op)
        /\ op = "UNIMP" => dump = IF name \in CoprocessorMoves THEN {"rt", "rs"}
                                  ELSE IF w.op = 1 THEN {"rs"} ELSE {}
=============================================================================
