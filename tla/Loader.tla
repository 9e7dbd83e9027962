------------------------------- MODULE Loader -------------------------------
(***************************************************************************)
(* From the linker's output to memory: bin/coff2noff.c and                 *)
(* bin/coff2flat.c convert a COFF file, userprog/addrspace.cc loads the    *)
(* converted program into the pages of a new address space, and bin/main.c *)
(* and bin/disasm.c load the COFF file itself.  A COFF file is its magic   *)
(* numbers and its sections, in order: name, address, size and the bytes   *)
(* the file really has for it.  A NOFF file is its header and what follows *)
(* it; a file position is a number.  The host is little endian, as         *)
(* SwapHeader, WordToHost and ShortToHost assume: they change nothing.     *)
(***************************************************************************)
EXTENDS Translation, SequencesExt

CONSTANTS NoffHeaderSize, UserStackSize, FlatStackSize
ASSUME LoaderAssumption ==
    NoffHeaderSize \in Nat /\ UserStackSize \in Nat /\ FlatStackSize \in Nat /\ FlatStackSize >= 4

Segment0 == [virtualAddr |-> 0, inFileAddr |-> 0, size |-> 0]
NoffHeader0 == [noffMagic |-> "NOFFMAGIC", code |-> Segment0, initData |-> Segment0, uninitData |-> Segment0]

\* Read: a section of which the file holds less than its size is an error.
TooShort(s) == Len(s.data) < s.size
Data == {".data", ".rdata"}
Bss  == {".bss", ".sbss"}

\* One round of the loop of coff2noff.  acc is the header, the rest of the NOFF
\* file and whether the program has given up (and removed the file).
CopySegment(acc, s, field) ==
    LET seg == [virtualAddr |-> s.paddr, inFileAddr |-> NoffHeaderSize + Len(acc.body), size |-> s.size] IN
    IF TooShort(s) THEN [acc EXCEPT !.failed = TRUE]
    ELSE [acc EXCEPT !.header = [@ EXCEPT ![field] = seg], !.body = @ \o SubSeq(s.data, 1, s.size)]

\* Mutant of AddBss: a second section replaces the first.
AddBssReplacing(acc, s) ==
    [acc EXCEPT !.header.uninitData.virtualAddr = s.paddr, !.header.uninitData.size = s.size]
AddBss(acc, s) ==
    LET u == acc.header.uninitData IN
    IF u.size # 0
    THEN IF s.paddr = u.virtualAddr + u.size THEN [acc EXCEPT !.failed = TRUE]
         ELSE [acc EXCEPT !.header.uninitData.size = @ + s.size]
    ELSE [acc EXCEPT !.header.uninitData.virtualAddr = s.paddr, !.header.uninitData.size = s.size]

ConvertSection(acc, s) ==
    CASE acc.failed \/ s.size = 0              -> acc
      [] ~acc.failed /\ s.size # 0             ->
           CASE s.name = ".text"  -> CopySegment(acc, s, "code")
             [] s.name \in Data   ->
                  IF acc.header.initData.size # 0 THEN [acc EXCEPT !.failed = TRUE]
                  ELSE CopySegment(acc, s, "initData")
             [] s.name \in Bss    -> AddBss(acc, s)
             [] OTHER             -> [acc EXCEPT !.failed = TRUE]
GoodMagic(coff) == coff.f_magic = "MIPSELMAGIC" /\ coff.magic = "OMAGIC"
Coff2Noff(coff) ==
    FoldLeft(ConvertSection, [header |-> NoffHeader0, body |-> <<>>, failed |-> ~GoodMagic(coff)], coff.sections)

\* coff2flat copies one section after the other, wherever their addresses are,
\* and writes a word of zeros where the stack ends; lseek leaves zeros.
FlatSection(acc, s) ==
    IF acc.failed THEN acc
    ELSE IF s.name \in Bss THEN [acc EXCEPT !.top = Max({@, s.paddr + s.size})]
    ELSE IF TooShort(s) THEN [acc EXCEPT !.failed = TRUE]
    ELSE [acc EXCEPT !.top = Max({@, s.paddr + s.size}), !.out = @ \o SubSeq(s.data, 1, s.size)]
Coff2Flat(coff) ==
    LET copied == FoldLeft(FlatSection, [out |-> <<>>, top |-> 0, failed |-> ~GoodMagic(coff)], coff.sections)
        length == copied.top + FlatStackSize
    IN  [copied EXCEPT !.out =
            [k \in 1..length |-> IF k > length - 4 \/ k > Len(copied.out) THEN 0 ELSE copied.out[k]]]

-----------------------------------------------------------------------------
(* AddrSpace::AddrSpace(executable)                                        *)

\* How many pages.  Mutant: none for the uninitialised data.
PagesNeededNoBss(h) == (h.code.size + h.initData.size + UserStackSize + PageSize - 1) \div PageSize
PagesNeeded(h) ==
    (h.code.size + h.initData.size + h.uninitData.size + UserStackSize + PageSize - 1) \div PageSize

\* Entries for the frames AllocatePage gave, and the memory with them zeroed.
NewPageTable(frames) ==
    [i \in DOMAIN frames |->
        [virtualPage |-> i - 1, physicalPage |-> frames[i], valid |-> TRUE,
         use |-> FALSE, dirty |-> FALSE, readOnly |-> FALSE]]
Zeroed(mem, frames) ==
    [p \in DOMAIN mem |-> IF \E i \in DOMAIN frames : frames[i] = p \div PageSize THEN 0 ELSE mem[p]]

\* AddrSpace::Translate.
AddrTranslate(table, virtualAddr) ==
    table[virtualAddr \div PageSize + 1].physicalPage * PageSize + (virtualAddr % PageSize)

\* ReadFile, byte by byte through the page table.
ReadFile(mem, table, noff, seg) ==
    LET at == {AddrTranslate(table, seg.virtualAddr + c) : c \in 0..(seg.size - 1)}
        From(p) == CHOOSE c \in 0..(seg.size - 1) : AddrTranslate(table, seg.virtualAddr + c) = p
    IN  [p \in DOMAIN mem |->
            IF p \in at THEN noff.body[seg.inFileAddr - NoffHeaderSize + From(p) + 1] ELSE mem[p]]

\* InitRegisters: where the program starts; the other registers are zero.
InitRegisters(numPages) == [pc |-> 0, npc |-> 4, sp |-> numPages * PageSize - 16]

\* free are the frames AllocatePage will give, in its order.  A file of another
\* kind is refused before anything is allocated.  The code assumes that the
\* segments lie in the pages it has counted.
LoadNoff(noff, mem, free) ==
    LET Refused  == [valid |-> FALSE, table |-> <<>>, mem |-> mem, start |-> InitRegisters(0)]
        numPages == PagesNeeded(noff.header)
        frames   == SubSeq(free, 1, numPages)
        table    == NewPageTable(frames)
        loaded   == ReadFile(ReadFile(Zeroed(mem, frames), table, noff, noff.header.code),
                             table, noff, noff.header.initData)
    IN  IF noff.header.noffMagic # "NOFFMAGIC" \/ numPages > Len(free) THEN Refused
        ELSE [valid |-> TRUE, table |-> table, mem |-> loaded, start |-> InitRegisters(numPages)]

-----------------------------------------------------------------------------
(* load_program of bin/main.c and of bin/disasm.c                          *)

\* int.h: the address of mem[0], where the programs of bin/ are linked.
memoffset == 2^28

BinSections == <<".text", ".rdata", ".data", ".sdata", ".sbss", ".bss">>

\* LOADSECTION puts a section into mem and then looks whether it fitted;
\* load_section looks before every byte.  Both skip a section with no bytes in
\* the file; at the end of the file getc gives -1.
LoadSection(s, mem) ==
    LET At(p) == p - (s.paddr - memoffset) + 1 IN
    [p \in DOMAIN mem |-> IF At(p) \notin 1..s.size THEN mem[p]
                          ELSE IF At(p) \in DOMAIN s.data THEN s.data[At(p)] ELSE 2^ByteBits - 1]
RunFits(s)    == s.paddr + s.size - memoffset < MemorySize
DisasmFits(s) == s.paddr + s.size - memoffset <= MemorySize
LoadBin(coff, mem, tool) ==
    LET Named(name) == {k \in DOMAIN coff.sections : coff.sections[k].name = name}
        Fits(s) == IF tool = "disasm" THEN DisasmFits(s) ELSE RunFits(s)
        Load(acc, name) ==
            IF Named(name) = {} THEN acc
            ELSE LET s == coff.sections[Min(Named(name))] IN
                 IF acc.exited \/ s.data = <<>> THEN acc
                 ELSE IF Fits(s) THEN [acc EXCEPT !.mem = LoadSection(s, @)]
                 ELSE [acc EXCEPT !.exited = TRUE]
    IN  FoldLeft(Load, [mem |-> mem, exited |-> coff.f_magic # "MIPSELMAGIC"], BinSections)

-----------------------------------------------------------------------------
(* Properties                                                              *)

\* What the program expects at an address: its section's byte, or zero.
Expected(coff, a) ==
    LET holding == {k \in DOMAIN coff.sections :
                      LET s == coff.sections[k] IN
                      s.data # <<>> /\ a \in s.paddr..(s.paddr + s.size - 1)}
    IN  IF holding = {} THEN 0 ELSE LET s == coff.sections[Min(holding)] IN s.data[a - s.paddr + 1]
EndOf(coff) == Max({0} \cup {coff.sections[k].paddr + coff.sections[k].size : k \in DOMAIN coff.sections})

SizeOf(coff) == FoldLeft(LAMBDA sum, section : sum + section.size, 0, coff.sections)

\* A program that coff2noff accepts and for which there are pages finds in its
\* address space its code and data, and zeros everywhere else, however its pages
\* lie in memory; pages of others keep their contents.  Above its data it has
\* the whole stack, unless a gap between .sbss and .bss, which coff2noff accepts
\* but the constructor does not count, has taken part of it.  A file without the
\* magic number of a NOFF file gets no pages and changes no memory.
ProgramIsLoaded(coff, mem, free) ==
    LET noff == Coff2Noff(coff)
        space == LoadNoff(noff, mem, free)
        mine == {space.table[i].physicalPage : i \in DOMAIN space.table}
        other == LoadNoff([noff EXCEPT !.header.noffMagic = "other"], mem, free)
    IN  /\ ~noff.failed /\ space.valid =>
            /\ \A a \in 0..(Len(space.table) * PageSize - 1) :
                 LET t == Translate(PageTable(space.table), a, 1, FALSE) IN
                 t.exc = "none" /\ space.mem[t.phys] = Expected(coff, a)
            /\ \A p \in DOMAIN mem : p \div PageSize \notin mine => space.mem[p] = mem[p]
            /\ space.start.sp + 16 >= SizeOf(coff) + UserStackSize
            /\ EndOf(coff) = SizeOf(coff) => space.start.sp + 16 - EndOf(coff) >= UserStackSize
        /\ ~other.valid /\ other.table = <<>> /\ other.mem = mem

\* The flat file is the same image, with its own stack, when no section with
\* bytes comes after one without and no gap before one; and linked where their
\* memory begins, the interpreter and the disassembler of bin/ see the same
\* program, only that the interpreter refuses one that ends exactly where its
\* memory does.
LoadersAgree(coff) ==
    LET mem  == [p \in 0..(MemorySize - 1) |-> 0]     \* static memory
        flat == Coff2Flat(coff)
        bin  == [coff EXCEPT !.sections =
                   [k \in DOMAIN coff.sections |-> [coff.sections[k] EXCEPT !.paddr = @ + memoffset]]]
        run  == LoadBin(bin, mem, "run")
        dis  == LoadBin(bin, mem, "disasm")
        BssLast == \A j, k \in DOMAIN coff.sections :
                      j < k /\ coff.sections[j].name \in Bss => coff.sections[k].name \in Bss
    IN  /\ ~flat.failed /\ BssLast =>
             /\ Len(flat.out) = EndOf(coff) + FlatStackSize
             /\ \A k \in DOMAIN flat.out : flat.out[k] = Expected(coff, k - 1)
        /\ ~run.exited => dis = run
        /\ ~dis.exited /\ ~flat.failed =>
             \A p \in DOMAIN mem : dis.mem[p] = Expected(bin, p + memoffset)
        /\ ~dis.exited /\ run.exited => EndOf(bin) - memoffset >= MemorySize
=============================================================================
