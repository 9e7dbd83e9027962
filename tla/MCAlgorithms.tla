---------------------------- MODULE MCAlgorithms ----------------------------
(***************************************************************************)
(* Inputs for the modules without interleavings: every step from the start *)
(* chooses an input for one of them; lists and stacks go on, one operation *)
(* a step, beside the sequence they stand for.                             *)
(***************************************************************************)
EXTENDS MipsSim, BinSim, Decoders, OpenFile, DiskTiming, Loader, Stacks, Startup, TLC

VARIABLES probe, given
Init == probe = "start" /\ given = <<>>
Try(name, inputs) == probe = "start" /\ probe' = name /\ given' \in inputs

-----------------------------------------------------------------------------
(* Machines, instructions and accesses                                     *)

Entry(v, p, valid, ro) ==
    [virtualPage |-> v, physicalPage |-> p, valid |-> valid, readOnly |-> ro, use |-> FALSE, dirty |-> FALSE]
Table == <<Entry(0, 1, TRUE, FALSE), Entry(1, 0, TRUE, TRUE), Entry(2, 0, FALSE, FALSE), Entry(3, 7, TRUE, FALSE)>>
Memory == [a \in 0..(MemorySize - 1) |-> (a + a \div 3) % 4]
Values == {0, 1, 18, 127, 128, 255}
MachineAt(x, y, pc, ldReg, table) ==
    [r |-> <<x, y, 77>> @@ (0 :> 0), hi |-> 3, lo |-> 5, pc |-> pc, npc |-> pc + 4,
     ldReg |-> ldReg, ldVal |-> IF ldReg = 0 THEN 0 ELSE 9,
     bad |-> 0, exc |-> "none", mmu |-> PageTable(table), mem |-> Memory]
Machines ==
    {MachineAt(x, y, 0, 2, Table) : x \in Values, y \in Values}
    \cup {MachineAt(x, 128, pc, l, Table) : x \in {1, 128}, pc \in {8, 34, 248}, l \in {0, 3}}
BinMachines ==
    {MachineAt(x, y, pc, 0, <<Entry(0, 0, FALSE, FALSE), Entry(1, 0, TRUE, FALSE), Entry(2, 1, TRUE, FALSE)>>) :
        x \in Values, y \in Values, pc \in {16}}

Fields == {<<1, 2, 3>>, <<1, 1, 2>>, <<0, 2, 0>>, <<1, 2, 1>>}
Extra(op) ==
    CASE op \in {"J", "JAL"} -> 0..3
      [] op \in ShiftOps     -> {0, 1, 5, 7}
      [] op \in RdOps \cup ShiftVOps \cup HiLoOps \cup TrapOps \cup {"JR", "JALR"} -> {0}
      [] OTHER               -> {0, 1, 7, 248, 255}
Instructions ==
    UNION {{[op |-> op, rs |-> f[1], rt |-> f[2], rd |-> f[3], extra |-> e] : f \in Fields, e \in Extra(op)}
           : op \in OpCodes}
InMemory(m, i) ==
    i.op \in LoadOps \cup StoreOps \cup UnalignedOps
        => Wrap(m.r[i.rs] + i.extra) \in MemOffset..(MemOffset + MemorySize - 4)
TryInstruction == Try("instruction", [m : Machines, i : Instructions])
TryInterpreter == Try("interpreter", {x \in [m : BinMachines, i : Instructions] : InMemory(x.m, x.i)})

Accesses == [addr : {0, 3, 4, 15, 16, 18, 20, 32, 48, 64}, size : {1, 2, 4}, writing : BOOLEAN]
TryAccesses == Try("accesses", Accesses \X Accesses)
TryTlb == Try("tlb", [access : Accesses, cached : {<<>>, <<Table[1]>>, <<Table[2], Table[1]>>, <<Table[4], Table[3]>>},
                      stale : {Entry(v, p, TRUE, FALSE) : v \in 0..3, p \in 0..1}])

\* Every operation code, every function of SPECIAL and every BCOND.
Words ==
    [op : 2..63, rs : {0, 21}, rt : {0, 10}, rd : {0, 31}, shamt : {3}, funct : {0, 63}]
    \cup [op : {0}, rs : {21}, rt : {10}, rd : {31}, shamt : {0, 31}, funct : 0..63]
    \cup [op : {1}, rs : {21}, rt : 0..31, rd : {0, 31}, shamt : {3}, funct : {1}]
TryWord == Try("word", Words)
TryLog == Try("log", Word)

-----------------------------------------------------------------------------
(* Files, disks and programs                                               *)

DiskFull == [s \in 0..4 |-> [k \in 1..SectorSize |-> 10 * s + k]]
Files == {NewOpenFile(length, <<3, 1, 4>>) : length \in 0..(3 * SectorSize)}
TryFile == Try("file", [f : Files, n : 0..(2 * SectorSize + 2), position : 0..(3 * SectorSize + 1)])
Bytes(n) == [k \in 1..n |-> 100 + k]
TryChunks == Try("chunks", [f : Files, n : 0..4])

TryDisk == Try("disk", [first : 0..8, at : 0..5, write1 : BOOLEAN, second : 0..8, wait : 0..5, write2 : BOOLEAN])

Section(name, paddr, size, has) ==
    [name |-> name, paddr |-> paddr, size |-> size, data |-> [k \in 1..has |-> 1 + ((k + paddr) % 3)]]
\* Sections that follow one another, as test/script links them, with one or two
\* of uninitialised data, which may lie apart; a file may be short, have a wrong
\* magic number or a section no converter knows.
Linked3(t, d, b, names, short) ==
    <<Section(".text", 0, t, t), Section(names[1], t, d, IF short /\ d > 0 THEN d - 1 ELSE d),
      Section(names[2], t + d, b[1], 0), Section(names[3], t + d + b[1] + b[2], b[3], 0)>>
Coffs ==
    {[f_magic |-> magic, magic |-> "OMAGIC", sections |-> Linked3(t, d, b, names, short)] :
        magic \in {"MIPSELMAGIC", "other"}, t \in {0, 5, 14}, d \in {0, 3, 18}, short \in BOOLEAN,
        b \in {<<0, 0, 0>>, <<2, 0, 0>>, <<0, 0, 7>>, <<2, 0, 2>>, <<2, 3, 2>>},
        names \in {<<".data", ".bss", ".bss">>, <<".rdata", ".sbss", ".bss">>, <<".sdata", ".bss", ".sbss">>}}
    \cup {[f_magic |-> "MIPSELMAGIC", magic |-> "OMAGIC",
           sections |-> <<Section(".text", 0, 5, 5), Section(".rdata", 5, d, d), Section(".data", 5 + d, 6, 6)>>] :
              d \in {0, 2}}
TryProgram == Try("program", [coff : Coffs, free : {<<0, 1>>, <<1, 0>>, <<1>>}])

\* The kernels of the Makefiles (threads, userprog and vm, filesys, network), the
\* elevator's, one of filesys without THREADS, and lines of up to three options.
UserProg == {"USER_PROGRAM", "FILESYS_NEEDED"}
Kernels == {{"THREADS"}, {"THREADS", "HW1_ELEVATOR"}, UserProg, {"THREADS", "FILESYS"} \cup UserProg, {"FILESYS"} \cup UserProg,
            {"FILESYS", "NETWORK"} \cup UserProg}
Options ==
    {<<"-d", "+">>, <<"-rs", "7">>, <<"-s">>, <<"-f">>, <<"-x", "prog">>, <<"-x", NoFile>>, <<"-c", "in", "out">>,
     <<"-cp", "a", "b">>, <<"-p", "b">>, <<"-p", "-t">>, <<"-r", "b">>, <<"-l">>, <<"-D">>, <<"-t">>,
     <<"-m", "1">>, <<"-n", "0">>, <<"-o", "0">>, <<"-z">>}
TryLine == Try("line", [kernel : Kernels, options : UNION {[1..n -> Options] : n \in 0..3}])

-----------------------------------------------------------------------------
(* Lists and stacks                                                        *)

Items == {1, 2}
Keys == 0..2
NewList == Try("list", {[l |-> EmptyList, seq |-> <<>>, result |-> 0, expected |-> 0]})
ListStep(l, seq, result, expected) ==
    given' = [l |-> l, seq |-> seq, result |-> result, expected |-> expected]
ListGrows ==
    /\ probe = "list" /\ UNCHANGED probe /\ Len(given.seq) < MaxElements
    /\ \E x \in Items, key \in Keys :
         \/ ListStep(ListAppend(given.l, x), Append(given.seq, Entry2(x, 0)), 0, 0)
         \/ ListStep(ListPrepend(given.l, x), <<Entry2(x, 0)>> \o given.seq, 0, 0)
         \/ ListStep(SortedInsert(given.l, x, key), InsertSorted(given.seq, x, key), 0, 0)
ListShrinks ==
    /\ probe = "list" /\ UNCHANGED probe
    /\ \/ LET r == SortedRemove(given.l) IN
          ListStep(r.l, IF given.seq = <<>> THEN <<>> ELSE Tail(given.seq), <<r.item, r.key>>,
                   IF given.seq = <<>> THEN <<NULL, NULL>> ELSE <<Head(given.seq).item, Head(given.seq).key>>)
       \/ \E x \in Items :
          LET r == RemoveItem(given.l, x) IN
          ListStep(r.l, WithoutFirst(given.seq, x), r.result,
                   IF \E k \in DOMAIN given.seq : given.seq[k].item = x THEN 0 ELSE -1)

NewStacks == Try("stack", {[s |-> NewArrayStack(MaxElements), l |-> EmptyList, seq |-> <<>>]})
StackPush ==
    /\ probe = "stack" /\ UNCHANGED probe /\ Len(given.seq) < MaxElements
    /\ \E x \in Items :
         given' = [s |-> Push(given.s, x), l |-> ListPush(given.l, x), seq |-> <<x>> \o given.seq]
StackPop ==
    /\ probe = "stack" /\ UNCHANGED probe /\ given.seq # <<>>
    /\ given' = [s |-> Pop(given.s).s, l |-> ListPop(given.l).s, seq |-> Tail(given.seq)]

Next ==
    \/ TryInstruction \/ TryInterpreter \/ TryAccesses \/ TryTlb \/ TryWord \/ TryLog
    \/ TryFile \/ TryChunks \/ TryDisk \/ TryProgram \/ TryLine
    \/ NewList \/ ListGrows \/ ListShrinks \/ NewStacks \/ StackPush \/ StackPop
Spec == Init /\ [][Next]_<<probe, given>>

-----------------------------------------------------------------------------
(* Properties                                                              *)

\* Whatever the registers, the load under way and the page table, OneInstruction
\* of mipssim.cc leaves the machine as the R2000 would: exceptions are precise
\* and restartable, branches and loads delayed, overflow and sign exact - but
\* for the deviations listed in MipsSim.
SimulatorIsR2000 ==
    probe = "instruction" =>
        OneInstruction(given.m, given.i) = R2000Step(given.m, given.i) \/ KnownDeviation(given.m, given.i)

\* The interpreter of bin/execute.c computes the same results, after the load
\* delay, but for the shortcuts listed in BinSim and HI after a multiplication.
InterpreterIsR2000 ==
    probe = "interpreter" =>
        Shortcut(given.m, given.i, R2000Step(given.m, given.i), RunInstruction(given.m, given.i))

\* Translate of translate.cc with a TLB goes where the page table says, or faults.
TlbOnlyCaches ==
    probe = "tlb" => TlbIsCache(Table, given.cached, given.stale,
                                given.access.addr, given.access.size, given.access.writing)

\* The use and dirty bits Translate sets tell which pages were used and changed.
UseAndDirtyExact == probe = "accesses" => BitsAreExact(Table, given)

\* Decode of mipssim.cc, execute.c and opstrings.c read a word alike.
WordsDecodeAlike == probe = "word" => DecodersAgree(given)

\* The traces of mipssim.h and d.c show the registers an instruction works on.
TracesNameRegisters == probe = "word" => TracesShowOperands(given)

\* ilog2 of execute.c is the number of bits of its argument; the table in the
\* comment above it (execute.c:434-445) says one less from 2 on, but for 3 and 7.
LogIsBitLength == probe = "log" => ilog2(given) = Cardinality({k \in 0..(WordBits - 1) : 2^k <= given})

\* The interpreter, the disassembler and the traces know the instruction set that
\* mipssim.cc executes, with its operands and its results.
ToolsMatchR2000 == InterpreterIsR2000 /\ WordsDecodeAlike /\ TracesNameRegisters /\ LogIsBitLength

\* Memory references of user programs go where the page table says, and leave a
\* record of it.
TranslationExact == TlbOnlyCaches /\ UseAndDirtyExact

\* OpenFile::WriteAt and ReadAt, at any offset of any file.
FileBytesExact ==
    probe = "file" => WriteChangesItsBytesOnly(DiskFull, given.f, Bytes(given.n), given.position)

\* Copy, Print and PerformanceTest of fstest.cc on top of them.
FileChunksAddUp ==
    probe = "chunks" =>
        /\ given.n = given.f.length => ChunksAddUp(DiskFull, given.f, Bytes(given.n))
        /\ given.n # 0 => PerformanceExact(DiskFull, given.f, Bytes(given.n))

\* A file is an array of bytes, whatever the sectors below and the chunks above:
\* reads and writes take exactly their bytes, and neighbours stay.
FilesAreByteArrays == FileBytesExact /\ FileChunksAddUp

\* The state of the head after a first request, and the time of a second.
Head1 == UpdateLast(Head0, given.at, given.first)
Done1 == given.at + ComputeLatency(Head0, given.at, given.first, given.write1) + given.wait

\* ComputeLatency of disk.cc is the time the platter takes to bring the sector
\* under the head, for two requests one after the other.
DiskTurnsEvenly ==
    probe = "disk" => /\ LatencyIsRotation(Head0, given.at, given.first, given.write1)
                      /\ LatencyIsRotation(Head1, Done1, given.second, given.write2)

\* What ComputeLatency calls buffered has passed under the head since the last
\* seek: the track buffer never returns a sector of another track.
TrackBufferHolds ==
    probe = "disk" =>
        BufferHoldsSector(Head1, IF given.first < SectorsPerTrack THEN 0
                                 ELSE given.at + TimeToSeek(Head0, given.at, given.first).seek,
                          Done1, given.second, given.write2)

\* The disk's timing is that of a turning platter with a track buffer.
DiskTimingExact == DiskTurnsEvenly /\ TrackBufferHolds

\* A converted program is loaded as it was linked (coff2noff.c, addrspace.cc).
KernelLoads == probe = "program" => ProgramIsLoaded(given.coff, Memory, given.free)

\* coff2flat.c, bin/main.c and bin/disasm.c see the same program.
LoadersSeeTheSame == probe = "program" => LoadersAgree(given.coff)

\* However a program gets into memory, it is the program that was linked.
ProgramsLoad == KernelLoads /\ LoadersSeeTheSame

\* Initialize and main, which read the command line one after the other, each
\* knowing only its own flags, set and run what the options of main.cc's usage
\* ask for, in order and with their operands, but for four cases: -l in a network
\* kernel, -n, which no loop reads, commands in a kernel with THREADS, whose first
\* loop eats the line, and commands in the elevator's kernel, which never gets to
\* them.
OptionsTakeEffect ==
    probe = "line" => SettingsAsGiven(given.kernel, given.options) /\ CommandsInOrder(given.kernel, given.options)

\* Initialize creates nothing before what its creation uses (system.cc).
CreatedBeforeUsed ==
    probe = "line" => InOrder(given.kernel, Settings(given.kernel, LineOf(given.options)))

\* The kernel that starts is the one the command line asks for, and is put
\* together in an order in which every part finds what it needs.
StartupExact == OptionsTakeEffect /\ CreatedBeforeUsed

\* The pointers of list.cc always form the sequence, and every removal returns
\* what it removed.
PointersFormSequence ==
    probe = "list" => ListIsSequence(given.l, given.seq) /\ given.result = given.expected

\* The stacks of the C++ primer are last-in first-out, also in SelfTest.
StacksAreStacks ==
    /\ probe = "stack" => StacksAgree(given.s, given.l, given.seq)
    /\ probe = "start" => SelfTestReverses(MaxElements, 17)

\* Lists and stacks are sequences, through any mixture of operations.
ListsAreSequences == PointersFormSequence /\ StacksAreStacks
=============================================================================
