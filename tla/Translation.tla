---------------------------- MODULE Translation -----------------------------
(***************************************************************************)
(* machine/translate.cc: an address of a user program becomes an address   *)
(* of mainMemory, by a linear page table or by a TLB, and words and half   *)
(* words are read and written there, low byte first.  An mmu is the table  *)
(* in force, and whether it is a TLB.                                      *)
(***************************************************************************)
EXTENDS Integers, Sequences, FiniteSets, FiniteSetsExt

CONSTANTS
    PageSize, NumPhysPages,
    ByteBits   \* the width of a byte: 8 in the code

ASSUME TranslationAssumption ==
    PageSize \in Nat \ {0} /\ PageSize % 4 = 0 /\ NumPhysPages \in Nat \ {0} /\ ByteBits \in Nat \ {0}

MemorySize == NumPhysPages * PageSize
Byte == 0..(2^ByteBits - 1)

TranslationEntry ==
    [virtualPage : Nat, physicalPage : Nat, valid : BOOLEAN, readOnly : BOOLEAN,
     use : BOOLEAN, dirty : BOOLEAN]

\* The entry for page vpn: its index in the table, or the exception.
PageTableEntry(table, vpn) ==
    CASE vpn >= Len(table)        -> [exc |-> "AddressError", at |-> 0]
      [] vpn < Len(table)         -> [exc |-> IF table[vpn + 1].valid THEN "none" ELSE "PageFault",
                                      at |-> vpn + 1]

\* Mutant of TlbEntry: the valid bit is not looked at.
TlbEntryStale(table, vpn) ==
    LET hits == {i \in DOMAIN table : table[i].virtualPage = vpn} IN
    IF hits = {} THEN [exc |-> "PageFault", at |-> 0] ELSE [exc |-> "none", at |-> Min(hits)]
TlbEntry(table, vpn) ==
    LET hits == {i \in DOMAIN table : table[i].valid /\ table[i].virtualPage = vpn} IN
    IF hits = {} THEN [exc |-> "PageFault", at |-> 0] ELSE [exc |-> "none", at |-> Min(hits)]

\* The use and dirty bits.
Touch(mmu, at, writing) ==
    [mmu EXCEPT !.table[at].use = TRUE, !.table[at].dirty = @ \/ writing]

\* Machine::Translate: an exception, or the physical address and the mmu with
\* its bits set.
Translate(mmu, virtAddr, size, writing) ==
    LET vpn == virtAddr \div PageSize
        Fail(exc) == [exc |-> exc, phys |-> 0, mmu |-> mmu]
        Through(at, entry) ==
            IF entry.readOnly /\ writing THEN Fail("ReadOnly")
            ELSE IF entry.physicalPage >= NumPhysPages THEN Fail("BusError")
            ELSE [exc |-> "none", phys |-> entry.physicalPage * PageSize + (virtAddr % PageSize),
                  mmu |-> Touch(mmu, at, writing)]
        With(found) == IF found.exc # "none" THEN Fail(found.exc)
                       ELSE Through(found.at, mmu.table[found.at])
    IN  IF virtAddr % size # 0 THEN Fail("AddressError")
        ELSE With(IF mmu.isTlb THEN TlbEntry(mmu.table, vpn) ELSE PageTableEntry(mmu.table, vpn))

\* The size bytes at a physical address as a number, and back; the host is
\* little endian, so WordToHost and the others change nothing.
FromBytes(mem, phys, size) ==
    LET Weight(k) == mem[phys + k] * 2^(k * ByteBits) IN
    CASE size = 1 -> Weight(0)
      [] size = 2 -> Weight(0) + Weight(1)
      [] size = 4 -> Weight(0) + Weight(1) + Weight(2) + Weight(3)
ToBytes(mem, phys, size, value) ==
    [p \in DOMAIN mem |-> IF p \in phys..(phys + size - 1)
                          THEN (value \div 2^((p - phys) * ByteBits)) % 2^ByteBits ELSE mem[p]]

\* ReadMem and WriteMem of machine m, which has an mmu and mainMemory.
ReadMem(m, addr, size) ==
    LET After(t) == [exc |-> t.exc, m |-> [m EXCEPT !.mmu = t.mmu],
                     value |-> IF t.exc = "none" THEN FromBytes(m.mem, t.phys, size) ELSE 0]
    IN  After(Translate(m.mmu, addr, size, FALSE))
WriteMem(m, addr, size, value) ==
    LET After(t) == [exc |-> t.exc,
                     m |-> [m EXCEPT !.mmu = t.mmu,
                            !.mem = IF t.exc = "none" THEN ToBytes(m.mem, t.phys, size, value) ELSE @]]
    IN  After(Translate(m.mmu, addr, size, TRUE))

-----------------------------------------------------------------------------
(* Properties, of a page table and accesses                                *)

PageTable(table) == [isTlb |-> FALSE, table |-> table]
Tlb(table)       == [isTlb |-> TRUE, table |-> table]

\* A TLB that holds some entries of the page table, among them outdated ones
\* marked invalid, never changes where an access goes: it is translated as the
\* page table does, or faults (Translate: "really, this is a TLB fault").
TlbIsCache(table, cached, stale, addr, size, writing) ==
    LET tlb  == Tlb(<<[stale EXCEPT !.valid = FALSE]>> \o cached)
        hit  == Translate(tlb, addr, size, writing)
        full == Translate(PageTable(table), addr, size, writing)
    IN  /\ hit.exc # "none" => hit.exc \in {full.exc, "PageFault"}
        /\ hit.exc = "none" => full.exc = "none" /\ hit.phys = full.phys

\* After a sequence of accesses the bits tell exactly which pages were
\* referenced and which were modified by accesses that succeeded.
BitsAreExact(table, accesses) ==
    LET Do(k, mmu) == Translate(mmu, accesses[k].addr, accesses[k].size, accesses[k].writing)
        run[k \in 0..Len(accesses)] == IF k = 0 THEN PageTable(table) ELSE Do(k, run[k - 1]).mmu
        Page(k) == accesses[k].addr \div PageSize + 1
        good == {k \in DOMAIN accesses : Do(k, run[k - 1]).exc = "none"}
    IN  \A i \in DOMAIN table :
            /\ run[Len(accesses)].table[i].use = \E k \in good : Page(k) = i
            /\ run[Len(accesses)].table[i].dirty = \E k \in good : Page(k) = i /\ accesses[k].writing
=============================================================================
