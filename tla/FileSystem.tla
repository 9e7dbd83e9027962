----------------------------- MODULE FileSystem -----------------------------
(***************************************************************************)
(* filesys/filesys.cc with its directory, file headers and bitmap, at the  *)
(* level of sector writes.  An operation reads what it needs, changes its  *)
(* copies in memory, and then writes them back sector by sector; Nachos    *)
(* may stop between any two of these writes.                               *)
(*                                                                         *)
(* filesys.cc assumes that there is no concurrent access, so an operation  *)
(* starts when the one before it has written its last sector.  Clients     *)
(* keep below MaxFileSize.                                                 *)
(*                                                                         *)
(* Nothing in the code checks that what it reads as a file's header is     *)
(* one.  An operation that changes the disk by something else may change   *)
(* any sector of it: from then on the run is astray, nothing is known of   *)
(* the disk, and only formatting it makes it known again.                  *)
(*                                                                         *)
(* The directory file takes two sectors, and the entry numbered Split lies *)
(* across their boundary: its inUse and sector are the last bytes of the   *)
(* first, its name begins the second (ten entries of 20 bytes, sectors of  *)
(* 128 bytes: entry 6).                                                    *)
(***************************************************************************)
EXTENDS Integers, Sequences, FiniteSets, FiniteSetsExt, SequencesExt

CONSTANTS
    NumSectors, SectorSize, NumDirEntries,
    Split,      \* the directory entry that lies across two sectors
    Name, NoName,
    FileSize,   \* the initial sizes, in bytes, clients ask for
    Value,      \* what clients write into a sector
    MaxHandles  \* bound on the number of open files

ASSUME FileSystemAssumption ==
    /\ NumSectors \in Nat /\ NumSectors >= 5
    /\ SectorSize \in Nat \ {0}
    /\ NumDirEntries \in Nat \ {0} /\ Split \in 1..NumDirEntries
    /\ FileSize \subseteq Nat /\ MaxHandles \in Nat

Sector == 0..(NumSectors - 1)
FreeMapSector   == 0
DirectorySector == 1

VARIABLES
    disk,     \* what each sector holds
    up,       \* Nachos is running
    freeMapFile, directoryFile, \* the headers of the two files kept open
    pending,  \* the sector writes the current operation has still to do
    op,       \* the operation under way, or the one a crash interrupted
    handles,  \* the OpenFile objects of the clients
    written,  \* history: what clients wrote into each block of each file
    damaged,  \* history: Nachos was started on a disk a crash had left inconsistent, or a
              \* client wrote to a file after removing it, and formatting has not been
              \* completed since
    astray    \* history: the disk was changed by what was no header, bitmap or directory,
              \* and formatting has not been completed since

vars == <<disk, up, freeMapFile, directoryFile, pending, op, handles, written, damaged, astray>>

Idle == [kind |-> "idle", name |-> NoName, slot |-> 0]
Junk == [kind |-> "junk"]   \* what an unknown sector holds
Unknown == [s \in Sector |-> Junk]

divRoundUp(n, s) == n \div s + (IF n % s > 0 THEN 1 ELSE 0)

-----------------------------------------------------------------------------
(* FileHeader and BitMap; a bitmap is the set of the bits that are on.     *)

NewMap == {}
Mark(map, which) == map \cup {which}
Clear(map, which) == map \ {which}
NumClear(map) == Cardinality(Sector \ map)
FindClear(map) == IF NumClear(map) = 0 THEN -1 ELSE Min(Sector \ map)

\* FileHeader::Allocate: FALSE if there are too few clear bits, otherwise the
\* lowest clear bits, one Find after the other.
CanAllocate(map, fileSize) == NumClear(map) >= divRoundUp(fileSize, SectorSize)
\* Mutant of Allocate: a Find that does not mark what it returns.
AllocateUnmarked(map, fileSize) ==
    [kind |-> "hdr", numBytes |-> fileSize,
     dataSectors |-> [i \in 1..divRoundUp(fileSize, SectorSize) |-> Min(Sector \ map)]]
Allocate(map, fileSize) ==
    [kind |-> "hdr", numBytes |-> fileSize,
     dataSectors |-> [i \in 1..divRoundUp(fileSize, SectorSize) |->
         CHOOSE s \in Sector \ map : Cardinality({t \in Sector \ map : t < s}) = i - 1]]

DataSectors(hdr) == ToSet(hdr.dataSectors)

-----------------------------------------------------------------------------
(* Directory                                                               *)

EmptyTable == [i \in 1..NumDirEntries |-> [inUse |-> FALSE, sector |-> 0, name |-> NoName]]

FindIndex(table, name) == {i \in DOMAIN table : table[i].inUse /\ table[i].name = name}
Find(table, name) ==
    IF FindIndex(table, name) = {} THEN -1 ELSE table[Min(FindIndex(table, name))].sector

\* The slots Add may use; it takes the first.  Remove keeps name and sector.
FreeSlots(table) == {i \in DOMAIN table : ~table[i].inUse}

Add(table, name, newSector) ==
    [table EXCEPT ![Min(FreeSlots(table))] = [inUse |-> TRUE, sector |-> newSector, name |-> name]]
RemoveEntry(table, name) == [table EXCEPT ![Min(FindIndex(table, name))].inUse = FALSE]

\* Directory::FetchFrom: the two sectors of the directory file put together.
Fetch(d, dirHdr) ==
    LET first == d[dirHdr.dataSectors[1]].table  second == d[dirHdr.dataSectors[2]].table IN
    [i \in 1..NumDirEntries |->
        [inUse  |-> IF i <= Split THEN first[i].inUse ELSE second[i].inUse,
         sector |-> IF i <= Split THEN first[i].sector ELSE second[i].sector,
         name   |-> IF i < Split THEN first[i].name ELSE second[i].name]]

FetchMap(d, mapHdr) == d[mapHdr.dataSectors[1]].used

\* Directory::WriteBack and BitMap::WriteBack, as sector writes.
DirectoryWrites(dirHdr, table) ==
    [i \in 1..2 |-> [sector |-> dirHdr.dataSectors[i], content |-> [kind |-> "dir", table |-> table]]]
MapWrites(mapHdr, map) ==
    <<[sector |-> mapHdr.dataSectors[1], content |-> [kind |-> "map", used |-> map]]>>
HeaderWrites(sector, hdr) == <<[sector |-> sector, content |-> hdr]>>

table   == Fetch(disk, directoryFile)
freeMap == FetchMap(disk, freeMapFile)

-----------------------------------------------------------------------------
FSInit ==
    /\ disk = Unknown
    /\ up = FALSE
    /\ freeMapFile = Junk /\ directoryFile = Junk
    /\ pending = << >>
    /\ op = [Idle EXCEPT !.kind = "format"]
    /\ handles = {}
    /\ written = [n \in Name |-> << >>]
    /\ damaged = FALSE /\ astray = FALSE

\* The sizes of the two files: one sector for the bitmap (1024 bits), two for
\* the directory (ten entries of 20 bytes).
FreeMapFileSize   == SectorSize
DirectoryFileSize == 2 * SectorSize

\* The headers' own sectors, marked first.  Mutant: the directory's is forgotten.
HeaderSectorsForgotten == Mark(NewMap, FreeMapSector)
HeaderSectorsMarked == Mark(Mark(NewMap, FreeMapSector), DirectorySector)

\* FileSystem(TRUE): both headers, the bitmap and the empty directory.
Format ==
    LET marked == HeaderSectorsMarked
        mapHdr == Allocate(marked, FreeMapFileSize)
        dirHdr == Allocate(marked \cup DataSectors(mapHdr), DirectoryFileSize)
        map    == marked \cup DataSectors(mapHdr) \cup DataSectors(dirHdr)
    IN  /\ ~up
        /\ up' = TRUE
        /\ freeMapFile' = mapHdr /\ directoryFile' = dirHdr
        /\ pending' = HeaderWrites(FreeMapSector, mapHdr) \o HeaderWrites(DirectorySector, dirHdr)
                         \o MapWrites(mapHdr, map) \o DirectoryWrites(dirHdr, EmptyTable)
        /\ op' = [Idle EXCEPT !.kind = "format"]
        /\ UNCHANGED <<disk, handles, written, damaged, astray>>

SystemSectors(mapHdr, dirHdr) ==
    {FreeMapSector, DirectorySector} \cup DataSectors(mapHdr) \cup DataSectors(dirHdr)

\* The sectors of the file whose header the directory says is in sector s.
FileSectors(d, s) == {s} \cup (IF d[s].kind = "hdr" THEN DataSectors(d[s]) ELSE {})

InUse(t) == {i \in DOMAIN t : t[i].inUse}

\* Headers, bitmap and directory of the system are where they should be.
Mountable(d) ==
    /\ \A s \in {FreeMapSector, DirectorySector} : d[s].kind = "hdr"
    /\ d[d[FreeMapSector].dataSectors[1]].kind = "map"
    /\ \A s \in DataSectors(d[DirectorySector]) : d[s].kind = "dir"

\* The on-disk structures agree: every in-use entry names a header, files own
\* their sectors alone, names are unique, and the bitmap marks exactly what is
\* owned.
Consistent(d) ==
    /\ Mountable(d)
    /\ LET mapHdr == d[FreeMapSector]  dirHdr == d[DirectorySector]
           t == Fetch(d, dirHdr)  system == SystemSectors(mapHdr, dirHdr)
       IN
       /\ \A i \in InUse(t) : d[t[i].sector].kind = "hdr"
       /\ \A i, j \in InUse(t) : i # j =>
             /\ t[i].name # t[j].name
             /\ FileSectors(d, t[i].sector) \cap FileSectors(d, t[j].sector) = {}
       /\ \A i \in InUse(t) : FileSectors(d, t[i].sector) \cap system = {}
       /\ FetchMap(d, mapHdr) = system \cup UNION {FileSectors(d, t[i].sector) : i \in InUse(t)}

\* The history is kept for the files the directory names.
ForgetAbsent(d, dirHdr) ==
    [n \in Name |-> IF Find(Fetch(d, dirHdr), n) = -1 THEN << >> ELSE written[n]]

\* FileSystem(FALSE): open the two files, whatever state the last run left the
\* disk in.  If formatting was cut short before they existed the run is astray.
Restart ==
    /\ ~up
    /\ up' = TRUE
    /\ freeMapFile' = disk[FreeMapSector] /\ directoryFile' = disk[DirectorySector]
    /\ op' = Idle
    /\ damaged' = (damaged \/ ~Consistent(disk))
    /\ \/ /\ Mountable(disk)
          /\ written' = ForgetAbsent(disk, disk[DirectorySector])
          /\ UNCHANGED <<disk, astray>>
       \/ /\ ~Mountable(disk)
          /\ disk' = Unknown /\ astray' = TRUE
          /\ UNCHANGED written
    /\ UNCHANGED <<pending, handles>>

\* The next sector reaches the disk (SynchDisk::WriteSector).
WriteSector ==
    /\ up /\ pending # << >>
    /\ disk' = [disk EXCEPT ![Head(pending).sector] = Head(pending).content]
    /\ pending' = Tail(pending)
    /\ op' = IF Len(pending) = 1 THEN Idle ELSE op
    /\ written' = IF Len(pending) = 1 THEN ForgetAbsent(disk', directoryFile) ELSE written
    /\ damaged' = (damaged /\ ~(Len(pending) = 1 /\ op.kind = "format"))
    /\ astray' = (astray /\ ~(Len(pending) = 1 /\ op.kind = "format"))
    /\ UNCHANGED <<up, freeMapFile, directoryFile, handles>>

\* Nachos exits; memory is lost, the disk stays.
Crash ==
    /\ up
    /\ up' = FALSE
    /\ pending' = << >>
    /\ handles' = {}
    /\ UNCHANGED <<disk, freeMapFile, directoryFile, op, written, damaged, astray>>

Ready == up /\ pending = << >>
Known == Ready /\ ~astray

\* A change of the disk by what was taken for a header: any sector may be hit.
GoAstray == disk' = Unknown /\ astray' = TRUE

-----------------------------------------------------------------------------
(* Create, Remove, Open and the clients' use of an open file               *)

\* The sectors Create writes, in their order.  Mutant: the bitmap before the
\* directory.
CreateWritesMapFirst(sector, hdr, t, map) ==
    HeaderWrites(sector, hdr) \o MapWrites(freeMapFile, map) \o DirectoryWrites(directoryFile, t)
CreateWrites(sector, hdr, t, map) ==
    HeaderWrites(sector, hdr) \o DirectoryWrites(directoryFile, t) \o MapWrites(freeMapFile, map)

\* The changes a Create that succeeds makes to its copies, and writes back.
CreateFile(name, size) ==
    LET sector == FindClear(freeMap)
        hdr    == Allocate(Mark(freeMap, sector), size)
    IN  /\ pending' = CreateWrites(sector, hdr, Add(table, name, sector),
                                   Mark(freeMap, sector) \cup DataSectors(hdr))
        /\ op' = [kind |-> "create", name |-> name, slot |-> Min(FreeSlots(table))]

\* Create's conditions, in its order: the name is new, there is a sector for
\* the header, an entry in the directory, and space for the data.  Mutant: the
\* name is not looked up.
CanCreateTwice(name, size) ==
    /\ FindClear(freeMap) # -1 /\ FreeSlots(table) # {}
    /\ CanAllocate(Mark(freeMap, FindClear(freeMap)), size)
CanCreate(name, size) ==
    /\ Find(table, name) = -1
    /\ FindClear(freeMap) # -1
    /\ FreeSlots(table) # {}
    /\ CanAllocate(Mark(freeMap, FindClear(freeMap)), size)

\* A Create that returns FALSE discards its copies and changes nothing.
Create(name, size) ==
    /\ Known /\ CanCreate(name, size)
    /\ CreateFile(name, size)
    /\ written' = [written EXCEPT ![name] =
                      [i \in 1..divRoundUp(size, SectorSize) |-> NoName]]
    /\ UNCHANGED <<disk, up, freeMapFile, directoryFile, handles, damaged, astray>>

Deallocate(map, hdr) == map \ DataSectors(hdr)
RemoveWrites(t, map) == MapWrites(freeMapFile, map) \o DirectoryWrites(directoryFile, t)

\* The ASSERT in Deallocate wants the data sectors marked; to fail it is to Crash.
RemoveFile(name) ==
    LET sector == Find(table, name) IN
    /\ Known /\ sector # -1
    /\ disk[sector].kind = "hdr" /\ DataSectors(disk[sector]) \subseteq freeMap
    /\ pending' = RemoveWrites(RemoveEntry(table, name),
                               Clear(Deallocate(freeMap, disk[sector]), sector))
    /\ op' = [kind |-> "remove", name |-> name, slot |-> Min(FindIndex(table, name))]
    /\ UNCHANGED <<disk, up, freeMapFile, directoryFile, handles, written, damaged, astray>>

\* Remove fetches the header from the entry's sector whatever that holds: on a
\* damaged disk it may free any sectors, those of the bitmap among them.
RemoveMisread(name) ==
    /\ Known /\ Find(table, name) # -1
    /\ disk[Find(table, name)].kind # "hdr"
    /\ GoAstray
    /\ UNCHANGED <<up, freeMapFile, directoryFile, pending, op, handles, written, damaged>>

\* Open fetches the header likewise, and keeps what it gets.
Open(name) ==
    LET sector == Find(table, name) IN
    /\ Known /\ sector # -1 /\ Cardinality(handles) < MaxHandles
    /\ handles' = handles \cup {[name |-> name, hdr |-> disk[sector]]}
    /\ UNCHANGED <<disk, up, freeMapFile, directoryFile, pending, op, written, damaged, astray>>

Close(h) ==
    /\ up
    /\ handles' = handles \ {h}
    /\ UNCHANGED <<disk, up, freeMapFile, directoryFile, pending, op, written, damaged, astray>>

\* The file a handle was opened on is still in the directory.
Current(h) == \E i \in InUse(table) : table[i].name = h.name /\ disk[table[i].sector] = h.hdr

\* A client writes block i of an open file, from its header in memory, also if
\* the file has been removed and its sectors given to another.
WriteBlock(h, i, v) ==
    /\ Known
    /\ disk' = [disk EXCEPT ![h.hdr.dataSectors[i]] = [kind |-> "data", value |-> v]]
    /\ damaged' = (damaged \/ ~Current(h))
    /\ written' = IF damaged' THEN written ELSE [written EXCEPT ![h.name][i] = v]
    /\ UNCHANGED <<up, freeMapFile, directoryFile, pending, op, handles, astray>>

\* A client writes to a file that Open read no header of.
WriteMisread(h) ==
    /\ Known /\ h.hdr.kind # "hdr"
    /\ GoAstray
    /\ UNCHANGED <<up, freeMapFile, directoryFile, pending, op, handles, written, damaged>>

Blocks(hdr) == IF hdr.kind = "hdr" THEN DOMAIN hdr.dataSectors ELSE {}

FSNext ==
    \/ Format \/ Restart \/ WriteSector \/ Crash
    \/ \E n \in Name : RemoveFile(n) \/ RemoveMisread(n) \/ Open(n) \/ \E s \in FileSize : Create(n, s)
    \/ \E h \in handles : Close(h) \/ WriteMisread(h)
    \/ \E h \in handles : \E i \in Blocks(h.hdr), v \in Value : WriteBlock(h, i, v)

FSSpec == FSInit /\ [][FSNext]_vars

-----------------------------------------------------------------------------
(* Properties                                                              *)

FSTypeOK ==
    /\ up \in BOOLEAN
    /\ \A n \in DOMAIN pending : pending[n].sector \in Sector
    /\ op.kind \in {"idle", "format", "create", "remove"} /\ op.slot \in 0..NumDirEntries
    /\ Cardinality(handles) <= MaxHandles

\* Between operations, and after a stop between operations, the disk is consistent: bitmap,
\* directory and headers agree (filesys.cc, Create and Remove), so that the
\* ASSERT of Deallocate, every bit it clears is on, holds for every file.
ConsistentBetweenOperations == Ready /\ ~damaged => Consistent(disk)

Formatted == op.kind # "format" /\ ~damaged

\* The sectors that files on disk own, whoever looks at the directory now.
OwnedOnDisk == UNION {FileSectors(disk, table[i].sector) : i \in InUse(table)}

\* A stop in the middle of an operation never loses a sector: what the bitmap
\* marks is owned by the system or by a file in the directory, because Create
\* writes the bitmap last and Remove writes it first.
CrashLeaksNothing ==
    Formatted => freeMap \subseteq SystemSectors(freeMapFile, directoryFile) \cup OwnedOnDisk

\* A stop in the middle of an operation harms at most the file it is about:
\* every other file has its header, and its sectors are marked and its own.
CrashSparesOthers ==
    Formatted =>
        \A i \in InUse(table) \ {op.slot} :
            LET mine == FileSectors(disk, table[i].sector) IN
            /\ disk[table[i].sector].kind = "hdr"
            /\ mine \subseteq freeMap
            /\ \A j \in InUse(table) \ {i} : mine \cap FileSectors(disk, table[j].sector) = {}

\* A stop between any two sector writes of Create or Remove, then, costs at most
\* the file that was being created or removed: no sector and no other file.
CrashHarmsOneFile == CrashLeaksNothing /\ CrashSparesOthers

\* The blocks of a file hold what its clients last wrote there, whatever other
\* files were created, written and removed since.
DataIntact ==
    Ready /\ ~damaged => \A i \in InUse(table) :
        LET hdr == disk[table[i].sector]  w == written[table[i].name] IN
        \A k \in DOMAIN hdr.dataSectors \cap DOMAIN w :
            w[k] = NoName \/ disk[hdr.dataSectors[k]] = [kind |-> "data", value |-> w[k]]

\* No check repairs a disk that a stop left inconsistent, and its files may come
\* to share sectors; nor does one keep a client from writing to a file it has
\* removed.  The damage stays among the files as long as only headers are read
\* as headers: whatever was stopped, restarted, created, removed and written,
\* the bitmap and the directory are readable, marked as used, and no file in the
\* directory owns a sector of them.  And only on a damaged disk is anything but a
\* header read as one and the run astray.
SystemFilesSurvive ==
    /\ FSTypeOK
    /\ astray => damaged
    /\ Ready /\ ~astray =>
         LET system == SystemSectors(freeMapFile, directoryFile) IN
         /\ Mountable(disk)
         /\ system \subseteq freeMap
         /\ \A i \in InUse(table) : FileSectors(disk, table[i].sector) \cap system = {}
=============================================================================
