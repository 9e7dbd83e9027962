-------------------------- MODULE FileSystemProofs --------------------------
(***************************************************************************)
(* The file system across creations, removals, stops and restarts, for a   *)
(* disk of any size, any directory, any files and any number of handles.   *)
(*                                                                         *)
(* What an operation has still to write is part of the argument: After is  *)
(* the disk with the pending writes done.  While Nachos is up and the disk *)
(* is not damaged After is consistent, and the disk differs from it only   *)
(* in the pending sectors and in the one directory entry under change.     *)
(* A disk a run went astray on is like one that has not been formatted.    *)
(***************************************************************************)
EXTENDS FileSystem, FiniteSetTheorems, SequenceTheorems, WellFoundedInduction, TLAPS

\* What formatting gives the bitmap file and the directory file.
MapHdr == Allocate(HeaderSectorsMarked, FreeMapFileSize)
DirHdr == Allocate(HeaderSectorsMarked \cup DataSectors(MapHdr), DirectoryFileSize)
MapSec == MapHdr.dataSectors[1]
DirSec1 == DirHdr.dataSectors[1]
DirSec2 == DirHdr.dataSectors[2]
System == {FreeMapSector, DirectorySector, MapSec, DirSec1, DirSec2}

\* The directory and the bitmap on disk d.
Tab(d) == Fetch(d, DirHdr)
Used(d) == FetchMap(d, MapHdr)
FileAt(d, i) == FileSectors(d, Tab(d)[i].sector)
Owned(d) == UNION {FileAt(d, i) : i \in InUse(Tab(d))}

-----------------------------------------------------------------------------
(* Types                                                                   *)

Entry   == [inUse : BOOLEAN, sector : Sector, name : Name \cup {NoName}]
Table   == [1..NumDirEntries -> Entry]
Header  == [kind : {"hdr"}, numBytes : Nat, dataSectors : Seq(Sector)]
Content == {Junk} \cup Header \cup [kind : {"map"}, used : SUBSET Sector]
              \cup [kind : {"dir"}, table : Table] \cup [kind : {"data"}, value : Value]
Write   == [sector : Sector, content : Content]

\* What sector s may hold: the system's sectors their part of it, once they are
\* written; any other sector no header of a file with a sector of the system,
\* with the header's own sector, or with the same sector twice.
GoodAt(s, c) ==
    /\ s = FreeMapSector => c \in {Junk, MapHdr}
    /\ s = DirectorySector => c \in {Junk, DirHdr}
    /\ s = MapSec => c = Junk \/ (c.kind = "map" /\ System \subseteq c.used)
    /\ s \in {DirSec1, DirSec2} =>
          \/ c = Junk
          \/ /\ c.kind = "dir"
             /\ \A i \in 1..NumDirEntries : c.table[i].inUse => c.table[i].sector \notin System
    /\ s \notin System /\ c.kind = "hdr" =>
          /\ \A k \in DOMAIN c.dataSectors : c.dataSectors[k] \notin System \cup {s}
          /\ \A k, l \in DOMAIN c.dataSectors : c.dataSectors[k] = c.dataSectors[l] => k = l

Kinds == {"idle", "format", "create", "remove"}

Operation == [kind : Kinds, name : Name \cup {NoName}, slot : 0..NumDirEntries]

FSTypes ==
    /\ up \in BOOLEAN /\ damaged \in BOOLEAN /\ astray \in BOOLEAN
    /\ disk \in [Sector -> Content]
    /\ pending \in Seq(Write)
    /\ op \in Operation
    /\ handles \in SUBSET [name : Name, hdr : Content]
    /\ IsFiniteSet(handles) /\ Cardinality(handles) <= MaxHandles
    /\ written = [n \in Name |-> written[n]]

-----------------------------------------------------------------------------
(* The disk with the pending writes done, and the order of these           *)

Flush(d, p) ==
    [s \in Sector |-> IF \E n \in DOMAIN p : p[n].sector = s
                      THEN p[CHOOSE n \in DOMAIN p : p[n].sector = s].content
                      ELSE d[s]]
After == Flush(disk, pending)

\* The sectors an operation writes, in their order; header is the sector of the
\* new file's header.
Order(kind, header) ==
    CASE kind = "format" -> <<FreeMapSector, DirectorySector, MapSec, DirSec1, DirSec2>>
      [] kind = "create" -> <<header, DirSec1, DirSec2, MapSec>>
      [] kind = "remove" -> <<MapSec, DirSec1, DirSec2>>
      [] OTHER -> << >>

\* p is what is left of the writes in the order o.
Remains(p, o) ==
    /\ Len(p) <= Len(o)
    /\ \A n \in 1..Len(p) : p[n].sector = o[n + Len(o) - Len(p)]

\* No sector is written twice.
Distinct(p) == \A m, n \in 1..Len(p) : p[m].sector = p[n].sector => m = n

\* The sectors of the system have been written.
Present(d) == \A s \in System : d[s] # Junk

GoodWrites(p) ==
    \A n \in 1..Len(p) : GoodAt(p[n].sector, p[n].content) /\ p[n].content # Junk

GoodDisk(d) == d \in [Sector -> Content] /\ \A s \in Sector : GoodAt(s, d[s])

FSBasics ==
    /\ GoodDisk(disk)
    /\ Distinct(pending)
    /\ GoodWrites(pending)
    /\ astray => op.kind \in {"format", "idle"}
    /\ (IF op.kind = "format" THEN up ELSE ~astray) => freeMapFile = MapHdr /\ directoryFile = DirHdr
    /\ ~up => pending = << >> /\ handles = {}
    /\ up => (pending = << >> <=> op = Idle)
    /\ op.kind = "idle" => op = Idle
    /\ op.kind # "format" /\ ~astray => Present(disk)
    /\ disk[DirSec2] # Junk => Present(disk)
    /\ \A h \in handles : \A k \in Blocks(h.hdr) : h.hdr.dataSectors[k] \notin System
    /\ up => Remains(pending, Order(op.kind, Tab(After)[op.slot].sector))
    /\ op.kind = "format" => handles = {}

\* A format that is under way will leave an empty file system.
Formatting ==
    up /\ op.kind = "format" =>
        /\ Present(After)
        /\ Used(After) = System
        /\ After[DirSec1].table = EmptyTable /\ After[DirSec2].table = EmptyTable

-----------------------------------------------------------------------------
(* Consistency, with the system's files where formatting puts them         *)

Agree(d) ==
    /\ \A i \in InUse(Tab(d)) : d[Tab(d)[i].sector].kind = "hdr" /\ FileAt(d, i) \cap System = {}
    /\ \A i, j \in InUse(Tab(d)) : i # j => /\ Tab(d)[i].name # Tab(d)[j].name
                                            /\ FileAt(d, i) \cap FileAt(d, j) = {}
    /\ Used(d) = System \cup Owned(d)

AfterAgrees ==
    /\ up /\ ~damaged => Agree(After)
    /\ op.kind = "idle" /\ ~damaged => Agree(disk)

\* On a disk that is not damaged only headers are read as headers.
HeadersRead ==
    /\ astray => damaged
    /\ up /\ ~damaged => \A h \in handles : h.hdr.kind = "hdr"

\* The directory on disk is the one to be written, but for the entry op.slot.
OthersWritten == \A i \in 1..NumDirEntries : i # op.slot => Tab(disk)[i] = Tab(After)[i]

Creating ==
    up /\ ~damaged /\ op.kind = "create" =>
        LET e == Tab(After)[op.slot] IN
        /\ op.slot \in 1..NumDirEntries
        /\ e.inUse /\ e.name = op.name /\ op.name \in Name
        /\ OthersWritten
        /\ Len(pending) >= 3 => ~Tab(disk)[op.slot].inUse
        /\ Tab(disk)[op.slot].inUse => Tab(disk)[op.slot].sector = e.sector
        /\ Used(disk) = Used(After) \ FileAt(After, op.slot)
        /\ \A k \in DOMAIN written[op.name] : written[op.name][k] = NoName

Removing ==
    up /\ ~damaged /\ op.kind = "remove" =>
        LET mine == FileAt(disk, op.slot) IN
        /\ op.slot \in 1..NumDirEntries
        /\ ~Tab(After)[op.slot].inUse
        /\ OthersWritten
        /\ Tab(disk)[op.slot].inUse => mine \cap Used(After) = {}
        /\ Len(pending) = 3 => Tab(disk)[op.slot].inUse /\ Used(disk) = Used(After) \cup mine

-----------------------------------------------------------------------------
(* The contents of the files                                               *)

\* The blocks of the file of entry i on disk d hold what w says of its name.
IntactAt(d, w, i) ==
    LET e == Tab(d)[i]  hdr == d[e.sector] IN
    /\ e.name \in Name /\ hdr.kind = "hdr"
    /\ \A k \in DOMAIN hdr.dataSectors \cap DOMAIN w[e.name] :
          w[e.name][k] = NoName \/ d[hdr.dataSectors[k]] = [kind |-> "data", value |-> w[e.name][k]]

\* A file that is not intact is one whose header is not marked: it is being
\* created, removed, or formatted away, and a start now counts as damaged.
IntactOrUnmarked ==
    ~damaged /\ Present(disk) =>
        \A i \in InUse(Tab(disk)) : IntactAt(disk, written, i) \/ Tab(disk)[i].sector \notin Used(disk)

\* The inductive invariant: what holds of every disk, what holds of a disk that
\* no stop has damaged, and the contents of the files.
FSBase == FSTypes /\ FSBasics /\ Formatting
Clean == AfterAgrees /\ HeadersRead /\ Creating /\ Removing
FSInv == FSBase /\ Clean /\ CrashHarmsOneFile /\ IntactOrUnmarked

-----------------------------------------------------------------------------
(* The bitmap and the allocation of sectors                                *)

\* Sectors are numbers, and there are finitely many of them.
LEMMA SectorFacts ==
    /\ Sector \in SUBSET Nat /\ -1 \notin Sector
    /\ IsFiniteSet(Sector) /\ Cardinality(Sector) = NumSectors
<1>1. Sector \in SUBSET Nat /\ -1 \notin Sector
  BY FileSystemAssumption DEF Sector
<1>2. IsFiniteSet(0..(NumSectors - 1)) /\ Cardinality(0..(NumSectors - 1)) = NumSectors
  BY FileSystemAssumption, FS_Interval
<1>. QED BY <1>1, <1>2 DEF Sector

\* What BitMap::Find and the loops over the directory return: the least.
LEMMA MinOf ==
  ASSUME NEW S \in SUBSET Nat, S # {}
  PROVE  Min(S) \in S /\ \A y \in S : Min(S) <= y
<1>. DEFINE Less == OpToRel(<, Nat)
<1>1. \E m \in S : \A i \in S : ~(<<i, m>> \in Less)
  BY NatLessThanWellFounded, WFMin
<1>2. Less = {ss \in Nat \X Nat : ss[1] < ss[2]}
  BY Zenon DEF OpToRel
<1>. HIDE DEF Less
<1>3. \A m, i \in Nat : i < m => <<i, m>> \in Less
  BY <1>2
<1>4. PICK m \in S : \A i \in S : ~(i < m)
  BY <1>1, <1>3
<1>5. \A i \in S : m <= i
  BY <1>4
<1>. QED BY <1>5 DEF Min

\* A set of numbers that has 0 and is closed under successor is Nat.
LEMMA CountUp ==
  ASSUME NEW P \in SUBSET Nat, 0 \in P, \A n \in P : n + 1 \in P
  PROVE  \A n \in Nat : n \in P
<1>1. SUFFICES ASSUME Nat \ P # {} PROVE FALSE
  OBVIOUS
<1>. DEFINE m == Min(Nat \ P)
<1>2. m \in Nat \ P /\ \A y \in Nat \ P : m <= y
  BY <1>1, MinOf
<1>. HIDE DEF m
<1>3. m - 1 \in Nat /\ ~(m <= m - 1)
  BY <1>2
<1>4. (m - 1) + 1 \in P
  BY <1>2, <1>3
<1>. QED BY <1>2, <1>4

\* A finite set of numbers has an element with k smaller ones, for each k below
\* its cardinality: the bit that the Find after k others returns.
LEMMA RankExists ==
  ASSUME NEW S \in SUBSET Nat, IsFiniteSet(S)
  PROVE  \A k \in Nat : k < Cardinality(S) => \E s \in S : Cardinality({t \in S : t < s}) = k
<1>. DEFINE Below(s) == {t \in S : t < s}
            P == {k \in Nat : k < Cardinality(S) => \E s \in S : Cardinality(Below(s)) = k}
<1>0. Cardinality(S) \in Nat
  BY FS_CardinalityType
<1>1. 0 \in P
  <2>1. SUFFICES ASSUME 0 < Cardinality(S) PROVE \E s \in S : Cardinality(Below(s)) = 0
    OBVIOUS
  <2>2. S # {}
    BY <2>1, FS_EmptySet
  <2>3. Below(Min(S)) = {}
    <3>. DEFINE m == Min(S)
    <3>1. m \in S /\ \A y \in S : m <= y
      BY <2>2, MinOf
    <3>. HIDE DEF m
    <3>2. \A y \in S : ~(y < m)
      BY <3>1
    <3>. QED BY <3>2 DEF m
  <2>. QED BY <2>2, <2>3, MinOf, FS_EmptySet
<1>2. ASSUME NEW k \in P PROVE k + 1 \in P
  <2>1. SUFFICES ASSUME k + 1 < Cardinality(S) PROVE \E s \in S : Cardinality(Below(s)) = k + 1
    OBVIOUS
  <2>2. PICK s \in S : Cardinality(Below(s)) = k
    BY <1>0, <2>1
  <2>3. IsFiniteSet(Below(s))
    BY FS_Subset
  <2>. DEFINE B == Below(s) \cup {s}  Above == S \ B
  <2>4. s \notin Below(s)
    OBVIOUS
  <2>. HIDE DEF Below
  <2>5. IsFiniteSet(B) /\ Cardinality(B) = k + 1
    BY <2>2, <2>3, <2>4, FS_AddElement
  <2>6. B # S
    BY <1>0, <2>1, <2>5
  <2>7. B \subseteq S
    BY DEF Below
  <2>8. Above # {} /\ Above \in SUBSET Nat
    BY <2>6, <2>7
  <2>. DEFINE m == Min(Above)
  <2>9. m \in Above /\ \A y \in Above : m <= y
    BY <2>8, MinOf
  <2>. HIDE DEF m
  <2>10. Below(m) = B
    <3>1. m \in S /\ s < m
      BY <2>9 DEF Below
    <3>2. ASSUME NEW t \in S PROVE t < m <=> t \in B
      BY <2>9, <3>1 DEF Below
    <3>. QED BY <2>7, <3>2 DEF Below
  <2>. QED BY <2>5, <2>9, <2>10
<1>. HIDE DEF P
<1>3. \A k \in Nat : k \in P
  <2>1. P \in SUBSET Nat
    BY DEF P
  <2>. QED BY <1>1, <1>2, <2>1, CountUp
<1>. QED BY <1>3 DEF P

\* The number of sectors of a file is a number.
LEMMA DivRoundUpNat == \A n \in Nat : divRoundUp(n, SectorSize) \in Nat
BY FileSystemAssumption DEF divRoundUp

\* FileHeader::Allocate takes different clear sectors.
LEMMA AllocateFacts ==
  ASSUME NEW map, NEW size \in Nat, CanAllocate(map, size)
  PROVE  LET h == Allocate(map, size)  n == divRoundUp(size, SectorSize) IN
         /\ h \in Header /\ h.kind = "hdr" /\ n \in Nat
         /\ DOMAIN h.dataSectors = 1..n
         /\ \A k \in 1..n : h.dataSectors[k] \in Sector \ map
         /\ \A k, l \in 1..n : h.dataSectors[k] = h.dataSectors[l] => k = l
<1>. DEFINE free == Sector \ map
            n == divRoundUp(size, SectorSize)
            h == Allocate(map, size)
            Rank(s) == Cardinality({t \in free : t < s})
            f == [i \in 1..n |-> CHOOSE s \in free : Rank(s) = i - 1]
<1>1. free \in SUBSET Nat /\ IsFiniteSet(free)
  <2>1. free \in SUBSET Sector
    OBVIOUS
  <2>. QED BY <2>1, SectorFacts, FS_Subset
<1>2. n \in Nat
  BY DivRoundUpNat
<1>3. Cardinality(free) \in Nat /\ Cardinality(free) >= n
  BY <1>1, FS_CardinalityType DEF CanAllocate, NumClear
<1>4. h = [kind |-> "hdr", numBytes |-> size, dataSectors |-> f]
  BY DEF Allocate
<1>. HIDE DEF h, n
<1>5. ASSUME NEW i \in 1..n PROVE f[i] \in free /\ Rank(f[i]) = i - 1
  <2>1. i - 1 \in Nat /\ i - 1 < Cardinality(free)
    BY <1>2, <1>3
  <2>2. \E s \in free : Rank(s) = i - 1
    BY <1>1, <2>1, RankExists
  <2>. QED BY <2>2
<1>. HIDE DEF f, Rank
<1>6. \A k, l \in 1..n : f[k] = f[l] => k = l
  BY <1>2, <1>5
<1>7. DOMAIN f = 1..n /\ f \in Seq(Sector)
  BY <1>2, <1>5 DEF f
<1>8. h \in Header /\ h.kind = "hdr" /\ h.dataSectors = f
  BY <1>4, <1>7 DEF Header
<1>. QED BY <1>2, <1>5, <1>6, <1>7, <1>8 DEF n, h

-----------------------------------------------------------------------------
(* Where formatting puts the system's files                                *)

\* One sector for the bitmap, two for the directory.
LEMMA SystemFileSizes ==
    /\ divRoundUp(FreeMapFileSize, SectorSize) = 1 /\ FreeMapFileSize \in Nat
    /\ divRoundUp(DirectoryFileSize, SectorSize) = 2 /\ DirectoryFileSize \in Nat
<1>1. SectorSize \in Nat /\ SectorSize > 0
  BY FileSystemAssumption
<1>2. \A s \in Nat : s > 0 => s \div s = 1 /\ s % s = 0
  OBVIOUS
<1>3. ASSUME NEW s \in Nat, s > 0 PROVE (2 * s) \div s = 2 /\ (2 * s) % s = 0
  <2>. DEFINE q == (2 * s) \div s  r == (2 * s) % s
  <2>1. q \in Int /\ r \in Nat /\ r < s /\ 2 * s = s * q + r
    BY <1>3
  <2>. HIDE DEF q, r
  <2>2. q >= 2
    BY <1>3, <2>1
  <2>3. q <= 2
    BY <1>3, <2>1
  <2>4. q = 2 /\ r = 0
    BY <2>1, <2>2, <2>3
  <2>. QED BY <2>4 DEF q, r
<1>. QED BY <1>1, <1>2, <1>3 DEF divRoundUp, FreeMapFileSize, DirectoryFileSize

\* A bitmap with few marks has room.
LEMMA SystemLayout ==
    /\ MapHdr \in Header /\ DirHdr \in Header /\ MapHdr.kind = "hdr" /\ DirHdr.kind = "hdr"
    /\ DOMAIN MapHdr.dataSectors = {1} /\ DOMAIN DirHdr.dataSectors = {1, 2}
    /\ System \in SUBSET Sector
    /\ FreeMapSector # DirectorySector /\ MapSec \notin {FreeMapSector, DirectorySector}
    /\ DirSec1 \notin {FreeMapSector, DirectorySector, MapSec}
    /\ DirSec2 \notin {FreeMapSector, DirectorySector, MapSec, DirSec1}
    /\ DataSectors(MapHdr) = {MapSec} /\ DataSectors(DirHdr) = {DirSec1, DirSec2}
    /\ SystemSectors(MapHdr, DirHdr) = System
<1>. DEFINE marked == HeaderSectorsMarked
<1>1. marked = {FreeMapSector, DirectorySector} /\ FreeMapSector # DirectorySector
  BY DEF HeaderSectorsMarked, Mark, NewMap, FreeMapSector, DirectorySector
<1>2. FreeMapSector \in Sector /\ DirectorySector \in Sector
  BY FileSystemAssumption DEF FreeMapSector, DirectorySector, Sector
<1>3. NumSectors \in Nat /\ NumSectors >= 5
  BY FileSystemAssumption
<1>4. ASSUME NEW T, NEW x, IsFiniteSet(Sector \ T), Cardinality(Sector \ T) \in Nat
      PROVE  /\ IsFiniteSet(Sector \ (T \cup {x}))
             /\ Cardinality(Sector \ (T \cup {x})) \in Nat
             /\ Cardinality(Sector \ (T \cup {x})) >= Cardinality(Sector \ T) - 1
  <2>1. Sector \ (T \cup {x}) = (Sector \ T) \ {x}
    OBVIOUS
  <2>. DEFINE U == Sector \ T
  <2>2. IsFiniteSet(U) /\ Cardinality(U) \in Nat
    BY <1>4
  <2>. HIDE DEF U
  <2>. DEFINE V == U \ {x}
  <2>3. IsFiniteSet(V) /\ Cardinality(V) = IF x \in U THEN Cardinality(U) - 1 ELSE Cardinality(U)
    BY <2>2, FS_RemoveElement
  <2>4. Cardinality(V) \in Nat
    BY <2>3, FS_CardinalityType
  <2>5. Cardinality(V) >= Cardinality(U) - 1
    <3>. HIDE DEF V
    <3>. QED BY <2>2, <2>3, <2>4
  <2>. QED BY <2>1, <2>3, <2>4, <2>5 DEF U, V
<1>5. /\ IsFiniteSet(Sector \ marked) /\ Cardinality(Sector \ marked) \in Nat
      /\ Cardinality(Sector \ marked) >= 3
  <2>1. Sector \ {} = Sector
    OBVIOUS
  <2>2. marked = ({} \cup {FreeMapSector}) \cup {DirectorySector}
    BY <1>1
  <2>. HIDE DEF marked
  <2>. DEFINE one == {} \cup {FreeMapSector}
  <2>3. /\ IsFiniteSet(Sector \ one) /\ Cardinality(Sector \ one) \in Nat
        /\ Cardinality(Sector \ one) >= NumSectors - 1
    BY <1>3, <1>4, <2>1, SectorFacts
  <2>. HIDE DEF one
  <2>4. /\ IsFiniteSet(Sector \ (one \cup {DirectorySector}))
        /\ Cardinality(Sector \ (one \cup {DirectorySector})) \in Nat
        /\ Cardinality(Sector \ (one \cup {DirectorySector})) >= Cardinality(Sector \ one) - 1
    BY <1>4, <2>3
  <2>. QED BY <1>3, <2>2, <2>3, <2>4 DEF one
<1>6. CanAllocate(marked, FreeMapFileSize)
  BY <1>5, SystemFileSizes DEF CanAllocate, NumClear
<1>7. /\ MapHdr \in Header /\ MapHdr.kind = "hdr" /\ DOMAIN MapHdr.dataSectors = 1..1
      /\ MapSec \in Sector \ marked
  BY <1>6, SystemFileSizes, AllocateFacts DEF MapHdr, MapSec
<1>8. DataSectors(MapHdr) = {MapSec}
  <2>1. DOMAIN MapHdr.dataSectors = {1}
    BY <1>7
  <2>. QED BY <2>1 DEF DataSectors, ToSet, MapSec
<1>9. CanAllocate(marked \cup {MapSec}, DirectoryFileSize)
  <2>. HIDE DEF marked
  <2>1. Cardinality(Sector \ (marked \cup {MapSec})) >= Cardinality(Sector \ marked) - 1
    BY <1>4, <1>5
  <2>2. Cardinality(Sector \ (marked \cup {MapSec})) \in Nat
    BY <1>4, <1>5
  <2>. QED BY <1>5, <2>1, <2>2, SystemFileSizes DEF CanAllocate, NumClear
<1>10. DirHdr = Allocate(marked \cup {MapSec}, DirectoryFileSize)
  BY <1>8 DEF DirHdr
<1>11. /\ DirHdr \in Header /\ DirHdr.kind = "hdr" /\ DOMAIN DirHdr.dataSectors = 1..2
       /\ DirSec1 \in Sector \ (marked \cup {MapSec})
       /\ DirSec2 \in Sector \ (marked \cup {MapSec}) /\ DirSec2 # DirSec1
  <2>. HIDE DEF marked
  <2>. DEFINE m == marked \cup {MapSec}
              h == Allocate(m, DirectoryFileSize)
              n == divRoundUp(DirectoryFileSize, SectorSize)
  <2>1. CanAllocate(m, DirectoryFileSize) /\ DirectoryFileSize \in Nat /\ n = 2
    BY <1>9, SystemFileSizes
  <2>2. DirHdr = h
    BY <1>10
  <2>. HIDE DEF m
  <2>3. /\ h \in Header /\ h.kind = "hdr" /\ DOMAIN h.dataSectors = 1..n
        /\ \A k \in 1..n : h.dataSectors[k] \in Sector \ m
        /\ \A k, l \in 1..n : h.dataSectors[k] = h.dataSectors[l] => k = l
    BY <2>1, AllocateFacts
  <2>. HIDE DEF h, n
  <2>4. 1 \in 1..n /\ 2 \in 1..n /\ 1 # 2
    BY <2>1
  <2>5. /\ h.dataSectors[1] \in Sector \ m /\ h.dataSectors[2] \in Sector \ m
        /\ h.dataSectors[1] # h.dataSectors[2]
    BY <2>3, <2>4
  <2>. QED BY <2>1, <2>2, <2>3, <2>5 DEF DirSec1, DirSec2, m
<1>12. DOMAIN DirHdr.dataSectors = {1, 2} /\ DOMAIN MapHdr.dataSectors = {1}
  BY <1>7, <1>11
<1>13. DataSectors(DirHdr) = {DirSec1, DirSec2}
  BY <1>12 DEF DataSectors, ToSet, DirSec1, DirSec2
<1>14. SystemSectors(MapHdr, DirHdr) = System
  BY <1>8, <1>13 DEF SystemSectors, System
<1>. QED BY <1>1, <1>2, <1>7, <1>8, <1>11, <1>12, <1>13, <1>14 DEF System

-----------------------------------------------------------------------------
(* What a disk holds                                                       *)

\* The kind of a sector's content says what it is.
LEMMA ContentFacts ==
  ASSUME NEW c \in Content
  PROVE  /\ c.kind = "hdr" => c \in Header /\ c.dataSectors \in Seq(Sector)
         /\ c.kind = "map" => c.used \in SUBSET Sector
         /\ c.kind = "dir" => c.table \in Table
         /\ c.kind = "junk" <=> c = Junk
<1>1. CASE c = Junk
  BY <1>1 DEF Junk
<1>2. CASE c \in Header
  BY <1>2 DEF Header, Junk
<1>3. CASE c \in [kind : {"map"}, used : SUBSET Sector]
  BY <1>3 DEF Junk
<1>4. CASE c \in [kind : {"dir"}, table : Table]
  BY <1>4 DEF Junk
<1>5. CASE c \in [kind : {"data"}, value : Value]
  BY <1>5 DEF Junk
<1>. QED BY <1>1, <1>2, <1>3, <1>4, <1>5 DEF Content

\* Directory::FetchFrom entry by entry.
LEMMA TabFields ==
  ASSUME NEW d
  PROVE  /\ DOMAIN Tab(d) = 1..NumDirEntries
         /\ \A i \in 1..NumDirEntries :
              Tab(d)[i] = [inUse |-> IF i <= Split THEN d[DirSec1].table[i].inUse
                                                   ELSE d[DirSec2].table[i].inUse,
                           sector |-> IF i <= Split THEN d[DirSec1].table[i].sector
                                                    ELSE d[DirSec2].table[i].sector,
                           name |-> IF i < Split THEN d[DirSec1].table[i].name
                                                 ELSE d[DirSec2].table[i].name]
BY DEF Tab, Fetch, DirSec1, DirSec2

\* On a disk that has been formatted the bitmap and the directory are readable,
\* the bitmap marks the system's sectors and no file has any of them.
LEMMA DiskShape ==
  ASSUME NEW d, GoodDisk(d), Present(d)
  PROVE  /\ d[FreeMapSector] = MapHdr /\ d[DirectorySector] = DirHdr
         /\ Used(d) = d[MapSec].used /\ d[MapSec].kind = "map"
         /\ d[DirSec1].kind = "dir" /\ d[DirSec2].kind = "dir"
         /\ d[DirSec1].table \in Table /\ d[DirSec2].table \in Table
         /\ Used(d) \in SUBSET Sector /\ System \subseteq Used(d)
         /\ Tab(d) \in Table
         /\ \A i \in InUse(Tab(d)) : Tab(d)[i].sector \in Sector \ System
<1>1. d[FreeMapSector] # Junk /\ d[DirectorySector] # Junk /\ d[MapSec] # Junk
      /\ d[DirSec1] # Junk /\ d[DirSec2] # Junk
  BY DEF Present, System
<1>2. FreeMapSector \in Sector /\ DirectorySector \in Sector /\ MapSec \in Sector
      /\ DirSec1 \in Sector /\ DirSec2 \in Sector
  BY SystemLayout DEF System
<1>3. d[FreeMapSector] = MapHdr /\ d[DirectorySector] = DirHdr
  BY <1>1, <1>2 DEF GoodDisk, GoodAt
<1>4. d[MapSec].kind = "map" /\ System \subseteq d[MapSec].used
  BY <1>1, <1>2 DEF GoodDisk, GoodAt
<1>5. /\ d[DirSec1].kind = "dir" /\ d[DirSec2].kind = "dir"
      /\ \A i \in 1..NumDirEntries :
            /\ d[DirSec1].table[i].inUse => d[DirSec1].table[i].sector \notin System
            /\ d[DirSec2].table[i].inUse => d[DirSec2].table[i].sector \notin System
  BY <1>1, <1>2 DEF GoodDisk, GoodAt
<1>6. Used(d) = d[MapSec].used
  BY DEF Used, FetchMap, MapSec
<1>7. d[MapSec] \in Content /\ d[DirSec1] \in Content /\ d[DirSec2] \in Content
  BY <1>2 DEF GoodDisk
<1>8. d[MapSec].used \in SUBSET Sector /\ d[DirSec1].table \in Table /\ d[DirSec2].table \in Table
  BY <1>4, <1>5, <1>7, ContentFacts
<1>9. Tab(d) \in Table
  <2>1. \A i \in 1..NumDirEntries : d[DirSec1].table[i] \in Entry /\ d[DirSec2].table[i] \in Entry
    BY <1>8 DEF Table
  <2>2. ASSUME NEW i \in 1..NumDirEntries PROVE Tab(d)[i] \in Entry
    <3>. DEFINE a == d[DirSec1].table[i]  b == d[DirSec2].table[i]
    <3>1. a \in Entry /\ b \in Entry
      BY <2>1
    <3>2. Tab(d)[i] = [inUse |-> IF i <= Split THEN a.inUse ELSE b.inUse,
                       sector |-> IF i <= Split THEN a.sector ELSE b.sector,
                       name |-> IF i < Split THEN a.name ELSE b.name]
      BY TabFields
    <3>. HIDE DEF a, b
    <3>3. /\ a.inUse \in BOOLEAN /\ b.inUse \in BOOLEAN
          /\ a.sector \in Sector /\ b.sector \in Sector
          /\ a.name \in Name \cup {NoName} /\ b.name \in Name \cup {NoName}
      BY <3>1 DEF Entry
    <3>4. (IF i <= Split THEN a.inUse ELSE b.inUse) \in BOOLEAN
      BY <3>3, Zenon
    <3>. QED BY <3>2, <3>3, <3>4 DEF Entry
  <2>3. Tab(d) = [i \in 1..NumDirEntries |-> Tab(d)[i]]
    BY DEF Tab, Fetch
  <2>. QED BY <2>2, <2>3 DEF Table
<1>10. ASSUME NEW i \in InUse(Tab(d)) PROVE Tab(d)[i].sector \in Sector \ System
  <2>1. i \in 1..NumDirEntries /\ Tab(d)[i].inUse
    BY TabFields DEF InUse
  <2>2. Tab(d)[i].sector \in Sector
    BY <1>9, <2>1 DEF Table, Entry
  <2>3. Tab(d)[i].sector \notin System
    <3>. DEFINE a == d[DirSec1].table[i]  b == d[DirSec2].table[i]
    <3>1. (a.inUse => a.sector \notin System) /\ (b.inUse => b.sector \notin System)
      BY <1>5, <2>1
    <3>2. Tab(d)[i] = [inUse |-> IF i <= Split THEN a.inUse ELSE b.inUse,
                       sector |-> IF i <= Split THEN a.sector ELSE b.sector,
                       name |-> IF i < Split THEN a.name ELSE b.name]
      BY <2>1, TabFields
    <3>. HIDE DEF a, b
    <3>3. CASE i <= Split
      BY <2>1, <3>1, <3>2, <3>3
    <3>4. CASE ~(i <= Split)
      BY <2>1, <3>1, <3>2, <3>4
    <3>. QED BY <3>3, <3>4
  <2>. QED BY <2>2, <2>3
<1>. QED BY <1>3, <1>4, <1>5, <1>6, <1>8, <1>9, <1>10

\* The sectors of a file: its header's own and those the header lists.
LEMMA FileSectorsOf ==
  ASSUME NEW d, NEW s
  PROVE  \A x : x \in FileSectors(d, s) <=>
            x = s \/ (d[s].kind = "hdr" /\ \E k \in DOMAIN d[s].dataSectors : x = d[s].dataSectors[k])
BY DEF FileSectors, DataSectors, ToSet

\* No file owns a sector of the system.
LEMMA FilesSpareSystem ==
  ASSUME NEW d, GoodDisk(d), Present(d), NEW i \in InUse(Tab(d))
  PROVE  FileAt(d, i) \cap System = {} /\ FileAt(d, i) \subseteq Sector
<1>. DEFINE s == Tab(d)[i].sector
<1>1. s \in Sector \ System
  BY DiskShape
<1>. HIDE DEF s
<1>2. d[s] \in Content /\ GoodAt(s, d[s])
  BY <1>1 DEF GoodDisk
<1>3. d[s].kind = "hdr" => \A k \in DOMAIN d[s].dataSectors : d[s].dataSectors[k] \in Sector \ System
  BY <1>1, <1>2, ContentFacts DEF GoodAt
<1>4. FileSectors(d, s) \cap System = {} /\ FileSectors(d, s) \subseteq Sector
  BY <1>1, <1>3, FileSectorsOf
<1>. QED BY <1>4 DEF FileAt, s

\* Mountable, which FileSystem(FALSE) needs, says that all of the system has been
\* written, and Agree is then Consistent.
LEMMA MountableIsPresent ==
  ASSUME NEW d, GoodDisk(d)
  PROVE  Mountable(d) <=> Present(d)
<1>1. ASSUME Present(d) PROVE Mountable(d)
  BY <1>1, DiskShape, SystemLayout DEF Mountable, MapSec
<1>2. ASSUME Mountable(d) PROVE Present(d)
  <2>1. d[FreeMapSector].kind = "hdr" /\ d[DirectorySector].kind = "hdr"
    BY <1>2 DEF Mountable
  <2>2. d[FreeMapSector] = MapHdr /\ d[DirectorySector] = DirHdr
    <3>1. FreeMapSector \in Sector /\ DirectorySector \in Sector
      BY SystemLayout DEF System
    <3>. QED BY <2>1, <3>1 DEF GoodDisk, GoodAt, Junk
  <2>3. d[MapSec].kind = "map" /\ d[DirSec1].kind = "dir" /\ d[DirSec2].kind = "dir"
    BY <1>2, <2>2, SystemLayout DEF Mountable, MapSec
  <2>. QED BY <2>1, <2>3 DEF Present, System, Junk
<1>. QED BY <1>1, <1>2

\* The same for the agreement of the structures.
LEMMA ConsistentIsAgree ==
  ASSUME NEW d, GoodDisk(d), Present(d)
  PROVE  Consistent(d) <=> Agree(d)
<1>1. d[FreeMapSector] = MapHdr /\ d[DirectorySector] = DirHdr
  BY DiskShape
<1>2. Mountable(d)
  BY MountableIsPresent
<1>3. Consistent(d) <=>
        /\ \A i \in InUse(Tab(d)) : d[Tab(d)[i].sector].kind = "hdr"
        /\ \A i, j \in InUse(Tab(d)) : i # j =>
              /\ Tab(d)[i].name # Tab(d)[j].name
              /\ FileAt(d, i) \cap FileAt(d, j) = {}
        /\ \A i \in InUse(Tab(d)) : FileAt(d, i) \cap System = {}
        /\ Used(d) = System \cup Owned(d)
  BY <1>1, <1>2, SystemLayout DEF Consistent, Tab, FileAt, Used, Owned
<1>. QED BY <1>3 DEF Agree

-----------------------------------------------------------------------------
(* The disk with the pending writes done                                   *)

\* Flush holds what is pending, and elsewhere what the disk holds.
LEMMA FlushFacts ==
  ASSUME NEW d \in [Sector -> Content], NEW p \in Seq(Write), Distinct(p)
  PROVE  /\ Flush(d, p) \in [Sector -> Content]
         /\ \A n \in 1..Len(p) : Flush(d, p)[p[n].sector] = p[n].content
         /\ \A s \in Sector : (\A n \in 1..Len(p) : p[n].sector # s) => Flush(d, p)[s] = d[s]
<1>1. DOMAIN p = 1..Len(p)
  OBVIOUS
<1>2. \A n \in 1..Len(p) : p[n].sector \in Sector /\ p[n].content \in Content
  <2>1. \A n \in 1..Len(p) : p[n] \in Write
    OBVIOUS
  <2>. QED BY <2>1 DEF Write
<1>3. ASSUME NEW n \in 1..Len(p) PROVE Flush(d, p)[p[n].sector] = p[n].content
  <2>. DEFINE m == CHOOSE m \in DOMAIN p : p[m].sector = p[n].sector
  <2>1. \E k \in DOMAIN p : p[k].sector = p[n].sector
    BY <1>1
  <2>2. m \in 1..Len(p) /\ p[m].sector = p[n].sector
    BY <1>1, <2>1
  <2>3. m = n
    BY <2>2 DEF Distinct
  <2>4. Flush(d, p)[p[n].sector] = p[m].content
    BY <1>2, <2>1 DEF Flush
  <2>. QED BY <2>3, <2>4
<1>4. ASSUME NEW s \in Sector, \A n \in 1..Len(p) : p[n].sector # s PROVE Flush(d, p)[s] = d[s]
  BY <1>1, <1>4 DEF Flush
<1>5. ASSUME NEW s \in Sector PROVE Flush(d, p)[s] \in Content
  <2>1. CASE \E n \in 1..Len(p) : p[n].sector = s
    BY <1>2, <1>3, <2>1
  <2>2. CASE \A n \in 1..Len(p) : p[n].sector # s
    BY <1>4, <2>2
  <2>. QED BY <2>1, <2>2
<1>6. Flush(d, p) = [s \in Sector |-> Flush(d, p)[s]]
  BY DEF Flush
<1>7. Flush(d, p) \in [Sector -> Content]
  BY <1>5, <1>6
<1>. QED BY <1>3, <1>4, <1>7

\* Nothing is pending.
LEMMA FlushEmpty ==
  ASSUME NEW d \in [Sector -> Content]
  PROVE  Flush(d, << >>) = d
BY DEF Flush

\* WriteSector does not change what the disk will be.
LEMMA FlushStep ==
  ASSUME NEW d \in [Sector -> Content], NEW p \in Seq(Write), Distinct(p), p # << >>
  PROVE  LET w == Head(p)  e == [d EXCEPT ![w.sector] = w.content] IN
         /\ w \in Write /\ w = p[1] /\ Flush(d, p)[w.sector] = w.content
         /\ e \in [Sector -> Content] /\ Tail(p) \in Seq(Write) /\ Distinct(Tail(p))
         /\ Len(p) \in Nat \ {0} /\ Len(Tail(p)) = Len(p) - 1
         /\ \A n \in 1..Len(Tail(p)) : n + 1 \in 1..Len(p) /\ Tail(p)[n] = p[n + 1]
         /\ Flush(e, Tail(p)) = Flush(d, p)
<1>. DEFINE w == Head(p)  q == Tail(p)  x == w.sector  c == w.content
            e == [d EXCEPT ![x] = c]
<1>1. /\ w \in Write /\ w = p[1] /\ q \in Seq(Write)
      /\ Len(p) \in Nat \ {0} /\ Len(q) = Len(p) - 1
      /\ \A n \in 1..Len(q) : n + 1 \in 1..Len(p) /\ q[n] = p[n + 1]
  OBVIOUS
<1>. HIDE DEF w, q
<1>2. x \in Sector /\ c \in Content
  BY <1>1 DEF Write
<1>3. Flush(d, p)[x] = c
  <2>1. 1 \in 1..Len(p)
    BY <1>1
  <2>. QED BY <1>1, <2>1, FlushFacts
<1>. HIDE DEF x, c
<1>4. e \in [Sector -> Content] /\ e[x] = c /\ \A s \in Sector : s # x => e[s] = d[s]
  BY <1>2
<1>. HIDE DEF e
<1>5. Distinct(q)
  BY <1>1 DEF Distinct
<1>6. /\ Flush(e, q) \in [Sector -> Content] /\ Flush(d, p) \in [Sector -> Content]
      /\ \A n \in 1..Len(q) : Flush(e, q)[q[n].sector] = q[n].content
      /\ \A n \in 1..Len(p) : Flush(d, p)[p[n].sector] = p[n].content
      /\ \A s \in Sector : (\A n \in 1..Len(q) : q[n].sector # s) => Flush(e, q)[s] = e[s]
      /\ \A s \in Sector : (\A n \in 1..Len(p) : p[n].sector # s) => Flush(d, p)[s] = d[s]
  BY <1>1, <1>4, <1>5, FlushFacts
<1>7. ASSUME NEW s \in Sector PROVE Flush(e, q)[s] = Flush(d, p)[s]
  <2>1. CASE \E n \in 1..Len(q) : q[n].sector = s
    <3>1. PICK n \in 1..Len(q) : q[n].sector = s
      BY <2>1
    <3>2. n + 1 \in 1..Len(p) /\ q[n] = p[n + 1]
      BY <1>1
    <3>. QED BY <1>6, <3>1, <3>2
  <2>2. CASE \A n \in 1..Len(q) : q[n].sector # s
    <3>1. Flush(e, q)[s] = e[s]
      BY <1>6, <2>2
    <3>2. CASE s = x
      BY <1>3, <1>4, <3>1, <3>2
    <3>3. CASE s # x
      <4>1. ASSUME NEW n \in 1..Len(p) PROVE p[n].sector # s
        <5>1. CASE n = 1
          BY <1>1, <3>3, <5>1 DEF x
        <5>2. CASE n # 1
          <6>1. n - 1 \in 1..Len(q) /\ (n - 1) + 1 = n
            BY <1>1, <5>2
          <6>2. q[n - 1] = p[n]
            BY <1>1, <6>1
          <6>. QED BY <2>2, <6>1, <6>2
        <5>. QED BY <5>1, <5>2
      <4>. QED BY <1>4, <1>6, <3>1, <3>3, <4>1
    <3>. QED BY <3>2, <3>3
  <2>. QED BY <2>1, <2>2
<1>8. Flush(e, q) = Flush(d, p)
  BY <1>6, <1>7
<1>. QED BY <1>1, <1>3, <1>4, <1>5, <1>8 DEF w, q, x, c, e

-----------------------------------------------------------------------------
(* The writes of the operations                                            *)

\* One more write.
LEMMA AddWrite ==
  ASSUME NEW S, NEW s \in Seq(S), NEW a \in S
  PROVE  /\ s \o <<a>> \in Seq(S) /\ Len(s \o <<a>>) = Len(s) + 1
         /\ \A i \in 1..Len(s) : (s \o <<a>>)[i] = s[i]
         /\ (s \o <<a>>)[Len(s) + 1] = a
<1>. DEFINE t == <<a>>
<1>1. t \in Seq(S) /\ Len(t) = 1 /\ t[1] = a
  OBVIOUS
<1>. HIDE DEF t
<1>2. /\ s \o t \in Seq(S) /\ Len(s \o t) = Len(s) + 1
      /\ \A i \in 1..Len(s) : (s \o t)[i] = s[i]
      /\ (s \o t)[Len(s) + 1] = a
  BY <1>1, ConcatProperties
<1>. QED BY <1>2 DEF t

\* Two more writes.
LEMMA AddWrites ==
  ASSUME NEW S, NEW s \in Seq(S), NEW u \in Seq(S), Len(u) = 2
  PROVE  /\ s \o u \in Seq(S) /\ Len(s \o u) = Len(s) + 2
         /\ \A i \in 1..Len(s) : (s \o u)[i] = s[i]
         /\ (s \o u)[Len(s) + 1] = u[1] /\ (s \o u)[Len(s) + 2] = u[2]
<1>. DEFINE v == s \o u
<1>1. /\ v \in Seq(S) /\ Len(v) = Len(s) + Len(u)
      /\ \A i \in 1..Len(s) + Len(u) : v[i] = IF i <= Len(s) THEN s[i] ELSE u[i - Len(s)]
  BY ConcatProperties, Zenon
<1>2. /\ v \in Seq(S) /\ Len(v) = Len(s) + 2
      /\ \A i \in 1..Len(s) + 2 : v[i] = IF i <= Len(s) THEN s[i] ELSE u[i - Len(s)]
  BY <1>1, Zenon
<1>. HIDE DEF v
<1>3. Len(s) \in Nat
  OBVIOUS
<1>4. \A i \in 1..Len(s) : v[i] = s[i]
  BY <1>2, <1>3
<1>5. v[Len(s) + 1] = u[1] /\ v[Len(s) + 2] = u[2]
  BY <1>2, <1>3
<1>. QED BY <1>2, <1>4, <1>5 DEF v

\* The first write.
LEMMA OneWrite ==
  ASSUME NEW S, NEW a \in S
  PROVE  <<a>> \in Seq(S) /\ Len(<<a>>) = 1 /\ <<a>>[1] = a
OBVIOUS

\* A directory write-back is two sector writes.
LEMMA DirectoryWritesAre ==
  ASSUME NEW t
  PROVE  DirectoryWrites(DirHdr, t) = <<[sector |-> DirSec1, content |-> [kind |-> "dir", table |-> t]],
                                        [sector |-> DirSec2, content |-> [kind |-> "dir", table |-> t]]>>
BY DEF DirectoryWrites, DirSec1, DirSec2

\* The shapes of the three operations' writes.
LEMMA ThreeWrites ==
  ASSUME NEW S, NEW a \in S, NEW b \in S, NEW c \in S
  PROVE  LET p == <<a>> \o <<b, c>> IN
         p \in Seq(S) /\ Len(p) = 3 /\ p[1] = a /\ p[2] = b /\ p[3] = c
<1>. DEFINE s == <<a>>  u == <<b, c>>
<1>1. s \in Seq(S) /\ Len(s) = 1 /\ s[1] = a
  BY OneWrite
<1>2. u \in Seq(S) /\ Len(u) = 2 /\ u[1] = b /\ u[2] = c
  OBVIOUS
<1>. HIDE DEF s, u
<1>. DEFINE p == s \o u
<1>3. /\ p \in Seq(S) /\ Len(p) = Len(s) + 2
      /\ \A i \in 1..Len(s) : p[i] = s[i]
      /\ p[Len(s) + 1] = u[1] /\ p[Len(s) + 2] = u[2]
  BY <1>1, <1>2, AddWrites, Zenon
<1>. HIDE DEF p
<1>4. p \in Seq(S) /\ Len(p) = 3 /\ p[1] = a /\ p[2] = b /\ p[3] = c
  BY <1>1, <1>2, <1>3
<1>. QED BY <1>4 DEF p, s, u

\* Create.
LEMMA FourWrites ==
  ASSUME NEW S, NEW a \in S, NEW b \in S, NEW c \in S, NEW d \in S
  PROVE  LET p == <<a>> \o <<b, c>> \o <<d>> IN
         p \in Seq(S) /\ Len(p) = 4 /\ p[1] = a /\ p[2] = b /\ p[3] = c /\ p[4] = d
<1>. DEFINE s == <<a>> \o <<b, c>>
<1>1. s \in Seq(S) /\ Len(s) = 3 /\ s[1] = a /\ s[2] = b /\ s[3] = c
  BY ThreeWrites
<1>. HIDE DEF s
<1>2. /\ s \o <<d>> \in Seq(S) /\ Len(s \o <<d>>) = Len(s) + 1
      /\ \A i \in 1..Len(s) : (s \o <<d>>)[i] = s[i]
      /\ (s \o <<d>>)[Len(s) + 1] = d
  BY <1>1, AddWrite, Zenon
<1>. DEFINE p == s \o <<d>>
<1>. HIDE DEF p
<1>3. p \in Seq(S) /\ Len(p) = 4 /\ p[1] = a /\ p[2] = b /\ p[3] = c /\ p[4] = d
  BY <1>1, <1>2 DEF p
<1>. QED BY <1>3 DEF p, s

\* Format.
LEMMA FiveWrites ==
  ASSUME NEW S, NEW a \in S, NEW b \in S, NEW c \in S, NEW d \in S, NEW e \in S
  PROVE  LET p == <<a>> \o <<b>> \o <<c>> \o <<d, e>> IN
         p \in Seq(S) /\ Len(p) = 5 /\ p[1] = a /\ p[2] = b /\ p[3] = c /\ p[4] = d /\ p[5] = e
<1>. DEFINE s == <<a>>
<1>1. s \in Seq(S) /\ Len(s) = 1 /\ s[1] = a
  BY OneWrite
<1>. HIDE DEF s
<1>. DEFINE u == s \o <<b>>
<1>2. /\ u \in Seq(S) /\ Len(u) = Len(s) + 1
      /\ \A i \in 1..Len(s) : u[i] = s[i]
      /\ u[Len(s) + 1] = b
  BY <1>1, AddWrite, Zenon
<1>. HIDE DEF u
<1>3. u \in Seq(S) /\ Len(u) = 2 /\ u[1] = a /\ u[2] = b
  BY <1>1, <1>2
<1>. DEFINE v == u \o <<c>>
<1>4. /\ v \in Seq(S) /\ Len(v) = Len(u) + 1
      /\ \A i \in 1..Len(u) : v[i] = u[i]
      /\ v[Len(u) + 1] = c
  BY <1>3, AddWrite, Zenon
<1>. HIDE DEF v
<1>5. v \in Seq(S) /\ Len(v) = 3 /\ v[1] = a /\ v[2] = b /\ v[3] = c
  BY <1>3, <1>4
<1>. DEFINE r == <<d, e>>  p == v \o r
<1>6. r \in Seq(S) /\ Len(r) = 2 /\ r[1] = d /\ r[2] = e
  OBVIOUS
<1>. HIDE DEF r
<1>7. /\ p \in Seq(S) /\ Len(p) = Len(v) + 2
      /\ \A i \in 1..Len(v) : p[i] = v[i]
      /\ p[Len(v) + 1] = r[1] /\ p[Len(v) + 2] = r[2]
  BY <1>5, <1>6, AddWrites, Zenon
<1>. HIDE DEF p
<1>8. p \in Seq(S) /\ Len(p) = 5 /\ p[1] = a /\ p[2] = b /\ p[3] = c /\ p[4] = d /\ p[5] = e
  BY <1>5, <1>6, <1>7
<1>. QED BY <1>8 DEF p, r, v, u, s

\* What each kind of write puts into a sector.
LEMMA WriteTypes ==
    /\ \A h \in Header : h \in Content
    /\ \A m \in SUBSET Sector : [kind |-> "map", used |-> m] \in Content
    /\ \A t \in Table : [kind |-> "dir", table |-> t] \in Content
    /\ \A v \in Value : [kind |-> "data", value |-> v] \in Content
    /\ Junk \in Content
    /\ \A s \in Sector, c \in Content : [sector |-> s, content |-> c] \in Write
    /\ EmptyTable \in Table
<1>1. \A h \in Header : h \in Content
  BY DEF Content
<1>2. \A m \in SUBSET Sector : [kind |-> "map", used |-> m] \in Content
  BY DEF Content
<1>3. \A t \in Table : [kind |-> "dir", table |-> t] \in Content
  BY DEF Content
<1>4. \A v \in Value : [kind |-> "data", value |-> v] \in Content
  BY DEF Content
<1>5. Junk \in Content
  BY DEF Content
<1>6. \A s \in Sector, c \in Content : [sector |-> s, content |-> c] \in Write
  BY DEF Write
<1>7. EmptyTable \in Table
  <2>1. 0 \in Sector
    BY FileSystemAssumption DEF Sector
  <2>. QED BY <2>1 DEF EmptyTable, Table, Entry
<1>. QED BY <1>1, <1>2, <1>3, <1>4, <1>5, <1>6, <1>7

-----------------------------------------------------------------------------
(* The directory's and the bitmap's operations                             *)

\* Directory::Find returns -1 exactly when no entry in use has the name, and
\* otherwise the sector of one that has.
LEMMA FindFacts ==
  ASSUME NEW t \in Table, NEW n
  PROVE  /\ Find(t, n) = -1 <=> \A i \in 1..NumDirEntries : t[i].inUse => t[i].name # n
         /\ Find(t, n) # -1 =>
               LET k == Min(FindIndex(t, n)) IN
               /\ k \in 1..NumDirEntries /\ k \in InUse(t) /\ t[k].inUse /\ t[k].name = n
               /\ Find(t, n) = t[k].sector
<1>. DEFINE F == FindIndex(t, n)  k == Min(F)
<1>1. DOMAIN t = 1..NumDirEntries /\ \A i \in 1..NumDirEntries : t[i].sector \in Sector
  BY DEF Table, Entry
<1>2. F = {i \in 1..NumDirEntries : t[i].inUse /\ t[i].name = n}
  BY <1>1 DEF FindIndex
<1>3. F \in SUBSET Nat
  BY <1>2, FileSystemAssumption
<1>4. F # {} => k \in F
  BY <1>3, MinOf
<1>5. Find(t, n) = IF F = {} THEN -1 ELSE t[k].sector
  BY DEF Find
<1>. HIDE DEF F, k
<1>6. F # {} => k \in 1..NumDirEntries /\ t[k].inUse /\ t[k].name = n
  BY <1>2, <1>4
<1>7. F # {} => k \in InUse(t)
  BY <1>1, <1>6 DEF InUse
<1>8. Find(t, n) = -1 <=> F = {}
  BY <1>1, <1>5, <1>6, SectorFacts
<1>9. F = {} <=> \A i \in 1..NumDirEntries : t[i].inUse => t[i].name # n
  BY <1>2
<1>10. Find(t, n) # -1 => Find(t, n) = t[k].sector
  BY <1>5, <1>8
<1>. QED BY <1>6, <1>7, <1>8, <1>9, <1>10 DEF k, F

\* Directory::Add fills one free entry.
LEMMA AddFacts ==
  ASSUME NEW t \in Table, NEW n \in Name, NEW s \in Sector, FreeSlots(t) # {}
  PROVE  LET k == Min(FreeSlots(t))  u == Add(t, n, s) IN
         /\ k \in 1..NumDirEntries /\ ~t[k].inUse /\ u \in Table
         /\ u[k] = [inUse |-> TRUE, sector |-> s, name |-> n]
         /\ \A i \in 1..NumDirEntries : i # k => u[i] = t[i]
<1>. DEFINE F == FreeSlots(t)  k == Min(F)  u == Add(t, n, s)
            e == [inUse |-> TRUE, sector |-> s, name |-> n]
<1>1. DOMAIN t = 1..NumDirEntries
  BY DEF Table
<1>2. F = {i \in 1..NumDirEntries : ~t[i].inUse}
  BY <1>1 DEF FreeSlots
<1>3. F \in SUBSET Nat
  BY <1>2, FileSystemAssumption
<1>4. k \in F
  BY <1>3, MinOf
<1>5. u = [t EXCEPT ![k] = e]
  BY DEF Add
<1>. HIDE DEF k, F, u
<1>6. k \in 1..NumDirEntries /\ ~t[k].inUse
  BY <1>2, <1>4
<1>7. e \in Entry
  BY DEF Entry
<1>. HIDE DEF e
<1>8. u \in Table /\ u[k] = e /\ \A i \in 1..NumDirEntries : i # k => u[i] = t[i]
  BY <1>5, <1>6, <1>7 DEF Table
<1>. QED BY <1>6, <1>8 DEF k, F, u, e

\* Directory::Remove clears inUse of the entry found, and nothing else.
LEMMA RemoveEntryFacts ==
  ASSUME NEW t \in Table, NEW n, Find(t, n) # -1
  PROVE  LET k == Min(FindIndex(t, n))  u == RemoveEntry(t, n) IN
         /\ u \in Table /\ ~u[k].inUse
         /\ \A i \in 1..NumDirEntries : i # k => u[i] = t[i]
         /\ \A i \in 1..NumDirEntries : u[i].sector = t[i].sector
<1>. DEFINE k == Min(FindIndex(t, n))  u == RemoveEntry(t, n)
<1>1. k \in 1..NumDirEntries
  BY FindFacts
<1>2. u = [t EXCEPT ![k].inUse = FALSE]
  BY DEF RemoveEntry
<1>. HIDE DEF k, u
<1>3. t[k] \in Entry
  BY <1>1 DEF Table
<1>. DEFINE e == [t[k] EXCEPT !.inUse = FALSE]
<1>4. e \in Entry /\ e.inUse = FALSE /\ e.sector = t[k].sector
  BY <1>3 DEF Entry
<1>5. u = [t EXCEPT ![k] = e]
  BY <1>2
<1>. HIDE DEF e
<1>6. u \in Table /\ u[k] = e /\ \A i \in 1..NumDirEntries : i # k => u[i] = t[i]
  BY <1>1, <1>4, <1>5 DEF Table
<1>7. \A i \in 1..NumDirEntries : u[i].sector = t[i].sector
  BY <1>4, <1>6
<1>. QED BY <1>4, <1>6, <1>7 DEF k, u

\* BitMap::Find returns a clear bit unless there is none.
LEMMA FindClearFacts ==
  ASSUME NEW map, FindClear(map) # -1
  PROVE  FindClear(map) \in Sector \ map
<1>. DEFINE F == Sector \ map
<1>1. F \in SUBSET Nat /\ IsFiniteSet(F)
  <2>1. F \in SUBSET Sector
    OBVIOUS
  <2>. QED BY <2>1, SectorFacts, FS_Subset
<1>2. FindClear(map) = IF Cardinality(F) = 0 THEN -1 ELSE Min(F)
  BY DEF FindClear, NumClear
<1>. HIDE DEF F
<1>3. F # {} /\ FindClear(map) = Min(F)
  BY <1>1, <1>2, FS_EmptySet
<1>4. FindClear(map) \in F
  BY <1>1, <1>3, MinOf
<1>. QED BY <1>4 DEF F

\* What the operations write is good where they write it.
LEMMA GoodContents ==
    /\ GoodAt(FreeMapSector, MapHdr) /\ GoodAt(DirectorySector, DirHdr)
    /\ MapHdr # Junk /\ DirHdr # Junk
    /\ \A m : System \subseteq m => GoodAt(MapSec, [kind |-> "map", used |-> m])
    /\ \A t : (\A i \in 1..NumDirEntries : t[i].inUse => t[i].sector \notin System) =>
          /\ GoodAt(DirSec1, [kind |-> "dir", table |-> t])
          /\ GoodAt(DirSec2, [kind |-> "dir", table |-> t])
    /\ \A s \in Sector \ System : \A v : GoodAt(s, [kind |-> "data", value |-> v])
<1>0. /\ FreeMapSector \in System /\ DirectorySector \in System /\ MapSec \in System
      /\ DirSec1 \in System /\ DirSec2 \in System
  BY DEF System
<1>1. GoodAt(FreeMapSector, MapHdr) /\ GoodAt(DirectorySector, DirHdr)
  BY <1>0, SystemLayout DEF GoodAt
<1>2. MapHdr # Junk /\ DirHdr # Junk
  BY SystemLayout DEF Junk
<1>3. ASSUME NEW m, System \subseteq m PROVE GoodAt(MapSec, [kind |-> "map", used |-> m])
  <2>. DEFINE c == [kind |-> "map", used |-> m]
  <2>1. c.kind = "map" /\ c.used = m
    OBVIOUS
  <2>. HIDE DEF c
  <2>2. GoodAt(MapSec, c)
    BY <1>0, <1>3, <2>1, SystemLayout DEF GoodAt
  <2>. QED BY <2>2 DEF c
<1>4. ASSUME NEW t, \A i \in 1..NumDirEntries : t[i].inUse => t[i].sector \notin System
      PROVE  /\ GoodAt(DirSec1, [kind |-> "dir", table |-> t])
             /\ GoodAt(DirSec2, [kind |-> "dir", table |-> t])
  <2>. DEFINE c == [kind |-> "dir", table |-> t]
  <2>1. c.kind = "dir" /\ c.table = t
    OBVIOUS
  <2>. HIDE DEF c
  <2>2. GoodAt(DirSec1, c)
    BY <1>0, <1>4, <2>1, SystemLayout DEF GoodAt
  <2>3. GoodAt(DirSec2, c)
    BY <1>0, <1>4, <2>1, SystemLayout DEF GoodAt
  <2>. QED BY <2>2, <2>3 DEF c
<1>5. ASSUME NEW s \in Sector \ System, NEW v PROVE GoodAt(s, [kind |-> "data", value |-> v])
  BY <1>0 DEF GoodAt
<1>. QED BY <1>1, <1>2, <1>3, <1>4, <1>5

\* The new file's header is good in a sector it does not list.
LEMMA GoodHeader ==
  ASSUME NEW s \in Sector \ System, NEW h \in Header,
         \A k \in DOMAIN h.dataSectors : h.dataSectors[k] \notin System \cup {s},
         \A k, l \in DOMAIN h.dataSectors : h.dataSectors[k] = h.dataSectors[l] => k = l
  PROVE  GoodAt(s, h) /\ h # Junk
<1>1. s \notin {FreeMapSector, DirectorySector, MapSec, DirSec1, DirSec2}
  BY DEF System
<1>2. h.kind = "hdr"
  BY DEF Header
<1>. QED BY <1>1, <1>2 DEF GoodAt, Junk

\* Good writes leave a good disk, and take nothing away.
LEMMA FlushGood ==
  ASSUME NEW d, GoodDisk(d), NEW p \in Seq(Write), Distinct(p), GoodWrites(p)
  PROVE  /\ GoodDisk(Flush(d, p))
         /\ Present(d) => Present(Flush(d, p))
<1>1. d \in [Sector -> Content] /\ \A s \in Sector : GoodAt(s, d[s])
  BY DEF GoodDisk
<1>2. /\ Flush(d, p) \in [Sector -> Content]
      /\ \A n \in 1..Len(p) : Flush(d, p)[p[n].sector] = p[n].content
      /\ \A s \in Sector : (\A n \in 1..Len(p) : p[n].sector # s) => Flush(d, p)[s] = d[s]
  BY <1>1, FlushFacts
<1>3. \A n \in 1..Len(p) : GoodAt(p[n].sector, p[n].content) /\ p[n].content # Junk
  BY DEF GoodWrites
<1>4. ASSUME NEW s \in Sector
      PROVE  GoodAt(s, Flush(d, p)[s]) /\ (d[s] # Junk => Flush(d, p)[s] # Junk)
  <2>1. CASE \E n \in 1..Len(p) : p[n].sector = s
    <3>1. PICK n \in 1..Len(p) : p[n].sector = s
      BY <2>1
    <3>2. Flush(d, p)[s] = p[n].content
      BY <1>2, <3>1
    <3>. QED BY <1>3, <3>1, <3>2
  <2>2. CASE \A n \in 1..Len(p) : p[n].sector # s
    <3>1. Flush(d, p)[s] = d[s]
      BY <1>2, <2>2
    <3>. QED BY <1>1, <3>1
  <2>. QED BY <2>1, <2>2
<1>5. GoodDisk(Flush(d, p))
  BY <1>2, <1>4 DEF GoodDisk
<1>6. ASSUME Present(d) PROVE Present(Flush(d, p))
  BY <1>4, <1>6, SystemLayout DEF Present
<1>. QED BY <1>5, <1>6

\* The orders in which the operations write.
LEMMA OrderFacts ==
  ASSUME NEW h
  PROVE  /\ LET o == Order("format", h) IN
            /\ Len(o) = 5 /\ o[1] = FreeMapSector /\ o[2] = DirectorySector
            /\ o[3] = MapSec /\ o[4] = DirSec1 /\ o[5] = DirSec2
         /\ LET o == Order("create", h) IN
            Len(o) = 4 /\ o[1] = h /\ o[2] = DirSec1 /\ o[3] = DirSec2 /\ o[4] = MapSec
         /\ LET o == Order("remove", h) IN
            Len(o) = 3 /\ o[1] = MapSec /\ o[2] = DirSec1 /\ o[3] = DirSec2
         /\ Order("idle", h) = << >>
<1>1. Order("format", h) = <<FreeMapSector, DirectorySector, MapSec, DirSec1, DirSec2>>
  BY DEF Order
<1>2. Order("create", h) = <<h, DirSec1, DirSec2, MapSec>>
  BY DEF Order
<1>3. Order("remove", h) = <<MapSec, DirSec1, DirSec2>>
  BY DEF Order
<1>4. Order("idle", h) = << >>
  BY DEF Order
<1>. QED BY <1>1, <1>2, <1>3, <1>4

-----------------------------------------------------------------------------
(* The part of the invariant that holds on damaged disks too               *)

\* Between operations nothing is under way.
LEMMA QuietFacts ==
  ASSUME FSBase, Ready
  PROVE  /\ up /\ pending = << >> /\ op = Idle /\ op.kind = "idle" /\ op.slot = 0
         /\ After = disk /\ GoodDisk(disk)
<1>1. up /\ pending = << >>
  BY DEF Ready
<1>2. op = Idle /\ GoodDisk(disk)
  BY <1>1 DEF FSBase, FSBasics
<1>3. op.kind = "idle" /\ op.slot = 0
  BY <1>2 DEF Idle
<1>5. After = disk
  BY <1>1, FlushEmpty DEF After, FSBase, FSTypes
<1>. QED BY <1>1, <1>2, <1>3, <1>5

\* Unless the run is astray, the two files are open and the system is on disk.
LEMMA ReadyFacts ==
  ASSUME FSBase, Known
  PROVE  /\ up /\ pending = << >> /\ op = Idle /\ op.kind = "idle" /\ op.slot = 0
         /\ freeMapFile = MapHdr /\ directoryFile = DirHdr
         /\ table = Tab(disk) /\ freeMap = Used(disk) /\ After = disk
         /\ GoodDisk(disk) /\ Present(disk)
<1>1. Ready /\ ~astray
  BY DEF Known
<1>2. /\ up /\ pending = << >> /\ op = Idle /\ op.kind = "idle" /\ op.slot = 0
      /\ After = disk /\ GoodDisk(disk)
  BY <1>1, QuietFacts
<1>3. freeMapFile = MapHdr /\ directoryFile = DirHdr /\ Present(disk)
  BY <1>1, <1>2 DEF FSBase, FSBasics
<1>. QED BY <1>2, <1>3 DEF table, freeMap, Tab, Used

\* Each operation is one.
LEMMA OperationType ==
  ASSUME NEW k \in Kinds, NEW n \in Name \cup {NoName}, NEW s \in 0..NumDirEntries
  PROVE  [kind |-> k, name |-> n, slot |-> s] \in Operation
BY DEF Operation

\* Of an unknown disk nothing is known but that it holds no system.
LEMMA UnknownFacts == GoodDisk(Unknown) /\ ~Present(Unknown) /\ Unknown[DirSec2] = Junk
<1>1. \A s \in Sector : Unknown[s] = Junk /\ GoodAt(s, Junk)
  BY DEF Unknown, GoodAt, Junk
<1>2. Unknown \in [Sector -> Content]
  BY WriteTypes DEF Unknown
<1>3. DirSec2 \in System /\ System \subseteq Sector
  BY SystemLayout DEF System
<1>. QED BY <1>1, <1>2, <1>3 DEF GoodDisk, Present

\* Before formatting the disk is unknown.
LEMMA BaseInit == FSInit => FSBase
<1>. SUFFICES ASSUME FSInit PROVE FSBase
  OBVIOUS
<1>. USE DEF FSInit
<1>0. op = [kind |-> "format", name |-> NoName, slot |-> 0]
  BY DEF Idle
<1>1. FSTypes
  <2>1. disk \in [Sector -> Content]
    BY UnknownFacts DEF GoodDisk
  <2>2. op \in Operation
    <3>1. "format" \in Kinds /\ 0 \in 0..NumDirEntries /\ NoName \in Name \cup {NoName}
      BY FileSystemAssumption DEF Kinds
    <3>2. [kind |-> "format", name |-> NoName, slot |-> 0] \in Operation
      BY <3>1, OperationType, Zenon
    <3>. QED BY <1>0, <3>2, Zenon
  <2>3. IsFiniteSet(handles) /\ Cardinality(handles) <= MaxHandles
    BY FS_EmptySet, FileSystemAssumption
  <2>4. pending \in Seq(Write) /\ handles \in SUBSET [name : Name, hdr : Content]
    OBVIOUS
  <2>5. written = [n \in Name |-> written[n]]
    OBVIOUS
  <2>6. up \in BOOLEAN /\ damaged \in BOOLEAN /\ astray \in BOOLEAN
    BY Zenon
  <2>. QED BY <2>1, <2>2, <2>3, <2>4, <2>5, <2>6 DEF FSTypes
<1>2. GoodDisk(disk)
  BY UnknownFacts
<1>3. GoodWrites(pending) /\ Distinct(pending)
  BY DEF GoodWrites, Distinct
<1>4. op.kind = "format"
  BY <1>0
<1>5. disk[DirSec2] = Junk
  BY UnknownFacts
<1>6. FSBasics
  BY <1>2, <1>3, <1>4, <1>5 DEF FSBasics
<1>. QED BY <1>1, <1>6 DEF FSBase, Formatting

\* What FileSystem(TRUE) is about to write.
LEMMA FormatWritesAre ==
  ASSUME Format
  PROVE  /\ freeMapFile' = MapHdr /\ directoryFile' = DirHdr
         /\ pending' \in Seq(Write) /\ Len(pending') = 5
         /\ pending'[1] = [sector |-> FreeMapSector, content |-> MapHdr]
         /\ pending'[2] = [sector |-> DirectorySector, content |-> DirHdr]
         /\ pending'[3] = [sector |-> MapSec, content |-> [kind |-> "map", used |-> System]]
         /\ pending'[4] = [sector |-> DirSec1, content |-> [kind |-> "dir", table |-> EmptyTable]]
         /\ pending'[5] = [sector |-> DirSec2, content |-> [kind |-> "dir", table |-> EmptyTable]]
<1>. DEFINE map == HeaderSectorsMarked \cup DataSectors(MapHdr) \cup DataSectors(DirHdr)
<1>1. map = System
  BY SystemLayout DEF HeaderSectorsMarked, Mark, NewMap, System
<1>2. /\ freeMapFile' = MapHdr /\ directoryFile' = DirHdr
      /\ pending' = HeaderWrites(FreeMapSector, MapHdr) \o HeaderWrites(DirectorySector, DirHdr)
                       \o MapWrites(MapHdr, map) \o DirectoryWrites(DirHdr, EmptyTable)
  BY DEF Format, MapHdr, DirHdr
<1>. DEFINE a == [sector |-> FreeMapSector, content |-> MapHdr]
            b == [sector |-> DirectorySector, content |-> DirHdr]
            c == [sector |-> MapSec, content |-> [kind |-> "map", used |-> System]]
            d == [sector |-> DirSec1, content |-> [kind |-> "dir", table |-> EmptyTable]]
            e == [sector |-> DirSec2, content |-> [kind |-> "dir", table |-> EmptyTable]]
<1>3. pending' = <<a>> \o <<b>> \o <<c>> \o <<d, e>>
  BY <1>1, <1>2, DirectoryWritesAre DEF HeaderWrites, MapWrites, MapSec
<1>4. a \in Write /\ b \in Write /\ c \in Write /\ d \in Write /\ e \in Write
  <2>1. /\ FreeMapSector \in Sector /\ DirectorySector \in Sector /\ MapSec \in Sector
        /\ DirSec1 \in Sector /\ DirSec2 \in Sector
    BY SystemLayout DEF System
  <2>2. /\ MapHdr \in Content /\ DirHdr \in Content
        /\ [kind |-> "map", used |-> System] \in Content
        /\ [kind |-> "dir", table |-> EmptyTable] \in Content
    BY SystemLayout, WriteTypes
  <2>. QED BY <2>1, <2>2, WriteTypes
<1>. HIDE DEF a, b, c, d, e
<1>5. /\ pending' \in Seq(Write) /\ Len(pending') = 5 /\ pending'[1] = a /\ pending'[2] = b
      /\ pending'[3] = c /\ pending'[4] = d /\ pending'[5] = e
  <2>. DEFINE p == <<a>> \o <<b>> \o <<c>> \o <<d, e>>
  <2>1. p \in Seq(Write) /\ Len(p) = 5 /\ p[1] = a /\ p[2] = b /\ p[3] = c /\ p[4] = d /\ p[5] = e
    BY <1>4, FiveWrites
  <2>2. pending' = p
    BY <1>3
  <2>. HIDE DEF p
  <2>. QED BY <2>1, <2>2
<1>. QED BY <1>2, <1>5 DEF a, b, c, d, e

\* FileSystem(TRUE) starts.
LEMMA BaseFormat == FSBase /\ Format => FSBase'
<1>. SUFFICES ASSUME FSBase, Format PROVE FSBase'
  OBVIOUS
<1>0. /\ ~up /\ up' = TRUE /\ disk' = disk /\ handles' = handles /\ written' = written
      /\ damaged' = damaged /\ astray' = astray /\ op' = [Idle EXCEPT !.kind = "format"]
  BY DEF Format
<1>a. op' = [kind |-> "format", name |-> NoName, slot |-> 0]
  BY <1>0 DEF Idle
<1>b. op'.kind = "format" /\ op' # Idle
  BY <1>a DEF Idle
<1>. DEFINE p == pending'
<1>1. /\ freeMapFile' = MapHdr /\ directoryFile' = DirHdr
      /\ p \in Seq(Write) /\ Len(p) = 5
      /\ p[1].sector = FreeMapSector /\ p[1].content = MapHdr
      /\ p[2].sector = DirectorySector /\ p[2].content = DirHdr
      /\ p[3].sector = MapSec /\ p[3].content = [kind |-> "map", used |-> System]
      /\ p[4].sector = DirSec1 /\ p[4].content = [kind |-> "dir", table |-> EmptyTable]
      /\ p[5].sector = DirSec2 /\ p[5].content = [kind |-> "dir", table |-> EmptyTable]
  BY FormatWritesAre
<1>. HIDE DEF p
<1>e. p \in Seq(Write) /\ Len(p) = 5
  BY <1>1
<1>f. /\ p[1].sector = FreeMapSector /\ p[2].sector = DirectorySector /\ p[3].sector = MapSec
      /\ p[4].sector = DirSec1 /\ p[5].sector = DirSec2
  BY <1>1
<1>c. \A n \in 1..5 : n = 1 \/ n = 2 \/ n = 3 \/ n = 4 \/ n = 5
  OBVIOUS
<1>d. GoodDisk(disk) /\ handles = {} /\ disk \in [Sector -> Content]
  BY <1>0 DEF FSBase, FSBasics, GoodDisk
<1>2. Distinct(p)
  BY <1>e, <1>f, <1>c, SystemLayout DEF Distinct
<1>3. GoodWrites(p)
  <2>1. \A i \in 1..NumDirEntries : EmptyTable[i].inUse => EmptyTable[i].sector \notin System
    BY DEF EmptyTable
  <2>2. /\ GoodAt(FreeMapSector, MapHdr) /\ GoodAt(DirectorySector, DirHdr)
        /\ GoodAt(MapSec, [kind |-> "map", used |-> System])
        /\ GoodAt(DirSec1, [kind |-> "dir", table |-> EmptyTable])
        /\ GoodAt(DirSec2, [kind |-> "dir", table |-> EmptyTable])
    BY <2>1, GoodContents
  <2>3. /\ MapHdr # Junk /\ DirHdr # Junk /\ [kind |-> "map", used |-> System] # Junk
        /\ [kind |-> "dir", table |-> EmptyTable] # Junk
    BY GoodContents DEF Junk
  <2>4. ASSUME NEW n \in 1..5 PROVE GoodAt(p[n].sector, p[n].content) /\ p[n].content # Junk
    <3>1. CASE n = 1
      BY <1>1, <2>2, <2>3, <3>1, Zenon
    <3>2. CASE n = 2
      BY <1>1, <2>2, <2>3, <3>2, Zenon
    <3>3. CASE n = 3
      BY <1>1, <2>2, <2>3, <3>3, Zenon
    <3>4. CASE n = 4
      BY <1>1, <2>2, <2>3, <3>4, Zenon
    <3>5. CASE n = 5
      BY <1>1, <2>2, <2>3, <3>5, Zenon
    <3>. QED BY <1>c, <3>1, <3>2, <3>3, <3>4, <3>5
  <2>. QED BY <1>1, <2>4 DEF GoodWrites
<1>. DEFINE A == Flush(disk, p)
<1>4. After' = A
  BY <1>0 DEF After, p
<1>5. \A n \in 1..5 : A[p[n].sector] = p[n].content
  <2>1. \A n \in 1..Len(p) : A[p[n].sector] = p[n].content
    BY <1>2, <1>d, <1>e, FlushFacts
  <2>. QED BY <1>e, <2>1
<1>. HIDE DEF A
<1>6. /\ A[FreeMapSector] = MapHdr /\ A[DirectorySector] = DirHdr
      /\ A[MapSec] = [kind |-> "map", used |-> System]
      /\ A[DirSec1] = [kind |-> "dir", table |-> EmptyTable]
      /\ A[DirSec2] = [kind |-> "dir", table |-> EmptyTable]
  <2>1. 1 \in 1..5 /\ 2 \in 1..5 /\ 3 \in 1..5 /\ 4 \in 1..5 /\ 5 \in 1..5
    OBVIOUS
  <2>. QED BY <1>1, <1>5, <2>1, Zenon
<1>7. Formatting'
  <2>1. Present(A)
    BY <1>6, GoodContents DEF Present, System, Junk
  <2>2. Used(A) = System
    BY <1>6 DEF Used, FetchMap, MapSec
  <2>3. A[DirSec1].table = EmptyTable /\ A[DirSec2].table = EmptyTable
    BY <1>6
  <2>4. Present(After') /\ Used(After') = System /\ After'[DirSec1].table = EmptyTable
        /\ After'[DirSec2].table = EmptyTable
    BY <1>4, <2>1, <2>2, <2>3
  <2>. QED BY <2>4 DEF Formatting
<1>8. FSTypes'
  <2>1. op' \in Operation
    <3>1. "format" \in Kinds /\ 0 \in 0..NumDirEntries /\ NoName \in Name \cup {NoName}
      BY FileSystemAssumption DEF Kinds
    <3>2. [kind |-> "format", name |-> NoName, slot |-> 0] \in Operation
      BY <3>1, OperationType, Zenon
    <3>. QED BY <1>a, <3>2, Zenon
  <2>2. up' \in BOOLEAN
    BY <1>0, Zenon
  <2>. QED BY <1>0, <1>1, <2>1, <2>2 DEF FSTypes, FSBase, p
<1>9. FSBasics'
  <2>1. Len(p) # 0 /\ pending' # << >>
    <3>1. Len(p) # 0 /\ p # << >>
      BY <1>e
    <3>. QED BY <3>1 DEF p
  <2>2. ASSUME NEW h PROVE Remains(p, Order("format", h))
    <3>. DEFINE o == Order("format", h)
    <3>1. /\ Len(o) = 5 /\ o[1] = FreeMapSector /\ o[2] = DirectorySector
          /\ o[3] = MapSec /\ o[4] = DirSec1 /\ o[5] = DirSec2
      BY OrderFacts
    <3>. HIDE DEF o
    <3>2. ASSUME NEW n \in 1..5 PROVE p[n].sector = o[n + 5 - 5]
      <4>1. n + 5 - 5 = n
        OBVIOUS
      <4>. QED BY <1>f, <1>c, <3>1, <4>1
    <3>3. Remains(p, o)
      BY <1>e, <3>1, <3>2 DEF Remains
    <3>. QED BY <3>3 DEF o
  <2>3. Remains(pending', Order(op'.kind, Tab(After')[op'.slot].sector))
    BY <1>b, <2>2 DEF p
  <2>4. disk[DirSec2] # Junk => Present(disk)
    BY DEF FSBase, FSBasics
  <2>5. GoodDisk(disk') /\ Distinct(pending') /\ GoodWrites(pending')
    BY <1>0, <1>2, <1>3, <1>d DEF p
  <2>6. disk'[DirSec2] # Junk => Present(disk')
    BY <1>0, <2>4
  <2>7. handles' = {}
    BY <1>0, <1>d
  <2>. QED BY <1>0, <1>1, <1>b, <2>1, <2>3, <2>5, <2>6, <2>7 DEF FSBasics
<1>. QED BY <1>7, <1>8, <1>9 DEF FSBase

\* Nachos stops: the disk keeps what has been written.
LEMMA BaseCrash == FSBase /\ Crash => FSBase'
<1>. SUFFICES ASSUME FSBase, Crash PROVE FSBase'
  OBVIOUS
<1>1. /\ up /\ up' = FALSE /\ pending' = << >> /\ handles' = {}
      /\ disk' = disk /\ freeMapFile' = freeMapFile /\ directoryFile' = directoryFile
      /\ op' = op /\ written' = written /\ damaged' = damaged /\ astray' = astray
  BY DEF Crash
<1>2. FSTypes'
  <2>1. IsFiniteSet({}) /\ Cardinality({}) <= MaxHandles
    BY FS_EmptySet, FileSystemAssumption
  <2>2. up' \in BOOLEAN
    BY <1>1, Zenon
  <2>. QED BY <1>1, <2>1, <2>2 DEF FSTypes, FSBase
<1>3. FSBasics'
  <2>1. Distinct(<< >>) /\ GoodWrites(<< >>)
    BY DEF Distinct, GoodWrites
  <2>. QED BY <1>1, <2>1 DEF FSBasics, FSBase
<1>. QED BY <1>1, <1>2, <1>3 DEF FSBase, Formatting

\* FileSystem(FALSE): what it opens is what formatting made, or the run is astray.
LEMMA BaseRestart == FSBase /\ Restart => FSBase'
<1>. SUFFICES ASSUME FSBase, Restart PROVE FSBase'
  OBVIOUS
<1>1. /\ ~up /\ up' = TRUE /\ op' = Idle
      /\ freeMapFile' = disk[FreeMapSector] /\ directoryFile' = disk[DirectorySector]
      /\ damaged' = (damaged \/ ~Consistent(disk))
      /\ pending' = pending /\ handles' = handles
  BY DEF Restart
<1>2. GoodDisk(disk) /\ pending = << >> /\ handles = {}
  BY <1>1 DEF FSBase, FSBasics
<1>3. /\ GoodDisk(disk')
      /\ astray' \in BOOLEAN /\ written' = [n \in Name |-> written'[n]]
      /\ ~astray' => Present(disk') /\ freeMapFile' = MapHdr /\ directoryFile' = DirHdr
      /\ disk'[DirSec2] # Junk => Present(disk')
  <2>1. CASE Mountable(disk)
    <3>1. disk' = disk /\ astray' = astray /\ written' = ForgetAbsent(disk, disk[DirectorySector])
      BY <2>1 DEF Restart
    <3>2. Present(disk)
      BY <1>2, <2>1, MountableIsPresent
    <3>3. disk[FreeMapSector] = MapHdr /\ disk[DirectorySector] = DirHdr
      BY <1>2, <3>2, DiskShape
    <3>4. written' = [n \in Name |-> written'[n]]
      BY <3>1 DEF ForgetAbsent
    <3>5. astray' \in BOOLEAN
      BY <3>1 DEF FSBase, FSTypes
    <3>. QED BY <1>1, <1>2, <3>1, <3>2, <3>3, <3>4, <3>5
  <2>2. CASE ~Mountable(disk)
    <3>1. disk' = Unknown /\ astray' = TRUE /\ written' = written
      BY <2>2 DEF Restart
    <3>2. written' = [n \in Name |-> written'[n]]
      BY <3>1 DEF FSBase, FSTypes
    <3>. QED BY <3>1, <3>2, UnknownFacts
  <2>. QED BY <2>1, <2>2
<1>5. op'.kind = "idle" /\ op' \in Operation
  <2>1. "idle" \in Kinds /\ 0 \in 0..NumDirEntries /\ NoName \in Name \cup {NoName}
    BY FileSystemAssumption DEF Kinds
  <2>2. Idle \in Operation
    BY <2>1, OperationType, Zenon DEF Idle
  <2>3. Idle.kind = "idle"
    BY DEF Idle
  <2>. QED BY <1>1, <2>2, <2>3, Zenon
<1>6. FSTypes'
  <2>1. damaged' \in BOOLEAN /\ up' \in BOOLEAN
    BY <1>1, Zenon
  <2>2. disk' \in [Sector -> Content]
    BY <1>3 DEF GoodDisk
  <2>. QED BY <1>1, <1>3, <1>5, <2>1, <2>2 DEF FSTypes, FSBase
<1>7. FSBasics'
  <2>1. Remains(<< >>, Order("idle", Tab(After')[op'.slot].sector))
    <3>1. Order("idle", Tab(After')[op'.slot].sector) = << >>
      BY OrderFacts
    <3>2. Remains(<< >>, << >>)
      BY DEF Remains
    <3>. QED BY <3>1, <3>2
  <2>2. Remains(pending', Order(op'.kind, Tab(After')[op'.slot].sector))
    BY <1>1, <1>2, <1>5, <2>1
  <2>3. Distinct(pending') /\ GoodWrites(pending')
    BY <1>1, <1>2 DEF FSBase, FSBasics
  <2>4. up' /\ handles' = {} /\ pending' = << >> /\ op' = Idle
    BY <1>1, <1>2
  <2>. QED BY <1>3, <1>5, <2>2, <2>3, <2>4 DEF FSBasics
<1>. QED BY <1>5, <1>6, <1>7 DEF FSBase, Formatting

\* A run that goes astray leaves a disk of which nothing is known.
LEMMA BaseAstray ==
  ASSUME FSBase, Known, GoAstray,
         UNCHANGED <<up, freeMapFile, directoryFile, pending, op, handles, written, damaged>>
  PROVE  FSBase'
<1>1. /\ disk' = Unknown /\ astray' = TRUE
      /\ up' = up /\ freeMapFile' = freeMapFile /\ directoryFile' = directoryFile
      /\ pending' = pending /\ op' = op /\ handles' = handles /\ written' = written
      /\ damaged' = damaged
  BY DEF GoAstray
<1>2. up /\ pending = << >> /\ op = Idle /\ op.kind = "idle"
  BY ReadyFacts
<1>3. GoodDisk(disk') /\ disk'[DirSec2] = Junk
  BY <1>1, UnknownFacts
<1>4. FSTypes'
  <2>1. disk' \in [Sector -> Content] /\ astray' \in BOOLEAN
    BY <1>1, <1>3 DEF GoodDisk
  <2>. QED BY <1>1, <2>1 DEF FSBase, FSTypes
<1>5. FSBasics'
  <2>1. Order("idle", Tab(After')[op'.slot].sector) = << >> /\ Remains(<< >>, << >>)
    BY OrderFacts DEF Remains
  <2>2. Remains(pending', Order(op'.kind, Tab(After')[op'.slot].sector))
    BY <1>1, <1>2, <2>1
  <2>. QED BY <1>1, <1>2, <1>3, <2>2 DEF FSBase, FSBasics
<1>. QED BY <1>1, <1>2, <1>4, <1>5 DEF FSBase, Formatting

\* What Open reads, if it is a header, lists no sector of the system.
LEMMA BaseOpen ==
  ASSUME NEW n \in Name, FSBase, Open(n)
  PROVE  FSBase'
<1>. DEFINE sector == Find(table, n)
            h == [name |-> n, hdr |-> disk[sector]]
<1>1. /\ Known /\ sector # -1 /\ Cardinality(handles) < MaxHandles
      /\ handles' = handles \cup {h}
      /\ disk' = disk /\ up' = up /\ freeMapFile' = freeMapFile /\ directoryFile' = directoryFile
      /\ pending' = pending /\ op' = op /\ written' = written /\ damaged' = damaged /\ astray' = astray
  BY DEF Open
<1>2. /\ table = Tab(disk) /\ GoodDisk(disk) /\ Present(disk) /\ op.kind = "idle"
  BY <1>1, ReadyFacts
<1>3. Tab(disk) \in Table /\ \A i \in InUse(Tab(disk)) : Tab(disk)[i].sector \in Sector \ System
  BY <1>2, DiskShape
<1>4. Find(Tab(disk), n) # -1 /\ sector = Find(Tab(disk), n)
  BY <1>1, <1>2
<1>5. \E k \in InUse(Tab(disk)) : sector = Tab(disk)[k].sector
  BY <1>3, <1>4, FindFacts
<1>6. sector \in Sector \ System
  BY <1>3, <1>5
<1>. HIDE DEF sector
<1>7. disk[sector] \in Content /\ \A k \in Blocks(disk[sector]) :
                                     disk[sector].dataSectors[k] \notin System
  <2>1. disk[sector] \in Content /\ GoodAt(sector, disk[sector])
    BY <1>2, <1>6 DEF GoodDisk
  <2>. QED BY <1>6, <2>1 DEF GoodAt, Blocks
<1>8. h \in [name : Name, hdr : Content] /\ h.hdr = disk[sector]
  BY <1>7
<1>. HIDE DEF h
<1>9. FSTypes'
  <2>1. IsFiniteSet(handles') /\ Cardinality(handles') <= MaxHandles
    <3>1. IsFiniteSet(handles) /\ Cardinality(handles) \in Nat /\ MaxHandles \in Nat
      BY FS_CardinalityType, FileSystemAssumption DEF FSBase, FSTypes
    <3>2. IsFiniteSet(handles') /\ Cardinality(handles') =
              IF h \in handles THEN Cardinality(handles) ELSE Cardinality(handles) + 1
      BY <1>1, <3>1, FS_AddElement
    <3>. QED BY <1>1, <3>1, <3>2
  <2>2. handles' \in SUBSET [name : Name, hdr : Content]
    BY <1>1, <1>8 DEF FSBase, FSTypes
  <2>. QED BY <1>1, <2>1, <2>2 DEF FSBase, FSTypes
<1>10. FSBasics'
  <2>1. \A g \in handles' : \A k \in Blocks(g.hdr) : g.hdr.dataSectors[k] \notin System
    BY <1>1, <1>7, <1>8 DEF FSBase, FSBasics
  <2>2. After' = After
    BY <1>1 DEF After
  <2>. QED BY <1>1, <1>2, <2>1, <2>2 DEF FSBase, FSBasics, Known, Ready
<1>11. Formatting'
  BY <1>1, <1>2 DEF Formatting
<1>. QED BY <1>9, <1>10, <1>11 DEF FSBase

\* A client closes a file.
LEMMA BaseClose ==
  ASSUME NEW h \in handles, FSBase, Close(h)
  PROVE  FSBase'
<1>1. /\ up /\ handles' = handles \ {h}
      /\ disk' = disk /\ up' = up /\ freeMapFile' = freeMapFile /\ directoryFile' = directoryFile
      /\ pending' = pending /\ op' = op /\ written' = written /\ damaged' = damaged /\ astray' = astray
  BY DEF Close
<1>2. After' = After
  BY <1>1 DEF After
<1>3. FSTypes'
  <2>1. IsFiniteSet(handles') /\ Cardinality(handles') <= MaxHandles
    <3>1. IsFiniteSet(handles) /\ Cardinality(handles) \in Nat /\ MaxHandles \in Nat
          /\ Cardinality(handles) <= MaxHandles
      BY FS_CardinalityType, FileSystemAssumption DEF FSBase, FSTypes
    <3>2. IsFiniteSet(handles') /\ Cardinality(handles') = Cardinality(handles) - 1
      BY <1>1, <3>1, FS_RemoveElement
    <3>. QED BY <3>1, <3>2
  <2>. QED BY <1>1, <2>1 DEF FSBase, FSTypes
<1>4. FSBasics'
  BY <1>1, <1>2 DEF FSBase, FSBasics
<1>5. Formatting'
  BY <1>1, <1>2 DEF FSBase, Formatting
<1>. QED BY <1>3, <1>4, <1>5 DEF FSBase

\* A client writes a block: never a sector of the system.
LEMMA BlockSector ==
  ASSUME FSBase, NEW h \in handles, NEW i \in Blocks(h.hdr)
  PROVE  /\ h.name \in Name /\ h.hdr \in Header /\ h.hdr.kind = "hdr"
         /\ i \in DOMAIN h.hdr.dataSectors /\ h.hdr.dataSectors[i] \in Sector \ System
<1>1. h \in [name : Name, hdr : Content]
  BY DEF FSBase, FSTypes
<1>2. h.hdr.kind = "hdr" /\ i \in DOMAIN h.hdr.dataSectors
  BY DEF Blocks
<1>3. h.name \in Name /\ h.hdr \in Header /\ h.hdr.dataSectors \in Seq(Sector)
  BY <1>1, <1>2, ContentFacts
<1>4. h.hdr.dataSectors[i] \in Sector
  BY <1>2, <1>3
<1>. QED BY <1>2, <1>3, <1>4 DEF FSBase, FSBasics

\* A sector outside the system's is overwritten with data.
LEMMA DataWritten ==
  ASSUME NEW d, GoodDisk(d), NEW x \in Sector \ System, NEW v \in Value
  PROVE  LET e == [d EXCEPT ![x] = [kind |-> "data", value |-> v]] IN
         /\ GoodDisk(e) /\ (Present(d) => Present(e)) /\ e[DirSec2] = d[DirSec2]
         /\ e[x] = [kind |-> "data", value |-> v] /\ \A s \in Sector : s # x => e[s] = d[s]
<1>. DEFINE c == [kind |-> "data", value |-> v]  e == [d EXCEPT ![x] = c]
<1>1. c \in Content /\ GoodAt(x, c) /\ c # Junk
  BY WriteTypes, GoodContents DEF Junk
<1>. HIDE DEF c
<1>2. e \in [Sector -> Content] /\ e[x] = c /\ \A s \in Sector : s # x => e[s] = d[s]
  BY <1>1 DEF GoodDisk
<1>. HIDE DEF e
<1>3. \A s \in Sector : GoodAt(s, e[s])
  BY <1>1, <1>2 DEF GoodDisk
<1>4. \A s \in System : e[s] = d[s]
  BY <1>2, SystemLayout
<1>5. DirSec2 \in System
  BY DEF System
<1>. QED BY <1>2, <1>3, <1>4, <1>5 DEF GoodDisk, Present, c, e

\* The action as a whole.
LEMMA BaseWriteBlock ==
  ASSUME NEW h \in handles, NEW i \in Blocks(h.hdr), NEW v \in Value,
         FSBase, WriteBlock(h, i, v)
  PROVE  FSBase'
<1>. DEFINE x == h.hdr.dataSectors[i]
<1>1. /\ Known /\ disk' = [disk EXCEPT ![x] = [kind |-> "data", value |-> v]]
      /\ damaged' = (damaged \/ ~Current(h))
      /\ written' = IF damaged' THEN written ELSE [written EXCEPT ![h.name][i] = v]
      /\ up' = up /\ freeMapFile' = freeMapFile /\ directoryFile' = directoryFile
      /\ pending' = pending /\ op' = op /\ handles' = handles /\ astray' = astray
  BY DEF WriteBlock
<1>2. x \in Sector \ System
  BY BlockSector
<1>. HIDE DEF x
<1>3. /\ up /\ pending = << >> /\ op = Idle /\ op.kind = "idle" /\ GoodDisk(disk) /\ Present(disk)
      /\ freeMapFile = MapHdr /\ directoryFile = DirHdr
  BY <1>1, ReadyFacts
<1>4. GoodDisk(disk') /\ Present(disk')
  BY <1>1, <1>2, <1>3, DataWritten
<1>5. FSTypes'
  <2>1. written' = [n \in Name |-> written'[n]]
    <3>1. written = [n \in Name |-> written[n]]
      BY DEF FSBase, FSTypes
    <3>. QED BY <1>1, <3>1
  <2>2. disk' \in [Sector -> Content]
    BY <1>4 DEF GoodDisk
  <2>3. damaged' \in BOOLEAN
    BY <1>1, Zenon
  <2>. QED BY <1>1, <2>1, <2>2, <2>3 DEF FSBase, FSTypes
<1>6. FSBasics'
  <2>1. Remains(pending', Order(op'.kind, Tab(After')[op'.slot].sector))
    <3>1. Order("idle", Tab(After')[op'.slot].sector) = << >>
      BY OrderFacts
    <3>2. Remains(<< >>, << >>)
      BY DEF Remains
    <3>. QED BY <1>1, <1>3, <3>1, <3>2
  <2>. QED BY <1>1, <1>3, <1>4, <2>1 DEF FSBase, FSBasics
<1>7. Formatting'
  BY <1>1, <1>3 DEF Formatting
<1>. QED BY <1>5, <1>6, <1>7 DEF FSBase

\* WriteSector moves one sector of After to the disk; its place in the order of
\* the operation says which.
LEMMA WriteSectorFacts ==
  ASSUME FSBase, WriteSector
  PROVE  LET x == Head(pending).sector
             o == Order(op.kind, Tab(After)[op.slot].sector) IN
         /\ x \in Sector /\ After[x] # Junk /\ disk' = [disk EXCEPT ![x] = After[x]]
         /\ After' = After
         /\ up /\ up' /\ freeMapFile = MapHdr /\ directoryFile = DirHdr
         /\ Len(pending) \in Nat \ {0} /\ Len(pending) <= Len(o) /\ Len(pending') = Len(pending) - 1
         /\ x = o[Len(o) - Len(pending) + 1]
         /\ Len(pending) = 1 => pending' = << >> /\ After = disk' /\ op' = Idle
         /\ Len(pending) # 1 => pending' # << >> /\ op' = op
         /\ op.kind # "idle" /\ op # Idle
         /\ GoodDisk(disk) /\ GoodDisk(disk') /\ GoodDisk(After)
         /\ \A s \in Sector : disk[s] # Junk => disk'[s] # Junk
<1>. DEFINE w == Head(pending)  x == w.sector
            o == Order(op.kind, Tab(After)[op.slot].sector)
<1>1. /\ up /\ pending # << >>
      /\ disk' = [disk EXCEPT ![x] = w.content] /\ pending' = Tail(pending)
      /\ op' = IF Len(pending) = 1 THEN Idle ELSE op
      /\ up' = up /\ freeMapFile' = freeMapFile /\ directoryFile' = directoryFile
      /\ handles' = handles
  BY DEF WriteSector
<1>2. /\ GoodDisk(disk) /\ Distinct(pending) /\ GoodWrites(pending) /\ op # Idle
      /\ freeMapFile = MapHdr /\ directoryFile = DirHdr /\ Remains(pending, o)
      /\ op.kind # "idle"
  BY <1>1 DEF FSBase, FSBasics
<1>3. pending \in Seq(Write) /\ disk \in [Sector -> Content]
  BY DEF FSBase, FSTypes
<1>4. /\ w \in Write /\ w = pending[1] /\ After[x] = w.content
      /\ pending' \in Seq(Write) /\ Distinct(pending')
      /\ Len(pending) \in Nat \ {0} /\ Len(pending') = Len(pending) - 1
      /\ After' = After /\ disk' \in [Sector -> Content]
  BY <1>1, <1>2, <1>3, FlushStep DEF After
<1>5. x \in Sector
  BY <1>4 DEF Write
<1>6. 1 \in 1..Len(pending)
  BY <1>4
<1>7. w.content # Junk /\ GoodAt(x, w.content)
  BY <1>2, <1>4, <1>6 DEF GoodWrites
<1>. HIDE DEF w, x, o
<1>8. disk' = [disk EXCEPT ![x] = After[x]] /\ After[x] # Junk /\ GoodAt(x, After[x])
  BY <1>1, <1>4, <1>7
<1>9. x = o[Len(o) - Len(pending) + 1] /\ Len(pending) <= Len(o)
  <2>1. pending[1].sector = o[1 + Len(o) - Len(pending)] /\ Len(pending) <= Len(o)
    BY <1>2, <1>6 DEF Remains
  <2>2. Len(o) \in Nat
    <3>1. op.kind \in Kinds
      BY DEF FSBase, FSTypes, Operation
    <3>. QED BY <3>1, OrderFacts DEF o, Kinds
  <2>3. 1 + Len(o) - Len(pending) = Len(o) - Len(pending) + 1
    BY <1>4, <2>2
  <2>. QED BY <1>4, <2>1, <2>3 DEF x
<1>10. GoodDisk(disk') /\ \A s \in Sector : disk[s] # Junk => disk'[s] # Junk
  <2>1. \A s \in Sector : disk'[s] = IF s = x THEN After[x] ELSE disk[s]
    BY <1>3, <1>8
  <2>. QED BY <1>2, <1>4, <1>8, <2>1 DEF GoodDisk
<1>11. GoodDisk(After)
  BY <1>2, <1>3, FlushGood DEF After
<1>12. ASSUME Len(pending) = 1 PROVE pending' = << >> /\ After = disk'
  <2>1. pending' = << >>
    BY <1>4, <1>12
  <2>2. Flush(disk', << >>) = disk'
    BY <1>4, FlushEmpty
  <2>. QED BY <1>4, <2>1, <2>2 DEF After
<1>13. Len(pending) # 1 => pending' # << >>
  BY <1>4
<1>. QED BY <1>1, <1>2, <1>4, <1>5, <1>8, <1>9, <1>10, <1>11, <1>12, <1>13 DEF x, o, w

\* A sector reaches the disk: the directory's second sector is the last that
\* formatting writes, so when it is there all of the system is.
LEMMA BaseWriteSector == FSBase /\ WriteSector => FSBase'
<1>. SUFFICES ASSUME FSBase, WriteSector PROVE FSBase'
  OBVIOUS
<1>. DEFINE x == Head(pending).sector
            o == Order(op.kind, Tab(After)[op.slot].sector)
<1>1. /\ x \in Sector /\ After[x] # Junk /\ disk' = [disk EXCEPT ![x] = After[x]]
      /\ After' = After
      /\ up /\ up' /\ freeMapFile = MapHdr /\ directoryFile = DirHdr
      /\ Len(pending) \in Nat \ {0} /\ Len(pending) <= Len(o) /\ Len(pending') = Len(pending) - 1
      /\ x = o[Len(o) - Len(pending) + 1]
      /\ Len(pending) = 1 => pending' = << >> /\ After = disk' /\ op' = Idle
      /\ Len(pending) # 1 => pending' # << >> /\ op' = op
      /\ op.kind # "idle" /\ op # Idle
      /\ GoodDisk(disk) /\ GoodDisk(disk') /\ GoodDisk(After)
      /\ \A s \in Sector : disk[s] # Junk => disk'[s] # Junk
  BY WriteSectorFacts
<1>2. /\ pending' = Tail(pending) /\ pending # << >>
      /\ op' = IF Len(pending) = 1 THEN Idle ELSE op
      /\ written' = IF Len(pending) = 1 THEN ForgetAbsent(disk', directoryFile) ELSE written
      /\ damaged' = (damaged /\ ~(Len(pending) = 1 /\ op.kind = "format"))
      /\ astray' = (astray /\ ~(Len(pending) = 1 /\ op.kind = "format"))
      /\ up' = up /\ freeMapFile' = freeMapFile /\ directoryFile' = directoryFile
      /\ handles' = handles
  BY DEF WriteSector
<1>3. pending \in Seq(Write) /\ disk \in [Sector -> Content] /\ op \in Operation
      /\ Distinct(pending) /\ GoodWrites(pending) /\ Remains(pending, o)
  BY <1>1 DEF FSBase, FSTypes, FSBasics
<1>4. /\ pending' \in Seq(Write) /\ Distinct(pending')
      /\ \A n \in 1..Len(pending') : n + 1 \in 1..Len(pending) /\ pending'[n] = pending[n + 1]
  BY <1>2, <1>3, FlushStep
<1>. HIDE DEF x
<1>5. op.kind \in {"format", "create", "remove"}
  BY <1>1, <1>3 DEF Operation, Kinds
<1>6. op' \in Operation /\ Idle.kind = "idle"
  <2>1. "idle" \in Kinds /\ 0 \in 0..NumDirEntries /\ NoName \in Name \cup {NoName}
    BY FileSystemAssumption DEF Kinds
  <2>2. Idle \in Operation
    BY <2>1, OperationType, Zenon DEF Idle
  <2>3. Idle.kind = "idle"
    BY DEF Idle
  <2>. QED BY <1>2, <1>3, <2>2, <2>3, Zenon
<1>7. FSTypes'
  <2>1. damaged' \in BOOLEAN /\ astray' \in BOOLEAN /\ up' \in BOOLEAN
    BY <1>1, <1>2, Zenon DEF FSBase, FSTypes
  <2>2. ForgetAbsent(disk', directoryFile) = [n \in Name |-> ForgetAbsent(disk', directoryFile)[n]]
    BY DEF ForgetAbsent
  <2>3. written = [n \in Name |-> written[n]]
    BY DEF FSBase, FSTypes
  <2>4. written' = [n \in Name |-> written'[n]]
    BY <1>2, <2>2, <2>3
  <2>5. disk' \in [Sector -> Content]
    BY <1>1 DEF GoodDisk
  <2>. QED BY <1>2, <1>4, <1>6, <2>1, <2>4, <2>5 DEF FSTypes, FSBase
<1>8. ASSUME Present(disk) PROVE Present(disk')
  BY <1>1, <1>8, SystemLayout DEF Present
<1>9. op.kind = "format" => Present(After)
  BY <1>1 DEF FSBase, Formatting
<1>10. op'.kind # "format" => Present(disk') /\ ~astray'
  <2>1. CASE op.kind # "format"
    <3>1. Present(disk) /\ ~astray
      BY <1>5, <2>1 DEF FSBase, FSBasics
    <3>. QED BY <1>2, <1>8, <3>1
  <2>2. CASE op.kind = "format"
    <3>1. op'.kind # "format" => Len(pending) = 1
      BY <1>1, <2>2
    <3>. QED BY <1>1, <1>2, <1>9, <2>2, <3>1
  <2>. QED BY <2>1, <2>2
<1>11. disk'[DirSec2] # Junk => Present(disk')
  <2>1. DirSec2 \in Sector
    BY SystemLayout DEF System
  <2>2. CASE x # DirSec2
    <3>1. disk'[DirSec2] = disk[DirSec2]
      BY <1>1, <1>3, <2>1, <2>2
    <3>. QED BY <1>8, <3>1 DEF FSBase, FSBasics
  <2>3. CASE x = DirSec2 /\ op.kind = "format"
    <3>1. /\ Len(o) = 5 /\ o[1] = FreeMapSector /\ o[2] = DirectorySector
          /\ o[3] = MapSec /\ o[4] = DirSec1 /\ o[5] = DirSec2
      BY <2>3, OrderFacts
    <3>. HIDE DEF o
    <3>p. /\ Len(pending) \in Nat \ {0} /\ Len(pending) <= Len(o)
          /\ x = o[Len(o) - Len(pending) + 1]
      BY <1>1
    <3>2. Len(pending) \in 1..5 /\ o[5 - Len(pending) + 1] = DirSec2
      <4>. DEFINE n == Len(pending)  m == Len(o)
      <4>1. n \in Nat \ {0} /\ n <= m /\ m = 5 /\ DirSec2 = o[m - n + 1]
        BY <2>3, <3>1, <3>p
      <4>. HIDE DEF n, m
      <4>2. n \in 1..5 /\ o[5 - n + 1] = DirSec2
        BY <4>1
      <4>. QED BY <4>2 DEF n
    <3>3. Len(pending) = 1
      <4>1. o[1] # DirSec2 /\ o[2] # DirSec2 /\ o[3] # DirSec2 /\ o[4] # DirSec2
        BY <3>1, SystemLayout
      <4>2. Len(pending) = 1 \/ 5 - Len(pending) + 1 \in {1, 2, 3, 4}
        <5>. DEFINE n == Len(pending)
        <5>1. n \in 1..5
          BY <3>2
        <5>. HIDE DEF n
        <5>2. n = 1 \/ 5 - n + 1 \in {1, 2, 3, 4}
          BY <5>1
        <5>. QED BY <5>2 DEF n
      <4>. QED BY <3>2, <4>1, <4>2
    <3>. QED BY <1>1, <1>9, <2>3, <3>3
  <2>4. CASE op.kind # "format"
    <3>1. Present(disk)
      BY <1>5, <2>4 DEF FSBase, FSBasics
    <3>. QED BY <1>8, <3>1
  <2>. QED BY <2>2, <2>3, <2>4
<1>12. Remains(pending', Order(op'.kind, Tab(After')[op'.slot].sector))
  <2>1. CASE Len(pending) = 1
    <3>1. Order("idle", Tab(After')[op'.slot].sector) = << >>
      BY OrderFacts
    <3>2. Remains(<< >>, << >>)
      BY DEF Remains
    <3>3. pending' = << >> /\ op'.kind = "idle"
      BY <1>1, <1>6, <2>1
    <3>. QED BY <3>1, <3>2, <3>3
  <2>2. CASE Len(pending) # 1
    <3>1. Order(op'.kind, Tab(After')[op'.slot].sector) = o
      BY <1>1, <2>2
    <3>2. Len(o) \in Nat
      BY <1>5, OrderFacts
    <3>. HIDE DEF o
    <3>3. ASSUME NEW n \in 1..Len(pending') PROVE pending'[n].sector = o[n + Len(o) - Len(pending')]
      <4>1. pending'[n] = pending[n + 1] /\ n + 1 \in 1..Len(pending)
        BY <1>4
      <4>2. pending[n + 1].sector = o[(n + 1) + Len(o) - Len(pending)]
        BY <1>3, <4>1 DEF Remains
      <4>3. (n + 1) + Len(o) - Len(pending) = n + Len(o) - Len(pending')
        BY <1>1, <3>2
      <4>. QED BY <4>1, <4>2, <4>3
    <3>4. Len(pending') <= Len(o)
      BY <1>1, <3>2
    <3>. QED BY <3>1, <3>3, <3>4 DEF Remains
  <2>. QED BY <2>1, <2>2
<1>13. GoodWrites(pending')
  BY <1>3, <1>4 DEF GoodWrites
<1>14. FSBasics'
  <2>1. (pending' = << >> <=> op' = Idle) /\ (op'.kind = "idle" => op' = Idle)
    BY <1>1, <1>6
  <2>2. \A h \in handles' : \A k \in Blocks(h.hdr) : h.hdr.dataSectors[k] \notin System
    BY <1>2 DEF FSBase, FSBasics
  <2>3. op'.kind = "format" => handles' = {}
    BY <1>1, <1>2, <1>6 DEF FSBase, FSBasics
  <2>. QED BY <1>1, <1>2, <1>4, <1>10, <1>11, <1>12, <1>13, <2>1, <2>2, <2>3 DEF FSBasics
<1>15. Formatting'
  <2>1. CASE op'.kind = "format"
    <3>1. op' = op
      BY <1>1, <1>6, <2>1
    <3>. QED BY <1>1, <3>1 DEF FSBase, Formatting
  <2>. QED BY <2>1 DEF Formatting
<1>. QED BY <1>7, <1>14, <1>15 DEF FSBase

\* What Create has computed: a header h for sector s, the entry k of the table
\* t, and the bitmap m.
NewFile(n, s, h, k, t, m) ==
    /\ s \in Sector \ System /\ s \notin Used(disk)
    /\ h \in Header /\ h.kind = "hdr"
    /\ \A j \in DOMAIN h.dataSectors : h.dataSectors[j] \notin Used(disk) \cup {s}
    /\ \A j, l \in DOMAIN h.dataSectors : h.dataSectors[j] = h.dataSectors[l] => j = l
    /\ k \in 1..NumDirEntries /\ ~Tab(disk)[k].inUse
    /\ t \in Table /\ t[k] = [inUse |-> TRUE, sector |-> s, name |-> n]
    /\ \A i \in 1..NumDirEntries : i # k => t[i] = Tab(disk)[i]
    /\ m \in SUBSET Sector /\ m = Used(disk) \cup {s} \cup DataSectors(h)
    /\ \A i \in 1..NumDirEntries : Tab(disk)[i].inUse => Tab(disk)[i].name # n

\* Its writes.
CreatePending(p, s, h, t, m) ==
    /\ p \in Seq(Write) /\ Len(p) = 4
    /\ p[1] = [sector |-> s, content |-> h]
    /\ p[2] = [sector |-> DirSec1, content |-> [kind |-> "dir", table |-> t]]
    /\ p[3] = [sector |-> DirSec2, content |-> [kind |-> "dir", table |-> t]]
    /\ p[4] = [sector |-> MapSec, content |-> [kind |-> "map", used |-> m]]

\* Disk a is disk d with the new file.
WithFile(a, d, s, h, t, m) ==
    /\ a \in [Sector -> Content]
    /\ a[s] = h
    /\ a[DirSec1].table = t /\ a[DirSec2].table = t
    /\ a[MapSec].used = m
    /\ \A x \in Sector : x \notin {s, DirSec1, DirSec2, MapSec} => a[x] = d[x]

\* Both sectors of the directory hold the same table.
LEMMA TabOf ==
  ASSUME NEW d, NEW t \in Table, d[DirSec1].table = t, d[DirSec2].table = t
  PROVE  Tab(d) = t
<1>1. ASSUME NEW i \in 1..NumDirEntries PROVE Tab(d)[i] = t[i]
  <2>. DEFINE e == t[i]
  <2>1. e \in Entry
    BY DEF Table
  <2>2. Tab(d)[i] = [inUse |-> IF i <= Split THEN e.inUse ELSE e.inUse,
                     sector |-> IF i <= Split THEN e.sector ELSE e.sector,
                     name |-> IF i < Split THEN e.name ELSE e.name]
    BY TabFields
  <2>. HIDE DEF e
  <2>3. Tab(d)[i] = [inUse |-> e.inUse, sector |-> e.sector, name |-> e.name]
    BY <2>2
  <2>4. e = [inUse |-> e.inUse, sector |-> e.sector, name |-> e.name]
    BY <2>1 DEF Entry
  <2>5. Tab(d)[i] = e
    BY <2>3, <2>4, Zenon
  <2>. QED BY <2>5 DEF e
<1>2. Tab(d) = [i \in 1..NumDirEntries |-> Tab(d)[i]]
  BY DEF Tab, Fetch
<1>3. t = [i \in 1..NumDirEntries |-> t[i]]
  BY DEF Table
<1>. QED BY <1>1, <1>2, <1>3

\* What a Create that succeeds is about to write.
LEMMA CreateBegins ==
  ASSUME FSBase, NEW n \in Name, NEW z \in FileSize, Create(n, z)
  PROVE  \E s, h, k, t, m :
            /\ NewFile(n, s, h, k, t, m)
            /\ op' = [kind |-> "create", name |-> n, slot |-> k]
            /\ CreatePending(pending', s, h, t, m)
<1>0. Known /\ CanCreate(n, z) /\ CreateFile(n, z)
  BY DEF Create
<1>1. /\ freeMapFile = MapHdr /\ directoryFile = DirHdr
      /\ table = Tab(disk) /\ freeMap = Used(disk) /\ GoodDisk(disk) /\ Present(disk)
  BY <1>0, ReadyFacts
<1>2. /\ Used(disk) \in SUBSET Sector /\ System \subseteq Used(disk) /\ Tab(disk) \in Table
  BY <1>1, DiskShape
<1>. DEFINE s == FindClear(Used(disk))
            marked == Mark(Used(disk), s)
            h == Allocate(marked, z)
            k == Min(FreeSlots(Tab(disk)))
            t == Add(Tab(disk), n, s)
            m == marked \cup DataSectors(h)
<1>3. /\ Find(Tab(disk), n) = -1 /\ s # -1 /\ FreeSlots(Tab(disk)) # {} /\ CanAllocate(marked, z)
  BY <1>0, <1>1 DEF CanCreate
<1>4. /\ pending' = HeaderWrites(s, h) \o DirectoryWrites(DirHdr, t) \o MapWrites(MapHdr, m)
      /\ op' = [kind |-> "create", name |-> n, slot |-> k]
  BY <1>0, <1>1 DEF CreateFile, CreateWrites
<1>5. s \in Sector \ Used(disk)
  BY <1>3, FindClearFacts
<1>. HIDE DEF s
<1>6. marked = Used(disk) \cup {s}
  BY DEF Mark
<1>7. z \in Nat
  BY FileSystemAssumption
<1>8. /\ h \in Header /\ h.kind = "hdr"
      /\ \A j \in DOMAIN h.dataSectors : h.dataSectors[j] \in Sector \ marked
      /\ \A j, l \in DOMAIN h.dataSectors : h.dataSectors[j] = h.dataSectors[l] => j = l
  <2>. HIDE DEF marked, h
  <2>1. CanAllocate(marked, z)
    BY <1>3
  <2>. QED BY <1>7, <2>1, AllocateFacts DEF h
<1>9. /\ k \in 1..NumDirEntries /\ ~Tab(disk)[k].inUse /\ t \in Table
      /\ t[k] = [inUse |-> TRUE, sector |-> s, name |-> n]
      /\ \A i \in 1..NumDirEntries : i # k => t[i] = Tab(disk)[i]
  <2>1. s \in Sector /\ FreeSlots(Tab(disk)) # {}
    BY <1>3, <1>5
  <2>. QED BY <1>2, <2>1, AddFacts
<1>10. \A i \in 1..NumDirEntries : Tab(disk)[i].inUse => Tab(disk)[i].name # n
  BY <1>2, <1>3, FindFacts
<1>. HIDE DEF marked, h, k, t
<1>11. m \in SUBSET Sector /\ m = Used(disk) \cup {s} \cup DataSectors(h)
  <2>1. DataSectors(h) \in SUBSET Sector
    BY <1>8 DEF DataSectors, ToSet
  <2>. QED BY <1>2, <1>5, <1>6, <2>1
<1>. HIDE DEF m
<1>12. NewFile(n, s, h, k, t, m)
  <2>1. s \in Sector \ System /\ s \notin Used(disk)
    BY <1>2, <1>5
  <2>2. \A j \in DOMAIN h.dataSectors : h.dataSectors[j] \notin Used(disk) \cup {s}
    BY <1>6, <1>8
  <2>. QED BY <1>8, <1>9, <1>10, <1>11, <2>1, <2>2 DEF NewFile
<1>. DEFINE a == [sector |-> s, content |-> h]
            b == [sector |-> DirSec1, content |-> [kind |-> "dir", table |-> t]]
            c == [sector |-> DirSec2, content |-> [kind |-> "dir", table |-> t]]
            d == [sector |-> MapSec, content |-> [kind |-> "map", used |-> m]]
<1>13. pending' = <<a>> \o <<b, c>> \o <<d>>
  BY <1>4, DirectoryWritesAre DEF HeaderWrites, MapWrites, MapSec
<1>14. a \in Write /\ b \in Write /\ c \in Write /\ d \in Write
  <2>1. MapSec \in Sector /\ DirSec1 \in Sector /\ DirSec2 \in Sector /\ s \in Sector
    BY <1>5, SystemLayout DEF System
  <2>2. /\ h \in Content /\ [kind |-> "map", used |-> m] \in Content
        /\ [kind |-> "dir", table |-> t] \in Content
    BY <1>8, <1>9, <1>11, WriteTypes
  <2>. QED BY <2>1, <2>2, WriteTypes
<1>15. /\ pending' \in Seq(Write) /\ Len(pending') = 4 /\ pending'[1] = a /\ pending'[2] = b
       /\ pending'[3] = c /\ pending'[4] = d
  <2>. HIDE DEF a, b, c, d
  <2>. DEFINE p == <<a>> \o <<b, c>> \o <<d>>
  <2>1. p \in Seq(Write) /\ Len(p) = 4 /\ p[1] = a /\ p[2] = b /\ p[3] = c /\ p[4] = d
    BY <1>14, FourWrites
  <2>2. pending' = p
    BY <1>13
  <2>. HIDE DEF p
  <2>. QED BY <2>1, <2>2
<1>16. CreatePending(pending', s, h, t, m)
  BY <1>15 DEF CreatePending
<1>. QED BY <1>4, <1>12, <1>16, Zenon

\* These writes make the disk with the new file.
LEMMA NewFileWrites ==
  ASSUME GoodDisk(disk), Present(disk),
         NEW n, NEW s, NEW h, NEW k, NEW t, NEW m, NewFile(n, s, h, k, t, m),
         NEW p, CreatePending(p, s, h, t, m)
  PROVE  /\ Distinct(p) /\ GoodWrites(p) /\ Remains(p, Order("create", s))
         /\ WithFile(Flush(disk, p), disk, s, h, t, m)
<1>1. /\ p[1].sector = s /\ p[2].sector = DirSec1 /\ p[3].sector = DirSec2 /\ p[4].sector = MapSec
  BY DEF CreatePending
<1>2. /\ p[1].content = h /\ p[2].content = [kind |-> "dir", table |-> t]
      /\ p[3].content = [kind |-> "dir", table |-> t] /\ p[4].content = [kind |-> "map", used |-> m]
  BY DEF CreatePending
<1>3. \A i \in 1..4 : i = 1 \/ i = 2 \/ i = 3 \/ i = 4
  OBVIOUS
<1>4. s \in Sector /\ s \notin {DirSec1, DirSec2, MapSec} /\ DirSec1 # DirSec2 /\ DirSec1 # MapSec
      /\ DirSec2 # MapSec /\ DirSec1 \in Sector /\ DirSec2 \in Sector /\ MapSec \in Sector
  BY SystemLayout DEF NewFile, System
<1>5. Len(p) = 4 /\ p \in Seq(Write)
  BY DEF CreatePending
<1>6. Distinct(p)
  BY <1>1, <1>3, <1>4, <1>5 DEF Distinct
<1>7. GoodWrites(p)
  <2>1. \A i \in 1..NumDirEntries : t[i].inUse => t[i].sector \notin System
    <3>1. ASSUME NEW i \in 1..NumDirEntries, t[i].inUse PROVE t[i].sector \notin System
      <4>1. CASE i = k
        <5>1. t[k].sector = s /\ s \notin System
          BY DEF NewFile
        <5>. QED BY <4>1, <5>1
      <4>2. CASE i # k
        <5>1. t[i] = Tab(disk)[i]
          BY <4>2 DEF NewFile
        <5>2. i \in InUse(Tab(disk))
          BY <3>1, <5>1, TabFields DEF InUse
        <5>3. Tab(disk)[i].sector \notin System
          BY <5>2, DiskShape
        <5>. QED BY <5>1, <5>3
      <4>. QED BY <4>1, <4>2
    <3>. QED BY <3>1
  <2>2. System \subseteq Used(disk)
    BY DiskShape
  <2>3. System \subseteq m
    BY <2>2 DEF NewFile
  <2>4. GoodAt(s, h) /\ h # Junk
    <3>1. s \in Sector \ System /\ h \in Header
      BY DEF NewFile
    <3>2. \A j \in DOMAIN h.dataSectors : h.dataSectors[j] \notin System \cup {s}
      BY <2>2 DEF NewFile
    <3>3. \A j, l \in DOMAIN h.dataSectors : h.dataSectors[j] = h.dataSectors[l] => j = l
      BY DEF NewFile
    <3>. QED BY <3>1, <3>2, <3>3, GoodHeader
  <2>5. /\ GoodAt(MapSec, [kind |-> "map", used |-> m])
        /\ GoodAt(DirSec1, [kind |-> "dir", table |-> t])
        /\ GoodAt(DirSec2, [kind |-> "dir", table |-> t])
    BY <2>1, <2>3, GoodContents
  <2>6. [kind |-> "map", used |-> m] # Junk /\ [kind |-> "dir", table |-> t] # Junk
    BY DEF Junk
  <2>7. ASSUME NEW i \in 1..4 PROVE GoodAt(p[i].sector, p[i].content) /\ p[i].content # Junk
    <3>1. CASE i = 1
      BY <1>1, <1>2, <2>4, <3>1, Zenon
    <3>2. CASE i = 2
      BY <1>1, <1>2, <2>5, <2>6, <3>2, Zenon
    <3>3. CASE i = 3
      BY <1>1, <1>2, <2>5, <2>6, <3>3, Zenon
    <3>4. CASE i = 4
      BY <1>1, <1>2, <2>5, <2>6, <3>4, Zenon
    <3>. QED BY <1>3, <3>1, <3>2, <3>3, <3>4
  <2>. QED BY <1>5, <2>7 DEF GoodWrites
<1>8. Remains(p, Order("create", s))
  <2>. DEFINE o == Order("create", s)
  <2>1. Len(o) = 4 /\ o[1] = s /\ o[2] = DirSec1 /\ o[3] = DirSec2 /\ o[4] = MapSec
    BY OrderFacts
  <2>. HIDE DEF o
  <2>2. ASSUME NEW i \in 1..4 PROVE p[i].sector = o[i + 4 - 4]
    <3>1. i + 4 - 4 = i
      OBVIOUS
    <3>. QED BY <1>1, <1>3, <2>1, <3>1
  <2>3. Remains(p, o)
    BY <1>5, <2>1, <2>2 DEF Remains
  <2>. QED BY <2>3 DEF o
<1>. DEFINE a == Flush(disk, p)
<1>9. /\ a \in [Sector -> Content]
      /\ \A i \in 1..4 : a[p[i].sector] = p[i].content
      /\ \A x \in Sector : (\A i \in 1..4 : p[i].sector # x) => a[x] = disk[x]
  <2>1. /\ a \in [Sector -> Content]
        /\ \A i \in 1..Len(p) : a[p[i].sector] = p[i].content
        /\ \A x \in Sector : (\A i \in 1..Len(p) : p[i].sector # x) => a[x] = disk[x]
    BY <1>5, <1>6, FlushFacts DEF GoodDisk
  <2>. QED BY <1>5, <2>1
<1>. HIDE DEF a
<1>10. a[s] = h /\ a[DirSec1].table = t /\ a[DirSec2].table = t /\ a[MapSec].used = m
  <2>1. 1 \in 1..4 /\ 2 \in 1..4 /\ 3 \in 1..4 /\ 4 \in 1..4
    OBVIOUS
  <2>2. /\ a[s] = h /\ a[DirSec1] = [kind |-> "dir", table |-> t]
        /\ a[DirSec2] = [kind |-> "dir", table |-> t] /\ a[MapSec] = [kind |-> "map", used |-> m]
    BY <1>1, <1>2, <1>9, <2>1, Zenon
  <2>. QED BY <2>2
<1>11. \A x \in Sector : x \notin {s, DirSec1, DirSec2, MapSec} => a[x] = disk[x]
  BY <1>1, <1>3, <1>9
<1>12. WithFile(a, disk, s, h, t, m)
  BY <1>9, <1>10, <1>11 DEF WithFile
<1>. QED BY <1>6, <1>7, <1>8, <1>12 DEF a

\* The directory and the bitmap of the disk with the new file.
LEMMA WithFileShape ==
  ASSUME NEW n, NEW s, NEW h, NEW k, NEW t, NEW m, NewFile(n, s, h, k, t, m),
         NEW a, NEW d, WithFile(a, d, s, h, t, m)
  PROVE  Tab(a) = t /\ Used(a) = m /\ Tab(a)[k].sector = s
<1>1. t \in Table /\ t[k].sector = s
  BY DEF NewFile
<1>2. Tab(a) = t
  BY <1>1, TabOf DEF WithFile
<1>3. Used(a) = m
  BY DEF WithFile, Used, FetchMap, MapSec
<1>. QED BY <1>1, <1>2, <1>3

\* A Create begins.
LEMMA BaseCreate ==
  ASSUME FSBase, NEW n \in Name, NEW z \in FileSize, Create(n, z)
  PROVE  FSBase'
<1>0. /\ Known /\ disk' = disk /\ up' = up /\ freeMapFile' = freeMapFile
      /\ directoryFile' = directoryFile /\ handles' = handles /\ damaged' = damaged /\ astray' = astray
      /\ written' = [written EXCEPT ![n] = [i \in 1..divRoundUp(z, SectorSize) |-> NoName]]
  BY DEF Create
<1>1. /\ up /\ freeMapFile = MapHdr /\ directoryFile = DirHdr /\ GoodDisk(disk) /\ Present(disk)
  BY <1>0, ReadyFacts
<1>2. PICK s, h, k, t, m :
            /\ NewFile(n, s, h, k, t, m)
            /\ op' = [kind |-> "create", name |-> n, slot |-> k]
            /\ CreatePending(pending', s, h, t, m)
  BY CreateBegins
<1>. DEFINE p == pending'
<1>3. /\ Distinct(p) /\ GoodWrites(p) /\ Remains(p, Order("create", s))
      /\ WithFile(Flush(disk, p), disk, s, h, t, m)
  BY <1>1, <1>2, NewFileWrites
<1>4. Tab(Flush(disk, p))[k].sector = s
  BY <1>2, <1>3, WithFileShape
<1>5. After' = Flush(disk, p)
  BY <1>0 DEF After
<1>6. op'.kind = "create" /\ op'.slot = k
  BY <1>2
<1>7. Remains(pending', Order(op'.kind, Tab(After')[op'.slot].sector))
  BY <1>3, <1>4, <1>5, <1>6
<1>8. op' # Idle /\ pending' # << >>
  <2>1. op' # Idle
    BY <1>6 DEF Idle
  <2>2. Len(pending') = 4
    BY <1>2 DEF CreatePending
  <2>. QED BY <2>1, <2>2
<1>9. FSTypes'
  <2>1. op' \in Operation
    <3>1. "create" \in Kinds /\ k \in 0..NumDirEntries /\ n \in Name \cup {NoName}
      BY <1>2 DEF Kinds, NewFile
    <3>2. [kind |-> "create", name |-> n, slot |-> k] \in Operation
      BY <3>1, OperationType, Zenon
    <3>. QED BY <1>2, <3>2, Zenon
  <2>2. written' = [i \in Name |-> written'[i]]
    <3>1. written = [i \in Name |-> written[i]]
      BY DEF FSBase, FSTypes
    <3>. QED BY <1>0, <3>1
  <2>3. pending' \in Seq(Write)
    BY <1>2 DEF CreatePending
  <2>. QED BY <1>0, <2>1, <2>2, <2>3 DEF FSBase, FSTypes
<1>10. FSBasics'
  <2>1. GoodDisk(disk') /\ Present(disk') /\ up' /\ freeMapFile' = MapHdr /\ directoryFile' = DirHdr
        /\ Distinct(pending') /\ GoodWrites(pending')
    BY <1>0, <1>1, <1>3
  <2>2. \A g \in handles' : \A j \in Blocks(g.hdr) : g.hdr.dataSectors[j] \notin System
    BY <1>0 DEF FSBase, FSBasics
  <2>3. op'.kind # "idle" /\ op'.kind # "format" /\ ~astray'
    BY <1>0, <1>6 DEF Known
  <2>. QED BY <1>7, <1>8, <2>1, <2>2, <2>3 DEF FSBasics
<1>11. Formatting'
  <2>1. op'.kind # "format"
    BY <1>6
  <2>. QED BY <2>1 DEF Formatting
<1>. QED BY <1>9, <1>10, <1>11 DEF FSBase

\* What Remove has computed: the entry k of the file, its table without it, and
\* its bitmap m.
OldFile(n, k, t, m) ==
    /\ k \in 1..NumDirEntries /\ k \in InUse(Tab(disk)) /\ Tab(disk)[k].name = n
    /\ disk[Tab(disk)[k].sector].kind = "hdr"
    /\ t \in Table /\ ~t[k].inUse
    /\ \A i \in 1..NumDirEntries : i # k => t[i] = Tab(disk)[i]
    /\ m \in SUBSET Sector /\ m = Used(disk) \ FileAt(disk, k)

\* Its writes.
RemovePending(p, t, m) ==
    /\ p \in Seq(Write) /\ Len(p) = 3
    /\ p[1] = [sector |-> MapSec, content |-> [kind |-> "map", used |-> m]]
    /\ p[2] = [sector |-> DirSec1, content |-> [kind |-> "dir", table |-> t]]
    /\ p[3] = [sector |-> DirSec2, content |-> [kind |-> "dir", table |-> t]]

\* Disk a is disk d with the table t and the bitmap m.
WithTable(a, d, t, m) ==
    /\ a \in [Sector -> Content]
    /\ a[DirSec1].table = t /\ a[DirSec2].table = t
    /\ a[MapSec].used = m
    /\ \A x \in Sector : x \notin {DirSec1, DirSec2, MapSec} => a[x] = d[x]

\* What a Remove is about to write.
LEMMA RemoveBegins ==
  ASSUME FSBase, NEW n \in Name, RemoveFile(n)
  PROVE  \E k, t, m :
            /\ OldFile(n, k, t, m)
            /\ op' = [kind |-> "remove", name |-> n, slot |-> k]
            /\ RemovePending(pending', t, m)
<1>0. Known
  BY DEF RemoveFile
<1>1. /\ freeMapFile = MapHdr /\ directoryFile = DirHdr
      /\ table = Tab(disk) /\ freeMap = Used(disk) /\ GoodDisk(disk) /\ Present(disk)
  BY <1>0, ReadyFacts
<1>2. /\ Used(disk) \in SUBSET Sector /\ System \subseteq Used(disk) /\ Tab(disk) \in Table
  BY <1>1, DiskShape
<1>. DEFINE s == Find(Tab(disk), n)
            k == Min(FindIndex(Tab(disk), n))
            t == RemoveEntry(Tab(disk), n)
            m == Clear(Deallocate(Used(disk), disk[s]), s)
<1>3. /\ s # -1 /\ disk[s].kind = "hdr"
      /\ pending' = RemoveWrites(t, m)
      /\ op' = [kind |-> "remove", name |-> n, slot |-> k]
  BY <1>1 DEF RemoveFile
<1>4. /\ k \in 1..NumDirEntries /\ k \in InUse(Tab(disk)) /\ Tab(disk)[k].name = n
      /\ s = Tab(disk)[k].sector
  BY <1>2, <1>3, FindFacts
<1>5. /\ t \in Table /\ ~t[k].inUse
      /\ \A i \in 1..NumDirEntries : i # k => t[i] = Tab(disk)[i]
  BY <1>2, <1>3, RemoveEntryFacts
<1>. HIDE DEF s, k, t
<1>6. m \in SUBSET Sector /\ m = Used(disk) \ FileAt(disk, k)
  <2>1. FileAt(disk, k) = {s} \cup DataSectors(disk[s])
    BY <1>3, <1>4 DEF FileAt, FileSectors
  <2>. QED BY <1>2, <2>1 DEF Clear, Deallocate
<1>. HIDE DEF m
<1>7. OldFile(n, k, t, m)
  BY <1>3, <1>4, <1>5, <1>6 DEF OldFile
<1>. DEFINE a == [sector |-> MapSec, content |-> [kind |-> "map", used |-> m]]
            b == [sector |-> DirSec1, content |-> [kind |-> "dir", table |-> t]]
            c == [sector |-> DirSec2, content |-> [kind |-> "dir", table |-> t]]
<1>8. pending' = <<a>> \o <<b, c>>
  BY <1>1, <1>3, DirectoryWritesAre DEF RemoveWrites, MapWrites, MapSec
<1>9. a \in Write /\ b \in Write /\ c \in Write
  <2>1. MapSec \in Sector /\ DirSec1 \in Sector /\ DirSec2 \in Sector
    BY SystemLayout DEF System
  <2>2. [kind |-> "map", used |-> m] \in Content /\ [kind |-> "dir", table |-> t] \in Content
    BY <1>5, <1>6, WriteTypes
  <2>. QED BY <2>1, <2>2, WriteTypes
<1>10. /\ pending' \in Seq(Write) /\ Len(pending') = 3 /\ pending'[1] = a /\ pending'[2] = b
       /\ pending'[3] = c
  <2>. HIDE DEF a, b, c
  <2>. DEFINE p == <<a>> \o <<b, c>>
  <2>1. p \in Seq(Write) /\ Len(p) = 3 /\ p[1] = a /\ p[2] = b /\ p[3] = c
    BY <1>9, ThreeWrites
  <2>2. pending' = p
    BY <1>8
  <2>. HIDE DEF p
  <2>. QED BY <2>1, <2>2
<1>11. RemovePending(pending', t, m)
  BY <1>10 DEF RemovePending
<1>. QED BY <1>3, <1>7, <1>11, Zenon

\* These writes make the disk without the file.
LEMMA OldFileWrites ==
  ASSUME GoodDisk(disk), Present(disk),
         NEW n, NEW k, NEW t, NEW m, OldFile(n, k, t, m),
         NEW p, RemovePending(p, t, m)
  PROVE  /\ Distinct(p) /\ GoodWrites(p) /\ (\A x : Remains(p, Order("remove", x)))
         /\ WithTable(Flush(disk, p), disk, t, m)
         /\ Tab(Flush(disk, p)) = t /\ Used(Flush(disk, p)) = m
<1>1. p[1].sector = MapSec /\ p[2].sector = DirSec1 /\ p[3].sector = DirSec2
  BY DEF RemovePending
<1>2. /\ p[1].content = [kind |-> "map", used |-> m] /\ p[2].content = [kind |-> "dir", table |-> t]
      /\ p[3].content = [kind |-> "dir", table |-> t]
  BY DEF RemovePending
<1>3. \A i \in 1..3 : i = 1 \/ i = 2 \/ i = 3
  OBVIOUS
<1>4. DirSec1 # DirSec2 /\ DirSec1 # MapSec /\ DirSec2 # MapSec
  BY SystemLayout
<1>5. Len(p) = 3 /\ p \in Seq(Write)
  BY DEF RemovePending
<1>6. Distinct(p)
  BY <1>1, <1>3, <1>4, <1>5 DEF Distinct
<1>7. GoodWrites(p)
  <2>1. \A i \in 1..NumDirEntries : t[i].inUse => t[i].sector \notin System
    <3>1. ASSUME NEW i \in 1..NumDirEntries, t[i].inUse PROVE t[i].sector \notin System
      <4>1. i # k
        BY <3>1 DEF OldFile
      <4>2. t[i] = Tab(disk)[i]
        BY <4>1 DEF OldFile
      <4>3. i \in InUse(Tab(disk))
        BY <3>1, <4>2, TabFields DEF InUse
      <4>4. Tab(disk)[i].sector \notin System
        BY <4>3, DiskShape
      <4>. QED BY <4>2, <4>4
    <3>. QED BY <3>1
  <2>2. System \subseteq Used(disk)
    BY DiskShape
  <2>3. System \subseteq m
    <3>1. k \in InUse(Tab(disk)) /\ m = Used(disk) \ FileAt(disk, k)
      BY DEF OldFile
    <3>2. FileAt(disk, k) \cap System = {}
      BY <3>1, FilesSpareSystem
    <3>. QED BY <2>2, <3>1, <3>2
  <2>5. /\ GoodAt(MapSec, [kind |-> "map", used |-> m])
        /\ GoodAt(DirSec1, [kind |-> "dir", table |-> t])
        /\ GoodAt(DirSec2, [kind |-> "dir", table |-> t])
    BY <2>1, <2>3, GoodContents
  <2>6. [kind |-> "map", used |-> m] # Junk /\ [kind |-> "dir", table |-> t] # Junk
    BY DEF Junk
  <2>7. ASSUME NEW i \in 1..3 PROVE GoodAt(p[i].sector, p[i].content) /\ p[i].content # Junk
    <3>1. CASE i = 1
      BY <1>1, <1>2, <2>5, <2>6, <3>1, Zenon
    <3>2. CASE i = 2
      BY <1>1, <1>2, <2>5, <2>6, <3>2, Zenon
    <3>3. CASE i = 3
      BY <1>1, <1>2, <2>5, <2>6, <3>3, Zenon
    <3>. QED BY <1>3, <3>1, <3>2, <3>3
  <2>. QED BY <1>5, <2>7 DEF GoodWrites
<1>8. ASSUME NEW x PROVE Remains(p, Order("remove", x))
  <2>. DEFINE o == Order("remove", x)
  <2>1. Len(o) = 3 /\ o[1] = MapSec /\ o[2] = DirSec1 /\ o[3] = DirSec2
    BY OrderFacts
  <2>. HIDE DEF o
  <2>2. ASSUME NEW i \in 1..3 PROVE p[i].sector = o[i + 3 - 3]
    <3>1. i + 3 - 3 = i
      OBVIOUS
    <3>. QED BY <1>1, <1>3, <2>1, <3>1
  <2>3. Remains(p, o)
    BY <1>5, <2>1, <2>2 DEF Remains
  <2>. QED BY <2>3 DEF o
<1>. DEFINE a == Flush(disk, p)
<1>9. /\ a \in [Sector -> Content]
      /\ \A i \in 1..3 : a[p[i].sector] = p[i].content
      /\ \A x \in Sector : (\A i \in 1..3 : p[i].sector # x) => a[x] = disk[x]
  <2>1. /\ a \in [Sector -> Content]
        /\ \A i \in 1..Len(p) : a[p[i].sector] = p[i].content
        /\ \A x \in Sector : (\A i \in 1..Len(p) : p[i].sector # x) => a[x] = disk[x]
    BY <1>5, <1>6, FlushFacts DEF GoodDisk
  <2>. QED BY <1>5, <2>1
<1>. HIDE DEF a
<1>10. a[DirSec1].table = t /\ a[DirSec2].table = t /\ a[MapSec].used = m
  <2>1. 1 \in 1..3 /\ 2 \in 1..3 /\ 3 \in 1..3
    OBVIOUS
  <2>2. /\ a[DirSec1] = [kind |-> "dir", table |-> t]
        /\ a[DirSec2] = [kind |-> "dir", table |-> t] /\ a[MapSec] = [kind |-> "map", used |-> m]
    BY <1>1, <1>2, <1>9, <2>1, Zenon
  <2>. QED BY <2>2
<1>11. \A x \in Sector : x \notin {DirSec1, DirSec2, MapSec} => a[x] = disk[x]
  BY <1>1, <1>3, <1>9
<1>12. WithTable(a, disk, t, m)
  BY <1>9, <1>10, <1>11 DEF WithTable
<1>13. t \in Table
  BY DEF OldFile
<1>14. Tab(a) = t
  BY <1>10, <1>13, TabOf
<1>15. Used(a) = m
  BY <1>10 DEF Used, FetchMap, MapSec
<1>. QED BY <1>6, <1>7, <1>8, <1>12, <1>14, <1>15 DEF a

\* A Remove begins.
LEMMA BaseRemove ==
  ASSUME FSBase, NEW n \in Name, RemoveFile(n)
  PROVE  FSBase'
<1>0. /\ Known /\ disk' = disk /\ up' = up /\ freeMapFile' = freeMapFile
      /\ directoryFile' = directoryFile /\ handles' = handles /\ damaged' = damaged /\ astray' = astray
      /\ written' = written
  BY DEF RemoveFile
<1>1. /\ up /\ freeMapFile = MapHdr /\ directoryFile = DirHdr /\ GoodDisk(disk) /\ Present(disk)
  BY <1>0, ReadyFacts
<1>2. PICK k, t, m :
            /\ OldFile(n, k, t, m)
            /\ op' = [kind |-> "remove", name |-> n, slot |-> k]
            /\ RemovePending(pending', t, m)
  BY RemoveBegins
<1>. DEFINE p == pending'
<1>3. /\ Distinct(p) /\ GoodWrites(p) /\ (\A x : Remains(p, Order("remove", x)))
      /\ WithTable(Flush(disk, p), disk, t, m)
      /\ Tab(Flush(disk, p)) = t /\ Used(Flush(disk, p)) = m
  BY <1>1, <1>2, OldFileWrites
<1>6. op'.kind = "remove" /\ op'.slot = k
  BY <1>2
<1>7. Remains(pending', Order(op'.kind, Tab(After')[op'.slot].sector))
  BY <1>3, <1>6
<1>8. op' # Idle /\ pending' # << >>
  <2>1. op' # Idle
    BY <1>6 DEF Idle
  <2>2. Len(pending') = 3
    BY <1>2 DEF RemovePending
  <2>. QED BY <2>1, <2>2
<1>9. FSTypes'
  <2>1. op' \in Operation
    <3>1. "remove" \in Kinds /\ k \in 0..NumDirEntries /\ n \in Name \cup {NoName}
      BY <1>2 DEF Kinds, OldFile
    <3>2. [kind |-> "remove", name |-> n, slot |-> k] \in Operation
      BY <3>1, OperationType, Zenon
    <3>. QED BY <1>2, <3>2, Zenon
  <2>3. pending' \in Seq(Write)
    BY <1>2 DEF RemovePending
  <2>. QED BY <1>0, <2>1, <2>3 DEF FSBase, FSTypes
<1>10. FSBasics'
  <2>1. GoodDisk(disk') /\ Present(disk') /\ up' /\ freeMapFile' = MapHdr /\ directoryFile' = DirHdr
        /\ Distinct(pending') /\ GoodWrites(pending')
    BY <1>0, <1>1, <1>3
  <2>2. \A g \in handles' : \A j \in Blocks(g.hdr) : g.hdr.dataSectors[j] \notin System
    BY <1>0 DEF FSBase, FSBasics
  <2>3. op'.kind # "idle" /\ op'.kind # "format" /\ ~astray'
    BY <1>0, <1>6 DEF Known
  <2>. QED BY <1>7, <1>8, <2>1, <2>2, <2>3 DEF FSBasics
<1>11. Formatting'
  <2>1. op'.kind # "format"
    BY <1>6
  <2>. QED BY <2>1 DEF Formatting
<1>. QED BY <1>9, <1>10, <1>11 DEF FSBase

\* Every step keeps the base.
LEMMA BaseStep == FSBase /\ [FSNext]_vars => FSBase'
<1>. SUFFICES ASSUME FSBase, [FSNext]_vars PROVE FSBase'
  OBVIOUS
<1>1. CASE Format \/ Restart \/ WriteSector \/ Crash
  BY <1>1, BaseFormat, BaseRestart, BaseWriteSector, BaseCrash
<1>2. ASSUME NEW n \in Name,
             RemoveFile(n) \/ RemoveMisread(n) \/ Open(n) \/ \E z \in FileSize : Create(n, z)
      PROVE FSBase'
  <2>1. ASSUME RemoveMisread(n) PROVE FSBase'
    BY <2>1, BaseAstray DEF RemoveMisread
  <2>. QED BY <1>2, <2>1, BaseRemove, BaseOpen, BaseCreate
<1>3. ASSUME NEW h \in handles, Close(h) \/ WriteMisread(h) PROVE FSBase'
  <2>1. ASSUME WriteMisread(h) PROVE FSBase'
    BY <2>1, BaseAstray DEF WriteMisread
  <2>. QED BY <1>3, <2>1, BaseClose
<1>4. ASSUME NEW h \in handles, NEW i \in Blocks(h.hdr), NEW v \in Value,
             WriteBlock(h, i, v)
      PROVE FSBase'
  BY <1>4, BaseWriteBlock
<1>5. CASE UNCHANGED vars
  <2>1. /\ disk' = disk /\ up' = up /\ freeMapFile' = freeMapFile /\ directoryFile' = directoryFile
        /\ pending' = pending /\ op' = op /\ handles' = handles /\ written' = written
        /\ damaged' = damaged /\ astray' = astray
    BY <1>5 DEF vars
  <2>2. After' = After
    BY <2>1 DEF After
  <2>3. FSTypes'
    BY <2>1 DEF FSBase, FSTypes
  <2>4. FSBasics'
    BY <2>1, <2>2 DEF FSBase, FSBasics
  <2>5. Formatting'
    BY <2>1, <2>2 DEF FSBase, Formatting
  <2>. QED BY <2>3, <2>4, <2>5 DEF FSBase
<1>. QED BY <1>1, <1>2, <1>3, <1>4, <1>5 DEF FSNext

\* The base says what SystemFilesSurvive says of the system's files.
LEMMA BaseSurvives == FSBase /\ HeadersRead => SystemFilesSurvive
<1>. SUFFICES ASSUME FSBase, HeadersRead PROVE SystemFilesSurvive
  OBVIOUS
<1>1. FSTypeOK
  <2>1. \A i \in DOMAIN pending : pending[i].sector \in Sector
    <3>1. \A i \in DOMAIN pending : pending[i] \in Write
      BY DEF FSBase, FSTypes
    <3>. QED BY <3>1 DEF Write
  <2>2. op.kind \in Kinds /\ op.slot \in 0..NumDirEntries
    BY DEF FSBase, FSTypes, Operation
  <2>. QED BY <2>1, <2>2 DEF FSTypeOK, FSBase, FSTypes, Kinds
<1>2. ASSUME Ready, ~astray
      PROVE  LET system == SystemSectors(freeMapFile, directoryFile) IN
             /\ Mountable(disk)
             /\ system \subseteq freeMap
             /\ \A i \in InUse(table) : FileSectors(disk, table[i].sector) \cap system = {}
  <2>1. /\ freeMapFile = MapHdr /\ directoryFile = DirHdr
        /\ table = Tab(disk) /\ freeMap = Used(disk) /\ GoodDisk(disk) /\ Present(disk)
    BY <1>2, ReadyFacts DEF Known
  <2>2. SystemSectors(freeMapFile, directoryFile) = System
    BY <2>1, SystemLayout
  <2>3. Mountable(disk) /\ System \subseteq Used(disk)
    BY <2>1, MountableIsPresent, DiskShape
  <2>4. \A i \in InUse(Tab(disk)) : FileAt(disk, i) \cap System = {}
    BY <2>1, FilesSpareSystem
  <2>. QED BY <2>1, <2>2, <2>3, <2>4 DEF FileAt
<1>. QED BY <1>1, <1>2 DEF SystemFilesSurvive, HeadersRead

-----------------------------------------------------------------------------
(* Disks whose structures agree                                            *)

\* The sectors that files own.
LEMMA OwnedIs ==
  ASSUME NEW d
  PROVE  /\ \A x : x \in Owned(d) <=> \E i \in InUse(Tab(d)) : x \in FileAt(d, i)
         /\ \A i : i \in InUse(Tab(d)) <=> i \in 1..NumDirEntries /\ Tab(d)[i].inUse
<1>1. \A x : x \in Owned(d) <=> \E i \in InUse(Tab(d)) : x \in FileAt(d, i)
  BY DEF Owned
<1>2. \A i : i \in InUse(Tab(d)) <=> i \in 1..NumDirEntries /\ Tab(d)[i].inUse
  BY TabFields DEF InUse
<1>. QED BY <1>1, <1>2

\* A file owns the sector of its header, and its sectors depend on that one only.
LEMMA FileAtFacts ==
  ASSUME NEW d, NEW i
  PROVE  /\ Tab(d)[i].sector \in FileAt(d, i)
         /\ \A e, j : Tab(e)[j].sector = Tab(d)[i].sector /\ e[Tab(d)[i].sector] = d[Tab(d)[i].sector]
                => FileAt(e, j) = FileAt(d, i)
         /\ d[Tab(d)[i].sector].kind = "hdr" =>
              \A x : x \in FileAt(d, i) <=>
                 \/ x = Tab(d)[i].sector
                 \/ \E k \in DOMAIN d[Tab(d)[i].sector].dataSectors :
                       x = d[Tab(d)[i].sector].dataSectors[k]
<1>1. Tab(d)[i].sector \in FileAt(d, i)
  BY DEF FileAt, FileSectors
<1>2. ASSUME NEW e, NEW j,
             Tab(e)[j].sector = Tab(d)[i].sector, e[Tab(d)[i].sector] = d[Tab(d)[i].sector]
      PROVE  FileAt(e, j) = FileAt(d, i)
  BY <1>2 DEF FileAt, FileSectors
<1>3. ASSUME d[Tab(d)[i].sector].kind = "hdr"
      PROVE  \A x : x \in FileAt(d, i) <=>
                 \/ x = Tab(d)[i].sector
                 \/ \E k \in DOMAIN d[Tab(d)[i].sector].dataSectors :
                       x = d[Tab(d)[i].sector].dataSectors[k]
  <2>. DEFINE s == Tab(d)[i].sector
  <2>1. FileAt(d, i) = FileSectors(d, s) /\ d[s].kind = "hdr"
    BY <1>3 DEF FileAt
  <2>. HIDE DEF s
  <2>2. \A x : x \in FileSectors(d, s) <=>
            x = s \/ (d[s].kind = "hdr" /\ \E k \in DOMAIN d[s].dataSectors : x = d[s].dataSectors[k])
    BY FileSectorsOf
  <2>. QED BY <2>1, <2>2 DEF s
<1>. QED BY <1>1, <1>2, <1>3

\* What an agreeing disk gives for one file.
LEMMA AgreeFacts ==
  ASSUME NEW d, Agree(d)
  PROVE  /\ \A i \in InUse(Tab(d)) : /\ d[Tab(d)[i].sector].kind = "hdr"
                                     /\ FileAt(d, i) \cap System = {}
                                     /\ FileAt(d, i) \subseteq Used(d)
                                     /\ Tab(d)[i].sector \in Used(d)
         /\ \A i, j \in InUse(Tab(d)) : i # j => /\ Tab(d)[i].name # Tab(d)[j].name
                                                 /\ FileAt(d, i) \cap FileAt(d, j) = {}
         /\ \A x : x \in Used(d) <=> x \in System \/ \E i \in InUse(Tab(d)) : x \in FileAt(d, i)
<1>1. \A x : x \in Used(d) <=> x \in System \/ \E i \in InUse(Tab(d)) : x \in FileAt(d, i)
  BY OwnedIs DEF Agree
<1>2. ASSUME NEW i \in InUse(Tab(d)) PROVE FileAt(d, i) \subseteq Used(d) /\ Tab(d)[i].sector \in Used(d)
  BY <1>1, FileAtFacts
<1>. QED BY <1>1, <1>2 DEF Agree

\* The converse.
LEMMA AgreeIf ==
  ASSUME NEW d,
         \A i \in InUse(Tab(d)) : d[Tab(d)[i].sector].kind = "hdr" /\ FileAt(d, i) \cap System = {},
         \A i, j \in InUse(Tab(d)) : i # j => /\ Tab(d)[i].name # Tab(d)[j].name
                                              /\ FileAt(d, i) \cap FileAt(d, j) = {},
         \A x : x \in Used(d) <=> x \in System \/ \E i \in InUse(Tab(d)) : x \in FileAt(d, i)
  PROVE  Agree(d)
<1>1. Used(d) = System \cup Owned(d)
  BY OwnedIs
<1>. QED BY <1>1 DEF Agree

\* A newly formatted disk agrees.
LEMMA AgreeFormatted ==
  ASSUME NEW d, Used(d) = System, d[DirSec1].table = EmptyTable, d[DirSec2].table = EmptyTable
  PROVE  Agree(d) /\ InUse(Tab(d)) = {}
<1>1. Tab(d) = EmptyTable
  BY TabOf, WriteTypes
<1>2. InUse(Tab(d)) = {}
  BY <1>1 DEF InUse, EmptyTable
<1>. QED BY <1>2, AgreeIf

\* Create: the file's sectors were clear, the other files keep theirs.
LEMMA AgreeCreated ==
  ASSUME GoodDisk(disk), Present(disk), Agree(disk),
         NEW n, NEW s, NEW h, NEW k, NEW t, NEW m, NewFile(n, s, h, k, t, m),
         NEW a, WithFile(a, disk, s, h, t, m)
  PROVE  /\ Agree(a)
         /\ \A i : i \in InUse(Tab(a)) <=> i = k \/ i \in InUse(Tab(disk))
         /\ \A i \in InUse(Tab(disk)) : /\ a[Tab(a)[i].sector] = disk[Tab(disk)[i].sector]
                                        /\ FileAt(a, i) = FileAt(disk, i)
         /\ FileAt(a, k) \cap Used(disk) = {}
         /\ Used(a) = Used(disk) \cup FileAt(a, k)
<1>1. Tab(a) = t /\ Used(a) = m /\ Tab(a)[k].sector = s
  BY WithFileShape
<1>2. /\ s \in Sector /\ s \notin Used(disk) /\ s \notin System /\ h.kind = "hdr" /\ a[s] = h
      /\ k \in 1..NumDirEntries /\ ~Tab(disk)[k].inUse /\ t[k].inUse /\ t[k].name = n
      /\ \A i \in 1..NumDirEntries : i # k => t[i] = Tab(disk)[i]
      /\ \A i \in 1..NumDirEntries : Tab(disk)[i].inUse => Tab(disk)[i].name # n
      /\ m = Used(disk) \cup {s} \cup DataSectors(h)
      /\ \A x \in Sector : x \notin {s, DirSec1, DirSec2, MapSec} => a[x] = disk[x]
  BY DEF NewFile, WithFile
<1>3. \A i : i \in InUse(Tab(a)) <=> i = k \/ i \in InUse(Tab(disk))
  BY <1>1, <1>2, OwnedIs
<1>4. k \notin InUse(Tab(disk))
  BY <1>2, OwnedIs
<1>5. ASSUME NEW i \in InUse(Tab(disk))
      PROVE  /\ Tab(a)[i] = Tab(disk)[i] /\ a[Tab(a)[i].sector] = disk[Tab(disk)[i].sector]
             /\ FileAt(a, i) = FileAt(disk, i)
  <2>1. Tab(a)[i] = Tab(disk)[i]
    BY <1>1, <1>2, <1>4, OwnedIs
  <2>. DEFINE y == Tab(disk)[i].sector
  <2>2. y \in Used(disk) /\ y \in Sector \ System
    BY AgreeFacts, DiskShape
  <2>3. a[y] = disk[y]
    BY <1>2, <2>2 DEF System
  <2>. QED BY <2>1, <2>3, FileAtFacts
<1>6. FileAt(a, k) = {s} \cup DataSectors(h)
  BY <1>1, <1>2 DEF FileAt, FileSectors
<1>7. FileAt(a, k) \cap Used(disk) = {}
  <2>1. DataSectors(h) \cap Used(disk) = {}
    BY DEF NewFile, DataSectors, ToSet
  <2>. QED BY <1>2, <1>6, <2>1
<1>8. Used(a) = Used(disk) \cup FileAt(a, k)
  BY <1>1, <1>2, <1>6
<1>9. System \subseteq Used(disk)
  BY DiskShape
<1>10. Agree(a)
  <2>1. \A i \in InUse(Tab(a)) : a[Tab(a)[i].sector].kind = "hdr" /\ FileAt(a, i) \cap System = {}
    <3>1. a[Tab(a)[k].sector].kind = "hdr" /\ FileAt(a, k) \cap System = {}
      BY <1>1, <1>2, <1>7, <1>9
    <3>2. ASSUME NEW i \in InUse(Tab(disk))
          PROVE  a[Tab(a)[i].sector].kind = "hdr" /\ FileAt(a, i) \cap System = {}
      BY <1>5, AgreeFacts
    <3>. QED BY <1>3, <3>1, <3>2
  <2>2. ASSUME NEW i \in InUse(Tab(disk))
        PROVE  Tab(a)[i].name # Tab(a)[k].name /\ FileAt(a, i) \cap FileAt(a, k) = {}
    <3>1. Tab(a)[i].name # n
      BY <1>2, <1>5, OwnedIs
    <3>2. FileAt(a, i) \subseteq Used(disk)
      BY <1>5, AgreeFacts
    <3>. QED BY <1>1, <1>2, <1>7, <3>1, <3>2
  <2>3. ASSUME NEW i \in InUse(Tab(disk)), NEW j \in InUse(Tab(disk)), i # j
        PROVE  Tab(a)[i].name # Tab(a)[j].name /\ FileAt(a, i) \cap FileAt(a, j) = {}
    BY <1>5, <2>3, AgreeFacts
  <2>4. \A i, j \in InUse(Tab(a)) : i # j => /\ Tab(a)[i].name # Tab(a)[j].name
                                             /\ FileAt(a, i) \cap FileAt(a, j) = {}
    BY <1>3, <2>2, <2>3
  <2>5. \A x : x \in Used(a) <=> x \in System \/ \E i \in InUse(Tab(a)) : x \in FileAt(a, i)
    <3>1. \A x : x \in Used(disk) <=> x \in System \/ \E i \in InUse(Tab(disk)) : x \in FileAt(disk, i)
      BY AgreeFacts
    <3>2. \A x : (\E i \in InUse(Tab(a)) : x \in FileAt(a, i)) <=>
                 (x \in FileAt(a, k) \/ \E i \in InUse(Tab(disk)) : x \in FileAt(disk, i))
      BY <1>3, <1>5
    <3>. QED BY <1>8, <3>1, <3>2
  <2>. QED BY <2>1, <2>4, <2>5, AgreeIf
<1>. QED BY <1>3, <1>5, <1>7, <1>8, <1>10

\* Remove: what it clears was the file's alone.
LEMMA AgreeRemoved ==
  ASSUME GoodDisk(disk), Present(disk), Agree(disk),
         NEW n, NEW k, NEW t, NEW m, OldFile(n, k, t, m),
         NEW a, WithTable(a, disk, t, m), Tab(a) = t, Used(a) = m
  PROVE  /\ Agree(a)
         /\ \A i : i \in InUse(Tab(a)) <=> i # k /\ i \in InUse(Tab(disk))
         /\ \A i \in InUse(Tab(a)) : /\ a[Tab(a)[i].sector] = disk[Tab(disk)[i].sector]
                                     /\ FileAt(a, i) = FileAt(disk, i)
         /\ FileAt(disk, k) \cap Used(a) = {}
         /\ Used(disk) = Used(a) \cup FileAt(disk, k)
<1>2. /\ k \in 1..NumDirEntries /\ k \in InUse(Tab(disk)) /\ ~t[k].inUse
      /\ \A i \in 1..NumDirEntries : i # k => t[i] = Tab(disk)[i]
      /\ m = Used(disk) \ FileAt(disk, k)
      /\ \A x \in Sector : x \notin {DirSec1, DirSec2, MapSec} => a[x] = disk[x]
  BY DEF OldFile, WithTable
<1>3. \A i : i \in InUse(Tab(a)) <=> i # k /\ i \in InUse(Tab(disk))
  BY <1>2, OwnedIs
<1>4. FileAt(disk, k) \subseteq Used(disk) /\ FileAt(disk, k) \cap System = {}
  BY <1>2, AgreeFacts
<1>5. ASSUME NEW i \in InUse(Tab(a))
      PROVE  /\ Tab(a)[i] = Tab(disk)[i] /\ a[Tab(a)[i].sector] = disk[Tab(disk)[i].sector]
             /\ FileAt(a, i) = FileAt(disk, i)
  <2>1. Tab(a)[i] = Tab(disk)[i]
    BY <1>2, <1>3, OwnedIs
  <2>. DEFINE y == Tab(disk)[i].sector
  <2>2. y \in Sector \ System
    BY <1>3, DiskShape
  <2>3. a[y] = disk[y]
    BY <1>2, <2>2 DEF System
  <2>. QED BY <2>1, <2>3, FileAtFacts
<1>6. FileAt(disk, k) \cap Used(a) = {} /\ Used(disk) = Used(a) \cup FileAt(disk, k)
  BY <1>2, <1>4
<1>7. Agree(a)
  <2>1. \A i \in InUse(Tab(a)) : a[Tab(a)[i].sector].kind = "hdr" /\ FileAt(a, i) \cap System = {}
    BY <1>3, <1>5, AgreeFacts
  <2>2. \A i, j \in InUse(Tab(a)) : i # j => /\ Tab(a)[i].name # Tab(a)[j].name
                                             /\ FileAt(a, i) \cap FileAt(a, j) = {}
    BY <1>3, <1>5, AgreeFacts
  <2>3. \A x : x \in Used(a) <=> x \in System \/ \E i \in InUse(Tab(a)) : x \in FileAt(a, i)
    <3>1. \A x : x \in Used(disk) <=> x \in System \/ \E i \in InUse(Tab(disk)) : x \in FileAt(disk, i)
      BY AgreeFacts
    <3>2. \A x, i : i \in InUse(Tab(a)) /\ x \in FileAt(a, i) => x \notin FileAt(disk, k)
      BY <1>2, <1>3, <1>5, AgreeFacts
    <3>3. \A x : x \in System => x \notin FileAt(disk, k)
      BY <1>4
    <3>4. \A x : x \in Used(a) <=> x \in Used(disk) /\ x \notin FileAt(disk, k)
      BY <1>2
    <3>5. \A x : x \notin FileAt(disk, k) =>
             ((\E i \in InUse(Tab(a)) : x \in FileAt(a, i)) <=>
              (\E i \in InUse(Tab(disk)) : x \in FileAt(disk, i)))
      BY <1>3, <1>5
    <3>. QED BY <3>1, <3>2, <3>3, <3>4, <3>5
  <2>. QED BY <2>1, <2>2, <2>3, AgreeIf
<1>. QED BY <1>3, <1>5, <1>6, <1>7

\* A client's write changes no header and neither the directory nor the bitmap.
LEMMA AgreeWritten ==
  ASSUME NEW d, GoodDisk(d), Present(d), Agree(d),
         NEW j \in InUse(Tab(d)), NEW l \in DOMAIN d[Tab(d)[j].sector].dataSectors,
         NEW e, NEW x, x = d[Tab(d)[j].sector].dataSectors[l],
         \A s \in Sector : s # x => e[s] = d[s]
  PROVE  /\ Agree(e) /\ Tab(e) = Tab(d) /\ Used(e) = Used(d)
         /\ \A i \in InUse(Tab(d)) : e[Tab(d)[i].sector] = d[Tab(d)[i].sector] /\ FileAt(e, i) = FileAt(d, i)
<1>1. d[Tab(d)[j].sector].kind = "hdr" /\ FileAt(d, j) \cap System = {}
  BY AgreeFacts
<1>2. x \in FileAt(d, j) /\ x \notin System
  BY <1>1, FileAtFacts
<1>3. Tab(e) = Tab(d) /\ Used(e) = Used(d)
  <2>1. /\ DirSec1 \in Sector /\ DirSec2 \in Sector /\ MapSec \in Sector
        /\ x # DirSec1 /\ x # DirSec2 /\ x # MapSec
    BY <1>2, SystemLayout DEF System
  <2>2. e[DirSec1] = d[DirSec1] /\ e[DirSec2] = d[DirSec2] /\ e[MapSec] = d[MapSec]
    BY <2>1
  <2>. QED BY <2>2 DEF Tab, Fetch, Used, FetchMap, MapSec, DirSec1, DirSec2
<1>4. ASSUME NEW i \in InUse(Tab(d))
      PROVE  e[Tab(d)[i].sector] = d[Tab(d)[i].sector] /\ FileAt(e, i) = FileAt(d, i)
  <2>. DEFINE y == Tab(d)[i].sector
  <2>1. y \in Sector /\ y \notin System /\ y \in FileAt(d, i)
    BY DiskShape, FileAtFacts
  <2>2. x # y
    <3>1. CASE i = j
      <4>1. GoodAt(y, d[y]) /\ d[y].kind = "hdr"
        BY <1>1, <2>1, <3>1 DEF GoodDisk
      <4>2. d[y].dataSectors[l] # y
        BY <2>1, <3>1, <4>1 DEF GoodAt
      <4>. QED BY <3>1, <4>2
    <3>2. CASE i # j
      BY <1>2, <2>1, <3>2, AgreeFacts
    <3>. QED BY <3>1, <3>2
  <2>3. e[y] = d[y]
    BY <2>1, <2>2
  <2>. QED BY <1>3, <2>3, FileAtFacts
<1>5. Agree(e)
  <2>1. \A i \in InUse(Tab(e)) : e[Tab(e)[i].sector].kind = "hdr" /\ FileAt(e, i) \cap System = {}
    BY <1>3, <1>4, AgreeFacts
  <2>2. \A i, m \in InUse(Tab(e)) : i # m => /\ Tab(e)[i].name # Tab(e)[m].name
                                             /\ FileAt(e, i) \cap FileAt(e, m) = {}
    BY <1>3, <1>4, AgreeFacts
  <2>3. \A s : s \in Used(e) <=> s \in System \/ \E i \in InUse(Tab(e)) : s \in FileAt(e, i)
    <3>1. \A s : s \in Used(d) <=> s \in System \/ \E i \in InUse(Tab(d)) : s \in FileAt(d, i)
      BY AgreeFacts
    <3>. QED BY <1>3, <1>4, <3>1
  <2>. QED BY <2>1, <2>2, <2>3, AgreeIf
<1>. QED BY <1>3, <1>4, <1>5

-----------------------------------------------------------------------------
(* A disk between two of the writes                                        *)

\* The directory depends on its two sectors.
LEMMA SameTab ==
  ASSUME NEW d, NEW e, e[DirSec1] = d[DirSec1], e[DirSec2] = d[DirSec2]
  PROVE  Tab(e) = Tab(d)
BY DEF Tab, Fetch, DirSec1, DirSec2

\* A directory of which one sector is written and the other not: inUse and
\* sector of an entry are both old or both new.
LEMMA MixedTab ==
  ASSUME NEW d, NEW a, NEW e,
         e[DirSec1] = d[DirSec1] \/ e[DirSec1] = a[DirSec1],
         e[DirSec2] = d[DirSec2] \/ e[DirSec2] = a[DirSec2],
         NEW i \in 1..NumDirEntries
  PROVE  /\ \/ Tab(e)[i].inUse = Tab(d)[i].inUse /\ Tab(e)[i].sector = Tab(d)[i].sector
            \/ Tab(e)[i].inUse = Tab(a)[i].inUse /\ Tab(e)[i].sector = Tab(a)[i].sector
         /\ Tab(d)[i] = Tab(a)[i] => Tab(e)[i] = Tab(d)[i]
<1>1. ASSUME NEW f
      PROVE  /\ Tab(f)[i] = [inUse |-> Tab(f)[i].inUse, sector |-> Tab(f)[i].sector, name |-> Tab(f)[i].name]
             /\ Tab(f)[i].inUse = IF i <= Split THEN f[DirSec1].table[i].inUse ELSE f[DirSec2].table[i].inUse
             /\ Tab(f)[i].sector = IF i <= Split THEN f[DirSec1].table[i].sector ELSE f[DirSec2].table[i].sector
             /\ Tab(f)[i].name = IF i < Split THEN f[DirSec1].table[i].name ELSE f[DirSec2].table[i].name
  <2>1. Tab(f)[i] = [inUse |-> IF i <= Split THEN f[DirSec1].table[i].inUse ELSE f[DirSec2].table[i].inUse,
                     sector |-> IF i <= Split THEN f[DirSec1].table[i].sector ELSE f[DirSec2].table[i].sector,
                     name |-> IF i < Split THEN f[DirSec1].table[i].name ELSE f[DirSec2].table[i].name]
    BY TabFields
  <2>. QED BY <2>1
<1>2. \/ Tab(e)[i].inUse = Tab(d)[i].inUse /\ Tab(e)[i].sector = Tab(d)[i].sector
      \/ Tab(e)[i].inUse = Tab(a)[i].inUse /\ Tab(e)[i].sector = Tab(a)[i].sector
  <2>1. CASE i <= Split
    BY <1>1, <2>1
  <2>2. CASE ~(i <= Split)
    BY <1>1, <2>2
  <2>. QED BY <2>1, <2>2
<1>3. Tab(e)[i].name = Tab(d)[i].name \/ Tab(e)[i].name = Tab(a)[i].name
  <2>1. CASE i < Split
    BY <1>1, <2>1
  <2>2. CASE ~(i < Split)
    BY <1>1, <2>2
  <2>. QED BY <2>1, <2>2
<1>4. ASSUME Tab(d)[i] = Tab(a)[i] PROVE Tab(e)[i] = Tab(d)[i]
  <2>1. /\ Tab(e)[i].inUse = Tab(d)[i].inUse /\ Tab(e)[i].sector = Tab(d)[i].sector
        /\ Tab(e)[i].name = Tab(d)[i].name
    BY <1>2, <1>3, <1>4
  <2>. QED BY <1>1, <2>1, Zenon
<1>. QED BY <1>2, <1>4

\* The disk differs from what it will be in the sectors still to be written.
LEMMA OffPending ==
  ASSUME FSBase, up
  PROVE  LET o == Order(op.kind, Tab(After)[op.slot].sector) IN
         /\ Len(pending) \in Nat /\ Len(pending) <= Len(o)
         /\ \A s \in Sector : disk[s] = After[s] \/ \E n \in 1..Len(pending) : s = o[n + Len(o) - Len(pending)]
<1>. DEFINE o == Order(op.kind, Tab(After)[op.slot].sector)
<1>1. disk \in [Sector -> Content] /\ pending \in Seq(Write) /\ Distinct(pending) /\ Remains(pending, o)
  BY DEF FSBase, FSTypes, FSBasics
<1>2. \A s \in Sector : (\A n \in 1..Len(pending) : pending[n].sector # s) => After[s] = disk[s]
  BY <1>1, FlushFacts DEF After
<1>3. Len(pending) <= Len(o) /\ \A n \in 1..Len(pending) : pending[n].sector = o[n + Len(o) - Len(pending)]
  BY <1>1 DEF Remains
<1>. HIDE DEF o
<1>5. Len(pending) \in Nat
  BY <1>1
<1>4. \A s \in Sector : disk[s] = After[s] \/ \E n \in 1..Len(pending) : s = o[n + Len(o) - Len(pending)]
  BY <1>2, <1>3
<1>. QED BY <1>3, <1>4, <1>5 DEF o

\* The four sectors Create writes; the header is the first.
LEMMA CreateOff ==
  ASSUME FSBase, up, op.kind = "create"
  PROVE  LET y == Tab(After)[op.slot].sector IN
         /\ Len(pending) \in 1..4
         /\ \A s \in Sector : s \notin {y, DirSec1, DirSec2, MapSec} => disk[s] = After[s]
         /\ Len(pending) # 4 => \A s \in Sector : s \notin {DirSec1, DirSec2, MapSec} => disk[s] = After[s]
<1>. DEFINE y == Tab(After)[op.slot].sector
            o == Order(op.kind, y)
            n == Len(pending)
<1>1. /\ n \in Nat /\ n <= Len(o)
      /\ \A s \in Sector : disk[s] = After[s] \/ \E k \in 1..n : s = o[k + Len(o) - n]
  BY OffPending
<1>2. Len(o) = 4 /\ o[1] = y /\ o[2] = DirSec1 /\ o[3] = DirSec2 /\ o[4] = MapSec
  BY OrderFacts
<1>3. n # 0
  <2>1. pending # << >>
    <3>1. op # Idle
      BY DEF Idle
    <3>. QED BY <3>1 DEF FSBase, FSBasics
  <2>2. pending \in Seq(Write)
    BY DEF FSBase, FSTypes
  <2>. QED BY <2>1, <2>2
<1>. HIDE DEF y, o, n
<1>4. ASSUME NEW k \in 1..n
      PROVE  k + Len(o) - n \in 1..4 /\ (n # 4 => k + Len(o) - n # 1)
  BY <1>1, <1>2
<1>5. ASSUME NEW s \in Sector, disk[s] # After[s]
      PROVE  s \in {y, DirSec1, DirSec2, MapSec} /\ (n # 4 => s \in {DirSec1, DirSec2, MapSec})
  <2>1. PICK k \in 1..n : s = o[k + Len(o) - n]
    BY <1>1, <1>5
  <2>. DEFINE j == k + Len(o) - n
  <2>2. j \in 1..4 /\ (n # 4 => j # 1)
    BY <1>4
  <2>. HIDE DEF j
  <2>3. s = o[j]
    BY <2>1 DEF j
  <2>4. j = 1 \/ j = 2 \/ j = 3 \/ j = 4
    BY <2>2
  <2>. QED BY <1>2, <2>2, <2>3, <2>4
<1>6. n \in 1..4
  BY <1>1, <1>2, <1>3
<1>. QED BY <1>5, <1>6 DEF n, y

\* The three sectors Remove writes; the bitmap is the first.
LEMMA RemoveOff ==
  ASSUME FSBase, up, op.kind = "remove"
  PROVE  /\ Len(pending) \in 1..3
         /\ \A s \in Sector : s \notin {DirSec1, DirSec2, MapSec} => disk[s] = After[s]
         /\ Len(pending) # 3 => disk[MapSec] = After[MapSec]
<1>. DEFINE y == Tab(After)[op.slot].sector
            o == Order(op.kind, y)
            n == Len(pending)
<1>1. /\ n \in Nat /\ n <= Len(o)
      /\ \A s \in Sector : disk[s] = After[s] \/ \E k \in 1..n : s = o[k + Len(o) - n]
  BY OffPending
<1>2. Len(o) = 3 /\ o[1] = MapSec /\ o[2] = DirSec1 /\ o[3] = DirSec2
  BY OrderFacts
<1>3. n # 0
  <2>1. pending # << >>
    <3>1. op # Idle
      BY DEF Idle
    <3>. QED BY <3>1 DEF FSBase, FSBasics
  <2>2. pending \in Seq(Write)
    BY DEF FSBase, FSTypes
  <2>. QED BY <2>1, <2>2
<1>. HIDE DEF y, o, n
<1>4. ASSUME NEW k \in 1..n
      PROVE  k + Len(o) - n \in 1..3 /\ (n # 3 => k + Len(o) - n # 1)
  BY <1>1, <1>2
<1>5. ASSUME NEW s \in Sector, disk[s] # After[s]
      PROVE  s \in {DirSec1, DirSec2, MapSec} /\ (n # 3 => s \in {DirSec1, DirSec2})
  <2>1. PICK k \in 1..n : s = o[k + Len(o) - n]
    BY <1>1, <1>5
  <2>. DEFINE j == k + Len(o) - n
  <2>2. j \in 1..3 /\ (n # 3 => j # 1)
    BY <1>4
  <2>. HIDE DEF j
  <2>3. s = o[j]
    BY <2>1 DEF j
  <2>4. j = 1 \/ j = 2 \/ j = 3
    BY <2>2
  <2>. QED BY <1>2, <2>2, <2>3, <2>4
<1>6. n \in 1..3
  BY <1>1, <1>2, <1>3
<1>7. MapSec \in Sector /\ MapSec \notin {DirSec1, DirSec2}
  BY SystemLayout DEF System
<1>. QED BY <1>5, <1>6, <1>7 DEF n

\* The disk, the bitmap and the directory when CrashHarmsOneFile is about them.
LEMMA FormattedFacts ==
  ASSUME FSBase, op.kind # "format", ~astray
  PROVE  /\ freeMapFile = MapHdr /\ directoryFile = DirHdr
         /\ table = Tab(disk) /\ freeMap = Used(disk)
         /\ SystemSectors(freeMapFile, directoryFile) = System
         /\ GoodDisk(disk) /\ Present(disk)
<1>1. freeMapFile = MapHdr /\ directoryFile = DirHdr /\ GoodDisk(disk) /\ Present(disk)
  BY DEF FSBase, FSBasics
<1>. QED BY <1>1, SystemLayout DEF table, freeMap, Tab, Used

\* CrashHarmsOneFile from what it says of the directory entries.
LEMMA HarmsOneIf ==
  ASSUME FSBase, HeadersRead,
         Formatted => \A x \in Used(disk) : x \in System \/ \E i \in InUse(Tab(disk)) : x \in FileAt(disk, i),
         Formatted => \A i \in InUse(Tab(disk)) \ {op.slot} :
             /\ disk[Tab(disk)[i].sector].kind = "hdr"
             /\ FileAt(disk, i) \subseteq Used(disk)
             /\ \A j \in InUse(Tab(disk)) \ {i} : FileAt(disk, i) \cap FileAt(disk, j) = {}
  PROVE  CrashHarmsOneFile
<1>1. SUFFICES ASSUME Formatted PROVE CrashHarmsOneFile
  BY DEF CrashHarmsOneFile, CrashLeaksNothing, CrashSparesOthers
<1>2. /\ table = Tab(disk) /\ freeMap = Used(disk)
      /\ SystemSectors(freeMapFile, directoryFile) = System
  BY <1>1, FormattedFacts DEF Formatted, HeadersRead
<1>3. OwnedOnDisk = Owned(disk)
  BY <1>2 DEF OwnedOnDisk, Owned, FileAt
<1>4. CrashLeaksNothing
  <2>1. Used(disk) \subseteq System \cup Owned(disk)
    BY <1>1, OwnedIs
  <2>. QED BY <1>2, <1>3, <2>1 DEF CrashLeaksNothing
<1>5. CrashSparesOthers
  <2>1. \A i \in InUse(Tab(disk)) \ {op.slot} :
             /\ disk[Tab(disk)[i].sector].kind = "hdr"
             /\ FileSectors(disk, Tab(disk)[i].sector) \subseteq Used(disk)
             /\ \A j \in InUse(Tab(disk)) \ {i} :
                  FileSectors(disk, Tab(disk)[i].sector) \cap FileSectors(disk, Tab(disk)[j].sector) = {}
    BY <1>1 DEF FileAt
  <2>. QED BY <1>2, <2>1 DEF CrashSparesOthers
<1>. QED BY <1>4, <1>5 DEF CrashHarmsOneFile

\* While a Create is under way: the files that are not under change, and the new
\* one once its entry is written.
LEMMA CreatingFiles ==
  ASSUME FSBase, AfterAgrees, Creating, up, ~damaged, op.kind = "create"
  PROVE  /\ op.slot \in 1..NumDirEntries /\ op.slot \in InUse(Tab(After))
         /\ Agree(After) /\ Used(disk) = Used(After) \ FileAt(After, op.slot)
         /\ \A i \in InUse(Tab(disk)) :
              /\ i \in InUse(Tab(After))
              /\ disk[Tab(disk)[i].sector] = After[Tab(After)[i].sector]
              /\ Tab(disk)[i].sector = Tab(After)[i].sector
              /\ FileAt(disk, i) = FileAt(After, i)
         /\ \A i \in InUse(Tab(After)) : i # op.slot => i \in InUse(Tab(disk))
<1>. DEFINE y == Tab(After)[op.slot].sector
<1>1. /\ op.slot \in 1..NumDirEntries /\ Tab(After)[op.slot].inUse
      /\ \A i \in 1..NumDirEntries : i # op.slot => Tab(disk)[i] = Tab(After)[i]
      /\ Len(pending) >= 3 => ~Tab(disk)[op.slot].inUse
      /\ Tab(disk)[op.slot].inUse => Tab(disk)[op.slot].sector = y
      /\ Used(disk) = Used(After) \ FileAt(After, op.slot)
  BY DEF Creating, OthersWritten
<1>2. Agree(After)
  BY DEF AfterAgrees
<1>3. op.slot \in InUse(Tab(After))
  BY <1>1, OwnedIs
<1>4. GoodDisk(After) /\ Present(After)
  BY FlushGood DEF FSBase, FSTypes, FSBasics, After
<1>5. /\ Len(pending) \in 1..4
      /\ \A s \in Sector : s \notin {y, DirSec1, DirSec2, MapSec} => disk[s] = After[s]
      /\ Len(pending) # 4 => \A s \in Sector : s \notin {DirSec1, DirSec2, MapSec} => disk[s] = After[s]
  BY CreateOff
<1>. HIDE DEF y
<1>6. ASSUME NEW i \in InUse(Tab(disk))
      PROVE  /\ i \in InUse(Tab(After))
             /\ disk[Tab(disk)[i].sector] = After[Tab(After)[i].sector]
             /\ Tab(disk)[i].sector = Tab(After)[i].sector
             /\ FileAt(disk, i) = FileAt(After, i)
  <2>1. i \in 1..NumDirEntries /\ Tab(disk)[i].inUse
    BY OwnedIs
  <2>2. i \in InUse(Tab(After)) /\ Tab(disk)[i].sector = Tab(After)[i].sector
    <3>1. CASE i = op.slot
      BY <1>1, <1>3, <2>1, <3>1 DEF y
    <3>2. CASE i # op.slot
      BY <1>1, <2>1, <3>2, OwnedIs
    <3>. QED BY <3>1, <3>2
  <2>. DEFINE x == Tab(After)[i].sector
  <2>3. x \in Sector /\ x \notin System
    BY <1>4, <2>2, DiskShape
  <2>4. x \notin {DirSec1, DirSec2, MapSec}
    BY <2>3 DEF System
  <2>5. disk[x] = After[x]
    <3>1. CASE i = op.slot
      <4>0. ~(Len(pending) >= 3)
        BY <1>1, <2>1, <3>1, Zenon
      <4>1. Len(pending) # 4
        BY <4>0
      <4>. QED BY <1>5, <2>3, <2>4, <4>1
    <3>2. CASE i # op.slot
      <4>1. FileAt(After, i) \cap FileAt(After, op.slot) = {}
        BY <1>2, <1>3, <2>2, <3>2, AgreeFacts
      <4>2. x \in FileAt(After, i) /\ y \in FileAt(After, op.slot)
        BY FileAtFacts DEF y
      <4>3. x # y
        BY <4>1, <4>2
      <4>. QED BY <1>5, <2>3, <2>4, <4>3
    <3>. QED BY <3>1, <3>2
  <2>6. FileAt(disk, i) = FileAt(After, i)
    BY <2>2, <2>5, FileAtFacts
  <2>. QED BY <2>2, <2>5, <2>6
<1>7. ASSUME NEW i \in InUse(Tab(After)), i # op.slot PROVE i \in InUse(Tab(disk))
  BY <1>1, <1>7, OwnedIs
<1>. QED BY <1>1, <1>2, <1>3, <1>6, <1>7

\* While a Remove is under way: the files that are not under change, and the
\* sectors of the one that is.
LEMMA RemovingFiles ==
  ASSUME FSBase, AfterAgrees, Removing, up, ~damaged, op.kind = "remove"
  PROVE  /\ op.slot \in 1..NumDirEntries /\ op.slot \notin InUse(Tab(After))
         /\ Agree(After)
         /\ op.slot \in InUse(Tab(disk)) => FileAt(disk, op.slot) \cap Used(After) = {}
         /\ \/ Used(disk) = Used(After)
            \/ op.slot \in InUse(Tab(disk)) /\ Used(disk) = Used(After) \cup FileAt(disk, op.slot)
         /\ \A i \in InUse(Tab(disk)) : i # op.slot =>
              /\ i \in InUse(Tab(After))
              /\ disk[Tab(disk)[i].sector] = After[Tab(After)[i].sector]
              /\ Tab(disk)[i].sector = Tab(After)[i].sector
              /\ FileAt(disk, i) = FileAt(After, i)
         /\ \A i \in InUse(Tab(After)) : i \in InUse(Tab(disk))
<1>1. /\ op.slot \in 1..NumDirEntries /\ ~Tab(After)[op.slot].inUse
      /\ \A i \in 1..NumDirEntries : i # op.slot => Tab(disk)[i] = Tab(After)[i]
      /\ Tab(disk)[op.slot].inUse => FileAt(disk, op.slot) \cap Used(After) = {}
      /\ Len(pending) = 3 =>
            Tab(disk)[op.slot].inUse /\ Used(disk) = Used(After) \cup FileAt(disk, op.slot)
  BY DEF Removing, OthersWritten
<1>2. Agree(After)
  BY DEF AfterAgrees
<1>3. op.slot \notin InUse(Tab(After))
  BY <1>1, OwnedIs
<1>4. GoodDisk(After) /\ Present(After)
  BY FlushGood DEF FSBase, FSTypes, FSBasics, After
<1>5. /\ \A s \in Sector : s \notin {DirSec1, DirSec2, MapSec} => disk[s] = After[s]
      /\ Len(pending) # 3 => disk[MapSec] = After[MapSec]
  BY RemoveOff
<1>6. ASSUME NEW i \in InUse(Tab(disk)), i # op.slot
      PROVE  /\ i \in InUse(Tab(After))
             /\ disk[Tab(disk)[i].sector] = After[Tab(After)[i].sector]
             /\ Tab(disk)[i].sector = Tab(After)[i].sector
             /\ FileAt(disk, i) = FileAt(After, i)
  <2>2. i \in InUse(Tab(After)) /\ Tab(disk)[i].sector = Tab(After)[i].sector
    BY <1>1, <1>6, OwnedIs
  <2>. DEFINE x == Tab(After)[i].sector
  <2>3. x \in Sector /\ x \notin System
    BY <1>4, <2>2, DiskShape
  <2>4. disk[x] = After[x]
    BY <1>5, <2>3 DEF System
  <2>5. FileAt(disk, i) = FileAt(After, i)
    BY <2>2, <2>4, FileAtFacts
  <2>. QED BY <2>2, <2>4, <2>5
<1>7. ASSUME NEW i \in InUse(Tab(After)) PROVE i \in InUse(Tab(disk))
  BY <1>1, <1>3, OwnedIs
<1>8. \/ Used(disk) = Used(After)
      \/ op.slot \in InUse(Tab(disk)) /\ Used(disk) = Used(After) \cup FileAt(disk, op.slot)
  <2>1. CASE Len(pending) = 3
    BY <1>1, <2>1, OwnedIs
  <2>2. CASE Len(pending) # 3
    BY <1>5, <2>2 DEF Used, FetchMap, MapSec
  <2>. QED BY <2>1, <2>2
<1>9. op.slot \in InUse(Tab(disk)) => FileAt(disk, op.slot) \cap Used(After) = {}
  BY <1>1, OwnedIs
<1>. QED BY <1>1, <1>2, <1>3, <1>6, <1>7, <1>8, <1>9

\* So a stop now would harm at most the file under change.
LEMMA UpHarmsOne ==
  ASSUME FSBase, AfterAgrees, HeadersRead, Creating, Removing, up \/ op.kind = "idle"
  PROVE  CrashHarmsOneFile
<1>. SUFFICES ASSUME Formatted
     PROVE  /\ \A x \in Used(disk) : x \in System \/ \E i \in InUse(Tab(disk)) : x \in FileAt(disk, i)
            /\ \A i \in InUse(Tab(disk)) \ {op.slot} :
                 /\ disk[Tab(disk)[i].sector].kind = "hdr"
                 /\ FileAt(disk, i) \subseteq Used(disk)
                 /\ \A j \in InUse(Tab(disk)) \ {i} : FileAt(disk, i) \cap FileAt(disk, j) = {}
  BY HarmsOneIf
<1>0. op.kind # "format" /\ ~damaged
  BY DEF Formatted
<1>1. CASE op.kind = "idle"
  <2>1. Agree(disk)
    BY <1>0, <1>1 DEF AfterAgrees
  <2>. QED BY <2>1, AgreeFacts
<1>2. CASE up /\ op.kind = "create"
  <2>1. /\ op.slot \in InUse(Tab(After))
        /\ Agree(After) /\ Used(disk) = Used(After) \ FileAt(After, op.slot)
        /\ \A i \in InUse(Tab(disk)) :
              /\ i \in InUse(Tab(After))
              /\ disk[Tab(disk)[i].sector] = After[Tab(After)[i].sector]
              /\ FileAt(disk, i) = FileAt(After, i)
        /\ \A i \in InUse(Tab(After)) : i # op.slot => i \in InUse(Tab(disk))
    BY <1>0, <1>2, CreatingFiles
  <2>2. \A x \in Used(disk) : x \in System \/ \E i \in InUse(Tab(disk)) : x \in FileAt(disk, i)
    <3>1. \A x : x \in Used(After) <=> x \in System \/ \E i \in InUse(Tab(After)) : x \in FileAt(After, i)
      BY <2>1, AgreeFacts
    <3>. QED BY <2>1, <3>1
  <2>3. ASSUME NEW i \in InUse(Tab(disk)), i # op.slot
        PROVE  /\ disk[Tab(disk)[i].sector].kind = "hdr"
               /\ FileAt(disk, i) \subseteq Used(disk)
    <3>1. /\ After[Tab(After)[i].sector].kind = "hdr" /\ FileAt(After, i) \subseteq Used(After)
          /\ FileAt(After, i) \cap FileAt(After, op.slot) = {}
      BY <2>1, <2>3, AgreeFacts
    <3>. QED BY <2>1, <3>1
  <2>4. \A i, j \in InUse(Tab(disk)) : i # j => FileAt(disk, i) \cap FileAt(disk, j) = {}
    BY <2>1, AgreeFacts
  <2>. QED BY <2>2, <2>3, <2>4
<1>3. CASE up /\ op.kind = "remove"
  <2>1. /\ Agree(After)
        /\ op.slot \in InUse(Tab(disk)) => FileAt(disk, op.slot) \cap Used(After) = {}
        /\ \/ Used(disk) = Used(After)
           \/ op.slot \in InUse(Tab(disk)) /\ Used(disk) = Used(After) \cup FileAt(disk, op.slot)
        /\ \A i \in InUse(Tab(disk)) : i # op.slot =>
              /\ i \in InUse(Tab(After))
              /\ disk[Tab(disk)[i].sector] = After[Tab(After)[i].sector]
              /\ FileAt(disk, i) = FileAt(After, i)
        /\ \A i \in InUse(Tab(After)) : i \in InUse(Tab(disk)) /\ i # op.slot
    BY <1>0, <1>3, RemovingFiles
  <2>2. \A x \in Used(disk) : x \in System \/ \E i \in InUse(Tab(disk)) : x \in FileAt(disk, i)
    <3>1. \A x : x \in Used(After) <=> x \in System \/ \E i \in InUse(Tab(After)) : x \in FileAt(After, i)
      BY <2>1, AgreeFacts
    <3>. QED BY <2>1, <3>1
  <2>3. ASSUME NEW i \in InUse(Tab(disk)), i # op.slot
        PROVE  /\ disk[Tab(disk)[i].sector].kind = "hdr"
               /\ FileAt(disk, i) \subseteq Used(After) /\ FileAt(disk, i) \subseteq Used(disk)
    <3>1. After[Tab(After)[i].sector].kind = "hdr" /\ FileAt(After, i) \subseteq Used(After)
      BY <2>1, <2>3, AgreeFacts
    <3>. QED BY <2>1, <2>3, <3>1
  <2>4. ASSUME NEW i \in InUse(Tab(disk)), i # op.slot, NEW j \in InUse(Tab(disk)), i # j
        PROVE  FileAt(disk, i) \cap FileAt(disk, j) = {}
    <3>1. CASE j = op.slot
      BY <2>1, <2>3, <2>4, <3>1
    <3>2. CASE j # op.slot
      BY <2>1, <2>4, <3>2, AgreeFacts
    <3>. QED BY <3>1, <3>2
  <2>. QED BY <2>2, <2>3, <2>4
<1>4. op.kind \in Kinds
  BY DEF FSBase, FSTypes, Operation
<1>. QED BY <1>0, <1>1, <1>2, <1>3, <1>4 DEF Kinds

-----------------------------------------------------------------------------
(* The inductive step for a disk that no stop has damaged                  *)

\* Nothing is promised of a damaged disk, or when nothing is under way.
LEMMA CleanIf ==
  ASSUME HeadersRead,
         ~damaged =>
            /\ up => Agree(After)
            /\ op.kind = "idle" => Agree(disk)
            /\ up => op.kind # "create" /\ op.kind # "remove"
  PROVE  Clean
BY DEF Clean, AfterAgrees, Creating, Removing

\* At the start nothing is formatted.
LEMMA CleanInit == FSInit => Clean
<1>. SUFFICES ASSUME FSInit PROVE Clean
  OBVIOUS
<1>1. ~up /\ op.kind = "format" /\ ~astray
  BY DEF FSInit, Idle
<1>2. HeadersRead
  BY <1>1 DEF HeadersRead
<1>. QED BY <1>1, <1>2, CleanIf

\* Between operations nothing is left to write.
LEMMA ReadyAfter == FSBase /\ Ready => After = disk /\ op.kind = "idle" /\ GoodDisk(disk)
BY QuietFacts

\* A format begins.
LEMMA CleanFormat == FSBase /\ FSBase' /\ Clean /\ Format => Clean'
<1>. SUFFICES ASSUME FSBase, FSBase', Clean, Format PROVE Clean'
  OBVIOUS
<1>1. up' /\ op'.kind = "format" /\ handles' = {} /\ astray' = astray /\ damaged' = damaged
  BY DEF Format, Idle, FSBase, FSBasics
<1>2. Used(After') = System /\ After'[DirSec1].table = EmptyTable /\ After'[DirSec2].table = EmptyTable
  BY <1>1 DEF FSBase, Formatting
<1>3. PICK a : a = After'
  OBVIOUS
<1>4. Agree(a)
  BY <1>2, <1>3, AgreeFormatted
<1>. QED BY <1>1, <1>3, <1>4 DEF Clean, AfterAgrees, HeadersRead, Creating, Removing

\* Nachos starts on a consistent disk, or on one that counts as damaged.
LEMMA CleanRestart == FSBase /\ FSBase' /\ Clean /\ Restart => Clean'
<1>. SUFFICES ASSUME FSBase, FSBase', Clean, Restart PROVE Clean'
  OBVIOUS
<1>1. /\ ~up /\ up' /\ op' = Idle /\ damaged' = (damaged \/ ~Consistent(disk))
      /\ pending' = pending /\ handles' = handles
      /\ Mountable(disk) => disk' = disk /\ astray' = astray
  BY DEF Restart
<1>2. pending' = << >> /\ handles' = {}
  BY <1>1 DEF FSBase, FSBasics
<1>3. After' = disk' /\ op'.kind = "idle"
  <2>1. Ready'
    BY <1>1, <1>2 DEF Ready
  <2>2. (FSBase /\ Ready => After = disk /\ op.kind = "idle" /\ GoodDisk(disk))'
    BY ReadyAfter, PTL
  <2>. QED BY <2>1, <2>2
<1>4. ~damaged' => ~damaged /\ Consistent(disk) /\ Mountable(disk)
  BY <1>1 DEF Consistent
<1>5. ~damaged' => Agree(disk)
  <2>1. Mountable(disk) => GoodDisk(disk) /\ Present(disk)
    BY MountableIsPresent DEF FSBase, FSBasics
  <2>. QED BY <1>4, <2>1, ConsistentIsAgree
<1>6. HeadersRead'
  BY <1>1, <1>2, <1>4 DEF Clean, HeadersRead
<1>7. ASSUME ~damaged' PROVE disk' = disk /\ After' = disk
  BY <1>1, <1>3, <1>4, <1>7
<1>8. AfterAgrees'
  <2>1. ASSUME ~damaged' PROVE Agree(After') /\ Agree(disk')
    BY <1>5, <1>7, <2>1, Zenon
  <2>. QED BY <2>1 DEF AfterAgrees
<1>. QED BY <1>3, <1>6, <1>8 DEF Clean, Creating, Removing

\* A stop leaves the disk as it is.
LEMMA CleanCrash == Clean /\ Crash => Clean'
<1>. SUFFICES ASSUME Clean, Crash PROVE Clean'
  OBVIOUS
<1>1. ~up' /\ op' = op /\ disk' = disk /\ damaged' = damaged /\ astray' = astray
  BY DEF Crash
<1>. QED BY <1>1 DEF Clean, AfterAgrees, HeadersRead, Creating, Removing

\* A run goes astray only on a damaged disk.
LEMMA CleanAstray ==
  ASSUME FSBase, Known, damaged, Clean, GoAstray,
         UNCHANGED <<up, freeMapFile, directoryFile, pending, op, handles, written, damaged>>
  PROVE  Clean'
<1>1. damaged' = damaged
  OBVIOUS
<1>. QED BY <1>1 DEF Clean, AfterAgrees, HeadersRead, Creating, Removing

\* Remove reads what is no header only on a damaged disk.
LEMMA CleanRemoveMisread ==
  ASSUME NEW n \in Name, FSBase, Clean, RemoveMisread(n)
  PROVE  Clean'
<1>1. /\ Known /\ Find(table, n) # -1 /\ disk[Find(table, n)].kind # "hdr" /\ GoAstray
      /\ UNCHANGED <<up, freeMapFile, directoryFile, pending, op, handles, written, damaged>>
  BY DEF RemoveMisread
<1>2. table = Tab(disk) /\ up /\ op.kind = "idle" /\ GoodDisk(disk) /\ Present(disk)
  BY <1>1, ReadyFacts
<1>3. Tab(disk) \in Table
  BY <1>2, DiskShape
<1>4. \E k \in InUse(Tab(disk)) : Find(table, n) = Tab(disk)[k].sector
  BY <1>1, <1>2, <1>3, FindFacts
<1>5. damaged
  BY <1>1, <1>2, <1>4 DEF Clean, AfterAgrees, Agree
<1>. QED BY <1>1, <1>5, CleanAstray

\* A client writes through a handle of what is no header only on a damaged disk.
LEMMA CleanWriteMisread ==
  ASSUME NEW h \in handles, FSBase, Clean, WriteMisread(h)
  PROVE  Clean'
<1>1. /\ Known /\ h.hdr.kind # "hdr" /\ GoAstray
      /\ UNCHANGED <<up, freeMapFile, directoryFile, pending, op, handles, written, damaged>>
  BY DEF WriteMisread
<1>2. up
  BY <1>1, ReadyFacts
<1>3. damaged
  BY <1>1, <1>2 DEF Clean, HeadersRead
<1>. QED BY <1>1, <1>3, CleanAstray

\* A client opens a file: what the directory leads to is a header.
LEMMA CleanOpen ==
  ASSUME NEW n \in Name, FSBase, Clean, Open(n)
  PROVE  Clean'
<1>. DEFINE new == [name |-> n, hdr |-> disk[Find(table, n)]]
<1>1. /\ Known /\ Find(table, n) # -1 /\ handles' = handles \cup {new}
      /\ disk' = disk /\ up' = up /\ pending' = pending /\ op' = op /\ damaged' = damaged
      /\ astray' = astray
  BY DEF Open
<1>2. table = Tab(disk) /\ up /\ GoodDisk(disk) /\ Present(disk) /\ op.kind = "idle"
  BY <1>1, ReadyFacts
<1>3. After' = After
  BY <1>1 DEF After
<1>4. \E k \in InUse(Tab(disk)) : Find(table, n) = Tab(disk)[k].sector
  <2>1. Tab(disk) \in Table
    BY <1>2, DiskShape
  <2>. QED BY <1>1, <1>2, <2>1, FindFacts
<1>5. ~damaged => new.hdr.kind = "hdr"
  BY <1>2, <1>4 DEF Clean, AfterAgrees, Agree
<1>. HIDE DEF new
<1>6. HeadersRead'
  BY <1>1, <1>2, <1>5 DEF Clean, HeadersRead
<1>7. AfterAgrees'
  BY <1>1, <1>3 DEF Clean, AfterAgrees
<1>. QED BY <1>1, <1>2, <1>6, <1>7 DEF Clean, Creating, Removing

\* A client closes a file.
LEMMA CleanClose ==
  ASSUME NEW h \in handles, Clean, Close(h)
  PROVE  Clean'
<1>1. /\ up' = up /\ op' = op /\ disk' = disk /\ damaged' = damaged /\ pending' = pending
      /\ written' = written /\ handles' = handles \ {h} /\ astray' = astray
  BY DEF Close
<1>2. After' = After
  BY <1>1 DEF After
<1>3. AfterAgrees'
  BY <1>1, <1>2 DEF Clean, AfterAgrees
<1>4. HeadersRead'
  BY <1>1, <1>2 DEF Clean, HeadersRead
<1>5. Creating'
  BY <1>1, <1>2 DEF Clean, Creating, OthersWritten
<1>6. Removing'
  BY <1>1, <1>2 DEF Clean, Removing, OthersWritten
<1>. QED BY <1>3, <1>4, <1>5, <1>6 DEF Clean

\* A client writes a block of a file, which is still in the directory unless the
\* disk counts as damaged now.
LEMMA CleanWriteBlock ==
  ASSUME NEW h \in handles, NEW i \in Blocks(h.hdr), NEW v \in Value,
         FSBase, FSBase', Clean, WriteBlock(h, i, v)
  PROVE  Clean'
<1>1. /\ Known /\ disk' = [disk EXCEPT ![h.hdr.dataSectors[i]] = [kind |-> "data", value |-> v]]
      /\ up' = up /\ pending' = pending /\ op' = op /\ handles' = handles /\ astray' = astray
      /\ damaged' = (damaged \/ ~Current(h))
  BY DEF WriteBlock
<1>2. /\ After = disk /\ up /\ op.kind = "idle" /\ GoodDisk(disk) /\ Present(disk)
      /\ table = Tab(disk)
  BY <1>1, ReadyFacts
<1>3. After' = disk'
  <2>1. Ready'
    BY <1>1 DEF Known, Ready
  <2>2. (FSBase /\ Ready => After = disk /\ op.kind = "idle" /\ GoodDisk(disk))'
    BY ReadyAfter, PTL
  <2>. QED BY <2>1, <2>2
<1>4. op'.kind = "idle"
  BY <1>1, <1>2
<1>h. HeadersRead'
  BY <1>1, <1>2 DEF Clean, HeadersRead
<1>5. CASE damaged'
  BY <1>5, <1>h DEF Clean, AfterAgrees, Creating, Removing
<1>6. CASE ~damaged'
  <2>0. ~damaged /\ Current(h)
    BY <1>1, <1>6
  <2>1. Agree(disk)
    BY <1>2, <2>0 DEF Clean, AfterAgrees
  <2>3. PICK j \in InUse(Tab(disk)) : disk[Tab(disk)[j].sector] = h.hdr
    BY <1>2, <2>0 DEF Current
  <2>. DEFINE x == h.hdr.dataSectors[i]
  <2>4. PICK e : e = disk'
    OBVIOUS
  <2>5. x \in Sector \ System
    BY BlockSector
  <2>6. \A s \in Sector : s # x => e[s] = disk[s]
    BY <1>1, <1>2, <2>4, <2>5 DEF GoodDisk
  <2>7. i \in DOMAIN disk[Tab(disk)[j].sector].dataSectors
        /\ x = disk[Tab(disk)[j].sector].dataSectors[i]
    BY <2>3, BlockSector
  <2>. HIDE DEF x
  <2>8. /\ Agree(e) /\ Tab(e) = Tab(disk)
        /\ \A k \in InUse(Tab(disk)) : e[Tab(disk)[k].sector] = disk[Tab(disk)[k].sector]
    BY <1>2, <2>1, <2>6, <2>7, AgreeWritten
  <2>10. AfterAgrees'
    <3>1. Agree(After') /\ Agree(disk')
      BY <1>3, <2>4, <2>8
    <3>. QED BY <3>1 DEF AfterAgrees
  <2>. QED BY <1>4, <1>h, <2>10 DEF Clean, Creating, Removing
<1>. QED BY <1>5, <1>6

\* A Create begins: what it will write makes another disk whose structures agree.
LEMMA CleanCreate ==
  ASSUME FSBase, Clean, NEW n \in Name, NEW z \in FileSize, Create(n, z)
  PROVE  Clean'
<1>1. /\ Known /\ disk' = disk /\ up' = up /\ handles' = handles /\ damaged' = damaged
      /\ astray' = astray
      /\ written' = [written EXCEPT ![n] = [i \in 1..divRoundUp(z, SectorSize) |-> NoName]]
  BY DEF Create
<1>2. up /\ After = disk /\ GoodDisk(disk) /\ Present(disk)
  BY <1>1, ReadyFacts
<1>3. CASE damaged
  <2>1. PICK s, h, k, t, m :
            /\ NewFile(n, s, h, k, t, m)
            /\ op' = [kind |-> "create", name |-> n, slot |-> k]
            /\ CreatePending(pending', s, h, t, m)
    BY CreateBegins
  <2>2. op'.kind # "idle"
    BY <2>1
  <2>. QED BY <1>1, <1>3, <2>2 DEF Clean, AfterAgrees, HeadersRead, Creating, Removing
<1>4. CASE ~damaged
  <2>1. PICK s, h, k, t, m :
            /\ NewFile(n, s, h, k, t, m)
            /\ op' = [kind |-> "create", name |-> n, slot |-> k]
            /\ CreatePending(pending', s, h, t, m)
    BY CreateBegins
  <2>2. op'.kind = "create" /\ op'.name = n /\ op'.slot = k
    BY <2>1
  <2>3. PICK a : a = Flush(disk, pending')
    OBVIOUS
  <2>4. After' = a
    BY <1>1, <2>3 DEF After
  <2>5. WithFile(a, disk, s, h, t, m)
    BY <1>2, <2>1, <2>3, NewFileWrites
  <2>6. Agree(disk)
    BY <1>2, <1>4 DEF Clean, AfterAgrees
  <2>7. /\ Agree(a)
        /\ \A i : i \in InUse(Tab(a)) <=> i = k \/ i \in InUse(Tab(disk))
        /\ \A i \in InUse(Tab(disk)) : a[Tab(a)[i].sector] = disk[Tab(disk)[i].sector]
        /\ FileAt(a, k) \cap Used(disk) = {}
        /\ Used(a) = Used(disk) \cup FileAt(a, k)
    BY <1>2, <2>1, <2>5, <2>6, AgreeCreated
  <2>8. Tab(a) = t
    BY <2>1, <2>5, WithFileShape
  <2>9. /\ k \in 1..NumDirEntries /\ t[k].inUse /\ t[k].name = n /\ ~Tab(disk)[k].inUse
        /\ \A i \in 1..NumDirEntries : i # k => Tab(disk)[i] = t[i]
    BY <2>1 DEF NewFile
  <2>10. AfterAgrees'
    <3>1. Agree(After')
      BY <2>4, <2>7
    <3>2. op'.kind # "idle"
      BY <2>2
    <3>. QED BY <3>1, <3>2 DEF AfterAgrees
  <2>11. HeadersRead'
    BY <1>1 DEF Clean, HeadersRead
  <2>12. Creating'
    <3>1. OthersWritten'
      <4>1. \A i \in 1..NumDirEntries : i # op'.slot => Tab(disk')[i] = Tab(After')[i]
        BY <1>1, <2>2, <2>4, <2>8, <2>9
      <4>. QED BY <4>1 DEF OthersWritten
    <3>2. Used(disk) = Used(a) \ FileAt(a, k)
      BY <2>7
    <3>3. \A j \in DOMAIN written'[n] : written'[n][j] = NoName
      <4>1. written = [w \in Name |-> written[w]]
        BY DEF FSBase, FSTypes
      <4>2. written'[n] = [i \in 1..divRoundUp(z, SectorSize) |-> NoName]
        BY <1>1, <4>1
      <4>. QED BY <4>2
    <3>4. /\ op'.slot \in 1..NumDirEntries
          /\ Tab(After')[op'.slot].inUse /\ Tab(After')[op'.slot].name = op'.name /\ op'.name \in Name
          /\ ~Tab(disk')[op'.slot].inUse
          /\ Used(disk') = Used(After') \ FileAt(After', op'.slot)
          /\ \A j \in DOMAIN written'[op'.name] : written'[op'.name][j] = NoName
      BY <1>1, <2>2, <2>4, <2>8, <2>9, <3>2, <3>3, Zenon
    <3>. QED BY <3>1, <3>4, Zenon DEF Creating
  <2>13. Removing'
    BY <2>2 DEF Removing
  <2>. QED BY <2>10, <2>11, <2>12, <2>13 DEF Clean
<1>. QED BY <1>3, <1>4

\* A Remove begins.
LEMMA CleanRemove ==
  ASSUME FSBase, Clean, NEW n \in Name, RemoveFile(n)
  PROVE  Clean'
<1>1. /\ Known /\ disk' = disk /\ up' = up /\ handles' = handles /\ damaged' = damaged
      /\ astray' = astray
  BY DEF RemoveFile
<1>2. up /\ After = disk /\ GoodDisk(disk) /\ Present(disk)
  BY <1>1, ReadyFacts
<1>3. PICK k, t, m :
            /\ OldFile(n, k, t, m)
            /\ op' = [kind |-> "remove", name |-> n, slot |-> k]
            /\ RemovePending(pending', t, m)
  BY RemoveBegins
<1>4. op'.kind = "remove" /\ op'.slot = k
  BY <1>3
<1>5. CASE damaged
  <2>1. op'.kind # "idle"
    BY <1>4
  <2>. QED BY <1>1, <1>5, <2>1 DEF Clean, AfterAgrees, HeadersRead, Creating, Removing
<1>6. CASE ~damaged
  <2>3. PICK a : a = Flush(disk, pending')
    OBVIOUS
  <2>4. After' = a
    BY <1>1, <2>3 DEF After
  <2>5. WithTable(a, disk, t, m) /\ Tab(a) = t /\ Used(a) = m
    BY <1>2, <1>3, <2>3, OldFileWrites
  <2>6. Agree(disk)
    BY <1>2, <1>6 DEF Clean, AfterAgrees
  <2>7. /\ Agree(a)
        /\ \A i : i \in InUse(Tab(a)) <=> i # k /\ i \in InUse(Tab(disk))
        /\ \A i \in InUse(Tab(a)) : a[Tab(a)[i].sector] = disk[Tab(disk)[i].sector]
        /\ FileAt(disk, k) \cap Used(a) = {}
        /\ Used(disk) = Used(a) \cup FileAt(disk, k)
    BY <1>2, <1>3, <2>5, <2>6, AgreeRemoved
  <2>8. /\ k \in 1..NumDirEntries /\ ~t[k].inUse /\ Tab(disk)[k].inUse /\ Tab(disk)[k].name = n
        /\ \A i \in 1..NumDirEntries : i # k => Tab(disk)[i] = t[i]
    BY <1>3, OwnedIs DEF OldFile
  <2>10. AfterAgrees'
    <3>1. Agree(After')
      BY <2>4, <2>7
    <3>2. op'.kind # "idle"
      BY <1>4
    <3>. QED BY <3>1, <3>2 DEF AfterAgrees
  <2>11. HeadersRead'
    BY <1>1 DEF Clean, HeadersRead
  <2>12. Removing'
    <3>1. OthersWritten'
      <4>1. \A i \in 1..NumDirEntries : i # op'.slot => Tab(disk')[i] = Tab(After')[i]
        BY <1>1, <1>4, <2>4, <2>5, <2>8
      <4>. QED BY <4>1 DEF OthersWritten
    <3>2. /\ op'.slot \in 1..NumDirEntries
          /\ ~Tab(After')[op'.slot].inUse
          /\ FileAt(disk', op'.slot) \cap Used(After') = {}
          /\ Tab(disk')[op'.slot].inUse
          /\ Used(disk') = Used(After') \cup FileAt(disk', op'.slot)
      BY <1>1, <1>4, <2>4, <2>5, <2>7, <2>8, Zenon
    <3>. QED BY <3>1, <3>2, Zenon DEF Removing
  <2>13. Creating'
    BY <1>4 DEF Creating
  <2>. QED BY <2>10, <2>11, <2>12, <2>13 DEF Clean
<1>. QED BY <1>5, <1>6

\* One sector of a Create reaches the disk.
LEMMA CreatingWrite ==
  ASSUME FSBase, Clean, WriteSector, op'.kind = "create", ~damaged'
  PROVE  Creating'
<1>. DEFINE x == Head(pending).sector
            y == Tab(After)[op.slot].sector
            o == Order(op.kind, y)
            n == Len(pending)
<1>1. /\ x \in Sector /\ disk' = [disk EXCEPT ![x] = After[x]]
      /\ After' = After /\ up
      /\ n \in Nat \ {0} /\ n <= Len(o) /\ Len(pending') = n - 1
      /\ x = o[Len(o) - n + 1]
      /\ n = 1 => op' = Idle
      /\ n # 1 => op' = op
      /\ GoodDisk(disk)
  BY WriteSectorFacts
<1>2. n # 1 /\ op' = op /\ op.kind = "create"
  <2>1. op' # Idle
    BY DEF Idle
  <2>. QED BY <1>1, <2>1
<1>3. ~damaged /\ written' = written
  BY <1>2 DEF WriteSector, FSBase, FSTypes
<1>4. Len(o) = 4 /\ o[1] = y /\ o[2] = DirSec1 /\ o[3] = DirSec2 /\ o[4] = MapSec
  BY <1>2, OrderFacts
<1>5. /\ op.slot \in 1..NumDirEntries
      /\ Tab(After)[op.slot].inUse /\ Tab(After)[op.slot].name = op.name /\ op.name \in Name
      /\ \A i \in 1..NumDirEntries : i # op.slot => Tab(disk)[i] = Tab(After)[i]
      /\ n >= 3 => ~Tab(disk)[op.slot].inUse
      /\ Tab(disk)[op.slot].inUse => Tab(disk)[op.slot].sector = y
      /\ Used(disk) = Used(After) \ FileAt(After, op.slot)
      /\ \A j \in DOMAIN written[op.name] : written[op.name][j] = NoName
  BY <1>1, <1>2, <1>3 DEF Clean, Creating, OthersWritten
<1>6. y \in Sector /\ y \notin System
  <2>1. GoodDisk(After) /\ Present(After)
    BY <1>2, FlushGood DEF FSBase, FSTypes, FSBasics, After
  <2>2. op.slot \in InUse(Tab(After))
    BY <1>5, OwnedIs
  <2>. QED BY <2>1, <2>2, DiskShape
<1>7. PICK e : e = disk'
  OBVIOUS
<1>. HIDE DEF x, y, o, n
<1>8. n = 4 \/ n = 3 \/ n = 2
  BY <1>1, <1>2, <1>4
<1>9. (n = 4 => x = y) /\ (n = 3 => x = DirSec1) /\ (n = 2 => x = DirSec2)
  BY <1>1, <1>4
<1>10. x # MapSec /\ (n = 4 => x \notin {DirSec1, DirSec2})
  BY <1>6, <1>8, <1>9, SystemLayout DEF System
<1>11. e[x] = After[x] /\ \A s \in Sector : s # x => e[s] = disk[s]
  BY <1>1, <1>7 DEF GoodDisk
<1>12. DirSec1 \in Sector /\ DirSec2 \in Sector /\ MapSec \in Sector
  BY SystemLayout DEF System
<1>13. Used(e) = Used(disk)
  BY <1>10, <1>11, <1>12 DEF Used, FetchMap, MapSec
<1>14. n = 4 => Tab(e) = Tab(disk)
  BY <1>10, <1>11, <1>12, SameTab
<1>15. /\ e[DirSec1] = disk[DirSec1] \/ e[DirSec1] = After[DirSec1]
       /\ e[DirSec2] = disk[DirSec2] \/ e[DirSec2] = After[DirSec2]
  BY <1>11, <1>12
<1>16. \A i \in 1..NumDirEntries : i # op.slot => Tab(e)[i] = Tab(After)[i]
  BY <1>5, <1>15, MixedTab
<1>17. Tab(e)[op.slot].inUse => Tab(e)[op.slot].sector = y
  BY <1>5, <1>15, MixedTab DEF y
<1>18. Len(pending') >= 3 => ~Tab(e)[op.slot].inUse
  <2>1. ASSUME Len(pending') >= 3 PROVE n = 4 /\ n >= 3
    BY <1>1, <1>8, <2>1
  <2>. QED BY <1>5, <1>14, <2>1
<1>19. OthersWritten'
  <2>1. \A i \in 1..NumDirEntries : i # op'.slot => Tab(disk')[i] = Tab(After')[i]
    BY <1>1, <1>2, <1>7, <1>16
  <2>. QED BY <2>1 DEF OthersWritten
<1>20. /\ op'.slot \in 1..NumDirEntries
       /\ Tab(After')[op'.slot].inUse /\ Tab(After')[op'.slot].name = op'.name /\ op'.name \in Name
       /\ Len(pending') >= 3 => ~Tab(disk')[op'.slot].inUse
       /\ Tab(disk')[op'.slot].inUse => Tab(disk')[op'.slot].sector = Tab(After')[op'.slot].sector
       /\ Used(disk') = Used(After') \ FileAt(After', op'.slot)
       /\ \A j \in DOMAIN written'[op'.name] : written'[op'.name][j] = NoName
  <2>1. op' = op /\ disk' = e /\ After' = After /\ written' = written
    BY <1>1, <1>2, <1>3, <1>7
  <2>2. Tab(e)[op.slot].inUse => Tab(e)[op.slot].sector = Tab(After)[op.slot].sector
    BY <1>17 DEF y
  <2>. QED BY <1>5, <1>13, <1>18, <2>1, <2>2, Zenon
<1>. QED BY <1>19, <1>20, Zenon DEF Creating

\* One sector of a Remove reaches the disk.
LEMMA RemovingWrite ==
  ASSUME FSBase, Clean, WriteSector, op'.kind = "remove", ~damaged'
  PROVE  Removing'
<1>. DEFINE x == Head(pending).sector
            y == Tab(After)[op.slot].sector
            o == Order(op.kind, y)
            n == Len(pending)
<1>1. /\ x \in Sector /\ disk' = [disk EXCEPT ![x] = After[x]]
      /\ After' = After /\ up
      /\ n \in Nat \ {0} /\ n <= Len(o) /\ Len(pending') = n - 1
      /\ x = o[Len(o) - n + 1]
      /\ n = 1 => op' = Idle
      /\ n # 1 => op' = op
      /\ GoodDisk(disk)
  BY WriteSectorFacts
<1>2. n # 1 /\ op' = op /\ op.kind = "remove"
  <2>1. op' # Idle
    BY DEF Idle
  <2>. QED BY <1>1, <2>1
<1>3. ~damaged
  BY <1>2 DEF WriteSector, FSBase, FSTypes
<1>4. Len(o) = 3 /\ o[1] = MapSec /\ o[2] = DirSec1 /\ o[3] = DirSec2
  BY <1>2, OrderFacts
<1>5. /\ op.slot \in 1..NumDirEntries /\ ~Tab(After)[op.slot].inUse
      /\ \A i \in 1..NumDirEntries : i # op.slot => Tab(disk)[i] = Tab(After)[i]
      /\ Tab(disk)[op.slot].inUse => FileAt(disk, op.slot) \cap Used(After) = {}
  BY <1>1, <1>2, <1>3 DEF Clean, Removing, OthersWritten
<1>7. PICK e : e = disk'
  OBVIOUS
<1>. HIDE DEF x, y, o, n
<1>8. n = 3 \/ n = 2
  BY <1>1, <1>2, <1>4
<1>9. (n = 3 => x = MapSec) /\ (n = 2 => x = DirSec1)
  BY <1>1, <1>4
<1>10. x \in System
  BY <1>8, <1>9 DEF System
<1>11. e[x] = After[x] /\ \A s \in Sector : s # x => e[s] = disk[s]
  BY <1>1, <1>7 DEF GoodDisk
<1>12. DirSec1 \in Sector /\ DirSec2 \in Sector /\ MapSec \in Sector
  BY SystemLayout DEF System
<1>13. Len(pending') # 3
  BY <1>1, <1>8
<1>15. /\ e[DirSec1] = disk[DirSec1] \/ e[DirSec1] = After[DirSec1]
       /\ e[DirSec2] = disk[DirSec2] \/ e[DirSec2] = After[DirSec2]
  BY <1>11, <1>12
<1>16. \A i \in 1..NumDirEntries : i # op.slot => Tab(e)[i] = Tab(After)[i]
  BY <1>5, <1>15, MixedTab
<1>17. Tab(e)[op.slot].inUse => FileAt(e, op.slot) \cap Used(After) = {}
  <2>. SUFFICES ASSUME Tab(e)[op.slot].inUse PROVE FileAt(e, op.slot) \cap Used(After) = {}
    OBVIOUS
  <2>1. Tab(disk)[op.slot].inUse /\ Tab(e)[op.slot].sector = Tab(disk)[op.slot].sector
    BY <1>5, <1>15, MixedTab
  <2>. DEFINE s == Tab(disk)[op.slot].sector
  <2>2. s \in Sector /\ s \notin System
    <3>1. op.slot \in InUse(Tab(disk))
      BY <1>5, <2>1, OwnedIs
    <3>2. Present(disk)
      BY <1>2 DEF FSBase, FSBasics
    <3>. QED BY <1>1, <3>1, <3>2, DiskShape
  <2>3. e[s] = disk[s]
    BY <1>10, <1>11, <2>2
  <2>4. FileAt(e, op.slot) = FileAt(disk, op.slot)
    BY <2>1, <2>3, FileAtFacts
  <2>. QED BY <1>5, <2>1, <2>4
<1>19. OthersWritten'
  <2>1. \A i \in 1..NumDirEntries : i # op'.slot => Tab(disk')[i] = Tab(After')[i]
    BY <1>1, <1>2, <1>7, <1>16
  <2>. QED BY <2>1 DEF OthersWritten
<1>20. /\ op'.slot \in 1..NumDirEntries /\ ~Tab(After')[op'.slot].inUse
       /\ Tab(disk')[op'.slot].inUse => FileAt(disk', op'.slot) \cap Used(After') = {}
  <2>1. op' = op /\ disk' = e /\ After' = After
    BY <1>1, <1>2, <1>7
  <2>. QED BY <1>5, <1>17, <2>1, Zenon
<1>. QED BY <1>13, <1>19, <1>20, Zenon DEF Removing

\* The next sector reaches the disk.
LEMMA CleanWriteSector == FSBase /\ Clean /\ WriteSector => Clean'
<1>. SUFFICES ASSUME FSBase, Clean, WriteSector PROVE Clean'
  OBVIOUS
<1>1. /\ After' = After /\ up /\ up' /\ handles' = handles
      /\ Len(pending) = 1 => After = disk' /\ op' = Idle
      /\ Len(pending) # 1 => op' = op
      /\ op.kind # "idle"
  BY WriteSectorFacts DEF WriteSector
<1>2. /\ damaged' = (damaged /\ ~(Len(pending) = 1 /\ op.kind = "format"))
      /\ astray' = (astray /\ ~(Len(pending) = 1 /\ op.kind = "format"))
  BY DEF WriteSector
<1>3. ASSUME ~damaged'
      PROVE  /\ Agree(After)
             /\ \A h \in handles : h.hdr.kind = "hdr"
  <2>1. CASE ~damaged
    BY <1>1, <2>1 DEF Clean, AfterAgrees, HeadersRead
  <2>2. CASE op.kind = "format"
    <3>1. handles = {}
      BY <2>2 DEF FSBase, FSBasics
    <3>2. Used(After) = System /\ After[DirSec1].table = EmptyTable /\ After[DirSec2].table = EmptyTable
      BY <1>1, <2>2 DEF FSBase, Formatting
    <3>3. Agree(After)
      BY <3>2, AgreeFormatted
    <3>. QED BY <3>1, <3>3
  <2>3. damaged \in BOOLEAN
    BY DEF FSBase, FSTypes
  <2>. QED BY <1>2, <1>3, <2>1, <2>2, <2>3
<1>4. AfterAgrees'
  <2>1. ASSUME ~damaged' PROVE Agree(After')
    BY <1>1, <1>3, <2>1, Zenon
  <2>2. ASSUME ~damaged', op'.kind = "idle" PROVE Agree(disk')
    <3>1. After = disk'
      BY <1>1, <2>2
    <3>. QED BY <1>3, <2>2, <3>1, Zenon
  <2>. QED BY <2>1, <2>2 DEF AfterAgrees
<1>5. HeadersRead'
  <2>1. astray' => damaged'
    BY <1>2 DEF Clean, HeadersRead
  <2>. QED BY <1>1, <1>3, <2>1 DEF HeadersRead
<1>6. Creating'
  <2>1. CASE op'.kind = "create" /\ ~damaged'
    BY <2>1, CreatingWrite
  <2>2. CASE ~(op'.kind = "create" /\ ~damaged')
    BY <2>2 DEF Creating
  <2>. QED BY <2>1, <2>2
<1>7. Removing'
  <2>1. CASE op'.kind = "remove" /\ ~damaged'
    BY <2>1, RemovingWrite
  <2>2. CASE ~(op'.kind = "remove" /\ ~damaged')
    BY <2>2 DEF Removing
  <2>. QED BY <2>1, <2>2
<1>. QED BY <1>4, <1>5, <1>6, <1>7 DEF Clean

\* Every step keeps it.
LEMMA CleanStep == FSBase /\ FSBase' /\ Clean /\ [FSNext]_vars => Clean'
<1>. SUFFICES ASSUME FSBase, FSBase', Clean, [FSNext]_vars PROVE Clean'
  OBVIOUS
<1>1. CASE Format \/ Restart \/ WriteSector \/ Crash
  BY <1>1, CleanFormat, CleanRestart, CleanWriteSector, CleanCrash
<1>2. ASSUME NEW n \in Name,
             RemoveFile(n) \/ RemoveMisread(n) \/ Open(n) \/ \E z \in FileSize : Create(n, z)
      PROVE Clean'
  BY <1>2, CleanRemove, CleanRemoveMisread, CleanOpen, CleanCreate
<1>3. ASSUME NEW h \in handles, Close(h) \/ WriteMisread(h) PROVE Clean'
  BY <1>3, CleanClose, CleanWriteMisread
<1>4. ASSUME NEW h \in handles, NEW i \in Blocks(h.hdr), NEW v \in Value,
             WriteBlock(h, i, v)
      PROVE Clean'
  BY <1>4, CleanWriteBlock
<1>5. CASE UNCHANGED vars
  <2>1. /\ disk' = disk /\ up' = up /\ pending' = pending /\ op' = op /\ handles' = handles
        /\ written' = written /\ damaged' = damaged /\ astray' = astray
    BY <1>5 DEF vars
  <2>2. After' = After
    BY <2>1 DEF After
  <2>3. AfterAgrees'
    BY <2>1, <2>2 DEF Clean, AfterAgrees
  <2>4. HeadersRead'
    BY <2>1, <2>2 DEF Clean, HeadersRead
  <2>5. Creating'
    BY <2>1, <2>2 DEF Clean, Creating, OthersWritten
  <2>6. Removing'
    BY <2>1, <2>2 DEF Clean, Removing, OthersWritten
  <2>. QED BY <2>3, <2>4, <2>5, <2>6 DEF Clean
<1>. QED BY <1>1, <1>2, <1>3, <1>4, <1>5 DEF FSNext

\* While Nachos is up a stop would harm at most one file.
LEMMA CleanHarmsOne == FSBase /\ Clean /\ up => CrashHarmsOneFile
BY UpHarmsOne DEF Clean

\* While Nachos is down the disk is as the stop left it.
LEMMA HarmsOneStep ==
  FSBase /\ FSBase' /\ Clean' /\ CrashHarmsOneFile /\ [FSNext]_vars => CrashHarmsOneFile'
<1>. SUFFICES ASSUME FSBase, FSBase', Clean', CrashHarmsOneFile, [FSNext]_vars
     PROVE CrashHarmsOneFile'
  OBVIOUS
<1>1. CASE up'
  <2>1. (FSBase /\ Clean /\ up => CrashHarmsOneFile)'
    BY CleanHarmsOne, PTL
  <2>. QED BY <1>1, <2>1
<1>2. CASE ~up'
  <2>1. Crash \/ UNCHANGED vars
    <3>1. CASE FSNext
      <4>1. CASE Format \/ Restart
        BY <1>2, <4>1 DEF Format, Restart
      <4>2. CASE WriteSector
        BY <1>2, <4>2 DEF WriteSector
      <4>3. ASSUME NEW n \in Name,
                   RemoveFile(n) \/ RemoveMisread(n) \/ Open(n) \/ \E z \in FileSize : Create(n, z)
            PROVE  FALSE
        BY <1>2, <4>3 DEF RemoveFile, RemoveMisread, Open, Create, Known, Ready
      <4>4. ASSUME NEW h \in handles, Close(h) \/ WriteMisread(h) PROVE FALSE
        BY <1>2, <4>4 DEF Close, WriteMisread, Known, Ready
      <4>5. ASSUME NEW h \in handles, NEW i \in Blocks(h.hdr), NEW v \in Value,
                   WriteBlock(h, i, v)
            PROVE  FALSE
        BY <1>2, <4>5 DEF WriteBlock, Known, Ready
      <4>. QED BY <3>1, <4>1, <4>2, <4>3, <4>4, <4>5 DEF FSNext
    <3>. QED BY <3>1
  <2>2. /\ disk' = disk /\ op' = op /\ damaged' = damaged
        /\ freeMapFile' = freeMapFile /\ directoryFile' = directoryFile
    BY <2>1 DEF Crash, vars
  <2>. QED BY <2>2 DEF CrashHarmsOneFile, CrashLeaksNothing, CrashSparesOthers, Formatted,
                       OwnedOnDisk, table, freeMap
<1>. QED BY <1>1, <1>2

\* The first state is not formatted.
LEMMA HarmsOneInit == FSInit => CrashHarmsOneFile
<1>. SUFFICES ASSUME FSInit PROVE CrashHarmsOneFile
  OBVIOUS
<1>1. ~Formatted
  BY DEF FSInit, Idle, Formatted
<1>. QED BY <1>1 DEF CrashHarmsOneFile, CrashLeaksNothing, CrashSparesOthers

\* Between operations the structures agree.
LEMMA CleanIsConsistent == FSBase /\ Clean => ConsistentBetweenOperations
<1>. SUFFICES ASSUME FSBase, Clean, Ready, ~damaged PROVE Consistent(disk)
  BY DEF ConsistentBetweenOperations
<1>1. GoodDisk(disk) /\ Present(disk) /\ op.kind = "idle"
  BY ReadyFacts DEF Known, Clean, HeadersRead
<1>2. Agree(disk)
  BY <1>1 DEF Clean, AfterAgrees
<1>. QED BY <1>1, <1>2, ConsistentIsAgree

-----------------------------------------------------------------------------
(* The contents of the files                                               *)

\* A file stays intact when its sectors and its history do not change.
LEMMA IntactKept ==
  ASSUME NEW d, NEW e, NEW w, NEW v, NEW i, Tab(e)[i] = Tab(d)[i], IntactAt(d, w, i),
         v[Tab(d)[i].name] = w[Tab(d)[i].name],
         \A s \in FileAt(d, i) : e[s] = d[s]
  PROVE  IntactAt(e, v, i)
<1>. DEFINE y == Tab(d)[i].sector  n == Tab(d)[i].name  f == d[y].dataSectors
<1>1. /\ n \in Name /\ d[y].kind = "hdr"
      /\ \A k \in DOMAIN f \cap DOMAIN w[n] :
            w[n][k] = NoName \/ d[f[k]] = [kind |-> "data", value |-> w[n][k]]
  BY DEF IntactAt
<1>2. y \in FileAt(d, i) /\ \A k \in DOMAIN f : f[k] \in FileAt(d, i)
  BY <1>1, FileAtFacts
<1>3. e[y] = d[y] /\ \A k \in DOMAIN f : e[f[k]] = d[f[k]]
  BY <1>2
<1>4. Tab(e)[i].sector = y /\ Tab(e)[i].name = n /\ v[n] = w[n]
  OBVIOUS
<1>. HIDE DEF y, n
<1>5. \A k \in DOMAIN e[y].dataSectors \cap DOMAIN v[n] :
          v[n][k] = NoName \/ e[e[y].dataSectors[k]] = [kind |-> "data", value |-> v[n][k]]
  BY <1>1, <1>3, <1>4
<1>. QED BY <1>1, <1>3, <1>4, <1>5 DEF IntactAt

\* The history of a file that is in the directory is kept.
LEMMA ForgetKeeps ==
  ASSUME NEW d, Tab(d) \in Table, NEW i \in InUse(Tab(d)), Tab(d)[i].name \in Name
  PROVE  ForgetAbsent(d, DirHdr)[Tab(d)[i].name] = written[Tab(d)[i].name]
<1>. DEFINE n == Tab(d)[i].name
<1>1. i \in 1..NumDirEntries /\ Tab(d)[i].inUse
  BY OwnedIs
<1>2. Find(Tab(d), n) # -1
  BY <1>1, FindFacts
<1>. QED BY <1>2 DEF ForgetAbsent, Tab

\* Steps that leave the disk and the history of its files alone.
LEMMA IntactUnmoved ==
  ASSUME IntactOrUnmarked, disk' = disk, ~damaged' => ~damaged,
         \A i \in InUse(Tab(disk)) : Tab(disk)[i].name \in Name /\ Present(disk) =>
            written'[Tab(disk)[i].name] = written[Tab(disk)[i].name]
  PROVE  IntactOrUnmarked'
<1>. SUFFICES ASSUME ~damaged', Present(disk), NEW i \in InUse(Tab(disk))
     PROVE  IntactAt(disk, written', i) \/ Tab(disk)[i].sector \notin Used(disk)
  BY DEF IntactOrUnmarked
<1>1. IntactAt(disk, written, i) \/ Tab(disk)[i].sector \notin Used(disk)
  BY DEF IntactOrUnmarked
<1>2. ASSUME IntactAt(disk, written, i) PROVE IntactAt(disk, written', i)
  <2>1. Tab(disk)[i].name \in Name
    BY <1>2 DEF IntactAt
  <2>2. PICK v : v = written'
    OBVIOUS
  <2>3. v[Tab(disk)[i].name] = written[Tab(disk)[i].name]
    BY <2>1, <2>2
  <2>4. IntactAt(disk, v, i)
    BY <1>2, <2>3, IntactKept
  <2>. QED BY <2>2, <2>4
<1>. QED BY <1>1, <1>2

\* A file whose entry and sectors do not change stays intact or unmarked, if it
\* is not marked now.
LEMMA KeptOrUnmarked ==
  ASSUME ~damaged, Present(disk), IntactOrUnmarked,
         NEW e, NEW v, NEW i \in InUse(Tab(disk)), Tab(e)[i] = Tab(disk)[i],
         Tab(disk)[i].name \in Name => v[Tab(disk)[i].name] = written[Tab(disk)[i].name],
         \A s \in FileAt(disk, i) : e[s] = disk[s],
         Tab(disk)[i].sector \in Used(e) => Tab(disk)[i].sector \in Used(disk)
  PROVE  IntactAt(e, v, i) \/ Tab(e)[i].sector \notin Used(e)
<1>1. IntactAt(disk, written, i) \/ Tab(disk)[i].sector \notin Used(disk)
  BY DEF IntactOrUnmarked
<1>2. CASE IntactAt(disk, written, i)
  <2>1. Tab(disk)[i].name \in Name
    BY <1>2 DEF IntactAt
  <2>. QED BY <1>2, <2>1, IntactKept
<1>3. CASE Tab(disk)[i].sector \notin Used(disk)
  BY <1>3
<1>. QED BY <1>1, <1>2, <1>3

\* The first disk holds no directory.
LEMMA IntactInit == FSInit => IntactOrUnmarked
<1>. SUFFICES ASSUME FSInit PROVE ~Present(disk)
  BY DEF IntactOrUnmarked
<1>1. disk = Unknown
  BY DEF FSInit
<1>. QED BY <1>1, UnknownFacts

\* Nor does the disk of a run that is astray.
LEMMA IntactAstray == GoAstray => IntactOrUnmarked'
<1>. SUFFICES ASSUME GoAstray PROVE ~Present(disk')
  BY DEF IntactOrUnmarked
<1>. QED BY UnknownFacts DEF GoAstray

\* Nachos starts: the history of the files in the directory is kept.
LEMMA IntactRestart == FSBase /\ IntactOrUnmarked /\ Restart => IntactOrUnmarked'
<1>. SUFFICES ASSUME FSBase, IntactOrUnmarked, Restart PROVE IntactOrUnmarked'
  OBVIOUS
<1>0. CASE ~Mountable(disk)
  <2>1. disk' = Unknown
    BY <1>0 DEF Restart
  <2>2. ~Present(disk')
    BY <2>1, UnknownFacts
  <2>. QED BY <2>2 DEF IntactOrUnmarked
<1>. SUFFICES ASSUME Mountable(disk) PROVE IntactOrUnmarked'
  BY <1>0
<1>1. /\ Mountable(disk) /\ disk' = disk /\ damaged' = (damaged \/ ~Consistent(disk))
      /\ written' = ForgetAbsent(disk, disk[DirectorySector])
  BY DEF Restart
<1>2. GoodDisk(disk) /\ Present(disk)
  BY <1>1, MountableIsPresent DEF FSBase, FSBasics
<1>3. Tab(disk) \in Table /\ disk[DirectorySector] = DirHdr
  BY <1>2, DiskShape
<1>4. ASSUME NEW i \in InUse(Tab(disk)), Tab(disk)[i].name \in Name
      PROVE  written'[Tab(disk)[i].name] = written[Tab(disk)[i].name]
  BY <1>1, <1>3, <1>4, ForgetKeeps
<1>5. ~damaged' => ~damaged
  BY <1>1
<1>. QED BY <1>1, <1>4, <1>5, IntactUnmoved

\* Steps that change neither disk nor history.
LEMMA IntactQuiet ==
  ASSUME IntactOrUnmarked, disk' = disk, damaged' = damaged, written' = written
  PROVE  IntactOrUnmarked'
BY DEF IntactOrUnmarked

\* The file a Create begins is not in the directory yet.
LEMMA IntactCreate ==
  ASSUME FSBase, IntactOrUnmarked, NEW n \in Name, NEW z \in FileSize, Create(n, z)
  PROVE  IntactOrUnmarked'
<1>1. /\ Known /\ disk' = disk /\ damaged' = damaged
      /\ written' = [written EXCEPT ![n] = [i \in 1..divRoundUp(z, SectorSize) |-> NoName]]
      /\ Find(table, n) = -1
  BY DEF Create, CanCreate
<1>2. table = Tab(disk) /\ GoodDisk(disk) /\ Present(disk)
  BY <1>1, ReadyFacts
<1>3. written = [w \in Name |-> written[w]]
  BY DEF FSBase, FSTypes
<1>4. ASSUME NEW i \in InUse(Tab(disk)), Tab(disk)[i].name \in Name
      PROVE  written'[Tab(disk)[i].name] = written[Tab(disk)[i].name]
  <2>1. Tab(disk) \in Table
    BY <1>2, DiskShape
  <2>2. Tab(disk)[i].name # n
    BY <1>1, <1>2, <2>1, FindFacts, OwnedIs
  <2>. DEFINE m == Tab(disk)[i].name
  <2>3. m \in Name /\ m # n
    BY <1>4, <2>2
  <2>. HIDE DEF m
  <2>4. written'[m] = written[m]
    BY <1>1, <1>3, <2>3
  <2>. QED BY <2>4 DEF m
<1>5. ~damaged' => ~damaged
  BY <1>1
<1>. QED BY <1>1, <1>4, <1>5, IntactUnmoved

\* A client's write is recorded in the history of its file, and reaches the
\* sector of no other block.
LEMMA IntactWriteBlock ==
  ASSUME NEW h \in handles, NEW i \in Blocks(h.hdr), NEW v \in Value,
         FSBase, Clean, IntactOrUnmarked, WriteBlock(h, i, v)
  PROVE  IntactOrUnmarked'
<1>1. /\ Known /\ disk' = [disk EXCEPT ![h.hdr.dataSectors[i]] = [kind |-> "data", value |-> v]]
      /\ damaged' = (damaged \/ ~Current(h))
      /\ ~damaged' => written' = [written EXCEPT ![h.name][i] = v]
  BY DEF WriteBlock
<1>2. /\ After = disk /\ up /\ op.kind = "idle" /\ GoodDisk(disk) /\ Present(disk)
      /\ table = Tab(disk)
  BY <1>1, ReadyFacts
<1>3. SUFFICES ASSUME ~damaged'
      PROVE  \A l \in InUse(Tab(disk')) : IntactAt(disk', written', l)
  BY DEF IntactOrUnmarked
<1>0. ~damaged /\ Current(h)
  BY <1>1, <1>3
<1>4. Agree(disk)
  BY <1>2, <1>0 DEF Clean, AfterAgrees
<1>5. PICK j \in InUse(Tab(disk)) : Tab(disk)[j].name = h.name /\ disk[Tab(disk)[j].sector] = h.hdr
  BY <1>2, <1>0 DEF Current
<1>. DEFINE x == h.hdr.dataSectors[i]
<1>6. x \in Sector \ System /\ h.name \in Name
  BY BlockSector
<1>7. PICK e : e = disk'
  OBVIOUS
<1>8. PICK w : w = written'
  OBVIOUS
<1>9. e[x] = [kind |-> "data", value |-> v] /\ \A s \in Sector : s # x => e[s] = disk[s]
  BY <1>1, <1>2, <1>6, <1>7 DEF GoodDisk
<1>10. i \in DOMAIN disk[Tab(disk)[j].sector].dataSectors
       /\ x = disk[Tab(disk)[j].sector].dataSectors[i]
  BY <1>5, BlockSector
<1>. HIDE DEF x
<1>11. /\ Tab(e) = Tab(disk)
       /\ \A l \in InUse(Tab(disk)) : e[Tab(disk)[l].sector] = disk[Tab(disk)[l].sector]
  BY <1>2, <1>4, <1>9, <1>10, AgreeWritten
<1>12. written = [n \in Name |-> written[n]]
  BY DEF FSBase, FSTypes
<1>13. /\ w[h.name] = [written[h.name] EXCEPT ![i] = v]
       /\ \A n \in Name : n # h.name => w[n] = written[n]
  BY <1>1, <1>3, <1>6, <1>8, <1>12
<1>14. ASSUME NEW l \in InUse(Tab(disk)) PROVE IntactAt(disk, written, l)
  BY <1>0, <1>2, <1>4, AgreeFacts DEF IntactOrUnmarked
<1>15. ASSUME NEW l \in InUse(Tab(disk)), l # j PROVE IntactAt(e, w, l)
  <2>1. Tab(disk)[l].name # h.name
    BY <1>4, <1>5, <1>15, AgreeFacts
  <2>2. Tab(disk)[l].name \in Name
    BY <1>14 DEF IntactAt
  <2>3. w[Tab(disk)[l].name] = written[Tab(disk)[l].name]
    BY <1>13, <2>1, <2>2
  <2>4. disk[Tab(disk)[j].sector].kind = "hdr" /\ FileAt(disk, l) \cap FileAt(disk, j) = {}
    BY <1>4, <1>15, AgreeFacts
  <2>5. x \in FileAt(disk, j)
    BY <1>10, <2>4, FileAtFacts
  <2>6. FileAt(disk, l) \subseteq Sector
    BY <1>2, FilesSpareSystem
  <2>7. \A s \in FileAt(disk, l) : e[s] = disk[s]
    BY <1>9, <2>4, <2>5, <2>6
  <2>8. Tab(e)[l] = Tab(disk)[l]
    BY <1>11
  <2>. QED BY <1>14, <2>3, <2>7, <2>8, IntactKept
<1>16. IntactAt(e, w, j)
  <2>. DEFINE y == Tab(disk)[j].sector  f == h.hdr.dataSectors  u == written[h.name]
  <2>1. /\ disk[y].kind = "hdr"
        /\ \A k \in DOMAIN f \cap DOMAIN u :
              u[k] = NoName \/ disk[f[k]] = [kind |-> "data", value |-> u[k]]
    BY <1>5, <1>14 DEF IntactAt
  <2>2. y \in Sector /\ y \notin System
    BY <1>2, DiskShape
  <2>3. GoodAt(y, disk[y])
    BY <1>2, <2>2 DEF GoodDisk
  <2>4. \A k, l \in DOMAIN disk[y].dataSectors : disk[y].dataSectors[k] = disk[y].dataSectors[l] => k = l
    BY <2>1, <2>2, <2>3 DEF GoodAt
  <2>5. disk[y].dataSectors = f /\ x = f[i]
    BY <1>5 DEF x
  <2>6. \A k \in DOMAIN f : f[k] \in Sector
    <3>1. \A k \in DOMAIN disk[y].dataSectors : disk[y].dataSectors[k] \in FileAt(disk, j)
      BY <2>1, FileAtFacts
    <3>2. FileAt(disk, j) \subseteq Sector
      BY <1>2, FilesSpareSystem
    <3>. QED BY <2>5, <3>1, <3>2
  <2>7. e[y] = disk[y] /\ Tab(e)[j].sector = y /\ Tab(e)[j].name = h.name
    BY <1>5, <1>11
  <2>. HIDE DEF y, f, u
  <2>8. ASSUME NEW k \in DOMAIN f \cap DOMAIN w[h.name]
        PROVE  w[h.name][k] = NoName \/ e[f[k]] = [kind |-> "data", value |-> w[h.name][k]]
    <3>0. k \in DOMAIN u /\ w[h.name] = [u EXCEPT ![i] = v]
      BY <1>13 DEF u
    <3>1. CASE k = i
      <4>1. w[h.name][k] = v
        BY <3>0, <3>1
      <4>. QED BY <1>9, <2>5, <3>1, <4>1
    <3>2. CASE k # i
      <4>1. w[h.name][k] = u[k]
        BY <3>0, <3>2
      <4>0. i \in DOMAIN f
        BY BlockSector DEF f
      <4>2. f[k] # x
        BY <2>4, <2>5, <3>0, <3>2, <4>0
      <4>3. e[f[k]] = disk[f[k]]
        BY <1>9, <2>6, <4>2
      <4>. QED BY <2>1, <3>0, <4>1, <4>3
    <3>. QED BY <3>1, <3>2
  <2>. QED BY <1>6, <2>1, <2>5, <2>7, <2>8 DEF IntactAt
<1>17. \A l \in InUse(Tab(e)) : IntactAt(e, w, l)
  BY <1>11, <1>15, <1>16
<1>. QED BY <1>7, <1>8, <1>17, Zenon

\* One sector of a format reaches the disk: before the bitmap, nothing changes
\* that had been written; from then on no file is marked.
LEMMA IntactFormatting ==
  ASSUME FSBase, IntactOrUnmarked, WriteSector, op.kind = "format"
  PROVE  IntactOrUnmarked'
<1>. DEFINE x == Head(pending).sector
            y == Tab(After)[op.slot].sector
            o == Order(op.kind, y)
            n == Len(pending)
<1>1. /\ x \in Sector /\ After[x] # Junk /\ disk' = [disk EXCEPT ![x] = After[x]] /\ up
      /\ n \in Nat \ {0} /\ n <= Len(o)
      /\ x = o[Len(o) - n + 1]
      /\ GoodDisk(disk) /\ GoodDisk(disk') /\ GoodDisk(After)
  BY WriteSectorFacts
<1>2. Len(o) = 5 /\ o[1] = FreeMapSector /\ o[2] = DirectorySector /\ o[3] = MapSec /\ o[4] = DirSec1
      /\ o[5] = DirSec2
  BY OrderFacts
<1>3. Used(After) = System
  BY <1>1 DEF FSBase, Formatting
<1>4. /\ n # 1 => written' = written
      /\ damaged' = (damaged /\ ~(n = 1 /\ op.kind = "format"))
  BY DEF WriteSector
<1>5. PICK e : e = disk'
  OBVIOUS
<1>6. \A s \in Sector : disk[s] = After[s] \/ \E k \in 1..n : s = o[k + Len(o) - n]
  BY <1>1, OffPending
<1>. HIDE DEF x, y, o, n
<1>7. e[x] = After[x] /\ \A s \in Sector : s # x => e[s] = disk[s]
  BY <1>1, <1>5 DEF GoodDisk
<1>8. GoodDisk(e)
  BY <1>1, <1>5
<1>9. /\ MapSec \in Sector /\ DirSec2 \in Sector /\ FreeMapSector \in Sector /\ DirectorySector \in Sector
      /\ MapSec # DirSec1 /\ MapSec # DirSec2 /\ DirSec2 # FreeMapSector /\ DirSec2 # DirectorySector
  BY SystemLayout DEF System
<1>10. n = 5 \/ n = 4 \/ n = 3 \/ n = 2 \/ n = 1
  BY <1>1, <1>2
<1>11. CASE n = 5 \/ n = 4
  <2>1. x \in {FreeMapSector, DirectorySector}
    BY <1>1, <1>2, <1>11
  <2>2. CASE ~Present(e)
    BY <1>5, <2>2 DEF IntactOrUnmarked
  <2>3. CASE Present(e)
    <3>1. disk[DirSec2] # Junk
      BY <1>7, <1>9, <2>1, <2>3 DEF Present, System
    <3>2. Present(disk)
      BY <3>1 DEF FSBase, FSBasics
    <3>3. /\ e[FreeMapSector] = MapHdr /\ e[DirectorySector] = DirHdr
          /\ disk[FreeMapSector] = MapHdr /\ disk[DirectorySector] = DirHdr
      BY <1>1, <1>8, <2>3, <3>2, DiskShape
    <3>4. e[x] = disk[x]
      BY <2>1, <3>3
    <3>5. disk' = disk
      BY <1>1, <1>7, <3>4 DEF GoodDisk
    <3>6. n # 1
      BY <1>11
    <3>. QED BY <1>4, <3>5, <3>6, IntactQuiet DEF FSBase, FSTypes
  <2>. QED BY <2>2, <2>3
<1>12. CASE n = 3 \/ n = 2 \/ n = 1
  <2>1. e[MapSec] = After[MapSec]
    <3>1. CASE n = 3
      BY <1>1, <1>2, <1>7, <3>1
    <3>2. CASE n = 2 \/ n = 1
      <4>1. x # MapSec
        BY <1>1, <1>2, <1>9, <3>2
      <4>2. ASSUME NEW k \in 1..n PROVE MapSec # o[k + Len(o) - n]
        <5>1. k + Len(o) - n = 4 \/ k + Len(o) - n = 5
          BY <1>2, <3>2
        <5>. QED BY <1>2, <1>9, <5>1
      <4>3. disk[MapSec] = After[MapSec]
        BY <1>6, <1>9, <4>2
      <4>. QED BY <1>7, <1>9, <4>1, <4>3
    <3>. QED BY <1>12, <3>1, <3>2
  <2>2. Used(e) = System
    BY <1>3, <2>1 DEF Used, FetchMap, MapSec
  <2>3. ASSUME Present(e), NEW i \in InUse(Tab(e)) PROVE Tab(e)[i].sector \notin Used(e)
    BY <1>8, <2>2, <2>3, DiskShape
  <2>. QED BY <1>5, <2>3 DEF IntactOrUnmarked
<1>. QED BY <1>10, <1>11, <1>12

\* One sector of a Create reaches the disk: the file's sectors are marked last,
\* and nobody has written into it.
LEMMA IntactCreating ==
  ASSUME FSBase, Clean, IntactOrUnmarked, WriteSector, op.kind = "create"
  PROVE  IntactOrUnmarked'
<1>. DEFINE x == Head(pending).sector
            y == Tab(After)[op.slot].sector
            o == Order(op.kind, y)
            n == Len(pending)
<1>1. /\ x \in Sector /\ disk' = [disk EXCEPT ![x] = After[x]] /\ up
      /\ n \in Nat \ {0} /\ n <= Len(o)
      /\ x = o[Len(o) - n + 1]
      /\ n = 1 => After = disk'
      /\ GoodDisk(disk) /\ GoodDisk(disk') /\ GoodDisk(After) /\ directoryFile = DirHdr
  BY WriteSectorFacts
<1>2. Len(o) = 4 /\ o[1] = y /\ o[2] = DirSec1 /\ o[3] = DirSec2 /\ o[4] = MapSec
  BY OrderFacts
<1>3. /\ damaged' = (damaged /\ ~(n = 1 /\ op.kind = "format"))
      /\ n # 1 => written' = written
      /\ n = 1 => written' = ForgetAbsent(disk', directoryFile)
  BY DEF WriteSector
<1>4. damaged' = damaged
  BY <1>3 DEF FSBase, FSTypes
<1>5. SUFFICES ASSUME ~damaged
      PROVE  \A i \in InUse(Tab(disk')) :
                IntactAt(disk', written', i) \/ Tab(disk')[i].sector \notin Used(disk')
  BY <1>4 DEF IntactOrUnmarked
<1>6. /\ op.slot \in 1..NumDirEntries /\ op.slot \in InUse(Tab(After))
      /\ Agree(After) /\ Used(disk) = Used(After) \ FileAt(After, op.slot)
      /\ \A i \in InUse(Tab(disk)) :
              /\ i \in InUse(Tab(After))
              /\ Tab(disk)[i].sector = Tab(After)[i].sector
              /\ FileAt(disk, i) = FileAt(After, i)
      /\ \A i \in InUse(Tab(After)) : i # op.slot => i \in InUse(Tab(disk))
  BY <1>1, <1>5, CreatingFiles DEF Clean
<1>7. /\ Tab(After)[op.slot].name = op.name /\ op.name \in Name
      /\ \A i \in 1..NumDirEntries : i # op.slot => Tab(disk)[i] = Tab(After)[i]
      /\ n >= 3 => ~Tab(disk)[op.slot].inUse
      /\ Tab(disk)[op.slot].inUse => Tab(disk)[op.slot].sector = y
      /\ \A j \in DOMAIN written[op.name] : written[op.name][j] = NoName
  BY <1>1, <1>5 DEF Clean, Creating, OthersWritten
<1>8. Present(disk) /\ Present(After)
  BY FlushGood DEF FSBase, FSTypes, FSBasics, After
<1>9. PICK e : e = disk'
  OBVIOUS
<1>10. PICK w : w = written'
  OBVIOUS
<1>. HIDE DEF x, o, n
<1>11. n = 4 \/ n = 3 \/ n = 2 \/ n = 1
  BY <1>1, <1>2
<1>12. (n = 4 => x = y) /\ (n = 3 => x = DirSec1) /\ (n = 2 => x = DirSec2) /\ (n = 1 => x = MapSec)
  BY <1>1, <1>2
<1>13. y \in Sector /\ y \notin System /\ y \in FileAt(After, op.slot)
  BY <1>1, <1>6, <1>8, DiskShape, FileAtFacts
<1>14. e[x] = After[x] /\ \A s \in Sector : s # x => e[s] = disk[s]
  BY <1>1, <1>9 DEF GoodDisk
<1>15. DirSec1 \in Sector /\ DirSec2 \in Sector /\ MapSec \in Sector
       /\ DirSec1 # MapSec /\ DirSec2 # MapSec
  BY SystemLayout DEF System
<1>16. /\ e[DirSec1] = disk[DirSec1] \/ e[DirSec1] = After[DirSec1]
       /\ e[DirSec2] = disk[DirSec2] \/ e[DirSec2] = After[DirSec2]
  BY <1>14, <1>15
<1>17. \A i \in 1..NumDirEntries : i # op.slot => Tab(e)[i] = Tab(disk)[i]
  BY <1>7, <1>16, MixedTab
<1>18. n # 1 => Used(e) = Used(disk)
  <2>1. n # 1 => x # MapSec
    BY <1>11, <1>12, <1>13, <1>15 DEF System
  <2>. QED BY <1>14, <1>15, <2>1 DEF Used, FetchMap, MapSec
<1>19. n = 1 => Used(e) = Used(After) /\ Tab(e) = Tab(After)
  BY <1>1, <1>9
<1>20. ASSUME NEW i \in InUse(Tab(e)), i # op.slot
       PROVE  IntactAt(e, w, i) \/ Tab(e)[i].sector \notin Used(e)
  <2>1. Tab(e)[i] = Tab(disk)[i] /\ i \in InUse(Tab(disk))
    BY <1>17, <1>20, OwnedIs
  <2>2. /\ FileAt(disk, i) \cap System = {} /\ FileAt(disk, i) \subseteq Sector
        /\ FileAt(disk, i) \cap FileAt(After, op.slot) = {}
        /\ FileAt(disk, i) \subseteq Used(disk)
    <3>1. /\ FileAt(After, i) \cap FileAt(After, op.slot) = {}
          /\ FileAt(After, i) \subseteq Used(After)
      BY <1>6, <1>20, <2>1, AgreeFacts
    <3>2. FileAt(disk, i) \cap System = {} /\ FileAt(disk, i) \subseteq Sector
      BY <1>1, <1>8, <2>1, FilesSpareSystem
    <3>. QED BY <1>6, <2>1, <3>1, <3>2
  <2>3. x \in System \/ x \in FileAt(After, op.slot)
    BY <1>11, <1>12, <1>13 DEF System
  <2>4. \A s \in FileAt(disk, i) : e[s] = disk[s]
    BY <1>14, <2>2, <2>3
  <2>5. Tab(disk)[i].name \in Name => w[Tab(disk)[i].name] = written[Tab(disk)[i].name]
    <3>1. CASE n # 1
      BY <1>3, <1>10, <3>1
    <3>2. CASE n = 1
      <4>1. Tab(e) \in Table
        BY <1>1, <1>8, <1>19, <3>2, DiskShape
      <4>2. w = ForgetAbsent(e, DirHdr)
        BY <1>1, <1>3, <1>9, <1>10, <3>2
      <4>. QED BY <1>20, <2>1, <4>1, <4>2, ForgetKeeps
    <3>. QED BY <3>1, <3>2
  <2>6. Tab(disk)[i].sector \in Used(disk)
    BY <2>2, FileAtFacts
  <2>. QED BY <1>5, <1>8, <2>1, <2>4, <2>5, <2>6, KeptOrUnmarked
<1>21. ASSUME op.slot \in InUse(Tab(e))
       PROVE  IntactAt(e, w, op.slot) \/ Tab(e)[op.slot].sector \notin Used(e)
  <2>1. CASE n # 1
    <3>1. Tab(e)[op.slot].sector = y
      <4>1. Tab(e)[op.slot].inUse
        BY <1>21, OwnedIs
      <4>. QED BY <1>6, <1>7, <1>16, <4>1, MixedTab
    <3>. QED BY <1>6, <1>13, <1>18, <2>1, <3>1
  <2>2. CASE n = 1
    <3>1. Tab(e) \in Table /\ Tab(e)[op.slot].name = op.name
      BY <1>1, <1>7, <1>8, <1>19, <2>2, DiskShape
    <3>2. w = ForgetAbsent(e, DirHdr)
      BY <1>1, <1>3, <1>9, <1>10, <2>2
    <3>3. w[op.name] = written[op.name]
      BY <1>7, <1>21, <3>1, <3>2, ForgetKeeps
    <3>4. After[Tab(After)[op.slot].sector].kind = "hdr"
      BY <1>6, AgreeFacts
    <3>5. e[Tab(e)[op.slot].sector].kind = "hdr"
      BY <1>1, <1>9, <2>2, <3>4
    <3>6. \A k \in DOMAIN w[op.name] : w[op.name][k] = NoName
      BY <1>7, <3>3
    <3>. QED BY <1>7, <3>1, <3>5, <3>6 DEF IntactAt
  <2>. QED BY <2>1, <2>2
<1>22. \A i \in InUse(Tab(e)) : IntactAt(e, w, i) \/ Tab(e)[i].sector \notin Used(e)
  BY <1>20, <1>21
<1>. QED BY <1>9, <1>10, <1>22, Zenon

\* One sector of a Remove reaches the disk: the bitmap is the first.
LEMMA IntactRemoving ==
  ASSUME FSBase, Clean, IntactOrUnmarked, WriteSector, op.kind = "remove"
  PROVE  IntactOrUnmarked'
<1>. DEFINE x == Head(pending).sector
            y == Tab(After)[op.slot].sector
            o == Order(op.kind, y)
            n == Len(pending)
<1>1. /\ x \in Sector /\ disk' = [disk EXCEPT ![x] = After[x]] /\ up
      /\ n \in Nat \ {0} /\ n <= Len(o)
      /\ x = o[Len(o) - n + 1]
      /\ n = 1 => After = disk'
      /\ GoodDisk(disk) /\ GoodDisk(disk') /\ GoodDisk(After) /\ directoryFile = DirHdr
  BY WriteSectorFacts
<1>2. Len(o) = 3 /\ o[1] = MapSec /\ o[2] = DirSec1 /\ o[3] = DirSec2
  BY OrderFacts
<1>3. /\ damaged' = (damaged /\ ~(n = 1 /\ op.kind = "format"))
      /\ n # 1 => written' = written
      /\ n = 1 => written' = ForgetAbsent(disk', directoryFile)
  BY DEF WriteSector
<1>4. damaged' = damaged
  BY <1>3 DEF FSBase, FSTypes
<1>5. SUFFICES ASSUME ~damaged
      PROVE  \A i \in InUse(Tab(disk')) :
                IntactAt(disk', written', i) \/ Tab(disk')[i].sector \notin Used(disk')
  BY <1>4 DEF IntactOrUnmarked
<1>6. /\ op.slot \in 1..NumDirEntries /\ op.slot \notin InUse(Tab(After))
      /\ op.slot \in InUse(Tab(disk)) => FileAt(disk, op.slot) \cap Used(After) = {}
      /\ Used(After) \subseteq Used(disk)
  BY <1>1, <1>5, RemovingFiles DEF Clean
<1>7. \A i \in 1..NumDirEntries : i # op.slot => Tab(disk)[i] = Tab(After)[i]
  BY <1>1, <1>5 DEF Clean, Removing, OthersWritten
<1>8. Present(disk) /\ Present(After)
  BY FlushGood DEF FSBase, FSTypes, FSBasics, After
<1>9. n # 3 => disk[MapSec] = After[MapSec]
  BY <1>1, RemoveOff
<1>10. PICK e : e = disk'
  OBVIOUS
<1>11. PICK w : w = written'
  OBVIOUS
<1>. HIDE DEF x, y, o, n
<1>12. x \in System /\ (n = 3 => x = MapSec) /\ (n # 3 => x \in {DirSec1, DirSec2})
  <2>1. n = 3 \/ n = 2 \/ n = 1
    BY <1>1, <1>2
  <2>2. (n = 3 => x = MapSec) /\ (n = 2 => x = DirSec1) /\ (n = 1 => x = DirSec2)
    BY <1>1, <1>2
  <2>. QED BY <2>1, <2>2 DEF System
<1>14. e[x] = After[x] /\ \A s \in Sector : s # x => e[s] = disk[s]
  BY <1>1, <1>10 DEF GoodDisk
<1>15. DirSec1 \in Sector /\ DirSec2 \in Sector /\ MapSec \in Sector
       /\ DirSec1 # MapSec /\ DirSec2 # MapSec
  BY SystemLayout DEF System
<1>16. /\ e[DirSec1] = disk[DirSec1] \/ e[DirSec1] = After[DirSec1]
       /\ e[DirSec2] = disk[DirSec2] \/ e[DirSec2] = After[DirSec2]
  BY <1>14, <1>15
<1>17. \A i \in 1..NumDirEntries : i # op.slot => Tab(e)[i] = Tab(disk)[i]
  BY <1>7, <1>16, MixedTab
<1>18. Used(e) = Used(After)
  <2>1. e[MapSec] = After[MapSec]
    BY <1>9, <1>12, <1>14, <1>15
  <2>. QED BY <2>1 DEF Used, FetchMap, MapSec
<1>20. ASSUME NEW i \in InUse(Tab(e)), i # op.slot
       PROVE  IntactAt(e, w, i) \/ Tab(e)[i].sector \notin Used(e)
  <2>1. Tab(e)[i] = Tab(disk)[i] /\ i \in InUse(Tab(disk))
    BY <1>17, <1>20, OwnedIs
  <2>2. FileAt(disk, i) \cap System = {} /\ FileAt(disk, i) \subseteq Sector
    BY <1>1, <1>8, <2>1, FilesSpareSystem
  <2>4. \A s \in FileAt(disk, i) : e[s] = disk[s]
    BY <1>12, <1>14, <2>2
  <2>5. Tab(disk)[i].name \in Name => w[Tab(disk)[i].name] = written[Tab(disk)[i].name]
    <3>1. CASE n # 1
      BY <1>3, <1>11, <3>1
    <3>2. CASE n = 1
      <4>1. Tab(e) \in Table
        BY <1>1, <1>8, <1>10, <3>2, DiskShape
      <4>2. w = ForgetAbsent(e, DirHdr)
        BY <1>1, <1>3, <1>10, <1>11, <3>2
      <4>. QED BY <1>20, <2>1, <4>1, <4>2, ForgetKeeps
    <3>. QED BY <3>1, <3>2
  <2>6. Tab(disk)[i].sector \in Used(e) => Tab(disk)[i].sector \in Used(disk)
    BY <1>6, <1>18
  <2>. QED BY <1>5, <1>8, <2>1, <2>4, <2>5, <2>6, KeptOrUnmarked
<1>21. ASSUME op.slot \in InUse(Tab(e))
       PROVE  Tab(e)[op.slot].sector \notin Used(e)
  <2>1. Tab(e)[op.slot].inUse
    BY <1>21, OwnedIs
  <2>2. ~Tab(After)[op.slot].inUse
    BY <1>6, OwnedIs
  <2>3. Tab(disk)[op.slot].inUse /\ Tab(e)[op.slot].sector = Tab(disk)[op.slot].sector
    BY <1>6, <1>16, <2>1, <2>2, MixedTab
  <2>4. op.slot \in InUse(Tab(disk))
    BY <1>6, <2>3, OwnedIs
  <2>5. Tab(disk)[op.slot].sector \in FileAt(disk, op.slot)
    BY FileAtFacts
  <2>. QED BY <1>6, <1>18, <2>3, <2>4, <2>5
<1>22. \A i \in InUse(Tab(e)) : IntactAt(e, w, i) \/ Tab(e)[i].sector \notin Used(e)
  BY <1>20, <1>21
<1>. QED BY <1>10, <1>11, <1>22, Zenon

\* Every step keeps the contents of the files.
LEMMA IntactStep == FSBase /\ Clean /\ IntactOrUnmarked /\ [FSNext]_vars => IntactOrUnmarked'
<1>. SUFFICES ASSUME FSBase, Clean, IntactOrUnmarked, [FSNext]_vars PROVE IntactOrUnmarked'
  OBVIOUS
<1>1. CASE Format \/ Crash \/ UNCHANGED vars
  <2>1. disk' = disk /\ damaged' = damaged /\ written' = written
    BY <1>1 DEF Format, Crash, vars
  <2>. QED BY <2>1, IntactQuiet
<1>2. CASE Restart
  BY <1>2, IntactRestart
<1>3. CASE WriteSector
  <2>1. op.kind # "idle"
    BY <1>3, WriteSectorFacts
  <2>2. op.kind \in Kinds
    BY DEF FSBase, FSTypes, Operation
  <2>. QED BY <1>3, <2>1, <2>2, IntactFormatting, IntactCreating, IntactRemoving DEF Kinds
<1>8. ASSUME GoAstray PROVE IntactOrUnmarked'
  BY <1>8, IntactAstray
<1>9. ASSUME NEW n \in Name, RemoveMisread(n) PROVE IntactOrUnmarked'
  BY <1>8, <1>9 DEF RemoveMisread
<1>10. ASSUME NEW h \in handles, WriteMisread(h) PROVE IntactOrUnmarked'
  BY <1>8, <1>10 DEF WriteMisread
<1>4. ASSUME NEW n \in Name, RemoveFile(n) \/ Open(n) PROVE IntactOrUnmarked'
  <2>1. disk' = disk /\ damaged' = damaged /\ written' = written
    BY <1>4 DEF RemoveFile, Open
  <2>. QED BY <2>1, IntactQuiet
<1>5. ASSUME NEW n \in Name, NEW z \in FileSize, Create(n, z) PROVE IntactOrUnmarked'
  BY <1>5, IntactCreate
<1>6. ASSUME NEW h \in handles, Close(h) PROVE IntactOrUnmarked'
  <2>1. disk' = disk /\ damaged' = damaged /\ written' = written
    BY <1>6 DEF Close
  <2>. QED BY <2>1, IntactQuiet
<1>7. ASSUME NEW h \in handles, NEW i \in Blocks(h.hdr), NEW v \in Value,
             WriteBlock(h, i, v)
      PROVE IntactOrUnmarked'
  BY <1>7, IntactWriteBlock
<1>. QED BY <1>1, <1>2, <1>3, <1>4, <1>5, <1>6, <1>7, <1>9, <1>10 DEF FSNext

\* Between operations every file in the directory is marked, so intact.
LEMMA IntactIsData == FSBase /\ Clean /\ IntactOrUnmarked => DataIntact
<1>. SUFFICES ASSUME FSBase, Clean, IntactOrUnmarked, Ready, ~damaged, NEW i \in InUse(table)
     PROVE  LET hdr == disk[table[i].sector]  w == written[table[i].name] IN
            \A k \in DOMAIN hdr.dataSectors \cap DOMAIN w :
               w[k] = NoName \/ disk[hdr.dataSectors[k]] = [kind |-> "data", value |-> w[k]]
  BY DEF DataIntact
<1>1. GoodDisk(disk) /\ Present(disk) /\ op.kind = "idle" /\ table = Tab(disk)
  BY ReadyFacts DEF Known, Clean, HeadersRead
<1>2. Agree(disk)
  BY <1>1 DEF Clean, AfterAgrees
<1>3. IntactAt(disk, written, i)
  BY <1>1, <1>2, AgreeFacts DEF IntactOrUnmarked
<1>. QED BY <1>1, <1>3 DEF IntactAt

\* FSInv is inductive.
LEMMA FSInvInit == FSInit => FSInv
BY BaseInit, CleanInit, HarmsOneInit, IntactInit DEF FSInv

\* Every step of the file system, and every stutter, keeps the invariant.
LEMMA FSInvStep == FSInv /\ [FSNext]_vars => FSInv'
BY BaseStep, CleanStep, HarmsOneStep, IntactStep DEF FSInv

-----------------------------------------------------------------------------
(* What holds of every run                                                 *)

\* SystemFilesSurvive holds after any number of stops, restarts, Creates, Removes
\* and writes, on damaged disks too: a run goes astray only on a damaged disk, by
\* reading what is no header as one, and until it does the bitmap and the
\* directory are readable and marked as used, and no file gets a sector of them.
THEOREM SystemAlwaysSurvives == FSSpec => []SystemFilesSurvive
<1>1. FSInv => SystemFilesSurvive
  BY BaseSurvives DEF FSInv, Clean
<1>. QED BY <1>1, FSInvInit, FSInvStep, PTL DEF FSSpec

\* ConsistentBetweenOperations holds for every disk and directory: whatever was
\* created, removed and written, bitmap, directory and headers agree whenever no
\* operation is under way, unless Nachos was started on a disk a stop had harmed.
THEOREM AlwaysConsistent == FSSpec => []ConsistentBetweenOperations
<1>1. FSInv => ConsistentBetweenOperations
  BY CleanIsConsistent DEF FSInv
<1>. QED BY <1>1, FSInvInit, FSInvStep, PTL DEF FSSpec

\* CrashHarmsOneFile holds at every state, so for a stop between any two of the
\* sector writes of Create and Remove: no sector is lost, and every file but the
\* one under change keeps its header and has its sectors, marked, to itself.
THEOREM StopsHarmOneFile == FSSpec => []CrashHarmsOneFile
<1>1. FSInv => CrashHarmsOneFile
  BY DEF FSInv
<1>. QED BY <1>1, FSInvInit, FSInvStep, PTL DEF FSSpec

\* DataIntact holds for any disk, directory and number of clients: a block of a
\* file holds what was last written there through a handle, whatever other files
\* were created, written and removed since, across stops that harmed none of them.
THEOREM DataAlwaysIntact == FSSpec => []DataIntact
<1>1. FSInv => DataIntact
  BY IntactIsData DEF FSInv
<1>. QED BY <1>1, FSInvInit, FSInvStep, PTL DEF FSSpec
=============================================================================
