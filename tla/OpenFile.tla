------------------------------ MODULE OpenFile ------------------------------
(***************************************************************************)
(* filesys/openfile.cc: reading and writing any range of bytes of a file   *)
(* on a disk that moves whole sectors, and the programs of                 *)
(* filesys/fstest.cc, which copy, print and test files in small chunks.    *)
(* A disk maps sectors to sequences of bytes; an open file is its header   *)
(* (the length and the data sectors) and the seek position.  The caller's  *)
(* data is a sequence.                                                     *)
(***************************************************************************)
EXTENDS Integers, Sequences, SequencesExt, FiniteSetsExt

CONSTANTS SectorSize, TransferSize
ASSUME OpenFileAssumption == SectorSize \in Nat \ {0} /\ TransferSize \in Nat \ {0}

Garbage == -1     \* a byte of a new buffer
NewOpenFile(length, sectors) == [length |-> length, sectors |-> sectors, seekPosition |-> 0]
Seek(f, position) == [f EXCEPT !.seekPosition = position]

ByteToSector(f, offset) == f.sectors[offset \div SectorSize + 1]

\* The check of a request: how many of its bytes are in the file.
Clipped(f, numBytes, position) ==
    IF numBytes <= 0 \/ position >= f.length THEN 0 ELSE Min({numBytes, f.length - position})

\* Sector number k of the file, and a buffer of sectors first to last.
FileSector(disk, f, k) == disk[ByteToSector(f, k * SectorSize)]
Concat(Part(_), first, last) == FlattenSeq([j \in 1..(last - first + 1) |-> Part(first + j - 1)])
Overlay(buf, at, bytes) ==
    [k \in DOMAIN buf |-> IF k - at \in DOMAIN bytes THEN bytes[k - at] ELSE buf[k]]

\* The bytes read: their number is the result of the code.
ReadAt(disk, f, numBytes, position) ==
    LET n     == Clipped(f, numBytes, position)
        first == position \div SectorSize
        last  == (position + n - 1) \div SectorSize
        Part(k) == FileSector(disk, f, k)
        start == position - first * SectorSize
    IN  IF n = 0 THEN <<>> ELSE SubSeq(Concat(Part, first, last), start + 1, start + n)

\* When the last sector must be read.  Mutant: only if it is not the first.
MustReadLastElsewhere(firstAligned, lastAligned, first, last) == ~lastAligned /\ first # last
MustReadLast(firstAligned, lastAligned, first, last) ==
    ~lastAligned /\ (first # last \/ firstAligned)

\* The disk afterwards and the number of bytes written.
WriteAt(disk, f, from, position) ==
    LET n     == Clipped(f, Len(from), position)
        first == position \div SectorSize
        last  == (position + n - 1) \div SectorSize
        firstAligned == position = first * SectorSize
        lastAligned  == position + n = (last + 1) * SectorSize
        new   == [k \in 1..((last - first + 1) * SectorSize) |-> Garbage]
        buf1  == IF firstAligned THEN new
                 ELSE Overlay(new, 0, ReadAt(disk, f, SectorSize, first * SectorSize))
        buf2  == IF ~MustReadLast(firstAligned, lastAligned, first, last) THEN buf1
                 ELSE Overlay(buf1, (last - first) * SectorSize,
                              ReadAt(disk, f, SectorSize, last * SectorSize))
        buf3  == Overlay(buf2, position - first * SectorSize, SubSeq(from, 1, n))
        Chunk(k) == SubSeq(buf3, (k - first) * SectorSize + 1, (k - first + 1) * SectorSize)
        Written(s, k) == k \in first..last /\ ByteToSector(f, k * SectorSize) = s
    IN  IF n = 0 THEN [disk |-> disk, n |-> 0]
        ELSE [disk |-> [s \in DOMAIN disk |->
                  IF \E k \in first..last : Written(s, k)
                  THEN Chunk(CHOOSE k \in first..last : Written(s, k)) ELSE disk[s]],
              n |-> n]

\* Read and Write go on from the seek position.
Write(s, from) ==
    LET w == WriteAt(s.disk, s.f, from, s.f.seekPosition) IN
    [disk |-> w.disk, f |-> Seek(s.f, s.f.seekPosition + w.n), n |-> w.n]
Read(s, numBytes) ==
    LET bytes == ReadAt(s.disk, s.f, numBytes, s.f.seekPosition) IN
    [disk |-> s.disk, f |-> Seek(s.f, s.f.seekPosition + Len(bytes)), bytes |-> bytes]

-----------------------------------------------------------------------------
(* fstest.cc                                                               *)

\* The loop of Copy: fread gives TransferSize bytes of the source at a time.
\* The Nachos file has been created as long as the source.
Copy(disk, f, source) ==
    LET chunks == (Len(source) + TransferSize - 1) \div TransferSize
        Fread(k) == SubSeq(source, (k - 1) * TransferSize + 1, Min({k * TransferSize, Len(source)}))
        loop[k \in 0..chunks] == IF k = 0 THEN [disk |-> disk, f |-> f, n |-> 0]
                                 ELSE Write(loop[k - 1], Fread(k))
    IN  loop[chunks].disk

\* What Print shows of the file: it reads until a read returns nothing.
PrintFile(disk, f) ==
    LET rounds == f.length + 1
        loop[k \in 0..rounds] ==
            IF k = 0 THEN [s |-> [disk |-> disk, f |-> f], out |-> <<>>]
            ELSE LET r == Read(loop[k - 1].s, TransferSize) IN
                 [s |-> r, out |-> loop[k - 1].out \o r.bytes]
    IN  loop[rounds].out

\* PerformanceTest: FileWrite writes contents again and again, until times is
\* reached or a write comes short; FileRead reads and compares.  Both give the
\* number of rounds that succeeded.
FileWrite(disk, f, contents, times) ==
    LET loop[k \in 0..times] ==
            IF k = 0 THEN [s |-> [disk |-> disk, f |-> f], done |-> 0]
            ELSE LET w == Write(loop[k - 1].s, contents) IN
                 IF loop[k - 1].done < k - 1 THEN loop[k - 1]
                 ELSE [s |-> w, done |-> IF w.n < Len(contents) THEN k - 1 ELSE k]
    IN  [disk |-> loop[times].s.disk, done |-> loop[times].done]
FileRead(disk, f, contents, times) ==
    LET loop[k \in 0..times] ==
            IF k = 0 THEN [s |-> [disk |-> disk, f |-> f], done |-> 0]
            ELSE LET r == Read(loop[k - 1].s, Len(contents)) IN
                 IF loop[k - 1].done < k - 1 THEN loop[k - 1]
                 ELSE [s |-> r, done |-> IF r.bytes # contents THEN k - 1 ELSE k]
    IN  loop[times].done
PerformanceTest(disk, f, contents, times) ==
    LET w == FileWrite(disk, f, contents, times) IN
    [written |-> w.done, read |-> FileRead(w.disk, f, contents, times)]

-----------------------------------------------------------------------------
(* Properties                                                              *)

\* The file as its owner sees it.
Content(disk, f) ==
    [k \in 1..f.length |-> disk[ByteToSector(f, k - 1)][((k - 1) % SectorSize) + 1]]

\* WriteAt changes exactly the bytes of the request that are in the file: the
\* rest of the file, also where it shares a sector with them, and all other
\* sectors keep their contents ("so that we don't overwrite the unmodified
\* portion"); ReadAt then returns them.
WriteChangesItsBytesOnly(disk, f, from, position) ==
    LET w == WriteAt(disk, f, from, position) IN
    /\ Content(w.disk, f) = Overlay(Content(disk, f), position, from)
    /\ \A s \in DOMAIN disk : s \notin {f.sectors[k] : k \in DOMAIN f.sectors} => w.disk[s] = disk[s]
    /\ ReadAt(w.disk, f, Len(from), position) = SubSeq(from, 1, w.n)

\* Copy and then Print, in chunks that fit neither the sectors nor the file,
\* return the source.
ChunksAddUp(disk, f, source) == PrintFile(Copy(disk, f, source), f) = source

\* The performance test writes and reads back as much as fits into the file it
\* was given (the code creates one of 0 bytes, and stops at once).
PerformanceExact(disk, f, contents) ==
    \A times \in 0..3 :
        LET fit == Min({times, f.length \div Len(contents)})
            test == PerformanceTest(disk, f, contents, times)
        IN  test.written = fit /\ (fit = times => test.read = fit)
=============================================================================
