----------------------------- MODULE DiskTiming -----------------------------
(***************************************************************************)
(* machine/disk.cc: how long a request takes.  The disk turns one sector   *)
(* per RotationTime, sector number (t \div RotationTime) % SectorsPerTrack *)
(* passing the head at time t, and seeks one track per SeekTime; what      *)
(* passes the head after a seek is kept in the track buffer.  A head is    *)
(* the last sector requested and the time the track buffer was started.    *)
(***************************************************************************)
EXTENDS Integers

CONSTANTS SectorsPerTrack, RotationTime, SeekTime
ASSUME DiskTimingAssumption ==
    SectorsPerTrack \in Nat \ {0} /\ RotationTime \in Nat \ {0} /\ SeekTime \in Nat \ {0}

Head0 == [lastSector |-> 0, bufferInit |-> 0]

TimeToSeek(head, now, newSector) ==
    LET newTrack == newSector \div SectorsPerTrack
        oldTrack == head.lastSector \div SectorsPerTrack
        seek == (IF newTrack > oldTrack THEN newTrack - oldTrack ELSE oldTrack - newTrack) * SeekTime
        over == (now + seek) % RotationTime
    IN  [seek |-> seek, rotation |-> IF over > 0 THEN RotationTime - over ELSE 0]

\* Sectors of rotational delay.
ModuloDiff(to, from) ==
    ((to % SectorsPerTrack) - (from % SectorsPerTrack) + SectorsPerTrack) % SectorsPerTrack

Buffered(head, now, newSector, writing) ==
    LET t == TimeToSeek(head, now, newSector)
        timeAfter == now + t.seek + t.rotation
    IN  /\ ~writing /\ t.seek = 0
        /\ (timeAfter - head.bufferInit) \div RotationTime
             > ModuloDiff(newSector, head.bufferInit \div RotationTime)
ComputeLatency(head, now, newSector, writing) ==
    LET t == TimeToSeek(head, now, newSector)
        timeAfter == now + t.seek + t.rotation
    IN  IF Buffered(head, now, newSector, writing) THEN RotationTime
        ELSE t.seek + t.rotation + RotationTime
             + ModuloDiff(newSector, timeAfter \div RotationTime) * RotationTime

\* Mutant of UpdateLast: the track buffer survives a seek.
UpdateLastKeeping(head, now, newSector) == [head EXCEPT !.lastSector = newSector]
UpdateLast(head, now, newSector) ==
    LET t == TimeToSeek(head, now, newSector) IN
    [lastSector |-> newSector,
     bufferInit |-> IF t.seek # 0 THEN now + t.seek + t.rotation ELSE head.bufferInit]

-----------------------------------------------------------------------------
(* Properties                                                              *)

\* The sector that begins to pass the head at time t, a multiple of
\* RotationTime.
Under(t) == (t \div RotationTime) % SectorsPerTrack
Passes(t, sector) == t % RotationTime = 0 /\ Under(t) = sector % SectorsPerTrack

\* A request that is not served from the track buffer ends exactly when the
\* sector has passed the head for the first time after the seek ("how long it
\* will take to rotate completely past newSector after that point").
LatencyIsRotation(head, now, sector, writing) ==
    LET end == now + ComputeLatency(head, now, sector, writing)
        arrived == now + TimeToSeek(head, now, sector).seek
    IN  Buffered(head, now, sector, writing) \/
        (/\ Passes(end - RotationTime, sector)
         /\ end - RotationTime >= arrived
         /\ \A t \in arrived..(end - RotationTime - 1) : ~Passes(t, sector))

\* A read served from the track buffer finds its sector there: since the head
\* came to this track, at time arrival, the sector has begun to pass it, and has
\* passed when the transfer, which takes RotationTime, ends.
BufferHoldsSector(head, arrival, now, sector, writing) ==
    Buffered(head, now, sector, writing) =>
        /\ sector \div SectorsPerTrack = head.lastSector \div SectorsPerTrack
        /\ \E t \in arrival..now : Passes(t, sector)
=============================================================================
