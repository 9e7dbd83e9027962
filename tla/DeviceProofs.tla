---------------------------- MODULE DeviceProofs ----------------------------
(***************************************************************************)
(* The drivers of the three devices, disk, console and network, for any    *)
(* set of threads, sectors, values, characters, machines and mailboxes.    *)
(*                                                                         *)
(* SynchDisk: a request always finds the disk idle, returns only after its *)
(* own interrupt, and what the callers see is a disk whose sectors are     *)
(* read and written atomically.  RequestFindsDiskIdle is not inductive: it *)
(* needs to know that the thread with the lock is the only one at the disk *)
(* (LockCoversRequest) and that a request in the waiting state has exactly *)
(* one answer under way, as interrupt or as V (OneAnswerPerRequest).       *)
(*                                                                         *)
(* ConsoleTest: the echo loses, repeats and reorders nothing.  EchoExact   *)
(* is not inductive either: see EchoInv.                                   *)
(*                                                                         *)
(* The post office, whatever calls the clients make and whether packets    *)
(* are lost or not: each completion meets the sender it belongs to, the    *)
(* postal worker finds a packet when it is woken, no mail lies where       *)
(* somebody sleeps (NoSignalAstray), and a mailbox is a queue              *)
(* (MailIsQueued).  None of the parts of NoSignalAstray is inductive: see  *)
(* PostInv.                                                                *)
(***************************************************************************)
EXTENDS SynchDisk, Console, PostOffice, FiniteSetTheorems, SequenceTheorems,
        WellFoundedInduction, TLAPS

\* A disk that has just been created satisfies the invariant.
LEMMA DiskInitInv == DiskInit => DiskInv
<1>. SUFFICES ASSUME DiskInit PROVE DiskInv
  OBVIOUS
<1>1. DiskTypeOK
  <2>0. active \in BOOLEAN
    BY Zenon DEF DiskInit
  <2>1. irq \in 0..1 /\ semaphore \in 0..1
    BY DEF DiskInit
  <2>2. /\ sectors \in [Sector -> Value \cup {Zero}]
        /\ pc \in [Thread -> {"idle", "acquire", "request", "wait", "release"}]
        /\ lock \in Thread \cup {NoThread}
        /\ req \in [Thread -> Request \cup {NoRequest}]
        /\ data \in [Thread -> Value \cup {Zero}]
    BY DEF DiskInit
  <2>. QED BY <2>0, <2>1, <2>2 DEF DiskTypeOK
<1>2. LockCoversRequest
  BY NoThreadAssumption DEF DiskInit, LockCoversRequest
<1>3. OneAnswerPerRequest /\ RequestKept
  BY DEF DiskInit, OneAnswerPerRequest, RequestKept
<1>. QED BY <1>1, <1>2, <1>3 DEF DiskInv

\* Every step of the callers, of the disk and of its handler preserves it.
LEMMA DiskStepInv == DiskInv /\ [DiskNext]_diskVars => DiskInv'
<1>. SUFFICES ASSUME DiskInv, [DiskNext]_diskVars PROVE DiskInv'
  OBVIOUS
<1>. USE DEF DiskInv
<1>1. CASE HandleInterrupt
  <2>. USE <1>1 DEF HandleInterrupt, RequestDone
  <2>1. irq = 1 /\ semaphore = 0 /\ irq' = 0 /\ semaphore' = 1 /\ active' = FALSE
    BY DEF DiskTypeOK, OneAnswerPerRequest
  <2>2. \E t \in Thread : pc[t] = "wait"
    BY <2>1 DEF OneAnswerPerRequest
  <2>3. DiskTypeOK'
    BY <2>1 DEF DiskTypeOK
  <2>4. OneAnswerPerRequest'
    BY <2>1, <2>2 DEF OneAnswerPerRequest
  <2>5. LockCoversRequest' /\ RequestKept'
    BY DEF LockCoversRequest, RequestKept
  <2>. QED BY <2>3, <2>4, <2>5
<1>2. ASSUME NEW t \in Thread, CallSector(t) PROVE DiskInv'
  <2>. USE <1>2 DEF CallSector
  <2>1. pc' = [pc EXCEPT ![t] = "acquire"] /\ pc[t] = "idle"
        /\ pc \in [Thread -> {"idle", "acquire", "request", "wait", "release"}]
    BY DEF DiskTypeOK
  <2>2. PICK r \in Request, v \in Value :
           /\ req' = [req EXCEPT ![t] = r]
           /\ data' = IF r.op = "write" THEN [data EXCEPT ![t] = v] ELSE data
    OBVIOUS
  <2>3. DiskTypeOK'
    BY <2>1, <2>2 DEF DiskTypeOK
  <2>4. LockCoversRequest' /\ OneAnswerPerRequest'
    BY <2>1 DEF LockCoversRequest, OneAnswerPerRequest
  <2>5. RequestKept'
    BY <2>1, <2>2 DEF RequestKept, DiskTypeOK
  <2>. QED BY <2>3, <2>4, <2>5
<1>3. ASSUME NEW t \in Thread, Acquire(t) PROVE DiskInv'
  <2>. USE <1>3 DEF Acquire
  <2>1. DiskTypeOK'
    BY DEF DiskTypeOK
  <2>2. LockCoversRequest'
    BY NoThreadAssumption DEF LockCoversRequest, DiskTypeOK
  <2>3. OneAnswerPerRequest' /\ RequestKept'
    BY DEF OneAnswerPerRequest, RequestKept, DiskTypeOK
  <2>. QED BY <2>1, <2>2, <2>3
<1>4. ASSUME NEW t \in Thread, RequestSector(t) PROVE DiskInv'
  <2>. USE <1>4 DEF RequestSector
  <2>1. lock = t /\ req[t] \in Request /\ \A u \in Thread : pc[u] # "wait"
    BY DEF LockCoversRequest, RequestKept
  <2>2. irq = 0 /\ semaphore = 0 /\ irq' = 1 /\ semaphore' = 0 /\ active' = TRUE
    BY <2>1 DEF OneAnswerPerRequest
  <2>3. sectors' \in [Sector -> Value \cup {Zero}] /\ data' \in [Thread -> Value \cup {Zero}]
    BY <2>1 DEF Transfer, DiskTypeOK, Request
  <2>4. DiskTypeOK'
    <3>1. active' \in BOOLEAN /\ irq' \in 0..1 /\ semaphore' \in 0..1
      BY <2>2
    <3>2. /\ pc' \in [Thread -> {"idle", "acquire", "request", "wait", "release"}]
          /\ lock' \in Thread \cup {NoThread}
          /\ req' \in [Thread -> Request \cup {NoRequest}]
      BY DEF DiskTypeOK
    <3>. QED BY <2>3, <3>1, <3>2 DEF DiskTypeOK
  <2>5. LockCoversRequest' /\ RequestKept'
    BY DEF LockCoversRequest, RequestKept, DiskTypeOK
  <2>6. OneAnswerPerRequest'
    BY <2>2 DEF OneAnswerPerRequest, DiskTypeOK
  <2>. QED BY <2>4, <2>5, <2>6
<1>5. ASSUME NEW t \in Thread, AwaitInterrupt(t) PROVE DiskInv'
  <2>. USE <1>5 DEF AwaitInterrupt
  <2>1. irq = 0 /\ semaphore = 1 /\ active = FALSE /\ semaphore' = 0
    BY DEF OneAnswerPerRequest, DiskTypeOK
  <2>2. \A u \in Thread : pc'[u] # "wait"
    BY DEF LockCoversRequest, DiskTypeOK
  <2>3. DiskTypeOK'
    BY <2>1 DEF DiskTypeOK
  <2>4. OneAnswerPerRequest'
    BY <2>1, <2>2 DEF OneAnswerPerRequest
  <2>5. LockCoversRequest' /\ RequestKept'
    BY DEF LockCoversRequest, RequestKept, DiskTypeOK
  <2>. QED BY <2>3, <2>4, <2>5
<1>6. ASSUME NEW t \in Thread, Release(t) PROVE DiskInv'
  <2>. USE <1>6 DEF Release
  <2>1. DiskTypeOK'
    BY DEF DiskTypeOK, NoRequest
  <2>2. LockCoversRequest'
    BY NoThreadAssumption DEF LockCoversRequest, DiskTypeOK
  <2>3. OneAnswerPerRequest' /\ RequestKept'
    BY DEF OneAnswerPerRequest, RequestKept, DiskTypeOK
  <2>. QED BY <2>1, <2>2, <2>3
<1>7. CASE UNCHANGED diskVars
  BY <1>7 DEF diskVars, DiskTypeOK, LockCoversRequest, OneAnswerPerRequest, RequestKept
<1>. QED
  BY <1>1, <1>2, <1>3, <1>4, <1>5, <1>6, <1>7 DEF DiskNext, CallerStep

\* DiskInv holds in every reachable state of SynchDisk.
LEMMA DiskInvariant == DiskSpec => []DiskInv
BY DiskInitInv, DiskStepInv, PTL DEF DiskSpec

\* The state of disk, lock and semaphore keeps its types; no two interrupts and
\* no two Vs are ever outstanding.
THEOREM DiskTypeCorrect == DiskSpec => []DiskTypeOK
<1>1. DiskInv => DiskTypeOK
  BY DEF DiskInv
<1>. QED BY <1>1, DiskInvariant, PTL

\* The ASSERT(!active) of Disk::ReadRequest and WriteRequest never fails, no
\* answer to an earlier request is left for the next one, and ReadSector and
\* WriteSector return only after the interrupt of their own request.
THEOREM DiskIdleAtRequest == DiskSpec => []RequestFindsDiskIdle
<1>1. DiskInv => RequestFindsDiskIdle
  BY DEF DiskInv, LockCoversRequest, OneAnswerPerRequest, RequestFindsDiskIdle
<1>. QED BY <1>1, DiskInvariant, PTL

\* Each step of SynchDisk is a step of AtomicDisk or leaves its state alone.  The
\* request is Perform because the lock keeps everybody else from the disk, so
\* that it is idle; the interrupt is Complete because the one who waits is the
\* one who was served; passing P is no step because the semaphore is up only
\* after the interrupt.
LEMMA DiskStepIsAtomic ==
    DiskInv /\ [DiskNext]_diskVars
      => [Atomic!ADNext]_<<sectors, active, [t \in Thread |-> CallOf(t)], data>>
<1>. SUFFICES ASSUME DiskInv, [DiskNext]_diskVars
              PROVE  [Atomic!ADNext]_<<sectors, active, [t \in Thread |-> CallOf(t)], data>>
  OBVIOUS
<1>. DEFINE calls == [t \in Thread |-> CallOf(t)]
<1>0. pc \in [Thread -> {"idle", "acquire", "request", "wait", "release"}]
      /\ req \in [Thread -> Request \cup {NoRequest}]
  BY DEF DiskInv, DiskTypeOK
<1>1. ASSUME HandleInterrupt PROVE \E t \in Thread : Atomic!Complete(t)
  <2>. USE <1>1 DEF HandleInterrupt
  <2>1. PICK t \in Thread : pc[t] = "wait"
    BY DEF DiskInv, DiskTypeOK, OneAnswerPerRequest
  <2>2. active /\ ~active' /\ lock = t
    BY <2>1 DEF DiskInv, DiskTypeOK, OneAnswerPerRequest, LockCoversRequest
  <2>3. \A u \in Thread : u # t => pc[u] # "wait"
    BY <2>2 DEF DiskInv, LockCoversRequest
  <2>4. calls[t] = Atomic!Served
    BY <2>1, <2>2 DEF CallOf, Atomic!Served
  <2>5. calls' = [calls EXCEPT ![t] = Atomic!Done]
    BY <2>1, <2>2, <2>3 DEF CallOf, Atomic!Done
  <2>. QED BY <2>2, <2>4, <2>5 DEF Atomic!Complete
<1>2. ASSUME NEW t \in Thread, CallSector(t) PROVE Atomic!Begin(t)
  <2>. USE <1>2 DEF CallSector
  <2>1. calls[t] = NoRequest
    BY DEF CallOf, DiskInv, RequestKept
  <2>2. PICK r \in Request, v \in Value :
           /\ req' = [req EXCEPT ![t] = r]
           /\ data' = IF r.op = "write" THEN [data EXCEPT ![t] = v] ELSE data
    OBVIOUS
  <2>3. calls' = [calls EXCEPT ![t] = r]
    BY <1>0, <2>2 DEF CallOf
  <2>. QED
    BY <2>1, <2>2, <2>3 DEF Atomic!Begin, Atomic!Calls, Atomic!NoCall, NoRequest, Request, CallOf
<1>3. ASSUME NEW t \in Thread, Acquire(t) PROVE UNCHANGED <<sectors, active, calls, data>>
  BY <1>0, <1>3 DEF Acquire, CallOf
<1>4. ASSUME NEW t \in Thread, RequestSector(t) PROVE Atomic!Perform(t)
  <2>. USE <1>4 DEF RequestSector
  <2>1. calls[t] = req[t] /\ req[t] \in Request
    BY DEF CallOf, DiskInv, RequestKept
  <2>2. \A u \in Thread : pc[u] # "wait"
    BY DEF DiskInv, LockCoversRequest
  <2>3. ~active
    BY <2>2 DEF DiskInv, OneAnswerPerRequest
  <2>4. calls' = [calls EXCEPT ![t] = Atomic!Served]
    BY <1>0, <2>2 DEF CallOf, Atomic!Served
  <2>. QED
    BY <2>1, <2>3, <2>4 DEF Atomic!Perform, Atomic!Calls, Request, Transfer, CallOf
<1>5. ASSUME NEW t \in Thread, AwaitInterrupt(t) PROVE UNCHANGED <<sectors, active, calls, data>>
  <2>1. pc[t] = "wait" /\ ~active
    BY <1>5 DEF AwaitInterrupt, DiskInv, DiskTypeOK, OneAnswerPerRequest
  <2>. QED BY <1>0, <1>5, <2>1 DEF AwaitInterrupt, CallOf
<1>6. ASSUME NEW t \in Thread, Release(t) PROVE Atomic!Finish(t)
  <2>. USE <1>6 DEF Release
  <2>1. calls[t] = Atomic!Done
    BY DEF CallOf, Atomic!Done
  <2>2. calls' = [calls EXCEPT ![t] = NoRequest]
    BY <1>0 DEF CallOf
  <2>. QED
    BY <2>1, <2>2 DEF Atomic!Finish, Atomic!NoCall, NoRequest, CallOf
<1>7. CASE UNCHANGED diskVars
  BY <1>7 DEF diskVars, CallOf
<1>. QED
  BY <1>1, <1>2, <1>3, <1>4, <1>5, <1>6, <1>7 DEF DiskNext, CallerStep, Atomic!ADNext

\* SynchDisk implements AtomicDisk: the disk takes up a call only when it is done
\* with the one before, each call returns after its own completion, and its
\* sector is read or written in one step in between, whatever the others do.
THEOREM DiskImplementsAtomic == DiskSpec => DiskIsAtomic
<1>1. DiskInit => Atomic!ADInit
  BY DEF DiskInit, CallOf, Atomic!ADInit, Atomic!NoCall, NoRequest
<1>2. DiskInv /\ [DiskNext]_diskVars
        => [Atomic!ADNext]_<<sectors, active, [t \in Thread |-> CallOf(t)], data>>
  BY DiskStepIsAtomic
<1>. QED BY <1>1, <1>2, DiskInvariant, PTL DEF DiskSpec, DiskIsAtomic, Atomic!ADSpec

-----------------------------------------------------------------------------
(* The console test                                                        *)

\* readAvail and the thread that has just taken it announce the character in the
\* buffer: one V for every character, and none for an empty buffer.
BufferAnnounced ==
    /\ readAvail = IF incoming # EOF /\ at # "get" THEN 1 ELSE 0
    /\ at = "get" => incoming # EOF

\* While ConsoleTest waits for its PutChar there is one answer under way, as
\* interrupt or as V, and otherwise none; the device is busy until the interrupt.
WriteAnswered ==
    /\ at = "awaitWrite" => writeIrq + writeDone = 1
    /\ at # "awaitWrite" => writeIrq = 0 /\ writeDone = 0
    /\ putBusy <=> writeIrq = 1

\* EchoExact in its inductive form: that the next character is read only when
\* the buffer is empty, and written only when the device is free, rests on the
\* semaphores counting exactly what the buffer and the device hold.
EchoInv ==
    /\ ConsoleTypeOK
    /\ input \in Seq(Char) /\ typed \in 0 .. Len(input)
    /\ display \in Seq(Char)
    /\ ch \in Char \cup {EOF} /\ (at = "put" => ch \in Char)
    /\ BufferAnnounced /\ WriteAnswered
    /\ EchoInOrder

\* What the console holds on its way to the screen.
Held == IF incoming # EOF THEN <<incoming>> ELSE << >>
InHand == IF at = "put" THEN <<ch>> ELSE << >>

\* ConsoleTest starts with nothing typed and nothing written.
LEMMA EchoStart == ConsoleInit => EchoInv
<1>. SUFFICES ASSUME ConsoleInit PROVE EchoInv
  OBVIOUS
<1>0. MaxTyped \in Nat /\ EOF \notin Char
  BY ConsoleAssumption
<1>1. input \in Seq(Char)
  <2>1. PICK m \in 0 .. MaxTyped : input \in [1 .. m -> Char]
    BY DEF ConsoleInit, SeqOf
  <2>. QED BY <2>1, <1>0
<1>2. Len(input) \in Nat
  BY <1>1
<1>3. putBusy \in BOOLEAN /\ ~putBusy
  BY Zenon DEF ConsoleInit
<1>4. ConsoleTypeOK
  BY <1>3 DEF ConsoleInit, ConsoleTypeOK
<1>5. EchoInOrder
  <2>1. SubSeq(input, 1, 0) = << >>
    BY SubSeqEmpty
  <2>2. << >> \o << >> = << >>
    OBVIOUS
  <2>. QED BY <2>1, <2>2 DEF ConsoleInit, EchoInOrder
<1>6. BufferAnnounced
  BY DEF ConsoleInit, BufferAnnounced
<1>7. WriteAnswered
  BY <1>3 DEF ConsoleInit, WriteAnswered
<1>. QED
  BY <1>1, <1>2, <1>4, <1>5, <1>6, <1>7 DEF ConsoleInit, EchoInv

\* The screen, the character in hand and the buffer are sequences of characters.
LEMMA HeldTypes ==
  ASSUME EchoInv
  PROVE  Held \in Seq(Char) /\ InHand \in Seq(Char) /\ display \in Seq(Char)
         /\ EchoInOrder = (SubSeq(input, 1, typed) = display \o InHand \o Held)
<1>1. Held \in Seq(Char)
  BY DEF EchoInv, ConsoleTypeOK, Held
<1>2. InHand \in Seq(Char)
  BY DEF EchoInv, InHand
<1>. QED BY <1>1, <1>2 DEF EchoInv, Held, InHand, EchoInOrder

\* Every step of the device and of ConsoleTest preserves EchoInv.
LEMMA EchoStep == EchoInv /\ [ConsoleNext]_consoleVars => EchoInv'
<1>. SUFFICES ASSUME EchoInv, [ConsoleNext]_consoleVars PROVE EchoInv'
  OBVIOUS
<1>0. /\ ConsoleTypeOK /\ BufferAnnounced /\ WriteAnswered /\ EchoInOrder
      /\ input \in Seq(Char) /\ typed \in 0 .. Len(input) /\ display \in Seq(Char)
      /\ ch \in Char \cup {EOF} /\ (at = "put" => ch \in Char)
      /\ EOF \notin Char /\ Len(input) \in Nat
  BY ConsoleAssumption DEF EchoInv
<1>t. /\ Held \in Seq(Char) /\ InHand \in Seq(Char)
      /\ SubSeq(input, 1, typed) = display \o InHand \o Held
  BY <1>0, HeldTypes
<1>1. CASE CheckCharAvail
  <2>. USE <1>1 DEF CheckCharAvail
  <2>1. input[typed + 1] \in Char /\ typed + 1 \in 1 .. Len(input) /\ typed' = typed + 1
    BY <1>0
  <2>2. incoming = EOF /\ incoming' = input[typed + 1] /\ incoming' # EOF
        /\ incoming' \in Char
    BY <1>0, <2>1
  <2>3. readAvail = 0 /\ at # "get" /\ readAvail' = 1
    BY <1>0, <2>2 DEF BufferAnnounced
  <2>4. BufferAnnounced'
    BY <2>2, <2>3 DEF BufferAnnounced
  <2>5. WriteAnswered'
    BY <1>0 DEF WriteAnswered
  <2>6. ConsoleTypeOK'
    BY <1>0, <2>2, <2>3 DEF ConsoleTypeOK
  <2>7. EchoInOrder'
    <3>1. SubSeq(input, 1, typed + 1) = SubSeq(input, 1, typed) \o <<input[typed + 1]>>
      <4>1. typed + 1 \in 1 .. Len(input) /\ 1 \in 1 .. Len(input) /\ typed + 1 - 1 = typed
        BY <1>0, <2>1
      <4>. QED BY <4>1, <1>0, SubSeqRecursiveSecond
    <3>2. Held = << >> /\ Held' = <<input[typed + 1]>> /\ InHand' = InHand
      BY <2>2 DEF Held, InHand
    <3>3. display \o InHand \o << >> = display \o InHand
      BY <1>0, <1>t, ConcatProperties, ConcatEmptySeq
    <3>4. SubSeq(input, 1, typed)' = display' \o InHand' \o Held'
      BY <3>1, <3>2, <3>3, <2>1, <1>t
    <3>. QED BY <3>4 DEF EchoInOrder, Held, InHand
  <2>. QED BY <1>0, <2>1, <2>4, <2>5, <2>6, <2>7 DEF EchoInv
<1>2. CASE WriteDone
  <2>. USE <1>2 DEF WriteDone
  <2>1. at = "awaitWrite" /\ writeIrq = 1 /\ writeDone = 0 /\ writeIrq' = 0 /\ writeDone' = 1
    BY <1>0 DEF WriteAnswered, ConsoleTypeOK
  <2>2. putBusy' = FALSE
    OBVIOUS
  <2>3. WriteAnswered'
    BY <2>1, <2>2 DEF WriteAnswered
  <2>4. ConsoleTypeOK'
    BY <1>0, <2>1, <2>2 DEF ConsoleTypeOK
  <2>5. BufferAnnounced' /\ EchoInOrder'
    BY <1>0 DEF BufferAnnounced, EchoInOrder
  <2>. QED BY <1>0, <2>3, <2>4, <2>5 DEF EchoInv
<1>3. CASE AwaitChar
  <2>. USE <1>3 DEF AwaitChar
  <2>1. readAvail = 1 /\ incoming # EOF /\ readAvail' = 0 /\ at' = "get" /\ incoming' = incoming
    BY <1>0 DEF BufferAnnounced, ConsoleTypeOK
  <2>2. BufferAnnounced'
    BY <2>1 DEF BufferAnnounced
  <2>3. WriteAnswered'
    BY <1>0 DEF WriteAnswered
  <2>4. ConsoleTypeOK'
    BY <1>0, <2>1 DEF ConsoleTypeOK
  <2>5. EchoInOrder'
    BY <1>0, <2>1 DEF EchoInOrder
  <2>. QED BY <1>0, <2>1, <2>2, <2>3, <2>4, <2>5 DEF EchoInv
<1>4. CASE GetChar
  <2>. USE <1>4 DEF GetChar
  <2>1. /\ at = "get" /\ at' = "put" /\ incoming # EOF /\ incoming \in Char
        /\ ch' = incoming /\ incoming' = EOF /\ readAvail = 0 /\ readAvail' = 0
    BY <1>0 DEF BufferAnnounced, ConsoleTypeOK
  <2>2. BufferAnnounced'
    BY <2>1 DEF BufferAnnounced
  <2>3. WriteAnswered'
    BY <1>0, <2>1 DEF WriteAnswered
  <2>4. ConsoleTypeOK'
    BY <1>0, <2>1 DEF ConsoleTypeOK
  <2>5. EchoInOrder'
    <3>1. InHand = << >> /\ Held = <<incoming>> /\ InHand' = <<incoming>> /\ Held' = << >>
      BY <2>1 DEF InHand, Held
    <3>2. <<incoming>> \in Seq(Char)
      BY <2>1
    <3>3. display \o << >> \o <<incoming>> = display \o <<incoming>> \o << >>
      BY <3>2, <1>0, ConcatProperties, ConcatEmptySeq
    <3>4. (SubSeq(input, 1, typed) = display \o InHand \o Held)'
      BY <3>1, <3>3, <1>t
    <3>. QED BY <3>4 DEF EchoInOrder, Held, InHand
  <2>. QED BY <1>0, <2>1, <2>2, <2>3, <2>4, <2>5 DEF EchoInv
<1>5. CASE PutChar
  <2>. USE <1>5 DEF PutChar
  <2>1. /\ at = "put" /\ at' = "awaitWrite" /\ ch \in Char /\ display' = Append(display, ch)
        /\ writeIrq = 0 /\ writeIrq' = 1 /\ writeDone = 0 /\ writeDone' = 0
    BY <1>0 DEF WriteAnswered, ConsoleTypeOK
  <2>2. putBusy' = TRUE
    OBVIOUS
  <2>3. WriteAnswered'
    BY <2>1, <2>2 DEF WriteAnswered
  <2>4. ConsoleTypeOK'
    BY <1>0, <2>1, <2>2 DEF ConsoleTypeOK
  <2>5. BufferAnnounced'
    BY <1>0, <2>1 DEF BufferAnnounced
  <2>6. display' \in Seq(Char)
    BY <1>0, <2>1, AppendProperties
  <2>7. EchoInOrder'
    <3>1. InHand = <<ch>> /\ InHand' = << >> /\ Held' = Held
      BY <2>1 DEF InHand, Held
    <3>2. display' = display \o <<ch>>
      BY <2>1, <1>0, AppendIsConcat
    <3>3. display' \o << >> = display \o <<ch>>
      BY <2>6, <3>2, ConcatEmptySeq
    <3>4. (SubSeq(input, 1, typed) = display \o InHand \o Held)'
      BY <3>1, <3>2, <3>3, <1>t
    <3>. QED BY <3>4 DEF EchoInOrder, Held, InHand
  <2>. QED BY <1>0, <2>1, <2>3, <2>4, <2>5, <2>6, <2>7 DEF EchoInv
<1>6. CASE AwaitWrite
  <2>. USE <1>6 DEF AwaitWrite
  <2>1. /\ at = "awaitWrite" /\ at' \in {"done", "awaitChar"}
        /\ writeDone = 1 /\ writeIrq = 0 /\ writeDone' = 0 /\ writeIrq' = 0
    BY <1>0 DEF WriteAnswered, ConsoleTypeOK
  <2>2. WriteAnswered'
    BY <1>0, <2>1 DEF WriteAnswered
  <2>3. ConsoleTypeOK'
    BY <1>0, <2>1 DEF ConsoleTypeOK
  <2>4. BufferAnnounced'
    BY <1>0, <2>1 DEF BufferAnnounced
  <2>5. EchoInOrder'
    BY <1>0, <2>1 DEF EchoInOrder
  <2>. QED BY <1>0, <2>1, <2>2, <2>3, <2>4, <2>5 DEF EchoInv
<1>7. CASE UNCHANGED consoleVars
  BY <1>0, <1>7 DEF consoleVars, EchoInv, ConsoleTypeOK, BufferAnnounced, WriteAnswered, EchoInOrder
<1>. QED BY <1>1, <1>2, <1>3, <1>4, <1>5, <1>6, <1>7 DEF ConsoleNext, ConsoleTest

\* EchoInv is invariant.
LEMMA EchoInvariant == ConsoleSpec => []EchoInv
BY EchoStart, EchoStep, PTL DEF ConsoleSpec

\* ConsoleTest echoes exactly: for any input, whatever the order in which the
\* poll, the write interrupt and the thread run, no character is lost, repeated
\* or overtaken between keyboard and screen, and PutChar's ASSERT(putBusy == FALSE)
\* of console.cc holds.
THEOREM EchoIsExact == ConsoleSpec => []EchoExact
<1>1. EchoInv => EchoExact
  <2>1. EchoInv /\ at = "put" => writeIrq = 0
    BY DEF EchoInv, WriteAnswered
  <2>2. EchoInv => PutFindsConsoleFree
    BY <2>1 DEF EchoInv, WriteAnswered, PutFindsConsoleFree
  <2>. QED BY <2>2 DEF EchoInv, EchoExact
<1>. QED BY <1>1, EchoInvariant, PTL

-----------------------------------------------------------------------------
(* The network and the post office                                          *)

Sending == {"send", "wait", "release"}

\* Everything has its type.
PostTypes ==
    /\ power \in [Machine -> {"off", "up", "halted"}]
    /\ running \subseteq Client
    /\ socket \in [Machine -> Seq(Mail)]
    /\ inHdr \in [Machine -> Mail \cup {NoMail}] /\ hand \in [Machine -> Mail \cup {NoMail}]
    /\ sendIrq \in [Machine -> Nat]
    /\ messageAvailable \in [Machine -> Nat] /\ messageSent \in [Machine -> Nat]
    /\ sendLock \in [Machine -> Client \cup {NoClient}]
    /\ worker \in [Machine -> {"wait", "receive", "put"}]
    /\ boxes \in [Machine -> [Box -> Seq(Mail)]]
    /\ waiters \in [Machine -> [Box -> Seq(Client)]]
    /\ step \in [Client -> Nat \ {0}]
    /\ stage \in [Client -> {"idle", "send", "wait", "release", "waiting", "woken"}]
    /\ last \in [Client -> Mail \cup {NoMail}]

\* A client in the middle of a call is in the call its script names, and one
\* past a Receive has a message to reply to.
InCall ==
    \A c \in Client :
        /\ stage[c] # "idle" => step[c] <= Len(Script[c])
        /\ stage[c] \in Sending => Call(c).op \in {"send", "reply"}
        /\ stage[c] \in {"waiting", "woken"} => Call(c).op = "receive"
        /\ (\E j \in 1 .. step[c] - 1 : j <= Len(Script[c]) /\ Script[c][j].op = "receive") => last[c] \in Mail

\* Whoever is in Send past Acquire holds its machine's sendLock, and nobody else.
LockCoversSend ==
    /\ \A c \in Client : stage[c] \in Sending => sendLock[Host[c]] = c
    /\ \A m \in Machine : sendLock[m] # NoClient =>
          Host[sendLock[m]] = m /\ stage[sendLock[m]] \in Sending

\* A completion is under way, as interrupt or as V, exactly while its sender waits.
OneCompletion ==
    \A m \in Machine : sendIrq[m] + messageSent[m] =
        IF sendLock[m] # NoClient /\ stage[sendLock[m]] = "wait" THEN 1 ELSE 0

\* One V, or a worker that has taken it, for the packet in the network's buffer;
\* and the worker holds mail exactly when it is about to deliver it.
OneArrival ==
    \A m \in Machine :
        /\ messageAvailable[m] + (IF worker[m] = "receive" THEN 1 ELSE 0) =
             IF inHdr[m] # NoMail THEN 1 ELSE 0
        /\ worker[m] = "put" => hand[m] \in Mail

\* The clients on a mailbox's queue are inside its Receive, once each.
WaitersWait ==
    \A m \in Machine, b \in Box :
        /\ \A i \in DOMAIN waiters[m][b] : LET c == waiters[m][b][i] IN
              stage[c] = "waiting" /\ Host[c] = m /\ Call(c).box = b
        /\ \A i, j \in DOMAIN waiters[m][b] : waiters[m][b][i] = waiters[m][b][j] => i = j

\* The clients that were woken for a mailbox and have not looked yet.
Woken(m, b) == {c \in Client : Host[c] = m /\ stage[c] = "woken" /\ Call(c).box = b}

MailCovered ==
    \A m \in Machine, b \in Box :
        /\ IsFiniteSet(Woken(m, b))
        /\ waiters[m][b] # << >> => Len(boxes[m][b]) <= Cardinality(Woken(m, b))

\* The inductive invariant.
PostInv ==
    /\ PostTypes /\ InCall /\ LockCoversSend /\ OneCompletion /\ OneArrival
    /\ WaitersWait /\ MailCovered

-----------------------------------------------------------------------------
(* Types                                                                   *)

\* A client runs on a machine.
LEMMA HostTyped == \A c \in Client : Host[c] \in Machine
BY PostAssumption

\* A client that makes a call makes one of its script.
LEMMA CallTyped ==
  ASSUME PostTypes, NEW c \in Client, NEW ops, Calls(c, ops)
  PROVE  /\ Call(c) \in CallType /\ Call(c).op \in ops
         /\ Host[c] \in Machine
         /\ step[c] \in 1 .. Len(Script[c]) /\ step[c] \in Nat
         /\ Script[c] \in Seq(CallType)
BY PostAssumption DEF PostTypes, Calls, Call

\* What a Receive names is a box.
LEMMA ReceiveTyped ==
  ASSUME PostTypes, NEW c \in Client, Calls(c, {"receive"})
  PROVE  Call(c).box \in Box
BY CallTyped DEF CallType

\* What a Send or a reply hands to the post office is a message.
LEMMA OutgoingTyped ==
  ASSUME PostTypes, InCall, NEW c \in Client, Calls(c, {"send", "reply"})
  PROVE  Outgoing(c) \in Mail
<1>1. /\ Call(c) \in CallType /\ Call(c).op \in {"send", "reply"} /\ Host[c] \in Machine
      /\ step[c] \in 1 .. Len(Script[c]) /\ step[c] \in Nat
  BY CallTyped
<1>2. CASE Call(c).op = "send"
  BY <1>1, <1>2 DEF Outgoing, CallType, Mail
<1>3. CASE Call(c).op = "reply"
  <2>1. PICK j \in 1 .. step[c] - 1 : Script[c][j].op = "receive"
    BY <1>1, <1>3, PostAssumption DEF Call
  <2>2. last[c] \in Mail
    <3>1. j <= Len(Script[c])
      BY <1>1, <2>1, PostAssumption
    <3>. QED BY <2>1, <3>1 DEF InCall
  <2>3. Call(c).reply \in Box
    BY <1>1, <1>3 DEF CallType
  <2>. QED BY <1>1, <1>3, <2>2, <2>3 DEF Outgoing, Mail
<1>. QED BY <1>1, <1>2, <1>3

\* Everything keeps its type.
LEMMA TypesStep == PostTypes /\ InCall /\ OneArrival /\ WaitersWait /\ [PostNext]_vars => PostTypes'
<1>. SUFFICES ASSUME PostTypes, InCall, OneArrival, WaitersWait, [PostNext]_vars
              PROVE  PostTypes'
  OBVIOUS
<1>. USE DEF PostTypes
<1>1. ASSUME NEW m \in Machine, Boot(m) PROVE PostTypes'
  BY <1>1 DEF Boot, netVars, postVars
<1>2. ASSUME NEW m \in Machine, SendDone(m) PROVE PostTypes'
  BY <1>2 DEF SendDone, PacketSent, postVars
<1>3. ASSUME NEW m \in Machine, CheckPktAvail(m) PROVE PostTypes'
  BY <1>3 DEF CheckPktAvail, IncomingPacket, postVars
<1>4. ASSUME NEW m \in Machine, WorkerAwait(m) PROVE PostTypes'
  BY <1>4 DEF WorkerAwait
<1>5. ASSUME NEW m \in Machine, WorkerReceive(m) PROVE PostTypes'
  BY <1>5 DEF WorkerReceive
<1>6. ASSUME NEW m \in Machine, WorkerPut(m) PROVE PostTypes'
  <2>1. hand[m] \in Mail /\ hand[m].box \in Box
    BY <1>6 DEF WorkerPut, OneArrival, Mail
  <2>2. boxes' \in [Machine -> [Box -> Seq(Mail)]]
    BY <1>6, <2>1 DEF WorkerPut, Put
  <2>3. waiters' \in [Machine -> [Box -> Seq(Client)]]
    <3>1. waiters[m][hand[m].box] \in Seq(Client)
      BY <2>1
    <3>2. CASE waiters[m][hand[m].box] = << >>
      BY <1>6, <3>2 DEF WorkerPut, Put
    <3>3. CASE waiters[m][hand[m].box] # << >>
      <4>1. Tail(waiters[m][hand[m].box]) \in Seq(Client)
        BY <3>1, <3>3
      <4>2. waiters' = [waiters EXCEPT ![m][hand[m].box] = Tail(@)]
        BY <1>6, <3>3 DEF WorkerPut, Put
      <4>. QED BY <2>1, <4>1, <4>2
    <3>. QED BY <3>2, <3>3
  <2>4. stage' \in [Client -> {"idle", "send", "wait", "release", "waiting", "woken"}]
    BY <1>6, <2>1 DEF WorkerPut, Put
  <2>. QED BY <1>6, <2>2, <2>3, <2>4 DEF WorkerPut, netVars
<1>7. ASSUME NEW c \in Client, AcquireSend(c) PROVE PostTypes'
  BY <1>7, PostAssumption DEF AcquireSend, netVars, postVars
<1>8. ASSUME NEW c \in Client, Send(c) PROVE PostTypes'
  <2>1. Outgoing(c) \in Mail /\ Outgoing(c).to \in Machine /\ Host[c] \in Machine
    BY <1>8, OutgoingTyped, PostAssumption DEF Send, Mail
  <2>2. socket' \in [Machine -> Seq(Mail)]
    <3>1. Append(socket[Outgoing(c).to], Outgoing(c)) \in Seq(Mail)
      BY <2>1
    <3>2. \/ socket' = [socket EXCEPT ![Outgoing(c).to] = Append(@, Outgoing(c))]
          \/ socket' = socket
      BY <1>8 DEF Send
    <3>. QED BY <2>1, <3>1, <3>2
  <2>3. sendIrq' \in [Machine -> Nat]
    BY <1>8, <2>1 DEF Send
  <2>4. stage' \in [Client -> {"idle", "send", "wait", "release", "waiting", "woken"}]
    BY <1>8 DEF Send
  <2>. QED BY <1>8, <2>2, <2>3, <2>4, Zenon DEF Send, postVars
<1>9. ASSUME NEW c \in Client, AwaitSent(c) PROVE PostTypes'
  <2>1. messageSent[Host[c]] - 1 \in Nat
    BY <1>9, HostTyped DEF AwaitSent
  <2>2. messageSent' \in [Machine -> Nat]
    BY <1>9, <2>1, HostTyped DEF AwaitSent
  <2>3. stage' \in [Client -> {"idle", "send", "wait", "release", "waiting", "woken"}]
    BY <1>9 DEF AwaitSent
  <2>. QED BY <1>9, <2>2, <2>3, Zenon DEF AwaitSent, postVars
<1>10. ASSUME NEW c \in Client, ReleaseSend(c) PROVE PostTypes'
  <2>1. step' \in [Client -> Nat \ {0}]
    BY <1>10 DEF ReleaseSend
  <2>2. sendLock' \in [Machine -> Client \cup {NoClient}]
    BY <1>10 DEF ReleaseSend
  <2>3. stage' \in [Client -> {"idle", "send", "wait", "release", "waiting", "woken"}]
    BY <1>10 DEF ReleaseSend
  <2>. QED BY <1>10, <2>1, <2>2, <2>3, Zenon DEF ReleaseSend, netVars, postVars
<1>11. ASSUME NEW c \in Client, ReceiveWait(c) PROVE PostTypes'
  <2>1. Call(c).box \in Box /\ Host[c] \in Machine
    BY <1>11, ReceiveTyped, PostAssumption DEF ReceiveWait
  <2>2. waiters' \in [Machine -> [Box -> Seq(Client)]]
    BY <1>11, <2>1 DEF ReceiveWait, FindsEmpty, Waits
  <2>. QED BY <1>11, <2>1, <2>2 DEF ReceiveWait, FindsEmpty, Waits, netVars
<1>12. ASSUME NEW c \in Client, ReceiveTake(c) PROVE PostTypes'
  <2>1. Call(c).box \in Box /\ Host[c] \in Machine
    BY <1>12, ReceiveTyped, PostAssumption DEF ReceiveTake
  <2>2. /\ boxes[Host[c]][Call(c).box] \in Seq(Mail) /\ boxes[Host[c]][Call(c).box] # << >>
    BY <1>12, <2>1 DEF ReceiveTake
  <2>3. boxes' \in [Machine -> [Box -> Seq(Mail)]]
    BY <1>12, <2>1, <2>2 DEF ReceiveTake
  <2>4. last' \in [Client -> Mail \cup {NoMail}]
    BY <1>12, <2>2 DEF ReceiveTake
  <2>5. step' \in [Client -> Nat \ {0}]
    BY <1>12 DEF ReceiveTake
  <2>6. stage' \in [Client -> {"idle", "send", "wait", "release", "waiting", "woken"}]
    BY <1>12 DEF ReceiveTake
  <2>. QED BY <1>12, <2>3, <2>4, <2>5, <2>6, Zenon DEF ReceiveTake, netVars
<1>13. ASSUME NEW c \in Client, Halt(c) PROVE PostTypes'
  BY <1>13, PostAssumption DEF Halt, netVars, postVars
<1>14. CASE UNCHANGED vars
  BY <1>14 DEF vars, netVars, postVars
<1>. QED BY <1>1, <1>2, <1>3, <1>4, <1>5, <1>6, <1>7, <1>8, <1>9, <1>10, <1>11, <1>12, <1>13, <1>14
     DEF PostNext, WorkerStep, ClientStep

-----------------------------------------------------------------------------
(* The clients' calls                                                      *)

\* The steps of the machines that no client's call changes with.
MachineStep ==
    \/ \E m \in Machine : Boot(m) \/ SendDone(m) \/ CheckPktAvail(m) \/ WorkerAwait(m) \/ WorkerReceive(m)
    \/ \E c \in Client : Halt(c)
    \/ UNCHANGED vars

\* They leave the clients and the mailboxes alone.
LEMMA MachineStepLemma ==
  ASSUME MachineStep PROVE UNCHANGED <<step, stage, last, boxes, waiters, sendLock>>
BY DEF MachineStep, Boot, SendDone, CheckPktAvail, WorkerAwait, WorkerReceive, Halt, vars, netVars, postVars

\* The client that Put wakes was asleep on that box.
LEMMA WokenLemma ==
  ASSUME PostTypes, OneArrival, WaitersWait, NEW m \in Machine, WorkerPut(m)
  PROVE  /\ hand[m] \in Mail /\ hand[m].box \in Box
         /\ \/ waiters[m][hand[m].box] = << >> /\ UNCHANGED <<waiters, stage>>
            \/ \E d \in Client :
                 /\ waiters[m][hand[m].box] # << >> /\ d = Head(waiters[m][hand[m].box])
                 /\ waiters' = [waiters EXCEPT ![m][hand[m].box] = Tail(@)]
                 /\ stage' = [stage EXCEPT ![d] = "woken"]
                 /\ stage[d] = "waiting" /\ Host[d] = m /\ Call(d).box = hand[m].box
<1>1. hand[m] \in Mail /\ hand[m].box \in Box
  BY DEF WorkerPut, OneArrival, Mail
<1>2. waiters[m][hand[m].box] \in Seq(Client)
  BY <1>1 DEF PostTypes
<1>3. CASE waiters[m][hand[m].box] = << >>
  BY <1>1, <1>3 DEF WorkerPut, Put
<1>4. CASE waiters[m][hand[m].box] # << >>
  <2>. DEFINE d == Head(waiters[m][hand[m].box])
  <2>1. d \in Client /\ d = waiters[m][hand[m].box][1] /\ 1 \in DOMAIN waiters[m][hand[m].box]
    BY <1>2, <1>4
  <2>2. stage[d] = "waiting" /\ Host[d] = m /\ Call(d).box = hand[m].box
    BY <1>1, <2>1 DEF WaitersWait
  <2>3. /\ waiters' = [waiters EXCEPT ![m][hand[m].box] = Tail(@)]
        /\ stage' = [stage EXCEPT ![d] = "woken"]
    BY <1>4 DEF WorkerPut, Put
  <2>. QED BY <1>1, <1>4, <2>1, <2>2, <2>3
<1>. QED BY <1>3, <1>4

\* One client's part of InCall.
InCallOf(c) ==
    /\ stage[c] # "idle" => step[c] <= Len(Script[c])
    /\ stage[c] \in Sending => Call(c).op \in {"send", "reply"}
    /\ stage[c] \in {"waiting", "woken"} => Call(c).op = "receive"
    /\ (\E j \in 1 .. step[c] - 1 : j <= Len(Script[c]) /\ Script[c][j].op = "receive") => last[c] \in Mail

\* Each client stays in the call that its script names.
LEMMA InCallStep ==
  PostTypes /\ InCall /\ OneArrival /\ WaitersWait /\ [PostNext]_vars => InCall'
<1>. SUFFICES ASSUME PostTypes, InCall, OneArrival, WaitersWait, [PostNext]_vars
              PROVE  InCall'
  OBVIOUS
<1>0. \A d \in Client : InCallOf(d)
  BY DEF InCall, InCallOf
<1>a. SUFFICES ASSUME NEW d \in Client PROVE InCallOf(d)'
  BY DEF InCall, InCallOf
<1>b. InCallOf(d) /\ step[d] \in Nat \ {0} /\ stage \in [Client -> {"idle", "send", "wait", "release", "waiting", "woken"}]
  BY <1>0 DEF PostTypes
<1>c. ASSUME stage'[d] = stage[d], step'[d] = step[d], last'[d] = last[d] PROVE InCallOf(d)'
  BY <1>b, <1>c DEF InCallOf, Call
<1>1. CASE MachineStep
  BY <1>1, <1>c, MachineStepLemma
<1>2. ASSUME NEW m \in Machine, WorkerPut(m) PROVE InCallOf(d)'
  <2>1. UNCHANGED <<step, last>>
    BY <1>2 DEF WorkerPut
  <2>2. stage'[d] = stage[d] \/ (stage[d] = "waiting" /\ stage'[d] = "woken")
    BY <1>2, <1>b, WokenLemma
  <2>. QED BY <1>b, <1>c, <2>1, <2>2 DEF InCallOf, Call, Sending
<1>3. ASSUME NEW c \in Client, AcquireSend(c) PROVE InCallOf(d)'
  <2>1. UNCHANGED <<step, last>> /\ stage' = [stage EXCEPT ![c] = "send"]
    BY <1>3 DEF AcquireSend
  <2>2. Call(c).op \in {"send", "reply"} /\ step[c] <= Len(Script[c])
    BY <1>3 DEF AcquireSend, Calls
  <2>. QED BY <1>b, <1>c, <2>1, <2>2 DEF InCallOf, Call, Sending
<1>4. ASSUME NEW c \in Client, Send(c) PROVE InCallOf(d)'
  <2>1. UNCHANGED <<step, last>> /\ stage' = [stage EXCEPT ![c] = "wait"] /\ stage[c] = "send"
    BY <1>4 DEF Send
  <2>. QED BY <1>b, <1>c, <2>1 DEF InCallOf, Call, Sending
<1>5. ASSUME NEW c \in Client, AwaitSent(c) PROVE InCallOf(d)'
  <2>1. UNCHANGED <<step, last>> /\ stage' = [stage EXCEPT ![c] = "release"] /\ stage[c] = "wait"
    BY <1>5 DEF AwaitSent
  <2>. QED BY <1>b, <1>c, <2>1 DEF InCallOf, Call, Sending
<1>6. ASSUME NEW c \in Client, ReleaseSend(c) PROVE InCallOf(d)'
  <2>1. last' = last /\ stage' = [stage EXCEPT ![c] = "idle"] /\ step' = [step EXCEPT ![c] = @ + 1]
    BY <1>6 DEF ReleaseSend
  <2>2. Script[c][step[c]].op \in {"send", "reply"}
    BY <1>6 DEF ReleaseSend, Calls, Call
  <2>3. CASE d = c
    <3>1. stage'[d] = "idle" /\ step'[d] = step[d] + 1
      BY <1>b, <2>1, <2>3 DEF PostTypes
    <3>2. ASSUME NEW j \in 1 .. step'[d] - 1, j <= Len(Script[d]), Script[d][j].op = "receive"
          PROVE  last[d] \in Mail
      BY <1>b, <2>2, <2>3, <3>1, <3>2 DEF InCallOf
    <3>. QED BY <2>1, <3>1, <3>2 DEF InCallOf, Sending
  <2>4. CASE d # c
    BY <1>b, <1>c, <2>1, <2>4 DEF PostTypes
  <2>. QED BY <2>3, <2>4
<1>7. ASSUME NEW c \in Client, ReceiveWait(c) PROVE InCallOf(d)'
  <2>1. UNCHANGED <<step, last>> /\ stage' = [stage EXCEPT ![c] = "waiting"]
    BY <1>7 DEF ReceiveWait, FindsEmpty, Waits
  <2>2. Call(c).op = "receive" /\ step[c] <= Len(Script[c])
    BY <1>7 DEF ReceiveWait, Calls
  <2>. QED BY <1>b, <1>c, <2>1, <2>2 DEF InCallOf, Call, Sending
<1>8. ASSUME NEW c \in Client, ReceiveTake(c) PROVE InCallOf(d)'
  <2>1. /\ stage' = [stage EXCEPT ![c] = "idle"] /\ step' = [step EXCEPT ![c] = @ + 1]
        /\ last' = [last EXCEPT ![c] = Head(boxes[Host[c]][Call(c).box])]
    BY <1>8 DEF ReceiveTake
  <2>2. Head(boxes[Host[c]][Call(c).box]) \in Mail
    <3>1. Call(c).box \in Box /\ Host[c] \in Machine
      BY <1>8, ReceiveTyped, HostTyped DEF ReceiveTake
    <3>2. boxes[Host[c]][Call(c).box] \in Seq(Mail) /\ boxes[Host[c]][Call(c).box] # << >>
      BY <1>8, <3>1 DEF ReceiveTake, PostTypes
    <3>. QED BY <3>2
  <2>3. CASE d = c
    <3>1. stage'[d] = "idle" /\ last'[d] \in Mail
      BY <1>b, <2>1, <2>2, <2>3 DEF PostTypes
    <3>. QED BY <3>1 DEF InCallOf, Sending
  <2>4. CASE d # c
    BY <1>b, <1>c, <2>1, <2>4 DEF PostTypes
  <2>. QED BY <2>3, <2>4
<1>. QED BY <1>1, <1>2, <1>3, <1>4, <1>5, <1>6, <1>7, <1>8, Zenon
     DEF PostNext, WorkerStep, ClientStep, MachineStep

-----------------------------------------------------------------------------
(* Sending                                                                 *)

\* No client goes from one point of PostOffice::Send to another.
NobodySends ==
    /\ sendLock' = sendLock
    /\ \A d \in Client : stage'[d] = stage[d] \/ (stage[d] \notin Sending /\ stage'[d] \notin Sending)

\* So it is with the steps of machines, workers and receivers.
LEMMA NobodySendsLemma ==
  ASSUME PostTypes, OneArrival, WaitersWait,
         \/ MachineStep \/ \E m \in Machine : WorkerPut(m)
         \/ \E c \in Client : ReceiveWait(c) \/ ReceiveTake(c)
  PROVE  NobodySends
<1>1. CASE MachineStep
  BY <1>1, MachineStepLemma DEF NobodySends
<1>2. ASSUME NEW m \in Machine, WorkerPut(m) PROVE NobodySends
  <2>1. sendLock' = sendLock
    BY <1>2 DEF WorkerPut
  <2>2. \/ stage' = stage
        \/ \E d \in Client : stage' = [stage EXCEPT ![d] = "woken"] /\ stage[d] = "waiting"
    BY <1>2, WokenLemma, Zenon
  <2>3. stage \in [Client -> {"idle", "send", "wait", "release", "waiting", "woken"}]
    BY DEF PostTypes
  <2>. QED BY <2>1, <2>2, <2>3 DEF NobodySends, Sending
<1>3. ASSUME NEW c \in Client, ReceiveWait(c) PROVE NobodySends
  BY <1>3 DEF NobodySends, ReceiveWait, FindsEmpty, Waits, Sending, PostTypes
<1>4. ASSUME NEW c \in Client, ReceiveTake(c) PROVE NobodySends
  BY <1>4 DEF NobodySends, ReceiveTake, Sending, PostTypes
<1>. QED BY <1>1, <1>2, <1>3, <1>4

\* sendLock stays with the client that is inside Send.
LEMMA LockStep ==
  PostTypes /\ OneArrival /\ WaitersWait /\ LockCoversSend /\ [PostNext]_vars => LockCoversSend'
<1>. SUFFICES ASSUME PostTypes, OneArrival, WaitersWait, LockCoversSend, [PostNext]_vars
              PROVE  LockCoversSend'
  OBVIOUS
<1>. USE HostTyped
<1>n. NoClient \notin Client
  BY PostAssumption
<1>t. /\ stage \in [Client -> {"idle", "send", "wait", "release", "waiting", "woken"}]
      /\ sendLock \in [Machine -> Client \cup {NoClient}]
  BY DEF PostTypes
<1>1. CASE NobodySends
  BY <1>1, <1>t DEF NobodySends, LockCoversSend
<1>2. ASSUME NEW c \in Client, AcquireSend(c) PROVE LockCoversSend'
  <2>1. /\ sendLock' = [sendLock EXCEPT ![Host[c]] = c] /\ sendLock[Host[c]] = NoClient
        /\ stage' = [stage EXCEPT ![c] = "send"] /\ stage[c] = "idle"
    BY <1>2 DEF AcquireSend
  <2>. QED BY <1>n, <1>t, <2>1 DEF LockCoversSend, Sending
<1>3. ASSUME NEW c \in Client, Send(c) PROVE LockCoversSend'
  <2>1. sendLock' = sendLock /\ stage' = [stage EXCEPT ![c] = "wait"] /\ stage[c] = "send"
    BY <1>3 DEF Send
  <2>. QED BY <1>n, <1>t, <2>1 DEF LockCoversSend, Sending
<1>4. ASSUME NEW c \in Client, AwaitSent(c) PROVE LockCoversSend'
  <2>1. sendLock' = sendLock /\ stage' = [stage EXCEPT ![c] = "release"] /\ stage[c] = "wait"
    BY <1>4 DEF AwaitSent
  <2>. QED BY <1>n, <1>t, <2>1 DEF LockCoversSend, Sending
<1>5. ASSUME NEW c \in Client, ReleaseSend(c) PROVE LockCoversSend'
  <2>1. /\ sendLock' = [sendLock EXCEPT ![Host[c]] = NoClient]
        /\ stage' = [stage EXCEPT ![c] = "idle"] /\ stage[c] = "release"
    BY <1>5 DEF ReleaseSend
  <2>. QED BY <1>n, <1>t, <2>1 DEF LockCoversSend, Sending
<1>. QED BY <1>1, <1>2, <1>3, <1>4, <1>5, NobodySendsLemma
     DEF PostNext, WorkerStep, ClientStep, MachineStep

\* Whether a completion is due to the client in Send on m.
Due(m) == IF sendLock[m] # NoClient /\ stage[sendLock[m]] = "wait" THEN 1 ELSE 0

\* A completion is under way exactly while its sender waits for it.
LEMMA CompletionStep ==
  PostTypes /\ OneArrival /\ WaitersWait /\ LockCoversSend /\ OneCompletion /\ [PostNext]_vars => OneCompletion'
<1>. SUFFICES ASSUME PostTypes, OneArrival, WaitersWait, LockCoversSend, OneCompletion, [PostNext]_vars
              PROVE  OneCompletion'
  OBVIOUS
<1>. USE HostTyped
<1>0. \A m \in Machine : sendIrq[m] + messageSent[m] = Due(m) /\ sendIrq[m] \in Nat /\ messageSent[m] \in Nat
  BY DEF OneCompletion, Due, PostTypes
<1>a. SUFFICES ASSUME NEW n \in Machine PROVE (sendIrq[n] + messageSent[n] = Due(n))'
  BY DEF OneCompletion, Due
<1>n. NoClient \notin Client
  BY PostAssumption
<1>t. /\ stage \in [Client -> {"idle", "send", "wait", "release", "waiting", "woken"}]
      /\ sendLock \in [Machine -> Client \cup {NoClient}]
      /\ sendIrq \in [Machine -> Nat] /\ messageSent \in [Machine -> Nat]
  BY DEF PostTypes
<1>b. ASSUME sendIrq'[n] + messageSent'[n] = sendIrq[n] + messageSent[n], Due(n)' = Due(n)
      PROVE  (sendIrq[n] + messageSent[n] = Due(n))'
  BY <1>0, <1>b
<1>c. ASSUME NobodySends PROVE Due(n)' = Due(n)
  BY <1>c, <1>t DEF NobodySends, Due, Sending
<1>1. ASSUME NEW m \in Machine, SendDone(m) PROVE (sendIrq[n] + messageSent[n] = Due(n))'
  <2>1. NobodySends
    BY <1>1, NobodySendsLemma DEF MachineStep
  <2>2. sendIrq[m] > 0 /\ sendIrq' = [sendIrq EXCEPT ![m] = @ - 1] /\ messageSent' = [messageSent EXCEPT ![m] = @ + 1]
    BY <1>1 DEF SendDone, PacketSent
  <2>3. sendIrq'[n] + messageSent'[n] = sendIrq[n] + messageSent[n]
    BY <1>t, <2>2
  <2>. QED BY <1>b, <1>c, <2>1, <2>3
<1>2. ASSUME NobodySends, UNCHANGED <<sendIrq, messageSent>>
      PROVE  (sendIrq[n] + messageSent[n] = Due(n))'
  BY <1>2, <1>b, <1>c
<1>3. ASSUME NEW c \in Client, AcquireSend(c) PROVE (sendIrq[n] + messageSent[n] = Due(n))'
  <2>1. /\ sendLock' = [sendLock EXCEPT ![Host[c]] = c] /\ sendLock[Host[c]] = NoClient
        /\ stage' = [stage EXCEPT ![c] = "send"] /\ stage[c] = "idle"
        /\ UNCHANGED <<sendIrq, messageSent>>
    BY <1>3 DEF AcquireSend, netVars
  <2>2. Due(n)' = Due(n)
    BY <1>n, <1>t, <2>1 DEF LockCoversSend, Sending, Due
  <2>. QED BY <1>b, <2>1, <2>2
<1>4. ASSUME NEW c \in Client, Send(c) PROVE (sendIrq[n] + messageSent[n] = Due(n))'
  <2>1. /\ sendLock' = sendLock /\ stage' = [stage EXCEPT ![c] = "wait"] /\ stage[c] = "send"
        /\ sendIrq' = [sendIrq EXCEPT ![Host[c]] = @ + 1] /\ messageSent' = messageSent
    BY <1>4 DEF Send
  <2>2. sendLock[Host[c]] = c
    BY <2>1 DEF LockCoversSend, Sending
  <2>3. CASE n = Host[c]
    <3>1. Due(n) = 0 /\ Due(n)' = 1
      BY <1>n, <1>t, <2>1, <2>2, <2>3 DEF Due
    <3>2. sendIrq'[n] + messageSent'[n] = sendIrq[n] + messageSent[n] + 1
      BY <1>t, <2>1, <2>3
    <3>. QED BY <1>0, <3>1, <3>2
  <2>4. CASE n # Host[c]
    <3>1. Due(n)' = Due(n)
      BY <1>n, <1>t, <2>1, <2>2, <2>4 DEF Due, LockCoversSend, Sending
    <3>2. sendIrq'[n] + messageSent'[n] = sendIrq[n] + messageSent[n]
      BY <1>t, <2>1, <2>4
    <3>. QED BY <1>b, <3>1, <3>2
  <2>. QED BY <2>3, <2>4
<1>5. ASSUME NEW c \in Client, AwaitSent(c) PROVE (sendIrq[n] + messageSent[n] = Due(n))'
  <2>1. /\ sendLock' = sendLock /\ stage' = [stage EXCEPT ![c] = "release"] /\ stage[c] = "wait"
        /\ messageSent' = [messageSent EXCEPT ![Host[c]] = @ - 1] /\ sendIrq' = sendIrq
        /\ messageSent[Host[c]] > 0
    BY <1>5 DEF AwaitSent
  <2>2. sendLock[Host[c]] = c
    BY <2>1 DEF LockCoversSend, Sending
  <2>3. CASE n = Host[c]
    <3>1. Due(n) = 1 /\ Due(n)' = 0
      BY <1>n, <1>t, <2>1, <2>2, <2>3 DEF Due
    <3>2. sendIrq'[n] + messageSent'[n] = sendIrq[n] + messageSent[n] - 1
      BY <1>t, <2>1, <2>3
    <3>. QED BY <1>0, <3>1, <3>2
  <2>4. CASE n # Host[c]
    <3>1. Due(n)' = Due(n)
      BY <1>n, <1>t, <2>1, <2>2, <2>4 DEF Due, LockCoversSend, Sending
    <3>2. sendIrq'[n] + messageSent'[n] = sendIrq[n] + messageSent[n]
      BY <1>t, <2>1, <2>4
    <3>. QED BY <1>b, <3>1, <3>2
  <2>. QED BY <2>3, <2>4
<1>6. ASSUME NEW c \in Client, ReleaseSend(c) PROVE (sendIrq[n] + messageSent[n] = Due(n))'
  <2>1. /\ sendLock' = [sendLock EXCEPT ![Host[c]] = NoClient]
        /\ stage' = [stage EXCEPT ![c] = "idle"] /\ stage[c] = "release"
        /\ UNCHANGED <<sendIrq, messageSent>>
    BY <1>6 DEF ReleaseSend, netVars
  <2>2. sendLock[Host[c]] = c
    BY <2>1 DEF LockCoversSend, Sending
  <2>3. Due(n)' = Due(n)
    <3>1. CASE n = Host[c]
      BY <1>n, <1>t, <2>1, <2>2, <3>1 DEF Due
    <3>2. CASE n # Host[c]
      BY <1>n, <1>t, <2>1, <2>2, <3>2 DEF Due, LockCoversSend, Sending
    <3>. QED BY <3>1, <3>2
  <2>. QED BY <1>b, <2>1, <2>3
<1>7. ASSUME \/ \E m \in Machine : Boot(m) \/ CheckPktAvail(m) \/ WorkerStep(m)
             \/ \E c \in Client : ReceiveWait(c) \/ ReceiveTake(c) \/ Halt(c)
             \/ UNCHANGED vars
      PROVE  NobodySends /\ UNCHANGED <<sendIrq, messageSent>>
  <2>1. NobodySends
    BY <1>7, NobodySendsLemma, Zenon DEF MachineStep, WorkerStep
  <2>2. UNCHANGED <<sendIrq, messageSent>>
    BY <1>7 DEF Boot, CheckPktAvail, WorkerStep, WorkerAwait, WorkerReceive, WorkerPut, ReceiveWait,
                ReceiveTake, Halt, vars, netVars
  <2>. QED BY <2>1, <2>2
<1>. QED BY <1>1, <1>2, <1>3, <1>4, <1>5, <1>6, <1>7, Zenon DEF PostNext, ClientStep

-----------------------------------------------------------------------------
(* Arrival                                                                 *)

\* OneArrival of machine m.
ArrivalAt(m) ==
    /\ messageAvailable[m] + (IF worker[m] = "receive" THEN 1 ELSE 0) =
         IF inHdr[m] # NoMail THEN 1 ELSE 0
    /\ worker[m] = "put" => hand[m] \in Mail

\* The packet in the buffer is announced once, and the worker has what it delivers.
LEMMA ArrivalStep == PostTypes /\ OneArrival /\ [PostNext]_vars => OneArrival'
<1>. SUFFICES ASSUME PostTypes, OneArrival, [PostNext]_vars PROVE OneArrival'
  OBVIOUS
<1>0. \A m \in Machine : ArrivalAt(m)
  BY DEF OneArrival, ArrivalAt
<1>a. SUFFICES ASSUME NEW n \in Machine PROVE ArrivalAt(n)'
  BY DEF OneArrival, ArrivalAt
<1>n. NoMail \notin Mail
  BY PostAssumption
<1>t. /\ inHdr \in [Machine -> Mail \cup {NoMail}] /\ hand \in [Machine -> Mail \cup {NoMail}]
      /\ messageAvailable \in [Machine -> Nat] /\ socket \in [Machine -> Seq(Mail)]
      /\ worker \in [Machine -> {"wait", "receive", "put"}]
  BY DEF PostTypes
<1>1. CASE UNCHANGED <<inHdr, hand, messageAvailable, worker>>
  BY <1>0, <1>1 DEF ArrivalAt
<1>2. ASSUME NEW m \in Machine, CheckPktAvail(m) PROVE ArrivalAt(n)'
  <2>1. /\ inHdr[m] = NoMail /\ inHdr' = [inHdr EXCEPT ![m] = Head(socket[m])]
        /\ messageAvailable' = [messageAvailable EXCEPT ![m] = @ + 1] /\ UNCHANGED <<hand, worker>>
    BY <1>2 DEF CheckPktAvail, IncomingPacket, postVars
  <2>2. Head(socket[m]) \in Mail
    <3>1. socket[m] \in Seq(Mail) /\ socket[m] # << >>
      BY <1>2, <1>t DEF CheckPktAvail
    <3>. QED BY <3>1
  <2>. QED BY <1>0, <1>n, <1>t, <2>1, <2>2 DEF ArrivalAt
<1>3. ASSUME NEW m \in Machine, WorkerAwait(m) PROVE ArrivalAt(n)'
  <2>1. /\ messageAvailable[m] > 0 /\ worker[m] = "wait" /\ UNCHANGED <<hand, inHdr>>
        /\ messageAvailable' = [messageAvailable EXCEPT ![m] = @ - 1]
        /\ worker' = [worker EXCEPT ![m] = "receive"]
    BY <1>3 DEF WorkerAwait
  <2>. QED BY <1>0, <1>t, <2>1 DEF ArrivalAt
<1>4. ASSUME NEW m \in Machine, WorkerReceive(m) PROVE ArrivalAt(n)'
  <2>1. /\ worker[m] = "receive" /\ UNCHANGED messageAvailable
        /\ hand' = [hand EXCEPT ![m] = inHdr[m]]
        /\ inHdr' = [inHdr EXCEPT ![m] = NoMail]
        /\ worker' = [worker EXCEPT ![m] = "put"]
    BY <1>4 DEF WorkerReceive
  <2>2. inHdr[m] \in Mail /\ messageAvailable[m] = 0
    BY <1>0, <1>t, <2>1 DEF ArrivalAt
  <2>. QED BY <1>0, <1>t, <2>1, <2>2 DEF ArrivalAt
<1>5. ASSUME NEW m \in Machine, WorkerPut(m) PROVE ArrivalAt(n)'
  <2>1. /\ worker[m] = "put" /\ UNCHANGED <<inHdr, messageAvailable>>
        /\ hand' = [hand EXCEPT ![m] = NoMail]
        /\ worker' = [worker EXCEPT ![m] = "wait"]
    BY <1>5 DEF WorkerPut, netVars
  <2>. QED BY <1>0, <1>t, <2>1 DEF ArrivalAt
<1>6. ASSUME \/ \E m \in Machine : Boot(m) \/ SendDone(m)
             \/ \E c \in Client : ClientStep(c)
             \/ UNCHANGED vars
      PROVE  UNCHANGED <<inHdr, hand, messageAvailable, worker>>
  BY <1>6 DEF Boot, SendDone, ClientStep, AcquireSend, Send, AwaitSent, ReleaseSend, ReceiveWait,
              ReceiveTake, Halt, vars, netVars, postVars
<1>. QED BY <1>1, <1>2, <1>3, <1>4, <1>5, <1>6, Zenon DEF PostNext, WorkerStep

-----------------------------------------------------------------------------
(* Receiving                                                               *)

\* No client goes from one point of SynchList::Remove to another.
NobodyReceives ==
    /\ UNCHANGED <<boxes, waiters>>
    /\ \A d \in Client :
         \/ stage'[d] = stage[d] /\ step'[d] = step[d]
         \/ stage[d] \notin {"waiting", "woken"} /\ stage'[d] \notin {"waiting", "woken"}

\* So it is with the steps of machines and senders.
LEMMA NobodyReceivesLemma ==
  ASSUME PostTypes,
         \/ MachineStep
         \/ \E c \in Client : AcquireSend(c) \/ Send(c) \/ AwaitSent(c) \/ ReleaseSend(c)
  PROVE  NobodyReceives
<1>t. stage \in [Client -> {"idle", "send", "wait", "release", "waiting", "woken"}] /\ step \in [Client -> Nat \ {0}]
  BY DEF PostTypes
<1>1. CASE MachineStep
  BY <1>1, MachineStepLemma DEF NobodyReceives
<1>2. ASSUME NEW c \in Client, AcquireSend(c) \/ Send(c) \/ AwaitSent(c)
      PROVE  NobodyReceives
  <2>1. /\ UNCHANGED <<boxes, waiters, step>> /\ stage[c] \in {"idle", "send", "wait"}
        /\ \E p \in {"send", "wait", "release"} : stage' = [stage EXCEPT ![c] = p]
    BY <1>2 DEF AcquireSend, Send, AwaitSent, postVars
  <2>. QED BY <1>t, <2>1 DEF NobodyReceives
<1>3. ASSUME NEW c \in Client, ReleaseSend(c) PROVE NobodyReceives
  <2>1. /\ UNCHANGED <<boxes, waiters>> /\ stage[c] = "release"
        /\ stage' = [stage EXCEPT ![c] = "idle"] /\ step' = [step EXCEPT ![c] = @ + 1]
    BY <1>3 DEF ReleaseSend, postVars
  <2>. QED BY <1>t, <2>1 DEF NobodyReceives
<1>. QED BY <1>1, <1>2, <1>3

\* The queue of one mailbox is in order.
QueueOf(m, b) ==
    /\ \A i \in DOMAIN waiters[m][b] :
         stage[waiters[m][b][i]] = "waiting" /\ Host[waiters[m][b][i]] = m /\ Call(waiters[m][b][i]).box = b
    /\ \A i, j \in DOMAIN waiters[m][b] : waiters[m][b][i] = waiters[m][b][j] => i = j

\* The queues of the mailboxes keep exactly clients that sleep in their Receive.
LEMMA WaitersStep ==
  PostTypes /\ InCall /\ OneArrival /\ WaitersWait /\ [PostNext]_vars => WaitersWait'
<1>. SUFFICES ASSUME PostTypes, InCall, OneArrival, WaitersWait, [PostNext]_vars PROVE WaitersWait'
  OBVIOUS
<1>0. \A m \in Machine, b \in Box : QueueOf(m, b)
  BY DEF WaitersWait, QueueOf
<1>a. SUFFICES ASSUME NEW n \in Machine, NEW e \in Box PROVE QueueOf(n, e)'
  BY DEF WaitersWait, QueueOf
<1>t. /\ stage \in [Client -> {"idle", "send", "wait", "release", "waiting", "woken"}]
      /\ step \in [Client -> Nat \ {0}]
      /\ waiters \in [Machine -> [Box -> Seq(Client)]]
      /\ waiters[n][e] \in Seq(Client)
      /\ \A i \in DOMAIN waiters[n][e] : waiters[n][e][i] \in Client
  BY DEF PostTypes
<1>1. CASE NobodyReceives
  BY <1>0, <1>1, <1>t DEF NobodyReceives, QueueOf, Call
<1>2. ASSUME NEW m \in Machine, WorkerPut(m) PROVE QueueOf(n, e)'
  <2>1. step' = step
    BY <1>2 DEF WorkerPut
  <2>2. CASE UNCHANGED <<waiters, stage>>
    BY <1>0, <2>1, <2>2 DEF QueueOf, Call
  <2>3. CASE ~UNCHANGED <<waiters, stage>>
    <3>. DEFINE b == hand[m].box
    <3>1. PICK d \in Client :
            /\ waiters[m][b] # << >> /\ d = Head(waiters[m][b])
            /\ waiters' = [waiters EXCEPT ![m][b] = Tail(@)]
            /\ stage' = [stage EXCEPT ![d] = "woken"]
            /\ stage[d] = "waiting" /\ Host[d] = m /\ Call(d).box = b
      BY <1>2, <2>3, WokenLemma, Zenon
    <3>2. b \in Box
      BY <1>2, WokenLemma, Zenon
    <3>. HIDE DEF b
    <3>3. \A c \in Client : c # d => stage'[c] = stage[c] /\ Call(c)' = Call(c)
      BY <1>t, <2>1, <3>1 DEF Call
    <3>4. CASE n = m /\ e = b
      <4>1. waiters'[n][e] = Tail(waiters[n][e]) /\ waiters[n][e] # << >> /\ d = waiters[n][e][1]
        BY <1>t, <3>1, <3>2, <3>4
      <4>2. /\ \A i \in DOMAIN waiters'[n][e] : i + 1 \in DOMAIN waiters[n][e] /\ waiters'[n][e][i] = waiters[n][e][i + 1]
            /\ \A i \in DOMAIN waiters'[n][e] : i \in Nat /\ i # 0
            /\ 1 \in DOMAIN waiters[n][e]
        BY <1>t, <4>1
      <4>3. \A i \in DOMAIN waiters'[n][e] : waiters'[n][e][i] # d
        BY <1>0, <4>1, <4>2 DEF QueueOf
      <4>4. \A i \in DOMAIN waiters'[n][e] :
               /\ waiters'[n][e][i] \in Client /\ stage'[waiters'[n][e][i]] = "waiting"
               /\ Host[waiters'[n][e][i]] = n /\ Script[waiters'[n][e][i]][step'[waiters'[n][e][i]]].box = e
        BY <1>0, <1>t, <2>1, <3>3, <4>2, <4>3 DEF QueueOf, Call
      <4>5. \A i, j \in DOMAIN waiters'[n][e] : waiters'[n][e][i] = waiters'[n][e][j] => i = j
        BY <1>0, <4>2 DEF QueueOf
      <4>. QED BY <4>4, <4>5 DEF QueueOf, Call
    <3>5. CASE ~(n = m /\ e = b)
      <4>1. waiters'[n][e] = waiters[n][e]
        BY <1>t, <3>1, <3>2, <3>5
      <4>2. \A i \in DOMAIN waiters[n][e] : waiters[n][e][i] # d
        BY <1>0, <3>1, <3>5 DEF QueueOf
      <4>3. \A i \in DOMAIN waiters[n][e] :
               /\ stage'[waiters[n][e][i]] = "waiting"
               /\ Host[waiters[n][e][i]] = n /\ Script[waiters[n][e][i]][step'[waiters[n][e][i]]].box = e
        BY <1>0, <1>t, <2>1, <3>3, <4>2 DEF QueueOf, Call
      <4>. QED BY <1>0, <4>1, <4>3 DEF QueueOf, Call
    <3>. QED BY <3>4, <3>5
  <2>. QED BY <2>2, <2>3
<1>3. ASSUME NEW c \in Client, ReceiveWait(c) PROVE QueueOf(n, e)'
  <2>. DEFINE b == Call(c).box
  <2>1. /\ waiters' = [waiters EXCEPT ![Host[c]][b] = Append(@, c)]
        /\ stage' = [stage EXCEPT ![c] = "waiting"] /\ step' = step /\ stage[c] # "waiting"
    BY <1>3 DEF ReceiveWait, FindsEmpty, Waits
  <2>2. b \in Box /\ Host[c] \in Machine
    BY <1>3, ReceiveTyped, HostTyped DEF ReceiveWait
  <2>3. \A d \in Client : Call(d)' = Call(d) /\ (d # c => stage'[d] = stage[d])
    BY <1>t, <2>1 DEF Call
  <2>c. Script[c][step'[c]].box = b /\ stage'[c] = "waiting"
    BY <1>t, <2>1 DEF Call
  <2>. HIDE DEF b
  <2>4. \A i \in DOMAIN waiters[n][e] : waiters[n][e][i] # c
    BY <1>0, <2>1 DEF QueueOf
  <2>5. \A i \in DOMAIN waiters[n][e] :
           /\ stage'[waiters[n][e][i]] = "waiting"
           /\ Host[waiters[n][e][i]] = n /\ Script[waiters[n][e][i]][step'[waiters[n][e][i]]].box = e
    BY <1>0, <1>t, <2>1, <2>3, <2>4 DEF QueueOf, Call
  <2>6. CASE n = Host[c] /\ e = b
    <3>1. waiters'[n][e] = Append(waiters[n][e], c)
      BY <1>t, <2>1, <2>2, <2>6
    <3>2. \A i \in DOMAIN waiters'[n][e] :
             \/ i \in DOMAIN waiters[n][e] /\ waiters'[n][e][i] = waiters[n][e][i]
             \/ i = Len(waiters[n][e]) + 1 /\ waiters'[n][e][i] = c
      BY <1>t, <3>1
    <3>3. \A i \in DOMAIN waiters'[n][e] :
             /\ stage'[waiters'[n][e][i]] = "waiting"
             /\ Host[waiters'[n][e][i]] = n /\ Script[waiters'[n][e][i]][step'[waiters'[n][e][i]]].box = e
      BY <2>c, <2>5, <2>6, <3>2
    <3>4. \A i, j \in DOMAIN waiters'[n][e] : waiters'[n][e][i] = waiters'[n][e][j] => i = j
      BY <1>0, <2>4, <3>2 DEF QueueOf
    <3>. QED BY <3>3, <3>4 DEF QueueOf, Call
  <2>7. CASE ~(n = Host[c] /\ e = b)
    <3>1. waiters'[n][e] = waiters[n][e]
      BY <1>t, <2>1, <2>2, <2>7
    <3>. QED BY <1>0, <2>5, <3>1 DEF QueueOf, Call
  <2>. QED BY <2>6, <2>7
<1>4. ASSUME NEW c \in Client, ReceiveTake(c) PROVE QueueOf(n, e)'
  <2>1. /\ waiters' = waiters /\ stage' = [stage EXCEPT ![c] = "idle"]
        /\ step' = [step EXCEPT ![c] = @ + 1] /\ stage[c] # "waiting"
    BY <1>4 DEF ReceiveTake
  <2>2. \A i \in DOMAIN waiters[n][e] : waiters[n][e][i] # c
    BY <1>0, <2>1 DEF QueueOf
  <2>3. \A i \in DOMAIN waiters[n][e] :
           /\ stage'[waiters[n][e][i]] = "waiting"
           /\ Host[waiters[n][e][i]] = n /\ Script[waiters[n][e][i]][step'[waiters[n][e][i]]].box = e
    BY <1>0, <1>t, <2>1, <2>2 DEF QueueOf, Call
  <2>. QED BY <1>0, <2>1, <2>3 DEF QueueOf, Call
<1>. QED BY <1>1, <1>2, <1>3, <1>4, NobodyReceivesLemma, Zenon
     DEF PostNext, WorkerStep, ClientStep, MachineStep

\* MailCovered of one mailbox.
CoveredAt(m, b) ==
    /\ IsFiniteSet(Woken(m, b))
    /\ waiters[m][b] # << >> => Len(boxes[m][b]) <= Cardinality(Woken(m, b))

\* While clients sleep on a mailbox, one has been woken for each message in it.
LEMMA CoveredStep ==
  PostTypes /\ InCall /\ OneArrival /\ WaitersWait /\ MailCovered /\ [PostNext]_vars => MailCovered'
<1>. SUFFICES ASSUME PostTypes, InCall, OneArrival, WaitersWait, MailCovered, [PostNext]_vars PROVE MailCovered'
  OBVIOUS
<1>0. \A m \in Machine, b \in Box : CoveredAt(m, b)
  BY DEF MailCovered, CoveredAt
<1>a. SUFFICES ASSUME NEW n \in Machine, NEW e \in Box PROVE CoveredAt(n, e)'
  BY DEF MailCovered, CoveredAt
<1>t. /\ stage \in [Client -> {"idle", "send", "wait", "release", "waiting", "woken"}]
      /\ step \in [Client -> Nat \ {0}]
      /\ waiters \in [Machine -> [Box -> Seq(Client)]] /\ boxes \in [Machine -> [Box -> Seq(Mail)]]
      /\ waiters[n][e] \in Seq(Client) /\ boxes[n][e] \in Seq(Mail)
  BY DEF PostTypes
<1>w. IsFiniteSet(Woken(n, e)) /\ Cardinality(Woken(n, e)) \in Nat /\ Len(boxes[n][e]) \in Nat
  BY <1>0, <1>t, FS_CardinalityType DEF CoveredAt
<1>1. CASE NobodyReceives
  <2>1. Woken(n, e)' = Woken(n, e)
    BY <1>1, <1>t DEF NobodyReceives, Woken, Call
  <2>. QED BY <1>0, <1>1, <2>1 DEF NobodyReceives, CoveredAt
<1>2. ASSUME NEW m \in Machine, WorkerPut(m) PROVE CoveredAt(n, e)'
  <2>. DEFINE b == hand[m].box
  <2>1. step' = step /\ boxes' = [boxes EXCEPT ![m][b] = Append(@, hand[m])]
    BY <1>2 DEF WorkerPut, Put
  <2>2. b \in Box /\ hand[m] \in Mail
    BY <1>2, WokenLemma, Zenon
  <2>3. \/ waiters[m][b] = << >> /\ UNCHANGED <<waiters, stage>>
        \/ \E d \in Client :
             /\ waiters[m][b] # << >> /\ d = Head(waiters[m][b])
             /\ waiters' = [waiters EXCEPT ![m][b] = Tail(@)]
             /\ stage' = [stage EXCEPT ![d] = "woken"]
             /\ stage[d] = "waiting" /\ Host[d] = m /\ Call(d).box = b
    BY <1>2, WokenLemma, Zenon
  <2>. HIDE DEF b
  <2>4. CASE waiters[m][b] = << >> /\ UNCHANGED <<waiters, stage>>
    <3>1. Woken(n, e)' = Woken(n, e)
      BY <2>1, <2>4 DEF Woken, Call
    <3>2. waiters'[n][e] # << >> => boxes'[n][e] = boxes[n][e] /\ waiters[n][e] # << >>
      BY <1>t, <2>1, <2>2, <2>4
    <3>. QED BY <1>0, <3>1, <3>2 DEF CoveredAt
  <2>5. CASE ~(waiters[m][b] = << >> /\ UNCHANGED <<waiters, stage>>)
    <3>1. PICK d \in Client :
             /\ waiters[m][b] # << >>
             /\ waiters' = [waiters EXCEPT ![m][b] = Tail(@)]
             /\ stage' = [stage EXCEPT ![d] = "woken"]
             /\ stage[d] = "waiting" /\ Host[d] = m /\ Call(d).box = b
      BY <2>3, <2>5
    <3>2. \A c \in Client : Call(c)' = Call(c) /\ (c # d => stage'[c] = stage[c])
      BY <1>t, <2>1, <3>1 DEF Call
    <3>3. stage'[d] = "woken"
      BY <1>t, <3>1
    <3>4. CASE n = m /\ e = b
      <4>1. Woken(n, e)' = Woken(n, e) \cup {d} /\ d \notin Woken(n, e)
        BY <3>1, <3>2, <3>3, <3>4 DEF Woken
      <4>2. IsFiniteSet(Woken(n, e)') /\ Cardinality(Woken(n, e)') = Cardinality(Woken(n, e)) + 1
        BY <1>w, <4>1, FS_AddElement
      <4>3. boxes'[n][e] = Append(boxes[n][e], hand[m])
        BY <1>t, <2>1, <2>2, <3>4
      <4>4. Len(boxes'[n][e]) = Len(boxes[n][e]) + 1
        BY <1>t, <2>2, <4>3
      <4>5. Len(boxes[n][e]) <= Cardinality(Woken(n, e))
        BY <1>0, <3>1, <3>4 DEF CoveredAt
      <4>. HIDE DEF Woken
      <4>6. Len(boxes'[n][e]) <= Cardinality(Woken(n, e)')
        BY <1>w, <4>2, <4>4, <4>5
      <4>. QED BY <4>2, <4>6 DEF CoveredAt
    <3>5. CASE ~(n = m /\ e = b)
      <4>1. Woken(n, e)' = Woken(n, e)
        BY <3>1, <3>2, <3>3, <3>5 DEF Woken
      <4>2. boxes'[n][e] = boxes[n][e] /\ waiters'[n][e] = waiters[n][e]
        BY <1>t, <2>1, <2>2, <3>1, <3>5
      <4>. QED BY <1>0, <4>1, <4>2 DEF CoveredAt
    <3>. QED BY <3>4, <3>5
  <2>. QED BY <2>4, <2>5
<1>3. ASSUME NEW c \in Client, ReceiveWait(c) PROVE CoveredAt(n, e)'
  <2>. DEFINE b == Call(c).box
  <2>1. /\ waiters' = [waiters EXCEPT ![Host[c]][b] = Append(@, c)] /\ boxes' = boxes
        /\ stage' = [stage EXCEPT ![c] = "waiting"] /\ step' = step /\ boxes[Host[c]][b] = << >>
    BY <1>3 DEF ReceiveWait, FindsEmpty, Waits
  <2>2. b \in Box /\ Host[c] \in Machine
    BY <1>3, ReceiveTyped, HostTyped DEF ReceiveWait
  <2>3. \A d \in Client : Call(d)' = Call(d) /\ (d # c => stage'[d] = stage[d])
    BY <1>t, <2>1 DEF Call
  <2>4. stage'[c] = "waiting"
    BY <1>t, <2>1
  <2>5. Woken(n, e)' = Woken(n, e) \ {c}
    BY <2>3, <2>4 DEF Woken
  <2>6. IsFiniteSet(Woken(n, e)') /\ Cardinality(Woken(n, e)') \in Nat
    BY <1>w, <2>5, FS_RemoveElement, FS_CardinalityType
  <2>7. CASE n = Host[c] /\ e = b
    <3>1. Len(boxes'[n][e]) = 0
      BY <2>1, <2>7
    <3>. HIDE DEF Woken
    <3>2. Len(boxes'[n][e]) <= Cardinality(Woken(n, e)')
      BY <2>6, <3>1
    <3>. QED BY <2>6, <3>2 DEF CoveredAt
  <2>8. CASE ~(n = Host[c] /\ e = b)
    <3>1. c \notin Woken(n, e)
      BY <2>8 DEF Woken
    <3>2. Woken(n, e)' = Woken(n, e)
      BY <2>5, <3>1
    <3>. HIDE DEF b
    <3>3. waiters'[n][e] = waiters[n][e]
      BY <1>t, <2>1, <2>2, <2>8
    <3>. QED BY <1>0, <2>1, <3>2, <3>3 DEF CoveredAt
  <2>. QED BY <2>7, <2>8
<1>4. ASSUME NEW c \in Client, ReceiveTake(c) PROVE CoveredAt(n, e)'
  <2>. DEFINE b == Call(c).box
  <2>1. /\ waiters' = waiters /\ boxes' = [boxes EXCEPT ![Host[c]][b] = Tail(@)]
        /\ stage' = [stage EXCEPT ![c] = "idle"] /\ step' = [step EXCEPT ![c] = @ + 1]
        /\ boxes[Host[c]][b] # << >>
    BY <1>4 DEF ReceiveTake
  <2>2. b \in Box /\ Host[c] \in Machine
    BY <1>4, ReceiveTyped, HostTyped DEF ReceiveTake
  <2>3. \A d \in Client : d # c => Call(d)' = Call(d) /\ stage'[d] = stage[d]
    BY <1>t, <2>1 DEF Call
  <2>4. stage'[c] = "idle"
    BY <1>t, <2>1
  <2>5. Woken(n, e)' = Woken(n, e) \ {c}
    BY <2>3, <2>4 DEF Woken
  <2>6. /\ IsFiniteSet(Woken(n, e)') /\ Cardinality(Woken(n, e)') \in Nat
        /\ Cardinality(Woken(n, e)') >= Cardinality(Woken(n, e)) - 1
    <3>1. CASE c \in Woken(n, e)
      <4>1. /\ IsFiniteSet(Woken(n, e) \ {c})
            /\ Cardinality(Woken(n, e) \ {c}) = Cardinality(Woken(n, e)) - 1
        BY <1>w, <3>1, FS_RemoveElement
      <4>2. Cardinality(Woken(n, e) \ {c}) \in Nat
        BY <4>1, FS_CardinalityType
      <4>. HIDE DEF Woken
      <4>. QED BY <1>w, <2>5, <4>1, <4>2
    <3>2. CASE c \notin Woken(n, e)
      <4>1. Woken(n, e)' = Woken(n, e)
        BY <2>5, <3>2
      <4>. HIDE DEF Woken
      <4>. QED BY <1>w, <4>1
    <3>. QED BY <3>1, <3>2
  <2>7. CASE n = Host[c] /\ e = b
    <3>1. boxes[n][e] # << >>
      BY <2>1, <2>7
    <3>2. boxes'[n][e] = Tail(boxes[n][e])
      <4>. HIDE DEF b
      <4>. QED BY <1>t, <2>1, <2>2, <2>7
    <3>3. Len(boxes'[n][e]) = Len(boxes[n][e]) - 1
      BY <1>t, <3>1, <3>2
    <3>4. waiters'[n][e] # << >> => Len(boxes[n][e]) <= Cardinality(Woken(n, e))
      BY <1>0, <2>1 DEF CoveredAt
    <3>. HIDE DEF Woken
    <3>5. waiters'[n][e] # << >> => Len(boxes'[n][e]) <= Cardinality(Woken(n, e)')
      BY <1>w, <2>6, <3>3, <3>4
    <3>. QED BY <2>6, <3>5 DEF CoveredAt
  <2>8. CASE ~(n = Host[c] /\ e = b)
    <3>1. c \notin Woken(n, e)
      BY <2>8 DEF Woken
    <3>2. Woken(n, e)' = Woken(n, e)
      BY <2>5, <3>1
    <3>. HIDE DEF b
    <3>3. boxes'[n][e] = boxes[n][e]
      BY <1>t, <2>1, <2>2, <2>8
    <3>. QED BY <1>0, <2>1, <3>2, <3>3 DEF CoveredAt
  <2>. QED BY <2>7, <2>8
<1>. QED BY <1>1, <1>2, <1>3, <1>4, NobodyReceivesLemma, Zenon
     DEF PostNext, WorkerStep, ClientStep, MachineStep

-----------------------------------------------------------------------------
(* The theorem                                                             *)

\* Machines that are off, with empty boxes and idle clients, satisfy the invariant.
LEMMA PostStart == PostInit => PostInv
<1>. SUFFICES ASSUME PostInit PROVE PostInv
  OBVIOUS
<1>1. PostTypes
  BY PostAssumption DEF PostInit, PostTypes
<1>2. InCall
  <2>1. \A c \in Client : stage[c] = "idle" /\ step[c] = 1
    BY DEF PostInit
  <2>. QED BY <2>1 DEF InCall, Sending
<1>3. LockCoversSend /\ OneCompletion
  BY DEF PostInit, LockCoversSend, OneCompletion, Sending
<1>4. OneArrival
  BY DEF PostInit, OneArrival
<1>5. WaitersWait
  <2>1. \A m \in Machine, b \in Box : waiters[m][b] = << >>
    BY DEF PostInit
  <2>. QED BY <2>1 DEF WaitersWait
<1>6. MailCovered
  <2>1. \A m \in Machine, b \in Box : waiters[m][b] = << >>
    BY DEF PostInit
  <2>2. \A m \in Machine, b \in Box : Woken(m, b) = {}
    BY DEF PostInit, Woken
  <2>. QED BY <2>1, <2>2, FS_EmptySet DEF MailCovered
<1>. QED BY <1>1, <1>2, <1>3, <1>4, <1>5, <1>6 DEF PostInv

\* The inductive invariant of the post office.
THEOREM PostInvariant == PostSpec => []PostInv
<1>1. PostInv /\ [PostNext]_vars => PostInv'
  BY TypesStep, InCallStep, LockStep, CompletionStep, ArrivalStep, WaitersStep, CoveredStep, Zenon DEF PostInv
<1>. QED BY PostStart, <1>1, PTL DEF PostSpec

\* Each completion meets its sender, the worker a packet, a sleeping receiver no
\* mail: post.cc and network.cc need no more than sendLock, one V per packet and
\* SynchList's while for it.
THEOREM SignalsMeetTheirThreads == PostSpec => []NoSignalAstray
<1>1. PostInv => NoSignalAstray
  <2>. SUFFICES ASSUME PostInv PROVE NoSignalAstray
    OBVIOUS
  <2>n. NoClient \notin Client
    BY PostAssumption
  <2>1. \A m \in Machine : sendIrq[m] \in Nat /\ messageSent[m] \in Nat /\ sendLock[m] \in Client \cup {NoClient}
    BY DEF PostInv, PostTypes
  <2>2. OneOutstandingSend
    <3>. SUFFICES ASSUME NEW m \in Machine
                  PROVE  /\ sendIrq[m] + messageSent[m] = Cardinality({c \in Client : Host[c] = m /\ stage[c] = "wait"})
                         /\ sendIrq[m] + messageSent[m] <= 1
      BY DEF OneOutstandingSend
    <3>. DEFINE W == {c \in Client : Host[c] = m /\ stage[c] = "wait"}
    <3>1. \A c \in W : sendLock[m] = c
      BY DEF PostInv, LockCoversSend, Sending
    <3>2. CASE sendLock[m] # NoClient /\ stage[sendLock[m]] = "wait"
      <4>1. W = {sendLock[m]}
        BY <2>1, <3>1, <3>2 DEF PostInv, LockCoversSend
      <4>2. Cardinality(W) = 1
        BY <4>1, FS_Singleton
      <4>3. sendIrq[m] + messageSent[m] = 1
        BY <3>2 DEF PostInv, OneCompletion
      <4>. QED BY <4>2, <4>3
    <3>3. CASE ~(sendLock[m] # NoClient /\ stage[sendLock[m]] = "wait")
      <4>1. W = {}
        BY <2>n, <3>1, <3>3
      <4>2. Cardinality(W) = 0
        BY <4>1, FS_EmptySet
      <4>3. sendIrq[m] + messageSent[m] = 0
        BY <3>3 DEF PostInv, OneCompletion
      <4>. QED BY <4>2, <4>3
    <3>. QED BY <3>2, <3>3
  <2>3. \A m \in Machine : messageAvailable[m] \in 0 .. 1 /\ (worker[m] = "receive" => inHdr[m] # NoMail)
    <3>1. \A m \in Machine : messageAvailable[m] \in Nat
      BY DEF PostInv, PostTypes
    <3>. QED BY <3>1 DEF PostInv, OneArrival
  <2>4. PostTypeOK
    <3>0. \A m \in Machine : sendIrq[m] + messageSent[m] <= 1
      BY <2>2, Zenon DEF OneOutstandingSend
    <3>1. \A m \in Machine : messageSent[m] \in 0 .. 1
      BY <2>1, <3>0
    <3>. QED BY <2>3, <3>1 DEF PostInv, PostTypes, PostTypeOK
  <2>5. NoMailStranded
    BY DEF PostInv, MailCovered, NoMailStranded, Woken
  <2>. QED BY <2>2, <2>3, <2>4, <2>5 DEF NoSignalAstray, WorkerFindsPacket
<1>. QED BY PostInvariant, <1>1, PTL

-----------------------------------------------------------------------------
(* The messages for a box                                                  *)

\* Induction for sets of numbers.
LEMMA SetInduction ==
  ASSUME NEW P \in SUBSET Nat, 0 \in P, \A n \in P : n + 1 \in P
  PROVE  \A n \in Nat : n \in P
<1>. DEFINE Less == OpToRel(<, Nat)
<1>1. SUFFICES ASSUME Nat \ P # {} PROVE FALSE
  OBVIOUS
<1>2. \E m \in Nat \ P : \A i \in Nat \ P : ~(<<i, m>> \in Less)
  BY <1>1, NatLessThanWellFounded, WFMin
<1>3. Less = {ss \in Nat \X Nat : ss[1] < ss[2]}
  BY Zenon DEF OpToRel
<1>. HIDE DEF Less
<1>4. \A m, i \in Nat : i < m => <<i, m>> \in Less
  BY <1>3
<1>5. PICK m \in Nat \ P : \A i \in Nat \ P : ~(i < m)
  BY <1>2, <1>4
<1>6. m # 0 /\ m - 1 \in Nat /\ m - 1 < m
  BY <1>5
<1>7. m - 1 \in P
  BY <1>5, <1>6
<1>8. (m - 1) + 1 \in P
  BY <1>7
<1>. QED BY <1>5, <1>8

\* f lists the messages for b of ever longer prefixes of list.
MailPrefixes(f, list, b, n) ==
    /\ f \in [0 .. n -> Seq(Mail)]
    /\ f[0] = << >>
    /\ \A i \in 1 .. n : f[i] = IF list[i].box = b THEN Append(f[i - 1], list[i]) ELSE f[i - 1]

\* The recursion in Addressed has a solution.
LEMMA PrefixesExist ==
  ASSUME NEW list \in Seq(Mail), NEW b
  PROVE  \A n \in Nat : n <= Len(list) => \E f : MailPrefixes(f, list, b, n)
<1>. DEFINE P == {n \in Nat : n <= Len(list) => \E f : MailPrefixes(f, list, b, n)}
<1>1. 0 \in P
  <2>1. MailPrefixes([i \in 0 .. 0 |-> << >>], list, b, 0)
    BY DEF MailPrefixes
  <2>. QED BY <2>1
<1>2. ASSUME NEW n \in P PROVE n + 1 \in P
  <2>0. n \in Nat
    OBVIOUS
  <2>1. SUFFICES ASSUME n + 1 <= Len(list) PROVE \E f : MailPrefixes(f, list, b, n + 1)
    BY <2>0
  <2>2. Len(list) \in Nat /\ n <= Len(list)
    BY <2>0, <2>1
  <2>3. PICK f : MailPrefixes(f, list, b, n)
    BY <2>2
  <2>4. list[n + 1] \in Mail
    BY <2>0, <2>1
  <2>. DEFINE e == IF list[n + 1].box = b THEN Append(f[n], list[n + 1]) ELSE f[n]
              g == [i \in 0 .. n + 1 |-> IF i = n + 1 THEN e ELSE f[i]]
  <2>5. f[n] \in Seq(Mail)
    BY <2>0, <2>3 DEF MailPrefixes
  <2>6. e \in Seq(Mail)
    BY <2>4, <2>5
  <2>. HIDE DEF e
  <2>7. g \in [0 .. n + 1 -> Seq(Mail)] /\ g[0] = << >>
    BY <2>0, <2>3, <2>6 DEF MailPrefixes
  <2>8. \A i \in 0 .. n : g[i] = f[i]
    BY <2>0
  <2>9. g[n + 1] = e
    BY <2>0
  <2>. HIDE DEF g
  <2>10. ASSUME NEW i \in 1 .. n + 1
         PROVE  g[i] = IF list[i].box = b THEN Append(g[i - 1], list[i]) ELSE g[i - 1]
    <3>1. CASE i = n + 1
      <4>1. i - 1 = n /\ g[i - 1] = f[n]
        BY <2>0, <2>8, <3>1
      <4>. QED BY <2>9, <3>1, <4>1 DEF e
    <3>2. CASE i # n + 1
      <4>1. i \in 1 .. n /\ i - 1 \in 0 .. n /\ i \in 0 .. n
        BY <2>0, <3>2
      <4>. QED BY <2>3, <2>8, <4>1 DEF MailPrefixes
    <3>. QED BY <3>1, <3>2
  <2>. QED BY <2>7, <2>10 DEF MailPrefixes
<1>. HIDE DEF P
<1>3. \A n \in Nat : n \in P
  <2>1. P \in SUBSET Nat
    BY DEF P
  <2>. QED BY <1>1, <1>2, <2>1, SetInduction
<1>. QED BY <1>3 DEF P

\* What Addressed returns.
LEMMA AddressedDef ==
  ASSUME NEW list \in Seq(Mail), NEW b
  PROVE  \E f : MailPrefixes(f, list, b, Len(list)) /\ Addressed(list, b) = f[Len(list)]
<1>. DEFINE n == Len(list)
            Body(f) == [i \in 0 .. n |-> IF i = 0 THEN << >>
                          ELSE IF list[i].box = b THEN Append(f[i - 1], list[i]) ELSE f[i - 1]]
            h == CHOOSE f : f = Body(f)
<1>0. n \in Nat
  OBVIOUS
<1>1. Addressed(list, b) = h[n]
  BY DEF Addressed
<1>2. PICK f : MailPrefixes(f, list, b, n)
  <2>1. \A k \in Nat : k <= Len(list) => \E f : MailPrefixes(f, list, b, k)
    BY PrefixesExist, Zenon
  <2>2. n <= Len(list)
    OBVIOUS
  <2>. QED BY <1>0, <2>1, <2>2, Zenon
<1>3. f = Body(f)
  <2>. HIDE DEF n
  <2>1. f = [i \in 0 .. n |-> f[i]]
    BY <1>2 DEF MailPrefixes
  <2>2. \A i \in 0 .. n : f[i] = IF i = 0 THEN << >>
                          ELSE IF list[i].box = b THEN Append(f[i - 1], list[i]) ELSE f[i - 1]
    <3>. TAKE i \in 0 .. n
    <3>1. CASE i = 0
      BY <1>2, <3>1 DEF MailPrefixes
    <3>2. CASE i # 0
      <4>1. i \in 1 .. n
        BY <1>0, <3>2
      <4>2. f[i] = IF list[i].box = b THEN Append(f[i - 1], list[i]) ELSE f[i - 1]
        BY <1>2, <4>1, Zenon DEF MailPrefixes
      <4>. QED BY <3>2, <4>2, Zenon
    <3>. QED BY <3>1, <3>2
  <2>. QED BY <2>1, <2>2
<1>4. h = Body(h)
  BY <1>3
<1>. HIDE DEF h, n
<1>5. \A i \in 0 .. n : h[i] = IF i = 0 THEN << >>
                          ELSE IF list[i].box = b THEN Append(h[i - 1], list[i]) ELSE h[i - 1]
  BY <1>4
<1>6. \A i \in Nat : i <= n => h[i] = f[i]
  <2>. DEFINE P == {i \in Nat : i <= n => h[i] = f[i]}
  <2>1. 0 \in P
    BY <1>0, <1>2, <1>5 DEF MailPrefixes
  <2>2. ASSUME NEW i \in P PROVE i + 1 \in P
    <3>1. SUFFICES ASSUME i + 1 <= n PROVE h[i + 1] = f[i + 1]
      OBVIOUS
    <3>2. i \in Nat /\ i + 1 \in 1 .. n /\ i + 1 \in 0 .. n /\ (i + 1) - 1 = i /\ i <= n /\ i + 1 # 0
      BY <1>0, <3>1
    <3>3. h[i] = f[i]
      BY <3>2
    <3>4. h[i + 1] = IF list[i + 1].box = b THEN Append(h[i], list[i + 1]) ELSE h[i]
      BY <1>5, <3>2
    <3>5. f[i + 1] = IF list[i + 1].box = b THEN Append(f[i], list[i + 1]) ELSE f[i]
      BY <1>2, <3>2 DEF MailPrefixes
    <3>. QED BY <3>3, <3>4, <3>5
  <2>. HIDE DEF P
  <2>3. \A i \in Nat : i \in P
    <3>1. P \in SUBSET Nat
      BY DEF P
    <3>. QED BY <2>1, <2>2, <3>1, SetInduction
  <2>. QED BY <2>3 DEF P
<1>7. h[n] = f[n]
  BY <1>0, <1>6
<1>. QED BY <1>1, <1>2, <1>7 DEF n

\* Addressed gives messages; of no messages, none.
LEMMA AddressedType ==
  ASSUME NEW list \in Seq(Mail), NEW b
  PROVE  Addressed(list, b) \in Seq(Mail) /\ (list = << >> => Addressed(list, b) = << >>)
<1>1. PICK f : MailPrefixes(f, list, b, Len(list)) /\ Addressed(list, b) = f[Len(list)]
  BY AddressedDef
<1>2. Len(list) \in Nat /\ Len(list) \in 0 .. Len(list) /\ (list = << >> => Len(list) = 0)
  OBVIOUS
<1>. QED BY <1>1, <1>2 DEF MailPrefixes

\* A message sent to a box comes last for that box, and nowhere for another.
LEMMA AddressedAppend ==
  ASSUME NEW list \in Seq(Mail), NEW x \in Mail, NEW b
  PROVE  Addressed(Append(list, x), b) =
            IF x.box = b THEN Append(Addressed(list, b), x) ELSE Addressed(list, b)
<1>. DEFINE n == Len(list)  more == Append(list, x)
<1>0. n \in Nat /\ more \in Seq(Mail) /\ Len(more) = n + 1 /\ more[n + 1] = x
      /\ \A i \in 1 .. n : more[i] = list[i]
  OBVIOUS
<1>1. PICK f : MailPrefixes(f, list, b, n) /\ Addressed(list, b) = f[n]
  BY AddressedDef
<1>. HIDE DEF n, more
<1>2. PICK g : MailPrefixes(g, more, b, n + 1) /\ Addressed(more, b) = g[n + 1]
  BY <1>0, AddressedDef
<1>3. \A i \in Nat : i <= n => f[i] = g[i]
  <2>. DEFINE P == {i \in Nat : i <= n => f[i] = g[i]}
  <2>1. 0 \in P
    BY <1>1, <1>2 DEF MailPrefixes
  <2>2. ASSUME NEW i \in P PROVE i + 1 \in P
    <3>1. SUFFICES ASSUME i + 1 <= n PROVE f[i + 1] = g[i + 1]
      OBVIOUS
    <3>2. i \in Nat /\ i + 1 \in 1 .. n /\ i + 1 \in 1 .. n + 1 /\ (i + 1) - 1 = i /\ i <= n
      BY <1>0, <3>1
    <3>3. f[i] = g[i] /\ list[i + 1] = more[i + 1]
      BY <1>0, <3>2
    <3>4. f[i + 1] = IF list[i + 1].box = b THEN Append(f[i], list[i + 1]) ELSE f[i]
      BY <1>1, <3>2 DEF MailPrefixes
    <3>5. g[i + 1] = IF more[i + 1].box = b THEN Append(g[i], more[i + 1]) ELSE g[i]
      BY <1>2, <3>2 DEF MailPrefixes
    <3>. QED BY <3>3, <3>4, <3>5
  <2>. HIDE DEF P
  <2>3. \A i \in Nat : i \in P
    <3>1. P \in SUBSET Nat
      BY DEF P
    <3>. QED BY <2>1, <2>2, <3>1, SetInduction
  <2>. QED BY <2>3 DEF P
<1>4. f[n] = g[n]
  BY <1>0, <1>3
<1>5. g[n + 1] = IF x.box = b THEN Append(g[n], x) ELSE g[n]
  <2>1. n + 1 \in 1 .. n + 1 /\ (n + 1) - 1 = n
    BY <1>0
  <2>. QED BY <1>0, <1>2, <2>1 DEF MailPrefixes
<1>6. Addressed(more, b) = IF x.box = b THEN Append(Addressed(list, b), x) ELSE Addressed(list, b)
  BY <1>1, <1>2, <1>4, <1>5
<1>. QED BY <1>6 DEF more

\* The first message comes first for its box.
LEMMA AddressedFirst ==
  ASSUME NEW list \in Seq(Mail), NEW x \in Mail, NEW b
  PROVE  Addressed(<<x>> \o list, b) =
            IF x.box = b THEN <<x>> \o Addressed(list, b) ELSE Addressed(list, b)
<1>. DEFINE n == Len(list)  more == <<x>> \o list
            With(r) == IF x.box = b THEN <<x>> \o r ELSE r
<1>0. n \in Nat /\ more \in Seq(Mail) /\ Len(more) = n + 1 /\ more[1] = x
      /\ \A i \in 1 .. n : more[i + 1] = list[i]
  OBVIOUS
<1>w. /\ \A r \in Seq(Mail), y \in Mail : Append(With(r), y) = With(Append(r, y))
      /\ With(<< >>) = IF x.box = b THEN Append(<< >>, x) ELSE << >>
  OBVIOUS
<1>1. PICK f : MailPrefixes(f, list, b, n) /\ Addressed(list, b) = f[n]
  BY AddressedDef
<1>l. \A i \in 1 .. n : list[i] \in Mail
  OBVIOUS
<1>. HIDE DEF n, more, With
<1>2. PICK g : MailPrefixes(g, more, b, n + 1) /\ Addressed(more, b) = g[n + 1]
  BY <1>0, AddressedDef
<1>3. \A i \in Nat : i <= n => g[i + 1] = With(f[i])
  <2>. DEFINE P == {i \in Nat : i <= n => g[i + 1] = With(f[i])}
  <2>1. 0 \in P
    <3>1. 1 \in 1 .. n + 1 /\ 1 - 1 = 0 /\ 0 + 1 = 1
      BY <1>0
    <3>2. g[1] = IF x.box = b THEN Append(g[0], x) ELSE g[0]
      BY <1>0, <1>2, <3>1 DEF MailPrefixes
    <3>3. g[0] = << >> /\ f[0] = << >>
      BY <1>1, <1>2 DEF MailPrefixes
    <3>4. g[1] = With(f[0])
      BY <1>w, <3>2, <3>3
    <3>. QED BY <3>1, <3>4
  <2>2. ASSUME NEW i \in P PROVE i + 1 \in P
    <3>1. SUFFICES ASSUME i + 1 <= n PROVE g[(i + 1) + 1] = With(f[i + 1])
      OBVIOUS
    <3>2. /\ i \in Nat /\ i + 1 \in 1 .. n /\ (i + 1) + 1 \in 1 .. n + 1 /\ (i + 1) - 1 = i /\ i <= n
          /\ ((i + 1) + 1) - 1 = i + 1 /\ i \in 0 .. n
      BY <1>0, <3>1
    <3>3. g[i + 1] = With(f[i]) /\ more[(i + 1) + 1] = list[i + 1] /\ list[i + 1] \in Mail
      BY <1>0, <1>l, <3>2
    <3>4. f[i] \in Seq(Mail)
      BY <1>1, <3>2 DEF MailPrefixes
    <3>5. f[i + 1] = IF list[i + 1].box = b THEN Append(f[i], list[i + 1]) ELSE f[i]
      BY <1>1, <3>2 DEF MailPrefixes
    <3>6. g[(i + 1) + 1] = IF list[i + 1].box = b THEN Append(g[i + 1], list[i + 1]) ELSE g[i + 1]
      BY <1>2, <3>2, <3>3 DEF MailPrefixes
    <3>. QED BY <1>w, <3>3, <3>4, <3>5, <3>6
  <2>. HIDE DEF P
  <2>3. \A i \in Nat : i \in P
    <3>1. P \in SUBSET Nat
      BY DEF P
    <3>. QED BY <2>1, <2>2, <3>1, SetInduction
  <2>. QED BY <2>3 DEF P
<1>4. g[n + 1] = With(f[n])
  BY <1>0, <1>3
<1>5. Addressed(more, b) = With(Addressed(list, b))
  BY <1>1, <1>2, <1>4
<1>. QED BY <1>5 DEF more, With

-----------------------------------------------------------------------------
(* The mailboxes are queues                                                *)

\* How messages move between the lists that the queue of a box is made of.
LEMMA ListMoves ==
  ASSUME NEW S, NEW a \in Seq(S), NEW r \in Seq(S), NEW x \in S
  PROVE  /\ Append(a, x) \in Seq(S) /\ a \o r \in Seq(S) /\ <<x>> \in Seq(S) /\ << >> \in Seq(S)
         /\ a \o Append(r, x) = Append(a \o r, x)
         /\ a \o (<<x>> \o r) = Append(a, x) \o r
         /\ (<< >> \o <<x>>) \o r = (<<x>> \o << >>) \o r
         /\ (<<x>> \o a) \o r = <<x>> \o ((<< >> \o a) \o r)
         /\ r # << >> => (a \o << >>) \o r = (a \o <<Head(r)>>) \o Tail(r)
         /\ a # << >> => Head(a \o r) = Head(a) /\ Tail(a \o r) = Tail(a) \o r /\ a \o r # << >>
<1>1. Append(a, x) \in Seq(S) /\ a \o r \in Seq(S) /\ <<x>> \in Seq(S) /\ << >> \in Seq(S)
  OBVIOUS
<1>2. a \o Append(r, x) = Append(a \o r, x)
  OBVIOUS
<1>3. a \o (<<x>> \o r) = Append(a, x) \o r
  OBVIOUS
<1>4. (<< >> \o <<x>>) \o r = (<<x>> \o << >>) \o r
  OBVIOUS
<1>5. (<<x>> \o a) \o r = <<x>> \o ((<< >> \o a) \o r)
  OBVIOUS
<1>6. r # << >> => (a \o << >>) \o r = (a \o <<Head(r)>>) \o Tail(r)
  OBVIOUS
<1>7. a # << >> => Head(a \o r) = Head(a) /\ Tail(a \o r) = Tail(a) \o r /\ a \o r # << >>
  OBVIOUS
<1>. QED BY <1>1, <1>2, <1>3, <1>4, <1>5, <1>6, <1>7

\* What the refinement needs besides PostInv: the worker's buffer is empty but
\* for delivery, and a message that was sent is not of a call yet to be made.
SentBefore(x) ==
    \/ x.id[2] < step[x.id[1]]
    \/ x.id[2] = step[x.id[1]] /\ stage[x.id[1]] \in {"wait", "release"}

QueueInv ==
    /\ \A m \in Machine : worker[m] # "put" => hand[m] = NoMail
    /\ sent \subseteq Mail /\ \A x \in sent : SentBefore(x)
    /\ got \in [Client -> Seq(Mail)]

\* Initially nothing has been sent.
LEMMA QueueStart == PostInit => QueueInv
BY DEF PostInit, QueueInv

\* A client goes on in its script, and once past Network::Send does not go back.
LEMMA Onward ==
  ASSUME PostInv, [PostNext]_vars, NEW d \in Client
  PROVE  /\ step'[d] >= step[d] /\ step'[d] \in Nat /\ step[d] \in Nat
         /\ step'[d] = step[d] /\ stage[d] \in {"wait", "release"} => stage'[d] \in {"wait", "release"}
<1>. DEFINE Goal == /\ step'[d] >= step[d] /\ step'[d] \in Nat /\ step[d] \in Nat
                    /\ step'[d] = step[d] /\ stage[d] \in {"wait", "release"} => stage'[d] \in {"wait", "release"}
<1>t. /\ stage \in [Client -> {"idle", "send", "wait", "release", "waiting", "woken"}]
      /\ step \in [Client -> Nat \ {0}] /\ step[d] \in Nat
  BY DEF PostInv, PostTypes
<1>1. ASSUME UNCHANGED <<step, stage>> PROVE Goal
  BY <1>1, <1>t
<1>2. ASSUME NEW m \in Machine, WorkerPut(m) PROVE Goal
  <2>1. step' = step
    BY <1>2 DEF WorkerPut
  <2>2. \/ stage' = stage
        \/ \E c \in Client : stage' = [stage EXCEPT ![c] = "woken"] /\ stage[c] = "waiting"
    BY <1>2, WokenLemma, Zenon DEF PostInv
  <2>. QED BY <1>t, <2>1, <2>2
<1>3. ASSUME NEW c \in Client, AcquireSend(c) \/ ReceiveWait(c) PROVE Goal
  <2>1. step' = step /\ stage[c] \in {"idle", "woken"} /\ \E p \in {"send", "waiting"} : stage' = [stage EXCEPT ![c] = p]
    BY <1>3 DEF AcquireSend, ReceiveWait, FindsEmpty, Waits
  <2>. QED BY <1>t, <2>1
<1>4. ASSUME NEW c \in Client, Send(c) \/ AwaitSent(c) PROVE Goal
  <2>1. step' = step /\ \E p \in {"wait", "release"} : stage' = [stage EXCEPT ![c] = p]
    BY <1>4 DEF Send, AwaitSent
  <2>. QED BY <1>t, <2>1
<1>5. ASSUME NEW c \in Client, ReleaseSend(c) \/ ReceiveTake(c) PROVE Goal
  <2>1. step' = [step EXCEPT ![c] = @ + 1] /\ stage' = [stage EXCEPT ![c] = "idle"]
    BY <1>5 DEF ReleaseSend, ReceiveTake
  <2>. QED BY <1>t, <2>1
<1>6. ASSUME MachineStep PROVE UNCHANGED <<step, stage>>
  BY <1>6, MachineStepLemma
<1>. QED BY <1>1, <1>2, <1>3, <1>4, <1>5, <1>6, Zenon DEF PostNext, WorkerStep, ClientStep, MachineStep

\* The history and the worker's buffer stay in order.
LEMMA QueueStep == PostInv /\ QueueInv /\ [PostNext]_vars => QueueInv'
<1>. SUFFICES ASSUME PostInv, QueueInv, [PostNext]_vars PROVE QueueInv'
  OBVIOUS
<1>t. /\ hand \in [Machine -> Mail \cup {NoMail}] /\ worker \in [Machine -> {"wait", "receive", "put"}]
      /\ got \in [Client -> Seq(Mail)] /\ sent \subseteq Mail
      /\ stage \in [Client -> {"idle", "send", "wait", "release", "waiting", "woken"}]
  BY DEF PostInv, PostTypes, QueueInv
<1>i. \A x \in Mail : x.id[1] \in Client /\ x.id[2] \in Nat
  BY DEF Mail
<1>1. ASSUME NEW x \in sent PROVE SentBefore(x)'
  <2>1. x.id[1] \in Client /\ x.id[2] \in Nat /\ SentBefore(x)
    BY <1>i, <1>t DEF QueueInv
  <2>. DEFINE d == x.id[1]
  <2>2. /\ step'[d] >= step[d] /\ step'[d] \in Nat /\ step[d] \in Nat
        /\ step'[d] = step[d] /\ stage[d] \in {"wait", "release"} => stage'[d] \in {"wait", "release"}
    BY <2>1, Onward
  <2>. QED BY <2>1, <2>2 DEF SentBefore
<1>2. /\ sent' \subseteq Mail
      /\ \A x \in sent' \ sent : SentBefore(x)'
  <2>1. ASSUME NEW c \in Client, Send(c) PROVE sent' \subseteq Mail /\ \A x \in sent' \ sent : SentBefore(x)'
    <3>1. Outgoing(c) \in Mail
      BY <2>1, OutgoingTyped DEF Send, PostInv
    <3>2. sent' = sent \/ sent' = sent \cup {Outgoing(c)}
      BY <2>1 DEF Send
    <3>3. Outgoing(c).id = <<c, step[c]>> /\ step' = step /\ stage'[c] = "wait"
      BY <1>t, <2>1 DEF Send, Outgoing
    <3>4. PICK y \in Mail : y = Outgoing(c)
      BY <3>1
    <3>5. y.id[1] = c /\ y.id[2] = step[c]
      BY <3>3, <3>4
    <3>6. SentBefore(y)'
      BY <3>3, <3>5 DEF SentBefore
    <3>. QED BY <1>t, <3>2, <3>4, <3>6
  <2>2. ASSUME ~(\E c \in Client : Send(c)) PROVE sent' = sent
    BY <2>2 DEF PostNext, Boot, SendDone, CheckPktAvail, WorkerStep, WorkerAwait, WorkerReceive, WorkerPut,
                ClientStep, AcquireSend, AwaitSent, ReleaseSend, ReceiveWait, ReceiveTake, Halt, vars
  <2>. QED BY <1>t, <2>1, <2>2
<1>3. got' \in [Client -> Seq(Mail)]
  <2>1. ASSUME NEW c \in Client, ReceiveTake(c) PROVE got' \in [Client -> Seq(Mail)]
    <3>1. Call(c).box \in Box /\ Host[c] \in Machine
      BY <2>1, ReceiveTyped, HostTyped DEF ReceiveTake, PostInv
    <3>2. boxes[Host[c]][Call(c).box] \in Seq(Mail) /\ boxes[Host[c]][Call(c).box] # << >>
      BY <2>1, <3>1 DEF ReceiveTake, PostInv, PostTypes
    <3>3. Append(got[c], Head(boxes[Host[c]][Call(c).box])) \in Seq(Mail)
      BY <1>t, <3>2
    <3>4. got' = [got EXCEPT ![c] = Append(@, Head(boxes[Host[c]][Call(c).box]))]
      BY <2>1 DEF ReceiveTake
    <3>. QED BY <1>t, <3>3, <3>4
  <2>2. ASSUME ~(\E c \in Client : ReceiveTake(c)) PROVE got' = got
    BY <2>2 DEF PostNext, Boot, SendDone, CheckPktAvail, WorkerStep, WorkerAwait, WorkerReceive, WorkerPut,
                ClientStep, AcquireSend, Send, AwaitSent, ReleaseSend, ReceiveWait, FindsEmpty, Waits, Halt, vars
  <2>. QED BY <1>t, <2>1, <2>2
<1>4. ASSUME NEW n \in Machine PROVE worker'[n] # "put" => hand'[n] = NoMail
  <2>0. worker[n] # "put" => hand[n] = NoMail
    BY DEF QueueInv
  <2>1. ASSUME NEW m \in Machine, WorkerAwait(m) PROVE worker'[n] # "put" => hand'[n] = NoMail
    BY <1>t, <2>0, <2>1 DEF WorkerAwait
  <2>2. ASSUME NEW m \in Machine, WorkerReceive(m) PROVE worker'[n] # "put" => hand'[n] = NoMail
    BY <1>t, <2>0, <2>2 DEF WorkerReceive
  <2>3. ASSUME NEW m \in Machine, WorkerPut(m) PROVE worker'[n] # "put" => hand'[n] = NoMail
    BY <1>t, <2>0, <2>3 DEF WorkerPut
  <2>4. ASSUME ~(\E m \in Machine : WorkerStep(m)) PROVE UNCHANGED <<worker, hand>>
    BY <2>4 DEF PostNext, Boot, SendDone, CheckPktAvail, ClientStep, AcquireSend, Send, AwaitSent,
                ReleaseSend, ReceiveWait, ReceiveTake, Halt, vars, postVars
  <2>. QED BY <2>0, <2>1, <2>2, <2>3, <2>4 DEF WorkerStep
<1>. QED BY <1>1, <1>2, <1>3, <1>4 DEF QueueInv

Queues == [m \in Machine |-> [b \in Box |-> MailFor(m, b)]]

\* The pieces of a queue are lists of messages.
LEMMA PiecesTyped ==
  ASSUME PostTypes, NEW m \in Machine
  PROVE  /\ ListOf(hand[m]) \in Seq(Mail) /\ ListOf(inHdr[m]) \in Seq(Mail) /\ socket[m] \in Seq(Mail)
         /\ ListOf(hand[m]) \o ListOf(inHdr[m]) \in Seq(Mail)
         /\ InTransit(m) \in Seq(Mail)
         /\ \A b \in Box : boxes[m][b] \in Seq(Mail) /\ Addressed(InTransit(m), b) \in Seq(Mail)
<1>1. ListOf(hand[m]) \in Seq(Mail) /\ ListOf(inHdr[m]) \in Seq(Mail) /\ socket[m] \in Seq(Mail)
  BY DEF PostTypes, ListOf
<1>2. /\ ListOf(hand[m]) \o ListOf(inHdr[m]) \in Seq(Mail)
      /\ ListOf(hand[m]) \o ListOf(inHdr[m]) \o socket[m] \in Seq(Mail)
  <2>. DEFINE A == ListOf(hand[m])  B == ListOf(inHdr[m])  C == socket[m]
  <2>. HIDE DEF A, B, C
  <2>1. A \in Seq(Mail) /\ B \in Seq(Mail) /\ C \in Seq(Mail)
    BY <1>1 DEF A, B, C
  <2>2. A \o B \in Seq(Mail) /\ A \o B \o C \in Seq(Mail)
    BY <2>1
  <2>. QED BY <2>2 DEF A, B, C
<1>3. InTransit(m) \in Seq(Mail)
  BY <1>2, Zenon DEF InTransit
<1>4. \A b \in Box : boxes[m][b] \in Seq(Mail)
  BY DEF PostTypes
<1>5. \A b \in Box : Addressed(InTransit(m), b) \in Seq(Mail)
  BY <1>3, AddressedType
<1>. QED BY <1>1, <1>2, <1>3, <1>4, <1>5

\* Queues that are the same one by one are the same.
LEMMA QueuesSame ==
  ASSUME \A m \in Machine, b \in Box : MailFor(m, b)' = MailFor(m, b)
  PROVE  Queues' = Queues
BY DEF Queues

\* A message that arrives or is taken out of the buffer stays where it is on the
\* way to its box.
LEMMA ArrivalDoesNotShow ==
  ASSUME PostInv, QueueInv, NEW m \in Machine, CheckPktAvail(m) \/ WorkerReceive(m)
  PROVE  Queues' = Queues
<1>. USE DEF PostInv
<1>n. NoMail \notin Mail
  BY PostAssumption
<1>t. /\ hand \in [Machine -> Mail \cup {NoMail}] /\ inHdr \in [Machine -> Mail \cup {NoMail}]
      /\ socket \in [Machine -> Seq(Mail)]
  BY DEF PostTypes
<1>0. boxes' = boxes
  BY DEF CheckPktAvail, WorkerReceive, postVars
<1>1. ASSUME CheckPktAvail(m) PROVE \A n \in Machine : InTransit(n)' = InTransit(n)
  <2>0. TAKE n \in Machine
  <2>1. /\ inHdr[m] = NoMail /\ socket[m] # << >> /\ inHdr' = [inHdr EXCEPT ![m] = Head(socket[m])]
        /\ socket' = [socket EXCEPT ![m] = Tail(@)] /\ hand' = hand
    BY <1>1 DEF CheckPktAvail, postVars
  <2>2. CASE n = m
    <3>. DEFINE A == ListOf(hand[m])  C == socket[m]
    <3>1. A \in Seq(Mail) /\ C \in Seq(Mail) /\ C # << >> /\ Head(C) \in Mail
      BY <2>1, PiecesTyped
    <3>2. ListOf(inHdr[n]) = << >> /\ ListOf(inHdr'[n]) = <<Head(C)>> /\ socket'[n] = Tail(C) /\ hand'[n] = hand[m]
      BY <1>n, <1>t, <2>1, <2>2, <3>1 DEF ListOf
    <3>3. InTransit(n) = (A \o << >>) \o C
      BY <2>2, <3>2, Zenon DEF InTransit
    <3>4. InTransit(n)' = (A \o <<Head(C)>>) \o Tail(C)
      BY <3>2, Zenon DEF InTransit
    <3>. HIDE DEF A, C
    <3>5. (A \o << >>) \o C = (A \o <<Head(C)>>) \o Tail(C)
      BY <3>1, ListMoves
    <3>. QED BY <3>3, <3>4, <3>5, Zenon
  <2>3. CASE n # m
    <3>1. inHdr'[n] = inHdr[n] /\ socket'[n] = socket[n] /\ hand'[n] = hand[n]
      BY <1>t, <2>1, <2>3
    <3>. QED BY <3>1, Zenon DEF InTransit
  <2>. QED BY <2>2, <2>3
<1>2. ASSUME WorkerReceive(m) PROVE \A n \in Machine : InTransit(n)' = InTransit(n)
  <2>0. TAKE n \in Machine
  <2>1. /\ worker[m] = "receive" /\ hand' = [hand EXCEPT ![m] = inHdr[m]] /\ socket' = socket
        /\ inHdr' = [inHdr EXCEPT ![m] = NoMail]
    BY <1>2 DEF WorkerReceive
  <2>2. hand[m] = NoMail /\ inHdr[m] \in Mail
    <3>1. hand[m] = NoMail
      BY <2>1 DEF QueueInv
    <3>2. inHdr[m] # NoMail
      <4>1. messageAvailable[m] + 1 = IF inHdr[m] # NoMail THEN 1 ELSE 0
        BY <2>1 DEF OneArrival
      <4>2. messageAvailable[m] \in Nat
        BY DEF PostTypes
      <4>. QED BY <4>1, <4>2
    <3>. QED BY <1>t, <3>1, <3>2
  <2>3. CASE n = m
    <3>. DEFINE x == inHdr[m]  C == socket[m]
    <3>1. x \in Mail /\ C \in Seq(Mail)
      BY <1>t, <2>2
    <3>2. /\ ListOf(hand[n]) = << >> /\ ListOf(inHdr[n]) = <<x>> /\ ListOf(hand'[n]) = <<x>>
          /\ ListOf(inHdr'[n]) = << >> /\ socket'[n] = C
      BY <1>n, <1>t, <2>1, <2>2, <2>3 DEF ListOf
    <3>3. InTransit(n) = (<< >> \o <<x>>) \o C
      BY <2>3, <3>2, Zenon DEF InTransit
    <3>4. InTransit(n)' = (<<x>> \o << >>) \o C
      BY <3>2, Zenon DEF InTransit
    <3>. HIDE DEF x, C
    <3>5. (<< >> \o <<x>>) \o C = (<<x>> \o << >>) \o C
      BY <3>1, ListMoves
    <3>. QED BY <3>3, <3>4, <3>5, Zenon
  <2>4. CASE n # m
    <3>1. inHdr'[n] = inHdr[n] /\ socket'[n] = socket[n] /\ hand'[n] = hand[n]
      BY <1>t, <2>1, <2>4
    <3>. QED BY <3>1, Zenon DEF InTransit
  <2>. QED BY <2>3, <2>4
<1>. QED BY <1>0, <1>1, <1>2, QueuesSame, Zenon DEF MailFor

\* Nor does the postal worker's delivery show: what goes into a box was next for it.
LEMMA DeliveryDoesNotShow ==
  ASSUME PostInv, QueueInv, NEW m \in Machine, WorkerPut(m)
  PROVE  Queues' = Queues
<1>. USE DEF PostInv
<1>. DEFINE x == hand[m]
<1>n. NoMail \notin Mail
  BY PostAssumption
<1>t. hand \in [Machine -> Mail \cup {NoMail}] /\ boxes \in [Machine -> [Box -> Seq(Mail)]]
  BY DEF PostTypes
<1>1. /\ boxes' = [boxes EXCEPT ![m][x.box] = Append(@, x)] /\ hand' = [hand EXCEPT ![m] = NoMail]
      /\ UNCHANGED <<inHdr, socket>>
  BY DEF WorkerPut, Put, netVars
<1>2. x \in Mail /\ x.box \in Box
  BY WokenLemma, Zenon
<1>3. SUFFICES ASSUME NEW n \in Machine, NEW b \in Box PROVE MailFor(n, b)' = MailFor(n, b)
  BY QueuesSame
<1>4. CASE n = m
  <2>. DEFINE B == ListOf(inHdr[m])  C == socket[m]  r == (<< >> \o B) \o C  a == boxes[m][b]
  <2>1. B \in Seq(Mail) /\ C \in Seq(Mail) /\ a \in Seq(Mail)
    BY PiecesTyped
  <2>2. ListOf(hand[n]) = <<x>> /\ ListOf(hand'[n]) = << >> /\ inHdr'[n] = inHdr[m] /\ socket'[n] = C
    BY <1>n, <1>t, <1>1, <1>2, <1>4 DEF ListOf
  <2>3. InTransit(n) = (<<x>> \o B) \o C
    BY <1>4, <2>2, Zenon DEF InTransit
  <2>4. InTransit(n)' = r
    BY <2>2, Zenon DEF InTransit
  <2>b. boxes'[n][b] = IF b = x.box THEN Append(a, x) ELSE a
    BY <1>t, <1>1, <1>2, <1>4
  <2>. HIDE DEF x, B, C, a
  <2>5. (<<x>> \o B) \o C = <<x>> \o r
    BY <1>2, <2>1, ListMoves
  <2>6. r \in Seq(Mail)
    BY <2>1
  <2>. HIDE DEF r
  <2>7. Addressed(<<x>> \o r, b) = IF x.box = b THEN <<x>> \o Addressed(r, b) ELSE Addressed(r, b)
    BY <1>2, <2>6, AddressedFirst
  <2>8. Addressed(r, b) \in Seq(Mail)
    BY <2>6, AddressedType
  <2>9. a \o (<<x>> \o Addressed(r, b)) = Append(a, x) \o Addressed(r, b)
    BY <1>2, <2>1, <2>8, ListMoves
  <2>10. MailFor(n, b)' = boxes'[n][b] \o Addressed(r, b)
    BY <2>4, Zenon DEF MailFor
  <2>11. MailFor(n, b) = a \o Addressed(<<x>> \o r, b)
    <3>1. boxes[n][b] = a
      BY <1>4 DEF a
    <3>2. InTransit(n) = <<x>> \o r
      BY <2>3, <2>5, Zenon
    <3>. QED BY <3>1, <3>2, Zenon DEF MailFor
  <2>12. CASE x.box = b
    BY <2>b, <2>7, <2>9, <2>10, <2>11, <2>12, Zenon
  <2>13. CASE x.box # b
    BY <2>b, <2>7, <2>10, <2>11, <2>13, Zenon
  <2>. QED BY <2>12, <2>13, Zenon
<1>5. CASE n # m
  <2>1. boxes'[n][b] = boxes[n][b] /\ inHdr'[n] = inHdr[n] /\ socket'[n] = socket[n] /\ hand'[n] = hand[n]
    BY <1>t, <1>1, <1>2, <1>5
  <2>. QED BY <2>1, Zenon DEF MailFor, InTransit
<1>. QED BY <1>4, <1>5

\* Network::Send of a packet that is not lost puts a new message at the end of the
\* queue of its box.
LEMMA SendPosts ==
  ASSUME PostInv, QueueInv, NEW c \in Client, Send(c), sent' # sent
  PROVE  \E mail \in sent' \ sent :
            /\ sent' = sent \cup {mail} /\ got' = got
            /\ Queues' = [Queues EXCEPT ![mail.to][mail.box] = Append(@, mail)]
<1>. USE DEF PostInv
<1>0. Outgoing(c) \in Mail /\ Outgoing(c).id = <<c, step[c]>> /\ stage[c] = "send"
  BY OutgoingTyped DEF Send, Outgoing
<1>1. PICK x \in Mail : x = Outgoing(c)
  BY <1>0
<1>2. /\ sent' = sent \cup {x} /\ got' = got /\ UNCHANGED <<boxes, hand, inHdr>>
      /\ socket' = [socket EXCEPT ![x.to] = Append(@, x)]
  BY <1>1 DEF Send, postVars
<1>3. x \notin sent
  <2>1. x.id[1] = c /\ x.id[2] = step[c] /\ step[c] \in Nat
    BY <1>0, <1>1 DEF PostTypes
  <2>2. ~SentBefore(x)
    BY <1>0, <2>1 DEF SentBefore
  <2>. QED BY <2>2 DEF QueueInv
<1>4. x.to \in Machine /\ x.box \in Box
  BY DEF Mail
<1>t. socket \in [Machine -> Seq(Mail)]
  BY DEF PostTypes
<1>5. ASSUME NEW n \in Machine, NEW b \in Box
      PROVE  MailFor(n, b)' = IF n = x.to /\ b = x.box THEN Append(MailFor(n, b), x) ELSE MailFor(n, b)
  <2>1. CASE n = x.to
    <3>. DEFINE A == ListOf(hand[n]) \o ListOf(inHdr[n])  C == socket[n]  a == boxes[n][b]
    <3>1. A \in Seq(Mail) /\ C \in Seq(Mail) /\ a \in Seq(Mail)
      BY PiecesTyped
    <3>2. socket'[n] = Append(C, x) /\ hand'[n] = hand[n] /\ inHdr'[n] = inHdr[n] /\ boxes'[n][b] = a
      BY <1>t, <1>2, <2>1
    <3>3. InTransit(n) = A \o C /\ InTransit(n)' = A \o Append(C, x)
      BY <3>2, Zenon DEF InTransit
    <3>. HIDE DEF A, C
    <3>. DEFINE r == A \o C
    <3>4. A \o Append(C, x) = Append(r, x) /\ r \in Seq(Mail)
      BY <3>1, ListMoves
    <3>r. InTransit(n) = r
      BY <3>3
    <3>. HIDE DEF r
    <3>5. Addressed(Append(r, x), b) = IF x.box = b THEN Append(Addressed(r, b), x) ELSE Addressed(r, b)
      BY <3>4, AddressedAppend
    <3>6. Addressed(r, b) \in Seq(Mail)
      BY <3>4, AddressedType
    <3>7. MailFor(n, b) = a \o Addressed(r, b) /\ MailFor(n, b)' = a \o Addressed(Append(r, x), b)
      <4>1. MailFor(n, b)' = boxes'[n][b] \o Addressed(InTransit(n)', b)
        BY Zenon DEF MailFor
      <4>2. MailFor(n, b) = boxes[n][b] \o Addressed(InTransit(n), b)
        BY Zenon DEF MailFor
      <4>. QED BY <3>2, <3>3, <3>4, <3>r, <4>1, <4>2, Zenon
    <3>. HIDE DEF a
    <3>8. a \o Append(Addressed(r, b), x) = Append(a \o Addressed(r, b), x)
      BY <3>1, <3>6, ListMoves
    <3>9. CASE x.box = b
      BY <2>1, <3>5, <3>7, <3>8, <3>9, Zenon
    <3>10. CASE x.box # b
      BY <2>1, <3>5, <3>7, <3>10, Zenon
    <3>. QED BY <3>9, <3>10, Zenon
  <2>2. CASE n # x.to
    <3>1. socket'[n] = socket[n] /\ hand'[n] = hand[n] /\ inHdr'[n] = inHdr[n] /\ boxes'[n][b] = boxes[n][b]
      BY <1>t, <1>2, <2>2
    <3>2. MailFor(n, b)' = MailFor(n, b)
      BY <3>1, Zenon DEF MailFor, InTransit
    <3>. QED BY <2>2, <3>2, Zenon
  <2>. QED BY <2>1, <2>2
<1>6. Queues' = [Queues EXCEPT ![x.to][x.box] = Append(@, x)]
  <2>1. Queues' = [n \in Machine |-> [b \in Box |->
                      IF n = x.to /\ b = x.box THEN Append(MailFor(n, b), x) ELSE MailFor(n, b)]]
    BY <1>5 DEF Queues
  <2>2. [Queues EXCEPT ![x.to][x.box] = Append(@, x)] =
          [n \in Machine |-> [b \in Box |->
             IF n = x.to /\ b = x.box THEN Append(MailFor(n, b), x) ELSE MailFor(n, b)]]
    BY <1>4 DEF Queues
  <2>. QED BY <2>1, <2>2, Zenon
<1>. QED BY <1>2, <1>3, <1>6

\* A Receive takes the first message of its box's queue.
LEMMA ReceiveTakes ==
  ASSUME PostInv, QueueInv, NEW c \in Client, ReceiveTake(c)
  PROVE  \E m \in Machine, b \in Box :
            /\ got'[c] # got[c] /\ Queues[m][b] # << >> /\ sent' = sent
            /\ got' = [got EXCEPT ![c] = Append(@, Head(Queues[m][b]))]
            /\ Queues' = [Queues EXCEPT ![m][b] = Tail(@)]
<1>. USE DEF PostInv
<1>. DEFINE m == Host[c]  b == Call(c).box
<1>1. m \in Machine /\ b \in Box
  BY ReceiveTyped, HostTyped DEF ReceiveTake
<1>2. /\ boxes[m][b] # << >> /\ boxes' = [boxes EXCEPT ![m][b] = Tail(@)]
      /\ got' = [got EXCEPT ![c] = Append(@, Head(boxes[m][b]))]
      /\ UNCHANGED <<sent, hand, inHdr, socket>>
  BY DEF ReceiveTake, netVars
<1>. HIDE DEF m, b
<1>t. boxes \in [Machine -> [Box -> Seq(Mail)]] /\ got \in [Client -> Seq(Mail)]
  BY DEF PostTypes, QueueInv
<1>. DEFINE a == boxes[m][b]  r == Addressed(InTransit(m), b)
<1>3. a \in Seq(Mail) /\ r \in Seq(Mail) /\ a # << >>
  BY <1>1, <1>2, PiecesTyped
<1>4. MailFor(m, b) = a \o r
  BY Zenon DEF MailFor
<1>s. \A n \in Machine : InTransit(n)' = InTransit(n)
  BY <1>2, Zenon DEF InTransit
<1>h. Head(a) \in Mail
  BY <1>3
<1>5. ASSUME NEW n \in Machine, NEW e \in Box
      PROVE  MailFor(n, e)' = IF n = m /\ e = b THEN Tail(a) \o r ELSE MailFor(n, e)
  <2>1. MailFor(n, e)' = boxes'[n][e] \o Addressed(InTransit(n), e)
    BY <1>s, Zenon DEF MailFor
  <2>2. boxes'[n][e] = IF n = m /\ e = b THEN Tail(a) ELSE boxes[n][e]
    BY <1>1, <1>2, <1>t
  <2>3. CASE n = m /\ e = b
    BY <2>1, <2>2, <2>3, Zenon
  <2>4. CASE ~(n = m /\ e = b)
    BY <2>1, <2>2, <2>4, Zenon DEF MailFor
  <2>. QED BY <2>3, <2>4
<1>. HIDE DEF a, r
<1>6. Head(a \o r) = Head(a) /\ Tail(a \o r) = Tail(a) \o r /\ a \o r # << >>
  BY <1>3, <1>h, ListMoves
<1>7. Queues[m][b] = a \o r
  BY <1>1, <1>4 DEF Queues
<1>8. Queues' = [Queues EXCEPT ![m][b] = Tail(@)]
  <2>0. Tail(MailFor(m, b)) = Tail(a) \o r
    BY <1>4, <1>6, Zenon
  <2>1. Queues' = [n \in Machine |-> [e \in Box |-> IF n = m /\ e = b THEN Tail(MailFor(m, b)) ELSE MailFor(n, e)]]
    BY <1>5, <2>0 DEF Queues
  <2>2. [Queues EXCEPT ![m][b] = Tail(@)] =
          [n \in Machine |-> [e \in Box |-> IF n = m /\ e = b THEN Tail(MailFor(m, b)) ELSE MailFor(n, e)]]
    BY <1>1 DEF Queues
  <2>. QED BY <2>1, <2>2, Zenon
<1>9. got'[c] # got[c]
  <2>1. got'[c] = Append(got[c], Head(a)) /\ got[c] \in Seq(Mail)
    BY <1>2, <1>t DEF a
  <2>2. Len(Append(got[c], Head(a))) = Len(got[c]) + 1 /\ Len(got[c]) \in Nat
    BY <1>h, <2>1
  <2>. QED BY <2>1, <2>2
<1>10. got' = [got EXCEPT ![c] = Append(@, Head(Queues[m][b]))]
  BY <1>2, <1>6, <1>7, Zenon DEF a
<1>11. Queues[m][b] # << >>
  BY <1>6, <1>7, Zenon
<1>. QED BY <1>1, <1>2, <1>8, <1>9, <1>10, <1>11

\* Every step of the post office is one of MailService, or does not show.
LEMMA PostStepIsMail ==
  PostInv /\ QueueInv /\ [PostNext]_vars => [Service!MSNext]_<<sent, Queues, got>>
<1>. SUFFICES ASSUME PostInv, QueueInv, [PostNext]_vars
              PROVE  Service!MSNext \/ UNCHANGED <<sent, Queues, got>>
  OBVIOUS
<1>1. ASSUME UNCHANGED <<hand, inHdr, socket, boxes>> PROVE Queues' = Queues
  <2>1. \A m \in Machine, b \in Box : MailFor(m, b)' = MailFor(m, b)
    BY <1>1, Zenon DEF MailFor, InTransit
  <2>. QED BY <2>1, QueuesSame
<1>2. ASSUME NEW m \in Machine, CheckPktAvail(m) \/ WorkerReceive(m) PROVE UNCHANGED <<sent, Queues, got>>
  <2>1. UNCHANGED <<sent, got>>
    BY <1>2 DEF CheckPktAvail, WorkerReceive
  <2>. QED BY <1>2, <2>1, ArrivalDoesNotShow
<1>3. ASSUME NEW m \in Machine, WorkerPut(m) PROVE UNCHANGED <<sent, Queues, got>>
  <2>1. UNCHANGED <<sent, got>>
    BY <1>3 DEF WorkerPut
  <2>. QED BY <1>3, <2>1, DeliveryDoesNotShow
<1>4. ASSUME NEW c \in Client, Send(c) PROVE Service!MSNext \/ UNCHANGED <<sent, Queues, got>>
  <2>1. CASE sent' = sent
    <3>1. UNCHANGED <<hand, inHdr, boxes, got>>
      BY <1>4 DEF Send, postVars
    <3>2. CASE socket' = socket
      BY <1>1, <2>1, <3>1, <3>2
    <3>3. CASE socket' # socket
      <4>1. sent' = sent \cup {Outgoing(c)}
        BY <1>4, <3>3 DEF Send
      <4>2. PICK x \in Mail : x = Outgoing(c)
        BY <1>4, OutgoingTyped DEF Send, PostInv
      <4>3. x.id = <<c, step[c]>> /\ stage[c] = "send" /\ step[c] \in Nat
        BY <1>4, <4>2 DEF Send, Outgoing, PostInv, PostTypes
      <4>4. ~SentBefore(x)
        <5>1. x.id[1] = c /\ x.id[2] = step[c]
          BY <4>3
        <5>. QED BY <4>3, <5>1 DEF SentBefore
      <4>. QED BY <2>1, <4>1, <4>2, <4>4 DEF QueueInv
    <3>. QED BY <3>2, <3>3
  <2>2. CASE sent' # sent
    BY <1>4, <2>2, SendPosts DEF Service!MSNext, Service!Post, Queues
  <2>. QED BY <2>1, <2>2
<1>5. ASSUME NEW c \in Client, ReceiveTake(c) PROVE Service!MSNext
  <2>1. PICK m \in Machine, b \in Box :
           /\ got'[c] # got[c] /\ Queues[m][b] # << >> /\ sent' = sent
           /\ got' = [got EXCEPT ![c] = Append(@, Head(Queues[m][b]))]
           /\ Queues' = [Queues EXCEPT ![m][b] = Tail(@)]
    BY <1>5, ReceiveTakes
  <2>2. Service!Take(c, m, b)
    BY <2>1, Zenon DEF Service!Take, Queues
  <2>. QED BY <2>2, Zenon DEF Service!MSNext
<1>6. ASSUME \/ \E m \in Machine : Boot(m) \/ SendDone(m) \/ WorkerAwait(m)
             \/ \E c \in Client : AcquireSend(c) \/ AwaitSent(c) \/ ReleaseSend(c) \/ ReceiveWait(c) \/ Halt(c)
             \/ UNCHANGED vars
      PROVE  UNCHANGED <<sent, Queues, got>>
  <2>1. UNCHANGED <<hand, inHdr, socket, boxes, sent, got>>
    BY <1>6 DEF Boot, SendDone, WorkerAwait, AcquireSend, AwaitSent, ReleaseSend, ReceiveWait, FindsEmpty,
                Waits, Halt, vars, netVars, postVars
  <2>. QED BY <1>1, <2>1
<1>. QED BY <1>2, <1>3, <1>4, <1>5, <1>6, Zenon DEF PostNext, WorkerStep, ClientStep

\* The post office implements MailService: a mailbox is a queue that loses mail
\* only when it is sent, through sendLock, network buffer, postal worker and
\* SynchList, whatever the clients' calls are and however they interleave.
THEOREM PostImplementsMail == PostSpec => MailIsQueued
<1>1. PostInit => Service!MSInit
  <2>. SUFFICES ASSUME PostInit PROVE Service!MSInit
    OBVIOUS
  <2>1. ASSUME NEW m \in Machine, NEW b \in Box PROVE MailFor(m, b) = << >>
    <3>1. hand[m] = NoMail /\ inHdr[m] = NoMail /\ socket[m] = << >> /\ boxes[m][b] = << >>
      BY DEF PostInit
    <3>2. InTransit(m) = << >> /\ << >> \in Seq(Mail)
      BY <3>1 DEF InTransit, ListOf
    <3>3. Addressed(InTransit(m), b) = << >>
      BY <3>2, AddressedType
    <3>. QED BY <3>1, <3>3 DEF MailFor
  <2>. QED BY <2>1 DEF PostInit, Service!MSInit
<1>2. PostInv /\ QueueInv /\ [PostNext]_vars
        => [Service!MSNext]_<<sent, [m \in Machine |-> [b \in Box |-> MailFor(m, b)]], got>>
  BY PostStepIsMail DEF Queues
<1>3. PostSpec => []QueueInv
  BY PostInvariant, QueueStart, QueueStep, PTL DEF PostSpec
<1>. QED BY <1>1, <1>2, <1>3, PostInvariant, PTL DEF PostSpec, MailIsQueued, Service!MSSpec
=============================================================================
