----------------------------- MODULE SynchDisk ------------------------------
(***************************************************************************)
(* filesys/synchdisk.cc over machine/disk.cc: threads share one disk,      *)
(* which takes one request at a time and answers with an interrupt.  Disk  *)
(* transfers the data when it is asked; only the interrupt is delayed.     *)
(* Lock and Semaphore are the ones Synch models, here one step per         *)
(* operation: a thread that sleeps in Acquire or P is one whose step is    *)
(* not enabled.                                                            *)
(***************************************************************************)
EXTENDS Naturals

CONSTANTS Thread, Sector, Value, Zero, NoThread

ASSUME NoThreadAssumption == NoThread \notin Thread

VARIABLES
    sectors,    \* the UNIX file behind the disk
    active,     \* Disk::active: a request is being served
    irq,        \* DiskDone interrupts that Schedule has queued
    lock,       \* SynchDisk::lock's owner
    semaphore,  \* SynchDisk::semaphore's value
    pc, req,    \* where each caller is, and the request it makes
    data        \* each caller's buffer

diskVars == <<sectors, active, irq, lock, semaphore, pc, req, data>>

Request == [op : {"read", "write"}, sector : Sector]
NoRequest == [op |-> "none"]

\* Mutant of DiskInit: a semaphore that starts at 1, as for a lock.
DiskInitOpen ==
    /\ sectors = [s \in Sector |-> Zero]
    /\ active = FALSE /\ irq = 0
    /\ lock = NoThread /\ semaphore = 1
    /\ pc = [t \in Thread |-> "idle"]
    /\ req = [t \in Thread |-> NoRequest]
    /\ data = [t \in Thread |-> Zero]

DiskInit ==
    /\ sectors = [s \in Sector |-> Zero]
    /\ active = FALSE /\ irq = 0
    /\ lock = NoThread /\ semaphore = 0
    /\ pc = [t \in Thread |-> "idle"]
    /\ req = [t \in Thread |-> NoRequest]
    /\ data = [t \in Thread |-> Zero]

\* A file system operation calls ReadSector or WriteSector.
CallSector(t) ==
    /\ pc[t] = "idle"
    /\ pc' = [pc EXCEPT ![t] = "acquire"]
    /\ \E r \in Request, v \in Value :
          /\ req' = [req EXCEPT ![t] = r]
          /\ data' = IF r.op = "write" THEN [data EXCEPT ![t] = v] ELSE data
    /\ UNCHANGED <<sectors, active, irq, lock, semaphore>>

\* Mutant of Acquire: the lock is not taken.
AcquireNothing(t) ==
    /\ pc[t] = "acquire"
    /\ pc' = [pc EXCEPT ![t] = "request"]
    /\ UNCHANGED <<sectors, active, irq, lock, semaphore, req, data>>

Acquire(t) ==
    /\ pc[t] = "acquire" /\ lock = NoThread
    /\ lock' = t
    /\ pc' = [pc EXCEPT ![t] = "request"]
    /\ UNCHANGED <<sectors, active, irq, semaphore, req, data>>

\* The Lseek and the Read or WriteFile of a request.
Transfer(t) ==
    IF req[t].op = "read"
    THEN data' = [data EXCEPT ![t] = sectors[req[t].sector]] /\ sectors' = sectors
    ELSE sectors' = [sectors EXCEPT ![req[t].sector] = data[t]] /\ data' = data

\* Disk::ReadRequest and WriteRequest.
RequestSector(t) ==
    /\ pc[t] = "request"
    /\ Transfer(t)
    /\ active' = TRUE
    /\ irq' = irq + 1
    /\ pc' = [pc EXCEPT ![t] = "wait"]
    /\ UNCHANGED <<lock, semaphore, req>>

\* Mutant of HandleInterrupt: the semaphore is not incremented.
HandleInterruptSilently ==
    /\ irq > 0
    /\ irq' = irq - 1
    /\ active' = FALSE
    /\ UNCHANGED <<sectors, lock, semaphore, pc, req, data>>

RequestDone == semaphore' = semaphore + 1

\* Disk::HandleInterrupt, which calls SynchDisk's handler.
HandleInterrupt ==
    /\ irq > 0
    /\ irq' = irq - 1
    /\ active' = FALSE
    /\ RequestDone
    /\ UNCHANGED <<sectors, lock, pc, req, data>>

AwaitInterrupt(t) ==
    /\ pc[t] = "wait" /\ semaphore > 0
    /\ semaphore' = semaphore - 1
    /\ pc' = [pc EXCEPT ![t] = "release"]
    /\ UNCHANGED <<sectors, active, irq, lock, req, data>>

Release(t) ==
    /\ pc[t] = "release"
    /\ lock' = NoThread
    /\ pc' = [pc EXCEPT ![t] = "idle"]
    /\ req' = [req EXCEPT ![t] = NoRequest]
    /\ UNCHANGED <<sectors, active, irq, semaphore, data>>

CallerStep(t) ==
    CallSector(t) \/ Acquire(t) \/ RequestSector(t) \/ AwaitInterrupt(t) \/ Release(t)

DiskNext == HandleInterrupt \/ \E t \in Thread : CallerStep(t)

DiskSpec == DiskInit /\ [][DiskNext]_diskVars

\* The clock goes on, so an interrupt that is queued is delivered, and a thread
\* that can run runs again: the ready list is a queue (Kernel).
DiskFairness ==
    /\ WF_diskVars(HandleInterrupt)
    /\ \A t \in Thread : WF_diskVars(RequestSector(t) \/ AwaitInterrupt(t) \/ Release(t))

-----------------------------------------------------------------------------
(* Properties                                                              *)

DiskTypeOK ==
    /\ sectors \in [Sector -> Value \cup {Zero}]
    /\ active \in BOOLEAN /\ irq \in 0..1 /\ semaphore \in 0..1
    /\ lock \in Thread \cup {NoThread}
    /\ pc \in [Thread -> {"idle", "acquire", "request", "wait", "release"}]
    /\ req \in [Thread -> Request \cup {NoRequest}]
    /\ data \in [Thread -> Value \cup {Zero}]

\* The ASSERT(!active) of ReadRequest and WriteRequest holds, and "return only
\* after the data has been read": whoever is about to ask finds the disk idle,
\* with no interrupt or V of an earlier request left over that would end its own
\* P too early; and whoever has passed P has had the interrupt of its own request.
RequestFindsDiskIdle ==
    \A t \in Thread : pc[t] \in {"request", "release"} => ~active /\ irq = 0 /\ semaphore = 0

\* The lock covers a request from before it is made until its P has returned.
LockCoversRequest ==
    \A t \in Thread : pc[t] \in {"request", "wait", "release"} <=> lock = t

\* While a thread waits, exactly one of the interrupt and its V is on its way to
\* it, and the disk is active until the interrupt comes; otherwise none is.
OneAnswerPerRequest ==
    /\ \A t \in Thread : pc[t] = "wait" => irq + semaphore = 1 /\ (active <=> irq = 1)
    /\ (\A t \in Thread : pc[t] # "wait") => ~active /\ irq = 0 /\ semaphore = 0

\* A caller that has not reached the disk yet still has its request.
RequestKept ==
    \A t \in Thread : /\ pc[t] = "idle" => req[t] = NoRequest
                      /\ pc[t] \in {"acquire", "request"} => req[t] \in Request

\* The inductive invariant of DeviceProofs.
DiskInv == DiskTypeOK /\ LockCoversRequest /\ OneAnswerPerRequest /\ RequestKept

\* The callers see AtomicDisk.  Whoever waits while the disk is active is the one
\* it serves, and is done from the interrupt on: that the disk is idle when the
\* next one asks, that nobody else waits when it interrupts and that nobody has
\* stopped waiting before is what lock, semaphore and interrupt are for.
CallOf(t) ==
    CASE pc[t] = "wait" /\ active -> [op |-> "served"]
      [] (pc[t] = "wait" /\ ~active) \/ pc[t] = "release" -> [op |-> "done"]
      [] OTHER -> req[t]
Atomic == INSTANCE AtomicDisk WITH
    data   <- sectors,
    busy   <- active,
    call   <- [t \in Thread |-> CallOf(t)],
    buffer <- data

DiskIsAtomic == Atomic!ADSpec

\* A request that was made returns: no interrupt or V is lost.
RequestsReturn == \A t \in Thread : pc[t] = "request" ~> pc[t] = "idle"
=============================================================================
