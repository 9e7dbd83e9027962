------------------------------- MODULE Synch --------------------------------
(***************************************************************************)
(* threads/synch.cc on top of the thread kernel: semaphores, locks and     *)
(* condition variables, called by any mix of threads, with the timer       *)
(* preempting wherever interrupts are on.                                  *)
(*                                                                         *)
(* A call is a sequence of steps of the calling thread, one per kernel     *)
(* operation it performs (SetLevel, Sleep, ReadyToRun).  What Kernel asks  *)
(* of its callers is no guard here: the steps are Kernel's Block,          *)
(* MakeReady and RunHandler, and that a thread sleeps with interrupts off  *)
(* and that only sleepers are woken is to be shown: SynchSpec implements   *)
(* KernelSpec.  pc[t] is where t is in synch.cc; "client" means outside.   *)
(*                                                                         *)
(* Clients keep the contract the ASSERTs state: they call Wait, Signal and *)
(* Broadcast holding the condition's lock, do not acquire a lock they hold *)
(* already, and do not finish while holding one.                           *)
(***************************************************************************)
EXTENDS Kernel, FiniteSets

CONSTANTS
    Semaphore,
    Lock,
    Condition,
    queueLock,     \* Condition::queueLock, the private lock of each condition
    conditionLock, \* the lock the clients of a condition pass to it
    InitialValue,  \* the initialValue of every semaphore
    MaxValue       \* bound on the value of a semaphore

ASSUME QueueLockAssumption ==
    /\ queueLock \in [Condition -> Lock]
    /\ \A c, d \in Condition : queueLock[c] = queueLock[d] => c = d
ASSUME ConditionLockAssumption ==
    /\ conditionLock \in [Condition -> Lock]
    /\ \A c, d \in Condition : conditionLock[c] # queueLock[d]
ASSUME ObjectAssumption == NULL \notin Semaphore \cup Lock \cup Condition
ASSUME ValueAssumption == InitialValue \in Nat /\ MaxValue \in Nat

\* The locks a client may name: not the private ones.
ClientLock == Lock \ {queueLock[c] : c \in Condition}

VARIABLES
    value, semQueue,              \* Semaphore::value, Semaphore::queue
    free, activeThread, lockQueue,\* Lock::free, Lock::activeThread, Lock::queue
    condQueue,                    \* Condition::queue
    pc,                           \* where each thread is in synch.cc
    object,                       \* the object a thread's call is about
    then,                         \* where it goes on after SetLevel(oldLevel)
    oldLevel,                     \* the local oldLevel of its outermost call
    hand,                         \* Signal's and Broadcast's local "thread"
    all,                          \* the call is a Broadcast, not a Signal
    held                          \* history: the locks whose Acquire returned

semVars    == <<value, semQueue>>
lockVars   == <<free, activeThread, lockQueue, held>>
callVars   == <<pc, object, then, oldLevel, hand, all>>
synchVars  == <<semVars, lockVars, condQueue, callVars>>
vars       == <<kernelVars, synchVars>>

Object == Semaphore \cup Lock \cup Condition

SynchInit ==
    /\ KernelInit
    /\ value = [s \in Semaphore |-> InitialValue]
    /\ semQueue = [s \in Semaphore |-> << >>]
    /\ free = [l \in Lock |-> TRUE]
    /\ activeThread = [l \in Lock |-> NULL]
    /\ lockQueue = [l \in Lock |-> << >>]
    /\ condQueue = [c \in Condition |-> << >>]
    /\ pc = [t \in Thread |-> "client"]
    /\ object = [t \in Thread |-> NULL]
    /\ then = [t \in Thread |-> "client"]
    /\ oldLevel = [t \in Thread |-> "IntOn"]
    /\ hand = [t \in Thread |-> NULL]
    /\ all = [t \in Thread |-> FALSE]
    /\ held = [t \in Thread |-> {}]

me == currentThread

\* The running thread stands at point p of a call about object o.
At(p, o) == Executing /\ pc[me] = p /\ object[me] = o

Goto(p) == pc' = [pc EXCEPT ![me] = p]

isHeldByCurrentThread(l) == activeThread[l] = me

-----------------------------------------------------------------------------
(* Pieces the routines share                                               *)

\* The thread List::Remove() returns, and what it leaves.
First(queue)  == IF queue = << >> THEN NULL ELSE Head(queue)
Rest(queue)   == IF queue = << >> THEN << >> ELSE Tail(queue)

\* thread = queue->Remove(); if (thread != NULL) scheduler->ReadyToRun(thread).
WakeFirst(queue) ==
    \/ queue = << >> /\ UNCHANGED kernelVars
    \/ queue # << >> /\ MakeReady(Head(queue))

\* oldLevel = interrupt->SetLevel(IntOff), on to point p of a routine that will
\* go on at q once the level is restored.
Enter(p, o, q) ==
    /\ SetLevel("IntOff")
    /\ Goto(p)
    /\ object' = [object EXCEPT ![me] = o]
    /\ then' = [then EXCEPT ![me] = q]
    /\ oldLevel' = [oldLevel EXCEPT ![me] = level]

\* Leave the routine if p is "client": its locals are gone.
ReturnTo(p) ==
    /\ Goto(p)
    /\ object' = [object EXCEPT ![me] = IF p = "client" THEN NULL ELSE @]
    /\ all' = [all EXCEPT ![me] = IF p = "client" THEN FALSE ELSE @]

\* interrupt->SetLevel(oldLevel).
Restore ==
    /\ pc[me] = "restore"
    /\ SetLevel(oldLevel[me])
    /\ ReturnTo(then[me])
    /\ then' = [then EXCEPT ![me] = "client"]
    /\ oldLevel' = [oldLevel EXCEPT ![me] = "IntOn"]
    /\ UNCHANGED <<semVars, lockVars, condQueue, hand>>

-----------------------------------------------------------------------------
(* Semaphore                                                               *)

CallP(s) ==
    /\ pc[me] = "client"
    /\ Enter("P", s, "client")
    /\ UNCHANGED <<semVars, lockVars, condQueue, hand, all>>

CallV(s) ==
    /\ pc[me] = "client"
    /\ value[s] < MaxValue
    /\ Enter("V", s, "client")
    /\ UNCHANGED <<semVars, lockVars, condQueue, hand, all>>

\* Semaphore::P, one turn of the loop.
PSleep(s) ==
    /\ At("P", s)
    /\ value[s] = 0
    /\ semQueue' = [semQueue EXCEPT ![s] = Append(@, me)]
    /\ Block
    /\ UNCHANGED <<value, lockVars, condQueue, callVars>>

\* Semaphore::P behind the loop.
PTake(s) ==
    /\ At("P", s)
    /\ value[s] # 0
    /\ value' = [value EXCEPT ![s] = @ - 1]
    /\ Goto("restore")
    /\ UNCHANGED <<kernelVars, semQueue, lockVars, condQueue, object, then, oldLevel, hand, all>>

\* Mutant of VBody: the value grows but nobody is woken.
VBodyWakesNobody(s) ==
    /\ At("V", s)
    /\ value' = [value EXCEPT ![s] = @ + 1]
    /\ Goto("restore")
    /\ UNCHANGED <<kernelVars, semQueue, lockVars, condQueue, object, then, oldLevel, hand, all>>

\* Semaphore::V between its two SetLevels.
VBody(s) ==
    /\ At("V", s)
    /\ value' = [value EXCEPT ![s] = @ + 1]
    /\ semQueue' = [semQueue EXCEPT ![s] = Rest(@)]
    /\ WakeFirst(semQueue[s])
    /\ Goto("restore")
    /\ UNCHANGED <<lockVars, condQueue, object, then, oldLevel, hand, all>>

\* A device's interrupt handler calls V(), with interrupts off throughout
\* (SynchDisk::RequestDone, the console's and the post office's handlers).
HandlerV(s) ==
    /\ value[s] < MaxValue
    /\ value' = [value EXCEPT ![s] = @ + 1]
    /\ semQueue' = [semQueue EXCEPT ![s] = Rest(@)]
    /\ RunHandler(IF semQueue[s] = << >> THEN {} ELSE {Head(semQueue[s])})
    /\ UNCHANGED <<lockVars, condQueue, callVars>>

-----------------------------------------------------------------------------
(* Lock                                                                    *)

\* The lock whose Acquire() thread t is in.
WantedLock(t) ==
    CASE pc[t] = "Acquire"                     -> object[t]
      [] pc[t] \in {"WaitLock", "SignalLock"}  -> queueLock[object[t]]
      [] pc[t] = "WaitReacquire"               -> conditionLock[object[t]]
      [] OTHER                                 -> NULL

CallAcquire(l) ==
    /\ pc[me] = "client"
    /\ ~isHeldByCurrentThread(l)
    /\ Enter("Acquire", l, "client")
    /\ UNCHANGED <<semVars, lockVars, condQueue, hand, all>>

CallRelease(l) ==
    /\ pc[me] = "client"
    /\ Enter("Release", l, "client")
    /\ UNCHANGED <<semVars, lockVars, condQueue, hand, all>>

\* Lock::Acquire, one turn of the loop.
AcquireSleep(l) ==
    /\ Executing
    /\ WantedLock(me) = l
    /\ ~free[l]
    /\ lockQueue' = [lockQueue EXCEPT ![l] = Append(@, me)]
    /\ Block
    /\ UNCHANGED <<semVars, free, activeThread, held, condQueue, callVars>>

\* Mutant of AcquireTake: Acquire() tests "free" with "if", not with "while".
AcquireTakeUnchecked(l) ==
    /\ Executing
    /\ WantedLock(me) = l
    /\ pc[me] # "WaitLock"
    /\ free' = [free EXCEPT ![l] = FALSE]
    /\ activeThread' = [activeThread EXCEPT ![l] = me]
    /\ held' = [held EXCEPT ![me] = @ \cup {l}]
    /\ Goto("restore")
    /\ UNCHANGED <<kernelVars, semVars, lockQueue, condQueue, object, then, oldLevel, hand, all>>

\* Lock::Acquire behind the loop.
AcquireTake(l) ==
    /\ Executing
    /\ WantedLock(me) = l
    /\ pc[me] # "WaitLock"
    /\ free[l]
    /\ free' = [free EXCEPT ![l] = FALSE]
    /\ activeThread' = [activeThread EXCEPT ![l] = me]
    /\ held' = [held EXCEPT ![me] = @ \cup {l}]
    /\ Goto("restore")
    /\ UNCHANGED <<kernelVars, semVars, lockQueue, condQueue, object, then, oldLevel, hand, all>>

\* Mutant of ReleaseBody: the lock is freed but nobody is woken.
ReleaseBodyWakesNobody(l) ==
    /\ IF isHeldByCurrentThread(l)
       THEN /\ free' = [free EXCEPT ![l] = TRUE]
            /\ activeThread' = [activeThread EXCEPT ![l] = NULL]
            /\ held' = [held EXCEPT ![me] = @ \ {l}]
       ELSE UNCHANGED <<free, activeThread, held>>
    /\ UNCHANGED <<kernelVars, lockQueue>>

\* Lock::Release between its two SetLevels.
ReleaseBody(l) ==
    \/ /\ isHeldByCurrentThread(l)
       /\ free' = [free EXCEPT ![l] = TRUE]
       /\ activeThread' = [activeThread EXCEPT ![l] = NULL]
       /\ held' = [held EXCEPT ![me] = @ \ {l}]
       /\ lockQueue' = [lockQueue EXCEPT ![l] = Rest(@)]
       /\ WakeFirst(lockQueue[l])
    \/ /\ ~isHeldByCurrentThread(l)
       /\ UNCHANGED <<kernelVars, lockVars>>

Release(l) ==
    /\ At("Release", l)
    /\ ReleaseBody(l)
    /\ Goto("restore")
    /\ UNCHANGED <<semVars, condQueue, object, then, oldLevel, hand, all>>

-----------------------------------------------------------------------------
(* Condition                                                               *)

\* Mutant of CallWait: interrupts are not disabled.
CallWaitEnabled(c) ==
    /\ pc[me] = "client"
    /\ isHeldByCurrentThread(conditionLock[c])
    /\ SetLevel(level)
    /\ Goto("Wait")
    /\ object' = [object EXCEPT ![me] = c]
    /\ then' = [then EXCEPT ![me] = "client"]
    /\ oldLevel' = [oldLevel EXCEPT ![me] = level]
    /\ UNCHANGED <<semVars, lockVars, condQueue, hand, all>>

\* Condition::Wait up to its ASSERT.
CallWait(c) ==
    /\ pc[me] = "client"
    /\ isHeldByCurrentThread(conditionLock[c])
    /\ Enter("Wait", c, "client")
    /\ UNCHANGED <<semVars, lockVars, condQueue, hand, all>>

\* conditionLock->Release().
WaitRelease(c) ==
    /\ At("Wait", c)
    /\ ReleaseBody(conditionLock[c])
    /\ Goto("WaitLock")
    /\ UNCHANGED <<semVars, condQueue, object, then, oldLevel, hand, all>>

\* queueLock->Acquire() finding it free, queue->Append, queueLock->Release():
\* interrupts are off, so the lock is free again when the step ends.
WaitEnqueue(c) ==
    /\ At("WaitLock", c)
    /\ free[queueLock[c]]
    /\ condQueue' = [condQueue EXCEPT ![c] = Append(@, me)]
    /\ activeThread' = [activeThread EXCEPT ![queueLock[c]] = NULL]
    /\ lockQueue' = [lockQueue EXCEPT ![queueLock[c]] = Rest(@)]
    /\ WakeFirst(lockQueue[queueLock[c]])
    /\ Goto("WaitSleep")
    /\ UNCHANGED <<semVars, free, held, object, then, oldLevel, hand, all>>

\* currentThread->Sleep(); when it returns, conditionLock->Acquire().
WaitSleep(c) ==
    /\ At("WaitSleep", c)
    /\ Block
    /\ Goto("WaitReacquire")
    /\ UNCHANGED <<semVars, lockVars, condQueue, object, then, oldLevel, hand, all>>

\* Mutant of CallSignal: the lock need not be held.
CallSignalUnlocked(c, toAll) ==
    /\ pc[me] = "client"
    /\ Enter("SignalLock", c, "SignalRemove")
    /\ all' = [all EXCEPT ![me] = toAll]
    /\ UNCHANGED <<semVars, lockVars, condQueue, hand>>

\* Condition::Signal and Condition::Broadcast up to the first
\* queueLock->Acquire(), which disables interrupts and restores them.
CallSignal(c, toAll) ==
    /\ pc[me] = "client"
    /\ isHeldByCurrentThread(conditionLock[c])
    /\ Enter("SignalLock", c, "SignalRemove")
    /\ all' = [all EXCEPT ![me] = toAll]
    /\ UNCHANGED <<semVars, lockVars, condQueue, hand>>

\* Mutant of SignalRemove: the call returns before the ReadyToRun.
SignalRemoveOnly(c) ==
    /\ pc[me] = "SignalRemove" /\ object[me] = c
    /\ hand' = [hand EXCEPT ![me] = First(condQueue[c])]
    /\ condQueue' = [condQueue EXCEPT ![c] = Rest(@)]
    /\ Enter("SignalUnlock", c, "client")
    /\ UNCHANGED <<semVars, lockVars, all>>

\* thread = queue->Remove(), at the caller's level, and into
\* queueLock->Release().
SignalRemove(c) ==
    /\ pc[me] = "SignalRemove" /\ object[me] = c
    /\ hand' = [hand EXCEPT ![me] = First(condQueue[c])]
    /\ condQueue' = [condQueue EXCEPT ![c] = Rest(@)]
    /\ Enter("SignalUnlock", c, "SignalReady")
    /\ UNCHANGED <<semVars, lockVars, all>>

SignalUnlock(c) ==
    /\ At("SignalUnlock", c)
    /\ ReleaseBody(queueLock[c])
    /\ Goto("restore")
    /\ UNCHANGED <<semVars, condQueue, object, then, oldLevel, hand, all>>

\* scheduler->ReadyToRun(thread), at the caller's level.
SignalReady(c) ==
    /\ At("SignalReady", c)
    /\ hand[me] # NULL
    /\ MakeReady(hand[me])
    /\ hand' = [hand EXCEPT ![me] = NULL]
    /\ ReturnTo(IF all[me] THEN "BroadcastNext" ELSE "client")
    /\ UNCHANGED <<semVars, lockVars, condQueue, then, oldLevel>>

\* Nobody was waiting (any more): Signal or Broadcast returns.
SignalReturn(c) ==
    /\ At("SignalReady", c)
    /\ hand[me] = NULL
    /\ ReturnTo("client")
    /\ UNCHANGED <<kernelVars, semVars, lockVars, condQueue, then, oldLevel, hand>>

\* Broadcast's loop: queueLock->Acquire() again.
BroadcastNext(c) ==
    /\ pc[me] = "BroadcastNext" /\ object[me] = c
    /\ Enter("SignalLock", c, "SignalRemove")
    /\ UNCHANGED <<semVars, lockVars, condQueue, hand, all>>

-----------------------------------------------------------------------------
(* Everything else a thread or the machine does                            *)

\* A timer interrupt preempts wherever interrupts are on; a client may also
\* call Yield with interrupts off.
ThreadYield == (level = "IntOn" \/ pc[me] = "client") /\ Yield /\ UNCHANGED synchVars

ClientStep ==
    /\ pc[me] = "client"
    /\ \/ \E t \in Thread : Create(t)
       \/ \E t \in Thread : Fork(t)
       \/ \E now \in Level : SetLevel(now)
       \/ Schedule
       \/ held[me] = {} /\ Finish
       \/ Halt
    /\ UNCHANGED synchVars

\* A handler with nothing to announce (a poll that found no input).
HandlerNoop == RunHandler({}) /\ UNCHANGED synchVars

Idle == (IdleDispatch \/ IdleHalt) /\ UNCHANGED synchVars

Stopped == Terminated /\ UNCHANGED synchVars

-----------------------------------------------------------------------------
\* A step of a thread inside a routine.
RoutineStep ==
    \/ Restore
    \/ \E s \in Semaphore : PSleep(s) \/ PTake(s) \/ VBody(s)
    \/ \E l \in Lock : AcquireSleep(l) \/ AcquireTake(l) \/ Release(l)
    \/ \E c \in Condition : \/ WaitRelease(c) \/ WaitEnqueue(c) \/ WaitSleep(c)
                            \/ SignalRemove(c) \/ SignalUnlock(c) \/ SignalReady(c)
                            \/ SignalReturn(c) \/ BroadcastNext(c)

\* A client calls a routine.
CallStep ==
    \/ \E s \in Semaphore : CallP(s) \/ CallV(s)
    \/ \E l \in ClientLock : CallAcquire(l) \/ CallRelease(l)
    \/ \E c \in Condition : CallWait(c) \/ \E toAll \in BOOLEAN : CallSignal(c, toAll)

SynchNext ==
    \/ RoutineStep
    \/ CallStep
    \/ ClientStep
    \/ ThreadYield
    \/ \E s \in Semaphore : HandlerV(s)
    \/ HandlerNoop
    \/ Idle
    \/ Stopped

SynchSpec == SynchInit /\ [][SynchNext]_vars

\* The fairness of Kernel, for this module's steps.  A thread that gets the CPU
\* executes at least up to its next tick, however often it is preempted, so a
\* thread inside a routine moves on if it runs again and again; and a client
\* that disabled interrupts enables them, whatever it calls in between.
SynchFairness ==
    /\ SF_vars(level = "IntOn" /\ ThreadYield)
    /\ \A t \in Thread : SF_vars(currentThread = t /\ RoutineStep)
    /\ SF_vars(pc[me] = "client" /\ level = "IntOff" /\ SetLevel("IntOn") /\ UNCHANGED synchVars)
    /\ WF_vars(Idle)

FairSynchSpec == SynchSpec /\ SynchFairness

-----------------------------------------------------------------------------
(* Properties                                                              *)

Point == {"client", "restore", "P", "V", "Acquire", "Release",
          "Wait", "WaitLock", "WaitSleep", "WaitReacquire",
          "SignalLock", "SignalRemove", "SignalUnlock", "SignalReady", "BroadcastNext"}

\* Every variable has its type; in particular "semaphore value, always >= 0"
\* (synch.h).
SynchTypeOK ==
    /\ KernelTypeOK
    /\ value \in [Semaphore -> Nat]
    /\ semQueue \in [Semaphore -> Seq(Thread)]
    /\ free \in [Lock -> BOOLEAN]
    /\ activeThread \in [Lock -> Thread \cup {NULL}]
    /\ lockQueue \in [Lock -> Seq(Thread)]
    /\ condQueue \in [Condition -> Seq(Thread)]
    /\ pc \in [Thread -> Point]
    /\ object \in [Thread -> Object \cup {NULL}]
    /\ then \in [Thread -> {"client", "SignalRemove", "SignalReady"}]
    /\ oldLevel \in [Thread -> Level]
    /\ hand \in [Thread -> Thread \cup {NULL}]
    /\ all \in [Thread -> BOOLEAN]
    /\ held \in [Thread -> SUBSET Lock]

\* A lock has at most one holder, and "free" and "activeThread" say which:
\* whoever returned from Acquire, and not yet from Release, is the one Release
\* and isHeldByCurrentThread recognise.
MutualExclusion ==
    \A l \in Lock :
        /\ free[l] <=> activeThread[l] = NULL
        /\ \A t \in Thread : l \in held[t] <=> activeThread[l] = t

\* The places where a sleeping thread can be found again: the wait queues and
\* the hands of threads inside Signal or Broadcast.
Positions(queue, t) == {i \in DOMAIN queue : queue[i] = t}

Places(t) ==
    (UNION {{<<s, i>> : i \in Positions(semQueue[s], t)} : s \in Semaphore})
      \cup (UNION {{<<l, i>> : i \in Positions(lockQueue[l], t)} : l \in Lock})
      \cup (UNION {{<<c, i>> : i \in Positions(condQueue[c], t)} : c \in Condition})
      \cup {<<u, 0>> : u \in {u \in Thread : hand[u] = t}}

\* No thread is lost, and none is woken twice: a thread that sleeps, or that
\* Wait has queued and is about to put to sleep, is to be found in exactly one
\* place, once; a thread that does not sleep is to be found in none.
NoLostThread ==
    \A t \in Thread :
        IF t \in waiting \/ pc[t] = "WaitSleep"
        THEN \E p \in Places(t) : Places(t) = {p}
        ELSE Places(t) = {}

\* A V() is not wasted on a semaphore with sleepers: for each unit of its value
\* there is a thread inside P() and awake to take it.
NoMissedV ==
    \A s \in Semaphore :
        semQueue[s] # << >> =>
            value[s] <= Cardinality({t \in Thread : pc[t] = "P" /\ object[t] = s /\ t \notin waiting})

\* Neither is a Release(): a free lock that threads sleep on has a thread awake
\* inside Acquire().
NoMissedRelease ==
    \A l \in Lock :
        free[l] /\ lockQueue[l] # << >> =>
            \E t \in Thread : WantedLock(t) = l /\ t \notin waiting

\* "releasing the lock and going to sleep are *atomic* in Wait()" (synch.h):
\* from the release of the lock to the Sleep no other thread runs and no handler
\* either, which needs Signal never to be caught holding the queue lock.
WaitIsAtomic ==
    \A t \in Thread :
        pc[t] \in {"Wait", "WaitLock", "WaitSleep"} =>
            /\ Executing => t = currentThread
            /\ level = "IntOff"
            /\ t \notin waiting
            /\ free[queueLock[object[t]]]

\* A Broadcast that returns leaves nobody waiting, although threads run between
\* its steps.
BroadcastWakesAll ==
    \A t \in Thread :
        pc[t] = "SignalReady" /\ all[t] /\ hand[t] = NULL => condQueue[object[t]] = << >>

\* Semaphores, locks and conditions lose no wake-up and no sleeper, wherever
\* threads are preempted in P, V, Acquire, Release, Wait, Signal and Broadcast.
NoWakeUpLost == NoLostThread /\ NoMissedV /\ NoMissedRelease /\ BroadcastWakesAll

\* A free lock that threads sleep on is taken, unless the machine stops.
FreeLockIsTaken ==
    \A l \in Lock : free[l] /\ lockQueue[l] # << >> ~> ~free[l] \/ mode = "Halted"

\* A thread Signal took off the queue becomes ready.
SignalledThreadIsReadied ==
    \A t \in Thread : hand[t] # NULL ~> hand[t] = NULL \/ mode = "Halted"
=============================================================================
