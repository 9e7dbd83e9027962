---------------------------- MODULE SynchProofs -----------------------------
(***************************************************************************)
(* The synchronization routines use the thread kernel as it is meant to be *)
(* used (SynchSpec implements KernelSpec), a lock has one holder, no       *)
(* wake-up is lost and Condition::Wait is atomic, for any sets of threads, *)
(* semaphores, locks and conditions.                                       *)
(***************************************************************************)
EXTENDS Synch, KernelProofs, FiniteSetTheorems

USE DEF me

\* The types of this module's own variables.
CallTypeOK ==
    /\ value \in [Semaphore -> Nat]
    /\ semQueue \in [Semaphore -> Seq(Thread)]
    /\ free \in [Lock -> BOOLEAN]
    /\ activeThread \in [Lock -> Thread \cup {NULL}]
    /\ lockQueue \in [Lock -> Seq(Thread)]
    /\ condQueue \in [Condition -> Seq(Thread)]
    /\ pc \in [Thread -> Point]
    /\ object \in [Thread -> Object \cup {NULL}]
    /\ then \in [Thread -> {"client", "SignalRemove", "SignalReady"}]
    /\ oldLevel \in [Thread -> Level]
    /\ hand \in [Thread -> Thread \cup {NULL}]
    /\ all \in [Thread -> BOOLEAN]
    /\ held \in [Thread -> SUBSET Lock]

\* The kernel's invariant, the types, and mutual exclusion.
SynchInv == KernelInv /\ CallTypeOK /\ MutualExclusion

\* List::Remove on a wait queue leaves a wait queue, and yields a thread or NULL.
LEMMA RestLemma ==
    ASSUME NEW queue \in Seq(Thread)
    PROVE  Rest(queue) \in Seq(Thread) /\ First(queue) \in Thread \cup {NULL}
BY DEF Rest, First

\* Lock::Release keeps the lock variables well-typed and one holder per lock:
\* the lock loses its holder exactly when its holder releases it.
LEMMA ReleaseLemma ==
    ASSUME NEW l \in Lock, KernelTypeOK, CallTypeOK, MutualExclusion, ReleaseBody(l)
    PROVE  /\ free' \in [Lock -> BOOLEAN]
           /\ activeThread' \in [Lock -> Thread \cup {NULL}]
           /\ lockQueue' \in [Lock -> Seq(Thread)]
           /\ held' \in [Thread -> SUBSET Lock]
           /\ MutualExclusion'
<1>1. CASE isHeldByCurrentThread(l)
  <2>1. /\ free' = [free EXCEPT ![l] = TRUE]
        /\ activeThread' = [activeThread EXCEPT ![l] = NULL]
        /\ held' = [held EXCEPT ![currentThread] = @ \ {l}]
        /\ lockQueue' = [lockQueue EXCEPT ![l] = Rest(@)]
    BY <1>1 DEF ReleaseBody
  <2>2. /\ free' \in [Lock -> BOOLEAN]
        /\ activeThread' \in [Lock -> Thread \cup {NULL}]
        /\ held' \in [Thread -> SUBSET Lock]
    BY <2>1 DEF CallTypeOK, KernelTypeOK
  <2>3. lockQueue' \in [Lock -> Seq(Thread)]
    BY <2>1, RestLemma DEF CallTypeOK
  <2>4. \A m \in Lock : m # l => free'[m] = free[m] /\ activeThread'[m] = activeThread[m]
    BY <2>1 DEF CallTypeOK
  <2>5. free'[l] /\ activeThread'[l] = NULL
    BY <2>1 DEF CallTypeOK
  <2>6. \A t \in Thread : \A m \in Lock : m \in held'[t] <=> m \in held[t] /\ (t = currentThread => m # l)
    BY <2>1 DEF CallTypeOK
  <2>7. activeThread[l] = currentThread /\ currentThread \in Thread
    BY <1>1 DEF isHeldByCurrentThread, KernelTypeOK
  <2>8. MutualExclusion'
    BY <2>4, <2>5, <2>6, <2>7, NullAssumption DEF MutualExclusion
  <2>. QED BY <2>2, <2>3, <2>8
<1>2. CASE ~isHeldByCurrentThread(l)
  BY <1>2 DEF ReleaseBody, lockVars, CallTypeOK, MutualExclusion
<1>. QED BY <1>1, <1>2

\* Every step keeps the types and mutual exclusion.
LEMMA SynchStep ==
    ASSUME SynchInv, [SynchNext]_vars
    PROVE  CallTypeOK' /\ MutualExclusion'
<1>0. KernelTypeOK /\ CallTypeOK /\ MutualExclusion /\ currentThread \in Thread
  BY DEF SynchInv, KernelInv, KernelTypeOK
<1>1. ASSUME NEW p \in Point, NEW o \in Object, NEW q \in {"client", "SignalRemove", "SignalReady"},
             Enter(p, o, q)
      PROVE  /\ pc' \in [Thread -> Point]
             /\ object' \in [Thread -> Object \cup {NULL}]
             /\ then' \in [Thread -> {"client", "SignalRemove", "SignalReady"}]
             /\ oldLevel' \in [Thread -> Level]
  BY <1>0, <1>1 DEF Enter, Goto, CallTypeOK, KernelTypeOK
<1>2. CASE CallStep
  <2>. USE DEF semVars, lockVars, Object, Point
  <2>1. ASSUME NEW s \in Semaphore, CallP(s) \/ CallV(s) PROVE CallTypeOK' /\ MutualExclusion'
    BY <1>0, <1>1, <2>1 DEF CallP, CallV, CallTypeOK, MutualExclusion
  <2>2. ASSUME NEW l \in ClientLock, CallAcquire(l) \/ CallRelease(l)
        PROVE  CallTypeOK' /\ MutualExclusion'
    BY <1>0, <1>1, <2>2 DEF CallAcquire, CallRelease, CallTypeOK, MutualExclusion, ClientLock
  <2>3. ASSUME NEW c \in Condition, CallWait(c) PROVE CallTypeOK' /\ MutualExclusion'
    BY <1>0, <1>1, <2>3 DEF CallWait, CallTypeOK, MutualExclusion
  <2>4. ASSUME NEW c \in Condition, NEW toAll \in BOOLEAN, CallSignal(c, toAll)
        PROVE  CallTypeOK' /\ MutualExclusion'
    BY <1>0, <1>1, <2>4 DEF CallSignal, CallTypeOK, MutualExclusion
  <2>. QED BY <1>2, <2>1, <2>2, <2>3, <2>4 DEF CallStep
<1>3. CASE Restore
  BY <1>0, <1>3 DEF Restore, ReturnTo, Goto, CallTypeOK, MutualExclusion, semVars, lockVars, Point, Level
<1>4. ASSUME NEW s \in Semaphore, PSleep(s) \/ PTake(s) \/ VBody(s)
      PROVE  CallTypeOK' /\ MutualExclusion'
  <2>. USE DEF lockVars, callVars, Point
  <2>1. CASE PSleep(s)
    BY <1>0, <2>1 DEF PSleep, CallTypeOK, MutualExclusion
  <2>2. CASE PTake(s)
    BY <1>0, <2>2 DEF PTake, Goto, CallTypeOK, MutualExclusion
  <2>3. CASE VBody(s)
    <3>1. semQueue' \in [Semaphore -> Seq(Thread)] /\ value' \in [Semaphore -> Nat]
      BY <1>0, <2>3, RestLemma DEF VBody, CallTypeOK
    <3>. QED BY <1>0, <2>3, <3>1 DEF VBody, Goto, CallTypeOK, MutualExclusion
  <2>. QED BY <1>4, <2>1, <2>2, <2>3
<1>5. ASSUME NEW l \in Lock, AcquireSleep(l) \/ AcquireTake(l) \/ Release(l)
      PROVE  CallTypeOK' /\ MutualExclusion'
  <2>. USE DEF semVars, callVars, Point
  <2>1. CASE AcquireSleep(l)
    BY <1>0, <2>1 DEF AcquireSleep, CallTypeOK, MutualExclusion
  <2>2. CASE AcquireTake(l)
    <3>1. CallTypeOK'
      BY <1>0, <2>2 DEF AcquireTake, Goto, CallTypeOK
    <3>2. /\ free[l]
          /\ free' = [free EXCEPT ![l] = FALSE]
          /\ activeThread' = [activeThread EXCEPT ![l] = currentThread]
          /\ held' = [held EXCEPT ![currentThread] = @ \cup {l}]
      BY <2>2 DEF AcquireTake
    <3>3. /\ ~free'[l] /\ activeThread'[l] = currentThread
          /\ \A m \in Lock : m # l => free'[m] = free[m] /\ activeThread'[m] = activeThread[m]
          /\ \A t \in Thread : \A m \in Lock : m \in held'[t] <=> m \in held[t] \/ (t = currentThread /\ m = l)
      BY <1>0, <3>2 DEF CallTypeOK
    <3>4. MutualExclusion'
      BY <1>0, <3>2, <3>3, NullAssumption DEF MutualExclusion
    <3>. QED BY <3>1, <3>4
  <2>3. CASE Release(l)
    <3>1. /\ free' \in [Lock -> BOOLEAN]
          /\ activeThread' \in [Lock -> Thread \cup {NULL}]
          /\ lockQueue' \in [Lock -> Seq(Thread)]
          /\ held' \in [Thread -> SUBSET Lock]
          /\ MutualExclusion'
      BY <1>0, <2>3, ReleaseLemma DEF Release
    <3>. QED BY <1>0, <2>3, <3>1 DEF Release, Goto, CallTypeOK
  <2>. QED BY <1>5, <2>1, <2>2, <2>3
<1>6. ASSUME NEW c \in Condition,
             \/ WaitRelease(c) \/ WaitEnqueue(c) \/ WaitSleep(c)
             \/ SignalRemove(c) \/ SignalUnlock(c) \/ SignalReady(c)
             \/ SignalReturn(c) \/ BroadcastNext(c)
      PROVE  CallTypeOK' /\ MutualExclusion'
  <2>. USE DEF semVars, Point, Object
  <2>0. queueLock[c] \in Lock /\ conditionLock[c] \in Lock
    BY QueueLockAssumption, ConditionLockAssumption
  <2>1. ASSUME NEW l \in Lock, ReleaseBody(l)
        PROVE  /\ free' \in [Lock -> BOOLEAN]
               /\ activeThread' \in [Lock -> Thread \cup {NULL}]
               /\ lockQueue' \in [Lock -> Seq(Thread)]
               /\ held' \in [Thread -> SUBSET Lock]
               /\ MutualExclusion'
    BY <1>0, <2>1, ReleaseLemma
  <2>2. CASE WaitRelease(c)
    BY <1>0, <2>0, <2>1, <2>2 DEF WaitRelease, Goto, CallTypeOK
  <2>3. CASE SignalUnlock(c)
    BY <1>0, <2>0, <2>1, <2>3 DEF SignalUnlock, Goto, CallTypeOK
  <2>4. CASE WaitEnqueue(c)
    <3>1. /\ condQueue' \in [Condition -> Seq(Thread)]
          /\ lockQueue' \in [Lock -> Seq(Thread)]
          /\ activeThread' \in [Lock -> Thread \cup {NULL}]
      BY <1>0, <2>0, <2>4, RestLemma DEF WaitEnqueue, CallTypeOK
    <3>2. activeThread' = activeThread
      BY <1>0, <2>0, <2>4 DEF WaitEnqueue, CallTypeOK, MutualExclusion
    <3>. QED BY <1>0, <2>4, <3>1, <3>2 DEF WaitEnqueue, Goto, CallTypeOK, MutualExclusion
  <2>5. CASE WaitSleep(c)
    BY <1>0, <2>5 DEF WaitSleep, Goto, CallTypeOK, MutualExclusion, lockVars
  <2>6. CASE SignalRemove(c)
    <3>1. /\ condQueue' \in [Condition -> Seq(Thread)]
          /\ hand' \in [Thread -> Thread \cup {NULL}]
      BY <1>0, <2>6, RestLemma DEF SignalRemove, CallTypeOK
    <3>. QED BY <1>0, <1>1, <2>6, <3>1 DEF SignalRemove, CallTypeOK, MutualExclusion, lockVars
  <2>7. CASE SignalReady(c) \/ SignalReturn(c)
    <3>1. ASSUME NEW p \in Point, ReturnTo(p)
          PROVE  /\ pc' \in [Thread -> Point]
                 /\ object' \in [Thread -> Object \cup {NULL}]
                 /\ all' \in [Thread -> BOOLEAN]
      BY <1>0, <3>1 DEF ReturnTo, Goto, CallTypeOK
    <3>2. \E p \in Point : ReturnTo(p)
      BY <2>7 DEF SignalReady, SignalReturn
    <3>3. hand' \in [Thread -> Thread \cup {NULL}]
      BY <1>0, <2>7 DEF SignalReady, SignalReturn, CallTypeOK
    <3>. QED BY <1>0, <2>7, <3>1, <3>2, <3>3
         DEF SignalReady, SignalReturn, CallTypeOK, MutualExclusion, lockVars
  <2>8. CASE BroadcastNext(c)
    BY <1>0, <1>1, <2>8 DEF BroadcastNext, CallTypeOK, MutualExclusion, lockVars
  <2>. QED BY <1>6, <2>2, <2>3, <2>4, <2>5, <2>6, <2>7, <2>8
<1>7. ASSUME NEW s \in Semaphore, HandlerV(s) PROVE CallTypeOK' /\ MutualExclusion'
  <2>1. semQueue' \in [Semaphore -> Seq(Thread)] /\ value' \in [Semaphore -> Nat]
    BY <1>0, <1>7, RestLemma DEF HandlerV, CallTypeOK
  <2>. QED BY <1>0, <1>7, <2>1 DEF HandlerV, CallTypeOK, MutualExclusion, lockVars, callVars
<1>8. CASE UNCHANGED synchVars
  BY <1>0, <1>8 DEF synchVars, semVars, lockVars, callVars, CallTypeOK, MutualExclusion
<1>9. CASE ClientStep \/ ThreadYield \/ HandlerNoop \/ Idle \/ Stopped
  BY <1>8, <1>9 DEF ClientStep, ThreadYield, HandlerNoop, Idle, Stopped
<1>10. CASE UNCHANGED vars
  BY <1>8, <1>10 DEF vars
<1>. QED
  BY <1>2, <1>3, <1>4, <1>5, <1>6, <1>7, <1>9, <1>10 DEF SynchNext, RoutineStep

\* It holds at the start.
LEMMA SynchStart == SynchInit => SynchInv
<1>1. SynchInit => CallTypeOK /\ MutualExclusion
  BY NullAssumption, ValueAssumption
  DEF SynchInit, CallTypeOK, MutualExclusion, Point, Level
<1>2. SynchInit => KernelInit
  BY DEF SynchInit
<1>. QED BY <1>1, <1>2, KernelStart DEF SynchInv

-----------------------------------------------------------------------------
(* synch.cc loses no wake-up and Condition::Wait is atomic.  Neither        *)
(* property is inductive.  Both rest on where a thread can be when it is    *)
(* not on the CPU: with interrupts off between the SetLevels nobody else    *)
(* moves (Uninterrupted), so a lock that Wait or Signal needs is still in   *)
(* the hands the code left it in (LockDiscipline), and a sleeper is where   *)
(* its program counter says it is (SleepersFound).                          *)

\* The points between two SetLevels at which a routine does not sleep.
AtomicPoint == {"V", "Release", "Wait", "WaitLock", "WaitSleep", "SignalLock",
                "SignalUnlock", "restore"}

\* Those at which it may: the loops of P and Acquire.
LoopPoint == {"P", "Acquire", "WaitReacquire"}

OnCPU(t) == Executing /\ t = currentThread

\* t is in Signal or Broadcast, and it has taken a thread off the queue (or
\* found none) that it has not readied yet.
Signalling(t) ==
    \/ pc[t] \in {"SignalLock", "SignalRemove", "SignalUnlock", "SignalReady", "BroadcastNext"}
    \/ pc[t] = "restore" /\ then[t] # "client"
Announcing(t) ==
    \/ pc[t] \in {"SignalUnlock", "SignalReady"}
    \/ pc[t] = "restore" /\ then[t] = "SignalReady"

\* Nobody leaves the CPU between two SetLevels but in the loops, whose Sleep
\* returns with interrupts off.
Uninterrupted ==
    \A t \in Thread :
        /\ pc[t] \in AtomicPoint => OnCPU(t) /\ level = "IntOff"
        /\ pc[t] \in LoopPoint => IF OnCPU(t) THEN level = "IntOff" ELSE resumeLevel[t] = "IntOff"
        /\ pc[t] # "client" => status[t] \notin {"UNALLOCATED", "JUST_CREATED"}

\* The locals of t's call are those its point needs.
ShapeOf(t) ==
    /\ pc[t] \in {"P", "V"} => object[t] \in Semaphore
    /\ pc[t] \in {"Acquire", "Release"} => object[t] \in ClientLock
    /\ pc[t] \in {"Wait", "WaitLock", "WaitSleep", "WaitReacquire"} => object[t] \in Condition
    /\ Signalling(t) => object[t] \in Condition
    /\ pc[t] \in LoopPoint \cup {"V", "Release", "Wait", "WaitLock", "WaitSleep"} => then[t] = "client"
    /\ pc[t] = "SignalLock" => then[t] = "SignalRemove"
    /\ pc[t] = "SignalUnlock" => then[t] = "SignalReady"
    /\ hand[t] # NULL => Announcing(t)

CallShape == \A t \in Thread : ShapeOf(t)

\* t is where a holder of c's queue lock can be.
InQueueLock(t, c) ==
    /\ object[t] = c
    /\ \/ pc[t] \in {"SignalRemove", "SignalUnlock"}
       \/ pc[t] = "restore" /\ then[t] = "SignalRemove"

\* Wait and Signal run under the condition's lock, the queue lock is held only
\* inside Signal, nobody signals a condition that a thread is entering Wait on,
\* and nobody ever sleeps on a queue lock.
LockDiscipline ==
    /\ \A t \in Thread : pc[t] = "Wait" \/ Signalling(t) => activeThread[conditionLock[object[t]]] = t
    /\ \A t \in Thread : \A c \in Condition :
         activeThread[queueLock[c]] = t => InQueueLock(t, c)
    /\ \A t, u \in Thread :
         pc[t] \in {"WaitLock", "WaitSleep"} /\ Signalling(u) => object[u] # object[t]
    /\ \A c \in Condition : lockQueue[queueLock[c]] = << >>

\* Each wait queue holds its sleepers, once; a hand holds one that no queue has;
\* every sleeper is on a queue or in a hand.
SemSleepers ==
    \A s \in Semaphore :
        /\ Once(semQueue[s])
        /\ \A t \in Thread : On(t, semQueue[s]) => t \in waiting /\ pc[t] = "P" /\ object[t] = s

LockSleepers ==
    \A l \in Lock :
        /\ Once(lockQueue[l])
        /\ \A t \in Thread : On(t, lockQueue[l]) =>
             t \in waiting /\ pc[t] \in {"Acquire", "WaitReacquire"} /\ WantedLock(t) = l

CondSleepers ==
    \A c \in Condition :
        /\ Once(condQueue[c])
        /\ \A t \in Thread : On(t, condQueue[c]) =>
             /\ object[t] = c
             /\ pc[t] = "WaitSleep" \/ (pc[t] = "WaitReacquire" /\ t \in waiting)
             /\ \A l \in Lock : ~On(t, lockQueue[l])

HandSleepers ==
    \A u \in Thread : hand[u] # NULL =>
        /\ hand[u] \in waiting /\ pc[hand[u]] = "WaitReacquire"
        /\ \A l \in Lock : ~On(hand[u], lockQueue[l])
        /\ \A c \in Condition : ~On(hand[u], condQueue[c])
        /\ \A v \in Thread : hand[v] = hand[u] => v = u

EverySleeper ==
    \A t \in Thread :
        /\ t \in waiting => \/ \E s \in Semaphore : On(t, semQueue[s])
                            \/ \E l \in Lock : On(t, lockQueue[l])
                            \/ \E c \in Condition : On(t, condQueue[c])
                            \/ \E u \in Thread : hand[u] = t
        /\ pc[t] = "WaitSleep" => \E c \in Condition : On(t, condQueue[c])

SleepersFound == SemSleepers /\ LockSleepers /\ CondSleepers /\ HandSleepers /\ EverySleeper

\* The threads awake in P(), of which there are enough for the value.
Awake(s) == {t \in Thread : pc[t] = "P" /\ object[t] = s /\ t \notin waiting}

UnitsCovered ==
    \A s \in Semaphore :
        /\ IsFiniteSet(Awake(s))
        /\ semQueue[s] # << >> => value[s] <= Cardinality(Awake(s))

\* A Signal or Broadcast that found nobody leaves an empty queue behind.
NobodyLeft ==
    \A t \in Thread : Announcing(t) /\ hand[t] = NULL => condQueue[object[t]] = << >>

\* The inductive invariant.
WakeUpInv ==
    /\ SynchInv
    /\ Uninterrupted
    /\ CallShape
    /\ LockDiscipline
    /\ SleepersFound
    /\ UnitsCovered
    /\ NoMissedRelease
    /\ NobodyLeft

-----------------------------------------------------------------------------
(* What the steps do                                                       *)

\* The steps that leave every queue, every hand and the set of sleepers alone.
QuietCall ==
    \/ CallStep
    \/ Restore
    \/ \E s \in Semaphore : PTake(s)
    \/ \E l \in Lock : AcquireTake(l)
    \/ \E c \in Condition : SignalReturn(c) \/ BroadcastNext(c)

QuietKernel == ClientStep \/ ThreadYield \/ HandlerNoop \/ Idle \/ Stopped \/ UNCHANGED vars

\* A queue from which somebody may have been woken.
Woken(queue, rest) ==
    \/ rest = queue /\ waiting' = waiting
    \/ queue # << >> /\ rest = Tail(queue) /\ waiting' = waiting \ {Head(queue)}

\* Nobody but the running thread moves in synch.cc.
OthersStay ==
    \A t \in Thread : t # currentThread =>
        /\ pc'[t] = pc[t] /\ object'[t] = object[t] /\ then'[t] = then[t]
        /\ hand'[t] = hand[t] /\ WantedLock(t)' = WantedLock(t)

\* The running thread does not sleep, and is on a queue only when Wait has just
\* put it there.
LEMMA RunningIsAwake ==
    ASSUME WakeUpInv, Executing
    PROVE  /\ currentThread \in Thread /\ currentThread \notin waiting
           /\ \A s \in Semaphore : ~On(currentThread, semQueue[s])
           /\ \A l \in Lock : ~On(currentThread, lockQueue[l])
           /\ \A c \in Condition : On(currentThread, condQueue[c]) => pc[currentThread] = "WaitSleep"
           /\ \A u \in Thread : hand[u] # currentThread
<1>1. currentThread \in Thread /\ currentThread \notin waiting
  BY DEF WakeUpInv, SynchInv, KernelInv, KernelTypeOK, OneRunningThread, SleepersAreBlocked
<1>. QED BY <1>1, NullAssumption
     DEF WakeUpInv, SleepersFound, SemSleepers, LockSleepers, CondSleepers, HandSleepers

\* Waking the first of a queue of sleepers takes it, and only it, off the queue.
LEMMA WokenLemma ==
    ASSUME NEW queue \in Seq(Thread), NEW rest, Once(queue),
           \A t \in Thread : On(t, queue) => t \in waiting,
           Woken(queue, rest)
    PROVE  /\ Once(rest)
           /\ waiting' \subseteq waiting
           /\ \A t \in Thread : On(t, rest) <=> On(t, queue) /\ t \in waiting'
           /\ \A t \in waiting : t \notin waiting' => On(t, queue)
<1>1. CASE rest = queue /\ waiting' = waiting
  BY <1>1
<1>2. CASE queue # << >> /\ rest = Tail(queue) /\ waiting' = waiting \ {Head(queue)}
  <2>1. /\ On(Head(queue), queue)
        /\ \A t : On(t, Tail(queue)) => On(t, queue)
        /\ \A t : On(t, queue) => On(t, Tail(queue)) \/ t = Head(queue)
        /\ Once(Tail(queue)) /\ ~On(Head(queue), Tail(queue))
    BY <1>2, TailLemma
  <2>. QED BY <1>2, <2>1
<1>. QED BY <1>1, <1>2 DEF Woken

\* The types, one by one.
LEMMA Types ==
    ASSUME WakeUpInv
    PROVE  /\ waiting \subseteq Thread /\ currentThread \in Thread
           /\ semQueue \in [Semaphore -> Seq(Thread)]
           /\ lockQueue \in [Lock -> Seq(Thread)]
           /\ condQueue \in [Condition -> Seq(Thread)]
           /\ pc \in [Thread -> Point]
           /\ object \in [Thread -> Object \cup {NULL}]
           /\ then \in [Thread -> {"client", "SignalRemove", "SignalReady"}]
           /\ hand \in [Thread -> Thread \cup {NULL}]
           /\ value \in [Semaphore -> Nat]
           /\ free \in [Lock -> BOOLEAN]
           /\ activeThread \in [Lock -> Thread \cup {NULL}]
BY DEF WakeUpInv, SynchInv, KernelInv, KernelTypeOK, CallTypeOK

\* A step of synch.cc moves the running thread and no other.
LEMMA OthersLemma ==
    ASSUME WakeUpInv, [SynchNext]_vars
    PROVE  OthersStay
<1>1. ASSUME UNCHANGED callVars PROVE OthersStay
  BY <1>1 DEF OthersStay, callVars, WantedLock
<1>2. ASSUME \A t \in Thread : t # currentThread =>
               pc'[t] = pc[t] /\ object'[t] = object[t] /\ then'[t] = then[t] /\ hand'[t] = hand[t]
      PROVE  OthersStay
  BY <1>2 DEF OthersStay, WantedLock
<1>3. CASE CallStep \/ Restore
  BY <1>2, <1>3, Types DEF CallStep, CallP, CallV, CallAcquire, CallRelease, CallWait, CallSignal,
                    Restore, Enter, ReturnTo, Goto
<1>4. CASE \E s \in Semaphore : PSleep(s) \/ PTake(s) \/ VBody(s) \/ HandlerV(s)
  BY <1>1, <1>2, <1>4, Types DEF PSleep, PTake, VBody, HandlerV, Goto
<1>5. CASE \E l \in Lock : AcquireSleep(l) \/ AcquireTake(l) \/ Release(l)
  BY <1>1, <1>2, <1>5, Types DEF AcquireSleep, AcquireTake, Release, Goto
<1>6. CASE \E c \in Condition : WaitRelease(c) \/ WaitEnqueue(c) \/ WaitSleep(c) \/ SignalUnlock(c)
  BY <1>2, <1>6, Types DEF WaitRelease, WaitEnqueue, WaitSleep, SignalUnlock, Goto
<1>7. CASE \E c \in Condition : SignalRemove(c) \/ SignalReady(c) \/ SignalReturn(c) \/ BroadcastNext(c)
  BY <1>2, <1>7, Types DEF SignalRemove, SignalReady, SignalReturn, BroadcastNext, Enter, ReturnTo, Goto
<1>8. CASE QuietKernel
  BY <1>1, <1>8 DEF QuietKernel, ClientStep, ThreadYield, HandlerNoop, Idle, Stopped, vars, synchVars
<1>. QED BY <1>3, <1>4, <1>5, <1>6, <1>7, <1>8 DEF SynchNext, RoutineStep, QuietKernel

\* A quiet step leaves the queues alone, and enters or leaves no WaitSleep.
LEMMA QuietLemma ==
    ASSUME WakeUpInv, QuietCall \/ QuietKernel
    PROVE  /\ UNCHANGED <<waiting, semQueue, lockQueue, condQueue, hand>>
           /\ \/ UNCHANGED callVars
              \/ Executing /\ pc[currentThread] # "WaitSleep" /\ pc'[currentThread] # "WaitSleep"
<1>0. pc \in [Thread -> Point] /\ currentThread \in Thread
      /\ then[currentThread] \in {"client", "SignalRemove", "SignalReady"}
  BY Types
<1>1. CASE QuietKernel
  <2>1. UNCHANGED synchVars
    BY <1>1 DEF QuietKernel, ClientStep, ThreadYield, HandlerNoop, Idle, Stopped, vars
  <2>2. waiting' = waiting
    <3>1. CASE ClientStep
      BY <3>1 DEF ClientStep, Create, Fork, SetLevel, Schedule, Finish, Halt, threadVars
    <3>2. CASE ThreadYield \/ Idle \/ Stopped
      BY <3>2 DEF ThreadYield, Idle, Stopped, Yield, IdleDispatch, IdleHalt, Terminated, kernelVars, threadVars
    <3>3. CASE HandlerNoop
      BY <3>3 DEF HandlerNoop, RunHandler, threadVars
    <3>4. CASE UNCHANGED vars
      BY <3>4 DEF vars, kernelVars, threadVars
    <3>. QED BY <1>1, <3>1, <3>2, <3>3, <3>4 DEF QuietKernel
  <2>. QED BY <2>1, <2>2 DEF synchVars, semVars, lockVars, callVars
<1>2. CASE CallStep
  BY <1>0, <1>2 DEF CallStep, CallP, CallV, CallAcquire, CallRelease, CallWait, CallSignal,
               Enter, Goto, SetLevel, threadVars, semVars, lockVars
<1>3. CASE Restore
  BY <1>0, <1>3 DEF Restore, ReturnTo, Goto, SetLevel, threadVars, semVars, lockVars
<1>4. CASE (\E s \in Semaphore : PTake(s)) \/ (\E l \in Lock : AcquireTake(l))
  <2>1. pc[currentThread] \in {"P"} \cup {"Acquire", "SignalLock", "WaitReacquire"}
    BY <1>4, ObjectAssumption DEF PTake, AcquireTake, At, WantedLock
  <2>. QED BY <1>0, <1>4, <2>1 DEF PTake, AcquireTake, Goto, At, kernelVars, threadVars, semVars, lockVars
<1>5. CASE \E c \in Condition : SignalReturn(c) \/ BroadcastNext(c)
  BY <1>0, <1>5 DEF SignalReturn, BroadcastNext, Enter, ReturnTo, Goto, At, SetLevel,
               kernelVars, threadVars, semVars, lockVars
<1>. QED BY <1>1, <1>2, <1>3, <1>4, <1>5 DEF QuietCall

\* Semaphore::V, by a thread or by a handler.
LEMMA VLemma ==
    ASSUME WakeUpInv, NEW s \in Semaphore, VBody(s) \/ HandlerV(s)
    PROVE  /\ UNCHANGED <<lockQueue, condQueue, hand, free, activeThread, object, then>>
           /\ \/ pc' = pc
              \/ Executing /\ pc[currentThread] = "V" /\ pc'[currentThread] = "restore"
           /\ value' = [value EXCEPT ![s] = @ + 1]
           /\ \A r \in Semaphore : r # s => semQueue'[r] = semQueue[r]
           /\ Woken(semQueue[s], semQueue'[s])
           /\ semQueue[s] # << >> => waiting' = waiting \ {Head(semQueue[s])}
<1>0. semQueue \in [Semaphore -> Seq(Thread)] /\ pc \in [Thread -> Point] /\ currentThread \in Thread
  BY Types
<1>1. CASE VBody(s)
  <2>1. \/ semQueue[s] = << >> /\ waiting' = waiting
        \/ semQueue[s] # << >> /\ waiting' = waiting \ {Head(semQueue[s])}
    BY <1>1 DEF VBody, WakeFirst, MakeReady, kernelVars, threadVars
  <2>2. semQueue'[s] = Rest(semQueue[s]) /\ \A r \in Semaphore : r # s => semQueue'[r] = semQueue[r]
    BY <1>0, <1>1 DEF VBody
  <2>3. Woken(semQueue[s], semQueue'[s])
    BY <2>1, <2>2 DEF Woken, Rest
  <2>. QED BY <1>0, <1>1, <2>1, <2>2, <2>3 DEF VBody, lockVars, At, Goto
<1>2. CASE HandlerV(s)
  <2>1. \/ semQueue[s] = << >> /\ waiting' = waiting
        \/ semQueue[s] # << >> /\ waiting' = waiting \ {Head(semQueue[s])}
    BY <1>2 DEF HandlerV, RunHandler, threadVars
  <2>2. semQueue'[s] = Rest(semQueue[s]) /\ \A r \in Semaphore : r # s => semQueue'[r] = semQueue[r]
    BY <1>0, <1>2 DEF HandlerV
  <2>3. Woken(semQueue[s], semQueue'[s])
    BY <2>1, <2>2 DEF Woken, Rest
  <2>. QED BY <1>2, <2>1, <2>2, <2>3 DEF HandlerV, lockVars, callVars
<1>. QED BY <1>1, <1>2

\* Lock::Release, wherever it is called.
LEMMA ReleaseWakes ==
    ASSUME WakeUpInv, NEW l \in Lock, ReleaseBody(l)
    PROVE  /\ \A m \in Lock : m # l => /\ lockQueue'[m] = lockQueue[m]
                                      /\ free'[m] = free[m]
                                      /\ activeThread'[m] = activeThread[m]
           /\ Woken(lockQueue[l], lockQueue'[l])
           /\ \/ activeThread[l] # currentThread /\ UNCHANGED <<free, activeThread, lockQueue, waiting>>
              \/ /\ activeThread[l] = currentThread /\ activeThread'[l] = NULL
                 /\ lockQueue'[l] # << >> => \E t \in waiting : t \notin waiting' /\ On(t, lockQueue[l])
<1>0. /\ lockQueue \in [Lock -> Seq(Thread)] /\ free \in [Lock -> BOOLEAN]
      /\ activeThread \in [Lock -> Thread \cup {NULL}]
  BY Types
<1>1. CASE ~isHeldByCurrentThread(l)
  BY <1>1 DEF ReleaseBody, isHeldByCurrentThread, Woken, kernelVars, threadVars, lockVars
<1>2. CASE isHeldByCurrentThread(l)
  <2>1. \/ lockQueue[l] = << >> /\ waiting' = waiting
        \/ /\ lockQueue[l] # << >> /\ waiting' = waiting \ {Head(lockQueue[l])}
           /\ Head(lockQueue[l]) \in waiting
    <3>1. lockQueue[l] # << >> => Head(lockQueue[l]) \in waiting
      BY <1>0, TailLemma DEF WakeUpInv, SleepersFound, LockSleepers
    <3>. QED BY <1>2, <3>1 DEF ReleaseBody, WakeFirst, MakeReady, kernelVars, threadVars
  <2>2. /\ lockQueue'[l] = Rest(lockQueue[l]) /\ activeThread'[l] = NULL
        /\ \A m \in Lock : m # l => /\ lockQueue'[m] = lockQueue[m]
                                    /\ free'[m] = free[m]
                                    /\ activeThread'[m] = activeThread[m]
    BY <1>0, <1>2 DEF ReleaseBody
  <2>3. Woken(lockQueue[l], lockQueue'[l])
    BY <2>1, <2>2 DEF Woken, Rest
  <2>4. lockQueue[l] # << >> => On(Head(lockQueue[l]), lockQueue[l])
    BY <1>0, TailLemma
  <2>5. lockQueue'[l] # << >> => lockQueue[l] # << >>
    BY <2>2 DEF Rest
  <2>. QED BY <1>2, <2>1, <2>2, <2>3, <2>4, <2>5 DEF isHeldByCurrentThread
<1>. QED BY <1>1, <1>2

\* A thread entering Wait or Signal finds the queue lock free: whoever held it
\* would be in Signal, under the lock the thread itself holds.
LEMMA QueueLockIsFree ==
    ASSUME WakeUpInv, NEW t \in Thread, pc[t] \in {"Wait", "WaitLock", "WaitSleep", "SignalLock"}
    PROVE  object[t] \in Condition /\ free[queueLock[object[t]]]
<1>. DEFINE c == object[t]
<1>1. c \in Condition
  BY DEF WakeUpInv, CallShape, ShapeOf, Signalling
<1>2. queueLock[c] \in Lock
  BY <1>1, QueueLockAssumption
<1>3. ASSUME NEW u \in Thread, activeThread[queueLock[c]] = u PROVE FALSE
  <2>1. /\ object[u] = c
        /\ \/ pc[u] \in {"SignalRemove", "SignalUnlock"}
           \/ pc[u] = "restore" /\ then[u] = "SignalRemove"
    BY <1>1, <1>3 DEF WakeUpInv, LockDiscipline, InQueueLock
  <2>2. Signalling(u)
    BY <2>1 DEF Signalling
  <2>3. CASE pc[t] \in {"WaitLock", "WaitSleep"}
    BY <2>1, <2>2, <2>3 DEF WakeUpInv, LockDiscipline
  <2>4. CASE pc[t] \in {"Wait", "SignalLock"}
    <3>1. activeThread[conditionLock[c]] = t /\ activeThread[conditionLock[c]] = u
      BY <2>1, <2>2, <2>4 DEF WakeUpInv, LockDiscipline, Signalling
    <3>. QED BY <2>1, <2>4, <3>1
  <2>. QED BY <2>3, <2>4
<1>4. activeThread[queueLock[c]] = NULL
  BY <1>2, <1>3, Types
<1>. QED BY <1>1, <1>2, <1>4 DEF WakeUpInv, SynchInv, MutualExclusion

\* Acquire sleeps on a client's lock only.
LEMMA SleepsOnClientLock ==
    ASSUME WakeUpInv, NEW l \in Lock, AcquireSleep(l)
    PROVE  /\ pc[currentThread] \in {"Acquire", "WaitReacquire"}
           /\ \A c \in Condition : queueLock[c] # l
<1>1. /\ currentThread \in Thread /\ WantedLock(currentThread) = l /\ ~free[l]
      /\ pc[currentThread] \in {"Acquire", "WaitLock", "SignalLock", "WaitReacquire"}
  BY Types, ObjectAssumption DEF AcquireSleep, WantedLock
<1>2. pc[currentThread] \notin {"WaitLock", "SignalLock"}
  BY <1>1, QueueLockIsFree DEF WantedLock
<1>3. CASE pc[currentThread] = "Acquire"
  BY <1>1, <1>3 DEF WakeUpInv, CallShape, ShapeOf, ClientLock, WantedLock
<1>4. CASE pc[currentThread] = "WaitReacquire"
  BY <1>1, <1>4, ConditionLockAssumption DEF WakeUpInv, CallShape, ShapeOf, WantedLock
<1>. QED BY <1>1, <1>2, <1>3, <1>4

\* Nobody sleeps on a queue lock, so the Release inside Wait wakes nobody.
LEMMA EnqueueWakesNobody ==
    ASSUME WakeUpInv, NEW c \in Condition, WaitEnqueue(c)
    PROVE  UNCHANGED <<kernelVars, free, activeThread>> /\ \A l \in Lock : lockQueue'[l] = lockQueue[l]
<1>1. lockQueue[queueLock[c]] = << >> /\ queueLock[c] \in Lock
  BY QueueLockAssumption DEF WakeUpInv, LockDiscipline
<1>2. activeThread[queueLock[c]] = NULL
  BY <1>1 DEF WaitEnqueue, WakeUpInv, SynchInv, MutualExclusion
<1>. QED BY <1>1, <1>2, Types DEF WaitEnqueue, WakeFirst, Rest

\* The kernel's demands are met: whoever sleeps has interrupts off ...
LEMMA SleepIsAllowed ==
    ASSUME WakeUpInv, Block, pc[currentThread] \in LoopPoint \cup {"WaitSleep"}
    PROVE  Sleep
<1>1. OnCPU(currentThread) /\ currentThread \in Thread
  BY Types DEF Block, OnCPU
<1>. QED BY <1>1 DEF WakeUpInv, Uninterrupted, AtomicPoint, Sleep

\* ... whoever is taken off a queue of sleepers is woken from his sleep ...
LEMMA WakeIsAllowed ==
    ASSUME WakeUpInv, NEW queue \in Seq(Thread), WakeFirst(queue),
           \A t \in Thread : On(t, queue) => t \in waiting
    PROVE  KernelNext \/ UNCHANGED kernelVars
<1>1. CASE queue # << >> /\ MakeReady(Head(queue))
  <2>1. Head(queue) \in Thread /\ Head(queue) \in waiting
    BY <1>1, TailLemma
  <2>. QED BY <1>1, <2>1 DEF WakeUp, KernelNext
<1>. QED BY <1>1 DEF WakeFirst

\* ... by a Release() too ...
LEMMA ReleaseIsKernelStep ==
    ASSUME WakeUpInv, NEW l \in Lock, ReleaseBody(l)
    PROVE  KernelNext \/ UNCHANGED kernelVars
<1>1. lockQueue[l] \in Seq(Thread) /\ \A t \in Thread : On(t, lockQueue[l]) => t \in waiting
  BY Types DEF WakeUpInv, SleepersFound, LockSleepers
<1>. QED BY <1>1, WakeIsAllowed DEF ReleaseBody

\* ... and by a handler.
LEMMA HandlerIsAllowed ==
    ASSUME WakeUpInv, NEW s \in Semaphore, HandlerV(s)
    PROVE  KernelNext
<1>. DEFINE wake == IF semQueue[s] = << >> THEN {} ELSE {Head(semQueue[s])}
<1>1. semQueue[s] \in Seq(Thread) /\ \A t \in Thread : On(t, semQueue[s]) => t \in waiting
  BY Types DEF WakeUpInv, SleepersFound, SemSleepers
<1>2. wake \subseteq waiting /\ wake \in {{}} \cup {{t} : t \in Thread}
  BY <1>1, TailLemma
<1>3. RunHandler(wake)
  BY DEF HandlerV
<1>. HIDE DEF wake
<1>. QED BY <1>2, <1>3 DEF DeviceInterrupt, KernelNext

\* A step of the synchronization routines is one kernel operation, or none, and
\* the kernel allows it.
LEMMA SynchStepIsKernelStep ==
    ASSUME WakeUpInv, [SynchNext]_vars
    PROVE  [KernelNext]_kernelVars
<1>0. KernelTypeOK /\ CallTypeOK
  BY DEF WakeUpInv, SynchInv, KernelInv
<1>1. ASSUME NEW p, NEW o, NEW q, Enter(p, o, q) PROVE KernelNext
  BY <1>1 DEF Enter, KernelNext, Level
<1>2. CASE CallStep
  BY <1>1, <1>2 DEF CallStep, CallP, CallV, CallAcquire, CallRelease, CallWait, CallSignal
<1>3. CASE Restore
  BY <1>0, <1>3 DEF Restore, KernelNext, CallTypeOK, KernelTypeOK
<1>4. ASSUME NEW s \in Semaphore, PSleep(s) \/ PTake(s) \/ VBody(s)
      PROVE  KernelNext \/ UNCHANGED kernelVars
  <2>1. CASE PSleep(s)
    BY <2>1, SleepIsAllowed DEF PSleep, At, LoopPoint, KernelNext
  <2>2. CASE PTake(s)
    BY <2>2 DEF PTake
  <2>3. CASE VBody(s)
    <3>1. semQueue[s] \in Seq(Thread) /\ \A t \in Thread : On(t, semQueue[s]) => t \in waiting
      BY Types DEF WakeUpInv, SleepersFound, SemSleepers
    <3>. QED BY <2>3, <3>1, WakeIsAllowed DEF VBody
  <2>. QED BY <1>4, <2>1, <2>2, <2>3
<1>5. ASSUME NEW l \in Lock, AcquireSleep(l) \/ AcquireTake(l) \/ Release(l)
      PROVE  KernelNext \/ UNCHANGED kernelVars
  <2>1. CASE AcquireSleep(l)
    <3>1. pc[currentThread] \in LoopPoint /\ Block
      BY <2>1, SleepsOnClientLock DEF AcquireSleep, LoopPoint
    <3>. QED BY <3>1, SleepIsAllowed DEF KernelNext
  <2>2. CASE AcquireTake(l)
    BY <2>2 DEF AcquireTake
  <2>3. CASE Release(l)
    BY <2>3, ReleaseIsKernelStep DEF Release
  <2>. QED BY <1>5, <2>1, <2>2, <2>3
<1>6. ASSUME NEW c \in Condition,
             \/ WaitRelease(c) \/ WaitEnqueue(c) \/ WaitSleep(c)
             \/ SignalRemove(c) \/ SignalUnlock(c) \/ SignalReady(c)
             \/ SignalReturn(c) \/ BroadcastNext(c)
      PROVE  KernelNext \/ UNCHANGED kernelVars
  <2>0. queueLock[c] \in Lock /\ conditionLock[c] \in Lock
    BY QueueLockAssumption, ConditionLockAssumption
  <2>1. CASE WaitRelease(c)
    BY <2>0, <2>1, ReleaseIsKernelStep DEF WaitRelease
  <2>2. CASE WaitEnqueue(c)
    BY <2>2, EnqueueWakesNobody
  <2>3. CASE WaitSleep(c)
    BY <2>3, SleepIsAllowed DEF WaitSleep, At, KernelNext
  <2>4. CASE SignalRemove(c) \/ BroadcastNext(c)
    BY <1>1, <2>4 DEF SignalRemove, BroadcastNext
  <2>5. CASE SignalUnlock(c)
    BY <2>0, <2>5, ReleaseIsKernelStep DEF SignalUnlock
  <2>6. CASE SignalReady(c)
    <3>1. hand[currentThread] \in waiting /\ hand[currentThread] \in Thread
      BY <2>6, Types DEF SignalReady, WakeUpInv, SleepersFound, HandSleepers
    <3>. QED BY <2>6, <3>1 DEF SignalReady, WakeUp, KernelNext
  <2>7. CASE SignalReturn(c)
    BY <2>7 DEF SignalReturn
  <2>. QED BY <1>6, <2>1, <2>2, <2>3, <2>4, <2>5, <2>6, <2>7
<1>7. CASE ClientStep
  BY <1>7 DEF ClientStep, KernelNext
<1>8. CASE ThreadYield
  BY <1>8 DEF ThreadYield, KernelNext
<1>9. CASE HandlerNoop
  BY <1>9 DEF HandlerNoop, DeviceInterrupt, KernelNext
<1>10. CASE \E s \in Semaphore : HandlerV(s)
  BY <1>10, HandlerIsAllowed
<1>11. CASE Idle \/ Stopped
  BY <1>11 DEF Idle, Stopped, KernelNext
<1>12. CASE UNCHANGED vars
  BY <1>12 DEF vars
<1>. QED
  BY <1>2, <1>3, <1>4, <1>5, <1>6, <1>7, <1>8, <1>9, <1>10, <1>11, <1>12 DEF SynchNext, RoutineStep

-----------------------------------------------------------------------------
(* The parts of the invariant, one by one                                  *)

\* Every sleeper stays where it can be found, and is woken once.
LEMMA SleepersStep ==
    ASSUME WakeUpInv, [SynchNext]_vars
    PROVE  SleepersFound'
<1>0. SemSleepers /\ LockSleepers /\ CondSleepers /\ HandSleepers /\ EverySleeper
  BY DEF WakeUpInv, SleepersFound
<1>1. OthersStay
  BY OthersLemma
<1>2. ASSUME \A t \in Thread : t \in waiting \/ pc[t] = "WaitSleep" =>
                pc'[t] = pc[t] /\ object'[t] = object[t] /\ WantedLock(t)' = WantedLock(t),
             \A t \in Thread : pc'[t] = "WaitSleep" => pc[t] = "WaitSleep",
             UNCHANGED <<waiting, semQueue, lockQueue, condQueue, hand>>
      PROVE  SleepersFound'
  <2>1. SemSleepers'
    BY <1>0, <1>2 DEF SemSleepers
  <2>2. LockSleepers'
    BY <1>0, <1>2 DEF LockSleepers
  <2>3. CondSleepers'
    BY <1>0, <1>2 DEF CondSleepers
  <2>4. HandSleepers'
    BY <1>0, <1>2, Types DEF HandSleepers
  <2>5. EverySleeper'
    BY <1>0, <1>2 DEF EverySleeper
  <2>. QED BY <2>1, <2>2, <2>3, <2>4, <2>5 DEF SleepersFound
<1>3. CASE QuietCall \/ QuietKernel
  <2>1. /\ UNCHANGED <<waiting, semQueue, lockQueue, condQueue, hand>>
        /\ \/ UNCHANGED callVars
           \/ Executing /\ pc[currentThread] # "WaitSleep" /\ pc'[currentThread] # "WaitSleep"
    BY <1>3, QuietLemma
  <2>2. CASE UNCHANGED callVars
    BY <1>2, <2>1, <2>2 DEF callVars, WantedLock
  <2>3. CASE Executing /\ pc[currentThread] # "WaitSleep" /\ pc'[currentThread] # "WaitSleep"
    <3>1. currentThread \notin waiting
      BY <2>3, RunningIsAwake
    <3>. QED BY <1>1, <1>2, <2>1, <2>3, <3>1 DEF OthersStay
  <2>. QED BY <2>1, <2>2, <2>3
<1>4. ASSUME NEW s \in Semaphore, PSleep(s) PROVE SleepersFound'
  <2>. DEFINE me1 == currentThread
  <2>1. /\ UNCHANGED <<lockQueue, condQueue, hand, pc, object, then>>
        /\ semQueue'[s] = Append(semQueue[s], me1)
        /\ \A r \in Semaphore : r # s => semQueue'[r] = semQueue[r]
        /\ waiting' = waiting \cup {me1}
        /\ Executing /\ pc[me1] = "P" /\ object[me1] = s
    BY <1>4, Types DEF PSleep, Block, At, lockVars, callVars
  <2>2. /\ me1 \in Thread /\ me1 \notin waiting
        /\ \A r \in Semaphore : ~On(me1, semQueue[r])
        /\ \A l \in Lock : ~On(me1, lockQueue[l])
        /\ \A c \in Condition : ~On(me1, condQueue[c])
        /\ \A u \in Thread : hand[u] # me1
    BY <2>1, RunningIsAwake
  <2>3. Once(semQueue'[s]) /\ \A t : On(t, semQueue'[s]) <=> On(t, semQueue[s]) \/ t = me1
    BY <1>0, <2>1, <2>2, AppendLemma, Types DEF SemSleepers
  <2>4. \A t \in Thread : WantedLock(t)' = WantedLock(t)
    BY <2>1 DEF WantedLock
  <2>. HIDE DEF me1
  <2>5. SemSleepers'
    <3>1. \A r \in Semaphore : \A t \in Thread :
            On(t, semQueue'[r]) => On(t, semQueue[r]) \/ (t = me1 /\ r = s)
      BY <2>1, <2>3
    <3>2. \A r \in Semaphore : Once(semQueue'[r])
      BY <1>0, <2>1, <2>3 DEF SemSleepers
    <3>. QED BY <1>0, <2>1, <3>1, <3>2 DEF SemSleepers
  <2>6. LockSleepers'
    BY <1>0, <2>1, <2>4 DEF LockSleepers
  <2>7. CondSleepers' /\ HandSleepers'
    BY <1>0, <2>1 DEF CondSleepers, HandSleepers
  <2>8. EverySleeper'
    BY <1>0, <2>1, <2>3 DEF EverySleeper
  <2>. QED BY <2>5, <2>6, <2>7, <2>8 DEF SleepersFound
<1>5. ASSUME NEW s \in Semaphore, VBody(s) \/ HandlerV(s) PROVE SleepersFound'
  <2>1. /\ UNCHANGED <<lockQueue, condQueue, hand, object>>
        /\ \/ pc' = pc
           \/ Executing /\ pc[currentThread] = "V" /\ pc'[currentThread] = "restore"
        /\ \A r \in Semaphore : r # s => semQueue'[r] = semQueue[r]
        /\ Woken(semQueue[s], semQueue'[s])
    BY <1>5, VLemma
  <2>2. \A t \in Thread : t \in waiting \/ pc[t] = "WaitSleep" \/ pc'[t] = "WaitSleep" =>
            pc'[t] = pc[t] /\ WantedLock(t)' = WantedLock(t)
    BY <1>1, <2>1, RunningIsAwake DEF OthersStay, WantedLock
  <2>3. /\ Once(semQueue'[s]) /\ waiting' \subseteq waiting /\ waiting \subseteq Thread
        /\ \A t \in Thread : On(t, semQueue'[s]) <=> On(t, semQueue[s]) /\ t \in waiting'
        /\ \A t \in waiting : t \notin waiting' => On(t, semQueue[s])
    BY <1>0, <2>1, WokenLemma, Types DEF SemSleepers
  <2>4. \A t \in waiting : t \notin waiting' => pc[t] = "P"
    BY <1>0, <2>3 DEF SemSleepers
  <2>5. SemSleepers'
    BY <1>0, <2>1, <2>2, <2>3 DEF SemSleepers
  <2>6. LockSleepers'
    BY <1>0, <2>1, <2>2, <2>4 DEF LockSleepers
  <2>7. CondSleepers'
    BY <1>0, <2>1, <2>2, <2>4 DEF CondSleepers
  <2>8. HandSleepers'
    BY <1>0, <2>1, <2>2, <2>3, <2>4 DEF HandSleepers
  <2>9. EverySleeper'
    BY <1>0, <2>1, <2>2, <2>3 DEF EverySleeper
  <2>. QED BY <2>5, <2>6, <2>7, <2>8, <2>9 DEF SleepersFound
<1>6. ASSUME NEW l \in Lock, AcquireSleep(l) PROVE SleepersFound'
  <2>. DEFINE me1 == currentThread
  <2>1. /\ UNCHANGED <<semQueue, condQueue, hand, pc, object, then>>
        /\ lockQueue'[l] = Append(lockQueue[l], me1)
        /\ \A m \in Lock : m # l => lockQueue'[m] = lockQueue[m]
        /\ waiting' = waiting \cup {me1}
        /\ Executing /\ WantedLock(me1) = l
    BY <1>6, Types DEF AcquireSleep, Block, semVars, callVars
  <2>1a. pc[me1] \in {"Acquire", "WaitReacquire"}
    BY <1>6, SleepsOnClientLock
  <2>2. /\ me1 \in Thread /\ me1 \notin waiting
        /\ \A r \in Semaphore : ~On(me1, semQueue[r])
        /\ \A m \in Lock : ~On(me1, lockQueue[m])
        /\ \A c \in Condition : ~On(me1, condQueue[c])
        /\ \A u \in Thread : hand[u] # me1
    BY <2>1, <2>1a, RunningIsAwake
  <2>3. Once(lockQueue'[l]) /\ \A t : On(t, lockQueue'[l]) <=> On(t, lockQueue[l]) \/ t = me1
    BY <1>0, <2>1, <2>2, AppendLemma, Types DEF LockSleepers
  <2>4. \A t \in Thread : WantedLock(t)' = WantedLock(t)
    BY <2>1 DEF WantedLock
  <2>. HIDE DEF me1
  <2>5. SemSleepers'
    BY <1>0, <2>1 DEF SemSleepers
  <2>6. LockSleepers'
    BY <1>0, <2>1, <2>1a, <2>2, <2>3, <2>4 DEF LockSleepers
  <2>7. CondSleepers'
    <3>1. \A t \in Thread : \A m \in Lock : On(t, lockQueue'[m]) => On(t, lockQueue[m]) \/ t = me1
      BY <2>1, <2>3
    <3>. QED BY <1>0, <2>1, <2>2, <3>1 DEF CondSleepers
  <2>7a. HandSleepers'
    BY <1>0, <2>1, <2>2, <2>3 DEF HandSleepers
  <2>8. EverySleeper'
    BY <1>0, <2>1, <2>3 DEF EverySleeper
  <2>. QED BY <2>5, <2>6, <2>7, <2>7a, <2>8 DEF SleepersFound
<1>7. ASSUME NEW l \in Lock, ReleaseBody(l), Executing,
             pc[currentThread] \in {"Release", "Wait", "SignalUnlock"},
             pc'[currentThread] # "WaitSleep",
             UNCHANGED <<semQueue, condQueue, hand>>
      PROVE  SleepersFound'
  <2>1. /\ \A m \in Lock : m # l => lockQueue'[m] = lockQueue[m]
        /\ Woken(lockQueue[l], lockQueue'[l])
    BY <1>7, ReleaseWakes
  <2>2. \A t \in Thread : t \in waiting \/ pc[t] = "WaitSleep" \/ pc'[t] = "WaitSleep" =>
            pc'[t] = pc[t] /\ object'[t] = object[t] /\ WantedLock(t)' = WantedLock(t)
    BY <1>1, <1>7, RunningIsAwake DEF OthersStay
  <2>3. /\ Once(lockQueue'[l]) /\ waiting' \subseteq waiting /\ waiting \subseteq Thread
        /\ \A t \in Thread : On(t, lockQueue'[l]) <=> On(t, lockQueue[l]) /\ t \in waiting'
        /\ \A t \in waiting : t \notin waiting' => On(t, lockQueue[l])
    BY <1>0, <2>1, WokenLemma, Types DEF LockSleepers
  <2>4. \A t \in Thread : \A m \in Lock : On(t, lockQueue'[m]) => On(t, lockQueue[m]) /\ t \in waiting'
    BY <1>0, <2>1, <2>3 DEF LockSleepers
  <2>5. SemSleepers'
    BY <1>0, <1>7, <2>2, <2>3 DEF SemSleepers, LockSleepers
  <2>6. LockSleepers'
    BY <1>0, <2>1, <2>2, <2>3, <2>4 DEF LockSleepers
  <2>7. CondSleepers'
    BY <1>0, <1>7, <2>2, <2>3, <2>4 DEF CondSleepers
  <2>8. HandSleepers'
    BY <1>0, <1>7, <2>2, <2>3, <2>4, Types DEF HandSleepers
  <2>9. EverySleeper'
    BY <1>0, <1>7, <2>1, <2>2, <2>3 DEF EverySleeper
  <2>. QED BY <2>5, <2>6, <2>7, <2>8, <2>9 DEF SleepersFound
<1>8. CASE (\E l \in Lock : Release(l)) \/ (\E c \in Condition : WaitRelease(c) \/ SignalUnlock(c))
  <2>1. ASSUME NEW l \in Lock, Release(l) PROVE SleepersFound'
    BY <1>7, <2>1, Types DEF Release, At, Goto, semVars
  <2>2. ASSUME NEW c \in Condition, WaitRelease(c) PROVE SleepersFound'
    BY <1>7, <2>2, Types, ConditionLockAssumption DEF WaitRelease, At, Goto, semVars
  <2>3. ASSUME NEW c \in Condition, SignalUnlock(c) PROVE SleepersFound'
    BY <1>7, <2>3, Types, QueueLockAssumption DEF SignalUnlock, At, Goto, semVars
  <2>. QED BY <1>8, <2>1, <2>2, <2>3

<1>9. ASSUME NEW c \in Condition, WaitEnqueue(c) PROVE SleepersFound'
  <2>. DEFINE me1 == currentThread
  <2>1. /\ Executing /\ pc[me1] = "WaitLock" /\ object[me1] = c /\ pc'[me1] = "WaitSleep"
        /\ UNCHANGED <<semQueue, hand, object>>
        /\ condQueue'[c] = Append(condQueue[c], me1)
        /\ \A d \in Condition : d # c => condQueue'[d] = condQueue[d]
    BY <1>9, Types DEF WaitEnqueue, At, Goto, semVars
  <2>2. waiting' = waiting /\ \A l \in Lock : lockQueue'[l] = lockQueue[l]
    BY <1>9, EnqueueWakesNobody DEF kernelVars, threadVars
  <2>3. /\ me1 \in Thread /\ me1 \notin waiting
        /\ \A r \in Semaphore : ~On(me1, semQueue[r])
        /\ \A m \in Lock : ~On(me1, lockQueue[m])
        /\ \A d \in Condition : ~On(me1, condQueue[d])
        /\ \A u \in Thread : hand[u] # me1
    BY <2>1, RunningIsAwake
  <2>4. Once(condQueue'[c]) /\ \A t : On(t, condQueue'[c]) <=> On(t, condQueue[c]) \/ t = me1
    BY <1>0, <2>1, <2>3, AppendLemma, Types DEF CondSleepers
  <2>5. \A t \in Thread : t # me1 => pc'[t] = pc[t] /\ WantedLock(t)' = WantedLock(t)
    BY <1>1 DEF OthersStay
  <2>. HIDE DEF me1
  <2>6. /\ \A d \in Condition : Once(condQueue'[d])
        /\ \A d \in Condition : \A t \in Thread :
             On(t, condQueue'[d]) <=> On(t, condQueue[d]) \/ (t = me1 /\ d = c)
    BY <1>0, <2>1, <2>3, <2>4 DEF CondSleepers
  <2>7. SemSleepers'
    BY <1>0, <2>1, <2>2, <2>3, <2>5 DEF SemSleepers
  <2>8. LockSleepers'
    BY <1>0, <2>1, <2>2, <2>3, <2>5 DEF LockSleepers
  <2>9. CondSleepers'
    BY <1>0, <2>1, <2>2, <2>3, <2>5, <2>6 DEF CondSleepers
  <2>10. HandSleepers'
    BY <1>0, <2>1, <2>2, <2>3, <2>5, <2>6, Types DEF HandSleepers
  <2>11. EverySleeper'
    BY <1>0, <2>1, <2>2, <2>3, <2>5, <2>6 DEF EverySleeper
  <2>. QED BY <2>7, <2>8, <2>9, <2>10, <2>11 DEF SleepersFound
<1>10. ASSUME NEW c \in Condition, WaitSleep(c) PROVE SleepersFound'
  <2>. DEFINE me1 == currentThread
  <2>1. /\ Executing /\ pc[me1] = "WaitSleep" /\ object[me1] = c /\ pc'[me1] = "WaitReacquire"
        /\ UNCHANGED <<semQueue, lockQueue, condQueue, hand, object>>
        /\ waiting' = waiting \cup {me1}
    BY <1>10, Types DEF WaitSleep, Block, At, Goto, semVars, lockVars
  <2>2. /\ me1 \in Thread /\ me1 \notin waiting
        /\ \A r \in Semaphore : ~On(me1, semQueue[r])
        /\ \A m \in Lock : ~On(me1, lockQueue[m])
        /\ \A u \in Thread : hand[u] # me1
    BY <2>1, RunningIsAwake
  <2>3. \A t \in Thread : t # me1 => pc'[t] = pc[t] /\ WantedLock(t)' = WantedLock(t)
    BY <1>1 DEF OthersStay
  <2>. HIDE DEF me1
  <2>4. SemSleepers'
    BY <1>0, <2>1, <2>2, <2>3 DEF SemSleepers
  <2>5. LockSleepers'
    BY <1>0, <2>1, <2>2, <2>3 DEF LockSleepers
  <2>6. CondSleepers'
    BY <1>0, <2>1, <2>2, <2>3 DEF CondSleepers
  <2>7. HandSleepers'
    BY <1>0, <2>1, <2>2, <2>3, Types DEF HandSleepers
  <2>8. EverySleeper'
    BY <1>0, <2>1, <2>3 DEF EverySleeper
  <2>. QED BY <2>4, <2>5, <2>6, <2>7, <2>8 DEF SleepersFound
<1>11. ASSUME NEW c \in Condition, SignalRemove(c) PROVE SleepersFound'
  <2>. DEFINE me1 == currentThread
  <2>1. /\ Executing /\ pc[me1] = "SignalRemove" /\ object[me1] = c /\ pc'[me1] = "SignalUnlock"
        /\ UNCHANGED <<semQueue, lockQueue, waiting>>
        /\ hand'[me1] = First(condQueue[c]) /\ condQueue'[c] = Rest(condQueue[c])
        /\ \A d \in Condition : d # c => condQueue'[d] = condQueue[d]
    BY <1>11, Types DEF SignalRemove, Enter, SetLevel, Goto, semVars, lockVars, threadVars
  <2>2. /\ me1 \in Thread /\ me1 \notin waiting /\ hand[me1] = NULL
        /\ \A d \in Condition : ~On(me1, condQueue[d])
    BY <2>1, RunningIsAwake DEF WakeUpInv, CallShape, ShapeOf, Announcing
  <2>3. \A t \in Thread : t # me1 =>
          pc'[t] = pc[t] /\ object'[t] = object[t] /\ hand'[t] = hand[t] /\ WantedLock(t)' = WantedLock(t)
    BY <1>1 DEF OthersStay
  <2>4. \A t \in Thread : pc[t] # "WaitSleep"
    BY <2>1 DEF WakeUpInv, Uninterrupted, AtomicPoint, OnCPU
  <2>5. CASE condQueue[c] = << >>
    <3>1. /\ hand'[me1] = hand[me1]
          /\ \A d \in Condition : condQueue'[d] = condQueue[d]
      BY <2>1, <2>2, <2>5 DEF First, Rest
    <3>. HIDE DEF me1
    <3>2. SemSleepers' /\ LockSleepers'
      BY <1>0, <2>1, <2>2, <2>3 DEF SemSleepers, LockSleepers
    <3>3. CondSleepers'
      BY <1>0, <2>1, <2>2, <2>3, <3>1 DEF CondSleepers
    <3>4. HandSleepers'
      <4>1. \A u \in Thread : hand'[u] = hand[u]
        BY <2>3, <3>1
      <4>2. \A u \in Thread : hand[u] # NULL => pc'[hand[u]] = "WaitReacquire"
        BY <1>0, <2>2, <2>3, Types DEF HandSleepers
      <4>. QED BY <1>0, <2>1, <3>1, <4>1, <4>2 DEF HandSleepers
    <3>5. EverySleeper'
      BY <1>0, <2>1, <2>2, <2>3, <3>1 DEF EverySleeper
    <3>. QED BY <3>2, <3>3, <3>4, <3>5 DEF SleepersFound
  <2>6. CASE condQueue[c] # << >>
    <3>. DEFINE h == Head(condQueue[c])
    <3>1. /\ h \in Thread /\ On(h, condQueue[c])
          /\ \A t : On(t, Tail(condQueue[c])) => On(t, condQueue[c])
          /\ \A t : On(t, condQueue[c]) => On(t, Tail(condQueue[c])) \/ t = h
          /\ Once(Tail(condQueue[c])) /\ ~On(h, Tail(condQueue[c]))
      BY <1>0, <2>6, TailLemma, Types DEF CondSleepers
    <3>2. hand'[me1] = h /\ condQueue'[c] = Tail(condQueue[c])
      BY <2>1, <2>6 DEF First, Rest
    <3>3. /\ object[h] = c /\ pc[h] = "WaitReacquire" /\ h \in waiting /\ h # me1
          /\ \A l \in Lock : ~On(h, lockQueue[l])
          /\ \A u \in Thread : hand[u] # h
      BY <1>0, <2>2, <2>4, <3>1, NullAssumption DEF CondSleepers, HandSleepers
    <3>4. /\ \A d \in Condition : Once(condQueue'[d])
          /\ \A d \in Condition : \A t \in Thread :
               On(t, condQueue'[d]) <=> On(t, condQueue[d]) /\ t # h
      BY <1>0, <2>1, <3>1, <3>2, <3>3 DEF CondSleepers
    <3>. HIDE DEF me1, h
    <3>5. SemSleepers' /\ LockSleepers'
      BY <1>0, <2>1, <2>2, <2>3 DEF SemSleepers, LockSleepers
    <3>6. CondSleepers'
      BY <1>0, <2>1, <2>2, <2>3, <3>4 DEF CondSleepers
    <3>7. HandSleepers'
      <4>. SUFFICES ASSUME NEW u \in Thread, hand'[u] # NULL
                    PROVE  /\ hand'[u] \in waiting' /\ pc'[hand'[u]] = "WaitReacquire"
                           /\ \A l \in Lock : ~On(hand'[u], lockQueue'[l])
                           /\ \A d \in Condition : ~On(hand'[u], condQueue'[d])
                           /\ \A v \in Thread : hand'[v] = hand'[u] => v = u
        BY DEF HandSleepers
      <4>1. CASE u = me1
        BY <2>1, <2>3, <3>1, <3>2, <3>3, <3>4, <4>1
      <4>2. CASE u # me1
        <5>1. hand'[u] = hand[u] /\ hand[u] \in Thread /\ hand[u] # h /\ hand[u] # me1
          BY <1>0, <2>2, <2>3, <3>3, <4>2, Types DEF HandSleepers
        <5>2. \A v \in Thread : hand'[v] = hand'[u] => v = u
          BY <1>0, <2>3, <3>2, <4>2, <5>1 DEF HandSleepers
        <5>. QED BY <1>0, <2>1, <2>3, <3>4, <5>1, <5>2 DEF HandSleepers
      <4>. QED BY <4>1, <4>2
    <3>8. EverySleeper'
      <4>1. \A t \in Thread : pc'[t] # "WaitSleep"
        BY <2>1, <2>3, <2>4
      <4>2. \A t, u \in Thread : hand[u] = t => hand'[u] = t
        BY <2>2, <2>3, NullAssumption
      <4>. QED BY <1>0, <2>1, <2>2, <3>2, <3>4, <4>1, <4>2 DEF EverySleeper
    <3>. QED BY <3>5, <3>6, <3>7, <3>8 DEF SleepersFound
  <2>. QED BY <2>5, <2>6
<1>12. ASSUME NEW c \in Condition, SignalReady(c) PROVE SleepersFound'
  <2>. DEFINE me1 == currentThread
              h == hand[currentThread]
  <2>1. /\ Executing /\ pc[me1] = "SignalReady" /\ h # NULL /\ hand'[me1] = NULL
        /\ pc'[me1] \in {"client", "BroadcastNext"}
        /\ UNCHANGED <<semQueue, lockQueue, condQueue>>
        /\ waiting' = waiting \ {h}
    BY <1>12, Types DEF SignalReady, MakeReady, At, ReturnTo, Goto, semVars, lockVars
  <2>2. /\ me1 \in Thread /\ me1 \notin waiting
    BY <2>1, RunningIsAwake
  <2>3. /\ h \in waiting /\ h \in Thread /\ pc[h] = "WaitReacquire"
        /\ \A l \in Lock : ~On(h, lockQueue[l])
        /\ \A d \in Condition : ~On(h, condQueue[d])
        /\ \A v \in Thread : hand[v] = h => v = me1
    BY <1>0, <2>1, <2>2, Types DEF HandSleepers
  <2>4. \A t \in Thread : t # me1 =>
          pc'[t] = pc[t] /\ object'[t] = object[t] /\ hand'[t] = hand[t] /\ WantedLock(t)' = WantedLock(t)
    BY <1>1 DEF OthersStay
  <2>. HIDE DEF me1, h
  <2>5. SemSleepers'
    BY <1>0, <2>1, <2>2, <2>3, <2>4 DEF SemSleepers
  <2>6. LockSleepers'
    BY <1>0, <2>1, <2>2, <2>3, <2>4 DEF LockSleepers
  <2>7. CondSleepers'
    BY <1>0, <2>1, <2>2, <2>3, <2>4 DEF CondSleepers
  <2>8. HandSleepers'
    BY <1>0, <2>1, <2>2, <2>3, <2>4, Types DEF HandSleepers
  <2>9. EverySleeper'
    BY <1>0, <2>1, <2>2, <2>3, <2>4 DEF EverySleeper, h, me1
  <2>. QED BY <2>5, <2>6, <2>7, <2>8, <2>9 DEF SleepersFound
<1>. QED
  BY <1>3, <1>4, <1>5, <1>6, <1>8, <1>9, <1>10, <1>11, <1>12
  DEF SynchNext, RoutineStep, QuietCall, QuietKernel

\* Only the loops of P and Acquire give up the CPU with interrupts off.
LEMMA UninterruptedStep ==
    ASSUME WakeUpInv, [SynchNext]_vars
    PROVE  Uninterrupted'
<1>0. /\ KernelInv /\ Uninterrupted /\ CallShape
      /\ [KernelNext]_kernelVars
  BY SynchStepIsKernelStep DEF WakeUpInv, SynchInv
<1>1. /\ currentThread \in Thread
      /\ \A t \in Thread : t # currentThread => pc'[t] = pc[t] /\ object'[t] = object[t]
  BY Types, OthersLemma DEF OthersStay
<1>2. ASSUME pc' = pc \/ Executing
      PROVE  \A t \in Thread : pc'[t] # "client" => status'[t] \notin {"UNALLOCATED", "JUST_CREATED"}
  <2>1. Executing => status[currentThread] = "RUNNING"
    BY <1>0 DEF KernelInv, KernelTypeOK, OneRunningThread
  <2>2. \A t \in Thread : pc'[t] # "client" => status[t] \notin {"UNALLOCATED", "JUST_CREATED"}
    BY <1>0, <1>1, <1>2, <2>1 DEF Uninterrupted
  <2>. QED BY <1>0, <2>2, StaysForked
<1>. DEFINE Level1 == \A t \in Thread :
        /\ pc'[t] \in AtomicPoint => OnCPU(t)' /\ level' = "IntOff"
        /\ pc'[t] \in LoopPoint => IF OnCPU(t)' THEN level' = "IntOff" ELSE resumeLevel'[t] = "IntOff"
<1>. HIDE DEF Level1
<1>3. ASSUME Level1, pc' = pc \/ Executing PROVE Uninterrupted'
  BY <1>2, <1>3 DEF Uninterrupted, Level1
<1>4. ASSUME Executing, UNCHANGED <<currentThread, mode, resumeLevel>>,
             pc'[currentThread] \in AtomicPoint \cup LoopPoint => level' = "IntOff"
      PROVE  Uninterrupted'
  <2>1. Level1
    BY <1>0, <1>1, <1>4 DEF Uninterrupted, OnCPU, Executing, Level1
  <2>. QED BY <1>3, <1>4, <2>1
<1>5. ASSUME NEW p, NEW o, NEW q, Enter(p, o, q) PROVE Uninterrupted'
  BY <1>4, <1>5 DEF Enter, SetLevel, threadVars
<1>6. CASE CallStep
  BY <1>5, <1>6 DEF CallStep, CallP, CallV, CallAcquire, CallRelease, CallWait, CallSignal
<1>7. CASE \E c \in Condition : SignalRemove(c) \/ BroadcastNext(c)
  BY <1>5, <1>7 DEF SignalRemove, BroadcastNext
<1>8. CASE Restore
  <2>1. Executing /\ UNCHANGED <<currentThread, mode, resumeLevel>>
    BY <1>8 DEF Restore, SetLevel, threadVars
  <2>2. pc'[currentThread] \in {"client", "SignalRemove", "SignalReady"}
    BY <1>8, Types DEF Restore, ReturnTo, Goto
  <2>. QED BY <1>4, <2>1, <2>2 DEF AtomicPoint, LoopPoint
<1>9. ASSUME Executing, UNCHANGED <<cpuVars, resumeLevel>>,
             pc[currentThread] \in AtomicPoint \cup LoopPoint
      PROVE  Uninterrupted'
  BY <1>0, <1>1, <1>4, <1>9 DEF Uninterrupted, OnCPU, cpuVars
<1>10. ASSUME NEW queue, WakeFirst(queue), Executing,
              pc[currentThread] \in AtomicPoint \cup LoopPoint
       PROVE  Uninterrupted'
  BY <1>9, <1>10 DEF WakeFirst, MakeReady, kernelVars, threadVars
<1>11. ASSUME NEW s \in Semaphore, PTake(s) \/ VBody(s) PROVE Uninterrupted'
  BY <1>9, <1>10, <1>11 DEF PTake, VBody, At, AtomicPoint, LoopPoint, kernelVars, threadVars
<1>12. ASSUME NEW l, ReleaseBody(l), Executing, pc[currentThread] \in AtomicPoint \cup LoopPoint
       PROVE  Uninterrupted'
  BY <1>9, <1>10, <1>12 DEF ReleaseBody, kernelVars, threadVars
<1>13. ASSUME NEW l \in Lock, AcquireTake(l) \/ Release(l) PROVE Uninterrupted'
  <2>1. pc[currentThread] \in AtomicPoint \cup LoopPoint /\ Executing
    BY <1>13, ObjectAssumption DEF AcquireTake, Release, WantedLock, At, AtomicPoint, LoopPoint
  <2>. QED BY <1>9, <1>12, <1>13, <2>1 DEF AcquireTake, Release, kernelVars, threadVars
<1>14. ASSUME NEW c \in Condition, WaitRelease(c) \/ SignalUnlock(c) \/ WaitEnqueue(c) PROVE Uninterrupted'
  <2>1. pc[currentThread] \in AtomicPoint \cup LoopPoint /\ Executing
    BY <1>14 DEF WaitRelease, SignalUnlock, WaitEnqueue, At, AtomicPoint, LoopPoint
  <2>. QED BY <1>10, <1>12, <1>14, <2>1 DEF WaitRelease, SignalUnlock, WaitEnqueue
<1>15. ASSUME NEW c \in Condition, SignalReady(c) \/ SignalReturn(c) PROVE Uninterrupted'
  <2>1. Executing /\ UNCHANGED <<currentThread, mode, resumeLevel>>
    BY <1>15 DEF SignalReady, SignalReturn, MakeReady, At, cpuVars, threadVars, kernelVars
  <2>2. pc'[currentThread] \in {"client", "BroadcastNext"}
    BY <1>15, Types DEF SignalReady, SignalReturn, ReturnTo, Goto
  <2>. QED BY <1>4, <2>1, <2>2 DEF AtomicPoint, LoopPoint
<1>16. ASSUME Block, pc[currentThread] \in LoopPoint \cup {"WaitSleep"},
              pc'[currentThread] \in LoopPoint
       PROVE  Uninterrupted'
  <2>0. Sleep
    BY <1>16, SleepIsAllowed
  <2>1. Executing /\ level = "IntOff"
    BY <2>0 DEF Sleep, Block
  <2>2. /\ \A t \in Thread : t # currentThread => resumeLevel'[t] = resumeLevel[t]
        /\ resumeLevel'[currentThread] = "IntOff"
        /\ \/ mode' = "IdleMode"
           \/ /\ currentThread' \in Thread /\ mode' = "SystemMode"
              /\ level' = resumeLevel[currentThread']
              /\ currentThread' # currentThread
    BY <1>0, <2>0, <2>1, SwitchLemma
  <2>3. \A t \in Thread : pc'[t] \notin AtomicPoint
    BY <1>0, <1>1, <1>16 DEF Uninterrupted, OnCPU, AtomicPoint, LoopPoint
  <2>4. Level1
    BY <1>0, <1>1, <2>2, <2>3 DEF Uninterrupted, OnCPU, Executing, Level1
  <2>. QED BY <1>3, <2>1, <2>4
<1>17. CASE \E s \in Semaphore : PSleep(s)
  BY <1>16, <1>17 DEF PSleep, At, callVars, LoopPoint
<1>18. ASSUME NEW l \in Lock, AcquireSleep(l) PROVE Uninterrupted'
  BY <1>16, <1>18, SleepsOnClientLock DEF AcquireSleep, callVars, LoopPoint
<1>19. CASE \E c \in Condition : WaitSleep(c)
  BY <1>16, <1>19, Types DEF WaitSleep, At, Goto, LoopPoint
<1>20. ASSUME pc' = pc, UNCHANGED <<cpuVars, resumeLevel>> PROVE Uninterrupted'
  <2>1. Level1
    BY <1>0, <1>20 DEF Uninterrupted, OnCPU, Executing, cpuVars, Level1
  <2>. QED BY <1>3, <1>20, <2>1
<1>21. CASE (\E s \in Semaphore : HandlerV(s)) \/ HandlerNoop
  BY <1>20, <1>21 DEF HandlerV, HandlerNoop, RunHandler, threadVars, callVars, synchVars
<1>22. CASE Stopped \/ UNCHANGED vars
  BY <1>20, <1>22 DEF Stopped, Terminated, vars, kernelVars, threadVars, callVars, synchVars
<1>23. ASSUME pc' = pc, pc[currentThread] \notin AtomicPoint \cup LoopPoint,
              Finish \/ (Yield /\ readyList # << >>)
       PROVE  Uninterrupted'
  <2>1. Executing
    BY <1>23 DEF Finish, Yield
  <2>2. /\ \A t \in Thread : t # currentThread => resumeLevel'[t] = resumeLevel[t]
        /\ \/ mode' = "IdleMode"
           \/ /\ currentThread' \in Thread /\ mode' = "SystemMode"
              /\ level' = resumeLevel[currentThread']
              /\ currentThread' # currentThread
    BY <1>0, <1>23, <2>1, SwitchLemma
  <2>3. \A t \in Thread : pc'[t] \notin AtomicPoint
    BY <1>0, <1>23 DEF Uninterrupted, OnCPU
  <2>4. Level1
    BY <1>0, <1>23, <2>2, <2>3 DEF Uninterrupted, OnCPU, Executing, Level1
  <2>. QED BY <1>3, <1>23, <2>4
<1>24. CASE ThreadYield
  <2>1. pc' = pc /\ Executing
    BY <1>24 DEF ThreadYield, Yield, synchVars, callVars
  <2>2. pc[currentThread] \notin AtomicPoint \cup LoopPoint
    BY <1>0, <1>1, <1>24, <2>1 DEF ThreadYield, Uninterrupted, OnCPU, AtomicPoint, LoopPoint
  <2>3. CASE UNCHANGED kernelVars
    BY <1>20, <2>1, <2>3 DEF kernelVars, threadVars
  <2>. QED BY <1>23, <1>24, <2>1, <2>2, <2>3 DEF ThreadYield, Yield
<1>25. CASE ClientStep
  <2>1. pc' = pc /\ pc[currentThread] = "client"
    BY <1>25 DEF ClientStep, synchVars, callVars
  <2>2. pc[currentThread] \notin AtomicPoint \cup LoopPoint
    BY <2>1 DEF AtomicPoint, LoopPoint
  <2>3. CASE Schedule \/ \E t \in Thread : Create(t)
    BY <1>20, <2>1, <2>3 DEF Create, Schedule, threadVars
  <2>4. ASSUME NEW t \in Thread, Fork(t) PROVE Uninterrupted'
    <3>1. /\ resumeLevel' = [resumeLevel EXCEPT ![t] = "IntOn"] /\ status[t] = "JUST_CREATED"
          /\ UNCHANGED <<currentThread, mode, level>>
      BY <2>4 DEF Fork
    <3>2. pc[t] = "client"
      BY <1>0, <3>1 DEF Uninterrupted
    <3>3. \A u \in Thread : u # t => resumeLevel'[u] = resumeLevel[u]
      BY <1>0, <3>1 DEF KernelInv, KernelTypeOK
    <3>4. Level1
      BY <1>0, <2>1, <3>1, <3>2, <3>3 DEF Uninterrupted, OnCPU, Executing, AtomicPoint, LoopPoint, Level1
    <3>. QED BY <1>3, <2>1, <3>4
  <2>5. ASSUME NEW now \in Level, SetLevel(now) PROVE Uninterrupted'
    BY <1>4, <2>1, <2>2, <2>5 DEF SetLevel, threadVars
  <2>6. CASE Finish
    BY <1>23, <2>1, <2>2, <2>6
  <2>7. CASE Halt
    <3>1. UNCHANGED <<currentThread, resumeLevel>> /\ mode' = "Halted"
      BY <2>7 DEF Halt, threadVars
    <3>2. Level1
      BY <1>0, <2>1, <2>2, <3>1 DEF Uninterrupted, OnCPU, Executing, Level1
    <3>. QED BY <1>3, <2>1, <3>2
  <2>. QED BY <1>25, <2>3, <2>4, <2>5, <2>6, <2>7 DEF ClientStep
<1>26. CASE Idle
  <2>1. pc' = pc /\ mode = "IdleMode"
    BY <1>26 DEF Idle, IdleDispatch, IdleHalt, synchVars, callVars
  <2>2. \A t \in Thread : ~OnCPU(t)
    BY <2>1 DEF OnCPU, Executing
  <2>3. CASE IdleHalt
    <3>1. resumeLevel' = resumeLevel /\ mode' = "Halted"
      BY <2>3 DEF IdleHalt, threadVars
    <3>2. Level1
      BY <1>0, <2>1, <2>2, <3>1 DEF Uninterrupted, OnCPU, Executing, Level1
    <3>. QED BY <1>3, <2>1, <3>2
  <2>4. CASE IdleDispatch
    <3>1. /\ resumeLevel' = resumeLevel
          /\ \/ mode' = "IdleMode"
             \/ /\ currentThread' \in Thread /\ mode' = "SystemMode"
                /\ level' = resumeLevel[currentThread']
      BY <1>0, <2>4, SwitchLemma
    <3>2. Level1
      BY <1>0, <2>1, <2>2, <3>1 DEF Uninterrupted, OnCPU, Executing, Level1
    <3>. QED BY <1>3, <2>1, <3>2
  <2>. QED BY <1>26, <2>3, <2>4 DEF Idle
<1>. QED
  BY <1>6, <1>7, <1>8, <1>11, <1>13, <1>14, <1>15, <1>17, <1>18, <1>19, <1>21, <1>22, <1>24, <1>25, <1>26
  DEF SynchNext, RoutineStep

\* A step of the running thread keeps the three parts about calls and locks, if
\* it keeps them for that thread and leaves the locks of the others alone.
LEMMA OwnStep ==
    ASSUME WakeUpInv, OthersStay, Executing, NEW x \in Thread, x = currentThread,
           ShapeOf(x)',
           pc'[x] = "Wait" \/ Signalling(x)' =>
               activeThread'[conditionLock[object'[x]]] = x,
           \A c \in Condition : activeThread'[queueLock[c]] = x => InQueueLock(x, c)',
           \A l \in Lock : activeThread'[l] = activeThread[l]
                           \/ {activeThread[l], activeThread'[l]} \subseteq {x, NULL},
           \A u \in Thread : u # x /\ Signalling(u) /\ pc'[x] \in {"WaitLock", "WaitSleep"}
               => object[u] # object'[x],
           \A c \in Condition : lockQueue'[queueLock[c]] = << >>,
           Announcing(x)' /\ hand'[x] = NULL =>
               condQueue'[object'[x]] = << >>,
           \A t \in Thread : t # x /\ Announcing(t) /\ hand[t] = NULL =>
               condQueue'[object[t]] = << >>
    PROVE  CallShape' /\ LockDiscipline' /\ NobodyLeft'
<1>0. /\ CallShape /\ LockDiscipline /\ NobodyLeft /\ Uninterrupted
  BY DEF WakeUpInv
<1>1. \A t \in Thread : t # x =>
        /\ pc'[t] = pc[t] /\ object'[t] = object[t] /\ then'[t] = then[t] /\ hand'[t] = hand[t]
  BY DEF OthersStay
<1>2. \A t \in Thread : t # x =>
        /\ ShapeOf(t)' <=> ShapeOf(t)
        /\ Signalling(t)' <=> Signalling(t)
        /\ Announcing(t)' <=> Announcing(t)
        /\ \A c \in Condition : InQueueLock(t, c)' <=> InQueueLock(t, c)
  BY <1>1 DEF ShapeOf, Signalling, Announcing, InQueueLock
<1>3. CallShape'
  BY <1>0, <1>2 DEF CallShape
<1>4. \A t \in Thread : t # x => pc[t] \notin {"WaitLock", "WaitSleep"}
  BY <1>0 DEF Uninterrupted, OnCPU, AtomicPoint
<1>5. \A t \in Thread : (pc[t] = "Wait" \/ Signalling(t)) /\ t # x =>
        activeThread'[conditionLock[object[t]]] = t
  <2>. SUFFICES ASSUME NEW t \in Thread, pc[t] = "Wait" \/ Signalling(t), t # x
                PROVE  activeThread'[conditionLock[object[t]]] = t
    OBVIOUS
  <2>1. object[t] \in Condition /\ activeThread[conditionLock[object[t]]] = t
    BY <1>0 DEF CallShape, ShapeOf, LockDiscipline
  <2>2. conditionLock[object[t]] \in Lock
    BY <2>1, ConditionLockAssumption
  <2>. QED BY <2>1, <2>2, NullAssumption
<1>6. \A t \in Thread : pc'[t] = "Wait" \/ Signalling(t)' => activeThread'[conditionLock[object'[t]]] = t
  BY <1>1, <1>2, <1>5
<1>7. \A t \in Thread : \A c \in Condition : activeThread'[queueLock[c]] = t => InQueueLock(t, c)'
  <2>. SUFFICES ASSUME NEW t \in Thread, NEW c \in Condition, activeThread'[queueLock[c]] = t,
                       t # x
                PROVE  InQueueLock(t, c)'
    OBVIOUS
  <2>1. activeThread[queueLock[c]] = t
    BY QueueLockAssumption, NullAssumption
  <2>. QED BY <1>0, <1>2, <2>1 DEF LockDiscipline
<1>8. \A t, u \in Thread : pc'[t] \in {"WaitLock", "WaitSleep"} /\ Signalling(u)' => object'[u] # object'[t]
  <2>. SUFFICES ASSUME NEW t \in Thread, NEW u \in Thread,
                       pc'[t] \in {"WaitLock", "WaitSleep"}, Signalling(u)'
                PROVE  object'[u] # object'[t]
    OBVIOUS
  <2>1. t = x
    BY <1>1, <1>4
  <2>2. u # x
    BY <2>1 DEF Signalling
  <2>. QED BY <1>1, <1>2, <2>1, <2>2
<1>9. LockDiscipline'
  BY <1>6, <1>7, <1>8 DEF LockDiscipline
<1>10. NobodyLeft'
  BY <1>1, <1>2 DEF NobodyLeft
<1>. QED BY <1>3, <1>9, <1>10

\* The calls, the locks they need and the queues they emptied stay in order.
LEMMA CallsStep ==
    ASSUME WakeUpInv, [SynchNext]_vars
    PROVE  CallShape' /\ LockDiscipline' /\ NobodyLeft'
<1>0. /\ CallShape /\ LockDiscipline /\ NobodyLeft /\ OthersStay
      /\ \A t \in Thread : ShapeOf(t)
      /\ \A c \in Condition : lockQueue[queueLock[c]] = << >>
  BY OthersLemma DEF WakeUpInv, CallShape, LockDiscipline
<1>. PICK x \in Thread : x = currentThread
  BY Types
<1>. DEFINE Goal == CallShape' /\ LockDiscipline' /\ NobodyLeft'
<1>. HIDE DEF Goal
<1>1. ASSUME UNCHANGED <<callVars, activeThread, condQueue>>,
             \A c \in Condition : lockQueue'[queueLock[c]] = << >>
      PROVE  Goal
  BY <1>0, <1>1 DEF callVars, CallShape, ShapeOf, LockDiscipline, NobodyLeft, Signalling, Announcing,
                    InQueueLock, Goal
<1>2. ASSUME Executing, UNCHANGED <<activeThread, lockQueue, condQueue>>,
             ShapeOf(x)',
             pc'[x] = "Wait" \/ Signalling(x)' => activeThread[conditionLock[object'[x]]] = x,
             \A c \in Condition : activeThread[queueLock[c]] = x => InQueueLock(x, c)',
             pc'[x] \notin {"WaitLock", "WaitSleep"},
             Announcing(x)' /\ hand'[x] = NULL => Announcing(x) /\ hand[x] = NULL /\ object'[x] = object[x]
      PROVE  Goal
  <2>1. \A t \in Thread : Announcing(t) /\ hand[t] = NULL => condQueue'[object[t]] = << >>
    BY <1>0, <1>2 DEF NobodyLeft
  <2>. QED BY <1>0, <1>2, <2>1, OwnStep DEF Goal
\* Calls from "client", and Broadcast's next turn: the caller holds no queue lock.
<1>3. ASSUME NEW p, NEW o, NEW q, Enter(p, o, q), UNCHANGED <<lockVars, condQueue>>
      PROVE  /\ Executing /\ UNCHANGED <<activeThread, lockQueue, condQueue>>
             /\ pc'[x] = p /\ object'[x] = o /\ then'[x] = q
  BY <1>3, Types DEF Enter, SetLevel, Goto, lockVars
<1>4. pc[x] \in {"client", "BroadcastNext"} =>
        /\ hand[x] = NULL
        /\ \A c \in Condition : activeThread[queueLock[c]] # x
  BY <1>0 DEF ShapeOf, Announcing, LockDiscipline, InQueueLock
<1>5. ASSUME NEW s \in Semaphore, CallP(s) \/ CallV(s) PROVE Goal
  <2>1. /\ Executing /\ UNCHANGED <<activeThread, lockQueue, condQueue>> /\ pc[x] = "client"
        /\ pc'[x] \in {"P", "V"} /\ object'[x] = s /\ then'[x] = "client" /\ hand'[x] = hand[x]
    BY <1>3, <1>5 DEF CallP, CallV
  <2>. QED BY <1>2, <1>4, <2>1 DEF ShapeOf, Signalling, Announcing, LoopPoint
<1>6. ASSUME NEW l \in ClientLock, CallAcquire(l) \/ CallRelease(l) PROVE Goal
  <2>1. /\ Executing /\ UNCHANGED <<activeThread, lockQueue, condQueue>> /\ pc[x] = "client"
        /\ pc'[x] \in {"Acquire", "Release"} /\ object'[x] = l /\ then'[x] = "client" /\ hand'[x] = hand[x]
    BY <1>3, <1>6 DEF CallAcquire, CallRelease
  <2>. QED BY <1>2, <1>4, <2>1 DEF ShapeOf, Signalling, Announcing, LoopPoint
<1>7. ASSUME NEW c \in Condition, CallWait(c) PROVE Goal
  <2>1. /\ Executing /\ UNCHANGED <<activeThread, lockQueue, condQueue>> /\ pc[x] = "client"
        /\ pc'[x] = "Wait" /\ object'[x] = c /\ then'[x] = "client" /\ hand'[x] = hand[x]
        /\ activeThread[conditionLock[c]] = x
    BY <1>3, <1>7 DEF CallWait, isHeldByCurrentThread
  <2>. QED BY <1>2, <1>4, <2>1 DEF ShapeOf, Signalling, Announcing, LoopPoint
<1>8. ASSUME NEW c \in Condition, (\E toAll \in BOOLEAN : CallSignal(c, toAll)) \/ BroadcastNext(c) PROVE Goal
  <2>1. /\ Executing /\ UNCHANGED <<activeThread, lockQueue, condQueue>>
        /\ pc[x] \in {"client", "BroadcastNext"}
        /\ pc'[x] = "SignalLock" /\ object'[x] = c /\ then'[x] = "SignalRemove" /\ hand'[x] = hand[x]
    BY <1>3, <1>8 DEF CallSignal, BroadcastNext
  <2>2. activeThread[conditionLock[c]] = x
    BY <1>0, <1>8 DEF CallSignal, BroadcastNext, isHeldByCurrentThread, LockDiscipline, Signalling
  <2>. QED BY <1>2, <1>4, <2>1, <2>2 DEF ShapeOf, Signalling, Announcing, LoopPoint
<1>9. ASSUME Restore PROVE Goal
  <2>1. /\ Executing /\ UNCHANGED <<activeThread, lockQueue, condQueue>> /\ pc[x] = "restore"
        /\ pc'[x] = then[x] /\ then'[x] = "client" /\ hand'[x] = hand[x]
        /\ then[x] # "client" => object'[x] = object[x]
        /\ then[x] \in {"client", "SignalRemove", "SignalReady"}
    BY <1>9, Types DEF Restore, SetLevel, ReturnTo, Goto, lockVars
  <2>2. then[x] # "client" => object[x] \in Condition /\ activeThread[conditionLock[object[x]]] = x
    BY <1>0, <2>1 DEF ShapeOf, LockDiscipline, Signalling
  <2>3. ShapeOf(x)'
    BY <1>0, <2>1, <2>2 DEF ShapeOf, Signalling, Announcing, LoopPoint
  <2>4. \A c \in Condition : activeThread[queueLock[c]] = x => InQueueLock(x, c)'
    BY <1>0, <2>1 DEF LockDiscipline, InQueueLock
  <2>. QED BY <1>2, <2>1, <2>2, <2>3, <2>4 DEF Signalling, Announcing
<1>10. ASSUME NEW s \in Semaphore, PTake(s) \/ VBody(s) PROVE Goal
  <2>1. /\ Executing /\ UNCHANGED <<activeThread, lockQueue, condQueue>>
        /\ pc[x] \in {"P", "V"} /\ pc'[x] = "restore"
        /\ then'[x] = then[x] /\ hand'[x] = hand[x]
    BY <1>10, Types DEF PTake, VBody, At, Goto, lockVars
  <2>2. then[x] = "client" /\ hand[x] = NULL /\ \A c \in Condition : activeThread[queueLock[c]] # x
    BY <1>0, <2>1 DEF ShapeOf, Announcing, LoopPoint, LockDiscipline, InQueueLock
  <2>. QED BY <1>2, <2>1, <2>2 DEF ShapeOf, Signalling, Announcing, LoopPoint
<1>11. ASSUME NEW l \in Lock, AcquireTake(l) PROVE Goal
  <2>1. /\ Executing /\ UNCHANGED <<lockQueue, condQueue>>
        /\ pc[x] \in {"Acquire", "SignalLock", "WaitReacquire"} /\ pc'[x] = "restore"
        /\ then'[x] = then[x] /\ hand'[x] = hand[x] /\ object'[x] = object[x]
        /\ free[l] /\ activeThread'[l] = x /\ WantedLock(x) = l
        /\ \A m \in Lock : m # l => activeThread'[m] = activeThread[m]
    BY <1>11, Types, ObjectAssumption DEF AcquireTake, Goto, WantedLock
  <2>2. hand[x] = NULL /\ \A c \in Condition : activeThread[queueLock[c]] # x
    BY <1>0, <2>1 DEF ShapeOf, Announcing, LockDiscipline, InQueueLock
  <2>3. activeThread[l] = NULL
    BY <2>1 DEF WakeUpInv, SynchInv, MutualExclusion
  <2>4. CASE pc[x] = "SignalLock"
    <3>1. /\ object[x] \in Condition /\ then[x] = "SignalRemove" /\ l = queueLock[object[x]]
          /\ activeThread[conditionLock[object[x]]] = x
      BY <1>0, <2>1, <2>4 DEF ShapeOf, Signalling, WantedLock, LockDiscipline
    <3>2. \A c \in Condition : activeThread'[queueLock[c]] = x => InQueueLock(x, c)'
      BY <2>1, <2>2, <3>1, QueueLockAssumption DEF InQueueLock
    <3>3. activeThread'[conditionLock[object[x]]] = x
      BY <2>1, <3>1, ConditionLockAssumption
    <3>4. ShapeOf(x)'
      BY <2>1, <2>2, <3>1 DEF ShapeOf, Signalling, Announcing, LoopPoint
    <3>5. ~Announcing(x)'
      BY <2>1, <3>1 DEF Announcing
    <3>6. \A t \in Thread : Announcing(t) /\ hand[t] = NULL => condQueue'[object[t]] = << >>
      BY <1>0, <2>1 DEF NobodyLeft
    <3>7. \A m \in Lock : activeThread'[m] = activeThread[m]
                          \/ {activeThread[m], activeThread'[m]} \subseteq {x, NULL}
      BY <2>1, <2>3
    <3>. QED BY <1>0, <2>1, <3>2, <3>3, <3>4, <3>5, <3>6, <3>7, OwnStep DEF Goal
  <2>5. CASE pc[x] \in {"Acquire", "WaitReacquire"}
    <3>1. then[x] = "client" /\ \A c \in Condition : queueLock[c] # l
      <4>1. CASE pc[x] = "Acquire"
        BY <1>0, <2>1, <4>1 DEF ShapeOf, LoopPoint, WantedLock, ClientLock
      <4>2. CASE pc[x] = "WaitReacquire"
        BY <1>0, <2>1, <4>2, ConditionLockAssumption DEF ShapeOf, LoopPoint, WantedLock
      <4>. QED BY <2>5, <4>1, <4>2
    <3>2. \A c \in Condition : activeThread'[queueLock[c]] # x
      BY <2>1, <2>2, <3>1, QueueLockAssumption
    <3>4. ShapeOf(x)' /\ ~Announcing(x)' /\ ~Signalling(x)'
      BY <2>1, <2>2, <3>1 DEF ShapeOf, Signalling, Announcing, LoopPoint
    <3>6. \A t \in Thread : Announcing(t) /\ hand[t] = NULL => condQueue'[object[t]] = << >>
      BY <1>0, <2>1 DEF NobodyLeft
    <3>7. \A m \in Lock : activeThread'[m] = activeThread[m]
                          \/ {activeThread[m], activeThread'[m]} \subseteq {x, NULL}
      BY <2>1, <2>3
    <3>. QED BY <1>0, <2>1, <3>2, <3>4, <3>6, <3>7, OwnStep DEF Goal
  <2>. QED BY <2>1, <2>4, <2>5
\* What any Release does to the queue locks and to the holders.
<1>12. ASSUME NEW l \in Lock, ReleaseBody(l)
       PROVE  /\ \A m \in Lock : activeThread'[m] = activeThread[m]
                                 \/ (m = l /\ activeThread[m] = x /\ activeThread'[m] = NULL)
              /\ activeThread'[l] # x
              /\ \A c \in Condition : lockQueue'[queueLock[c]] = << >>
  <2>1. /\ \A m \in Lock : m # l => lockQueue'[m] = lockQueue[m] /\ activeThread'[m] = activeThread[m]
        /\ Woken(lockQueue[l], lockQueue'[l])
        /\ \/ activeThread[l] # x /\ UNCHANGED activeThread
           \/ activeThread[l] = x /\ activeThread'[l] = NULL
    BY <1>12, ReleaseWakes
  <2>2. lockQueue[l] = << >> => lockQueue'[l] = << >>
    BY <2>1 DEF Woken
  <2>3. \A c \in Condition : lockQueue'[queueLock[c]] = << >>
    BY <1>0, <2>1, <2>2, QueueLockAssumption
  <2>. QED BY <2>1, <2>3, NullAssumption
<1>13. ASSUME NEW l \in Lock, Release(l) PROVE Goal
  <2>1. /\ Executing /\ condQueue' = condQueue
        /\ pc[x] = "Release" /\ pc'[x] = "restore" /\ object[x] = l
        /\ then'[x] = then[x] /\ hand'[x] = hand[x]
    BY <1>13, Types DEF Release, At, Goto
  <2>2. then[x] = "client" /\ hand[x] = NULL /\ \A c \in Condition : activeThread[queueLock[c]] # x
    BY <1>0, <2>1 DEF ShapeOf, Announcing, LockDiscipline, InQueueLock
  <2>3. ShapeOf(x)' /\ ~Announcing(x)' /\ ~Signalling(x)'
    BY <2>1, <2>2 DEF ShapeOf, Signalling, Announcing, LoopPoint
  <2>4. /\ \A m \in Lock : activeThread'[m] = activeThread[m]
                           \/ (m = l /\ activeThread[m] = x /\ activeThread'[m] = NULL)
        /\ \A c \in Condition : lockQueue'[queueLock[c]] = << >>
    BY <1>12, <1>13 DEF Release
  <2>5. \A c \in Condition : activeThread'[queueLock[c]] # x
    BY <2>2, <2>4, QueueLockAssumption, NullAssumption
  <2>6. \A t \in Thread : Announcing(t) /\ hand[t] = NULL => condQueue'[object[t]] = << >>
    BY <1>0, <2>1 DEF NobodyLeft
  <2>7. \A m \in Lock : activeThread'[m] = activeThread[m]
                        \/ {activeThread[m], activeThread'[m]} \subseteq {x, NULL}
    BY <2>4
  <2>. QED BY <1>0, <2>1, <2>3, <2>4, <2>5, <2>6, <2>7, OwnStep DEF Goal
<1>14. ASSUME NEW c \in Condition, WaitRelease(c) PROVE Goal
  <2>1. /\ Executing /\ condQueue' = condQueue
        /\ pc[x] = "Wait" /\ pc'[x] = "WaitLock" /\ object[x] = c /\ object'[x] = c
        /\ then'[x] = then[x] /\ hand'[x] = hand[x]
    BY <1>14, Types DEF WaitRelease, At, Goto
  <2>2. /\ then[x] = "client" /\ hand[x] = NULL /\ \A d \in Condition : activeThread[queueLock[d]] # x
        /\ activeThread[conditionLock[c]] = x
    BY <1>0, <2>1 DEF ShapeOf, Announcing, LockDiscipline, InQueueLock
  <2>3. ShapeOf(x)' /\ ~Announcing(x)' /\ ~Signalling(x)'
    BY <2>1, <2>2 DEF ShapeOf, Signalling, Announcing, LoopPoint
  <2>4. /\ \A m \in Lock : activeThread'[m] = activeThread[m]
                           \/ (m = conditionLock[c] /\ activeThread[m] = x /\ activeThread'[m] = NULL)
        /\ \A d \in Condition : lockQueue'[queueLock[d]] = << >>
    BY <1>12, <1>14, ConditionLockAssumption DEF WaitRelease
  <2>5. \A d \in Condition : activeThread'[queueLock[d]] # x
    BY <2>2, <2>4, QueueLockAssumption, NullAssumption
  <2>6. \A t \in Thread : Announcing(t) /\ hand[t] = NULL => condQueue'[object[t]] = << >>
    BY <1>0, <2>1 DEF NobodyLeft
  <2>7. \A m \in Lock : activeThread'[m] = activeThread[m]
                        \/ {activeThread[m], activeThread'[m]} \subseteq {x, NULL}
    BY <2>4
  <2>8. \A u \in Thread : u # x /\ Signalling(u) => object[u] # c
    BY <1>0, <2>2 DEF LockDiscipline
  <2>. QED BY <1>0, <2>1, <2>3, <2>4, <2>5, <2>6, <2>7, <2>8, OwnStep DEF Goal
<1>15. ASSUME NEW c \in Condition, SignalUnlock(c) PROVE Goal
  <2>1. /\ Executing /\ condQueue' = condQueue
        /\ pc[x] = "SignalUnlock" /\ pc'[x] = "restore" /\ object[x] = c /\ object'[x] = c
        /\ then'[x] = then[x] /\ hand'[x] = hand[x]
    BY <1>15, Types DEF SignalUnlock, At, Goto
  <2>2. /\ then[x] = "SignalReady" /\ activeThread[conditionLock[c]] = x
        /\ \A d \in Condition : activeThread[queueLock[d]] = x => d = c
    BY <1>0, <2>1 DEF ShapeOf, LockDiscipline, Signalling, InQueueLock
  <2>3. ShapeOf(x)'
    BY <2>1, <2>2 DEF ShapeOf, Signalling, Announcing, LoopPoint
  <2>4. /\ \A m \in Lock : activeThread'[m] = activeThread[m]
                           \/ (m = queueLock[c] /\ activeThread[m] = x /\ activeThread'[m] = NULL)
        /\ activeThread'[queueLock[c]] # x
        /\ \A d \in Condition : lockQueue'[queueLock[d]] = << >>
    BY <1>12, <1>15, QueueLockAssumption DEF SignalUnlock
  <2>5. \A d \in Condition : activeThread'[queueLock[d]] # x
    BY <2>2, <2>4, QueueLockAssumption, NullAssumption
  <2>6. \A t \in Thread : Announcing(t) /\ hand[t] = NULL => condQueue'[object[t]] = << >>
    BY <1>0, <2>1 DEF NobodyLeft
  <2>7. \A m \in Lock : activeThread'[m] = activeThread[m]
                        \/ {activeThread[m], activeThread'[m]} \subseteq {x, NULL}
    BY <2>4
  <2>8. activeThread'[conditionLock[c]] = x
    BY <2>2, <2>4, ConditionLockAssumption
  <2>9. Announcing(x)
    BY <2>1 DEF Announcing
  <2>. QED BY <1>0, <2>1, <2>3, <2>4, <2>5, <2>6, <2>7, <2>8, <2>9, OwnStep DEF Goal
<1>16. ASSUME NEW c \in Condition, WaitEnqueue(c) PROVE Goal
  <2>1. /\ Executing /\ pc[x] = "WaitLock" /\ pc'[x] = "WaitSleep" /\ object[x] = c /\ object'[x] = c
        /\ then'[x] = then[x] /\ hand'[x] = hand[x]
        /\ \A d \in Condition : d # c => condQueue'[d] = condQueue[d]
    BY <1>16, Types DEF WaitEnqueue, At, Goto
  <2>2. activeThread' = activeThread /\ \A l \in Lock : lockQueue'[l] = lockQueue[l]
    BY <1>16, EnqueueWakesNobody
  <2>3. then[x] = "client" /\ hand[x] = NULL /\ \A d \in Condition : activeThread[queueLock[d]] # x
    BY <1>0, <2>1 DEF ShapeOf, Announcing, LockDiscipline, InQueueLock
  <2>4. ShapeOf(x)' /\ ~Announcing(x)' /\ ~Signalling(x)'
    BY <2>1, <2>3 DEF ShapeOf, Signalling, Announcing, LoopPoint
  <2>5. \A u \in Thread : Signalling(u) => object[u] \in Condition /\ object[u] # c
    BY <1>0, <2>1 DEF LockDiscipline, ShapeOf
  <2>6. \A t \in Thread : Announcing(t) /\ hand[t] = NULL => condQueue'[object[t]] = << >>
    BY <1>0, <2>1, <2>5 DEF NobodyLeft, Announcing, Signalling
  <2>7. \A d \in Condition : lockQueue'[queueLock[d]] = << >>
    BY <1>0, <2>2, QueueLockAssumption
  <2>. QED BY <1>0, <2>1, <2>2, <2>3, <2>4, <2>5, <2>6, <2>7, OwnStep DEF Goal
<1>17. ASSUME NEW c \in Condition, WaitSleep(c) PROVE Goal
  <2>1. /\ Executing /\ UNCHANGED <<activeThread, lockQueue, condQueue>>
        /\ pc[x] = "WaitSleep" /\ pc'[x] = "WaitReacquire" /\ object[x] = c /\ object'[x] = c
        /\ then'[x] = then[x] /\ hand'[x] = hand[x]
    BY <1>17, Types DEF WaitSleep, At, Goto, lockVars
  <2>2. then[x] = "client" /\ hand[x] = NULL /\ \A d \in Condition : activeThread[queueLock[d]] # x
    BY <1>0, <2>1 DEF ShapeOf, Announcing, LockDiscipline, InQueueLock
  <2>3. ShapeOf(x)' /\ ~Announcing(x)' /\ ~Signalling(x)'
    BY <2>1, <2>2 DEF ShapeOf, Signalling, Announcing, LoopPoint
  <2>. QED BY <1>2, <2>1, <2>2, <2>3
<1>18. ASSUME NEW c \in Condition, SignalRemove(c) PROVE Goal
  <2>1. /\ Executing /\ UNCHANGED <<activeThread, lockQueue>>
        /\ pc[x] = "SignalRemove" /\ pc'[x] = "SignalUnlock" /\ object[x] = c /\ object'[x] = c
        /\ then'[x] = "SignalReady"
        /\ hand'[x] = First(condQueue[c]) /\ condQueue'[c] = Rest(condQueue[c])
        /\ \A d \in Condition : d # c => condQueue'[d] = condQueue[d]
    BY <1>18, Types DEF SignalRemove, Enter, SetLevel, Goto, lockVars
  <2>2. /\ activeThread[conditionLock[c]] = x
        /\ \A d \in Condition : activeThread[queueLock[d]] = x => d = c
    BY <1>0, <2>1 DEF LockDiscipline, Signalling, InQueueLock
  <2>3. ShapeOf(x)'
    BY <2>1 DEF ShapeOf, Signalling, Announcing, LoopPoint
  <2>4. \A d \in Condition : activeThread[queueLock[d]] = x => InQueueLock(x, d)'
    BY <2>1, <2>2 DEF InQueueLock
  <2>5. hand'[x] = NULL => condQueue'[c] = << >>
    BY <2>1, Types, NullAssumption DEF First, Rest
  <2>6. \A d \in Condition : condQueue[d] = << >> => condQueue'[d] = << >>
    BY <2>1 DEF Rest
  <2>7. \A t \in Thread : Announcing(t) /\ hand[t] = NULL => condQueue'[object[t]] = << >>
    BY <1>0, <2>6 DEF NobodyLeft, ShapeOf, Announcing, Signalling
  <2>. QED BY <1>0, <2>1, <2>2, <2>3, <2>4, <2>5, <2>7, OwnStep DEF Goal
<1>19. ASSUME NEW c \in Condition, SignalReady(c) \/ SignalReturn(c) PROVE Goal
  <2>1. /\ Executing /\ UNCHANGED <<activeThread, lockQueue, condQueue>>
        /\ pc[x] = "SignalReady" /\ object[x] = c
        /\ pc'[x] \in {"client", "BroadcastNext"} /\ (pc'[x] = "BroadcastNext" => object'[x] = c)
        /\ hand'[x] = NULL
    BY <1>19, Types DEF SignalReady, SignalReturn, At, ReturnTo, Goto, lockVars
  <2>2. /\ activeThread[conditionLock[c]] = x
        /\ \A d \in Condition : activeThread[queueLock[d]] # x
    BY <1>0, <2>1 DEF LockDiscipline, Signalling, InQueueLock
  <2>3. ShapeOf(x)' /\ ~Announcing(x)' /\ (Signalling(x)' => object'[x] = c)
    BY <2>1 DEF ShapeOf, Signalling, Announcing, LoopPoint
  <2>. QED BY <1>2, <2>1, <2>2, <2>3
<1>20. ASSUME (\E s \in Semaphore : PSleep(s) \/ HandlerV(s)) \/ QuietKernel PROVE Goal
  <2>1. UNCHANGED <<callVars, activeThread, condQueue, lockQueue>>
    BY <1>20 DEF PSleep, HandlerV, QuietKernel, ClientStep, ThreadYield, HandlerNoop, Idle, Stopped,
                 vars, synchVars, lockVars
  <2>. QED BY <1>0, <1>1, <2>1
<1>21. ASSUME NEW l \in Lock, AcquireSleep(l) PROVE Goal
  <2>1. /\ UNCHANGED <<callVars, activeThread, condQueue>>
        /\ \A m \in Lock : m # l => lockQueue'[m] = lockQueue[m]
    BY <1>21, Types DEF AcquireSleep
  <2>2. \A c \in Condition : queueLock[c] # l /\ queueLock[c] \in Lock
    BY <1>21, SleepsOnClientLock, QueueLockAssumption
  <2>. QED BY <1>0, <1>1, <2>1, <2>2
<1>22. ASSUME CallStep PROVE Goal
  BY <1>5, <1>6, <1>7, <1>8, <1>22 DEF CallStep
<1>23. Goal
  BY <1>8, <1>9, <1>10, <1>11, <1>13, <1>14, <1>15, <1>16, <1>17, <1>18, <1>19, <1>20, <1>21, <1>22
  DEF SynchNext, RoutineStep, QuietKernel
<1>. QED BY <1>23 DEF Goal

\* For every unit of a semaphore's value somebody stays awake to take it.
LEMMA UnitsStep ==
    ASSUME WakeUpInv, [SynchNext]_vars
    PROVE  UnitsCovered'
<1>0. /\ UnitsCovered /\ OthersStay
      /\ SemSleepers /\ LockSleepers /\ HandSleepers
  BY OthersLemma DEF WakeUpInv, SleepersFound
<1>. PICK x \in Thread : x = currentThread
  BY Types
<1>1. \A t \in Thread : t # x => pc'[t] = pc[t] /\ object'[t] = object[t]
  BY <1>0 DEF OthersStay
<1>2. ASSUME UNCHANGED <<value, semQueue>>,
             \A t \in Thread : pc[t] = "P" \/ pc'[t] = "P" =>
                pc'[t] = pc[t] /\ object'[t] = object[t] /\ (t \in waiting' <=> t \in waiting)
      PROVE  UnitsCovered'
  <2>1. \A s \in Semaphore : Awake(s)' = Awake(s)
    BY <1>2 DEF Awake
  <2>. QED BY <1>0, <1>2, <2>1 DEF UnitsCovered
\* A step that concerns one semaphore.
<1>3. ASSUME NEW s \in Semaphore,
             \A r \in Semaphore : r # s => value'[r] = value[r] /\ semQueue'[r] = semQueue[r] /\ Awake(r)' = Awake(r),
             IsFiniteSet(Awake(s)'),
             semQueue'[s] # << >> => value'[s] <= Cardinality(Awake(s)')
      PROVE  UnitsCovered'
  <2>. SUFFICES ASSUME NEW r \in Semaphore
                PROVE  IsFiniteSet(Awake(r)') /\ (semQueue'[r] # << >> => value'[r] <= Cardinality(Awake(r)'))
    BY DEF UnitsCovered
  <2>1. CASE r = s
    BY <1>3, <2>1
  <2>2. CASE r # s
    BY <1>0, <1>3, <2>2 DEF UnitsCovered
  <2>. QED BY <2>1, <2>2
<1>4. \A s \in Semaphore : IsFiniteSet(Awake(s)) /\ Cardinality(Awake(s)) \in Nat
  BY <1>0, FS_CardinalityType DEF UnitsCovered
<1>5. ASSUME NEW s \in Semaphore, CallP(s) PROVE UnitsCovered'
  <2>1. /\ UNCHANGED <<value, semQueue, waiting>> /\ Executing
        /\ pc[x] = "client" /\ pc'[x] = "P" /\ object'[x] = s
    BY <1>5, Types DEF CallP, Enter, SetLevel, Goto, semVars, threadVars
  <2>2. x \notin waiting
    BY <2>1, RunningIsAwake
  <2>3. Awake(s)' = Awake(s) \cup {x} /\ x \notin Awake(s)
    BY <1>1, <2>1, <2>2 DEF Awake
  <2>4. \A r \in Semaphore : r # s => Awake(r)' = Awake(r)
    BY <1>1, <2>1 DEF Awake
  <2>5. IsFiniteSet(Awake(s)') /\ Cardinality(Awake(s)') = Cardinality(Awake(s)) + 1
    BY <1>4, <2>3, FS_AddElement
  <2>6. semQueue'[s] # << >> => value'[s] <= Cardinality(Awake(s)')
    BY <1>0, <1>4, <2>1, <2>5, Types DEF UnitsCovered
  <2>. QED BY <1>3, <2>1, <2>4, <2>5, <2>6
<1>6. ASSUME NEW s \in Semaphore, PSleep(s) \/ PTake(s) PROVE UnitsCovered'
  <2>1. /\ Executing /\ pc[x] = "P" /\ object[x] = s
        /\ \A r \in Semaphore : r # s => value'[r] = value[r] /\ semQueue'[r] = semQueue[r]
    BY <1>6, Types DEF PSleep, PTake, At
  <2>2. x \notin waiting
    BY <2>1, RunningIsAwake
  <2>3. /\ \A t \in Thread : t # x => (t \in waiting' <=> t \in waiting)
        /\ pc'[x] # "P" \/ (x \in waiting' /\ object'[x] = s)
    BY <1>6, Types DEF PSleep, PTake, Block, Goto, callVars, kernelVars, threadVars, At
  <2>4. Awake(s)' = Awake(s) \ {x} /\ x \in Awake(s)
    BY <1>1, <2>1, <2>2, <2>3 DEF Awake
  <2>5. \A r \in Semaphore : r # s => Awake(r)' = Awake(r)
    BY <1>1, <2>1, <2>3 DEF Awake
  <2>6. IsFiniteSet(Awake(s)') /\ Cardinality(Awake(s)') = Cardinality(Awake(s)) - 1
    BY <1>4, <2>4, FS_RemoveElement
  <2>7. semQueue'[s] # << >> => value'[s] <= Cardinality(Awake(s)')
    <3>1. CASE PSleep(s)
      <4>1. value'[s] = 0
        BY <3>1 DEF PSleep
      <4>2. Cardinality(Awake(s)') \in Nat
        BY <2>6, FS_CardinalityType
      <4>. QED BY <4>1, <4>2
    <3>2. CASE PTake(s)
      <4>1. value'[s] = value[s] - 1 /\ semQueue' = semQueue
        BY <3>2, Types DEF PTake
      <4>. QED BY <1>0, <1>4, <2>6, <4>1, Types DEF UnitsCovered
    <3>. QED BY <1>6, <3>1, <3>2
  <2>. QED BY <1>3, <2>1, <2>5, <2>6, <2>7
<1>7. ASSUME NEW s \in Semaphore, VBody(s) \/ HandlerV(s) PROVE UnitsCovered'
  <2>1. /\ object' = object
        /\ pc' = pc \/ (pc[x] = "V" /\ pc'[x] = "restore")
        /\ value' = [value EXCEPT ![s] = @ + 1]
        /\ \A r \in Semaphore : r # s => semQueue'[r] = semQueue[r]
        /\ Woken(semQueue[s], semQueue'[s])
        /\ semQueue[s] # << >> => waiting' = waiting \ {Head(semQueue[s])}
    BY <1>7, VLemma
  <2>2. value'[s] = value[s] + 1 /\ \A r \in Semaphore : r # s => value'[r] = value[r]
    BY <2>1, Types
  <2>3. \A t \in Thread : pc'[t] = "P" <=> pc[t] = "P"
    BY <1>1, <2>1
  <2>4. CASE semQueue[s] = << >>
    <3>1. semQueue'[s] = << >> /\ waiting' = waiting
      BY <2>1, <2>4 DEF Woken
    <3>2. \A r \in Semaphore : Awake(r)' = Awake(r)
      BY <2>1, <2>3, <3>1 DEF Awake
    <3>. QED BY <1>3, <1>4, <2>1, <2>2, <3>1, <3>2
  <2>5. CASE semQueue[s] # << >>
    <3>. DEFINE h == Head(semQueue[s])
    <3>1. h \in Thread /\ On(h, semQueue[s])
      BY <2>5, Types, TailLemma
    <3>2. h \in waiting /\ pc[h] = "P" /\ object[h] = s
      BY <1>0, <3>1 DEF SemSleepers
    <3>. HIDE DEF h
    <3>3. waiting' = waiting \ {h}
      BY <2>1, <2>5 DEF h
    <3>4. Awake(s)' = Awake(s) \cup {h} /\ h \notin Awake(s)
      BY <2>1, <2>3, <3>1, <3>2, <3>3 DEF Awake
    <3>5. \A r \in Semaphore : r # s => Awake(r)' = Awake(r)
      BY <2>1, <2>3, <3>1, <3>2, <3>3 DEF Awake
    <3>6. IsFiniteSet(Awake(s)') /\ Cardinality(Awake(s)') = Cardinality(Awake(s)) + 1
      BY <1>4, <3>4, FS_AddElement
    <3>7. value'[s] <= Cardinality(Awake(s)')
      BY <1>0, <1>4, <2>2, <2>5, <3>6, Types DEF UnitsCovered
    <3>. QED BY <1>3, <2>1, <2>2, <3>5, <3>6, <3>7
  <2>. QED BY <2>4, <2>5
\* Everything else happens to threads outside of P().
<1>8. ASSUME UNCHANGED <<value, semQueue>>,
             callVars' = callVars \/ (pc[x] # "P" /\ pc'[x] # "P"),
             \A t \in Thread : pc[t] = "P" => (t \in waiting' <=> t \in waiting)
      PROVE  UnitsCovered'
  BY <1>1, <1>2, <1>8 DEF callVars
<1>9. CASE QuietKernel
  <2>1. UNCHANGED <<value, semQueue, callVars>>
    BY <1>9 DEF QuietKernel, ClientStep, ThreadYield, HandlerNoop, Idle, Stopped, vars, synchVars, semVars
  <2>2. waiting' = waiting
    BY <1>9, QuietLemma
  <2>. QED BY <1>8, <2>1, <2>2
<1>10. CASE CallStep
  <2>1. ASSUME NEW p, NEW o, NEW q, Enter(p, o, q), p # "P", pc[x] = "client", UNCHANGED semVars
        PROVE  UnitsCovered'
    <3>1. pc'[x] = p /\ waiting' = waiting
      BY <2>1, Types DEF Enter, SetLevel, Goto, threadVars
    <3>. QED BY <1>8, <2>1, <3>1 DEF semVars
  <2>2. ASSUME NEW s \in Semaphore, CallV(s) PROVE UnitsCovered'
    BY <2>1, <2>2 DEF CallV
  <2>3. ASSUME NEW l \in ClientLock, CallAcquire(l) \/ CallRelease(l) PROVE UnitsCovered'
    BY <2>1, <2>3 DEF CallAcquire, CallRelease
  <2>4. ASSUME NEW c \in Condition, NEW toAll \in BOOLEAN, CallWait(c) \/ CallSignal(c, toAll)
        PROVE  UnitsCovered'
    BY <2>1, <2>4 DEF CallWait, CallSignal
  <2>. QED BY <1>5, <1>10, <2>2, <2>3, <2>4 DEF CallStep
<1>11. CASE Restore
  <2>1. UNCHANGED <<value, semQueue>> /\ waiting' = waiting /\ pc[x] = "restore" /\ pc'[x] = then[x]
    BY <1>11, Types DEF Restore, ReturnTo, Goto, SetLevel, semVars, threadVars
  <2>2. then[x] # "P"
    BY Types
  <2>. QED BY <1>8, <2>1, <2>2
<1>12. ASSUME NEW l \in Lock, AcquireTake(l) PROVE UnitsCovered'
  <2>1. UNCHANGED <<value, semQueue>> /\ waiting' = waiting /\ pc[x] # "P" /\ pc'[x] = "restore"
    BY <1>12, Types, ObjectAssumption DEF AcquireTake, Goto, WantedLock, semVars, kernelVars, threadVars
  <2>. QED BY <1>8, <2>1
<1>13. ASSUME NEW l \in Lock, AcquireSleep(l) PROVE UnitsCovered'
  <2>1. UNCHANGED <<value, semQueue, callVars>> /\ waiting' = waiting \cup {x}
    BY <1>13 DEF AcquireSleep, Block, semVars
  <2>2. pc[x] # "P"
    BY <1>13, SleepsOnClientLock
  <2>. QED BY <1>8, <2>1, <2>2
<1>14. ASSUME NEW l \in Lock, ReleaseBody(l), UNCHANGED semVars, pc[x] # "P", pc'[x] # "P" PROVE UnitsCovered'
  <2>1. Woken(lockQueue[l], lockQueue'[l])
    BY <1>14, ReleaseWakes
  <2>2. waiting' \subseteq waiting /\ \A t \in waiting : t \notin waiting' => On(t, lockQueue[l])
    BY <1>0, <2>1, WokenLemma, Types DEF LockSleepers
  <2>3. \A t \in waiting : t \notin waiting' => pc[t] # "P"
    BY <1>0, <2>2, Types DEF LockSleepers
  <2>. QED BY <1>8, <1>14, <2>2, <2>3 DEF semVars
<1>15. CASE \E l \in Lock : Release(l)
  BY <1>14, <1>15, Types DEF Release, At, Goto
<1>16. CASE \E c \in Condition : WaitRelease(c)
  BY <1>14, <1>16, Types, ConditionLockAssumption DEF WaitRelease, At, Goto
<1>17. CASE \E c \in Condition : SignalUnlock(c)
  BY <1>14, <1>17, Types, QueueLockAssumption DEF SignalUnlock, At, Goto
<1>18. ASSUME NEW c \in Condition, WaitEnqueue(c) PROVE UnitsCovered'
  <2>1. UNCHANGED <<value, semQueue>> /\ pc[x] = "WaitLock" /\ pc'[x] = "WaitSleep"
    BY <1>18, Types DEF WaitEnqueue, At, Goto, semVars
  <2>2. waiting' = waiting
    BY <1>18, EnqueueWakesNobody DEF kernelVars, threadVars
  <2>. QED BY <1>8, <2>1, <2>2
<1>19. ASSUME NEW c \in Condition, WaitSleep(c) PROVE UnitsCovered'
  <2>1. /\ UNCHANGED <<value, semQueue>> /\ pc[x] = "WaitSleep" /\ pc'[x] = "WaitReacquire"
        /\ waiting' = waiting \cup {x}
    BY <1>19, Types DEF WaitSleep, Block, At, Goto, semVars
  <2>. QED BY <1>8, <2>1
<1>20. ASSUME NEW c \in Condition, SignalRemove(c) \/ BroadcastNext(c) \/ SignalReturn(c) PROVE UnitsCovered'
  <2>1. /\ UNCHANGED <<value, semQueue>> /\ pc[x] # "P" /\ pc'[x] # "P"
        /\ waiting' = waiting
    BY <1>20, Types DEF SignalRemove, BroadcastNext, SignalReturn, At, Enter, SetLevel, ReturnTo, Goto,
                        semVars, threadVars, kernelVars
  <2>. QED BY <1>8, <2>1
<1>21. ASSUME NEW c \in Condition, SignalReady(c) PROVE UnitsCovered'
  <2>1. /\ UNCHANGED <<value, semQueue>> /\ pc[x] # "P" /\ pc'[x] # "P"
        /\ waiting' = waiting \ {hand[x]} /\ hand[x] # NULL
    BY <1>21, Types DEF SignalReady, MakeReady, At, ReturnTo, Goto, semVars
  <2>2. pc[hand[x]] # "P"
    BY <1>0, <2>1 DEF HandSleepers
  <2>. QED BY <1>8, <2>1, <2>2
<1>. QED
  BY <1>6, <1>7, <1>9, <1>10, <1>11, <1>12, <1>13, <1>15, <1>16, <1>17, <1>18, <1>19, <1>20, <1>21
  DEF SynchNext, RoutineStep, QuietKernel

\* A free lock with sleepers has somebody awake in Acquire().
LEMMA ReleaseStep ==
    ASSUME WakeUpInv, [SynchNext]_vars
    PROVE  NoMissedRelease'
<1>0. /\ NoMissedRelease /\ OthersStay /\ LockSleepers
      /\ \A c \in Condition : lockQueue[queueLock[c]] = << >>
  BY OthersLemma DEF WakeUpInv, SleepersFound, LockDiscipline
<1>. PICK x \in Thread : x = currentThread
  BY Types
<1>1. \A t \in Thread : t # x => WantedLock(t)' = WantedLock(t)
  BY <1>0 DEF OthersStay
\* Steps that free no lock: the one awake is awake still, or not the running one.
<1>2. ASSUME \A l \in Lock : free'[l] /\ lockQueue'[l] # << >> =>
               /\ free[l] /\ lockQueue[l] # << >>
               /\ WantedLock(x) # l \/ (WantedLock(x)' = l /\ x \notin waiting'),
             waiting' \subseteq waiting \cup {x}
      PROVE  NoMissedRelease'
  <2>. SUFFICES ASSUME NEW l \in Lock, free'[l], lockQueue'[l] # << >>
                PROVE  \E t \in Thread : WantedLock(t)' = l /\ t \notin waiting'
    BY DEF NoMissedRelease
  <2>1. PICK t \in Thread : WantedLock(t) = l /\ t \notin waiting
    BY <1>0, <1>2 DEF NoMissedRelease
  <2>. QED BY <1>1, <1>2, <2>1
\* Most steps are taken by a thread that is not in Acquire at all.
<1>3. ASSUME UNCHANGED <<free, lockQueue>>, waiting' \subseteq waiting \cup {x},
             WantedLock(x) \notin Lock
      PROVE  NoMissedRelease'
  BY <1>2, <1>3
<1>4. pc[x] \notin {"Acquire", "WaitLock", "SignalLock", "WaitReacquire"} => WantedLock(x) \notin Lock
  BY ObjectAssumption DEF WantedLock
<1>5. ASSUME UNCHANGED <<free, lockQueue, callVars>>, waiting' \subseteq waiting PROVE NoMissedRelease'
  <2>1. \A t \in Thread : WantedLock(t)' = WantedLock(t)
    BY <1>5 DEF callVars, WantedLock
  <2>. QED BY <1>0, <1>5, <2>1 DEF NoMissedRelease
<1>6. CASE QuietKernel
  <2>1. UNCHANGED <<free, lockQueue, callVars>>
    BY <1>6 DEF QuietKernel, ClientStep, ThreadYield, HandlerNoop, Idle, Stopped, vars, synchVars, lockVars
  <2>2. waiting' = waiting
    BY <1>6, QuietLemma
  <2>. QED BY <1>5, <2>1, <2>2
<1>7. CASE CallStep \/ Restore
  <2>1. /\ UNCHANGED <<free, lockQueue>> /\ pc[x] \in {"client", "restore"}
    BY <1>7 DEF CallStep, CallP, CallV, CallAcquire, CallRelease, CallWait, CallSignal, Restore, lockVars
  <2>2. waiting' = waiting
    BY <1>7, QuietLemma DEF QuietCall
  <2>. QED BY <1>3, <1>4, <2>1, <2>2
<1>8. ASSUME NEW s \in Semaphore, PSleep(s) \/ PTake(s) PROVE NoMissedRelease'
  <2>1. UNCHANGED <<free, lockQueue>> /\ pc[x] = "P" /\ waiting' \subseteq waiting \cup {x}
    BY <1>8 DEF PSleep, PTake, Block, At, lockVars, kernelVars, threadVars
  <2>. QED BY <1>3, <1>4, <2>1
<1>9. ASSUME NEW s \in Semaphore, VBody(s) PROVE NoMissedRelease'
  <2>1. UNCHANGED <<free, lockQueue>> /\ pc[x] = "V"
    BY <1>9 DEF VBody, At, lockVars
  <2>2. waiting' \subseteq waiting
    BY <1>9 DEF VBody, WakeFirst, MakeReady, kernelVars, threadVars
  <2>. QED BY <1>3, <1>4, <2>1, <2>2
<1>10. ASSUME NEW s \in Semaphore, HandlerV(s) PROVE NoMissedRelease'
  <2>1. UNCHANGED <<free, lockQueue, callVars>> /\ waiting' \subseteq waiting
    BY <1>10 DEF HandlerV, RunHandler, threadVars, lockVars
  <2>. QED BY <1>5, <2>1
<1>11. ASSUME NEW l \in Lock, AcquireTake(l) PROVE NoMissedRelease'
  <2>1. /\ UNCHANGED <<lockQueue, waiting>> /\ WantedLock(x) = l
        /\ ~free'[l] /\ \A m \in Lock : m # l => free'[m] = free[m]
    BY <1>11, Types DEF AcquireTake, kernelVars, threadVars
  <2>. QED BY <1>2, <2>1
<1>12. ASSUME NEW l \in Lock, AcquireSleep(l) PROVE NoMissedRelease'
  <2>1. /\ free' = free /\ waiting' = waiting \cup {x} /\ WantedLock(x) = l
        /\ ~free[l] /\ \A m \in Lock : m # l => lockQueue'[m] = lockQueue[m]
    BY <1>12, Types DEF AcquireSleep, Block
  <2>. QED BY <1>2, <2>1
<1>13. ASSUME NEW l \in Lock, ReleaseBody(l), Executing,
              pc[x] \in {"Release", "Wait", "SignalUnlock"}
       PROVE  NoMissedRelease'
  <2>1. /\ \A m \in Lock : m # l => lockQueue'[m] = lockQueue[m] /\ free'[m] = free[m]
        /\ Woken(lockQueue[l], lockQueue'[l])
        /\ \/ UNCHANGED <<free, lockQueue>>
           \/ lockQueue'[l] # << >> => \E t \in waiting : t \notin waiting' /\ On(t, lockQueue[l])
    BY <1>13, ReleaseWakes
  <2>2. waiting' \subseteq waiting
    BY <2>1 DEF Woken
  <2>3. WantedLock(x) \notin Lock /\ x \notin waiting
    BY <1>4, <1>13, RunningIsAwake
  <2>4. CASE UNCHANGED <<free, lockQueue>>
    BY <1>3, <2>2, <2>3, <2>4
  <2>5. CASE lockQueue'[l] # << >> => \E t \in waiting : t \notin waiting' /\ On(t, lockQueue[l])
    <3>. SUFFICES ASSUME NEW m \in Lock, free'[m], lockQueue'[m] # << >>
                  PROVE  \E t \in Thread : WantedLock(t)' = m /\ t \notin waiting'
      BY DEF NoMissedRelease
    <3>1. CASE m = l
      <4>1. PICK t \in waiting : t \notin waiting' /\ On(t, lockQueue[l])
        BY <2>5, <3>1
      <4>2. t \in Thread /\ WantedLock(t) = l /\ t # x
        BY <1>0, <2>3, <4>1, Types DEF LockSleepers
      <4>. QED BY <1>1, <3>1, <4>1, <4>2
    <3>2. CASE m # l
      <4>1. PICK t \in Thread : WantedLock(t) = m /\ t \notin waiting
        BY <1>0, <2>1, <3>2 DEF NoMissedRelease
      <4>. QED BY <1>1, <2>2, <2>3, <4>1
    <3>. QED BY <3>1, <3>2
  <2>. QED BY <2>1, <2>4, <2>5
<1>14. CASE \E l \in Lock : Release(l)
  BY <1>13, <1>14 DEF Release, At
<1>15. CASE \E c \in Condition : WaitRelease(c)
  BY <1>13, <1>15, ConditionLockAssumption DEF WaitRelease, At
<1>16. CASE \E c \in Condition : SignalUnlock(c)
  BY <1>13, <1>16, QueueLockAssumption DEF SignalUnlock, At
<1>17. ASSUME NEW c \in Condition, WaitEnqueue(c) PROVE NoMissedRelease'
  <2>1. free' = free /\ waiting' = waiting /\ \A l \in Lock : lockQueue'[l] = lockQueue[l]
    BY <1>17, EnqueueWakesNobody DEF kernelVars, threadVars
  <2>2. WantedLock(x) = queueLock[c]
    BY <1>17 DEF WaitEnqueue, At, WantedLock
  <2>. QED BY <1>0, <1>2, <2>1, <2>2
<1>18. ASSUME NEW c \in Condition, WaitSleep(c) PROVE NoMissedRelease'
  <2>1. UNCHANGED <<free, lockQueue>> /\ pc[x] = "WaitSleep" /\ waiting' = waiting \cup {x}
    BY <1>18 DEF WaitSleep, Block, At, lockVars
  <2>. QED BY <1>3, <1>4, <2>1
<1>19. ASSUME NEW c \in Condition, SignalRemove(c) \/ BroadcastNext(c) \/ SignalReturn(c) \/ SignalReady(c)
       PROVE  NoMissedRelease'
  <2>1. /\ UNCHANGED <<free, lockQueue>> /\ pc[x] \in {"SignalRemove", "BroadcastNext", "SignalReady"}
        /\ waiting' \subseteq waiting
    BY <1>19 DEF SignalRemove, BroadcastNext, SignalReturn, SignalReady, MakeReady, At, Enter, SetLevel,
                 lockVars, threadVars, kernelVars
  <2>. QED BY <1>3, <1>4, <2>1
<1>. QED
  BY <1>6, <1>7, <1>8, <1>9, <1>10, <1>11, <1>12, <1>14, <1>15, <1>16, <1>17, <1>18, <1>19
  DEF SynchNext, RoutineStep, QuietKernel

-----------------------------------------------------------------------------
(* The theorems                                                            *)

\* The invariant holds before anybody has called anything.
LEMMA WakeUpStart == SynchInit => WakeUpInv
<1>. SUFFICES ASSUME SynchInit PROVE WakeUpInv
  OBVIOUS
<1>1. SynchInv
  BY SynchStart
<1>2. /\ \A t \in Thread : pc[t] = "client" /\ object[t] = NULL /\ hand[t] = NULL
      /\ \A s \in Semaphore : semQueue[s] = << >>
      /\ \A l \in Lock : lockQueue[l] = << >> /\ activeThread[l] = NULL
      /\ \A c \in Condition : condQueue[c] = << >>
      /\ waiting = {}
  BY DEF SynchInit, KernelInit
<1>3. \A t \in Thread : ~Signalling(t) /\ ~Announcing(t)
  BY <1>2 DEF Signalling, Announcing
<1>4. Uninterrupted /\ CallShape
  BY <1>2, <1>3 DEF Uninterrupted, CallShape, ShapeOf, AtomicPoint, LoopPoint
<1>5. LockDiscipline
  BY <1>2, <1>3, QueueLockAssumption, NullAssumption DEF LockDiscipline
<1>6. SleepersFound
  <2>1. \A t : ~On(t, << >>)
    BY DEF On
  <2>2. Once(<< >>)
    BY DEF Once
  <2>. QED BY <1>2, <2>1, <2>2
       DEF SleepersFound, SemSleepers, LockSleepers, CondSleepers, HandSleepers, EverySleeper
<1>7. UnitsCovered
  <2>1. \A s \in Semaphore : Awake(s) = {}
    BY <1>2 DEF Awake
  <2>. QED BY <1>2, <2>1, FS_EmptySet DEF UnitsCovered
<1>8. NoMissedRelease /\ NobodyLeft
  BY <1>2, <1>3 DEF NoMissedRelease, NobodyLeft
<1>. QED BY <1>1, <1>4, <1>5, <1>6, <1>7, <1>8 DEF WakeUpInv

\* The inductive invariant, at every reachable state.
THEOREM WakeUpInvariant == SynchSpec => []WakeUpInv
<1>1. WakeUpInv /\ [SynchNext]_vars => WakeUpInv'
  <2>. SUFFICES ASSUME WakeUpInv, [SynchNext]_vars PROVE WakeUpInv'
    OBVIOUS
  <2>1. SynchInv'
    BY SynchStepIsKernelStep, KernelStep, SynchStep DEF WakeUpInv, SynchInv
  <2>2. Uninterrupted'
    BY UninterruptedStep
  <2>3. CallShape' /\ LockDiscipline' /\ NobodyLeft'
    BY CallsStep
  <2>4. SleepersFound'
    BY SleepersStep
  <2>5. UnitsCovered'
    BY UnitsStep
  <2>6. NoMissedRelease'
    BY ReleaseStep
  <2>. QED BY <2>1, <2>2, <2>3, <2>4, <2>5, <2>6 DEF WakeUpInv
<1>. QED BY <1>1, WakeUpStart, PTL DEF SynchSpec

\* The kernel's part of it, with the types and mutual exclusion.
THEOREM SynchInvariant == SynchSpec => []SynchInv
<1>1. WakeUpInv => SynchInv
  BY DEF WakeUpInv
<1>. QED BY <1>1, WakeUpInvariant, PTL

\* A lock has at most one holder, whatever the threads call and wherever the
\* timer preempts them.
THEOREM LockSafe == SynchSpec => []MutualExclusion
<1>1. SynchInv => MutualExclusion
  BY DEF SynchInv
<1>. QED BY <1>1, SynchInvariant, PTL

\* The type invariant; a semaphore's value stays >= 0.
THEOREM SynchTypeCorrect == SynchSpec => []SynchTypeOK
<1>1. SynchInv => SynchTypeOK
  BY DEF SynchInv, KernelInv, CallTypeOK, SynchTypeOK
<1>. QED BY <1>1, SynchInvariant, PTL

\* The synchronization routines use the kernel as it allows: every Sleep() is
\* called with interrupts off, and every thread that V(), Release(), Signal(),
\* Broadcast() or a handler makes ready was asleep.  None of this is a guard of
\* the routines; it follows from where their threads are preempted.
THEOREM SynchImplementsKernel == SynchSpec => KernelSpec
<1>1. SynchInit => KernelInit
  BY DEF SynchInit
<1>2. WakeUpInv /\ [SynchNext]_vars => [KernelNext]_kernelVars
  BY SynchStepIsKernelStep
<1>. QED BY <1>1, <1>2, WakeUpInvariant, PTL DEF SynchSpec, KernelSpec

\* "releasing the lock and going to sleep are *atomic* in Wait()": nobody gets
\* between them, and the queue lock that Wait takes in between is free.
THEOREM WaitAtomic == SynchSpec => []WaitIsAtomic
<1>1. WakeUpInv => WaitIsAtomic
  <2>. SUFFICES ASSUME WakeUpInv, NEW t \in Thread, pc[t] \in {"Wait", "WaitLock", "WaitSleep"}
                PROVE  /\ Executing => t = currentThread
                       /\ level = "IntOff"
                       /\ t \notin waiting
                       /\ free[queueLock[object[t]]]
    BY DEF WaitIsAtomic
  <2>1. OnCPU(t) /\ level = "IntOff"
    BY DEF WakeUpInv, Uninterrupted, AtomicPoint
  <2>2. t \notin waiting
    BY <2>1, RunningIsAwake DEF OnCPU
  <2>. QED BY <2>1, <2>2, QueueLockIsFree DEF OnCPU
<1>. QED BY <1>1, WakeUpInvariant, PTL

\* A sleeper is to be found in one place, anybody else in none.
LEMMA OnePlace == WakeUpInv => NoLostThread
<1>. SUFFICES ASSUME WakeUpInv, NEW t \in Thread
              PROVE  IF t \in waiting \/ pc[t] = "WaitSleep"
                     THEN \E p \in Places(t) : Places(t) = {p}
                     ELSE Places(t) = {}
  BY DEF NoLostThread
<1>0. SemSleepers /\ LockSleepers /\ CondSleepers /\ HandSleepers /\ EverySleeper
  BY DEF WakeUpInv, SleepersFound
<1>1. \A p : p \in Places(t) <=>
        \/ \E s \in Semaphore : \E i \in DOMAIN semQueue[s] : semQueue[s][i] = t /\ p = <<s, i>>
        \/ \E l \in Lock : \E i \in DOMAIN lockQueue[l] : lockQueue[l][i] = t /\ p = <<l, i>>
        \/ \E c \in Condition : \E i \in DOMAIN condQueue[c] : condQueue[c][i] = t /\ p = <<c, i>>
        \/ \E u \in Thread : hand[u] = t /\ p = <<u, 0>>
  <2>1. \A K, Q, p : p \in UNION {{<<k, i>> : i \in Positions(Q[k], t)} : k \in K} <=>
          \E k \in K : \E i \in DOMAIN Q[k] : Q[k][i] = t /\ p = <<k, i>>
    <3>1. ASSUME NEW K, NEW Q, NEW p PROVE
             p \in UNION {{<<k, i>> : i \in Positions(Q[k], t)} : k \in K} <=>
               \E k \in K : \E i \in Positions(Q[k], t) : p = <<k, i>>
      OBVIOUS
    <3>. QED BY <3>1 DEF Positions
  <2>2. \A p : p \in {<<u, 0>> : u \in {u \in Thread : hand[u] = t}} <=>
          \E u \in Thread : hand[u] = t /\ p = <<u, 0>>
    OBVIOUS
  <2>. DEFINE SemP == UNION {{<<s, i>> : i \in Positions(semQueue[s], t)} : s \in Semaphore}
              LockP == UNION {{<<l, i>> : i \in Positions(lockQueue[l], t)} : l \in Lock}
              CondP == UNION {{<<c, i>> : i \in Positions(condQueue[c], t)} : c \in Condition}
              HandP == {<<u, 0>> : u \in {u \in Thread : hand[u] = t}}
  <2>3. Places(t) = SemP \cup LockP \cup CondP \cup HandP
    BY DEF Places
  <2>4. \A p : p \in SemP <=>
          \E s \in Semaphore : \E i \in DOMAIN semQueue[s] : semQueue[s][i] = t /\ p = <<s, i>>
    BY <2>1
  <2>5. \A p : p \in LockP <=>
          \E l \in Lock : \E i \in DOMAIN lockQueue[l] : lockQueue[l][i] = t /\ p = <<l, i>>
    BY <2>1
  <2>6. \A p : p \in CondP <=>
          \E c \in Condition : \E i \in DOMAIN condQueue[c] : condQueue[c][i] = t /\ p = <<c, i>>
    BY <2>1
  <2>. HIDE DEF SemP, LockP, CondP
  <2>. QED BY <2>2, <2>3, <2>4, <2>5, <2>6
<1>2. /\ \A s \in Semaphore : On(t, semQueue[s]) <=> \E i \in DOMAIN semQueue[s] : semQueue[s][i] = t
      /\ \A l \in Lock : On(t, lockQueue[l]) <=> \E i \in DOMAIN lockQueue[l] : lockQueue[l][i] = t
      /\ \A c \in Condition : On(t, condQueue[c]) <=> \E i \in DOMAIN condQueue[c] : condQueue[c][i] = t
  BY DEF On
<1>3. ASSUME NEW q, \E p \in Places(t) : p = q, \A p \in Places(t) : p = q
      PROVE  \E p \in Places(t) : Places(t) = {p}
  BY <1>3
<1>4. \A u \in Thread : hand[u] = t => t \in waiting /\ pc[t] = "WaitReacquire"
  BY <1>0, NullAssumption DEF HandSleepers
<1>5. CASE ~(t \in waiting \/ pc[t] = "WaitSleep")
  <2>1. /\ \A s \in Semaphore : ~On(t, semQueue[s])
        /\ \A l \in Lock : ~On(t, lockQueue[l])
        /\ \A c \in Condition : ~On(t, condQueue[c])
        /\ \A u \in Thread : hand[u] # t
    BY <1>0, <1>4, <1>5 DEF SemSleepers, LockSleepers, CondSleepers
  <2>. QED BY <1>1, <1>2, <1>5, <2>1
<1>6. ASSUME NEW s \in Semaphore, On(t, semQueue[s]) PROVE \E p \in Places(t) : Places(t) = {p}
  <2>1. pc[t] = "P" /\ object[t] = s /\ Once(semQueue[s])
    BY <1>0, <1>6 DEF SemSleepers
  <2>2. PICK i \in DOMAIN semQueue[s] : semQueue[s][i] = t
    BY <1>2, <1>6
  <2>3. \A j \in DOMAIN semQueue[s] : semQueue[s][j] = t => j = i
    BY <2>1, <2>2 DEF Once
  <2>4. /\ \A r \in Semaphore : On(t, semQueue[r]) => r = s
        /\ \A l \in Lock : ~On(t, lockQueue[l])
        /\ \A c \in Condition : ~On(t, condQueue[c])
        /\ \A u \in Thread : hand[u] # t
    BY <1>0, <1>4, <2>1 DEF SemSleepers, LockSleepers, CondSleepers
  <2>5. <<s, i>> \in Places(t)
    BY <1>1, <2>2
  <2>6. ASSUME NEW p \in Places(t) PROVE p = <<s, i>>
    BY <1>1, <1>2, <2>3, <2>4
  <2>. QED BY <1>3, <2>5, <2>6
<1>7. ASSUME NEW l \in Lock, On(t, lockQueue[l]) PROVE \E p \in Places(t) : Places(t) = {p}
  <2>1. pc[t] \in {"Acquire", "WaitReacquire"} /\ WantedLock(t) = l /\ Once(lockQueue[l])
    BY <1>0, <1>7 DEF LockSleepers
  <2>2. PICK i \in DOMAIN lockQueue[l] : lockQueue[l][i] = t
    BY <1>2, <1>7
  <2>3. \A j \in DOMAIN lockQueue[l] : lockQueue[l][j] = t => j = i
    BY <2>1, <2>2 DEF Once
  <2>4. /\ \A s \in Semaphore : ~On(t, semQueue[s])
        /\ \A m \in Lock : On(t, lockQueue[m]) => m = l
        /\ \A c \in Condition : ~On(t, condQueue[c])
        /\ \A u \in Thread : hand[u] # t
    BY <1>0, <1>7, <2>1, NullAssumption DEF SemSleepers, LockSleepers, CondSleepers, HandSleepers
  <2>5. <<l, i>> \in Places(t)
    BY <1>1, <2>2
  <2>6. ASSUME NEW p \in Places(t) PROVE p = <<l, i>>
    BY <1>1, <1>2, <2>3, <2>4
  <2>. QED BY <1>3, <2>5, <2>6
<1>8. ASSUME NEW c \in Condition, On(t, condQueue[c]) PROVE \E p \in Places(t) : Places(t) = {p}
  <2>1. /\ pc[t] \in {"WaitSleep", "WaitReacquire"} /\ object[t] = c /\ Once(condQueue[c])
        /\ \A l \in Lock : ~On(t, lockQueue[l])
    BY <1>0, <1>8 DEF CondSleepers
  <2>2. PICK i \in DOMAIN condQueue[c] : condQueue[c][i] = t
    BY <1>2, <1>8
  <2>3. \A j \in DOMAIN condQueue[c] : condQueue[c][j] = t => j = i
    BY <2>1, <2>2 DEF Once
  <2>4. /\ \A s \in Semaphore : ~On(t, semQueue[s])
        /\ \A d \in Condition : On(t, condQueue[d]) => d = c
        /\ \A u \in Thread : hand[u] # t
    BY <1>0, <1>8, <2>1, NullAssumption DEF SemSleepers, CondSleepers, HandSleepers
  <2>5. <<c, i>> \in Places(t)
    BY <1>1, <2>2
  <2>6. ASSUME NEW p \in Places(t) PROVE p = <<c, i>>
    BY <1>1, <1>2, <2>1, <2>3, <2>4
  <2>. QED BY <1>3, <2>5, <2>6
<1>9. ASSUME NEW u \in Thread, hand[u] = t PROVE \E p \in Places(t) : Places(t) = {p}
  <2>1. /\ \A l \in Lock : ~On(t, lockQueue[l])
        /\ \A c \in Condition : ~On(t, condQueue[c])
        /\ \A v \in Thread : hand[v] = t => v = u
    BY <1>0, <1>9, NullAssumption DEF HandSleepers
  <2>2. \A s \in Semaphore : ~On(t, semQueue[s])
    BY <1>0, <1>4, <1>9 DEF SemSleepers
  <2>3. <<u, 0>> \in Places(t)
    BY <1>1, <1>9
  <2>4. ASSUME NEW p \in Places(t) PROVE p = <<u, 0>>
    BY <1>1, <1>2, <2>1, <2>2
  <2>. QED BY <1>3, <2>3, <2>4
<1>. QED BY <1>0, <1>5, <1>6, <1>7, <1>8, <1>9 DEF EverySleeper

\* No wake-up and no sleeper is lost: a sleeper is in one place, a V() or a
\* Release() that finds sleepers has somebody awake to take what it gives, and a
\* Broadcast that returns leaves nobody waiting.
THEOREM NoWakeUpIsLost == SynchSpec => []NoWakeUpLost
<1>1. WakeUpInv => NoMissedV
  BY DEF WakeUpInv, UnitsCovered, NoMissedV, Awake
<1>2. WakeUpInv => BroadcastWakesAll
  BY DEF WakeUpInv, NobodyLeft, Announcing, BroadcastWakesAll
<1>3. WakeUpInv => NoMissedRelease
  BY DEF WakeUpInv
<1>4. WakeUpInv => NoWakeUpLost
  BY <1>1, <1>2, <1>3, OnePlace DEF NoWakeUpLost
<1>. QED BY <1>4, WakeUpInvariant, PTL
=============================================================================
