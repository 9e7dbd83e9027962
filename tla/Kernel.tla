------------------------------- MODULE Kernel -------------------------------
(***************************************************************************)
(* The Nachos thread kernel: threads/thread.cc, threads/scheduler.cc, and  *)
(* what they use of machine/interrupt.cc (the interrupt level, the idle    *)
(* loop, the arrival of device interrupts).                                *)
(*                                                                         *)
(* Nachos simulates ONE processor.  The running thread loses it only in    *)
(* Thread::Yield, Thread::Sleep and Thread::Finish, and an interrupt       *)
(* handler runs only inside Interrupt::OneTick, which needs the level to   *)
(* be IntOn, or inside Interrupt::Idle.  An action is therefore the code   *)
(* between two such points.  Scheduler::Run is split by SWITCH: its first  *)
(* half runs on the old thread, its second half on the new one, with       *)
(* interrupts off, so nothing comes between and the two are one step.      *)
(*                                                                         *)
(* The queues of semaphores, locks and conditions are abstracted to one    *)
(* set, "waiting": the sleeping threads that some such queue still knows.  *)
(***************************************************************************)
EXTENDS Integers, Sequences, SequencesExt

CONSTANTS
    Thread,        \* the Thread objects the program may allocate
    main,          \* the thread system.cc:Initialize finds itself in
    NULL,          \* the null Thread pointer
    MaxPending     \* bound on the outstanding device interrupts

ASSUME MainAssumption == main \in Thread
ASSUME NullAssumption == NULL \notin Thread
ASSUME PendingAssumption == MaxPending \in Nat

Level  == {"IntOn", "IntOff"}
Mode   == {"SystemMode", "IdleMode", "Halted"}

\* thread.h's ThreadStatus, plus the state of an object not allocated yet.
Status == {"UNALLOCATED", "JUST_CREATED", "RUNNING", "READY", "BLOCKED", "DELETED"}

VARIABLES
    currentThread,        \* the thread holding the CPU
    threadToBeDestroyed,  \* the finished thread whose carcass is to be deleted
    readyList,            \* Scheduler::readyList
    status,               \* Thread::status
    fresh,                \* forked threads that never ran: SWITCH enters ThreadRoot
    resumeLevel,          \* the level a thread sets when SWITCH returns into it
    waiting,              \* the sleeping threads some wait queue knows
    finished,             \* history: the threads that called Finish
    removed,              \* history: the threads RemoveThread was called for
    level,                \* Interrupt::level
    mode,                 \* Interrupt::status, and "Halted" after Halt
    pending               \* number of scheduled device interrupts

cpuVars    == <<currentThread, threadToBeDestroyed, fresh, level, mode>>
threadVars == <<readyList, status, resumeLevel, waiting, finished, removed>>
kernelVars == <<cpuVars, threadVars, pending>>

-----------------------------------------------------------------------------
(* system.cc:Initialize, up to and including interrupt->Enable().          *)

KernelInit ==
    /\ currentThread = main
    /\ threadToBeDestroyed = NULL
    /\ readyList = << >>
    /\ status = [t \in Thread |-> IF t = main THEN "RUNNING" ELSE "UNALLOCATED"]
    /\ fresh = {}
    /\ resumeLevel = [t \in Thread |-> "IntOn"]
    /\ waiting = {}
    /\ finished = {}
    /\ removed = {}
    /\ level = "IntOn"
    /\ mode = "SystemMode"
    /\ pending = 0

\* Kernel code is running on behalf of currentThread.
Executing == mode = "SystemMode"

-----------------------------------------------------------------------------
(* Scheduler                                                               *)

\* Mutant of ReadyToRun: Prepend instead of Append.
ReadyToRunPrepends(t, list, st) ==
    /\ readyList' = <<t>> \o list
    /\ status' = [st EXCEPT ![t] = "READY"]

\* What Scheduler::ReadyToRun leaves in the ready list and in the statuses.
ReadyToRun(t, list, st) ==
    /\ readyList' = Append(list, t)
    /\ status' = [st EXCEPT ![t] = "READY"]

\* Mutant of Run: the line "threadToBeDestroyed = NULL" is missing.
RunKeepsCarcass(next, st, doomed) ==
    LET reaps == next \notin fresh
    IN  /\ currentThread' = next
        /\ status' = [t \in Thread |->
                        CASE t = next            -> "RUNNING"
                          [] reaps /\ t = doomed /\ t # next -> "DELETED"
                          [] OTHER               -> st[t]]
        /\ threadToBeDestroyed' = doomed
        /\ fresh' = fresh \ {next}
        /\ level' = resumeLevel[next]
        /\ mode' = "SystemMode"

\* Scheduler::Run(next), called when the other statuses are st and the global
\* threadToBeDestroyed is doomed.  A thread that was switched out earlier
\* resumes behind SWITCH and deletes the carcass; a fresh one enters
\* ThreadRoot, which does not.
Run(next, st, doomed) ==
    LET reaps == next \notin fresh
    IN  /\ currentThread' = next
        /\ status' = [t \in Thread |->
                        CASE t = next            -> "RUNNING"
                          [] reaps /\ t = doomed /\ t # next -> "DELETED"
                          [] OTHER               -> st[t]]
        /\ threadToBeDestroyed' = IF reaps THEN NULL ELSE doomed
        /\ fresh' = fresh \ {next}
        /\ level' = resumeLevel[next]
        /\ mode' = "SystemMode"

\* t is on the ready list.
Listed(t) == \E i \in DOMAIN readyList : readyList[i] = t

\* Scheduler::RemoveThread, which doExit, doKill and ~PCB call for the thread of
\* a process: off the ready list, if it is there.  The status stays.
RemoveThread(t) ==
    /\ Executing
    /\ status[t] \notin {"UNALLOCATED", "JUST_CREATED", "DELETED"}
    /\ \/ \E i \in DOMAIN readyList :
            readyList[i] = t /\ readyList' = RemoveAt(readyList, i)
       \/ ~Listed(t) /\ UNCHANGED readyList
    /\ removed' = removed \cup {t}
    /\ UNCHANGED <<cpuVars, status, resumeLevel, waiting, finished, pending>>

\* doKill's setStatus(BLOCKED), some time after its RemoveThread: between them
\* it prints and edits lists, and may have been preempted.
SetBlocked(t) ==
    /\ Executing
    /\ t \in removed
    /\ t # currentThread
    /\ status[t] \in {"READY", "BLOCKED"}
    /\ status' = [status EXCEPT ![t] = "BLOCKED"]
    /\ UNCHANGED <<cpuVars, readyList, resumeLevel, waiting, finished, removed, pending>>

-----------------------------------------------------------------------------
(* Thread                                                                  *)

\* Thread::Thread.
Create(t) ==
    /\ Executing
    /\ status[t] = "UNALLOCATED"
    /\ status' = [status EXCEPT ![t] = "JUST_CREATED"]
    /\ UNCHANGED <<cpuVars, readyList, resumeLevel, waiting, finished, removed, pending>>

\* Thread::Fork, with StackAllocate: the saved context is ThreadRoot, which
\* starts by enabling interrupts.
Fork(t) ==
    /\ Executing
    /\ status[t] = "JUST_CREATED"
    /\ ReadyToRun(t, readyList, status)
    /\ fresh' = fresh \cup {t}
    /\ resumeLevel' = [resumeLevel EXCEPT ![t] = "IntOn"]
    /\ UNCHANGED <<currentThread, threadToBeDestroyed, level, mode,
                   waiting, finished, removed, pending>>

\* Mutant of Yield: back to the front of the ready list.
YieldToFront ==
    /\ Executing
    /\ readyList # << >>
    /\ readyList' = <<currentThread>> \o Tail(readyList)
    /\ resumeLevel' = [resumeLevel EXCEPT ![currentThread] = level]
    /\ Run(Head(readyList), [status EXCEPT ![currentThread] = "READY"], threadToBeDestroyed)
    /\ UNCHANGED <<waiting, finished, removed, pending>>

\* Thread::Yield: back to the end of the ready list, unless nobody is ready.
Yield ==
    /\ Executing
    /\ \/ readyList = << >> /\ UNCHANGED kernelVars
       \/ /\ readyList # << >>
          /\ readyList' = Append(Tail(readyList), currentThread)
          /\ resumeLevel' = [resumeLevel EXCEPT ![currentThread] = level]
          /\ Run(Head(readyList), [status EXCEPT ![currentThread] = "READY"],
                 threadToBeDestroyed)
          /\ UNCHANGED <<waiting, finished, removed, pending>>

\* The body of Thread::Sleep: block, then dispatch the first ready thread or
\* start to idle.  When SWITCH returns here interrupts are still off.
GiveUpCPU(doomed) ==
    LET blocked == [status EXCEPT ![currentThread] = "BLOCKED"]
    IN  /\ resumeLevel' = [resumeLevel EXCEPT ![currentThread] = "IntOff"]
        /\ \/ /\ readyList # << >>
              /\ readyList' = Tail(readyList)
              /\ Run(Head(readyList), blocked, doomed)
           \/ /\ readyList = << >>
              /\ status' = blocked
              /\ threadToBeDestroyed' = doomed
              /\ level' = "IntOff"
              /\ mode' = "IdleMode"
              /\ UNCHANGED <<currentThread, readyList, fresh>>

\* Thread::Sleep behind its ASSERT, called by a synchronization routine that has
\* just queued the thread.
Block ==
    /\ Executing
    /\ GiveUpCPU(threadToBeDestroyed)
    /\ waiting' = waiting \cup {currentThread}
    /\ UNCHANGED <<finished, removed, pending>>

\* Thread::Sleep as it may be called: ASSERT(interrupt->getLevel() == IntOff).
Sleep == level = "IntOff" /\ Block

\* Thread::Finish.
Finish ==
    /\ Executing
    /\ GiveUpCPU(currentThread)
    /\ finished' = finished \cup {currentThread}
    /\ UNCHANGED <<waiting, removed, pending>>

\* A synchronization routine run by the current thread calls ReadyToRun for the
\* thread t it took off its wait queue.
MakeReady(t) ==
    /\ Executing
    /\ ReadyToRun(t, readyList, status)
    /\ waiting' = waiting \ {t}
    /\ UNCHANGED <<cpuVars, resumeLevel, finished, removed, pending>>

\* ... as it may be called: for a thread that sleeps, and only once.
WakeUp(t) == t \in waiting /\ MakeReady(t)

-----------------------------------------------------------------------------
(* Interrupt                                                               *)

\* Interrupt::SetLevel called by the running thread.
SetLevel(now) ==
    /\ Executing
    /\ level' = now
    /\ UNCHANGED <<currentThread, threadToBeDestroyed, fresh, mode, threadVars, pending>>

\* Interrupt::Schedule, called by a device on behalf of the running thread.
Schedule ==
    /\ Executing
    /\ pending < MaxPending
    /\ pending' = pending + 1
    /\ UNCHANGED <<cpuVars, threadVars>>

\* CheckIfDue fires a handler: in OneTick, if interrupts are on, or in Idle.
\* A polling device (console, network) schedules its next interrupt in the
\* handler.  The handler wakes the threads in wake: none, or the one a
\* semaphore's V() takes off its queue.
RunHandler(wake) ==
    /\ \/ Executing /\ level = "IntOn"
       \/ mode = "IdleMode"
    /\ pending > 0
    /\ pending' \in {pending, pending - 1}
    /\ \/ wake = {} /\ UNCHANGED threadVars
       \/ \E t \in wake :
            /\ wake = {t}
            /\ ReadyToRun(t, readyList, status)
            /\ waiting' = waiting \ {t}
            /\ UNCHANGED <<resumeLevel, finished, removed>>
    /\ UNCHANGED cpuVars

\* ... as it may: the thread it wakes sleeps.
DeviceInterrupt(wake) == wake \subseteq waiting /\ RunHandler(wake)

\* Idle returns to the loop in Sleep, and somebody is ready now: perhaps the
\* very thread that went to sleep.
IdleDispatch ==
    /\ mode = "IdleMode"
    /\ readyList # << >>
    /\ readyList' = Tail(readyList)
    /\ Run(Head(readyList), status, threadToBeDestroyed)
    /\ UNCHANGED <<resumeLevel, waiting, finished, removed, pending>>

\* Idle finds no pending interrupt: "Assuming the program completed."
IdleHalt ==
    /\ mode = "IdleMode"
    /\ readyList = << >>
    /\ pending = 0
    /\ mode' = "Halted"
    /\ UNCHANGED <<currentThread, threadToBeDestroyed, fresh, level, threadVars, pending>>

\* Interrupt::Halt, called by the running thread.
Halt ==
    /\ Executing
    /\ mode' = "Halted"
    /\ UNCHANGED <<currentThread, threadToBeDestroyed, fresh, level, threadVars, pending>>

\* The simulator has exited.
Terminated == mode = "Halted" /\ UNCHANGED kernelVars

-----------------------------------------------------------------------------
KernelNext ==
    \/ \E t \in Thread : Create(t)
    \/ \E t \in Thread : Fork(t)
    \/ \E t \in Thread : WakeUp(t)
    \/ \E t \in Thread : RemoveThread(t)
    \/ \E t \in Thread : SetBlocked(t)
    \/ Yield
    \/ Sleep
    \/ Finish
    \/ \E now \in Level : SetLevel(now)
    \/ Schedule
    \/ \E wake \in {{}} \cup {{t} : t \in Thread} : DeviceInterrupt(wake)
    \/ IdleDispatch
    \/ IdleHalt
    \/ Halt
    \/ Terminated

\* What the kernel offers: any sequence of its operations.  The modules built
\* on it are shown to implement this specification.
KernelSpec == KernelInit /\ [][KernelNext]_kernelVars

\* Fairness of a system started with -rs: the timer re-arms itself in its own
\* handler, so a thread that enables interrupts again and again is preempted
\* (a strong condition, the level goes up and down); kernel code that disabled
\* interrupts does not do so forever; the simulator's idle loop runs.
KernelFairness ==
    /\ SF_kernelVars(level = "IntOn" /\ Yield)
    /\ WF_kernelVars(level = "IntOff" /\ SetLevel("IntOn"))
    /\ WF_kernelVars(IdleDispatch)

FairKernelSpec == KernelSpec /\ KernelFairness

-----------------------------------------------------------------------------
(* Properties                                                              *)

\* Every variable has its type.
KernelTypeOK ==
    /\ currentThread \in Thread
    /\ threadToBeDestroyed \in Thread \cup {NULL}
    /\ readyList \in Seq(Thread)
    /\ status \in [Thread -> Status]
    /\ fresh \subseteq Thread
    /\ resumeLevel \in [Thread -> Level]
    /\ waiting \subseteq Thread
    /\ finished \subseteq Thread
    /\ removed \subseteq Thread
    /\ level \in Level
    /\ mode \in Mode
    /\ pending \in 0 .. MaxPending

\* The ready list, the statuses and the wait queues tell the same story: a
\* thread is on the list once, and in no wait queue then; unless it is being
\* killed it is READY exactly when it is on the list.  RemoveThread leaves the
\* status to doKill, which may set it before or after others put the thread back
\* on the list: such a thread may be READY and off the list, or on it and
\* BLOCKED.  (Scheduler::Run, Thread::Yield, Thread::Sleep, Condition::Signal,
\* doKill and the interrupt handlers all change one or the other.)
ReadyListExact ==
    /\ \A i, j \in DOMAIN readyList : readyList[i] = readyList[j] => i = j
    /\ \A t \in Thread : Listed(t) =>
         /\ status[t] = "READY" \/ (status[t] = "BLOCKED" /\ t \in removed)
         /\ t \notin waiting
    /\ \A t \in Thread : status[t] = "READY" => Listed(t) \/ t \in removed

\* The CPU has one owner: while kernel code executes, currentThread is RUNNING
\* and nobody else is; while the machine idles nobody is, although
\* currentThread still names the thread whose Sleep is looping, and handlers
\* run with interrupts off (the ASSERT in CheckIfDue).
OneRunningThread ==
    /\ Executing => \A t \in Thread : status[t] = "RUNNING" <=> t = currentThread
    /\ mode = "IdleMode" => level = "IntOff" /\ \A t \in Thread : status[t] # "RUNNING"

\* A thread that called Finish is dead: no queue knows it, and only the idle
\* loop entered from its own Sleep still runs on its stack.  The thread to be
\* destroyed is such a thread, so the ASSERT(this != currentThread) in ~Thread
\* holds whenever Scheduler::Run deletes it.
CarcassIsDead ==
    /\ \A t \in finished :
         /\ status[t] \in {"BLOCKED", "DELETED"}
         /\ t \notin waiting
         /\ ~Listed(t)
    /\ threadToBeDestroyed \in {NULL} \cup {t \in finished : status[t] = "BLOCKED"}
    /\ Executing => threadToBeDestroyed # currentThread

\* The statuses, the ready list, currentThread and threadToBeDestroyed, which
\* Yield, Sleep, Finish, Run, doKill and the handlers all change, agree.
SchedulerConsistent == ReadyListExact /\ OneRunningThread /\ CarcassIsDead

\* A thread that some wait queue knows is BLOCKED and not finished.
SleepersAreBlocked == \A t \in waiting : status[t] = "BLOCKED" /\ t \notin finished

\* The inductive invariant of the kernel.
KernelInv ==
    /\ KernelTypeOK
    /\ ReadyListExact
    /\ OneRunningThread
    /\ CarcassIsDead
    /\ SleepersAreBlocked

\* The ready list is FIFO: a thread that stays on it never moves back, whatever
\* the others do (fork, wake up, yield, be killed).
NeverOvertaken ==
    [][\A t \in Thread : \A i \in DOMAIN readyList, j \in DOMAIN readyList' :
         readyList[i] = t /\ readyList'[j] = t => j <= i]_kernelVars

\* No starvation: a thread on the ready list runs, unless RemoveThread takes it
\* off or the machine stops.
ReadyThreadRuns ==
    \A t \in Thread :
        Listed(t) ~> \/ status[t] = "RUNNING"
                     \/ t \in removed /\ ~Listed(t)
                     \/ mode = "Halted"
=============================================================================
