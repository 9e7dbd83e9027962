----------------------------- MODULE Interrupt ------------------------------
(***************************************************************************)
(* machine/interrupt.cc and machine/timer.cc: simulated time, the sorted   *)
(* list of pending interrupts, OneTick, the idle loop, the yield a timer   *)
(* handler asks for, and the machine status (user, system, idle) that is   *)
(* saved and restored across all of that.  It details Kernel, where an     *)
(* interrupt may arrive whenever interrupts are on.                        *)
(*                                                                         *)
(* Time is relative: an entry of the list holds its "due", when - totalTicks,*)
(* so advancing the clock lowers every due and the states stay finite.     *)
(*                                                                         *)
(* While point is "tick" the code's level is IntOff (OneTick sets it for   *)
(* the handlers); Kernel's level keeps the value the interrupted code sees,*)
(* IntOn.                                                                  *)
(***************************************************************************)
EXTENDS Kernel, FiniteSets, FiniteSetsExt

CONSTANTS
    Device,        \* devices with an outstanding operation or poll: disk, console, ...
    TimerInt,      \* the IntType of the timer
    UseTimer,      \* Nachos runs with -rs (or a quantum): there is a timer
    UserTick,      \* stats.h: time a user instruction takes
    SystemTick,    \* stats.h: time that passes when interrupts are enabled
    MaxDelay       \* bound on fromNow: 2 * TimerTicks, and the device delays

ASSUME DeviceAssumption == IsFiniteSet(Device) /\ TimerInt \notin Device
ASSUME TickAssumption ==
    /\ UserTick \in Nat \ {0} /\ SystemTick \in Nat \ {0} /\ MaxDelay \in Nat \ {0}
    /\ UseTimer \in BOOLEAN

VARIABLES
    queue,          \* Interrupt::pending, the sorted list, with relative times
    machineStatus,  \* Interrupt::status
    yieldOnReturn,  \* Interrupt::yieldOnReturn
    point,          \* inside OneTick's loop, Idle's loop, or neither
    saved,          \* the "old" of a thread's outermost OneTick
    place           \* whose code a thread is in: kernel, user, or a system call

tickVars      == <<queue, machineStatus, yieldOnReturn, point, saved, place>>
interruptVars == <<kernelVars, tickVars>>

Entry == [type : Device \cup {TimerInt}, due : Int]

-----------------------------------------------------------------------------
(* The sorted list                                                         *)

\* Mutant of SortedInsert: always at the end.
SortedInsertAppends(list, e) == Append(list, e)

\* List::SortedInsert: before the first entry with a larger key.
SortedInsert(list, e) ==
    LET larger == {i \in DOMAIN list : e.due < list[i].due}
    IN  IF larger = {} THEN Append(list, e) ELSE InsertAt(list, Min(larger), e)

\* The clock moves on by n ticks.
Advance(list, n) == [i \in DOMAIN list |-> [list[i] EXCEPT !.due = @ - n]]

\* CheckIfDue puts an entry back it should not have taken off: behind the
\* others of the same time.
PutBack(list) == IF list = << >> THEN list ELSE SortedInsert(Tail(list), Head(list))

HeadIsDue == queue # << >> /\ Head(queue).due <= 0

\* "If the pending interrupt is just the time-slice daemon, then we're done."
LoneTimer == queue # << >> /\ Head(queue).type = TimerInt /\ Tail(queue) = << >>

-----------------------------------------------------------------------------
InterruptInit ==
    /\ KernelInit
    /\ queue \in {[i \in 1 .. (IF UseTimer THEN 1 ELSE 0) |-> [type |-> TimerInt, due |-> d]] :
                    d \in 1 .. MaxDelay}
    /\ machineStatus = "SystemMode"
    /\ yieldOnReturn = FALSE
    /\ point = "run"
    /\ saved = [t \in Thread |-> "SystemMode"]
    /\ place = [t \in Thread |-> "kernel"]

\* The running thread executes code of its own: no handler, no idle loop.
Running == Executing /\ point = "run"
InKernel == Running /\ place[currentThread] # "user"

\* OneTick starts, the pending list being list: the clock advances by n, and the
\* handlers get their turn.
StartTick(list, n) ==
    /\ queue' = Advance(list, n)
    /\ point' = "tick"

\* The thread dispatched by a kernel step goes on.  If its interrupts are to be
\* on, the SetLevel behind SWITCH (or ThreadRoot's Enable) calls OneTick.
Resume(list) ==
    /\ machineStatus' = "SystemMode"
    /\ \/ level' = "IntOn" /\ StartTick(list, SystemTick)
       \/ level' = "IntOff" /\ point' = "run" /\ queue' = list

-----------------------------------------------------------------------------
(* User code                                                               *)

\* Machine::Run.
EnterUserCode ==
    /\ InKernel /\ level = "IntOn"
    /\ machineStatus' = "UserMode"
    /\ place' = [place EXCEPT ![currentThread] = "user"]
    /\ UNCHANGED <<kernelVars, queue, yieldOnReturn, point, saved>>

\* OneInstruction without an exception, and the OneTick behind it.
Instruction ==
    /\ Running /\ place[currentThread] = "user"
    /\ StartTick(queue, UserTick)
    /\ saved' = [saved EXCEPT ![currentThread] = machineStatus]
    /\ UNCHANGED <<kernelVars, machineStatus, yieldOnReturn, place>>

\* Machine::RaiseException, up to the call of ExceptionHandler.
RaiseException ==
    /\ Running /\ place[currentThread] = "user"
    /\ machineStatus' = "SystemMode"
    /\ place' = [place EXCEPT ![currentThread] = "syscall"]
    /\ UNCHANGED <<kernelVars, queue, yieldOnReturn, point, saved>>

\* ExceptionHandler returns, and the instruction ends with its OneTick.
ReturnToUser ==
    /\ Running /\ place[currentThread] = "syscall" /\ level = "IntOn"
    /\ machineStatus' = "UserMode"
    /\ place' = [place EXCEPT ![currentThread] = "user"]
    /\ saved' = [saved EXCEPT ![currentThread] = "UserMode"]
    /\ StartTick(queue, UserTick)
    /\ UNCHANGED <<kernelVars, yieldOnReturn>>

-----------------------------------------------------------------------------
(* Kernel code                                                             *)

\* Kernel operations that neither switch threads nor touch the level.
PlainCall ==
    /\ InKernel
    /\ \E t \in Thread : Create(t) \/ Fork(t) \/ WakeUp(t)
    /\ UNCHANGED tickVars

\* SetLevel(IntOff), and SetLevel(IntOn) when they are on already.
Disable ==
    /\ InKernel
    /\ \E now \in Level : (now = "IntOff" \/ level = "IntOn") /\ SetLevel(now)
    /\ UNCHANGED tickVars

\* SetLevel(IntOn), Enable.
EnableInterrupts ==
    /\ InKernel
    /\ level = "IntOff"
    /\ SetLevel("IntOn")
    /\ StartTick(queue, SystemTick)
    /\ saved' = [saved EXCEPT ![currentThread] = machineStatus]
    /\ UNCHANGED <<machineStatus, yieldOnReturn, place>>

\* A thread calls Yield.  With nobody ready it still passes SetLevel(oldLevel).
CallYield ==
    /\ InKernel
    /\ Yield
    /\ saved' = [saved EXCEPT ![currentThread] = machineStatus]
    /\ Resume(queue)
    /\ UNCHANGED <<yieldOnReturn, place>>

\* A thread sleeps or finishes; if nobody is ready it starts the idle loop.
CallSleep ==
    /\ InKernel
    /\ Sleep \/ Finish
    /\ Resume(queue)
    /\ UNCHANGED <<yieldOnReturn, saved, place>>

\* Interrupt::Schedule by a device that has no operation under way.
ScheduleDevice(d) ==
    /\ InKernel
    /\ \A i \in DOMAIN queue : queue[i].type # d
    /\ Schedule
    /\ \E fromNow \in 1 .. MaxDelay :
         queue' = SortedInsert(queue, [type |-> d, due |-> fromNow])
    /\ UNCHANGED <<machineStatus, yieldOnReturn, point, saved, place>>

CallHalt == InKernel /\ Halt /\ UNCHANGED tickVars

-----------------------------------------------------------------------------
(* Handlers                                                                *)

\* The handler of an entry just taken off the list, rest being what is left.
\* Timer::TimerExpired schedules the next interrupt and asks for a yield (the
\* status is SystemMode in a handler, so TimerInterruptHandler's test for
\* IdleMode never stops it); a device's handler may wake a thread, and a
\* polling device schedules itself again.
Fire(type, rest) ==
    \/ /\ type = TimerInt
       /\ \E d \in 1 .. MaxDelay : queue' = SortedInsert(rest, [type |-> type, due |-> d])
       /\ yieldOnReturn' = TRUE
       /\ UNCHANGED kernelVars
    \/ /\ type # TimerInt
       /\ \E wake \in {{}} \cup {{t} : t \in Thread} : DeviceInterrupt(wake)
       /\ \/ pending' = pending - 1 /\ queue' = rest
          \/ /\ pending' = pending
             /\ \E d \in 1 .. MaxDelay : queue' = SortedInsert(rest, [type |-> type, due |-> d])
       /\ UNCHANGED yieldOnReturn

\* CheckIfDue(FALSE) in OneTick's loop fires a handler.
TickFires ==
    /\ point = "tick"
    /\ HeadIsDue
    /\ Fire(Head(queue).type, Tail(queue))
    /\ UNCHANGED <<machineStatus, point, saved, place>>

\* Mutant of TickReturns: OneTick checks for one due interrupt, not in a loop.
TickReturnsEarly ==
    /\ point = "tick"
    /\ ~yieldOnReturn
    /\ machineStatus' = saved[currentThread]
    /\ point' = "run"
    /\ queue' = PutBack(queue)
    /\ UNCHANGED <<kernelVars, yieldOnReturn, saved, place>>

\* OneTick ends with no yield asked for: the thread goes on where it was
\* interrupted, through the OneTicks it may be nested in, the outermost of
\* which restores the status.
TickReturns ==
    /\ point = "tick"
    /\ ~HeadIsDue
    /\ ~yieldOnReturn
    /\ machineStatus' = saved[currentThread]
    /\ point' = "run"
    /\ queue' = PutBack(queue)
    /\ UNCHANGED <<kernelVars, yieldOnReturn, saved, place>>

\* Mutant of TickYields: "status = old" is missing behind the Yield.
TickYieldsForgetsStatus ==
    /\ point = "tick"
    /\ ~HeadIsDue
    /\ yieldOnReturn
    /\ yieldOnReturn' = FALSE
    /\ Yield
    /\ saved' = [saved EXCEPT ![currentThread] = "SystemMode"]
    /\ Resume(PutBack(queue))
    /\ UNCHANGED place

\* OneTick ends and the timer asked for a yield: the interrupted thread is
\* preempted.  Whoever runs next, itself if nobody is ready, resumes behind its
\* own SWITCH; if that enables interrupts it is in for another OneTick.
TickYields ==
    /\ point = "tick"
    /\ ~HeadIsDue
    /\ yieldOnReturn
    /\ yieldOnReturn' = FALSE
    /\ Yield
    /\ Resume(PutBack(queue))
    /\ UNCHANGED <<saved, place>>

-----------------------------------------------------------------------------
(* Idle                                                                    *)

\* The loop in Sleep found nobody, and calls Idle.
AtIdle == mode = "IdleMode" /\ point = "run" /\ readyList = << >>

\* Mutant of IdleAdvances: CheckIfDue(FALSE), the clock stands still.
IdleWaits ==
    /\ AtIdle
    /\ queue # << >>
    /\ ~LoneTimer
    /\ \/ HeadIsDue /\ Fire(Head(queue).type, Tail(queue))
       \/ ~HeadIsDue /\ UNCHANGED <<kernelVars, queue, yieldOnReturn>>
    /\ machineStatus' = "IdleMode"
    /\ point' = "idle"
    /\ UNCHANGED <<saved, place>>

\* CheckIfDue(TRUE): the clock jumps to the first interrupt, which fires.
IdleAdvances ==
    /\ AtIdle
    /\ queue # << >>
    /\ ~LoneTimer
    /\ LET late == IF Head(queue).due > 0 THEN Head(queue).due ELSE 0
       IN  Fire(Head(queue).type, Advance(Tail(queue), late))
    /\ machineStatus' = "IdleMode"
    /\ point' = "idle"
    /\ UNCHANGED <<saved, place>>

\* CheckIfDue(FALSE) in Idle's loop fires another.
IdleFires ==
    /\ point = "idle"
    /\ HeadIsDue
    /\ ~LoneTimer
    /\ Fire(Head(queue).type, Tail(queue))
    /\ UNCHANGED <<machineStatus, point, saved, place>>

\* Idle returns to the loop in Sleep; "the yield is automatic".
IdleReturns ==
    /\ point = "idle"
    /\ ~HeadIsDue \/ LoneTimer
    /\ yieldOnReturn' = FALSE
    /\ machineStatus' = "SystemMode"
    /\ point' = "run"
    /\ queue' = PutBack(queue)
    /\ UNCHANGED <<kernelVars, saved, place>>

\* The loop in Sleep finds a thread a handler has woken.
IdleRuns ==
    /\ point = "run"
    /\ IdleDispatch
    /\ Resume(queue)
    /\ UNCHANGED <<yieldOnReturn, saved, place>>

\* Mutant of IdleStops: the time-slice daemon alone at the head is enough.
IdleStopsForTimer ==
    /\ AtIdle
    /\ queue = << >> \/ Head(queue).type = TimerInt
    /\ mode' = "Halted"
    /\ machineStatus' = "IdleMode"
    /\ UNCHANGED <<currentThread, threadToBeDestroyed, fresh, level, threadVars, pending>>
    /\ UNCHANGED <<queue, yieldOnReturn, point, saved, place>>

\* Nothing is pending but, perhaps, the timer: the program is over.
IdleStops ==
    /\ AtIdle
    /\ queue = << >> \/ LoneTimer
    /\ mode' = "Halted"
    /\ machineStatus' = "IdleMode"
    /\ UNCHANGED <<currentThread, threadToBeDestroyed, fresh, level, threadVars, pending>>
    /\ UNCHANGED <<queue, yieldOnReturn, point, saved, place>>

Stopped == Terminated /\ UNCHANGED tickVars

-----------------------------------------------------------------------------
InterruptNext ==
    \/ EnterUserCode
    \/ Instruction
    \/ RaiseException
    \/ ReturnToUser
    \/ PlainCall
    \/ Disable
    \/ EnableInterrupts
    \/ CallYield
    \/ CallSleep
    \/ \E d \in Device : ScheduleDevice(d)
    \/ CallHalt
    \/ TickFires
    \/ TickReturns
    \/ TickYields
    \/ IdleAdvances
    \/ IdleFires
    \/ IdleReturns
    \/ IdleRuns
    \/ IdleStops
    \/ Stopped

InterruptSpec == InterruptInit /\ [][InterruptNext]_interruptVars

\* The simulator's loops go on; user code goes on executing instructions; a
\* thread in the kernel goes on calling its routines, each of which disables
\* interrupts and enables them again (a strong condition: a program whose every
\* instruction is an Exec ticks only in the locks that doExec takes).
InterruptFairness ==
    /\ WF_interruptVars(TickFires \/ TickReturns \/ TickYields)
    /\ WF_interruptVars(IdleAdvances \/ IdleFires \/ IdleReturns \/ IdleRuns \/ IdleStops)
    /\ WF_interruptVars(Instruction)
    /\ SF_interruptVars(level = "IntOn" /\ SetLevel("IntOff") /\ Disable)
    /\ WF_interruptVars(EnableInterrupts)

FairInterruptSpec == InterruptSpec /\ InterruptFairness

-----------------------------------------------------------------------------
(* Properties                                                              *)

TimerEntries == {i \in DOMAIN queue : queue[i].type = TimerInt}

\* Every variable has its type, a device has at most one entry, and Kernel's
\* count of outstanding device interrupts is the number of entries.
InterruptTypeOK ==
    /\ KernelTypeOK
    /\ queue \in Seq(Entry)
    /\ \A i, j \in DOMAIN queue : queue[i].type = queue[j].type => i = j
    /\ pending = Len(queue) - Cardinality(TimerEntries)
    /\ machineStatus \in {"SystemMode", "UserMode", "IdleMode"}
    /\ yieldOnReturn \in BOOLEAN
    /\ point \in {"run", "tick", "idle"}
    /\ saved \in [Thread -> {"SystemMode", "UserMode"}]
    /\ place \in [Thread -> {"kernel", "user", "syscall"}]

\* No interrupt is late: whenever a thread executes with interrupts on, every
\* pending interrupt lies in the future.  (OneTick's loop, the order of the
\* list across clock jumps and the re-insertions of CheckIfDue.)
NothingOverdue ==
    Running /\ level = "IntOn" => \A i \in DOMAIN queue : queue[i].due > 0

\* The machine status is right after every preemption, nested tick, system call
\* and idle period: UserMode exactly while the running thread is in user code.
StatusMatchesCode ==
    /\ Running => machineStatus = IF place[currentThread] = "user" THEN "UserMode"
                                                                   ELSE "SystemMode"
    /\ place[currentThread] = "user" /\ Executing => level = "IntOn"

\* A yield asked for by the timer is taken by the thread it interrupted or not
\* at all: no request survives to preempt a thread that runs later.
NoStaleYield == Running => ~yieldOnReturn

\* The time-slice daemon lives: with a timer there is always exactly one timer
\* interrupt on the list, whatever fires, is put back, or is cut off by idling.
TimerAlive == Cardinality(TimerEntries) = IF UseTimer THEN 1 ELSE 0

\* What OneTick, the handlers and Idle keep in globals across context switches
\* is in order whenever a thread goes on: status, yield request and timer.
TickBookkeeping == InterruptTypeOK /\ StatusMatchesCode /\ NoStaleYield /\ TimerAlive

\* The handler of d is called.
Fires(d) == (TickFires \/ IdleAdvances \/ IdleFires) /\ Head(queue).type = d

\* A scheduled device interrupt is delivered, on a busy machine as on an idle
\* one, unless the machine stops: no device stays pending forever while its
\* handler is never called.
DeviceIsServed ==
    \A d \in Device :
        \/ []<>(mode = "Halted" \/ \A i \in DOMAIN queue : queue[i].type # d)
        \/ []<><<Fires(d)>>_interruptVars
=============================================================================
