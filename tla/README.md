# Nachos: a verification project

This directory holds TLA+ models of Nachos 3.4 as it stands in this repository
(`src/nachos-3.4/code`: the teaching operating system, with the lab work on
locks, condition variables, the elevator and user processes done), the TLC
configurations that check them, and TLAPS proofs. Paths below are relative to
`src/nachos-3.4/code`.

Run a model with `tlc -config MCKernel.cfg MCKernel`, check proofs with
`tlapm KernelProofs.tla`.

## 1. The system and its parts

Nachos is an operating system that runs on a simulated uniprocessor inside one
Unix process. The running thread loses the CPU only in `Thread::Yield`, `Sleep`
and `Finish`; interrupt handlers run only inside `Interrupt::OneTick` (which a
user instruction or the enabling of interrupts causes) and in the idle loop. So
the concurrency is real, but its switching points are known, and an action of
a model is the code between two of them.

| Part | State | Operations | Talks to | What is hard | What makes it correct |
|---|---|---|---|---|---|
| Threads, scheduler (`threads/thread.cc`, `scheduler.cc`, `switch.s`) | status and context of each thread, `currentThread`, `threadToBeDestroyed`, ready list | Fork, Yield, Sleep, Finish, ReadyToRun, Run, RemoveThread | everything | a context switch inside `Run`; a thread that deletes its predecessor; idling on a sleeping thread's stack | one running thread; READY exactly when queued; dead threads stay dead; no starvation |
| Interrupts, timer (`machine/interrupt.cc`, `timer.cc`) | level, status, clock, sorted list of pending interrupts, `yieldOnReturn` | SetLevel, OneTick, Schedule, CheckIfDue, Idle, Halt | devices call Schedule, handlers call V and YieldOnReturn | handlers in the middle of any code; preemption inside OneTick; the lone timer | nothing late; the status matches the code; no stale yield; the timer survives; devices are served |
| Semaphores, locks, conditions (`threads/synch.cc`) | value or owner, a wait queue each | P, V, Acquire, Release, Wait, Signal, Broadcast | thread kernel | barging, lost wake-ups, preemption inside Signal and Broadcast | mutual exclusion, no lost thread, no missed wake-up, atomic Wait |
| Elevator (`threads/elevator.cc`) | floor, goals, occupancy, persons' lists, two locks, two conditions per floor | start, hailElevator, ArrivingGoingFromTo, haltTest | synch, scheduler | persons race the elevator for its lock; occupancy lags behind signals | doors open at the right floor, occupancy limit, everyone arrives |
| User processes (`userprog/exception.cc`, `pcb.cc`, `pcbmanager.cc`, `memorymanager.cc`, `addrspace.cc`) | PCBs, process table, page tables, page bitmap, two locks | Fork, Exec, Exit, Join, Kill, Yield | scheduler, locks, MMU | objects deleted by whoever comes last; failure half-way; preemption inside a system call | pages and pids exact, nothing used after deletion, everything returned |
| Lists (`threads/list.cc`, `synchlist.cc`) | first, last, next, heap | Append, Prepend, Remove, RemoveItem, SortedInsert | everything | `last` after a removal | a list is a sequence |
| Disk, SynchDisk (`machine/disk.cc`, `filesys/synchdisk.cc`) | active request, track buffer, lock, semaphore | ReadRequest, WriteRequest, ReadSector, WriteSector, handlers | interrupts, semaphores | a request while one is active; whose interrupt it was | one at a time, each caller returns after its own interrupt, sectors atomic |
| Console (`machine/console.cc`, `userprog/progtest.cc`) | one character of input, busy flag | GetChar, PutChar, polling, handlers | interrupts, semaphores | one buffer, two interrupts | every character echoed once, in order |
| File system (`filesys/`, `userprog/bitmap.cc`) | free map, directory, headers, open files | Create, Open, Remove, ReadAt, WriteAt | SynchDisk | order of the writes; a stop between two; sector boundaries | no sector owned twice, files are byte arrays, a stop harms one file |
| Network, post office (`machine/network.cc`, `network/post.cc`) | packet in and out, mailboxes | Send, Receive, PostalDelivery | interrupts, SynchList, other machines | loss; completion by interrupt; a machine that halts | order, no duplication, no deadlock |
| Translation (`machine/translate.cc`) | page table or TLB, use and dirty bits | Translate, ReadMem, WriteMem | MIPS simulator | alignment and range checks; stale TLB entries | goes where the page table says |
| MIPS simulator (`machine/mipssim.cc`, `machine.cc`) | registers, memory, delayed load | Run, OneInstruction, RaiseException | interrupts, translation | delay slots across exceptions; signs | a user program sees an R2000 |
| Tools (`bin/`) | a COFF file, the interpreter's registers | coff2noff, coff2flat, load, runprogram, disassemble | the loader in `addrspace.cc` | three decoders of one instruction set; segments in pages | the same program everywhere |
| Start-up (`threads/main.cc`, `system.cc`) | settings, global objects | Initialize, main | everything | the line is read by two or three loops | options take effect; created before used |
| C++ primer (`c++example/`) | arrays, a list | Push, Pop | | | last in, first out |

`PROJECT.json` lists every part with its status, and the hazards of the code at
their lines.

## 2. Modules

| Module | Models | Built on |
|---|---|---|
| `Kernel` | threads, scheduler, interrupt level, idle loop; wait queues abstracted to one set, devices to "an interrupt may come" | |
| `Synch` | semaphores, locks, condition variables, step by step | extends `Kernel`, implements `KernelSpec` |
| `Interrupt` | time, pending list, OneTick, idle loop, timer, machine status, user code and system calls | extends `Kernel`, implements `KernelSpec` |
| `Elevator` | the elevator with its persons, on an explicit ready list | assumes of locks and conditions what `Synch` shows |
| `Process` | the system calls on processes | assumes of locks what `Synch` shows |
| `SynchDisk` | disk requests, completion interrupt, lock and semaphore | implements `AtomicDisk` |
| `AtomicDisk` | abstract: a disk that serves one call at a time, reads or writes its sector in one step, and lets a call return only after that call's own completion | |
| `Console` | console device and ConsoleTest | |
| `FileSystem` | Create, Remove, Open, Format, mounting, as sector writes, with crashes | assumes of the disk what `AtomicDisk` says |
| `PostOffice` | machines, network, postal workers, mailboxes, clients | implements `MailService` |
| `MailService` | abstract: a mailbox is a queue that may lose at the sender | |
| `OpenFile` | ReadAt, WriteAt, and `fstest.cc` on top of them | |
| `DiskTiming` | latency of requests, track buffer | |
| `Translation` | Translate, ReadMem, WriteMem | |
| `R2000` | reference: the processor, one instruction at a time | extends `Translation` |
| `MipsSim`, `BinSim` | the two interpreters of MIPS instructions | extend `R2000` |
| `Decoders` | the three decoders and the operands that traces show | extends `R2000` |
| `Loader` | COFF to NOFF and flat files, and into memory | extends `Translation` |
| `LinkedList`, `Stacks` | lists with pointers and heap; the primer's stacks | |
| `Startup` | the command line and the order of creation | |
| `Lists` | lemmas about list operations on sequences | |
| `KernelProofs` | theorems about `Kernel` | `Lists` |
| `SynchProofs` | theorems about `Synch`: types, locks, refinement, wake-ups | `KernelProofs` |
| `InterruptProofs` | theorems about `Interrupt` | `KernelProofs` |
| `DeviceProofs` | theorems about `SynchDisk`, `Console` and `PostOffice` | |
| `ProcessProofs` | theorems about `Process` | `Lists` |
| `ElevatorProofs` | theorems about `Elevator` | `Lists` |
| `FileSystemProofs` | theorems about `FileSystem` | |
| `MC...` | small instances for TLC | |

### Kernel

`currentThread`, `threadToBeDestroyed`, `readyList`, `status` and `level` are
the variables of the code. `fresh` marks forked threads that never ran (SWITCH
enters `ThreadRoot`, not the second half of `Run`), `resumeLevel` is the
`oldLevel` of the `Yield` a thread sits in, `finished` is history. `Run` joins
both halves of `Scheduler::Run` around SWITCH: interrupts are off there. `Sleep`
with an empty ready list enters the idle loop; `IdleDispatch` leaves it, also
to the very thread that is idling. `WakeUp(t)` stands for a
`ReadyToRun` by V, Release, Signal or a handler. `RemoveThread` takes a thread off
the ready list and leaves its status alone, as `scheduler.cc` does; `SetBlocked` is
what `doKill` does to it some time later, and `~PCB` never. So a thread that is
READY and on no list, and one that is BLOCKED and on it, are states of the model;
`removed`, history, says which threads these may be.

### Synch

Each call is a sequence of steps, one per kernel operation; `pc` says where a thread
is in `synch.cc`, `then` where a shared tail (`SetLevel(oldLevel)`) returns to. The
steps that sleep, make a thread ready or run a handler are `Kernel`'s `Block`,
`MakeReady` and `RunHandler`: what these do, without the conditions under which the
kernel wants it done (interrupts off; the thread asleep). That the routines keep
to them is `KernelSpec`, checked and proved. `HandlerV` is a V from a device
handler (`SynchDisk::RequestDone`). Clients keep the contract that the ASSERTs
state. `held` is history: what a client believes to hold.

### Interrupt

Times on the pending list are relative to the clock, which keeps the states
finite. `point` tells the loop of `OneTick` and that of `Idle` from the rest;
`saved[t]` is the local `old` of the `OneTick` that thread `t` is preempted in;
`place[t]` whether `t` is in kernel code, user code or a system call. The timer
re-arms itself in its handler with any delay up to `MaxDelay` (`-rs`).

### Elevator

A person's thread runs with interrupts off from dispatch to sleep, one step.
The elevator's thread is preemptible everywhere, holding its locks too. The
Person arrays are sets, the printed log and the person numbers are left out.
`Garbage` is what the fields no constructor sets may hold; the runs use zero,
what a fresh heap contains.

### Process

Threads, address spaces and PCBs are heap addresses, because the code keeps
pointers to deleted objects; a deleted object keeps its contents until the
address is handed out again, which may be at once or never. A thread has a stack of frames (the
routines it is in), a step is the code between two lock operations, and
`ticked` marks where interrupts have just been enabled, so that the timer may
preempt (`Timer`). Locks wake any sleeper and the scheduler picks any ready
thread: more than the FIFO queues allow, so what holds here holds there.
`decspn` walks a snapshot of the children (`Mapcar` runs over a list that
nobody else changes meanwhile, except `Kill`). A finished thread's address can
be reused at once, a little earlier than `Scheduler::Run` deletes it. Since Join
leaves the deleted PCB in the list of children, a PCB at the same address can
enter the list a second time; Kill takes out the first entry only, as
`List::RemoveItem` does. Three variables are history: `misused`, a pointer to a
deleted PCB was followed; `reused`, memory of a dead thread that a live PCB still
points to, or of its space, was handed out; `starved`, an Exec found too little
memory. `NoFlaw` is the absence of the last two: from the first of them on, the code
does not keep its processes apart (section 6), so what is claimed of their lives is
claimed until then.

### SynchDisk, Console

The disk moves the data when it is asked and schedules the interrupt, as
`Disk::ReadRequest` does; `irq` counts queued interrupts, so that a second one
would show. Acquire, P and Release are one step each; a thread that sleeps in
one is a thread whose step is not enabled, which is what `Synch` justifies. The
ASSERTs of the devices are not guards but properties. `AtomicDisk` sees the disk's
`active` flag; a call is served from its request until the flag falls, then done.
Lock and semaphore do not show, but without them the disk would be asked while it
is busy, or a call would return before its own interrupt. Nachos is started for file
system work, for the console test or, on a network kernel, for the mail test
(`main.cc`): `MCDevices` chooses one.

### FileSystem

An operation changes its copies in memory and then has `pending` sector writes,
in the code's order; `WriteSector` does one, `Crash` drops the rest. The
directory takes two sectors with one entry across their boundary, as ten entries
of 20 bytes in sectors of 128 do, so a torn directory is a state of the model.
`Restart` mounts what the crash left, consistent or not: nothing in the code
checks. Nor does anything keep a client from removing a file that is open, and
writing to it when its sectors are another's. After either, `damaged` says so, and
only `SystemFilesSurvive` is claimed. Open and Remove take any sector for a header
that the directory says is one. Where it is none, Remove frees sectors, and a write
to the file overwrites sectors, that the model cannot know (`RemoveMisread`,
`WriteMisread`; the same if the disk has no system at all): then the run is
`astray`, every sector unknown, until the disk is formatted. Clients do not ask for
more than `MaxFileSize`. Operations do not overlap, as `filesys.cc:33` and `:167` demand.

### PostOffice

Machines are Nachos processes with a datagram socket each, which keeps the order;
`Send` loses the packet if `reliable` is false. A critical section of a
`SynchList` is one step, `Condition::Wait` is to be in `waiters` and `Put` wakes
the first, who must look again. Clients follow scripts; `MailTest` is the one of
`nettest.cc`. `Halt` stops a machine with everything in it. The delay of two
seconds in `main.cc` is the assumption `Delayed`: both machines are up when the
first message is sent.

### The sequential modules

Words of `R2000`, `MipsSim` and `BinSim` have four bytes of `ByteBits` bits, so
that small words have all the cases of large ones: sign, carry, overflow,
partial words, shifts by the width. A machine is a record and an instruction a
function of it. `R2000` is written from what the processor does and the
interpreters from their code, line by line, on unsigned or signed registers as
declared. Where they differ is a list (`KnownDeviation`, `Shortcut`), each entry
a condition on the instruction and its operands; anything else is a violation.
`LinkedList` has pointers and a heap: using a deleted element is an error.
`Decoders` has the trace of every instruction, loads and stores of coprocessors
and the unknown branches included. `Loader` begins with the magic number of the
file, the converters with the memory offset that `int.h` adds. `Startup` reads a line the way the loops of `Initialize` and `main` do, with
their `argCount`, the elevator's branch of `main` included; a Makefile's symbols are a
set.

## 3. What the runs check

Ten runs pass, and two (further below) find a violation that is a finding.
Deadlock is checked in eight of the ten; a machine that has halted or died stutters
there. `devices` and `algorithms` may end: the console test returns, machines halt,
an input has been tried.

| Run | Instance | Shows |
|---|---|---|
| `kernel` | 3 threads, 1 device interrupt, kills in two halves | `SchedulerConsistent` (the ready list agrees with the statuses but for threads that RemoveThread was called for, one thread runs, finished threads stay dead), `NeverOvertaken` (FIFO: nobody on the ready list ever moves back), and under fairness `ReadyThreadRuns` |
| `synch` | 3 threads; a semaphore (value up to 2) and a device handler, or a client lock and a condition with its queue lock | `NoWakeUpLost` (a sleeping thread is found in exactly one queue, once; no V or Release is wasted while threads sleep, Broadcast leaves no waiter behind), `MutualExclusion`, `WaitIsAtomic`, refinement of `KernelSpec`; under fairness `FreeLockIsTaken`, `SignalledThreadIsReadied` |
| `interrupt` | 2 threads, timer, 2 devices, delays up to 3, ticks of 1 and 2 | `NothingOverdue`, `TickBookkeeping` (the machine status matches the code that runs, no yield request goes stale, the timer survives), refinement of `KernelSpec`; under fairness `DeviceIsServed` |
| `elevator_safety` | 3 persons, 3 floors, room for 2 | `CrowdExact` (the occupancy and the lists the elevator steers by match the persons), `DoorsOpenAtRightFloor` |
| `elevator_liveness` | 2 persons, 3 floors, room for 1 | `JourneysEnd`: everyone arrives, and the machine halts |
| `process_plain` | 4 processes, 3 pids, 4 pages, programs of 1 and 2 pages, no timer, addresses reused | until a flaw (`NoFlaw`): `ProcessesSurvive` (Nachos dies only of a full table, nobody vanishes, `mmLock` is held only inside its critical sections, no deleted PCB is used), `EverythingReturned` |
| `process_any` | 3 processes, 2 pages, timer, addresses reused, every system call | `PagesExact` (no page in two page tables, the bitmap exact), `PidsExact` (a live PCB is the one its pid finds, until a deleted PCB is used) |
| `filesystem` | 8 sectors (3 for files), 2 entries of which one is split, 3 names, files of 0, 1 and 2 blocks, open files removed too | unless damaged: `ConsistentBetweenOperations`, `CrashHarmsOneFile` (a stop leaks no sector and spares the other files), `DataIntact`; unless astray: `SystemFilesSurvive` (and only a damaged disk goes astray) |
| `devices`: disk | 3 threads and 2 sectors | `RequestFindsDiskIdle` (and the request returns after its own interrupt), `DiskIsAtomic` (refinement of `AtomicDisk`: one call at a time, each until its own completion); under fairness `DevicesComplete` |
| `devices`: console | up to 3 typed characters | `EchoExact` (every character once, in order, to a free console); under fairness `DevicesComplete` |
| `devices`: network | 2 machines that run MailTest and a third client; or a sender and two receivers of one box; with and without loss | `NoSignalAstray` (one send at a time, the worker finds a packet when woken, no mail lies where somebody sleeps), `NeverSendsToClosedSocket`, `MailIsQueued` (refinement of `MailService`); under fairness `MailTestCompletes` |
| `algorithms` | 8-bit words, 2 pages of memory, 3-byte sectors, lists of 3, lines of 3 options | `SimulatorIsR2000`; `ToolsMatchR2000` (the interpreter of `bin/`, the decoders and traces); `TranslationExact` (a TLB only caches; use and dirty bits); `FilesAreByteArrays`; `DiskTimingExact` (rotation, track buffer); `ProgramsLoad` (all loaders see one program); `StartupExact` (options take effect, globals are created before they are used); `ListsAreSequences` |

The runs that find a violation, each against what a comment, a usage or an ASSERT
of the code says; section 6 tells the stories:

| Run | Instance | Violates |
|---|---|---|
| `process_reuse` | 4 processes, no timer, no Exec | `SpacesDeletedAfterUse`: `~PCB` deletes the space of a stranger that got the memory of a dead child |
| `process_timer` | the same with the timer | `SpacesDeletedOnce`: child and parent both delete the child's space |

Most properties are conjunctions of named parts, each with its own comment in the
module. The type invariants of `Kernel`, `Synch`, `SynchDisk` and `Process` are
proved as theorems of their own (section 4), those of `Interrupt`, `Console`
and `PostOffice` as a part of `TickBookkeeping`, `EchoExact` and
`NoSignalAstray`; those of the other modules are a part of `CrowdExact` and
`SystemFilesSurvive`.

Why these bounds: three threads are the fewest for barging (a holder, a sleeper
that was woken, a thread that takes the lock first) and for a preempted Signal
with a waiter and a bystander; three kernel threads have one that runs, one that is
killed and one that comes between the halves of the kill. Two devices and the timer give the pending list three entries, so that an
insertion in the middle happens; a system tick of 2 with delays up to 3 makes
entries come due together, between ticks and during a clock jump. Three persons
with room for two give a full elevator with someone left behind at a floor where
someone gets out. Three pids with three Forks fill the process table; four pages let a program of
two replace one of one while others run, and then not; two pages make Fork and Exec
fail. Four threads are enough for an address to come back while others live. `MaxPending`, `MaxValue`, `MaxForks`, `MaxExecs`
bound how often something happens, in the guards.

Three threads at the disk are one that is served, one that waits for the lock and
one that arrives. Three free sectors and three names make Create fail for each of
its reasons (name, header, entry, data) and make freed sectors be used again; two
entries put one on the sector boundary and one behind it; one handle is enough to be
stale. Two receivers on one
box let a third take the mail between Signal and wake-up; three clients and loss
in both directions cover every place where `MailTest` can hang. The operands of
`algorithms` are 0, 1, an ordinary number, the largest and the smallest signed
word and -1, with equal and different registers, on mapped, read-only, invalid
and out-of-range pages; file offsets and lengths go over the end of the file;
disk requests cross tracks and arrive at any phase of the rotation; COFF files
are short, empty, or have sections the converters do not know.

Fairness, and why the code justifies it:

- `Kernel`, `Synch`: Nachos started with `-rs`. The timer schedules its next
  interrupt inside its own handler, so code that enables interrupts again and
  again is preempted (strong fairness, as the level goes up and down); code that
  disabled interrupts enables them eventually; the idle loop runs. In `Synch`, a
  thread that is dispatched executes at least up to its next tick.
- `Interrupt`: the loops of the simulator go on, user code executes
  instructions, kernel code goes on calling routines that disable and enable
  interrupts. No fairness is assumed of the devices.
- `Elevator`: ready threads run (what `ReadyThreadRuns` shows of the kernel),
  main sends its persons, the halt thread looks again and again.

- `SynchDisk`, `Console`: interrupts that are queued are delivered (the clock goes
  on), a thread that can go on does (`ReadyThreadRuns`). No fairness of Acquire
  is assumed: for the disk, `DevicesComplete` begins with the lock.
- `PostOffice`: some machine goes on as long as one can. Scripts are finite and
  no step is for nothing, so nothing can be starved.

Every property has a mutant: a definition `PROJECT.json` names that changes the
model the way a plausible mistake would change the code (`SortedInsertAppends`,
`NeverMindTheParent`, `VBodyWakesNobody`, ...), under which TLC finds the property violated.

## 4. What is proved

Every theorem holds for any set of threads, objects and devices and any bounds;
the assumptions are named in the module that declares the constants, and TLC
evaluates them on every run.

| Theorem | Says |
|---|---|
| `KernelProofs!SchedulingSafe`, `KernelTypeCorrect` | `SchedulerConsistent` (`ReadyListExact`, `OneRunningThread`, `CarcassIsDead`) and the types are invariants of `KernelSpec`, also between the halves of a kill |
| `KernelProofs!ReadyListIsFifo` | `NeverOvertaken`: no step moves a thread back on the ready list, whatever Yield, Sleep, WakeUp or RemoveThread does |
| `SynchProofs!LockSafe`, `SynchTypeCorrect` | `MutualExclusion` and the types (a semaphore's value is never negative) are invariants of `SynchSpec` |
| `SynchProofs!SynchImplementsKernel` | `SynchSpec => KernelSpec`: every Sleep in `synch.cc` happens with interrupts off, as its ASSERT demands, and every ReadyToRun is of a sleeping thread; nothing in the routines' actions says so, it follows from `WakeUpInv` |
| `SynchProofs!NoWakeUpIsLost` | `NoWakeUpLost`: a sleeper is in exactly one queue or one hand, once; no V, Release or Broadcast is wasted on it |
| `SynchProofs!WaitAtomic` | `WaitIsAtomic`: from the release of the lock to the Sleep in `Wait` no other thread and no handler runs, and the queue lock is free |
| `InterruptProofs!NothingIsOverdue` | `NothingOverdue`: no pending interrupt is in the past |
| `InterruptProofs!TickInOrder` | `TickBookkeeping`: the machine status matches the code that runs, no yield request goes stale, the timer survives |
| `InterruptProofs!InterruptImplementsKernel` | `InterruptSpec => KernelSpec`: ticks, handlers, preemption inside OneTick and the idle loop are what the abstract kernel allows |
| `DeviceProofs!DiskIdleAtRequest`, `DiskTypeCorrect`, `DiskImplementsAtomic` | `RequestFindsDiskIdle` and the types; `DiskSpec` implies `AtomicDisk`, because of the lock (the disk is idle at each request) and the semaphore (nobody returns before the interrupt) |
| `DeviceProofs!EchoIsExact` | `EchoExact`: the console test echoes every character once and in order |
| `ElevatorProofs!ListsAreTrue` | `ListsMatchPersons`: the lists the elevator steers by say who is where, for any delay, any number of persons and whatever the counters start from |
| `ElevatorProofs!DoorsNeverShutEarly` | `DoorsOpenAtRightFloor`, if the elevator Yields between two moves at least once for every person |
| `ElevatorProofs!CrowdExactButForGarbage` | under the same condition, if `occupancy` happens to start at g: it is g plus the number of persons inside, room is left for g fewer, and the lists are true |
| `ElevatorProofs!CrowdAlwaysExact` | `CrowdExact`, for the behaviours in which g is 0 (`personsWaiting` may be anything) |
| `ProcessProofs!PagesAreExact` | `PagesExact`, whatever is forked, loaded, joined, killed or deleted twice, with preemption anywhere and addresses reused |
| `ProcessProofs!PidsAreExact` | `PidsExact` |
| `ProcessProofs!EveryProcessSurvives` | `ProcessesSurvive`, without timer, Join and Kill: any number of processes that fork, exec, exit and yield in any order, programs of any sizes, addresses reused; until memory that a PCB still leads to is handed out or an Exec finds too little (`NoFlaw`) |
| `ProcessProofs!EverythingIsReturned` | `EverythingReturned`, under the same conditions and with the same exceptions |
| `ProcessProofs!OneSizeAlwaysFits` | of programs of one size the second exception never occurs |
| `DeviceProofs!SignalsMeetTheirThreads` | `NoSignalAstray`: each completion meets its own sender, the worker finds a packet, no mail lies where somebody sleeps, for any machines, boxes and scripts, with loss or without |
| `DeviceProofs!PostImplementsMail` | `MailIsQueued`: `PostSpec` implies `MailService` |
| `FileSystemProofs!SystemAlwaysSurvives` | `SystemFilesSurvive`: bitmap and directory stay readable, marked and nobody else's, on damaged disks too, until something else is taken for a header; which happens on damaged disks only |
| `FileSystemProofs!AlwaysConsistent` | `ConsistentBetweenOperations`: bitmap, directory and headers agree between operations, unless the disk is damaged |
| `FileSystemProofs!StopsHarmOneFile` | `CrashHarmsOneFile`: a stop between two sector writes loses no sector and spares the other files, unless the disk is damaged |
| `FileSystemProofs!DataAlwaysIntact` | `DataIntact`: a block holds what was last written to it, unless the disk is damaged (a removed file was written to, or Nachos started on an inconsistent disk) |
| `ProcessProofs!ProcessTypeCorrect` | every pointer of the process objects stays NULL or one to an object of its kind, also where the code follows pointers to deleted objects |

Assumptions: `main` is a thread, `NULL` is no thread and no semaphore, lock or
condition; every condition has a queue lock of its own that no client uses;
clients of the post office name boxes that exist and reply only after a Receive; there
are finitely many devices and the timer is none of them; there are finitely many
persons and at least two floors; a disk has room for the
bitmap and the directory; a sector has a byte and a directory an entry; ticks are at least one
unit of time; `NoThread` is not a thread; `EOF` is not a character; the program
that Nachos starts with has a page and fits into memory, and so may any other or
not. Bounds are naturals.

### The inductive invariants

**`KernelInv`** is the conjunction of the types, the three invariants and
`SleepersAreBlocked`: none of them is inductive alone. `ReadyListExact` needs to
know that a thread about to be woken is not on the list already, which is
`SleepersAreBlocked` (a thread known to a wait queue is BLOCKED);
`SleepersAreBlocked` needs that the thread that runs is not waiting, which is
`OneRunningThread`; and that a finished thread, BLOCKED too, is in no queue is
`CarcassIsDead`. A thread in the hands of a kill may be READY off the list or BLOCKED
on it, and what is left of exactness is inductive all the same: a thread is on the
list once, and then sleeps in no queue, has not finished and does not run. The proof
has one step per operation; `Run`, `ReadyToRun` and
giving up the CPU have lemmas of their own, and `Lists` says what Append, Remove,
RemoveItem and the insertion into a sorted list do to the entries of a list.
`ReadyListIsFifo` needs of it that the ready list has no duplicates: only then is
a thread's place on the list well defined.

**`SynchInv`** is `KernelInv`, the types of the calls and `MutualExclusion`. It is a
part of `WakeUpInv`, without which it is not inductive: that each step of `synch.cc`
is a step of the kernel (`SynchStepIsKernelStep`) needs to know that interrupts are
off where a routine sleeps (`Uninterrupted`, through any number of turns of the
loops) and that the first in a queue is asleep (`SleepersFound`). Once it is known,
`KernelInv` is preserved by the kernel's theorem and only the rest is shown again.

**`WakeUpInv`** says where a thread can be when it is not on the CPU. Between
the two SetLevels of a routine nobody else moves (`Uninterrupted`), so a thread
that was switched out is at a sleep or at a point where interrupts are on. Hence
the queue lock of a condition is in the hands that `Signal`, `Broadcast` and
`Wait` left it in (`LockDiscipline`), and a sleeper is in the queue that its
program counter names, or in the hand of one `Signal` that has taken it off and
not readied it yet (`SleepersFound`). A semaphore with a positive value and
sleepers has at least that many woken threads that have not retested yet
(`UnitsCovered`): this is where "no V is wasted" comes from, since V wakes one
thread per unit and the unit may be taken by another.

**`TickInv`**: the pending list is sorted and has at most one entry of each type,
and Kernel's count of pending interrupts is its length (`QueueExact`).
`NothingOverdue` needs the order, since OneTick and Idle look at the head only;
stopping an idle machine needs the count. `SavedMatches`: the `old` status of a
OneTick that is preempted waits on its thread's stack, and is what that thread's
code runs in, so that the status is right again when the thread is.

**`DiskInv`** adds to the types that the lock is held exactly from before the
request until P has returned (`LockCoversRequest`), that a waiting thread has
exactly one answer under way, as interrupt or as V (`OneAnswerPerRequest`), and
that a caller keeps its request until it is made (`RequestKept`). Without the second,
an interrupt left over from an earlier request could end a P too early; without the
first, it could be somebody else's. The refinement rests on the same three: a request
is `Perform` because the disk is idle, the interrupt is `Complete` because the one who
waits is the one served, and passing P is no step because the flag has fallen.
**`EchoInv`** is the like for the console: one V of `readAvail` for the character
in the buffer (`BufferAnnounced`), one answer for the character that is being
written (`WriteAnswered`).

**`ProcessInvariant`** is `StackInv`, `ObjectInv`, `PagesExact`,
`EmptyUntilFilled`, `LockHeld` and `PidInv`. All rest on how the routines call
each other (`CallOrder`: which frame may lie on which), because what a frame
returns to decides what the thread does next with the objects it points to.
`PagesExact` needs that an address space about to be filled has no pages
(`EmptyUntilFilled`), or filling it would drop pages the bitmap still marks, and
that only one thread fills or frees it. `PidsExact` needs that a pid is free but
not forgotten only inside the `DeallocatePCB` of its own PCB, under
`pcbManagerLock` (`PidInv`, `LockHeld`).

**`OrdinaryInv`** is why no process is harmed and nothing is lost. `Ordinary`
are the conditions of the run `process_plain`: no timer, no Join, no Kill. Each is
needed (section 6). It is shown to hold as long as `NoFlaw` does. The thread, the
space and the PCB of a process point to each other, a PCB to its parent and its
children, and every step of `doFork`, `doExec` and `doExit` breaks some of this
for a while; what holds at each point is in six parts. `OneAtATime`: only the
running thread is inside a routine, and which locks it holds follows from where
it is. `FramesInOrder`: its frames are about its own process, and the children
that `doExit` has still to see are there, once each. `SpacesInUse`: each ready
thread has a space with pages that no other ready thread has, a dead one that a PCB
still points to (`Relic`) left a space that nobody has been given, and `doFork` found
memory that stays enough. `Owners`: a process that has not
exited has a ready thread whose space names its PCB, one that has exited is
exiting now or its thread is dead. `Families`: parents and children know
each other, and an exited PCB that is still there has a parent that has not
exited, or is about to be deleted. `PidsInUse`: a pid that is taken is that of a
live PCB. So the `~PCB` of a child never finds a thread that still runs, Self and
`decspn` never delete the same PCB, and with no thread left no PCB can be left:
it would have exited, and so would its parent. The proof has a lemma for each
action that can happen; that the others (`DestroyPCBSpace`, `ChildIsFreed`,
`CopyFails`, `NullSpace`) cannot is part of it. Handing out the thread or the space of a
relic sets `reused`, an Exec that finds too little memory sets `starved`, and both
stay set, so each lemma may assume that neither has happened (`FlawsStay`). If all
programs have one size no Exec starves (`SameSize`, an invariant until `reused`),
because the pages that Exec gave back are enough for the program it loads, and Find
hands out as many pages as it is asked for (`LowestCounts`, shown through a least
counterexample). TLC checked `NoFlaw => OrdinaryInv` on the instance of
`process_plain` (689 118 states), and `~reused => SameSize` on it with programs of
one page (522 045 states), before they were proved.

**`BaseInv`, `ListsInv`, `CarInv`** and **`Room`** are the elevator's invariant.
`BaseInv` says where each thread is: `Places` gives a person one
list at a time, the one its phase names, `Locks` when the elevator holds its locks.
That is enough for `ListsInv`, for any delay: the entering list of a floor counts
who hails, with one entry too many between a Signal and its removal
(`EnteringExact`), the leaving list those who ride and those the broadcast woke
(`LeavingExact`), so that `removeFromPPFirst`, which takes the first entry and
not that of the person signalled, keeps the count right. Where the doors open is
about time: a person who was signalled may still be on the way when the elevator
wants its lock back. `RestInv` counts that: while the lock is free, Yields done
plus threads in the lock's queue stay below the number of persons as long as
somebody is on the way, up to a last turn in which all who are on the way stand
before the elevator on the ready list. So after that many Yields nobody is on the
way (`Quiet`), those who are find the elevator where they want it (`Doors`), and
when the elevator counts its passengers before it signals, those inside are all
there are (`Room`). TLC checked the parts on the instance of `elevator_safety`
(805 640 states), and `ListsInv` with too short a delay and counters that start
from 0 or 2 (8.2 million states), before they were proved.

**`PostInv`**: whoever is inside `Send` holds `sendLock` (`LockCoversSend`), so a
completion that is under way, as interrupt or as V, is that of the holder
(`OneCompletion`); there is one V, or a worker that has taken it, for the packet
in the network's buffer (`OneArrival`); the clients on the queue of a box are
inside its Receive, once each (`WaitersWait`), so that Put wakes a client for the
box it delivers to; and as many clients have been woken and have not looked yet
as there are messages in a box on which others sleep (`MailCovered`). The
refinement adds `QueueInv`: a message of a call that is yet to be made has not
been sent, so each is new when it is posted. The queue of a box in `MailService`
is the contents of the box and what `Addressed` selects from worker, buffer and
socket; that a message sent comes last there and one delivered came first is
shown by induction over the list, through least counterexamples
(`SetInduction`).

**`FSInv`** speaks of two disks: the one there is, and `After`, the same with the
pending writes done. `Remains` says that what is pending is a tail of the
operation's writes in the code's order, which is where that order enters: Create
writes header, directory, bitmap, Remove bitmap, directory. `FSBase` (`FSTypes`,
`FSBasics`, `Formatting`) holds of any disk, also of one that a stop left
inconsistent or that is unknown. Its core is `GoodAt`, a
condition on each sector alone, so that any mixture of old and new sectors has it:
the system's five sectors hold their part of the system or nothing yet, and any
other sector no header of a file that names one of the five. A handle's blocks, current or stale, are
never the system's. `Clean` holds as long as the disk is not damaged: `After` is
consistent (`AfterAgrees`), whatever has been opened is a header (`HeadersRead`, so
that nothing goes astray), and the disk differs from `After` only in the entry and in
the sectors of the file under change (`Creating`, `Removing`). `CrashHarmsOneFile` follows from these where an operation is under
way, and is kept where one begins or ends. `DataIntact` alone is not inductive: a
stop inside Create or Remove leaves a file whose blocks mean nothing. Such a file
has a header that is not marked, so that mounting the disk counts it as damaged
(`IntactOrUnmarked`).

### Only model-checked

- Liveness under fairness (`ReadyThreadRuns`, `FreeLockIsTaken`,
  `SignalledThreadIsReadied`, `DeviceIsServed`, `JourneysEnd`, `DevicesComplete`,
  `MailTestCompletes`), and ENABLED: beyond the prover.
- `NeverSendsToClosedSocket`: a claim about the script of `nettest.cc`; other
  clients may well send to a machine that has halted.
- The sequential modules (`algorithms`): most use RECURSIVE operators or
  `Bitwise`, with which the prover loses its SMT solver, and the library's
  induction theorems take an operator that no prover here can instantiate.

## 5. Plan

Modelled is what the table of section 2 lists, and every invariant of the
concurrent modules but `NeverSendsToClosedSocket` is proved. Left to do: the
debugger and the statistics of the simulators, if they gain state that the system
depends on.

## 6. Where code, comments and intentions disagree

Where a run shows one, it is named; the first two can be seen by giving a run's model
other constants.

- **A carcass can be forgotten** (`thread.cc:156`, `scheduler.cc:129`). `Finish`
  overwrites `threadToBeDestroyed`; a thread dispatched for the first time enters
  `ThreadRoot` and never executes the half of `Run` that deletes the carcass. If
  it finishes, the previous carcass leaks with its stack (`Kernel`, 3 threads).
- **The elevator depends on its delay** (`elevator.cc:341`). Each release of
  `elevatorLock` wakes one sleeper, so the elevator must Yield as often as persons
  sleep on the lock before it takes it back. One Yield for each person is enough
  (`DoorsNeverShutEarly`); with one fewer (`elevatorDelay = 2`, 3 persons)
  `DoorsOpenAtRightFloor` fails. The code yields 1000000 times.
- **A Fork that fails late keeps `mmLock`** (`addrspace.cc:254`). Two processes find
  memory enough for a copy in `doFork`, are preempted, and the second to make the
  copy returns with the lock: `LockHeldInside` fails in `process_timer` with 3 pages.
- **A parent can exit under a child that is exiting** (`pcb.cc:28`). Both delete the
  child's space, and the second fails the destructor's ASSERT: run `process_timer`.
- **A parent can destroy a stranger** (`pcb.cc:26`). The PCB of a child that has
  exited keeps its pointer to the thread, which the scheduler has deleted. If a new
  thread gets that address, or a new space that of its space, the exit of the parent
  deletes the new one's space and takes its thread off the ready list, for three
  processes that only fork and exit: run `process_reuse`. `ProcessesSurvive` and
  `EverythingReturned` are therefore said of runs in which no such memory has been
  handed out; any other may be.
- **An Exec that fails returns to nothing** (`exception.cc:217`). The old space is
  deleted before the new one is known to fit. The same two properties are said of
  runs in which no Exec has found too little memory.
- **A PCB can be deallocated twice** (`pcbmanager.cc:46`). A thread that sleeps on
  `pcbManagerLock` in `DeallocatePCB` of a child can be killed by another process,
  whose Kill deallocates the same child; if the pid has been given out again when
  the first is woken, it loses the pid of its new owner. The comment in the line
  above demands a check of `pcbs`, the code checks the range of the pid only. This
  came to light in the proof of `PidsExact`, which is therefore said of runs in
  which no deleted PCB has been used; it takes five Forks, more than TLC's
  instance has.

Processes and threads: Join deletes the PCB without freeing the pid, and leaves
it in the caller's list of children and in `pcbs`; Kill gives back neither pages
nor pid, sets the victim's status BLOCKED some time after taking it off the ready list
(`~PCB` never does), and a Join on the killed process never returns; the result of Exec is not written to
r2; `syscall.h` says that Fork runs in the same address space, `doFork` copies
it; Signal and Broadcast call `ReadyToRun` with interrupts on, against the comment
in `scheduler.cc`, which in this simulator is harmless (no tick can occur inside
it); `V` is said to be consumed immediately by the thread it wakes, but any
thread may take the unit first; the elevator's `occupancy` and `personsWaiting`
are never initialized.

Devices and files: a torn write of the directory can give a new entry the name
of an old one; `Remove` of an open file leaves a handle to sectors of others, and what
is written there may hit a header; on a damaged disk the sector of an entry may be
read as a header when it holds data, and whatever sectors the data names are freed or
written, those of the bitmap and the directory included (`astray` in `FileSystem`);
`PerformanceTest` creates a file of 0 bytes (`fstest.cc:124`), so that its first
write fails; the objects of formatting are deleted only when debugging
(`filesys.cc:128`). The network's `sendBusy` is never set, and the comments on
reliability in `network.h` (50, 85) are the wrong way round.

Simulators: `machine.h:96` and the comments promise an R2000; `MipsSim` lists
where registers declared unsigned give SLT, DIV and SRA the results of SLTU, DIVU
and SRL, where a signed temporary extends the sign in SRL, and that OR computes
`rs | rs`. `BinSim` has the like for `execute.c`. `translate.h:35` has the valid
bit reversed; the table in the comment before `ilog2` (`execute.c:434`) is not
what it computes; the traces of `d.c` and `mipssim.h` show other registers than
JR, JALR, MFLO, MTHI, BLEZ and BGTZ use. `ReadMem` of one byte extends the sign,
which its callers mask.

Tools: the test that .bss and .sbss are adjacent is inverted
(`coff2noff.c:204`): those that lie apart are accepted, and the gap is missing from the
address space; a program with both .data and .rdata is rejected; coff2flat
writes sections one after the other, whatever their addresses, and leaves its
output when it fails; `bin/main.c` tests the memory size after the write, and
refuses a program that fits exactly.

Start-up: `main.cc:15` and `:38` document `-n` for the reliability, `system.cc` reads
`-l`, which is also the command that lists files; kernels built with `THREADS` never
execute a command, because the first loop consumes the line.

## 7. What is not modelled

- Printing, debugging output, statistics, the single-step debugger.
- The wrappers of host calls in `sysdep.cc`, except the reads and writes behind
  the disk; host files and sockets are external.
- Overlapping operations of the file system, which it excludes; what exactly becomes
  of a disk when something else is taken for a header (`astray`: anything); files
  larger than `MaxFileSize`.
- The lengths and bytes of mail; a machine that starts after the delay of
  `main.cc`.
- The system calls of `bin/system.c`, which the host answers.
- Test programs (`test/`), `vm/`, which has no source of its own,
  `elevator.bad.cc`, which is not built, the assembler of `SWITCH`, whose effect is
  `Run` of `Kernel`, and the code under `#ifdef SEMAPHORE` in `exception.cc`, which
  no Makefile defines.
