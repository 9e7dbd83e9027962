------------------------------ MODULE Process -------------------------------
(***************************************************************************)
(* The user processes of userprog/: the system calls of exception.cc over  *)
(* PCBs (pcb.cc, pcbmanager.cc), address spaces (addrspace.cc) and the page*)
(* allocator (memorymanager.cc).                                           *)
(*                                                                         *)
(* Threads, address spaces and PCBs are heap objects named by address,     *)
(* because the code keeps pointers to objects it has deleted.  A deleted   *)
(* object keeps its contents until its address is handed out again, which  *)
(* the allocator may do at any time.                                       *)
(*                                                                         *)
(* A routine that takes a lock can be interrupted there, so every thread   *)
(* has a stack of frames, one per routine it is in, and a step is the code *)
(* from one lock operation to the next.  With the timer (-rs) a thread is  *)
(* preempted where interrupts have just been enabled, "ticked"; without it *)
(* a thread keeps the CPU until it yields, sleeps or finishes.             *)
(***************************************************************************)
EXTENDS Integers, Sequences, SequencesExt, FiniteSets

CONSTANTS
    ThreadAddr, SpaceAddr, PcbAddr,   \* the heap, by kind of object
    main, mainSpace, mainPcb,   \* those of the first process
    NULL,
    NumPids,      \* MAX_PROCESSES
    NumPages,     \* NumPhysPages
    MainSize,     \* pages of the first program
    ExecSize,     \* pages of the programs Exec may load
    Syscall,      \* the system calls the programs make
    Timer,        \* Nachos runs with -rs
    MaxForks,     \* bound on the Forks of a run
    MaxExecs      \* bound on the Execs of a run

ASSUME ProcessAssumption ==
    /\ main \in ThreadAddr /\ mainSpace \in SpaceAddr /\ mainPcb \in PcbAddr
    /\ NULL \notin ThreadAddr \cup SpaceAddr \cup PcbAddr
    /\ NumPids \in Nat \ {0} /\ NumPages \in Nat /\ MainSize \in 1 .. NumPages
    /\ ExecSize \subseteq Nat \ {0}
    /\ Syscall \subseteq {"Fork", "Exit", "Exec", "Join", "Kill", "Yield"}
    /\ Timer \in BOOLEAN
    /\ MaxForks \in Nat /\ MaxExecs \in Nat

Pid  == 0 .. NumPids - 1
Page == 0 .. NumPages - 1

VARIABLES
    tstate, tspace, stack,       \* Thread: scheduling state, Thread::space, frames
    sstate, pages, owner,        \* AddrSpace: on the heap?, pageTable ({} is NULL), pcb
    pcb,                         \* PCB: the record of its fields
    pcbs, usedPids,              \* PCBManager::pcbs, its bitmap
    usedPages,                   \* MemoryManager's bitmap
    mmLock, pcbManagerLock,      \* who holds them
    current, ticked,             \* currentThread; it may be preempted here
    crashed,                     \* did Nachos die, and of what?
    misused,                     \* history: a freed PCB was used
    reused,                      \* history: memory a PCB still leads to was handed out
    starved,                     \* history: an Exec found too little memory
    forks, execs

threadVars == <<tstate, tspace, stack>>
spaceVars  == <<sstate, pages, owner>>
pidVars    == <<pcbs, usedPids>>
lockVars   == <<mmLock, pcbManagerLock>>
flaws      == <<reused, starved>>
histVars   == <<misused, flaws, forks, execs>>
vars == <<threadVars, spaceVars, pcb, pidVars, usedPages, lockVars, current, ticked,
          crashed, histVars>>

\* A frame: the point reached in a routine, and the routine's locals.
Frame(at, b, s, kids, n) == [at |-> at, pcb |-> b, space |-> s, kids |-> kids, n |-> n]
Plain(at)      == Frame(at, NULL, NULL, << >>, 0)
OnPcb(at, b)   == Frame(at, b, NULL, << >>, 0)
OnSpace(at, s) == Frame(at, NULL, s, << >>, 0)

NewPCB(pid) == [state |-> "live", pid |-> pid, parent |-> NULL, thread |-> NULL,
                exited |-> FALSE, children |-> << >>]

\* BitMap::Find, n times over: the n lowest clear bits.
Lowest(n, free) == {i \in free : Cardinality({j \in free : j < i}) < n}
FreePages == Page \ usedPages

FreePids == Pid \ usedPids

\* progtest.cc:StartProcess has loaded the first program.
ProcessInit ==
    /\ tstate = [t \in ThreadAddr |-> IF t = main THEN "ready" ELSE "unused"]
    /\ tspace = [t \in ThreadAddr |-> IF t = main THEN mainSpace ELSE NULL]
    /\ stack = [t \in ThreadAddr |-> IF t = main THEN <<Plain("user")>> ELSE << >>]
    /\ sstate = [x \in SpaceAddr |-> IF x = mainSpace THEN "live" ELSE "unused"]
    /\ pages = [x \in SpaceAddr |-> IF x = mainSpace THEN 0 .. MainSize - 1 ELSE {}]
    /\ owner = [x \in SpaceAddr |-> IF x = mainSpace THEN mainPcb ELSE NULL]
    /\ pcb = [x \in PcbAddr |-> IF x = mainPcb THEN [NewPCB(0) EXCEPT !.thread = main]
                                ELSE [NewPCB(0) EXCEPT !.state = "unused"]]
    /\ pcbs = [i \in Pid |-> IF i = 0 THEN mainPcb ELSE NULL]
    /\ usedPids = {0}
    /\ usedPages = 0 .. MainSize - 1
    /\ mmLock = NULL /\ pcbManagerLock = NULL
    /\ current = main /\ ticked = TRUE /\ crashed = "no"
    /\ misused = FALSE /\ reused = FALSE /\ starved = FALSE /\ forks = 0 /\ execs = 0

-----------------------------------------------------------------------------
(* Pieces of a step                                                        *)

me    == current
Top   == Head(stack[me])
Mine  == tspace[me]          \* currentThread->space
MyPcb == owner[Mine]         \* currentThread->space->pcb

At(point) == crashed = "no" /\ me # NULL /\ Top.at = point

\* The frames fs take the place of the top one.
Become(fs) == stack' = [stack EXCEPT ![me] = fs \o Tail(@)]
Return     == Become(<< >>)
Call(fs)   == stack' = [stack EXCEPT ![me] = fs \o @]

\* Objects the allocator may hand out.
Fresh(state, dead) == {x \in DOMAIN state : state[x] \in {"unused", dead}}

\* A deleted thread that ~PCB will still follow: its PCB waits for the parent.
Relic(t) == tstate[t] = "finished" /\ \E b \in PcbAddr : pcb[b].state = "live" /\ pcb[b].thread = t

\* The allocator hands out the memory of such a thread, or of the space it left.
HandOutThread(t) == reused' = (reused \/ Relic(t))
HandOutSpace(s)  == reused' = (reused \/ \E t \in ThreadAddr : Relic(t) /\ tspace[t] = s)

PcbState == [b \in PcbAddr |-> pcb[b].state]

\* Scheduler::RemoveThread(t): off the ready list, if it is there.
RemoveThread(t) ==
    tstate' = [x \in ThreadAddr |-> IF x = t /\ t # me /\ tstate[t] = "ready"
                                    THEN "removed" ELSE tstate[x]]

\* The threads asleep in an Acquire: their top frame is the one that takes it.
Asleep(points) == {t \in ThreadAddr : tstate[t] = "asleep" /\ Head(stack[t]).at \in points}
MmPoints  == {"deleteSpace", "copySpace"}
PcbPoints == {"allocatePCB", "deallocatePCB"}

\* Lock::Release wakes one sleeper.
WakeOne(points) ==
    \/ Asleep(points) = {} /\ UNCHANGED tstate
    \/ \E t \in Asleep(points) : tstate' = [tstate EXCEPT ![t] = "ready"]

\* mmLock->Release() and pcbManagerLock->Release().
ReleaseMm   == mmLock' = NULL /\ WakeOne(MmPoints)
ReleasePcbs == pcbManagerLock' = NULL /\ WakeOne(PcbPoints)

\* Lock::Acquire finds the lock taken: sleep, and try again when woken.
SleepInAcquire ==
    /\ tstate' = [tstate EXCEPT ![me] = "asleep"]
    /\ current' = NULL
    /\ UNCHANGED <<tspace, stack, spaceVars, pcb, pidVars, usedPages, lockVars, ticked,
                   crashed, histVars>>

\* The step follows a pointer to the PCB b, which may have been deleted.
Uses(b) == misused' = (misused \/ pcb[b].state # "live")

\* Nachos dies: "full" process table, a failed "assert", a bad "pointer".
Crash(why) ==
    /\ crashed' = why
    /\ UNCHANGED <<threadVars, spaceVars, pcb, pidVars, usedPages, lockVars, current,
                   ticked, histVars>>

-----------------------------------------------------------------------------
(* Scheduling                                                              *)

\* The running thread's space was deleted under it, or never made.
SpaceGone == Mine \notin {s \in SpaceAddr : pages[s] # {}}

InUser(call) == At("user") /\ ~SpaceGone /\ call \in Syscall

\* The timer's yieldOnReturn, or the Yield system call.
GiveWay ==
    /\ crashed = "no" /\ me # NULL
    /\ \/ Timer /\ ticked
       \/ InUser("Yield")
    /\ current' = NULL
    /\ UNCHANGED <<threadVars, spaceVars, pcb, pidVars, usedPages, lockVars, ticked,
                   crashed, histVars>>

Dispatch ==
    /\ crashed = "no" /\ me = NULL
    /\ \E t \in ThreadAddr : tstate[t] = "ready" /\ current' = t
    /\ ticked' = TRUE
    /\ UNCHANGED <<threadVars, spaceVars, pcb, pidVars, usedPages, lockVars, crashed, histVars>>

\* Nobody is ready and nothing is pending, or Nachos has died.
Over ==
    /\ crashed # "no" \/ (me = NULL /\ \A t \in ThreadAddr : tstate[t] # "ready")
    /\ UNCHANGED vars

\* User code, or doFork, cannot go on: a NULL pointer, or a freed page table.
NullSpace ==
    /\ crashed = "no" /\ me # NULL
    /\ Top.at \in {"user", "copyPages", "forkThread"}
    /\ SpaceGone
    /\ Crash("pointer")

-----------------------------------------------------------------------------
(* Fork                                                                    *)

\* doFork, up to AllocatePCB; it returns -1 if memory looks too small.
doFork ==
    /\ InUser("Fork") /\ forks < MaxForks
    /\ Cardinality(pages[Mine]) <= Cardinality(FreePages)
    /\ Call(<<Plain("allocatePCB"), Plain("copySpace")>>)
    /\ forks' = forks + 1
    /\ ticked' = FALSE
    /\ UNCHANGED <<tstate, tspace, spaceVars, pcb, pidVars, usedPages, lockVars, current,
                   crashed, misused, flaws, execs>>

\* Mutant of EnterAllocatePCB: it does not take the lock.
EnterAllocatePCBUnlocked ==
    /\ At("allocatePCB")
    /\ Become(<<Plain("findPid")>>)
    /\ ticked' = TRUE
    /\ UNCHANGED <<tstate, tspace, spaceVars, pcb, pidVars, usedPages, lockVars, current,
                   crashed, histVars>>

\* AllocatePCB, pcbManagerLock->Acquire().
EnterAllocatePCB ==
    /\ At("allocatePCB")
    /\ \/ pcbManagerLock # NULL /\ SleepInAcquire
       \/ /\ pcbManagerLock = NULL
          /\ pcbManagerLock' = me
          /\ Become(<<Plain("findPid")>>)
          /\ ticked' = TRUE
          /\ UNCHANGED <<tstate, tspace, spaceVars, pcb, pidVars, usedPages, mmLock, current,
                         crashed, histVars>>

\* AllocatePCB, the rest: ASSERT(pid != -1), the new PCB, Release.
AllocatePCB ==
    /\ At("findPid")
    /\ \/ FreePids = {} /\ Crash("full")
       \/ \E pid \in Lowest(1, FreePids), b \in Fresh(PcbState, "freed") :
            /\ pcb' = [pcb EXCEPT ![b] = NewPCB(pid)]
            /\ pcbs' = [pcbs EXCEPT ![pid] = b]
            /\ usedPids' = usedPids \cup {pid}
            /\ ReleasePcbs
            /\ stack' = [stack EXCEPT ![me] = <<OnPcb("copySpace", b)>> \o Tail(Tail(@))]
            /\ ticked' = TRUE
            /\ UNCHANGED <<tspace, spaceVars, usedPages, mmLock, current, crashed, histVars>>

\* AddrSpace(AddrSpace*): the new object, mmLock->Acquire().
EnterCopySpace ==
    /\ At("copySpace")
    /\ \/ mmLock # NULL /\ SleepInAcquire
       \/ /\ mmLock = NULL
          /\ mmLock' = me
          /\ \E s \in Fresh(sstate, "freed") :
               /\ sstate' = [sstate EXCEPT ![s] = "live"]
               /\ HandOutSpace(s)
               /\ Become(<<Frame("copyPages", Top.pcb, s, << >>, 0)>>)
          /\ ticked' = TRUE
          /\ UNCHANGED <<tstate, tspace, pages, owner, pcb, pidVars, usedPages,
                         pcbManagerLock, current, crashed, misused, starved, forks, execs>>

\* The page count is checked again, and too few now: the constructor returns
\* with valid = false, doFork with -1, and nobody releases mmLock.
CopyFails ==
    /\ At("copyPages") /\ ~SpaceGone
    /\ Cardinality(pages[Mine]) > Cardinality(FreePages)
    /\ Return
    /\ ticked' = TRUE
    /\ UNCHANGED <<tstate, tspace, spaceVars, pcb, pidVars, usedPages, lockVars, current,
                   crashed, histVars>>

\* The pages are allocated and copied; mmLock->Release().
CopySpace ==
    /\ At("copyPages") /\ ~SpaceGone
    /\ LET n == Cardinality(pages[Mine])
       IN  /\ n <= Cardinality(FreePages)
           /\ pages' = [pages EXCEPT ![Top.space] = Lowest(n, FreePages)]
           /\ usedPages' = usedPages \cup Lowest(n, FreePages)
    /\ ReleaseMm
    /\ Become(<<Frame("forkThread", Top.pcb, Top.space, << >>, 0)>>)
    /\ ticked' = TRUE
    /\ UNCHANGED <<tspace, sstate, owner, pcb, pidVars, pcbManagerLock, current,
                   crashed, histVars>>

\* The rest of doFork: the child's thread, the links between the objects,
\* Thread::Fork.
ForkThread ==
    /\ At("forkThread") /\ ~SpaceGone
    /\ \E t \in Fresh(tstate, "finished") :
         /\ HandOutThread(t)
         /\ tstate' = [tstate EXCEPT ![t] = "ready"]
         /\ tspace' = [tspace EXCEPT ![t] = Top.space]
         /\ stack' = [stack EXCEPT ![t] = <<Plain("user")>>, ![me] = Tail(@)]
         /\ pcb' = [pcb EXCEPT ![Top.pcb].thread = t, ![Top.pcb].parent = MyPcb,
                               ![MyPcb].children = Append(@, Top.pcb)]
    /\ owner' = [owner EXCEPT ![Top.space] = Top.pcb]
    /\ Uses(MyPcb)
    /\ ticked' = TRUE
    /\ UNCHANGED <<sstate, pages, pidVars, usedPages, lockVars, current, crashed, starved,
                   forks, execs>>

-----------------------------------------------------------------------------
(* ~AddrSpace                                                              *)

\* mmLock->Acquire().
EnterDeleteSpace ==
    /\ At("deleteSpace")
    /\ \/ mmLock # NULL /\ SleepInAcquire
       \/ /\ mmLock = NULL
          /\ mmLock' = me
          /\ Become(<<OnSpace("freePages", Top.space)>>)
          /\ ticked' = TRUE
          /\ UNCHANGED <<tstate, tspace, spaceVars, pcb, pidVars, usedPages, pcbManagerLock,
                         current, crashed, histVars>>

\* Mutant of DeallocatePages: one page is forgotten.
DeallocatePagesButOne(ps) == usedPages' = usedPages \ {p \in ps : \E q \in ps : q < p}

\* DeallocatePage, for each entry of a page table.
DeallocatePages(ps) == usedPages' = usedPages \ ps

\* ASSERT(pageTable != NULL), every page is returned, Release.
DeleteSpace ==
    /\ At("freePages")
    /\ \/ pages[Top.space] = {} /\ Crash("assert")
       \/ /\ pages[Top.space] # {}
          /\ DeallocatePages(pages[Top.space])
          /\ pages' = [pages EXCEPT ![Top.space] = {}]
          /\ ReleaseMm
          /\ Become(<<OnSpace("freeSpace", Top.space)>>)
          /\ ticked' = TRUE
          /\ UNCHANGED <<tspace, sstate, owner, pcb, pidVars, pcbManagerLock, current,
                         crashed, histVars>>

\* The memory of the object is freed.
FreeSpace ==
    /\ At("freeSpace")
    /\ sstate' = [sstate EXCEPT ![Top.space] = "freed"]
    /\ Return
    /\ ticked' = FALSE
    /\ UNCHANGED <<tstate, tspace, pages, owner, pcb, pidVars, usedPages, lockVars, current,
                   crashed, histVars>>

-----------------------------------------------------------------------------
(* ~PCB and DeallocatePCB                                                  *)

\* The thread of a PCB being deleted, if it is a thread that ~PCB cleans up.
Victim(b) == IF pcb[b].thread \in {NULL, me} THEN NULL ELSE pcb[b].thread

\* Its space has a page table, so ~PCB deletes the space.
HasPageTable(v) == v # NULL /\ tspace[v] # NULL /\ pages[tspace[v]] # {}

\* ~PCB calls for ~AddrSpace: the thread's space has a page table.
DestroyPCBSpace ==
    /\ At("pcbDtor")
    /\ LET v == Victim(Top.pcb)
       IN  /\ HasPageTable(v)
           /\ Become(<<OnSpace("deleteSpace", tspace[v]), OnPcb("pcbFree", Top.pcb)>>)
    /\ ticked' = FALSE
    /\ UNCHANGED <<tstate, tspace, spaceVars, pcb, pidVars, usedPages, lockVars, current,
                   crashed, histVars>>

\* ~PCB, the rest: the thread loses its space and its place on the ready list.
DestroyPCB ==
    /\ At("pcbFree") \/ (At("pcbDtor") /\ ~HasPageTable(Victim(Top.pcb)))
    /\ LET b == Top.pcb
           v == Victim(b)
       IN  /\ tspace' = [t \in ThreadAddr |-> IF t = v THEN NULL ELSE tspace[t]]
           /\ RemoveThread(v)
           /\ pcb' = [pcb EXCEPT ![b].state = "freed", ![b].thread = IF v = NULL THEN @ ELSE NULL]
    /\ Return
    /\ ticked' = FALSE
    /\ UNCHANGED <<spaceVars, pidVars, usedPages, lockVars, current, crashed, histVars>>

\* DeallocatePCB: pcbManagerLock->Acquire().
EnterDeallocatePCB ==
    /\ At("deallocatePCB")
    /\ \/ pcbManagerLock # NULL /\ SleepInAcquire
       \/ /\ pcbManagerLock = NULL
          /\ pcbManagerLock' = me
          /\ Become(<<OnPcb("clearPid", Top.pcb)>>)
          /\ ticked' = TRUE
          /\ UNCHANGED <<tstate, tspace, spaceVars, pcb, pidVars, usedPages, mmLock, current,
                         crashed, histVars>>

\* The bit is cleared, then "delete pcb".
ClearPid ==
    /\ At("clearPid")
    /\ usedPids' = usedPids \ {pcb[Top.pcb].pid}
    /\ Become(<<OnPcb("pcbDtor", Top.pcb), Frame("forgetPCB", NULL, NULL, << >>, pcb[Top.pcb].pid)>>)
    /\ Uses(Top.pcb)
    /\ ticked' = FALSE
    /\ UNCHANGED <<tstate, tspace, spaceVars, pcb, pcbs, usedPages, lockVars, current,
                   crashed, flaws, forks, execs>>

\* pcbs[pid] = NULL; Release.
ForgetPCB ==
    /\ At("forgetPCB")
    /\ pcbs' = [pcbs EXCEPT ![Top.n] = NULL]
    /\ ReleasePcbs
    /\ Return
    /\ ticked' = TRUE
    /\ UNCHANGED <<tspace, spaceVars, pcb, usedPids, usedPages, mmLock, current, crashed, histVars>>

-----------------------------------------------------------------------------
(* Exit                                                                    *)

\* doExit: mark the process, then work through its children and itself.
StartExit(b) ==
    /\ pcb' = [pcb EXCEPT ![b].exited = TRUE]
    /\ RemoveThread(pcb[b].thread)
    /\ Call(<<Frame("children", b, NULL, pcb[b].children, 0), OnPcb("self", b),
              Plain("exitSpace"), Plain("finish")>>)
    /\ Uses(b)
    /\ ticked' = FALSE
    /\ UNCHANGED <<tspace, spaceVars, pidVars, usedPages, lockVars, current, crashed, flaws, forks, execs>>

doExit == InUser("Exit") /\ StartExit(MyPcb)

\* Mutant of HasExited: nobody has.
NobodyHasExited(b) == FALSE

HasExited(b) == pcb[b].exited

\* Mutant of HasNoParent: doExit does not look at the parent.
NeverMindTheParent(b) == TRUE

HasNoParent(b) == pcb[b].parent = NULL

\* decspn on one child: delete it if it has exited, else it has no parent now.
Child ==
    /\ At("children") /\ Top.kids # << >>
    /\ LET c == Head(Top.kids)
           rest == Frame("children", Top.pcb, NULL, Tail(Top.kids), 0)
       IN  /\ pcb[c].state = "live"
           /\ \/ /\ HasExited(c)
                 /\ Become(<<OnPcb("deallocatePCB", c), rest>>)
                 /\ UNCHANGED pcb
              \/ /\ ~HasExited(c)
                 /\ Become(<<rest>>)
                 /\ pcb' = [pcb EXCEPT ![c].parent = NULL]
    /\ ticked' = FALSE
    /\ UNCHANGED <<tstate, tspace, spaceVars, pidVars, usedPages, lockVars, current,
                   crashed, histVars>>

\* decspn on a child whose PCB Join has deleted.  It still reads as exited, and
\* its pid is whatever the allocator left there: DeallocatePCB finds it out of
\* range and returns, or goes on to a double free.
ChildIsFreed ==
    /\ At("children") /\ Top.kids # << >>
    /\ pcb[Head(Top.kids)].state = "freed"
    /\ Become(<<Frame("children", Top.pcb, NULL, Tail(Top.kids), 0)>>)
    /\ misused' = TRUE
    /\ crashed' \in {"no", "pointer"}
    /\ ticked' = FALSE
    /\ UNCHANGED <<tstate, tspace, spaceVars, pcb, pidVars, usedPages, lockVars, current,
                   flaws, forks, execs>>

NoMoreChildren ==
    /\ At("children") /\ Top.kids = << >>
    /\ Return
    /\ ticked' = FALSE
    /\ UNCHANGED <<tstate, tspace, spaceVars, pcb, pidVars, usedPages, lockVars, current,
                   crashed, histVars>>

\* "if (pcb->parent == NULL) pcbManager->DeallocatePCB(pcb)", also if a parent
\* has deleted the PCB meanwhile.
Self ==
    /\ At("self")
    /\ IF pcb[Top.pcb].state = "live" /\ HasNoParent(Top.pcb)
       THEN Become(<<OnPcb("deallocatePCB", Top.pcb)>>)
       ELSE Return
    /\ Uses(Top.pcb)
    /\ ticked' = FALSE
    /\ UNCHANGED <<tstate, tspace, spaceVars, pcb, pidVars, usedPages, lockVars, current,
                   crashed, flaws, forks, execs>>

\* delete currentThread->space.
ExitSpace ==
    /\ At("exitSpace")
    /\ \/ Mine = NULL /\ Return
       \/ Mine # NULL /\ Become(<<OnSpace("deleteSpace", Mine)>>)
    /\ ticked' = FALSE
    /\ UNCHANGED <<tstate, tspace, spaceVars, pcb, pidVars, usedPages, lockVars, current,
                   crashed, histVars>>

\* currentThread->Finish(); the scheduler deletes the thread soon.
Finish ==
    /\ At("finish")
    /\ tstate' = [tstate EXCEPT ![me] = "finished"]
    /\ stack' = [stack EXCEPT ![me] = << >>]
    /\ current' = NULL
    /\ UNCHANGED <<tspace, spaceVars, pcb, pidVars, usedPages, lockVars, ticked, crashed, histVars>>

-----------------------------------------------------------------------------
(* Join, Kill, Exec                                                        *)

\* doJoin; any pid that is not a child's gives -1.
doJoin ==
    /\ InUser("Join")
    /\ \E pid \in Pid :
         LET b == pcbs[pid]
         IN  /\ b # NULL
             /\ pcb[b].state = "live" /\ pcb[b].parent = MyPcb
             /\ Call(<<OnPcb("join", b)>>)
    /\ ticked' = FALSE
    /\ UNCHANGED <<tstate, tspace, spaceVars, pcb, pidVars, usedPages, lockVars, current,
                   crashed, histVars>>

\* "while(!joinPCB->HasExited()) currentThread->Yield()".
JoinWaits ==
    /\ At("join") /\ ~HasExited(Top.pcb)
    /\ current' = NULL
    /\ Uses(Top.pcb)
    /\ UNCHANGED <<threadVars, spaceVars, pcb, pidVars, usedPages, lockVars, ticked,
                   crashed, flaws, forks, execs>>

\* "delete joinPCB": not DeallocatePCB, so the pid and pcbs[pid] stay.
JoinDeletes ==
    /\ At("join") /\ HasExited(Top.pcb)
    /\ Become(<<OnPcb("pcbDtor", Top.pcb)>>)
    /\ Uses(Top.pcb)
    /\ ticked' = FALSE
    /\ UNCHANGED <<tstate, tspace, spaceVars, pcb, pidVars, usedPages, lockVars, current,
                   crashed, flaws, forks, execs>>

\* doKill of another process; doKill of oneself is doExit.
doKill ==
    /\ InUser("Kill")
    /\ \E pid \in Pid :
         LET b == pcbs[pid]
             p == pcb[b].parent
         IN  /\ b # NULL /\ b # MyPcb
             /\ pcb[b].state = "live"
             /\ RemoveThread(pcb[b].thread)
             /\ Call(<<Frame("children", b, NULL, pcb[b].children, 0), OnPcb("killed", b)>>)
             /\ pcb' = IF p = NULL THEN pcb
                       ELSE [pcb EXCEPT ![p].children = RemoveFirst(@, b)]
             /\ misused' = (misused \/ (p # NULL /\ pcb[p].state # "live"))
    /\ ticked' = FALSE
    /\ UNCHANGED <<tspace, spaceVars, pidVars, usedPages, lockVars, current, crashed, flaws, forks, execs>>

\* doKill of a process whose PCB Join has deleted: pcbs[pid] still points there.
KillFreed ==
    /\ InUser("Kill")
    /\ \E pid \in Pid : pcbs[pid] # NULL /\ pcb[pcbs[pid]].state = "freed"
    /\ Crash("pointer")

\* doKill ends: "pcb->thread->setStatus(BLOCKED)".
KillReturns ==
    /\ At("killed")
    /\ \/ pcb[Top.pcb].thread = NULL /\ Crash("pointer")
       \/ /\ pcb[Top.pcb].thread # NULL
          /\ Return
          /\ Uses(Top.pcb)
          /\ ticked' = TRUE
          /\ UNCHANGED <<tstate, tspace, spaceVars, pcb, pidVars, usedPages, lockVars, current,
                         crashed, flaws, forks, execs>>

\* doExec of an executable of n pages: the old space goes first.
doExec ==
    /\ InUser("Exec") /\ execs < MaxExecs
    /\ \E n \in ExecSize :
         Call(<<OnSpace("deleteSpace", Mine), Frame("load", MyPcb, NULL, << >>, n)>>)
    /\ execs' = execs + 1
    /\ ticked' = FALSE
    /\ UNCHANGED <<tstate, tspace, spaceVars, pcb, pidVars, usedPages, lockVars, current,
                   crashed, misused, flaws, forks>>

\* AddrSpace(executable, pcb), which takes no lock, and the rest of doExec: with
\* too little memory it returns -1, and the thread has no space.
Load ==
    /\ At("load")
    /\ \/ /\ Top.n > Cardinality(FreePages)
          /\ tspace' = [tspace EXCEPT ![me] = NULL]
          /\ starved' = TRUE
          /\ UNCHANGED <<spaceVars, usedPages, reused>>
       \/ /\ Top.n <= Cardinality(FreePages)
          /\ \E s \in Fresh(sstate, "freed") :
               /\ HandOutSpace(s)
               /\ sstate' = [sstate EXCEPT ![s] = "live"]
               /\ pages' = [pages EXCEPT ![s] = Lowest(Top.n, FreePages)]
               /\ owner' = [owner EXCEPT ![s] = Top.pcb]
               /\ tspace' = [tspace EXCEPT ![me] = s]
          /\ usedPages' = usedPages \cup Lowest(Top.n, FreePages)
          /\ UNCHANGED starved
    /\ Return
    /\ ticked' = TRUE
    /\ UNCHANGED <<tstate, pcb, pidVars, lockVars, current, crashed, misused, forks, execs>>

-----------------------------------------------------------------------------
ProcessNext ==
    \/ GiveWay \/ Dispatch \/ Over \/ NullSpace
    \/ doFork \/ EnterAllocatePCB \/ AllocatePCB \/ EnterCopySpace \/ CopyFails \/ CopySpace
    \/ ForkThread
    \/ EnterDeleteSpace \/ DeleteSpace \/ FreeSpace
    \/ DestroyPCBSpace \/ DestroyPCB \/ EnterDeallocatePCB \/ ClearPid \/ ForgetPCB
    \/ doExit \/ Child \/ ChildIsFreed \/ NoMoreChildren \/ Self \/ ExitSpace \/ Finish
    \/ doJoin \/ JoinWaits \/ JoinDeletes \/ doKill \/ KillFreed \/ KillReturns
    \/ doExec \/ Load

ProcessSpec == ProcessInit /\ [][ProcessNext]_vars

-----------------------------------------------------------------------------
(* Properties                                                              *)

\* Every variable has its type.
ProcessTypeOK ==
    /\ tstate \in [ThreadAddr -> {"unused", "ready", "asleep", "removed", "finished"}]
    /\ tspace \in [ThreadAddr -> SpaceAddr \cup {NULL}]
    /\ sstate \in [SpaceAddr -> {"unused", "live", "freed"}]
    /\ pages \in [SpaceAddr -> SUBSET Page]
    /\ owner \in [SpaceAddr -> PcbAddr \cup {NULL}]
    /\ \A b \in PcbAddr :
         /\ pcb[b].state \in {"unused", "live", "freed"} /\ pcb[b].pid \in Pid
         /\ pcb[b].parent \in PcbAddr \cup {NULL} /\ pcb[b].thread \in ThreadAddr \cup {NULL}
         /\ pcb[b].exited \in BOOLEAN /\ pcb[b].children \in Seq(PcbAddr)
    /\ pcbs \in [Pid -> PcbAddr \cup {NULL}]
    /\ usedPids \subseteq Pid /\ usedPages \subseteq Page
    /\ mmLock \in ThreadAddr \cup {NULL} /\ pcbManagerLock \in ThreadAddr \cup {NULL}
    /\ current \in ThreadAddr \cup {NULL} /\ crashed \in {"no", "full", "assert", "pointer"}

\* Memory protection and accounting: no physical page is in two page tables, and
\* the bitmap marks exactly the pages that are in one, whatever is forked,
\* loaded, joined, killed or deleted twice.
PagesExact ==
    /\ \A r, s \in SpaceAddr : r # s => pages[r] \cap pages[s] = {}
    /\ usedPages = UNION {pages[s] : s \in SpaceAddr}

\* A live PCB is the one its pid finds, and the pid is taken, except while
\* DeallocatePCB is at work on it under its lock.  A DeallocatePCB of a PCB that
\* is deleted already would take the pid from its next owner: this is said of
\* runs in which no deleted PCB has been used yet.
PidsExact ==
    ~misused => \A b \in PcbAddr : pcb[b].state = "live" =>
        /\ pcbs[pcb[b].pid] = b
        /\ pcb[b].pid \in usedPids \/ pcbManagerLock # NULL

\* Nothing has happened that the code is not prepared for: no memory that a PCB
\* still leads to has been handed out again, and every Exec found its memory.
NoFlaw == ~reused /\ ~starved

\* Nachos does not die of a bad pointer or of deleting an address space twice,
\* only of a full process table.
NoCrash == crashed \in {"no", "full"}

\* When every process has exited, all pages and all pids are free again, until
\* the memory of a thread or space that a PCB still leads to is handed out again.
EverythingReturned ==
    NoFlaw /\ (\A t \in ThreadAddr : tstate[t] \in {"unused", "finished"}) =>
        usedPages = {} /\ usedPids = {}

\* Without Kill, no thread is taken off the ready list for good: whoever destroys
\* a PCB destroys that of a process whose thread has finished.
NobodyVanishes == \A t \in ThreadAddr : tstate[t] # "removed"

\* mmLock is held only by a thread inside a constructor or destructor of
\* AddrSpace.
LockHeldInside ==
    mmLock # NULL /\ tstate[mmLock] # "finished" =>
        \E i \in DOMAIN stack[mmLock] : stack[mmLock][i].at \in {"copyPages", "freePages"}

\* No PCB is used after it was deleted.
NoFreedPCBUsed == ~misused

\* No sequence of Forks, Execs, Yields and Exits, with parents that go before
\* their children or after them, destroys an object that is still needed: the
\* machine does not die, no process is lost, no deleted PCB is used, and mmLock
\* is given back on every path.  Two things are excepted: an Exec that found too
\* little memory, which goes on without a space (exception.cc:217), and an allocator
\* that hands out the memory of a thread, or of its space, while the PCB waits
\* for the parent, whose Exit then destroys the new owner (pcb.cc:26).
ProcessesSurvive ==
    /\ ProcessTypeOK
    /\ NoFlaw => NoCrash /\ NobodyVanishes /\ NoFreedPCBUsed /\ LockHeldInside

\* "ASSERT(pageTable != NULL)" in ~AddrSpace: no address space is deleted twice.
SpacesDeletedOnce == crashed # "assert"

\* "Delete address space only after use is completed": a process that may run its
\* program has its space.
SpacesDeletedAfterUse ==
    \A t \in ThreadAddr : tstate[t] = "ready" /\ Head(stack[t]).at = "user" =>
        tspace[t] \in {s \in SpaceAddr : pages[s] # {}}
=============================================================================
