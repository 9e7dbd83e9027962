---------------------------- MODULE KernelProofs ----------------------------
(***************************************************************************)
(* The scheduling invariant of the thread kernel, for any set of threads   *)
(* and any number of outstanding interrupts.                               *)
(*                                                                         *)
(* None of the three invariants is inductive alone.  That the ready list   *)
(* is exact needs OneRunningThread (Yield queues the running thread, which *)
(* must not be there already) and SleepersAreBlocked (so must a thread     *)
(* that is woken not); that a carcass stays dead needs the list to be      *)
(* exact.  KernelInv, their conjunction, is inductive, although a thread   *)
(* that doKill is about to stop may be READY and off the list, or on the   *)
(* list and BLOCKED.                                                       *)
(***************************************************************************)
EXTENDS Kernel, Lists

\* A list of threads, the statuses st and the wait queues agree, next being off
\* the list but about to be dispatched.
Agrees(list, st, next) ==
    /\ Once(list)
    /\ \A t \in Thread : On(t, list) =>
         /\ st[t] = "READY" \/ (st[t] = "BLOCKED" /\ t \in removed)
         /\ t \notin waiting
         /\ t # next
    /\ \A t \in Thread : st[t] = "READY" => On(t, list) \/ t \in removed \/ t = next

\* The ready list of a state the invariant holds in.
LEMMA ReadyAgrees ==
    ASSUME KernelInv
    PROVE  /\ readyList \in Seq(Thread) /\ Agrees(readyList, status, NULL)
           /\ \A t \in Thread : Listed(t) <=> On(t, readyList)
BY NullAssumption DEF KernelInv, KernelTypeOK, ReadyListExact, Agrees, Listed, Once, On

\* A dispatch (Scheduler::Run) establishes the invariant, if the ready list
\* without the dispatched thread agrees with the statuses, nobody else runs,
\* and the thread to be destroyed is finished.
LEMMA RunLemma ==
    ASSUME NEW list \in Seq(Thread), NEW st \in [Thread -> Status],
           NEW doomed \in Thread \cup {NULL}, NEW next \in Thread,
           KernelTypeOK,
           Run(next, st, doomed),
           readyList' = list,
           resumeLevel' \in [Thread -> Level], removed' = removed,
           waiting' \subseteq Thread, finished' \subseteq Thread, pending' = pending,
           Agrees(list, st, next), next \notin finished', next \notin waiting',
           \A t \in Thread : On(t, list) => t \notin waiting' /\ t \notin finished',
           \A t \in Thread : st[t] # "RUNNING",
           doomed # NULL => doomed \in finished' /\ st[doomed] = "BLOCKED",
           \A t \in finished' : st[t] \in {"BLOCKED", "DELETED"} /\ t \notin waiting',
           \A t \in waiting' : st[t] = "BLOCKED"
    PROVE  KernelInv'
<1>1. /\ \A t \in Thread : t = next => status'[t] = "RUNNING"
      /\ \A t \in Thread : t # next => status'[t] = st[t] \/ (status'[t] = "DELETED" /\ t = doomed)
      /\ \A t \in Thread : t # next /\ t # doomed => status'[t] = st[t]
      /\ status' \in [Thread -> Status]
  BY DEF Run, Status
<1>2. /\ currentThread' = next
      /\ threadToBeDestroyed' \in {NULL, doomed}
      /\ threadToBeDestroyed' # NULL => status' = [t \in Thread |-> IF t = next THEN "RUNNING" ELSE st[t]]
      /\ fresh' \subseteq Thread
      /\ level' \in Level
      /\ mode' = "SystemMode"
  BY NullAssumption DEF Run, KernelTypeOK
<1>3. KernelTypeOK'
  BY <1>1, <1>2 DEF KernelTypeOK, Mode
<1>4. ReadyListExact'
  <2>1. \A t \in Thread : Listed(t)' <=> On(t, list)
    BY DEF Listed, On
  <2>2. ASSUME NEW t \in Thread, On(t, list)
        PROVE  status'[t] = st[t] /\ (st[t] = "READY" \/ (st[t] = "BLOCKED" /\ t \in removed'))
               /\ t \notin waiting'
    BY <1>1, <2>2, NullAssumption DEF Agrees
  <2>3. \A t \in Thread : status'[t] = "READY" => On(t, list) \/ t \in removed'
    BY <1>1 DEF Agrees
  <2>4. \A i, j \in DOMAIN readyList' : readyList'[i] = readyList'[j] => i = j
    BY DEF Agrees, Once
  <2>. QED BY <2>1, <2>2, <2>3, <2>4 DEF ReadyListExact
<1>5. OneRunningThread'
  BY <1>1, <1>2 DEF OneRunningThread, Executing
<1>6. CarcassIsDead'
  <2>1. \A t \in finished' : t # next
    OBVIOUS
  <2>2. \A t \in finished' : status'[t] \in {"BLOCKED", "DELETED"} /\ t \notin waiting'
    BY <1>1, <2>1
  <2>3. \A t \in finished' : ~On(t, list)
    OBVIOUS
  <2>4. \A t \in finished' : ~Listed(t)'
    BY <2>3 DEF Listed, On
  <2>5. threadToBeDestroyed' # NULL =>
            threadToBeDestroyed' \in finished' /\ status'[threadToBeDestroyed'] = "BLOCKED"
    BY <1>2, <2>1
  <2>6. threadToBeDestroyed' # currentThread'
    BY <1>2, <2>1, <2>5, NullAssumption
  <2>. QED BY <2>2, <2>4, <2>5, <2>6 DEF CarcassIsDead
<1>7. SleepersAreBlocked'
  <2>1. \A t \in waiting' : t # next /\ t # doomed /\ t \notin finished'
    BY NullAssumption
  <2>. QED BY <1>1, <2>1 DEF SleepersAreBlocked
<1>. QED BY <1>3, <1>4, <1>5, <1>6, <1>7 DEF KernelInv

\* ReadyToRun(t) of a sleeping or a new thread keeps the list exact and disturbs
\* nobody else.
LEMMA ReadyToRunLemma ==
    ASSUME KernelInv, NEW t \in Thread,
           t \in waiting \/ status[t] = "JUST_CREATED", t \notin finished,
           ReadyToRun(t, readyList, status),
           waiting' = waiting \ {t}, removed' = removed
    PROVE  /\ readyList' \in Seq(Thread)
           /\ status' \in [Thread -> Status]
           /\ status'[t] = "READY"
           /\ \A u \in Thread : u # t => status'[u] = status[u]
           /\ ReadyListExact'
           /\ \A u \in finished : ~Listed(u)'
<1>1. /\ status' \in [Thread -> Status]
      /\ status'[t] = "READY"
      /\ \A u \in Thread : u # t => status'[u] = status[u]
  BY DEF ReadyToRun, KernelInv, KernelTypeOK, Status
<1>2. /\ readyList \in Seq(Thread) /\ readyList' = Append(readyList, t)
      /\ Agrees(readyList, status, NULL)
      /\ \A u \in Thread : Listed(u) <=> On(u, readyList)
  BY ReadyAgrees DEF ReadyToRun
<1>3. ~On(t, readyList)
  BY <1>2 DEF Agrees
<1>4. /\ readyList' \in Seq(Thread)
      /\ \A u : On(u, readyList') <=> On(u, readyList) \/ u = t
      /\ Once(readyList')
  BY <1>2, <1>3, AppendLemma DEF Agrees
<1>5. \A u \in Thread : Listed(u)' <=> On(u, readyList')
  BY DEF Listed, On
<1>6. ReadyListExact'
  <2>1. \A u \in Thread : On(u, readyList') =>
           /\ status'[u] = "READY" \/ (status'[u] = "BLOCKED" /\ u \in removed')
           /\ u \notin waiting'
    BY <1>1, <1>2, <1>4 DEF Agrees
  <2>2. \A u \in Thread : status'[u] = "READY" => On(u, readyList') \/ u \in removed'
    BY <1>1, <1>2, <1>4, NullAssumption DEF Agrees
  <2>. QED BY <1>4, <1>5, <2>1, <2>2 DEF ReadyListExact, Once
<1>7. \A u \in finished : ~Listed(u)'
  <2>1. \A u \in finished : u \in Thread /\ ~Listed(u)
    BY DEF KernelInv, KernelTypeOK, CarcassIsDead
  <2>. QED BY <1>2, <1>4, <1>5, <2>1
<1>. QED BY <1>1, <1>4, <1>6, <1>7

\* What the first thread on the ready list and the rest of the list are.
LEMMA DispatchLemma ==
    ASSUME KernelInv, readyList # << >>
    PROVE  /\ Head(readyList) \in Thread
           /\ Listed(Head(readyList))
           /\ status[Head(readyList)] \in {"READY", "BLOCKED"}
           /\ Head(readyList) \notin waiting /\ Head(readyList) \notin finished
           /\ Tail(readyList) \in Seq(Thread)
           /\ Agrees(Tail(readyList), status, Head(readyList))
           /\ \A t \in Thread : On(t, Tail(readyList)) =>
                 /\ status[t] \in {"READY", "BLOCKED"}
                 /\ t \notin waiting /\ t \notin finished
<1>1. /\ readyList \in Seq(Thread)
      /\ Agrees(readyList, status, NULL)
      /\ \A t \in Thread : Listed(t) <=> On(t, readyList)
      /\ \A t \in finished : ~Listed(t)
  BY ReadyAgrees DEF KernelInv, CarcassIsDead
<1>2. /\ Head(readyList) \in Thread
      /\ Tail(readyList) \in Seq(Thread)
      /\ Once(Tail(readyList))
      /\ ~On(Head(readyList), Tail(readyList))
      /\ \A t \in Thread : On(t, readyList) <=> On(t, Tail(readyList)) \/ t = Head(readyList)
  BY <1>1, TailLemma DEF Agrees
<1>3. Agrees(Tail(readyList), status, Head(readyList))
  BY <1>1, <1>2, NullAssumption DEF Agrees
<1>. QED BY <1>1, <1>2, <1>3 DEF Agrees

\* Thread::Sleep's body, entered with the thread to be destroyed set to doomed.
LEMMA GiveUpCPULemma ==
    ASSUME KernelInv, Executing, NEW doomed \in Thread \cup {NULL},
           GiveUpCPU(doomed), pending' = pending, removed' = removed,
           \/ /\ doomed = threadToBeDestroyed
              /\ waiting' = waiting \cup {currentThread} /\ finished' = finished
           \/ /\ doomed = currentThread
              /\ finished' = finished \cup {currentThread} /\ waiting' = waiting
    PROVE  KernelInv'
<1>. DEFINE st == [status EXCEPT ![currentThread] = "BLOCKED"]
<1>0. /\ currentThread \in Thread /\ status \in [Thread -> Status]
      /\ status[currentThread] = "RUNNING"
      /\ \A t \in Thread : t # currentThread => status[t] # "RUNNING"
      /\ finished \subseteq Thread /\ waiting \subseteq Thread
      /\ \A t \in finished : status[t] \in {"BLOCKED", "DELETED"} /\ t \notin waiting
      /\ \A t \in waiting : status[t] = "BLOCKED"
      /\ threadToBeDestroyed # NULL =>
            threadToBeDestroyed \in finished /\ status[threadToBeDestroyed] = "BLOCKED"
  BY DEF KernelInv, KernelTypeOK, OneRunningThread, CarcassIsDead, SleepersAreBlocked, Executing, Listed
<1>1. /\ st \in [Thread -> Status]
      /\ st[currentThread] = "BLOCKED"
      /\ \A t \in Thread : t # currentThread => st[t] = status[t]
  BY <1>0 DEF Status
<1>. HIDE DEF st
<1>2. /\ waiting' \subseteq Thread /\ finished' \subseteq Thread
      /\ \A t \in Thread : st[t] # "RUNNING"
      /\ doomed # NULL => doomed \in finished' /\ st[doomed] = "BLOCKED"
      /\ \A t \in finished' : st[t] \in {"BLOCKED", "DELETED"} /\ t \notin waiting'
      /\ \A t \in waiting' : st[t] = "BLOCKED"
  BY <1>0, <1>1, NullAssumption
<1>3. resumeLevel' \in [Thread -> Level]
  BY <1>0 DEF KernelInv, KernelTypeOK, GiveUpCPU, Level
<1>4. CASE readyList # << >>
  <2>1. readyList' = Tail(readyList) /\ Run(Head(readyList), st, doomed)
    BY <1>4 DEF GiveUpCPU, st
  <2>2. /\ Head(readyList) \in Thread
        /\ status[Head(readyList)] \in {"READY", "BLOCKED"}
        /\ Head(readyList) \notin waiting /\ Head(readyList) \notin finished
        /\ Tail(readyList) \in Seq(Thread)
        /\ Agrees(Tail(readyList), status, Head(readyList))
        /\ \A t \in Thread : On(t, Tail(readyList)) =>
              /\ status[t] \in {"READY", "BLOCKED"}
              /\ t \notin waiting /\ t \notin finished
    BY <1>4, DispatchLemma
  <2>3. /\ Head(readyList) # currentThread
        /\ \A t \in Thread : On(t, Tail(readyList)) => t # currentThread
    BY <1>0, <2>2
  <2>5. Agrees(Tail(readyList), st, Head(readyList))
    BY <1>0, <1>1, <2>2, <2>3 DEF Agrees
  <2>6. /\ Head(readyList) \notin waiting' /\ Head(readyList) \notin finished'
        /\ \A t \in Thread : On(t, Tail(readyList)) => t \notin waiting' /\ t \notin finished'
    BY <2>2, <2>3
  <2>4. KernelTypeOK
    BY DEF KernelInv
  <2>. QED BY <1>1, <1>2, <1>3, <2>1, <2>2, <2>4, <2>5, <2>6, RunLemma
<1>5. CASE readyList = << >>
  <2>1. /\ readyList' = readyList /\ status' = st /\ threadToBeDestroyed' = doomed
        /\ level' = "IntOff" /\ mode' = "IdleMode"
        /\ currentThread' = currentThread /\ fresh' = fresh
    BY <1>5 DEF GiveUpCPU, st
  <2>2. KernelTypeOK'
    BY <1>1, <1>2, <1>3, <2>1 DEF KernelInv, KernelTypeOK, Level, Mode
  <2>3. ReadyListExact'
    BY <1>0, <1>1, <1>5, <2>1 DEF KernelInv, ReadyListExact, Listed
  <2>4. OneRunningThread'
    BY <1>2, <2>1 DEF OneRunningThread, Executing
  <2>5. CarcassIsDead'
    BY <1>2, <1>5, <2>1 DEF CarcassIsDead, Executing, Listed
  <2>6. SleepersAreBlocked'
    BY <1>2, <2>1 DEF SleepersAreBlocked
  <2>. QED BY <2>2, <2>3, <2>4, <2>5, <2>6 DEF KernelInv
<1>. QED BY <1>4, <1>5

\* Waking a thread some wait queue knows, whoever does it.
LEMMA WakeLemma ==
    ASSUME KernelInv, NEW t \in waiting,
           ReadyToRun(t, readyList, status), waiting' = waiting \ {t},
           UNCHANGED <<cpuVars, resumeLevel, finished, removed>>, pending' \in 0 .. MaxPending
    PROVE  KernelInv'
<1>1. t \in Thread /\ status[t] = "BLOCKED" /\ t \notin finished
  BY DEF KernelInv, KernelTypeOK, SleepersAreBlocked
<1>2. /\ readyList' \in Seq(Thread)
      /\ status' \in [Thread -> Status]
      /\ status'[t] = "READY"
      /\ \A u \in Thread : u # t => status'[u] = status[u]
      /\ ReadyListExact'
      /\ \A u \in finished : ~Listed(u)'
  BY <1>1, ReadyToRunLemma
<1>3. KernelTypeOK'
  BY <1>2 DEF KernelInv, KernelTypeOK, cpuVars
<1>4. OneRunningThread'
  BY <1>1, <1>2 DEF KernelInv, OneRunningThread, Executing, cpuVars
<1>5. CarcassIsDead'
  BY <1>1, <1>2 DEF KernelInv, KernelTypeOK, CarcassIsDead, Executing, cpuVars
<1>6. SleepersAreBlocked'
  BY <1>1, <1>2 DEF KernelInv, KernelTypeOK, SleepersAreBlocked
<1>. QED BY <1>2, <1>3, <1>4, <1>5, <1>6 DEF KernelInv

\* The state Initialize leaves satisfies the invariant.
LEMMA KernelStart == KernelInit => KernelInv
BY MainAssumption, NullAssumption, PendingAssumption
DEF KernelInit, KernelInv, KernelTypeOK, ReadyListExact, OneRunningThread, CarcassIsDead,
    SleepersAreBlocked, Executing, Status, Level, Mode, Listed

\* Every step of the kernel preserves the invariant.
LEMMA KernelStep ==
    ASSUME KernelInv, [KernelNext]_kernelVars
    PROVE  KernelInv'
<1>0. KernelTypeOK /\ ReadyListExact /\ OneRunningThread /\ CarcassIsDead /\ SleepersAreBlocked
  BY DEF KernelInv
<1>1. ASSUME NEW t \in Thread, Create(t) PROVE KernelInv'
  <2>1. /\ status' \in [Thread -> Status] /\ status'[t] = "JUST_CREATED"
        /\ \A u \in Thread : u # t => status'[u] = status[u]
        /\ status[t] = "UNALLOCATED"
    BY <1>0, <1>1 DEF Create, KernelTypeOK, Status
  <2>2. t # currentThread /\ t \notin finished /\ t \notin waiting
    BY <1>0, <1>1, <2>1 DEF OneRunningThread, CarcassIsDead, SleepersAreBlocked, Create
  <2>3. KernelTypeOK'
    BY <1>0, <1>1, <2>1 DEF KernelTypeOK, Create, cpuVars
  <2>4. ReadyListExact'
    BY <1>0, <1>1, <2>1 DEF ReadyListExact, Create, Listed
  <2>5. OneRunningThread'
    BY <1>0, <1>1, <2>1 DEF OneRunningThread, Executing, Create, cpuVars
  <2>6. CarcassIsDead'
    BY <1>0, <1>1, <2>1, <2>2 DEF CarcassIsDead, KernelTypeOK, Executing, Create, cpuVars, Listed
  <2>7. SleepersAreBlocked'
    BY <1>0, <1>1, <2>1, <2>2 DEF SleepersAreBlocked, KernelTypeOK, Create
  <2>. QED BY <2>3, <2>4, <2>5, <2>6, <2>7 DEF KernelInv
<1>2. ASSUME NEW t \in Thread, Fork(t) PROVE KernelInv'
  <2>1. status[t] = "JUST_CREATED" /\ t \notin finished /\ t \notin waiting
    BY <1>0, <1>2 DEF Fork, CarcassIsDead, SleepersAreBlocked
  <2>2. /\ readyList' \in Seq(Thread)
        /\ status' \in [Thread -> Status]
        /\ status'[t] = "READY"
        /\ \A u \in Thread : u # t => status'[u] = status[u]
        /\ ReadyListExact'
        /\ \A u \in finished : ~Listed(u)'
    <3>1. waiting' = waiting \ {t} /\ removed' = removed /\ ReadyToRun(t, readyList, status)
      BY <1>2, <2>1 DEF Fork
    <3>. QED BY <2>1, <3>1, ReadyToRunLemma DEF Fork
  <2>3. KernelTypeOK'
    BY <1>0, <1>2, <2>2 DEF KernelTypeOK, Fork, Level
  <2>4. OneRunningThread'
    BY <1>0, <1>2, <2>1, <2>2 DEF OneRunningThread, Executing, Fork
  <2>5. CarcassIsDead'
    BY <1>0, <1>2, <2>1, <2>2 DEF CarcassIsDead, KernelTypeOK, Executing, Fork
  <2>6. SleepersAreBlocked'
    BY <1>0, <1>2, <2>1, <2>2 DEF SleepersAreBlocked, KernelTypeOK, Fork
  <2>. QED BY <2>2, <2>3, <2>4, <2>5, <2>6 DEF KernelInv
<1>3. ASSUME NEW t \in Thread, WakeUp(t) PROVE KernelInv'
  BY <1>0, <1>3, WakeLemma DEF WakeUp, MakeReady, KernelTypeOK
<1>4. ASSUME NEW t \in Thread, RemoveThread(t) PROVE KernelInv'
  <2>1. /\ readyList \in Seq(Thread) /\ Agrees(readyList, status, NULL)
        /\ \A u \in Thread : Listed(u) <=> On(u, readyList)
    BY ReadyAgrees
  <2>2. /\ readyList' \in Seq(Thread) /\ Once(readyList')
        /\ \A u \in Thread : On(u, readyList') <=> On(u, readyList) /\ u # t
    <3>1. CASE \E i \in DOMAIN readyList : readyList[i] = t /\ readyList' = RemoveAt(readyList, i)
      BY <2>1, <3>1, RemoveAtLemma DEF Agrees
    <3>2. CASE ~Listed(t) /\ readyList' = readyList
      BY <2>1, <3>2 DEF Agrees
    <3>. QED BY <1>4, <3>1, <3>2 DEF RemoveThread
  <2>3. /\ status' = status /\ waiting' = waiting /\ finished' = finished
        /\ removed' = removed \cup {t} /\ UNCHANGED <<cpuVars, resumeLevel, pending>>
    BY <1>4 DEF RemoveThread
  <2>4. \A u \in Thread : Listed(u)' <=> On(u, readyList')
    BY DEF Listed, On
  <2>5. KernelTypeOK'
    BY <1>0, <2>2, <2>3 DEF KernelTypeOK, cpuVars
  <2>6. ReadyListExact'
    <3>1. \A u \in Thread : On(u, readyList') =>
             /\ status'[u] = "READY" \/ (status'[u] = "BLOCKED" /\ u \in removed')
             /\ u \notin waiting'
      BY <2>1, <2>2, <2>3 DEF Agrees
    <3>2. \A u \in Thread : status'[u] = "READY" => On(u, readyList') \/ u \in removed'
      BY <2>1, <2>2, <2>3, NullAssumption DEF Agrees
    <3>. QED BY <2>2, <2>4, <3>1, <3>2 DEF ReadyListExact, Once
  <2>7. OneRunningThread'
    BY <1>0, <2>3 DEF OneRunningThread, Executing, cpuVars
  <2>8. CarcassIsDead'
    <3>1. \A u \in finished : ~On(u, readyList')
      BY <1>0, <2>1, <2>2 DEF CarcassIsDead, KernelTypeOK
    <3>. QED BY <1>0, <2>3, <2>4, <3>1 DEF CarcassIsDead, KernelTypeOK, Executing, cpuVars
  <2>9. SleepersAreBlocked'
    BY <1>0, <2>3 DEF SleepersAreBlocked
  <2>. QED BY <2>5, <2>6, <2>7, <2>8, <2>9 DEF KernelInv
<1>15. ASSUME NEW t \in Thread, SetBlocked(t) PROVE KernelInv'
  <2>1. /\ status' \in [Thread -> Status] /\ status'[t] = "BLOCKED"
        /\ \A u \in Thread : u # t => status'[u] = status[u]
        /\ status[t] \in {"READY", "BLOCKED"} /\ t \in removed /\ t # currentThread
        /\ UNCHANGED <<cpuVars, readyList, resumeLevel, waiting, finished, removed, pending>>
    BY <1>0, <1>15 DEF SetBlocked, KernelTypeOK, Status
  <2>2. KernelTypeOK'
    BY <1>0, <2>1 DEF KernelTypeOK, cpuVars
  <2>3. ReadyListExact'
    BY <1>0, <2>1 DEF ReadyListExact, Listed
  <2>4. OneRunningThread'
    BY <1>0, <2>1 DEF OneRunningThread, Executing, cpuVars
  <2>5. CarcassIsDead'
    BY <1>0, <2>1 DEF CarcassIsDead, KernelTypeOK, Executing, cpuVars, Listed
  <2>6. SleepersAreBlocked'
    BY <1>0, <2>1 DEF SleepersAreBlocked, KernelTypeOK
  <2>. QED BY <2>2, <2>3, <2>4, <2>5, <2>6 DEF KernelInv
<1>5. CASE Yield
  <2>1. CASE UNCHANGED kernelVars
    BY <1>0, <2>1 DEF kernelVars, cpuVars, threadVars, KernelInv, KernelTypeOK, ReadyListExact,
                      OneRunningThread, CarcassIsDead, SleepersAreBlocked, Executing, Listed
  <2>2. CASE readyList # << >>
    <3>. DEFINE st == [status EXCEPT ![currentThread] = "READY"]
                list == Append(Tail(readyList), currentThread)
    <3>1. /\ Executing /\ currentThread \in Thread /\ status[currentThread] = "RUNNING"
          /\ \A t \in Thread : t # currentThread => status[t] # "RUNNING"
          /\ st \in [Thread -> Status] /\ st[currentThread] = "READY"
          /\ \A t \in Thread : t # currentThread => st[t] = status[t]
      BY <1>0, <1>5 DEF Yield, KernelTypeOK, OneRunningThread, Executing, Status
    <3>2. /\ Head(readyList) \in Thread
          /\ status[Head(readyList)] \in {"READY", "BLOCKED"}
          /\ Head(readyList) \notin waiting /\ Head(readyList) \notin finished
          /\ Tail(readyList) \in Seq(Thread)
          /\ Agrees(Tail(readyList), status, Head(readyList))
          /\ \A t \in Thread : On(t, Tail(readyList)) =>
                /\ status[t] \in {"READY", "BLOCKED"}
                /\ t \notin waiting /\ t \notin finished
      BY <2>2, DispatchLemma
    <3>3. /\ ~On(currentThread, Tail(readyList)) /\ Head(readyList) # currentThread
          /\ currentThread \notin waiting /\ currentThread \notin finished
      BY <1>0, <3>1, <3>2 DEF SleepersAreBlocked, CarcassIsDead
    <3>4. /\ list \in Seq(Thread)
          /\ Once(list)
          /\ \A t : On(t, list) <=> On(t, Tail(readyList)) \/ t = currentThread
      BY <3>1, <3>2, <3>3, AppendLemma DEF Agrees
    <3>5. /\ readyList' = list
          /\ Run(Head(readyList), st, threadToBeDestroyed)
          /\ resumeLevel' \in [Thread -> Level] /\ removed' = removed
          /\ waiting' = waiting /\ finished' = finished /\ pending' = pending
      BY <1>0, <1>5, <2>2 DEF Yield, KernelTypeOK
    <3>. HIDE DEF st, list
    <3>6. /\ Agrees(list, st, Head(readyList))
          /\ \A t \in Thread : On(t, list) => t \notin waiting' /\ t \notin finished'
          /\ Head(readyList) \notin waiting' /\ Head(readyList) \notin finished'
          /\ \A t \in Thread : st[t] # "RUNNING"
      BY <3>1, <3>2, <3>3, <3>4, <3>5 DEF Agrees
    <3>7. /\ threadToBeDestroyed # NULL =>
                 threadToBeDestroyed \in finished' /\ st[threadToBeDestroyed] = "BLOCKED"
          /\ \A t \in finished' : st[t] \in {"BLOCKED", "DELETED"} /\ t \notin waiting'
          /\ \A t \in waiting' : st[t] = "BLOCKED"
          /\ finished' \subseteq Thread /\ waiting' \subseteq Thread
          /\ threadToBeDestroyed \in Thread \cup {NULL}
      BY <1>0, <3>1, <3>5 DEF CarcassIsDead, SleepersAreBlocked, KernelTypeOK
    <3>. QED BY <1>0, <3>1, <3>2, <3>4, <3>5, <3>6, <3>7, RunLemma
  <2>. QED BY <1>5, <2>1, <2>2 DEF Yield
<1>6. CASE Sleep
  BY <1>0, <1>6, GiveUpCPULemma DEF Sleep, Block, KernelTypeOK
<1>7. CASE Finish
  BY <1>0, <1>7, GiveUpCPULemma DEF Finish, KernelTypeOK
<1>8. ASSUME NEW now \in Level, SetLevel(now) PROVE KernelInv'
  BY <1>0, <1>8 DEF SetLevel, threadVars, KernelInv, KernelTypeOK, ReadyListExact,
                    OneRunningThread, CarcassIsDead, SleepersAreBlocked, Executing, Listed
<1>9. CASE Schedule
  BY <1>0, <1>9, PendingAssumption
  DEF Schedule, cpuVars, threadVars, KernelInv, KernelTypeOK, ReadyListExact,
      OneRunningThread, CarcassIsDead, SleepersAreBlocked, Executing, Listed
<1>10. ASSUME NEW wake, DeviceInterrupt(wake) PROVE KernelInv'
  <2>0. pending' \in 0 .. MaxPending
    BY <1>0, <1>10, PendingAssumption DEF DeviceInterrupt, RunHandler, KernelTypeOK
  <2>1. CASE UNCHANGED threadVars
    BY <1>0, <1>10, <2>0, <2>1
    DEF DeviceInterrupt, RunHandler, cpuVars, threadVars, KernelInv, KernelTypeOK, ReadyListExact,
        OneRunningThread, CarcassIsDead, SleepersAreBlocked, Executing, Listed
  <2>2. ASSUME NEW t \in wake, ReadyToRun(t, readyList, status),
               waiting' = waiting \ {t}, UNCHANGED <<resumeLevel, finished, removed>>
        PROVE  KernelInv'
    <3>1. t \in waiting /\ UNCHANGED cpuVars
      BY <1>10, <2>2 DEF DeviceInterrupt, RunHandler
    <3>. QED BY <2>0, <2>2, <3>1, WakeLemma
  <2>. QED BY <1>10, <2>1, <2>2 DEF DeviceInterrupt, RunHandler
<1>11. CASE IdleDispatch
  <2>1. /\ Head(readyList) \in Thread
        /\ Head(readyList) \notin waiting /\ Head(readyList) \notin finished
        /\ Tail(readyList) \in Seq(Thread)
        /\ Agrees(Tail(readyList), status, Head(readyList))
        /\ \A t \in Thread : On(t, Tail(readyList)) => t \notin waiting /\ t \notin finished
    BY <1>11, DispatchLemma DEF IdleDispatch
  <2>2. /\ \A t \in Thread : status[t] # "RUNNING"
        /\ threadToBeDestroyed # NULL =>
              threadToBeDestroyed \in finished' /\ status[threadToBeDestroyed] = "BLOCKED"
        /\ \A t \in finished' : status[t] \in {"BLOCKED", "DELETED"} /\ t \notin waiting'
        /\ \A t \in waiting' : status[t] = "BLOCKED"
        /\ finished' \subseteq Thread /\ waiting' \subseteq Thread
        /\ threadToBeDestroyed \in Thread \cup {NULL}
        /\ resumeLevel' \in [Thread -> Level]
        /\ status \in [Thread -> Status]
        /\ pending' = pending /\ removed' = removed /\ waiting' = waiting /\ finished' = finished
    BY <1>0, <1>11 DEF IdleDispatch, OneRunningThread, CarcassIsDead, SleepersAreBlocked, KernelTypeOK
  <2>3. readyList' = Tail(readyList) /\ Run(Head(readyList), status, threadToBeDestroyed)
    BY <1>11 DEF IdleDispatch
  <2>. QED BY <1>0, <2>1, <2>2, <2>3, RunLemma
<1>12. CASE IdleHalt
  BY <1>0, <1>12 DEF IdleHalt, threadVars, KernelInv, KernelTypeOK, ReadyListExact, Mode,
                     OneRunningThread, CarcassIsDead, SleepersAreBlocked, Executing, Listed
<1>13. CASE Halt
  BY <1>0, <1>13 DEF Halt, threadVars, KernelInv, KernelTypeOK, ReadyListExact, Mode,
                     OneRunningThread, CarcassIsDead, SleepersAreBlocked, Executing, Listed
<1>14. CASE UNCHANGED kernelVars
  BY <1>0, <1>14 DEF kernelVars, cpuVars, threadVars, KernelInv, KernelTypeOK, ReadyListExact,
                     OneRunningThread, CarcassIsDead, SleepersAreBlocked, Executing, Listed
<1>. QED
  BY <1>1, <1>2, <1>3, <1>4, <1>5, <1>6, <1>7, <1>8, <1>9, <1>10, <1>11, <1>12, <1>13, <1>14,
     <1>15
  DEF KernelNext, Terminated

\* The kernel's inductive invariant, at every reachable state.
THEOREM KernelInvariant == KernelSpec => []KernelInv
<1>1. KernelInv /\ [KernelNext]_kernelVars => KernelInv'
  BY KernelStep
<1>. QED BY <1>1, KernelStart, PTL DEF KernelSpec

\* The three scheduling invariants the runs check, for every instance.
THEOREM SchedulingSafe == KernelSpec => []SchedulerConsistent
<1>1. KernelInv => SchedulerConsistent
  BY DEF KernelInv, SchedulerConsistent
<1>. QED BY <1>1, KernelInvariant, PTL

\* The type invariant.
THEOREM KernelTypeCorrect == KernelSpec => []KernelTypeOK
<1>1. KernelInv => KernelTypeOK
  BY DEF KernelInv
<1>. QED BY <1>1, KernelInvariant, PTL

\* One step of the kernel leaves nobody further back on the ready list.
LEMMA FifoStep ==
    ASSUME KernelInv, [KernelNext]_kernelVars
    PROVE  NotBack(readyList, readyList')
<1>0. /\ readyList \in Seq(Thread) /\ Once(readyList) /\ currentThread \in Thread
      /\ \A t \in Thread : On(t, readyList) => status[t] \in {"READY", "BLOCKED"} /\ t \notin waiting
      /\ Executing => status[currentThread] = "RUNNING"
      /\ waiting \subseteq Thread
  BY ReadyAgrees DEF Agrees, KernelInv, KernelTypeOK, OneRunningThread
<1>1. CASE readyList' = readyList
  BY <1>0, <1>1, FifoLemma
<1>2. ASSUME NEW t \in Thread, ~On(t, readyList), readyList' = Append(readyList, t)
      PROVE  NotBack(readyList, readyList')
  BY <1>0, <1>2, FifoLemma
<1>3. CASE readyList # << >> /\ readyList' = Tail(readyList)
  BY <1>0, <1>3, FifoLemma
<1>4. CASE readyList # << >> /\ Executing /\ readyList' = Append(Tail(readyList), currentThread)
  BY <1>0, <1>4, FifoLemma
<1>5. ASSUME NEW i \in DOMAIN readyList, readyList' = RemoveAt(readyList, i)
      PROVE  NotBack(readyList, readyList')
  BY <1>0, <1>5, FifoLemma
<1>6. CASE \E t \in Thread : Create(t) \/ Fork(t) \/ WakeUp(t)
  BY <1>0, <1>1, <1>2, <1>6 DEF Create, Fork, WakeUp, MakeReady, ReadyToRun
<1>7. CASE \E t \in Thread : RemoveThread(t) \/ SetBlocked(t)
  BY <1>1, <1>5, <1>7 DEF RemoveThread, SetBlocked
<1>8. CASE Yield
  BY <1>1, <1>4, <1>8 DEF Yield, kernelVars, threadVars
<1>9. CASE Sleep \/ Finish
  BY <1>1, <1>3, <1>9 DEF Sleep, Block, Finish, GiveUpCPU
<1>10. CASE \E wake \in {{}} \cup {{t} : t \in Thread} : DeviceInterrupt(wake)
  BY <1>0, <1>1, <1>2, <1>10 DEF DeviceInterrupt, RunHandler, ReadyToRun, threadVars
<1>11. CASE IdleDispatch
  BY <1>3, <1>11 DEF IdleDispatch
<1>12. CASE (\E now \in Level : SetLevel(now)) \/ Schedule \/ IdleHalt \/ Halt \/ Terminated
            \/ UNCHANGED kernelVars
  BY <1>1, <1>12 DEF SetLevel, Schedule, IdleHalt, Halt, Terminated, kernelVars, threadVars
<1>. QED BY <1>6, <1>7, <1>8, <1>9, <1>10, <1>11, <1>12 DEF KernelNext

\* The ready list is FIFO, for any number of threads and whatever they do: while
\* a thread waits for the CPU, nobody gets in front of it.
THEOREM ReadyListIsFifo == KernelSpec => NeverOvertaken
<1>1. KernelInv /\ [KernelNext]_kernelVars =>
        [\A t \in Thread : \A i \in DOMAIN readyList, j \in DOMAIN readyList' :
           readyList[i] = t /\ readyList'[j] = t => j <= i]_kernelVars
  BY FifoStep DEF NotBack
<1>. QED BY <1>1, KernelInvariant, PTL DEF KernelSpec, NeverOvertaken

\* A context switch: the thread that gets the CPU is another one (unless the
\* machine was idle) and finds the level it went to sleep with.
LEMMA SwitchLemma ==
    ASSUME KernelInv, Sleep \/ Finish \/ (Yield /\ readyList # << >>) \/ IdleDispatch
    PROVE  /\ \A t \in Thread : t # currentThread => resumeLevel'[t] = resumeLevel[t]
           /\ IdleDispatch => resumeLevel' = resumeLevel
           /\ Sleep \/ Finish => resumeLevel'[currentThread] = "IntOff"
           /\ Yield /\ readyList # << >> => resumeLevel'[currentThread] = level
           /\ \/ mode' = "IdleMode" /\ currentThread' = currentThread /\ Executing
              \/ /\ currentThread' \in Thread /\ mode' = "SystemMode"
                 /\ level' = resumeLevel[currentThread']
                 /\ Executing => currentThread' # currentThread
<1>0. /\ resumeLevel \in [Thread -> Level] /\ currentThread \in Thread
      /\ Executing => status[currentThread] = "RUNNING"
  BY DEF KernelInv, KernelTypeOK, OneRunningThread
<1>1. readyList # << >> => Head(readyList) \in Thread /\ status[Head(readyList)] \in {"READY", "BLOCKED"}
  BY DispatchLemma
<1>2. ASSUME Sleep \/ Finish
      PROVE  /\ resumeLevel' = [resumeLevel EXCEPT ![currentThread] = "IntOff"] /\ Executing
             /\ \/ mode' = "IdleMode" /\ currentThread' = currentThread
                \/ /\ readyList # << >> /\ currentThread' = Head(readyList) /\ mode' = "SystemMode"
                   /\ level' = resumeLevel[Head(readyList)]
  <2>1. Executing /\ \E doomed : GiveUpCPU(doomed)
    BY <1>2 DEF Sleep, Block, Finish
  <2>. QED BY <2>1 DEF GiveUpCPU, Run
<1>3. ASSUME Yield, readyList # << >>
      PROVE  /\ resumeLevel' = [resumeLevel EXCEPT ![currentThread] = level] /\ Executing
             /\ currentThread' = Head(readyList) /\ mode' = "SystemMode"
             /\ level' = resumeLevel[Head(readyList)]
  BY <1>3 DEF Yield, Run
<1>4. ASSUME IdleDispatch
      PROVE  /\ resumeLevel' = resumeLevel /\ currentThread' = Head(readyList) /\ mode' = "SystemMode"
             /\ level' = resumeLevel[Head(readyList)] /\ readyList # << >> /\ ~Executing
  BY <1>4 DEF IdleDispatch, Run, Executing
<1>5. Sleep \/ Finish => resumeLevel'[currentThread] = "IntOff"
  BY <1>0, <1>2
<1>6. Yield /\ readyList # << >> => resumeLevel'[currentThread] = level
  BY <1>0, <1>3
<1>7. \A t \in Thread : t # currentThread => resumeLevel'[t] = resumeLevel[t]
  BY <1>0, <1>2, <1>3, <1>4
<1>8. \/ mode' = "IdleMode" /\ currentThread' = currentThread /\ Executing
      \/ /\ currentThread' \in Thread /\ mode' = "SystemMode"
         /\ level' = resumeLevel[currentThread']
         /\ Executing => currentThread' # currentThread
  BY <1>0, <1>1, <1>2, <1>3, <1>4
<1>. QED BY <1>4, <1>5, <1>6, <1>7, <1>8

\* A thread that was forked stays so: no operation makes it new again.
LEMMA StaysForked ==
    ASSUME KernelInv, [KernelNext]_kernelVars, NEW t \in Thread,
           status'[t] \in {"UNALLOCATED", "JUST_CREATED"}
    PROVE  status[t] \in {"UNALLOCATED", "JUST_CREATED"}
<1>0. status \in [Thread -> Status] /\ currentThread \in Thread /\ waiting \subseteq Thread
  BY DEF KernelInv, KernelTypeOK
<1>1. ASSUME NEW u \in Thread, Create(u) \/ Fork(u) \/ WakeUp(u) \/ RemoveThread(u) \/ SetBlocked(u)
      PROVE  status[t] \in {"UNALLOCATED", "JUST_CREATED"}
  BY <1>0, <1>1 DEF Create, Fork, WakeUp, MakeReady, RemoveThread, SetBlocked, ReadyToRun
<1>2. ASSUME NEW next, NEW doomed, NEW st, NEW s, Run(next, st, doomed),
             st = [status EXCEPT ![currentThread] = s] \/ st = status, s \in {"READY", "BLOCKED"}
      PROVE  status[t] \in {"UNALLOCATED", "JUST_CREATED"}
  <2>1. status'[t] = st[t]
    BY <1>2 DEF Run
  <2>. QED BY <1>0, <1>2, <2>1
<1>3. CASE Sleep \/ Finish
  <2>1. PICK doomed : GiveUpCPU(doomed)
    BY <1>3 DEF Sleep, Block, Finish
  <2>. QED BY <1>0, <1>2, <2>1 DEF GiveUpCPU
<1>4. CASE Yield
  BY <1>2, <1>4 DEF Yield, kernelVars, threadVars
<1>5. CASE IdleDispatch
  BY <1>2, <1>5 DEF IdleDispatch
<1>6. CASE \E wake \in {{}} \cup {{u} : u \in Thread} : DeviceInterrupt(wake)
  BY <1>0, <1>6 DEF DeviceInterrupt, RunHandler, ReadyToRun, threadVars
<1>7. CASE (\E now \in Level : SetLevel(now)) \/ Schedule \/ IdleHalt \/ Halt \/ Terminated
           \/ UNCHANGED kernelVars
  BY <1>7 DEF SetLevel, Schedule, IdleHalt, Halt, Terminated, kernelVars, threadVars
<1>. QED BY <1>1, <1>3, <1>4, <1>5, <1>6, <1>7 DEF KernelNext
=============================================================================
