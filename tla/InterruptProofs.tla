-------------------------- MODULE InterruptProofs ---------------------------
(***************************************************************************)
(* Simulated time, for any set of threads and devices, any delays and any  *)
(* tick lengths: no interrupt is late, what OneTick, the handlers and Idle *)
(* keep in globals across context switches is in order, and the tick       *)
(* machinery implements the abstract kernel.                               *)
(*                                                                         *)
(* NothingOverdue needs the list to be sorted (OneTick looks at its head   *)
(* only); the machine status needs the "old" of a preempted OneTick, which *)
(* waits on its thread's stack, to be what that thread's code runs in; and *)
(* stopping an idle machine needs the count of pending interrupts to be    *)
(* that of the list.                                                       *)
(***************************************************************************)
EXTENDS Interrupt, KernelProofs, FiniteSetTheorems

\* The pending list is sorted and has an entry of each type at most.
SortedByDue(list) == \A i, j \in DOMAIN list : i <= j => list[i].due <= list[j].due
OneOfEach(list)   == \A i, j \in DOMAIN list : list[i].type = list[j].type => i = j
PendingList(list) == list \in Seq(Entry) /\ SortedByDue(list) /\ OneOfEach(list)

HasType(list, type) == \E i \in DOMAIN list : list[i].type = type

TimerCount == IF UseTimer THEN 1 ELSE 0

\* The list, its timer and Kernel's count of the others.
QueueExact ==
    /\ PendingList(queue)
    /\ HasType(queue, TimerInt) <=> UseTimer
    /\ pending = Len(queue) - TimerCount

TickTypes ==
    /\ machineStatus \in {"SystemMode", "UserMode", "IdleMode"}
    /\ yieldOnReturn \in BOOLEAN
    /\ point \in {"run", "tick", "idle"}
    /\ saved \in [Thread -> {"SystemMode", "UserMode"}]
    /\ place \in [Thread -> {"kernel", "user", "syscall"}]

\* Where the simulator is, the mode and the yield request.
PointsMatch ==
    /\ point = "tick" => Executing /\ level = "IntOn"
    /\ point = "idle" => mode = "IdleMode"
    /\ point = "run" => ~yieldOnReturn

\* The status a thread's code runs in.
StatusOf(t) == IF place[t] = "user" THEN "UserMode" ELSE "SystemMode"

\* t does not hold the CPU, or not with a running machine.
OffCPU(t) == t # currentThread \/ mode = "IdleMode"

\* A thread that will resume into a OneTick, or is in one, finds the right status
\* there; a thread preempted in user code will; a new one has no OneTick behind it.
SavedMatches ==
    \A t \in Thread :
        /\ OffCPU(t) /\ resumeLevel[t] = "IntOn" => saved[t] = StatusOf(t)
        /\ OffCPU(t) /\ place[t] = "user" => resumeLevel[t] = "IntOn"
        /\ t = currentThread /\ point = "tick" => saved[t] = StatusOf(t)
        /\ status[t] \in {"UNALLOCATED", "JUST_CREATED"} =>
             place[t] = "kernel" /\ saved[t] = "SystemMode"

\* The inductive invariant.
TickInv ==
    /\ KernelInv
    /\ TickTypes
    /\ QueueExact
    /\ PointsMatch
    /\ SavedMatches
    /\ NothingOverdue
    /\ StatusMatchesCode

-----------------------------------------------------------------------------
(* The sorted list                                                         *)

\* What being a pending list means, by indices.
LEMMA ListTypes ==
    ASSUME NEW list, PendingList(list)
    PROVE  /\ list \in Seq(Entry) /\ Len(list) \in Nat /\ DOMAIN list = 1 .. Len(list)
           /\ \A i \in 1 .. Len(list) : list[i] \in Entry /\ list[i].due \in Int
           /\ \A i, j \in 1 .. Len(list) : i <= j => list[i].due <= list[j].due
           /\ \A i, j \in 1 .. Len(list) : list[i].type = list[j].type => i = j
<1>1. list \in Seq(Entry) /\ SortedByDue(list) /\ OneOfEach(list)
  BY DEF PendingList
<1>2. Len(list) \in Nat /\ DOMAIN list = 1 .. Len(list)
  BY <1>1
<1>3. \A i \in 1 .. Len(list) : list[i] \in Entry
  BY <1>1
<1>4. \A e \in Entry : e.due \in Int
  BY DEF Entry
<1>. QED BY <1>1, <1>2, <1>3, <1>4 DEF SortedByDue, OneOfEach

\* List::SortedInsert puts the entry at a place k: the entries before it are due
\* no later, the ones behind it later.
LEMMA InsertPlace ==
    ASSUME NEW list, PendingList(list), NEW e \in Entry
    PROVE  \E k \in 1 .. Len(list) + 1 :
             /\ SortedInsert(list, e) \in Seq(Entry)
             /\ Len(SortedInsert(list, e)) = Len(list) + 1
             /\ \A i \in 1 .. Len(list) + 1 :
                  SortedInsert(list, e)[i] =
                    IF i < k THEN list[i] ELSE IF i = k THEN e ELSE list[i - 1]
             /\ \A i \in 1 .. Len(list) : i < k => list[i].due <= e.due
             /\ \A i \in 1 .. Len(list) : i >= k => e.due < list[i].due
<1>. DEFINE larger == {i \in DOMAIN list : e.due < list[i].due}
<1>0. /\ list \in Seq(Entry) /\ Len(list) \in Nat /\ DOMAIN list = 1 .. Len(list)
      /\ \A i \in 1 .. Len(list) : list[i] \in Entry /\ list[i].due \in Int
      /\ \A i, j \in 1 .. Len(list) : i <= j => list[i].due <= list[j].due
  BY ListTypes
<1>a. e.due \in Int
  BY DEF Entry
<1>b. ASSUME NEW k \in DOMAIN list
      PROVE  /\ InsertAt(list, k, e) \in Seq(Entry) /\ Len(InsertAt(list, k, e)) = Len(list) + 1
             /\ \A i \in 1 .. Len(list) + 1 :
                  InsertAt(list, k, e)[i] =
                    IF i < k THEN list[i] ELSE IF i = k THEN e ELSE list[i - 1]
  <2>. DEFINE new == InsertAt(list, k, e)
  <2>1. list \in Seq(Entry)
    BY <1>0
  <2>2. new \in Seq(Entry) /\ Len(new) = Len(list) + 1
    BY <2>1, InsertAtElements
  <2>3. ASSUME NEW i \in 1 .. Len(list) + 1
        PROVE  new[i] = IF i < k THEN list[i] ELSE IF i = k THEN e ELSE list[i - 1]
    <3>0. i \in Int /\ k \in Int
      BY <1>0
    <3>1. i < k => new[i] = list[i]
      BY <2>1, InsertAtElements
    <3>2. new[k] = e
      BY <2>1, InsertAtElements
    <3>3. i > k => new[i] = list[i - 1]
      BY <2>1, InsertAtElements
    <3>. QED BY <3>0, <3>1, <3>2, <3>3
  <2>. QED BY <2>2, <2>3
<1>1. CASE larger = {}
  <2>1. SortedInsert(list, e) = Append(list, e)
    BY <1>1 DEF SortedInsert
  <2>2. \A i \in 1 .. Len(list) : list[i].due <= e.due
    BY <1>0, <1>a, <1>1
  <2>3. /\ Append(list, e) \in Seq(Entry) /\ Len(Append(list, e)) = Len(list) + 1
        /\ \A i \in 1 .. Len(list) : Append(list, e)[i] = list[i]
        /\ Append(list, e)[Len(list) + 1] = e
    BY <1>0
  <2>. WITNESS Len(list) + 1 \in 1 .. Len(list) + 1
  <2>. QED BY <1>0, <2>1, <2>2, <2>3
<1>2. CASE larger # {}
  <2>1. \E k \in larger : \A i \in larger : k <= i
    <3>1. larger \subseteq Nat /\ larger # {}
      BY <1>0, <1>2
    <3>. DEFINE Below(n) == \A m \in Nat : m <= n => m \notin larger
    <3>. HIDE DEF larger
    <3>2. ASSUME NEW k \in larger, \A m \in larger : ~(m < k) PROVE \A i \in larger : k <= i
      BY <3>1, <3>2
    <3>3. \E k \in larger : \A m \in larger : ~(m < k)
      <4>1. IsWellFoundedOn(OpToRel(<, Nat), Nat)
        BY NatLessThanWellFounded
      <4>2. \E x \in larger : \A y \in larger : ~ (<<y, x>> \in OpToRel(<, Nat))
        BY <3>1, <4>1, WFMin, Zenon
      <4>3. \A x, y \in Nat : y < x => <<y, x>> \in OpToRel(<, Nat)
        BY DEF OpToRel
      <4>. QED BY <3>1, <4>2, <4>3, Zenon
    <3>. QED BY <3>2, <3>3
  <2>2. /\ Min(larger) \in larger
        /\ \A i \in larger : Min(larger) <= i
    BY <2>1 DEF Min
  <2>3. PICK k \in larger : k = Min(larger) /\ \A i \in larger : k <= i
    BY <2>2
  <2>4. SortedInsert(list, e) = InsertAt(list, k, e)
    BY <1>2, <2>3 DEF SortedInsert
  <2>5. k \in 1 .. Len(list) /\ e.due < list[k].due
    BY <1>0, <2>3
  <2>6. \A i \in 1 .. Len(list) : i < k => list[i].due <= e.due
    <3>. SUFFICES ASSUME NEW i \in 1 .. Len(list), i < k PROVE list[i].due <= e.due
      OBVIOUS
    <3>1. i \notin larger
      <4>1. i \in Int /\ k \in Int /\ ~(k <= i)
        BY <1>0, <2>5
      <4>. HIDE DEF larger
      <4>. QED BY <2>3, <4>1, Zenon
    <3>2. ~(e.due < list[i].due)
      BY <1>0, <3>1
    <3>. QED BY <1>0, <1>a, <3>2
  <2>7. \A i \in 1 .. Len(list) : i >= k => e.due < list[i].due
    <3>. SUFFICES ASSUME NEW i \in 1 .. Len(list), i >= k PROVE e.due < list[i].due
      OBVIOUS
    <3>1. list[k].due <= list[i].due
      BY <1>0, <2>5
    <3>. QED BY <1>0, <1>a, <2>5, <3>1
  <2>8. /\ InsertAt(list, k, e) \in Seq(Entry) /\ Len(InsertAt(list, k, e)) = Len(list) + 1
        /\ \A i \in 1 .. Len(list) + 1 :
             InsertAt(list, k, e)[i] = IF i < k THEN list[i] ELSE IF i = k THEN e ELSE list[i - 1]
    BY <1>0, <1>b, <2>5
  <2>9. k \in 1 .. Len(list) + 1
    BY <1>0, <2>5
  <2>. QED BY <2>4, <2>6, <2>7, <2>8, <2>9, Zenon
<1>. QED BY <1>1, <1>2

\* SortedInsert keeps the list sorted and adds the entry and nothing else.
LEMMA InsertLemma ==
    ASSUME NEW list, PendingList(list), NEW e \in Entry, ~HasType(list, e.type)
    PROVE  /\ PendingList(SortedInsert(list, e))
           /\ Len(SortedInsert(list, e)) = Len(list) + 1
           /\ \A T : HasType(SortedInsert(list, e), T) <=> HasType(list, T) \/ T = e.type
           /\ \A i \in DOMAIN SortedInsert(list, e) :
                SortedInsert(list, e)[i] = e \/ On(SortedInsert(list, e)[i], list)
<1>. DEFINE new == SortedInsert(list, e)
<1>0. /\ list \in Seq(Entry) /\ Len(list) \in Nat /\ DOMAIN list = 1 .. Len(list)
      /\ \A i \in 1 .. Len(list) : list[i] \in Entry /\ list[i].due \in Int
      /\ \A i, j \in 1 .. Len(list) : i <= j => list[i].due <= list[j].due
      /\ \A i, j \in 1 .. Len(list) : list[i].type = list[j].type => i = j
  BY ListTypes
<1>a. e.due \in Int
  BY DEF Entry
<1>b. \A i \in 1 .. Len(list) : list[i].type # e.type
  BY <1>0 DEF HasType
<1>1. PICK k \in 1 .. Len(list) + 1 :
             /\ new \in Seq(Entry)
             /\ Len(new) = Len(list) + 1
             /\ \A i \in 1 .. Len(list) + 1 :
                  new[i] = IF i < k THEN list[i] ELSE IF i = k THEN e ELSE list[i - 1]
             /\ \A i \in 1 .. Len(list) : i < k => list[i].due <= e.due
             /\ \A i \in 1 .. Len(list) : i >= k => e.due < list[i].due
  BY InsertPlace
<1>. HIDE DEF new
<1>2. DOMAIN new = 1 .. Len(list) + 1
  BY <1>1
<1>. DEFINE old(i) == IF i < k THEN i ELSE i - 1
<1>3. \A i \in 1 .. Len(list) + 1 : i # k =>
        old(i) \in 1 .. Len(list) /\ new[i] = list[old(i)]
  BY <1>0, <1>1
<1>4. new[k] = e
  BY <1>0, <1>1
<1>5. SortedByDue(new)
  <2>. SUFFICES ASSUME NEW i \in 1 .. Len(list) + 1, NEW j \in 1 .. Len(list) + 1, i <= j
                PROVE  new[i].due <= new[j].due
    BY <1>2 DEF SortedByDue
  <2>1. CASE i = k /\ j = k
    BY <1>a, <1>4, <2>1
  <2>2. CASE i = k /\ j # k
    <3>1. old(j) \in 1 .. Len(list) /\ new[j] = list[old(j)] /\ old(j) >= k
      BY <1>0, <1>3, <2>2
    <3>2. e.due < list[old(j)].due
      <4>. HIDE DEF old
      <4>. QED BY <1>1, <3>1
    <3>. QED BY <1>0, <1>a, <1>4, <2>2, <3>1, <3>2
  <2>3. CASE i # k /\ j = k
    <3>1. old(i) \in 1 .. Len(list) /\ new[i] = list[old(i)] /\ old(i) < k
      BY <1>0, <1>3, <2>3
    <3>2. list[old(i)].due <= e.due
      <4>. HIDE DEF old
      <4>. QED BY <1>1, <3>1
    <3>. QED BY <1>4, <2>3, <3>1, <3>2
  <2>4. CASE i # k /\ j # k
    <3>1. /\ old(i) \in 1 .. Len(list) /\ new[i] = list[old(i)]
          /\ old(j) \in 1 .. Len(list) /\ new[j] = list[old(j)]
          /\ old(i) <= old(j)
      BY <1>0, <1>3, <2>4
    <3>. HIDE DEF old
    <3>. QED BY <1>0, <3>1
  <2>. QED BY <2>1, <2>2, <2>3, <2>4
<1>6. OneOfEach(new)
  <2>. SUFFICES ASSUME NEW i \in 1 .. Len(list) + 1, NEW j \in 1 .. Len(list) + 1,
                       new[i].type = new[j].type
                PROVE  i = j
    BY <1>2 DEF OneOfEach
  <2>1. CASE i = k \/ j = k
    <3>1. \A n \in 1 .. Len(list) + 1 : n # k => new[n].type # e.type
      BY <1>b, <1>3
    <3>. QED BY <1>4, <2>1, <3>1
  <2>2. CASE i # k /\ j # k
    <3>1. /\ old(i) \in 1 .. Len(list) /\ new[i] = list[old(i)]
          /\ old(j) \in 1 .. Len(list) /\ new[j] = list[old(j)]
      BY <1>3, <2>2
    <3>2. old(i) = old(j)
      <4>. HIDE DEF old
      <4>. QED BY <1>0, <3>1
    <3>. QED BY <2>2, <3>2
  <2>. QED BY <2>1, <2>2
<1>7. \A i \in 1 .. Len(list) : \E j \in 1 .. Len(list) + 1 : new[j] = list[i]
  <2>. SUFFICES ASSUME NEW i \in 1 .. Len(list)
                PROVE  \E j \in 1 .. Len(list) + 1 : new[j] = list[i]
    OBVIOUS
  <2>1. CASE i < k
    BY <1>0, <1>1, <2>1
  <2>2. CASE ~(i < k)
    <3>1. i + 1 \in 1 .. Len(list) + 1 /\ i + 1 # k /\ ~(i + 1 < k) /\ (i + 1) - 1 = i
      BY <1>0, <2>2
    <3>. QED BY <1>1, <3>1
  <2>. QED BY <2>1, <2>2
<1>8. ASSUME NEW T PROVE HasType(new, T) <=> HasType(list, T) \/ T = e.type
  <2>1. HasType(new, T) => HasType(list, T) \/ T = e.type
    BY <1>0, <1>2, <1>3, <1>4 DEF HasType
  <2>2. HasType(list, T) => HasType(new, T)
    BY <1>0, <1>2, <1>7 DEF HasType
  <2>3. T = e.type => HasType(new, T)
    BY <1>2, <1>4 DEF HasType
  <2>. QED BY <2>1, <2>2, <2>3
<1>9. \A i \in DOMAIN new : new[i] = e \/ On(new[i], list)
  BY <1>0, <1>2, <1>3, <1>4 DEF On
<1>10. PendingList(new)
  BY <1>1, <1>5, <1>6 DEF PendingList
<1>. QED BY <1>1, <1>8, <1>9, <1>10 DEF new

\* List::SortedRemove takes the first entry off, the earliest of all.
LEMMA RemoveLemma ==
    ASSUME NEW list, PendingList(list), list # << >>
    PROVE  /\ Head(list) \in Entry
           /\ PendingList(Tail(list))
           /\ Len(Tail(list)) = Len(list) - 1
           /\ \A T : HasType(list, T) <=> HasType(Tail(list), T) \/ T = Head(list).type
           /\ ~HasType(Tail(list), Head(list).type)
           /\ \A x : On(x, Tail(list)) => On(x, list)
           /\ On(Head(list), list)
           /\ \A i \in DOMAIN list : Head(list).due <= list[i].due
<1>. DEFINE rest == Tail(list)
<1>0. /\ list \in Seq(Entry) /\ Len(list) \in Nat /\ DOMAIN list = 1 .. Len(list)
      /\ \A i \in 1 .. Len(list) : list[i] \in Entry /\ list[i].due \in Int
      /\ \A i, j \in 1 .. Len(list) : i <= j => list[i].due <= list[j].due
      /\ \A i, j \in 1 .. Len(list) : list[i].type = list[j].type => i = j
  BY ListTypes
<1>1. Len(list) >= 1 /\ Head(list) = list[1] /\ 1 \in 1 .. Len(list)
  BY <1>0
<1>2. /\ rest \in Seq(Entry) /\ Len(rest) = Len(list) - 1 /\ DOMAIN rest = 1 .. Len(list) - 1
      /\ \A i \in 1 .. Len(list) - 1 : rest[i] = list[i + 1]
  BY <1>0, <1>1
<1>. HIDE DEF rest
<1>3. \A i \in 1 .. Len(list) - 1 : i + 1 \in 1 .. Len(list) /\ i + 1 # 1
  BY <1>0
<1>4. SortedByDue(rest)
  <2>. SUFFICES ASSUME NEW i \in 1 .. Len(list) - 1, NEW j \in 1 .. Len(list) - 1, i <= j
                PROVE  rest[i].due <= rest[j].due
    BY <1>2 DEF SortedByDue
  <2>1. i + 1 \in 1 .. Len(list) /\ j + 1 \in 1 .. Len(list) /\ i + 1 <= j + 1
    BY <1>0
  <2>. QED BY <1>0, <1>2, <2>1
<1>5. OneOfEach(rest)
  <2>. SUFFICES ASSUME NEW i \in 1 .. Len(list) - 1, NEW j \in 1 .. Len(list) - 1,
                       rest[i].type = rest[j].type
                PROVE  i = j
    BY <1>2 DEF OneOfEach
  <2>1. i + 1 = j + 1
    BY <1>0, <1>2, <1>3
  <2>. QED BY <2>1
<1>6. \A j \in 1 .. Len(list) : j = 1 \/ \E i \in 1 .. Len(list) - 1 : rest[i] = list[j]
  <2>. SUFFICES ASSUME NEW j \in 1 .. Len(list), j # 1
                PROVE  \E i \in 1 .. Len(list) - 1 : rest[i] = list[j]
    OBVIOUS
  <2>1. j - 1 \in 1 .. Len(list) - 1 /\ (j - 1) + 1 = j
    BY <1>0
  <2>. QED BY <1>2, <2>1
<1>7. ASSUME NEW T PROVE HasType(list, T) <=> HasType(rest, T) \/ T = Head(list).type
  <2>1. HasType(list, T) => HasType(rest, T) \/ T = Head(list).type
    <3>. SUFFICES ASSUME NEW j \in 1 .. Len(list), list[j].type = T, j # 1
                  PROVE  \E i \in 1 .. Len(list) - 1 : rest[i].type = T
      BY <1>0, <1>1, <1>2 DEF HasType
    <3>. QED BY <1>6
  <2>2. HasType(rest, T) => HasType(list, T)
    BY <1>0, <1>2, <1>3 DEF HasType
  <2>3. T = Head(list).type => HasType(list, T)
    BY <1>0, <1>1 DEF HasType
  <2>. QED BY <2>1, <2>2, <2>3
<1>8. ~HasType(rest, Head(list).type)
  BY <1>0, <1>1, <1>2, <1>3 DEF HasType
<1>9. \A x : On(x, rest) => On(x, list)
  BY <1>0, <1>2, <1>3 DEF On
<1>10. On(Head(list), list)
  BY <1>0, <1>1 DEF On
<1>11. \A i \in DOMAIN list : Head(list).due <= list[i].due
  BY <1>0, <1>1
<1>12. PendingList(rest)
  BY <1>2, <1>4, <1>5 DEF PendingList
<1>13. Head(list) \in Entry
  BY <1>0, <1>1
<1>. QED BY <1>2, <1>7, <1>8, <1>9, <1>10, <1>11, <1>12, <1>13 DEF rest

\* The clock advances for all entries alike.
LEMMA AdvanceLemma ==
    ASSUME NEW list, PendingList(list), NEW n \in Nat
    PROVE  /\ PendingList(Advance(list, n))
           /\ Len(Advance(list, n)) = Len(list)
           /\ \A T : HasType(Advance(list, n), T) <=> HasType(list, T)
<1>. DEFINE new == Advance(list, n)
<1>0. /\ list \in Seq(Entry) /\ Len(list) \in Nat /\ DOMAIN list = 1 .. Len(list)
      /\ \A i \in 1 .. Len(list) : list[i] \in Entry /\ list[i].due \in Int
      /\ \A i, j \in 1 .. Len(list) : i <= j => list[i].due <= list[j].due
      /\ \A i, j \in 1 .. Len(list) : list[i].type = list[j].type => i = j
  BY ListTypes
<1>1. ASSUME NEW e \in Entry
      PROVE  /\ [e EXCEPT !.due = @ - n] \in Entry
             /\ [e EXCEPT !.due = @ - n].due = e.due - n
             /\ [e EXCEPT !.due = @ - n].type = e.type
  BY DEF Entry
<1>2. new = [i \in 1 .. Len(list) |-> [list[i] EXCEPT !.due = @ - n]]
  BY <1>0 DEF Advance
<1>3. \A i \in 1 .. Len(list) :
        new[i] \in Entry /\ new[i].due = list[i].due - n /\ new[i].type = list[i].type
  BY <1>0, <1>1, <1>2
<1>4. new \in [1 .. Len(list) -> Entry]
  BY <1>2, <1>3
<1>. HIDE DEF new
<1>5. new \in Seq(Entry) /\ Len(new) = Len(list) /\ DOMAIN new = 1 .. Len(list)
  BY <1>0, <1>4
<1>6. SortedByDue(new)
  BY <1>0, <1>3, <1>5 DEF SortedByDue
<1>7. OneOfEach(new)
  BY <1>0, <1>3, <1>5 DEF OneOfEach
<1>8. \A T : HasType(new, T) <=> HasType(list, T)
  BY <1>0, <1>3, <1>5 DEF HasType
<1>. QED BY <1>5, <1>6, <1>7, <1>8 DEF new, PendingList

\* CheckIfDue putting back the entry it took off keeps what the list holds.
LEMMA PutBackLemma ==
    ASSUME NEW list, PendingList(list)
    PROVE  /\ PendingList(PutBack(list))
           /\ Len(PutBack(list)) = Len(list)
           /\ \A T : HasType(PutBack(list), T) <=> HasType(list, T)
           /\ \A i \in DOMAIN PutBack(list) : On(PutBack(list)[i], list)
<1>1. CASE list = << >>
  BY <1>1 DEF PutBack, On
<1>2. CASE list # << >>
  <2>. DEFINE new == SortedInsert(Tail(list), Head(list))
  <2>1. PutBack(list) = new
    BY <1>2 DEF PutBack
  <2>2. /\ Head(list) \in Entry
        /\ PendingList(Tail(list))
        /\ Len(Tail(list)) = Len(list) - 1
        /\ \A T : HasType(list, T) <=> HasType(Tail(list), T) \/ T = Head(list).type
        /\ ~HasType(Tail(list), Head(list).type)
        /\ \A x : On(x, Tail(list)) => On(x, list)
        /\ On(Head(list), list)
    BY <1>2, RemoveLemma
  <2>3. /\ PendingList(new)
        /\ Len(new) = Len(Tail(list)) + 1
        /\ \A T : HasType(new, T) <=> HasType(Tail(list), T) \/ T = Head(list).type
        /\ \A i \in DOMAIN new : new[i] = Head(list) \/ On(new[i], Tail(list))
    BY <2>2, InsertLemma
  <2>4. Len(list) \in Nat
    BY ListTypes
  <2>. HIDE DEF new
  <2>5. Len(new) = Len(list)
    BY <2>2, <2>3, <2>4
  <2>6. \A i \in DOMAIN new : On(new[i], list)
    BY <2>2, <2>3
  <2>7. \A T : HasType(new, T) <=> HasType(list, T)
    BY <2>2, <2>3
  <2>. QED BY <2>1, <2>3, <2>5, <2>6, <2>7
<1>. QED BY <1>1, <1>2

-----------------------------------------------------------------------------
(* The parts of the invariant, one by one                                  *)

\* A handler leaves the list in order: the timer's puts its entry back, a device's
\* puts it back or is counted off.
LEMMA FireLemma ==
    ASSUME NEW type \in Device \cup {TimerInt}, NEW rest, PendingList(rest),
           ~HasType(rest, type),
           HasType(rest, TimerInt) \/ type = TimerInt <=> UseTimer,
           pending = Len(rest) + 1 - TimerCount,
           Fire(type, rest)
    PROVE  QueueExact'
<1>0. Len(rest) \in Nat /\ TimerCount \in {0, 1}
  BY ListTypes DEF TimerCount
<1>1. ASSUME NEW d \in 1 .. MaxDelay, queue' = SortedInsert(rest, [type |-> type, due |-> d]),
             pending' = pending
      PROVE  QueueExact'
  <2>. DEFINE e == [type |-> type, due |-> d]
  <2>1. d \in Int
    OBVIOUS
  <2>2. e \in Entry /\ e.type = type
    BY <2>1 DEF Entry
  <2>. HIDE DEF e
  <2>3. /\ PendingList(queue') /\ Len(queue') = Len(rest) + 1
        /\ \A T : HasType(queue', T) <=> HasType(rest, T) \/ T = type
    BY <1>1, <2>2, InsertLemma DEF e
  <2>. QED BY <1>0, <1>1, <2>3 DEF QueueExact, TimerCount
<1>2. CASE type = TimerInt
  BY <1>1, <1>2 DEF Fire, kernelVars
<1>3. CASE type # TimerInt
  <2>1. CASE pending' = pending - 1 /\ queue' = rest
    BY <1>0, <1>3, <2>1 DEF QueueExact, TimerCount
  <2>. QED BY <1>1, <1>3, <2>1 DEF Fire
<1>. QED BY <1>2, <1>3

\* The list stays sorted, with its one timer, and Kernel's count stays right.
LEMMA QueueStep ==
    ASSUME TickInv, [InterruptNext]_interruptVars
    PROVE  QueueExact'
<1>0. /\ PendingList(queue) /\ (HasType(queue, TimerInt) <=> UseTimer)
      /\ pending = Len(queue) - TimerCount /\ QueueExact
      /\ Len(queue) \in Nat
  BY ListTypes DEF TickInv, QueueExact
<1>1. ASSUME UNCHANGED <<queue, pending>> PROVE QueueExact'
  BY <1>0, <1>1 DEF QueueExact, TimerCount
<1>2. ASSUME NEW list, PendingList(list), Len(list) = Len(queue),
             \A T : HasType(list, T) <=> HasType(queue, T),
             NEW n \in Nat, queue' = Advance(list, n), pending' = pending
      PROVE  QueueExact'
  <2>1. /\ PendingList(queue') /\ Len(queue') = Len(list)
        /\ \A T : HasType(queue', T) <=> HasType(list, T)
    BY <1>2, AdvanceLemma
  <2>. QED BY <1>0, <1>2, <2>1 DEF QueueExact, TimerCount
<1>3. ASSUME NEW list, PendingList(list), Len(list) = Len(queue),
             \A T : HasType(list, T) <=> HasType(queue, T),
             queue' = list, pending' = pending
      PROVE  QueueExact'
  BY <1>0, <1>3 DEF QueueExact, TimerCount
<1>4. ASSUME NEW list, PendingList(list), Len(list) = Len(queue),
             \A T : HasType(list, T) <=> HasType(queue, T),
             Resume(list), pending' = pending
      PROVE  QueueExact'
  BY <1>2, <1>3, <1>4, TickAssumption DEF Resume, StartTick
<1>5. /\ PendingList(PutBack(queue)) /\ Len(PutBack(queue)) = Len(queue)
      /\ \A T : HasType(PutBack(queue), T) <=> HasType(queue, T)
  BY <1>0, PutBackLemma
<1>6. ASSUME queue # << >>
      PROVE  /\ Head(queue).type \in Device \cup {TimerInt}
             /\ PendingList(Tail(queue))
             /\ Len(Tail(queue)) = Len(queue) - 1
             /\ ~HasType(Tail(queue), Head(queue).type)
             /\ HasType(Tail(queue), TimerInt) \/ Head(queue).type = TimerInt <=> UseTimer
             /\ pending = Len(Tail(queue)) + 1 - TimerCount
             /\ Head(queue).due \in Int
  <2>1. /\ Head(queue) \in Entry
        /\ PendingList(Tail(queue))
        /\ Len(Tail(queue)) = Len(queue) - 1
        /\ \A T : HasType(queue, T) <=> HasType(Tail(queue), T) \/ T = Head(queue).type
        /\ ~HasType(Tail(queue), Head(queue).type)
    BY <1>0, <1>6, RemoveLemma
  <2>2. Head(queue).type \in Device \cup {TimerInt} /\ Head(queue).due \in Int
    BY <2>1 DEF Entry
  <2>3. pending = Len(Tail(queue)) + 1 - TimerCount
    BY <1>0, <2>1 DEF TimerCount
  <2>. QED BY <1>0, <2>1, <2>2, <2>3
<1>7. CASE EnterUserCode \/ RaiseException \/ PlainCall \/ Disable \/ CallHalt \/ IdleStops \/ Stopped
           \/ UNCHANGED interruptVars
  <2>1. UNCHANGED <<queue, pending>>
    BY <1>7 DEF EnterUserCode, RaiseException, PlainCall, Disable, CallHalt, IdleStops, Stopped,
                Create, Fork, WakeUp, MakeReady, SetLevel, Halt, Terminated,
                interruptVars, tickVars, kernelVars, cpuVars, threadVars
  <2>. QED BY <1>1, <2>1
<1>8. CASE Instruction \/ ReturnToUser \/ EnableInterrupts
  <2>1. pending' = pending /\ \E n \in Nat : queue' = Advance(queue, n)
    BY <1>8, TickAssumption
    DEF Instruction, ReturnToUser, EnableInterrupts, StartTick, SetLevel, kernelVars
  <2>. QED BY <1>0, <1>2, <2>1
<1>9. CASE CallYield \/ CallSleep \/ IdleRuns
  <2>1. pending' = pending /\ Resume(queue)
    BY <1>9 DEF CallYield, CallSleep, IdleRuns, Yield, Sleep, Block, Finish, IdleDispatch, kernelVars
  <2>. QED BY <1>0, <1>4, <2>1
<1>10. CASE TickYields
  <2>1. pending' = pending /\ Resume(PutBack(queue))
    BY <1>10 DEF TickYields, Yield, kernelVars
  <2>. QED BY <1>4, <1>5, <2>1
<1>11. CASE TickReturns \/ IdleReturns
  <2>1. pending' = pending /\ queue' = PutBack(queue)
    BY <1>11 DEF TickReturns, IdleReturns, kernelVars
  <2>. QED BY <1>3, <1>5, <2>1
<1>12. ASSUME NEW d \in Device, ScheduleDevice(d) PROVE QueueExact'
  <2>1. PICK fromNow \in 1 .. MaxDelay : queue' = SortedInsert(queue, [type |-> d, due |-> fromNow])
    BY <1>12 DEF ScheduleDevice
  <2>2. /\ [type |-> d, due |-> fromNow] \in Entry
        /\ [type |-> d, due |-> fromNow].type = d
    BY DEF Entry
  <2>3. ~HasType(queue, d)
    BY <1>12 DEF ScheduleDevice, HasType
  <2>4. /\ PendingList(queue') /\ Len(queue') = Len(queue) + 1
        /\ \A T : HasType(queue', T) <=> HasType(queue, T) \/ T = d
    BY <1>0, <2>1, <2>2, <2>3, InsertLemma
  <2>5. pending' = pending + 1 /\ d # TimerInt
    BY <1>12, DeviceAssumption DEF ScheduleDevice, Schedule
  <2>. QED BY <1>0, <2>4, <2>5 DEF QueueExact, TimerCount
<1>13. CASE TickFires \/ IdleFires
  <2>1. queue # << >> /\ Fire(Head(queue).type, Tail(queue))
    BY <1>13 DEF TickFires, IdleFires, HeadIsDue
  <2>. QED BY <1>6, <2>1, FireLemma
<1>14. CASE IdleAdvances
  <2>. DEFINE late == IF Head(queue).due > 0 THEN Head(queue).due ELSE 0
              rest == Advance(Tail(queue), late)
  <2>1. queue # << >> /\ Fire(Head(queue).type, rest)
    BY <1>14 DEF IdleAdvances
  <2>2. late \in Nat
    BY <1>6, <2>1
  <2>. HIDE DEF late
  <2>3. /\ PendingList(rest) /\ Len(rest) = Len(Tail(queue))
        /\ \A T : HasType(rest, T) <=> HasType(Tail(queue), T)
    BY <1>6, <2>1, <2>2, AdvanceLemma
  <2>. HIDE DEF rest
  <2>4. /\ Head(queue).type \in Device \cup {TimerInt}
        /\ ~HasType(rest, Head(queue).type)
        /\ HasType(rest, TimerInt) \/ Head(queue).type = TimerInt <=> UseTimer
        /\ pending = Len(rest) + 1 - TimerCount
    BY <1>6, <2>1, <2>3
  <2>. QED BY <2>1, <2>3, <2>4, FireLemma
<1>. QED BY <1>7, <1>8, <1>9, <1>10, <1>11, <1>12, <1>13, <1>14 DEF InterruptNext

\* Each step performs one operation of the kernel, or none.  An idle machine
\* stops when nothing but the timer is left on the list, which is when Kernel's
\* count is 0.
LEMMA TickIsKernelStep ==
    ASSUME TickInv, [InterruptNext]_interruptVars
    PROVE  [KernelNext]_kernelVars
<1>1. CASE EnterUserCode \/ Instruction \/ RaiseException \/ ReturnToUser \/ TickReturns \/ IdleReturns
           \/ UNCHANGED interruptVars
  BY <1>1 DEF EnterUserCode, Instruction, RaiseException, ReturnToUser, TickReturns, IdleReturns,
              interruptVars
<1>2. CASE PlainCall \/ Disable \/ EnableInterrupts
  BY <1>2 DEF PlainCall, Disable, EnableInterrupts, KernelNext, Level
<1>3. CASE CallYield \/ CallSleep \/ CallHalt \/ TickYields \/ IdleRuns \/ Stopped
  BY <1>3 DEF CallYield, CallSleep, CallHalt, TickYields, IdleRuns, Stopped, KernelNext
<1>4. CASE \E d \in Device : ScheduleDevice(d)
  BY <1>4 DEF ScheduleDevice, KernelNext
<1>5. ASSUME NEW type, NEW rest, Fire(type, rest) PROVE [KernelNext]_kernelVars
  BY <1>5 DEF Fire, KernelNext
<1>6. CASE TickFires \/ IdleAdvances \/ IdleFires
  BY <1>5, <1>6 DEF TickFires, IdleAdvances, IdleFires
<1>7. CASE IdleStops
  <2>0. /\ PendingList(queue) /\ (HasType(queue, TimerInt) <=> UseTimer)
        /\ pending = Len(queue) - TimerCount
    BY DEF TickInv, QueueExact
  <2>1. ASSUME queue = << >> PROVE pending = 0
    <3>1. ~UseTimer /\ Len(queue) = 0
      BY <2>0, <2>1 DEF HasType
    <3>2. TimerCount = 0
      BY <3>1 DEF TimerCount
    <3>. QED BY <2>0, <3>1, <3>2
  <2>2. ASSUME LoneTimer PROVE pending = 0
    <3>1. /\ queue # << >> /\ Head(queue).type = TimerInt /\ Len(Tail(queue)) = 0
      BY <2>2 DEF LoneTimer
    <3>2. Len(queue) = 1 /\ HasType(queue, TimerInt)
      <4>1. /\ Len(Tail(queue)) = Len(queue) - 1 /\ HasType(queue, Head(queue).type)
        BY <2>0, <3>1, RemoveLemma
      <4>2. Len(queue) \in Nat
        BY <2>0, ListTypes
      <4>. QED BY <3>1, <4>1, <4>2
    <3>. QED BY <2>0, <3>2 DEF TimerCount
  <2>3. pending = 0
    BY <1>7, <2>1, <2>2 DEF IdleStops
  <2>4. IdleHalt
    BY <1>7, <2>3 DEF IdleStops, AtIdle, IdleHalt
  <2>. QED BY <2>4 DEF KernelNext
<1>. QED BY <1>1, <1>2, <1>3, <1>4, <1>6, <1>7 DEF InterruptNext

\* Nothing is late when a thread goes on with interrupts on.
LEMMA DueStep ==
    ASSUME TickInv, [InterruptNext]_interruptVars
    PROVE  NothingOverdue'
<1>0. /\ NothingOverdue /\ PointsMatch /\ PendingList(queue)
      /\ Len(queue) \in Nat /\ DOMAIN queue = 1 .. Len(queue)
      /\ \A i \in 1 .. Len(queue) : queue[i] \in Entry /\ queue[i].due \in Int
  BY ListTypes DEF TickInv, QueueExact
<1>1. ASSUME ~Running' PROVE NothingOverdue'
  BY <1>1 DEF NothingOverdue
<1>2. ASSUME level' # "IntOn" PROVE NothingOverdue'
  BY <1>2 DEF NothingOverdue
<1>3. ASSUME Running, level = "IntOn", UNCHANGED queue PROVE NothingOverdue'
  BY <1>0, <1>3 DEF NothingOverdue
<1>4. ASSUME NEW list, Resume(list) PROVE NothingOverdue'
  BY <1>1, <1>2, <1>4 DEF Resume, StartTick, Running
<1>5. CASE Instruction \/ ReturnToUser \/ EnableInterrupts
  BY <1>1, <1>5 DEF Instruction, ReturnToUser, EnableInterrupts, StartTick, Running
<1>6. CASE CallYield \/ CallSleep \/ TickYields \/ IdleRuns
  BY <1>4, <1>6 DEF CallYield, CallSleep, TickYields, IdleRuns
<1>7. CASE TickFires \/ IdleAdvances \/ IdleFires
  <2>1. point' \in {"tick", "idle"}
    BY <1>7 DEF TickFires, IdleAdvances, IdleFires
  <2>. QED BY <1>1, <2>1 DEF Running
<1>8. CASE IdleReturns \/ IdleStops \/ Stopped \/ CallHalt
  <2>1. mode' # "SystemMode"
    BY <1>0, <1>8 DEF IdleReturns, IdleStops, Stopped, CallHalt, Halt, AtIdle, Terminated,
                      PointsMatch, kernelVars, cpuVars
  <2>. QED BY <1>1, <2>1 DEF Running, Executing
<1>9. CASE EnterUserCode \/ RaiseException \/ PlainCall \/ Disable \/ UNCHANGED interruptVars
  <2>1. UNCHANGED queue /\ (Running' /\ level' = "IntOn" => Running /\ level = "IntOn")
    BY <1>9 DEF EnterUserCode, RaiseException, PlainCall, Disable, SetLevel, Create, Fork, WakeUp, MakeReady,
                Running, InKernel, Executing, interruptVars, tickVars, kernelVars, cpuVars
  <2>. QED BY <1>1, <1>2, <1>3, <2>1
<1>10. ASSUME NEW d \in Device, ScheduleDevice(d) PROVE NothingOverdue'
  <2>1. PICK fromNow \in 1 .. MaxDelay : queue' = SortedInsert(queue, [type |-> d, due |-> fromNow])
    BY <1>10 DEF ScheduleDevice
  <2>. DEFINE e == [type |-> d, due |-> fromNow]
  <2>2. e \in Entry /\ e.type = d /\ e.due > 0
    BY DEF Entry
  <2>3. ~HasType(queue, d)
    BY <1>10 DEF ScheduleDevice, HasType
  <2>4. \A i \in DOMAIN queue' : queue'[i] = e \/ On(queue'[i], queue)
    <3>. HIDE DEF e
    <3>1. queue' = SortedInsert(queue, e)
      BY <2>1 DEF e
    <3>. QED BY <1>0, <2>2, <2>3, <3>1, InsertLemma
  <2>. HIDE DEF e
  <2>5. UNCHANGED <<level, point>> /\ Running
    BY <1>10 DEF ScheduleDevice, Schedule, InKernel, cpuVars
  <2>6. level = "IntOn" => \A i \in DOMAIN queue : queue[i].due > 0
    BY <1>0, <2>5 DEF NothingOverdue
  <2>7. level = "IntOn" => \A x : On(x, queue) => x.due > 0
    BY <2>6 DEF On
  <2>8. level = "IntOn" => \A i \in DOMAIN queue' : queue'[i].due > 0
    BY <2>2, <2>4, <2>7
  <2>. QED BY <2>5, <2>8 DEF NothingOverdue
<1>11. CASE TickReturns
  <2>1. ~HeadIsDue /\ queue' = PutBack(queue)
    BY <1>11 DEF TickReturns
  <2>2. \A i \in DOMAIN queue : queue[i].due > 0
    <3>1. CASE queue = << >>
      BY <3>1
    <3>2. CASE queue # << >>
      <4>1. Head(queue) \in Entry /\ \A i \in DOMAIN queue : Head(queue).due <= queue[i].due
        BY <1>0, <3>2, RemoveLemma
      <4>2. Head(queue).due \in Int
        BY <4>1 DEF Entry
      <4>3. Head(queue).due > 0
        BY <2>1, <3>2, <4>2 DEF HeadIsDue
      <4>. QED BY <1>0, <4>1, <4>2, <4>3
    <3>. QED BY <3>1, <3>2
  <2>3. \A i \in DOMAIN queue' : On(queue'[i], queue)
    BY <1>0, <2>1, PutBackLemma
  <2>4. \A x : On(x, queue) => x.due > 0
    BY <2>2 DEF On
  <2>. QED BY <2>3, <2>4 DEF NothingOverdue
<1>. QED BY <1>5, <1>6, <1>7, <1>8, <1>9, <1>10, <1>11 DEF InterruptNext

\* Steps that leave the CPU with its thread: the saved status stays right for
\* everybody, if it is right for the running thread.
LEMMA SameThread ==
    ASSUME TickInv, [KernelNext]_kernelVars, NEW x \in Thread, x = currentThread,
           currentThread' = x,
           mode' = "IdleMode" => mode = "IdleMode",
           mode = "IdleMode" => UNCHANGED <<saved, place>>,
           \A t \in Thread : t # x => saved'[t] = saved[t] /\ place'[t] = place[t],
           \A t \in Thread : \/ resumeLevel'[t] = resumeLevel[t]
                             \/ status[t] = "JUST_CREATED" /\ resumeLevel'[t] = "IntOn",
           point' = "tick" => saved'[x] = StatusOf(x)',
           Executing \/ UNCHANGED <<saved, place>>
    PROVE  SavedMatches'
<1>0. SavedMatches /\ KernelInv
  BY DEF TickInv
<1>1. Executing => status[x] = "RUNNING"
  BY <1>0 DEF KernelInv, OneRunningThread
<1>2. ASSUME NEW t \in Thread, status'[t] \in {"UNALLOCATED", "JUST_CREATED"}
      PROVE  place'[t] = "kernel" /\ saved'[t] = "SystemMode"
  <2>1. status[t] \in {"UNALLOCATED", "JUST_CREATED"}
    BY <1>0, <1>2, StaysForked
  <2>2. place[t] = "kernel" /\ saved[t] = "SystemMode"
    BY <1>0, <2>1 DEF SavedMatches
  <2>. QED BY <1>1, <2>1, <2>2
<1>3. ASSUME NEW t \in Thread, OffCPU(t)' PROVE OffCPU(t) /\ saved'[t] = saved[t] /\ place'[t] = place[t]
  BY <1>3 DEF OffCPU
<1>4. ASSUME NEW t \in Thread, OffCPU(t)'
      PROVE  /\ resumeLevel'[t] = "IntOn" => saved'[t] = StatusOf(t)'
             /\ place'[t] = "user" => resumeLevel'[t] = "IntOn"
  <2>1. CASE resumeLevel'[t] = resumeLevel[t]
    BY <1>0, <1>3, <1>4, <2>1 DEF SavedMatches, StatusOf
  <2>2. CASE status[t] = "JUST_CREATED" /\ resumeLevel'[t] = "IntOn"
    BY <1>0, <1>3, <1>4, <2>2 DEF SavedMatches, StatusOf
  <2>. QED BY <2>1, <2>2
<1>. QED BY <1>2, <1>4 DEF SavedMatches

\* Steps that give the CPU away, or might: the thread that goes on finds its status.
LEMMA OtherThread ==
    ASSUME TickInv, [KernelNext]_kernelVars, NEW x \in Thread, x = currentThread,
           \/ Yield /\ saved'[x] = StatusOf(x) /\ (place[x] # "user" \/ level = "IntOn")
           \/ (Sleep \/ Finish) /\ place[x] # "user"
           \/ IdleDispatch /\ saved' = saved,
           NEW list, Resume(list),
           place' = place, yieldOnReturn' = FALSE,
           saved' \in [Thread -> {"SystemMode", "UserMode"}],
           \A t \in Thread : t # x => saved'[t] = saved[t]
    PROVE  TickTypes' /\ PointsMatch' /\ SavedMatches' /\ StatusMatchesCode'
<1>0. /\ SavedMatches /\ KernelInv /\ KernelInv' /\ StatusMatchesCode
      /\ place \in [Thread -> {"kernel", "user", "syscall"}]
  BY KernelStep DEF TickInv, TickTypes
<1>1. TickTypes'
  BY <1>0 DEF TickTypes, Resume, StartTick
<1>2. ASSUME NEW t \in Thread, status'[t] \in {"UNALLOCATED", "JUST_CREATED"}
      PROVE  place'[t] = "kernel" /\ saved'[t] = "SystemMode"
  <2>1. status[t] \in {"UNALLOCATED", "JUST_CREATED"}
    BY <1>0, <1>2, StaysForked
  <2>2. place[t] = "kernel" /\ saved[t] = "SystemMode"
    BY <1>0, <2>1 DEF SavedMatches
  <2>3. CASE t # x
    BY <2>2, <2>3
  <2>4. CASE t = x
    <3>1. Executing => status[x] = "RUNNING"
      BY <1>0 DEF KernelInv, OneRunningThread
    <3>2. ~Executing
      BY <2>1, <2>4, <3>1
    <3>3. saved' = saved
      BY <3>2 DEF Sleep, Block, Finish, Yield
    <3>. QED BY <2>2, <3>3
  <2>. QED BY <2>3, <2>4
<1>3. CASE /\ Yield /\ saved'[x] = StatusOf(x) /\ (place[x] # "user" \/ level = "IntOn")
           /\ readyList = << >>
  <2>1. UNCHANGED kernelVars /\ Executing
    BY <1>3 DEF Yield
  <2>2. /\ currentThread' = x /\ mode' = mode /\ level' = level /\ resumeLevel' = resumeLevel
        /\ mode = "SystemMode"
    BY <2>1 DEF kernelVars, cpuVars, threadVars, Executing
  <2>3. PointsMatch'
    BY <2>2 DEF PointsMatch, Resume, StartTick, Executing
  <2>4. SavedMatches'
    <3>1. ASSUME NEW t \in Thread, OffCPU(t)'
          PROVE  /\ resumeLevel'[t] = "IntOn" => saved'[t] = StatusOf(t)'
                 /\ place'[t] = "user" => resumeLevel'[t] = "IntOn"
      BY <1>0, <2>2, <3>1 DEF SavedMatches, OffCPU, StatusOf
    <3>2. saved'[x] = StatusOf(x)'
      BY <1>3 DEF StatusOf
    <3>. QED BY <1>2, <2>2, <3>1, <3>2 DEF SavedMatches
  <2>5. StatusMatchesCode'
    BY <1>3, <2>2 DEF StatusMatchesCode, Resume, StartTick, Running
  <2>. QED BY <1>1, <2>3, <2>4, <2>5
<1>4. CASE \/ /\ Yield /\ saved'[x] = StatusOf(x) /\ (place[x] # "user" \/ level = "IntOn")
              /\ readyList # << >>
           \/ (Sleep \/ Finish) /\ place[x] # "user"
           \/ IdleDispatch /\ saved' = saved
  <2>1. /\ \A t \in Thread : t # x => resumeLevel'[t] = resumeLevel[t]
        /\ IdleDispatch => resumeLevel' = resumeLevel
        /\ Sleep \/ Finish => resumeLevel'[x] = "IntOff"
        /\ Yield /\ readyList # << >> => resumeLevel'[x] = level
        /\ \/ mode' = "IdleMode" /\ currentThread' = currentThread /\ Executing
           \/ /\ currentThread' \in Thread /\ mode' = "SystemMode"
              /\ level' = resumeLevel[currentThread']
              /\ Executing => currentThread' # currentThread
    BY <1>0, <1>4, SwitchLemma
  <2>. PICK y \in Thread : y = currentThread'
    BY <1>0 DEF KernelInv, KernelTypeOK
  <2>2. mode' = "IdleMode" => level' = "IntOff"
    BY <1>0 DEF KernelInv, OneRunningThread
  <2>3. PointsMatch'
    BY <2>1, <2>2 DEF PointsMatch, Resume, StartTick, Executing
  <2>4. mode = "IdleMode" => IdleDispatch /\ saved' = saved
    BY <1>4 DEF Sleep, Block, Finish, Yield, Executing
  \* y was waiting for the CPU.
  <2>5. mode' # "IdleMode" => OffCPU(y) /\ saved'[y] = saved[y] /\ level' = resumeLevel[y]
    <3>1. mode \in {"SystemMode", "IdleMode"}
      BY <1>4 DEF Sleep, Block, Finish, Yield, IdleDispatch, Executing
    <3>. QED BY <2>1, <2>4, <3>1 DEF OffCPU, Executing
  <2>6. mode' # "IdleMode" =>
          /\ level' = "IntOn" => saved'[y] = StatusOf(y)
          /\ place[y] = "user" => level' = "IntOn"
    BY <1>0, <2>5 DEF SavedMatches
  <2>7. ASSUME NEW t \in Thread, OffCPU(t)'
        PROVE  /\ resumeLevel'[t] = "IntOn" => saved'[t] = StatusOf(t)'
               /\ place'[t] = "user" => resumeLevel'[t] = "IntOn"
    <3>0. StatusOf(t)' = StatusOf(t)
      BY DEF StatusOf
    <3>1. CASE t # x
      <4>1. OffCPU(t)
        BY <3>1 DEF OffCPU
      <4>. QED BY <1>0, <2>1, <3>0, <3>1, <4>1 DEF SavedMatches
    <3>2. CASE t = x /\ IdleDispatch /\ saved' = saved
      <4>1. OffCPU(t)
        BY <3>2 DEF OffCPU, IdleDispatch
      <4>. QED BY <1>0, <2>1, <3>0, <3>2, <4>1 DEF SavedMatches
    <3>3. CASE t = x /\ (Sleep \/ Finish) /\ place[x] # "user"
      BY <2>1, <3>3
    <3>4. CASE /\ t = x /\ Yield /\ saved'[x] = StatusOf(x) /\ (place[x] # "user" \/ level = "IntOn")
               /\ readyList # << >>
      BY <2>1, <3>0, <3>4
    <3>. QED BY <1>4, <3>1, <3>2, <3>3, <3>4
  <2>8. SavedMatches'
    <3>1. ASSUME point' = "tick" PROVE saved'[y] = StatusOf(y)'
      <4>1. level' = "IntOn"
        BY <3>1 DEF Resume
      <4>. QED BY <2>2, <2>6, <4>1 DEF StatusOf
    <3>. QED BY <1>2, <2>7, <3>1 DEF SavedMatches
  <2>9. StatusMatchesCode'
    <3>1. CASE mode' = "IdleMode"
      BY <3>1 DEF StatusMatchesCode, Running, Executing
    <3>2. CASE mode' # "IdleMode"
      BY <2>6, <3>2 DEF StatusMatchesCode, Running, Resume, StartTick
    <3>. QED BY <3>1, <3>2
  <2>. QED BY <1>1, <2>3, <2>8, <2>9
<1>. QED BY <1>3, <1>4

\* Points, saved statuses and the machine status stay in order.
LEMMA CodeStep ==
    ASSUME TickInv, [InterruptNext]_interruptVars
    PROVE  TickTypes' /\ PointsMatch' /\ SavedMatches' /\ StatusMatchesCode'
<1>. DEFINE Goal == TickTypes' /\ PointsMatch' /\ SavedMatches' /\ StatusMatchesCode'
<1>0. /\ KernelInv /\ TickTypes /\ PointsMatch /\ SavedMatches /\ StatusMatchesCode
      /\ [KernelNext]_kernelVars /\ KernelInv'
  BY TickIsKernelStep, KernelStep DEF TickInv
<1>. PICK x \in Thread : x = currentThread
  BY <1>0 DEF KernelInv, KernelTypeOK
<1>1. /\ machineStatus \in {"SystemMode", "UserMode", "IdleMode"}
      /\ yieldOnReturn \in BOOLEAN
      /\ point \in {"run", "tick", "idle"}
      /\ saved \in [Thread -> {"SystemMode", "UserMode"}]
      /\ place \in [Thread -> {"kernel", "user", "syscall"}]
      /\ StatusOf(x) \in {"SystemMode", "UserMode"}
  BY <1>0 DEF TickTypes, StatusOf
<1>2. Running => machineStatus = StatusOf(x) /\ yieldOnReturn = FALSE
  BY <1>0, <1>1 DEF StatusMatchesCode, StatusOf, PointsMatch, Running
\* User code's steps: the running thread keeps the CPU, interrupts on.
<1>3. ASSUME Running, UNCHANGED kernelVars, UNCHANGED yieldOnReturn,
             machineStatus' = StatusOf(x)',
             \/ point' = "run" /\ saved' = saved
             \/ point' = "tick" /\ saved' = [saved EXCEPT ![x] = StatusOf(x)'],
             \E p \in {"kernel", "user", "syscall"} : place' = [place EXCEPT ![x] = p],
             level = "IntOn"
      PROVE  Goal
  <2>1. /\ currentThread' = x /\ mode' = "SystemMode" /\ mode = "SystemMode" /\ level' = "IntOn"
        /\ resumeLevel' = resumeLevel
    BY <1>3 DEF Running, Executing, kernelVars, cpuVars, threadVars
  <2>2. StatusOf(x)' \in {"SystemMode", "UserMode"}
    BY DEF StatusOf
  <2>3. TickTypes'
    BY <1>1, <1>3, <2>2 DEF TickTypes
  <2>4. PointsMatch'
    BY <1>2, <1>3, <2>1 DEF PointsMatch, Executing
  <2>5. StatusMatchesCode'
    BY <1>3, <2>1 DEF StatusMatchesCode, StatusOf
  <2>6. /\ \A t \in Thread : t # x => saved'[t] = saved[t] /\ place'[t] = place[t]
        /\ point' = "tick" => saved'[x] = StatusOf(x)'
    BY <1>1, <1>3
  <2>7. SavedMatches'
    BY <1>0, <2>1, <2>6, SameThread DEF Executing
  <2>. QED BY <2>3, <2>4, <2>5, <2>7
<1>4. CASE EnterUserCode \/ RaiseException \/ Instruction \/ ReturnToUser
  <2>1. Running /\ level = "IntOn" /\ UNCHANGED kernelVars /\ UNCHANGED yieldOnReturn /\ point = "run"
    BY <1>0, <1>4 DEF EnterUserCode, RaiseException, Instruction, ReturnToUser, InKernel, Running,
                      StatusMatchesCode
  <2>2. currentThread' = x
    BY <2>1 DEF kernelVars, cpuVars
  <2>3. CASE EnterUserCode \/ RaiseException
    <3>1. point' = "run" /\ saved' = saved
      BY <2>1, <2>3 DEF EnterUserCode, RaiseException
    <3>2. \E p \in {"kernel", "user", "syscall"} : place' = [place EXCEPT ![x] = p]
      BY <2>3 DEF EnterUserCode, RaiseException
    <3>3. machineStatus' = StatusOf(x)'
      BY <1>1, <2>3 DEF EnterUserCode, RaiseException, StatusOf
    <3>4. \/ point' = "run" /\ saved' = saved
          \/ point' = "tick" /\ saved' = [saved EXCEPT ![x] = StatusOf(x)']
      BY <3>1
    <3>. QED BY <1>3, <2>1, <3>2, <3>3, <3>4
  <2>4. CASE Instruction
    <3>1. place' = place /\ place[x] = "user" /\ machineStatus' = machineStatus /\ point' = "tick"
          /\ saved' = [saved EXCEPT ![x] = machineStatus]
      BY <2>4 DEF Instruction, StartTick
    <3>2. StatusOf(x)' = StatusOf(x) /\ machineStatus = StatusOf(x)
      BY <1>2, <2>1, <3>1 DEF StatusOf
    <3>3. \E p \in {"kernel", "user", "syscall"} : place' = [place EXCEPT ![x] = p]
      BY <1>1, <3>1
    <3>4. saved' = [saved EXCEPT ![x] = StatusOf(x)'] /\ machineStatus' = StatusOf(x)'
      BY <3>1, <3>2
    <3>. QED BY <1>3, <2>1, <3>1, <3>3, <3>4
  <2>5. CASE ReturnToUser
    <3>1. /\ machineStatus' = "UserMode" /\ point' = "tick"
          /\ saved' = [saved EXCEPT ![x] = "UserMode"]
          /\ place' = [place EXCEPT ![x] = "user"]
      BY <2>5 DEF ReturnToUser, StartTick
    <3>2. StatusOf(x)' = "UserMode"
      BY <1>1, <3>1 DEF StatusOf
    <3>. QED BY <1>3, <2>1, <3>1, <3>2
  <2>. QED BY <1>4, <2>3, <2>4, <2>5
\* The other steps of the kernel that keep the CPU, and the machine's.
<1>5. ASSUME UNCHANGED <<saved, place, yieldOnReturn, point, machineStatus>>,
             UNCHANGED <<currentThread, resumeLevel>>,
             mode' \in {mode, "Halted"},
             level' = level \/ (InKernel /\ level' \in Level),
             mode' = "Halted" => point = "run"
      PROVE  Goal
  <2>1. TickTypes'
    BY <1>1, <1>5 DEF TickTypes
  <2>2. SavedMatches'
    BY <1>0, <1>5, SameThread DEF SavedMatches, StatusOf
  <2>3. PointsMatch'
    BY <1>0, <1>5 DEF PointsMatch, InKernel, Running, Executing
  <2>4. StatusMatchesCode'
    BY <1>0, <1>5 DEF StatusMatchesCode, InKernel, Running, Executing
  <2>. QED BY <2>1, <2>2, <2>3, <2>4
<1>6. CASE PlainCall
  <2>0. InKernel /\ UNCHANGED <<queue, machineStatus, yieldOnReturn, point, saved, place>>
    BY <1>6 DEF PlainCall, tickVars
  <2>1. CASE \E t \in Thread : Create(t) \/ WakeUp(t)
    <3>1. UNCHANGED <<currentThread, resumeLevel, mode, level>> /\ mode = "SystemMode"
      BY <2>1 DEF Create, WakeUp, MakeReady, cpuVars, Executing
    <3>. QED BY <1>5, <2>0, <3>1
  <2>2. ASSUME NEW t \in Thread, Fork(t) PROVE Goal
    <3>1. /\ UNCHANGED <<currentThread, mode, level>> /\ mode = "SystemMode"
          /\ status[t] = "JUST_CREATED" /\ resumeLevel' = [resumeLevel EXCEPT ![t] = "IntOn"]
      BY <2>2 DEF Fork, Executing
    <3>2. \A u \in Thread : resumeLevel'[u] = resumeLevel[u]
                            \/ (status[u] = "JUST_CREATED" /\ resumeLevel'[u] = "IntOn")
      BY <1>0, <3>1 DEF KernelInv, KernelTypeOK
    <3>3. SavedMatches'
      BY <1>0, <2>0, <3>1, <3>2, SameThread DEF InKernel, Running
    <3>4. TickTypes'
      BY <1>1, <2>0 DEF TickTypes
    <3>5. PointsMatch' /\ StatusMatchesCode'
      BY <1>0, <2>0, <3>1 DEF PointsMatch, StatusMatchesCode, Running, Executing
    <3>. QED BY <3>3, <3>4, <3>5
  <2>. QED BY <1>6, <2>1, <2>2 DEF PlainCall
<1>7. CASE Disable \/ CallHalt \/ Stopped \/ UNCHANGED interruptVars
  <2>1. UNCHANGED <<saved, place, yieldOnReturn, point, machineStatus, currentThread, resumeLevel>>
    BY <1>7 DEF Disable, CallHalt, Stopped, SetLevel, Halt, Terminated,
                interruptVars, tickVars, kernelVars, cpuVars, threadVars
  <2>2. mode' \in {mode, "Halted"} /\ (level' = level \/ (InKernel /\ level' \in Level))
    BY <1>7 DEF Disable, CallHalt, Stopped, SetLevel, Halt, Terminated,
                interruptVars, kernelVars, cpuVars
  <2>3. mode' = "Halted" => point = "run"
    BY <1>0, <1>1, <1>7
    DEF Disable, CallHalt, Stopped, SetLevel, Terminated, InKernel, Running, PointsMatch, Executing,
        interruptVars, kernelVars, cpuVars
  <2>. QED BY <1>5, <2>1, <2>2, <2>3
<1>8. CASE \E d \in Device : ScheduleDevice(d)
  <2>1. UNCHANGED <<saved, place, yieldOnReturn, point, machineStatus, currentThread, resumeLevel,
                    mode, level>> /\ mode = "SystemMode"
    BY <1>8 DEF ScheduleDevice, Schedule, cpuVars, threadVars, Executing
  <2>. QED BY <1>5, <2>1
<1>9. ASSUME NEW type, NEW rest, Fire(type, rest)
      PROVE  UNCHANGED <<currentThread, resumeLevel, mode, level>> /\ yieldOnReturn' \in BOOLEAN
  BY <1>1, <1>9 DEF Fire, DeviceInterrupt, RunHandler, kernelVars, cpuVars, threadVars
<1>10. CASE TickFires \/ IdleFires \/ IdleAdvances \/ IdleReturns \/ IdleStops \/ TickReturns
  <2>1. /\ UNCHANGED <<currentThread, resumeLevel, level, saved, place>> /\ yieldOnReturn' \in BOOLEAN
        /\ mode' = mode \/ IdleStops
    BY <1>1, <1>9, <1>10
    DEF TickFires, IdleFires, IdleAdvances, IdleReturns, IdleStops, TickReturns,
        kernelVars, cpuVars, threadVars
  <2>2. /\ IdleStops => mode = "IdleMode" /\ mode' = "Halted" /\ point = "run" /\ UNCHANGED <<point, yieldOnReturn>>
        /\ IdleAdvances => mode = "IdleMode" /\ point' = "idle"
        /\ TickFires => point = "tick" /\ point' = "tick"
        /\ IdleFires => point = "idle" /\ point' = "idle"
        /\ IdleReturns => point = "idle" /\ point' = "run" /\ yieldOnReturn' = FALSE
        /\ TickReturns => /\ point = "tick" /\ point' = "run" /\ ~yieldOnReturn
                          /\ UNCHANGED yieldOnReturn /\ machineStatus' = saved[x]
    BY DEF TickFires, IdleFires, IdleAdvances, IdleReturns, IdleStops, TickReturns, AtIdle
  <2>3. machineStatus' \in {"SystemMode", "UserMode", "IdleMode"} /\ point' \in {"run", "tick", "idle"}
    BY <1>1, <1>10, <2>2 DEF TickFires, IdleFires, IdleAdvances, IdleReturns, IdleStops
  <2>4. TickTypes'
    BY <1>1, <2>1, <2>3 DEF TickTypes
  <2>5. PointsMatch'
    BY <1>0, <1>10, <2>1, <2>2 DEF PointsMatch, Executing
  <2>6. point' = "tick" => saved[x] = StatusOf(x)
    BY <1>0, <1>10, <2>2 DEF SavedMatches
  <2>7. StatusOf(x)' = StatusOf(x)
    BY <2>1 DEF StatusOf
  <2>8. SavedMatches'
    BY <1>0, <2>1, <2>2, <2>6, <2>7, SameThread
  <2>9. StatusMatchesCode'
    <3>1. CASE TickReturns
      <4>1. saved[x] = StatusOf(x)
        BY <1>0, <2>2, <3>1 DEF SavedMatches
      <4>. QED BY <1>0, <2>1, <2>2, <3>1, <4>1 DEF StatusMatchesCode, StatusOf, Running, Executing, IdleStops, TickReturns
    <3>2. CASE ~TickReturns
      <4>1. ~Running'
        BY <1>0, <1>10, <2>1, <2>2, <3>2 DEF PointsMatch, Running, Executing
      <4>. QED BY <1>0, <2>1, <2>2, <4>1 DEF StatusMatchesCode, Executing
    <3>. QED BY <3>1, <3>2
  <2>. QED BY <2>4, <2>5, <2>8, <2>9
<1>11. CASE EnableInterrupts
  <2>1. /\ Running /\ place[x] # "user" /\ UNCHANGED <<currentThread, mode, resumeLevel>>
        /\ level' = "IntOn" /\ point' = "tick" /\ saved' = [saved EXCEPT ![x] = machineStatus]
        /\ UNCHANGED <<machineStatus, yieldOnReturn, place>>
    BY <1>11 DEF EnableInterrupts, InKernel, SetLevel, StartTick, threadVars
  <2>2. machineStatus = StatusOf(x) /\ StatusOf(x)' = StatusOf(x)
    BY <1>2, <2>1 DEF StatusOf
  <2>3. saved' = [saved EXCEPT ![x] = StatusOf(x)]
    BY <2>1, <2>2
  <2>4. TickTypes'
    BY <1>1, <2>1, <2>3 DEF TickTypes
  <2>5. PointsMatch' /\ StatusMatchesCode'
    BY <1>0, <2>1 DEF PointsMatch, StatusMatchesCode, Running, Executing
  <2>6. saved'[x] = StatusOf(x)' /\ \A t \in Thread : t # x => saved'[t] = saved[t]
    BY <1>1, <2>2, <2>3
  <2>7. SavedMatches'
    BY <1>0, <2>1, <2>6, SameThread DEF Running, Executing
  <2>. QED BY <2>4, <2>5, <2>7
<1>12. CASE CallYield
  <2>1. /\ Running /\ place[x] # "user" /\ Yield /\ saved' = [saved EXCEPT ![x] = machineStatus]
        /\ Resume(queue) /\ UNCHANGED <<yieldOnReturn, place>>
    BY <1>12 DEF CallYield, InKernel
  <2>2. machineStatus = StatusOf(x) /\ yieldOnReturn = FALSE
    BY <1>2, <2>1
  <2>3. saved' = [saved EXCEPT ![x] = StatusOf(x)]
    BY <2>1, <2>2
  <2>4. /\ saved' \in [Thread -> {"SystemMode", "UserMode"}]
        /\ saved'[x] = StatusOf(x) /\ \A t \in Thread : t # x => saved'[t] = saved[t]
    BY <1>1, <2>3
  <2>. QED BY <1>0, <2>1, <2>2, <2>4, OtherThread
<1>13. CASE CallSleep \/ IdleRuns
  <2>1. /\ ((Sleep \/ Finish) /\ place[x] # "user") \/ IdleDispatch
        /\ point = "run" /\ Resume(queue) /\ UNCHANGED <<yieldOnReturn, saved, place>>
    BY <1>13 DEF CallSleep, InKernel, Running, IdleRuns
  <2>2. yieldOnReturn' = FALSE
    BY <1>0, <1>1, <2>1 DEF PointsMatch
  <2>. QED BY <1>0, <1>1, <2>1, <2>2, OtherThread
<1>14. CASE TickYields
  <2>1. /\ point = "tick" /\ Yield /\ yieldOnReturn' = FALSE /\ Resume(PutBack(queue))
        /\ UNCHANGED <<saved, place>>
    BY <1>14 DEF TickYields
  <2>2. saved[x] = StatusOf(x) /\ level = "IntOn"
    BY <1>0, <2>1 DEF SavedMatches, PointsMatch
  <2>. QED BY <1>0, <1>1, <2>1, <2>2, OtherThread
<1>. QED BY <1>4, <1>6, <1>7, <1>8, <1>10, <1>11, <1>12, <1>13, <1>14 DEF InterruptNext, Goal

-----------------------------------------------------------------------------
(* The theorems                                                            *)

\* The invariant holds when Initialize has enabled interrupts.
LEMMA TickStart == InterruptInit => TickInv
<1>. SUFFICES ASSUME InterruptInit PROVE TickInv
  OBVIOUS
<1>1. KernelInv
  BY KernelStart DEF InterruptInit
<1>2. PICK d \in 1 .. MaxDelay :
        queue = [i \in 1 .. TimerCount |-> [type |-> TimerInt, due |-> d]]
  BY DEF InterruptInit, TimerCount
<1>. DEFINE e == [type |-> TimerInt, due |-> d]
<1>3. e \in Entry /\ e.type = TimerInt /\ e.due = d /\ d \in Int /\ d > 0
  BY DEF Entry
<1>. HIDE DEF e
<1>4. TimerCount \in {0, 1} /\ TimerCount \in Nat
  BY DEF TimerCount
<1>5. queue \in [1 .. TimerCount -> Entry] /\ \A i \in 1 .. TimerCount : queue[i] = e
  BY <1>2, <1>3 DEF e
<1>6. queue \in Seq(Entry) /\ Len(queue) = TimerCount /\ DOMAIN queue = 1 .. TimerCount
  BY <1>4, <1>5
<1>7. QueueExact
  <2>1. \A i, j \in 1 .. TimerCount : i = j
    BY <1>4
  <2>2. PendingList(queue)
    BY <1>3, <1>5, <1>6, <2>1 DEF PendingList, SortedByDue, OneOfEach
  <2>3. HasType(queue, TimerInt) <=> TimerCount = 1
    BY <1>3, <1>4, <1>5, <1>6 DEF HasType
  <2>4. TimerCount = 1 <=> UseTimer
    BY DEF TimerCount
  <2>5. pending = 0
    BY DEF InterruptInit, KernelInit
  <2>6. pending = Len(queue) - TimerCount
    BY <1>4, <1>6, <2>5
  <2>. QED BY <2>2, <2>3, <2>4, <2>6 DEF QueueExact
<1>8. TickTypes /\ PointsMatch /\ SavedMatches /\ StatusMatchesCode
  BY <1>1 DEF InterruptInit, KernelInit, KernelInv, KernelTypeOK,
     TickTypes, PointsMatch, SavedMatches, StatusMatchesCode, StatusOf
<1>9. NothingOverdue
  BY <1>3, <1>5, <1>6 DEF NothingOverdue
<1>. QED BY <1>1, <1>7, <1>8, <1>9 DEF TickInv

\* The inductive invariant, at every reachable state.
THEOREM TickInvariant == InterruptSpec => []TickInv
<1>1. TickInv /\ [InterruptNext]_interruptVars => TickInv'
  <2>. SUFFICES ASSUME TickInv, [InterruptNext]_interruptVars PROVE TickInv'
    OBVIOUS
  <2>1. KernelInv'
    BY TickIsKernelStep, KernelStep DEF TickInv
  <2>. QED BY <2>1, QueueStep, DueStep, CodeStep DEF TickInv
<1>. QED BY <1>1, TickStart, PTL DEF InterruptSpec

\* No interrupt is late: a thread never executes with interrupts on and a pending
\* interrupt whose time has come.
THEOREM NothingIsOverdue == InterruptSpec => []NothingOverdue
<1>1. TickInv => NothingOverdue
  BY DEF TickInv
<1>. QED BY <1>1, TickInvariant, PTL

\* The machine status, the yield request, the one timer entry and the count of
\* pending interrupts are in order whenever a thread goes on.
THEOREM TickInOrder == InterruptSpec => []TickBookkeeping
<1>1. ASSUME TickInv PROVE TickBookkeeping
  <2>0. /\ KernelTypeOK /\ TickTypes /\ QueueExact /\ PointsMatch /\ StatusMatchesCode
        /\ PendingList(queue)
    BY <1>1 DEF TickInv, KernelInv, QueueExact
  <2>1. Cardinality(TimerEntries) = TimerCount
    <3>1. CASE HasType(queue, TimerInt)
      <4>1. PICK i \in DOMAIN queue : queue[i].type = TimerInt
        BY <3>1 DEF HasType
      <4>2. TimerEntries = {i}
        BY <2>0, <4>1 DEF TimerEntries, PendingList, OneOfEach
      <4>3. Cardinality({i}) = 1
        BY FS_Singleton
      <4>. QED BY <2>0, <3>1, <4>2, <4>3 DEF QueueExact, TimerCount
    <3>2. CASE ~HasType(queue, TimerInt)
      <4>1. TimerEntries = {}
        BY <3>2 DEF HasType, TimerEntries
      <4>. QED BY <2>0, <3>2, <4>1, FS_EmptySet DEF QueueExact, TimerCount
    <3>. QED BY <3>1, <3>2
  <2>2. InterruptTypeOK
    BY <2>0, <2>1 DEF InterruptTypeOK, TickTypes, QueueExact, PendingList, OneOfEach
  <2>3. NoStaleYield
    BY <2>0 DEF NoStaleYield, PointsMatch, Running
  <2>4. TimerAlive
    BY <2>1 DEF TimerAlive, TimerCount
  <2>. QED BY <2>0, <2>2, <2>3, <2>4 DEF TickBookkeeping
<1>. QED BY <1>1, TickInvariant, PTL

\* Simulated time implements the abstract kernel: an interrupt arrives where the
\* kernel allows it, and the machine stops when the kernel says it may.
THEOREM InterruptImplementsKernel == InterruptSpec => KernelSpec
<1>1. InterruptInit => KernelInit
  BY DEF InterruptInit
<1>2. TickInv /\ [InterruptNext]_interruptVars => [KernelNext]_kernelVars
  BY TickIsKernelStep
<1>. QED BY <1>1, <1>2, TickInvariant, PTL DEF InterruptSpec, KernelSpec
=============================================================================
