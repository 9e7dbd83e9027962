--------------------------- MODULE ElevatorProofs ---------------------------
(***************************************************************************)
(* The elevator for any crowd, any building and any limit.  What its own   *)
(* lists say of the crowd is true whatever the delays and the scheduling   *)
(* (ListsMatchPersons).  That it never overfills and opens its doors where *)
(* its passengers want depends on the delay loop between two moves: one    *)
(* Yield for every person who can be queueing for elevatorLock is enough.  *)
(*                                                                         *)
(* Neither is inductive.  The first needs to know on which list each       *)
(* thread is and what phase that means (Places), the second who can still  *)
(* be on the way to a door after how many Yields (RestInv).                *)
(***************************************************************************)
EXTENDS Elevator, Lists, FiniteSetTheorems, WellFoundedInduction

\* Everybody of A on the list is there before x.
Before(A, x, list) == \A i, j \in DOMAIN list : list[i] \in A /\ list[j] = x => i < j

\* Who is still on the way: signalled to get in or out, and not there yet.
Coming(p) == phase[p] = "boarding" \/ (phase[p] = "entering" /\ On(p, ready))
Going(p)  == phase[p] = "alighting" \/ (phase[p] = "riding" /\ On(p, ready))
LateOnes  == {p \in Person : Coming(p) \/ Going(p)}

\* Who hails from floor f: the persons the entering list is to have entries for.
Hailers(f) == {p \in Person : atFloor[p] = f /\
                 (phase[p] = "hailing" \/ \E i \in DOMAIN entering[f] : entering[f][i] = p)}

\* The persons inside and those signalled to get in.
Load == personsOn \cup {p \in Person : Coming(p)}

Types ==
    /\ ElevatorTypeOK
    /\ entering \in [Floor -> Seq(Person)] /\ leaving \in [Floor -> Seq(Person)]
    /\ elevatorFree \in BOOLEAN /\ personFree \in BOOLEAN
    /\ running \in BOOLEAN /\ halted \in BOOLEAN

\* A lock is taken between its Acquire and its Release; who has arrived has a trip.
Locks ==
    /\ elevatorFree <=> point \in {"acquire", "rest"}
    /\ personFree <=> point \notin {"unlisting", "unloading"}

Trips == \A p \in Person : phase[p] # "absent" => atFloor[p] \in Floor /\ toFloor[p] \in Floor

\* A thread is on one list, the one its phase says, or ready.
Places ==
    /\ Once(ready) /\ Once(lockQueue) /\ Once(personQueue)
    /\ \A f \in Floor : Once(entering[f]) /\ Once(leaving[f])
    /\ running <=> ~On(elevator, ready)
    /\ \A p \in Person :
         /\ On(p, ready) => phase[p] \notin {"absent", "out"}
         /\ On(p, lockQueue) => phase[p] \in {"hailing", "boarding", "alighting"} /\ ~On(p, ready)
         /\ On(p, personQueue) => phase[p] = "adding" /\ ~On(p, ready)
         /\ \A f \in Floor :
              /\ On(p, entering[f]) => phase[p] = "entering" /\ f = atFloor[p] /\ ~On(p, ready)
              /\ On(p, leaving[f]) => phase[p] = "riding" /\ f = toFloor[p] /\ ~On(p, ready)
         /\ phase[p] \in {"boarding", "alighting"} => On(p, lockQueue) \/ On(p, ready)

\* Who is on a list is past the point where they get onto it.
Listed ==
    \A f \in Floor :
      /\ \A p \in listEntering[f] : phase[p] \notin {"absent", "start", "adding"}
      /\ \A p \in listLeaving[f] : phase[p] \in {"riding", "alighting", "out"}

\* The entering list counts who hails, and whom the elevator is about to unlist.
EnteringExact ==
    \A f \in Floor :
      Cardinality(listEntering[f]) = Cardinality(Hailers(f))
        + (IF point \in {"unlist", "unlisting"} /\ f = currentFloor THEN 1 ELSE 0)

\* The leaving list counts who rides, and those the broadcast has woken.
LeavingExact ==
    \A f \in Floor :
      Cardinality(listLeaving[f]) = Len(leaving[f])
        + (IF point \in {"broadcast", "unload", "unloading"} /\ f = currentFloor
             THEN count ELSE 0)

\* count is used up between two of its uses, and nobody else gets onto the floor's
\* condition before those woken are off the list.
CountExact ==
    /\ point \in {"acquire", "choose", "go"} => count = 0
    /\ point \in {"unload", "unloading"} => leaving[currentFloor] = << >>
    /\ point = "unloading" => count > 0

Inside == personsOn = {p \in Person : phase[p] \in {"riding", "alighting"}}

Yields == elevatorDelay - count

\* While the elevator waits with its lock free, each Yield lets one thread out of
\* the lock's queue, and the last lets everybody on their way arrive.
RestInv ==
    point = "rest" =>
      /\ count <= elevatorDelay
      /\ lockQueue # << >> => \E p \in Person : On(p, ready)
      /\ lockQueue # << >> \/ LateOnes # {} =>
           \/ Yields + Len(lockQueue) < Cardinality(Person)
           \/ /\ ~running
              /\ Yields + Len(lockQueue) = Cardinality(Person)
              /\ lockQueue # << >> => Head(ready) # elevator
              /\ lockQueue = << >> => Before(LateOnes, elevator, ready)

Quiet == point \in {"acquire", "choose", "spin", "go"} => LateOnes = {}

\* Who is on the way has the elevator where they want it.
Doors == \A p \in Person :
           (Coming(p) => currentFloor = atFloor[p]) /\ (Going(p) => currentFloor = toFloor[p])

\* While signalling, o counts who is inside and who has been signalled, and what
\* occupancy held at first.
Room(g) ==
    /\ occupancy = g + Cardinality(personsOn)
    /\ Cardinality(Load) = 0 \/ g + Cardinality(Load) <= maxOccupancy
    /\ point = "signal" => g + Cardinality(Load) <= o
    /\ point \in {"unlist", "unlisting"} => g + Cardinality(Load) <= o + 1

BaseInv == Types /\ Locks /\ Trips /\ Places /\ Inside
ListsInv == Listed /\ EnteringExact /\ LeavingExact /\ CountExact
CarInv == RestInv /\ Quiet /\ Doors

-----------------------------------------------------------------------------
(* Queues                                                                  *)

\* Waking the first n of a queue splits it: nobody is on both parts or lost.
LEMMA SplitLemma ==
    ASSUME NEW S, NEW q \in Seq(S), NEW n \in Nat
    PROVE  /\ FirstN(q, n) \in Seq(S) /\ DropN(q, n) \in Seq(S)
           /\ \A t : On(t, q) <=> On(t, FirstN(q, n)) \/ On(t, DropN(q, n))
           /\ Once(q) => /\ Once(FirstN(q, n)) /\ Once(DropN(q, n))
                         /\ \A t : ~(On(t, FirstN(q, n)) /\ On(t, DropN(q, n)))
<1>. DEFINE m == IF n < Len(q) THEN n ELSE Len(q)
            a == FirstN(q, n)
            b == DropN(q, n)
<1>1. /\ Len(q) \in Nat /\ DOMAIN q = 1 .. Len(q)
      /\ m \in 0 .. Len(q) /\ Len(q) - m \in Nat
      /\ \A i \in DOMAIN q : q[i] \in S
  OBVIOUS
<1>2. /\ a \in Seq(S) /\ DOMAIN a = 1 .. m
      /\ \A i \in 1 .. m : a[i] = q[i]
  BY <1>1 DEF FirstN
<1>3. /\ b \in Seq(S) /\ DOMAIN b = 1 .. Len(q) - m
      /\ \A i \in 1 .. Len(q) - m : b[i] = q[m + i]
  <2>1. CASE n < Len(q)
    BY <1>1, <2>1 DEF DropN
  <2>2. CASE ~(n < Len(q))
    <3>1. b = << >> /\ Len(q) - m = 0
      BY <1>1, <2>2, SubSeqEmpty DEF DropN
    <3>. QED BY <3>1
  <2>. QED BY <2>1, <2>2
<1>. HIDE DEF m, a, b
<1>4. \A t : On(t, q) => On(t, a) \/ On(t, b)
  <2>. SUFFICES ASSUME NEW t, NEW i \in 1 .. Len(q), q[i] = t
                PROVE  On(t, a) \/ On(t, b)
    BY <1>1 DEF On
  <2>1. CASE i <= m
    BY <1>1, <1>2, <2>1 DEF On
  <2>2. CASE ~(i <= m)
    <3>1. i - m \in 1 .. Len(q) - m /\ m + (i - m) = i
      BY <1>1, <2>2
    <3>. QED BY <1>3, <3>1 DEF On
  <2>. QED BY <2>1, <2>2
<1>5. \A t : On(t, a) => On(t, q)
  BY <1>1, <1>2 DEF On
<1>6. \A t : On(t, b) => On(t, q)
  <2>. SUFFICES ASSUME NEW t, NEW i \in 1 .. Len(q) - m, b[i] = t
                PROVE  On(t, q)
    BY <1>3 DEF On
  <2>1. m + i \in DOMAIN q /\ q[m + i] = t
    BY <1>1, <1>3
  <2>. QED BY <2>1 DEF On
<1>7. ASSUME Once(q)
      PROVE  Once(a) /\ Once(b) /\ \A t : ~(On(t, a) /\ On(t, b))
  <2>1. Once(a)
    BY <1>1, <1>2, <1>7 DEF Once
  <2>2. Once(b)
    <3>. SUFFICES ASSUME NEW i \in 1 .. Len(q) - m, NEW j \in 1 .. Len(q) - m, b[i] = b[j]
                  PROVE  i = j
      BY <1>3 DEF Once
    <3>1. m + i \in DOMAIN q /\ m + j \in DOMAIN q /\ q[m + i] = q[m + j]
      BY <1>1, <1>3
    <3>2. m + i = m + j
      BY <3>1, <1>7 DEF Once
    <3>. QED BY <1>1, <3>2
  <2>3. ASSUME NEW t, On(t, a), On(t, b) PROVE FALSE
    <3>1. PICK i \in 1 .. m : a[i] = t
      BY <1>2, <2>3 DEF On
    <3>2. PICK j \in 1 .. Len(q) - m : b[j] = t
      BY <1>3, <2>3 DEF On
    <3>3. i \in DOMAIN q /\ m + j \in DOMAIN q /\ q[i] = q[m + j] /\ i # m + j
      BY <1>1, <1>2, <1>3, <3>1, <3>2
    <3>. QED BY <1>7, <3>3 DEF Once
  <2>. QED BY <2>1, <2>2, <2>3
<1>. QED BY <1>2, <1>3, <1>4, <1>5, <1>6, <1>7 DEF a, b

\* Releasing a lock wakes the first in its queue, if there is one.
LEMMA RestLemma ==
    ASSUME NEW S, NEW q \in Seq(S)
    PROVE  /\ Rest(q) = DropN(q, 1)
           /\ q = << >> => Rest(q) = << >> /\ FirstN(q, 1) = << >>
           /\ q # << >> => /\ Len(Rest(q)) = Len(q) - 1
                           /\ On(Head(q), FirstN(q, 1)) /\ Head(q) \in S
<1>1. CASE q = << >>
  BY <1>1 DEF Rest, DropN, FirstN
<1>2. CASE q # << >>
  <2>1. /\ Len(q) \in Nat \ {0} /\ Tail(q) = SubSeq(q, 2, Len(q)) /\ Len(Tail(q)) = Len(q) - 1
        /\ Head(q) = q[1] /\ Head(q) \in S
    BY <1>2
  <2>2. DOMAIN FirstN(q, 1) = 1 .. 1 /\ FirstN(q, 1)[1] = q[1]
    BY <2>1 DEF FirstN
  <2>. QED BY <1>2, <2>1, <2>2 DEF Rest, DropN, On
<1>. QED BY <1>1, <1>2

\* One list behind another.
LEMMA ConcatLemma ==
    ASSUME NEW S, NEW a \in Seq(S), NEW b \in Seq(S)
    PROVE  /\ a \o b \in Seq(S)
           /\ \A t : On(t, a \o b) <=> On(t, a) \/ On(t, b)
           /\ Once(a) /\ Once(b) /\ (\A t : ~(On(t, a) /\ On(t, b))) => Once(a \o b)
<1>. DEFINE c == a \o b
<1>1. /\ Len(a) \in Nat /\ Len(b) \in Nat /\ DOMAIN a = 1 .. Len(a) /\ DOMAIN b = 1 .. Len(b)
      /\ c \in Seq(S) /\ DOMAIN c = 1 .. Len(a) + Len(b)
      /\ \A i \in 1 .. Len(a) + Len(b) : c[i] = IF i <= Len(a) THEN a[i] ELSE b[i - Len(a)]
  BY ConcatProperties
<1>. HIDE DEF c
<1>2. \A t : On(t, c) => On(t, a) \/ On(t, b)
  <2>. SUFFICES ASSUME NEW t, NEW i \in 1 .. Len(a) + Len(b), c[i] = t
                PROVE  On(t, a) \/ On(t, b)
    BY <1>1 DEF On
  <2>1. CASE i <= Len(a)
    BY <1>1, <2>1 DEF On
  <2>2. CASE ~(i <= Len(a))
    <3>1. i - Len(a) \in 1 .. Len(b) /\ b[i - Len(a)] = t
      BY <1>1, <2>2
    <3>. QED BY <1>1, <3>1 DEF On
  <2>. QED BY <2>1, <2>2
<1>3. \A t : On(t, a) => On(t, c)
  BY <1>1 DEF On
<1>4. \A t : On(t, b) => On(t, c)
  <2>. SUFFICES ASSUME NEW t, NEW i \in 1 .. Len(b), b[i] = t PROVE On(t, c)
    BY <1>1 DEF On
  <2>1. /\ i + Len(a) \in 1 .. Len(a) + Len(b) /\ ~(i + Len(a) <= Len(a))
        /\ (i + Len(a)) - Len(a) = i
    BY <1>1
  <2>2. c[i + Len(a)] = t
    BY <1>1, <2>1
  <2>. QED BY <1>1, <2>1, <2>2 DEF On
<1>5. ASSUME Once(a), Once(b), \A t : ~(On(t, a) /\ On(t, b))
      PROVE  Once(c)
  <2>. SUFFICES ASSUME NEW i \in 1 .. Len(a) + Len(b), NEW j \in 1 .. Len(a) + Len(b), c[i] = c[j]
                PROVE  i = j
    BY <1>1 DEF Once
  <2>1. CASE i <= Len(a) /\ j <= Len(a)
    BY <1>1, <1>5, <2>1 DEF Once
  <2>2. CASE ~(i <= Len(a)) /\ ~(j <= Len(a))
    <3>1. i - Len(a) \in DOMAIN b /\ j - Len(a) \in DOMAIN b /\ b[i - Len(a)] = b[j - Len(a)]
      BY <1>1, <2>2
    <3>2. i - Len(a) = j - Len(a)
      BY <3>1, <1>5 DEF Once
    <3>. QED BY <1>1, <3>2
  <2>3. CASE i <= Len(a) /\ ~(j <= Len(a))
    <3>1. i \in DOMAIN a /\ j - Len(a) \in DOMAIN b /\ a[i] = b[j - Len(a)]
      BY <1>1, <2>3
    <3>. QED BY <3>1, <1>5 DEF On
  <2>4. CASE ~(i <= Len(a)) /\ j <= Len(a)
    <3>1. j \in DOMAIN a /\ i - Len(a) \in DOMAIN b /\ a[j] = b[i - Len(a)]
      BY <1>1, <2>4
    <3>. QED BY <3>1, <1>5 DEF On
  <2>. QED BY <2>1, <2>2, <2>3, <2>4
<1>. QED BY <1>1, <1>2, <1>3, <1>4, <1>5 DEF c

\* The head leaves and others, not of A, queue up: who is before x stays before x.
LEMMA BeforeTail ==
    ASSUME NEW S, NEW A, NEW B \in SUBSET A, NEW x, NEW list \in Seq(S), NEW b \in Seq(S),
           list # << >>, Before(A, x, list), \A t \in A : ~On(t, b), ~On(x, b)
    PROVE  Before(B, x, Tail(list) \o b)
<1>. DEFINE a == Tail(list)
            c == a \o b
<1>1. /\ Len(list) \in Nat \ {0} /\ DOMAIN list = 1 .. Len(list)
      /\ a \in Seq(S) /\ Len(a) = Len(list) - 1 /\ DOMAIN a = 1 .. Len(a)
      /\ \A i \in 1 .. Len(a) : a[i] = list[i + 1] /\ i + 1 \in 1 .. Len(list)
      /\ Len(b) \in Nat /\ DOMAIN b = 1 .. Len(b)
  OBVIOUS
<1>. HIDE DEF a
<1>2. /\ c \in Seq(S) /\ DOMAIN c = 1 .. Len(a) + Len(b)
      /\ \A i \in 1 .. Len(a) + Len(b) : c[i] = IF i <= Len(a) THEN a[i] ELSE b[i - Len(a)]
  <2>1. /\ c \in Seq(S) /\ Len(c) = Len(a) + Len(b)
        /\ \A i \in 1 .. Len(a) + Len(b) : c[i] = IF i <= Len(a) THEN a[i] ELSE b[i - Len(a)]
    BY <1>1, ConcatProperties, Zenon
  <2>. HIDE DEF c
  <2>. QED BY <1>1, <2>1
<1>. HIDE DEF c
<1>3. ASSUME NEW t, t \in A \/ t = x, NEW i \in 1 .. Len(a) + Len(b), c[i] = t
      PROVE  i <= Len(a) /\ i + 1 \in DOMAIN list /\ list[i + 1] = t
  <2>1. ASSUME ~(i <= Len(a)) PROVE FALSE
    <3>1. i - Len(a) \in DOMAIN b /\ b[i - Len(a)] = t
      BY <1>1, <1>2, <1>3, <2>1
    <3>2. On(t, b)
      BY <3>1 DEF On
    <3>. QED BY <1>3, <3>2, Zenon
  <2>. QED BY <1>1, <1>2, <1>3, <2>1
<1>4. ASSUME NEW i \in DOMAIN c, NEW j \in DOMAIN c, c[i] \in B, c[j] = x
      PROVE  i < j
  <2>1. i + 1 \in DOMAIN list /\ list[i + 1] \in A /\ j + 1 \in DOMAIN list /\ list[j + 1] = x
    BY <1>2, <1>3, <1>4
  <2>2. i + 1 < j + 1
    BY <2>1 DEF Before
  <2>. QED BY <1>1, <1>2, <1>4, <2>2
<1>. QED BY <1>4 DEF Before, a, c

\* x itself queues up.
LEMMA BeforeAppend ==
    ASSUME NEW S, NEW A, NEW x \in S, NEW list \in Seq(S), ~On(x, list), x \notin A
    PROVE  Before(A, x, Append(list, x))
<1>1. /\ Len(list) \in Nat /\ DOMAIN list = 1 .. Len(list)
      /\ DOMAIN Append(list, x) = 1 .. Len(list) + 1
      /\ \A i \in 1 .. Len(list) : Append(list, x)[i] = list[i]
      /\ Append(list, x)[Len(list) + 1] = x
  OBVIOUS
<1>. QED BY <1>1 DEF Before, On

\* Nobody of A is on a list with x at its head.
LEMMA BeforeHead ==
    ASSUME NEW S, NEW A, NEW x, NEW list \in Seq(S), Before(A, x, list),
           list # << >>, Head(list) = x
    PROVE  \A t \in A : ~On(t, list)
<1>1. Len(list) \in Nat \ {0} /\ DOMAIN list = 1 .. Len(list) /\ list[1] = x
  OBVIOUS
<1>. QED BY <1>1 DEF Before, On

\* A queue of threads is no longer than there are threads.
LEMMA QueueFits ==
    ASSUME NEW S, IsFiniteSet(S), NEW q \in Seq(S), Once(q)
    PROVE  Len(q) <= Cardinality(S)
<1>1. Len(q) \in Nat /\ DOMAIN q = 1 .. Len(q) /\ \A i \in DOMAIN q : q[i] \in S
  OBVIOUS
<1>2. IsFiniteSet(1 .. Len(q)) /\ Cardinality(1 .. Len(q)) = Len(q)
  BY <1>1, FS_Interval
<1>3. q \in Injection(1 .. Len(q), S)
  BY <1>1 DEF Once, Injection, IsInjective
<1>. QED BY <1>2, <1>3, FS_Injection

\* The head leaves the list and two other lists are put behind the rest.
LEMMA TurnLemma ==
    ASSUME NEW S, NEW list \in Seq(S), list # << >>, NEW a \in Seq(S), NEW b \in Seq(S)
    PROVE  /\ Tail(list) \o a \o b \in Seq(S)
           /\ \A t : On(t, Tail(list) \o a \o b) <=> On(t, Tail(list)) \/ On(t, a) \/ On(t, b)
           /\ /\ Once(list) /\ Once(a) /\ Once(b)
              /\ \A t : /\ ~(On(t, list) /\ On(t, a)) /\ ~(On(t, list) /\ On(t, b))
                        /\ ~(On(t, a) /\ On(t, b))
              => /\ Once(Tail(list) \o a \o b) /\ ~On(Head(list), Tail(list) \o a \o b)
                 /\ \A t : t # Head(list) =>
                      (On(t, Tail(list) \o a \o b) <=> On(t, list) \/ On(t, a) \/ On(t, b))
<1>. DEFINE l == Tail(list)
            m == l \o a
            n == m \o b
<1>1. l \in Seq(S) /\ On(Head(list), list) /\ \A t : On(t, l) => On(t, list)
  BY TailLemma
<1>2. \A t : On(t, list) => On(t, l) \/ t = Head(list)
  BY TailLemma
<1>3. Once(list) => Once(l) /\ ~On(Head(list), l)
  BY TailLemma
<1>. HIDE DEF l
<1>4. /\ m \in Seq(S) /\ \A t : On(t, m) <=> On(t, l) \/ On(t, a)
      /\ Once(l) /\ Once(a) /\ (\A t : ~(On(t, l) /\ On(t, a))) => Once(m)
  BY <1>1, ConcatLemma, Zenon
<1>. HIDE DEF m
<1>5. /\ n \in Seq(S) /\ \A t : On(t, n) <=> On(t, m) \/ On(t, b)
      /\ Once(m) /\ Once(b) /\ (\A t : ~(On(t, m) /\ On(t, b))) => Once(n)
  BY <1>4, ConcatLemma, Zenon
<1>. HIDE DEF n
<1>6. \A t : On(t, n) <=> On(t, l) \/ On(t, a) \/ On(t, b)
  BY <1>4, <1>5
<1>7. ASSUME Once(list), Once(a), Once(b),
             \A t : /\ ~(On(t, list) /\ On(t, a)) /\ ~(On(t, list) /\ On(t, b))
                    /\ ~(On(t, a) /\ On(t, b))
      PROVE  /\ Once(n) /\ ~On(Head(list), n)
             /\ \A t : t # Head(list) => (On(t, n) <=> On(t, list) \/ On(t, a) \/ On(t, b))
  <2>1. Once(m)
    BY <1>1, <1>3, <1>4, <1>7
  <2>2. Once(n)
    BY <1>1, <1>4, <1>5, <1>7, <2>1
  <2>3. ~On(Head(list), n)
    BY <1>1, <1>3, <1>6, <1>7
  <2>. QED BY <1>1, <1>2, <1>6, <2>2, <2>3
<1>. QED BY <1>5, <1>6, <1>7 DEF l, m, n

\* A list of persons is a list of threads.
LEMMA WiderLemma ==
    ASSUME NEW S, NEW T, S \subseteq T, NEW q \in Seq(S)
    PROVE  q \in Seq(T)
<1>1. Len(q) \in Nat /\ q \in [1 .. Len(q) -> S]
  OBVIOUS
<1>2. q \in [1 .. Len(q) -> T]
  BY <1>1
<1>. QED BY <1>1, <1>2

\* One of several queues gains or loses somebody.
LEMMA QueuesTyped ==
    ASSUME NEW S, NEW D, NEW f \in [D -> Seq(S)], NEW x
    PROVE  /\ \A y \in S : [f EXCEPT ![x] = Append(@, y)] \in [D -> Seq(S)]
           /\ x \in D /\ f[x] # << >> => /\ [f EXCEPT ![x] = Tail(@)] \in [D -> Seq(S)]
                                        /\ Head(f[x]) \in S
<1>1. ASSUME NEW y \in S
      PROVE  [f EXCEPT ![x] = Append(@, y)] \in [D -> Seq(S)]
  <2>1. \A d \in D : Append(f[d], y) \in Seq(S)
    BY AppendLemma
  <2>. QED BY <2>1
<1>2. ASSUME x \in D, f[x] # << >>
      PROVE  [f EXCEPT ![x] = Tail(@)] \in [D -> Seq(S)] /\ Head(f[x]) \in S
  <2>1. Tail(f[x]) \in Seq(S) /\ Head(f[x]) \in S
    BY <1>2, TailLemma
  <2>. QED BY <2>1
<1>. QED BY <1>1, <1>2

\* Who is on a list of members of S is a member of S.
LEMMA OnMember ==
    ASSUME NEW S, NEW q \in Seq(S), NEW t, On(t, q)
    PROVE  t \in S
BY DEF On

-----------------------------------------------------------------------------
(* Types                                                                   *)

\* A set of naturals that is not empty has a least element.
LEMMA LeastNat ==
    ASSUME NEW T \in SUBSET Nat, T # {}
    PROVE  \E x \in T : \A y \in T : x <= y
<1>. DEFINE Less == OpToRel(<, Nat)
<1>1. \E x \in T : \A y \in T : ~(<<y, x>> \in Less)
  BY NatLessThanWellFounded, WFMin
<1>2. Less = {ss \in Nat \X Nat : ss[1] < ss[2]}
  BY Zenon DEF OpToRel
<1>. HIDE DEF Less
<1>3. \A x, y \in Nat : y < x => <<y, x>> \in Less
  BY <1>2
<1>4. PICK x \in T : \A y \in T : ~(y < x)
  BY <1>1, <1>3
<1>5. \A y \in T : x <= y
  BY <1>4
<1>. QED BY <1>5

\* getFloor returns one of the floors, if there is one.
LEMMA GetFloorLemma ==
    ASSUME NEW floors \in SUBSET Floor, currentFloor \in Floor
    PROVE  getFloor(floors) \in floors \cup {None} /\ (floors # {} => getFloor(floors) \in floors)
<1>1. CASE floors = {}
  BY <1>1 DEF getFloor
<1>2. CASE floors # {}
  <2>. DEFINE Far(f) == 2 * Abs(f - currentFloor) + (IF f >= currentFloor THEN 0 ELSE 1)
              T == {Far(f) : f \in floors}
  <2>1. currentFloor \in Int /\ \A f \in floors : f \in Int
    BY ElevatorAssumption DEF Floor
  <2>2. \A f \in floors : Abs(f - currentFloor) \in Nat
    BY <2>1 DEF Abs
  <2>3. T \in SUBSET Nat /\ T # {}
    <3>1. \A f \in floors : Far(f) \in Nat
      BY <2>2
    <3>. HIDE DEF Far
    <3>. QED BY <1>2, <3>1
  <2>4. PICK f \in floors : \A g \in floors : Far(f) <= Far(g)
    <3>1. PICK x \in T : \A y \in T : x <= y
      BY <2>3, LeastNat
    <3>. HIDE DEF Far
    <3>. QED BY <3>1
  <2>5. ASSUME NEW g \in floors
        PROVE  \/ Abs(f - currentFloor) < Abs(g - currentFloor)
               \/ Abs(f - currentFloor) = Abs(g - currentFloor) /\ f >= g
    <3>1. Far(f) <= Far(g)
      BY <2>4
    <3>2. f \in Int /\ g \in Int /\ currentFloor \in Int
      BY <2>1
    <3>. QED BY <3>1, <3>2 DEF Abs
  <2>6. getFloor(floors) \in floors
    BY <1>2, <2>5 DEF getFloor
  <2>. QED BY <2>6
<1>. QED BY <1>1, <1>2

\* A move of one floor stays in the building.
LEMMA TowardsLemma ==
    ASSUME NEW f \in Floor, currentFloor \in Floor
    PROVE  Towards(f) \in Floor
<1>1. f \in Int /\ currentFloor \in Int /\ 1 <= f /\ f <= numFloors
      /\ 1 <= currentFloor /\ currentFloor <= numFloors /\ numFloors \in Nat
  BY ElevatorAssumption DEF Floor
<1>2. Towards(f) \in Int /\ 1 <= Towards(f) /\ Towards(f) <= numFloors
  BY <1>1 DEF Towards
<1>. QED BY <1>1, <1>2 DEF Floor

\* There is a middle floor.
LEMMA MiddleLemma == MiddleFloor \in Floor
<1>1. numFloors \in Nat /\ numFloors >= 2
  BY ElevatorAssumption
<1>. QED BY <1>1 DEF MiddleFloor, Floor

\* Whom a person who goes to sleep wakes by releasing elevatorLock, if it had it.
Woken == IF elevatorFree THEN FirstN(lockQueue, 1) ELSE << >>

\* The lists when a person goes to sleep.
LEMMA SleepsTyped ==
    ASSUME Types, NEW p \in Person, NEW ps, Dispatched(p, ps), NEW next \in Phase, NEW n \in Nat,
           QueueForElevator(p, next, n) \/ WaitOn(p, next, n)
    PROVE  /\ phase' = [phase EXCEPT ![p] = next] /\ phase' \in [Person -> Phase]
           /\ ready # << >> /\ p = Head(ready) /\ ~running
           /\ ready' = Tail(ready) \o FirstN(personQueue, n) \o Woken
           /\ personQueue' = DropN(personQueue, n)
           /\ lockQueue' = IF elevatorFree THEN Rest(lockQueue) ELSE Append(lockQueue, p)
           /\ Woken \in Seq(Person \cup {elevator})
           /\ FirstN(personQueue, n) \in Seq(Person \cup {elevator})
           /\ ready' \in Seq(Person \cup {elevator})
           /\ personQueue' \in Seq(Person) /\ lockQueue' \in Seq(Person)
<1>1. /\ phase \in [Person -> Phase] /\ ready \in Seq(Person \cup {elevator})
      /\ personQueue \in Seq(Person) /\ lockQueue \in Seq(Person) /\ elevatorFree \in BOOLEAN
  BY DEF Types, ElevatorTypeOK
<1>2. ready # << >> /\ p = Head(ready) /\ ~running
  BY DEF Dispatched
<1>3. /\ phase' = [phase EXCEPT ![p] = next]
      /\ personQueue' = DropN(personQueue, n)
      /\ ready' = Tail(ready) \o FirstN(personQueue, n) \o Woken
      /\ lockQueue' = IF elevatorFree THEN Rest(lockQueue) ELSE Append(lockQueue, p)
  <2>1. CASE QueueForElevator(p, next, n)
    <3>1. FirstN(<< >>, 1) = << >>
      BY SubSeqEmpty DEF FirstN
    <3>. QED BY <2>1, <3>1 DEF QueueForElevator, Sleeps, Woken
  <2>2. CASE WaitOn(p, next, n)
    BY <2>2 DEF WaitOn, Sleeps, Woken
  <2>. QED BY <2>1, <2>2
<1>4. FirstN(personQueue, n) \in Seq(Person) /\ DropN(personQueue, n) \in Seq(Person)
  BY <1>1, SplitLemma
<1>5. FirstN(lockQueue, 1) \in Seq(Person) /\ DropN(lockQueue, 1) \in Seq(Person)
  BY <1>1, SplitLemma
<1>6. Woken \in Seq(Person)
  BY <1>5 DEF Woken
<1>7. FirstN(personQueue, n) \in Seq(Person \cup {elevator}) /\ Woken \in Seq(Person \cup {elevator})
  BY <1>4, <1>6, WiderLemma
<1>8. ready' \in Seq(Person \cup {elevator})
  <2>1. Tail(ready) \o FirstN(personQueue, n) \o Woken \in Seq(Person \cup {elevator})
    <3>1. ready \in Seq(Person \cup {elevator}) /\ ready # << >>
      BY <1>1, <1>2
    <3>. QED BY <3>1, <1>7, TurnLemma
  <2>. QED BY <1>3, <2>1, Zenon
<1>9. phase' \in [Person -> Phase]
  BY <1>1, <1>3
<1>10. lockQueue' \in Seq(Person)
  BY <1>1, <1>3, <1>5, RestLemma
<1>. QED BY <1>2, <1>3, <1>4, <1>7, <1>8, <1>9, <1>10

\* What a person does keeps the types.
LEMMA PersonTypes ==
    ASSUME Types, NEW p \in Person,
           Arrive(p) \/ HailStalls(p) \/ Hail(p) \/ HailAgain(p) \/ Board(p) \/ GetOut(p)
    PROVE  Types'
<1>0. /\ entering \in [Floor -> Seq(Person)] /\ leaving \in [Floor -> Seq(Person)]
      /\ personsWaiting \in [Floor -> Int] /\ occupancy \in Int /\ personsOn \subseteq Person
      /\ listEntering \in [Floor -> SUBSET Person] /\ listLeaving \in [Floor -> SUBSET Person]
  BY DEF Types, ElevatorTypeOK
<1>w. /\ [personsWaiting EXCEPT ![atFloor[p]] = @ + 1] \in [Floor -> Int]
      /\ [personsWaiting EXCEPT ![atFloor[p]] = @ - 1] \in [Floor -> Int]
  <2>1. \A f \in Floor : personsWaiting[f] + 1 \in Int /\ personsWaiting[f] - 1 \in Int
    BY <1>0
  <2>. QED BY <1>0, <2>1
<1>s. /\ [listEntering EXCEPT ![atFloor[p]] = @ \cup {p}] \in [Floor -> SUBSET Person]
      /\ [listLeaving EXCEPT ![toFloor[p]] = @ \cup {p}] \in [Floor -> SUBSET Person]
  BY <1>0
<1>c. /\ [entering EXCEPT ![atFloor[p]] = Append(@, p)] \in [Floor -> Seq(Person)]
      /\ [leaving EXCEPT ![toFloor[p]] = Append(@, p)] \in [Floor -> Seq(Person)]
  BY <1>0, QueuesTyped
<1>p. Phase = {"absent", "start", "adding", "hailing", "entering", "boarding",
               "riding", "alighting", "out"}
  BY DEF Phase
<1>1. CASE Arrive(p)
  <2>1. Append(ready, p) \in Seq(Person \cup {elevator})
    BY AppendLemma DEF Types, ElevatorTypeOK
  <2>2. phase' \in [Person -> Phase]
    BY <1>1, <1>p DEF Arrive, Types, ElevatorTypeOK
  <2>3. atFloor' \in [Person -> Floor \cup {None}] /\ toFloor' \in [Person -> Floor \cup {None}]
    BY <1>1 DEF Arrive, Types, ElevatorTypeOK
  <2>. QED BY <1>1, <2>1, <2>2, <2>3
       DEF Types, ElevatorTypeOK, Arrive, crowdVars, listVars, carVars, lockVars, condVars
<1>2. CASE HailStalls(p)
  <2>1. Tail(ready) \in Seq(Person \cup {elevator}) /\ Append(personQueue, p) \in Seq(Person)
    BY <1>2 DEF HailStalls, Dispatched, Types, ElevatorTypeOK
  <2>2. phase' \in [Person -> Phase]
    BY <1>2, <1>p DEF HailStalls, Types, ElevatorTypeOK
  <2>3. personsWaiting' \in [Floor -> Int]
    <3>1. personsWaiting' = [personsWaiting EXCEPT ![atFloor[p]] = IF phase[p] = "start" THEN @ + 1 ELSE @]
      BY <1>2 DEF HailStalls
    <3>2. CASE phase[p] = "start"
      BY <1>w, <3>1, <3>2
    <3>3. CASE phase[p] # "start"
      BY <1>0, <3>1, <3>3
    <3>. QED BY <3>2, <3>3
  <2>. QED BY <1>2, <2>1, <2>2, <2>3
       DEF Types, ElevatorTypeOK, HailStalls, tripVars, listVars, carVars, condVars
<1>3. CASE Hail(p)
  <2>1. Dispatched(p, {"start", "adding"}) /\ (QueueForElevator(p, "hailing", 1) \/ WaitOn(p, "entering", 1))
    BY <1>3 DEF Hail
  <2>2. /\ phase' \in [Person -> Phase] /\ ready' \in Seq(Person \cup {elevator})
        /\ personQueue' \in Seq(Person) /\ lockQueue' \in Seq(Person)
    BY <1>p, <2>1, SleepsTyped
  <2>3. entering' \in [Floor -> Seq(Person)]
    <3>1. entering' = entering \/ entering' = [entering EXCEPT ![atFloor[p]] = Append(@, p)]
      BY <1>3 DEF Hail
    <3>. QED BY <1>0, <1>c, <3>1
  <2>4. personsWaiting' \in [Floor -> Int]
    <3>1. personsWaiting' = [personsWaiting EXCEPT ![atFloor[p]] = IF phase[p] = "start" THEN @ + 1 ELSE @]
      BY <1>3 DEF Hail
    <3>2. CASE phase[p] = "start"
      BY <1>w, <3>1, <3>2
    <3>3. CASE phase[p] # "start"
      BY <1>0, <3>1, <3>3
    <3>. QED BY <3>2, <3>3
  <2>5. listEntering' \in [Floor -> SUBSET Person]
    BY <1>s, <1>3 DEF Hail
  <2>. QED BY <1>3, <2>2, <2>3, <2>4, <2>5
       DEF Types, ElevatorTypeOK, Hail, tripVars, carVars
<1>4. CASE HailAgain(p)
  <2>1. Dispatched(p, {"hailing"}) /\ (QueueForElevator(p, "hailing", 0) \/ WaitOn(p, "entering", 0))
    BY <1>4 DEF HailAgain
  <2>2. /\ phase' \in [Person -> Phase] /\ ready' \in Seq(Person \cup {elevator})
        /\ personQueue' \in Seq(Person) /\ lockQueue' \in Seq(Person)
    BY <1>p, <2>1, SleepsTyped
  <2>3. entering' \in [Floor -> Seq(Person)]
    <3>1. entering' = entering \/ entering' = [entering EXCEPT ![atFloor[p]] = Append(@, p)]
      BY <1>4 DEF HailAgain
    <3>. QED BY <1>0, <1>c, <3>1
  <2>. QED BY <1>4, <2>2, <2>3
       DEF Types, ElevatorTypeOK, HailAgain, tripVars, crowdVars, listVars, carVars
<1>5. CASE Board(p)
  <2>1. Dispatched(p, {"entering", "boarding"})
        /\ (QueueForElevator(p, "boarding", 0) \/ WaitOn(p, "riding", 2))
    BY <1>5 DEF Board
  <2>2. /\ phase' \in [Person -> Phase] /\ ready' \in Seq(Person \cup {elevator})
        /\ personQueue' \in Seq(Person) /\ lockQueue' \in Seq(Person)
    BY <1>p, <2>1, SleepsTyped
  <2>3. leaving' \in [Floor -> Seq(Person)]
    <3>1. leaving' = leaving \/ leaving' = [leaving EXCEPT ![toFloor[p]] = Append(@, p)]
      BY <1>5 DEF Board
    <3>. QED BY <1>0, <1>c, <3>1
  <2>4. personsOn' \subseteq Person /\ occupancy' \in Int
    <3>1. /\ personsOn' = personsOn \/ personsOn' = personsOn \cup {p}
          /\ occupancy' = occupancy \/ occupancy' = occupancy + 1
      BY <1>5 DEF Board, crowdVars
    <3>. QED BY <1>0, <3>1
  <2>5. personsWaiting' \in [Floor -> Int]
    <3>1. \/ personsWaiting' = personsWaiting
          \/ personsWaiting' = [personsWaiting EXCEPT ![atFloor[p]] = @ - 1]
      BY <1>5 DEF Board, crowdVars
    <3>. QED BY <1>0, <1>w, <3>1
  <2>6. listLeaving' \in [Floor -> SUBSET Person]
    <3>1. \/ listLeaving' = listLeaving
          \/ listLeaving' = [listLeaving EXCEPT ![toFloor[p]] = @ \cup {p}]
      BY <1>5 DEF Board
    <3>. QED BY <1>0, <1>s, <3>1
  <2>. QED BY <1>5, <2>2, <2>3, <2>4, <2>5, <2>6
       DEF Types, ElevatorTypeOK, Board, tripVars, carVars
<1>6. CASE GetOut(p)
  <2>1. Dispatched(p, {"riding", "alighting"})
        /\ (QueueForElevator(p, "alighting", 0) \/ WaitOn(p, "out", 1))
    BY <1>6 DEF GetOut
  <2>2. /\ phase' \in [Person -> Phase] /\ ready' \in Seq(Person \cup {elevator})
        /\ personQueue' \in Seq(Person) /\ lockQueue' \in Seq(Person)
    BY <1>p, <2>1, SleepsTyped
  <2>3. personsOn' \subseteq Person /\ personsWaiting' \in [Floor -> Int] /\ occupancy' \in Int
    <3>1. /\ personsOn' = personsOn \/ personsOn' = personsOn \ {p}
          /\ occupancy' = occupancy \/ occupancy' = occupancy - 1
          /\ personsWaiting' = personsWaiting
      BY <1>6 DEF GetOut, crowdVars
    <3>. QED BY <1>0, <3>1
  <2>. QED BY <1>6, <2>2, <2>3
       DEF Types, ElevatorTypeOK, GetOut, tripVars, listVars, carVars, condVars
<1>. QED BY <1>1, <1>2, <1>3, <1>4, <1>5, <1>6

\* What the elevator's thread does keeps the types, if it never unloads more
\* persons than its broadcast woke.
LEMMA ElevatorTypes ==
    ASSUME Types, point = "unloading" => count > 0,
           \/ Preempted \/ MainRuns \/ ElevatorDispatched \/ ElevatorStep
           \/ HaltTest \/ UNCHANGED vars
    PROVE  Types'
<1>h. /\ Signal => \/ ready' = ready
                   \/ /\ entering[currentFloor] # << >>
                      /\ ready' = Append(ready, Head(entering[currentFloor]))
      /\ Broadcast => \/ ready' = ready
                      \/ /\ leaving[currentFloor] # << >>
                         /\ ready' = Append(ready, Head(leaving[currentFloor]))
  BY DEF Signal, Broadcast
<1>. USE DEF Types, ElevatorTypeOK
<1>p. Point = {"acquire", "choose", "spin", "go", "signal", "unlist", "unlisting",
               "broadcast", "unload", "unloading", "release", "rest"}
  BY DEF Point
<1>q. None \notin Floor /\ elevatorDelay \in Nat
  BY ElevatorAssumption DEF None, Floor
<1>e. Append(ready, elevator) \in Seq(Person \cup {elevator})
  BY AppendLemma
<1>1. CASE Preempted
  BY <1>1, <1>e
  DEF Preempted, LetOthersRun, tripVars, crowdVars, listVars, carVars, lockVars, condVars
<1>2. CASE MainRuns
  <2>1. <<elevator>> \in Seq(Person \cup {elevator})
    OBVIOUS
  <2>. QED BY <1>2, <2>1 DEF MainRuns, tripVars, crowdVars, listVars, carVars, lockVars, condVars
<1>3. CASE ElevatorDispatched
  <2>1. Tail(ready) \in Seq(Person \cup {elevator})
    BY <1>3 DEF ElevatorDispatched
  <2>. QED BY <1>3, <2>1
       DEF ElevatorDispatched, tripVars, crowdVars, listVars, carVars, lockVars, condVars
<1>4. CASE AcquireLock
  BY <1>4, <1>p DEF AcquireLock, tripVars, crowdVars, listVars, carVars, condVars
<1>5. CASE Choose
  <2>1. from' \in Floor \cup {None}
    <3>1. getFloor({f \in Floor : listEntering[f] # {}}) \in Floor \cup {None}
      BY GetFloorLemma
    <3>. QED BY <1>5, <3>1 DEF Choose
  <2>2. to' \in Floor \cup {None}
    <3>1. getFloor({f \in Floor : listLeaving[f] \cap personsOn # {}}) \in Floor \cup {None}
      BY GetFloorLemma
    <3>. QED BY <1>5, <3>1 DEF Choose
  <2>3. count' \in Nat
    BY <1>5, <1>q DEF Choose
  <2>. QED BY <1>5, <1>p, <2>1, <2>2, <2>3 DEF Choose, tripVars, crowdVars, listVars, lockVars, condVars
<1>6. CASE Spin
  <2>1. ready' \in Seq(Person \cup {elevator}) /\ running' \in BOOLEAN
    BY <1>6, <1>e DEF Spin, LetOthersRun
  <2>2. count' \in Nat /\ point' \in Point
    BY <1>6, <1>p DEF Spin
  <2>. QED BY <1>6, <2>1, <2>2
       DEF Spin, tripVars, crowdVars, listVars, carVars, lockVars, condVars
<1>7. CASE Go
  <2>1. currentFloor' \in Floor
    <3>1. CASE PickUp /\ currentFloor' = Towards(from)
      <4>1. from \in Floor
        BY <3>1 DEF PickUp, None
      <4>. QED BY <3>1, <4>1, TowardsLemma
    <3>2. CASE to > 0 /\ currentFloor' = Towards(to)
      <4>1. to \in Floor
        BY <3>2 DEF None
      <4>. QED BY <3>2, <4>1, TowardsLemma
    <3>3. CASE currentFloor' = IF from = None THEN Towards(MiddleFloor) ELSE currentFloor
      BY <3>3, TowardsLemma, MiddleLemma
    <3>. QED BY <1>7, <3>1, <3>2, <3>3 DEF Go
  <2>2. point' \in Point /\ o' \in Int
    BY <1>7, <1>p DEF Go
  <2>. QED BY <1>7, <2>1, <2>2 DEF Go, tripVars, crowdVars, listVars, lockVars, condVars
<1>8. CASE Signal
  <2>0. entering[currentFloor] # << >> =>
          /\ [entering EXCEPT ![currentFloor] = Tail(@)] \in [Floor -> Seq(Person)]
          /\ Head(entering[currentFloor]) \in Person
    BY QueuesTyped
  <2>1. ready' \in Seq(Person \cup {elevator})
    <3>1. /\ ready \in Seq(Person \cup {elevator})
          /\ \A y \in Person : Append(ready, y) \in Seq(Person \cup {elevator})
      BY AppendLemma
    <3>. QED BY <1>8, <1>h, <2>0, <3>1, Zenon
  <2>2. entering' \in [Floor -> Seq(Person)]
    BY <1>8, <2>0 DEF Signal
  <2>3. from' \in Floor \cup {None} /\ point' \in Point
    BY <1>8, <1>p DEF Signal
  <2>. QED BY <1>8, <2>1, <2>2, <2>3 DEF Signal, tripVars, crowdVars, listVars, lockVars
<1>9. CASE Broadcast
  <2>0. leaving[currentFloor] # << >> =>
          /\ [leaving EXCEPT ![currentFloor] = Tail(@)] \in [Floor -> Seq(Person)]
          /\ Head(leaving[currentFloor]) \in Person
    BY QueuesTyped
  <2>1. ready' \in Seq(Person \cup {elevator})
    <3>1. /\ ready \in Seq(Person \cup {elevator})
          /\ \A y \in Person : Append(ready, y) \in Seq(Person \cup {elevator})
      BY AppendLemma
    <3>. QED BY <1>9, <1>h, <2>0, <3>1, Zenon
  <2>2. leaving' \in [Floor -> Seq(Person)]
    BY <1>9, <2>0 DEF Broadcast
  <2>3. count' \in Nat /\ point' \in Point
    BY <1>9, <1>p DEF Broadcast, At
  <2>. QED BY <1>9, <2>1, <2>2, <2>3 DEF Broadcast, tripVars, crowdVars, listVars, carVars, lockVars
<1>10. CASE TakePersonLock
  BY <1>10, <1>p DEF TakePersonLock, tripVars, crowdVars, listVars, carVars, condVars
<1>11. ReleasePersonLock => /\ personFree' = TRUE /\ personQueue' \in Seq(Person)
                            /\ ready' \in Seq(Person \cup {elevator})
  <2>1. FirstN(personQueue, 1) \in Seq(Person) /\ DropN(personQueue, 1) \in Seq(Person)
    BY SplitLemma
  <2>2. FirstN(personQueue, 1) \in Seq(Person \cup {elevator})
    BY <2>1, WiderLemma
  <2>3. ready \o FirstN(personQueue, 1) \in Seq(Person \cup {elevator})
    BY <2>2, ConcatLemma
  <2>. QED BY <2>1, <2>3 DEF ReleasePersonLock
<1>12. CASE Unlist
  <2>1. listEntering' \in [Floor -> SUBSET Person]
    BY <1>12 DEF Unlist
  <2>. QED BY <1>11, <1>12, <1>p, <2>1 DEF Unlist, tripVars, crowdVars, condVars
<1>13. CASE Unload
  <2>1. listLeaving' \in [Floor -> SUBSET Person]
    BY <1>13 DEF Unload
  <2>2. count' \in Nat
    BY <1>13 DEF Unload, At
  <2>. QED BY <1>11, <1>13, <1>p, <2>1, <2>2 DEF Unload, tripVars, crowdVars, carVars, condVars
<1>14. CASE Unloaded
  BY <1>14, <1>p DEF Unloaded, tripVars, crowdVars, listVars, lockVars, condVars
<1>15. CASE ReleaseLock
  <2>1. FirstN(lockQueue, 1) \in Seq(Person) /\ DropN(lockQueue, 1) \in Seq(Person)
    BY SplitLemma
  <2>2. FirstN(lockQueue, 1) \in Seq(Person \cup {elevator})
    BY <2>1, WiderLemma
  <2>3. ready \o FirstN(lockQueue, 1) \in Seq(Person \cup {elevator})
    BY <2>2, ConcatLemma
  <2>4. Rest(lockQueue) \in Seq(Person)
    BY <2>1, RestLemma
  <2>. QED BY <1>15, <1>p, <1>q, <2>3, <2>4
       DEF ReleaseLock, tripVars, crowdVars, listVars, carVars, condVars
<1>16. CASE HaltTest
  BY <1>16 DEF HaltTest, tripVars, crowdVars, listVars, carVars, lockVars, condVars
<1>17. CASE UNCHANGED vars
  BY <1>17 DEF vars, tripVars, crowdVars, listVars, carVars, lockVars, condVars
<1>. QED BY <1>1, <1>2, <1>3, <1>4, <1>5, <1>6, <1>7, <1>8, <1>9, <1>10, <1>12, <1>13,
            <1>14, <1>15, <1>16, <1>17 DEF ElevatorStep

-----------------------------------------------------------------------------
(* Who is where                                                            *)

\* Where everybody is when a person goes to sleep, except on the conditions.
LEMMA SleepsPlaces ==
    ASSUME Types, Places, NEW p \in Person, NEW ps, Dispatched(p, ps), NEW next \in Phase,
           NEW n \in Nat, QueueForElevator(p, next, n) \/ WaitOn(p, next, n)
    PROVE  /\ On(p, ready) /\ phase[p] \in ps /\ ~running
           /\ phase'[p] = next /\ \A q \in Person : q # p => phase'[q] = phase[q]
           /\ Once(ready') /\ Once(personQueue') /\ Once(lockQueue')
           /\ ~On(p, ready') /\ On(elevator, ready')
           /\ \A q \in Person : q # p =>
                (On(q, ready') <=> On(q, ready) \/ On(q, FirstN(personQueue, n)) \/ On(q, Woken))
           /\ \A q : On(q, FirstN(personQueue, n)) => On(q, personQueue)
           /\ \A q : On(q, personQueue') => On(q, personQueue) /\ ~On(q, FirstN(personQueue, n))
           /\ elevatorFree => \A q : /\ On(q, lockQueue) <=> On(q, Woken) \/ On(q, lockQueue')
                                     /\ ~(On(q, Woken) /\ On(q, lockQueue'))
           /\ ~elevatorFree => \A q : /\ ~On(q, Woken)
                                      /\ On(q, lockQueue') <=> On(q, lockQueue) \/ q = p
<1>1. /\ phase' = [phase EXCEPT ![p] = next]
      /\ ready # << >> /\ p = Head(ready) /\ ~running
      /\ ready' = Tail(ready) \o FirstN(personQueue, n) \o Woken
      /\ personQueue' = DropN(personQueue, n)
      /\ lockQueue' = IF elevatorFree THEN Rest(lockQueue) ELSE Append(lockQueue, p)
      /\ Woken \in Seq(Person \cup {elevator})
      /\ FirstN(personQueue, n) \in Seq(Person \cup {elevator})
  BY SleepsTyped
<1>2. /\ ready \in Seq(Person \cup {elevator}) /\ elevatorFree \in BOOLEAN
      /\ personQueue \in Seq(Person) /\ lockQueue \in Seq(Person)
      /\ phase \in [Person -> Phase]
  BY DEF Types, ElevatorTypeOK
<1>3. /\ Once(ready) /\ Once(lockQueue) /\ Once(personQueue)
      /\ running <=> ~On(elevator, ready)
      /\ \A q \in Person :
           /\ On(q, lockQueue) => ~On(q, ready) /\ phase[q] # "adding"
           /\ On(q, personQueue) => ~On(q, ready) /\ phase[q] = "adding"
  BY DEF Places
<1>4. On(p, ready) /\ elevator # p /\ elevator \notin Person
  BY <1>1, <1>2, TailLemma, ElevatorAssumption
<1>5. phase[p] \in ps
  BY DEF Dispatched
<1>6. /\ Once(FirstN(personQueue, n)) /\ Once(DropN(personQueue, n))
      /\ \A q : /\ On(q, personQueue) <=> On(q, FirstN(personQueue, n)) \/ On(q, DropN(personQueue, n))
                /\ ~(On(q, FirstN(personQueue, n)) /\ On(q, DropN(personQueue, n)))
  BY <1>2, <1>3, SplitLemma
<1>7. /\ Once(FirstN(lockQueue, 1)) /\ Once(Rest(lockQueue))
      /\ \A q : /\ On(q, lockQueue) <=> On(q, FirstN(lockQueue, 1)) \/ On(q, Rest(lockQueue))
                /\ ~(On(q, FirstN(lockQueue, 1)) /\ On(q, Rest(lockQueue)))
  <2>1. Rest(lockQueue) = DropN(lockQueue, 1)
    BY <1>2, RestLemma
  <2>2. /\ Once(FirstN(lockQueue, 1)) /\ Once(DropN(lockQueue, 1))
        /\ \A q : /\ On(q, lockQueue) <=> On(q, FirstN(lockQueue, 1)) \/ On(q, DropN(lockQueue, 1))
                  /\ ~(On(q, FirstN(lockQueue, 1)) /\ On(q, DropN(lockQueue, 1)))
    BY <1>2, <1>3, SplitLemma
  <2>. QED BY <2>1, <2>2
<1>8. \A q : ~On(q, << >>)
  BY DEF On
<1>9. /\ Once(Woken) /\ \A q : On(q, Woken) => On(q, lockQueue)
      /\ ~elevatorFree => \A q : ~On(q, Woken)
  <2>1. CASE elevatorFree
    BY <1>7, <2>1 DEF Woken
  <2>2. CASE ~elevatorFree
    BY <1>8, <2>2 DEF Woken, Once
  <2>. QED BY <2>1, <2>2
<1>10. \A q : On(q, lockQueue) \/ On(q, personQueue) => q \in Person
  BY <1>2, OnMember
<1>. HIDE DEF Woken
<1>11. \A q : /\ ~(On(q, ready) /\ On(q, FirstN(personQueue, n)))
              /\ ~(On(q, ready) /\ On(q, Woken))
              /\ ~(On(q, FirstN(personQueue, n)) /\ On(q, Woken))
  BY <1>3, <1>6, <1>9, <1>10
<1>12. /\ Once(ready') /\ ~On(p, ready')
       /\ \A q : q # p =>
            (On(q, ready') <=> On(q, ready) \/ On(q, FirstN(personQueue, n)) \/ On(q, Woken))
  BY <1>1, <1>2, <1>3, <1>6, <1>9, <1>11, TurnLemma
<1>13. On(elevator, ready')
  BY <1>1, <1>3, <1>4, <1>12
<1>14. /\ Once(lockQueue')
       /\ elevatorFree => \A q : /\ On(q, lockQueue) <=> On(q, Woken) \/ On(q, lockQueue')
                                 /\ ~(On(q, Woken) /\ On(q, lockQueue'))
       /\ ~elevatorFree => \A q : On(q, lockQueue') <=> On(q, lockQueue) \/ q = p
  <2>1. CASE elevatorFree
    BY <1>1, <1>7, <2>1 DEF Woken
  <2>2. CASE ~elevatorFree
    <3>1. ~On(p, lockQueue)
      BY <1>3, <1>4
    <3>2. lockQueue' = Append(lockQueue, p)
      BY <1>1, <2>2
    <3>. QED BY <1>2, <1>3, <2>2, <3>1, <3>2, AppendLemma
  <2>. QED BY <2>1, <2>2
<1>15. phase'[p] = next /\ \A q \in Person : q # p => phase'[q] = phase[q]
  BY <1>1, <1>2
<1>16. Once(personQueue') /\ \A q : On(q, personQueue') => On(q, personQueue) /\ ~On(q, FirstN(personQueue, n))
  BY <1>1, <1>6
<1>17. \A q : On(q, FirstN(personQueue, n)) => On(q, personQueue)
  BY <1>6
<1>. QED BY <1>1, <1>4, <1>5, <1>9, <1>12, <1>13, <1>14, <1>15, <1>16, <1>17

\* A person who goes to sleep keeps everybody where their phases say.
LEMMA SleepsKeepPlaces ==
    ASSUME Types, Places, NEW p \in Person, NEW ps, Dispatched(p, ps), NEW next \in Phase,
           NEW n \in Nat,
           \/ QueueForElevator(p, next, n) /\ next \in {"hailing", "boarding", "alighting"}
           \/ WaitOn(p, next, n) /\ next \in {"entering", "riding", "out"},
           \A f \in Floor : /\ Once(entering'[f]) /\ Once(leaving'[f])
                            /\ \A q : On(q, entering'[f]) <=>
                                 \/ On(q, entering[f])
                                 \/ q = p /\ next = "entering" /\ f = atFloor[p]
                            /\ \A q : On(q, leaving'[f]) <=>
                                 \/ On(q, leaving[f])
                                 \/ q = p /\ next = "riding" /\ f = toFloor[p],
           UNCHANGED <<tripVars, running>>
    PROVE  Places'
<1>1. QueueForElevator(p, next, n) \/ WaitOn(p, next, n)
  OBVIOUS
<1>2. /\ On(p, ready) /\ phase[p] \in ps /\ ~running
      /\ phase'[p] = next /\ \A q \in Person : q # p => phase'[q] = phase[q]
      /\ Once(ready') /\ Once(personQueue') /\ Once(lockQueue')
      /\ ~On(p, ready') /\ On(elevator, ready')
      /\ \A q \in Person : q # p =>
           (On(q, ready') <=> On(q, ready) \/ On(q, FirstN(personQueue, n)) \/ On(q, Woken))
      /\ \A q : On(q, FirstN(personQueue, n)) => On(q, personQueue)
      /\ \A q : On(q, personQueue') => On(q, personQueue) /\ ~On(q, FirstN(personQueue, n))
      /\ elevatorFree => \A q : /\ On(q, lockQueue) <=> On(q, Woken) \/ On(q, lockQueue')
                                /\ ~(On(q, Woken) /\ On(q, lockQueue'))
      /\ ~elevatorFree => \A q : /\ ~On(q, Woken)
                                 /\ On(q, lockQueue') <=> On(q, lockQueue) \/ q = p
  BY <1>1, SleepsPlaces
<1>3. /\ elevatorFree => next \in {"entering", "riding", "out"}
      /\ ~elevatorFree => next \in {"hailing", "boarding", "alighting"}
  BY DEF QueueForElevator, WaitOn
<1>4. running' = running /\ atFloor' = atFloor /\ toFloor' = toFloor
  BY DEF tripVars
<1>5. \A q : On(q, Woken) => On(q, lockQueue)
  BY <1>2
<1>6. ASSUME NEW q \in Person
      PROVE  /\ On(q, ready') => phase'[q] \notin {"absent", "out"}
             /\ On(q, lockQueue') => phase'[q] \in {"hailing", "boarding", "alighting"} /\ ~On(q, ready')
             /\ On(q, personQueue') => phase'[q] = "adding" /\ ~On(q, ready')
             /\ \A f \in Floor :
                  /\ On(q, entering'[f]) => phase'[q] = "entering" /\ f = atFloor'[q] /\ ~On(q, ready')
                  /\ On(q, leaving'[f]) => phase'[q] = "riding" /\ f = toFloor'[q] /\ ~On(q, ready')
             /\ phase'[q] \in {"boarding", "alighting"} => On(q, lockQueue') \/ On(q, ready')
  <2>0. /\ On(q, ready) => phase[q] \notin {"absent", "out"}
        /\ On(q, lockQueue) => phase[q] \in {"hailing", "boarding", "alighting"} /\ ~On(q, ready)
        /\ On(q, personQueue) => phase[q] = "adding" /\ ~On(q, ready)
        /\ \A f \in Floor :
             /\ On(q, entering[f]) => phase[q] = "entering" /\ f = atFloor[q] /\ ~On(q, ready)
             /\ On(q, leaving[f]) => phase[q] = "riding" /\ f = toFloor[q] /\ ~On(q, ready)
        /\ phase[q] \in {"boarding", "alighting"} => On(q, lockQueue) \/ On(q, ready)
    BY DEF Places
  <2>1. CASE q = p
    <3>1. /\ ~On(p, lockQueue) /\ ~On(p, personQueue)
          /\ \A f \in Floor : ~On(p, entering[f]) /\ ~On(p, leaving[f])
      BY <1>2, <2>0, <2>1
    <3>2. ~On(p, personQueue') /\ (On(p, lockQueue') <=> ~elevatorFree)
      BY <1>2, <3>1
    <3>3. phase'[p] = next /\ ~On(p, ready')
      BY <1>2
    <3>. QED BY <1>3, <1>4, <2>1, <3>1, <3>2, <3>3
  <2>2. CASE q # p
    <3>1. /\ phase'[q] = phase[q]
          /\ On(q, ready') <=> On(q, ready) \/ On(q, FirstN(personQueue, n)) \/ On(q, Woken)
      BY <1>2, <2>2
    <3>2. /\ On(q, lockQueue') => On(q, lockQueue) /\ ~On(q, Woken)
          /\ On(q, lockQueue) => On(q, Woken) \/ On(q, lockQueue')
          /\ On(q, FirstN(personQueue, n)) => On(q, personQueue)
          /\ On(q, Woken) => On(q, lockQueue)
          /\ On(q, personQueue') => On(q, personQueue) /\ ~On(q, FirstN(personQueue, n))
      BY <1>2, <2>2
    <3>3. \A f \in Floor : /\ On(q, entering'[f]) => On(q, entering[f])
                           /\ On(q, leaving'[f]) => On(q, leaving[f])
      BY <2>2
    <3>. QED BY <1>4, <2>0, <3>1, <3>2, <3>3
  <2>. QED BY <2>1, <2>2
<1>. QED BY <1>2, <1>4, <1>6 DEF Places

\* What a person does keeps everybody where their phases say.
LEMMA PersonPlaces ==
    ASSUME Types, Trips, Places, NEW p \in Person,
           HailStalls(p) \/ Hail(p) \/ HailAgain(p) \/ Board(p) \/ GetOut(p)
    PROVE  Places'
<1>p. Phase = {"absent", "start", "adding", "hailing", "entering", "boarding",
               "riding", "alighting", "out"}
  BY DEF Phase
<1>t. /\ entering \in [Floor -> Seq(Person)] /\ leaving \in [Floor -> Seq(Person)]
      /\ ready \in Seq(Person \cup {elevator}) /\ personQueue \in Seq(Person)
      /\ phase \in [Person -> Phase]
  BY DEF Types, ElevatorTypeOK
<1>o. \A f \in Floor : Once(entering[f]) /\ Once(leaving[f])
  BY DEF Places
<1>d. ASSUME NEW ps, Dispatched(p, ps)
      PROVE  /\ ready # << >> /\ p = Head(ready) /\ On(p, ready) /\ ~running /\ phase[p] \in ps
             /\ atFloor[p] \in Floor /\ toFloor[p] \in Floor
             /\ \A f \in Floor : ~On(p, entering[f]) /\ ~On(p, leaving[f])
  <2>1. ready # << >> /\ p = Head(ready) /\ ~running /\ phase[p] \in ps
    BY <1>d DEF Dispatched
  <2>2. On(p, ready)
    BY <1>t, <2>1, TailLemma
  <2>. QED BY <2>1, <2>2 DEF Places, Trips
<1>e. ASSUME NEW ps, Dispatched(p, ps)
      PROVE  \A f \in Floor :
               /\ Once([entering EXCEPT ![atFloor[p]] = Append(@, p)][f])
               /\ \A q : On(q, [entering EXCEPT ![atFloor[p]] = Append(@, p)][f]) <=>
                           On(q, entering[f]) \/ (q = p /\ f = atFloor[p])
               /\ Once([leaving EXCEPT ![toFloor[p]] = Append(@, p)][f])
               /\ \A q : On(q, [leaving EXCEPT ![toFloor[p]] = Append(@, p)][f]) <=>
                           On(q, leaving[f]) \/ (q = p /\ f = toFloor[p])
  <2>1. \A f \in Floor : ~On(p, entering[f]) /\ ~On(p, leaving[f])
    BY <1>d, <1>e
  <2>2. ASSUME NEW f \in Floor
        PROVE  /\ Once(Append(entering[f], p)) /\ \A q : On(q, Append(entering[f], p)) <=> On(q, entering[f]) \/ q = p
               /\ Once(Append(leaving[f], p)) /\ \A q : On(q, Append(leaving[f], p)) <=> On(q, leaving[f]) \/ q = p
    <3>1. entering[f] \in Seq(Person) /\ leaving[f] \in Seq(Person)
      BY <1>t
    <3>. QED BY <1>o, <2>1, <3>1, AppendLemma
  <2>3. ASSUME NEW f \in Floor
        PROVE  /\ [entering EXCEPT ![atFloor[p]] = Append(@, p)][f] =
                     IF f = atFloor[p] THEN Append(entering[f], p) ELSE entering[f]
               /\ [leaving EXCEPT ![toFloor[p]] = Append(@, p)][f] =
                     IF f = toFloor[p] THEN Append(leaving[f], p) ELSE leaving[f]
    BY <1>t
  <2>4. ASSUME NEW f \in Floor
        PROVE  LET e == [entering EXCEPT ![atFloor[p]] = Append(@, p)][f]
               IN  Once(e) /\ \A q : On(q, e) <=> On(q, entering[f]) \/ (q = p /\ f = atFloor[p])
    <3>. DEFINE e == [entering EXCEPT ![atFloor[p]] = Append(@, p)][f]
    <3>1. CASE f = atFloor[p]
      <4>1. e = Append(entering[f], p)
        BY <2>3, <3>1
      <4>. HIDE DEF e
      <4>2. Once(e) /\ \A q : On(q, e) <=> On(q, entering[f]) \/ q = p
        BY <2>2, <4>1
      <4>. QED BY <3>1, <4>2 DEF e
    <3>2. CASE f # atFloor[p]
      <4>1. e = entering[f]
        BY <2>3, <3>2
      <4>. HIDE DEF e
      <4>2. Once(e) /\ \A q : On(q, e) <=> On(q, entering[f]) \/ (q = p /\ f = atFloor[p])
        BY <1>o, <3>2, <4>1
      <4>. QED BY <4>2 DEF e
    <3>. QED BY <3>1, <3>2
  <2>5. ASSUME NEW f \in Floor
        PROVE  LET e == [leaving EXCEPT ![toFloor[p]] = Append(@, p)][f]
               IN  Once(e) /\ \A q : On(q, e) <=> On(q, leaving[f]) \/ (q = p /\ f = toFloor[p])
    <3>. DEFINE e == [leaving EXCEPT ![toFloor[p]] = Append(@, p)][f]
    <3>1. CASE f = toFloor[p]
      <4>1. e = Append(leaving[f], p)
        BY <2>3, <3>1
      <4>. HIDE DEF e
      <4>2. Once(e) /\ \A q : On(q, e) <=> On(q, leaving[f]) \/ q = p
        BY <2>2, <4>1
      <4>. QED BY <3>1, <4>2 DEF e
    <3>2. CASE f # toFloor[p]
      <4>1. e = leaving[f]
        BY <2>3, <3>2
      <4>. HIDE DEF e
      <4>2. Once(e) /\ \A q : On(q, e) <=> On(q, leaving[f]) \/ (q = p /\ f = toFloor[p])
        BY <1>o, <3>2, <4>1
      <4>. QED BY <4>2 DEF e
    <3>. QED BY <3>1, <3>2
  <2>. QED BY <2>4, <2>5
<1>1. CASE HailStalls(p)
  <2>0. Dispatched(p, {"start", "adding"})
    BY <1>1 DEF HailStalls
  <2>1. /\ ready # << >> /\ p = Head(ready) /\ On(p, ready) /\ ~running
        /\ phase[p] \in {"start", "adding"}
    BY <1>d, <2>0
  <2>2. /\ Once(Tail(ready)) /\ ~On(p, Tail(ready))
        /\ \A q : q # p => (On(q, Tail(ready)) <=> On(q, ready))
    BY <1>t, <2>1, TailLemma DEF Places
  <2>3. ~On(p, personQueue) /\ ~On(p, lockQueue)
    BY <2>1 DEF Places
  <2>4. /\ Once(Append(personQueue, p))
        /\ \A q : On(q, Append(personQueue, p)) <=> On(q, personQueue) \/ q = p
    BY <1>t, <2>3, AppendLemma DEF Places
  <2>5. /\ ready' = Tail(ready) /\ personQueue' = Append(personQueue, p)
        /\ phase' = [phase EXCEPT ![p] = "adding"]
        /\ UNCHANGED <<atFloor, toFloor, lockQueue, entering, leaving, running>>
    BY <1>1 DEF HailStalls, tripVars, condVars
  <2>6. phase'[p] = "adding" /\ \A q \in Person : q # p => phase'[q] = phase[q]
    BY <1>t, <2>5
  <2>7. On(elevator, ready')
    BY <2>1, <2>2, <2>5, ElevatorAssumption DEF Places
  <2>8. \A q \in Person :
          /\ On(q, ready') => phase'[q] \notin {"absent", "out"}
          /\ On(q, lockQueue) => phase'[q] \in {"hailing", "boarding", "alighting"} /\ ~On(q, ready')
          /\ On(q, personQueue') => phase'[q] = "adding" /\ ~On(q, ready')
          /\ \A f \in Floor :
               /\ On(q, entering[f]) => phase'[q] = "entering" /\ f = atFloor[q] /\ ~On(q, ready')
               /\ On(q, leaving[f]) => phase'[q] = "riding" /\ f = toFloor[q] /\ ~On(q, ready')
          /\ phase'[q] \in {"boarding", "alighting"} => On(q, lockQueue) \/ On(q, ready')
    BY <2>1, <2>2, <2>3, <2>4, <2>5, <2>6 DEF Places
  <2>. QED BY <2>1, <2>2, <2>4, <2>5, <2>7, <2>8 DEF Places
<1>2. CASE Hail(p)
  <2>0. Dispatched(p, {"start", "adding"}) /\ UNCHANGED <<tripVars, running>> /\ leaving' = leaving
    BY <1>2 DEF Hail
  <2>1. CASE QueueForElevator(p, "hailing", 1) /\ UNCHANGED entering
    BY <1>o, <1>p, <2>0, <2>1, SleepsKeepPlaces
  <2>2. CASE WaitOn(p, "entering", 1) /\ entering' = [entering EXCEPT ![atFloor[p]] = Append(@, p)]
    BY <1>e, <1>o, <1>p, <2>0, <2>2, SleepsKeepPlaces
  <2>. QED BY <1>2, <2>1, <2>2 DEF Hail
<1>3. CASE HailAgain(p)
  <2>0. Dispatched(p, {"hailing"}) /\ UNCHANGED <<tripVars, running>> /\ leaving' = leaving
    BY <1>3 DEF HailAgain
  <2>1. CASE QueueForElevator(p, "hailing", 0) /\ UNCHANGED entering
    BY <1>o, <1>p, <2>0, <2>1, SleepsKeepPlaces
  <2>2. CASE WaitOn(p, "entering", 0) /\ entering' = [entering EXCEPT ![atFloor[p]] = Append(@, p)]
    BY <1>e, <1>o, <1>p, <2>0, <2>2, SleepsKeepPlaces
  <2>. QED BY <1>3, <2>1, <2>2 DEF HailAgain
<1>4. CASE Board(p)
  <2>0. Dispatched(p, {"entering", "boarding"}) /\ UNCHANGED <<tripVars, running>> /\ entering' = entering
    BY <1>4 DEF Board
  <2>1. CASE QueueForElevator(p, "boarding", 0) /\ UNCHANGED leaving
    BY <1>o, <1>p, <2>0, <2>1, SleepsKeepPlaces
  <2>2. CASE WaitOn(p, "riding", 2) /\ leaving' = [leaving EXCEPT ![toFloor[p]] = Append(@, p)]
    BY <1>e, <1>o, <1>p, <2>0, <2>2, SleepsKeepPlaces
  <2>. QED BY <1>4, <2>1, <2>2 DEF Board
<1>5. CASE GetOut(p)
  <2>0. Dispatched(p, {"riding", "alighting"}) /\ UNCHANGED <<tripVars, running>>
        /\ entering' = entering /\ leaving' = leaving
    BY <1>5 DEF GetOut, condVars
  <2>1. CASE QueueForElevator(p, "alighting", 0)
    BY <1>o, <1>p, <2>0, <2>1, SleepsKeepPlaces
  <2>2. CASE WaitOn(p, "out", 1)
    BY <1>o, <1>p, <2>0, <2>2, SleepsKeepPlaces
  <2>. QED BY <1>5, <2>1, <2>2 DEF GetOut
<1>. QED BY <1>1, <1>2, <1>3, <1>4, <1>5

\* A step that only makes threads ready keeps everybody where their phases say.
LEMMA WakingKeepsPlaces ==
    ASSUME Places, UNCHANGED <<tripVars, phase>>,
           Once(ready') /\ Once(lockQueue') /\ Once(personQueue'),
           \A f \in Floor : Once(entering'[f]) /\ Once(leaving'[f]),
           running' <=> ~On(elevator, ready'),
           \A q \in Person :
             /\ On(q, ready) => On(q, ready')
             /\ On(q, ready') => \/ On(q, ready) \/ On(q, lockQueue) \/ On(q, personQueue)
                                 \/ \E f \in Floor : On(q, entering[f]) \/ On(q, leaving[f])
             /\ On(q, lockQueue) => On(q, lockQueue') \/ On(q, ready')
             /\ On(q, lockQueue') => On(q, lockQueue) /\ ~On(q, ready')
             /\ On(q, personQueue') => On(q, personQueue) /\ ~On(q, ready')
             /\ \A f \in Floor : /\ On(q, entering'[f]) => On(q, entering[f]) /\ ~On(q, ready')
                                 /\ On(q, leaving'[f]) => On(q, leaving[f]) /\ ~On(q, ready')
    PROVE  Places'
<1>1. phase' = phase /\ atFloor' = atFloor /\ toFloor' = toFloor
  BY DEF tripVars
<1>2. ASSUME NEW q \in Person
      PROVE  /\ On(q, ready') => phase[q] \notin {"absent", "out"}
             /\ On(q, lockQueue') => phase[q] \in {"hailing", "boarding", "alighting"} /\ ~On(q, ready')
             /\ On(q, personQueue') => phase[q] = "adding" /\ ~On(q, ready')
             /\ \A f \in Floor :
                  /\ On(q, entering'[f]) => phase[q] = "entering" /\ f = atFloor[q] /\ ~On(q, ready')
                  /\ On(q, leaving'[f]) => phase[q] = "riding" /\ f = toFloor[q] /\ ~On(q, ready')
             /\ phase[q] \in {"boarding", "alighting"} => On(q, lockQueue') \/ On(q, ready')
  <2>0. /\ On(q, ready) => phase[q] \notin {"absent", "out"}
        /\ On(q, lockQueue) => phase[q] \in {"hailing", "boarding", "alighting"} /\ ~On(q, ready)
        /\ On(q, personQueue) => phase[q] = "adding" /\ ~On(q, ready)
        /\ \A f \in Floor :
             /\ On(q, entering[f]) => phase[q] = "entering" /\ f = atFloor[q] /\ ~On(q, ready)
             /\ On(q, leaving[f]) => phase[q] = "riding" /\ f = toFloor[q] /\ ~On(q, ready)
        /\ phase[q] \in {"boarding", "alighting"} => On(q, lockQueue) \/ On(q, ready)
    BY DEF Places
  <2>. QED BY <2>0
<1>. QED BY <1>1, <1>2 DEF Places

\* The elevator's thread gets off the CPU and behind the others.
LEMMA YieldKeepsPlaces ==
    ASSUME Types, Places, running, UNCHANGED <<tripVars, phase, condVars, lockQueue, personQueue>>,
           ready' = Append(ready, elevator), running' = FALSE
    PROVE  Places'
<1>1. ready \in Seq(Person \cup {elevator}) /\ ~On(elevator, ready) /\ Once(ready)
  BY DEF Types, ElevatorTypeOK, Places
<1>2. Once(ready') /\ \A q : On(q, ready') <=> On(q, ready) \/ q = elevator
  BY <1>1, AppendLemma
<1>3. /\ lockQueue' = lockQueue /\ personQueue' = personQueue
      /\ entering' = entering /\ leaving' = leaving
  BY DEF condVars
<1>4. /\ Once(lockQueue) /\ Once(personQueue)
      /\ \A f \in Floor : Once(entering[f]) /\ Once(leaving[f])
      /\ \A q \in Person :
           /\ On(q, lockQueue) => ~On(q, ready)
           /\ On(q, personQueue) => ~On(q, ready)
           /\ \A f \in Floor : On(q, entering[f]) \/ On(q, leaving[f]) => ~On(q, ready)
  BY DEF Places
<1>5. \A q \in Person : On(q, ready') <=> On(q, ready)
  BY <1>2, ElevatorAssumption
<1>6. On(elevator, ready')
  BY <1>2
<1>. QED BY <1>2, <1>3, <1>4, <1>5, <1>6, WakingKeepsPlaces

\* The first n of a queue are made ready.
LEMMA ReadyConcat ==
    ASSUME Types, NEW q \in Seq(Person), Once(q), Once(ready), NEW n \in Nat,
           \A t \in Person : On(t, q) => ~On(t, ready)
    PROVE  /\ Once(ready \o FirstN(q, n)) /\ Once(DropN(q, n))
           /\ On(elevator, ready \o FirstN(q, n)) <=> On(elevator, ready)
           /\ \A t \in Person :
                /\ On(t, ready \o FirstN(q, n)) <=> On(t, ready) \/ On(t, FirstN(q, n))
                /\ On(t, q) <=> On(t, FirstN(q, n)) \/ On(t, DropN(q, n))
                /\ On(t, DropN(q, n)) => ~On(t, ready \o FirstN(q, n))
<1>1. /\ FirstN(q, n) \in Seq(Person) /\ Once(FirstN(q, n)) /\ Once(DropN(q, n))
      /\ \A t : On(t, q) <=> On(t, FirstN(q, n)) \/ On(t, DropN(q, n))
      /\ \A t : ~(On(t, FirstN(q, n)) /\ On(t, DropN(q, n)))
  BY SplitLemma
<1>2. ready \in Seq(Person \cup {elevator}) /\ FirstN(q, n) \in Seq(Person \cup {elevator})
  BY <1>1, WiderLemma DEF Types, ElevatorTypeOK
<1>3. \A t : On(t, FirstN(q, n)) => t \in Person
  BY <1>1, OnMember
<1>4. \A t : ~(On(t, ready) /\ On(t, FirstN(q, n)))
  BY <1>1, <1>3
<1>5. /\ Once(ready \o FirstN(q, n))
      /\ \A t : On(t, ready \o FirstN(q, n)) <=> On(t, ready) \/ On(t, FirstN(q, n))
  BY <1>1, <1>2, <1>4, ConcatLemma
<1>6. ~On(elevator, FirstN(q, n))
  BY <1>3, ElevatorAssumption
<1>. QED BY <1>1, <1>5, <1>6

\* What the elevator's thread does keeps everybody where their phases say.
LEMMA ElevatorPlaces ==
    ASSUME Types, Places,
           \/ Preempted \/ MainRuns \/ ElevatorDispatched \/ ElevatorStep
           \/ HaltTest \/ UNCHANGED vars
    PROVE  Places'
<1>t. /\ ready \in Seq(Person \cup {elevator}) /\ lockQueue \in Seq(Person) /\ personQueue \in Seq(Person)
      /\ entering \in [Floor -> Seq(Person)] /\ leaving \in [Floor -> Seq(Person)]
      /\ currentFloor \in Floor
  BY DEF Types, ElevatorTypeOK
<1>o. /\ Once(ready) /\ Once(lockQueue) /\ Once(personQueue)
      /\ \A f \in Floor : Once(entering[f]) /\ Once(leaving[f])
      /\ running <=> ~On(elevator, ready)
      /\ \A q \in Person :
           /\ On(q, lockQueue) => ~On(q, ready)
           /\ On(q, personQueue) => ~On(q, ready)
           /\ \A f \in Floor : On(q, entering[f]) \/ On(q, leaving[f]) => ~On(q, ready)
  BY DEF Places
<1>u. UNCHANGED <<tripVars, phase, condVars, lockQueue, personQueue, ready, running>> => Places'
  BY DEF Places, tripVars, condVars
<1>1. CASE Preempted
  <2>1. /\ running /\ ready' = Append(ready, elevator) /\ running' = FALSE
        /\ UNCHANGED <<tripVars, phase, condVars, lockQueue, personQueue>>
    BY <1>1 DEF Preempted, LetOthersRun, lockVars
  <2>. QED BY <2>1, YieldKeepsPlaces
<1>2. CASE MainRuns
  <2>1. /\ running /\ ready' = Append(ready, elevator) /\ running' = FALSE
        /\ UNCHANGED <<tripVars, phase, condVars, lockQueue, personQueue>>
    BY <1>2 DEF MainRuns, lockVars
  <2>. QED BY <2>1, YieldKeepsPlaces
<1>3. CASE ElevatorDispatched
  <2>1. /\ ready # << >> /\ Head(ready) = elevator /\ ready' = Tail(ready) /\ running' = TRUE
        /\ UNCHANGED <<tripVars, phase, lockQueue, personQueue, entering, leaving>>
    BY <1>3 DEF ElevatorDispatched, lockVars, condVars
  <2>2. /\ Once(Tail(ready)) /\ ~On(elevator, Tail(ready))
        /\ \A q : q # elevator => (On(q, Tail(ready)) <=> On(q, ready))
    BY <1>t, <1>o, <2>1, TailLemma
  <2>3. \A q \in Person : On(q, ready') <=> On(q, ready)
    BY <2>1, <2>2, ElevatorAssumption
  <2>. QED BY <1>o, <2>1, <2>2, <2>3, WakingKeepsPlaces
<1>4. CASE AcquireLock \/ Choose \/ Go \/ TakePersonLock \/ Unloaded \/ HaltTest \/ UNCHANGED vars
  BY <1>4, <1>u
  DEF AcquireLock, Choose, Go, TakePersonLock, Unloaded, HaltTest, vars, tripVars, lockVars, condVars
<1>5. CASE Spin
  <2>1. UNCHANGED <<tripVars, phase, condVars, lockQueue, personQueue>> /\ running
    BY <1>5 DEF Spin, At, lockVars
  <2>2. CASE UNCHANGED <<ready, running>>
    BY <1>u, <2>1, <2>2
  <2>3. CASE ready' = Append(ready, elevator) /\ running' = FALSE
    BY <2>1, <2>3, YieldKeepsPlaces
  <2>. QED BY <1>5, <2>2, <2>3 DEF Spin, LetOthersRun
<1>6. CASE Signal
  <2>0. UNCHANGED <<tripVars, phase, leaving, lockQueue, personQueue, running>>
    BY <1>6 DEF Signal, lockVars
  <2>1. CASE UNCHANGED <<entering, ready>>
    BY <1>u, <2>0, <2>1 DEF condVars
  <2>2. CASE /\ entering[currentFloor] # << >>
             /\ ready' = Append(ready, Head(entering[currentFloor]))
             /\ entering' = [entering EXCEPT ![currentFloor] = Tail(@)]
    <3>. DEFINE h == Head(entering[currentFloor])
    <3>1. /\ h \in Person /\ On(h, entering[currentFloor])
          /\ Once(Tail(entering[currentFloor])) /\ ~On(h, Tail(entering[currentFloor]))
          /\ \A q : On(q, Tail(entering[currentFloor])) => On(q, entering[currentFloor])
      BY <1>t, <1>o, <2>2, TailLemma
    <3>2. /\ entering'[currentFloor] = Tail(entering[currentFloor])
          /\ \A f \in Floor : f # currentFloor => entering'[f] = entering[f]
      BY <1>t, <2>2
    <3>. HIDE DEF h
    <3>3. ~On(h, ready) /\ h \in Person \cup {elevator} /\ h # elevator
      BY <1>o, <1>t, <3>1, ElevatorAssumption
    <3>4. Once(ready') /\ \A q : On(q, ready') <=> On(q, ready) \/ q = h
      BY <1>t, <1>o, <2>2, <3>3, AppendLemma DEF h
    <3>5. \A f \in Floor : f # currentFloor => ~On(h, entering[f])
      BY <1>t, <3>1 DEF Places
    <3>6. \A f \in Floor : ~On(h, leaving[f])
      BY <1>t, <3>1 DEF Places
    <3>7. ~On(h, lockQueue) /\ ~On(h, personQueue)
      BY <1>t, <3>1 DEF Places
    <3>8. \A f \in Floor : Once(entering'[f]) /\ \A q \in Person : On(q, entering'[f]) => On(q, entering[f]) /\ ~On(q, ready')
      BY <1>o, <3>1, <3>2, <3>4, <3>5
    <3>9. \A q \in Person : \A f \in Floor : On(q, leaving[f]) => ~On(q, ready')
      BY <1>o, <3>4, <3>6
    <3>10. \A q \in Person : (On(q, lockQueue) => ~On(q, ready')) /\ (On(q, personQueue) => ~On(q, ready'))
      BY <1>o, <3>4, <3>7
    <3>11. \A q \in Person : On(q, ready') => On(q, ready) \/ \E f \in Floor : On(q, entering[f])
      BY <1>t, <3>1, <3>4
    <3>12. \A q \in Person : On(q, ready) => On(q, ready')
      BY <3>4
    <3>13. running' <=> ~On(elevator, ready')
      BY <1>o, <2>0, <3>3, <3>4
    <3>. QED BY <1>o, <2>0, <3>4, <3>8, <3>9, <3>10, <3>11, <3>12, <3>13, WakingKeepsPlaces
  <2>. QED BY <1>6, <2>1, <2>2 DEF Signal
<1>7. CASE Broadcast
  <2>0. UNCHANGED <<tripVars, phase, entering, lockQueue, personQueue, running>>
    BY <1>7 DEF Broadcast, lockVars
  <2>1. CASE UNCHANGED <<leaving, ready>>
    BY <1>u, <2>0, <2>1 DEF condVars
  <2>2. CASE /\ leaving[currentFloor] # << >>
             /\ ready' = Append(ready, Head(leaving[currentFloor]))
             /\ leaving' = [leaving EXCEPT ![currentFloor] = Tail(@)]
    <3>. DEFINE h == Head(leaving[currentFloor])
    <3>1. /\ h \in Person /\ On(h, leaving[currentFloor])
          /\ Once(Tail(leaving[currentFloor])) /\ ~On(h, Tail(leaving[currentFloor]))
          /\ \A q : On(q, Tail(leaving[currentFloor])) => On(q, leaving[currentFloor])
      BY <1>t, <1>o, <2>2, TailLemma
    <3>2. /\ leaving'[currentFloor] = Tail(leaving[currentFloor])
          /\ \A f \in Floor : f # currentFloor => leaving'[f] = leaving[f]
      BY <1>t, <2>2
    <3>. HIDE DEF h
    <3>3. ~On(h, ready) /\ h \in Person \cup {elevator} /\ h # elevator
      BY <1>o, <1>t, <3>1, ElevatorAssumption
    <3>4. Once(ready') /\ \A q : On(q, ready') <=> On(q, ready) \/ q = h
      BY <1>t, <1>o, <2>2, <3>3, AppendLemma DEF h
    <3>5. \A f \in Floor : f # currentFloor => ~On(h, leaving[f])
      BY <1>t, <3>1 DEF Places
    <3>6. \A f \in Floor : ~On(h, entering[f])
      BY <1>t, <3>1 DEF Places
    <3>7. ~On(h, lockQueue) /\ ~On(h, personQueue)
      BY <1>t, <3>1 DEF Places
    <3>8. \A f \in Floor : Once(leaving'[f]) /\ \A q \in Person : On(q, leaving'[f]) => On(q, leaving[f]) /\ ~On(q, ready')
      BY <1>o, <3>1, <3>2, <3>4, <3>5
    <3>9. \A q \in Person : \A f \in Floor : On(q, entering[f]) => ~On(q, ready')
      BY <1>o, <3>4, <3>6
    <3>10. \A q \in Person : (On(q, lockQueue) => ~On(q, ready')) /\ (On(q, personQueue) => ~On(q, ready'))
      BY <1>o, <3>4, <3>7
    <3>11. \A q \in Person : On(q, ready') => On(q, ready) \/ \E f \in Floor : On(q, leaving[f])
      BY <1>t, <3>1, <3>4
    <3>12. \A q \in Person : On(q, ready) => On(q, ready')
      BY <3>4
    <3>13. running' <=> ~On(elevator, ready')
      BY <1>o, <2>0, <3>3, <3>4
    <3>. QED BY <1>o, <2>0, <3>4, <3>8, <3>9, <3>10, <3>11, <3>12, <3>13, WakingKeepsPlaces
  <2>. QED BY <1>7, <2>1, <2>2 DEF Broadcast
<1>8. CASE Unlist \/ Unload
  <2>1. /\ ready' = ready \o FirstN(personQueue, 1) /\ personQueue' = DropN(personQueue, 1)
        /\ UNCHANGED <<tripVars, phase, entering, leaving, lockQueue, running>>
    BY <1>8 DEF Unlist, Unload, ReleasePersonLock, condVars
  <2>2. /\ Once(ready') /\ Once(personQueue')
        /\ On(elevator, ready') <=> On(elevator, ready)
        /\ \A t \in Person :
             /\ On(t, ready') <=> On(t, ready) \/ On(t, FirstN(personQueue, 1))
             /\ On(t, personQueue) <=> On(t, FirstN(personQueue, 1)) \/ On(t, personQueue')
             /\ On(t, personQueue') => ~On(t, ready')
    BY <1>t, <1>o, <2>1, ReadyConcat
  <2>3. \A t \in Person : On(t, personQueue) =>
          ~On(t, lockQueue) /\ \A f \in Floor : ~On(t, entering[f]) /\ ~On(t, leaving[f])
    BY DEF Places
  <2>4. \A q \in Person : \A f \in Floor : On(q, entering[f]) \/ On(q, leaving[f]) => ~On(q, ready')
    BY <1>o, <2>2, <2>3
  <2>5. \A q \in Person : On(q, lockQueue) => ~On(q, ready')
    BY <1>o, <2>2, <2>3
  <2>. QED BY <1>o, <2>1, <2>2, <2>4, <2>5, WakingKeepsPlaces
<1>9. CASE ReleaseLock
  <2>1. /\ ready' = ready \o FirstN(lockQueue, 1) /\ lockQueue' = DropN(lockQueue, 1)
        /\ UNCHANGED <<tripVars, phase, entering, leaving, personQueue, running>>
    BY <1>t, <1>9, RestLemma DEF ReleaseLock, condVars
  <2>2. /\ Once(ready') /\ Once(lockQueue')
        /\ On(elevator, ready') <=> On(elevator, ready)
        /\ \A t \in Person :
             /\ On(t, ready') <=> On(t, ready) \/ On(t, FirstN(lockQueue, 1))
             /\ On(t, lockQueue) <=> On(t, FirstN(lockQueue, 1)) \/ On(t, lockQueue')
             /\ On(t, lockQueue') => ~On(t, ready')
    BY <1>t, <1>o, <2>1, ReadyConcat
  <2>3. \A t \in Person : On(t, lockQueue) =>
          ~On(t, personQueue) /\ \A f \in Floor : ~On(t, entering[f]) /\ ~On(t, leaving[f])
    BY DEF Places
  <2>4. \A q \in Person : \A f \in Floor : On(q, entering[f]) \/ On(q, leaving[f]) => ~On(q, ready')
    BY <1>o, <2>2, <2>3
  <2>5. \A q \in Person : On(q, personQueue) => ~On(q, ready')
    BY <1>o, <2>2, <2>3
  <2>. QED BY <1>o, <2>1, <2>2, <2>4, <2>5, WakingKeepsPlaces
<1>. QED BY <1>1, <1>2, <1>3, <1>4, <1>5, <1>6, <1>7, <1>8, <1>9 DEF ElevatorStep

\* A thread that is forked is on the ready list and nowhere else.
LEMMA ArrivePlaces ==
    ASSUME Types, Places, NEW p \in Person, Arrive(p)
    PROVE  Places'
<1>1. /\ ready \in Seq(Person \cup {elevator}) /\ phase \in [Person -> Phase]
      /\ atFloor \in [Person -> Floor \cup {None}] /\ toFloor \in [Person -> Floor \cup {None}]
  BY DEF Types, ElevatorTypeOK
<1>2. /\ phase[p] = "absent" /\ phase' = [phase EXCEPT ![p] = "start"] /\ ready' = Append(ready, p)
      /\ UNCHANGED <<lockQueue, personQueue, entering, leaving, running>>
      /\ \A q \in Person : q # p => atFloor'[q] = atFloor[q] /\ toFloor'[q] = toFloor[q]
  BY <1>1 DEF Arrive, lockVars, condVars
<1>3. /\ ~On(p, ready) /\ ~On(p, lockQueue) /\ ~On(p, personQueue)
      /\ \A f \in Floor : ~On(p, entering[f]) /\ ~On(p, leaving[f])
  BY <1>2 DEF Places
<1>4. Once(ready') /\ \A q : On(q, ready') <=> On(q, ready) \/ q = p
  BY <1>1, <1>2, <1>3, AppendLemma DEF Places
<1>5. phase'[p] = "start" /\ \A q \in Person : q # p => phase'[q] = phase[q]
  BY <1>1, <1>2
<1>6. running' <=> ~On(elevator, ready')
  BY <1>2, <1>4, ElevatorAssumption DEF Places
<1>7. ASSUME NEW q \in Person
      PROVE  /\ On(q, ready') => phase'[q] \notin {"absent", "out"}
             /\ On(q, lockQueue') => phase'[q] \in {"hailing", "boarding", "alighting"} /\ ~On(q, ready')
             /\ On(q, personQueue') => phase'[q] = "adding" /\ ~On(q, ready')
             /\ \A f \in Floor :
                  /\ On(q, entering'[f]) => phase'[q] = "entering" /\ f = atFloor'[q] /\ ~On(q, ready')
                  /\ On(q, leaving'[f]) => phase'[q] = "riding" /\ f = toFloor'[q] /\ ~On(q, ready')
             /\ phase'[q] \in {"boarding", "alighting"} => On(q, lockQueue') \/ On(q, ready')
  <2>1. CASE q = p
    BY <1>2, <1>3, <1>4, <1>5, <2>1
  <2>2. CASE q # p
    BY <1>2, <1>4, <1>5, <2>2 DEF Places
  <2>. QED BY <2>1, <2>2
<1>8. Once(lockQueue') /\ Once(personQueue') /\ \A f \in Floor : Once(entering'[f]) /\ Once(leaving'[f])
  BY <1>2 DEF Places
<1>. QED BY <1>4, <1>6, <1>7, <1>8 DEF Places

\* Every step keeps everybody where their phases say, and the locks and trips.
LEMMA PlacesStep == Types /\ Locks /\ Trips /\ Places /\ [ElevatorNext]_vars => Places' /\ Locks' /\ Trips'
<1>. SUFFICES ASSUME Types, Locks, Trips, Places, [ElevatorNext]_vars
              PROVE  Places' /\ Locks' /\ Trips'
  OBVIOUS
<1>t. /\ phase \in [Person -> Phase] /\ elevatorFree \in BOOLEAN /\ personFree \in BOOLEAN
      /\ atFloor \in [Person -> Floor \cup {None}] /\ toFloor \in [Person -> Floor \cup {None}]
  BY DEF Types, ElevatorTypeOK
<1>1. ASSUME NEW p \in Person, Arrive(p)
      PROVE  Places' /\ Locks' /\ Trips'
  <2>1. Locks'
    BY <1>1 DEF Arrive, Locks, lockVars
  <2>2. Trips'
    <3>1. /\ \A q \in Person : q # p =>
               atFloor'[q] = atFloor[q] /\ toFloor'[q] = toFloor[q] /\ phase'[q] = phase[q]
          /\ atFloor'[p] \in Floor /\ toFloor'[p] \in Floor
      BY <1>t, <1>1 DEF Arrive
    <3>. QED BY <3>1 DEF Trips
  <2>. QED BY <1>1, <2>1, <2>2, ArrivePlaces
<1>2. ASSUME NEW p \in Person, HailStalls(p) \/ Hail(p) \/ HailAgain(p) \/ Board(p) \/ GetOut(p)
      PROVE  Places' /\ Locks' /\ Trips'
  <2>1. UNCHANGED <<point, elevatorFree, personFree, atFloor, toFloor>>
    BY <1>2 DEF HailStalls, Hail, HailAgain, Board, GetOut, tripVars
  <2>2. \A q \in Person : q # p => phase'[q] = phase[q]
    BY <1>t, <1>2 DEF HailStalls, Hail, HailAgain, Board, GetOut, QueueForElevator, WaitOn, Sleeps
  <2>3. phase[p] # "absent"
    BY <1>2 DEF HailStalls, Hail, HailAgain, Board, GetOut, Dispatched
  <2>4. Locks'
    BY <2>1 DEF Locks
  <2>5. Trips'
    BY <2>1, <2>2, <2>3 DEF Trips
  <2>. QED BY <1>2, <2>4, <2>5, PersonPlaces
<1>3. ASSUME \/ Preempted \/ MainRuns \/ ElevatorDispatched \/ ElevatorStep
             \/ HaltTest \/ UNCHANGED vars
      PROVE  Places' /\ Locks' /\ Trips'
  <2>1. UNCHANGED <<phase, atFloor, toFloor>>
    BY <1>3 DEF Preempted, MainRuns, ElevatorDispatched, ElevatorStep, HaltTest, vars, AcquireLock,
       Choose, Spin, Go, Signal, Broadcast, TakePersonLock, Unlist, Unload, Unloaded, ReleaseLock, tripVars
  <2>2. Trips'
    BY <2>1 DEF Trips
  <2>3. Locks'
    <3>1. CASE UNCHANGED <<point, elevatorFree, personFree>>
      BY <3>1 DEF Locks
    <3>2. CASE AcquireLock
      BY <3>2 DEF AcquireLock, At, Locks
    <3>3. CASE Choose \/ Spin \/ Go \/ Signal \/ Broadcast \/ Unloaded
      <4>1. UNCHANGED <<elevatorFree, personFree>>
        BY <3>3 DEF Choose, Spin, Go, Signal, Broadcast, Unloaded, lockVars
      <4>2. /\ (point \in {"acquire", "rest"}) <=> (point' \in {"acquire", "rest"})
            /\ point \notin {"unlisting", "unloading"} /\ point' \notin {"unlisting", "unloading"}
        BY <3>3 DEF Choose, Spin, Go, Signal, Broadcast, Unloaded, At
      <4>. QED BY <4>1, <4>2 DEF Locks
    <3>4. CASE TakePersonLock
      BY <3>4 DEF TakePersonLock, At, Locks
    <3>5. CASE Unlist \/ Unload
      BY <3>5 DEF Unlist, Unload, ReleasePersonLock, At, Locks
    <3>6. CASE ReleaseLock
      BY <3>6 DEF ReleaseLock, At, Locks
    <3>7. Preempted \/ MainRuns \/ ElevatorDispatched \/ HaltTest \/ UNCHANGED vars
            => UNCHANGED <<point, elevatorFree, personFree>>
      BY DEF Preempted, MainRuns, ElevatorDispatched, HaltTest, vars, lockVars
    <3>. QED BY <1>3, <3>1, <3>2, <3>3, <3>4, <3>5, <3>6, <3>7 DEF ElevatorStep
  <2>. QED BY <1>3, <2>2, <2>3, ElevatorPlaces
<1>. QED BY <1>1, <1>2, <1>3 DEF ElevatorNext, ElevatorStep, Halted

-----------------------------------------------------------------------------
(* The lists of the floors                                                 *)

\* Who waits for an event of their floor, when one more does.
LEMMA OneMoreWaits ==
    ASSUME NEW conds \in [Floor -> Seq(Person)], NEW g \in Floor, NEW p \in Person
    PROVE  \A f \in Floor :
             /\ \A q : On(q, [conds EXCEPT ![g] = Append(@, p)][f]) <=>
                         On(q, conds[f]) \/ (q = p /\ f = g)
             /\ Len([conds EXCEPT ![g] = Append(@, p)][f]) = Len(conds[f]) + (IF f = g THEN 1 ELSE 0)
<1>. SUFFICES ASSUME NEW f \in Floor
              PROVE  /\ \A q : On(q, [conds EXCEPT ![g] = Append(@, p)][f]) <=>
                                 On(q, conds[f]) \/ (q = p /\ f = g)
                     /\ Len([conds EXCEPT ![g] = Append(@, p)][f]) = Len(conds[f]) + (IF f = g THEN 1 ELSE 0)
  OBVIOUS
<1>. DEFINE e == [conds EXCEPT ![g] = Append(@, p)][f]
<1>0. conds[f] \in Seq(Person) /\ Len(conds[f]) \in Nat
  OBVIOUS
<1>1. CASE f = g
  <2>1. e = Append(conds[f], p)
    BY <1>1
  <2>. HIDE DEF e
  <2>2. \A q : On(q, e) <=> On(q, conds[f]) \/ q = p
    BY <1>0, <2>1, AppendLemma
  <2>3. Len(e) = Len(conds[f]) + 1
    BY <1>0, <2>1
  <2>4. \A q : On(q, e) <=> On(q, conds[f]) \/ (q = p /\ f = g)
    BY <1>1, <2>2
  <2>. QED BY <1>1, <2>3, <2>4 DEF e
<1>2. CASE f # g
  <2>1. e = conds[f]
    BY <1>2
  <2>. HIDE DEF e
  <2>2. \A q : On(q, e) <=> On(q, conds[f]) \/ (q = p /\ f = g)
    BY <1>2, <2>1
  <2>. QED BY <1>0, <1>2, <2>1, <2>2 DEF e
<1>. QED BY <1>1, <1>2

\* What happens to the phases: p's changes, nobody else's.
LEMMA OnlyHisPhase ==
    ASSUME Types, NEW p \in Person,
           Arrive(p) \/ HailStalls(p) \/ Hail(p) \/ HailAgain(p) \/ Board(p) \/ GetOut(p)
    PROVE  /\ \A q \in Person : q # p =>
                /\ phase'[q] = phase[q] /\ atFloor'[q] = atFloor[q] /\ toFloor'[q] = toFloor[q]
           /\ Arrive(p) => phase[p] = "absent" /\ phase'[p] = "start"
           /\ HailStalls(p) => phase[p] \in {"start", "adding"} /\ phase'[p] = "adding"
           /\ Hail(p) => /\ phase[p] \in {"start", "adding"}
                         /\ phase'[p] = IF elevatorFree THEN "entering" ELSE "hailing"
           /\ HailAgain(p) => /\ phase[p] = "hailing"
                              /\ phase'[p] = IF elevatorFree THEN "entering" ELSE "hailing"
           /\ Board(p) => /\ phase[p] \in {"entering", "boarding"}
                          /\ phase'[p] = IF elevatorFree THEN "riding" ELSE "boarding"
           /\ GetOut(p) => /\ phase[p] \in {"riding", "alighting"}
                           /\ phase'[p] = IF elevatorFree THEN "out" ELSE "alighting"
<1>1. /\ phase \in [Person -> Phase] /\ elevatorFree \in BOOLEAN
      /\ atFloor \in [Person -> Floor \cup {None}] /\ toFloor \in [Person -> Floor \cup {None}]
  BY DEF Types, ElevatorTypeOK
<1>2. CASE Arrive(p)
  BY <1>1, <1>2
  DEF Arrive, HailStalls, Hail, HailAgain, Board, GetOut, Dispatched
<1>3. CASE HailStalls(p) \/ Hail(p) \/ HailAgain(p) \/ Board(p) \/ GetOut(p)
  BY <1>1, <1>3 DEF Arrive, HailStalls, Hail, HailAgain, Board, GetOut, Dispatched, QueueForElevator,
                    WaitOn, Sleeps, tripVars
<1>. QED BY <1>2, <1>3

\* Who is dispatched is on no queue.
LEMMA DispatchedIsReady ==
    ASSUME Types, Places, Trips, NEW p \in Person,
           HailStalls(p) \/ Hail(p) \/ HailAgain(p) \/ Board(p) \/ GetOut(p)
    PROVE  /\ On(p, ready) /\ ready # << >> /\ Head(ready) = p /\ ~running
           /\ ~On(p, lockQueue) /\ ~On(p, personQueue)
           /\ \A f \in Floor : ~On(p, entering[f]) /\ ~On(p, leaving[f])
           /\ atFloor[p] \in Floor /\ toFloor[p] \in Floor
<1>1. ready # << >> /\ Head(ready) = p /\ ready \in Seq(Person \cup {elevator}) /\ ~running
  BY DEF HailStalls, Hail, HailAgain, Board, GetOut, Dispatched, Types, ElevatorTypeOK
<1>2. On(p, ready)
  BY <1>1, TailLemma
<1>. QED BY <1>1, <1>2 DEF Places, Trips

\* Who hails, as the conditions' queues tell.
LEMMA HailersOn ==
    /\ \A f \in Floor, q \in Person :
         q \in Hailers(f) <=> atFloor[q] = f /\ (phase[q] = "hailing" \/ On(q, entering[f]))
    /\ \A f \in Floor : Hailers(f) \subseteq Person
BY DEF Hailers, On

\* Only Hail makes one person more hail.
LEMMA PersonHails ==
    ASSUME Types, Places, Trips, NEW p \in Person,
           Arrive(p) \/ HailStalls(p) \/ Hail(p) \/ HailAgain(p) \/ Board(p) \/ GetOut(p)
    PROVE  \A f \in Floor :
             /\ ~(Hail(p) /\ f = atFloor[p]) => Hailers(f)' = Hailers(f)
             /\ Hail(p) /\ f = atFloor[p] => Hailers(f)' = Hailers(f) \cup {p} /\ p \notin Hailers(f)
<1>. SUFFICES ASSUME NEW f \in Floor
              PROVE  /\ ~(Hail(p) /\ f = atFloor[p]) => Hailers(f)' = Hailers(f)
                     /\ Hail(p) /\ f = atFloor[p] => Hailers(f)' = Hailers(f) \cup {p} /\ p \notin Hailers(f)
  OBVIOUS
<1>0. /\ entering \in [Floor -> Seq(Person)] /\ elevatorFree \in BOOLEAN
      /\ phase \in [Person -> Phase]
  BY DEF Types, ElevatorTypeOK
<1>1. /\ \A q \in Person :
           q \in Hailers(f) <=> atFloor[q] = f /\ (phase[q] = "hailing" \/ On(q, entering[f]))
      /\ Hailers(f) \subseteq Person
  BY HailersOn
<1>2. /\ \A q \in Person :
           q \in Hailers(f)' <=> atFloor'[q] = f /\ (phase'[q] = "hailing" \/ On(q, entering'[f]))
      /\ Hailers(f)' \subseteq Person
  BY DEF Hailers, On
<1>. HIDE DEF Hailers
<1>3. \A q \in Person : q # p => phase'[q] = phase[q] /\ atFloor'[q] = atFloor[q]
  BY OnlyHisPhase
<1>4. CASE Arrive(p) \/ HailStalls(p) \/ Board(p) \/ GetOut(p)
  <2>1. entering' = entering
    BY <1>4 DEF Arrive, HailStalls, Board, GetOut, condVars
  <2>2. ~On(p, entering[f])
    BY <1>4, DispatchedIsReady, OnlyHisPhase DEF Places
  <2>3. phase[p] # "hailing" /\ phase'[p] # "hailing" /\ ~Hail(p)
    <3>1. CASE Arrive(p)
      BY <3>1, OnlyHisPhase DEF Arrive, Hail, Dispatched
    <3>2. CASE HailStalls(p)
      BY <3>2, OnlyHisPhase DEF HailStalls, Hail
    <3>3. CASE Board(p)
      BY <1>0, <3>3, OnlyHisPhase DEF Board, Hail, Dispatched
    <3>4. CASE GetOut(p)
      BY <1>0, <3>4, OnlyHisPhase DEF GetOut, Hail, Dispatched
    <3>. QED BY <1>4, <3>1, <3>2, <3>3, <3>4
  <2>4. \A q \in Person : q \in Hailers(f)' <=> q \in Hailers(f)
    BY <1>1, <1>2, <1>3, <2>1, <2>2, <2>3
  <2>. QED BY <1>1, <1>2, <2>3, <2>4
<1>5. CASE Hail(p) \/ HailAgain(p)
  <2>1. /\ atFloor' = atFloor /\ atFloor[p] \in Floor
        /\ ~On(p, entering[f])
    BY <1>5, DispatchedIsReady DEF Hail, HailAgain, tripVars
  <2>2. phase'[p] = "hailing" \/ (phase'[p] = "entering" /\ On(p, entering'[atFloor[p]]))
    <3>1. CASE elevatorFree
      <4>1. entering' = [entering EXCEPT ![atFloor[p]] = Append(@, p)]
        BY <1>5, <3>1 DEF Hail, HailAgain, QueueForElevator
      <4>2. On(p, entering'[atFloor[p]])
        BY <1>0, <2>1, <4>1, OneMoreWaits
      <4>. QED BY <1>5, <3>1, <4>2, OnlyHisPhase
    <3>2. CASE ~elevatorFree
      BY <1>5, <3>2, OnlyHisPhase
    <3>. QED BY <3>1, <3>2
  <2>3. \A q \in Person : q # p => (On(q, entering'[f]) <=> On(q, entering[f]))
    <3>1. CASE elevatorFree
      <4>1. entering' = [entering EXCEPT ![atFloor[p]] = Append(@, p)]
        BY <1>5, <3>1 DEF Hail, HailAgain, QueueForElevator
      <4>2. \A q : On(q, entering'[f]) <=> On(q, entering[f]) \/ (q = p /\ f = atFloor[p])
        BY <1>0, <2>1, <4>1, OneMoreWaits
      <4>. QED BY <4>2
    <3>2. CASE ~elevatorFree
      <4>1. entering' = entering
        BY <1>5, <3>2 DEF Hail, HailAgain, WaitOn
      <4>. QED BY <4>1
    <3>. QED BY <3>1, <3>2
  <2>4. \A q \in Person : q # p => (q \in Hailers(f)' <=> q \in Hailers(f))
    BY <1>1, <1>2, <1>3, <2>3
  <2>5. p \in Hailers(f)' <=> atFloor[p] = f
    BY <1>2, <2>1, <2>2
  <2>6. p \in Hailers(f) <=> atFloor[p] = f /\ phase[p] = "hailing"
    BY <1>1, <2>1
  <2>7. CASE Hail(p)
    <3>1. phase[p] # "hailing"
      BY <2>7, OnlyHisPhase
    <3>. QED BY <1>1, <1>2, <2>4, <2>5, <2>6, <2>7, <3>1
  <2>8. CASE HailAgain(p)
    <3>1. phase[p] = "hailing" /\ ~Hail(p)
      BY <2>8, OnlyHisPhase DEF Hail, Dispatched
    <3>. QED BY <1>1, <1>2, <2>4, <2>5, <2>6, <3>1
  <2>. QED BY <1>5, <2>7, <2>8
<1>. QED BY <1>4, <1>5

\* A person's step keeps the lists exact.
LEMMA PersonLists ==
    ASSUME IsFiniteSet(Person), Types, Locks, Places, Trips, ListsInv, NEW p \in Person,
           Arrive(p) \/ HailStalls(p) \/ Hail(p) \/ HailAgain(p) \/ Board(p) \/ GetOut(p)
    PROVE  ListsInv'
<1>0. /\ listEntering \in [Floor -> SUBSET Person] /\ listLeaving \in [Floor -> SUBSET Person]
      /\ leaving \in [Floor -> Seq(Person)] /\ elevatorFree \in BOOLEAN /\ count \in Nat
      /\ phase \in [Person -> Phase]
  BY DEF Types, ElevatorTypeOK
<1>1. /\ Listed /\ EnteringExact /\ LeavingExact /\ CountExact
  BY DEF ListsInv
<1>2. UNCHANGED <<point, count, currentFloor>>
  BY DEF Arrive, HailStalls, Hail, HailAgain, Board, GetOut, carVars
<1>3. /\ \A q \in Person : q # p => phase'[q] = phase[q]
      /\ \A f \in Floor : listEntering[f] \subseteq Person /\ listLeaving[f] \subseteq Person
      /\ \A S \in SUBSET Person : IsFiniteSet(S) /\ Cardinality(S) \in Nat
  BY <1>0, OnlyHisPhase, FS_Subset, FS_CardinalityType
<1>4. \A f \in Floor :
        /\ ~(Hail(p) /\ f = atFloor[p]) => listEntering'[f] = listEntering[f]
        /\ Hail(p) /\ f = atFloor[p] => listEntering'[f] = listEntering[f] \cup {p} /\ p \notin listEntering[f]
  <2>1. CASE Hail(p)
    <3>1. listEntering' = [listEntering EXCEPT ![atFloor[p]] = @ \cup {p}] /\ phase[p] \in {"start", "adding"}
      BY <2>1, OnlyHisPhase DEF Hail
    <3>. QED BY <1>0, <1>1, <2>1, <3>1 DEF Listed
  <2>2. CASE ~Hail(p)
    BY <2>2 DEF Arrive, HailStalls, HailAgain, Board, GetOut, listVars
  <2>. QED BY <2>1, <2>2
<1>5. \A f \in Floor :
        /\ ~(Board(p) /\ elevatorFree /\ f = toFloor[p]) =>
             listLeaving'[f] = listLeaving[f] /\ leaving'[f] = leaving[f]
        /\ Board(p) /\ elevatorFree /\ f = toFloor[p] =>
             /\ listLeaving'[f] = listLeaving[f] \cup {p} /\ p \notin listLeaving[f]
             /\ Len(leaving'[f]) = Len(leaving[f]) + 1
  <2>1. CASE Board(p) /\ elevatorFree
    <3>1. /\ listLeaving' = [listLeaving EXCEPT ![toFloor[p]] = @ \cup {p}]
          /\ leaving' = [leaving EXCEPT ![toFloor[p]] = Append(@, p)]
          /\ phase[p] \in {"entering", "boarding"} /\ toFloor[p] \in Floor
      BY <2>1, OnlyHisPhase, DispatchedIsReady DEF Board, QueueForElevator
    <3>2. \A f \in Floor : Len(leaving'[f]) = Len(leaving[f]) + (IF f = toFloor[p] THEN 1 ELSE 0)
      BY <1>0, <3>1, OneMoreWaits
    <3>3. \A f \in Floor : f # toFloor[p] => listLeaving'[f] = listLeaving[f] /\ leaving'[f] = leaving[f]
      BY <1>0, <3>1
    <3>4. \A f \in Floor : f = toFloor[p] => listLeaving'[f] = listLeaving[f] \cup {p} /\ p \notin listLeaving[f]
      BY <1>0, <1>1, <3>1 DEF Listed
    <3>. QED BY <2>1, <3>2, <3>3, <3>4
  <2>2. CASE ~(Board(p) /\ elevatorFree)
    <3>1. listLeaving' = listLeaving /\ leaving' = leaving
      BY <2>2 DEF Arrive, HailStalls, Hail, HailAgain, Board, GetOut, WaitOn, listVars, condVars
    <3>. QED BY <2>2, <3>1
  <2>. QED BY <2>1, <2>2
<1>6. Listed'
  <2>1. ASSUME NEW f \in Floor, NEW q \in listEntering'[f]
        PROVE  phase'[q] \notin {"absent", "start", "adding"}
    <3>1. CASE q # p
      <4>1. q \in listEntering[f] /\ q \in Person
        BY <1>3, <1>4, <2>1, <3>1
      <4>. QED BY <1>1, <1>3, <3>1, <4>1 DEF Listed
    <3>2. CASE q = p /\ Hail(p)
      BY <3>2, OnlyHisPhase
    <3>3. CASE q = p /\ ~Hail(p)
      <4>1. p \in listEntering[f]
        BY <1>4, <2>1, <3>3
      <4>2. phase[p] \notin {"absent", "start", "adding"}
        BY <1>1, <4>1 DEF Listed
      <4>3. HailAgain(p) \/ Board(p) \/ GetOut(p)
        BY <3>3, <4>2, OnlyHisPhase
      <4>. QED BY <1>0, <3>3, <4>3, OnlyHisPhase
    <3>. QED BY <3>1, <3>2, <3>3
  <2>2. ASSUME NEW f \in Floor, NEW q \in listLeaving'[f]
        PROVE  phase'[q] \in {"riding", "alighting", "out"}
    <3>1. CASE q # p
      <4>1. q \in listLeaving[f] /\ q \in Person
        BY <1>3, <1>5, <2>2, <3>1
      <4>. QED BY <1>1, <1>3, <3>1, <4>1 DEF Listed
    <3>2. CASE q = p /\ Board(p) /\ elevatorFree
      BY <3>2, OnlyHisPhase
    <3>3. CASE q = p /\ ~(Board(p) /\ elevatorFree)
      <4>1. p \in listLeaving[f]
        BY <1>5, <2>2, <3>3
      <4>2. phase[p] \in {"riding", "alighting", "out"}
        BY <1>1, <4>1 DEF Listed
      <4>3. GetOut(p)
        BY <4>2, OnlyHisPhase
      <4>. QED BY <1>0, <3>3, <4>3, OnlyHisPhase
    <3>. QED BY <3>1, <3>2, <3>3
  <2>. QED BY <2>1, <2>2 DEF Listed
<1>7. EnteringExact'
  <2>. SUFFICES ASSUME NEW f \in Floor
                PROVE  Cardinality(listEntering'[f]) = Cardinality(Hailers(f)')
                         + (IF point \in {"unlist", "unlisting"} /\ f = currentFloor THEN 1 ELSE 0)
    BY <1>2 DEF EnteringExact
  <2>0. Cardinality(listEntering[f]) = Cardinality(Hailers(f))
          + (IF point \in {"unlist", "unlisting"} /\ f = currentFloor THEN 1 ELSE 0)
    BY <1>1 DEF EnteringExact
  <2>1. CASE Hail(p) /\ f = atFloor[p]
    <3>1. Hailers(f)' = Hailers(f) \cup {p} /\ p \notin Hailers(f) /\ Hailers(f) \subseteq Person
      BY <2>1, PersonHails, HailersOn
    <3>2. Cardinality(Hailers(f)') = Cardinality(Hailers(f)) + 1
      BY <1>3, <3>1, FS_AddElement
    <3>3. Cardinality(listEntering'[f]) = Cardinality(listEntering[f]) + 1
      BY <1>3, <1>4, <2>1, FS_AddElement
    <3>. QED BY <1>3, <2>0, <3>1, <3>2, <3>3
  <2>2. CASE ~(Hail(p) /\ f = atFloor[p])
    BY <1>4, <2>0, <2>2, PersonHails
  <2>. QED BY <2>1, <2>2
<1>8. LeavingExact'
  <2>. SUFFICES ASSUME NEW f \in Floor
                PROVE  Cardinality(listLeaving'[f]) = Len(leaving'[f])
                         + (IF point \in {"broadcast", "unload", "unloading"} /\ f = currentFloor
                              THEN count ELSE 0)
    BY <1>2 DEF LeavingExact
  <2>0. /\ Cardinality(listLeaving[f]) = Len(leaving[f])
             + (IF point \in {"broadcast", "unload", "unloading"} /\ f = currentFloor
                  THEN count ELSE 0)
        /\ Len(leaving[f]) \in Nat
    BY <1>0, <1>1 DEF LeavingExact
  <2>1. CASE Board(p) /\ elevatorFree /\ f = toFloor[p]
    <3>1. Cardinality(listLeaving'[f]) = Cardinality(listLeaving[f]) + 1
      BY <1>3, <1>5, <2>1, FS_AddElement
    <3>2. Len(leaving'[f]) = Len(leaving[f]) + 1
      BY <1>5, <2>1
    <3>3. point \notin {"broadcast", "unload", "unloading"}
      BY <2>1 DEF Locks
    <3>4. Cardinality(listLeaving[f]) = Len(leaving[f])
      BY <2>0, <3>3
    <3>. QED BY <3>1, <3>2, <3>3, <3>4
  <2>2. CASE ~(Board(p) /\ elevatorFree /\ f = toFloor[p])
    BY <1>5, <2>0, <2>2
  <2>. QED BY <2>1, <2>2
<1>9. CountExact'
  <2>1. CASE elevatorFree
    BY <1>1, <1>2, <2>1 DEF CountExact, Locks
  <2>2. CASE ~elevatorFree
    <3>1. \A f \in Floor : leaving'[f] = leaving[f]
      BY <1>5, <2>2
    <3>2. currentFloor \in Floor
      BY DEF Types, ElevatorTypeOK
    <3>. QED BY <1>1, <1>2, <3>1, <3>2 DEF CountExact
  <2>. QED BY <2>1, <2>2
<1>. QED BY <1>6, <1>7, <1>8, <1>9 DEF ListsInv

\* The elevator's step keeps the lists exact.
LEMMA ElevatorLists ==
    ASSUME IsFiniteSet(Person), Types, Locks, Places, Trips, ListsInv,
           \/ Preempted \/ MainRuns \/ ElevatorDispatched \/ ElevatorStep
           \/ HaltTest \/ UNCHANGED vars
    PROVE  ListsInv'
<1>0. /\ listEntering \in [Floor -> SUBSET Person] /\ listLeaving \in [Floor -> SUBSET Person]
      /\ entering \in [Floor -> Seq(Person)] /\ leaving \in [Floor -> Seq(Person)]
      /\ count \in Nat /\ currentFloor \in Floor
  BY DEF Types, ElevatorTypeOK
<1>1. /\ Listed /\ EnteringExact /\ LeavingExact /\ CountExact
  BY DEF ListsInv
<1>2. phase' = phase /\ atFloor' = atFloor
  BY DEF Preempted, MainRuns, ElevatorDispatched, ElevatorStep, HaltTest, vars, AcquireLock, Choose,
     Spin, Go, Signal, Broadcast, TakePersonLock, Unlist, Unload, Unloaded, ReleaseLock, tripVars
<1>3. \A S \in SUBSET Person : IsFiniteSet(S) /\ Cardinality(S) \in Nat
  BY FS_Subset, FS_CardinalityType
<1>4. \A f \in Floor : Cardinality(listEntering[f]) = Cardinality(Hailers(f))
        + (IF point \in {"unlist", "unlisting"} /\ f = currentFloor THEN 1 ELSE 0)
  BY <1>1 DEF EnteringExact
<1>5. \A f \in Floor : Cardinality(listLeaving[f]) = Len(leaving[f])
        + (IF point \in {"broadcast", "unload", "unloading"} /\ f = currentFloor THEN count ELSE 0)
  BY <1>1 DEF LeavingExact
<1>6. \A f \in Floor : Hailers(f) \subseteq Person
  BY HailersOn
<1>a. UNCHANGED <<entering>> => \A f \in Floor : Hailers(f)' = Hailers(f)
  BY <1>2 DEF Hailers
<1>. HIDE DEF Hailers
<1>b. UNCHANGED listVars => Listed'
  BY <1>1, <1>2 DEF Listed, listVars
<1>7. CASE UNCHANGED <<listVars, condVars, point, count, currentFloor>>
  <2>1. EnteringExact'
    BY <1>4, <1>7, <1>a DEF EnteringExact, listVars, condVars
  <2>2. LeavingExact'
    BY <1>5, <1>7 DEF LeavingExact, listVars, condVars
  <2>3. CountExact'
    BY <1>1, <1>7 DEF CountExact, condVars
  <2>. QED BY <1>7, <1>b, <2>1, <2>2, <2>3 DEF ListsInv
<1>8. CASE AcquireLock \/ Choose \/ Spin \/ Go \/ TakePersonLock \/ Unloaded \/ ReleaseLock
  <2>1. UNCHANGED <<listEntering, listLeaving, entering, leaving>>
    BY <1>8 DEF AcquireLock, Choose, Spin, Go, TakePersonLock, Unloaded, ReleaseLock, listVars, condVars
  <2>2. \A f \in Floor : (point \in {"unlist", "unlisting"} /\ f = currentFloor)
                           <=> (point' \in {"unlist", "unlisting"} /\ f = currentFloor')
    BY <1>8 DEF AcquireLock, Choose, Spin, Go, TakePersonLock, Unloaded, ReleaseLock, At, carVars
  <2>3. EnteringExact'
    BY <1>4, <1>a, <2>1, <2>2 DEF EnteringExact
  <2>4. \A f \in Floor :
          (IF point' \in {"broadcast", "unload", "unloading"} /\ f = currentFloor' THEN count' ELSE 0)
            = (IF point \in {"broadcast", "unload", "unloading"} /\ f = currentFloor THEN count ELSE 0)
    <3>1. CASE AcquireLock \/ Choose \/ Spin \/ ReleaseLock
      BY <3>1 DEF AcquireLock, Choose, Spin, ReleaseLock, At
    <3>2. CASE Go
      <4>1. count' = 0 /\ point = "go"
        BY <1>1, <3>2 DEF Go, At, CountExact
      <4>. QED BY <4>1
    <3>3. CASE TakePersonLock
      BY <3>3 DEF TakePersonLock, At, carVars
    <3>4. CASE Unloaded
      BY <3>4 DEF Unloaded, At
    <3>. QED BY <1>8, <3>1, <3>2, <3>3, <3>4
  <2>5. LeavingExact'
    BY <1>5, <2>1, <2>4 DEF LeavingExact
  <2>6. CountExact'
    <3>1. CASE AcquireLock \/ Choose \/ ReleaseLock
      BY <1>1, <3>1 DEF AcquireLock, Choose, ReleaseLock, At, CountExact
    <3>2. CASE Spin
      BY <1>1, <3>2 DEF Spin, At, CountExact
    <3>3. CASE Go
      BY <3>3 DEF Go, CountExact
    <3>4. CASE TakePersonLock
      BY <1>1, <2>1, <3>4 DEF TakePersonLock, At, CountExact, carVars
    <3>5. CASE Unloaded
      BY <3>5 DEF Unloaded, CountExact
    <3>. QED BY <1>8, <3>1, <3>2, <3>3, <3>4, <3>5
  <2>. QED BY <1>b, <2>1, <2>3, <2>5, <2>6 DEF ListsInv, listVars
<1>9. CASE Signal
  <2>0. UNCHANGED <<listEntering, listLeaving, leaving, count, currentFloor>> /\ point = "signal"
    BY <1>9 DEF Signal, listVars, At
  <2>1. Listed' /\ LeavingExact' /\ CountExact'
    BY <1>1, <1>5, <1>9, <1>b, <2>0 DEF Signal, LeavingExact, CountExact, listVars
  <2>2. CASE entering' = entering /\ point' = "release"
    BY <1>4, <1>a, <2>0, <2>1, <2>2 DEF EnteringExact, ListsInv
  <2>3. CASE /\ entering[currentFloor] # << >> /\ point' = "unlist"
             /\ entering' = [entering EXCEPT ![currentFloor] = Tail(@)]
    <3>. DEFINE h == Head(entering[currentFloor])
    <3>1. /\ h \in Person /\ On(h, entering[currentFloor])
          /\ ~On(h, Tail(entering[currentFloor]))
          /\ \A q : q # h => (On(q, Tail(entering[currentFloor])) <=> On(q, entering[currentFloor]))
      BY <1>0, <2>3, TailLemma DEF Places
    <3>. HIDE DEF h
    <3>2. /\ entering'[currentFloor] = Tail(entering[currentFloor])
          /\ \A f \in Floor : f # currentFloor => entering'[f] = entering[f]
      BY <1>0, <2>3
    <3>3. phase[h] = "entering" /\ atFloor[h] = currentFloor
      BY <1>0, <3>1 DEF Places
    <3>4. \A f \in Floor, q \in Person :
            /\ q \in Hailers(f) <=> atFloor[q] = f /\ (phase[q] = "hailing" \/ On(q, entering[f]))
            /\ q \in Hailers(f)' <=> atFloor[q] = f /\ (phase[q] = "hailing" \/ On(q, entering'[f]))
      BY <1>2 DEF Hailers, On
    <3>5. \A f \in Floor : Hailers(f)' \subseteq Person
      BY DEF Hailers
    <3>6. \A f \in Floor : f # currentFloor => Hailers(f)' = Hailers(f)
      BY <1>6, <3>2, <3>4, <3>5
    <3>7. PICK c \in Floor : c = currentFloor
      BY <1>0
    <3>8. Hailers(c)' = Hailers(c) \ {h} /\ h \in Hailers(c)
      <4>1. /\ \A q \in Person :
                 /\ q \in Hailers(c) <=> atFloor[q] = c /\ (phase[q] = "hailing" \/ On(q, entering[c]))
                 /\ q \in Hailers(c)' <=> atFloor[q] = c /\ (phase[q] = "hailing" \/ On(q, entering'[c]))
            /\ Hailers(c)' \subseteq Person /\ Hailers(c) \subseteq Person
        BY <1>6, <3>4, <3>5
      <4>2. h \in Hailers(c)
        BY <3>1, <3>3, <3>7, <4>1
      <4>3. \A q \in Person : q \in Hailers(c)' <=> q \in Hailers(c) /\ q # h
        BY <3>1, <3>2, <3>3, <3>7, <4>1
      <4>. QED BY <4>1, <4>2, <4>3
    <3>9. /\ Cardinality(Hailers(c)') = Cardinality(Hailers(c)) - 1
          /\ \A f \in Floor : Cardinality(Hailers(f)) \in Nat
      BY <1>3, <1>6, <3>8, FS_RemoveElement
    <3>10. ASSUME NEW f \in Floor
           PROVE  Cardinality(listEntering[f]) = Cardinality(Hailers(f)')
                    + (IF f = currentFloor THEN 1 ELSE 0)
      <4>1. Cardinality(listEntering[f]) = Cardinality(Hailers(f)) /\ Cardinality(Hailers(f)) \in Nat
        BY <1>4, <2>0, <3>9
      <4>2. CASE f = c
        BY <3>7, <3>9, <4>1, <4>2
      <4>3. CASE f # c
        BY <3>6, <3>7, <4>1, <4>3
      <4>. QED BY <4>2, <4>3
    <3>11. EnteringExact'
      BY <2>0, <2>3, <3>10 DEF EnteringExact
    <3>. QED BY <2>1, <3>11 DEF ListsInv
  <2>. QED BY <1>9, <2>2, <2>3 DEF Signal
<1>10. CASE Broadcast
  <2>0. UNCHANGED <<listEntering, listLeaving, entering, currentFloor>> /\ point = "broadcast"
    BY <1>10 DEF Broadcast, listVars, carVars, At
  <2>1. Listed' /\ EnteringExact'
    BY <1>1, <1>4, <1>10, <1>a, <1>b, <2>0 DEF Broadcast, EnteringExact, listVars
  <2>2. CASE leaving' = leaving /\ leaving[currentFloor] = << >> /\ count' = count /\ point' = "unload"
    <3>1. LeavingExact'
      BY <1>5, <2>0, <2>2 DEF LeavingExact
    <3>2. CountExact'
      BY <2>0, <2>2 DEF CountExact
    <3>. QED BY <2>1, <3>1, <3>2 DEF ListsInv
  <2>3. CASE /\ leaving[currentFloor] # << >> /\ count' = count + 1 /\ point' = point
             /\ leaving' = [leaving EXCEPT ![currentFloor] = Tail(@)]
    <3>1. /\ Len(leaving'[currentFloor]) = Len(leaving[currentFloor]) - 1
          /\ \A f \in Floor : f # currentFloor => leaving'[f] = leaving[f]
          /\ \A f \in Floor : Len(leaving[f]) \in Nat
      BY <1>0, <2>3
    <3>2. LeavingExact'
      BY <1>0, <1>5, <2>0, <2>3, <3>1 DEF LeavingExact
    <3>3. CountExact'
      BY <2>0, <2>3 DEF CountExact
    <3>. QED BY <2>1, <3>2, <3>3 DEF ListsInv
  <2>. QED BY <1>10, <2>2, <2>3 DEF Broadcast
<1>11. CASE Unlist
  <2>0. /\ UNCHANGED <<listLeaving, entering, leaving, currentFloor, count>>
        /\ point = "unlisting" /\ point' = "signal"
    BY <1>11 DEF Unlist, condVars, At
  <2>1. PICK p \in listEntering[currentFloor] :
          listEntering' = [listEntering EXCEPT ![currentFloor] = @ \ {p}]
    BY <1>11 DEF Unlist
  <2>2. /\ listEntering'[currentFloor] = listEntering[currentFloor] \ {p}
        /\ \A f \in Floor : f # currentFloor => listEntering'[f] = listEntering[f]
    BY <1>0, <2>1
  <2>3. /\ Cardinality(listEntering'[currentFloor]) = Cardinality(listEntering[currentFloor]) - 1
        /\ \A f \in Floor : Cardinality(Hailers(f)) \in Nat
    BY <1>0, <1>3, <1>6, <2>1, <2>2, FS_RemoveElement
  <2>4. EnteringExact'
    <3>1. ASSUME NEW f \in Floor
          PROVE  Cardinality(listEntering'[f]) = Cardinality(Hailers(f)')
      <4>1. Hailers(f)' = Hailers(f) /\ Cardinality(Hailers(f)) \in Nat
        BY <1>a, <2>0, <2>3
      <4>2. CASE f = currentFloor
        BY <1>4, <2>0, <2>3, <4>1, <4>2
      <4>3. CASE f # currentFloor
        BY <1>4, <2>0, <2>2, <4>1, <4>3
      <4>. QED BY <4>2, <4>3
    <3>2. \A f \in Floor : Cardinality(Hailers(f)') \in Nat
      BY <1>a, <2>0, <2>3
    <3>. QED BY <2>0, <3>1, <3>2 DEF EnteringExact
  <2>5. Listed'
    BY <1>0, <1>1, <1>2, <2>0, <2>2 DEF Listed
  <2>6. LeavingExact' /\ CountExact'
    BY <1>1, <1>5, <2>0 DEF LeavingExact, CountExact
  <2>. QED BY <2>4, <2>5, <2>6 DEF ListsInv
<1>12. CASE Unload
  <2>0. /\ UNCHANGED <<listEntering, entering, leaving, currentFloor>>
        /\ point = "unloading" /\ point' = "unload" /\ count' = count - 1
    BY <1>12 DEF Unload, condVars, carVars, At
  <2>1. PICK p \in listLeaving[currentFloor] :
          listLeaving' = [listLeaving EXCEPT ![currentFloor] = @ \ {p}]
    BY <1>12 DEF Unload
  <2>2. /\ listLeaving'[currentFloor] = listLeaving[currentFloor] \ {p}
        /\ \A f \in Floor : f # currentFloor => listLeaving'[f] = listLeaving[f]
    BY <1>0, <2>1
  <2>3. Cardinality(listLeaving'[currentFloor]) = Cardinality(listLeaving[currentFloor]) - 1
    <3>1. IsFiniteSet(listLeaving[currentFloor])
      BY <1>0, <1>3
    <3>. QED BY <2>1, <2>2, <3>1, FS_RemoveElement
  <2>l. \A f \in Floor : Len(leaving[f]) \in Nat
    BY <1>0
  <2>4. LeavingExact'
    <3>1. ASSUME NEW f \in Floor
          PROVE  Cardinality(listLeaving'[f]) = Len(leaving[f]) + (IF f = currentFloor THEN count' ELSE 0)
      <4>1. CASE f = currentFloor
        BY <1>0, <1>5, <2>0, <2>3, <2>l, <4>1
      <4>2. CASE f # currentFloor
        BY <1>5, <2>0, <2>2, <4>2
      <4>. QED BY <4>1, <4>2
    <3>. QED BY <2>0, <3>1 DEF LeavingExact
  <2>5. Listed'
    BY <1>0, <1>1, <1>2, <2>0, <2>2 DEF Listed
  <2>6. EnteringExact' /\ CountExact'
    BY <1>1, <1>4, <1>a, <2>0 DEF EnteringExact, CountExact
  <2>. QED BY <2>4, <2>5, <2>6 DEF ListsInv
<1>13. Preempted \/ MainRuns \/ ElevatorDispatched \/ HaltTest \/ UNCHANGED vars
         => UNCHANGED <<listVars, condVars, point, count, currentFloor>>
  BY DEF Preempted, MainRuns, ElevatorDispatched, HaltTest, vars, carVars
<1>. QED BY <1>7, <1>8, <1>9, <1>10, <1>11, <1>12, <1>13 DEF ElevatorStep

-----------------------------------------------------------------------------
(* What the lists say is true, whatever the delays                         *)

\* Who is inside rides or is about to alight.
LEMMA InsideStep == Types /\ Inside /\ [ElevatorNext]_vars => Inside'
<1>. SUFFICES ASSUME Types, Inside, [ElevatorNext]_vars PROVE Inside'
  OBVIOUS
<1>t. phase \in [Person -> Phase] /\ elevatorFree \in BOOLEAN /\ personsOn \subseteq Person
  BY DEF Types, ElevatorTypeOK
<1>1. ASSUME NEW p \in Person,
             Arrive(p) \/ HailStalls(p) \/ Hail(p) \/ HailAgain(p) \/ Board(p) \/ GetOut(p)
      PROVE  Inside'
  <2>1. \A q \in Person : q # p => phase'[q] = phase[q]
    BY <1>1, OnlyHisPhase
  <2>2. CASE Arrive(p) \/ HailStalls(p) \/ Hail(p) \/ HailAgain(p)
    <3>1. personsOn' = personsOn
      BY <2>2 DEF Arrive, HailStalls, Hail, HailAgain, crowdVars
    <3>2. phase[p] \notin {"riding", "alighting"} /\ phase'[p] \notin {"riding", "alighting"}
      BY <1>t, <2>2, OnlyHisPhase
    <3>. QED BY <2>1, <3>1, <3>2 DEF Inside
  <2>3. CASE Board(p)
    <3>1. /\ phase[p] \notin {"riding", "alighting"}
          /\ phase'[p] = IF elevatorFree THEN "riding" ELSE "boarding"
      BY <2>3, OnlyHisPhase
    <3>2. personsOn' = IF elevatorFree THEN personsOn \cup {p} ELSE personsOn
      BY <2>3 DEF Board, QueueForElevator, WaitOn, crowdVars
    <3>. QED BY <1>t, <2>1, <3>1, <3>2 DEF Inside
  <2>4. CASE GetOut(p)
    <3>1. /\ phase[p] \in {"riding", "alighting"}
          /\ phase'[p] = IF elevatorFree THEN "out" ELSE "alighting"
      BY <2>4, OnlyHisPhase
    <3>2. personsOn' = IF elevatorFree THEN personsOn \ {p} ELSE personsOn
      BY <2>4 DEF GetOut, QueueForElevator, WaitOn, crowdVars
    <3>. QED BY <1>t, <2>1, <3>1, <3>2 DEF Inside
  <2>. QED BY <1>1, <2>2, <2>3, <2>4
<1>2. ASSUME UNCHANGED <<phase, personsOn>> PROVE Inside'
  BY <1>2 DEF Inside
<1>3. \/ Preempted \/ MainRuns \/ ElevatorDispatched \/ ElevatorStep \/ HaltTest \/ UNCHANGED vars
      => UNCHANGED <<phase, personsOn>>
  BY DEF Preempted, MainRuns, ElevatorDispatched, ElevatorStep, HaltTest, vars, AcquireLock, Choose,
     Spin, Go, Signal, Broadcast, TakePersonLock, Unlist, Unload, Unloaded, ReleaseLock, crowdVars
<1>. QED BY <1>1, <1>2, <1>3 DEF ElevatorNext, ElevatorStep, Halted

\* BaseInv and ListsInv are inductive.
LEMMA ListsStep ==
    ASSUME IsFiniteSet(Person)
    PROVE  BaseInv /\ ListsInv /\ [ElevatorNext]_vars => BaseInv' /\ ListsInv'
<1>. SUFFICES ASSUME BaseInv, ListsInv, [ElevatorNext]_vars PROVE BaseInv' /\ ListsInv'
  OBVIOUS
<1>1. /\ Types /\ Locks /\ Trips /\ Places /\ Inside /\ (point = "unloading" => count > 0)
  BY DEF BaseInv, ListsInv, CountExact
<1>2. Places' /\ Locks' /\ Trips' /\ Inside'
  BY <1>1, PlacesStep, InsideStep
<1>3. CASE \E p \in Person :
             Arrive(p) \/ HailStalls(p) \/ Hail(p) \/ HailAgain(p) \/ Board(p) \/ GetOut(p)
  BY <1>1, <1>2, <1>3, PersonTypes, PersonLists DEF BaseInv
<1>4. CASE \/ Preempted \/ MainRuns \/ ElevatorDispatched \/ ElevatorStep
           \/ HaltTest \/ UNCHANGED vars
  BY <1>1, <1>2, <1>4, ElevatorTypes, ElevatorLists DEF BaseInv
<1>. QED BY <1>3, <1>4 DEF ElevatorNext, ElevatorStep, Halted

\* An empty building satisfies them.
LEMMA ListsStart ==
    ASSUME IsFiniteSet(Person)
    PROVE  ElevatorInit => BaseInv /\ ListsInv
<1>. SUFFICES ASSUME ElevatorInit PROVE BaseInv /\ ListsInv
  OBVIOUS
<1>0. \A q : ~On(q, << >>)
  BY DEF On
<1>1. Types
  <2>1. 1 \in Floor /\ elevatorDelay \in Nat /\ Garbage \subseteq Int
    BY ElevatorAssumption DEF Floor
  <2>2. personsWaiting \in [Floor -> Int] /\ occupancy \in Int
    BY <2>1 DEF ElevatorInit
  <2>3. << >> \in Seq(Person) /\ << >> \in Seq(Person \cup {elevator})
    OBVIOUS
  <2>4. /\ entering \in [Floor -> Seq(Person)] /\ leaving \in [Floor -> Seq(Person)]
        /\ listEntering \in [Floor -> SUBSET Person] /\ listLeaving \in [Floor -> SUBSET Person]
    BY <2>3 DEF ElevatorInit
  <2>5. /\ phase \in [Person -> Phase]
        /\ atFloor \in [Person -> Floor \cup {None}] /\ toFloor \in [Person -> Floor \cup {None}]
    BY DEF ElevatorInit, Phase
  <2>8. /\ o \in Int /\ count \in Nat /\ personsOn \subseteq Person /\ currentFloor \in Floor
        /\ from \in Floor \cup {None} /\ to \in Floor \cup {None}
    BY <2>1 DEF ElevatorInit
  <2>6. /\ point \in Point
        /\ elevatorFree \in BOOLEAN /\ personFree \in BOOLEAN
        /\ running \in BOOLEAN /\ halted \in BOOLEAN
    BY DEF ElevatorInit, Point
  <2>7. ready \in Seq(Person \cup {elevator}) /\ lockQueue \in Seq(Person) /\ personQueue \in Seq(Person)
    BY <2>3 DEF ElevatorInit
  <2>. QED BY <2>2, <2>4, <2>5, <2>6, <2>7, <2>8 DEF Types, ElevatorTypeOK
<1>2. Locks /\ Trips
  BY DEF ElevatorInit, Locks, Trips
<1>3. Places
  <2>1. Once(<< >>)
    BY DEF Once
  <2>2. /\ ready = << >> /\ lockQueue = << >> /\ personQueue = << >> /\ running = TRUE
        /\ \A f \in Floor : entering[f] = << >> /\ leaving[f] = << >>
        /\ \A p \in Person : phase[p] = "absent"
    BY DEF ElevatorInit
  <2>. QED BY <1>0, <2>1, <2>2 DEF Places
<1>4. Inside
  BY DEF ElevatorInit, Inside
<1>5. ListsInv
  <2>1. \A f \in Floor : Hailers(f) = {}
    BY <1>0, HailersOn DEF ElevatorInit
  <2>2. \A f \in Floor : listEntering[f] = {} /\ listLeaving[f] = {} /\ leaving[f] = << >>
    BY DEF ElevatorInit
  <2>3. Cardinality({}) = 0
    BY FS_EmptySet
  <2>4. point = "acquire" /\ count = 0
    BY DEF ElevatorInit
  <2>5. Listed /\ CountExact
    BY <2>2, <2>4 DEF Listed, CountExact
  <2>6. ASSUME NEW f \in Floor
        PROVE  /\ Cardinality(listEntering[f]) = Cardinality(Hailers(f))
               /\ Cardinality(listLeaving[f]) = 0 /\ Len(leaving[f]) = 0
               /\ Cardinality(Hailers(f)) = 0
    <3>1. Len(leaving[f]) = 0
      BY <2>2
    <3>. QED BY <2>1, <2>2, <2>3, <3>1
  <2>7. EnteringExact
    <3>. SUFFICES ASSUME NEW f \in Floor
                  PROVE  Cardinality(listEntering[f]) = Cardinality(Hailers(f)) + 0
      BY <2>4 DEF EnteringExact
    <3>. QED BY <2>6
  <2>8. LeavingExact
    <3>. SUFFICES ASSUME NEW f \in Floor
                  PROVE  Cardinality(listLeaving[f]) = Len(leaving[f]) + 0
      BY <2>4 DEF LeavingExact
    <3>. QED BY <2>6
  <2>. QED BY <2>5, <2>7, <2>8 DEF ListsInv
<1>. QED BY <1>1, <1>2, <1>3, <1>4, <1>5 DEF BaseInv

\* Between two rounds the elevator's lists say who is where, for any delays, any
\* scheduling and whatever the counters start from: the ASSERT(found)s of start()
\* and the errands of getFloor.
THEOREM ListsAreTrue ==
    ASSUME IsFiniteSet(Person)
    PROVE  ElevatorSpec => [](ElevatorTypeOK /\ ListsMatchPersons)
<1>1. BaseInv /\ ListsInv => ElevatorTypeOK /\ ListsMatchPersons
  <2>. SUFFICES ASSUME BaseInv, ListsInv PROVE ListsMatchPersons
    BY DEF BaseInv, Types
  <2>0. /\ currentFloor \in Floor /\ leaving \in [Floor -> Seq(Person)]
        /\ listEntering \in [Floor -> SUBSET Person] /\ count \in Nat
    BY DEF BaseInv, Types, ElevatorTypeOK
  <2>1. ASSUME point \in {"acquire", "choose", "spin", "go"}, NEW f \in Floor
        PROVE  /\ Cardinality(listEntering[f]) = Cardinality({p \in Person : atFloor[p] = f /\
                    (phase[p] = "hailing" \/ \E i \in DOMAIN entering[f] : entering[f][i] = p)})
               /\ Cardinality(listLeaving[f]) = Len(leaving[f])
    <3>1. /\ Cardinality(Hailers(f)) \in Nat /\ Len(leaving[f]) \in Nat
      BY <2>0, HailersOn, FS_Subset, FS_CardinalityType
    <3>2. Cardinality(listEntering[f]) = Cardinality(Hailers(f)) /\ Cardinality(listLeaving[f]) = Len(leaving[f])
      BY <2>1, <3>1 DEF ListsInv, EnteringExact, LeavingExact
    <3>. QED BY <3>2 DEF Hailers
  <2>2. point \in {"unlist", "unlisting"} => listEntering[currentFloor] # {}
    <3>. SUFFICES ASSUME point \in {"unlist", "unlisting"} PROVE Cardinality(listEntering[currentFloor]) # 0
      BY FS_EmptySet
    <3>1. Cardinality(Hailers(currentFloor)) \in Nat
      BY <2>0, HailersOn, FS_Subset, FS_CardinalityType
    <3>2. Cardinality(listEntering[currentFloor]) = Cardinality(Hailers(currentFloor)) + 1
      BY <2>0 DEF ListsInv, EnteringExact
    <3>. QED BY <3>1, <3>2
  <2>3. point \in {"unload", "unloading"} => Cardinality(listLeaving[currentFloor]) = count
    <3>. SUFFICES ASSUME point \in {"unload", "unloading"}
                  PROVE  Cardinality(listLeaving[currentFloor]) = count
      OBVIOUS
    <3>1. Cardinality(listLeaving[currentFloor]) = Len(leaving[currentFloor]) + count
      BY <2>0 DEF ListsInv, LeavingExact
    <3>2. leaving[currentFloor] = << >>
      BY DEF ListsInv, CountExact
    <3>3. Len(leaving[currentFloor]) = 0
      BY <3>2
    <3>. QED BY <2>0, <3>1, <3>3
  <2>. QED BY <2>1, <2>2, <2>3 DEF ListsMatchPersons
<1>2. ElevatorInit => BaseInv /\ ListsInv
  BY ListsStart
<1>3. BaseInv /\ ListsInv /\ [ElevatorNext]_vars => BaseInv' /\ ListsInv'
  BY ListsStep
<1>. QED BY <1>1, <1>2, <1>3, PTL DEF ElevatorSpec

-----------------------------------------------------------------------------
(* Who is on the way                                                       *)

\* Somebody else queues up behind: who is before x stays before x.
LEMMA BeforeOther ==
    ASSUME NEW S, NEW A, NEW B \in SUBSET A, NEW x, NEW list \in Seq(S), Before(A, x, list),
           NEW y \in S, y \notin A, y # x
    PROVE  Before(B, x, Append(list, y))
<1>1. /\ Len(list) \in Nat /\ DOMAIN list = 1 .. Len(list)
      /\ DOMAIN Append(list, y) = 1 .. Len(list) + 1
      /\ \A i \in 1 .. Len(list) : Append(list, y)[i] = list[i]
      /\ Append(list, y)[Len(list) + 1] = y
  OBVIOUS
<1>. SUFFICES ASSUME NEW i \in 1 .. Len(list) + 1, NEW j \in 1 .. Len(list) + 1,
                     Append(list, y)[i] \in B, Append(list, y)[j] = x
              PROVE  i < j
  BY <1>1 DEF Before
<1>2. i \in 1 .. Len(list) /\ j \in 1 .. Len(list)
  BY <1>1
<1>. QED BY <1>1, <1>2 DEF Before

\* A person who runs puts nobody on the way to a door, and is not on the way
\* any more if elevatorLock is free.
LEMMA PersonLate ==
    ASSUME Types, Places, Trips, NEW p \in Person,
           Arrive(p) \/ HailStalls(p) \/ Hail(p) \/ HailAgain(p) \/ Board(p) \/ GetOut(p)
    PROVE  /\ \A q \in Person : (Coming(q)' => Coming(q)) /\ (Going(q)' => Going(q))
           /\ elevatorFree => ~Coming(p)' /\ ~Going(p)'
           /\ Board(p) => Coming(p)
           /\ GetOut(p) => Going(p)
<1>1. ready \in Seq(Person \cup {elevator}) /\ phase \in [Person -> Phase] /\ elevatorFree \in BOOLEAN
  BY DEF Types, ElevatorTypeOK
<1>2. \A q \in Person : q # p => phase'[q] = phase[q]
  BY OnlyHisPhase
<1>3. CASE Arrive(p)
  <2>1. \A q \in Person : On(q, ready') => On(q, ready) \/ q = p
    <3>1. ready' = Append(ready, p) /\ p \in Person \cup {elevator}
      BY <1>3 DEF Arrive
    <3>. QED BY <1>1, <3>1, AppendLemma
  <2>2. phase'[p] = "start"
    BY <1>3, OnlyHisPhase
  <2>3. ~Coming(p)' /\ ~Going(p)'
    BY <2>2 DEF Coming, Going
  <2>4. \A q \in Person : q # p => (Coming(q)' => Coming(q)) /\ (Going(q)' => Going(q))
    BY <1>2, <2>1 DEF Coming, Going
  <2>5. ~Board(p) /\ ~GetOut(p)
    BY <1>3, OnlyHisPhase
  <2>. QED BY <2>3, <2>4, <2>5
<1>4. CASE HailStalls(p) \/ Hail(p) \/ HailAgain(p) \/ Board(p) \/ GetOut(p)
  <2>1. On(p, ready) /\ ready # << >> /\ p = Head(ready)
    BY <1>4, DispatchedIsReady
  <2>2. /\ ~On(p, ready')
        /\ \A q \in Person : q # p /\ phase[q] \in {"entering", "riding"} /\ On(q, ready') => On(q, ready)
    <3>1. CASE HailStalls(p)
      <4>1. ready' = Tail(ready) /\ Once(ready)
        BY <3>1 DEF HailStalls, Places
      <4>. QED BY <1>1, <2>1, <4>1, TailLemma
    <3>2. CASE Hail(p) \/ HailAgain(p) \/ Board(p) \/ GetOut(p)
      <4>1. ASSUME NEW ps, NEW next \in Phase, NEW n \in Nat, Dispatched(p, ps),
                   QueueForElevator(p, next, n) \/ WaitOn(p, next, n)
            PROVE  /\ ~On(p, ready')
                   /\ \A q \in Person : q # p /\ phase[q] \in {"entering", "riding"} /\ On(q, ready')
                                      => On(q, ready)
        <5>1. /\ ~On(p, ready')
              /\ \A q \in Person : q # p =>
                   (On(q, ready') <=> On(q, ready) \/ On(q, FirstN(personQueue, n)) \/ On(q, Woken))
              /\ \A q : On(q, FirstN(personQueue, n)) => On(q, personQueue)
              /\ \A q : On(q, Woken) => On(q, lockQueue)
          BY <1>1, <4>1, SleepsPlaces
        <5>2. \A q \in Person : /\ On(q, lockQueue) => phase[q] \in {"hailing", "boarding", "alighting"}
                                /\ On(q, personQueue) => phase[q] = "adding"
          BY DEF Places
        <5>. QED BY <5>1, <5>2
      <4>2. /\ "hailing" \in Phase /\ "entering" \in Phase /\ "boarding" \in Phase
            /\ "riding" \in Phase /\ "alighting" \in Phase /\ "out" \in Phase
        BY DEF Phase
      <4>3. CASE Hail(p)
        <5>1. /\ Dispatched(p, {"start", "adding"})
              /\ QueueForElevator(p, "hailing", 1) \/ WaitOn(p, "entering", 1)
          BY <4>3 DEF Hail
        <5>. QED BY <4>1, <4>2, <5>1
      <4>4. CASE HailAgain(p)
        <5>1. /\ Dispatched(p, {"hailing"})
              /\ QueueForElevator(p, "hailing", 0) \/ WaitOn(p, "entering", 0)
          BY <4>4 DEF HailAgain
        <5>. QED BY <4>1, <4>2, <5>1
      <4>5. CASE Board(p)
        <5>1. /\ Dispatched(p, {"entering", "boarding"})
              /\ QueueForElevator(p, "boarding", 0) \/ WaitOn(p, "riding", 2)
          BY <4>5 DEF Board
        <5>. QED BY <4>1, <4>2, <5>1
      <4>6. CASE GetOut(p)
        <5>1. /\ Dispatched(p, {"riding", "alighting"})
              /\ QueueForElevator(p, "alighting", 0) \/ WaitOn(p, "out", 1)
          BY <4>6 DEF GetOut
        <5>. QED BY <4>1, <4>2, <5>1
      <4>. QED BY <3>2, <4>3, <4>4, <4>5, <4>6
    <3>. QED BY <1>4, <3>1, <3>2
  <2>3. \A q \in Person : q # p => (Coming(q)' => Coming(q)) /\ (Going(q)' => Going(q))
    BY <1>2, <2>2 DEF Coming, Going
  <2>4. /\ Coming(p)' => phase'[p] = "boarding"
        /\ Going(p)' => phase'[p] = "alighting"
    BY <2>2 DEF Coming, Going
  <2>5. /\ phase'[p] = "boarding" => ~elevatorFree /\ Board(p)
        /\ phase'[p] = "alighting" => ~elevatorFree /\ GetOut(p)
    <3>1. Board(p) => phase'[p] = IF elevatorFree THEN "riding" ELSE "boarding"
      BY OnlyHisPhase
    <3>2. GetOut(p) => phase'[p] = IF elevatorFree THEN "out" ELSE "alighting"
      BY OnlyHisPhase
    <3>3. HailStalls(p) => phase'[p] = "adding"
      BY OnlyHisPhase
    <3>4. Hail(p) \/ HailAgain(p) => phase'[p] \in {"entering", "hailing"}
      BY OnlyHisPhase
    <3>. QED BY <1>4, <3>1, <3>2, <3>3, <3>4
  <2>6. Board(p) => Coming(p)
    BY <2>1, OnlyHisPhase DEF Coming
  <2>7. GetOut(p) => Going(p)
    BY <2>1, OnlyHisPhase DEF Going
  <2>. QED BY <2>3, <2>4, <2>5, <2>6, <2>7
<1>. QED BY <1>3, <1>4

\* Who runs leaves the elevator's own variables alone.
LEMMA PersonCar ==
    ASSUME NEW p \in Person,
           Arrive(p) \/ HailStalls(p) \/ Hail(p) \/ HailAgain(p) \/ Board(p) \/ GetOut(p)
    PROVE  UNCHANGED <<carVars, count, point, elevatorFree, personFree, running>>
BY DEF Arrive, HailStalls, Hail, HailAgain, Board, GetOut, lockVars

\* The elevator's thread puts persons on the way by its Signal and its Broadcast.
LEMMA ElevatorLate ==
    ASSUME Types, Places,
           \/ Preempted \/ MainRuns \/ ElevatorDispatched \/ ElevatorStep
           \/ HaltTest \/ UNCHANGED vars
    PROVE  /\ \A q \in Person :
                /\ Coming(q)' => Coming(q) \/ (Signal /\ point' = "unlist" /\ q = Head(entering[currentFloor])
                                               /\ On(q, entering[currentFloor]))
                /\ Going(q)' => Going(q) \/ (Broadcast /\ On(q, leaving[currentFloor]))
           /\ UNCHANGED <<tripVars, phase>>
           /\ ~Go => currentFloor' = currentFloor
<1>1. /\ ready \in Seq(Person \cup {elevator}) /\ currentFloor \in Floor
      /\ entering \in [Floor -> Seq(Person)] /\ leaving \in [Floor -> Seq(Person)]
      /\ lockQueue \in Seq(Person) /\ personQueue \in Seq(Person)
  BY DEF Types, ElevatorTypeOK
<1>2. UNCHANGED <<tripVars, phase>> /\ (~Go => currentFloor' = currentFloor)
  BY DEF Preempted, MainRuns, ElevatorDispatched, ElevatorStep, HaltTest, vars, AcquireLock, Choose,
     Spin, Signal, Broadcast, TakePersonLock, Unlist, Unload, Unloaded, ReleaseLock, Go, carVars
<1>3. elevator \notin Person
  BY ElevatorAssumption
<1>4. ASSUME NEW q \in Person, phase[q] \in {"entering", "riding"}, On(q, ready')
      PROVE  \/ On(q, ready)
             \/ Signal /\ point' = "unlist" /\ q = Head(entering[currentFloor]) /\ On(q, entering[currentFloor])
             \/ Broadcast /\ On(q, leaving[currentFloor])
  <2>1. CASE ready' = ready
    BY <1>4, <2>1
  <2>2. CASE ready' = Append(ready, elevator)
    BY <1>1, <1>3, <1>4, <2>2, AppendLemma
  <2>3. CASE ready # << >> /\ ready' = Tail(ready)
    BY <1>1, <1>4, <2>3, TailLemma
  <2>4. CASE /\ Signal /\ point' = "unlist" /\ entering[currentFloor] # << >>
             /\ ready' = Append(ready, Head(entering[currentFloor]))
    <3>1. /\ Head(entering[currentFloor]) \in Person \cup {elevator}
          /\ On(Head(entering[currentFloor]), entering[currentFloor])
      BY <1>1, <2>4, TailLemma
    <3>2. On(q, ready') => On(q, ready) \/ q = Head(entering[currentFloor])
      BY <1>1, <2>4, <3>1, AppendLemma
    <3>. QED BY <1>4, <2>4, <3>1, <3>2
  <2>5. CASE /\ Broadcast /\ leaving[currentFloor] # << >>
             /\ ready' = Append(ready, Head(leaving[currentFloor]))
    <3>1. /\ Head(leaving[currentFloor]) \in Person \cup {elevator}
          /\ On(Head(leaving[currentFloor]), leaving[currentFloor])
      BY <1>1, <2>5, TailLemma
    <3>2. On(q, ready') => On(q, ready) \/ q = Head(leaving[currentFloor])
      BY <1>1, <2>5, <3>1, AppendLemma
    <3>. QED BY <1>4, <2>5, <3>1, <3>2
  <2>6. ASSUME NEW queue \in Seq(Person), queue = lockQueue \/ queue = personQueue,
               ready' = ready \o FirstN(queue, 1)
        PROVE  On(q, ready)
    <3>1. FirstN(queue, 1) \in Seq(Person) /\ (On(q, FirstN(queue, 1)) => On(q, queue))
      BY SplitLemma
    <3>2. FirstN(queue, 1) \in Seq(Person \cup {elevator})
      BY <3>1, WiderLemma
    <3>3. On(q, ready') => On(q, ready) \/ On(q, FirstN(queue, 1))
      BY <1>1, <2>6, <3>2, ConcatLemma
    <3>4. ~On(q, queue)
      BY <1>4, <2>6 DEF Places
    <3>. QED BY <1>4, <3>1, <3>3, <3>4
  <2>7. CASE \/ ready' = ready \o FirstN(personQueue, 1)
             \/ ready' = ready \o FirstN(lockQueue, 1)
    BY <1>1, <2>6, <2>7
  <2>8. Preempted \/ MainRuns \/ ElevatorDispatched \/ HaltTest \/ UNCHANGED vars
        => \/ ready' = ready \/ ready' = Append(ready, elevator)
           \/ (ready # << >> /\ ready' = Tail(ready))
    <3>1. Append(<< >>, elevator) = <<elevator>>
      OBVIOUS
    <3>. QED BY <3>1 DEF Preempted, LetOthersRun, MainRuns, ElevatorDispatched, HaltTest, vars
  <2>9. AcquireLock \/ Choose \/ Spin \/ Go \/ TakePersonLock \/ Unloaded
        => ready' = ready \/ ready' = Append(ready, elevator)
    BY DEF AcquireLock, Choose, Spin, LetOthersRun, Go, TakePersonLock, Unloaded
  <2>10. Unlist \/ Unload \/ ReleaseLock
         => ready' = ready \o FirstN(personQueue, 1) \/ ready' = ready \o FirstN(lockQueue, 1)
    BY DEF Unlist, Unload, ReleasePersonLock, ReleaseLock
  <2>11. Signal => \/ ready' = ready
                   \/ /\ point' = "unlist" /\ entering[currentFloor] # << >>
                      /\ ready' = Append(ready, Head(entering[currentFloor]))
    BY DEF Signal
  <2>12. Broadcast => \/ ready' = ready
                      \/ /\ leaving[currentFloor] # << >>
                         /\ ready' = Append(ready, Head(leaving[currentFloor]))
    BY DEF Broadcast
  <2>. QED BY <2>1, <2>2, <2>3, <2>4, <2>5, <2>7, <2>8, <2>9, <2>10, <2>11, <2>12 DEF ElevatorStep
<1>5. ASSUME NEW q \in Person
      PROVE  /\ Coming(q)' => Coming(q) \/ (Signal /\ point' = "unlist" /\ q = Head(entering[currentFloor])
                                            /\ On(q, entering[currentFloor]))
             /\ Going(q)' => Going(q) \/ (Broadcast /\ On(q, leaving[currentFloor]))
  <2>1. /\ On(q, entering[currentFloor]) => phase[q] = "entering"
        /\ On(q, leaving[currentFloor]) => phase[q] = "riding"
    BY <1>1 DEF Places
  <2>. QED BY <1>2, <1>4, <2>1 DEF Coming, Going
<1>. QED BY <1>2, <1>5

\* The persons on the way, when a step puts nobody else there.
LEMMA LateLemma ==
    /\ \A q \in Person : q \in LateOnes <=> Coming(q) \/ Going(q)
    /\ LateOnes \subseteq Person
    /\ (\A q \in Person : (Coming(q)' => Coming(q)) /\ (Going(q)' => Going(q))) => LateOnes' \subseteq LateOnes
BY DEF LateOnes

\* With nobody in the lock's queue, who is on the way is ready.
LEMMA LateIsReady ==
    ASSUME Places, lockQueue = << >>
    PROVE  \A q \in LateOnes : On(q, ready)
<1>1. \A q : ~On(q, << >>)
  BY DEF On
<1>. SUFFICES ASSUME NEW q \in Person, Coming(q) \/ Going(q) PROVE On(q, ready)
  BY DEF LateOnes
<1>2. phase[q] \in {"boarding", "alighting"} => On(q, ready)
  BY <1>1 DEF Places
<1>. QED BY <1>2 DEF Coming, Going

\* A person's step while the elevator rests.
LEMMA PersonRests ==
    ASSUME IsFiniteSet(Person), Types, Locks, Places, Trips, RestInv, NEW p \in Person,
           Arrive(p) \/ HailStalls(p) \/ Hail(p) \/ HailAgain(p) \/ Board(p) \/ GetOut(p)
    PROVE  RestInv'
<1>1. /\ ready \in Seq(Person \cup {elevator}) /\ lockQueue \in Seq(Person)
      /\ personQueue \in Seq(Person) /\ count \in Nat /\ elevatorFree \in BOOLEAN
      /\ running \in BOOLEAN /\ phase \in [Person -> Phase]
  BY DEF Types, ElevatorTypeOK
<1>2. UNCHANGED <<carVars, count, point, elevatorFree, personFree, running>>
  BY PersonCar
<1>3. LateOnes' \subseteq LateOnes /\ LateOnes \subseteq Person
  BY PersonLate, LateLemma
<1>. SUFFICES ASSUME point = "rest" PROVE RestInv'
  BY <1>2 DEF RestInv
<1>4. elevatorFree /\ personFree
  BY DEF Locks
<1>5. /\ Yields' = Yields /\ Yields \in Int /\ count <= elevatorDelay /\ point' = "rest"
      /\ Cardinality(Person) \in Nat /\ Len(lockQueue) \in Nat
      /\ elevator \notin Person
  BY <1>1, <1>2, ElevatorAssumption, FS_CardinalityType DEF Yields, RestInv
<1>r. /\ lockQueue # << >> => \E q \in Person : On(q, ready)
      /\ lockQueue # << >> \/ LateOnes # {} =>
           \/ Yields + Len(lockQueue) < Cardinality(Person)
           \/ /\ ~running
              /\ Yields + Len(lockQueue) = Cardinality(Person)
              /\ lockQueue # << >> => Head(ready) # elevator
              /\ lockQueue = << >> => Before(LateOnes, elevator, ready)
  BY DEF RestInv
<1>. HIDE DEF Yields
<1>6. CASE Arrive(p)
  <2>1. /\ ready' = Append(ready, p) /\ lockQueue' = lockQueue /\ ~running
    BY <1>6 DEF Arrive, lockVars
  <2>2. ready # << >>
    <3>1. On(elevator, ready)
      BY <2>1 DEF Places
    <3>. QED BY <3>1 DEF On
  <2>3. p \in Person \cup {elevator} /\ p # elevator
    BY <1>5
  <2>4. \A q : On(q, ready') <=> On(q, ready) \/ q = p
    BY <1>1, <2>1, <2>3, AppendLemma
  <2>5. Head(ready') = Head(ready)
    BY <1>1, <2>1, <2>2
  <2>6. p \notin LateOnes
    <3>1. phase[p] = "absent"
      BY <1>6, OnlyHisPhase
    <3>. QED BY <3>1 DEF LateOnes, Coming, Going
  <2>7. Before(LateOnes, elevator, ready) => Before(LateOnes', elevator, ready')
    BY <1>1, <1>3, <2>1, <2>3, <2>6, BeforeOther
  <2>8. lockQueue # << >> => \E q \in Person : On(q, ready')
    BY <1>r, <2>4
  <2>. QED BY <1>2, <1>3, <1>5, <1>r, <2>1, <2>5, <2>7, <2>8 DEF RestInv
<1>7. CASE HailStalls(p) \/ Hail(p) \/ HailAgain(p) \/ Board(p) \/ GetOut(p)
  <2>1. On(p, ready) /\ ready # << >> /\ p = Head(ready) /\ ~running /\ ~On(p, lockQueue)
    BY <1>7, DispatchedIsReady
  <2>2. \E ps, n : Dispatched(p, ps) /\ n \in {0, 1, 2} /\ \E next \in Phase : WaitOn(p, next, n)
    <3>1. /\ "entering" \in Phase /\ "riding" \in Phase /\ "out" \in Phase
      BY DEF Phase
    <3>2. ~HailStalls(p)
      BY <1>4 DEF HailStalls
    <3>3. CASE Hail(p)
      <4>1. Dispatched(p, {"start", "adding"}) /\ WaitOn(p, "entering", 1)
        BY <1>4, <3>3 DEF Hail, QueueForElevator
      <4>. QED BY <3>1, <4>1
    <3>4. CASE HailAgain(p)
      <4>1. Dispatched(p, {"hailing"}) /\ WaitOn(p, "entering", 0)
        BY <1>4, <3>4 DEF HailAgain, QueueForElevator
      <4>. QED BY <3>1, <4>1
    <3>5. CASE Board(p)
      <4>1. Dispatched(p, {"entering", "boarding"}) /\ WaitOn(p, "riding", 2)
        BY <1>4, <3>5 DEF Board, QueueForElevator
      <4>. QED BY <3>1, <4>1
    <3>6. CASE GetOut(p)
      <4>1. Dispatched(p, {"riding", "alighting"}) /\ WaitOn(p, "out", 1)
        BY <1>4, <3>6 DEF GetOut, QueueForElevator
      <4>. QED BY <3>1, <4>1
    <3>. QED BY <1>7, <3>2, <3>3, <3>4, <3>5, <3>6
  <2>3. PICK ps, n : Dispatched(p, ps) /\ n \in {0, 1, 2} /\ \E next \in Phase : WaitOn(p, next, n)
    BY <2>2
  <2>4. PICK next \in Phase : WaitOn(p, next, n)
    BY <2>3
  <2>5. n \in Nat
    BY <2>3
  <2>6. /\ ready' = Tail(ready) \o FirstN(personQueue, n) \o Woken
        /\ lockQueue' = Rest(lockQueue)
        /\ FirstN(personQueue, n) \in Seq(Person \cup {elevator})
    BY <1>4, <2>3, <2>4, <2>5, SleepsTyped
  <2>7. /\ \A q \in Person : q # p =>
             (On(q, ready') <=> On(q, ready) \/ On(q, FirstN(personQueue, n)) \/ On(q, Woken))
        /\ \A q : On(q, FirstN(personQueue, n)) => On(q, personQueue)
    BY <2>3, <2>4, <2>5, SleepsPlaces
  <2>8. CASE lockQueue # << >>
    <3>1. /\ Len(lockQueue') = Len(lockQueue) - 1
          /\ On(Head(lockQueue), Woken) /\ Head(lockQueue) \in Person /\ Head(lockQueue) # p
      <4>1. /\ Len(Rest(lockQueue)) = Len(lockQueue) - 1
            /\ On(Head(lockQueue), FirstN(lockQueue, 1)) /\ Head(lockQueue) \in Person
        BY <1>1, <2>8, RestLemma
      <4>2. On(Head(lockQueue), lockQueue)
        BY <1>1, <2>8, TailLemma
      <4>. QED BY <1>4, <2>1, <2>6, <4>1, <4>2 DEF Woken
    <3>2. \E q \in Person : On(q, ready')
      BY <2>7, <3>1
    <3>3. Yields' + Len(lockQueue') < Cardinality(Person)
      BY <1>5, <1>r, <2>8, <3>1
    <3>. QED BY <1>2, <1>5, <3>2, <3>3 DEF RestInv
  <2>9. CASE lockQueue = << >>
    <3>1. lockQueue' = << >> /\ Woken = << >>
      BY <1>1, <1>4, <2>6, <2>9, RestLemma DEF Woken
    <3>2. ready' = Tail(ready) \o FirstN(personQueue, n)
      <4>1. Tail(ready) \o FirstN(personQueue, n) \in Seq(Person \cup {elevator})
        BY <1>1, <2>1, <2>6, TailLemma, ConcatLemma
      <4>. QED BY <2>6, <3>1, <4>1, ConcatEmptySeq
    <3>3. \A q \in LateOnes : ~On(q, FirstN(personQueue, n))
      <4>1. \A q \in Person : On(q, personQueue) => phase[q] = "adding"
        BY DEF Places
      <4>. QED BY <2>7, <4>1 DEF LateOnes, Coming, Going
    <3>4. ~On(elevator, FirstN(personQueue, n))
      BY <1>1, <1>5, <2>7, OnMember
    <3>5. Before(LateOnes, elevator, ready) => Before(LateOnes', elevator, ready')
      <4>1. LateOnes' \in SUBSET LateOnes
        BY <1>3
      <4>2. \A A, B, b : /\ B \in SUBSET A /\ b \in Seq(Person \cup {elevator}) /\ Before(A, elevator, ready)
                         /\ (\A t \in A : ~On(t, b)) /\ ~On(elevator, b)
                         => Before(B, elevator, Tail(ready) \o b)
        BY <1>1, <2>1, BeforeTail
      <4>3. Before(LateOnes, elevator, ready)
              => Before(LateOnes', elevator, Tail(ready) \o FirstN(personQueue, n))
        BY <2>6, <3>3, <3>4, <4>1, <4>2, Zenon
      <4>. QED BY <3>2, <4>3, Zenon
    <3>. QED BY <1>2, <1>3, <1>5, <1>r, <2>9, <3>1, <3>5 DEF RestInv
  <2>. QED BY <2>8, <2>9
<1>. QED BY <1>6, <1>7

\* The elevator's own steps: when it rests, and when it starts to.
LEMMA ElevatorRests ==
    ASSUME IsFiniteSet(Person), Cardinality(Person) <= elevatorDelay,
           Types, Locks, Places, RestInv,
           \/ Preempted \/ MainRuns \/ ElevatorDispatched \/ ElevatorStep
           \/ HaltTest \/ UNCHANGED vars
    PROVE  /\ RestInv'
           /\ At("rest") /\ count = 0 => LateOnes = {}
<1>1. /\ ready \in Seq(Person \cup {elevator}) /\ lockQueue \in Seq(Person)
      /\ count \in Nat /\ elevatorFree \in BOOLEAN /\ running \in BOOLEAN
  BY DEF Types, ElevatorTypeOK
<1>2. /\ Cardinality(Person) \in Nat /\ Len(lockQueue) \in Nat /\ elevatorDelay \in Nat
      /\ elevator \notin Person
  BY <1>1, ElevatorAssumption, FS_CardinalityType
<1>3. \A q : ~On(q, << >>)
  BY DEF On
<1>4. running <=> ~On(elevator, ready)
  BY DEF Places
<1>r. point = "rest" =>
      /\ count <= elevatorDelay
      /\ lockQueue # << >> => \E q \in Person : On(q, ready)
      /\ lockQueue # << >> \/ LateOnes # {} =>
           \/ Yields + Len(lockQueue) < Cardinality(Person)
           \/ /\ ~running
              /\ Yields + Len(lockQueue) = Cardinality(Person)
              /\ lockQueue # << >> => Head(ready) # elevator
              /\ lockQueue = << >> => Before(LateOnes, elevator, ready)
  BY DEF RestInv
<1>5. At("rest") /\ count = 0 => LateOnes = {} /\ lockQueue = << >>
  <2>1. count = 0 => Yields = elevatorDelay
    BY <1>2 DEF Yields
  <2>. QED BY <1>r, <1>2, <2>1 DEF At
<1>6. point = "rest" /\ ready = << >> => LateOnes = {} /\ lockQueue = << >>
  BY <1>r, <1>3, LateIsReady
<1>7. ~Signal /\ ~Broadcast => LateOnes' \subseteq LateOnes
  BY ElevatorLate, LateLemma
<1>8. CASE ReleaseLock
  <2>1. /\ ready' = ready \o FirstN(lockQueue, 1) /\ lockQueue' = Rest(lockQueue)
        /\ count' = elevatorDelay /\ point' = "rest"
    BY <1>8 DEF ReleaseLock
  <2>2. Yields' = 0
    BY <1>2, <2>1 DEF Yields
  <2>3. CASE lockQueue = << >>
    <3>1. lockQueue' = << >> /\ Len(lockQueue') = 0
      <4>1. lockQueue' = << >>
        BY <2>1, <2>3 DEF Rest
      <4>. QED BY <4>1
    <3>2. LateOnes' # {} => Cardinality(Person) # 0
      <4>1. LateOnes' \subseteq Person
        BY DEF LateOnes
      <4>. QED BY <4>1, FS_EmptySet
    <3>. QED BY <1>2, <1>5, <2>1, <2>2, <3>1, <3>2 DEF RestInv
  <2>4. CASE lockQueue # << >>
    <3>1. /\ Len(lockQueue') = Len(lockQueue) - 1
          /\ On(Head(lockQueue), FirstN(lockQueue, 1)) /\ Head(lockQueue) \in Person
      BY <1>1, <2>1, <2>4, RestLemma
    <3>2. Len(lockQueue) <= Cardinality(Person)
      BY <1>1, QueueFits DEF Places
    <3>3. On(Head(lockQueue), ready')
      <4>1. FirstN(lockQueue, 1) \in Seq(Person \cup {elevator})
        <5>1. FirstN(lockQueue, 1) \in Seq(Person)
          BY <1>1, SplitLemma
        <5>. QED BY <5>1, WiderLemma
      <4>. QED BY <1>1, <2>1, <3>1, <4>1, ConcatLemma
    <3>4. Yields' + Len(lockQueue') < Cardinality(Person)
      BY <1>2, <2>2, <3>1, <3>2
    <3>. QED BY <1>2, <1>5, <2>1, <3>1, <3>3, <3>4 DEF RestInv
  <2>. QED BY <2>3, <2>4
<1>9. CASE ~ReleaseLock /\ point # "rest"
  <2>1. point' # "rest"
    BY <1>9 DEF Preempted, MainRuns, ElevatorDispatched, ElevatorStep, HaltTest, vars, At, AcquireLock,
       Choose, Spin, Go, Signal, Broadcast, TakePersonLock, Unlist, Unload, Unloaded
  <2>. QED BY <1>5, <2>1 DEF RestInv
<1>10. CASE point = "rest"
  <2>1. \/ UNCHANGED <<ready, running, lockQueue, count, point>>
        \/ (Preempted \/ MainRuns) /\ running
        \/ ElevatorDispatched
        \/ At("rest") /\ Spin
    BY <1>10 DEF Preempted, MainRuns, ElevatorStep, HaltTest, vars, lockVars, At, AcquireLock,
       Choose, Spin, Go, Signal, Broadcast, TakePersonLock, Unlist, Unload, Unloaded, ReleaseLock
  <2>2. LateOnes' \subseteq LateOnes
    <3>1. ~Signal /\ ~Broadcast
      BY <1>10 DEF Signal, Broadcast, At
    <3>. QED BY <1>7, <3>1
  <2>3. CASE UNCHANGED <<ready, running, lockQueue, count, point>>
    <3>1. LateOnes' = LateOnes
      <4>1. UNCHANGED phase
        BY ElevatorLate
      <4>. QED BY <2>3, <4>1 DEF LateOnes, Coming, Going
    <3>2. Yields' = Yields
      BY <2>3 DEF Yields
    <3>. QED BY <1>5, <2>3, <3>1, <3>2, <1>r, <1>10 DEF RestInv
  <2>4. ASSUME running, ready' = Append(ready, elevator), running' = FALSE, lockQueue' = lockQueue,
               point' = "rest", count' \in {count, count - 1}, count > 0 \/ count' = count
        PROVE  RestInv'
    <3>1. /\ Yields' \in {Yields, Yields + 1} /\ Yields \in Int /\ count' <= elevatorDelay
      <4>1. count <= elevatorDelay
        BY <1>r, <1>10
      <4>2. CASE count' = count
        BY <1>1, <1>2, <4>1, <4>2 DEF Yields
      <4>3. CASE count' = count - 1
        <5>1. elevatorDelay - (count - 1) = (elevatorDelay - count) + 1
          BY <1>1, <1>2
        <5>. QED BY <1>1, <1>2, <4>1, <4>3, <5>1 DEF Yields
      <4>. QED BY <2>4, <4>2, <4>3
    <3>. HIDE DEF Yields
    <3>2. \A q : On(q, ready') <=> On(q, ready) \/ q = elevator
      BY <1>1, <2>4, AppendLemma
    <3>3. lockQueue # << >> => ready # << >> /\ Head(ready') = Head(ready) /\ Head(ready) # elevator
      <4>1. lockQueue # << >> => ready # << >>
        BY <1>6, <1>10
      <4>2. ready # << >> => Head(ready') = Head(ready)
        BY <1>1, <2>4
      <4>3. ready # << >> => On(Head(ready), ready)
        BY <1>1, TailLemma
      <4>. QED BY <1>4, <2>4, <4>1, <4>2, <4>3
    <3>4. Before(LateOnes', elevator, ready')
      <4>1. elevator \notin LateOnes'
        BY <1>2 DEF LateOnes
      <4>. QED BY <1>1, <1>4, <2>4, <4>1, BeforeAppend
    <3>5. lockQueue # << >> => \E q \in Person : On(q, ready')
      BY <1>r, <1>10, <3>2
    <3>6. lockQueue # << >> \/ LateOnes' # {} => Yields + Len(lockQueue) < Cardinality(Person)
      BY <1>r, <1>10, <2>2, <2>4
    <3>. QED BY <1>2, <2>4, <3>1, <3>3, <3>4, <3>5, <3>6 DEF RestInv
  <2>5. CASE (Preempted \/ MainRuns) /\ running
    <3>1. Append(<< >>, elevator) = <<elevator>>
      OBVIOUS
    <3>2. /\ ready' = Append(ready, elevator) /\ running' = FALSE /\ lockQueue' = lockQueue
          /\ point' = "rest" /\ count' = count
      BY <1>10, <2>5, <3>1 DEF Preempted, LetOthersRun, MainRuns, lockVars
    <3>. QED BY <1>5, <2>4, <2>5, <3>2
  <2>6. CASE ElevatorDispatched
    <3>1. /\ ready # << >> /\ Head(ready) = elevator /\ ready' = Tail(ready) /\ ~running
          /\ UNCHANGED <<lockQueue, count, point>>
      BY <2>6 DEF ElevatorDispatched, lockVars
    <3>2. Yields' = Yields
      BY <3>1 DEF Yields
    <3>3. \A q \in Person : On(q, ready) => On(q, ready')
      BY <1>1, <1>2, <3>1, TailLemma
    <3>4. lockQueue = << >> /\ Before(LateOnes, elevator, ready) => LateOnes = {}
      <4>1. Before(LateOnes, elevator, ready) => \A t \in LateOnes : ~On(t, ready)
        BY <1>1, <3>1, BeforeHead
      <4>. QED BY <4>1, LateIsReady
    <3>5. lockQueue # << >> \/ LateOnes # {} => Yields + Len(lockQueue) < Cardinality(Person)
      BY <1>r, <1>10, <3>1, <3>4
    <3>6. lockQueue # << >> => \E q \in Person : On(q, ready')
      BY <1>r, <1>10, <3>3
    <3>7. At("rest") => FALSE
      BY <3>1 DEF At
    <3>. HIDE DEF Yields
    <3>. QED BY <1>r, <1>10, <2>2, <3>1, <3>2, <3>5, <3>6, <3>7 DEF RestInv
  <2>7. CASE At("rest") /\ Spin
    <3>0. lockQueue' = lockQueue
      BY <2>7 DEF Spin, lockVars
    <3>1. CASE count = 0
      <4>1. point' = "acquire"
        BY <1>10, <2>7, <3>1 DEF Spin, At
      <4>. QED BY <1>5, <4>1 DEF RestInv
    <3>2. CASE count > 0 /\ ready # << >>
      <4>1. running /\ LetOthersRun /\ count' = count - 1 /\ point' = point
        <5>1. count # 0
          BY <1>1, <3>2
        <5>2. running
          BY <2>7 DEF At
        <5>3. LetOthersRun /\ count' = count - 1 /\ UNCHANGED point
          BY <2>7, <5>1, Zenon DEF Spin
        <5>. QED BY <5>2, <5>3
      <4>2. ready' = Append(ready, elevator) /\ running' = FALSE
        BY <3>2, <4>1 DEF LetOthersRun
      <4>3. count' \in {count, count - 1}
        BY <4>1
      <4>4. RestInv'
        BY <1>10, <2>4, <3>0, <3>2, <4>1, <4>2, <4>3
      <4>. QED BY <1>5, <4>4
    <3>3. CASE count > 0 /\ ready = << >>
      <4>1. LateOnes' = {} /\ lockQueue' = << >>
        BY <1>6, <1>10, <2>2, <3>0, <3>3
      <4>2. count' = count - 1
        BY <2>7, <3>3 DEF Spin
      <4>. QED BY <1>1, <1>2, <1>r, <1>10, <3>3, <4>1, <4>2 DEF RestInv
    <3>. QED BY <1>1, <3>1, <3>2, <3>3
  <2>. QED BY <1>5, <2>1, <2>3, <2>5, <2>6, <2>7
<1>. QED BY <1>8, <1>9, <1>10

\* Nobody is on the way when the elevator sets out, and those who are find it
\* where they want it.
LEMMA CarStep ==
    ASSUME IsFiniteSet(Person), Cardinality(Person) <= elevatorDelay
    PROVE  BaseInv /\ CarInv /\ [ElevatorNext]_vars => CarInv'
<1>. SUFFICES ASSUME BaseInv, CarInv, [ElevatorNext]_vars PROVE CarInv'
  OBVIOUS
<1>1. /\ Types /\ Locks /\ Trips /\ Places /\ RestInv /\ Quiet /\ Doors
      /\ currentFloor \in Floor /\ entering \in [Floor -> Seq(Person)]
  BY DEF BaseInv, CarInv, Types, ElevatorTypeOK
<1>2. ASSUME NEW p \in Person,
             Arrive(p) \/ HailStalls(p) \/ Hail(p) \/ HailAgain(p) \/ Board(p) \/ GetOut(p)
      PROVE  CarInv'
  <2>1. UNCHANGED <<currentFloor, point>>
    BY <1>2, PersonCar DEF carVars
  <2>2. \A q \in Person : (Coming(q)' => Coming(q)) /\ (Going(q)' => Going(q))
    BY <1>1, <1>2, PersonLate
  <2>3. Quiet'
    BY <1>1, <2>1, <2>2, LateLemma DEF Quiet
  <2>4. Doors'
    <3>. SUFFICES ASSUME NEW q \in Person
                  PROVE  /\ Coming(q)' => currentFloor' = atFloor'[q]
                         /\ Going(q)' => currentFloor' = toFloor'[q]
      BY DEF Doors
    <3>1. q # p => atFloor'[q] = atFloor[q] /\ toFloor'[q] = toFloor[q]
      BY <1>1, <1>2, OnlyHisPhase
    <3>2. ASSUME q = p, Coming(q)' \/ Going(q)'
          PROVE  atFloor'[q] = atFloor[q] /\ toFloor'[q] = toFloor[q]
      <4>1. phase'[q] # "start"
        BY <3>2 DEF Coming, Going
      <4>2. ~Arrive(p)
        BY <1>1, <3>2, <4>1, OnlyHisPhase
      <4>. QED BY <1>2, <4>2 DEF HailStalls, Hail, HailAgain, Board, GetOut, tripVars
    <3>. QED BY <1>1, <2>1, <2>2, <3>1, <3>2 DEF Doors
  <2>5. RestInv'
    BY <1>1, <1>2, PersonRests
  <2>. QED BY <2>3, <2>4, <2>5 DEF CarInv
<1>3. CASE \/ Preempted \/ MainRuns \/ ElevatorDispatched \/ ElevatorStep
           \/ HaltTest \/ UNCHANGED vars
  <2>1. RestInv' /\ (At("rest") /\ count = 0 => LateOnes = {})
    BY <1>1, <1>3, ElevatorRests
  <2>2. /\ \A q \in Person :
             /\ Coming(q)' => Coming(q) \/ (Signal /\ On(q, entering[currentFloor]))
             /\ Going(q)' => Going(q) \/ (Broadcast /\ On(q, leaving[currentFloor]))
        /\ UNCHANGED <<atFloor, toFloor>>
        /\ ~Go => currentFloor' = currentFloor
    BY <1>1, <1>3, ElevatorLate DEF tripVars
  <2>3. ~Signal /\ ~Broadcast => LateOnes' \subseteq LateOnes
    BY <2>2, LateLemma
  <2>4. Quiet'
    <3>. SUFFICES ASSUME point' \in {"acquire", "choose", "spin", "go"} PROVE LateOnes' = {}
      BY DEF Quiet
    <3>1. ~Signal /\ ~Broadcast
      BY DEF Signal, Broadcast, At
    <3>2. point \in {"acquire", "choose", "spin", "go"} \/ (At("rest") /\ count = 0)
      BY <1>3 DEF Preempted, MainRuns, ElevatorDispatched, ElevatorStep, HaltTest, vars, At, AcquireLock,
         Choose, Spin, Go, Signal, Broadcast, TakePersonLock, Unlist, Unload, Unloaded, ReleaseLock
    <3>. QED BY <1>1, <2>1, <2>3, <3>1, <3>2 DEF Quiet
  <2>5. Doors'
    <3>1. CASE Go
      <4>1. LateOnes = {} /\ ~Signal /\ ~Broadcast
        BY <1>1, <3>1 DEF Quiet, Go, Signal, Broadcast, At
      <4>. QED BY <2>2, <4>1, LateLemma DEF Doors
    <3>2. CASE ~Go
      <4>1. \A q \in Person : /\ On(q, entering[currentFloor]) => currentFloor = atFloor[q]
                              /\ On(q, leaving[currentFloor]) => currentFloor = toFloor[q]
        BY <1>1 DEF Places
      <4>. QED BY <1>1, <2>2, <3>2, <4>1 DEF Doors
    <3>. QED BY <3>1, <3>2
  <2>. QED BY <2>1, <2>4, <2>5 DEF CarInv
<1>. QED BY <1>2, <1>3 DEF ElevatorNext, ElevatorStep, Halted

\* Initially nobody is on the way.
LEMMA CarStart == ElevatorInit => CarInv
<1>. SUFFICES ASSUME ElevatorInit PROVE CarInv
  OBVIOUS
<1>1. point = "acquire" /\ \A p \in Person : phase[p] = "absent"
  BY DEF ElevatorInit
<1>2. \A p \in Person : ~Coming(p) /\ ~Going(p)
  BY <1>1 DEF Coming, Going
<1>. QED BY <1>1, <1>2, LateLemma DEF CarInv, RestInv, Quiet, Doors

\* Persons get in at their floor and out where they want, whatever the scheduling,
\* if the elevator Yields at least once between two moves for every person: the
\* ASSERTs of hailElevator.  main.cc's 1000000 Yields are that many.
THEOREM DoorsNeverShutEarly ==
    ASSUME IsFiniteSet(Person), Cardinality(Person) <= elevatorDelay
    PROVE  ElevatorSpec => DoorsOpenAtRightFloor
<1>. DEFINE Right == \A p \in Person :
              /\ phase[p] # "riding" /\ phase'[p] = "riding" => currentFloor = atFloor[p]
              /\ phase[p] # "out" /\ phase'[p] = "out" => currentFloor = toFloor[p]
            Inv == (BaseInv /\ ListsInv) /\ CarInv
<1>1. ElevatorInit => Inv
  BY ListsStart, CarStart
<1>2. Inv /\ [ElevatorNext]_vars => Inv'
  BY ListsStep, CarStep
<1>3. Inv /\ [ElevatorNext]_vars => [Right]_vars
  <2>. SUFFICES ASSUME BaseInv, CarInv, ElevatorNext, NEW p \in Person
                PROVE  /\ phase[p] # "riding" /\ phase'[p] = "riding" => currentFloor = atFloor[p]
                       /\ phase[p] # "out" /\ phase'[p] = "out" => currentFloor = toFloor[p]
    OBVIOUS
  <2>1. Types /\ Places /\ Trips /\ Doors
    BY DEF BaseInv, CarInv
  <2>2. ASSUME NEW q \in Person,
               Arrive(q) \/ HailStalls(q) \/ Hail(q) \/ HailAgain(q) \/ Board(q) \/ GetOut(q)
        PROVE  /\ phase[p] # "riding" /\ phase'[p] = "riding" => currentFloor = atFloor[p]
               /\ phase[p] # "out" /\ phase'[p] = "out" => currentFloor = toFloor[p]
    <3>1. p # q => phase'[p] = phase[p]
      BY <2>1, <2>2, OnlyHisPhase
    <3>2. phase'[q] = "riding" => Board(q)
      BY <2>1, <2>2, OnlyHisPhase
    <3>3. phase'[q] = "out" => GetOut(q)
      BY <2>1, <2>2, OnlyHisPhase
    <3>4. (Board(q) => Coming(q)) /\ (GetOut(q) => Going(q))
      BY <2>1, <2>2, PersonLate
    <3>. QED BY <2>1, <3>1, <3>2, <3>3, <3>4 DEF Doors
  <2>3. CASE \/ Preempted \/ MainRuns \/ ElevatorDispatched \/ ElevatorStep
             \/ HaltTest \/ UNCHANGED vars
    BY <2>1, <2>3, ElevatorLate
  <2>. QED BY <2>2, <2>3 DEF ElevatorNext, ElevatorStep, Halted
<1>. HIDE DEF Inv
<1>. QED BY <1>1, <1>2, <1>3, PTL DEF ElevatorSpec, DoorsOpenAtRightFloor

-----------------------------------------------------------------------------
(* The limit                                                               *)

\* One more element makes a set larger by one at most.
LEMMA OneMoreCounts ==
    ASSUME NEW S, IsFiniteSet(S), NEW x
    PROVE  IsFiniteSet(S \cup {x}) /\ Cardinality(S \cup {x}) <= Cardinality(S) + 1
<1>1. Cardinality(S) \in Nat
  BY FS_CardinalityType
<1>2. IsFiniteSet(S \cup {x})
      /\ Cardinality(S \cup {x}) = IF x \in S THEN Cardinality(S) ELSE Cardinality(S) + 1
  BY FS_AddElement
<1>. QED BY <1>1, <1>2

\* Who leaves and who enters: the persons inside and those let in, counted.
LEMMA RoomStep ==
    ASSUME IsFiniteSet(Person), NEW g \in Int
    PROVE  BaseInv /\ Quiet /\ Room(g) /\ [ElevatorNext]_vars => Room(g)'
<1>. SUFFICES ASSUME BaseInv, Quiet, Room(g), [ElevatorNext]_vars PROVE Room(g)'
  OBVIOUS
<1>1. /\ Types /\ Locks /\ Trips /\ Places /\ Inside
      /\ personsOn \subseteq Person /\ occupancy \in Int /\ o \in Int /\ elevatorFree \in BOOLEAN
      /\ maxOccupancy \in Nat
  BY ElevatorAssumption DEF BaseInv, Types, ElevatorTypeOK
<1>2. \A A \in SUBSET Person : IsFiniteSet(A) /\ Cardinality(A) \in Nat
  BY FS_Subset, FS_CardinalityType
<1>3. \A A \in SUBSET Person : \A B \in SUBSET A : Cardinality(B) <= Cardinality(A)
  BY <1>2, FS_Subset
<1>4. Load \in SUBSET Person /\ personsOn \in SUBSET Load /\ Load' \subseteq personsOn' \cup Person
  BY <1>1 DEF Load
<1>5. ASSUME NEW p \in Person,
             Arrive(p) \/ HailStalls(p) \/ Hail(p) \/ HailAgain(p) \/ Board(p) \/ GetOut(p)
      PROVE  Room(g)'
  <2>1. UNCHANGED <<o, point>>
    BY <1>5, PersonCar DEF carVars
  <2>2. \A q \in Person : Coming(q)' => Coming(q)
    BY <1>1, <1>5, PersonLate
  <2>3. /\ personsOn' = personsOn /\ occupancy' = occupancy
        \/ (personsOn' = personsOn \cup {p} /\ p \notin personsOn /\ occupancy' = occupancy + 1 /\ Coming(p))
        \/ (personsOn' = personsOn \ {p} /\ p \in personsOn /\ occupancy' = occupancy - 1)
    <3>1. CASE Arrive(p) \/ HailStalls(p) \/ Hail(p) \/ HailAgain(p)
      BY <3>1 DEF Arrive, HailStalls, Hail, HailAgain, crowdVars
    <3>2. CASE Board(p)
      <4>1. Coming(p) /\ p \notin personsOn
        BY <1>1, <3>2, PersonLate DEF Inside, Coming, Board, Dispatched
      <4>. QED BY <3>2, <4>1 DEF Board, crowdVars
    <3>3. CASE GetOut(p)
      <4>1. p \in personsOn
        BY <1>1, <3>3 DEF Inside, GetOut, Dispatched
      <4>. QED BY <3>3, <4>1 DEF GetOut, crowdVars
    <3>. QED BY <1>5, <3>1, <3>2, <3>3
  <2>4. Load' \in SUBSET Load
    BY <2>2, <2>3 DEF Load
  <2>5. Cardinality(Load') <= Cardinality(Load) /\ Cardinality(Load) \in Nat /\ Cardinality(Load') \in Nat
    BY <1>2, <1>3, <1>4, <2>4
  <2>6. occupancy' = g + Cardinality(personsOn')
    <3>1. IsFiniteSet(personsOn)
      BY <1>1, <1>2
    <3>2. p \notin personsOn => Cardinality(personsOn \cup {p}) = Cardinality(personsOn) + 1
      BY <3>1, FS_AddElement
    <3>3. p \in personsOn => Cardinality(personsOn \ {p}) = Cardinality(personsOn) - 1
      BY <3>1, FS_RemoveElement
    <3>4. Cardinality(personsOn) \in Nat
      BY <1>1, <1>2
    <3>5. occupancy = g + Cardinality(personsOn)
      BY DEF Room
    <3>6. CASE personsOn' = personsOn /\ occupancy' = occupancy
      BY <3>5, <3>6
    <3>7. CASE personsOn' = personsOn \cup {p} /\ p \notin personsOn /\ occupancy' = occupancy + 1
      <4>1. Cardinality(personsOn') = Cardinality(personsOn) + 1
        BY <3>2, <3>7
      <4>. QED BY <3>4, <3>5, <3>7, <4>1
    <3>8. CASE personsOn' = personsOn \ {p} /\ p \in personsOn /\ occupancy' = occupancy - 1
      <4>1. Cardinality(personsOn') = Cardinality(personsOn) - 1
        BY <3>3, <3>8
      <4>. QED BY <3>4, <3>5, <3>8, <4>1
    <3>. QED BY <2>3, <3>6, <3>7, <3>8
  <2>. HIDE DEF Load
  <2>7. Cardinality(Load') = 0 \/ g + Cardinality(Load') <= maxOccupancy
    BY <1>1, <2>5 DEF Room
  <2>8. /\ point' = "signal" => g + Cardinality(Load') <= o'
        /\ point' \in {"unlist", "unlisting"} => g + Cardinality(Load') <= o' + 1
    BY <1>1, <2>1, <2>5 DEF Room
  <2>. QED BY <2>6, <2>7, <2>8 DEF Room
<1>6. CASE \/ Preempted \/ MainRuns \/ ElevatorDispatched \/ ElevatorStep
           \/ HaltTest \/ UNCHANGED vars
  <2>1. UNCHANGED <<personsOn, occupancy>>
    BY <1>6 DEF Preempted, MainRuns, ElevatorDispatched, ElevatorStep, HaltTest, vars, AcquireLock, Choose,
       Spin, Go, Signal, Broadcast, TakePersonLock, Unlist, Unload, Unloaded, ReleaseLock, crowdVars
  <2>2. \A q \in Person :
          Coming(q)' => \/ Coming(q)
                        \/ Signal /\ point' = "unlist" /\ q = Head(entering[currentFloor])
    BY <1>1, <1>6, ElevatorLate
  <2>3. Load' \in SUBSET Person
    BY <1>1, <2>1 DEF Load
  <2>4. Cardinality(Load) \in Nat /\ Cardinality(Load') \in Nat
    BY <1>2, <1>4, <2>3
  <2>5. CASE Signal /\ point' = "unlist"
    <3>1. point = "signal" /\ o < maxOccupancy /\ o' = o
      BY <2>5 DEF Signal, At
    <3>2. Load' \subseteq Load \cup {Head(entering[currentFloor])}
      BY <2>1, <2>2 DEF Load
    <3>3. Cardinality(Load') <= Cardinality(Load) + 1
      <4>1. IsFiniteSet(Load)
        BY <1>2, <1>4
      <4>2. /\ IsFiniteSet(Load \cup {Head(entering[currentFloor])})
            /\ Cardinality(Load \cup {Head(entering[currentFloor])}) <= Cardinality(Load) + 1
        BY <4>1, OneMoreCounts
      <4>3. Cardinality(Load') <= Cardinality(Load \cup {Head(entering[currentFloor])})
        BY <3>2, <4>2, FS_Subset
      <4>4. Cardinality(Load \cup {Head(entering[currentFloor])}) \in Nat
        BY <4>2, FS_CardinalityType
      <4>. QED BY <2>4, <4>2, <4>3, <4>4
    <3>. HIDE DEF Load
    <3>4. g + Cardinality(Load) <= o
      BY <3>1 DEF Room
    <3>5. g + Cardinality(Load') <= o + 1 /\ o + 1 <= maxOccupancy
      BY <1>1, <2>4, <3>1, <3>3, <3>4
    <3>6. g + Cardinality(Load') <= maxOccupancy
      BY <1>1, <2>4, <3>5
    <3>7. occupancy' = g + Cardinality(personsOn')
      BY <2>1 DEF Room
    <3>. QED BY <2>5, <3>1, <3>5, <3>6, <3>7 DEF Room
  <2>6. CASE ~(Signal /\ point' = "unlist")
    <3>1. Load' \in SUBSET Load
      BY <2>1, <2>2, <2>6 DEF Load
    <3>2. Cardinality(Load') <= Cardinality(Load)
      BY <1>3, <1>4, <3>1
    <3>3. CASE Go /\ point' = "signal"
      <4>1. o' = occupancy
        BY <3>3 DEF Go
      <4>2. Load = personsOn
        <5>1. LateOnes = {}
          BY <3>3 DEF Quiet, Go, At
        <5>. QED BY <5>1, LateLemma DEF Load
      <4>. QED BY <1>1, <2>1, <2>4, <3>2, <3>3, <4>1, <4>2 DEF Room
    <3>4. CASE ~(Go /\ point' = "signal")
      <4>1. /\ point' = "signal" => \/ point = "signal" /\ o' = o
                                    \/ point = "unlisting" /\ o' = o + 1
            /\ point' \in {"unlist", "unlisting"} => point \in {"unlist", "unlisting"} /\ o' = o
        BY <1>6, <2>6, <3>4
        DEF Preempted, MainRuns, ElevatorDispatched, ElevatorStep, HaltTest, vars, AcquireLock, Choose,
            Spin, Signal, Broadcast, TakePersonLock, Unlist, Unload, Unloaded, ReleaseLock, carVars, At, Go
      <4>. HIDE DEF Load
      <4>. QED BY <1>1, <2>1, <2>4, <3>2, <4>1 DEF Room
    <3>. QED BY <3>3, <3>4
  <2>. QED BY <2>5, <2>6
<1>. QED BY <1>5, <1>6 DEF ElevatorNext, ElevatorStep, Halted

\* At first nobody is inside or on the way.
LEMMA RoomStart == ASSUME NEW g \in Int PROVE ElevatorInit /\ occupancy = g => Room(g)
<1>. SUFFICES ASSUME ElevatorInit, occupancy = g PROVE Room(g)
  OBVIOUS
<1>1. /\ personsOn = {} /\ point = "acquire"
      /\ \A p \in Person : phase[p] = "absent"
  BY DEF ElevatorInit
<1>2. Load = {}
  BY <1>1 DEF Load, Coming
<1>. QED BY <1>1, <1>2, FS_EmptySet DEF Room

\* The bound on those inside and on their way is the one the properties state.
LEMMA RoomCounts ==
    ASSUME IsFiniteSet(Person), NEW g \in Int
    PROVE  /\ BaseInv /\ Room(g) => OccupancyFrom(g)
           /\ BaseInv /\ Room(0) => OccupancyExact
<1>. SUFFICES ASSUME BaseInv PROVE (Room(g) => OccupancyFrom(g)) /\ (Room(0) => OccupancyExact)
  OBVIOUS
<1>1. Load = Aboard
  BY DEF Load, Coming, On, Aboard
<1>2. Load \in SUBSET Person /\ personsOn \in SUBSET Person
  BY DEF Load, BaseInv, Types, ElevatorTypeOK
<1>3. IsFiniteSet(Load) /\ Cardinality(Load) \in Nat /\ Cardinality(personsOn) \in Nat
  BY <1>2, FS_Subset, FS_CardinalityType
<1>4. Cardinality(Load) = 0 => Load = {}
  BY <1>3, FS_EmptySet
<1>. HIDE DEF Load
<1>5. maxOccupancy \in Nat
  BY ElevatorAssumption
<1>. QED BY <1>1, <1>3, <1>4, <1>5 DEF Room, OccupancyFrom, OccupancyExact, NeverOvercrowded

\* What the elevator knows of its crowd is exact but for g, what occupancy held
\* when it started (no constructor sets it): the elevator counts g persons more
\* than are inside, lets in that many fewer, and its lists are right all the same;
\* if it Yields once per person between two moves.
THEOREM CrowdExactButForGarbage ==
    ASSUME IsFiniteSet(Person), Cardinality(Person) <= elevatorDelay, NEW g \in Int
    PROVE  ElevatorSpec /\ occupancy = g => []CrowdExactFrom(g)
<1>. DEFINE Inv == ((BaseInv /\ ListsInv) /\ CarInv) /\ Room(g)
<1>1. ElevatorInit /\ occupancy = g => Inv
  BY ListsStart, CarStart, RoomStart
<1>2. Inv /\ [ElevatorNext]_vars => Inv'
  BY ListsStep, CarStep, RoomStep DEF CarInv
<1>3. Inv => OccupancyFrom(g)
  BY RoomCounts
<1>4. ElevatorSpec => [](ElevatorTypeOK /\ ListsMatchPersons)
  BY ListsAreTrue
<1>. HIDE DEF Inv
<1>. QED BY <1>1, <1>2, <1>3, <1>4, PTL DEF ElevatorSpec, CrowdExactFrom

\* Where occupancy started from 0 the elevator knows exactly who is inside, and
\* never takes more than maxOccupancy; personsWaiting may have held anything.
THEOREM CrowdAlwaysExact ==
    ASSUME IsFiniteSet(Person), Cardinality(Person) <= elevatorDelay
    PROVE  ElevatorSpec /\ occupancy = 0 => []CrowdExact
<1>. DEFINE Inv == ((BaseInv /\ ListsInv) /\ CarInv) /\ Room(0)
<1>1. ElevatorInit /\ occupancy = 0 => Inv
  BY ListsStart, CarStart, RoomStart
<1>2. Inv /\ [ElevatorNext]_vars => Inv'
  BY ListsStep, CarStep, RoomStep DEF CarInv
<1>3. Inv => OccupancyExact
  BY RoomCounts
<1>4. ElevatorSpec => [](ElevatorTypeOK /\ ListsMatchPersons)
  BY ListsAreTrue
<1>. HIDE DEF Inv
<1>. QED BY <1>1, <1>2, <1>3, <1>4, PTL DEF ElevatorSpec, CrowdExact
=============================================================================
