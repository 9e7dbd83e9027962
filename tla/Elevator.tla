------------------------------ MODULE Elevator ------------------------------
(***************************************************************************)
(* threads/elevator.cc: one elevator thread and one thread per person,     *)
(* synchronized by elevatorLock, personLock and two conditions per floor.  *)
(*                                                                         *)
(* A person's thread runs with interrupts off, so what it does from being  *)
(* dispatched to being put to sleep is one step.  The elevator's thread    *)
(* runs with interrupts on and can be preempted between any two of its     *)
(* steps, also while it holds its locks.  The ready list is explicit:      *)
(* whether a signalled person boards before the elevator moves on is a     *)
(* question of who runs first.                                             *)
(*                                                                         *)
(* Persons hold elevatorLock only within a step (personLock, the one thing *)
(* they could sleep on while holding it, is free then: the elevator takes  *)
(* it only while it holds elevatorLock itself).                            *)
(***************************************************************************)
EXTENDS Integers, Sequences, SequencesExt, FiniteSets

CONSTANTS
    Person,         \* the persons that will arrive
    elevator,       \* the elevator's thread
    numFloors,
    maxOccupancy,   \* 5 in the code
    elevatorDelay,  \* 1000000 in main.cc: the Yields between two moves
    Garbage         \* what the ints no constructor sets may hold: occupancy, personsWaiting

ASSUME ElevatorAssumption ==
    /\ elevator \notin Person
    /\ numFloors \in Nat \ {0, 1} /\ maxOccupancy \in Nat \ {0} /\ elevatorDelay \in Nat
    /\ Garbage \subseteq Int

Floor == 1 .. numFloors
None  == -1

\* Where a person is: not there yet, thread forked, waiting for personLock, for
\* elevatorLock, on entering[atFloor], for elevatorLock again, on
\* leaving[toFloor], for elevatorLock again, gone.
Phase == {"absent", "start", "adding", "hailing", "entering", "boarding",
          "riding", "alighting", "out"}

Point == {"acquire", "choose", "spin", "go", "signal", "unlist", "unlisting",
          "broadcast", "unload", "unloading", "release", "rest"}

VARIABLES
    atFloor, toFloor, phase,            \* Person, and where its thread is
    personsWaiting, occupancy, personsOn,
    listEntering, listLeaving,          \* the Person arrays of each floor
    currentFloor, from, to, o, count,   \* the elevator and its locals
    point,                              \* where the elevator's thread is
    elevatorFree, lockQueue,            \* elevatorLock
    personFree, personQueue,            \* personLock
    entering, leaving,                  \* the queues of the conditions
    ready, running,                     \* ready list; the elevator has the CPU
    halted

tripVars  == <<atFloor, toFloor>>
crowdVars == <<personsWaiting, occupancy, personsOn>>
listVars  == <<listEntering, listLeaving>>
carVars   == <<currentFloor, from, to, o>>
lockVars  == <<elevatorFree, lockQueue, personFree, personQueue>>
condVars  == <<entering, leaving>>
vars == <<tripVars, phase, crowdVars, listVars, carVars, count, point, lockVars,
          condVars, ready, running, halted>>

ElevatorInit ==
    /\ atFloor = [p \in Person |-> None] /\ toFloor = [p \in Person |-> None]
    /\ phase = [p \in Person |-> "absent"]
    /\ personsWaiting \in [Floor -> Garbage]
    /\ occupancy \in Garbage
    /\ personsOn = {}
    /\ listEntering = [f \in Floor |-> {}] /\ listLeaving = [f \in Floor |-> {}]
    /\ currentFloor = 1 /\ from = None /\ to = None /\ o = 0 /\ count = 0
    /\ point = "acquire"
    /\ elevatorFree = TRUE /\ lockQueue = << >>
    /\ personFree = TRUE /\ personQueue = << >>
    /\ entering = [f \in Floor |-> << >>] /\ leaving = [f \in Floor |-> << >>]
    /\ ready = << >> /\ running = TRUE /\ halted = FALSE

-----------------------------------------------------------------------------
Abs(n)    == IF n < 0 THEN -n ELSE n
FirstN(q, n) == SubSeq(q, 1, IF n < Len(q) THEN n ELSE Len(q))
Rest(q)   == IF q = << >> THEN q ELSE Tail(q)
DropN(q, n) == SubSeq(q, n + 1, Len(q))

\* ELEVATOR::getFloor: the nearest of the floors, the upper one of two.
getFloor(floors) ==
    IF floors = {} THEN None
    ELSE CHOOSE f \in floors : \A g \in floors :
            \/ Abs(f - currentFloor) < Abs(g - currentFloor)
            \/ Abs(f - currentFloor) = Abs(g - currentFloor) /\ f >= g

\* active(pE): everybody the elevator still has to do with.
active ==
    MapThenSumSet(LAMBDA f : personsWaiting[f] + Cardinality(listEntering[f])
                                               + Cardinality(listLeaving[f]), Floor)
      + Cardinality(personsOn)

\* One floor towards f.
Towards(f) ==
    CASE f < currentFloor -> currentFloor - 1
      [] f > currentFloor -> currentFloor + 1
      [] OTHER            -> currentFloor

MiddleFloor == (numFloors + 1) \div 2

-----------------------------------------------------------------------------
(* Persons                                                                 *)

\* ArrivingGoingFromTo, called by the main thread.
Arrive(p) ==
    /\ ~halted /\ ~running
    /\ phase[p] = "absent"
    /\ \E f, g \in Floor :
         /\ f # g
         /\ atFloor' = [atFloor EXCEPT ![p] = f]
         /\ toFloor' = [toFloor EXCEPT ![p] = g]
    /\ phase' = [phase EXCEPT ![p] = "start"]
    /\ ready' = Append(ready, p)
    /\ UNCHANGED <<crowdVars, listVars, carVars, count, point, lockVars, condVars,
                   running, halted>>

\* The scheduler dispatches p, whose thread stands at one of the phases ps.
Dispatched(p, ps) == ~halted /\ ~running /\ ready # << >> /\ Head(ready) = p /\ phase[p] \in ps

\* p sleeps, and n persons waiting for personLock, and perhaps one waiting for
\* elevatorLock, have been made ready by what it released.
Sleeps(p, next, n, queue) ==
    /\ phase' = [phase EXCEPT ![p] = next]
    /\ personQueue' = DropN(personQueue, n)
    /\ ready' = Tail(ready) \o FirstN(personQueue, n) \o FirstN(queue, 1)

\* elevatorLock is not free: p sleeps at the end of its queue.
QueueForElevator(p, next, n) ==
    /\ ~elevatorFree
    /\ Sleeps(p, next, n, << >>)
    /\ lockQueue' = Append(lockQueue, p)

\* Condition::Wait: release elevatorLock, which wakes one thread, and sleep.
WaitOn(p, next, n) ==
    /\ elevatorFree
    /\ Sleeps(p, next, n, lockQueue)
    /\ lockQueue' = Rest(lockQueue)

\* hailElevator, up to addToPP, which finds personLock taken.
HailStalls(p) ==
    /\ Dispatched(p, {"start", "adding"})
    /\ ~personFree
    /\ personsWaiting' = [personsWaiting EXCEPT ![atFloor[p]] =
                             IF phase[p] = "start" THEN @ + 1 ELSE @]
    /\ phase' = [phase EXCEPT ![p] = "adding"]
    /\ personQueue' = Append(personQueue, p)
    /\ ready' = Tail(ready)
    /\ UNCHANGED <<tripVars, occupancy, personsOn, listVars, carVars, count, point,
                   elevatorFree, lockQueue, personFree, condVars, running, halted>>

\* hailElevator: get onto the list, then wait for the lock or for the elevator.
Hail(p) ==
    /\ Dispatched(p, {"start", "adding"})
    /\ personFree
    /\ personsWaiting' = [personsWaiting EXCEPT ![atFloor[p]] =
                             IF phase[p] = "start" THEN @ + 1 ELSE @]
    /\ listEntering' = [listEntering EXCEPT ![atFloor[p]] = @ \cup {p}]
    /\ \/ QueueForElevator(p, "hailing", 1) /\ UNCHANGED entering
       \/ /\ WaitOn(p, "entering", 1)
          /\ entering' = [entering EXCEPT ![atFloor[p]] = Append(@, p)]
    /\ UNCHANGED <<tripVars, occupancy, personsOn, listLeaving, carVars, count, point,
                   elevatorFree, personFree, leaving, running, halted>>

\* Woken in Acquire: try again.
HailAgain(p) ==
    /\ Dispatched(p, {"hailing"})
    /\ \/ QueueForElevator(p, "hailing", 0) /\ UNCHANGED entering
       \/ /\ WaitOn(p, "entering", 0)
          /\ entering' = [entering EXCEPT ![atFloor[p]] = Append(@, p)]
    /\ UNCHANGED <<tripVars, crowdVars, listVars, carVars, count, point,
                   elevatorFree, personFree, leaving, running, halted>>

\* Signalled: take the lock back, get in, wait on leaving[toFloor].
Board(p) ==
    /\ Dispatched(p, {"entering", "boarding"})
    /\ \/ /\ QueueForElevator(p, "boarding", 0)
          /\ UNCHANGED <<crowdVars, listLeaving, leaving>>
       \/ /\ WaitOn(p, "riding", 2)
          /\ personsOn' = personsOn \cup {p}
          /\ personsWaiting' = [personsWaiting EXCEPT ![atFloor[p]] = @ - 1]
          /\ listLeaving' = [listLeaving EXCEPT ![toFloor[p]] = @ \cup {p}]
          /\ occupancy' = occupancy + 1
          /\ leaving' = [leaving EXCEPT ![toFloor[p]] = Append(@, p)]
    /\ UNCHANGED <<tripVars, listEntering, carVars, count, point,
                   elevatorFree, personFree, entering, running, halted>>

\* Woken by the broadcast: take the lock back, get out, finish.
GetOut(p) ==
    /\ Dispatched(p, {"riding", "alighting"})
    /\ \/ QueueForElevator(p, "alighting", 0) /\ UNCHANGED crowdVars
       \/ /\ WaitOn(p, "out", 1)
          /\ personsOn' = personsOn \ {p}
          /\ occupancy' = occupancy - 1
          /\ UNCHANGED personsWaiting
    /\ UNCHANGED <<tripVars, listVars, carVars, count, point,
                   elevatorFree, personFree, condVars, running, halted>>

-----------------------------------------------------------------------------
(* The elevator's thread                                                   *)

At(pt) == ~halted /\ running /\ point = pt

\* Thread::Yield by the elevator, or the timer preempts it.
LetOthersRun ==
    IF ready = << >> THEN UNCHANGED <<ready, running>>
    ELSE ready' = Append(ready, elevator) /\ running' = FALSE

Preempted ==
    /\ ~halted /\ running /\ ready # << >>
    /\ LetOthersRun
    /\ UNCHANGED <<tripVars, phase, crowdVars, listVars, carVars, count, point,
                   lockVars, condVars, halted>>

ElevatorDispatched ==
    /\ ~halted /\ ~running /\ ready # << >> /\ Head(ready) = elevator
    /\ ready' = Tail(ready) /\ running' = TRUE
    /\ UNCHANGED <<tripVars, phase, crowdVars, listVars, carVars, count, point,
                   lockVars, condVars, halted>>

\* elevatorLock->Acquire().
AcquireLock ==
    /\ At("acquire")
    /\ elevatorFree
    /\ elevatorFree' = FALSE
    /\ point' = "choose"
    /\ UNCHANGED <<tripVars, phase, crowdVars, listVars, carVars, count, lockQueue,
                   personFree, personQueue, condVars, ready, running, halted>>

\* Where to go, unless the last goal is still ahead.
Choose ==
    /\ At("choose")
    /\ from' = IF from < 1 THEN getFloor({f \in Floor : listEntering[f] # {}}) ELSE from
    /\ to' = IF to < 1 THEN getFloor({f \in Floor : listLeaving[f] \cap personsOn # {}}) ELSE to
    /\ count' = IF active > 0 THEN elevatorDelay ELSE 0
    /\ point' = "spin"
    /\ UNCHANGED <<tripVars, phase, crowdVars, listVars, currentFloor, o, lockVars,
                   condVars, ready, running, halted>>

\* Mutant of Spin: one Yield instead of elevatorDelay of them.
SpinOnce ==
    /\ \E pt \in {"spin", "rest"} :
         /\ At(pt)
         /\ point' = IF pt = "spin" THEN "go" ELSE "acquire"
    /\ LetOthersRun
    /\ count' = 0
    /\ UNCHANGED <<tripVars, phase, crowdVars, listVars, carVars, lockVars, condVars, halted>>

\* The two delay loops, the first of them with elevatorLock held.
Spin ==
    /\ \E pt \in {"spin", "rest"} :
         /\ At(pt)
         /\ \/ /\ count > 0
               /\ LetOthersRun
               /\ count' = count - 1
               /\ UNCHANGED point
            \/ /\ count = 0
               /\ point' = IF pt = "spin" THEN "go" ELSE "acquire"
               /\ UNCHANGED <<count, ready, running>>
    /\ UNCHANGED <<tripVars, phase, crowdVars, listVars, carVars, lockVars, condVars, halted>>

\* To a person who waits, if that is nearer than the next stop and there is room.
PickUp ==
    /\ from > 0
    /\ to = None \/ Abs(to - currentFloor) > Abs(from - currentFloor)
    /\ occupancy < maxOccupancy

\* Move by one floor: to pick up, to let out, or back to the middle.
Go ==
    /\ At("go")
    /\ \/ /\ PickUp
          /\ currentFloor' = Towards(from)
          /\ point' = IF currentFloor' = from THEN "signal" ELSE "release"
          /\ o' = occupancy
       \/ /\ ~PickUp /\ to > 0
          /\ currentFloor' = Towards(to)
          /\ point' = IF currentFloor' = to THEN "broadcast" ELSE "release"
          /\ UNCHANGED o
       \/ /\ ~PickUp /\ to = None
          /\ currentFloor' = IF from = None THEN Towards(MiddleFloor) ELSE currentFloor
          /\ point' = "release"
          /\ UNCHANGED o
    /\ UNCHANGED <<tripVars, phase, crowdVars, listVars, from, to, count, lockVars,
                   condVars, ready, running, halted>>

\* Mutant of Signal: the limit is checked against occupancy, which the persons
\* signalled have not raised yet.
SignalByOccupancy ==
    /\ At("signal")
    /\ \/ /\ occupancy < maxOccupancy /\ entering[currentFloor] # << >>
          /\ ready' = Append(ready, Head(entering[currentFloor]))
          /\ entering' = [entering EXCEPT ![currentFloor] = Tail(@)]
          /\ point' = "unlist"
          /\ UNCHANGED from
       \/ /\ occupancy >= maxOccupancy \/ entering[currentFloor] = << >>
          /\ from' = None
          /\ point' = "release"
          /\ UNCHANGED <<entering, ready>>
    /\ UNCHANGED <<tripVars, phase, crowdVars, listVars, currentFloor, to, o, count,
                   lockVars, leaving, running, halted>>

\* entering[currentFloor]->Signal, while there is room.
Signal ==
    /\ At("signal")
    /\ \/ /\ o < maxOccupancy /\ entering[currentFloor] # << >>
          /\ ready' = Append(ready, Head(entering[currentFloor]))
          /\ entering' = [entering EXCEPT ![currentFloor] = Tail(@)]
          /\ point' = "unlist"
          /\ UNCHANGED from
       \/ /\ o >= maxOccupancy \/ entering[currentFloor] = << >>
          /\ from' = None
          /\ point' = "release"
          /\ UNCHANGED <<entering, ready>>
    /\ UNCHANGED <<tripVars, phase, crowdVars, listVars, currentFloor, to, o, count,
                   lockVars, leaving, running, halted>>

\* leaving[currentFloor]->Broadcast, one thread at a time; count is its result.
Broadcast ==
    /\ At("broadcast")
    /\ \/ /\ leaving[currentFloor] # << >>
          /\ ready' = Append(ready, Head(leaving[currentFloor]))
          /\ leaving' = [leaving EXCEPT ![currentFloor] = Tail(@)]
          /\ count' = count + 1
          /\ UNCHANGED point
       \/ /\ leaving[currentFloor] = << >>
          /\ point' = "unload"
          /\ UNCHANGED <<count, leaving, ready>>
    /\ UNCHANGED <<tripVars, phase, crowdVars, listVars, carVars, lockVars, entering,
                   running, halted>>

\* removeFromPPFirst: personLock->Acquire().
TakePersonLock ==
    /\ \/ At("unlist") /\ point' = "unlisting"
       \/ At("unload") /\ count > 0 /\ point' = "unloading"
    /\ personFree
    /\ personFree' = FALSE
    /\ UNCHANGED <<tripVars, phase, crowdVars, listVars, carVars, count, elevatorFree,
                   lockQueue, personQueue, condVars, ready, running, halted>>

\* removeFromPPFirst takes the first person off the list, whoever that is (the
\* arrays fill holes), and releases personLock.
ReleasePersonLock ==
    /\ personFree' = TRUE
    /\ personQueue' = DropN(personQueue, 1)
    /\ ready' = ready \o FirstN(personQueue, 1)

Unlist ==
    /\ At("unlisting")
    /\ \E p \in listEntering[currentFloor] :
         listEntering' = [listEntering EXCEPT ![currentFloor] = @ \ {p}]
    /\ ReleasePersonLock
    /\ o' = o + 1
    /\ point' = "signal"
    /\ UNCHANGED <<tripVars, phase, crowdVars, listLeaving, currentFloor, from, to, count,
                   elevatorFree, lockQueue, condVars, running, halted>>

Unload ==
    /\ At("unloading")
    /\ \E p \in listLeaving[currentFloor] :
         listLeaving' = [listLeaving EXCEPT ![currentFloor] = @ \ {p}]
    /\ ReleasePersonLock
    /\ count' = count - 1
    /\ point' = "unload"
    /\ UNCHANGED <<tripVars, phase, crowdVars, listEntering, carVars,
                   elevatorFree, lockQueue, condVars, running, halted>>

\* Mutant of Unloaded: the stop is not cleared.
UnloadedKeepsTo ==
    /\ At("unload") /\ count = 0
    /\ UNCHANGED to
    /\ point' = "release"
    /\ UNCHANGED <<tripVars, phase, crowdVars, listVars, currentFloor, from, o, count,
                   lockVars, condVars, ready, running, halted>>

Unloaded ==
    /\ At("unload") /\ count = 0
    /\ to' = None
    /\ point' = "release"
    /\ UNCHANGED <<tripVars, phase, crowdVars, listVars, currentFloor, from, o, count,
                   lockVars, condVars, ready, running, halted>>

\* elevatorLock->Release(), and the second delay begins.
ReleaseLock ==
    /\ At("release")
    /\ elevatorFree' = TRUE
    /\ lockQueue' = Rest(lockQueue)
    /\ ready' = ready \o FirstN(lockQueue, 1)
    /\ count' = elevatorDelay
    /\ point' = "rest"
    /\ UNCHANGED <<tripVars, phase, crowdVars, listVars, carVars, personFree, personQueue,
                   condVars, running, halted>>

\* haltTest: everybody is out (totalIn = totalOut), nothing is active, the
\* elevator is parked.  It watches for 10000000 Yields, ten times as long as
\* main lets pass between two arrivals, so nobody is still to come.
HaltTest ==
    /\ ~halted
    /\ \A p \in Person : phase[p] = "out"
    /\ active = 0
    /\ currentFloor = MiddleFloor
    /\ halted' = TRUE
    /\ UNCHANGED <<tripVars, phase, crowdVars, listVars, carVars, count, point, lockVars,
                   condVars, ready, running>>

Halted == halted /\ UNCHANGED vars

-----------------------------------------------------------------------------
PersonStep(p) == HailStalls(p) \/ Hail(p) \/ HailAgain(p) \/ Board(p) \/ GetOut(p)

ElevatorStep ==
    \/ AcquireLock \/ Choose \/ Spin \/ Go \/ Signal \/ Broadcast \/ TakePersonLock
    \/ Unlist \/ Unload \/ Unloaded \/ ReleaseLock

\* The elevator Yields or is preempted, and main, which Yields a million times
\* between two arrivals and is not on the modelled ready list, has the CPU.
MainRuns ==
    /\ ~halted /\ running /\ ready = << >>
    /\ ready' = <<elevator>> /\ running' = FALSE
    /\ UNCHANGED <<tripVars, phase, crowdVars, listVars, carVars, count, point,
                   lockVars, condVars, halted>>

ElevatorNext ==
    \/ \E p \in Person : Arrive(p)
    \/ \E p \in Person : HailStalls(p)
    \/ \E p \in Person : Hail(p)
    \/ \E p \in Person : HailAgain(p)
    \/ \E p \in Person : Board(p)
    \/ \E p \in Person : GetOut(p)
    \/ Preempted
    \/ MainRuns
    \/ ElevatorDispatched
    \/ AcquireLock
    \/ Choose
    \/ Spin
    \/ Go
    \/ Signal
    \/ Broadcast
    \/ TakePersonLock
    \/ Unlist
    \/ Unload
    \/ Unloaded
    \/ ReleaseLock
    \/ HaltTest
    \/ Halted

ElevatorSpec == ElevatorInit /\ [][ElevatorNext]_vars

\* Every ready thread runs (ReadyThreadRuns of Kernel), the timer leaves the
\* elevator's thread time for its steps, main sends all its persons, and the
\* halt thread looks again and again.
ElevatorFairness ==
    /\ \A p \in Person : WF_vars(PersonStep(p)) /\ SF_vars(Arrive(p))
    /\ WF_vars(ElevatorDispatched)
    /\ SF_vars(ElevatorStep)
    /\ SF_vars(MainRuns)
    /\ SF_vars(HaltTest)

FairElevatorSpec == ElevatorSpec /\ ElevatorFairness

-----------------------------------------------------------------------------
(* Properties                                                              *)

\* Every variable has its type.
ElevatorTypeOK ==
    /\ phase \in [Person -> Phase]
    /\ atFloor \in [Person -> Floor \cup {None}] /\ toFloor \in [Person -> Floor \cup {None}]
    /\ personsWaiting \in [Floor -> Int]
    /\ occupancy \in Int /\ o \in Int /\ count \in Nat
    /\ personsOn \subseteq Person
    /\ listEntering \in [Floor -> SUBSET Person] /\ listLeaving \in [Floor -> SUBSET Person]
    /\ currentFloor \in Floor
    /\ from \in Floor \cup {None} /\ to \in Floor \cup {None}
    /\ point \in Point
    /\ ready \in Seq(Person \cup {elevator})
    /\ lockQueue \in Seq(Person) /\ personQueue \in Seq(Person)

\* The ASSERTs of hailElevator: a person who was signalled gets in while the
\* elevator stands at its floor, and gets out at the floor it wants.
DoorsOpenAtRightFloor ==
    [][\A p \in Person :
         /\ phase[p] # "riding" /\ phase'[p] = "riding" => currentFloor = atFloor[p]
         /\ phase[p] # "out" /\ phase'[p] = "out" => currentFloor = toFloor[p]]_vars

\* Never more persons than the limit, counting those signalled to get in who
\* have not moved yet ("checking occupancyLimit each time").
Aboard == personsOn \cup {p \in Person :
             \/ phase[p] = "boarding"
             \/ phase[p] = "entering" /\ \E i \in DOMAIN ready : ready[i] = p}
NeverOvercrowded == Cardinality(Aboard) <= maxOccupancy

\* occupancy is the number of persons inside, and respects the limit.
OccupancyExact == occupancy = Cardinality(personsOn) /\ NeverOvercrowded

\* The same of an elevator whose occupancy, which no constructor sets, held g at
\* first: it is wrong by g for ever, and so is the limit; with g at or over the
\* limit nobody gets in.
OccupancyFrom(g) ==
    /\ occupancy = g + Cardinality(personsOn)
    /\ Aboard = {} \/ g + Cardinality(Aboard) <= maxOccupancy

\* Between two rounds the lists say who is where: a floor's entering list has an
\* entry for everyone hailing from it, its leaving list one for every passenger
\* bound for it.  So getFloor never sends the elevator on an empty errand, and
\* never forgets anyone; and the ASSERT(found)s of start() hold.
ListsMatchPersons ==
    /\ point \in {"acquire", "choose", "spin", "go"} =>
         \A f \in Floor :
           /\ Cardinality(listEntering[f]) = Cardinality({p \in Person : atFloor[p] = f /\
                (phase[p] = "hailing" \/ \E i \in DOMAIN entering[f] : entering[f][i] = p)})
           /\ Cardinality(listLeaving[f]) = Len(leaving[f])
    /\ point \in {"unlist", "unlisting"} => listEntering[currentFloor] # {}
    /\ point \in {"unload", "unloading"} => Cardinality(listLeaving[currentFloor]) = count

\* The elevator's view of the crowd, counted by its own steps between locks, is
\* the truth: who is inside, who waits where, who wants to get out.
CrowdExact == ElevatorTypeOK /\ OccupancyExact /\ ListsMatchPersons
CrowdExactFrom(g) == ElevatorTypeOK /\ OccupancyFrom(g) /\ ListsMatchPersons

\* Everyone who arrives is brought to their floor.
EveryoneArrives == \A p \in Person : phase[p] = "start" ~> phase[p] = "out"

\* The elevator returns to the middle floor and the halt thread stops the machine.
MachineHalts == <>halted

\* The simulation ends, with everyone where they wanted to go.
JourneysEnd == EveryoneArrives /\ MachineHalts
=============================================================================
