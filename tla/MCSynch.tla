------------------------------ MODULE MCSynch -------------------------------
(* Three threads run one of two programs: with a semaphore, on which a     *)
(* device handler calls V too; or with a condition variable, its client    *)
(* lock and its queue lock.                                                *)
EXTENDS Synch, TLC

CONSTANTS t1, t2, s1, l1, q1, c1

\* The condition c1 is used with the client lock l1.
OneCondition == [c \in {c1} |-> l1]
OneQueueLock == [c \in {c1} |-> q1]

VARIABLE program

\* What the calls of a program are about.
Uses == [semaphore |-> {s1}, condition |-> {l1, q1, c1}]

Init == SynchInit /\ program \in DOMAIN Uses
Next ==
    /\ SynchNext
    /\ UNCHANGED program
    /\ \A t \in Thread : object'[t] \in Uses[program] \cup {NULL}
    /\ program = "condition" => pending' = 0

\* The fairness of Synch: its steps inside a routine, the ticks and the idle loop
\* are left as they are.
Spec == Init /\ [][Next]_<<vars, program>> /\ SynchFairness
=============================================================================
