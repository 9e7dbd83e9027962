----------------------------- MODULE AtomicDisk -----------------------------
(***************************************************************************)
(* What SynchDisk promises its callers (filesys/synchdisk.h, machine/      *)
(* disk.h): each thread may have one call under way; the disk serves one   *)
(* call at a time, from the step in which it reads or writes the sector to *)
(* its interrupt; a call returns only when the disk is done with that very *)
(* call, and reads return what the last write put there.  Nothing is said  *)
(* of a lock or a semaphore.                                               *)
(***************************************************************************)
CONSTANTS Thread, Sector, Value, Zero
VARIABLES
    data,    \* the contents of the sectors
    busy,    \* the disk is at work
    call,    \* the call each thread has under way, and how far it is
    buffer   \* the caller's buffer: what a read brought, what a write sends

NoCall  == [op |-> "none"]
Served  == [op |-> "served"]
Done    == [op |-> "done"]
Calls   == [op : {"read", "write"}, sector : Sector]

ADInit ==
    /\ data = [s \in Sector |-> Zero]
    /\ busy = FALSE
    /\ call = [t \in Thread |-> NoCall]
    /\ buffer = [t \in Thread |-> Zero]

Begin(t) ==
    /\ call[t] = NoCall
    /\ \E c \in Calls, v \in Value :
          /\ call' = [call EXCEPT ![t] = c]
          /\ buffer' = IF c.op = "write" THEN [buffer EXCEPT ![t] = v] ELSE buffer
    /\ UNCHANGED <<data, busy>>

\* The disk takes up a call, when it has nothing else to do.
Perform(t) ==
    /\ call[t] \in Calls /\ ~busy
    /\ IF call[t].op = "read"
         THEN buffer' = [buffer EXCEPT ![t] = data[call[t].sector]] /\ data' = data
         ELSE data' = [data EXCEPT ![call[t].sector] = buffer[t]] /\ buffer' = buffer
    /\ busy' = TRUE
    /\ call' = [call EXCEPT ![t] = Served]

\* It reports the one call it serves.
Complete(t) ==
    /\ call[t] = Served /\ busy
    /\ busy' = FALSE
    /\ call' = [call EXCEPT ![t] = Done]
    /\ UNCHANGED <<data, buffer>>

Finish(t) ==
    /\ call[t] = Done
    /\ call' = [call EXCEPT ![t] = NoCall]
    /\ UNCHANGED <<data, busy, buffer>>

ADNext == \E t \in Thread : Begin(t) \/ Perform(t) \/ Complete(t) \/ Finish(t)

ADSpec == ADInit /\ [][ADNext]_<<data, busy, call, buffer>>
=============================================================================
