---------------------------- MODULE MCInterrupt -----------------------------
(* Interrupts, the timer and the idle loop on small instances.             *)
EXTENDS Interrupt, TLC

CONSTANTS t1, t2, disk, console
=============================================================================
