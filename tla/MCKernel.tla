------------------------------ MODULE MCKernel ------------------------------
(* The thread kernel on small instances.                                   *)
EXTENDS Kernel, TLC

CONSTANTS t1, t2, t3
=============================================================================
