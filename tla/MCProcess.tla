----------------------------- MODULE MCProcess ------------------------------
(* User processes on small machines.                                       *)
EXTENDS Process, TLC

CONSTANTS t1, t2, t3, t4, s0, s1, s2, s3, s4, b0, b1, b2, b3

\* Addresses other than those of the first process are interchangeable.
Addresses == Permutations(ThreadAddr \ {main}) \cup Permutations(SpaceAddr \ {mainSpace})
                 \cup Permutations(PcbAddr \ {mainPcb})
=============================================================================
