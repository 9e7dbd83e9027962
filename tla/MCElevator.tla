----------------------------- MODULE MCElevator -----------------------------
(* The elevator on small buildings.                                        *)
EXTENDS Elevator, TLC

CONSTANTS p1, p2, p3

\* Persons are interchangeable until they choose their trip.
People == Permutations(Person)
=============================================================================
