------------------------------ MODULE MCBooking ------------------------------
(* Finite instances of Booking for TLC.                                      *)
EXTENDS Booking, TLC

CONSTANTS t1, t2, c1

MCMembers == [c \in Combos |-> Tables]
MCCapacity == [x \in Tables \cup Combos |-> IF x \in Combos THEN 4 ELSE 2]

Symmetric == Permutations(Workers) \cup Permutations(ResIds) \cup Permutations(Tables)
=============================================================================
