---------------------------- MODULE MC_Rmalloc ----------------------------
(* Two blocks with the same hash value, and one with another. *)
EXTENDS Rmalloc

CONSTANTS b1, b2, b3

MCHash == [b \in Blocks |-> IF b = b3 THEN 1 ELSE 0]
=============================================================================
