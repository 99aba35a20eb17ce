----------------------------- MODULE MC_Errors -----------------------------
(* Two threads with a document each. *)
EXTENDS Errors

MCOwner == [d \in Docs |-> IF d = "d1" THEN "t1" ELSE "t2"]
MCLine == [p \in Places |-> IF p = "first" THEN 1 ELSE 2]
MCFaults == {[place |-> "first", code |-> 4], [place |-> "second", code |-> 9]}
=============================================================================
