------------------------------ MODULE MCLiveBoard ------------------------------
EXTENDS LiveBoard, TLC

(* Three writes of a ticket, or two calls.                                 *)
MCLoads == {[tickets |-> 3, calls |-> 0], [tickets |-> 0, calls |-> 2]}

Symmetry == Permutations(Staff) \cup Permutations(Seats)
===============================================================================
