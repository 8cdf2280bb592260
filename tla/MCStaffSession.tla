---------------------------- MODULE MCStaffSession ----------------------------
(***************************************************************************)
(* One login of one person, whose requests may come from one page or two.  *)
(***************************************************************************)
EXTENDS StaffSession, TLC

CONSTANTS u1, f1, c1, c2

MCOwnerOf == f1 :> u1
Symmetry  == Permutations({c1, c2})
===============================================================================
