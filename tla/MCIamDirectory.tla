---------------------------- MODULE MCIamDirectory ----------------------------
(***************************************************************************)
(* The founder and one person who asks for access, one group and policy    *)
(* beside those of the system, two managers at work and one save.          *)
(***************************************************************************)
EXTENDS IamDirectory, TLC

CONSTANTS m1, m2

Symmetry == Permutations({m1, m2})
===============================================================================
