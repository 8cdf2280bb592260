----------------------------- MODULE MCMenuEditing -----------------------------
EXTENDS MenuEditing, TLC

Symmetry == Permutations(Managers)
            \cup Permutations(Variants) \cup Permutations(Photos)
===============================================================================
