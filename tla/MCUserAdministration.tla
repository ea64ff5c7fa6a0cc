-------------------------- MODULE MCUserAdministration --------------------------
EXTENDS UserAdministration, TLC

Symmetry == Permutations(Users) \cup Permutations(Sessions) \cup Permutations(Requests)
===============================================================================
