------------------------------- MODULE MCPool -------------------------------
EXTENDS Pool, TLC

\* Addresses and mem_t objects are interchangeable.
Symmetry == Permutations(Blocks) \cup Permutations(Mems)
=============================================================================
