---------------------------- MODULE MCRegistrySync ----------------------------
\* RegistrySync on small instances: nothing tells processes or names apart.
EXTENDS RegistrySync, TLC

Symmetry == Permutations(Process) \cup Permutations(Name)
=============================================================================
