---------------------------- MODULE MCFeatureCache ----------------------------
\* FeatureCache on small instances: nothing tells processes, refs or files apart.
EXTENDS FeatureCache, TLC

Symmetry == Permutations(Process) \cup Permutations(Ref) \cup Permutations(File)
=============================================================================
