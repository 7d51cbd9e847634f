-------------------------- MODULE MCGraphHierarchy --------------------------
\* GraphHierarchy on small instances.
EXTENDS GraphHierarchy, TLC

Symmetry == Permutations(Graphs) \cup Permutations(Nodes) \cup Permutations(Channels)
=============================================================================
