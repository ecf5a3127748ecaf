------------------------------ MODULE MCMediaJob ------------------------------
EXTENDS MediaJob, TLC
Symmetry == Permutations(Deliveries) \cup Permutations(Reconcilers)
=============================================================================
