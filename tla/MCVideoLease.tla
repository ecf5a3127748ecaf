---------------------------- MODULE MCVideoLease ----------------------------
(* Small instances of VideoLease for TLC: the runs are interchangeable. *)
EXTENDS VideoLease, TLC

Symmetry == Permutations(Run)
=============================================================================
