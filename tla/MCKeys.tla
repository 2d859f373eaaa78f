------------------------------- MODULE MCKeys -------------------------------
(***************************************************************************)
(* Keys on small instances.                                                *)
(***************************************************************************)
EXTENDS Keys, TLC

Symmetry ==
    Permutations(Apps) \cup Permutations(AppKeys) \cup Permutations(Requests)
        \cup Permutations(Servers)

=============================================================================
