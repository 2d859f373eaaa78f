---------------------------- MODULE MCIdentities ----------------------------
(***************************************************************************)
(* Identities on small instances.  The symmetry is for safety alone: a run *)
(* that checks liveness does without.                                      *)
(***************************************************************************)
EXTENDS Identities, TLC

\* Row ids and request slots are interchangeable.
Symmetry ==
    Permutations(Apps) \cup Permutations(Users)
        \cup Permutations(UserIdentities) \cup Permutations(Requests)

=============================================================================
