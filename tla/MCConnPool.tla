----------------------------- MODULE MCConnPool -----------------------------
(***************************************************************************)
(* ConnPool on small instances.  The symmetry is for safety alone: a run   *)
(* that checks liveness does without.                                      *)
(***************************************************************************)
EXTENDS ConnPool, TLC

Symmetry ==
    Permutations(Conns) \cup Permutations(AppleRequests)
        \cup Permutations(Requests \ AppleRequests)

=============================================================================
