------------------------------- MODULE MCJwks -------------------------------
(***************************************************************************)
(* Jwks on small instances.  The symmetry is for safety alone: a run that  *)
(* checks liveness does without.                                           *)
(***************************************************************************)
EXTENDS Jwks, TLC

Symmetry == Permutations(Kids) \cup Permutations(Verifiers)

=============================================================================
