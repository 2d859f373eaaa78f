----------------------------- MODULE MCListing -----------------------------
(***************************************************************************)
(* Listing on small instances.                                             *)
(***************************************************************************)
EXTENDS Listing, TLC

Symmetry == Permutations(Rows)

=============================================================================
