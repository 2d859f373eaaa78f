------------------------------ MODULE MCAccess ------------------------------
(***************************************************************************)
(* Access on small instances.  The ids of one table and the request slots  *)
(* are interchangeable, and a status that was answered changes nothing any *)
(* more: states that differ in the statuses of free slots alone are one    *)
(* state for a run whose properties do not speak of statuses.              *)
(***************************************************************************)
EXTENDS Access, TLC

Symmetry ==
    Permutations(Requests) \cup Permutations(Apps) \cup Permutations(Users)
        \cup Permutations(Roles) \cup Permutations(Tenants) \cup Permutations(Resources)
        \cup Permutations(AssignIds) \cup Permutations(PermIds)

StatusesHidden == <<rows, assignVars, permVars,
                    [r \in Requests |-> IF Free(r) THEN Answered(0) ELSE req[r]]>>

=============================================================================
