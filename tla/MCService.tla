----------------------------- MODULE MCService ------------------------------
(***************************************************************************)
(* Service on small instances.  Apps, keys and request slots are           *)
(* interchangeable.  A status that was answered changes nothing any more,  *)
(* nor does what a lost handler would have written: states that differ in  *)
(* the statuses of free slots and the plans of lost handlers alone are one. *)
(***************************************************************************)
EXTENDS Service, FiniteSets, TLC

Symmetry == Permutations(Apps) \cup Permutations(AppKeys) \cup Permutations(Requests)

Shown(r) ==
    CASE Free(r)                   -> Answered(0)
      [] session[r].step = "lost"  -> [app |-> req[r].app]
      [] OTHER                     -> req[r]

DeadDataHidden == <<rows, assignVars, permVars, keyVars, [r \in Requests |-> Shown(r)]>>

\* Bound: of apps, app keys, users, tenants and roles at most two are deleted or revoked.
Tombstones ==
    Cardinality({a \in Apps : appRow[a] = "gone"} \cup
                {k \in AppKeys : keyRow[k] = "gone"} \cup
                {x \in Entity : appOf[x] # NoApp /\ x \notin live})
FewTombstones == Tombstones <= 2

=============================================================================
