------------------------------ MODULE Tenancy ------------------------------
(***************************************************************************)
(* What the modules of the service share: apps, which own everything else, *)
(* and request slots.  A slot stands for one of the goroutines net/http    *)
(* runs handlers in, so the number of slots bounds how many requests are   *)
(* in progress together, not how many there are.                           *)
(***************************************************************************)
CONSTANTS
    Apps,      \* ids of apps
    Requests,  \* request slots
    NoApp, NoName

=============================================================================
