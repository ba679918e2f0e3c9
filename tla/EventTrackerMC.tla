--------------------------- MODULE EventTrackerMC ---------------------------
(***************************************************************************)
(* Instances of EventTracker for TLC: two views and a search that lists a  *)
(* job twice, of two jobs.                                                 *)
(***************************************************************************)
EXTENDS EventTracker, TLC

CONSTANTS j1, j2, r1, r2, r3

MCKind  == (r1 :> "view") @@ (r2 :> "search") @@ (r3 :> "view")
MCShown == (r1 :> <<j1>>) @@ (r2 :> <<j1, j2, j1>>) @@ (r3 :> <<j2>>)
=============================================================================
