--------------------------- MODULE JobLifecycleMC ---------------------------
(***************************************************************************)
(* Instances of JobLifecycle for TLC.  Contents, requests and seekers are  *)
(* sets of model values; no symmetry is declared, for one of the           *)
(* properties is about what must happen.                                   *)
(***************************************************************************)
EXTENDS JobLifecycle
=============================================================================
