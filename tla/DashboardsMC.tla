----------------------------- MODULE DashboardsMC -----------------------------
(***************************************************************************)
(* Instance of Dashboards for TLC: a user, not a moderator, with two tabs, *)
(* in one of which they only select employers.  In the other, the form is  *)
(* that of the home page, and the list of applications the one behind the  *)
(* middleware.  The photo was uploaded by somebody else.                   *)
(***************************************************************************)
EXTENDS Dashboards, TLC

CONSTANTS u1, t1, t2, s1, p1

MCUser    == (t1 :> u1) @@ (t2 :> u1)
MCKindsOf == (t1 :> Kinds \ {"select", "form", "home applications"}) @@ (t2 :> {"select"})
MCBy      == p1 :> None

Symmetry == Permutations(Employers)
=============================================================================
