------------------------------- MODULE TeamMC -------------------------------
(***************************************************************************)
(* Instances of Team for TLC.  No action distinguishes two users, two      *)
(* employers or two sessions.                                              *)
(***************************************************************************)
EXTENDS Team, TLC

Symmetry ==
  Permutations(Users) \cup Permutations(Employers) \cup Permutations(Sessions)
=============================================================================
