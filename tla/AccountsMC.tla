------------------------------ MODULE AccountsMC ------------------------------
(***************************************************************************)
(* Instances of Accounts for TLC.                                          *)
(***************************************************************************)
EXTENDS Accounts, TLC

CONSTANTS alice, b1, r1, r2, github, lf

(* Either password and provider, or two providers.                        *)
MCConfigurations == {{"email", "oidc"}, {"oauth2", "oidc"}}

Symmetry == Permutations({r1, r2})
=============================================================================
