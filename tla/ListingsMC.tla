------------------------------ MODULE ListingsMC ------------------------------
(* Four jobs, one of them without a salary and two with the same, and six  *)
(* ways to read them: each sort order, range and limit in turn.            *)
EXTENDS Listings, TLC

CONSTANTS j1, j2, j3, j4

MCPay == j1 :> 2 @@ j2 :> 1 @@ j3 :> 1 @@ j4 :> Unset

Ask3(s, g, l) == [sort |-> s, range |-> g, limit |-> l, offset |-> Unset]
MCAsked == {Ask3("date", Unset, Unset), Ask3("salary", Unset, 1),
            Ask3("date", 1, 1), Ask3("salary", 1, Unset),
            Ask3("salary", Expiry, Unset), Ask3("date", Unset, 0)}
=============================================================================
