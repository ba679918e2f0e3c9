----------------------------- MODULE EventCounts -----------------------------
(***************************************************************************)
(* What the event tracker promises about each hit (one job seen once): the *)
(* request that reports it is answered at most once, and a hit that was    *)
(* accepted is counted at most once or given up for good, never both.      *)
(*                                                                         *)
(* EventTracker implements this specification.                             *)
(***************************************************************************)

CONSTANT Hits

VARIABLE outcome    \* what became of each hit

Outcomes == {"unknown", "accepted", "counted", "missed"}

Init == outcome = [h \in Hits |-> "unknown"]

Move(S, from, to) ==
  /\ \A h \in S : outcome[h] = from
  /\ outcome' = [h \in Hits |-> IF h \in S THEN to ELSE outcome[h]]

Accept(S) == Move(S, "unknown", "accepted")

(* A batch is written: the hits of published jobs count, the rest do not.  *)
Write(S, C) ==
  /\ \A h \in S : outcome[h] = "accepted"
  /\ outcome' = [h \in Hits |-> IF h \in C THEN "counted"
                                ELSE IF h \in S THEN "missed" ELSE outcome[h]]

Next ==
  \/ \E S \in SUBSET Hits : Accept(S)
  \/ \E S \in SUBSET Hits : \E C \in SUBSET S : Write(S, C)

Spec == Init /\ [][Next]_outcome
=============================================================================
