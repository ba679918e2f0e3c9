-------------------------------- MODULE Mirror --------------------------------
(***************************************************************************)
(* What the syncer promises of the rows kept for each foundation: they     *)
(* move one at a time, and only to a value that agrees with what the       *)
(* foundation's landscape was last seen to publish.                        *)
(***************************************************************************)
CONSTANTS Foundations, Kinds, Names, Data, Absent

VARIABLES
  rows,   \* rows[f][k][n]: the data kept for name n, or Absent
  wanted  \* wanted[f][k][n]: the values of that row that agree with what was
          \* last seen of the landscape

vars == <<rows, wanted>>

Init ==
  /\ rows = [f \in Foundations |-> [k \in Kinds |-> [n \in Names |-> Absent]]]
  /\ wanted = [f \in Foundations |-> [k \in Kinds |-> [n \in Names |-> {Absent}]]]

(* The landscape is looked at; nothing is known about what it publishes.   *)
Look ==
  /\ wanted' \in [Foundations -> [Kinds -> [Names -> SUBSET (Data \cup {Absent})]]]
  /\ UNCHANGED rows

Agree(f, k, n) ==
  /\ \E v \in wanted[f][k][n] : rows' = [rows EXCEPT ![f][k][n] = v]
  /\ UNCHANGED wanted

Next ==
  \/ Look
  \/ \E f \in Foundations, k \in Kinds, n \in Names : Agree(f, k, n)

Spec == Init /\ [][Next]_vars
=============================================================================
