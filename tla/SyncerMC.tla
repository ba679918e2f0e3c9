------------------------------- MODULE SyncerMC -------------------------------
(***************************************************************************)
(* Instances of Syncer for TLC.  One foundation publishes what it likes,   *)
(* with names that occur twice, entries that are hidden, and data that     *)
(* change; the other has one member, so that there is another task.        *)
(***************************************************************************)
EXTENDS Syncer, TLC

CONSTANTS f1, f2, a, a2, b, x, y, hidden

E(n, d) == [name |-> n, data |-> d]

(* The name a2 is a with a suffix.                                         *)
MCStripped == [n \in Names |-> IF n = a2 THEN a ELSE n]

MCLandscapes ==
  (f1 :> ("members" :> {<<E(a2, x), E(b, y)>>, <<E(a, y), E(a2, x)>>,
                        <<E(b, x), E(hidden, x)>>}
          @@ "projects" :> {<<E(a2, x)>>, <<E(a2, hidden)>>, <<>>}))
  @@
  (f2 :> ("members" :> {<<E(a, x)>>} @@ "projects" :> {<<>>}))
=============================================================================
