------------------------------- MODULE Roster -------------------------------
(***************************************************************************)
(* What teams promise to their members: a team is founded once, by its     *)
(* first member; who joins later was invited and accepts in person; who    *)
(* removes another is a member at that moment; a removal leaves a member   *)
(* behind; and a session comes to act for a team only by its user, who     *)
(* belongs or has belonged to it.  Who logs in to it next may find it      *)
(* still acting for that team; after a log out it acts for none.           *)
(*                                                                         *)
(* A removal takes time.  One that is contested, because another took a    *)
(* member away from the team meanwhile, or because its own user accepted   *)
(* in another session the invitation it removes, promises less.            *)
(***************************************************************************)
CONSTANTS Users, Employers, Sessions, None

VARIABLES
  team,        \* each user's membership of each team
  joined,      \* <<e, u>>: u has been a member of e
  user,        \* the user logged in to each session, or None
  actsFor,     \* the employer each session acts for, or None
  removesFrom, \* the team each session is removing a member from, or None
  contested    \* the sessions whose removals are contested

vars == <<team, joined, user, actsFor, removesFrom, contested>>

Init ==
  /\ team = [e \in Employers |-> [u \in Users |-> "none"]]
  /\ joined = {}
  /\ user = [b \in Sessions |-> None]
  /\ actsFor = [b \in Sessions |-> None]
  /\ removesFrom = [b \in Sessions |-> None]
  /\ contested = {}

LogIn(b, u) ==
  /\ removesFrom[b] = None
  /\ user' = [user EXCEPT ![b] = u]
  /\ \/ UNCHANGED actsFor
     \/ \E e \in Employers : <<e, u>> \in joined /\ actsFor' = [actsFor EXCEPT ![b] = e]
  /\ UNCHANGED <<team, joined, removesFrom, contested>>

LogOut(b) ==
  /\ removesFrom[b] = None
  /\ user' = [user EXCEPT ![b] = None]
  /\ actsFor' = [actsFor EXCEPT ![b] = None]
  /\ UNCHANGED <<team, joined, removesFrom, contested>>

Join(e, u) ==
  /\ team' = [team EXCEPT ![e][u] = "approved"]
  /\ joined' = joined \cup {<<e, u>>}
  /\ UNCHANGED <<user, actsFor, removesFrom>>

Found(b, e) ==
  /\ user[b] # None
  /\ \A v \in Users : <<e, v>> \notin joined
  /\ Join(e, user[b])
  /\ UNCHANGED contested

Invite(b, e, v) ==
  /\ <<e, user[b]>> \in joined
  /\ team[e][v] = "none"
  /\ team' = [team EXCEPT ![e][v] = "pending"]
  /\ UNCHANGED <<joined, user, actsFor, removesFrom, contested>>

(* The user's removals in other sessions may be contested by this.         *)
Accept(b, e) ==
  /\ user[b] # None
  /\ team[e][user[b]] = "pending"
  /\ Join(e, user[b])
  /\ \E own \in SUBSET {w \in Sessions \ {b} : removesFrom[w] = e /\ user[w] = user[b]} :
       contested' = contested \cup own

ActFor(b, e) ==
  /\ e # None => <<e, user[b]>> \in joined
  /\ actsFor' = [actsFor EXCEPT ![b] = e]
  /\ UNCHANGED <<team, joined, user, removesFrom, contested>>

BeginRemoval(b, e) ==
  /\ user[b] # None /\ removesFrom[b] = None
  /\ removesFrom' = [removesFrom EXCEPT ![b] = e]
  /\ UNCHANGED <<team, joined, user, actsFor, contested>>

(* Removals of the same member may end with this one.                      *)
Remove(b, e, v) ==
  LET rivals == {w \in Sessions \ {b} : removesFrom[w] = e} IN
  /\ removesFrom[b] = e
  /\ team[e][v] # "none"
  /\ v = user[b] \/ team[e][user[b]] = "approved" \/ b \in contested
  /\ \/ team[e][v] = "pending"
     \/ b \in contested
     \/ \E w \in Users \ {v} : team[e][w] = "approved"
  /\ team' = [team EXCEPT ![e][v] = "none"]
  /\ \E ended \in SUBSET rivals :
       /\ removesFrom' = [w \in Sessions |-> IF w \in ended \cup {b} THEN None
                                             ELSE removesFrom[w]]
       /\ contested' = (IF team[e][v] = "approved" THEN contested \cup rivals
                        ELSE contested) \ (ended \cup {b})
  /\ UNCHANGED <<joined, user, actsFor>>

GiveUp(b) ==
  /\ removesFrom' = [removesFrom EXCEPT ![b] = None]
  /\ contested' = contested \ {b}
  /\ UNCHANGED <<team, joined, user, actsFor>>

Next ==
  \E b \in Sessions :
    \/ \E u \in Users : LogIn(b, u)
    \/ LogOut(b)
    \/ \E e \in Employers :
         \/ Found(b, e) \/ Accept(b, e) \/ BeginRemoval(b, e)
         \/ \E v \in Users : Invite(b, e, v) \/ Remove(b, e, v)
    \/ \E e \in Employers \cup {None} : ActFor(b, e)
    \/ GiveUp(b)

Spec == Init /\ [][Next]_vars
=============================================================================
