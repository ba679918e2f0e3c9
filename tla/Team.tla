-------------------------------- MODULE Team --------------------------------
(***************************************************************************)
(* Teams of employers and the employer selected in a browser's session.    *)
(*                                                                         *)
(* A user founds an employer, invites others to its team, accepts or       *)
(* rejects invitations, removes team members (or leaves), and selects      *)
(* which of their employers the dashboard acts for.  Requests that act for *)
(* the selected employer first pass a middleware that checks membership;   *)
(* what it found may be stale when the handler acts on it.  Removing a     *)
(* member takes two statements of a function in the database, under READ   *)
(* COMMITTED: one reads the membership, the other counts the approved      *)
(* members in its own snapshot and then deletes the row.                   *)
(*                                                                         *)
(* The selection is a key of the browser's session record, beside the user *)
(* logged in.  A user may be logged in to several browsers at once, and    *)
(* another user may log in over a session; a browser sends one request of  *)
(* a session at a time (module Dashboards lets them overlap).              *)
(***************************************************************************)
EXTENDS Integers, FiniteSets

CONSTANTS Users, Employers,
          Sessions,           \* browsers' sessions
          None                \* nobody, nothing selected, no request in flight

ASSUME UsersAssumption == IsFiniteSet(Users)

VARIABLES
  exists,     \* the employers that have been added
  team,       \* team[e][u]: u's membership of the team of e
  user,       \* the user logged in to each session, or None
  selected,   \* the employer selected in each session, or None
  request,    \* each session's request in flight, or None
  \* history, read by no action:
  joined,     \* <<e, u>>: u has been an approved member of e at some time
  hosted,     \* the users logged in to each session since its last log out
  overtaken   \* sessions removing a member of an employer when another
              \* request removed an approved member from it, or removing their
              \* own user's invitation when that user accepted it in another

logins  == <<user, hosted>>
vars    == <<exists, team, logins, selected, request, joined, overtaken>>

(* What a request does next; target is the member it concerns.             *)
(*   enter, first-employer, next-employer: set the session's employer      *)
(*   invite: insert the invitation                                         *)
(*   read, count, delete-approved, delete-pending: of delete_team_member   *)
(* leaving: the handler will look for another employer after the removal.  *)
Request ==
  [employer : Employers, target : Users, leaving : BOOLEAN,
   step : {"enter", "first-employer", "next-employer", "invite", "read",
           "count", "delete-approved", "delete-pending"}]

ASSUME NoneAssumption == None \notin Users \cup Employers \cup Request

Removal == {"read", "count", "delete-approved", "delete-pending"}

TypeOK ==
  /\ exists \subseteq Employers
  /\ team \in [Employers -> [Users -> {"none", "pending", "approved"}]]
  /\ user \in [Sessions -> Users \cup {None}]
  /\ selected \in [Sessions -> Employers \cup {None}]
  /\ request \in [Sessions -> Request \cup {None}]
  /\ joined \subseteq Employers \X Users
  /\ hosted \in [Sessions -> SUBSET Users]
  /\ overtaken \subseteq Sessions

Init ==
  /\ exists = {}
  /\ team = [e \in Employers |-> [u \in Users |-> "none"]]
  /\ user = [b \in Sessions |-> None]
  /\ selected = [b \in Sessions |-> None]
  /\ request = [b \in Sessions |-> None]
  /\ joined = {} /\ overtaken = {}
  /\ hosted = [b \in Sessions |-> {}]

Approved(e) == {u \in Users : team[e][u] = "approved"}

(* list_employers: ordered by company name, which the teams may change.    *)
EmployersOf(u) == {e \in Employers : u \in Approved(e)}

Idle(b) == user[b] # None /\ request[b] = None

(* At the step named, the request of b goes on with another or is answered.*)
At(b, step) == request[b] # None /\ request[b].step = step

Begin(b, e, v, leaving, step) ==
  request' = [request EXCEPT ![b] = [employer |-> e, target |-> v,
                                     leaving |-> leaving, step |-> step]]

GoOn(b, step) == request' = [request EXCEPT ![b].step = step]

Answer(b) == request' = [request EXCEPT ![b] = None]

(* History: what happens to the team is no matter to a removal that ended. *)
EndRemoval(b) == overtaken' = overtaken \ {b}

-----------------------------------------------------------------------------
(* Sessions.                                                               *)

(* With a password, or back from a provider.  A session somebody is logged *)
(* in to goes to the new user as it is; its selection is only replaced if  *)
(* the new user has an employer.                                           *)
LogIn(b, u) ==
  /\ request[b] = None
  /\ user' = [user EXCEPT ![b] = u]
  /\ hosted' = [hosted EXCEPT ![b] = @ \cup {u}]
  /\ IF EmployersOf(u) # {}
     THEN \E e \in EmployersOf(u) : selected' = [selected EXCEPT ![b] = e]
     ELSE UNCHANGED selected
  /\ UNCHANGED <<exists, team, request, joined, overtaken>>

(* Variant with a bug: the user goes, the rest of the record stays.        *)
LogOutKeeping(b) ==
  /\ Idle(b)
  /\ user' = [user EXCEPT ![b] = None]
  /\ hosted' = [hosted EXCEPT ![b] = {}]
  /\ UNCHANGED <<exists, team, selected, request, joined, overtaken>>

(* The record is deleted: on log out, when it expires, or when the user's  *)
(* password has changed.                                                   *)
LogOut(b) ==
  /\ Idle(b)
  /\ user' = [user EXCEPT ![b] = None]
  /\ hosted' = [hosted EXCEPT ![b] = {}]
  /\ selected' = [selected EXCEPT ![b] = None]
  /\ UNCHANGED <<exists, team, request, joined, overtaken>>

(* The middleware of a route that acts for the selected employer.          *)
ActsFor(b, e) == selected[b] = e /\ user[b] \in Approved(e)

(* The employer is added with its founder as an approved member.           *)
AddEmployer(b, e) ==
  /\ Idle(b)
  /\ e \notin exists
  /\ exists' = exists \cup {e}
  /\ team' = [team EXCEPT ![e][user[b]] = "approved"]
  /\ joined' = joined \cup {<<e, user[b]>>}
  /\ Begin(b, e, user[b], FALSE, "enter")
  /\ UNCHANGED <<logins, selected, overtaken>>

(* Variant with a bug: no check of the employer in the path.               *)
SelectAny(b, e) ==
  /\ Idle(b)
  /\ e \in exists
  /\ Begin(b, e, user[b], FALSE, "enter")
  /\ UNCHANGED <<exists, team, logins, selected, joined, overtaken>>

(* Another middleware has checked the employer in the path.                *)
Select(b, e) ==
  /\ Idle(b)
  /\ user[b] \in Approved(e)
  /\ Begin(b, e, user[b], FALSE, "enter")
  /\ UNCHANGED <<exists, team, logins, selected, joined, overtaken>>

Enter(b) ==
  /\ At(b, "enter")
  /\ selected' = [selected EXCEPT ![b] = request[b].employer]
  /\ Answer(b)
  /\ UNCHANGED <<exists, team, logins, joined, overtaken>>

-----------------------------------------------------------------------------
(* Invitations.                                                            *)

AddMember(b, e, v) ==
  /\ Idle(b)
  /\ ActsFor(b, e)
  /\ Begin(b, e, v, FALSE, "invite")
  /\ UNCHANGED <<exists, team, logins, selected, joined, overtaken>>

(* An existing membership is left as it is.                                *)
Invite(b) ==
  /\ At(b, "invite")
  /\ team' = [team EXCEPT ![request[b].employer][request[b].target] =
                IF @ = "none" THEN "pending" ELSE @]
  /\ Answer(b)
  /\ UNCHANGED <<exists, logins, selected, joined, overtaken>>

(* Sessions deleting their own user's invitation to e, when b accepts it.  *)
RejectedElsewhere(b, e) ==
  {w \in Sessions \ {b} :
     /\ At(w, "delete-pending")
     /\ request[w].employer = e /\ request[w].target = user[b] /\ user[w] = user[b]}

(* Updates the membership if there is one.                                 *)
AcceptInvitation(b, e) ==
  /\ Idle(b)
  /\ IF team[e][user[b]] = "none" THEN UNCHANGED <<team, joined, overtaken>>
     ELSE /\ team' = [team EXCEPT ![e][user[b]] = "approved"]
          /\ joined' = joined \cup {<<e, user[b]>>}
          /\ overtaken' = overtaken \cup RejectedElsewhere(b, e)
  /\ Begin(b, e, user[b], FALSE, "first-employer")
  /\ UNCHANGED <<exists, logins, selected>>

(* A user with exactly one employer has it selected.                       *)
FirstEmployer(b) ==
  /\ At(b, "first-employer")
  /\ IF Cardinality(EmployersOf(user[b])) = 1
     THEN \E e \in EmployersOf(user[b]) : selected' = [selected EXCEPT ![b] = e]
     ELSE UNCHANGED selected
  /\ Answer(b)
  /\ UNCHANGED <<exists, team, logins, joined, overtaken>>

-----------------------------------------------------------------------------
(* Removals.                                                               *)

DeleteMember(b, e, v) ==
  /\ Idle(b)
  /\ ActsFor(b, e)
  /\ Begin(b, e, v, v = user[b], "read")
  /\ UNCHANGED <<exists, team, logins, selected, joined, overtaken>>

(* Removes the user's own membership, pending or (from an invitations page *)
(* that was left open) approved.                                           *)
RejectInvitation(b, e) ==
  /\ Idle(b)
  /\ Begin(b, e, user[b], FALSE, "read")
  /\ UNCHANGED <<exists, team, logins, selected, joined, overtaken>>

(* First statement: the state of the membership.                           *)
ReadMembership(b) ==
  /\ At(b, "read")
  /\ LET m == team[request[b].employer][request[b].target] IN
       \/ m = "none" /\ Answer(b) /\ EndRemoval(b)
       \/ m = "approved" /\ GoOn(b, "count") /\ UNCHANGED overtaken
       \/ m = "pending" /\ GoOn(b, "delete-pending") /\ UNCHANGED overtaken
  /\ UNCHANGED <<exists, team, logins, selected, joined>>

(* Variant with a bug: the count is off by one.                            *)
CountAny(b) ==
  /\ At(b, "count")
  /\ LET e == request[b].employer IN
       IF team[e][request[b].target] # "none" /\ Cardinality(Approved(e)) >= 1
       THEN GoOn(b, "delete-approved") /\ UNCHANGED overtaken
       ELSE Answer(b) /\ EndRemoval(b)
  /\ UNCHANGED <<exists, team, logins, selected, joined>>

(* The second statement, for a member that was approved, takes a snapshot: *)
(* the membership must be in it, and more than one approved member.        *)
CountMembers(b) ==
  /\ At(b, "count")
  /\ LET e == request[b].employer IN
       IF team[e][request[b].target] # "none" /\ Cardinality(Approved(e)) > 1
       THEN GoOn(b, "delete-approved") /\ UNCHANGED overtaken
       ELSE Answer(b) /\ EndRemoval(b)
  /\ UNCHANGED <<exists, team, logins, selected, joined>>

(* The row is deleted, as it is now.  Whoever leaves goes on to another of *)
(* their employers.  Another request whose snapshot holds this row cannot  *)
(* delete it any more and fails.                                           *)
DeleteRow(b) ==
  LET e == request[b].employer
      v == request[b].target
      sameRow == {w \in Sessions \ {b} : /\ At(w, "delete-approved")
                                         /\ request[w].employer = e
                                         /\ request[w].target = v}
  IN /\ team[e][v] # "none"
     /\ team' = [team EXCEPT ![e][v] = "none"]
     /\ request' = [w \in Sessions |->
                      IF w \in sameRow \/ (w = b /\ ~request[b].leaving) THEN None
                      ELSE IF w = b THEN [request[b] EXCEPT !.step = "next-employer"]
                      ELSE request[w]]
     /\ overtaken' =
          (IF team[e][v] # "approved" THEN overtaken
           ELSE overtaken \cup {w \in Sessions \ {b} :
                  /\ request[w] # None
                  /\ request[w].employer = e /\ request[w].step \in Removal})
          \ (sameRow \cup {b})
     /\ UNCHANGED <<exists, logins, selected, joined>>

DeleteApproved(b) == At(b, "delete-approved") /\ DeleteRow(b)

(* Second statement, for an invitation that was pending: no count.  No row *)
(* is no error, and who leaves goes on as if it had been there.            *)
DeletePending(b) ==
  /\ At(b, "delete-pending")
  /\ \/ DeleteRow(b)
     \/ /\ team[request[b].employer][request[b].target] = "none"
        /\ IF request[b].leaving THEN GoOn(b, "next-employer") ELSE Answer(b)
        /\ EndRemoval(b)
        /\ UNCHANGED <<exists, team, logins, selected, joined>>

(* After a user's own removal.                                             *)
NextEmployer(b) ==
  /\ At(b, "next-employer")
  /\ \E e \in IF EmployersOf(user[b]) = {} THEN {None} ELSE EmployersOf(user[b]) :
       selected' = [selected EXCEPT ![b] = e]
  /\ Answer(b)
  /\ UNCHANGED <<exists, team, logins, joined, overtaken>>

(* The database fails, or the browser goes away between two of its calls.  *)
Abandon(b) ==
  /\ request[b] # None
  /\ Answer(b) /\ EndRemoval(b)
  /\ UNCHANGED <<exists, team, logins, selected, joined>>

-----------------------------------------------------------------------------

Step(b) ==
  \/ \E u \in Users : LogIn(b, u)
  \/ LogOut(b)
  \/ \E e \in Employers :
       \/ AddEmployer(b, e) \/ Select(b, e)
       \/ AcceptInvitation(b, e) \/ RejectInvitation(b, e)
       \/ \E v \in Users : AddMember(b, e, v) \/ DeleteMember(b, e, v)
  \/ Enter(b) \/ Invite(b) \/ FirstEmployer(b) \/ NextEmployer(b)
  \/ ReadMembership(b) \/ CountMembers(b)
  \/ DeleteApproved(b) \/ DeletePending(b)
  \/ Abandon(b)

Next == \E b \in Sessions : Step(b)

Spec == Init /\ [][Next]_vars

-----------------------------------------------------------------------------
(* Properties.                                                             *)

(* The dashboard's home page shows the selected employer's jobs and        *)
(* applications without a check of its own.  What it shows is an employer  *)
(* that somebody logged in to this session since its last log out has been *)
(* a member of (not always the present user: see LogIn).                   *)
SelectedWasMember ==
  \A b \in Sessions :
    selected[b] # None => \E u \in hosted[b] : <<selected[b], u>> \in joined

(* A request that no other removal from the team has overtaken, nor an     *)
(* acceptance by its own user, never takes the last approved member away,  *)
(* whatever is invited, accepted or rejected while it runs.                *)
OnlyOvertakenEmpties ==
  [][\A b \in Sessions, e \in Employers :
       /\ At(b, "delete-approved") \/ At(b, "delete-pending")
       /\ request[b].employer = e /\ request'[b] # request[b]
       /\ Approved(e) # {} /\ Approved(e)' = {}
       => b \in overtaken]_vars

(* Teams keep the promise of module Roster: who may join, invite and remove*)
(* whom, and which employers sessions come to act for, through every       *)
(* interleaving of requests with log ins and removals (team.rs, home.rs,   *)
(* auth.rs, delete_team_member).                                           *)
RemovesFrom(b) ==
  IF request[b] # None /\ request[b].step \in Removal THEN request[b].employer ELSE None

Promise == INSTANCE Roster WITH
  actsFor <- selected, contested <- overtaken,
  removesFrom <- [b \in Sessions |-> RemovesFrom(b)]

ImplementsRoster == Promise!Spec

(* "Deletes a team member while preserving at least one approved member."  *)
LastMemberStays == \A e \in exists : Approved(e) # {}
=============================================================================
