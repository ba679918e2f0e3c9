----------------------------- MODULE TeamProofs -----------------------------
(***************************************************************************)
(* Proofs about Team, for any employers and sessions and any finite set of *)
(* users.                                                                  *)
(*                                                                         *)
(* SelectedWasMember needs to know where an employer that is about to be   *)
(* selected comes from (Joined), and that requests have a user (LoggedIn). *)
(* OnlyOvertakenEmpties needs what a removal still knows of the team when  *)
(* its row is deleted, as long as it has not been overtaken: whoever       *)
(* removes another is a member (RemoverIsMember), a row that was counted is*)
(* not the last one (CountedStay), and an invitation its own user rejects  *)
(* has not been accepted meanwhile (RejectedIsPending).                    *)
(***************************************************************************)
EXTENDS Team, FiniteSetTheorems, TLAPS

USE NoneAssumption

(* A session's user is in its history, and requests are made by users.     *)
LoggedIn ==
  \A b \in Sessions :
    /\ user[b] # None => user[b] \in hosted[b]
    /\ request[b] # None => user[b] # None

(* Approved members, and employers about to be selected, are in history.   *)
Joined ==
  /\ \A e \in Employers, u \in Users : team[e][u] = "approved" => <<e, u>> \in joined
  /\ \A b \in Sessions : At(b, "enter") => <<request[b].employer, user[b]>> \in joined

(* Whoever removes somebody else is still an approved member.              *)
RemoverIsMember ==
  \A b \in Sessions \ overtaken :
    request[b] # None /\ request[b].step \in Removal /\ request[b].target # user[b]
      => team[request[b].employer][user[b]] = "approved"

(* A team has an approved member besides x.                                *)
HasBesides(e, x) == \E w \in Users \ {x} : team[e][w] = "approved"

(* Whichever member goes, another one stays after the count.               *)
CountedStay ==
  \A b \in Sessions \ overtaken :
    At(b, "delete-approved") => \A x \in Users : HasBesides(request[b].employer, x)

(* Only its own user accepts an invitation, and that contests a rejection. *)
RejectedIsPending ==
  \A b \in Sessions \ overtaken :
    At(b, "delete-pending") /\ request[b].target = user[b]
      => team[request[b].employer][user[b]] # "approved"

(* What removals know of their teams, and all that is inductive.           *)
Removals == RemoverIsMember /\ CountedStay /\ RejectedIsPending

(* An employer that is not there yet has no team and no history, and       *)
(* nobody is deleting an invitation to it; only members invite.            *)
Founded ==
  /\ \A e \in Employers \ exists, u \in Users :
       team[e][u] = "none" /\ <<e, u>> \notin joined
  /\ \A b \in Sessions : At(b, "delete-pending") => request[b].employer \in exists
  /\ \A b \in Sessions : At(b, "invite") => <<request[b].employer, user[b]>> \in joined

IInv == TypeOK /\ LoggedIn /\ Joined /\ SelectedWasMember /\ Removals /\ Founded

-----------------------------------------------------------------------------
(* The initial state satisfies every part of the invariant.                *)
LEMMA InitIInv == Init => IInv
BY DEF Init, IInv, TypeOK, LoggedIn, Joined, At, SelectedWasMember, RemoverIsMember,
       Removals, CountedStay, RejectedIsPending, Founded

(* A team with more than one approved member has one besides any x.        *)
LEMMA SeveralMembers ==
  ASSUME NEW e \in Employers, Cardinality(Approved(e)) > 1, NEW x
  PROVE  HasBesides(e, x)
<1>1. IsFiniteSet(Approved(e))
  <2>1. Approved(e) \subseteq Users
    BY DEF Approved
  <2>2. QED
    BY <2>1, UsersAssumption, FS_Subset
<1>2. Approved(e) # {}
  BY <1>1, FS_EmptySet
<1>3. Approved(e) # {x}
  BY FS_Singleton
<1>4. PICK w \in Approved(e) : w # x
  BY <1>2, <1>3
<1>5. QED
  BY <1>4 DEF Approved, HasBesides

(* The disjuncts of Next, one by one.                                      *)
LEMMA NextCases ==
  ASSUME Next
  PROVE  \E b \in Sessions :
           \/ (\E u \in Users : LogIn(b, u)) \/ LogOut(b)
           \/ \E e \in Employers :
                \/ AddEmployer(b, e) \/ Select(b, e)
                \/ AcceptInvitation(b, e) \/ RejectInvitation(b, e)
           \/ \E e \in Employers, v \in Users :
                AddMember(b, e, v) \/ DeleteMember(b, e, v)
           \/ Enter(b) \/ Invite(b) \/ FirstEmployer(b) \/ NextEmployer(b)
           \/ ReadMembership(b) \/ CountMembers(b)
           \/ DeleteApproved(b) \/ DeletePending(b)
           \/ Abandon(b)
BY DEF Next, Step

-----------------------------------------------------------------------------
(* A request that begins, goes on or ends is one of its own user only, and *)
(* has the type of a request.                                              *)
LEMMA RequestTypes ==
  ASSUME TypeOK, NEW b \in Sessions
  PROVE  /\ \A e \in Employers, v \in Users, leaving \in BOOLEAN,
               step \in {"enter", "first-employer", "invite", "read"} :
              Begin(b, e, v, leaving, step)
                => request' \in [Sessions -> Request \cup {None}]
         /\ \A step \in {"count", "delete-approved", "delete-pending", "next-employer"} :
              request[b] # None /\ GoOn(b, step)
                => request' \in [Sessions -> Request \cup {None}]
         /\ Answer(b) => request' \in [Sessions -> Request \cup {None}]
<1> USE DEF TypeOK, Request
<1>1. ASSUME NEW e \in Employers, NEW v \in Users, NEW leaving \in BOOLEAN,
             NEW step \in {"enter", "first-employer", "invite", "read"},
             Begin(b, e, v, leaving, step)
      PROVE  request' \in [Sessions -> Request \cup {None}]
  BY <1>1 DEF Begin
<1>2. ASSUME NEW step \in {"count", "delete-approved", "delete-pending", "next-employer"},
             request[b] # None, GoOn(b, step)
      PROVE  request' \in [Sessions -> Request \cup {None}]
  <2>1. request[b] \in Request
    BY <1>2
  <2>2. [request[b] EXCEPT !.step = step] \in Request
    BY <2>1
  <2>3. QED
    BY <1>2, <2>2 DEF GoOn
<1>3. ASSUME Answer(b)
      PROVE  request' \in [Sessions -> Request \cup {None}]
  BY <1>3 DEF Answer
<1>4. QED
  BY <1>1, <1>2, <1>3

(* Every step keeps the types, and requests have users.                    *)
LEMMA NextTypeOK == TypeOK /\ LoggedIn /\ [Next]_vars => TypeOK' /\ LoggedIn'
<1> SUFFICES ASSUME TypeOK, LoggedIn, [Next]_vars
             PROVE  TypeOK' /\ LoggedIn'
  OBVIOUS
<1> USE DEF TypeOK
<1>1. ASSUME NEW b \in Sessions, (\E u \in Users : LogIn(b, u)) \/ LogOut(b)
      PROVE  TypeOK' /\ LoggedIn'
  <2>1. ASSUME NEW u \in Users, LogIn(b, u)
        PROVE  TypeOK' /\ LoggedIn'
    <3>1. selected' \in [Sessions -> Employers \cup {None}]
      BY <2>1 DEF LogIn, EmployersOf
    <3>2. TypeOK'
      BY <2>1, <3>1 DEF LogIn
    <3>3. QED
      BY <2>1, <3>2 DEF LogIn, LoggedIn
  <2>2. CASE LogOut(b)
    BY <2>2 DEF LogOut, Idle, LoggedIn
  <2>3. QED
    BY <1>1, <2>1, <2>2
<1>2. ASSUME NEW b \in Sessions, UNCHANGED logins, user[b] # None,
             \A w \in Sessions \ {b} : request'[w] \in {request[w], None}
      PROVE  LoggedIn'
  BY <1>2 DEF LoggedIn, logins
<1>3. ASSUME NEW b \in Sessions, NEW e \in Employers,
             AddEmployer(b, e) \/ Select(b, e)
             \/ AcceptInvitation(b, e) \/ RejectInvitation(b, e)
      PROVE  TypeOK' /\ LoggedIn'
  <2>1. user[b] \in Users /\ UNCHANGED logins
    BY <1>3 DEF AddEmployer, Select, AcceptInvitation, RejectInvitation, Idle
  <2>2. request' \in [Sessions -> Request \cup {None}]
    BY <1>3, <2>1, RequestTypes
    DEF AddEmployer, Select, AcceptInvitation, RejectInvitation
  <2>3. LoggedIn'
    BY <1>2, <1>3, <2>1
    DEF AddEmployer, Select, AcceptInvitation, RejectInvitation, Begin
  <2>4. /\ team' \in [Employers -> [Users -> {"none", "pending", "approved"}]]
        /\ exists' \subseteq Employers
        /\ joined' \subseteq Employers \X Users
        /\ overtaken' \subseteq Sessions
        /\ selected' = selected
    <3>1. CASE AddEmployer(b, e)
      BY <2>1, <3>1 DEF AddEmployer
    <3>2. CASE AcceptInvitation(b, e)
      BY <2>1, <3>2 DEF AcceptInvitation, RejectedElsewhere
    <3>3. CASE Select(b, e) \/ RejectInvitation(b, e)
      BY <3>3 DEF Select, RejectInvitation
    <3>4. QED
      BY <1>3, <3>1, <3>2, <3>3
  <2>5. QED
    BY <2>1, <2>2, <2>3, <2>4 DEF logins
<1>4. ASSUME NEW b \in Sessions, NEW e \in Employers, NEW v \in Users,
             AddMember(b, e, v) \/ DeleteMember(b, e, v)
      PROVE  TypeOK' /\ LoggedIn'
  <2>1. user[b] \in Users /\ UNCHANGED logins
    BY <1>4 DEF AddMember, DeleteMember, Idle
  <2>2. request' \in [Sessions -> Request \cup {None}]
    BY <1>4, RequestTypes DEF AddMember, DeleteMember
  <2>3. LoggedIn'
    BY <1>2, <1>4, <2>1 DEF AddMember, DeleteMember, Begin
  <2>4. QED
    BY <1>4, <2>1, <2>2, <2>3 DEF AddMember, DeleteMember, logins
<1>5. ASSUME NEW b \in Sessions, Enter(b) \/ FirstEmployer(b) \/ NextEmployer(b)
      PROVE  TypeOK' /\ LoggedIn'
  <2>1. request[b] \in Request /\ user[b] # None /\ UNCHANGED logins
    BY <1>5 DEF Enter, FirstEmployer, NextEmployer, At, LoggedIn
  <2>2. selected' \in [Sessions -> Employers \cup {None}]
    BY <1>5, <2>1 DEF Enter, FirstEmployer, NextEmployer, Request, EmployersOf
  <2>3. request' \in [Sessions -> Request \cup {None}]
    BY <1>5, RequestTypes DEF Enter, FirstEmployer, NextEmployer
  <2>4. LoggedIn'
    BY <1>2, <1>5, <2>1 DEF Enter, FirstEmployer, NextEmployer, Answer
  <2>5. QED
    BY <1>5, <2>1, <2>2, <2>3, <2>4 DEF Enter, FirstEmployer, NextEmployer, logins
<1>6. ASSUME NEW b \in Sessions, Invite(b)
      PROVE  TypeOK' /\ LoggedIn'
  <2>1. request[b] \in Request /\ user[b] # None /\ UNCHANGED logins
    BY <1>6 DEF Invite, At, LoggedIn
  <2>2. team' \in [Employers -> [Users -> {"none", "pending", "approved"}]]
    BY <1>6, <2>1 DEF Invite, Request
  <2>3. LoggedIn'
    BY <1>2, <1>6, <2>1 DEF Invite, Answer
  <2>4. QED
    BY <1>6, <2>1, <2>2, <2>3, RequestTypes DEF Invite, logins
<1>7. ASSUME NEW b \in Sessions, ReadMembership(b) \/ CountMembers(b) \/ Abandon(b)
      PROVE  TypeOK' /\ LoggedIn'
  <2>1. user[b] # None /\ UNCHANGED logins
    BY <1>7 DEF ReadMembership, CountMembers, Abandon, At, LoggedIn
  <2>2. request' \in [Sessions -> Request \cup {None}]
    BY <1>7, RequestTypes DEF ReadMembership, CountMembers, Abandon, At
  <2>3. \A w \in Sessions \ {b} : request'[w] = request[w]
    BY <1>7 DEF ReadMembership, CountMembers, Abandon, Answer, GoOn
  <2>4. LoggedIn'
    BY <1>2, <2>1, <2>3
  <2>5. /\ UNCHANGED <<exists, team, selected, joined>>
        /\ overtaken' \subseteq Sessions
    BY <1>7 DEF ReadMembership, CountMembers, Abandon, EndRemoval
  <2>6. QED
    BY <2>1, <2>2, <2>4, <2>5 DEF logins
<1>8. ASSUME NEW b \in Sessions, request[b] # None, DeleteRow(b)
      PROVE  TypeOK' /\ LoggedIn'
  <2>1. request[b] \in Request /\ user[b] # None /\ UNCHANGED logins
    BY <1>8 DEF DeleteRow, LoggedIn
  <2>2. team' \in [Employers -> [Users -> {"none", "pending", "approved"}]]
    BY <1>8, <2>1 DEF DeleteRow, Request
  <2>3. [request[b] EXCEPT !.step = "next-employer"] \in Request
    BY <2>1 DEF Request
  <2>4. request' \in [Sessions -> Request \cup {None}]
    BY <1>8, <2>3 DEF DeleteRow
  <2>5. overtaken' \subseteq Sessions
    BY <1>8 DEF DeleteRow
  <2>6. LoggedIn'
    BY <1>2, <1>8, <2>1 DEF DeleteRow
  <2>7. QED
    BY <1>8, <2>1, <2>2, <2>4, <2>5, <2>6 DEF DeleteRow, logins
<1>9. ASSUME NEW b \in Sessions, DeleteApproved(b) \/ DeletePending(b)
      PROVE  TypeOK' /\ LoggedIn'
  <2>1. request[b] # None /\ user[b] # None
    BY <1>9 DEF DeleteApproved, DeletePending, At, LoggedIn
  <2>2. CASE DeleteRow(b)
    BY <2>1, <2>2, <1>8
  <2>3. CASE ~DeleteRow(b)
    <3>1. request' \in [Sessions -> Request \cup {None}]
      BY <1>9, <2>1, <2>3, RequestTypes DEF DeleteApproved, DeletePending
    <3>2. \A w \in Sessions \ {b} : request'[w] = request[w]
      BY <1>9, <2>3 DEF DeleteApproved, DeletePending, Answer, GoOn
    <3>3. /\ UNCHANGED <<exists, team, logins, selected, joined>>
          /\ overtaken' \subseteq Sessions
      BY <1>9, <2>3 DEF DeleteApproved, DeletePending, EndRemoval
    <3>4. LoggedIn'
      BY <1>2, <2>1, <3>2, <3>3
    <3>5. QED
      BY <3>1, <3>3, <3>4 DEF logins
  <2>4. QED
    BY <2>2, <2>3
<1>10. CASE UNCHANGED vars
  BY <1>10 DEF vars, logins, LoggedIn
<1>11. QED
  BY <1>1, <1>3, <1>4, <1>5, <1>6, <1>7, <1>9, <1>10, NextCases

-----------------------------------------------------------------------------
(* What a request that goes on or ends is then, and that the others stay.  *)
LEMMA OneRequest ==
  ASSUME TypeOK, NEW b \in Sessions
  PROVE  /\ \A step : request[b] # None /\ GoOn(b, step) =>
              /\ request'[b].employer = request[b].employer
              /\ request'[b].target = request[b].target
              /\ request'[b].step = step
              /\ \A w \in Sessions \ {b} : request'[w] = request[w]
         /\ Answer(b) =>
              /\ request'[b] = None
              /\ \A w \in Sessions \ {b} : request'[w] = request[w]
<1>1. ASSUME NEW step, request[b] # None, GoOn(b, step)
      PROVE  /\ request'[b].employer = request[b].employer
             /\ request'[b].target = request[b].target
             /\ request'[b].step = step
             /\ \A w \in Sessions \ {b} : request'[w] = request[w]
  <2>1. request[b] \in Request
    BY <1>1 DEF TypeOK
  <2>2. request'[b] = [request[b] EXCEPT !.step = step]
    BY <1>1 DEF TypeOK, GoOn
  <2>3. QED
    BY <1>1, <2>1, <2>2 DEF TypeOK, GoOn, Request
<1>2. QED
  BY <1>1 DEF TypeOK, Answer

(* Deleting a row: the row goes, requests for the same row fail, the       *)
(* user's own goes on or ends, the others stay.                            *)
LEMMA RowDeleted ==
  ASSUME TypeOK, NEW b \in Sessions, request[b] # None, DeleteRow(b)
  PROVE  /\ request[b].employer \in Employers /\ request[b].target \in Users
         /\ team'[request[b].employer][request[b].target] = "none"
         /\ \A f \in Employers, w \in Users :
              <<f, w>> # <<request[b].employer, request[b].target>>
                => team'[f][w] = team[f][w]
         /\ request'[b] = None \/ request'[b].step = "next-employer"
         /\ \A w \in Sessions \ {b} : request'[w] \in {request[w], None}
         /\ \A w \in Sessions \ {b} :
              request'[w] # request[w] => At(w, "delete-approved")
<1>1. request[b] \in Request
  BY DEF TypeOK
<1>2. request[b].employer \in Employers /\ request[b].target \in Users
  BY <1>1 DEF Request
<1>3. /\ team'[request[b].employer][request[b].target] = "none"
      /\ \A f \in Employers, w \in Users :
           <<f, w>> # <<request[b].employer, request[b].target>>
             => team'[f][w] = team[f][w]
  BY <1>2 DEF TypeOK, DeleteRow
<1>4. request'[b] = None \/ request'[b].step = "next-employer"
  <2>1. [request[b] EXCEPT !.step = "next-employer"].step = "next-employer"
    BY <1>1 DEF Request
  <2>2. QED
    BY <2>1 DEF DeleteRow
<1>5. \A w \in Sessions \ {b} :
        /\ request'[w] \in {request[w], None}
        /\ request'[w] # request[w] => At(w, "delete-approved")
  BY DEF DeleteRow
<1>6. QED
  BY <1>2, <1>3, <1>4, <1>5

(* Memberships remain in history.                                          *)
LEMMA NextJoined ==
  ASSUME TypeOK, LoggedIn, Joined, [Next]_vars
  PROVE  Joined'
<1> USE DEF TypeOK, Joined, At
<1>1. ASSUME NEW b \in Sessions, (\E u \in Users : LogIn(b, u)) \/ LogOut(b)
      PROVE  Joined'
  <2>1. /\ UNCHANGED <<team, joined, request>> /\ request[b] = None
        /\ \A w \in Sessions \ {b} : user'[w] = user[w]
    BY <1>1 DEF LogIn, LogOut, Idle
  <2>2. QED
    BY <2>1
<1>2. ASSUME NEW b \in Sessions, NEW e \in Employers, AddEmployer(b, e)
      PROVE  Joined'
  <2>1. \A f \in Employers, w \in Users :
          team'[f][w] = "approved"
            => team[f][w] = "approved" \/ <<f, w>> = <<e, user[b]>>
    BY <1>2 DEF AddEmployer, Idle
  <2>2. request'[b].employer = e /\ \A w \in Sessions \ {b} : request'[w] = request[w]
    BY <1>2 DEF AddEmployer, Begin
  <2>3. joined' = joined \cup {<<e, user[b]>>} /\ user' = user
    BY <1>2 DEF AddEmployer, logins
  <2>4. QED
    BY <2>1, <2>2, <2>3
<1>3. ASSUME NEW b \in Sessions, NEW e \in Employers, AcceptInvitation(b, e)
      PROVE  Joined'
  <2>1. \A f \in Employers, w \in Users :
          team'[f][w] = "approved" => <<f, w>> \in joined'
    BY <1>3 DEF AcceptInvitation, Idle
  <2>2. /\ request'[b].step = "first-employer"
        /\ \A w \in Sessions \ {b} : request'[w] = request[w]
    BY <1>3 DEF AcceptInvitation, Begin
  <2>3. joined \subseteq joined' /\ user' = user
    BY <1>3 DEF AcceptInvitation, logins
  <2>4. QED
    BY <2>1, <2>2, <2>3
<1>4. ASSUME NEW b \in Sessions, NEW e \in Employers,
             Select(b, e) \/ RejectInvitation(b, e)
      PROVE  Joined'
  <2>1. UNCHANGED <<team, user, joined>> /\ user[b] \in Users
    BY <1>4 DEF Select, RejectInvitation, logins, Idle
  <2>2. /\ \A w \in Sessions \ {b} : request'[w] = request[w]
        /\ request'[b].employer = e
        /\ request'[b].step = "enter" => team[e][user[b]] = "approved"
    BY <1>4 DEF Select, RejectInvitation, Approved, Begin
  <2>3. QED
    BY <2>1, <2>2
<1>5. ASSUME NEW b \in Sessions, NEW e \in Employers, NEW v \in Users,
             AddMember(b, e, v) \/ DeleteMember(b, e, v)
      PROVE  Joined'
  <2>1. UNCHANGED <<team, user, joined>>
    BY <1>5 DEF AddMember, DeleteMember, logins
  <2>2. /\ \A w \in Sessions \ {b} : request'[w] = request[w]
        /\ request'[b].step # "enter"
    BY <1>5 DEF AddMember, DeleteMember, Begin
  <2>3. QED
    BY <2>1, <2>2
<1>6. ASSUME NEW b \in Sessions,
             Enter(b) \/ FirstEmployer(b) \/ NextEmployer(b)
             \/ ReadMembership(b) \/ CountMembers(b) \/ Abandon(b)
      PROVE  Joined'
  <2>1. UNCHANGED <<team, user, joined>>
    BY <1>6 DEF Enter, FirstEmployer, NextEmployer, ReadMembership, CountMembers,
       Abandon, logins
  <2>2. /\ request'[b] = None \/ request'[b].step # "enter"
        /\ \A w \in Sessions \ {b} : request'[w] = request[w]
    BY <1>6, OneRequest DEF Enter, FirstEmployer, NextEmployer, ReadMembership,
       CountMembers, Abandon
  <2>3. QED
    BY <2>1, <2>2
<1>7. ASSUME NEW b \in Sessions, Invite(b)
      PROVE  Joined'
  <2>1. request[b] \in Request
    BY <1>7 DEF Invite
  <2>2. \A e \in Employers, w \in Users :
          team'[e][w] = "approved" => team[e][w] = "approved"
    BY <1>7, <2>1 DEF Invite, Request
  <2>3. QED
    BY <1>7, <2>2, OneRequest DEF Invite, logins
<1>8. ASSUME NEW b \in Sessions, request[b] # None, DeleteRow(b)
      PROVE  Joined'
  <2>1. \A f \in Employers, w \in Users :
          team'[f][w] = "approved" => team[f][w] = "approved"
    BY <1>8, RowDeleted
  <2>2. UNCHANGED <<user, joined>>
    BY <1>8 DEF DeleteRow, logins
  <2>3. /\ request'[b] = None \/ request'[b].step = "next-employer"
        /\ \A w \in Sessions \ {b} : request'[w] \in {request[w], None}
    BY <1>8, RowDeleted
  <2>4. QED
    BY <2>1, <2>2, <2>3
<1>9. ASSUME NEW b \in Sessions, DeleteApproved(b) \/ DeletePending(b)
      PROVE  Joined'
  <2>1. CASE DeleteRow(b)
    BY <1>8, <1>9, <2>1 DEF DeleteApproved, DeletePending
  <2>2. CASE ~DeleteRow(b)
    BY <1>9, <2>2, OneRequest DEF DeleteApproved, DeletePending, logins
  <2>3. QED
    BY <2>1, <2>2
<1>10. CASE UNCHANGED vars
  BY <1>10 DEF vars, logins
<1>11. QED
  BY <1>1, <1>2, <1>3, <1>4, <1>5, <1>6, <1>7, <1>9, <1>10, NextCases

(* A selection remains one of a team that a user of the session was in.    *)
LEMMA NextSelected ==
  ASSUME TypeOK, LoggedIn, Joined, SelectedWasMember, [Next]_vars
  PROVE  SelectedWasMember'
<1> USE DEF TypeOK, SelectedWasMember
<1>1. ASSUME UNCHANGED <<selected, logins>>, joined \subseteq joined'
      PROVE  SelectedWasMember'
  BY <1>1 DEF logins
<1>2. ASSUME NEW b \in Sessions, NEW u \in Users, LogIn(b, u)
      PROVE  SelectedWasMember'
  <2>1. /\ UNCHANGED joined
        /\ \A w \in Sessions \ {b} : selected'[w] = selected[w] /\ hosted'[w] = hosted[w]
        /\ hosted'[b] = hosted[b] \cup {u}
        /\ selected'[b] = selected[b] \/ selected'[b] \in EmployersOf(u)
    BY <1>2 DEF LogIn, EmployersOf
  <2>2. \A e \in EmployersOf(u) : <<e, u>> \in joined
    BY DEF EmployersOf, Approved, Joined
  <2>3. QED
    BY <2>1, <2>2
<1>3. ASSUME NEW b \in Sessions, LogOut(b)
      PROVE  SelectedWasMember'
  BY <1>3 DEF LogOut
<1>4. ASSUME NEW b \in Sessions, Enter(b) \/ FirstEmployer(b) \/ NextEmployer(b)
      PROVE  SelectedWasMember'
  <2>1. /\ request[b] \in Request /\ user[b] \in hosted[b] /\ user[b] \in Users
        /\ UNCHANGED <<joined, hosted>>
    BY <1>4 DEF Enter, FirstEmployer, NextEmployer, At, LoggedIn, logins
  <2>2. \A e \in EmployersOf(user[b]) : <<e, user[b]>> \in joined
    BY <2>1 DEF EmployersOf, Approved, Joined
  <2>3. /\ \A w \in Sessions \ {b} : selected'[w] = selected[w]
        /\ \/ selected'[b] \in {selected[b], None}
           \/ <<selected'[b], user[b]>> \in joined
    <3>1. CASE Enter(b)
      BY <2>1, <3>1 DEF Enter, Joined
    <3>2. CASE FirstEmployer(b) \/ NextEmployer(b)
      BY <2>2, <3>2 DEF FirstEmployer, NextEmployer, EmployersOf
    <3>3. QED
      BY <1>4, <3>1, <3>2
  <2>4. QED
    BY <2>1, <2>3
<1>5. QED
  <2>1. ASSUME NEW b \in Sessions, NEW e \in Employers,
               AddEmployer(b, e) \/ Select(b, e)
               \/ AcceptInvitation(b, e) \/ RejectInvitation(b, e)
        PROVE  SelectedWasMember'
    BY <1>1, <2>1 DEF AddEmployer, Select, AcceptInvitation, RejectInvitation
  <2>2. ASSUME NEW b \in Sessions, NEW e \in Employers, NEW v \in Users,
               AddMember(b, e, v) \/ DeleteMember(b, e, v)
        PROVE  SelectedWasMember'
    BY <1>1, <2>2 DEF AddMember, DeleteMember
  <2>3. ASSUME NEW b \in Sessions,
               Invite(b) \/ ReadMembership(b) \/ CountMembers(b)
               \/ DeleteApproved(b) \/ DeletePending(b) \/ Abandon(b)
        PROVE  SelectedWasMember'
    BY <1>1, <2>3 DEF Invite, ReadMembership, CountMembers, DeleteApproved,
       DeletePending, DeleteRow, Abandon
  <2>4. CASE UNCHANGED vars
    BY <1>1, <2>4 DEF vars
  <2>5. QED
    BY <1>2, <1>3, <1>4, <2>1, <2>2, <2>3, <2>4, NextCases

-----------------------------------------------------------------------------
(* A step of b outside the removals: nobody leaves a team by it, and whoever*)
(* is deleting their own invitation is contested if they join by it.       *)
Harmless(b) ==
  /\ \A f \in Employers, w \in Users : team[f][w] = "approved" => team'[f][w] = "approved"
  /\ \A c \in Sessions \ (overtaken' \cup {b}) :
       At(c, "delete-pending") /\ request[c].target = user[c]
       /\ team[request[c].employer][user[c]] # "approved"
         => team'[request[c].employer][user[c]] # "approved"
  /\ \A c \in Sessions \ {b} : request'[c] = request[c] /\ user'[c] = user[c]
  /\ request'[b] = None \/ request'[b].step \notin Removal
  /\ overtaken \ {b} \subseteq overtaken'

LEMMA NoRemoval ==
  ASSUME TypeOK, LoggedIn, Removals, NEW b \in Sessions, Harmless(b)
  PROVE  Removals'
<1> USE DEF TypeOK, Removals, Removal, At, Harmless
<1>1. \A c \in Sessions : request[c] # None =>
        request[c].employer \in Employers /\ user[c] \in Users
  BY DEF Request, LoggedIn
<1>2. RemoverIsMember'
  BY <1>1 DEF RemoverIsMember
<1>3. CountedStay'
  BY <1>1 DEF CountedStay, HasBesides
<1>4. RejectedIsPending'
  BY <1>1 DEF RejectedIsPending
<1>5. QED
  BY <1>2, <1>3, <1>4

(* Removals begin: a member's, with nothing counted, or the user's own.    *)
LEMMA RemovalBegins ==
  ASSUME TypeOK, Removals, NEW b \in Sessions, NEW e \in Employers,
         RejectInvitation(b, e) \/ \E v \in Users : DeleteMember(b, e, v)
  PROVE  Removals'
<1>1. PICK v \in Users :
        /\ DeleteMember(b, e, v) \/ (RejectInvitation(b, e) /\ v = user[b])
        /\ user[b] \in Users
  BY DEF TypeOK, DeleteMember, RejectInvitation, Idle
<1>2. /\ request'[b].employer = e /\ request'[b].target = v
      /\ request'[b].step = "read"
      /\ \A w \in Sessions \ {b} : request'[w] = request[w]
  BY <1>1 DEF TypeOK, DeleteMember, RejectInvitation, Begin
<1>3. UNCHANGED <<team, user, overtaken>>
  BY <1>1 DEF DeleteMember, RejectInvitation, logins
<1>4. user[b] = v \/ team[e][user[b]] = "approved"
  BY <1>1 DEF DeleteMember, ActsFor, Approved
<1>5. RemoverIsMember'
  BY <1>2, <1>3, <1>4 DEF Removals, RemoverIsMember
<1>6. CountedStay'
  BY <1>2, <1>3 DEF Removals, CountedStay, HasBesides, At
<1>7. RejectedIsPending'
  BY <1>2, <1>3 DEF Removals, RejectedIsPending, At
<1>8. QED
  BY <1>5, <1>6, <1>7 DEF Removals

(* The two reads of a removal.                                             *)
LEMMA RemovalReads ==
  ASSUME TypeOK, Removals, NEW b \in Sessions, ReadMembership(b) \/ CountMembers(b)
  PROVE  Removals'
<1> DEFINE e == request[b].employer
           v == request[b].target
<1>1. e \in Employers /\ v \in Users /\ request[b] # None
  BY DEF TypeOK, ReadMembership, CountMembers, At, Request
<1>2. /\ UNCHANGED <<team, user>>
      /\ overtaken' = overtaken \/ (overtaken' = overtaken \ {b} /\ request'[b] = None)
  BY <1>1, OneRequest DEF ReadMembership, CountMembers, EndRemoval, logins
<1>3. \A w \in Sessions \ {b} : request'[w] = request[w]
  BY <1>1, OneRequest DEF ReadMembership, CountMembers
<1>4. \/ request'[b] = None
      \/ /\ request'[b].employer = e /\ request'[b].target = v
         /\ request[b].step \in Removal
         /\ \/ request'[b].step = "count"
            \/ request'[b].step = "delete-pending" /\ team[e][v] = "pending"
            \/ request'[b].step = "delete-approved" /\ Cardinality(Approved(e)) > 1
  <2>1. CASE ReadMembership(b)
    BY <1>1, <2>1, OneRequest DEF ReadMembership, At, Removal
  <2>2. CASE CountMembers(b)
    <3>1. \/ Answer(b)
          \/ GoOn(b, "delete-approved") /\ Cardinality(Approved(e)) > 1
      BY <2>2 DEF CountMembers
    <3>2. QED
      BY <1>1, <2>2, <3>1, OneRequest DEF CountMembers, At, Removal
  <2>3. QED
    BY <2>1, <2>2
<1>5. RemoverIsMember'
  <2>1. request'[b] # None =>
          /\ request[b].step \in Removal
          /\ request'[b].employer = e /\ request'[b].target = v
    BY <1>4
  <2>2. QED
    BY <1>1, <1>2, <1>3, <2>1 DEF Removals, RemoverIsMember
<1>6. CountedStay'
  <2>1. request'[b] = None \/ request'[b].step # "delete-approved"
        \/ (request'[b].employer = e /\ \A x \in Users : HasBesides(e, x))
    BY <1>1, <1>4, SeveralMembers
  <2>2. \A f, x : HasBesides(f, x)' = HasBesides(f, x)
    BY <1>2 DEF HasBesides
  <2>3. QED
    BY <1>2, <1>3, <2>1, <2>2 DEF Removals, CountedStay, At
<1>7. RejectedIsPending'
  BY <1>2, <1>3, <1>4 DEF Removals, RejectedIsPending, At
<1>8. QED
  BY <1>5, <1>6, <1>7 DEF Removals

(* A removal deletes its row: those it leaves behind have been overtaken.  *)
LEMMA RemovalEnds ==
  ASSUME TypeOK, LoggedIn, Removals, NEW b \in Sessions, request[b] # None,
         DeleteRow(b)
  PROVE  Removals'
<1> DEFINE e == request[b].employer
           v == request[b].target
           Stay(f) == \A x \in Users : team[f][x] = "approved" => team'[f][x] = "approved"
<1>1. /\ e \in Employers /\ v \in Users /\ team'[e][v] = "none"
      /\ \A f \in Employers, w \in Users :
           <<f, w>> # <<e, v>> => team'[f][w] = team[f][w]
  BY RowDeleted
<1>2. request'[b] = None \/ request'[b].step = "next-employer"
  BY RowDeleted
<1>3. /\ \A w \in Sessions \ {b} : request'[w] # None =>
           request'[w] = request[w] /\ request[w].employer \in Employers
      /\ user' = user
  BY RowDeleted DEF TypeOK, Request, DeleteRow, logins
<1>4. \A w \in Sessions \ {b} :
        request'[w] # None /\ w \notin overtaken' => w \notin overtaken
  BY DEF DeleteRow
<1>5. ASSUME NEW w \in Sessions \ {b}, w \notin overtaken', request'[w] # None,
             request'[w].step \in Removal
      PROVE  Stay(request[w].employer)
  <2>1. CASE team[e][v] = "approved"
    <3>1. request[w] # None /\ request[w].step \in Removal
      BY <1>3, <1>5
    <3>2. request[w].employer # e
      BY <1>5, <2>1, <3>1 DEF DeleteRow
    <3>3. QED
      BY <1>1, <1>3, <1>5, <3>2
  <2>2. CASE team[e][v] # "approved"
    BY <1>1, <1>3, <1>5, <2>2
  <2>3. QED
    BY <2>1, <2>2
<1>6. RemoverIsMember'
  <2> SUFFICES ASSUME NEW w \in Sessions, w \notin overtaken', request'[w] # None,
                      request'[w].step \in Removal, request'[w].target # user[w]
               PROVE  team'[request'[w].employer][user[w]] = "approved"
    BY <1>3 DEF RemoverIsMember
  <2>1. w # b
    BY <1>2 DEF Removal
  <2>2. /\ request'[w] = request[w] /\ Stay(request[w].employer)
        /\ w \notin overtaken
    BY <1>3, <1>4, <1>5, <2>1
  <2>3. team[request[w].employer][user[w]] = "approved"
    BY <2>2 DEF Removals, RemoverIsMember
  <2>4. user[w] \in Users
    BY <2>2 DEF TypeOK, LoggedIn
  <2>5. QED
    BY <2>2, <2>3, <2>4
<1>7. CountedStay'
  <2> SUFFICES ASSUME NEW w \in Sessions, w \notin overtaken', request'[w] # None,
                      request'[w].step = "delete-approved", NEW x \in Users
               PROVE  HasBesides(request[w].employer, x)' /\ request'[w] = request[w]
    BY DEF CountedStay, At, HasBesides
  <2>1. w # b
    BY <1>2
  <2>2. /\ request'[w] = request[w] /\ Stay(request[w].employer)
        /\ w \notin overtaken
    BY <1>3, <1>4, <1>5, <2>1 DEF Removal
  <2>3. HasBesides(request[w].employer, x)
    BY <2>2 DEF Removals, CountedStay, At
  <2>4. QED
    BY <2>2, <2>3 DEF HasBesides
<1>8. RejectedIsPending'
  <2> SUFFICES ASSUME NEW w \in Sessions, w \notin overtaken', request'[w] # None,
                      request'[w].step = "delete-pending", request'[w].target = user[w]
               PROVE  team'[request'[w].employer][user[w]] # "approved"
    BY <1>3 DEF RejectedIsPending, At
  <2>1. w # b
    BY <1>2
  <2>2. /\ request'[w] = request[w] /\ request[w].employer \in Employers
        /\ request[w].target \in Users /\ w \notin overtaken
    BY <1>3, <1>4, <2>1 DEF TypeOK, Request
  <2>3. team[request[w].employer][user[w]] # "approved" /\ user[w] \in Users
    BY <2>2 DEF Removals, RejectedIsPending, At
  <2>4. QED
    BY <1>1, <2>2, <2>3
<1>9. QED
  BY <1>6, <1>7, <1>8 DEF Removals

-----------------------------------------------------------------------------
(* A step is harmless, or it is one of a removal.                          *)
LEMMA HarmlessOrRemoval ==
  ASSUME TypeOK, LoggedIn, Founded, [Next]_vars
  PROVE  \/ UNCHANGED vars
         \/ \E b \in Sessions :
              \/ Harmless(b)
              \/ \E e \in Employers :
                   RejectInvitation(b, e) \/ \E v \in Users : DeleteMember(b, e, v)
              \/ ReadMembership(b) \/ CountMembers(b)
              \/ request[b] # None /\ DeleteRow(b)
<1> USE DEF TypeOK
<1>1. ASSUME NEW b \in Sessions, (\E u \in Users : LogIn(b, u)) \/ LogOut(b)
      PROVE  Harmless(b)
  <2>1. /\ UNCHANGED <<team, overtaken, request>> /\ request[b] = None
        /\ \A w \in Sessions \ {b} : user'[w] = user[w]
    BY <1>1 DEF LogIn, LogOut, Idle
  <2>2. QED
    BY <2>1 DEF Harmless
<1>2. ASSUME NEW b \in Sessions, NEW e \in Employers, AddEmployer(b, e)
      PROVE  Harmless(b)
  <2>1. /\ request'[b].step = "enter"
        /\ \A w \in Sessions \ {b} : request'[w] = request[w]
    BY <1>2 DEF AddEmployer, Begin
  <2>2. \A f \in Employers, w \in Users :
          /\ team[f][w] = "approved" => team'[f][w] = "approved"
          /\ f # e => team'[f][w] = team[f][w]
    BY <1>2 DEF AddEmployer, Idle
  <2>3. \A c \in Sessions : At(c, "delete-pending") =>
          request[c].employer \in Employers \ {e} /\ request[c].target \in Users
    BY <1>2 DEF AddEmployer, Founded, At, Request
  <2>4. UNCHANGED <<user, overtaken>>
    BY <1>2 DEF AddEmployer, logins
  <2>5. QED
    BY <2>1, <2>2, <2>3, <2>4 DEF Harmless, Removal
<1>3. ASSUME NEW b \in Sessions, NEW e \in Employers, AcceptInvitation(b, e)
      PROVE  Harmless(b)
  <2>1. /\ request'[b].step = "first-employer"
        /\ \A w \in Sessions \ {b} : request'[w] = request[w]
    BY <1>3 DEF AcceptInvitation, Begin
  <2>2. \A f \in Employers, w \in Users :
          /\ team[f][w] = "approved" => team'[f][w] = "approved"
          /\ team'[f][w] = team[f][w] \/ <<f, w>> = <<e, user[b]>>
    BY <1>3 DEF AcceptInvitation, Idle
  <2>3. UNCHANGED user /\ overtaken \subseteq overtaken'
    BY <1>3 DEF AcceptInvitation, logins
  <2>4. \A c \in Sessions : At(c, "delete-pending") =>
          request[c].employer \in Employers /\ request[c].target \in Users
    BY DEF At, Request
  <2>5. ASSUME NEW c \in Sessions \ (overtaken' \cup {b}), At(c, "delete-pending"),
               request[c].target = user[c],
               team[request[c].employer][user[c]] # "approved"
        PROVE  team'[request[c].employer][user[c]] # "approved"
    <3>1. CASE team' = team
      BY <2>5, <3>1
    <3>2. CASE team' # team
      <4>1. c \notin RejectedElsewhere(b, e)
        BY <1>3, <2>5, <3>2 DEF AcceptInvitation
      <4>2. <<request[c].employer, user[c]>> # <<e, user[b]>>
        BY <2>5, <4>1 DEF RejectedElsewhere
      <4>3. QED
        BY <2>2, <2>4, <2>5, <4>2
    <3>3. QED
      BY <3>1, <3>2
  <2>6. QED
    BY <2>1, <2>2, <2>3, <2>5 DEF Harmless, Removal
<1>4. ASSUME NEW b \in Sessions, NEW e \in Employers,
             Select(b, e) \/ \E v \in Users : AddMember(b, e, v)
      PROVE  Harmless(b)
  <2>1. /\ request'[b].step \in {"enter", "invite"}
        /\ \A w \in Sessions \ {b} : request'[w] = request[w]
    BY <1>4 DEF Select, AddMember, Begin
  <2>2. UNCHANGED <<team, user, overtaken>>
    BY <1>4 DEF Select, AddMember, logins
  <2>3. QED
    BY <2>1, <2>2 DEF Harmless, Removal
<1>5. ASSUME NEW b \in Sessions,
             Enter(b) \/ FirstEmployer(b) \/ NextEmployer(b) \/ Abandon(b)
      PROVE  Harmless(b)
  <2>1. UNCHANGED <<team, user>> /\ overtaken \ {b} \subseteq overtaken'
    BY <1>5 DEF Enter, FirstEmployer, NextEmployer, Abandon, EndRemoval, logins
  <2>2. request'[b] = None /\ \A w \in Sessions \ {b} : request'[w] = request[w]
    BY <1>5, OneRequest DEF Enter, FirstEmployer, NextEmployer, Abandon
  <2>3. QED
    BY <2>1, <2>2 DEF Harmless
<1>6. ASSUME NEW b \in Sessions, Invite(b)
      PROVE  Harmless(b)
  <2>1. request[b] \in Request
    BY <1>6 DEF Invite, At
  <2>2. \A f \in Employers, w \in Users :
          /\ team[f][w] = "approved" => team'[f][w] = "approved"
          /\ team'[f][w] = "approved" => team[f][w] = "approved"
    BY <1>6, <2>1 DEF Invite, Request
  <2>3. \A c \in Sessions : At(c, "delete-pending") =>
          request[c].employer \in Employers /\ request[c].target \in Users
    BY DEF At, Request
  <2>4. request'[b] = None /\ \A w \in Sessions \ {b} : request'[w] = request[w]
    BY <1>6, OneRequest DEF Invite
  <2>5. UNCHANGED <<user, overtaken>>
    BY <1>6 DEF Invite, logins
  <2>6. QED
    BY <2>2, <2>3, <2>4, <2>5 DEF Harmless
<1>7. ASSUME NEW b \in Sessions, DeleteApproved(b) \/ DeletePending(b)
      PROVE  Harmless(b) \/ (request[b] # None /\ DeleteRow(b))
  <2>1. request[b] # None
    BY <1>7 DEF DeleteApproved, DeletePending, At
  <2>2. CASE DeleteRow(b)
    BY <2>1, <2>2
  <2>3. CASE ~DeleteRow(b)
    <3>1. UNCHANGED <<team, user>> /\ overtaken' = overtaken \ {b}
      BY <1>7, <2>3 DEF DeleteApproved, DeletePending, EndRemoval, logins
    <3>2. Answer(b) \/ GoOn(b, "next-employer")
      BY <1>7, <2>3 DEF DeleteApproved, DeletePending
    <3>3. QED
      BY <2>1, <3>1, <3>2, OneRequest DEF Harmless, Removal
  <2>4. QED
    BY <2>2, <2>3
<1>8. QED
  BY <1>1, <1>2, <1>3, <1>4, <1>5, <1>6, <1>7, NextCases

(* Every step keeps what the removals know of their teams.                 *)
LEMMA NextRemovals ==
  ASSUME TypeOK, LoggedIn, Founded, Removals, [Next]_vars
  PROVE  Removals'
<1>1. CASE UNCHANGED vars
  BY <1>1 DEF vars, logins, Removals, RemoverIsMember, CountedStay,
       RejectedIsPending, HasBesides, At
<1>2. QED
  BY <1>1, NoRemoval, HarmlessOrRemoval, RemovalBegins, RemovalReads, RemovalEnds

(* Teams come with their employers, and invitations from members.          *)
LEMMA NextFounded ==
  ASSUME TypeOK, LoggedIn, Joined, Founded, [Next]_vars
  PROVE  Founded'
<1> USE DEF TypeOK, At
<1>1. ASSUME exists \subseteq exists', UNCHANGED <<user, joined>>,
             \A f \in Employers, w \in Users :
               f \in exists \/ team'[f][w] \in {team[f][w], "none"},
             NEW b \in Sessions,
             \A c \in Sessions \ {b} : request'[c] \in {request[c], None},
             request'[b] # None =>
               /\ request'[b].step = "delete-pending" => request'[b].employer \in exists
               /\ request'[b].step = "invite" =>
                    <<request'[b].employer, user[b]>> \in joined
      PROVE  Founded'
  BY <1>1 DEF Founded
<1>2. ASSUME NEW b \in Sessions, (\E u \in Users : LogIn(b, u)) \/ LogOut(b)
      PROVE  Founded'
  <2>1. /\ UNCHANGED <<exists, team, joined, request>> /\ request[b] = None
        /\ \A w \in Sessions \ {b} : user'[w] = user[w]
    BY <1>2 DEF LogIn, LogOut, Idle
  <2>2. QED
    BY <2>1 DEF Founded
<1>3. ASSUME NEW b \in Sessions,
             Abandon(b) \/ Enter(b) \/ FirstEmployer(b) \/ NextEmployer(b)
      PROVE  Founded'
  <2>1. UNCHANGED <<exists, team, user, joined>>
    BY <1>3 DEF Abandon, Enter, FirstEmployer, NextEmployer, logins
  <2>2. request'[b] = None /\ \A w \in Sessions \ {b} : request'[w] = request[w]
    BY <1>3, OneRequest DEF Abandon, Enter, FirstEmployer, NextEmployer
  <2>3. QED
    BY <1>1, <2>1, <2>2
<1>4. ASSUME NEW b \in Sessions, ReadMembership(b) \/ CountMembers(b)
      PROVE  Founded'
  <2>1. UNCHANGED <<exists, team, user, joined>>
    BY <1>4 DEF ReadMembership, CountMembers, logins
  <2>2. request[b] \in Request /\ request[b] # None
    BY <1>4 DEF ReadMembership, CountMembers
  <2>3. /\ \A w \in Sessions \ {b} : request'[w] = request[w]
        /\ \/ request'[b] = None
           \/ /\ request'[b].employer = request[b].employer
              /\ request'[b].step # "invite"
              /\ request'[b].step = "delete-pending" =>
                   team[request[b].employer][request[b].target] = "pending"
    <3>1. CASE ReadMembership(b)
      BY <2>2, <3>1, OneRequest DEF ReadMembership
    <3>2. CASE CountMembers(b)
      BY <2>2, <3>2, OneRequest DEF CountMembers
    <3>3. QED
      BY <1>4, <3>1, <3>2
  <2>4. team[request[b].employer][request[b].target] = "pending"
          => request[b].employer \in exists
    BY <2>2 DEF Founded, Request
  <2>5. QED
    BY <1>1, <2>1, <2>3, <2>4
<1>5. ASSUME NEW b \in Sessions, NEW e \in Employers, AddEmployer(b, e)
      PROVE  Founded'
  <2>1. /\ exists' = exists \cup {e} /\ joined' = joined \cup {<<e, user[b]>>}
        /\ \A f \in Employers \ {e} : team'[f] = team[f]
        /\ user' = user
    BY <1>5 DEF AddEmployer, logins
  <2>2. /\ request'[b].step = "enter"
        /\ \A w \in Sessions \ {b} : request'[w] = request[w]
    BY <1>5 DEF AddEmployer, Begin
  <2>3. QED
    BY <2>1, <2>2 DEF Founded
<1>6. ASSUME NEW b \in Sessions, NEW e \in Employers, AcceptInvitation(b, e)
      PROVE  Founded'
  <2>1. /\ request'[b].step = "first-employer"
        /\ \A w \in Sessions \ {b} : request'[w] = request[w]
        /\ user[b] \in Users /\ user' = user /\ exists' = exists
    BY <1>6 DEF AcceptInvitation, Begin, Idle, logins
  <2>2. CASE team[e][user[b]] = "none"
    BY <1>1, <1>6, <2>1, <2>2 DEF AcceptInvitation
  <2>3. CASE team[e][user[b]] # "none"
    <3>1. e \in exists
      BY <2>1, <2>3 DEF Founded
    <3>2. /\ joined' = joined \cup {<<e, user[b]>>}
          /\ \A f \in Employers \ {e} : team'[f] = team[f]
      BY <1>6, <2>3 DEF AcceptInvitation
    <3>3. QED
      BY <2>1, <3>1, <3>2 DEF Founded
  <2>4. QED
    BY <2>2, <2>3
<1>7. ASSUME NEW b \in Sessions, NEW e \in Employers,
             Select(b, e) \/ RejectInvitation(b, e)
             \/ \E v \in Users : AddMember(b, e, v) \/ DeleteMember(b, e, v)
      PROVE  Founded'
  <2>1. UNCHANGED <<exists, team, user, joined>> /\ user[b] \in Users
    BY <1>7 DEF Select, RejectInvitation, AddMember, DeleteMember, logins, Idle
  <2>2. /\ \A w \in Sessions \ {b} : request'[w] = request[w]
        /\ request'[b].employer = e
        /\ request'[b].step # "delete-pending"
        /\ request'[b].step = "invite" => team[e][user[b]] = "approved"
    BY <1>7 DEF Select, RejectInvitation, AddMember, DeleteMember, Begin, ActsFor,
       Approved
  <2>3. QED
    BY <1>1, <2>1, <2>2 DEF Joined
<1>8. ASSUME NEW b \in Sessions, Invite(b)
      PROVE  Founded'
  <2>1. /\ request[b] \in Request /\ request[b].employer \in Employers
        /\ user[b] \in Users
    BY <1>8 DEF Invite, Request, LoggedIn
  <2>2. request[b].employer \in exists
    BY <1>8, <2>1 DEF Invite, Founded
  <2>3. /\ \A f \in Employers \ {request[b].employer} : team'[f] = team[f]
        /\ exists' = exists /\ joined' = joined /\ user' = user
    BY <1>8 DEF Invite, logins
  <2>4. request'[b] = None /\ \A w \in Sessions \ {b} : request'[w] = request[w]
    BY <1>8, OneRequest DEF Invite
  <2>5. QED
    BY <1>1, <2>2, <2>3, <2>4
<1>9. ASSUME NEW b \in Sessions, request[b] # None, DeleteRow(b)
      PROVE  Founded'
  <2>1. \A f \in Employers, w \in Users : team'[f][w] \in {team[f][w], "none"}
    BY <1>9, RowDeleted
  <2>2. /\ \A w \in Sessions \ {b} : request'[w] \in {request[w], None}
        /\ request'[b] = None \/ request'[b].step = "next-employer"
    BY <1>9, RowDeleted
  <2>3. exists' = exists /\ joined' = joined /\ user' = user
    BY <1>9 DEF DeleteRow, logins
  <2>4. QED
    BY <1>1, <2>1, <2>2, <2>3
<1>10. ASSUME NEW b \in Sessions, DeleteApproved(b) \/ DeletePending(b)
       PROVE  Founded'
  <2>1. CASE DeleteRow(b)
    BY <1>9, <1>10, <2>1 DEF DeleteApproved, DeletePending
  <2>2. CASE ~DeleteRow(b)
    <3>1. UNCHANGED <<exists, team, user, joined>>
      BY <1>10, <2>2 DEF DeleteApproved, DeletePending, logins
    <3>2. /\ \A w \in Sessions \ {b} : request'[w] = request[w]
          /\ request'[b] = None \/ request'[b].step = "next-employer"
      BY <1>10, <2>2, OneRequest DEF DeleteApproved, DeletePending
    <3>3. QED
      BY <1>1, <3>1, <3>2
  <2>3. QED
    BY <2>1, <2>2
<1>11. CASE UNCHANGED vars
  BY <1>11 DEF vars, logins, Founded
<1>12. QED
  BY <1>2, <1>3, <1>4, <1>5, <1>6, <1>7, <1>8, <1>10, <1>11, NextCases

(* Every step keeps the inductive invariant.                               *)
LEMMA NextIInv == IInv /\ [Next]_vars => IInv'
BY NextTypeOK, NextJoined, NextSelected, NextRemovals, NextFounded DEF IInv

(* The inductive invariant holds in every reachable state.                 *)
LEMMA Inductive == Spec => []IInv
BY InitIInv, NextIInv, PTL DEF Spec

-----------------------------------------------------------------------------
(* The variables always have their types.                                  *)
THEOREM TypeCorrect == Spec => []TypeOK
<1>1. IInv => TypeOK
  BY DEF IInv
<1>2. QED
  BY <1>1, Inductive, PTL

(* The dashboard's home page shows an employer that somebody logged in to  *)
(* the session since its last log out has been a member of, however log ins*)
(* over another's session, requests and removals interleave.               *)
THEOREM SelectionsCorrect == Spec => []SelectedWasMember
<1>1. IInv => SelectedWasMember
  BY DEF IInv
<1>2. QED
  BY <1>1, Inductive, PTL

(* A removal from the team leaves it an approved member, unless another    *)
(* removal, or its own user's acceptance in another session, overtakes it. *)
THEOREM RemovalsCorrect == Spec => OnlyOvertakenEmpties
<1> DEFINE Emptied(b, e) ==
             /\ At(b, "delete-approved") \/ At(b, "delete-pending")
             /\ request[b].employer = e /\ request'[b] # request[b]
             /\ Approved(e) # {} /\ Approved(e)' = {}
<1>1. ASSUME IInv, [Next]_vars, NEW b \in Sessions, NEW e \in Employers, Emptied(b, e)
      PROVE  b \in overtaken
  <2> SUFFICES ASSUME b \notin overtaken
               PROVE  FALSE
    OBVIOUS
  <2> USE DEF IInv, Removals
  <2>1. \A w \in Users : team'[e][w] # "approved"
    BY <1>1 DEF Approved
  <2>2. PICK w \in Users : team[e][w] = "approved"
    BY <1>1 DEF Approved
  <2>3. PICK x \in Sessions : request[x] # None /\ DeleteRow(x)
    <3>1. UNCHANGED vars => team' = team
      BY DEF vars
    <3>2. \A y \in Sessions : ReadMembership(y) \/ CountMembers(y) => team' = team
      BY DEF ReadMembership, CountMembers
    <3>3. \A y \in Sessions, f \in Employers, v \in Users :
            DeleteMember(y, f, v) \/ RejectInvitation(y, f) => team' = team
      BY DEF DeleteMember, RejectInvitation
    <3>4. \A y \in Sessions : ~Harmless(y)
      BY <2>1, <2>2 DEF Harmless
    <3>5. \A y \in Sessions, f \in Employers :
            RejectInvitation(y, f) => team' = team
      BY DEF RejectInvitation
    <3>6. QED
      BY <1>1, <2>1, <2>2, <3>1, <3>2, <3>3, <3>4, <3>5, HarmlessOrRemoval
  <2>4. \A y \in Users : <<e, y>> # <<request[x].employer, request[x].target>>
          => team'[e][y] = team[e][y]
    BY <1>1, <2>3, RowDeleted
  <2>5. request[x].employer = e /\ request[x].target = w
    BY <2>1, <2>2, <2>4
  <2>6. ~At(b, "delete-approved")
    <3>1. ~HasBesides(e, w)
      BY <2>1, <2>4, <2>5 DEF HasBesides
    <3>2. QED
      BY <1>1, <2>2, <3>1 DEF CountedStay
  <2>7. At(b, "delete-pending") /\ x = b
    BY <1>1, <2>3, <2>6, RowDeleted DEF At
  <2>8. request[b] # None /\ user[b] \in Users
    BY <1>1, <2>7 DEF TypeOK, LoggedIn, At
  <2>9. CASE request[b].target = user[b]
    BY <1>1, <2>2, <2>5, <2>7, <2>9 DEF RejectedIsPending
  <2>10. CASE request[b].target # user[b]
    <3>1. team[e][user[b]] = "approved"
      BY <1>1, <2>7, <2>10 DEF RemoverIsMember, At, Removal
    <3>2. QED
      BY <2>1, <2>4, <2>5, <2>7, <2>8, <2>10, <3>1
  <2>11. QED
    BY <2>9, <2>10
<1>2. IInv /\ [Next]_vars =>
        [\A b \in Sessions, e \in Employers : Emptied(b, e) => b \in overtaken]_vars
  BY <1>1
<1>3. QED
  BY <1>2, Inductive, PTL DEF Spec, OnlyOvertakenEmpties

-----------------------------------------------------------------------------
(* What a removal that may delete its row still knows of the team.         *)
LEMMA RemovalKnows ==
  ASSUME IInv, NEW b \in Sessions, At(b, "delete-approved") \/ At(b, "delete-pending")
  PROVE  LET e == request[b].employer
             v == request[b].target
         IN  /\ e \in Employers /\ v \in Users
             /\ v = user[b] \/ team[e][user[b]] = "approved" \/ b \in overtaken
             /\ \/ team[e][v] # "approved" \/ b \in overtaken
                \/ \E w \in Users \ {v} : team[e][w] = "approved"
<1> DEFINE e == request[b].employer
           v == request[b].target
<1> USE DEF IInv, Removals, At, Removal
<1>1. e \in Employers /\ v \in Users /\ user[b] \in Users
  BY DEF TypeOK, Request, LoggedIn
<1>2. v = user[b] \/ team[e][user[b]] = "approved" \/ b \in overtaken
  BY DEF RemoverIsMember
<1>3. ASSUME team[e][v] = "approved", b \notin overtaken
      PROVE  \E w \in Users \ {v} : team[e][w] = "approved"
  <2>1. CASE At(b, "delete-approved")
    BY <1>1, <1>3, <2>1 DEF CountedStay, HasBesides
  <2>2. CASE At(b, "delete-pending")
    BY <1>1, <1>2, <1>3, <2>2 DEF RejectedIsPending
  <2>3. QED
    BY <2>1, <2>2
<1>4. QED
  BY <1>1, <1>2, <1>3

(* A removal is seen while its request is at one of its steps, and only by *)
(* what happens to this request.                                           *)
LEMMA RemovesFromChanges ==
  ASSUME TypeOK, NEW b \in Sessions,
         \A w \in Sessions \ {b} : request'[w] = request[w]
  PROVE  LET removesFrom == [w \in Sessions |-> RemovesFrom(w)] IN
         /\ removesFrom' = [removesFrom EXCEPT ![b] = RemovesFrom(b)']
         /\ RemovesFrom(b)' = RemovesFrom(b) => removesFrom' = removesFrom
<1> DEFINE removesFrom == [w \in Sessions |-> RemovesFrom(w)]
<1>1. \A w \in Sessions \ {b} : RemovesFrom(w)' = RemovesFrom(w)
  BY DEF RemovesFrom
<1>2. removesFrom' = [w \in Sessions |-> RemovesFrom(w)']
  OBVIOUS
<1>3. QED
  BY <1>1, <1>2

(* Every step of the teams is one of the abstract roster: teams are founded*)
(* once and joined by invitation, members remove members, a removal that   *)
(* is not contested leaves a member, and sessions come to act only for     *)
(* teams of their user: see ImplementsRoster.                              *)
THEOREM TeamImplementsRoster == Spec => ImplementsRoster
<1> DEFINE removesFrom == [b \in Sessions |-> RemovesFrom(b)]
<1>1. Init => Promise!Init
  <2> SUFFICES ASSUME Init
               PROVE  Promise!Init
    OBVIOUS
  <2>1. \A b \in Sessions : RemovesFrom(b) = None
    BY DEF Init, RemovesFrom
  <2>2. QED
    BY <2>1 DEF Init, Promise!Init
<1>2. IInv /\ [Next]_vars => [Promise!Next]_(Promise!vars)
  <2> SUFFICES ASSUME IInv, [Next]_vars
               PROVE  [Promise!Next]_(Promise!vars)
    OBVIOUS
  <2> USE DEF Removal
  <2>0. TypeOK /\ LoggedIn /\ Joined /\ Founded /\ RejectedIsPending
    BY DEF IInv, Removals
  (* A step that begins or ends no removal and changes none of the rest.   *)
  <2>1. ASSUME NEW b \in Sessions, \A w \in Sessions \ {b} : request'[w] = request[w],
               RemovesFrom(b)' = RemovesFrom(b),
               UNCHANGED <<team, joined, user, selected, overtaken>>
        PROVE  UNCHANGED Promise!vars
    <3>1. removesFrom' = removesFrom
      BY <2>0, <2>1, RemovesFromChanges
    <3>2. QED
      BY <2>1, <3>1 DEF Promise!vars
  (* The sessions' users.                                                  *)
  <2>2. ASSUME NEW b \in Sessions, NEW u \in Users, LogIn(b, u)
        PROVE  Promise!LogIn(b, u)
    <3>1. RemovesFrom(b) = None /\ \A w \in Sessions : RemovesFrom(w)' = RemovesFrom(w)
      BY <2>2 DEF LogIn, RemovesFrom
    <3>2. removesFrom' = removesFrom /\ removesFrom[b] = None
      BY <3>1
    <3>3. \/ UNCHANGED selected
          \/ \E e \in Employers : <<e, u>> \in joined /\ selected' = [selected EXCEPT ![b] = e]
      BY <2>0, <2>2 DEF LogIn, EmployersOf, Approved, Joined
    <3>4. QED
      BY <2>2, <3>2, <3>3 DEF LogIn, Promise!LogIn
  <2>3. ASSUME NEW b \in Sessions, LogOut(b)
        PROVE  Promise!LogOut(b)
    <3>1. RemovesFrom(b) = None /\ \A w \in Sessions : RemovesFrom(w)' = RemovesFrom(w)
      BY <2>3 DEF LogOut, Idle, RemovesFrom
    <3>2. removesFrom' = removesFrom /\ removesFrom[b] = None
      BY <3>1
    <3>3. QED
      BY <2>3, <3>2 DEF LogOut, Promise!LogOut
  (* The sessions' employers.                                              *)
  <2>4. ASSUME NEW b \in Sessions, Enter(b) \/ FirstEmployer(b) \/ NextEmployer(b)
        PROVE  [Promise!Next]_(Promise!vars)
    <3>1. /\ request'[b] = None /\ \A w \in Sessions \ {b} : request'[w] = request[w]
          /\ UNCHANGED <<team, joined, user, overtaken>>
      BY <2>0, <2>4, OneRequest DEF Enter, FirstEmployer, NextEmployer, logins
    <3>2. RemovesFrom(b)' = RemovesFrom(b)
      BY <2>4, <3>1 DEF RemovesFrom, Enter, FirstEmployer, NextEmployer, At
    <3>3. removesFrom' = removesFrom
      BY <2>0, <3>1, <3>2, RemovesFromChanges
    <3>4. ASSUME NEW e \in Employers \cup {None}, e # None => <<e, user[b]>> \in joined,
                 selected' = [selected EXCEPT ![b] = e]
          PROVE  [Promise!Next]_(Promise!vars)
      <4>1. Promise!ActFor(b, e)
        BY <3>1, <3>3, <3>4 DEF Promise!ActFor
      <4>2. QED
        BY <4>1 DEF Promise!Next
    <3>5. CASE Enter(b)
      <4>1. PICK e \in Employers : e = request[b].employer
        BY <2>0, <3>5 DEF Enter, At, TypeOK, Request
      <4>2. <<e, user[b]>> \in joined /\ selected' = [selected EXCEPT ![b] = e]
        BY <2>0, <3>5, <4>1 DEF Enter, Joined
      <4>3. QED
        BY <3>4, <4>2
    <3>6. CASE ~Enter(b) /\ selected' # selected
      <4>1. PICK e \in Employers \cup {None} :
              (e # None => e \in EmployersOf(user[b])) /\ selected' = [selected EXCEPT ![b] = e]
        BY <2>4, <3>6 DEF FirstEmployer, NextEmployer, EmployersOf
      <4>2. e # None => <<e, user[b]>> \in joined
        BY <2>0, <4>1 DEF EmployersOf, Approved, Joined
      <4>3. QED
        BY <3>4, <4>1, <4>2
    <3>7. CASE selected' = selected
      BY <2>1, <3>1, <3>2, <3>7
    <3>8. QED
      BY <3>5, <3>6, <3>7
  (* Who joins and is invited.                                             *)
  <2>5. ASSUME NEW b \in Sessions, NEW e \in Employers,
               AddEmployer(b, e) \/ AcceptInvitation(b, e) \/ Select(b, e)
        PROVE  [Promise!Next]_(Promise!vars)
    <3>1. /\ \A w \in Sessions \ {b} : request'[w] = request[w]
          /\ request[b] = None /\ user[b] \in Users
          /\ request'[b].step \notin Removal
          /\ UNCHANGED <<selected, user>>
      BY <2>0, <2>5 DEF AddEmployer, AcceptInvitation, Select, Begin, Idle, TypeOK, logins
    <3>2. RemovesFrom(b)' = RemovesFrom(b)
      BY <3>1 DEF RemovesFrom
    <3>3. removesFrom' = removesFrom
      BY <2>0, <3>1, <3>2, RemovesFromChanges
    <3>4. CASE UNCHANGED <<team, joined, overtaken>>
      BY <2>1, <3>1, <3>2, <3>4
    <3>5. CASE AddEmployer(b, e)
      <4>1. Promise!Found(b, e)
        BY <2>0, <3>1, <3>3, <3>5 DEF AddEmployer, Founded, Promise!Found, Promise!Join
      <4>2. QED
        BY <4>1 DEF Promise!Next
    <3>6. CASE AcceptInvitation(b, e) /\ team[e][user[b]] = "pending"
      <4>1. RejectedElsewhere(b, e) \subseteq
              {w \in Sessions \ {b} : removesFrom[w] = e /\ user[w] = user[b]}
        BY DEF RejectedElsewhere, RemovesFrom, At
      <4>2. \E own \in SUBSET {w \in Sessions \ {b} : removesFrom[w] = e /\ user[w] = user[b]} :
              overtaken' = overtaken \cup own
        BY <3>6, <4>1 DEF AcceptInvitation
      <4>3. Promise!Join(e, user[b])
        BY <3>1, <3>3, <3>6 DEF AcceptInvitation, Promise!Join
      <4>4. user[b] # None
        BY <3>1
      <4>5. Promise!Accept(b, e)
        BY <3>6, <4>2, <4>3, <4>4 DEF Promise!Accept
      <4>6. QED
        BY <4>5 DEF Promise!Next
    <3>7. CASE AcceptInvitation(b, e) /\ team[e][user[b]] = "approved"
      <4>1. <<e, user[b]>> \in joined
        BY <2>0, <3>1, <3>7 DEF Joined
      <4>2. /\ team' = [team EXCEPT ![e][user[b]] = "approved"]
            /\ joined' = joined \cup {<<e, user[b]>>}
            /\ overtaken' = overtaken \cup RejectedElsewhere(b, e)
        BY <3>7 DEF AcceptInvitation
      <4>3. team' = team
        BY <2>0, <3>1, <3>7, <4>2 DEF TypeOK
      <4>4. RejectedElsewhere(b, e) \subseteq overtaken
        BY <2>0, <3>7 DEF RejectedElsewhere, RejectedIsPending
      <4>5. QED
        BY <3>4, <4>1, <4>2, <4>3, <4>4
    <3>8. CASE AcceptInvitation(b, e) /\ team[e][user[b]] = "none"
      BY <3>4, <3>8 DEF AcceptInvitation
    <3>9. CASE Select(b, e)
      BY <3>4, <3>9 DEF Select
    <3>10. team[e][user[b]] \in {"none", "pending", "approved"}
      BY <2>0, <3>1 DEF TypeOK
    <3>11. QED
      BY <2>5, <3>5, <3>6, <3>7, <3>8, <3>9, <3>10
  <2>6. ASSUME NEW b \in Sessions, NEW e \in Employers, NEW v \in Users, AddMember(b, e, v)
        PROVE  UNCHANGED Promise!vars
    <3>1. /\ \A w \in Sessions \ {b} : request'[w] = request[w]
          /\ request[b] = None
          /\ request'[b].step \notin Removal
          /\ UNCHANGED <<team, joined, user, selected, overtaken>>
      BY <2>0, <2>6 DEF AddMember, Begin, Idle, TypeOK, logins
    <3>2. QED
      BY <2>1, <3>1 DEF RemovesFrom
  <2>7. ASSUME NEW b \in Sessions, Invite(b)
        PROVE  [Promise!Next]_(Promise!vars)
    <3>1. PICK e \in Employers, v \in Users :
            e = request[b].employer /\ v = request[b].target
      BY <2>0, <2>7 DEF Invite, At, TypeOK, Request
    <3>2. /\ request'[b] = None /\ \A w \in Sessions \ {b} : request'[w] = request[w]
          /\ UNCHANGED <<joined, user, selected, overtaken>>
      BY <2>0, <2>7, OneRequest DEF Invite, logins
    <3>3. RemovesFrom(b)' = RemovesFrom(b)
      BY <2>7, <3>2 DEF RemovesFrom, Invite, At
    <3>4. CASE team[e][v] = "none"
      <4>1. removesFrom' = removesFrom
        BY <2>0, <3>2, <3>3, RemovesFromChanges
      <4>2. team' = [team EXCEPT ![e][v] = "pending"]
        BY <2>0, <2>7, <3>1, <3>4 DEF Invite, TypeOK
      <4>3. <<e, user[b]>> \in joined
        BY <2>0, <2>7, <3>1 DEF Invite, Founded
      <4>4. Promise!Invite(b, e, v)
        BY <3>2, <3>4, <4>1, <4>2, <4>3 DEF Promise!Invite
      <4>5. QED
        BY <4>4 DEF Promise!Next
    <3>5. CASE team[e][v] # "none"
      <4>1. team' = team
        BY <2>0, <2>7, <3>1, <3>5 DEF Invite, TypeOK
      <4>2. QED
        BY <2>1, <3>2, <3>3, <4>1
    <3>6. QED
      BY <3>4, <3>5
  (* Removals begin, are given up, or delete their row.                    *)
  <2>8. ASSUME NEW b \in Sessions, NEW e \in Employers, NEW v \in Users,
               DeleteMember(b, e, v) \/ RejectInvitation(b, e)
        PROVE  [Promise!Next]_(Promise!vars)
    <3>1. /\ \A w \in Sessions \ {b} : request'[w] = request[w]
          /\ request[b] = None /\ user[b] \in Users
          /\ UNCHANGED <<team, joined, user, selected, overtaken>>
      BY <2>0, <2>8 DEF DeleteMember, RejectInvitation, Begin, Idle, TypeOK, logins
    <3>2. RemovesFrom(b) = None /\ RemovesFrom(b)' = e
      <4>1. PICK v1 \in Users, leaving \in BOOLEAN :
              request'[b] = [employer |-> e, target |-> v1, leaving |-> leaving,
                             step |-> "read"]
        BY <2>0, <2>8, <3>1 DEF DeleteMember, RejectInvitation, Begin, TypeOK
      <4>2. request'[b] \in Request
        BY <4>1 DEF Request
      <4>3. request'[b] # None /\ request'[b].step = "read" /\ request'[b].employer = e
        BY <4>1, <4>2
      <4>4. QED
        BY <3>1, <4>3 DEF RemovesFrom
    <3>3. removesFrom' = [removesFrom EXCEPT ![b] = e] /\ removesFrom[b] = None
      BY <2>0, <3>1, <3>2, RemovesFromChanges
    <3>4. user[b] # None
      BY <3>1
    <3>5. Promise!BeginRemoval(b, e)
      BY <3>1, <3>3, <3>4 DEF Promise!BeginRemoval
    <3>6. QED
      BY <3>5 DEF Promise!Next
  <2>9. ASSUME NEW b \in Sessions, \A w \in Sessions \ {b} : request'[w] = request[w],
               UNCHANGED <<team, joined, user, selected>>,
               RemovesFrom(b)' = None, overtaken' = overtaken \ {b}
        PROVE  [Promise!Next]_(Promise!vars)
    <3>1. removesFrom' = [removesFrom EXCEPT ![b] = None]
      BY <2>0, <2>9, RemovesFromChanges
    <3>2. Promise!GiveUp(b)
      BY <2>9, <3>1 DEF Promise!GiveUp
    <3>3. QED
      BY <3>2 DEF Promise!Next
  <2>10. ASSUME NEW b \in Sessions, ReadMembership(b) \/ CountMembers(b) \/ Abandon(b)
         PROVE  [Promise!Next]_(Promise!vars)
    <3>1. /\ request[b] # None
          /\ UNCHANGED <<team, joined, user, selected>>
      BY <2>10 DEF ReadMembership, CountMembers, Abandon, At, logins
    <3>2. CASE Answer(b) /\ EndRemoval(b)
      <4>1. request'[b] = None /\ \A w \in Sessions \ {b} : request'[w] = request[w]
        BY <2>0, <3>2, OneRequest
      <4>2. RemovesFrom(b)' = None
        BY <4>1 DEF RemovesFrom
      <4>3. QED
        BY <2>9, <3>1, <3>2, <4>1, <4>2 DEF EndRemoval
    <3>3. CASE /\ ReadMembership(b) \/ CountMembers(b)
               /\ UNCHANGED overtaken
               /\ GoOn(b, "count") \/ GoOn(b, "delete-pending") \/ GoOn(b, "delete-approved")
      <4>1. /\ \A w \in Sessions \ {b} : request'[w] = request[w]
            /\ request'[b].employer = request[b].employer
            /\ request'[b].step \in Removal
        BY <2>0, <3>1, <3>3, OneRequest
      <4>2. request[b].step \in Removal
        BY <3>3 DEF ReadMembership, CountMembers, At
      <4>3. request[b] \in Request
        BY <2>0, <3>1 DEF TypeOK
      <4>4. request'[b] # None
        <5>1. PICK step \in Removal : request'[b] = [request[b] EXCEPT !.step = step]
          BY <2>0, <3>3 DEF TypeOK, GoOn
        <5>2. request'[b] \in Request
          BY <4>3, <5>1 DEF Request
        <5>3. QED
          BY <5>2
      <4>5. RemovesFrom(b)' = RemovesFrom(b)
        BY <3>1, <4>1, <4>2, <4>4 DEF RemovesFrom
      <4>6. QED
        BY <2>1, <3>1, <3>3, <4>1, <4>5
    <3>4. QED
      BY <2>10, <3>2, <3>3 DEF ReadMembership, CountMembers, Abandon
  <2>11. ASSUME NEW b \in Sessions, At(b, "delete-approved") \/ At(b, "delete-pending"),
                DeleteRow(b)
         PROVE  [Promise!Next]_(Promise!vars)
    <3>1. PICK e \in Employers, v \in Users :
            e = request[b].employer /\ v = request[b].target
      BY <2>11, RemovalKnows
    <3> DEFINE rivals == {w \in Sessions \ {b} : removesFrom[w] = e}
               sameRow == {w \in Sessions \ {b} : /\ At(w, "delete-approved")
                                                  /\ request[w].employer = e
                                                  /\ request[w].target = v}
    <3>2. /\ v = user[b] \/ team[e][user[b]] = "approved" \/ b \in overtaken
          /\ \/ team[e][v] # "approved" \/ b \in overtaken
             \/ \E w \in Users \ {v} : team[e][w] = "approved"
      BY <2>11, <3>1, RemovalKnows
    <3>3. /\ team[e][v] \in {"pending", "approved"}
          /\ team' = [team EXCEPT ![e][v] = "none"]
          /\ UNCHANGED <<joined, user, selected>>
      BY <2>0, <2>11, <3>1 DEF DeleteRow, TypeOK, logins
    <3>4. removesFrom[b] = e
      BY <2>11, <3>1 DEF RemovesFrom, At
    <3>5. rivals = {w \in Sessions \ {b} :
            request[w] # None /\ request[w].employer = e /\ request[w].step \in Removal}
      BY NoneAssumption DEF RemovesFrom
    <3>6. overtaken' = (IF team[e][v] = "approved" THEN overtaken \cup rivals
                        ELSE overtaken) \ (sameRow \cup {b})
      BY <2>11, <3>1, <3>5 DEF DeleteRow
    <3>7. sameRow \subseteq rivals
      BY <3>5 DEF At
    <3>8. \A w \in Sessions : RemovesFrom(w)' = IF w \in sameRow \cup {b} THEN None
                                                ELSE RemovesFrom(w)
      <4>1. RemovesFrom(b)' = None
        BY <2>0, <2>11, RowDeleted DEF RemovesFrom, At
      <4>2. \A w \in Sessions \ {b} : request'[w] = IF w \in sameRow THEN None ELSE request[w]
        BY <2>11, <3>1 DEF DeleteRow
      <4>3. \A w \in Sessions \ {b} : RemovesFrom(w)' = IF w \in sameRow THEN None
                                                        ELSE RemovesFrom(w)
        BY <4>2 DEF RemovesFrom
      <4>4. QED
        BY <4>1, <4>3
    <3>9. removesFrom' = [w \in Sessions |-> IF w \in sameRow \cup {b} THEN None
                                             ELSE removesFrom[w]]
      BY <3>8
    <3>10. \E ended \in SUBSET rivals :
             /\ removesFrom' = [w \in Sessions |-> IF w \in ended \cup {b} THEN None
                                                   ELSE removesFrom[w]]
             /\ overtaken' = (IF team[e][v] = "approved" THEN overtaken \cup rivals
                              ELSE overtaken) \ (ended \cup {b})
      <4> HIDE DEF removesFrom, rivals, sameRow
      <4>1. QED
        BY <3>6, <3>7, <3>9
    <3>11. Promise!Remove(b, e, v)
      BY <3>2, <3>3, <3>4, <3>10 DEF Promise!Remove
    <3>12. QED
      BY <3>11 DEF Promise!Next
  <2>12. ASSUME NEW b \in Sessions, DeleteApproved(b) \/ DeletePending(b)
         PROVE  [Promise!Next]_(Promise!vars)
    <3>1. CASE DeleteRow(b)
      BY <2>11, <2>12, <3>1 DEF DeleteApproved, DeletePending
    <3>2. CASE ~DeleteRow(b)
      <4>1. /\ request[b] # None
            /\ Answer(b) \/ GoOn(b, "next-employer")
            /\ overtaken' = overtaken \ {b}
            /\ UNCHANGED <<team, joined, user, selected>>
        BY <2>12, <3>2 DEF DeleteApproved, DeletePending, At, EndRemoval, logins
      <4>2. /\ \A w \in Sessions \ {b} : request'[w] = request[w]
            /\ request'[b] = None \/ request'[b].step = "next-employer"
        BY <2>0, <4>1, OneRequest
      <4>3. RemovesFrom(b)' = None
        BY <4>2 DEF RemovesFrom
      <4>4. QED
        BY <2>9, <4>1, <4>2, <4>3
    <3>3. QED
      BY <3>1, <3>2
  <2>13. CASE UNCHANGED vars
    <3>1. \A b \in Sessions : RemovesFrom(b)' = RemovesFrom(b)
      BY <2>13 DEF vars, RemovesFrom
    <3>2. removesFrom' = removesFrom
      BY <3>1
    <3>3. QED
      BY <2>13, <3>2 DEF vars, logins, Promise!vars
  <2>14. ASSUME NEW b \in Sessions, (\E u \in Users : LogIn(b, u)) \/ LogOut(b)
         PROVE  [Promise!Next]_(Promise!vars)
    BY <2>2, <2>3, <2>14 DEF Promise!Next
  <2>15. ASSUME NEW b \in Sessions, NEW e \in Employers, RejectInvitation(b, e)
         PROVE  [Promise!Next]_(Promise!vars)
    <3>1. \E v \in Users : TRUE
      BY <2>0, <2>15 DEF RejectInvitation, Idle, TypeOK
    <3>2. QED
      BY <2>8, <2>15, <3>1
  <2>16. QED
    BY <2>4, <2>5, <2>6, <2>7, <2>8, <2>10, <2>12, <2>13, <2>14, <2>15, NextCases
<1>3. QED
  BY <1>1, <1>2, Inductive, PTL DEF Spec, ImplementsRoster, Promise!Spec
=============================================================================
