------------------------------ MODULE Dashboards ------------------------------
(***************************************************************************)
(* Acting for an employer, and looking at those who applied to its jobs.   *)
(*                                                                         *)
(* A request of the employer dashboard loads its session, passes one or    *)
(* two middlewares that ask the database (is the user in the team of the   *)
(* employer selected in the session? of the employer of the job, or of one *)
(* the job seeker applied to?), and then acts, for the employer that its   *)
(* session held when it arrived.  Memberships, selections, applications,   *)
(* photos and logos change between these steps, and between a page and the *)
(* request a user makes from it.  A user's tabs share one session, which a *)
(* response that changed it saves as a whole.                              *)
(*                                                                         *)
(* Of an employer's fields only the logo is kept here, of a job's none.  How*)
(* teams come about is module Team's subject, what a job goes through is   *)
(* module JobLifecycle's.                                                  *)
(***************************************************************************)
EXTENDS Integers, FiniteSets

CONSTANTS
  Users, Tabs,
  User,       \* User[t]: whose tab it is
  KindsOf,    \* KindsOf[t]: the kinds of requests made in it
  Employers, Jobs,
  Seekers,    \* job seekers with a profile
  Photos,     \* images: profile photos and logos
  By,         \* By[p]: who uploaded p, None if somebody not among the Users
  Moderators, \* the users who are moderators
  None

VARIABLES
  team,       \* <<e, u>>: u is an approved member of e's team
  selected,   \* the employer in the row of each user's session, or None
  owner,      \* the employer of each job, None before it is added
  deleted,    \* the jobs deleted
  applied,    \* <<s, j>>: rows of table application
  photo,      \* the photo of each job seeker's profile, or None
  logo,       \* the logo of each employer, or None
  page,       \* what each tab shows
  request,    \* the request of each tab
  \* history, read by no action:
  met,        \* <<u, s>>: s has had an application in a team of u's
  shown       \* <<u, p>>: p has been the photo of such an s, or the logo of a
              \* team of u's

rows  == <<team, owner, deleted, applied, photo, logo>>
known == <<met, shown>>
vars  == <<rows, selected, page, request, known>>

(* Pages and actions for the selected employer, the rest of the dashboard, *)
(* and the photos, which have a route of their own.                        *)
ForSelected == {"form", "applications", "save", "add", "delete", "profile"}
Home        == {"home form", "home applications"}
Kinds       == ForSelected \cup Home \cup {"select", "photo"}

(* Of a job seeker's profile, only its photo is kept.                      *)
Profiles == [Seekers -> Photos \cup {None}]

Targets == Employers \cup Jobs \cup Seekers \cup Photos \cup {None}

(* The employer's form, or the list of its applications; moved: has the    *)
(* selection changed since the page was asked for? (history)               *)
Row  == [seeker : Seekers, job : Jobs]
Page == [kind : {"form", "applications"}, employer : Employers,
         rows : SUBSET Row, moved : BOOLEAN]

(* checked: of a request that writes, the employers whose team the user was*)
(* in when a middleware looked (history).                                  *)
Request == [kind : Kinds, step : {"check", "check target", "act", "respond"},
            selected : Employers \cup {None}, target : Targets,
            checked : SUBSET Employers]

ASSUME TabsAssumption == User \in [Tabs -> Users] /\ KindsOf \in [Tabs -> SUBSET Kinds]
ASSUME PhotosAssumption == By \in [Photos -> Users \cup {None}] /\ Moderators \subseteq Users
ASSUME NoneAssumption ==
  None \notin Users \cup Employers \cup Jobs \cup Seekers \cup Photos \cup Page

TypeOK ==
  /\ team \subseteq Employers \X Users
  /\ selected \in [Users -> Employers \cup {None}]
  /\ owner \in [Jobs -> Employers \cup {None}]
  /\ deleted \subseteq Jobs
  /\ applied \subseteq Seekers \X Jobs
  /\ photo \in Profiles
  /\ logo \in [Employers -> Photos \cup {None}]
  /\ page \in [Tabs -> Page \cup {None}]
  /\ request \in [Tabs -> Request \cup {None}]
  /\ met \subseteq Users \X Seekers
  /\ shown \subseteq Users \X Photos

Init ==
  /\ team = {}
  /\ selected = [u \in Users |-> None]
  /\ owner = [j \in Jobs |-> None]
  /\ deleted = {} /\ applied = {}
  /\ photo = [s \in Seekers |-> None]
  /\ logo \in [Employers -> Photos \cup {None}]
  /\ page = [t \in Tabs |-> None]
  /\ request = [t \in Tabs |-> None]
  /\ met = {} /\ shown = {}
-----------------------------------------------------------------------------
(* What the database is asked.                                             *)

EmployersOf(u) == {e \in Employers : <<e, u>> \in team}

OwnsJob(u, j) == owner[j] \in EmployersOf(u)

(* Variant with a bug: deleted jobs are left out, as they are of the list. *)
ProfileAccessByListed(u, s) ==
  \E j \in Jobs \ deleted : <<s, j>> \in applied /\ OwnsJob(u, j)

(* Variant with a bug: a team of the user's and a job applied to, but the  *)
(* two are not joined.                                                     *)
ProfileAccessUnjoined(u, s) ==
  EmployersOf(u) # {} /\ \E j \in Jobs : <<s, j>> \in applied

(* Whatever the status of the job is.                                      *)
ProfileAccess(u, s) == \E j \in Jobs : <<s, j>> \in applied /\ OwnsJob(u, j)

(* A moderator; who uploaded it; the photo a profile has now; a logo now.  *)
ImageAccess(u, p) ==
  \/ u \in Moderators
  \/ By[p] = u
  \/ \E s \in Seekers : photo[s] = p /\ ProfileAccess(u, s)
  \/ \E e \in EmployersOf(u) : logo[e] = p

(* The applications an employer is shown.                                  *)
Search(e) ==
  {r \in Row : /\ <<r.seeker, r.job>> \in applied
               /\ owner[r.job] = e /\ r.job \notin deleted}

(* History: who is in the team of an employer that somebody applied to, and*)
(* the photos and logos this gives them.                                   *)
Meet ==
  LET Applicants(u) == {s \in Seekers :
        \E j \in Jobs : <<s, j>> \in applied' /\ <<owner'[j], u>> \in team'}
  IN /\ met' = met \cup {x \in Users \X Seekers : x[2] \in Applicants(x[1])}
     /\ shown' = shown \cup {x \in Users \X Photos :
          \/ \E s \in Applicants(x[1]) : photo'[s] = x[2]
          \/ \E e \in Employers : <<e, x[1]>> \in team' /\ logo'[e] = x[2]}
-----------------------------------------------------------------------------
(* Requests.                                                               *)

Stop(t) == request' = [request EXCEPT ![t] = None]

GoOn(t, step) == request' = [request EXCEPT ![t].step = step]

(* What a tab can ask for: a form is saved from its page, profiles are     *)
(* opened from a list, and any photo by its identifier.                    *)
Offered(t, kind, target) ==
  \/ /\ kind = "save" /\ target = None
     /\ page[t] # None /\ page[t].kind = "form"
  \/ /\ kind = "profile" /\ page[t] # None
     /\ \E r \in page[t].rows : target = r.seeker
  \/ kind = "photo" /\ target \in Photos
  \/ kind = "delete" /\ target \in Jobs /\ owner[target] # None
  \/ kind = "select" /\ target \in Employers
  \/ kind \in {"form", "applications", "add"} \cup Home /\ target = None

(* The request arrives and its session is loaded, for requests that use the*)
(* selection it has now.                                                   *)
Arrive(t, kind, target) ==
  /\ Offered(t, kind, target)
  /\ request' = [request EXCEPT ![t] =
       [kind |-> kind, target |-> target, checked |-> {},
        selected |-> IF kind \in {"select", "photo"} THEN None ELSE selected[User[t]],
        step |-> IF kind \in ForSelected THEN "check"
                 ELSE IF kind \in Home THEN "act" ELSE "check target"]]
  /\ UNCHANGED <<rows, selected, page, known>>

(* The teams a middleware finds the user of a request that writes in.      *)
Found(t) ==
  IF request[t].kind \in {"save", "add", "delete"} THEN EmployersOf(User[t]) ELSE {}

(* A middleware lets the request pass, or answers it.                      *)
Pass(t, allowed, step) ==
  /\ IF allowed
     THEN request' = [request EXCEPT ![t].step = step, ![t].checked = @ \cup Found(t)]
     ELSE Stop(t)
  /\ UNCHANGED <<rows, selected, page, known>>

At(t, step) == request[t] # None /\ request[t].step = step

(* user_owns_selected_employer                                             *)
CheckSelected(t) ==
  /\ At(t, "check")
  /\ Pass(t, request[t].selected \in EmployersOf(User[t]),
          IF request[t].kind \in {"delete", "profile"} THEN "check target" ELSE "act")

(* What the second middleware of a request asks the database:              *)
(* user_owns_path_employer, user_owns_job, user_has_profile_access,        *)
(* user_has_image_access                                                   *)
Allowed(u, kind, target) ==
  /\ kind = "select"  => target \in EmployersOf(u)
  /\ kind = "delete"  => OwnsJob(u, target)
  /\ kind = "profile" => ProfileAccess(u, target)
  /\ kind = "photo"   => ImageAccess(u, target)

CheckTarget(t) ==
  /\ At(t, "check target")
  /\ Pass(t, Allowed(User[t], request[t].kind, request[t].target), "act")
-----------------------------------------------------------------------------
(* Handlers.                                                               *)

Acts(t, kinds) == At(t, "act") /\ request[t].kind \in kinds

(* Variant with a bug: the handler reads the selection again.              *)
ActedForLatest(t) == selected[User[t]]

(* Variant with a bug: the first of the user's employers is taken.         *)
ActedForFirst(t) ==
  LET own == EmployersOf(User[t])
  IN IF own = {} THEN None ELSE CHOOSE e \in own : TRUE

(* The employer that a request acts for, read from its own session record. *)
ActedFor(t) == request[t].selected

(* What tab t then shows: the form of an employer, or the list of its      *)
(* applications; something else if no employer is selected.                *)
ShowPage(t, e, list) ==
  page' = [page EXCEPT ![t] =
    IF e = None THEN None
    ELSE [kind |-> IF list THEN "applications" ELSE "form", employer |-> e,
          rows |-> IF list THEN Search(e) ELSE {},
          moved |-> selected[User[t]] # e]]

(* The form or the list on its own, behind the middleware.                 *)
Show(t) ==
  /\ Acts(t, {"form", "applications"})
  /\ ShowPage(t, ActedFor(t), request[t].kind = "applications")
  /\ Stop(t)
  /\ UNCHANGED <<rows, selected, known>>

(* The same on the home page, which no middleware checks, and which changes*)
(* the session if it has messages to show.                                 *)
ShowHome(t) ==
  /\ Acts(t, Home)
  /\ ShowPage(t, ActedFor(t), request[t].kind = "home applications")
  /\ Stop(t) \/ GoOn(t, "respond")
  /\ UNCHANGED <<rows, selected, known>>

(* The fields of the form, with any image for a logo, are written to the   *)
(* selected employer; a message is left in the session.                    *)
SaveEmployer(t) ==
  /\ Acts(t, {"save"})
  /\ \E p \in Photos \cup {None} : logo' = [logo EXCEPT ![ActedFor(t)] = p]
  /\ GoOn(t, "respond")
  /\ UNCHANGED <<team, selected, owner, deleted, applied, photo, page>>
  /\ Meet

AddJob(t) ==
  /\ Acts(t, {"add"})
  /\ \E j \in Jobs : owner[j] = None /\ owner' = [owner EXCEPT ![j] = ActedFor(t)]
  /\ Stop(t)
  /\ UNCHANGED <<team, selected, deleted, applied, photo, logo, page>>
  /\ Meet

(* Of the actions on a job, archiving, publishing and updating pass the    *)
(* same checks.                                                            *)
DeleteJob(t) ==
  /\ Acts(t, {"delete"})
  /\ deleted' = deleted \cup {request[t].target}
  /\ Stop(t)
  /\ UNCHANGED <<team, selected, owner, applied, photo, logo, page, known>>

(* A job seeker's profile or photo is sent.                                *)
Send(t) ==
  /\ Acts(t, {"profile", "photo"})
  /\ Stop(t)
  /\ UNCHANGED <<rows, selected, page, known>>

SelectEmployer(t) ==
  /\ Acts(t, {"select"})
  /\ request' = [request EXCEPT ![t].selected = request[t].target, ![t].step = "respond"]
  /\ UNCHANGED <<rows, selected, page, known>>

(* The session is saved as the request has it, with the selection of when  *)
(* it arrived unless it made one.                                          *)
Respond(t) ==
  /\ At(t, "respond")
  /\ LET u == User[t]
         e == request[t].selected
     IN /\ selected' = [selected EXCEPT ![u] = e]
        /\ page' = [v \in Tabs |->
                      IF User[v] = u /\ page[v] # None /\ selected[u] # e
                      THEN [page[v] EXCEPT !.moved = TRUE] ELSE page[v]]
  /\ Stop(t)
  /\ UNCHANGED <<rows, known>>

(* An error, or the browser goes away.                                     *)
Drop(t) ==
  /\ request[t] # None
  /\ Stop(t)
  /\ UNCHANGED <<rows, selected, page, known>>
-----------------------------------------------------------------------------
(* Teams, and job seekers, each of whose requests is one statement.        *)

SetMember(e, u) ==
  /\ team' = IF <<e, u>> \in team THEN team \ {<<e, u>>} ELSE team \cup {<<e, u>>}
  /\ UNCHANGED <<selected, owner, deleted, applied, photo, logo, page, request>>
  /\ Meet

(* The job is on the board.                                                *)
Apply(s, j) ==
  /\ owner[j] # None /\ j \notin deleted /\ <<s, j>> \notin applied
  /\ applied' = applied \cup {<<s, j>>}
  /\ UNCHANGED <<team, selected, owner, deleted, photo, logo, page, request>>
  /\ Meet

Cancel(s, j) ==
  /\ <<s, j>> \in applied
  /\ applied' = applied \ {<<s, j>>}
  /\ UNCHANGED <<team, selected, owner, deleted, photo, logo, page, request, known>>

(* The profile is saved with any image for a photo, or none.               *)
UpdateProfile(s) ==
  /\ \E p \in Photos \cup {None} : photo' = [photo EXCEPT ![s] = p]
  /\ UNCHANGED <<team, selected, owner, deleted, applied, logo, page, request>>
  /\ Meet

Seeker(s) == UpdateProfile(s) \/ \E j \in Jobs : Apply(s, j) \/ Cancel(s, j)
-----------------------------------------------------------------------------
Handle(t) ==
  \/ CheckSelected(t) \/ CheckTarget(t)
  \/ Show(t) \/ ShowHome(t) \/ SaveEmployer(t) \/ AddJob(t) \/ DeleteJob(t) \/ Send(t)
  \/ SelectEmployer(t) \/ Respond(t) \/ Drop(t)

Next ==
  \/ \E t \in Tabs : IF request[t] = None
                     THEN \E kind \in KindsOf[t], x \in Targets : Arrive(t, kind, x)
                     ELSE Handle(t)
  \/ \E e \in Employers, u \in Users : SetMember(e, u)
  \/ \E s \in Seekers : Seeker(s)

Spec == Init /\ [][Next]_vars
-----------------------------------------------------------------------------
(* A job is added, and an employer's form saved, only for an employer whose*)
(* team the user was in while the request ran, though the selection may    *)
(* change and the membership end at any time; and so is a job deleted.     *)
ActedForOwn ==
  \A t \in Tabs :
    /\ Acts(t, {"save", "add"}) => ActedFor(t) \in request[t].checked
    /\ Acts(t, {"delete"}) => owner[request[t].target] \in request[t].checked

(* A form is saved to the employer it was loaded from, unless the selection*)
(* has changed since: in another tab, or by a response that saved an older *)
(* session over it.                                                        *)
OnlyReselectionMisdirects ==
  \A t \in Tabs :
    Acts(t, {"save"}) => ActedFor(t) = page[t].employer \/ page[t].moved

(* The profiles on a list of applications, however old the page, open for a*)
(* user who is still in the team, as long as the application is there, also*)
(* when its job has been deleted; and so do the photos they then have.     *)
ListedOpens ==
  \A t \in Tabs : page[t] # None =>
    \A r \in page[t].rows :
      <<r.seeker, r.job>> \in applied /\ OwnsJob(User[t], r.job) =>
        /\ ProfileAccess(User[t], r.seeker)
        /\ photo[r.seeker] # None => ImageAccess(User[t], photo[r.seeker])

(* Nobody is sent the profile of a job seeker who never applied to an      *)
(* employer while the user was in its team; nor, moderators apart, an image*)
(* of somebody else's that never was on such a profile while the user was  *)
(* to see it, nor the logo of an employer while the user was in its team.  *)
SentHadMet ==
  \A t \in Tabs :
    /\ Acts(t, {"profile"}) => <<User[t], request[t].target>> \in met
    /\ Acts(t, {"photo"}) => \/ User[t] \in Moderators \/ By[request[t].target] = User[t]
                              \/ <<User[t], request[t].target>> \in shown
=============================================================================
