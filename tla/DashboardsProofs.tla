--------------------------- MODULE DashboardsProofs ---------------------------
(***************************************************************************)
(* Proofs about Dashboards, for any users, tabs, employers, jobs, job      *)
(* seekers and photos.                                                     *)
(*                                                                         *)
(* What a handler does rests on what its middlewares saw some steps before.*)
(* The invariant says what of it still holds when the handler acts: what   *)
(* the target of a request can be (Targeted), that everybody who may see a *)
(* job seeker, a photo or a logo now is on record (MetSoFar), and how a    *)
(* page, the session and a form being saved agree (PageFresh, SaveFollows).*)
(***************************************************************************)
EXTENDS Dashboards, TLAPS

USE TabsAssumption, PhotosAssumption, NoneAssumption

(* A request names what its kind is about, and awaits the middlewares of it.*)
Targeted ==
  \A t \in Tabs : request[t] # None =>
    /\ request[t].step = "check" => request[t].kind \in ForSelected
    /\ request[t].step = "check target" =>
         request[t].kind \in {"select", "delete", "profile", "photo"}
    /\ request[t].kind = "select"  => request[t].target \in Employers
    /\ request[t].kind = "delete"  => request[t].target \in Jobs
    /\ request[t].kind = "profile" => request[t].target \in Seekers
    /\ request[t].kind = "photo"   => request[t].target \in Photos

(* The history is up to date.                                              *)
MetSoFar ==
  /\ \A u \in Users, s \in Seekers, j \in Jobs :
       <<s, j>> \in applied /\ <<owner[j], u>> \in team =>
         /\ <<u, s>> \in met
         /\ photo[s] # None => <<u, photo[s]>> \in shown
  /\ \A u \in Users, e \in Employers :
       <<e, u>> \in team /\ logo[e] # None => <<u, logo[e]>> \in shown

(* A page that was not overtaken shows the selected employer.              *)
PageFresh ==
  \A t \in Tabs : page[t] # None /\ ~page[t].moved =>
                    selected[User[t]] = page[t].employer

(* A form on its way is saved to the employer that its page still shows.   *)
SaveFollows ==
  \A t \in Tabs : request[t] # None /\ request[t].kind = "save"
                  /\ request[t].step # "respond" =>
    /\ page[t] # None
    /\ request[t].selected = page[t].employer \/ page[t].moved

-----------------------------------------------------------------------------
(* A request that goes on is a request still.                              *)
LEMMA RequestTypes ==
  ASSUME TypeOK, NEW t \in Tabs, request[t] # None
  PROVE  /\ request[t] \in Request
         /\ User[t] \in Users
         /\ Found(t) \subseteq Employers
         /\ Stop(t) => request' \in [Tabs -> Request \cup {None}]
         /\ GoOn(t, "respond") => request' \in [Tabs -> Request \cup {None}]
<1> USE DEF TypeOK
<1>1. request[t] \in Request
  OBVIOUS
<1>2. [request[t] EXCEPT !.step = "respond"] \in Request
  BY <1>1 DEF Request
<1>3. QED
  BY <1>1, <1>2 DEF Stop, GoOn, Found, EmployersOf

(* A middleware stops a request or moves it on, with what it saw.           *)
Moved(t, step) ==
  [request[t] EXCEPT !.step = step, !.checked = @ \cup Found(t)]

LEMMA Passes ==
  ASSUME NEW t \in Tabs, CheckSelected(t) \/ CheckTarget(t)
  PROVE  \/ request' = [request EXCEPT ![t] = None]
         \/ \E step \in {"check target", "act"} :
              request' = [request EXCEPT ![t] = Moved(t, step)]
<1>1. CASE CheckSelected(t)
  BY <1>1 DEF CheckSelected, Pass, Stop, Moved
<1>2. CASE CheckTarget(t)
  BY <1>2 DEF CheckTarget, Pass, Stop, Moved
<1>3. QED
  BY <1>1, <1>2

(* What a tab shows is a page.                                             *)
LEMMA PageTypes ==
  ASSUME TypeOK, NEW t \in Tabs, NEW e \in Employers \cup {None},
         NEW list \in BOOLEAN, ShowPage(t, e, list)
  PROVE  page' \in [Tabs -> Page \cup {None}]
<1>1. Search(e) \subseteq Row
  BY DEF Search
<1>2. e # None => [kind |-> IF list THEN "applications" ELSE "form", employer |-> e,
                   rows |-> IF list THEN Search(e) ELSE {},
                   moved |-> selected[User[t]] # e] \in Page
  BY <1>1 DEF Page
<1>3. QED
  BY <1>2 DEF ShowPage, TypeOK

(* The history has its type after a step that adds to it.                  *)
LEMMA MeetTypes ==
  ASSUME TypeOK, Meet
  PROVE  met' \subseteq Users \X Seekers /\ shown' \subseteq Users \X Photos
BY DEF TypeOK, Meet

(* Every step keeps the types.                                             *)
LEMMA NextTypeOK == TypeOK /\ Targeted /\ [Next]_vars => TypeOK'
<1> SUFFICES ASSUME TypeOK, Targeted, [Next]_vars
             PROVE  TypeOK'
  OBVIOUS
<1> USE DEF TypeOK, rows, known
<1>1. ASSUME NEW t \in Tabs, NEW kind \in Kinds, NEW x \in Targets, Arrive(t, kind, x)
      PROVE  TypeOK'
  <2> DEFINE r == [kind |-> kind, target |-> x, checked |-> {},
                   selected |-> IF kind \in {"select", "photo"} THEN None
                                ELSE selected[User[t]],
                   step |-> IF kind \in ForSelected THEN "check"
                            ELSE IF kind \in Home THEN "act" ELSE "check target"]
  <2>1. r \in Request
    BY DEF Request
  <2>2. request' = [request EXCEPT ![t] = r]
    BY <1>1 DEF Arrive
  <2> HIDE DEF r
  <2>3. request' \in [Tabs -> Request \cup {None}]
    BY <2>1, <2>2
  <2>4. QED
    BY <1>1, <2>3 DEF Arrive
<1>2. ASSUME NEW t \in Tabs, CheckSelected(t) \/ CheckTarget(t)
      PROVE  TypeOK'
  <2>1. request[t] # None
    BY <1>2 DEF CheckSelected, CheckTarget, At
  <2>2. \A step \in {"check target", "act"} : Moved(t, step) \in Request
    BY <2>1, RequestTypes DEF Moved, Request
  <2>3. request' \in [Tabs -> Request \cup {None}]
    <3>1. CASE request' = [request EXCEPT ![t] = None]
      BY <3>1
    <3>2. ASSUME NEW step \in {"check target", "act"},
                 request' = [request EXCEPT ![t] = Moved(t, step)]
          PROVE  request' \in [Tabs -> Request \cup {None}]
      BY <2>2, <3>2
    <3>3. QED
      BY <1>2, <3>1, <3>2, Passes
  <2>4. QED
    BY <1>2, <2>3 DEF CheckSelected, CheckTarget, Pass
<1>3. ASSUME NEW t \in Tabs, Show(t) \/ ShowHome(t)
      PROVE  TypeOK'
  <2>1. request[t] # None
    BY <1>3 DEF Show, ShowHome, Acts, At
  <2>2. ActedFor(t) \in Employers \cup {None}
    BY <2>1, RequestTypes DEF ActedFor, Request
  <2>3. page' \in [Tabs -> Page \cup {None}]
    BY <1>3, <2>2, PageTypes DEF Show, ShowHome
  <2>4. QED
    BY <1>3, <2>1, <2>3, RequestTypes DEF Show, ShowHome
<1>4. ASSUME NEW t \in Tabs, SaveEmployer(t) \/ Send(t) \/ Drop(t)
      PROVE  TypeOK'
  <2>1. CASE SaveEmployer(t)
    <3>1. logo' \in [Employers -> Photos \cup {None}]
      BY <2>1 DEF SaveEmployer
    <3>2. request[t] # None
      BY <2>1 DEF SaveEmployer, Acts, At
    <3>3. QED
      BY <2>1, <3>1, <3>2, MeetTypes, RequestTypes DEF SaveEmployer
  <2>2. CASE Send(t) \/ Drop(t)
    BY <2>2, RequestTypes DEF Send, Drop, Acts, At
  <2>3. QED
    BY <1>4, <2>1, <2>2
<1>5. ASSUME NEW t \in Tabs, AddJob(t)
      PROVE  TypeOK'
  <2>1. request[t] # None /\ ActedFor(t) \in Employers \cup {None}
    BY <1>5, RequestTypes DEF AddJob, Acts, At, ActedFor, Request
  <2>2. owner' \in [Jobs -> Employers \cup {None}]
    BY <1>5, <2>1 DEF AddJob
  <2>3. QED
    BY <1>5, <2>1, <2>2, MeetTypes, RequestTypes DEF AddJob
<1>6. ASSUME NEW t \in Tabs, DeleteJob(t)
      PROVE  TypeOK'
  BY <1>6, RequestTypes DEF DeleteJob, Acts, At, Targeted
<1>7. ASSUME NEW t \in Tabs, SelectEmployer(t)
      PROVE  TypeOK'
  <2>1. request[t] # None /\ request[t].target \in Employers
    BY <1>7 DEF SelectEmployer, Acts, At, Targeted
  <2>2. [request[t] EXCEPT !.selected = request[t].target, !.step = "respond"] \in Request
    BY <2>1, RequestTypes DEF Request
  <2>3. request' = [request EXCEPT ![t] =
          [request[t] EXCEPT !.selected = request[t].target, !.step = "respond"]]
    BY <1>7 DEF SelectEmployer
  <2>4. QED
    BY <1>7, <2>2, <2>3 DEF SelectEmployer
<1>8. ASSUME NEW t \in Tabs, Respond(t)
      PROVE  TypeOK'
  <2>1. request[t] # None /\ request[t].selected \in Employers \cup {None}
    BY <1>8, RequestTypes DEF Respond, At, Request
  <2>2. selected' \in [Users -> Employers \cup {None}]
    BY <1>8, <2>1 DEF Respond
  <2>3. \A v \in Tabs : page[v] # None => [page[v] EXCEPT !.moved = TRUE] \in Page
    <3>1. \A p \in Page : [p EXCEPT !.moved = TRUE] \in Page
      BY DEF Page
    <3>2. \A v \in Tabs : page[v] # None => page[v] \in Page
      OBVIOUS
    <3>3. QED
      BY <3>1, <3>2
  <2>4. page' \in [Tabs -> Page \cup {None}]
    <3>1. \A v \in Tabs : page[v] = None \/ page[v] \in Page
      OBVIOUS
    <3>2. page' = [v \in Tabs |->
                     IF /\ User[v] = User[t] /\ page[v] # None
                        /\ selected[User[t]] # request[t].selected
                     THEN [page[v] EXCEPT !.moved = TRUE] ELSE page[v]]
      BY <1>8 DEF Respond
    <3>3. QED
      BY <2>3, <3>1, <3>2
  <2>5. QED
    BY <1>8, <2>1, <2>2, <2>4, RequestTypes DEF Respond
<1>9. ASSUME NEW e \in Employers, NEW u \in Users, SetMember(e, u)
      PROVE  TypeOK'
  BY <1>9, MeetTypes DEF SetMember
<1>10. ASSUME NEW s \in Seekers, Seeker(s)
       PROVE  TypeOK'
  <2>1. ASSUME NEW j \in Jobs, Apply(s, j) \/ Cancel(s, j)
        PROVE  TypeOK'
    BY <2>1, MeetTypes DEF Apply, Cancel
  <2>2. ASSUME UpdateProfile(s)
        PROVE  TypeOK'
    BY <2>2, MeetTypes DEF UpdateProfile, Profiles
  <2>3. QED
    BY <1>10, <2>1, <2>2 DEF Seeker
<1>11. CASE UNCHANGED vars
  BY <1>11 DEF vars
<1>12. QED
  BY <1>1, <1>2, <1>3, <1>4, <1>5, <1>6, <1>7, <1>8, <1>9, <1>10, <1>11
     DEF Next, Handle

-----------------------------------------------------------------------------
(* Changing one field of a request changes no other.                       *)
LEMMA Fields ==
  ASSUME NEW r \in Request, NEW step, NEW sees, NEW e
  PROVE  /\ [r EXCEPT !.step = step].kind = r.kind
         /\ [r EXCEPT !.step = step].target = r.target
         /\ [r EXCEPT !.step = step].step = step
         /\ [r EXCEPT !.step = step, !.checked = @ \cup sees].kind = r.kind
         /\ [r EXCEPT !.step = step, !.checked = @ \cup sees].target = r.target
         /\ [r EXCEPT !.step = step, !.checked = @ \cup sees].selected = r.selected
         /\ [r EXCEPT !.step = step, !.checked = @ \cup sees].step = step
         /\ [r EXCEPT !.step = step, !.checked = @ \cup sees].checked = r.checked \cup sees
         /\ [r EXCEPT !.selected = e, !.step = step].kind = r.kind
         /\ [r EXCEPT !.selected = e, !.step = step].target = r.target
         /\ [r EXCEPT !.selected = e, !.step = step].step = step
BY DEF Request

(* The ways a request can go on, none of which changes what it is about.   *)
Passed(t) ==
  /\ request'[t].selected = request[t].selected
  /\ request'[t].checked = request[t].checked \cup Found(t)
  /\ \/ /\ request[t].step = "check"
        /\ request[t].selected \in EmployersOf(User[t])
        /\ request'[t].step = IF request[t].kind \in {"delete", "profile"}
                              THEN "check target" ELSE "act"
     \/ /\ request[t].step = "check target" /\ request'[t].step = "act"
        /\ Allowed(User[t], request[t].kind, request[t].target)

LEMMA HandlerStep ==
  ASSUME TypeOK, NEW t \in Tabs, Handle(t)
  PROVE  /\ request[t] # None
         /\ \A v \in Tabs \ {t} : request'[v] = request[v]
         /\ request'[t] # None =>
              /\ request'[t].kind = request[t].kind
              /\ request'[t].target = request[t].target
              /\ request'[t].step = "respond" \/ Passed(t)
<1>1. request[t] # None
  BY DEF Handle, CheckSelected, CheckTarget, Show, ShowHome, SaveEmployer, AddJob,
     DeleteJob, Send, SelectEmployer, Respond, Drop, Acts, At
<1>2. request[t] \in Request
  BY <1>1, RequestTypes
<1> DEFINE u == User[t]
<1>3. CASE Stop(t)
  BY <1>1, <1>3 DEF Stop, TypeOK
<1>4. CASE GoOn(t, "respond")
  BY <1>1, <1>2, <1>4, Fields DEF GoOn, TypeOK
<1>5. CASE SelectEmployer(t)
  BY <1>1, <1>2, <1>5, Fields DEF SelectEmployer, TypeOK
<1>6. ASSUME NEW step, request' = [request EXCEPT ![t].step = step,
                                                 ![t].checked = @ \cup Found(t)]
      PROVE  /\ \A v \in Tabs \ {t} : request'[v] = request[v]
             /\ request'[t].kind = request[t].kind
             /\ request'[t].target = request[t].target
             /\ request'[t].selected = request[t].selected
             /\ request'[t].checked = request[t].checked \cup Found(t)
             /\ request'[t].step = step
  BY <1>2, <1>6, Fields DEF TypeOK
<1>7. CASE CheckSelected(t) /\ ~Stop(t)
  <2> DEFINE next == IF request[t].kind \in {"delete", "profile"} THEN "check target"
                                                                  ELSE "act"
  <2>1. /\ request[t].step = "check" /\ request[t].selected \in EmployersOf(u)
        /\ request' = [request EXCEPT ![t].step = next, ![t].checked = @ \cup Found(t)]
    BY <1>7 DEF CheckSelected, At, Pass
  <2>2. QED
    BY <1>1, <1>6, <2>1 DEF Passed
<1>8. CASE CheckTarget(t) /\ ~Stop(t)
  <2>1. /\ request[t].step = "check target"
        /\ Allowed(u, request[t].kind, request[t].target)
        /\ request' = [request EXCEPT ![t].step = "act", ![t].checked = @ \cup Found(t)]
    BY <1>8 DEF CheckTarget, At, Pass
  <2>2. QED
    BY <1>1, <1>6, <2>1 DEF Passed
<1>9. QED
  BY <1>3, <1>4, <1>5, <1>7, <1>8 DEF Handle, Show, ShowHome, SaveEmployer, AddJob,
     DeleteJob, Send, Respond, Drop

(* What a tab asks for is on its page, or its kind is about nothing.       *)
LEMMA NextTargeted == TypeOK /\ Targeted /\ [Next]_vars => Targeted'
<1> SUFFICES ASSUME TypeOK, Targeted, [Next]_vars
             PROVE  Targeted'
  OBVIOUS
<1>1. ASSUME NEW t \in Tabs, NEW kind \in Kinds, NEW x \in Targets, Arrive(t, kind, x)
      PROVE  Targeted'
  <2>1. /\ request'[t].kind = kind /\ request'[t].target = x
        /\ request'[t].step = IF kind \in ForSelected THEN "check"
                              ELSE IF kind \in Home THEN "act" ELSE "check target"
        /\ \A v \in Tabs \ {t} : request'[v] = request[v]
    BY <1>1 DEF Arrive, TypeOK
  <2>2. page[t] # None => page[t].rows \subseteq Row
    BY DEF TypeOK, Page
  <2>3. /\ kind = "select"  => x \in Employers
        /\ kind = "delete"  => x \in Jobs
        /\ kind = "profile" => x \in Seekers
        /\ kind = "photo"   => x \in Photos
    BY <1>1, <2>2 DEF Arrive, Offered, Row, Home
  <2>4. kind \notin ForSelected \cup Home => kind \in {"select", "photo"}
    BY DEF Kinds
  <2>5. QED
    BY <2>1, <2>3, <2>4 DEF Targeted
<1>2. ASSUME NEW t \in Tabs, Handle(t)
      PROVE  Targeted'
  <2>1. \A v \in Tabs \ {t} : request'[v] = request[v]
    BY <1>2, HandlerStep
  <2>2. request[t] # None
    BY <1>2, HandlerStep
  <2>3. ASSUME request'[t] # None
        PROVE  /\ request'[t].kind = request[t].kind
               /\ request'[t].target = request[t].target
               /\ request'[t].step = "check target" =>
                    request[t].kind \in {"delete", "profile"}
               /\ request'[t].step # "check"
    BY <1>2, <2>3, HandlerStep DEF Passed
  <2>4. QED
    BY <2>1, <2>2, <2>3 DEF Targeted
<1>3. CASE UNCHANGED request
  BY <1>3 DEF Targeted
<1>4. QED
  <2>1. \/ \E t \in Tabs, kind \in Kinds, x \in Targets : Arrive(t, kind, x)
        \/ \E t \in Tabs : Handle(t)
        \/ UNCHANGED request
    BY DEF Next, vars, SetMember, Seeker, Apply, Cancel, UpdateProfile
  <2>2. QED
    BY <1>1, <1>2, <1>3, <2>1

-----------------------------------------------------------------------------
(* A job stays with the employer it was added for, and what is on record   *)
(* stays on record.                                                        *)
LEMMA OwnersStay ==
  ASSUME TypeOK, [Next]_vars
  PROVE  /\ \A j \in Jobs : owner[j] # None => owner'[j] = owner[j]
         /\ met \subseteq met' /\ shown \subseteq shown'
<1>1. CASE UNCHANGED <<owner, known>>
  BY <1>1 DEF known
<1>2. ASSUME NEW t \in Tabs, AddJob(t)
      PROVE  /\ \A j \in Jobs : owner[j] # None => owner'[j] = owner[j]
             /\ met \subseteq met' /\ shown \subseteq shown'
  BY <1>2 DEF AddJob, Meet, TypeOK
<1>3. ASSUME Meet, UNCHANGED owner
      PROVE  /\ \A j \in Jobs : owner[j] # None => owner'[j] = owner[j]
             /\ met \subseteq met' /\ shown \subseteq shown'
  BY <1>3 DEF Meet
<1>4. QED
  <2>1. \/ UNCHANGED <<owner, known>>
        \/ Meet /\ UNCHANGED owner
        \/ \E t \in Tabs : AddJob(t)
    BY DEF Next, vars, rows, Arrive, Handle, CheckSelected, CheckTarget, Pass, Show,
       ShowHome, SaveEmployer, DeleteJob, Send, SelectEmployer, Respond, Drop, SetMember, Seeker,
       Apply, Cancel, UpdateProfile
  <2>2. QED
    BY <1>1, <1>2, <1>3, <2>1

(* A request gets to its handler only past its middlewares.                *)
LEMMA ReachesHandler ==
  ASSUME TypeOK, Targeted, [Next]_vars, NEW v \in Tabs,
         request'[v] # None, request'[v].step = "act", request'[v].kind \notin Home
  PROVE  \/ /\ request[v] # None /\ request'[v] = request[v]
         \/ /\ request[v] # None
            /\ request'[v].kind = request[v].kind
            /\ request'[v].target = request[v].target
            /\ request[v].kind \in {"save", "add", "delete", "profile", "photo"}
                 => (request[v].kind \in {"save", "add"} <=> request[v].step = "check")
            /\ Passed(v)
<1>1. ASSUME NEW t \in Tabs, NEW kind \in Kinds, NEW x \in Targets, Arrive(t, kind, x)
      PROVE  request[v] # None /\ request'[v] = request[v]
  BY <1>1 DEF Arrive, TypeOK
<1>2. ASSUME NEW t \in Tabs, Handle(t), v # t
      PROVE  request[v] # None /\ request'[v] = request[v]
  BY <1>2, HandlerStep
<1>3. ASSUME Handle(v)
      PROVE  /\ request[v] # None
             /\ request'[v].kind = request[v].kind
             /\ request'[v].target = request[v].target
             /\ request[v].kind \in {"save", "add", "delete", "profile", "photo"}
                  => (request[v].kind \in {"save", "add"} <=> request[v].step = "check")
             /\ Passed(v)
  <2>1. /\ request[v] # None /\ Passed(v)
        /\ request'[v].kind = request[v].kind /\ request'[v].target = request[v].target
    BY <1>3, HandlerStep
  <2>2. CASE request[v].step = "check"
    BY <2>1, <2>2 DEF Passed, Targeted, ForSelected
  <2>3. CASE request[v].step = "check target"
    BY <2>1, <2>3 DEF Targeted
  <2>4. QED
    BY <2>1, <2>2, <2>3 DEF Passed
<1>4. CASE UNCHANGED request
  BY <1>4
<1>5. QED
  <2>1. \/ \E t \in Tabs, kind \in Kinds, x \in Targets : Arrive(t, kind, x)
        \/ \E t \in Tabs : Handle(t)
        \/ UNCHANGED request
    BY DEF Next, vars, SetMember, Seeker, Apply, Cancel, UpdateProfile
  <2>2. QED
    BY <1>1, <1>2, <1>3, <1>4, <2>1

(* What a middleware saw of an employer still names the job's employer.    *)
LEMMA NextActedForOwn ==
  TypeOK /\ Targeted /\ ActedForOwn /\ [Next]_vars => ActedForOwn'
<1> SUFFICES ASSUME TypeOK, Targeted, ActedForOwn, [Next]_vars, NEW v \in Tabs,
                    request'[v] # None, request'[v].step = "act",
                    request'[v].kind \in {"save", "add", "delete"}
             PROVE  /\ request'[v].kind \in {"save", "add"} =>
                         request'[v].selected \in request'[v].checked
                    /\ request'[v].kind = "delete" =>
                         owner'[request'[v].target] \in request'[v].checked
  BY DEF ActedForOwn, Acts, At, ActedFor
<1>1. /\ request[v] # None /\ request[v] \in Request /\ Found(v) \subseteq Employers
      /\ EmployersOf(User[v]) \subseteq Employers
  BY ReachesHandler, RequestTypes DEF Home, EmployersOf
<1>2. request[v].checked \subseteq Employers
  BY <1>1 DEF Request
<1>3. request[v].kind = "delete" => request[v].target \in Jobs
  BY <1>1 DEF Targeted
<1>4. CASE request'[v] = request[v]
  BY <1>1, <1>2, <1>3, <1>4, OwnersStay DEF ActedForOwn, Acts, At, ActedFor
<1>5. CASE Passed(v) /\ request'[v] # request[v]
  <2>1. /\ request'[v].kind = request[v].kind /\ request'[v].target = request[v].target
        /\ (request[v].kind \in {"save", "add"} <=> request[v].step = "check")
        /\ Found(v) = EmployersOf(User[v])
    BY <1>5, ReachesHandler DEF Home, Found
  <2>2. CASE request[v].kind \in {"save", "add"}
    BY <1>5, <2>1, <2>2 DEF Passed
  <2>3. CASE request[v].kind = "delete"
    <3>1. owner[request[v].target] \in EmployersOf(User[v])
      BY <1>5, <2>1, <2>3 DEF Passed, Allowed, OwnsJob
    <3>2. owner'[request[v].target] = owner[request[v].target]
      BY <1>1, <1>3, <2>3, <3>1, OwnersStay
    <3>3. QED
      BY <1>5, <2>1, <2>3, <3>1, <3>2 DEF Passed
  <2>4. QED
    BY <2>1, <2>2, <2>3
<1>6. QED
  BY <1>4, <1>5, ReachesHandler DEF Home

-----------------------------------------------------------------------------
(* Who may see a job seeker is put on record when it comes about.          *)
LEMMA NextMetSoFar == TypeOK /\ Targeted /\ MetSoFar /\ [Next]_vars => MetSoFar'
<1> SUFFICES ASSUME TypeOK, Targeted, MetSoFar, [Next]_vars
             PROVE  MetSoFar'
  OBVIOUS
<1>1. CASE Meet /\ TypeOK'
  <2>1. ASSUME NEW u \in Users, NEW s \in Seekers, NEW j \in Jobs,
               <<s, j>> \in applied', <<owner'[j], u>> \in team'
        PROVE  <<u, s>> \in met' /\ (photo'[s] # None => <<u, photo'[s]>> \in shown')
    <3> DEFINE a == <<u, s>>
               b == <<u, photo'[s]>>
               Applicants(x) == {y \in Seekers :
                 \E i \in Jobs : <<y, i>> \in applied' /\ <<owner'[i], x>> \in team'}
    <3>1. a \in Users \X Seekers /\ a[1] = u /\ a[2] = s /\ b[1] = u /\ b[2] = photo'[s]
      OBVIOUS
    <3>2. s \in Applicants(u)
      BY <2>1
    <3>3. photo'[s] # None => b \in Users \X Photos
      BY <1>1 DEF TypeOK, Profiles
    <3>4. QED
      BY <1>1, <3>1, <3>2, <3>3 DEF Meet
  <2>2. ASSUME NEW u \in Users, NEW e \in Employers,
               <<e, u>> \in team', logo'[e] # None
        PROVE  <<u, logo'[e]>> \in shown'
    <3> DEFINE b == <<u, logo'[e]>>
    <3>1. b \in Users \X Photos /\ b[1] = u /\ b[2] = logo'[e]
      BY <1>1, <2>2 DEF TypeOK
    <3>2. QED
      BY <1>1, <2>2, <3>1 DEF Meet
  <2>3. QED
    BY <2>1, <2>2 DEF MetSoFar
<1>2. CASE applied' \subseteq applied /\ UNCHANGED <<owner, team, photo, logo, known>>
  BY <1>2 DEF MetSoFar, known
<1>3. QED
  <2>1. Meet \/ (applied' \subseteq applied /\ UNCHANGED <<owner, team, photo, logo, known>>)
    BY DEF Next, vars, rows, Arrive, Handle, CheckSelected, CheckTarget, Pass, Show,
       ShowHome, SaveEmployer, AddJob, DeleteJob, Send, SelectEmployer, Respond, Drop,
       SetMember, Seeker, Apply, Cancel, UpdateProfile
  <2>2. TypeOK'
    BY NextTypeOK
  <2>3. QED
    BY <1>1, <1>2, <2>1, <2>2

(* The middleware that lets a profile or an image through saw one of the   *)
(* reasons for it, which is on record.                                     *)
LEMMA NextSentHadMet ==
  TypeOK /\ Targeted /\ MetSoFar /\ SentHadMet /\ [Next]_vars => SentHadMet'
<1> SUFFICES ASSUME TypeOK, Targeted, MetSoFar, SentHadMet, [Next]_vars,
                    NEW v \in Tabs, request'[v] # None, request'[v].step = "act",
                    request'[v].kind \in {"profile", "photo"}
             PROVE  /\ request'[v].kind = "profile" =>
                         <<User[v], request'[v].target>> \in met'
                    /\ request'[v].kind = "photo" =>
                         \/ User[v] \in Moderators \/ By[request'[v].target] = User[v]
                         \/ <<User[v], request'[v].target>> \in shown'
  BY DEF SentHadMet, Acts, At
<1>1. CASE request[v] # None /\ request'[v] = request[v]
  BY <1>1, OwnersStay DEF SentHadMet, Acts, At
<1>2. CASE /\ request[v] # None /\ Passed(v)
           /\ request'[v].kind = request[v].kind
           /\ request'[v].target = request[v].target
           /\ request[v].step # "check"
  <2> DEFINE x == request[v].target
  <2>1. Allowed(User[v], request[v].kind, x)
    BY <1>2 DEF Passed
  <2>2. User[v] \in Users
    OBVIOUS
  <2>3. ASSUME NEW s \in Seekers, ProfileAccess(User[v], s)
        PROVE  /\ <<User[v], s>> \in met'
               /\ photo[s] # None => <<User[v], photo[s]>> \in shown'
    BY <2>2, <2>3, OwnersStay DEF ProfileAccess, OwnsJob, EmployersOf, MetSoFar
  <2>4. CASE request[v].kind = "profile"
    <3>1. x \in Seekers
      BY <1>2, <2>4 DEF Targeted
    <3>2. QED
      BY <1>2, <2>1, <2>3, <2>4, <3>1 DEF Allowed
  <2>5. CASE request[v].kind = "photo"
    <3>1. x \in Photos /\ x # None
      BY <1>2, <2>5 DEF Targeted
    <3>2. ImageAccess(User[v], x)
      BY <2>1, <2>5 DEF Allowed
    <3>3. ASSUME NEW s \in Seekers, photo[s] = x, ProfileAccess(User[v], s)
          PROVE  <<User[v], x>> \in shown'
      BY <2>3, <3>1, <3>3
    <3>4. ASSUME NEW e \in EmployersOf(User[v]), logo[e] = x
          PROVE  <<User[v], x>> \in shown'
      BY <2>2, <3>1, <3>4, OwnersStay DEF EmployersOf, MetSoFar
    <3>5. QED
      BY <1>2, <2>5, <3>2, <3>3, <3>4 DEF ImageAccess
  <2>6. QED
    BY <1>2, <2>4, <2>5
<1>3. QED
  BY <1>1, <1>2, ReachesHandler DEF Home

-----------------------------------------------------------------------------
(* What a tab shows and what its session selects part only with a mark.    *)
LEMMA NextPageFresh == TypeOK /\ PageFresh /\ [Next]_vars => PageFresh'
<1> SUFFICES ASSUME TypeOK, PageFresh, [Next]_vars
             PROVE  PageFresh'
  OBVIOUS
<1>1. ASSUME NEW t \in Tabs, Show(t) \/ ShowHome(t)
      PROVE  PageFresh'
  <2>1. ShowPage(t, ActedFor(t), TRUE) \/ ShowPage(t, ActedFor(t), FALSE)
    BY <1>1 DEF Show, ShowHome, ShowPage
  <2>2. page'[t] # None => page'[t].employer = ActedFor(t)
                           /\ page'[t].moved = (selected[User[t]] # ActedFor(t))
    BY <2>1 DEF ShowPage, TypeOK
  <2>3. UNCHANGED selected /\ \A v \in Tabs \ {t} : page'[v] = page[v]
    BY <1>1, <2>1 DEF Show, ShowHome, ShowPage, TypeOK
  <2>4. QED
    BY <2>2, <2>3 DEF PageFresh
<1>2. ASSUME NEW t \in Tabs, Respond(t)
      PROVE  PageFresh'
  <2> SUFFICES ASSUME NEW v \in Tabs, page'[v] # None, ~page'[v].moved
               PROVE  selected'[User[v]] = page'[v].employer
    BY DEF PageFresh
  <2>1. page[v] \in Page /\ [page[v] EXCEPT !.moved = TRUE].moved = TRUE
    BY <1>2 DEF Respond, TypeOK, Page
  <2>2. page'[v] = page[v] /\ (User[v] = User[t] => selected[User[t]] = request[t].selected)
    BY <1>2, <2>1 DEF Respond
  <2>3. selected' = [selected EXCEPT ![User[t]] = request[t].selected]
    BY <1>2 DEF Respond
  <2>4. QED
    BY <2>2, <2>3 DEF PageFresh, TypeOK
<1>3. CASE UNCHANGED <<page, selected>>
  BY <1>3 DEF PageFresh
<1>4. QED
  <2>1. \/ UNCHANGED <<page, selected>>
        \/ \E t \in Tabs : Show(t) \/ ShowHome(t) \/ Respond(t)
    BY DEF Next, vars, Arrive, Handle, CheckSelected, CheckTarget, Pass,
       SaveEmployer, AddJob, DeleteJob, Send, SelectEmployer, Drop, SetMember,
       Seeker, Apply, Cancel, UpdateProfile
  <2>2. QED
    BY <1>1, <1>2, <1>3, <2>1

(* A page keeps its employer, and its mark, while a form from it is saved. *)
LEMMA NextSaveFollows ==
  TypeOK /\ PageFresh /\ SaveFollows /\ [Next]_vars => SaveFollows'
<1> SUFFICES ASSUME TypeOK, PageFresh, SaveFollows, [Next]_vars, NEW v \in Tabs,
                    request'[v] # None, request'[v].kind = "save",
                    request'[v].step # "respond"
             PROVE  /\ page'[v] # None
                    /\ request'[v].selected = page'[v].employer \/ page'[v].moved
  BY DEF SaveFollows
<1> DEFINE Goes == /\ request[v] # None /\ request[v].kind = "save"
                   /\ request[v].step # "respond"
                   /\ request'[v].selected = request[v].selected
<1>1. ASSUME NEW t \in Tabs, NEW kind \in Kinds, NEW x \in Targets, Arrive(t, kind, x)
      PROVE  /\ page'[v] # None
             /\ request'[v].selected = page'[v].employer \/ page'[v].moved
  <2>1. CASE v = t
    <3>1. kind = "save" /\ request'[v].selected = selected[User[v]] /\ UNCHANGED page
      BY <1>1, <2>1 DEF Arrive, TypeOK
    <3>2. page[v] # None
      BY <1>1, <2>1, <3>1 DEF Arrive, Offered, Home
    <3>3. QED
      BY <3>1, <3>2 DEF PageFresh
  <2>2. CASE v # t
    BY <1>1, <2>2 DEF Arrive, SaveFollows, TypeOK
  <2>3. QED
    BY <2>1, <2>2
<1>2. ASSUME NEW t \in Tabs, Handle(t)
      PROVE  Goes
  <2>1. CASE v = t
    BY <1>2, <2>1, HandlerStep DEF Passed
  <2>2. CASE v # t
    BY <1>2, <2>2, HandlerStep
  <2>3. QED
    BY <2>1, <2>2
<1>3. ASSUME NEW t \in Tabs, Handle(t)
      PROVE  \/ page'[v] = page[v]
             \/ page[v] # None /\ page'[v] = [page[v] EXCEPT !.moved = TRUE]
  <2>1. CASE Show(t) \/ ShowHome(t)
    <3>1. v # t
      <4>1. request[t].kind # "save"
        BY <2>1 DEF Show, ShowHome, Acts, Home
      <4>2. QED
        BY <1>2, <1>3, <4>1
    <3>2. QED
      BY <2>1, <3>1 DEF Show, ShowHome, ShowPage, TypeOK
  <2>2. CASE Respond(t)
    BY <2>2 DEF Respond
  <2>3. CASE UNCHANGED page
    BY <2>3
  <2>4. QED
    BY <1>3, <2>1, <2>2, <2>3 DEF Handle, CheckSelected, CheckTarget, Pass, SaveEmployer,
       AddJob, DeleteJob, Send, SelectEmployer, Drop
<1>4. ASSUME NEW t \in Tabs, Handle(t)
      PROVE  /\ page'[v] # None
             /\ request'[v].selected = page'[v].employer \/ page'[v].moved
  <2>1. page[v] # None /\ (request'[v].selected = page[v].employer \/ page[v].moved)
    BY <1>2, <1>4 DEF SaveFollows
  <2>2. page[v] \in Page
    BY <2>1 DEF TypeOK
  <2>3. [page[v] EXCEPT !.moved = TRUE] \in Page /\ [page[v] EXCEPT !.moved = TRUE].moved
    BY <2>2 DEF Page
  <2>4. QED
    BY <1>3, <1>4, <2>1, <2>3
<1>5. CASE UNCHANGED <<request, page>>
  BY <1>5 DEF SaveFollows
<1>6. QED
  <2>1. \/ \E t \in Tabs, kind \in Kinds, x \in Targets : Arrive(t, kind, x)
        \/ \E t \in Tabs : Handle(t)
        \/ UNCHANGED <<request, page>>
    BY DEF Next, vars, SetMember, Seeker, Apply, Cancel, UpdateProfile
  <2>2. QED
    BY <1>1, <1>4, <1>5, <2>1

-----------------------------------------------------------------------------
(* The inductive invariant.                                                *)
IInv ==
  /\ TypeOK
  /\ Targeted
  /\ ActedForOwn
  /\ MetSoFar
  /\ SentHadMet
  /\ PageFresh
  /\ SaveFollows

LEMMA InitIInv == Init => IInv
BY DEF Init, IInv, TypeOK, Profiles, Targeted, ActedForOwn, MetSoFar, SentHadMet, PageFresh, SaveFollows, Acts, At

LEMMA Inductive == Spec => []IInv
<1>1. IInv /\ [Next]_vars => IInv'
  BY NextTypeOK, NextTargeted, NextActedForOwn, NextMetSoFar,
     NextSentHadMet, NextPageFresh, NextSaveFollows DEF IInv
<1>2. QED
  BY InitIInv, <1>1, PTL DEF Spec

(* Every variable has its type in every reachable state.                   *)
THEOREM TypeCorrect == Spec => []TypeOK
<1>1. IInv => TypeOK
  BY DEF IInv
<1>2. QED
  BY <1>1, Inductive, PTL

(* An employer's jobs and fields are written only by requests that ran     *)
(* while their user was in its team.                                       *)
THEOREM ActedForOwnAlways == Spec => []ActedForOwn
<1>1. IInv => ActedForOwn
  BY DEF IInv
<1>2. QED
  BY <1>1, Inductive, PTL

(* A job seeker's profile is sent only to users who were in the team of an *)
(* employer the job seeker applied to, at one time; an image to those who  *)
(* uploaded it, moderate, or were then to see it on a profile or as a logo.*)
THEOREM SentHadMetAlways == Spec => []SentHadMet
<1>1. IInv => SentHadMet
  BY DEF IInv
<1>2. QED
  BY <1>1, Inductive, PTL

(* A form is saved to another employer than the one it shows only after the*)
(* selection changed.                                                      *)
THEOREM SavesWhereLoaded == Spec => []OnlyReselectionMisdirects
<1>1. IInv => OnlyReselectionMisdirects
  BY DEF IInv, SaveFollows, OnlyReselectionMisdirects, Acts, At, ActedFor
<1>2. QED
  BY <1>1, Inductive, PTL

(* What a list of applications shows opens as long as the application is   *)
(* there: the middlewares' queries miss nothing that the list has found.   *)
THEOREM ListedOpensAlways == Spec => []ListedOpens
<1>1. TypeOK => ListedOpens
  <2> SUFFICES ASSUME TypeOK, NEW t \in Tabs, page[t] # None, NEW r \in page[t].rows,
                      <<r.seeker, r.job>> \in applied, OwnsJob(User[t], r.job)
               PROVE  /\ ProfileAccess(User[t], r.seeker)
                      /\ photo[r.seeker] # None => ImageAccess(User[t], photo[r.seeker])
    BY DEF ListedOpens
  <2>1. r \in Row
    BY DEF TypeOK, Page
  <2>2. r.seeker \in Seekers /\ r.job \in Jobs
    BY <2>1 DEF Row
  <2>3. ProfileAccess(User[t], r.seeker)
    BY <2>2 DEF ProfileAccess
  <2>4. QED
    BY <2>2, <2>3 DEF ImageAccess
<1>2. QED
  BY <1>1, TypeCorrect, PTL
=============================================================================
