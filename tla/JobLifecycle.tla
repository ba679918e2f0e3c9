---------------------------- MODULE JobLifecycle ----------------------------
(***************************************************************************)
(* The life of a job posting in GitJobs.                                   *)
(*                                                                         *)
(* Employers' sessions add, edit, publish, archive and delete jobs;        *)
(* moderators approve and reject them from a pending page they loaded      *)
(* earlier; job seekers apply; a background worker archives what expired.  *)
(* All of them are handlers of a multi-threaded server that meet only in   *)
(* the rows of PostgreSQL tables, under READ COMMITTED.  A handler that    *)
(* issues one conditional UPDATE is one action (the guard is evaluated     *)
(* again on the latest row version).  Two handlers take several steps:     *)
(*   - publish reads the salary, awaits the exchange rates, then writes;   *)
(*   - approve takes its statement's snapshot, updates the row (after      *)
(*     waiting for its lock), reads the job back, and posts to Slack.      *)
(* Either may be abandoned between two steps: a database error, or the     *)
(* client closing the connection, which drops the handler.  Nothing makes  *)
(* a session wait for its last answer, so what is in flight is a pool of   *)
(* requests, any number of them about one job and from one session.        *)
(*                                                                         *)
(* A job's text with its salary is one member of Contents; the normalized  *)
(* yearly salaries stored with it are represented by the content they      *)
(* were computed from (usd).  Ownership of a job is module Team's subject. *)
(***************************************************************************)
EXTENDS Integers, FiniteSets

CONSTANTS Jobs,        \* job identifiers
          Contents,    \* what an employer can write in a job
          Publishes,   \* publish requests that may be in flight at once
          Moderators,  \* moderators' sessions
          Approvals,   \* approve requests that may be in flight at once
          Seekers,     \* job seekers that have a profile
          None,        \* SQL null, and no request in flight
          Expiry,      \* days a job stays published (30 in the code)
          MaxTime      \* bound on the clock, in days

ASSUME TimeAssumption == Expiry \in Nat /\ MaxTime \in Nat
ASSUME NoneAssumption == None \notin Nat /\ None \notin Contents

VARIABLES
  status,            \* the job's status; "absent" before the row exists
  content,           \* the text and salary the employer left
  usd,               \* the content its normalized salaries were computed from
  publishedAt,       \* day the last approval to be written started, or None
  firstPublishedAt,  \* day the first one to be written started, or None
  applications,      \* rows <<seeker, job>> of table application
  now,               \* the day
  edit,              \* the publish requests in flight; None where there is none
  page,              \* the jobs on the pending page each moderator loaded
  review,            \* the approve requests in flight; None where there is none
  \* history, read by no action:
  approved,          \* the content of the job at its last approval
  submitted,         \* the jobs that have been pending approval at some time
  posts,             \* number of Slack posts about a job
  raced              \* jobs whose first approval overlapped another one

rows    == <<status, content, usd, publishedAt, firstPublishedAt>>
history == <<approved, submitted, posts, raced>>
vars    == <<rows, applications, now, edit, page, review, history>>

Statuses == {"absent", "draft", "pending-approval", "published", "rejected",
             "archived", "deleted"}

Times == Nat \cup {None}

(* A publish request that has read the job's salary.                       *)
PublishRequest == [job : Jobs, read : Contents \cup {None}]

(* An approve request: its statement started on day at, its snapshot showed*)
(* previous as first_published_at, and step is what it does next.          *)
ApproveRequest ==
  [job : Jobs, at : Nat, previous : Times, step : {"update", "read-back", "post"}]

TypeOK ==
  /\ status \in [Jobs -> Statuses]
  /\ content \in [Jobs -> Contents \cup {None}]
  /\ usd \in [Jobs -> Contents \cup {None}]
  /\ publishedAt \in [Jobs -> Times]
  /\ firstPublishedAt \in [Jobs -> Times]
  /\ applications \subseteq Seekers \X Jobs
  /\ now \in Nat
  /\ edit \in [Publishes -> PublishRequest \cup {None}]
  /\ page \in [Moderators -> SUBSET Jobs]
  /\ review \in [Approvals -> ApproveRequest \cup {None}]
  /\ approved \in [Jobs -> Contents \cup {None}]
  /\ submitted \subseteq Jobs
  /\ posts \in [Jobs -> Nat]
  /\ raced \subseteq Jobs

Init ==
  /\ status = [j \in Jobs |-> "absent"]
  /\ content = [j \in Jobs |-> None]
  /\ usd = [j \in Jobs |-> None]
  /\ publishedAt = [j \in Jobs |-> None]
  /\ firstPublishedAt = [j \in Jobs |-> None]
  /\ applications = {}
  /\ now = 0
  /\ edit = [e \in Publishes |-> None]
  /\ page = [m \in Moderators |-> {}]
  /\ review = [r \in Approvals |-> None]
  /\ approved = [j \in Jobs |-> None]
  /\ submitted = {}
  /\ posts = [j \in Jobs |-> 0]
  /\ raced = {}

-----------------------------------------------------------------------------
(* Employers.                                                              *)

SetStatus(j, s) == status' = [status EXCEPT ![j] = s]

(* History: a job that becomes pending has been submitted.                 *)
NoteSubmitted(j, s) ==
  /\ submitted' = IF s = "pending-approval" THEN submitted \cup {j} ELSE submitted
  /\ UNCHANGED <<approved, posts, raced>>

(* Variant with a bug: the yearly salaries are computed when a job is added*)
(* and kept when it is updated.                                            *)
SaveKeepingSalaries(j, c, s) ==
  /\ SetStatus(j, s)
  /\ content' = [content EXCEPT ![j] = c]
  /\ usd' = [usd EXCEPT ![j] = IF @ = None THEN c ELSE @]
  /\ NoteSubmitted(j, s)
  /\ UNCHANGED <<publishedAt, firstPublishedAt, applications, now, edit, page,
                 review>>

(* The form is normalized (which computes the yearly salaries from its own *)
(* salary fields) and saved with the status it names.                      *)
Save(j, c, s) ==
  /\ SetStatus(j, s)
  /\ content' = [content EXCEPT ![j] = c]
  /\ usd' = [usd EXCEPT ![j] = c]
  /\ NoteSubmitted(j, s)
  /\ UNCHANGED <<publishedAt, firstPublishedAt, applications, now, edit, page,
                 review>>

Add(j, c, s) ==
  /\ status[j] = "absent"
  /\ s \in {"draft", "pending-approval"}
  /\ Save(j, c, s)

(* Variants with a bug: a published job is edited in place; a deleted job  *)
(* can be edited.                                                          *)
UpdateInPlace(j, c, s) ==
  /\ status[j] \notin {"absent", "deleted"}
  /\ s \in {"archived", "draft", "pending-approval"} \cup {status[j]}
  /\ Save(j, c, s)

UpdateDeleted(j, c, s) ==
  /\ status[j] # "absent"
  /\ s \in {"archived", "draft", "pending-approval"}
  /\ Save(j, c, s)

Update(j, c, s) ==
  /\ status[j] \notin {"absent", "deleted"}
  /\ s \in {"archived", "draft", "pending-approval"}
  /\ Save(j, c, s)

Archive(j) ==
  /\ status[j] \in {"pending-approval", "published"}
  /\ SetStatus(j, "archived")
  /\ UNCHANGED <<content, usd, publishedAt, firstPublishedAt, applications, now,
                 edit, page, review, history>>

(* A soft delete: the row and its applications stay.                       *)
Delete(j) ==
  /\ status[j] \notin {"absent", "deleted"}
  /\ SetStatus(j, "deleted")
  /\ UNCHANGED <<content, usd, publishedAt, firstPublishedAt, applications, now,
                 edit, page, review, history>>

(* First statement of publish: the salary fields of the job.               *)
PublishRead(e, j) ==
  /\ edit[e] = None
  /\ status[j] # "absent"
  /\ edit' = [edit EXCEPT ![e] = [job |-> j, read |-> content[j]]]
  /\ UNCHANGED <<rows, applications, now, page, review, history>>

(* Second statement: submit the job for approval, with salaries normalized *)
(* from what the first one read.                                           *)
PublishWrite(e) ==
  /\ edit[e] # None
  /\ LET j == edit[e].job IN
       IF status[j] \in {"archived", "draft", "rejected"}
       THEN /\ SetStatus(j, "pending-approval")
            /\ usd' = [usd EXCEPT ![j] = edit[e].read]
            /\ NoteSubmitted(j, "pending-approval")
       ELSE UNCHANGED <<status, usd, history>>
  /\ edit' = [edit EXCEPT ![e] = None]
  /\ UNCHANGED <<content, publishedAt, firstPublishedAt, applications, now, page,
                 review>>

AbandonPublish(e) ==
  /\ edit[e] # None
  /\ edit' = [edit EXCEPT ![e] = None]
  /\ UNCHANGED <<rows, applications, now, page, review, history>>

-----------------------------------------------------------------------------
(* Moderators.                                                             *)

(* Variant with a bug: the page lists every job.                           *)
LoadEveryJob(m) ==
  /\ page' = [page EXCEPT ![m] = {j \in Jobs : status[j] # "absent"}]
  /\ UNCHANGED <<rows, applications, now, edit, review, history>>

(* The pending page lists the jobs pending approval when it is loaded; its *)
(* rows carry the approve buttons, and it stays open as the jobs change.   *)
LoadPendingPage(m) ==
  /\ page' = [page EXCEPT ![m] = {j \in Jobs : status[j] = "pending-approval"}]
  /\ UNCHANGED <<rows, applications, now, edit, review, history>>

(* Variant with a bug: every approval is taken for a first publication.    *)
ApproveAsFirst(m, r, j) ==
  /\ review[r] = None
  /\ j \in page[m]
  /\ review' = [review EXCEPT ![r] = [job |-> j, at |-> now, previous |-> None,
                                      step |-> "update"]]
  /\ UNCHANGED <<rows, applications, now, edit, page, history>>

(* The approval statement starts: this is the day current_timestamp gives  *)
(* it, and its snapshot fixes what it will return as the previous          *)
(* first_published_at.                                                     *)
ApproveSnapshot(m, r, j) ==
  /\ review[r] = None
  /\ j \in page[m]
  /\ review' = [review EXCEPT ![r] = [job |-> j, at |-> now,
                                      previous |-> firstPublishedAt[j],
                                      step |-> "update"]]
  /\ UNCHANGED <<rows, applications, now, edit, page, history>>

(* Another approval of the same job has started and waits for its lock.    *)
Overlapped(r) ==
  \E o \in Approvals \ {r} :
    review[o] # None /\ review[o].job = review[r].job /\ review[o].step = "update"

(* It gets the row's lock, which others may have held for long, and updates*)
(* the latest version of the row, whatever its status, with the day it     *)
(* started.  The handler goes on only for a first publication.             *)
ApproveUpdate(r) ==
  /\ review[r] # None
  /\ review[r].step = "update"
  /\ LET j == review[r].job IN
       /\ SetStatus(j, "published")
       /\ publishedAt' = [publishedAt EXCEPT ![j] = review[r].at]
       /\ firstPublishedAt' =
            [firstPublishedAt EXCEPT ![j] = IF @ = None THEN review[r].at ELSE @]
       /\ approved' = [approved EXCEPT ![j] = content[j]]
       /\ raced' = IF firstPublishedAt[j] = None /\ Overlapped(r)
                   THEN raced \cup {j} ELSE raced
  /\ review' = [review EXCEPT ![r] =
                  IF @.previous = None THEN [@ EXCEPT !.step = "read-back"] ELSE None]
  /\ UNCHANGED <<content, usd, applications, now, edit, page, submitted, posts>>

(* The job is read back for the Slack message, if it is still published.   *)
ApproveReadBack(r) ==
  /\ review[r] # None
  /\ review[r].step = "read-back"
  /\ review' = [review EXCEPT ![r] =
                  IF status[@.job] = "published" THEN [@ EXCEPT !.step = "post"]
                                                 ELSE None]
  /\ UNCHANGED <<rows, applications, now, edit, page, history>>

ApprovePost(r) ==
  /\ review[r] # None
  /\ review[r].step = "post"
  /\ posts' = [posts EXCEPT ![review[r].job] = @ + 1]
  /\ review' = [review EXCEPT ![r] = None]
  /\ UNCHANGED <<rows, applications, now, edit, page, approved, submitted, raced>>

(* The request is dropped, or Slack cannot be reached (a warning).         *)
AbandonApprove(r) ==
  /\ review[r] # None
  /\ review' = [review EXCEPT ![r] = None]
  /\ UNCHANGED <<rows, applications, now, edit, page, history>>

(* Rejecting is offered on both moderation pages: any job may be named.    *)
Reject(j) ==
  /\ status[j] \in {"pending-approval", "published"}
  /\ SetStatus(j, "rejected")
  /\ UNCHANGED <<content, usd, publishedAt, firstPublishedAt, applications, now,
                 edit, page, review, history>>

-----------------------------------------------------------------------------
(* Job seekers, the archiver and the clock.                                *)

(* Variant with a bug: the status of the job is not looked at.             *)
ApplyToAny(s, j) ==
  /\ applications' = applications \cup {<<s, j>>}
  /\ UNCHANGED <<rows, now, edit, page, review, history>>

Apply(s, j) ==
  /\ status[j] = "published"
  /\ applications' = applications \cup {<<s, j>>}
  /\ UNCHANGED <<rows, now, edit, page, review, history>>

CancelApplication(s, j) ==
  /\ <<s, j>> \in applications
  /\ applications' = applications \ {<<s, j>>}
  /\ UNCHANGED <<rows, now, edit, page, review, history>>

Expired(j) == status[j] = "published" /\ publishedAt[j] + Expiry < now

(* Variant with a bug: only the jobs that reach the limit today.           *)
ArchiveOfToday ==
  LET Due(j) == status[j] = "published" /\ publishedAt[j] + Expiry = now IN
  /\ \E j \in Jobs : Due(j)
  /\ status' = [j \in Jobs |-> IF Due(j) THEN "archived" ELSE status[j]]
  /\ UNCHANGED <<content, usd, publishedAt, firstPublishedAt, applications, now,
                 edit, page, review, history>>

(* One iteration of the archiver: all expired jobs in one statement.  An   *)
(* iteration that fails changes nothing and is logged.                     *)
ArchiveExpired ==
  /\ \E j \in Jobs : Expired(j)
  /\ status' = [j \in Jobs |-> IF Expired(j) THEN "archived" ELSE status[j]]
  /\ UNCHANGED <<content, usd, publishedAt, firstPublishedAt, applications, now,
                 edit, page, review, history>>

Tick ==
  /\ now < MaxTime
  /\ now' = now + 1
  /\ UNCHANGED <<rows, applications, edit, page, review, history>>

-----------------------------------------------------------------------------

EmployerRequest(j) ==
  \/ \E c \in Contents, s \in Statuses : Add(j, c, s) \/ Update(j, c, s)
  \/ Archive(j)
  \/ Delete(j)
  \/ \E e \in Publishes : PublishRead(e, j)

ModeratorRequest(m) ==
  \/ LoadPendingPage(m)
  \/ \E r \in Approvals, j \in Jobs : ApproveSnapshot(m, r, j)

ApproveStep(r) ==
  \/ ApproveUpdate(r)
  \/ ApproveReadBack(r)
  \/ ApprovePost(r)
  \/ AbandonApprove(r)

Next ==
  \/ \E j \in Jobs : EmployerRequest(j)
  \/ \E e \in Publishes : PublishWrite(e) \/ AbandonPublish(e)
  \/ \E m \in Moderators : ModeratorRequest(m)
  \/ \E r \in Approvals : ApproveStep(r)
  \/ \E j \in Jobs : Reject(j)
  \/ \E s \in Seekers, j \in Jobs : Apply(s, j) \/ CancelApplication(s, j)
  \/ ArchiveExpired
  \/ Tick

Spec == Init /\ [][Next]_vars

(* The archiver runs every hour for as long as the server does, and is     *)
(* started again with it: some iteration after a job expired succeeds.     *)
FairSpec == Spec /\ WF_vars(ArchiveExpired)

-----------------------------------------------------------------------------
(* Properties.                                                             *)

(* A published job shows exactly the text a moderator's last approval      *)
(* found, and carries both publication dates, neither in the future: no    *)
(* edit, publish or concurrent review leaves an unapproved text on the     *)
(* public board.                                                           *)
PublishedIsApproved ==
  \A j \in Jobs : status[j] = "published" =>
    /\ approved[j] = content[j]
    /\ content[j] # None
    /\ firstPublishedAt[j] # None /\ publishedAt[j] # None
    /\ firstPublishedAt[j] <= now /\ publishedAt[j] <= now

(* Nothing reaches the public board that its employer did not submit: a    *)
(* moderator's page, however stale, holds only jobs that were pending once.*)
PublishedWasSubmitted ==
  \A j \in Jobs : status[j] = "published" => j \in submitted

(* "Post a Slack notification the first time a job is published": a job is *)
(* posted once at most, through any number of rejections, edits and new    *)
(* approvals, unless its first approval overlapped another one.  (Each of  *)
(* those then sees no earlier publication, and each of them posts.)        *)
OnePostUnlessRaced == \A j \in Jobs \ raced : posts[j] <= 1

(* Seekers have only ever applied to jobs a moderator let through.         *)
AppliedAfterApproval ==
  \A s \in Seekers, j \in Jobs :
    <<s, j>> \in applications => firstPublishedAt[j] # None

(* A deleted job that a step brings back is published by that step, which  *)
(* is the update of an approval of that job.                               *)
UndeletedByApproval ==
  \A j \in Jobs : status[j] = "deleted" /\ status'[j] # "deleted" =>
    /\ status'[j] = "published"
    /\ \E r \in Approvals :
         /\ review[r] # None
         /\ review[r].job = j /\ review[r].step = "update"
         /\ review'[r] # review[r]

(* No employer's request in flight, no rejection and no run of the archiver*)
(* brings a deleted job back: only a moderator's approval does.            *)
OnlyApprovalUndeletes == [][UndeletedByApproval]_vars

(* A job that expired does not stay on the board for ever.                 *)
ExpiredLeavesBoard == \A j \in Jobs : Expired(j) ~> ~Expired(j)

(* The board keeps its promise to the public (module ModeratedBoard), which*)
(* sees the content of the published jobs and nothing of the others.       *)
shown == [j \in Jobs |-> IF status[j] = "published" THEN content[j] ELSE None]

Board == INSTANCE ModeratedBoard WITH written <- content, listing <- shown

ImplementsBoard == Board!Spec

(* "Publishes a job and refreshes normalized salary values": the salaries  *)
(* a published job is filtered by are those of the salary it shows.        *)
SalaryMatches ==
  \A j \in Jobs : status[j] = "published" => usd[j] = content[j]

(* A step that parts a job's salaries from its text is the second one of a *)
(* publish request that an edit of the job has overtaken.                  *)
PartedByOvertakenPublish ==
  \A j \in Jobs : usd[j] = content[j] /\ usd'[j] # content'[j] =>
    \E e \in Publishes :
      /\ edit[e] # None /\ edit[e].job = j /\ edit'[e] = None
      /\ edit[e].read # content[j]

OnlyOvertakenPublishParts == [][PartedByOvertakenPublish]_vars
=============================================================================
