------------------------- MODULE JobLifecycleProofs -------------------------
(***************************************************************************)
(* Proofs about JobLifecycle, for any jobs, contents, sessions, expiry and *)
(* bound on the clock.                                                     *)
(*                                                                         *)
(* The invariants are not inductive by themselves.  What makes them so:    *)
(* where the job of a page or of a review comes from (Provenance), that a  *)
(* row has a text (RowsWritten), that no date is in the future             *)
(* (DatesPast), and what each step of an approval knows about the first *)
(* publication and about the posts (ReviewSteps).                *)
(***************************************************************************)
EXTENDS JobLifecycle, TLAPS

USE NoneAssumption, TimeAssumption

(* A job that is pending, or on a moderator's page, or under review was    *)
(* submitted by its employer.                                              *)
Provenance ==
  /\ \A j \in Jobs : status[j] \in {"pending-approval", "published"} => j \in submitted
  /\ \A m \in Moderators : page[m] \subseteq submitted
  /\ \A r \in Approvals : review[r] # None => review[r].job \in submitted

(* A row has a text, and only rows are submitted.                          *)
RowsWritten ==
  /\ \A j \in Jobs : status[j] # "absent" => content[j] # None
  /\ \A j \in submitted : status[j] # "absent"

(* Dates are set together, and neither they nor the day an approval started*)
(* are in the future.                                                      *)
DatesPast ==
  /\ \A j \in Jobs :
       /\ (firstPublishedAt[j] = None) = (publishedAt[j] = None)
       /\ firstPublishedAt[j] # None =>
            firstPublishedAt[j] <= now /\ publishedAt[j] <= now
  /\ \A r \in Approvals : review[r] # None => review[r].at <= now

(* The published text is the one last approved.                            *)
ApprovedShown ==
  \A j \in Jobs : status[j] = "published" =>
    approved[j] = content[j] /\ firstPublishedAt[j] # None

(* Unless its first approval was raced, a job without a publication has    *)
(* not been posted about and nobody is about to; with one, no approval     *)
(* takes itself for the first, and either the job was posted about or one  *)
(* request at most is about to.                                            *)
Posting(r, j) == review[r] # None /\ review[r].job = j /\ review[r].step # "update"

TakenForFirst(r, j) ==
  /\ review[r] # None /\ review[r].job = j
  /\ review[r].step = "update" /\ review[r].previous = None

ReviewSteps ==
  \A j \in Jobs \ raced :
    /\ firstPublishedAt[j] = None =>
         posts[j] = 0 /\ \A r \in Approvals : ~Posting(r, j)
    /\ firstPublishedAt[j] # None => \A r \in Approvals : ~TakenForFirst(r, j)
    /\ posts[j] <= 1
    /\ posts[j] = 1 => \A r \in Approvals : ~Posting(r, j)
    /\ \A r, o \in Approvals : Posting(r, j) /\ Posting(o, j) => r = o

IInv ==
  /\ TypeOK
  /\ Provenance
  /\ RowsWritten
  /\ DatesPast
  /\ ApprovedShown
  /\ AppliedAfterApproval
  /\ ReviewSteps

-----------------------------------------------------------------------------
(* The initial state satisfies every part of the invariant.                *)
LEMMA InitIInv == Init => IInv
BY DEF Init, IInv, TypeOK, Statuses, Times, Provenance, RowsWritten, DatesPast,
       ApprovedShown, AppliedAfterApproval, ReviewSteps, Posting, TakenForFirst

(* Every step keeps the types.                                             *)
LEMMA NextTypeOK == TypeOK /\ [Next]_vars => TypeOK'
<1> SUFFICES ASSUME TypeOK, [Next]_vars
             PROVE  TypeOK'
  OBVIOUS
<1> USE DEF TypeOK, Statuses, Times, rows, history
<1>1. ASSUME NEW j \in Jobs, EmployerRequest(j)
      PROVE  TypeOK'
  <2>1. ASSUME NEW c \in Contents, NEW s \in Statuses, Add(j, c, s) \/ Update(j, c, s)
        PROVE  TypeOK'
    <3>1. Save(j, c, s)
      BY <2>1 DEF Add, Update
    <3>2. submitted' \subseteq Jobs
      BY <3>1 DEF Save, NoteSubmitted
    <3>3. QED
      BY <3>1, <3>2 DEF Save, SetStatus, NoteSubmitted
  <2>2. CASE Archive(j)
    BY <2>2 DEF Archive, SetStatus
  <2>3. CASE Delete(j)
    BY <2>3 DEF Delete, SetStatus
  <2>4. ASSUME NEW e \in Publishes, PublishRead(e, j)
        PROVE  TypeOK'
    BY <2>4 DEF PublishRead, PublishRequest
  <2>5. QED
    BY <1>1, <2>1, <2>2, <2>3, <2>4 DEF EmployerRequest
<1>2. ASSUME NEW e \in Publishes, PublishWrite(e)
      PROVE  TypeOK'
  <2>1. edit[e].job \in Jobs /\ edit[e].read \in Contents \cup {None}
    BY <1>2 DEF PublishWrite, PublishRequest
  <2>2. CASE status[edit[e].job] \in {"archived", "draft", "rejected"}
    <3>1. /\ status' \in [Jobs -> Statuses]
          /\ usd' \in [Jobs -> Contents \cup {None}]
      BY <1>2, <2>1, <2>2 DEF PublishWrite, SetStatus
    <3>2. submitted' \subseteq Jobs
      BY <1>2, <2>1, <2>2 DEF PublishWrite, NoteSubmitted
    <3>3. edit' \in [Publishes -> PublishRequest \cup {None}]
      BY <1>2 DEF PublishWrite
    <3>4. QED
      BY <1>2, <2>2, <3>1, <3>2, <3>3 DEF PublishWrite, NoteSubmitted
  <2>3. CASE status[edit[e].job] \notin {"archived", "draft", "rejected"}
    BY <1>2, <2>3 DEF PublishWrite
  <2>4. QED
    BY <2>2, <2>3
<1>3. ASSUME NEW e \in Publishes, AbandonPublish(e)
      PROVE  TypeOK'
  BY <1>3 DEF AbandonPublish
<1>4. ASSUME NEW m \in Moderators, ModeratorRequest(m)
      PROVE  TypeOK'
  <2>1. CASE LoadPendingPage(m)
    BY <2>1 DEF LoadPendingPage
  <2>2. ASSUME NEW r \in Approvals, NEW j \in Jobs, ApproveSnapshot(m, r, j)
        PROVE  TypeOK'
    BY <2>2 DEF ApproveSnapshot, ApproveRequest
  <2>3. QED
    BY <1>4, <2>1, <2>2 DEF ModeratorRequest
<1>5. ASSUME NEW r \in Approvals, ApproveStep(r)
       PROVE  TypeOK'
  <2>1. CASE ApproveUpdate(r)
    <3>1. review[r] \in ApproveRequest
      BY <2>1 DEF ApproveUpdate
    <3>2. review[r].job \in Jobs /\ review[r].at \in Nat
      BY <3>1 DEF ApproveRequest
    <3>3. review'[r] \in ApproveRequest \cup {None}
      BY <2>1, <3>1 DEF ApproveUpdate, ApproveRequest
    <3>4. review' \in [Approvals -> ApproveRequest \cup {None}]
      BY <2>1, <3>3 DEF ApproveUpdate
    <3>5. /\ publishedAt' \in [Jobs -> Nat \cup {None}]
          /\ firstPublishedAt' \in [Jobs -> Nat \cup {None}]
          /\ raced' \subseteq Jobs
      BY <2>1, <3>2 DEF ApproveUpdate
    <3>6. QED
      BY <2>1, <3>2, <3>4, <3>5 DEF ApproveUpdate, SetStatus
  <2>2. CASE ApproveReadBack(r)
    <3>1. review[r] \in ApproveRequest
      BY <2>2 DEF ApproveReadBack
    <3>2. review'[r] \in ApproveRequest \cup {None}
      BY <2>2, <3>1 DEF ApproveReadBack, ApproveRequest
    <3>3. review' \in [Approvals -> ApproveRequest \cup {None}]
      BY <2>2, <3>2 DEF ApproveReadBack
    <3>4. QED
      BY <2>2, <3>3 DEF ApproveReadBack
  <2>3. CASE ApprovePost(r)
    BY <2>3 DEF ApprovePost, ApproveRequest
  <2>4. CASE AbandonApprove(r)
    BY <2>4 DEF AbandonApprove
  <2>5. QED
    BY <1>5, <2>1, <2>2, <2>3, <2>4 DEF ApproveStep
<1>6. ASSUME NEW j \in Jobs, Reject(j)
      PROVE  TypeOK'
  BY <1>6 DEF Reject, SetStatus
<1>7. ASSUME NEW s \in Seekers, NEW j \in Jobs, Apply(s, j) \/ CancelApplication(s, j)
      PROVE  TypeOK'
  BY <1>7 DEF Apply, CancelApplication
<1>8. CASE ArchiveExpired
  BY <1>8 DEF ArchiveExpired, Expired
<1>9. CASE Tick
  BY <1>9 DEF Tick
<1>10. CASE UNCHANGED vars
  BY <1>10 DEF vars
<1>11. QED
  BY <1>1, <1>2, <1>3, <1>4, <1>5, <1>6, <1>7, <1>8, <1>9, <1>10 DEF Next

(* Type correctness, for every value of the constants.                     *)
THEOREM TypeCorrect == Spec => []TypeOK
<1>1. Init => TypeOK
  BY InitIInv DEF IInv
<1>2. TypeOK /\ [Next]_vars => TypeOK'
  BY NextTypeOK
<1>3. QED
  BY <1>1, <1>2, PTL DEF Spec

-----------------------------------------------------------------------------
(* The steps, flattened: what the case distinctions below start from.       *)
LEMMA NextCases ==
  ASSUME TypeOK, [Next]_vars
  PROVE  \/ \E j \in Jobs, c \in Contents, s \in Statuses : Add(j, c, s) \/ Update(j, c, s)
         \/ \E j \in Jobs : Archive(j) \/ Delete(j) \/ Reject(j)
         \/ \E e \in Publishes, j \in Jobs : PublishRead(e, j)
         \/ \E e \in Publishes : PublishWrite(e)
         \/ \E e \in Publishes : AbandonPublish(e)
         \/ \E m \in Moderators : LoadPendingPage(m)
         \/ \E m \in Moderators, r \in Approvals, j \in Jobs : ApproveSnapshot(m, r, j)
         \/ \E r \in Approvals : ApproveUpdate(r)
         \/ \E r \in Approvals : ApproveReadBack(r)
         \/ \E r \in Approvals : ApprovePost(r)
         \/ \E r \in Approvals : AbandonApprove(r)
         \/ \E s \in Seekers, j \in Jobs : Apply(s, j) \/ CancelApplication(s, j)
         \/ ArchiveExpired
         \/ Tick
         \/ UNCHANGED vars
BY DEF Next, EmployerRequest, ModeratorRequest, ApproveStep

(* Only the start of an approval, its update and the clock move the dates. *)
LEMMA DatesPastStep ==
  ASSUME TypeOK, DatesPast, [Next]_vars
  PROVE  DatesPast'
<1> USE DEF DatesPast, TypeOK, Times
<1>1. ASSUME UNCHANGED <<publishedAt, firstPublishedAt, now>>,
             \A r \in Approvals : \/ review'[r] = None
                                  \/ review[r] # None /\ review'[r].at = review[r].at
                                  \/ review'[r].at = now
      PROVE  DatesPast'
  BY <1>1
<1>2. ASSUME NEW m \in Moderators, NEW r \in Approvals, NEW j \in Jobs,
             ApproveSnapshot(m, r, j)
      PROVE  DatesPast'
  BY <1>1, <1>2 DEF ApproveSnapshot, rows
<1>3. ASSUME NEW r \in Approvals, ApproveUpdate(r)
      PROVE  DatesPast'
  <2>1. /\ review[r] # None
        /\ review[r].job \in Jobs /\ review[r].at \in Nat /\ review[r].at <= now
    BY <1>3 DEF ApproveUpdate, ApproveRequest
  <2>2. \A o \in Approvals : review'[o] # None =>
          review[o] # None /\ review'[o].at = review[o].at
    BY <1>3 DEF ApproveUpdate, ApproveRequest
  <2>3. UNCHANGED now
    BY <1>3 DEF ApproveUpdate
  <2>4. \A r1 \in Approvals : review'[r1] # None => review'[r1].at <= now'
    BY <2>2, <2>3
  <2>5. \A j \in Jobs :
          /\ (firstPublishedAt'[j] = None) = (publishedAt'[j] = None)
          /\ firstPublishedAt'[j] # None =>
               firstPublishedAt'[j] <= now' /\ publishedAt'[j] <= now'
    BY <1>3, <2>1, <2>3 DEF ApproveUpdate
  <2>6. QED
    BY <2>4, <2>5
<1>4. ASSUME NEW r \in Approvals, ApproveReadBack(r)
      PROVE  DatesPast'
  <2>1. \A o \in Approvals : review'[o] # None =>
          review[o] # None /\ review'[o].at = review[o].at
    BY <1>4 DEF ApproveReadBack, ApproveRequest
  <2>2. QED
    BY <1>1, <1>4, <2>1 DEF ApproveReadBack, rows
<1>5. ASSUME NEW r \in Approvals, ApprovePost(r) \/ AbandonApprove(r)
      PROVE  DatesPast'
  BY <1>1, <1>5 DEF ApprovePost, AbandonApprove, rows
<1>6. CASE Tick
  <2>1. \A r \in Approvals : review[r] # None => review[r].at \in Nat
    BY DEF ApproveRequest
  <2>2. QED
    BY <1>6, <2>1 DEF Tick, rows
<1>7. CASE UNCHANGED <<publishedAt, firstPublishedAt, now, review>>
  BY <1>1, <1>7
<1>8. QED
  <2>1. \/ UNCHANGED <<publishedAt, firstPublishedAt, now, review>>
        \/ \E m \in Moderators, r \in Approvals, j \in Jobs : ApproveSnapshot(m, r, j)
        \/ \E r \in Approvals : ApproveUpdate(r)
        \/ \E r \in Approvals : ApproveReadBack(r)
        \/ \E r \in Approvals : ApprovePost(r) \/ AbandonApprove(r)
        \/ Tick
    BY NextCases DEF vars, rows, Add, Update, Save, Archive, Delete, Reject,
         PublishRead, PublishWrite, AbandonPublish, LoadPendingPage, Apply,
         CancelApplication, ArchiveExpired
  <2>2. QED
    BY <1>2, <1>3, <1>4, <1>5, <1>6, <1>7, <2>1

(* A published job's row is only touched by what unpublishes it or by an   *)
(* approval of the text it holds.                                          *)
LEMMA ApprovedShownStep ==
  ASSUME TypeOK, ApprovedShown, [Next]_vars
  PROVE  ApprovedShown'
<1> USE DEF ApprovedShown, TypeOK, Times
<1>1. ASSUME UNCHANGED <<content, approved, firstPublishedAt>>,
             \A j \in Jobs : status'[j] = "published" => status[j] = "published"
      PROVE  ApprovedShown'
  BY <1>1
<1>2. ASSUME NEW j \in Jobs, NEW c \in Contents, NEW s \in Statuses,
             Add(j, c, s) \/ Update(j, c, s)
      PROVE  ApprovedShown'
  <2>1. Save(j, c, s) /\ s # "published"
    BY <1>2 DEF Add, Update
  <2>2. QED
    BY <2>1 DEF Save, SetStatus, NoteSubmitted
<1>3. ASSUME NEW j \in Jobs, Archive(j) \/ Delete(j) \/ Reject(j)
      PROVE  ApprovedShown'
  BY <1>1, <1>3 DEF Archive, Delete, Reject, SetStatus, history
<1>4. ASSUME NEW e \in Publishes, PublishWrite(e)
      PROVE  ApprovedShown'
  <2>1. edit[e].job \in Jobs
    BY <1>4 DEF PublishWrite, PublishRequest
  <2>2. UNCHANGED <<content, approved, firstPublishedAt>>
    BY <1>4 DEF PublishWrite, NoteSubmitted, history
  <2>3. \A j \in Jobs : status'[j] = "published" => status[j] = "published"
    BY <1>4, <2>1 DEF PublishWrite, SetStatus
  <2>4. QED
    BY <1>1, <2>2, <2>3
<1>5. ASSUME NEW r \in Approvals, ApproveUpdate(r)
      PROVE  ApprovedShown'
  <2>1. review[r].job \in Jobs /\ review[r].at \in Nat
    BY <1>5 DEF ApproveUpdate, ApproveRequest
  <2>2. PICK j \in Jobs : j = review[r].job
    BY <2>1
  <2>3. /\ status' = [status EXCEPT ![j] = "published"]
        /\ approved' = [approved EXCEPT ![j] = content[j]]
        /\ UNCHANGED content
    BY <1>5, <2>2 DEF ApproveUpdate, SetStatus
  <2>4. /\ firstPublishedAt'[j] # None
        /\ \A i \in Jobs : i # j => firstPublishedAt'[i] = firstPublishedAt[i]
    BY <1>5, <2>1, <2>2 DEF ApproveUpdate
  <2>5. QED
    BY <2>3, <2>4
<1>6. CASE ArchiveExpired
  BY <1>1, <1>6 DEF ArchiveExpired, history
<1>7. CASE UNCHANGED <<status, content, approved, firstPublishedAt>>
  BY <1>1, <1>7
<1>8. QED
  <2>1. \/ \E j \in Jobs, c \in Contents, s \in Statuses : Add(j, c, s) \/ Update(j, c, s)
        \/ \E j \in Jobs : Archive(j) \/ Delete(j) \/ Reject(j)
        \/ \E e \in Publishes : PublishWrite(e)
        \/ \E r \in Approvals : ApproveUpdate(r)
        \/ ArchiveExpired
        \/ UNCHANGED <<status, content, approved, firstPublishedAt>>
    BY NextCases DEF vars, rows, history, PublishRead, AbandonPublish,
         LoadPendingPage, ApproveSnapshot, ApproveReadBack, ApprovePost,
         AbandonApprove, Apply, CancelApplication, Tick
  <2>2. QED
    BY <1>2, <1>3, <1>4, <1>5, <1>6, <1>7, <2>1

(* A job is pending, listed or reviewed only after its submission.         *)
LEMMA ProvenanceStep ==
  ASSUME TypeOK, Provenance, [Next]_vars
  PROVE  Provenance'
<1> USE DEF Provenance, TypeOK
<1>1. ASSUME submitted \subseteq submitted', UNCHANGED <<page, review>>,
             \A j \in Jobs : status'[j] \in {"pending-approval", "published"} =>
               \/ status[j] \in {"pending-approval", "published"}
               \/ j \in submitted'
      PROVE  Provenance'
  BY <1>1
<1>2. ASSUME NEW j \in Jobs, NEW c \in Contents, NEW s \in Statuses,
             Add(j, c, s) \/ Update(j, c, s)
      PROVE  Provenance'
  <2>1. Save(j, c, s) /\ s # "published"
    BY <1>2 DEF Add, Update
  <2>2. submitted \subseteq submitted' /\ UNCHANGED <<page, review>>
    BY <2>1 DEF Save, NoteSubmitted
  <2>3. s = "pending-approval" => j \in submitted'
    BY <2>1 DEF Save, NoteSubmitted
  <2>4. status' = [status EXCEPT ![j] = s]
    BY <2>1 DEF Save, SetStatus
  <2>5. QED
    BY <1>1, <2>1, <2>2, <2>3, <2>4
<1>3. ASSUME NEW j \in Jobs, Archive(j) \/ Delete(j) \/ Reject(j)
      PROVE  Provenance'
  BY <1>1, <1>3 DEF Archive, Delete, Reject, SetStatus, history
<1>4. ASSUME NEW e \in Publishes, PublishWrite(e)
      PROVE  Provenance'
  <2>1. edit[e].job \in Jobs
    BY <1>4 DEF PublishWrite, PublishRequest
  <2>2. UNCHANGED <<page, review>>
    BY <1>4 DEF PublishWrite
  <2>3. submitted \subseteq submitted'
    BY <1>4 DEF PublishWrite, NoteSubmitted, history
  <2>4. \A j \in Jobs : \/ status'[j] = status[j]
                        \/ j \in submitted'
    BY <1>4, <2>1 DEF PublishWrite, NoteSubmitted, SetStatus
  <2>5. QED
    BY <1>1, <2>2, <2>3, <2>4
<1>5. ASSUME NEW m \in Moderators, LoadPendingPage(m)
      PROVE  Provenance'
  BY <1>5 DEF LoadPendingPage, rows, history
<1>6. ASSUME NEW m \in Moderators, NEW r \in Approvals, NEW j \in Jobs,
             ApproveSnapshot(m, r, j)
      PROVE  Provenance'
  BY <1>6 DEF ApproveSnapshot, rows, history
<1>7. ASSUME NEW r \in Approvals, ApproveUpdate(r)
      PROVE  Provenance'
  <2>1. review[r].job \in Jobs /\ review[r].job \in submitted
    BY <1>7 DEF ApproveUpdate, ApproveRequest
  <2>2. review'[r] # None => review'[r].job = review[r].job
    BY <1>7 DEF ApproveUpdate, ApproveRequest
  <2>3. QED
    BY <1>7, <2>1, <2>2 DEF ApproveUpdate, SetStatus
<1>8. ASSUME NEW r \in Approvals, ApproveReadBack(r)
      PROVE  Provenance'
  <2>1. review'[r] # None => review'[r].job = review[r].job
    BY <1>8 DEF ApproveReadBack, ApproveRequest
  <2>2. QED
    BY <1>8, <2>1 DEF ApproveReadBack, rows, history
<1>9. ASSUME NEW r \in Approvals, ApprovePost(r) \/ AbandonApprove(r)
      PROVE  Provenance'
  BY <1>9 DEF ApprovePost, AbandonApprove, rows, history
<1>10. CASE ArchiveExpired
  BY <1>1, <1>10 DEF ArchiveExpired, history
<1>11. CASE UNCHANGED <<status, page, review, submitted>>
  BY <1>1, <1>11
<1>12. QED
  <2>1. \/ \E j \in Jobs, c \in Contents, s \in Statuses : Add(j, c, s) \/ Update(j, c, s)
        \/ \E j \in Jobs : Archive(j) \/ Delete(j) \/ Reject(j)
        \/ \E e \in Publishes : PublishWrite(e)
        \/ \E m \in Moderators : LoadPendingPage(m)
        \/ \E m \in Moderators, r \in Approvals, j \in Jobs : ApproveSnapshot(m, r, j)
        \/ \E r \in Approvals : ApproveUpdate(r)
        \/ \E r \in Approvals : ApproveReadBack(r)
        \/ \E r \in Approvals : ApprovePost(r) \/ AbandonApprove(r)
        \/ ArchiveExpired
        \/ UNCHANGED <<status, page, review, submitted>>
    BY NextCases DEF vars, rows, history, PublishRead, AbandonPublish, Apply,
         CancelApplication, Tick
  <2>2. QED
    BY <1>2, <1>3, <1>4, <1>5, <1>6, <1>7, <1>8, <1>9, <1>10, <1>11, <2>1

(* A row never disappears, nor does its text.                              *)
LEMMA RowsWrittenStep ==
  ASSUME TypeOK, Provenance, RowsWritten, [Next]_vars
  PROVE  RowsWritten'
<1> USE DEF RowsWritten, TypeOK
<1>1. ASSUME UNCHANGED <<content, submitted>>,
             \A j \in Jobs : status'[j] # "absent" <=> status[j] # "absent"
      PROVE  RowsWritten'
  BY <1>1
<1>2. ASSUME NEW j \in Jobs, NEW c \in Contents, NEW s \in Statuses,
             Add(j, c, s) \/ Update(j, c, s)
      PROVE  RowsWritten'
  <2>1. Save(j, c, s) /\ s # "absent"
    BY <1>2 DEF Add, Update
  <2>2. submitted' \subseteq submitted \cup {j}
    BY <2>1 DEF Save, NoteSubmitted
  <2>3. QED
    BY <2>1, <2>2 DEF Save, SetStatus
<1>3. ASSUME NEW j \in Jobs, Archive(j) \/ Delete(j) \/ Reject(j)
      PROVE  RowsWritten'
  BY <1>1, <1>3 DEF Archive, Delete, Reject, SetStatus, history
<1>4. ASSUME NEW e \in Publishes, PublishWrite(e)
      PROVE  RowsWritten'
  <2>1. edit[e].job \in Jobs
    BY <1>4 DEF PublishWrite, PublishRequest
  <2>2. \A j \in Jobs : status'[j] # "absent" <=> status[j] # "absent"
    BY <1>4, <2>1 DEF PublishWrite, SetStatus
  <2>3. /\ content' = content
        /\ \A j \in submitted' : j \in submitted \/ status[j] # "absent"
    BY <1>4, <2>1 DEF PublishWrite, NoteSubmitted, history
  <2>4. submitted' \subseteq Jobs
    BY NextTypeOK DEF TypeOK
  <2>5. QED
    BY <2>2, <2>3, <2>4
<1>5. ASSUME NEW r \in Approvals, ApproveUpdate(r)
      PROVE  RowsWritten'
  <2>1. review[r].job \in Jobs /\ review[r].job \in submitted
    BY <1>5 DEF ApproveUpdate, ApproveRequest, Provenance
  <2>2. \A j \in Jobs : status'[j] # "absent" <=> status[j] # "absent"
    BY <1>5, <2>1 DEF ApproveUpdate, SetStatus
  <2>3. QED
    BY <1>1, <1>5, <2>2 DEF ApproveUpdate
<1>6. CASE ArchiveExpired
  BY <1>1, <1>6 DEF ArchiveExpired, Expired, history
<1>7. CASE UNCHANGED <<status, content, submitted>>
  BY <1>1, <1>7
<1>8. QED
  <2>1. \/ \E j \in Jobs, c \in Contents, s \in Statuses : Add(j, c, s) \/ Update(j, c, s)
        \/ \E j \in Jobs : Archive(j) \/ Delete(j) \/ Reject(j)
        \/ \E e \in Publishes : PublishWrite(e)
        \/ \E r \in Approvals : ApproveUpdate(r)
        \/ ArchiveExpired
        \/ UNCHANGED <<status, content, submitted>>
    BY NextCases DEF vars, rows, history, PublishRead, AbandonPublish,
         LoadPendingPage, ApproveSnapshot, ApproveReadBack, ApprovePost,
         AbandonApprove, Apply, CancelApplication, Tick
  <2>2. QED
    BY <1>2, <1>3, <1>4, <1>5, <1>6, <1>7, <2>1

(* The day of the first publication is never reset.                        *)
LEMMA FirstPublicationKept ==
  ASSUME TypeOK, [Next]_vars
  PROVE  \A j \in Jobs : firstPublishedAt[j] # None =>
                           firstPublishedAt'[j] = firstPublishedAt[j]
<1>1. CASE UNCHANGED firstPublishedAt
  BY <1>1
<1>2. ASSUME NEW r \in Approvals, ApproveUpdate(r)
      PROVE  \A j \in Jobs : firstPublishedAt[j] # None =>
                               firstPublishedAt'[j] = firstPublishedAt[j]
  BY <1>2 DEF ApproveUpdate, ApproveRequest, TypeOK
<1>3. QED
  <2>1. UNCHANGED firstPublishedAt \/ \E r \in Approvals : ApproveUpdate(r)
    BY NextCases DEF vars, rows, Add, Update, Save, Archive, Delete, Reject,
         PublishRead, PublishWrite, AbandonPublish, LoadPendingPage,
         ApproveSnapshot, ApproveReadBack, ApprovePost, AbandonApprove,
         Apply, CancelApplication, ArchiveExpired, Tick
  <2>2. QED
    BY <1>1, <1>2, <2>1

(* Applications are made to published jobs, which have a first publication.*)
LEMMA AppliedAfterApprovalStep ==
  ASSUME TypeOK, ApprovedShown, AppliedAfterApproval, [Next]_vars
  PROVE  AppliedAfterApproval'
<1>1. ASSUME NEW s \in Seekers, NEW j \in Jobs, Apply(s, j) \/ CancelApplication(s, j)
      PROVE  AppliedAfterApproval'
  BY <1>1 DEF Apply, CancelApplication, rows, ApprovedShown, AppliedAfterApproval
<1>2. CASE UNCHANGED applications
  BY <1>2, FirstPublicationKept DEF AppliedAfterApproval, TypeOK
<1>3. QED
  <2>1. \/ UNCHANGED applications
        \/ \E s \in Seekers, j \in Jobs : Apply(s, j) \/ CancelApplication(s, j)
    BY NextCases DEF vars, Add, Update, Save, Archive, Delete, Reject,
         PublishRead, PublishWrite, AbandonPublish, LoadPendingPage,
         ApproveSnapshot, ApproveUpdate, ApproveReadBack, ApprovePost,
         AbandonApprove, ArchiveExpired, Tick
  <2>2. QED
    BY <1>1, <1>2, <2>1

(* Only the first approval to be written goes on to post, if no other one  *)
(* was waiting for the row with it.                                        *)
LEMMA ReviewStepsStep ==
  ASSUME TypeOK, ReviewSteps, [Next]_vars
  PROVE  ReviewSteps'
<1> USE DEF ReviewSteps, Posting, TakenForFirst
<1>1. CASE UNCHANGED <<review, posts, raced, firstPublishedAt>>
  BY <1>1
<1>2. ASSUME NEW m \in Moderators, NEW r \in Approvals, NEW j \in Jobs,
             ApproveSnapshot(m, r, j)
      PROVE  ReviewSteps'
  <2>1. /\ \A o \in Approvals : o # r => review'[o] = review[o]
        /\ review'[r].job = j /\ review'[r].step = "update"
        /\ review'[r].previous = firstPublishedAt[j]
        /\ UNCHANGED <<posts, raced, firstPublishedAt>>
    BY <1>2 DEF ApproveSnapshot, rows, history, TypeOK
  <2>2. QED
    BY <2>1
<1>3. ASSUME NEW r \in Approvals, ApproveUpdate(r)
      PROVE  ReviewSteps'
  <2>1. review[r] # None /\ review[r] \in ApproveRequest /\ review[r].job \in Jobs
    BY <1>3 DEF ApproveUpdate, ApproveRequest, TypeOK
  <2>2. PICK j \in Jobs : j = review[r].job
    BY <2>1
  <2>3. /\ UNCHANGED posts
        /\ \A o \in Approvals : o # r => review'[o] = review[o]
        /\ \A i \in Jobs : i # j => firstPublishedAt'[i] = firstPublishedAt[i]
        /\ firstPublishedAt'[j] # None
        /\ raced \subseteq raced' /\ raced' \subseteq raced \cup {j}
    BY <1>3, <2>1, <2>2 DEF ApproveUpdate, ApproveRequest, TypeOK
  <2>4. IF review[r].previous = None
        THEN review'[r].job = j /\ review'[r].step = "read-back"
        ELSE review'[r] = None
    BY <1>3, <2>1, <2>2 DEF ApproveUpdate, ApproveRequest, TypeOK
  <2>5. TakenForFirst(r, j) <=> review[r].previous = None
    BY <1>3, <2>1, <2>2 DEF ApproveUpdate
  <2>6. ASSUME NEW i \in Jobs \ raced', i # j
        PROVE  /\ firstPublishedAt'[i] = None =>
                    posts'[i] = 0 /\ \A o \in Approvals : ~Posting(o, i)'
               /\ firstPublishedAt'[i] # None =>
                    \A o \in Approvals : ~TakenForFirst(o, i)'
               /\ posts'[i] <= 1
               /\ posts'[i] = 1 => \A o \in Approvals : ~Posting(o, i)'
               /\ \A o, q \in Approvals : Posting(o, i)' /\ Posting(q, i)' => o = q
    <3>1. \A o \in Approvals : Posting(o, i)' => Posting(o, i)
      BY <2>3, <2>4, <2>6
    <3>2. \A o \in Approvals : TakenForFirst(o, i)' => TakenForFirst(o, i)
      BY <2>3, <2>4, <2>6
    <3>3. i \in Jobs \ raced
      BY <2>3, <2>6
    <3> HIDE DEF Posting, TakenForFirst
    <3>4. QED
      BY <2>3, <2>6, <3>1, <3>2, <3>3
  <2>7. ASSUME j \notin raced'
        PROVE  /\ \A o \in Approvals : ~TakenForFirst(o, j)'
               /\ posts'[j] <= 1
               /\ posts'[j] = 1 => \A o \in Approvals : ~Posting(o, j)'
               /\ \A o, q \in Approvals : Posting(o, j)' /\ Posting(q, j)' => o = q
    <3>1. j \in Jobs \ raced
      BY <2>3, <2>7
    <3>2. CASE firstPublishedAt[j] = None
      <4>1. ~Overlapped(r)
        BY <1>3, <2>2, <2>7, <3>2 DEF ApproveUpdate
      <4>2. \A o \in Approvals : ~TakenForFirst(o, j)'
        BY <2>2, <2>3, <2>4, <4>1 DEF Overlapped
      <4>3. \A o \in Approvals : Posting(o, j)' => o = r
        BY <2>3, <3>1, <3>2
      <4>4. QED
        BY <2>3, <3>1, <3>2, <4>2, <4>3
    <3>3. CASE firstPublishedAt[j] # None
      <4>1. review[r].previous # None /\ review'[r] = None
        BY <2>4, <2>5, <3>1, <3>3
      <4>2. \A o \in Approvals : Posting(o, j)' => Posting(o, j)
        BY <2>3, <4>1
      <4>3. \A o \in Approvals : TakenForFirst(o, j)' => TakenForFirst(o, j)
        BY <2>3, <4>1
      <4> HIDE DEF Posting, TakenForFirst
      <4>4. QED
        BY <2>3, <3>1, <3>3, <4>2, <4>3
    <3>4. QED
      BY <3>2, <3>3
  <2> HIDE DEF Posting, TakenForFirst
  <2>8. QED
    BY <2>3, <2>6, <2>7
<1>4. ASSUME NEW r \in Approvals, ApproveReadBack(r)
      PROVE  ReviewSteps'
  <2>1. /\ review[r] # None /\ review[r].step = "read-back"
        /\ \A o \in Approvals : o # r => review'[o] = review[o]
        /\ review'[r] # None =>
             review'[r].job = review[r].job /\ review'[r].step = "post"
        /\ UNCHANGED <<posts, raced, firstPublishedAt>>
    BY <1>4 DEF ApproveReadBack, ApproveRequest, rows, history, TypeOK
  <2>2. \A i \in Jobs, o \in Approvals : Posting(o, i)' => Posting(o, i)
    BY <2>1
  <2>3. \A i \in Jobs, o \in Approvals : TakenForFirst(o, i)' => TakenForFirst(o, i)
    BY <2>1
  <2> HIDE DEF Posting, TakenForFirst
  <2>4. QED
    BY <2>1, <2>2, <2>3
<1>5. ASSUME NEW r \in Approvals, ApprovePost(r)
      PROVE  ReviewSteps'
  <2>1. review[r] # None /\ review[r].job \in Jobs /\ review[r].step = "post"
    BY <1>5 DEF ApprovePost, ApproveRequest, TypeOK
  <2>2. PICK j \in Jobs : j = review[r].job
    BY <2>1
  <2>3. /\ \A o \in Approvals : o # r => review'[o] = review[o]
        /\ review'[r] = None
        /\ posts'[j] = posts[j] + 1
        /\ \A i \in Jobs : i # j => posts'[i] = posts[i]
        /\ UNCHANGED <<raced, firstPublishedAt>>
    BY <1>5, <2>2 DEF ApprovePost, rows, TypeOK
  <2>4. posts[j] \in Nat
    BY DEF TypeOK
  <2>5. Posting(r, j)
    BY <2>1, <2>2
  <2>6. \A i \in Jobs, o \in Approvals : Posting(o, i)' => o # r /\ Posting(o, i)
    BY <2>3
  <2>7. \A i \in Jobs, o \in Approvals : TakenForFirst(o, i)' => TakenForFirst(o, i)
    BY <2>3
  <2> HIDE DEF Posting, TakenForFirst
  <2>8. QED
    BY <2>3, <2>4, <2>5, <2>6, <2>7
<1>6. ASSUME NEW r \in Approvals, AbandonApprove(r)
      PROVE  ReviewSteps'
  <2>1. /\ \A o \in Approvals : o # r => review'[o] = review[o]
        /\ review'[r] = None
        /\ UNCHANGED <<posts, raced, firstPublishedAt>>
    BY <1>6 DEF AbandonApprove, rows, history, TypeOK
  <2>2. QED
    BY <2>1
<1>7. QED
  <2>1. \/ UNCHANGED <<review, posts, raced, firstPublishedAt>>
        \/ \E m \in Moderators, r \in Approvals, j \in Jobs : ApproveSnapshot(m, r, j)
        \/ \E r \in Approvals : ApproveUpdate(r)
        \/ \E r \in Approvals : ApproveReadBack(r)
        \/ \E r \in Approvals : ApprovePost(r)
        \/ \E r \in Approvals : AbandonApprove(r)
    BY NextCases DEF vars, rows, history, Add, Update, Save, NoteSubmitted, Archive,
         Delete, Reject, PublishRead, PublishWrite, AbandonPublish,
         LoadPendingPage, Apply, CancelApplication, ArchiveExpired, Tick
  <2>2. QED
    BY <1>1, <1>2, <1>3, <1>4, <1>5, <1>6, <2>1

-----------------------------------------------------------------------------
(* The whole invariant is inductive.                                       *)
LEMMA Inductive == Spec => []IInv
<1>1. Init => IInv
  BY InitIInv
<1>2. IInv /\ [Next]_vars => IInv'
  BY NextTypeOK, ProvenanceStep, RowsWrittenStep, DatesPastStep,
     ApprovedShownStep, AppliedAfterApprovalStep, ReviewStepsStep DEF IInv
<1>3. QED
  BY <1>1, <1>2, PTL DEF Spec

(* The public board shows only what a moderator's last approval found.     *)
THEOREM PublishedIsApprovedAlways == Spec => []PublishedIsApproved
<1>1. IInv => PublishedIsApproved
  <2> SUFFICES ASSUME IInv, NEW j \in Jobs, status[j] = "published"
               PROVE  /\ approved[j] = content[j]
                      /\ content[j] # None
                      /\ firstPublishedAt[j] # None /\ publishedAt[j] # None
                      /\ firstPublishedAt[j] <= now /\ publishedAt[j] <= now
    BY DEF PublishedIsApproved
  <2>1. approved[j] = content[j] /\ firstPublishedAt[j] # None
    BY DEF IInv, ApprovedShown
  <2>2. content[j] # None
    BY DEF IInv, RowsWritten
  <2>3. QED
    BY <2>1, <2>2 DEF IInv, DatesPast
<1>2. QED
  BY <1>1, Inductive, PTL

(* Nothing is published that was not submitted.                            *)
THEOREM PublishedWasSubmittedAlways == Spec => []PublishedWasSubmitted
<1>1. IInv => PublishedWasSubmitted
  BY DEF IInv, Provenance, PublishedWasSubmitted
<1>2. QED
  BY <1>1, Inductive, PTL

(* A job whose first approval was not raced is posted about once at most.  *)
THEOREM OnePostUnlessRacedAlways == Spec => []OnePostUnlessRaced
<1>1. IInv => OnePostUnlessRaced
  BY DEF IInv, ReviewSteps, OnePostUnlessRaced
<1>2. QED
  BY <1>1, Inductive, PTL

(* Nobody has applied to a job that no moderator let through.              *)
THEOREM AppliedAfterApprovalAlways == Spec => []AppliedAfterApproval
<1>1. IInv => AppliedAfterApproval
  BY DEF IInv
<1>2. QED
  BY <1>1, Inductive, PTL

-----------------------------------------------------------------------------
(* Only an approval brings a deleted job back.                             *)
THEOREM OnlyApprovalUndeletesAlways == Spec => OnlyApprovalUndeletes
<1>1. ASSUME TypeOK, [Next]_vars
      PROVE  [UndeletedByApproval]_vars
  <2> SUFFICES ASSUME NEW j \in Jobs, status[j] = "deleted", status'[j] # "deleted"
               PROVE  /\ status'[j] = "published"
                      /\ \E r \in Approvals :
                           /\ review[r] # None
                           /\ review[r].job = j /\ review[r].step = "update"
                           /\ review'[r] # review[r]
    BY DEF UndeletedByApproval
  <2> USE <1>1 DEF TypeOK
  <2>1. ASSUME NEW i \in Jobs, NEW c \in Contents, NEW s \in Statuses,
               Add(i, c, s) \/ Update(i, c, s)
        PROVE  FALSE
    BY <2>1 DEF Add, Update, Save, SetStatus
  <2>2. ASSUME NEW i \in Jobs, Archive(i) \/ Delete(i) \/ Reject(i)
        PROVE  FALSE
    BY <2>2 DEF Archive, Delete, Reject, SetStatus
  <2>3. ASSUME NEW e \in Publishes, PublishWrite(e)
        PROVE  FALSE
    BY <2>3 DEF PublishWrite, PublishRequest, SetStatus
  <2>4. ASSUME NEW r \in Approvals, ApproveUpdate(r)
        PROVE  /\ status'[j] = "published"
               /\ review[r] # None
               /\ review[r].job = j /\ review[r].step = "update"
               /\ review'[r] # review[r]
    <3>1. /\ review[r] # None /\ review[r].step = "update"
          /\ review[r].job \in Jobs
          /\ status' = [status EXCEPT ![review[r].job] = "published"]
      BY <2>4 DEF ApproveUpdate, ApproveRequest, SetStatus
    <3>2. review'[r] # review[r]
      <4>1. review[r].previous = None => review'[r].step = "read-back"
        BY <2>4 DEF ApproveUpdate, ApproveRequest
      <4>2. review[r].previous # None => review'[r] = None
        BY <2>4 DEF ApproveUpdate
      <4>3. QED
        BY <3>1, <4>1, <4>2
    <3>3. QED
      BY <3>1, <3>2
  <2>5. CASE ArchiveExpired
    BY <2>5 DEF ArchiveExpired, Expired
  <2>6. CASE UNCHANGED status
    BY <2>6
  <2>7. QED
    <3>1. \/ \E i \in Jobs, c \in Contents, s \in Statuses : Add(i, c, s) \/ Update(i, c, s)
          \/ \E i \in Jobs : Archive(i) \/ Delete(i) \/ Reject(i)
          \/ \E e \in Publishes : PublishWrite(e)
          \/ \E r \in Approvals : ApproveUpdate(r)
          \/ ArchiveExpired
          \/ UNCHANGED status
      BY NextCases DEF vars, rows, PublishRead, AbandonPublish, LoadPendingPage,
           ApproveSnapshot, ApproveReadBack, ApprovePost, AbandonApprove, Apply,
           CancelApplication, Tick
    <3>2. QED
      BY <2>1, <2>2, <2>3, <2>4, <2>5, <2>6, <3>1
<1>2. QED
  BY <1>1, TypeCorrect, PTL DEF Spec, OnlyApprovalUndeletes

(* The salaries of a job part from its text only by a publish request that *)
(* an edit of the job has overtaken.                                       *)
THEOREM OnlyOvertakenPublishPartsAlways == Spec => OnlyOvertakenPublishParts
<1>1. ASSUME TypeOK, [Next]_vars
      PROVE  [PartedByOvertakenPublish]_vars
  <2> SUFFICES ASSUME NEW j \in Jobs, usd[j] = content[j], usd'[j] # content'[j]
               PROVE  \E e \in Publishes :
                        /\ edit[e] # None /\ edit[e].job = j /\ edit'[e] = None
                        /\ edit[e].read # content[j]
    BY DEF PartedByOvertakenPublish
  <2> USE <1>1 DEF TypeOK
  <2>1. ASSUME NEW i \in Jobs, NEW c \in Contents, NEW s \in Statuses,
               Add(i, c, s) \/ Update(i, c, s)
        PROVE  FALSE
    <3>1. usd' = [usd EXCEPT ![i] = c] /\ content' = [content EXCEPT ![i] = c]
      BY <2>1 DEF Add, Update, Save
    <3>2. QED
      BY <3>1
  <2>2. ASSUME NEW e \in Publishes, PublishWrite(e)
        PROVE  /\ edit[e] # None /\ edit[e].job = j /\ edit'[e] = None
               /\ edit[e].read # content[j]
    <3>1. edit[e] # None /\ edit'[e] = None /\ UNCHANGED content
      BY <2>2 DEF PublishWrite
    <3>2. UNCHANGED usd \/ usd' = [usd EXCEPT ![edit[e].job] = edit[e].read]
      BY <2>2 DEF PublishWrite
    <3>3. QED
      BY <3>1, <3>2
  <2>3. CASE UNCHANGED <<usd, content>>
    BY <2>3
  <2>4. QED
    <3>1. \/ \E i \in Jobs, c \in Contents, s \in Statuses : Add(i, c, s) \/ Update(i, c, s)
          \/ \E e \in Publishes : PublishWrite(e)
          \/ UNCHANGED <<usd, content>>
      BY NextCases DEF vars, rows, Archive, Delete, Reject, PublishRead,
           AbandonPublish, LoadPendingPage, ApproveSnapshot, ApproveUpdate,
           ApproveReadBack, ApprovePost, AbandonApprove, Apply, CancelApplication,
           ArchiveExpired, Tick
    <3>2. QED
      BY <2>1, <2>2, <2>3, <3>1
<1>2. QED
  BY <1>1, TypeCorrect, PTL DEF Spec, OnlyOvertakenPublishParts

-----------------------------------------------------------------------------
(* What the public board shows after a step that changes no text: what it  *)
(* showed of the jobs that stay published, and nothing of the others.      *)
LEMMA TakesDown ==
  ASSUME TypeOK, UNCHANGED content,
         \A j \in Jobs : status'[j] = "published" => status[j] = "published"
  PROVE  [Board!Next]_Board!vars
<1> DEFINE S == {j \in Jobs : status'[j] # "published"}
<1>1. shown' = [j \in Jobs |-> IF j \in S THEN None ELSE shown[j]]
  BY DEF shown, TypeOK
<1>2. S \in SUBSET Jobs
  OBVIOUS
<1>3. Board!TakeDown(S)
  BY <1>1 DEF Board!TakeDown
<1>4. QED
  BY <1>2, <1>3 DEF Board!Next

(* The lifecycle implements the promise made to the public: every step     *)
(* writes a text that is not shown, shows an approved text, takes listings *)
(* down, or leaves the board as it is.                                     *)
THEOREM LifecycleImplementsBoard == Spec => ImplementsBoard
<1>1. Init => Board!Init
  BY DEF Init, Board!Init, shown
<1>2. ASSUME IInv, [Next]_vars
      PROVE  [Board!Next]_Board!vars
  <2> USE <1>2 DEF IInv, TypeOK
  <2>1. ASSUME NEW j \in Jobs, NEW c \in Contents, NEW s \in Statuses,
               Add(j, c, s) \/ Update(j, c, s)
        PROVE  [Board!Next]_Board!vars
    <3>1. Save(j, c, s) /\ s # "published"
      BY <2>1 DEF Add, Update
    <3>2. shown' = [shown EXCEPT ![j] = None]
      BY <3>1 DEF Save, SetStatus, shown
    <3>3. Board!Write(j, c)
      BY <3>1, <3>2 DEF Save, Board!Write
    <3>4. QED
      BY <3>3 DEF Board!Next
  <2>2. ASSUME NEW j \in Jobs, Archive(j) \/ Delete(j) \/ Reject(j)
        PROVE  [Board!Next]_Board!vars
    BY <2>2, TakesDown DEF Archive, Delete, Reject, SetStatus
  <2>3. ASSUME NEW e \in Publishes, PublishWrite(e)
        PROVE  [Board!Next]_Board!vars
    <3>1. edit[e].job \in Jobs
      BY <2>3 DEF PublishWrite, PublishRequest
    <3>2. UNCHANGED content
      BY <2>3 DEF PublishWrite
    <3>3. \A j \in Jobs : status'[j] = "published" => status[j] = "published"
      BY <2>3, <3>1 DEF PublishWrite, SetStatus
    <3>4. QED
      BY <3>2, <3>3, TakesDown
  <2>4. ASSUME NEW r \in Approvals, ApproveUpdate(r)
        PROVE  [Board!Next]_Board!vars
    <3> DEFINE j == review[r].job
    <3>1. j \in Jobs /\ j \in submitted
      BY <2>4 DEF ApproveUpdate, ApproveRequest, Provenance
    <3>2. content[j] # None
      BY <3>1 DEF RowsWritten
    <3>3. shown' = [shown EXCEPT ![j] = content[j]] /\ UNCHANGED content
      BY <2>4, <3>1 DEF ApproveUpdate, SetStatus, shown
    <3>4. Board!Approve(j)
      BY <3>2, <3>3 DEF Board!Approve
    <3>5. QED
      BY <3>1, <3>4 DEF Board!Next
  <2>5. CASE ArchiveExpired
    BY <2>5, TakesDown DEF ArchiveExpired
  <2>6. CASE UNCHANGED <<status, content>>
    BY <2>6 DEF Board!vars, shown
  <2>7. QED
    <3>1. \/ \E j \in Jobs, c \in Contents, s \in Statuses : Add(j, c, s) \/ Update(j, c, s)
          \/ \E j \in Jobs : Archive(j) \/ Delete(j) \/ Reject(j)
          \/ \E e \in Publishes : PublishWrite(e)
          \/ \E r \in Approvals : ApproveUpdate(r)
          \/ ArchiveExpired
          \/ UNCHANGED <<status, content>>
      BY NextCases DEF vars, rows, PublishRead, AbandonPublish, LoadPendingPage,
           ApproveSnapshot, ApproveReadBack, ApprovePost, AbandonApprove, Apply,
           CancelApplication, Tick
    <3>2. QED
      BY <2>1, <2>2, <2>3, <2>4, <2>5, <2>6, <3>1
<1>3. QED
  BY <1>1, <1>2, Inductive, PTL DEF Spec, ImplementsBoard, Board!Spec
=============================================================================
