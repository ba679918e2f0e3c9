\* One job, a publish request and two approvals in flight, a
\* moderator's page, a seeker, and a clock that passes the expiry of an
\* approval; the archiver is fair.
SPECIFICATION FairSpec
CONSTANTS
  Jobs = {j1}
  Contents = {c1, c2}
  Publishes = {e1}
  Moderators = {m1}
  Approvals = {r1, r2}
  Seekers = {s1}
  None = None
  Expiry = 1
  MaxTime = 2
INVARIANTS
  PublishedIsApproved
  PublishedWasSubmitted
  OnePostUnlessRaced
  AppliedAfterApproval
PROPERTIES
  OnlyApprovalUndeletes
  OnlyOvertakenPublishParts
  ImplementsBoard
  ExpiredLeavesBoard
