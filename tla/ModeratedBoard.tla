--------------------------- MODULE ModeratedBoard ---------------------------
(***************************************************************************)
(* What the job board promises to its public: for each job it shows either *)
(* nothing or a text that a moderator approved as a whole, and what it     *)
(* shows never changes under the reader's eyes: a listing appears only by  *)
(* an approval, and any other change of the job first takes it down.       *)
(*                                                                         *)
(* JobLifecycle implements this specification.                             *)
(***************************************************************************)

CONSTANTS Jobs,       \* job identifiers
          Contents,   \* what an employer can write in a job
          None        \* nothing: no text written, nothing shown

VARIABLES written,    \* the current text of each job, as the employer left it
          listing     \* the text the public board shows for each job

vars == <<written, listing>>

Init ==
  /\ written = [j \in Jobs |-> None]
  /\ listing = [j \in Jobs |-> None]

(* An employer writes a text; a job that is being rewritten is not shown.  *)
Write(j, c) ==
  /\ written' = [written EXCEPT ![j] = c]
  /\ listing' = [listing EXCEPT ![j] = None]

(* A moderator approves a job: its text, and no other, is shown.           *)
Approve(j) ==
  /\ written[j] # None
  /\ listing' = [listing EXCEPT ![j] = written[j]]
  /\ UNCHANGED written

(* Any set of listings is taken down: archived, rejected, deleted, or      *)
(* expired.                                                                *)
TakeDown(S) ==
  /\ listing' = [j \in Jobs |-> IF j \in S THEN None ELSE listing[j]]
  /\ UNCHANGED written

Next ==
  \/ \E j \in Jobs, c \in Contents : Write(j, c)
  \/ \E j \in Jobs : Approve(j)
  \/ \E S \in SUBSET Jobs : TakeDown(S)

Spec == Init /\ [][Next]_vars
=============================================================================
