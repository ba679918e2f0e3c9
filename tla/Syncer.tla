-------------------------------- MODULE Syncer --------------------------------
(***************************************************************************)
(* The syncer, a program that runs once a day (never twice at a time) and  *)
(* copies the members and projects that each foundation publishes in its   *)
(* landscape into the database.                                            *)
(*                                                                         *)
(* A run has one task per foundation, a few of them at a time, each with a *)
(* time limit.  A task fetches the members and lists the rows of its       *)
(* foundation, computes from the two which rows to add, to remove and to   *)
(* update, and executes one statement for each; then the same for the      *)
(* projects.  Any error ends the task, and only that task, where it is.    *)
(*                                                                         *)
(* All that is kept of a member (level, logo) or project (maturity, logo)  *)
(* is one member of Data.  Two entries of a landscape may have one name    *)
(* once the syncer has stripped the suffix that tells a member's kind.     *)
(***************************************************************************)
EXTENDS Integers, Sequences, FiniteSets

CONSTANTS
  Foundations, Names, Data,
  Stripped,     \* Stripped[n]: name n without a " (...)" in it
  NonPublic,    \* the names that contain "non-public"
  Archived,     \* the data of a project whose maturity is "archived"
  Landscapes,   \* Landscapes[f][k]: what foundation f may publish, sequences
                \* of entries
  Absent,       \* no row, no request
  MaxTasks,     \* tasks at a time (3 in the code)
  MaxChanges,   \* bound on how often landscapes change
  MaxFailures   \* bound on errors, time-outs and crashes together

Kinds == {"members", "projects"}

(* An entry of a landscape.                                                *)
Entry == [name : Names, data : Data]

ASSUME LandscapesAssumption ==
  \A f \in Foundations, k \in Kinds : Landscapes[f][k] \subseteq Seq(Entry)
ASSUME StrippedAssumption == Stripped \in [Names -> Names]
ASSUME AbsentAssumption == Absent \notin Data
ASSUME BoundsAssumption ==
  MaxTasks \in Nat \ {0} /\ MaxChanges \in Nat /\ MaxFailures \in Nat

VARIABLES
  landscape,  \* what each foundation publishes
  rows,       \* the rows of tables member and project
  task,       \* each foundation's task in the current run
  result,     \* of the run: "running", "ok" or "error"
  seen,       \* what was last fetched of each landscape
  changes,    \* how often a landscape changed (history)
  failures    \* errors, time-outs and crashes so far (history)

vars == <<landscape, rows, task, result, seen, changes, failures>>

(* What a task does next, for which kind, and the statements left to it:   *)
(* the positions, in what was fetched, of the entries to add and to update,*)
(* and the names to remove.                                                *)
Task == [step : {"waiting", "fetch", "list", "apply", "done", "failed"},
         kind : Kinds, adds : SUBSET Nat, removals : SUBSET Names,
         updates : SUBSET Nat]

TypeOK ==
  /\ landscape \in [Foundations -> [Kinds -> Seq(Entry)]]
  /\ rows \in [Foundations -> [Kinds -> [Names -> Data \cup {Absent}]]]
  /\ task \in [Foundations -> Task]
  /\ result \in {"running", "ok", "error"}
  /\ seen \in [Foundations -> [Kinds -> Seq(Entry)]]
  /\ changes \in 0..MaxChanges /\ failures \in 0..MaxFailures

AtStart(step) == [step |-> step, kind |-> "members", adds |-> {},
                  removals |-> {}, updates |-> {}]

Init ==
  /\ landscape \in [Foundations -> [Kinds -> UNION {Landscapes[f][k] :
                                     f \in Foundations, k \in Kinds}]]
  /\ \A f \in Foundations, k \in Kinds : landscape[f][k] \in Landscapes[f][k]
  /\ rows = [f \in Foundations |-> [k \in Kinds |-> [n \in Names |-> Absent]]]
  /\ task = [f \in Foundations |-> AtStart("waiting")]
  /\ result = "running"
  /\ seen = [f \in Foundations |-> [k \in Kinds |-> <<>>]]
  /\ changes = 0 /\ failures = 0

Active(f) == task[f].step \in {"fetch", "list", "apply"}
Ended(f)  == task[f].step \in {"done", "failed"}

At(f, step) == result = "running" /\ task[f].step = step

GoTo(f, step) == task' = [task EXCEPT ![f].step = step]

Fails == failures < MaxFailures /\ failures' = failures + 1

-----------------------------------------------------------------------------
(* What a task computes.                                                   *)

(* MEMBER_KIND is cut out of the names of members; projects keep theirs.   *)
StripKind(k, s) ==
  IF k = "projects" THEN s
  ELSE [i \in DOMAIN s |-> [s[i] EXCEPT !.name = Stripped[@]]]

Named(s, n) == {i \in DOMAIN s : s[i].name = n}

(* Entries that are not added: members that are not public, archived       *)
(* projects.                                                               *)
Hidden(k, e) ==
  IF k = "members" THEN e.name \in NonPublic ELSE e.data = Archived

Added(k, s, old) ==
  {i \in DOMAIN s : old[s[i].name] = Absent /\ ~Hidden(k, s[i])}

(* Variant with a bug: entries are compared as a whole.                    *)
RemovedDiffering(s, old) ==
  {n \in Names : old[n] # Absent /\ \A i \in Named(s, n) : s[i].data # old[n]}

Removed(s, old) == {n \in Names : old[n] # Absent /\ Named(s, n) = {}}

(* Variant with a bug: what is hidden is not updated either.               *)
UpdatedVisible(k, s, old) ==
  {i \in DOMAIN s : /\ old[s[i].name] # Absent /\ old[s[i].name] # s[i].data
                    /\ ~Hidden(k, s[i])}

(* Entries whose row exists and differs.                                   *)
Updated(k, s, old) ==
  {i \in DOMAIN s : old[s[i].name] # Absent /\ old[s[i].name] # s[i].data}

-----------------------------------------------------------------------------
(* The task of a foundation.                                               *)

(* The stream of tasks is not empty, and at most MaxTasks are started.     *)
Start(f) ==
  /\ At(f, "waiting")
  /\ Cardinality({g \in Foundations : Active(g)}) < MaxTasks
  /\ GoTo(f, "fetch")
  /\ UNCHANGED <<landscape, rows, result, seen, changes, failures>>

Fetch(f) ==
  /\ At(f, "fetch")
  /\ seen' = [seen EXCEPT ![f][task[f].kind] =
                StripKind(task[f].kind, landscape[f][task[f].kind])]
  /\ GoTo(f, "list")
  /\ UNCHANGED <<landscape, rows, result, changes, failures>>

List(f) ==
  /\ At(f, "list")
  /\ LET k == task[f].kind IN
       task' = [task EXCEPT ![f] =
                  [step |-> "apply", kind |-> k,
                   adds     |-> Added(k, seen[f][k], rows[f][k]),
                   removals |-> Removed(seen[f][k], rows[f][k]),
                   updates  |-> Updated(k, seen[f][k], rows[f][k])]]
  /\ UNCHANGED <<landscape, rows, result, seen, changes, failures>>

(* Statements are executed in the order of the landscape.                  *)
Leads(i, S) == \A j \in S : i <= j

Fetched(f, i) == seen[f][task[f].kind][i]

SetRow(f, n, v) == rows' = [rows EXCEPT ![f][task[f].kind][n] = v]

(* A name that is there already (twice in the landscape) violates the      *)
(* uniqueness of names: the task fails.                                    *)
Add(f) ==
  /\ At(f, "apply")
  /\ \E i \in task[f].adds : LET e == Fetched(f, i) IN
       /\ Leads(i, task[f].adds)
       /\ IF rows[f][task[f].kind][e.name] = Absent
          THEN /\ SetRow(f, e.name, e.data)
               /\ task' = [task EXCEPT ![f].adds = @ \ {i}]
          ELSE GoTo(f, "failed") /\ UNCHANGED rows
  /\ UNCHANGED <<landscape, result, seen, changes, failures>>

Remove(f) ==
  /\ At(f, "apply") /\ task[f].adds = {}
  /\ \E n \in task[f].removals :
       /\ SetRow(f, n, Absent)
       /\ task' = [task EXCEPT ![f].removals = @ \ {n}]
  /\ UNCHANGED <<landscape, result, seen, changes, failures>>

(* No row is no error.                                                     *)
Update(f) ==
  /\ At(f, "apply") /\ task[f].adds = {} /\ task[f].removals = {}
  /\ \E i \in task[f].updates : LET e == Fetched(f, i) IN
       /\ Leads(i, task[f].updates)
       /\ IF rows[f][task[f].kind][e.name] = Absent THEN UNCHANGED rows
          ELSE SetRow(f, e.name, e.data)
       /\ task' = [task EXCEPT ![f].updates = @ \ {i}]
  /\ UNCHANGED <<landscape, result, seen, changes, failures>>

(* Members first, then projects.                                           *)
Advance(f) ==
  /\ At(f, "apply")
  /\ task[f].adds = {} /\ task[f].removals = {} /\ task[f].updates = {}
  /\ task' = [task EXCEPT ![f] =
                IF @.kind = "members"
                THEN [AtStart("fetch") EXCEPT !.kind = "projects"]
                ELSE [@ EXCEPT !.step = "done"]]
  /\ UNCHANGED <<landscape, rows, result, seen, changes, failures>>

(* A request or statement fails (one that was executed but not answered is *)
(* its action followed by this one), or the task takes too long and is     *)
(* dropped.                                                                *)
Fail(f) ==
  /\ result = "running" /\ Active(f)
  /\ Fails
  /\ GoTo(f, "failed")
  /\ UNCHANGED <<landscape, rows, result, seen, changes>>

-----------------------------------------------------------------------------
(* Runs.                                                                   *)

(* Variant with a bug: the last task decides.                              *)
FinishAsLast ==
  /\ result = "running" /\ \A f \in Foundations : Ended(f)
  /\ \E f \in Foundations :
       result' = IF task[f].step = "done" THEN "ok" ELSE "error"
  /\ UNCHANGED <<landscape, rows, task, seen, changes, failures>>

(* The results are folded into one: an error if any task had one.          *)
Finish ==
  /\ result = "running" /\ \A f \in Foundations : Ended(f)
  /\ result' = IF \A f \in Foundations : task[f].step = "done" THEN "ok"
                                                               ELSE "error"
  /\ UNCHANGED <<landscape, rows, task, seen, changes, failures>>

(* The process ends where it is (its deadline, its node).                  *)
Crash ==
  /\ result = "running"
  /\ Fails
  /\ result' = "error"
  /\ UNCHANGED <<landscape, rows, task, seen, changes>>

(* The next day: never while a run goes on.                                *)
Run ==
  /\ result # "running"
  /\ result' = "running"
  /\ task' = [f \in Foundations |-> AtStart("waiting")]
  /\ UNCHANGED <<landscape, rows, seen, changes, failures>>

(* The foundation publishes something else.                                *)
Publish(f, k) ==
  /\ changes < MaxChanges /\ changes' = changes + 1
  /\ \E s \in Landscapes[f][k] : landscape' = [landscape EXCEPT ![f][k] = s]
  /\ UNCHANGED <<rows, task, result, seen, failures>>

-----------------------------------------------------------------------------

Step(f) ==
  \/ Start(f) \/ Fetch(f) \/ List(f)
  \/ Add(f) \/ Remove(f) \/ Update(f) \/ Advance(f)

Next ==
  \/ \E f \in Foundations : \/ Step(f) \/ Fail(f)
                            \/ \E k \in Kinds : Publish(f, k)
  \/ Finish \/ Crash \/ Run

Spec == Init /\ [][Next]_vars

(* Each task of the stream is polled, and the next day comes.              *)
FairSpec == /\ Spec
            /\ \A f \in Foundations : WF_vars(Step(f))
            /\ WF_vars(Finish) /\ WF_vars(Run)

-----------------------------------------------------------------------------
(* Properties.                                                             *)

(* The values of a row that agree with a landscape: those of the entries of*)
(* its name, and none if all these entries are hidden (or there are none). *)
Agreeing(k, s, n) ==
  {s[i].data : i \in Named(s, n)}
    \cup (IF \A i \in Named(s, n) : Hidden(k, s[i]) THEN {Absent} ELSE {})

Synced(f, k, s) == \A n \in Names : rows[f][k][n] \in Agreeing(k, s, n)

(* A task that reports success has made every row agree with what it       *)
(* fetched, whatever earlier runs left half done.                          *)
DoneIsSynced ==
  \A f \in Foundations : task[f].step = "done" =>
    \A k \in Kinds : Synced(f, k, seen[f][k])

(* A run that reports success has brought every foundation up to date: one *)
(* foundation's error is not lost among the others.                        *)
OkIsSynced ==
  result = "ok" => \A f \in Foundations, k \in Kinds : Synced(f, k, seen[f][k])

(* Rows move one at a time, and only to what agrees with the landscape     *)
(* (module Mirror): a listed member is not even for a moment without its   *)
(* row, whose removal would take its references in jobs and employers away.*)
Promise == INSTANCE Mirror WITH
  wanted <- [f \in Foundations |-> [k \in Kinds |-> [n \in Names |->
               Agreeing(k, seen[f][k], n)]]]

ImplementsMirror == Promise!Spec

(* Whatever errors, time-outs and crashes left behind is repaired: once    *)
(* they and the changes of the landscapes are over, every row agrees with  *)
(* them for ever.                                                          *)
EventuallySynced ==
  <>[](\A f \in Foundations, k \in Kinds :
         Synced(f, k, StripKind(k, landscape[f][k])))
=============================================================================
