----------------------------- MODULE SyncerProofs -----------------------------
(***************************************************************************)
(* Proofs about Syncer, for any foundations, names, data and landscapes,   *)
(* any number of tasks at a time and any bounds on changes and failures.   *)
(*                                                                         *)
(* The heart of it is the invariant of a task that executes its statements *)
(* (Planned): every row agrees with what was fetched or has a statement    *)
(* left, and every statement left brings its row to agree when executed.   *)
(***************************************************************************)
EXTENDS Syncer, TLAPS

USE LandscapesAssumption, StrippedAssumption, AbsentAssumption, BoundsAssumption

RowsOf == [Names -> Data \cup {Absent}]

RowsType == [Foundations -> [Kinds -> RowsOf]]

-----------------------------------------------------------------------------
(* Facts about what is fetched.                                            *)

LEMMA StripKindType ==
  ASSUME NEW k \in Kinds, NEW s \in Seq(Entry)
  PROVE  StripKind(k, s) \in Seq(Entry)
<1>1. CASE k = "projects"
  BY <1>1 DEF StripKind
<1>2. CASE k # "projects"
  <2>1. \A e \in Entry : [e EXCEPT !.name = Stripped[@]] \in Entry
    BY DEF Entry
  <2>2. \A i \in 1..Len(s) : s[i] \in Entry
    OBVIOUS
  <2>3. StripKind(k, s) = [i \in 1..Len(s) |-> [s[i] EXCEPT !.name = Stripped[@]]]
    BY <1>2 DEF StripKind
  <2>4. StripKind(k, s) \in [1..Len(s) -> Entry]
    BY <2>1, <2>2, <2>3
  <2>5. QED
    BY <2>4
<1>3. QED
  BY <1>1, <1>2

LEMMA AgreeingType ==
  ASSUME NEW k \in Kinds, NEW s \in Seq(Entry), NEW n \in Names
  PROVE  /\ Agreeing(k, s, n) \subseteq Data \cup {Absent}
         /\ Named(s, n) = {} => Absent \in Agreeing(k, s, n)
         /\ \A i \in DOMAIN s : s[i].name = n => s[i].data \in Agreeing(k, s, n)
<1>1. \A i \in DOMAIN s : s[i].data \in Data
  <2>1. \A i \in DOMAIN s : s[i] \in Entry
    OBVIOUS
  <2>2. QED
    BY <2>1 DEF Entry
<1> DEFINE listed == {s[i].data : i \in Named(s, n)}
           none   == IF \A i \in Named(s, n) : Hidden(k, s[i]) THEN {Absent} ELSE {}
<1>2. Agreeing(k, s, n) = listed \cup none
  BY DEF Agreeing
<1>3. listed \subseteq Data
  BY <1>1 DEF Named
<1>4. none \subseteq {Absent} /\ (Named(s, n) = {} => Absent \in none)
  OBVIOUS
<1>5. \A i \in DOMAIN s : s[i].name = n => s[i].data \in listed
  BY DEF Named
<1> HIDE DEF listed, none
<1>6. QED
  BY <1>2, <1>3, <1>4, <1>5

(* Changing one row changes no other.                                      *)
LEMMA OneRow ==
  ASSUME NEW r \in RowsType, NEW f \in Foundations, NEW k \in Kinds, NEW n \in Names,
         NEW v \in Data \cup {Absent}
  PROVE  LET new == [r EXCEPT ![f][k][n] = v] IN
           /\ new \in RowsType
           /\ new[f][k] = [r[f][k] EXCEPT ![n] = v]
           /\ \A g \in Foundations, l \in Kinds :
                g # f \/ l # k => new[g][l] = r[g][l]
<1> USE DEF RowsType, RowsOf
<1>1. r[f] \in [Kinds -> RowsOf]
  OBVIOUS
<1> DEFINE row  == [r[f][k] EXCEPT ![n] = v]
           part == [r[f] EXCEPT ![k] = row]
<1>2. row \in RowsOf
  BY <1>1
<1>3. part \in [Kinds -> RowsOf]
  BY <1>1, <1>2
<1>4. [r EXCEPT ![f][k][n] = v] = [r EXCEPT ![f] = part]
  OBVIOUS
<1>5. part[k] = row /\ \A l \in Kinds : l # k => part[l] = r[f][l]
  BY <1>1
<1> HIDE DEF part, row
<1>6. /\ [r EXCEPT ![f] = part] \in RowsType
      /\ [r EXCEPT ![f] = part][f] = part
      /\ \A g \in Foundations : g # f => [r EXCEPT ![f] = part][g] = r[g]
  BY <1>3
<1>7. QED
  BY <1>4, <1>5, <1>6 DEF row

-----------------------------------------------------------------------------
(* Tasks.                                                                  *)

LEMMA TaskTypes ==
  ASSUME NEW r \in Task, NEW s \in {"waiting", "fetch", "list", "apply", "done", "failed"},
         NEW x
  PROVE  /\ [r EXCEPT !.step = s] \in Task
         /\ [r EXCEPT !.step = s].step = s /\ [r EXCEPT !.step = s].kind = r.kind
         /\ LET q == [r EXCEPT !.adds = @ \ {x}] IN
              /\ q \in Task /\ q.step = r.step /\ q.kind = r.kind
              /\ q.adds = r.adds \ {x} /\ q.removals = r.removals /\ q.updates = r.updates
         /\ LET q == [r EXCEPT !.removals = @ \ {x}] IN
              /\ q \in Task /\ q.step = r.step /\ q.kind = r.kind
              /\ q.adds = r.adds /\ q.removals = r.removals \ {x} /\ q.updates = r.updates
         /\ LET q == [r EXCEPT !.updates = @ \ {x}] IN
              /\ q \in Task /\ q.step = r.step /\ q.kind = r.kind
              /\ q.adds = r.adds /\ q.removals = r.removals /\ q.updates = r.updates \ {x}
         /\ AtStart(s) \in Task /\ AtStart(s).kind = "members" /\ AtStart(s).step = s
         /\ LET q == [AtStart(s) EXCEPT !.kind = "projects"] IN
              q \in Task /\ q.kind = "projects" /\ q.step = s
BY DEF Task, AtStart, Kinds

-----------------------------------------------------------------------------
(* The statements of task t, for the rows old and what was fetched, s.     *)
Planned(k, s, old, t) ==
  /\ t.adds \subseteq DOMAIN s /\ t.updates \subseteq DOMAIN s
  /\ \A n \in t.removals : n \in Names /\ Named(s, n) = {}
  /\ \A i \in t.updates : old[s[i].name] # Absent
  /\ \A n \in Names : \/ old[n] \in Agreeing(k, s, n)
                      \/ n \in t.removals
                      \/ \E i \in t.adds \cup t.updates : s[i].name = n

(* What a task plans is what its rows lack.                                *)
LEMMA PlanMade ==
  ASSUME NEW k \in Kinds, NEW s \in Seq(Entry), NEW old \in RowsOf
  PROVE  LET t == [step |-> "apply", kind |-> k, adds |-> Added(k, s, old),
                   removals |-> Removed(s, old), updates |-> Updated(k, s, old)]
         IN  t \in Task /\ Planned(k, s, old, t)
<1> DEFINE t == [step |-> "apply", kind |-> k, adds |-> Added(k, s, old),
                 removals |-> Removed(s, old), updates |-> Updated(k, s, old)]
<1>1. t \in Task
  <2>1. Added(k, s, old) \subseteq Nat /\ Updated(k, s, old) \subseteq Nat
    BY DEF Added, Updated
  <2>2. Removed(s, old) \subseteq Names
    BY DEF Removed
  <2>3. QED
    BY <2>1, <2>2 DEF Task
<1>2. ASSUME NEW n \in Names
      PROVE  \/ old[n] \in Agreeing(k, s, n)
             \/ n \in Removed(s, old)
             \/ \E i \in Added(k, s, old) \cup Updated(k, s, old) : s[i].name = n
  <2>1. CASE old[n] = Absent
    <3>1. CASE \A i \in Named(s, n) : Hidden(k, s[i])
      BY <2>1, <3>1 DEF Agreeing
    <3>2. CASE \E i \in Named(s, n) : ~Hidden(k, s[i])
      BY <2>1, <3>2 DEF Named, Added
    <3>3. QED
      BY <3>1, <3>2
  <2>2. CASE old[n] # Absent
    <3>1. CASE Named(s, n) = {}
      BY <2>2, <3>1 DEF Removed
    <3>2. ASSUME NEW i \in Named(s, n), s[i].data = old[n]
          PROVE  old[n] \in Agreeing(k, s, n)
      BY <3>2 DEF Agreeing
    <3>3. ASSUME NEW i \in Named(s, n), s[i].data # old[n]
          PROVE  i \in Updated(k, s, old) /\ s[i].name = n
      BY <2>2, <3>3 DEF Named, Updated
    <3>4. QED
      BY <3>1, <3>2, <3>3
  <2>3. QED
    BY <2>1, <2>2
<1>3. Planned(k, s, old, t)
  <2>1. t.adds = Added(k, s, old) /\ t.removals = Removed(s, old)
        /\ t.updates = Updated(k, s, old)
    OBVIOUS
  <2>2. Added(k, s, old) \subseteq DOMAIN s /\ Updated(k, s, old) \subseteq DOMAIN s
        /\ \A i \in Updated(k, s, old) : old[s[i].name] # Absent
    BY DEF Added, Updated
  <2>3. \A n \in Removed(s, old) : n \in Names /\ Named(s, n) = {}
    BY DEF Removed
  <2> HIDE DEF t
  <2>4. QED
    BY <1>2, <2>1, <2>2, <2>3 DEF Planned
<1>4. QED
  BY <1>1, <1>3

(* An entry that was fetched has a name.                                   *)
LEMMA EntryTypes ==
  ASSUME NEW s \in Seq(Entry), NEW i \in DOMAIN s
  PROVE  s[i].name \in Names /\ s[i].data \in Data
<1>1. s[i] \in Entry
  OBVIOUS
<1>2. QED
  BY <1>1 DEF Entry

(* A statement brings the row it is about to agree, and keeps the plan.    *)
LEMMA PlanKept ==
  ASSUME NEW k \in Kinds, NEW s \in Seq(Entry), NEW old \in RowsOf, NEW t \in Task,
         Planned(k, s, old, t)
  PROVE  /\ \A i \in t.adds :
              /\ s[i].name \in Names /\ s[i].data \in Agreeing(k, s, s[i].name)
              /\ Planned(k, s, [old EXCEPT ![s[i].name] = s[i].data],
                         [t EXCEPT !.adds = @ \ {i}])
         /\ \A n \in t.removals :
              /\ n \in Names /\ Absent \in Agreeing(k, s, n)
              /\ Planned(k, s, [old EXCEPT ![n] = Absent],
                         [t EXCEPT !.removals = @ \ {n}])
         /\ \A i \in t.updates :
              /\ s[i].name \in Names /\ s[i].data \in Agreeing(k, s, s[i].name)
              /\ old[s[i].name] # Absent
              /\ Planned(k, s, [old EXCEPT ![s[i].name] = s[i].data],
                         [t EXCEPT !.updates = @ \ {i}])
<1>1. ASSUME NEW i \in t.adds
      PROVE  /\ s[i].name \in Names /\ s[i].data \in Agreeing(k, s, s[i].name)
             /\ Planned(k, s, [old EXCEPT ![s[i].name] = s[i].data],
                        [t EXCEPT !.adds = @ \ {i}])
  <2> DEFINE q == [t EXCEPT !.adds = @ \ {i}]
             new == [old EXCEPT ![s[i].name] = s[i].data]
  <2>1. i \in DOMAIN s /\ s[i].name \in Names /\ s[i].data \in Data
    BY EntryTypes DEF Planned
  <2>2. s[i].data \in Agreeing(k, s, s[i].name)
    BY <2>1, AgreeingType
  <2>3. q.adds = t.adds \ {i} /\ q.removals = t.removals /\ q.updates = t.updates
    BY TaskTypes
  <2>4. /\ new[s[i].name] = s[i].data
        /\ \A m \in Names : m # s[i].name => new[m] = old[m]
    BY <2>1 DEF RowsOf
  <2> HIDE DEF q, new
  <2>5. \A j \in t.updates : new[s[j].name] # Absent
    BY <2>1, <2>4, EntryTypes DEF Planned
  <2>6. \A n \in Names : \/ new[n] \in Agreeing(k, s, n)
                         \/ n \in q.removals
                         \/ \E j \in q.adds \cup q.updates : s[j].name = n
    BY <2>2, <2>3, <2>4 DEF Planned
  <2>7. Planned(k, s, new, q)
    BY <2>3, <2>5, <2>6 DEF Planned
  <2>8. QED
    BY <2>1, <2>2, <2>7 DEF q, new
<1>2. ASSUME NEW n \in t.removals
      PROVE  /\ n \in Names /\ Absent \in Agreeing(k, s, n)
             /\ Planned(k, s, [old EXCEPT ![n] = Absent], [t EXCEPT !.removals = @ \ {n}])
  <2> DEFINE q == [t EXCEPT !.removals = @ \ {n}]
             new == [old EXCEPT ![n] = Absent]
  <2>1. n \in Names /\ Named(s, n) = {}
    BY DEF Planned
  <2>2. Absent \in Agreeing(k, s, n)
    BY <2>1, AgreeingType
  <2>3. q.adds = t.adds /\ q.removals = t.removals \ {n} /\ q.updates = t.updates
    BY TaskTypes
  <2>4. new[n] = Absent /\ \A m \in Names : m # n => new[m] = old[m]
    BY <2>1 DEF RowsOf
  <2> HIDE DEF q, new
  <2>5. ASSUME NEW j \in t.updates
        PROVE  new[s[j].name] # Absent
    <3>1. j \in DOMAIN s /\ s[j].name # n
      BY <2>1 DEF Planned, Named
    <3>2. QED
      BY <2>4, <3>1, EntryTypes DEF Planned
  <2>6. \A m \in Names : \/ new[m] \in Agreeing(k, s, m)
                         \/ m \in q.removals
                         \/ \E j \in q.adds \cup q.updates : s[j].name = m
    BY <2>2, <2>3, <2>4 DEF Planned
  <2>7. Planned(k, s, new, q)
    BY <2>3, <2>5, <2>6 DEF Planned
  <2>8. QED
    BY <2>1, <2>2, <2>7 DEF q, new
<1>3. ASSUME NEW i \in t.updates
      PROVE  /\ s[i].name \in Names /\ s[i].data \in Agreeing(k, s, s[i].name)
             /\ old[s[i].name] # Absent
             /\ Planned(k, s, [old EXCEPT ![s[i].name] = s[i].data],
                        [t EXCEPT !.updates = @ \ {i}])
  <2> DEFINE q == [t EXCEPT !.updates = @ \ {i}]
             new == [old EXCEPT ![s[i].name] = s[i].data]
  <2>1. i \in DOMAIN s /\ s[i].name \in Names /\ s[i].data \in Data
    BY EntryTypes DEF Planned
  <2>2. s[i].data \in Agreeing(k, s, s[i].name)
    BY <2>1, AgreeingType
  <2>3. q.adds = t.adds /\ q.removals = t.removals /\ q.updates = t.updates \ {i}
    BY TaskTypes
  <2>4. /\ new[s[i].name] = s[i].data
        /\ \A m \in Names : m # s[i].name => new[m] = old[m]
    BY <2>1 DEF RowsOf
  <2> HIDE DEF q, new
  <2>5. \A j \in q.updates : new[s[j].name] # Absent
    BY <2>1, <2>3, <2>4, EntryTypes DEF Planned
  <2>6. \A n \in Names : \/ new[n] \in Agreeing(k, s, n)
                         \/ n \in q.removals
                         \/ \E j \in q.adds \cup q.updates : s[j].name = n
    BY <2>2, <2>3, <2>4 DEF Planned
  <2>7. Planned(k, s, new, q)
    BY <2>3, <2>5, <2>6 DEF Planned
  <2>8. QED
    BY <2>1, <2>2, <2>7 DEF q, new, Planned
<1>4. QED
  BY <1>1, <1>2, <1>3

-----------------------------------------------------------------------------
(* What a task t has done for its foundation's rows old, of what it fetched*)
(* last, s: the plan of the kind it is at, and all of the kinds before it. *)
TaskOK(t, s, old) ==
  /\ t.step = "apply" => Planned(t.kind, s[t.kind], old[t.kind], t)
  /\ t.kind = "projects" =>
       \A n \in Names : old["members"][n] \in Agreeing("members", s["members"], n)
  /\ t.step = "done" =>
       /\ t.kind = "projects"
       /\ \A n \in Names : old["projects"][n] \in Agreeing("projects", s["projects"], n)

TasksOK == \A f \in Foundations : TaskOK(task[f], seen[f], rows[f])

OkIsDone == result = "ok" => \A f \in Foundations : task[f].step = "done"

IInv ==
  /\ TypeOK
  /\ TasksOK
  /\ OkIsDone

(* What TypeOK says of one foundation.                                     *)
LEMMA Types ==
  ASSUME TypeOK, NEW f \in Foundations
  PROVE  /\ task[f] \in Task /\ task[f].kind \in Kinds
         /\ \A k \in Kinds : seen[f][k] \in Seq(Entry) /\ rows[f][k] \in RowsOf
         /\ \A k \in Kinds : landscape[f][k] \in Seq(Entry)
         /\ rows \in RowsType
BY DEF TypeOK, Task, RowsOf, RowsType

(* A statement fails, or changes one row to a value that agrees.           *)
LEMMA Statement ==
  ASSUME TypeOK, TasksOK, NEW f \in Foundations, Add(f) \/ Remove(f) \/ Update(f)
  PROVE  \E q \in Task :
           /\ task' = [task EXCEPT ![f] = q]
           /\ q.kind = task[f].kind
           /\ \/ q.step = "failed" /\ UNCHANGED rows
              \/ /\ q.step = "apply"
                 /\ \E n \in Names : \E v \in Agreeing(q.kind, seen[f][q.kind], n) :
                      /\ rows' = [rows EXCEPT ![f][q.kind][n] = v]
                      /\ Planned(q.kind, seen[f][q.kind],
                                 [rows[f][q.kind] EXCEPT ![n] = v], q)
<1> DEFINE t == task[f]
           k == t.kind
           s == seen[f][k]
           old == rows[f][k]
<1>1. t \in Task /\ k \in Kinds /\ s \in Seq(Entry) /\ old \in RowsOf
  BY Types
<1>2. t.step = "apply"
  BY DEF Add, Remove, Update, At
<1>3. Planned(k, s, old, t)
  BY <1>2 DEF TasksOK, TaskOK
<1>4. CASE Add(f)
  <2>1. PICK i \in t.adds :
          IF old[s[i].name] = Absent
          THEN /\ rows' = [rows EXCEPT ![f][k][s[i].name] = s[i].data]
               /\ task' = [task EXCEPT ![f] = [t EXCEPT !.adds = @ \ {i}]]
          ELSE task' = [task EXCEPT ![f] = [t EXCEPT !.step = "failed"]] /\ UNCHANGED rows
    BY <1>4 DEF Add, Fetched, SetRow, GoTo
  <2> DEFINE q == [t EXCEPT !.adds = @ \ {i}]
  <2>2. q \in Task /\ q.kind = k /\ q.step = "apply"
    BY <1>1, <1>2 DEF Task
  <2>3. /\ s[i].name \in Names /\ s[i].data \in Agreeing(k, s, s[i].name)
        /\ Planned(k, s, [old EXCEPT ![s[i].name] = s[i].data], q)
    BY <1>1, <1>3, PlanKept
  <2>4. [t EXCEPT !.step = "failed"] \in Task /\ [t EXCEPT !.step = "failed"].kind = k
        /\ [t EXCEPT !.step = "failed"].step = "failed"
    BY <1>1, TaskTypes
  <2> HIDE DEF q
  <2>5. CASE old[s[i].name] = Absent
    BY <2>1, <2>2, <2>3, <2>5 DEF q
  <2>6. CASE old[s[i].name] # Absent
    BY <2>1, <2>4, <2>6
  <2>7. QED
    BY <2>5, <2>6
<1>5. CASE Remove(f)
  <2>1. PICK n \in t.removals :
          /\ rows' = [rows EXCEPT ![f][k][n] = Absent]
          /\ task' = [task EXCEPT ![f] = [t EXCEPT !.removals = @ \ {n}]]
    BY <1>5 DEF Remove, SetRow
  <2> DEFINE q == [t EXCEPT !.removals = @ \ {n}]
  <2>2. q \in Task /\ q.kind = k /\ q.step = "apply"
    BY <1>1, <1>2 DEF Task
  <2>3. /\ n \in Names /\ Absent \in Agreeing(k, s, n)
        /\ Planned(k, s, [old EXCEPT ![n] = Absent], q)
    BY <1>1, <1>3, PlanKept
  <2> HIDE DEF q
  <2>4. QED
    BY <2>1, <2>2, <2>3 DEF q
<1>6. CASE Update(f)
  <2>1. PICK i \in t.updates :
          /\ IF old[s[i].name] = Absent THEN UNCHANGED rows
             ELSE rows' = [rows EXCEPT ![f][k][s[i].name] = s[i].data]
          /\ task' = [task EXCEPT ![f] = [t EXCEPT !.updates = @ \ {i}]]
    BY <1>6 DEF Update, Fetched, SetRow
  <2> DEFINE q == [t EXCEPT !.updates = @ \ {i}]
  <2>2. q \in Task /\ q.kind = k /\ q.step = "apply"
    BY <1>1, <1>2 DEF Task
  <2>3. /\ s[i].name \in Names /\ s[i].data \in Agreeing(k, s, s[i].name)
        /\ old[s[i].name] # Absent
        /\ Planned(k, s, [old EXCEPT ![s[i].name] = s[i].data], q)
    BY <1>1, <1>3, PlanKept
  <2> HIDE DEF q
  <2>4. QED
    BY <2>1, <2>2, <2>3 DEF q
<1>7. QED
  BY <1>4, <1>5, <1>6

-----------------------------------------------------------------------------
(* A step of one task concerns that task alone.                            *)
LEMMA OneTask ==
  ASSUME IInv, NEW f \in Foundations, NEW q \in Task,
         result = "running", result' = result,
         task' = [task EXCEPT ![f] = q],
         TaskOK(q, seen'[f], rows'[f]),
         \A g \in Foundations \ {f} : seen'[g] = seen[g] /\ rows'[g] = rows[g],
         seen' \in [Foundations -> [Kinds -> Seq(Entry)]], rows' \in RowsType,
         landscape' = landscape, changes' = changes, failures' \in 0..MaxFailures
  PROVE  IInv'
<1>1. task' \in [Foundations -> Task] /\ task'[f] = q
      /\ \A g \in Foundations \ {f} : task'[g] = task[g]
  BY DEF IInv, TypeOK
<1>2. TypeOK'
  BY <1>1 DEF IInv, TypeOK, RowsType, RowsOf
<1>3. TasksOK'
  BY <1>1 DEF IInv, TasksOK
<1>4. OkIsDone'
  BY DEF OkIsDone
<1>5. QED
  BY <1>2, <1>3, <1>4 DEF IInv

LEMMA InitIInv == Init => IInv
<1> SUFFICES ASSUME Init
             PROVE  IInv
  OBVIOUS
<1>1. AtStart("waiting") \in Task /\ AtStart("waiting").kind = "members"
      /\ AtStart("waiting").step = "waiting"
  BY DEF AtStart, Task, Kinds
<1>2. <<>> \in Seq(Entry)
  OBVIOUS
<1>3. landscape \in [Foundations -> [Kinds -> Seq(Entry)]]
  <2>1. \A f \in Foundations, k \in Kinds : landscape[f][k] \in Landscapes[f][k]
    BY DEF Init
  <2>2. \A f \in Foundations, k \in Kinds : landscape[f][k] \in Seq(Entry)
    BY <2>1
  <2>3. QED
    BY <2>2 DEF Init
<1>4. TypeOK
  BY <1>1, <1>2, <1>3 DEF Init, TypeOK
<1>5. TasksOK
  BY <1>1 DEF Init, TasksOK, TaskOK
<1>6. OkIsDone
  BY DEF Init, OkIsDone
<1>7. QED
  BY <1>4, <1>5, <1>6 DEF IInv

LEMMA NextIInv == IInv /\ [Next]_vars => IInv'
<1> SUFFICES ASSUME IInv, [Next]_vars
             PROVE  IInv'
  OBVIOUS
<1> USE DEF IInv
<1>1. ASSUME NEW f \in Foundations, Start(f) \/ Fail(f)
      PROVE  IInv'
  <2>1. PICK s \in {"fetch", "failed"} : GoTo(f, s)
    BY <1>1 DEF Start, Fail
  <2> DEFINE q == [task[f] EXCEPT !.step = s]
  <2>2. q \in Task /\ q.step = s /\ q.kind = task[f].kind
    BY Types DEF Task
  <2>3. TaskOK(task[f], seen[f], rows[f])
    BY DEF TasksOK
  <2>4. TaskOK(q, seen[f], rows[f])
    BY <2>2, <2>3 DEF TaskOK
  <2>5. task' = [task EXCEPT ![f] = q]
    BY <2>1 DEF GoTo
  <2>6. failures' \in 0..MaxFailures
    BY <1>1 DEF Start, Fail, Fails, TypeOK
  <2> HIDE DEF q
  <2>7. QED
    BY <1>1, <2>2, <2>4, <2>5, <2>6, OneTask, Types DEF Start, Fail, At, TypeOK
<1>2. ASSUME NEW f \in Foundations, Fetch(f)
      PROVE  IInv'
  <2> DEFINE k == task[f].kind
             s == StripKind(k, landscape[f][k])
             q == [task[f] EXCEPT !.step = "list"]
  <2>1. s \in Seq(Entry)
    BY Types, StripKindType
  <2>2. seen' = [seen EXCEPT ![f] = [seen[f] EXCEPT ![k] = s]]
    BY <1>2 DEF Fetch
  <2>3. [seen[f] EXCEPT ![k] = s] \in [Kinds -> Seq(Entry)]
    BY <2>1 DEF TypeOK
  <2>4. /\ seen' \in [Foundations -> [Kinds -> Seq(Entry)]]
        /\ \A g \in Foundations \ {f} : seen'[g] = seen[g]
        /\ \A l \in Kinds : l # k => seen'[f][l] = seen[f][l]
    BY <2>2, <2>3 DEF TypeOK
  <2>5. q \in Task /\ q.step = "list" /\ q.kind = k
    BY Types DEF Task
  <2> HIDE DEF q
  <2>6. TaskOK(q, seen'[f], rows'[f])
    <3>1. TaskOK(task[f], seen[f], rows[f]) /\ UNCHANGED rows
      BY <1>2 DEF TasksOK, Fetch
    <3>2. k = "projects" => seen'[f]["members"] = seen[f]["members"]
      BY <2>4 DEF Kinds
    <3>3. QED
      BY <2>5, <3>1, <3>2 DEF TaskOK
  <2>7. task' = [task EXCEPT ![f] = q]
    BY <1>2 DEF Fetch, GoTo, q
  <2>8. QED
    BY <1>2, <2>4, <2>5, <2>6, <2>7, OneTask, Types DEF Fetch, At, TypeOK
<1>3. ASSUME NEW f \in Foundations, List(f)
      PROVE  IInv'
  <2> DEFINE k == task[f].kind
             q == [step |-> "apply", kind |-> k,
                   adds     |-> Added(k, seen[f][k], rows[f][k]),
                   removals |-> Removed(seen[f][k], rows[f][k]),
                   updates  |-> Updated(k, seen[f][k], rows[f][k])]
  <2>1. q \in Task /\ Planned(k, seen[f][k], rows[f][k], q)
    BY Types, PlanMade
  <2>2. task' = [task EXCEPT ![f] = q]
    BY <1>3 DEF List
  <2>3. q.kind = k /\ q.step = "apply"
    OBVIOUS
  <2> HIDE DEF q
  <2>4. TaskOK(q, seen[f], rows[f])
    BY <2>1, <2>3 DEF TasksOK, TaskOK
  <2>5. QED
    BY <1>3, <2>1, <2>2, <2>4, OneTask, Types DEF List, At, TypeOK
<1>4. ASSUME NEW f \in Foundations, Add(f) \/ Remove(f) \/ Update(f)
      PROVE  IInv'
  <2>1. PICK q \in Task :
          /\ task' = [task EXCEPT ![f] = q]
          /\ q.kind = task[f].kind
          /\ \/ q.step = "failed" /\ UNCHANGED rows
             \/ /\ q.step = "apply"
                /\ \E n \in Names : \E v \in Agreeing(q.kind, seen[f][q.kind], n) :
                     /\ rows' = [rows EXCEPT ![f][q.kind][n] = v]
                     /\ Planned(q.kind, seen[f][q.kind],
                                [rows[f][q.kind] EXCEPT ![n] = v], q)
    BY <1>4, Statement
  <2>2. TaskOK(task[f], seen[f], rows[f])
    BY DEF TasksOK
  <2>3. /\ UNCHANGED <<landscape, result, seen, changes, failures>>
        /\ result = "running"
    BY <1>4 DEF Add, Remove, Update, At
  <2>4. CASE q.step = "failed" /\ UNCHANGED rows
    <3>1. TaskOK(q, seen'[f], rows'[f])
      BY <2>1, <2>2, <2>3, <2>4 DEF TaskOK
    <3>2. QED
      BY <2>1, <2>3, <2>4, <3>1, OneTask, Types DEF TypeOK
  <2>5. ASSUME q.step = "apply", NEW n \in Names,
               NEW v \in Agreeing(q.kind, seen[f][q.kind], n),
               rows' = [rows EXCEPT ![f][q.kind][n] = v],
               Planned(q.kind, seen[f][q.kind], [rows[f][q.kind] EXCEPT ![n] = v], q)
        PROVE  IInv'
    <3>1. q.kind \in Kinds /\ seen[f][q.kind] \in Seq(Entry) /\ rows \in RowsType
      BY <2>1, Types
    <3>2. v \in Data \cup {Absent}
      BY <2>5, <3>1, AgreeingType
    <3>3. /\ rows' \in RowsType
          /\ rows'[f][q.kind] = [rows[f][q.kind] EXCEPT ![n] = v]
          /\ \A g \in Foundations, l \in Kinds :
               g # f \/ l # q.kind => rows'[g][l] = rows[g][l]
      <4> DEFINE k == q.kind
                 new == [rows EXCEPT ![f][k][n] = v]
      <4>1. k \in Kinds /\ rows' = new
        BY <2>5, <3>1
      <4> HIDE DEF k
      <4>2. new \in RowsType
        BY <3>1, <3>2, <4>1, OneRow
      <4>3. new[f][k] = [rows[f][k] EXCEPT ![n] = v]
        BY <3>1, <3>2, <4>1, OneRow
      <4>4. \A g \in Foundations, l \in Kinds :
              g # f \/ l # k => new[g][l] = rows[g][l]
        BY <3>1, <3>2, <4>1, OneRow
      <4> HIDE DEF new
      <4>5. QED
        BY <4>1, <4>2, <4>3, <4>4 DEF k
    <3>4. \A g \in Foundations \ {f} : rows'[g] = rows[g]
      BY <3>1, <3>3 DEF RowsType
    <3>5. TaskOK(q, seen'[f], rows'[f])
      <4>1. q.kind = "projects" => rows'[f]["members"] = rows[f]["members"]
        BY <3>3 DEF Kinds
      <4>2. QED
        BY <2>1, <2>2, <2>3, <2>5, <3>3, <4>1 DEF TaskOK
    <3>6. QED
      BY <2>1, <2>3, <3>3, <3>4, <3>5, OneTask DEF TypeOK
  <2>6. QED
    BY <2>1, <2>4, <2>5
<1>5. ASSUME NEW f \in Foundations, Advance(f)
      PROVE  IInv'
  <2> DEFINE t == task[f]
             s == seen[f][t.kind]
             old == rows[f][t.kind]
  <2>1. /\ t.step = "apply" /\ t.adds = {} /\ t.removals = {} /\ t.updates = {}
        /\ result = "running" /\ UNCHANGED <<landscape, rows, result, seen, changes, failures>>
    BY <1>5 DEF Advance, At
  <2>2. TaskOK(t, seen[f], rows[f]) /\ Planned(t.kind, s, old, t)
    BY <2>1 DEF TasksOK, TaskOK
  <2>3. \A n \in Names : old[n] \in Agreeing(t.kind, s, n)
    BY <2>1, <2>2 DEF Planned
  <2>4. CASE t.kind = "members"
    <3> DEFINE q == [AtStart("fetch") EXCEPT !.kind = "projects"]
    <3>1. q \in Task /\ q.kind = "projects" /\ q.step = "fetch"
      BY DEF AtStart, Task, Kinds
    <3>2. task' = [task EXCEPT ![f] = q]
      BY <1>5, <2>4 DEF Advance
    <3> HIDE DEF q
    <3>3. TaskOK(q, seen[f], rows[f])
      BY <2>3, <2>4, <3>1 DEF TaskOK
    <3>4. QED
      BY <2>1, <3>1, <3>2, <3>3, OneTask, Types DEF TypeOK
  <2>5. CASE t.kind = "projects"
    <3> DEFINE q == [t EXCEPT !.step = "done"]
    <3>1. q \in Task /\ q.kind = "projects" /\ q.step = "done"
      BY <2>5, Types DEF Task
    <3>2. task' = [task EXCEPT ![f] = q]
      BY <1>5, <2>5 DEF Advance
    <3> HIDE DEF q
    <3>3. TaskOK(q, seen[f], rows[f])
      BY <2>2, <2>3, <2>5, <3>1 DEF TaskOK
    <3>4. QED
      BY <2>1, <3>1, <3>2, <3>3, OneTask, Types DEF TypeOK
  <2>6. QED
    BY <2>4, <2>5, Types DEF Kinds
<1>6. CASE Finish \/ Crash
  <2>1. UNCHANGED <<landscape, rows, task, seen, changes>>
        /\ result' \in {"ok", "error"}
        /\ (result' = "ok" => \A f \in Foundations : task[f].step = "done")
    BY <1>6 DEF Finish, Crash
  <2>2. failures' \in 0..MaxFailures
    BY <1>6 DEF Finish, Crash, Fails, TypeOK
  <2>3. TypeOK'
    BY <2>1, <2>2 DEF TypeOK
  <2>4. TasksOK' /\ OkIsDone'
    BY <2>1 DEF TasksOK, OkIsDone
  <2>5. QED
    BY <2>3, <2>4
<1>7. CASE Run
  <2>1. AtStart("waiting") \in Task /\ AtStart("waiting").kind = "members"
        /\ AtStart("waiting").step = "waiting"
    BY DEF AtStart, Task, Kinds
  <2>2. TypeOK'
    BY <1>7, <2>1 DEF Run, TypeOK
  <2>3. TasksOK' /\ OkIsDone'
    BY <1>7, <2>1 DEF Run, TasksOK, TaskOK, OkIsDone
  <2>4. QED
    BY <2>2, <2>3
<1>8. ASSUME NEW f \in Foundations, NEW k \in Kinds, Publish(f, k)
      PROVE  IInv'
  <2>1. PICK s \in Landscapes[f][k] : landscape' = [landscape EXCEPT ![f][k] = s]
    BY <1>8 DEF Publish
  <2>2. landscape' = [landscape EXCEPT ![f] = [landscape[f] EXCEPT ![k] = s]]
    BY <2>1
  <2>3. [landscape[f] EXCEPT ![k] = s] \in [Kinds -> Seq(Entry)]
    BY DEF TypeOK
  <2>4. landscape' \in [Foundations -> [Kinds -> Seq(Entry)]]
    BY <2>2, <2>3 DEF TypeOK
  <2>5. changes' \in 0..MaxChanges
    BY <1>8 DEF Publish, TypeOK
  <2>6. QED
    BY <1>8, <2>4, <2>5 DEF Publish, TypeOK, TasksOK, OkIsDone
<1>9. CASE UNCHANGED vars
  BY <1>9 DEF vars, TypeOK, TasksOK, OkIsDone
<1>10. QED
  BY <1>1, <1>2, <1>3, <1>4, <1>5, <1>6, <1>7, <1>8, <1>9 DEF Next, Step

LEMMA Inductive == Spec => []IInv
BY InitIInv, NextIInv, PTL DEF Spec

(* Every variable has its type in every reachable state.                   *)
THEOREM TypeCorrect == Spec => []TypeOK
<1>1. IInv => TypeOK
  BY DEF IInv
<1>2. QED
  BY <1>1, Inductive, PTL

(* A task that reports success leaves rows that agree with what it fetched.*)
THEOREM DoneIsSyncedAlways == Spec => []DoneIsSynced
<1>1. IInv => DoneIsSynced
  <2> SUFFICES ASSUME IInv, NEW f \in Foundations, task[f].step = "done",
                      NEW k \in Kinds, NEW n \in Names
               PROVE  rows[f][k][n] \in Agreeing(k, seen[f][k], n)
    BY DEF DoneIsSynced, Synced
  <2>1. QED
    BY DEF IInv, TasksOK, TaskOK, Kinds
<1>2. QED
  BY <1>1, Inductive, PTL

(* A run that reports success leaves every foundation's rows in agreement. *)
THEOREM OkIsSyncedAlways == Spec => []OkIsSynced
<1>1. IInv => OkIsSynced
  <2> SUFFICES ASSUME IInv, result = "ok", NEW f \in Foundations,
                      NEW k \in Kinds, NEW n \in Names
               PROVE  rows[f][k][n] \in Agreeing(k, seen[f][k], n)
    BY DEF OkIsSynced, Synced
  <2>1. task[f].step = "done"
    BY DEF IInv, OkIsDone
  <2>2. QED
    BY <2>1 DEF IInv, TasksOK, TaskOK, Kinds
<1>2. QED
  BY <1>1, Inductive, PTL

-----------------------------------------------------------------------------
(* What the rows may hold, as module Mirror sees it, if s was fetched.     *)
WantedFor(s) == [f \in Foundations |-> [k \in Kinds |-> [n \in Names |->
                  Agreeing(k, s[f][k], n)]]]

LEMMA WantedType ==
  ASSUME NEW s \in [Foundations -> [Kinds -> Seq(Entry)]]
  PROVE  WantedFor(s)
           \in [Foundations -> [Kinds -> [Names -> SUBSET (Data \cup {Absent})]]]
<1>1. \A f \in Foundations, k \in Kinds, n \in Names :
        Agreeing(k, s[f][k], n) \subseteq Data \cup {Absent}
  BY AgreeingType
<1>2. QED
  BY <1>1 DEF WantedFor

(* The syncer's statements move one row at a time, and only to a value that*)
(* agrees with what was fetched; everything else it does leaves the rows.  *)
THEOREM SyncerImplementsMirror == Spec => ImplementsMirror
<1>1. Init => Promise!Init
  <2> SUFFICES ASSUME Init
               PROVE  Promise!Init
    OBVIOUS
  <2>1. \A k \in Kinds, n \in Names : Agreeing(k, <<>>, n) = {Absent}
    BY DEF Agreeing, Named
  <2>2. QED
    BY <2>1 DEF Init, Promise!Init
<1>2. ASSUME IInv, IInv', [Next]_vars
      PROVE  [Promise!Next]_(Promise!vars)
  <2>1. CASE UNCHANGED rows
    <3>1. seen' \in [Foundations -> [Kinds -> Seq(Entry)]]
      BY <1>2 DEF IInv, TypeOK
    <3>2. WantedFor(seen')
            \in [Foundations -> [Kinds -> [Names -> SUBSET (Data \cup {Absent})]]]
      BY <3>1, WantedType
    <3>3. Promise!Look
      BY <2>1, <3>2 DEF Promise!Look, WantedFor
    <3>4. QED
      BY <3>3 DEF Promise!Next
  <2>2. ASSUME NEW f \in Foundations, Add(f) \/ Remove(f) \/ Update(f), rows' # rows
        PROVE  [Promise!Next]_(Promise!vars)
    <3>1. PICK q \in Task :
            /\ task' = [task EXCEPT ![f] = q]
            /\ q.kind = task[f].kind
            /\ \/ q.step = "failed" /\ UNCHANGED rows
               \/ /\ q.step = "apply"
                  /\ \E n \in Names : \E v \in Agreeing(q.kind, seen[f][q.kind], n) :
                       /\ rows' = [rows EXCEPT ![f][q.kind][n] = v]
                       /\ Planned(q.kind, seen[f][q.kind],
                                  [rows[f][q.kind] EXCEPT ![n] = v], q)
      BY <1>2, <2>2, Statement DEF IInv
    <3>2. PICK n \in Names : \E v \in Agreeing(q.kind, seen[f][q.kind], n) :
                               rows' = [rows EXCEPT ![f][q.kind][n] = v]
      BY <2>2, <3>1
    <3>3. q.kind \in Kinds
      BY <1>2, <3>1, Types DEF IInv
    <3>4. UNCHANGED seen
      BY <2>2 DEF Add, Remove, Update
    <3>5. Promise!Agree(f, q.kind, n)
      BY <3>2, <3>3, <3>4 DEF Promise!Agree
    <3>6. QED
      BY <3>3, <3>5 DEF Promise!Next
  <2>3. QED
    <3>1. UNCHANGED rows \/ \E f \in Foundations : Add(f) \/ Remove(f) \/ Update(f)
      BY <1>2 DEF Next, vars, Step, Start, Fetch, List, Advance, Fail, Finish, Crash,
         Run, Publish
    <3>2. QED
      BY <2>1, <2>2, <3>1
<1>3. QED
  BY <1>1, <1>2, Inductive, PTL DEF Spec, ImplementsMirror, Promise!Spec
=============================================================================
