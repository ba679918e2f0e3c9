------------------------------- MODULE Listings -------------------------------
(***************************************************************************)
(* Reading the job board page by page.                                     *)
(*                                                                         *)
(* A visitor opens the board with some filters and follows the "next" link *)
(* of each answer to the last page.  Every answer is one query on the      *)
(* board as it then is: jobs are published, leave and are approved again   *)
(* between two pages, and days pass.                                       *)
(*                                                                         *)
(* A link is the filters written as a query string, a search the filters   *)
(* written as JSON; both leave out a filter that has its type's default    *)
(* value.  A limit of zero is thus no limit to the database, but is zero   *)
(* to the links.                                                           *)
(*                                                                         *)
(* One sort order other than by date, salary, stands for the others, which *)
(* differ only in the column; of the filters only the date range, which a  *)
(* job can leave by itself, is kept.  The caches that may answer for the   *)
(* server for ten minutes are left out.                                    *)
(***************************************************************************)
EXTENDS Integers, FiniteSets

CONSTANTS
  Jobs, Visitors,
  Pay,           \* Pay[j]: the highest yearly salary of job j, or Unset
  Ranges,        \* the date ranges, in days
  Expiry,        \* the longest of them, the default of its type (30)
  DefaultLimit,  \* jobs on a page when no limit is asked for (20)
  Asked,         \* the filters a visitor may open the board with
  MaxDay,        \* bound on the days
  MaxChanges,    \* bound on the publications and withdrawals
  Unset

Sorts == {"date", "salary"}
Filters == [sort : Sorts \cup {Unset}, range : Ranges \cup {Unset},
            limit : Nat \cup {Unset}, offset : Nat \cup {Unset}]

ASSUME JobsAssumption == IsFiniteSet(Jobs)
ASSUME PayAssumption == Pay \in [Jobs -> Nat \cup {Unset}]
ASSUME LimitAssumption == DefaultLimit \in Nat \ {0}
ASSUME RangeAssumption == Expiry \in Ranges /\ Ranges \subseteq Nat \ {0}
ASSUME AskedAssumption == Asked \subseteq Filters /\ \A f \in Asked : f.offset = Unset
ASSUME BoundsAssumption == MaxDay \in Nat \ {0} /\ MaxChanges \in Nat

VARIABLES
  day,        \* today
  published,  \* when each job was last published: the day, and its number
              \* in the order of publications; Unset off the board
  changes,    \* how often the board changed
  reading,    \* what each visitor asked for, and the answer it has
  seen,       \* how often each visitor was shown each job (history)
  stayed,     \* the jobs that match and did not move since each visitor
              \* began (history)
  left, came  \* how many matching jobs left and came since (history)

listingsVars == <<day, published, changes, reading, seen, stayed, left, came>>

Offsets == Nat \cup {Unset}
Links == [first : Offsets, prev : Offsets, next : Offsets, last : Offsets]
NoLinks == [first |-> Unset, prev |-> Unset, next |-> Unset, last |-> Unset]

Publications == [day : 0..MaxDay, number : 1 .. Cardinality(Jobs) + MaxChanges]
Readings == [step : {"reading", "failed"}, filters : Filters,
             total : 0..Cardinality(Jobs), links : Links]

ASSUME UnsetAssumption == Unset \notin Nat \cup Sorts \cup Publications \cup Readings

ListingsTypeOK ==
  /\ day \in 0..MaxDay
  /\ published \in [Jobs -> Publications \cup {Unset}]
  /\ changes \in 0..MaxChanges
  /\ reading \in [Visitors -> Readings \cup {Unset}]
  /\ seen \in [Visitors -> [Jobs -> Nat]]
  /\ stayed \in [Visitors -> SUBSET Jobs]
  /\ left \in [Visitors -> Nat]
  /\ came \in [Visitors -> Nat]

(* Any board that publications one after the other make.                   *)
Boards ==
  {p \in [Jobs -> [day : {0}, number : 1..Cardinality(Jobs)] \cup {Unset}] :
     \A j, k \in Jobs : j # k /\ p[j] # Unset => p[j] # p[k]}

(* The last of its jobs was published yesterday.                           *)
ListingsInit ==
  /\ day = 1
  /\ published \in Boards
  /\ changes = 0
  /\ reading = [r \in Visitors |-> Unset]
  /\ seen = [r \in Visitors |-> [j \in Jobs |-> 0]]
  /\ stayed = [r \in Visitors |-> {}]
  /\ left = [r \in Visitors |-> 0]
  /\ came = [r \in Visitors |-> 0]
-----------------------------------------------------------------------------
(* Filters as they are written, and the search the database makes of them. *)

Or(option, default) == IF option = Unset THEN default ELSE option

Unless(option, default) == IF option = default THEN Unset ELSE option

Written(f) ==
  [sort |-> Unless(f.sort, "date"), range |-> Unless(f.range, Expiry),
   limit |-> Unless(f.limit, 0), offset |-> Unless(f.offset, 0)]

Newer(p, j, k) == p[j].number > p[k].number

Before(f, p, j, k) ==
  IF f.sort = "salary" /\ Pay[j] # Pay[k]
    THEN Pay[j] # Unset /\ (Pay[k] = Unset \/ Pay[j] > Pay[k])
    ELSE Newer(p, j, k)

Matching(f, p, d) ==
  {j \in Jobs : p[j] # Unset /\ (f.range = Unset \/ d - p[j].day <= f.range)}

Offset(f) == Or(f.offset, 0)
Limit(f) == Or(f.limit, DefaultLimit)

(* How many jobs come before job j in the order that search f asks for.    *)
Rank(f, p, d, j) == Cardinality({k \in Matching(f, p, d) : Before(f, p, k, j)})

(* Variants with a bug: a page has one job too many, or one too few.       *)
PageInclusive(f) ==
  {j \in Matching(f, published, day) :
     Rank(f, published, day, j) \in Offset(f) .. Offset(f) + Limit(f)}

PageExclusive(f) ==
  {j \in Matching(f, published, day) :
     Rank(f, published, day, j) \in Offset(f) .. Offset(f) + Limit(f) - 2}

(* The jobs of the page that search f asks for.                            *)
Page(f) ==
  {j \in Matching(f, published, day) :
     Rank(f, published, day, j) \in Offset(f) .. Offset(f) + Limit(f) - 1}

(* Variant with a bug: the last page is taken not to be full.              *)
LinksOfUneven(f, total) ==
  LET limit == Limit(f)
      more  == total > Offset(f) + limit
  IN [NoLinks EXCEPT !.next = IF more THEN Offset(f) + limit ELSE Unset,
                     !.last = IF more THEN total - (total % limit) ELSE Unset]

(* The links of an answer with this total to a request with these filters. *)
LinksOf(f, total) ==
  LET offset == Offset(f)
      limit  == Limit(f)
      more   == total > offset + limit
  IN [first |-> IF offset > 0 THEN 0 ELSE Unset,
      prev  |-> IF offset <= 0 THEN Unset ELSE IF offset > limit THEN offset - limit ELSE 0,
      next  |-> IF more THEN offset + limit ELSE Unset,
      last  |-> IF ~more THEN Unset
                ELSE IF total % limit = 0 THEN total - limit ELSE total - (total % limit)]

(* The links of the last page are computed with a remainder by the limit.  *)
Panics(f, total) == f.limit = 0 /\ total > Offset(f)
-----------------------------------------------------------------------------
(* Visitors.                                                               *)

(* A request with filters f: a search, the links of the answer, and the    *)
(* jobs it shows, given the total.                                         *)
Ask(r, f, total) ==
  reading' = [reading EXCEPT ![r] =
    [step |-> IF Panics(f, total) THEN "failed" ELSE "reading", filters |-> f,
     total |-> total,
     links |-> IF Panics(f, total) THEN NoLinks ELSE LinksOf(f, total)]]

Show(r, before, shown) ==
  seen' = [seen EXCEPT ![r] = [j \in Jobs |-> before[j] + IF j \in shown THEN 1 ELSE 0]]

Total(f) == Cardinality(Matching(Written(f), published, day))
Shown(f) == IF Panics(f, Total(f)) THEN {} ELSE Page(Written(f))

Open(r, f) ==
  /\ reading[r] = Unset
  /\ \E total \in {Total(f)}, shown \in {Shown(f)} :
       Ask(r, f, total) /\ Show(r, [j \in Jobs |-> 0], shown)
  /\ stayed' = [stayed EXCEPT ![r] = Matching(Written(f), published, day)]
  /\ left' = [left EXCEPT ![r] = 0]
  /\ came' = [came EXCEPT ![r] = 0]
  /\ UNCHANGED <<day, published, changes>>

(* The next page's filters, as they are written in a URL.                  *)
NextFilters(r) == Written([reading[r].filters EXCEPT !.offset = reading[r].links.next])

(* The visitor follows the link to the next page.                          *)
Follow(r) ==
  /\ reading[r] # Unset /\ reading[r].links.next # Unset
  /\ \E f \in {NextFilters(r)} : \E total \in {Total(f)}, shown \in {Shown(f)} :
       Ask(r, f, total) /\ Show(r, seen[r], shown)
  /\ UNCHANGED <<day, published, changes, stayed, left, came>>

Leave(r) ==
  /\ reading[r] # Unset
  /\ reading' = [reading EXCEPT ![r] = Unset]
  /\ seen' = [seen EXCEPT ![r] = [j \in Jobs |-> 0]]
  /\ stayed' = [stayed EXCEPT ![r] = {}]
  /\ left' = [left EXCEPT ![r] = 0]
  /\ came' = [came EXCEPT ![r] = 0]
  /\ UNCHANGED <<day, published, changes>>
-----------------------------------------------------------------------------
(* The board.                                                              *)

(* What a change means to those who are reading: the jobs that no longer   *)
(* match or that have a new place left, those that match since came.       *)
Note ==
  LET Was(r) == IF reading[r] = Unset THEN {}
                ELSE Matching(Written(reading[r].filters), published, day)
      Is(r)  == IF reading[r] = Unset THEN {}
                ELSE Matching(Written(reading[r].filters), published', day')
      Same(r) == {j \in Was(r) \cap Is(r) : published'[j] = published[j]}
  IN /\ stayed' = [r \in Visitors |-> stayed[r] \cap Same(r)]
     /\ left' = [r \in Visitors |-> left[r] + Cardinality(Was(r) \ Same(r))]
     /\ came' = [r \in Visitors |-> came[r] + Cardinality(Is(r) \ Same(r))]
     /\ UNCHANGED <<reading, seen>>

(* A moderator approves the job, for the first time or again.              *)
Approve(j) ==
  /\ changes < MaxChanges
  /\ changes' = changes + 1
  /\ published' = [published EXCEPT ![j] = [day |-> day, number |-> Cardinality(Jobs) + changes']]
  /\ UNCHANGED day
  /\ Note

(* The job is archived, rejected, deleted or edited.                       *)
Withdraw(j) ==
  /\ changes < MaxChanges
  /\ published[j] # Unset
  /\ changes' = changes + 1
  /\ published' = [published EXCEPT ![j] = Unset]
  /\ UNCHANGED day
  /\ Note

NextDay ==
  /\ day < MaxDay
  /\ day' = day + 1
  /\ UNCHANGED <<published, changes>>
  /\ Note
-----------------------------------------------------------------------------
ListingsNext ==
  \/ \E r \in Visitors : (\E f \in Asked : Open(r, f)) \/ Follow(r) \/ Leave(r)
  \/ \E j \in Jobs : Approve(j) \/ Withdraw(j)
  \/ NextDay

ListingsSpec == ListingsInit /\ [][ListingsNext]_listingsVars
-----------------------------------------------------------------------------
AtLastPage(r) ==
  reading[r] # Unset /\ reading[r].step = "reading" /\ reading[r].links.next = Unset

(* At the last page, a visitor has missed no more of the jobs that stayed  *)
(* on the board all the time than there are jobs that left it: pages are   *)
(* offsets into a list that moves up by one when a job ahead leaves.       *)
MissedAtMostLeft ==
  \A r \in Visitors : AtLastPage(r) =>
    Cardinality({j \in stayed[r] : seen[r][j] = 0}) <= left[r]

(* The times that jobs that stayed were shown after the first.             *)
Repetitions(r) == UNION {{j} \X (2 .. seen[r][j]) : j \in stayed[r]}

(* A job that stayed is shown again only for a job that came: the pages do *)
(* not overlap.                                                            *)
RepeatedAtMostCame ==
  \A r \in Visitors : Cardinality(Repetitions(r)) <= came[r]

(* The links of an answer lead to jobs, as of its total: the last one to a *)
(* page that holds the last job, the next one to a page that is not empty, *)
(* the previous one to a page that ends where this one begins or later.    *)
LinksLand ==
  \A r \in Visitors : reading[r] # Unset =>
    LET f == reading[r].filters
        limit == Limit(f)
        links == reading[r].links
    IN /\ links.next # Unset => links.next = 0 \/ links.next < reading[r].total
       /\ links.last # Unset => /\ links.last < reading[r].total
                               /\ links.last + limit >= reading[r].total
       /\ links.prev # Unset => /\ links.prev + limit >= Offset(f)
                               /\ links.prev < Offset(f)

=============================================================================
