---------------------------- MODULE EventTracker ----------------------------
(***************************************************************************)
(* The pipeline that counts job views and search appearances.              *)
(*                                                                         *)
(*   track handlers -> events channel -> aggregator -> batches channel     *)
(*                                         -> flusher -> PostgreSQL        *)
(*                                                                         *)
(* Both channels are bounded: a full events channel makes handlers wait, a *)
(* full batches channel makes the aggregator wait (and read no events).    *)
(* On a graceful shutdown the server first answers the requests it has,    *)
(* then cancels its workers and waits for them.  A crash loses what is in  *)
(* memory.  A batch whose write fails is logged and given up.              *)
(*                                                                         *)
(* A hit is one occurrence of a job in a request.  The totals of a batch   *)
(* per job and day are represented by the set of the hits they sum up, and *)
(* the tables by how often each hit was added to a total.                  *)
(***************************************************************************)
EXTENDS Integers, Sequences, FiniteSets, Functions

CONSTANTS Jobs,             \* job identifiers
          Requests,         \* the track requests that browsers send, once each
          Kind,             \* Kind[r]: "view" or "search"
          Shown,            \* Shown[r]: the sequence of jobs the request lists
          EventsCapacity,   \* 100 in the code
          BatchesCapacity,  \* 5 in the code
          MaxStarts         \* bound on the starts of the server

ASSUME RequestsAssumption ==
  /\ Kind \in [Requests -> {"view", "search"}]
  /\ Shown \in [Requests -> Seq(Jobs)]
  /\ \A r \in Requests : Kind[r] = "view" => Len(Shown[r]) = 1
ASSUME CapacityAssumption ==
  EventsCapacity \in Nat \ {0} /\ BatchesCapacity \in Nat \ {0}
ASSUME StartsAssumption == MaxStarts \in Nat \ {0}

(* The hits a request reports.                                             *)
HitsOf(r) == {<<r, i>> : i \in DOMAIN Shown[r]}
Hits == UNION {HitsOf(r) : r \in Requests}
Job(h) == Shown[h[1]][h[2]]
KindOf(h) == Kind[h[1]]

VARIABLES
  server,      \* serving, draining (requests in flight only), stopping
               \* (workers cancelled), stopped, or crashed
  starts,      \* how often it was started
  request,     \* what the browser knows: new, waiting, tracked or failed
  events,      \* events channel: a sequence of requests
  batch,       \* the aggregator's hits, not yet sent
  aggregator,  \* selecting, flushing, flushing-last or exited
  batches,     \* batches channel: a sequence of sets of hits
  flusher,     \* receiving, writing-views, writing-searches or exited
  writing,     \* the flusher's hits, not yet written
  published,   \* the jobs published at the moment
  count,       \* how often each hit was added to a total in the database
  missed       \* why a hit will not be counted: no, crash, error, unpublished

memory   == <<events, batch, aggregator, batches, flusher, writing>>
database == <<published, count>>
vars     == <<server, starts, request, memory, database, missed>>

TypeOK ==
  /\ server \in {"serving", "draining", "stopping", "stopped", "crashed"}
  /\ starts \in 1..MaxStarts
  /\ request \in [Requests -> {"new", "waiting", "tracked", "failed"}]
  /\ events \in Seq(Requests) /\ Len(events) <= EventsCapacity
  /\ batch \subseteq Hits
  /\ aggregator \in {"selecting", "flushing", "flushing-last", "exited"}
  /\ batches \in Seq(SUBSET Hits) /\ Len(batches) <= BatchesCapacity
  /\ flusher \in {"receiving", "writing-views", "writing-searches", "exited"}
  /\ writing \subseteq Hits
  /\ published \subseteq Jobs
  /\ count \in [Hits -> Nat]
  /\ missed \in [Hits -> {"no", "crash", "error", "unpublished"}]

(* What the workers start from.                                            *)
Fresh ==
  /\ events = <<>> /\ batch = {} /\ aggregator = "selecting"
  /\ batches = <<>> /\ flusher = "receiving" /\ writing = {}

Init ==
  /\ server = "serving"
  /\ starts = 1
  /\ request = [r \in Requests |-> "new"]
  /\ Fresh
  /\ published \in SUBSET Jobs
  /\ count = [h \in Hits |-> 0]
  /\ missed = [h \in Hits |-> "no"]

-----------------------------------------------------------------------------
(* Handlers track_view and track_search_appearances.                       *)

Arrive(r) ==
  /\ server = "serving"
  /\ request[r] = "new"
  /\ request' = [request EXCEPT ![r] = "waiting"]
  /\ UNCHANGED <<server, starts, memory, database, missed>>

(* The send completes once the channel has room; it would be an error had  *)
(* the aggregator exited, which NeverClosedOnHandlers excludes.            *)
Track(r) ==
  /\ request[r] = "waiting"
  /\ aggregator # "exited"
  /\ Len(events) < EventsCapacity
  /\ events' = Append(events, r)
  /\ request' = [request EXCEPT ![r] = "tracked"]
  /\ UNCHANGED <<server, starts, batch, aggregator, batches, flusher, writing,
                 database, missed>>

(* The browser goes away while its handler waits: the handler is dropped.  *)
Disconnect(r) ==
  /\ request[r] = "waiting"
  /\ request' = [request EXCEPT ![r] = "failed"]
  /\ UNCHANGED <<server, starts, memory, database, missed>>

-----------------------------------------------------------------------------
(* Aggregator.  Its select is biased: the timer, then events, then the     *)
(* cancellation, which is therefore only seen when no event is queued.     *)

(* Variant with a bug: the batch is only looked at when an event comes.    *)
FlushTickOnEvent ==
  /\ aggregator = "selecting" /\ batch # {} /\ events # <<>>
  /\ aggregator' = "flushing"
  /\ UNCHANGED <<server, starts, request, events, batch, batches, flusher,
                 writing, database, missed>>

(* The timer fires and there is something to flush.                        *)
FlushTick ==
  /\ aggregator = "selecting" /\ batch # {}
  /\ aggregator' = "flushing"
  /\ UNCHANGED <<server, starts, request, events, batch, batches, flusher,
                 writing, database, missed>>

(* The batch is sent once the channel has room, and then cleared.          *)
SendBatch ==
  /\ aggregator = "flushing"
  /\ Len(batches) < BatchesCapacity
  /\ batches' = Append(batches, batch)
  /\ batch' = {}
  /\ aggregator' = "selecting"
  /\ UNCHANGED <<server, starts, request, events, flusher, writing, database,
                 missed>>

(* Variant with a bug: an event replaces the totals it should be added to. *)
AggregateReplacing ==
  /\ aggregator = "selecting" /\ events # <<>>
  /\ batch' = HitsOf(Head(events))
  /\ events' = Tail(events)
  /\ UNCHANGED <<server, starts, request, aggregator, batches, flusher, writing,
                 database, missed>>

Aggregate ==
  /\ aggregator = "selecting" /\ events # <<>>
  /\ batch' = batch \cup HitsOf(Head(events))
  /\ events' = Tail(events)
  /\ UNCHANGED <<server, starts, request, aggregator, batches, flusher, writing,
                 database, missed>>

(* Variant with a bug: no flush before the exit.                           *)
CancelledAtOnce ==
  /\ aggregator = "selecting" /\ events = <<>> /\ server = "stopping"
  /\ aggregator' = "exited"
  /\ UNCHANGED <<server, starts, request, events, batch, batches, flusher,
                 writing, database, missed>>

Cancelled ==
  /\ aggregator = "selecting" /\ events = <<>> /\ server = "stopping"
  /\ aggregator' = IF batch # {} THEN "flushing-last" ELSE "exited"
  /\ UNCHANGED <<server, starts, request, events, batch, batches, flusher,
                 writing, database, missed>>

SendLastBatch ==
  /\ aggregator = "flushing-last"
  /\ Len(batches) < BatchesCapacity
  /\ batches' = Append(batches, batch)
  /\ batch' = {}
  /\ aggregator' = "exited"
  /\ UNCHANGED <<server, starts, request, events, flusher, writing, database,
                 missed>>

-----------------------------------------------------------------------------
(* Flusher.                                                                *)

Receive ==
  /\ flusher = "receiving" /\ batches # <<>>
  /\ writing' = Head(batches)
  /\ batches' = Tail(batches)
  /\ flusher' = "writing-views"
  /\ UNCHANGED <<server, starts, request, events, batch, aggregator, database,
                 missed>>

(* Variant with a bug: the channel's sender outlives the aggregator.       *)
FlusherKeepsWaiting ==
  /\ flusher = "receiving" /\ batches = <<>> /\ server = "stopped"
  /\ flusher' = "exited"
  /\ UNCHANGED <<server, starts, request, events, batch, aggregator, batches,
                 writing, database, missed>>

(* The channel is empty and its sender is gone.                            *)
FlusherExits ==
  /\ flusher = "receiving" /\ batches = <<>> /\ aggregator = "exited"
  /\ flusher' = "exited"
  /\ UNCHANGED <<server, starts, request, events, batch, aggregator, batches,
                 writing, database, missed>>

(* Variant with a bug: each of the two writes writes the whole batch.      *)
WriteBoth(kind) ==
  /\ count' = [h \in Hits |-> IF h \in writing /\ Job(h) \in published
                              THEN count[h] + 1 ELSE count[h]]
  /\ missed' = [h \in Hits |-> IF h \in writing /\ Job(h) \notin published
                               THEN "unpublished" ELSE missed[h]]
  /\ writing' = {h \in writing : KindOf(h) # kind}

(* One kind of the batch's totals is written: the totals of the jobs that  *)
(* are published at this moment are added, in one transaction.             *)
WriteKind(kind) ==
  LET S == {h \in writing : KindOf(h) = kind} IN
  /\ count' = [h \in Hits |-> IF h \in S /\ Job(h) \in published
                              THEN count[h] + 1 ELSE count[h]]
  /\ missed' = [h \in Hits |-> IF h \in S /\ Job(h) \notin published
                               THEN "unpublished" ELSE missed[h]]
  /\ writing' = writing \ S

(* Or the write fails, is logged, and is not tried again.                  *)
WriteKindFails(kind) ==
  LET S == {h \in writing : KindOf(h) = kind} IN
  /\ S # {}
  /\ missed' = [h \in Hits |-> IF h \in S THEN "error" ELSE missed[h]]
  /\ writing' = writing \ S
  /\ UNCHANGED count

FlushViews ==
  /\ flusher = "writing-views"
  /\ WriteKind("view") \/ WriteKindFails("view")
  /\ flusher' = "writing-searches"
  /\ UNCHANGED <<server, starts, request, events, batch, aggregator, batches,
                 published>>

FlushSearches ==
  /\ flusher = "writing-searches"
  /\ WriteKind("search") \/ WriteKindFails("search")
  /\ flusher' = "receiving"
  /\ UNCHANGED <<server, starts, request, events, batch, aggregator, batches,
                 published>>

-----------------------------------------------------------------------------
(* The server process (main) and the jobs' statuses.                       *)

(* The signal: no new request is accepted, those in flight are answered.   *)
Signal ==
  /\ server = "serving"
  /\ server' = "draining"
  /\ UNCHANGED <<starts, request, memory, database, missed>>

(* Variant with a bug: the workers are cancelled on the signal.            *)
CancelAtOnce ==
  /\ server = "draining"
  /\ server' = "stopping"
  /\ UNCHANGED <<starts, request, memory, database, missed>>

(* The HTTP server has ended: cancel the workers and wait for them.        *)
CancelWorkers ==
  /\ server = "draining"
  /\ \A r \in Requests : request[r] # "waiting"
  /\ server' = "stopping"
  /\ UNCHANGED <<starts, request, memory, database, missed>>

Stop ==
  /\ server = "stopping"
  /\ aggregator = "exited" /\ flusher = "exited"
  /\ server' = "stopped"
  /\ UNCHANGED <<starts, request, memory, database, missed>>

(* The accepted hits in memory.                                            *)
InMemory == (UNION {HitsOf(r) : r \in Range(events)}) \cup batch
              \cup (UNION Range(batches)) \cup writing

ClearMemory ==
  /\ events' = <<>> /\ batch' = {} /\ aggregator' = "selecting"
  /\ batches' = <<>> /\ flusher' = "receiving" /\ writing' = {}

(* The process dies, and with it what is in memory.                        *)
Crash ==
  /\ server \in {"serving", "draining", "stopping"}
  /\ server' = "crashed"
  /\ request' = [r \in Requests |-> IF request[r] = "waiting" THEN "failed"
                                    ELSE request[r]]
  /\ missed' = [h \in Hits |-> IF h \in InMemory THEN "crash" ELSE missed[h]]
  /\ ClearMemory
  /\ UNCHANGED <<starts, database>>

Restart ==
  /\ server \in {"stopped", "crashed"}
  /\ starts < MaxStarts
  /\ starts' = starts + 1
  /\ server' = "serving"
  /\ ClearMemory
  /\ UNCHANGED <<request, database, missed>>

(* A job is published or taken down (module JobLifecycle).                 *)
SetPublished(j) ==
  /\ published' \in {published \cup {j}, published \ {j}}
  /\ UNCHANGED <<server, starts, request, memory, count, missed>>

-----------------------------------------------------------------------------

Handler(r) == Arrive(r) \/ Track(r) \/ Disconnect(r)

Aggregator == FlushTick \/ SendBatch \/ Aggregate \/ Cancelled \/ SendLastBatch

Flusher == Receive \/ FlusherExits \/ FlushViews \/ FlushSearches

Main == Signal \/ CancelWorkers \/ Stop \/ Crash \/ Restart

Next ==
  \/ \E r \in Requests : Handler(r)
  \/ Aggregator
  \/ Flusher
  \/ Main
  \/ \E j \in Jobs : SetPublished(j)

Spec == Init /\ [][Next]_vars

(* The runtime schedules every task that can go on: the handlers that wait,*)
(* both workers, and main once it was signalled.  The timer fires.         *)
Fairness ==
  /\ \A r \in Requests : WF_vars(Track(r))
  /\ WF_vars(FlushTick) /\ WF_vars(SendBatch) /\ WF_vars(Aggregate)
  /\ WF_vars(Cancelled) /\ WF_vars(SendLastBatch)
  /\ WF_vars(Flusher)
  /\ WF_vars(CancelWorkers) /\ WF_vars(Stop)

FairSpec == Spec /\ Fairness

-----------------------------------------------------------------------------
(* Properties.                                                             *)

Accepted == UNION {HitsOf(r) : r \in {q \in Requests : request[q] = "tracked"}}

(* Every hit whose request was answered is in exactly one place: in memory,*)
(* counted once, or missed for one reason.  Nothing is lost between the    *)
(* channels, sent twice, or counted twice.                                 *)
Conservation ==
  \A h \in Hits :
    /\ count[h] <= 1
    /\ h \in Accepted <=> \/ h \in InMemory
                          \/ count[h] = 1
                          \/ missed[h] # "no"
    /\ h \in InMemory => count[h] = 0 /\ missed[h] = "no"
    /\ count[h] = 1 => missed[h] = "no"

(* No hit is in two stages of the pipeline, or twice in a channel.         *)
NowhereTwice ==
  LET stages == [i \in 1..Len(events) |-> HitsOf(events[i])] \o <<batch>>
                  \o batches \o <<writing>>
  IN \A i, k \in DOMAIN stages : i # k => stages[i] \cap stages[k] = {}

(* A graceful shutdown loses nothing: when the workers have ended, every   *)
(* accepted hit was written, or its write failed, or its job was not       *)
(* published then (or an earlier crash had lost it).                       *)
ShutdownDrains ==
  server = "stopped" => \A h \in Accepted : count[h] = 1 \/ missed[h] # "no"

(* The order of the shutdown keeps the aggregator alive while handlers     *)
(* wait: tracking a request never fails on a closed channel.               *)
NeverClosedOnHandlers ==
  aggregator = "exited" => \A r \in Requests : request[r] # "waiting"

(* A shutdown that has begun ends, whatever the channels hold.             *)
ShutdownEnds == server = "draining" ~> server \in {"stopped", "crashed"}

(* Every accepted hit is eventually counted, or missed for a reason.       *)
EventuallySettled ==
  \A h \in Hits : h \in Accepted ~> (count[h] = 1 \/ missed[h] # "no")

Outcome == [h \in Hits |->
              IF count[h] > 0 THEN "counted"
              ELSE IF missed[h] # "no" THEN "missed"
              ELSE IF h \in Accepted THEN "accepted" ELSE "unknown"]

(* The pipeline implements the promise of module EventCounts.              *)
Counts == INSTANCE EventCounts WITH outcome <- Outcome

ImplementsCounts == Counts!Spec
=============================================================================
