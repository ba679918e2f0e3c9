-------------------------- MODULE EventTrackerProofs --------------------------
(***************************************************************************)
(* Proofs about EventTracker, for any requests, any capacities of the      *)
(* channels, and any number of starts.                                     *)
(*                                                                         *)
(* The inductive invariant says where the workers are with respect to each *)
(* other and to the server (Ends), and, for each hit, that it is in at most*)
(* one place (Exclusive) and what being there means (Conserved).           *)
(***************************************************************************)
EXTENDS EventTracker, TLAPS

USE RequestsAssumption, CapacityAssumption, StartsAssumption

(* What an end of the pipeline leaves to those that follow.                *)
Ends ==
  /\ flusher \in {"receiving", "exited"} => writing = {}
  /\ flusher = "writing-searches" => \A h \in writing : KindOf(h) = "search"
  /\ flusher = "exited" => aggregator = "exited" /\ batches = <<>>
  /\ aggregator = "exited" => events = <<>> /\ batch = {} /\ server \in {"stopping", "stopped"}
  /\ aggregator = "flushing-last" => events = <<>> /\ server = "stopping"
  /\ server = "stopped" => aggregator = "exited" /\ flusher = "exited"
  /\ server = "crashed" => Fresh
  /\ server \notin {"serving", "draining"} => \A r \in Requests : request[r] # "waiting"

(* The places of a hit.                                                    *)
InEvents(h)  == h[1] \in Range(events)
InBatches(h) == \E B \in Range(batches) : h \in B
In(h) == InEvents(h) \/ h \in batch \/ InBatches(h) \/ h \in writing

Tracked(h) == request[h[1]] = "tracked"

Distinct(s) == \A i, k \in DOMAIN s : i # k => s[i] # s[k]
Disjoint(s) == \A i, k \in DOMAIN s : i # k => s[i] \cap s[k] = {}

Exclusive ==
  /\ Distinct(events) /\ \A r \in Range(events) : request[r] = "tracked"
  /\ Disjoint(batches)
  /\ \A h \in Hits :
       /\ InEvents(h) => h \notin batch /\ ~InBatches(h) /\ h \notin writing
       /\ h \in batch => ~InBatches(h) /\ h \notin writing
       /\ InBatches(h) => h \notin writing

Conserved ==
  \A h \in Hits :
    /\ count[h] <= 1
    /\ Tracked(h) <=> In(h) \/ count[h] = 1 \/ missed[h] # "no"
    /\ In(h) => count[h] = 0 /\ missed[h] = "no"
    /\ count[h] = 1 => missed[h] = "no"

IInv == TypeOK /\ Ends /\ Exclusive /\ Conserved

-----------------------------------------------------------------------------
(* Sequences that grow and shrink.                                         *)
LEMMA RangeIs ==
  ASSUME NEW s, NEW D, DOMAIN s = D
  PROVE  /\ \A y \in Range(s) : \E i \in D : y = s[i]
         /\ \A i \in D : s[i] \in Range(s)
BY DEF Range

LEMMA Appended ==
  ASSUME NEW S, NEW s \in Seq(S), NEW x \in S
  PROVE  /\ Append(s, x) \in Seq(S) /\ Len(Append(s, x)) = Len(s) + 1
         /\ Range(Append(s, x)) = Range(s) \cup {x}
         /\ Distinct(s) /\ x \notin Range(s) => Distinct(Append(s, x))
         /\ Disjoint(s) /\ (\A y \in Range(s) : y \cap x = {}) => Disjoint(Append(s, x))
<1>1. /\ Append(s, x) \in Seq(S) /\ Len(Append(s, x)) = Len(s) + 1 /\ Len(s) \in Nat
      /\ DOMAIN s = 1..Len(s) /\ DOMAIN Append(s, x) = 1..Len(s) + 1
      /\ \A i \in 1..Len(s) : Append(s, x)[i] = s[i]
      /\ Append(s, x)[Len(s) + 1] = x
  OBVIOUS
<1>2. \A i \in 1..Len(s) + 1 : i \in 1..Len(s) \/ i = Len(s) + 1
  BY <1>1
<1>3. \A i \in 1..Len(s) : i \in 1..Len(s) + 1 /\ i # Len(s) + 1
  BY <1>1
<1>4. Len(s) + 1 \in 1..Len(s) + 1
  BY <1>1
<1>5. Range(Append(s, x)) = Range(s) \cup {x}
  BY <1>1, <1>2, <1>3, <1>4 DEF Range
<1>6. Distinct(s) /\ x \notin Range(s) => Distinct(Append(s, x))
  BY <1>1, <1>2, <1>3, <1>4 DEF Distinct, Range
<1>7. Disjoint(s) /\ (\A y \in Range(s) : y \cap x = {}) => Disjoint(Append(s, x))
  BY <1>1, <1>2, <1>3, <1>4 DEF Disjoint, Range
<1>8. QED
  BY <1>1, <1>5, <1>6, <1>7

LEMMA Removed ==
  ASSUME NEW S, NEW s \in Seq(S), s # <<>>
  PROVE  /\ Head(s) \in S /\ Tail(s) \in Seq(S) /\ Len(Tail(s)) <= Len(s)
         /\ Range(s) = {Head(s)} \cup Range(Tail(s))
         /\ Distinct(s) => Distinct(Tail(s)) /\ Head(s) \notin Range(Tail(s))
         /\ Disjoint(s) => /\ Disjoint(Tail(s))
                           /\ \A y \in Range(Tail(s)) : Head(s) \cap y = {}
<1> DEFINE n == Len(s)
           t == Tail(s)
<1>1. /\ n \in Nat /\ n >= 1 /\ Head(s) = s[1] /\ s[1] \in S
      /\ DOMAIN s = 1..n /\ t \in Seq(S) /\ Len(t) = n - 1
      /\ DOMAIN t = 1..n - 1
      /\ \A i \in 1..n - 1 : t[i] = s[i + 1]
  OBVIOUS
<1> HIDE DEF n, t
<1>2. \A i \in 1..n - 1 : i + 1 \in 1..n /\ i + 1 # 1
  BY <1>1
<1>3. \A i \in 1..n : i = 1 \/ (i - 1 \in 1..n - 1 /\ t[i - 1] = s[i])
  BY <1>1
<1>4. 1 \in 1..n
  BY <1>1
<1>5. /\ \A y \in Range(t) : \E i \in 1..n - 1 : y = s[i + 1]
      /\ \A y \in Range(s) : \E i \in 1..n : y = s[i]
      /\ \A i \in 1..n : s[i] \in Range(s)
      /\ \A i \in 1..n - 1 : t[i] \in Range(t)
  <2>1. /\ \A y \in Range(s) : \E i \in 1..n : y = s[i]
        /\ \A i \in 1..n : s[i] \in Range(s)
    BY <1>1, RangeIs
  <2>2. /\ \A y \in Range(t) : \E i \in 1..n - 1 : y = t[i]
        /\ \A i \in 1..n - 1 : t[i] \in Range(t)
    BY <1>1, RangeIs
  <2>3. QED
    BY <1>1, <2>1, <2>2
<1>6. Range(s) = {Head(s)} \cup Range(t)
  <2>1. ASSUME NEW y \in Range(s)
        PROVE  y = Head(s) \/ y \in Range(t)
    <3>1. PICK i \in 1..n : y = s[i]
      BY <1>5
    <3>2. QED
      BY <1>1, <1>3, <1>5, <3>1
  <2>2. Head(s) \in Range(s)
    BY <1>1, <1>4, <1>5
  <2>3. \A y \in Range(t) : y \in Range(s)
    BY <1>2, <1>5
  <2>4. QED
    BY <2>1, <2>2, <2>3
<1>7. \A i, k \in 1..n - 1 : i # k => i + 1 # k + 1
  BY <1>1
<1>8. Distinct(s) => Distinct(t) /\ Head(s) \notin Range(t)
  <2> SUFFICES ASSUME \A i, k \in 1..n : i # k => s[i] # s[k]
               PROVE  Distinct(t) /\ Head(s) \notin Range(t)
    BY <1>1 DEF Distinct
  <2>1. \A i, k \in 1..n - 1 : i # k => t[i] # t[k]
    BY <1>1, <1>2, <1>7
  <2>2. \A i \in 1..n - 1 : s[1] # s[i + 1]
    BY <1>2, <1>4
  <2>3. Distinct(t)
    BY <1>1, <2>1 DEF Distinct
  <2>4. Head(s) \notin Range(t)
    BY <1>1, <1>5, <2>2
  <2>5. QED
    BY <2>3, <2>4
<1>9. Disjoint(s) => Disjoint(t) /\ \A y \in Range(t) : Head(s) \cap y = {}
  <2> SUFFICES ASSUME \A i, k \in 1..n : i # k => s[i] \cap s[k] = {}
               PROVE  Disjoint(t) /\ \A y \in Range(t) : Head(s) \cap y = {}
    BY <1>1 DEF Disjoint
  <2>1. \A i, k \in 1..n - 1 : i # k => t[i] \cap t[k] = {}
    BY <1>1, <1>2, <1>7
  <2>2. \A i \in 1..n - 1 : s[1] \cap s[i + 1] = {}
    BY <1>2, <1>4
  <2>3. Disjoint(t)
    BY <1>1, <2>1 DEF Disjoint
  <2>4. ASSUME NEW y \in Range(t)
        PROVE  Head(s) \cap y = {}
    <3>1. PICK i \in 1..n - 1 : y = s[i + 1]
      BY <1>5
    <3>2. QED
      BY <1>1, <2>2, <3>1
  <2>5. QED
    BY <2>3, <2>4
<1>10. Len(t) <= Len(s)
  BY <1>1 DEF n
<1>11. QED
  BY <1>1, <1>6, <1>8, <1>9, <1>10 DEF t

LEMMA RangeOfEmpty == Range(<<>>) = {} /\ Distinct(<<>>) /\ Disjoint(<<>>)
BY DEF Range, Distinct, Disjoint

(* A hit names its request.                                                *)
LEMMA HitsAre ==
  /\ \A h \in Hits : h[1] \in Requests /\ h \in HitsOf(h[1]) /\ KindOf(h) \in {"view", "search"}
  /\ \A r \in Requests : HitsOf(r) \subseteq Hits
  /\ \A r \in Requests : \A h \in HitsOf(r) : h[1] = r
<1>1. \A r \in Requests : \A h \in HitsOf(r) : h[1] = r
  BY DEF HitsOf
<1>2. \A h \in Hits : h[1] \in Requests /\ h \in HitsOf(h[1])
  BY <1>1 DEF Hits
<1>3. \A h \in Hits : KindOf(h) \in {"view", "search"}
  BY <1>2 DEF KindOf
<1>4. QED
  BY <1>1, <1>2, <1>3 DEF Hits

(* The places are what is in memory, and the tracked hits the accepted.    *)
LEMMA Places ==
  ASSUME TypeOK
  PROVE  /\ InMemory \subseteq Hits
         /\ \A h \in Hits : h \in InMemory <=> In(h)
         /\ \A h \in Hits : h \in Accepted <=> Tracked(h)
<1>1. Range(events) \subseteq Requests /\ Range(batches) \subseteq SUBSET Hits
  <2>1. \A i \in DOMAIN events : events[i] \in Requests
    BY DEF TypeOK
  <2>2. \A i \in DOMAIN batches : batches[i] \in SUBSET Hits
    BY DEF TypeOK
  <2>3. QED
    BY <2>1, <2>2 DEF Range
<1>2. ASSUME NEW h \in Hits
      PROVE  h \in UNION {HitsOf(r) : r \in Range(events)} <=> InEvents(h)
  <2>1. ASSUME NEW r \in Range(events), h \in HitsOf(r)
        PROVE  h[1] \in Range(events)
    <3>1. h[1] = r
      BY <1>1, <2>1, HitsAre
    <3>2. QED
      BY <3>1
  <2>2. h \in HitsOf(h[1])
    BY HitsAre
  <2>3. QED
    BY <2>1, <2>2 DEF InEvents
<1>3. UNION {HitsOf(r) : r \in Range(events)} \subseteq Hits
  <2>1. \A r \in Range(events) : HitsOf(r) \subseteq Hits
    BY <1>1, HitsAre
  <2>2. QED
    BY <2>1
<1> DEFINE queued == UNION {HitsOf(r) : r \in Range(events)}
           sent == UNION Range(batches)
<1>4. queued \subseteq Hits /\ \A h \in Hits : h \in queued <=> InEvents(h)
  BY <1>2, <1>3
<1>5. sent \subseteq Hits /\ \A h \in Hits : h \in sent <=> InBatches(h)
  BY <1>1 DEF InBatches
<1>6. InMemory = queued \cup batch \cup sent \cup writing
  BY DEF InMemory
<1> HIDE DEF queued, sent
<1>7. batch \subseteq Hits /\ writing \subseteq Hits
  BY DEF TypeOK
<1>8. InMemory \subseteq Hits
  BY <1>4, <1>5, <1>6, <1>7
<1>9. \A h \in Hits : h \in InMemory <=> In(h)
  BY <1>4, <1>5, <1>6 DEF In
<1>10. \A h \in Hits : h \in Accepted <=> Tracked(h)
  BY HitsAre DEF Accepted, Tracked
<1>11. QED
  BY <1>8, <1>9, <1>10

-----------------------------------------------------------------------------
(* The types, and who has ended.                                           *)
LEMMA WorkersIdle ==
  ASSUME ClearMemory
  PROVE  Fresh' /\ events' \in Seq(Requests) /\ Len(events') <= EventsCapacity
         /\ batches' \in Seq(SUBSET Hits) /\ Len(batches') <= BatchesCapacity
BY DEF ClearMemory, Fresh

LEMMA WriteTypes ==
  ASSUME count \in [Hits -> Nat], missed \in [Hits -> {"no", "crash", "error", "unpublished"}],
         writing \subseteq Hits, NEW kind \in {"view", "search"},
         WriteKind(kind) \/ WriteKindFails(kind)
  PROVE  /\ count' \in [Hits -> Nat]
         /\ missed' \in [Hits -> {"no", "crash", "error", "unpublished"}]
         /\ writing' \subseteq Hits
         /\ \A h \in Hits : h \in writing' <=> h \in writing /\ KindOf(h) # kind
<1>1. CASE WriteKind(kind)
  BY <1>1 DEF WriteKind
<1>2. CASE WriteKindFails(kind)
  BY <1>2 DEF WriteKindFails
<1>3. QED
  BY <1>1, <1>2

LEMMA NextEnds == TypeOK /\ Ends /\ [Next]_vars => TypeOK' /\ Ends'
<1> SUFFICES ASSUME TypeOK, Ends, [Next]_vars
             PROVE  TypeOK' /\ Ends'
  OBVIOUS
<1>1. ASSUME NEW r \in Requests, Arrive(r) \/ Disconnect(r)
      PROVE  TypeOK' /\ Ends'
  <2>1. TypeOK'
    BY <1>1 DEF Arrive, Disconnect, TypeOK, memory, database
  <2>2. Ends'
    BY <1>1 DEF Arrive, Disconnect, TypeOK, Ends, Fresh, memory, database
  <2>3. QED
    BY <2>1, <2>2
<1>2. ASSUME NEW r \in Requests, Track(r)
      PROVE  TypeOK' /\ Ends'
  <2>1. /\ events' \in Seq(Requests) /\ Len(events') <= EventsCapacity
        /\ request' \in [Requests -> {"new", "waiting", "tracked", "failed"}]
        /\ \A q \in Requests : request'[q] = "waiting" => request[q] = "waiting"
    <3>1. events' = Append(events, r) /\ Len(events) < EventsCapacity
          /\ events \in Seq(Requests)
      BY <1>2 DEF Track, TypeOK
    <3>2. events' \in Seq(Requests) /\ Len(events') = Len(events) + 1 /\ Len(events) \in Nat
      BY <3>1, Appended
    <3>3. request' = [request EXCEPT ![r] = "tracked"]
      BY <1>2 DEF Track
    <3>4. QED
      BY <3>1, <3>2, <3>3 DEF TypeOK
  <2>2. server \notin {"stopping", "stopped", "crashed"} /\ aggregator # "exited"
    BY <1>2 DEF Track, Ends
  <2>3. aggregator # "flushing-last"
    BY <2>2 DEF Ends
  <2>4. QED
    BY <1>2, <2>1, <2>2, <2>3 DEF Track, TypeOK, Ends, database
<1>3. ASSUME FlushTick \/ Cancelled
      PROVE  TypeOK' /\ Ends'
  <2>1. server # "crashed"
    BY <1>3 DEF FlushTick, Cancelled, Ends, Fresh
  <2>2. QED
    BY <1>3, <2>1 DEF FlushTick, Cancelled, TypeOK, Ends, database
<1>4. ASSUME SendBatch \/ SendLastBatch
      PROVE  TypeOK' /\ Ends'
  <2>1. /\ batches' \in Seq(SUBSET Hits) /\ Len(batches') <= BatchesCapacity
        /\ batch' = {}
    <3>1. batches' = Append(batches, batch) /\ Len(batches) < BatchesCapacity
          /\ batches \in Seq(SUBSET Hits) /\ batch \in SUBSET Hits /\ batch' = {}
      BY <1>4 DEF SendBatch, SendLastBatch, TypeOK
    <3>2. batches' \in Seq(SUBSET Hits) /\ Len(batches') = Len(batches) + 1
          /\ Len(batches) \in Nat
      BY <3>1, Appended
    <3>3. QED
      BY <3>1, <3>2
  <2>2. server # "crashed" /\ flusher # "exited"
    BY <1>4 DEF SendBatch, SendLastBatch, Ends, Fresh
  <2>3. QED
    BY <1>4, <2>1, <2>2 DEF SendBatch, SendLastBatch, TypeOK, Ends, database
<1>5. CASE Aggregate
  <2>1. /\ events' \in Seq(Requests) /\ Len(events') <= EventsCapacity
        /\ batch' \subseteq Hits
    <3>1. events \in Seq(Requests) /\ events # <<>> /\ events' = Tail(events)
          /\ batch' = batch \cup HitsOf(Head(events)) /\ Len(events) <= EventsCapacity
          /\ batch \subseteq Hits
      BY <1>5 DEF Aggregate, TypeOK
    <3>2. Head(events) \in Requests /\ Tail(events) \in Seq(Requests)
          /\ Len(Tail(events)) <= Len(events) /\ Len(Tail(events)) \in Nat /\ Len(events) \in Nat
      BY <3>1, Removed
    <3>3. QED
      BY <3>1, <3>2, HitsAre
  <2>2. server # "crashed"
    BY <1>5 DEF Aggregate, Ends, Fresh
  <2>3. QED
    BY <1>5, <2>1, <2>2 DEF Aggregate, TypeOK, Ends, database
<1>6. CASE Receive
  <2>1. /\ batches' \in Seq(SUBSET Hits) /\ Len(batches') <= BatchesCapacity
        /\ writing' \subseteq Hits
    <3>1. batches \in Seq(SUBSET Hits) /\ batches # <<>> /\ batches' = Tail(batches)
          /\ writing' = Head(batches) /\ Len(batches) <= BatchesCapacity
      BY <1>6 DEF Receive, TypeOK
    <3>2. Head(batches) \in SUBSET Hits /\ Tail(batches) \in Seq(SUBSET Hits)
          /\ Len(Tail(batches)) <= Len(batches) /\ Len(Tail(batches)) \in Nat
          /\ Len(batches) \in Nat
      BY <3>1, Removed
    <3>3. QED
      BY <3>1, <3>2
  <2>2. server # "crashed"
    BY <1>6 DEF Receive, Ends, Fresh
  <2>3. QED
    BY <1>6, <2>1, <2>2 DEF Receive, TypeOK, Ends, database
<1>7. CASE FlusherExits
  <2>1. server # "crashed"
    BY <1>7 DEF FlusherExits, Ends, Fresh
  <2>2. QED
    BY <1>7, <2>1 DEF FlusherExits, TypeOK, Ends, database
<1>8. ASSUME FlushViews \/ FlushSearches
      PROVE  TypeOK' /\ Ends'
  <2>1. PICK kind \in {"view", "search"} :
          /\ flusher = IF kind = "view" THEN "writing-views" ELSE "writing-searches"
          /\ WriteKind(kind) \/ WriteKindFails(kind)
          /\ flusher' = IF kind = "view" THEN "writing-searches" ELSE "receiving"
          /\ UNCHANGED <<server, starts, request, events, batch, aggregator, batches,
                         published>>
    BY <1>8 DEF FlushViews, FlushSearches
  <2>2. /\ count' \in [Hits -> Nat]
        /\ missed' \in [Hits -> {"no", "crash", "error", "unpublished"}]
        /\ writing' \subseteq Hits
        /\ \A h \in Hits : h \in writing' <=> h \in writing /\ KindOf(h) # kind
    BY <2>1, WriteTypes DEF TypeOK
  <2>3. server # "crashed"
    BY <2>1 DEF Ends, Fresh
  <2>4. /\ kind = "view" => \A h \in writing' : KindOf(h) = "search"
        /\ kind = "search" => writing' = {}
    BY <2>1, <2>2, HitsAre DEF Ends, TypeOK
  <2>5. TypeOK'
    BY <2>1, <2>2 DEF TypeOK
  <2>6. Ends'
    BY <2>1, <2>3, <2>4 DEF Ends
  <2>7. QED
    BY <2>5, <2>6
<1>9. ASSUME Signal \/ CancelWorkers \/ Stop
      PROVE  TypeOK' /\ Ends'
  BY <1>9 DEF Signal, CancelWorkers, Stop, TypeOK, Ends, memory, database
<1>10. CASE Crash
  <2>1. /\ Fresh' /\ events' \in Seq(Requests) /\ Len(events') <= EventsCapacity
        /\ batches' \in Seq(SUBSET Hits) /\ Len(batches') <= BatchesCapacity
    BY <1>10, WorkersIdle DEF Crash
  <2>2. /\ missed' \in [Hits -> {"no", "crash", "error", "unpublished"}]
        /\ request' \in [Requests -> {"new", "waiting", "tracked", "failed"}]
        /\ \A r \in Requests : request'[r] # "waiting"
    BY <1>10 DEF Crash, TypeOK
  <2>3. QED
    BY <1>10, <2>1, <2>2 DEF Crash, TypeOK, Ends, Fresh, database
<1>11. CASE Restart
  <2>1. /\ Fresh' /\ events' \in Seq(Requests) /\ Len(events') <= EventsCapacity
        /\ batches' \in Seq(SUBSET Hits) /\ Len(batches') <= BatchesCapacity
    BY <1>11, WorkersIdle DEF Restart
  <2>2. QED
    BY <1>11, <2>1 DEF Restart, TypeOK, Ends, Fresh, database
<1>12. ASSUME NEW j \in Jobs, SetPublished(j)
       PROVE  TypeOK' /\ Ends'
  BY <1>12 DEF SetPublished, TypeOK, Ends, Fresh, memory
<1>13. CASE UNCHANGED vars
  BY <1>13 DEF vars, memory, database, TypeOK, Ends, Fresh
<1>14. QED
  BY <1>1, <1>2, <1>3, <1>4, <1>5, <1>6, <1>7, <1>8, <1>9, <1>10, <1>11, <1>12, <1>13
     DEF Next, Handler, Aggregator, Flusher, Main

-----------------------------------------------------------------------------
(* Where the hits are.                                                     *)
LEMMA HitsOfRequest == \A r \in Requests, h \in Hits : h \in HitsOf(r) <=> h[1] = r
BY HitsAre

LEMMA NothingIn ==
  /\ Fresh => \A h \in Hits : ~In(h)
  /\ Fresh => Exclusive
BY RangeOfEmpty DEF Fresh, In, InEvents, InBatches, Exclusive

(* Nothing moves, and no request is tracked.                               *)
LEMMA AllStay ==
  ASSUME Exclusive, Conserved, UNCHANGED <<events, batch, batches, writing, count, missed>>,
         \A r \in Requests : request'[r] = "tracked" <=> request[r] = "tracked",
         Range(events) \subseteq Requests
  PROVE  Exclusive' /\ Conserved'
<1>1. \A h \in Hits : Tracked(h)' <=> Tracked(h)
  BY HitsAre DEF Tracked
<1>2. \A h \in Hits : /\ InEvents(h)' <=> InEvents(h)
                      /\ InBatches(h)' <=> InBatches(h)
                      /\ In(h)' <=> In(h)
  BY DEF InEvents, InBatches, In
<1>3. Exclusive'
  BY <1>2 DEF Exclusive
<1>4. Conserved'
  BY <1>1, <1>2 DEF Conserved
<1>5. QED
  BY <1>3, <1>4

(* Hits move within memory.                                                *)
LEMMA MovedConserved ==
  ASSUME Conserved, UNCHANGED <<request, count, missed>>, \A h \in Hits : In(h)' <=> In(h)
  PROVE  Conserved'
BY DEF Conserved, Tracked

LEMMA SentExclusive ==
  ASSUME TypeOK, Exclusive, Conserved, SendBatch \/ SendLastBatch
  PROVE  Exclusive' /\ Conserved'
<1>1. /\ batches \in Seq(SUBSET Hits) /\ batch \in SUBSET Hits
      /\ batches' = Append(batches, batch) /\ batch' = {}
      /\ UNCHANGED <<request, events, writing, count, missed>>
  BY DEF SendBatch, SendLastBatch, TypeOK, database
<1>2. Range(batches') = Range(batches) \cup {batch}
  BY <1>1, Appended
<1>3. Disjoint(batches')
  <2>1. ASSUME NEW B \in Range(batches)
        PROVE  B \cap batch = {}
    BY <1>1, <2>1 DEF Exclusive, InBatches
  <2>2. QED
    BY <1>1, <2>1, Appended DEF Exclusive
<1>4. \A h \in Hits : /\ InBatches(h)' <=> InBatches(h) \/ h \in batch
                      /\ InEvents(h)' <=> InEvents(h)
  BY <1>1, <1>2 DEF InBatches, InEvents
<1>5. Exclusive'
  BY <1>1, <1>3, <1>4 DEF Exclusive
<1>6. \A h \in Hits : In(h)' <=> In(h)
  BY <1>1, <1>4 DEF In
<1>7. QED
  BY <1>1, <1>5, <1>6, MovedConserved

LEMMA AggregatedExclusive ==
  ASSUME TypeOK, Exclusive, Conserved, Aggregate
  PROVE  Exclusive' /\ Conserved'
<1>1. /\ events \in Seq(Requests) /\ events # <<>> /\ events' = Tail(events)
      /\ batch' = batch \cup HitsOf(Head(events))
      /\ UNCHANGED <<request, batches, writing, count, missed>>
  BY DEF Aggregate, TypeOK, database
<1>2. /\ Head(events) \in Requests
      /\ Range(events) = {Head(events)} \cup Range(events')
      /\ Distinct(events') /\ Head(events) \notin Range(events')
  BY <1>1, Removed DEF Exclusive
<1>3. \A h \in Hits : /\ h \in batch' <=> h \in batch \/ h[1] = Head(events)
                      /\ InEvents(h) <=> InEvents(h)' \/ h[1] = Head(events)
                      /\ h[1] = Head(events) => ~InEvents(h)'
                      /\ InBatches(h)' <=> InBatches(h)
  BY <1>1, <1>2, HitsOfRequest DEF InEvents, InBatches
<1>4. Exclusive'
  BY <1>1, <1>2, <1>3 DEF Exclusive
<1>5. \A h \in Hits : In(h)' <=> In(h)
  BY <1>1, <1>3 DEF In
<1>6. QED
  BY <1>1, <1>4, <1>5, MovedConserved

LEMMA ReceivedExclusive ==
  ASSUME TypeOK, Ends, Exclusive, Conserved, Receive
  PROVE  Exclusive' /\ Conserved'
<1>1. /\ batches \in Seq(SUBSET Hits) /\ batches # <<>> /\ batches' = Tail(batches)
      /\ writing = {} /\ writing' = Head(batches)
      /\ UNCHANGED <<request, events, batch, count, missed>>
  BY DEF Receive, TypeOK, Ends, database
<1>2. /\ Range(batches) = {Head(batches)} \cup Range(batches')
      /\ Disjoint(batches') /\ \A B \in Range(batches') : Head(batches) \cap B = {}
  BY <1>1, Removed DEF Exclusive
<1>3. \A h \in Hits : /\ InBatches(h) <=> InBatches(h)' \/ h \in writing'
                      /\ h \in writing' => ~InBatches(h)'
                      /\ InEvents(h)' <=> InEvents(h)
  BY <1>1, <1>2 DEF InEvents, InBatches
<1>4. Exclusive'
  BY <1>1, <1>2, <1>3 DEF Exclusive
<1>5. \A h \in Hits : In(h)' <=> In(h)
  BY <1>1, <1>3 DEF In
<1>6. QED
  BY <1>1, <1>4, <1>5, MovedConserved

LEMMA TrackedExclusive ==
  ASSUME TypeOK, Exclusive, Conserved, NEW r \in Requests, Track(r)
  PROVE  Exclusive' /\ Conserved'
<1>1. /\ events \in Seq(Requests) /\ events' = Append(events, r)
      /\ request[r] = "waiting" /\ request' = [request EXCEPT ![r] = "tracked"]
      /\ UNCHANGED <<batch, batches, writing, count, missed>>
  BY DEF Track, TypeOK, database
<1>2. Range(events') = Range(events) \cup {r}
  BY <1>1, Appended
<1>3. Distinct(events')
  <2>1. r \notin Range(events)
    BY <1>1 DEF Exclusive
  <2>2. QED
    BY <1>1, <2>1, Appended DEF Exclusive
<1>4. /\ \A q \in Requests : q # r => request'[q] = request[q]
      /\ request'[r] = "tracked"
  BY <1>1 DEF TypeOK
<1>5. \A q \in Range(events') : request'[q] = "tracked"
  <2>1. Range(events) \subseteq Requests
    BY <1>1 DEF Range
  <2>2. QED
    BY <1>2, <1>4, <2>1 DEF Exclusive
<1>6. \A h \in Hits : /\ InEvents(h)' <=> InEvents(h) \/ h[1] = r
                      /\ InBatches(h)' <=> InBatches(h)
  BY <1>1, <1>2 DEF InEvents, InBatches
<1>7. \A h \in Hits : h[1] = r => ~Tracked(h) /\ ~In(h)
  BY <1>1 DEF Tracked, Conserved
<1>8. Exclusive'
  BY <1>1, <1>3, <1>5, <1>6, <1>7 DEF Exclusive, In
<1>9. \A h \in Hits : /\ In(h)' <=> In(h) \/ h[1] = r
                      /\ Tracked(h)' <=> Tracked(h) \/ h[1] = r
  BY <1>1, <1>4, <1>6, HitsAre DEF In, Tracked
<1>10. Conserved'
  <2> SUFFICES ASSUME NEW h \in Hits
               PROVE  /\ count[h] <= 1
                      /\ Tracked(h)' <=> In(h)' \/ count[h] = 1 \/ missed[h] # "no"
                      /\ In(h)' => count[h] = 0 /\ missed[h] = "no"
                      /\ count[h] = 1 => missed[h] = "no"
    BY <1>1 DEF Conserved
  <2>1. /\ count[h] \in Nat /\ count[h] <= 1
        /\ Tracked(h) <=> In(h) \/ count[h] = 1 \/ missed[h] # "no"
        /\ In(h) => count[h] = 0 /\ missed[h] = "no"
        /\ count[h] = 1 => missed[h] = "no"
    BY DEF TypeOK, Conserved
  <2>2. CASE h[1] = r
    <3>1. In(h)' /\ Tracked(h)' /\ ~Tracked(h) /\ ~In(h)
      BY <1>7, <1>9, <2>2
    <3>2. count[h] = 0 /\ missed[h] = "no"
      BY <2>1, <3>1
    <3>3. QED
      BY <3>1, <3>2
  <2>3. CASE h[1] # r
    <3>1. (In(h)' <=> In(h)) /\ (Tracked(h)' <=> Tracked(h))
      BY <1>9, <2>3
    <3>2. QED
      BY <2>1, <3>1
  <2>4. QED
    BY <2>2, <2>3
<1>11. QED
  BY <1>8, <1>10

LEMMA WrittenExclusive ==
  ASSUME TypeOK, Exclusive, Conserved, NEW kind \in {"view", "search"},
         WriteKind(kind) \/ WriteKindFails(kind),
         UNCHANGED <<request, events, batch, batches>>
  PROVE  Exclusive' /\ Conserved'
<1> DEFINE S == {h \in writing : KindOf(h) = kind}
<1>1. writing' = writing \ S
  BY DEF WriteKind, WriteKindFails
<1>2. \A h \in Hits :
        /\ h \notin S => count'[h] = count[h] /\ missed'[h] = missed[h]
        /\ h \in S => \/ count'[h] = count[h] + 1 /\ missed'[h] = missed[h]
                      \/ count'[h] = count[h] /\ missed'[h] \in {"unpublished", "error"}
  <2>1. CASE WriteKind(kind)
    BY <2>1 DEF WriteKind
  <2>2. CASE WriteKindFails(kind)
    BY <2>2 DEF WriteKindFails
  <2>3. QED
    BY <2>1, <2>2
<1>3. \A h \in Hits : /\ InEvents(h)' <=> InEvents(h)
                      /\ InBatches(h)' <=> InBatches(h)
                      /\ Tracked(h)' <=> Tracked(h)
  BY DEF InEvents, InBatches, Tracked
<1>4. Exclusive'
  BY <1>1, <1>3 DEF Exclusive
<1>5. \A h \in Hits : /\ h \in S => In(h) /\ ~In(h)'
                      /\ h \notin S => (In(h)' <=> In(h))
  BY <1>1, <1>3 DEF In, Exclusive
<1> HIDE DEF S
<1>6. Conserved'
  <2> SUFFICES ASSUME NEW h \in Hits
               PROVE  /\ count'[h] <= 1
                      /\ Tracked(h)' <=> In(h)' \/ count'[h] = 1 \/ missed'[h] # "no"
                      /\ In(h)' => count'[h] = 0 /\ missed'[h] = "no"
                      /\ count'[h] = 1 => missed'[h] = "no"
    BY DEF Conserved
  <2>1. CASE h \in S
    BY <1>2, <1>3, <1>5, <2>1 DEF Conserved
  <2>2. CASE h \notin S
    BY <1>2, <1>3, <1>5, <2>2 DEF Conserved
  <2>3. QED
    BY <2>1, <2>2
<1>7. QED
  BY <1>4, <1>6

LEMMA NextExclusive ==
  TypeOK /\ Ends /\ Exclusive /\ Conserved /\ [Next]_vars => Exclusive' /\ Conserved'
<1> SUFFICES ASSUME TypeOK, Ends, Exclusive, Conserved, [Next]_vars
             PROVE  Exclusive' /\ Conserved'
  OBVIOUS
<1>0. Range(events) \subseteq Requests
  <2>1. \A i \in DOMAIN events : events[i] \in Requests
    BY DEF TypeOK
  <2>2. QED
    BY <2>1 DEF Range
<1>1. ASSUME UNCHANGED <<events, batch, batches, writing, count, missed>>,
             \A r \in Requests : request'[r] = "tracked" <=> request[r] = "tracked"
      PROVE  Exclusive' /\ Conserved'
  BY <1>0, <1>1, AllStay
<1>2. ASSUME NEW r \in Requests, Arrive(r) \/ Disconnect(r)
      PROVE  Exclusive' /\ Conserved'
  <2>1. \A q \in Requests : request'[q] = "tracked" <=> request[q] = "tracked"
    BY <1>2 DEF Arrive, Disconnect, TypeOK
  <2>2. QED
    BY <1>1, <1>2, <2>1 DEF Arrive, Disconnect, memory, database
<1>3. CASE UNCHANGED <<events, batch, batches, writing, count, missed, request>>
  BY <1>1, <1>3
<1>4. ASSUME FlushViews \/ FlushSearches
      PROVE  Exclusive' /\ Conserved'
  <2>1. PICK kind \in {"view", "search"} :
          /\ WriteKind(kind) \/ WriteKindFails(kind)
          /\ UNCHANGED <<request, events, batch, batches>>
    BY <1>4 DEF FlushViews, FlushSearches
  <2>2. QED
    BY <2>1, WrittenExclusive
<1>5. CASE Crash
  <2>1. Fresh' /\ count' = count
        /\ missed' = [h \in Hits |-> IF h \in InMemory THEN "crash" ELSE missed[h]]
        /\ request' = [r \in Requests |-> IF request[r] = "waiting" THEN "failed"
                                           ELSE request[r]]
    BY <1>5 DEF Crash, ClearMemory, Fresh, database
  <2>2. Exclusive' /\ \A h \in Hits : ~In(h)'
    BY <2>1, RangeOfEmpty DEF Fresh, In, InEvents, InBatches, Exclusive
  <2>3. \A h \in Hits : /\ In(h) => missed'[h] = "crash"
                        /\ ~In(h) => missed'[h] = missed[h]
                        /\ Tracked(h)' <=> Tracked(h)
    BY <2>1, Places, HitsAre DEF Tracked
  <2>4. Conserved'
    BY <2>1, <2>2, <2>3 DEF Conserved
  <2>5. QED
    BY <2>2, <2>4
<1>6. CASE Restart
  <2>1. Fresh' /\ UNCHANGED <<request, count, missed>>
    BY <1>6 DEF Restart, ClearMemory, Fresh, database
  <2>2. Exclusive' /\ \A h \in Hits : ~In(h)'
    BY <2>1, RangeOfEmpty DEF Fresh, In, InEvents, InBatches, Exclusive
  <2>3. events = <<>> /\ batch = {} /\ batches = <<>> /\ writing = {}
    BY <1>6 DEF Restart, Ends, Fresh
  <2>4. \A h \in Hits : ~In(h)
    BY <2>3, RangeOfEmpty DEF In, InEvents, InBatches
  <2>5. QED
    BY <2>1, <2>2, <2>4, MovedConserved
<1>7. QED
  <2>1. \/ \E r \in Requests : Arrive(r) \/ Disconnect(r) \/ Track(r)
        \/ SendBatch \/ SendLastBatch \/ Aggregate \/ Receive
        \/ FlushViews \/ FlushSearches \/ Crash \/ Restart
        \/ UNCHANGED <<events, batch, batches, writing, count, missed, request>>
    BY DEF Next, Handler, Aggregator, Flusher, Main, vars, memory, database, FlushTick,
       Cancelled, FlusherExits, Signal, CancelWorkers, Stop, SetPublished
  <2>2. QED
    BY <1>2, <1>3, <1>4, <1>5, <1>6, <2>1, SentExclusive, AggregatedExclusive,
       ReceivedExclusive, TrackedExclusive

-----------------------------------------------------------------------------
LEMMA InitIInv == Init => IInv
<1> SUFFICES ASSUME Init
             PROVE  IInv
  OBVIOUS
<1>1. TypeOK
  BY DEF Init, TypeOK, Fresh
<1>2. Ends
  BY DEF Init, Ends, Fresh
<1>3. Exclusive /\ \A h \in Hits : ~In(h)
  BY NothingIn DEF Init
<1>4. Conserved
  BY <1>3, HitsAre DEF Init, Conserved, Tracked
<1>5. QED
  BY <1>1, <1>2, <1>3, <1>4 DEF IInv

LEMMA Inductive == Spec => []IInv
<1>1. IInv /\ [Next]_vars => IInv'
  BY NextEnds, NextExclusive DEF IInv
<1>2. QED
  BY InitIInv, <1>1, PTL DEF Spec

(* Every variable stays within its type: see TypeOK.                       *)
THEOREM TypeCorrect == Spec => []TypeOK
BY Inductive, PTL DEF IInv

(* Accepted hits are in memory, counted, or missed: see Conservation.      *)
THEOREM ConservationAlways == Spec => []Conservation
<1>1. IInv => Conservation
  BY Places DEF IInv, Conserved, Conservation
<1>2. QED
  BY <1>1, Inductive, PTL

(* Two sequences of disjoint sets that have nothing in common.             *)
LEMMA Concatenated ==
  ASSUME NEW S, NEW s \in Seq(S), NEW t \in Seq(S), Disjoint(s), Disjoint(t),
         \A x \in Range(s), y \in Range(t) : x \cap y = {}
  PROVE  /\ s \o t \in Seq(S) /\ Disjoint(s \o t)
         /\ \A x \in Range(s \o t) : x \in Range(s) \/ x \in Range(t)
<1> DEFINE m == Len(s)
           n == Len(t)
<1>1. /\ m \in Nat /\ n \in Nat /\ DOMAIN s = 1..m /\ DOMAIN t = 1..n
      /\ s \o t \in Seq(S) /\ DOMAIN (s \o t) = 1..m + n
      /\ \A i \in 1..m + n : (s \o t)[i] = IF i <= m THEN s[i] ELSE t[i - m]
  OBVIOUS
<1> DEFINE u == s \o t
<1> HIDE DEF m, n, u
<1>2. \A i \in 1..m + n : i <= m => i \in 1..m /\ u[i] = s[i] /\ u[i] \in Range(s)
  BY <1>1, RangeIs DEF u
<1>3. \A i \in 1..m + n : ~(i <= m) => /\ i - m \in 1..n
                                       /\ u[i] = t[i - m] /\ u[i] \in Range(t)
  BY <1>1, RangeIs DEF u
<1>4. ASSUME NEW i \in 1..m + n, NEW k \in 1..m + n, i # k
      PROVE  u[i] \cap u[k] = {}
  <2>1. CASE i <= m /\ k <= m
    BY <1>1, <1>2, <1>4, <2>1 DEF Disjoint
  <2>2. CASE ~(i <= m) /\ ~(k <= m)
    <3>1. i - m # k - m
      BY <1>1, <1>4
    <3>2. \A p, q \in 1..n : p # q => t[p] \cap t[q] = {}
      BY <1>1 DEF Disjoint
    <3>3. i - m \in 1..n /\ k - m \in 1..n /\ u[i] = t[i - m] /\ u[k] = t[k - m]
      BY <1>3, <2>2
    <3>4. QED
      BY <3>1, <3>2, <3>3
  <2>3. CASE i <= m /\ ~(k <= m)
    BY <1>2, <1>3, <2>3
  <2>4. CASE ~(i <= m) /\ k <= m
    BY <1>2, <1>3, <2>4
  <2>5. QED
    BY <2>1, <2>2, <2>3, <2>4
<1>5. \A y \in Range(u) : \E i \in 1..m + n : y = u[i]
  BY <1>1 DEF u, Range
<1>6. ASSUME NEW x \in Range(u)
      PROVE  x \in Range(s) \/ x \in Range(t)
  <2>2. PICK i \in 1..m + n : x = u[i]
    BY <1>5, <1>6
  <2>3. QED
    BY <1>2, <1>3, <2>2
<1>7. QED
  BY <1>1, <1>4, <1>6 DEF Disjoint, u

LEMMA Single == \A x : /\ <<x>> \in Seq({x}) /\ Range(<<x>>) = {x} /\ Disjoint(<<x>>)
BY DEF Range, Disjoint

(* No hit is in two stages of the pipeline: see NowhereTwice.              *)
THEOREM NowhereTwiceAlways == Spec => []NowhereTwice
<1>1. IInv => NowhereTwice
  <2> SUFFICES ASSUME IInv
               PROVE  NowhereTwice
    OBVIOUS
  <2> DEFINE E == [i \in 1..Len(events) |-> HitsOf(events[i])]
             H == SUBSET Hits
  <2>1. events \in Seq(Requests) /\ Len(events) \in Nat
        /\ batches \in Seq(H) /\ batch \in H /\ writing \in H
    BY DEF IInv, TypeOK
  <2>2. \A i \in 1..Len(events) : events[i] \in Requests /\ events[i] \in Range(events)
    BY <2>1, RangeIs
  <2>3. E \in Seq(H) /\ DOMAIN E = 1..Len(events)
        /\ \A i \in 1..Len(events) : E[i] = HitsOf(events[i])
    BY <2>1, <2>2, HitsAre
  <2> HIDE DEF E
  <2>4. \A h \in Hits :
          /\ InEvents(h) => h \notin batch /\ ~InBatches(h) /\ h \notin writing
          /\ h \in batch => ~InBatches(h) /\ h \notin writing
          /\ InBatches(h) => h \notin writing
    BY DEF IInv, Exclusive
  <2>5. Disjoint(E)
    <3>1. \A i, k \in 1..Len(events) : i # k => events[i] # events[k]
      BY <2>1 DEF IInv, Exclusive, Distinct
    <3>2. \A q, r \in Requests : q # r => HitsOf(q) \cap HitsOf(r) = {}
      BY HitsAre
    <3>3. QED
      BY <2>2, <2>3, <3>1, <3>2 DEF Disjoint
  <2>6. \A x \in Range(E) : x \subseteq Hits /\ \A h \in x : InEvents(h)
    BY <2>2, <2>3, HitsAre, RangeIs DEF InEvents
  <2>7. \A x \in Range(batches) : x \subseteq Hits /\ \A h \in x : InBatches(h)
    BY <2>1, RangeIs DEF InBatches
  <2>8. /\ <<batch>> \in Seq(H) /\ Range(<<batch>>) = {batch} /\ Disjoint(<<batch>>)
        /\ <<writing>> \in Seq(H) /\ Range(<<writing>>) = {writing} /\ Disjoint(<<writing>>)
    BY <2>1, Single
  <2> DEFINE F == E \o <<batch>>
             G == F \o batches
  <2> HIDE DEF H
  <2>9. /\ F \in Seq(H) /\ Disjoint(F)
        /\ \A x \in Range(F) : x \in Range(E) \/ x = batch
    <3>1. \A x \in Range(E), y \in Range(<<batch>>) : x \cap y = {}
      BY <2>4, <2>6, <2>8
    <3>2. QED
      BY <2>3, <2>5, <2>8, <3>1, Concatenated
  <2> HIDE DEF F
  <2>10. /\ G \in Seq(H) /\ Disjoint(G)
        /\ \A x \in Range(G) : x \in Range(E) \/ x = batch \/ x \in Range(batches)
    <3>1. ASSUME NEW x \in Range(F), NEW y \in Range(batches), NEW h \in x, h \in y
          PROVE  FALSE
      <4>1. h \in Hits /\ InBatches(h)
        BY <2>7, <3>1
      <4>2. x \in Range(E) \/ x = batch
        BY <2>9
      <4>3. InEvents(h) \/ h \in batch
        BY <2>6, <4>2
      <4>4. QED
        BY <2>4, <4>1, <4>3
    <3>2. Disjoint(batches)
      BY DEF IInv, Exclusive
    <3>3. QED
      BY <2>1, <2>9, <3>1, <3>2, Concatenated
  <2> HIDE DEF G
  <2>11. Disjoint(G \o <<writing>>)
    <3>1. ASSUME NEW x \in Range(G), NEW y \in Range(<<writing>>), NEW h \in x, h \in y
          PROVE  FALSE
      <4>1. h \in writing /\ h \in Hits
        BY <2>1, <2>8, <3>1 DEF H
      <4>2. x \in Range(E) \/ x = batch \/ x \in Range(batches)
        BY <2>10
      <4>3. InEvents(h) \/ h \in batch \/ InBatches(h)
        BY <2>6, <2>7, <4>2
      <4>4. QED
        BY <2>4, <4>1, <4>3
    <3>2. \A x \in Range(G), y \in Range(<<writing>>) : x \cap y = {}
      BY <3>1
    <3>3. <<writing>> \in Seq(H) /\ Disjoint(<<writing>>) /\ G \in Seq(H) /\ Disjoint(G)
      BY <2>8, <2>10
    <3>4. QED
      BY <3>2, <3>3, Concatenated
  <2>12. QED
    BY <2>11 DEF NowhereTwice, Disjoint, E, F, G
<1>2. QED
  BY <1>1, Inductive, PTL

(* A graceful shutdown leaves no accepted hit behind: see ShutdownDrains.  *)
THEOREM ShutdownDrainsAlways == Spec => []ShutdownDrains
<1>1. IInv => ShutdownDrains
  <2> SUFFICES ASSUME IInv, server = "stopped", NEW h \in Accepted
               PROVE  count[h] = 1 \/ missed[h] # "no"
    BY DEF ShutdownDrains
  <2>1. h \in Hits
    BY HitsAre DEF Accepted
  <2>2. events = <<>> /\ batch = {} /\ batches = <<>> /\ writing = {}
    BY DEF IInv, Ends
  <2>3. ~In(h)
    BY <2>2, RangeOfEmpty DEF In, InEvents, InBatches
  <2>4. QED
    BY <2>1, <2>3, Places DEF IInv, Conserved
<1>2. QED
  BY <1>1, Inductive, PTL

(* No handler finds its channel closed: see NeverClosedOnHandlers.         *)
THEOREM NeverClosedAlways == Spec => []NeverClosedOnHandlers
<1>1. IInv => NeverClosedOnHandlers
  BY DEF IInv, Ends, NeverClosedOnHandlers
<1>2. QED
  BY <1>1, Inductive, PTL

-----------------------------------------------------------------------------
(* What became of a hit.                                                   *)
LEMMA Outcomes ==
  ASSUME IInv, NEW h \in Hits
  PROVE  /\ Outcome[h] = IF count[h] > 0 THEN "counted"
                         ELSE IF missed[h] # "no" THEN "missed"
                         ELSE IF Tracked(h) THEN "accepted" ELSE "unknown"
         /\ In(h) => Outcome[h] = "accepted"
         /\ ~Tracked(h) => Outcome[h] = "unknown"
<1>1. Outcome[h] = IF count[h] > 0 THEN "counted"
                   ELSE IF missed[h] # "no" THEN "missed"
                   ELSE IF Tracked(h) THEN "accepted" ELSE "unknown"
  BY Places DEF Outcome, IInv
<1>2. /\ count[h] \in Nat /\ count[h] <= 1
      /\ Tracked(h) <=> In(h) \/ count[h] = 1 \/ missed[h] # "no"
      /\ In(h) => count[h] = 0 /\ missed[h] = "no"
  BY DEF IInv, TypeOK, Conserved
<1>3. QED
  BY <1>1, <1>2

(* A step that leaves counts, reasons and tracked requests is a stutter.   *)
LEMMA SameOutcome ==
  ASSUME IInv, IInv',
         \A h \in Hits : count'[h] = count[h] /\ missed'[h] = missed[h],
         \A h \in Hits : Tracked(h)' <=> Tracked(h)
  PROVE  Outcome' = Outcome
<1>1. \A h \in Hits : Outcome[h] = IF count[h] > 0 THEN "counted"
                                   ELSE IF missed[h] # "no" THEN "missed"
                                   ELSE IF Tracked(h) THEN "accepted" ELSE "unknown"
  BY Outcomes
<1>2. \A h \in Hits : Outcome'[h] = IF count'[h] > 0 THEN "counted"
                                    ELSE IF missed'[h] # "no" THEN "missed"
                                    ELSE IF Tracked(h)' THEN "accepted" ELSE "unknown"
  BY HitsAre DEF Outcome, Accepted, Tracked
<1>3. \A h \in Hits : Outcome'[h] = Outcome[h]
  BY <1>1, <1>2
<1>4. QED
  BY <1>3 DEF Outcome

(* The pipeline implements the promise of EventCounts: see ImplementsCounts*)
THEOREM TrackerImplementsCounts == Spec => ImplementsCounts
<1>1. Init => Counts!Init
  <2> SUFFICES ASSUME Init
               PROVE  Counts!Init
    OBVIOUS
  <2>1. \A h \in Hits : Outcome[h] = "unknown"
    BY HitsAre, InitIInv, Outcomes DEF Init, Tracked
  <2>2. QED
    BY <2>1 DEF Counts!Init, Outcome
<1>2. IInv /\ IInv' /\ [Next]_vars => [Counts!Next]_Outcome
  <2> SUFFICES ASSUME IInv, IInv', [Next]_vars
               PROVE  Counts!Next \/ Outcome' = Outcome
    OBVIOUS
  <2>0. \A h \in Hits :
          Outcome'[h] = IF count'[h] > 0 THEN "counted"
                        ELSE IF missed'[h] # "no" THEN "missed"
                        ELSE IF Tracked(h)' THEN "accepted" ELSE "unknown"
    BY HitsAre DEF Outcome, Accepted, Tracked
  <2>1. ASSUME NEW r \in Requests, Track(r)
        PROVE  Counts!Next
    <3>1. /\ request[r] = "waiting" /\ request' = [request EXCEPT ![r] = "tracked"]
          /\ count' = count /\ missed' = missed
      BY <2>1 DEF Track, database
    <3>2. \A h \in Hits : /\ h[1] = r => ~Tracked(h) /\ Tracked(h)'
                          /\ h[1] # r => (Tracked(h)' <=> Tracked(h))
      BY <3>1, HitsAre DEF Tracked, IInv, TypeOK
    <3>3. \A h \in Hits : h \in HitsOf(r) <=> h[1] = r
      BY HitsOfRequest
    <3>4. ASSUME NEW h \in Hits
          PROVE  /\ h \in HitsOf(r) => Outcome[h] = "unknown"
                 /\ Outcome'[h] = IF h \in HitsOf(r) THEN "accepted" ELSE Outcome[h]
      <4>1. count[h] \in Nat /\ (~Tracked(h) => count[h] = 0 /\ missed[h] = "no")
        BY DEF IInv, TypeOK, Conserved
      <4>2. CASE h \in HitsOf(r)
        BY <2>0, <3>1, <3>2, <3>3, <4>1, <4>2, Outcomes
      <4>3. CASE h \notin HitsOf(r)
        BY <2>0, <3>1, <3>2, <3>3, <4>3, Outcomes
      <4>4. QED
        BY <4>2, <4>3
    <3>5. Outcome' = [h \in Hits |-> IF h \in HitsOf(r) THEN "accepted" ELSE Outcome[h]]
      BY <3>4 DEF Outcome
    <3>6. HitsOf(r) \in SUBSET Hits
      BY HitsAre
    <3>7. Counts!Accept(HitsOf(r))
      BY <3>4, <3>5, <3>6 DEF Counts!Accept, Counts!Move
    <3>8. QED
      BY <3>6, <3>7 DEF Counts!Next
(* Hits in memory are counted or missed.                                   *)
  <2>2. ASSUME NEW S \in SUBSET Hits, \A h \in S : In(h),
               \A h \in S : \/ count'[h] = 1
                            \/ count'[h] = 0 /\ missed'[h] # "no",
               \A h \in Hits \ S : count'[h] = count[h] /\ missed'[h] = missed[h],
               \A h \in Hits : Tracked(h)' <=> Tracked(h)
        PROVE  Counts!Next
    <3> DEFINE C == {h \in S : count'[h] = 1}
    <3>1. C \in SUBSET S
      OBVIOUS
    <3>2. \A h \in S : Outcome[h] = "accepted"
      BY <2>2, Outcomes
    <3>3. ASSUME NEW h \in Hits
          PROVE  Outcome'[h] = IF h \in C THEN "counted"
                               ELSE IF h \in S THEN "missed" ELSE Outcome[h]
      <4>1. CASE h \in S
        BY <2>0, <2>2, <4>1
      <4>2. CASE h \notin S
        BY <2>0, <2>2, <4>2, Outcomes
      <4>3. QED
        BY <4>1, <4>2
    <3> HIDE DEF C
    <3>4. Outcome' = [h \in Hits |-> IF h \in C THEN "counted"
                                    ELSE IF h \in S THEN "missed" ELSE Outcome[h]]
      BY <3>3 DEF Outcome
    <3>5. Counts!Write(S, C)
      BY <3>2, <3>4 DEF Counts!Write
    <3>6. QED
      BY <3>1, <3>5 DEF Counts!Next
  <2>3. ASSUME FlushViews \/ FlushSearches
        PROVE  Counts!Next
    <3>1. PICK kind \in {"view", "search"} :
            WriteKind(kind) \/ WriteKindFails(kind)
      BY <2>3 DEF FlushViews, FlushSearches
    <3> DEFINE S == {h \in writing : KindOf(h) = kind}
    <3>2. S \in SUBSET Hits /\ \A h \in S : In(h)
      BY DEF IInv, TypeOK, In
    <3>3. \A h \in S : count[h] = 0 /\ missed[h] = "no"
      BY <3>2 DEF IInv, Conserved
    <3>4. \A h \in S : \/ count'[h] = 1
                       \/ count'[h] = 0 /\ missed'[h] # "no"
      <4>1. CASE WriteKind(kind)
        BY <3>2, <3>3, <4>1 DEF WriteKind
      <4>2. CASE WriteKindFails(kind)
        BY <3>2, <3>3, <4>2 DEF WriteKindFails
      <4>3. QED
        BY <3>1, <4>1, <4>2
    <3>5. \A h \in Hits \ S : count'[h] = count[h] /\ missed'[h] = missed[h]
      BY <3>1 DEF WriteKind, WriteKindFails
    <3>6. \A h \in Hits : Tracked(h)' <=> Tracked(h)
      BY <2>3 DEF FlushViews, FlushSearches, Tracked
    <3> HIDE DEF S
    <3>7. QED
      BY <2>2, <3>2, <3>4, <3>5, <3>6
  <2>4. CASE Crash
    <3>1. InMemory \in SUBSET Hits /\ \A h \in InMemory : In(h)
      BY Places DEF IInv
    <3>2. \A h \in InMemory : count'[h] = 0 /\ missed'[h] # "no"
      BY <2>4, <3>1 DEF Crash, database, IInv, Conserved
    <3>3. \A h \in Hits \ InMemory : count'[h] = count[h] /\ missed'[h] = missed[h]
      BY <2>4 DEF Crash, database
    <3>4. \A h \in Hits : Tracked(h)' <=> Tracked(h)
      BY <2>4, HitsAre DEF Crash, Tracked
    <3>5. QED
      BY <2>2, <3>1, <3>2, <3>3, <3>4
  <2>5. ASSUME NEW r \in Requests, Arrive(r) \/ Disconnect(r)
        PROVE  Outcome' = Outcome
    <3>1. count' = count /\ missed' = missed
      BY <2>5 DEF Arrive, Disconnect, database
    <3>2. \A h \in Hits : Tracked(h)' <=> Tracked(h)
      BY <2>5, HitsAre DEF Arrive, Disconnect, Tracked, IInv, TypeOK
    <3>3. QED
      BY <3>1, <3>2, SameOutcome
  <2>6. CASE UNCHANGED <<request, count, missed>>
    BY <2>6, SameOutcome DEF Tracked
  <2>7. QED
    <3>1. \/ \E r \in Requests : Arrive(r) \/ Disconnect(r) \/ Track(r)
          \/ FlushViews \/ FlushSearches \/ Crash
          \/ UNCHANGED <<request, count, missed>>
      BY DEF Next, Handler, Aggregator, Flusher, Main, vars, memory, database, FlushTick,
         SendBatch, SendLastBatch, Aggregate, Receive, Restart,
         Cancelled, FlusherExits, Signal, CancelWorkers, Stop, SetPublished
    <3>2. QED
      BY <2>1, <2>3, <2>4, <2>5, <2>6, <3>1
<1>3. QED
  BY <1>1, <1>2, Inductive, PTL DEF Spec, ImplementsCounts, Counts!Spec
=============================================================================
