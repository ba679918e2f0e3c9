-------------------------- MODULE NotificationsProofs --------------------------
(***************************************************************************)
(* Proofs about Notifications, for any notifications and connections, with *)
(* deliveries of any duration and any number of failures.                  *)
(*                                                                         *)
(* That an email is sent again only after a failure is an account of sends *)
(* and failures (Credits): a notification that was sent once more than     *)
(* there were failures is processed, or the worker is about to commit its  *)
(* mark; any failure that could undo this is one failure more.             *)
(***************************************************************************)
EXTENDS Notifications, TLAPS

USE NotesAssumption, NoneAssumption, BoundsAssumption

(* What the worker has in each of its steps.                               *)
WorkerHas ==
  /\ worker.step = "idle" => worker = Idle
  /\ worker.step # "idle" => worker.conn \in Conns
  /\ worker.step \in {"send", "update", "commit"} => worker.note \in Notes

(* Committing the worker's transaction marks n.                            *)
Delivering(n) ==
  /\ worker.note = n /\ HasClient
  /\ \/ At("update") /\ CanQuery
     \/ At("commit") /\ n \in conn[worker.conn].marked

Credits ==
  /\ \A n \in Notes : sends[n] <= failures + 1
  /\ \A n \in Notes : sends[n] = failures + 1 => n \in processed \/ Delivering(n)
  /\ At("send") => /\ sends[worker.note] <= failures
                   /\ ~CanQuery => sends[worker.note] + 1 <= failures

(* A connection in the pool has a transaction only if one was discarded.   *)
PoolIsClean == ~discarded => \A c \in free : conn[c].tx = "none"

(* What the tables and the transactions hold was accepted, and is marked   *)
(* only where it is.                                                       *)
TablesOK ==
  /\ processed \subseteq queued /\ queued \subseteq answered
  /\ \A c \in Conns :
       /\ conn[c].inserted \subseteq answered
       /\ conn[c].marked \subseteq queued \cup conn[c].inserted
       /\ conn[c].tx # "open" => conn[c].inserted = {} /\ conn[c].marked = {}
       /\ c \in clients => conn[c].tx # "none"

Delivers == worker.step \in {"send", "update", "commit"}

(* The notification that is being delivered waits for its mark.            *)
Taken ==
  /\ Delivers => /\ worker.note \in answered \ processed
                 /\ worker.note \in queued \/ discarded
  /\ worker.step \in {"send", "update"} /\ CanQuery =>
       worker.note \in queued \cup conn[worker.conn].inserted

(* Without a leak a transaction marks one notification and inserts none.   *)
OneByOne ==
  ~discarded => \A c \in Conns :
    /\ conn[c].inserted = {}
    /\ conn[c].marked # {} => /\ c = worker.conn /\ At("commit")
                              /\ conn[c].marked = {worker.note}

IInv ==
  /\ TypeOK /\ WorkerHas
  /\ PoolIsWhole
  /\ Credits
  /\ PoolIsClean /\ AnsweredIsQueued
  /\ TablesOK /\ Taken /\ OneByOne

-----------------------------------------------------------------------------
(* Records.                                                                *)
LEMMA NewConnectionIs ==
  /\ NewConnection \in Connection
  /\ NewConnection.tx = "none" /\ NewConnection.inserted = {}
  /\ NewConnection.marked = {} /\ NewConnection.locked = {}
BY DEF NewConnection, Connection

LEMMA Changed ==
  ASSUME NEW x \in Connection, NEW S \in SUBSET Notes
  PROVE  /\ [x EXCEPT !.inserted = S] \in Connection
         /\ [x EXCEPT !.marked = S] \in Connection
         /\ [x EXCEPT !.locked = S] \in Connection
         /\ [x EXCEPT !.tx = "open"] \in Connection
         /\ [x EXCEPT !.tx = "lost"] \in Connection
         /\ Recycle(x) \in Connection
BY NewConnectionIs DEF Connection, Recycle

LEMMA IdleIs == Idle.step = "idle" /\ Idle.conn = None /\ Idle.note = None
                /\ Idle \in [step : Steps, conn : Conns \cup {None}, note : Notes \cup {None}]
BY DEF Idle, Steps

(* The worker's step, its connection and its notification.                 *)
WorkerType == [step : Steps, conn : Conns \cup {None}, note : Notes \cup {None}]

-----------------------------------------------------------------------------
(* The types, and what the worker has.                                     *)
TypesOK == TypeOK /\ WorkerHas

LEMMA Typed ==
  ASSUME TypesOK
  PROVE  /\ worker \in WorkerType
         /\ \A c \in Conns : conn[c] \in Connection
         /\ \A c \in Conns : conn[c].inserted \subseteq Notes /\ conn[c].marked \subseteq Notes
                             /\ conn[c].locked \subseteq Notes
         /\ \A c \in Conns : Pending(c) \subseteq Notes
         /\ HasClient => worker.conn \in Conns
BY DEF TypesOK, TypeOK, WorkerType, Connection, Pending, HasClient

LEMMA NextTypesOK == TypesOK /\ [Next]_vars => TypesOK'
<1> SUFFICES ASSUME TypesOK, [Next]_vars
             PROVE  TypesOK'
  OBVIOUS
<1> USE Typed DEF TypesOK
<1>1. ASSUME NEW n \in Notes, NEW c \in Conns, Enqueue(n, c)
      PROVE  TypesOK'
  <2>1. conn' \in [Conns -> Connection] /\ queued' \subseteq Notes
    <3> DEFINE x == [conn[c] EXCEPT !.inserted = @ \cup {n}]
    <3>1. x \in Connection
      BY Changed
    <3>2. conn' = [conn EXCEPT ![c] = x] \/ UNCHANGED conn
      BY <1>1 DEF Enqueue
    <3> HIDE DEF x
    <3>3. queued' \subseteq Notes
      BY <1>1 DEF Enqueue, TypeOK
    <3>4. QED
      BY <3>1, <3>2, <3>3 DEF TypeOK
  <2>2. QED
    BY <1>1, <2>1 DEF Enqueue, TypeOK, WorkerHas
<1>2. ASSUME NEW n \in Notes, VerifyEmail(n)
      PROVE  TypesOK'
  BY <1>2 DEF VerifyEmail, TypeOK, WorkerHas, pool
<1>3. ASSUME NEW c \in Conns, Begin(c)
      PROVE  TypesOK'
  <2>1. conn' \in [Conns -> Connection]
    BY <1>3, Changed DEF Begin, TypeOK
  <2>2. QED
    BY <1>3, <2>1 DEF Begin, TypeOK, WorkerHas, Steps, tables
<1>4. CASE GetPending
  <2>1. At("get") /\ worker.conn \in Conns
    BY <1>4 DEF GetPending, At, WorkerHas
  <2>2. CASE worker' = [worker EXCEPT !.step = "rollback"] /\ UNCHANGED conn
    <3>1. worker' \in WorkerType /\ worker'.step = "rollback" /\ worker'.conn = worker.conn
      BY <2>2 DEF WorkerType, Steps
    <3>2. QED
      BY <1>4, <2>1, <2>2, <3>1 DEF GetPending, TypeOK, WorkerHas, WorkerType, tables
  <2>3. ASSUME NEW n \in Pending(worker.conn),
               conn' = [conn EXCEPT ![worker.conn].locked = @ \cup {n}],
               worker' = [worker EXCEPT !.step = "send", !.note = n]
        PROVE  TypesOK'
    <3>1. n \in Notes
      BY <2>1
    <3>2. worker' \in WorkerType /\ worker'.step = "send" /\ worker'.conn = worker.conn
          /\ worker'.note = n
      <4>1. "send" \in Steps /\ worker \in WorkerType
        BY DEF Steps
      <4> HIDE Typed DEF TypesOK
      <4>2. QED
        BY <2>3, <3>1, <4>1 DEF WorkerType, Steps
    <3> DEFINE x == [conn[worker.conn] EXCEPT !.locked = @ \cup {n}]
    <3>3. x \in Connection /\ conn' = [conn EXCEPT ![worker.conn] = x]
      BY <2>1, <2>3, <3>1, Changed
    <3> HIDE DEF x
    <3>4. conn' \in [Conns -> Connection]
      BY <2>1, <3>3 DEF TypeOK
    <3>5. QED
      BY <1>4, <2>1, <3>1, <3>2, <3>4 DEF GetPending, TypeOK, WorkerHas, WorkerType, tables
  <2>4. QED
    BY <1>4, <2>2, <2>3 DEF GetPending, GoOn
<1>5. ASSUME Rollback \/ PrepareFails
      PROVE  TypesOK'
  <2>1. conn' \in [Conns -> Connection] /\ free' \subseteq Conns /\ clients' \subseteq Conns
    BY <1>5, NewConnectionIs DEF Rollback, Release, PrepareFails, TypeOK, pool
  <2>2. worker' = Idle
    BY <1>5 DEF Rollback, Release, PrepareFails
  <2>3. QED
    BY <1>5, <2>1, <2>2, IdleIs DEF Rollback, PrepareFails, TypeOK, WorkerHas, tables
<1>6. ASSUME Send \/ Update
      PROVE  TypesOK'
  <2>1. worker.step \in {"send", "update"} /\ worker.note \in Notes /\ worker.conn \in Conns
    BY <1>6 DEF Send, Update, At, WorkerHas
  <2>2. worker' \in WorkerType /\ worker'.step \in {"update", "commit"}
        /\ worker'.note = worker.note /\ worker'.conn = worker.conn
    <3>1. "update" \in Steps /\ "commit" \in Steps /\ worker \in WorkerType
      BY DEF Steps
    <3>2. \/ worker' = [worker EXCEPT !.step = "update"]
          \/ worker' = [worker EXCEPT !.step = "commit"]
      BY <1>6 DEF Send, Update, GoOn
    <3> HIDE Typed DEF TypesOK
    <3>3. QED
      BY <3>1, <3>2 DEF WorkerType, Steps
  <2>3. sends' \in [Notes -> Nat]
    BY <1>6, <2>1 DEF Send, Update, TypeOK
  <2>4. [conn[worker.conn] EXCEPT !.marked = @ \cup {worker.note}] \in Connection
    BY <2>1, Changed
  <2>5. conn' \in [Conns -> Connection]
    BY <1>6, <2>1, <2>4 DEF Send, Update, TypeOK, pool
  <2>6. QED
    BY <1>6, <2>1, <2>2, <2>3, <2>5
       DEF Send, Update, TypeOK, WorkerHas, WorkerType, tables, pool
<1>7. CASE Commit
  <2>1. conn' \in [Conns -> Connection] /\ free' \subseteq Conns /\ clients' \subseteq Conns
    BY <1>7, NewConnectionIs DEF Commit, Release, TypeOK, pool
  <2>2. worker' = Idle
    BY <1>7 DEF Commit, Release
  <2>3. queued' \subseteq Notes /\ processed' \subseteq Notes
    BY <1>7 DEF Commit, TypeOK
  <2>4. QED
    BY <1>7, <2>1, <2>2, <2>3, IdleIs DEF Commit, TypeOK, WorkerHas
<1>8. ASSUME NEW c \in Conns, Discard(c)
      PROVE  TypesOK'
  <2>1. conn' \in [Conns -> Connection]
    BY <1>8, Changed DEF Discard, TypeOK
  <2>2. failures' \in 0..MaxFailures
    BY <1>8 DEF Discard, Fails, TypeOK
  <2>3. QED
    BY <1>8, <2>1, <2>2 DEF Discard, TypeOK, WorkerHas, tables
<1>9. ASSUME NEW c \in Conns, LoseConnection(c)
      PROVE  TypesOK'
  <2>1. conn' \in [Conns -> Connection]
    BY <1>9, NewConnectionIs, Changed DEF LoseConnection, TypeOK
  <2>2. failures' \in 0..MaxFailures
    BY <1>9 DEF LoseConnection, Fails, TypeOK
  <2>3. QED
    BY <1>9, <2>1, <2>2 DEF LoseConnection, TypeOK, WorkerHas, tables
<1>10. CASE Crash
  <2>1. conn' \in [Conns -> Connection] /\ failures' \in 0..MaxFailures
    BY <1>10, NewConnectionIs DEF Crash, Fails, TypeOK
  <2>2. QED
    BY <1>10, <2>1, IdleIs DEF Crash, TypeOK, WorkerHas, tables
<1>11. CASE UNCHANGED vars
  BY <1>11 DEF vars, tables, pool, TypeOK, WorkerHas
<1>12. QED
  BY <1>1, <1>2, <1>3, <1>4, <1>5, <1>6, <1>7, <1>8, <1>9, <1>10, <1>11 DEF Next, Worker
-----------------------------------------------------------------------------
(* Where the connections are.                                              *)

(* Of the connections, each step moves at most one.                        *)
LEMMA NextPoolIsWhole == TypesOK /\ PoolIsWhole /\ [Next]_vars => PoolIsWhole'
<1> SUFFICES ASSUME TypesOK, PoolIsWhole, [Next]_vars
             PROVE  PoolIsWhole'
  OBVIOUS
<1> USE DEF PoolIsWhole
<1>1. ASSUME NEW c \in Conns, Begin(c) \/ Discard(c) \/ LoseConnection(c)
      PROVE  PoolIsWhole'
  BY <1>1 DEF Begin, Discard, LoseConnection
<1>2. ASSUME Rollback \/ Commit
      PROVE  PoolIsWhole'
  <2>1. CASE HasClient
    BY <1>2, <2>1 DEF Rollback, Commit, Release, HasClient
  <2>2. CASE ~HasClient
    BY <1>2, <2>2 DEF Rollback, Commit, pool
  <2>3. QED
    BY <2>1, <2>2
<1>3. CASE Crash
  BY <1>3 DEF Crash
<1>4. CASE UNCHANGED <<free, clients>>
  BY <1>4
<1>5. QED
  <2>1. \/ \E c \in Conns : Begin(c) \/ Discard(c) \/ LoseConnection(c)
        \/ Rollback \/ Commit \/ Crash \/ UNCHANGED <<free, clients>>
    BY DEF Next, Worker, vars, pool, Enqueue, VerifyEmail, GetPending, PrepareFails, Send,
       Update
  <2>2. QED
    BY <1>1, <1>2, <1>3, <1>4, <2>1

(* The pool gives out an open transaction only after a discard, so what a  *)
(* request inserts is committed at once.                                   *)
LEMMA NextQueued ==
  TypesOK /\ PoolIsWhole /\ PoolIsClean /\ AnsweredIsQueued /\ [Next]_vars
    => PoolIsClean' /\ AnsweredIsQueued'
<1> SUFFICES ASSUME TypesOK, PoolIsWhole, PoolIsClean, AnsweredIsQueued, [Next]_vars
             PROVE  PoolIsClean' /\ AnsweredIsQueued'
  OBVIOUS
<1> USE DEF PoolIsClean, AnsweredIsQueued
<1>0. /\ conn \in [Conns -> Connection] /\ free \subseteq Conns
      /\ \A c \in Conns : conn[c] \in Connection
  BY DEF TypesOK, TypeOK
<1>1. ASSUME NEW n \in Notes, NEW c \in Conns, Enqueue(n, c)
      PROVE  PoolIsClean' /\ AnsweredIsQueued'
  <2>1. CASE conn[c].tx = "open"
    BY <1>1, <2>1 DEF Enqueue
  <2>2. CASE conn[c].tx # "open"
    BY <1>1, <2>2 DEF Enqueue
  <2>3. QED
    BY <2>1, <2>2
<1>2. ASSUME NEW c \in Conns, Begin(c)
      PROVE  PoolIsClean' /\ AnsweredIsQueued'
  <2>1. free' = free \ {c} /\ \A d \in Conns : d # c => conn'[d] = conn[d]
    BY <1>0, <1>2 DEF Begin
  <2>2. QED
    BY <1>0, <1>2, <2>1 DEF Begin, tables
<1>3. ASSUME Rollback \/ Commit
      PROVE  PoolIsClean' /\ AnsweredIsQueued'
  <2>1. queued \subseteq queued' /\ UNCHANGED <<answered, discarded>>
    BY <1>3 DEF Rollback, Commit, tables
  <2>2. CASE HasClient
    <3>1. worker.conn \in Conns /\ conn' = [conn EXCEPT ![worker.conn] = NewConnection]
          /\ free' = free \cup {worker.conn}
      BY <1>3, <2>2, Typed DEF Rollback, Commit, Release
    <3>2. conn'[worker.conn].tx = "none"
          /\ \A d \in Conns : d # worker.conn => conn'[d] = conn[d]
      BY <1>0, <3>1, NewConnectionIs
    <3>3. QED
      BY <1>0, <2>1, <3>1, <3>2
  <2>3. CASE ~HasClient
    BY <1>3, <2>1, <2>3 DEF Rollback, Commit, pool
  <2>4. QED
    BY <2>2, <2>3
<1>4. ASSUME GetPending \/ Update
      PROVE  PoolIsClean' /\ AnsweredIsQueued'
  <2>1. queued' = queued /\ answered' = answered /\ free' = free
        /\ UNCHANGED discarded
    <3>1. CASE GetPending
      BY <3>1 DEF GetPending, tables
    <3>2. CASE Update
      BY <3>2 DEF Update, tables
    <3>3. QED
      BY <1>4, <3>1, <3>2
  <2>2. CASE CanQuery
    <3>1. worker.conn \notin free
      BY <2>2 DEF CanQuery, HasClient, PoolIsWhole
    <3>2. \A d \in Conns : d # worker.conn => conn'[d] = conn[d]
      <4>1. CASE GetPending
        BY <1>0, <4>1 DEF GetPending
      <4>2. CASE Update
        BY <1>0, <4>2 DEF Update
      <4>3. QED
        BY <1>4, <4>1, <4>2
    <3>3. ASSUME NEW d \in free
          PROVE  d \in Conns /\ conn'[d] = conn[d]
      <4>1. d \in Conns /\ d # worker.conn
        BY <1>0, <3>1
      <4>2. QED
        BY <3>2, <4>1
    <3>4. AnsweredIsQueued'
      BY <2>1
    <3>5. PoolIsClean'
      BY <2>1, <3>3
    <3>6. QED
      BY <3>4, <3>5
  <2>3. CASE ~CanQuery
    BY <1>4, <2>1, <2>3 DEF GetPending, Update
  <2>4. QED
    BY <2>2, <2>3
<1>5. ASSUME NEW c \in Conns, Discard(c)
      PROVE  PoolIsClean' /\ AnsweredIsQueued'
  <2>1. /\ conn'[c] = Recycle(conn[c]) /\ \A d \in Conns : d # c => conn'[d] = conn[d]
        /\ free' = free \cup {c} /\ discarded' = (discarded \/ conn[c].tx = "open")
        /\ UNCHANGED <<queued, answered>>
    BY <1>0, <1>5 DEF Discard, tables
  <2>2. conn[c].tx # "open" => Recycle(conn[c]).tx = "none"
    BY <1>0, NewConnectionIs DEF Recycle, Connection
  <2>3. QED
    BY <1>0, <2>1, <2>2
<1>6. ASSUME NEW c \in Conns, LoseConnection(c)
      PROVE  PoolIsClean' /\ AnsweredIsQueued'
  <2>1. /\ \A d \in Conns : d # c => conn'[d] = conn[d]
        /\ c \in free => conn'[c] = NewConnection
        /\ UNCHANGED <<queued, answered, discarded, free>>
    BY <1>0, <1>6 DEF LoseConnection, tables
  <2>2. QED
    BY <1>0, <2>1, NewConnectionIs
<1>7. CASE Crash
  BY <1>7, NewConnectionIs DEF Crash, tables
<1>8. CASE UNCHANGED <<queued, answered, discarded, free, conn>>
  BY <1>8
<1>9. QED
  <2>1. \/ \E n \in Notes, c \in Conns : Enqueue(n, c)
        \/ \E c \in Conns : Begin(c) \/ Discard(c) \/ LoseConnection(c)
        \/ GetPending \/ Rollback \/ Commit \/ Update \/ Crash
        \/ UNCHANGED <<queued, answered, discarded, free, conn>>
    BY DEF Next, Worker, vars, pool, tables, VerifyEmail, PrepareFails, Send
  <2>2. QED
    BY <1>1, <1>2, <1>3, <1>4, <1>5, <1>6, <1>7, <1>8, <2>1
-----------------------------------------------------------------------------
(* Sends and failures.                                                     *)
LEMMA NextCredits == TypesOK /\ Credits /\ [Next]_vars => Credits'
<1> SUFFICES ASSUME TypesOK, Credits, [Next]_vars
             PROVE  Credits'
  OBVIOUS
<1>0. /\ conn \in [Conns -> Connection] /\ failures \in Nat /\ sends \in [Notes -> Nat]
      /\ \A c \in Conns : conn[c] \in Connection
      /\ worker.step = "send" => worker.note \in Notes
      /\ worker.step # "idle" => worker.conn \in Conns
      /\ Idle.step # "send"
  BY IdleIs DEF TypesOK, TypeOK, WorkerHas
(* A failure gives every notification a credit.                            *)
<1>1. ASSUME failures' = failures + 1, sends' = sends, worker' = worker \/ worker' = Idle
      PROVE  Credits'
  <2>1. \A n \in Notes : sends'[n] <= failures'
    BY <1>0, <1>1 DEF Credits
  <2>2. worker'.step = "send" =>
          sends'[worker'.note] <= failures' /\ sends'[worker'.note] + 1 <= failures'
    BY <1>0, <1>1 DEF Credits, At
  <2>3. failures' \in Nat /\ \A n \in Notes : sends'[n] \in Nat
    BY <1>0, <1>1
  <2>4. QED
    BY <2>1, <2>2, <2>3 DEF Credits, At
(* Otherwise a notification that was sent stays processed, or on its way.  *)
<1>2. ASSUME failures' = failures, sends' = sends, processed \subseteq processed',
             \A n \in Notes : Delivering(n) => n \in processed' \/ Delivering(n)',
             worker'.step = "send" =>
               /\ sends[worker'.note] <= failures
               /\ ~CanQuery' => sends[worker'.note] + 1 <= failures
      PROVE  Credits'
  BY <1>0, <1>2 DEF Credits, At
(* What matters of the worker's connection and of the tables is unchanged. *)
<1>3. ASSUME failures' = failures, sends' = sends, processed' = processed,
             worker' = worker, HasClient' = HasClient,
             worker.conn \in Conns => /\ conn'[worker.conn].tx = conn[worker.conn].tx
                                      /\ conn'[worker.conn].marked = conn[worker.conn].marked
      PROVE  Credits'
  <2>1. worker.step # "idle" => CanQuery' = CanQuery
    BY <1>0, <1>3 DEF CanQuery
  <2>2. \A n \in Notes : Delivering(n) => Delivering(n)'
    BY <1>0, <1>3, <2>1 DEF Delivering, At
  <2>3. worker'.step = "send" =>
          /\ sends[worker'.note] <= failures
          /\ ~CanQuery' => sends[worker'.note] + 1 <= failures
    BY <1>3, <2>1 DEF Credits, At
  <2>4. QED
    BY <1>2, <1>3, <2>2, <2>3
<1>4. ASSUME NEW n \in Notes, NEW c \in Conns, Enqueue(n, c)
      PROVE  Credits'
  <2> DEFINE x == [conn[c] EXCEPT !.inserted = @ \cup {n}]
  <2>1. x \in Connection /\ x.tx = conn[c].tx /\ x.marked = conn[c].marked
    BY <1>0 DEF Connection
  <2>2. conn' = [conn EXCEPT ![c] = x] \/ UNCHANGED conn
    BY <1>4 DEF Enqueue
  <2> HIDE DEF x
  <2>3. \A d \in Conns : conn'[d].tx = conn[d].tx /\ conn'[d].marked = conn[d].marked
    BY <1>0, <2>1, <2>2
  <2>4. QED
    BY <1>3, <1>4, <2>3 DEF Enqueue, HasClient
<1>5. ASSUME NEW c \in Conns, Begin(c)
      PROVE  Credits'
  <2>1. worker.step = "idle" /\ worker'.step = "get"
    BY <1>5 DEF Begin, At
  <2>2. \A n \in Notes : ~Delivering(n)
    BY <2>1 DEF Delivering, At
  <2>3. QED
    BY <1>2, <1>5, <2>1, <2>2 DEF Begin, tables
<1>6. CASE GetPending
  <2>1. /\ worker.step = "get" /\ worker.conn \in Conns
        /\ failures' = failures /\ sends' = sends /\ processed' = processed
        /\ clients' = clients
    BY <1>0, <1>6 DEF GetPending, At, tables
  <2>2. \A n \in Notes : ~Delivering(n)
    BY <2>1 DEF Delivering, At
  <2>3. CASE worker' = [worker EXCEPT !.step = "rollback"]
    <3>1. worker'.step # "send"
      BY <2>3, Typed DEF WorkerType
    <3>2. QED
      BY <1>2, <2>1, <2>2, <3>1
  <2>4. ASSUME NEW n \in Pending(worker.conn), CanQuery,
               conn' = [conn EXCEPT ![worker.conn].locked = @ \cup {n}],
               worker' = [worker EXCEPT !.step = "send", !.note = n]
        PROVE  Credits'
    <3>1. n \in Notes /\ n \notin processed
      BY <2>1, Typed DEF Pending
    <3>2. sends[n] <= failures
      BY <1>0, <2>2, <3>1 DEF Credits
    <3>3. worker'.note = n /\ worker'.conn = worker.conn
      BY <2>4, <3>1, Typed DEF WorkerType
    <3> DEFINE x == [conn[worker.conn] EXCEPT !.locked = @ \cup {n}]
    <3>4. x.tx = conn[worker.conn].tx
      BY <1>0, <2>1 DEF Connection
    <3>5. conn' = [conn EXCEPT ![worker.conn] = x]
      BY <2>4
    <3> HIDE DEF x
    <3>6. conn'[worker.conn].tx = conn[worker.conn].tx
      BY <1>0, <2>1, <3>4, <3>5
    <3>7. CanQuery'
      BY <2>1, <2>4, <3>3, <3>6 DEF CanQuery, HasClient
    <3>8. QED
      BY <1>2, <2>1, <2>2, <3>2, <3>3, <3>7
  <2>5. QED
    BY <1>6, <2>3, <2>4 DEF GetPending, GoOn
<1>7. ASSUME Rollback \/ PrepareFails
      PROVE  Credits'
  <2>1. /\ worker.step \in {"rollback", "send"} /\ worker' = Idle
        /\ failures' = failures /\ sends' = sends /\ processed' = processed
    BY <1>7 DEF Rollback, PrepareFails, At, Release, tables
  <2>2. \A n \in Notes : ~Delivering(n)
    BY <2>1 DEF Delivering, At
  <2>3. QED
    BY <1>0, <1>2, <2>1, <2>2
<1>8. CASE Send
  <2>0. PICK n \in Notes : n = worker.note
    BY <1>0, <1>8 DEF Send, At
  <2>1. /\ worker.step = "send" /\ worker.conn \in Conns
        /\ failures' = failures /\ processed' = processed
        /\ clients' = clients /\ conn' = conn
        /\ worker' = [worker EXCEPT !.step = "update"]
        /\ sends' = sends \/ sends' = [sends EXCEPT ![n] = @ + 1]
    BY <1>0, <1>8, <2>0 DEF Send, At, GoOn, tables, pool
  <2>2. worker'.step = "update" /\ worker'.note = n /\ worker'.conn = worker.conn
    BY <2>0, <2>1, Typed DEF WorkerType
  <2>3. sends[n] <= failures /\ (~CanQuery => sends[n] + 1 <= failures)
    BY <2>0, <2>1 DEF Credits, At
  <2>4. \A m \in Notes : ~Delivering(m)
    BY <2>1 DEF Delivering, At
  <2>5. /\ \A m \in Notes : m # n => sends'[m] = sends[m]
        /\ sends'[n] = sends[n] \/ sends'[n] = sends[n] + 1
    BY <1>0, <2>1
  <2>6. CanQuery => Delivering(n)'
    BY <2>1, <2>2 DEF CanQuery, Delivering, HasClient, At
  <2>7. ASSUME NEW m \in Notes
        PROVE  /\ sends'[m] <= failures' + 1
               /\ sends'[m] = failures' + 1 => m \in processed' \/ Delivering(m)'
    <3>1. failures' = failures /\ processed' = processed
          /\ failures \in Nat /\ sends[m] \in Nat
      BY <1>0, <2>1
    <3>2. CASE m = n
      <4>1. sends'[m] = sends[m] \/ sends'[m] = sends[m] + 1
        BY <2>5, <3>2
      <4>2. sends[m] <= failures /\ (~CanQuery => sends[m] + 1 <= failures)
        BY <2>3, <3>2
      <4>3. CanQuery => Delivering(m)'
        BY <2>6, <3>2
      <4>4. QED
        BY <3>1, <4>1, <4>2, <4>3
    <3>3. CASE m # n
      <4>1. sends'[m] = sends[m] /\ sends[m] <= failures + 1
            /\ (sends[m] = failures + 1 => m \in processed)
        BY <2>4, <2>5, <3>3 DEF Credits
      <4>2. QED
        BY <3>1, <4>1
    <3>4. QED
      BY <3>2, <3>3
  <2>9. QED
    BY <2>2, <2>7 DEF Credits, At
<1>9. CASE Update
  <2>1. /\ worker.step = "update" /\ worker.conn \in Conns
        /\ failures' = failures /\ sends' = sends /\ processed' = processed
        /\ clients' = clients
        /\ worker' = [worker EXCEPT !.step = "commit"]
    BY <1>0, <1>9 DEF Update, At, GoOn, tables
  <2>2. worker'.step = "commit" /\ worker'.note = worker.note /\ worker'.conn = worker.conn
    BY <2>1, Typed DEF WorkerType
  <2>3. ASSUME NEW n \in Notes, Delivering(n)
        PROVE  Delivering(n)'
    <3> DEFINE x == [conn[worker.conn] EXCEPT !.marked = @ \cup {worker.note}]
    <3>1. CanQuery /\ HasClient /\ worker.note = n
      BY <2>1, <2>3 DEF Delivering, At
    <3>2. n \in x.marked
      BY <1>0, <2>1, <3>1 DEF Connection
    <3>3. conn' = [conn EXCEPT ![worker.conn] = x]
      BY <1>9, <3>1 DEF Update
    <3> HIDE DEF x
    <3>4. n \in conn'[worker.conn].marked
      BY <1>0, <2>1, <3>2, <3>3
    <3>5. QED
      BY <2>1, <2>2, <3>1, <3>4 DEF Delivering, HasClient, At
  <2>4. QED
    BY <1>2, <2>1, <2>2, <2>3
<1>10. CASE Commit
  <2>1. /\ worker.step = "commit" /\ worker' = Idle
        /\ failures' = failures /\ sends' = sends /\ processed \subseteq processed'
    BY <1>10 DEF Commit, At, Release
  <2>2. \A n \in Notes : Delivering(n) => n \in processed'
    BY <1>10, <2>1 DEF Commit, Delivering, At
  <2>3. QED
    BY <1>0, <1>2, <2>1, <2>2
<1>11. ASSUME NEW c \in Conns, Discard(c)
       PROVE  Credits'
  <2>1. sends' = sends /\ processed' = processed /\ worker' = worker
        /\ clients' = clients \ {c}
    BY <1>11 DEF Discard, tables
  <2>2. CASE c = worker.conn
    BY <1>1, <1>11, <2>1, <2>2 DEF Discard, Fails
  <2>3. CASE c # worker.conn
    <3>1. failures' = failures /\ HasClient' = HasClient
      BY <1>11, <2>1, <2>3 DEF Discard, HasClient
    <3>2. worker.conn \in Conns => conn'[worker.conn] = conn[worker.conn]
      BY <1>0, <1>11, <2>3 DEF Discard
    <3>3. QED
      BY <1>3, <2>1, <3>1, <3>2
  <2>4. QED
    BY <2>2, <2>3
<1>12. ASSUME Crash \/ \E c \in Conns : LoseConnection(c)
       PROVE  Credits'
  BY <1>1, <1>12 DEF Crash, LoseConnection, Fails
<1>13. CASE UNCHANGED <<processed, conn, clients, worker, sends, failures>>
  BY <1>3, <1>13 DEF HasClient
<1>14. QED
  <2>1. \/ \E n \in Notes, c \in Conns : Enqueue(n, c)
        \/ \E c \in Conns : Begin(c) \/ Discard(c)
        \/ GetPending \/ Rollback \/ PrepareFails \/ Send \/ Update \/ Commit
        \/ Crash \/ \E c \in Conns : LoseConnection(c)
        \/ UNCHANGED <<processed, conn, clients, worker, sends, failures>>
    BY DEF Next, Worker, vars, pool, tables, VerifyEmail
  <2>2. QED
    BY <1>4, <1>5, <1>6, <1>7, <1>8, <1>9, <1>10, <1>11, <1>12, <1>13, <2>1

-----------------------------------------------------------------------------
(* What is in the tables and in the transactions.                          *)
QueueOK == TablesOK /\ Taken /\ OneByOne

(* A step that moves no row changes a transaction at most by ending it,    *)
(* and leaves the worker where it is or without a notification.            *)
LEMMA TransactionsEnd ==
  ASSUME TypesOK, QueueOK, UNCHANGED <<queued, processed, answered>>,
         discarded => discarded',
         \A d \in Conns :
           \/ /\ conn'[d].inserted = conn[d].inserted /\ conn'[d].marked = conn[d].marked
              /\ conn[d].tx = "open" => conn'[d].tx = "open"
           \/ conn'[d].inserted = {} /\ conn'[d].marked = {},
         \A d \in clients' : conn'[d].tx # "none",
         \/ /\ worker' = worker
            /\ CanQuery' => /\ CanQuery
                           /\ conn'[worker.conn].inserted = conn[worker.conn].inserted
         \/ ~Delivers' /\ ~At("commit")
  PROVE  QueueOK'
<1>1. TablesOK'
  <2>1. ASSUME NEW d \in Conns
        PROVE  /\ conn'[d].inserted \subseteq answered
               /\ conn'[d].marked \subseteq queued \cup conn'[d].inserted
               /\ conn'[d].tx # "open" => conn'[d].inserted = {} /\ conn'[d].marked = {}
    BY DEF QueueOK, TablesOK
  <2>2. QED
    BY <2>1 DEF QueueOK, TablesOK
<1>2. Taken'
  BY DEF QueueOK, Taken, Delivers
<1>3. OneByOne'
  BY DEF QueueOK, OneByOne, At, Delivers
<1>4. QED
  BY <1>1, <1>2, <1>3 DEF QueueOK

LEMMA NextQueueOK ==
  TypesOK /\ PoolIsWhole /\ PoolIsClean /\ QueueOK /\ [Next]_vars => QueueOK'
<1> SUFFICES ASSUME TypesOK, PoolIsWhole, PoolIsClean, QueueOK, [Next]_vars
             PROVE  QueueOK'
  OBVIOUS
<1>0. /\ conn \in [Conns -> Connection] /\ \A c \in Conns : conn[c] \in Connection
      /\ free \subseteq Conns /\ clients \subseteq Conns
      /\ worker.step # "idle" => worker.conn \in Conns
      /\ Delivers => worker.note \in Notes
  BY DEF TypesOK, TypeOK, WorkerHas, Delivers
<1> DEFINE Same(d) == conn'[d] = conn[d]
           Without(d) == conn'[d].inserted = {} /\ conn'[d].marked = {}
<1>1. ASSUME NEW n \in Notes, NEW c \in Conns, Enqueue(n, c)
      PROVE  QueueOK'
  <2>1. /\ worker' = worker /\ clients' = clients /\ processed' = processed
        /\ answered' = answered \cup {n} /\ discarded' = discarded /\ c \in free
    BY <1>1 DEF Enqueue
  <2>2. CASE conn[c].tx # "open"
    <3>1. queued' = queued \cup {n} /\ conn' = conn
      BY <1>1, <2>2 DEF Enqueue
    <3>2. QED
      BY <2>1, <3>1 DEF QueueOK, TablesOK, Taken, OneByOne, Delivers, CanQuery, HasClient, At
  <2>3. CASE conn[c].tx = "open"
    <3> DEFINE x == [conn[c] EXCEPT !.inserted = @ \cup {n}]
    <3>1. /\ x.inserted = conn[c].inserted \cup {n} /\ x.marked = conn[c].marked
          /\ x.tx = "open"
      BY <1>0, <2>3 DEF Connection
    <3>2. conn' = [conn EXCEPT ![c] = x] /\ queued' = queued
      BY <1>1, <2>3 DEF Enqueue
    <3> HIDE DEF x
    <3>3. conn'[c] = x /\ \A d \in Conns : d # c => Same(d)
      BY <1>0, <3>2
    <3>4. discarded /\ c \notin clients
      BY <2>1, <2>3 DEF PoolIsClean, PoolIsWhole
    <3>5. TablesOK'
      BY <2>1, <3>1, <3>2, <3>3, <3>4 DEF QueueOK, TablesOK
    <3>6. Taken'
      <4>1. CanQuery' => CanQuery /\ Same(worker.conn)
        BY <1>0, <2>1, <3>3, <3>4 DEF CanQuery, HasClient
      <4>2. QED
        BY <2>1, <3>2, <3>4, <4>1 DEF QueueOK, Taken, Delivers
    <3>7. QED
      BY <2>1, <3>4, <3>5, <3>6 DEF QueueOK, OneByOne
  <2>4. QED
    BY <2>2, <2>3
<1>2. ASSUME NEW c \in Conns, Begin(c)
      PROVE  QueueOK'
  <2> DEFINE x == [conn[c] EXCEPT !.tx = "open"]
  <2>1. x.inserted = conn[c].inserted /\ x.marked = conn[c].marked /\ x.tx = "open"
    BY <1>0 DEF Connection
  <2>2. conn' = [conn EXCEPT ![c] = x]
    BY <1>2 DEF Begin
  <2> HIDE DEF x
  <2>3. conn'[c] = x /\ \A d \in Conns : d # c => Same(d)
    BY <1>0, <2>2
  <2>4. /\ UNCHANGED <<queued, processed, answered, discarded>>
        /\ worker.step = "idle" /\ worker'.step = "get" /\ clients' = clients \cup {c}
    BY <1>2 DEF Begin, tables, At
  <2>5. \A d \in clients' : conn'[d].tx # "none"
    BY <1>0, <2>1, <2>3, <2>4 DEF QueueOK, TablesOK
  <2>6. QED
    BY <2>1, <2>3, <2>4, <2>5, TransactionsEnd DEF Delivers, At
<1>3. CASE GetPending
  <2>1. /\ worker.step = "get" /\ worker.conn \in Conns
        /\ UNCHANGED <<queued, processed, answered, discarded, clients>>
    BY <1>0, <1>3 DEF GetPending, At, tables
  <2>2. CASE worker' = [worker EXCEPT !.step = "rollback"] /\ UNCHANGED conn
    <3>1. worker'.step = "rollback"
      BY <2>2, Typed DEF WorkerType
    <3>2. \A d \in clients' : conn'[d].tx # "none"
      BY <1>0, <2>1, <2>2 DEF QueueOK, TablesOK
    <3>3. QED
      BY <2>1, <2>2, <3>1, <3>2, TransactionsEnd DEF Delivers, At
  <2>3. ASSUME NEW n \in Pending(worker.conn), CanQuery,
               conn' = [conn EXCEPT ![worker.conn].locked = @ \cup {n}],
               worker' = [worker EXCEPT !.step = "send", !.note = n]
        PROVE  QueueOK'
    <3>1. /\ n \in Notes /\ n \in queued \cup conn[worker.conn].inserted
          /\ n \notin processed
      BY <2>1, Typed DEF Pending
    <3>2. worker'.step = "send" /\ worker'.note = n /\ worker'.conn = worker.conn
      BY <2>3, <3>1, Typed DEF WorkerType
    <3> DEFINE x == [conn[worker.conn] EXCEPT !.locked = @ \cup {n}]
    <3>3. /\ x.inserted = conn[worker.conn].inserted /\ x.marked = conn[worker.conn].marked
          /\ x.tx = conn[worker.conn].tx
      BY <1>0, <2>1 DEF Connection
    <3>4. conn' = [conn EXCEPT ![worker.conn] = x]
      BY <2>3
    <3> HIDE DEF x
    <3>5. \A d \in Conns : /\ conn'[d].inserted = conn[d].inserted
                            /\ conn'[d].marked = conn[d].marked
                            /\ conn'[d].tx = conn[d].tx
      BY <1>0, <2>1, <3>3, <3>4
    <3>6. TablesOK'
      BY <2>1, <3>5 DEF QueueOK, TablesOK
    <3>7. Taken'
      <4>1. n \in answered /\ (n \in queued \/ discarded)
        BY <2>1, <3>1 DEF QueueOK, TablesOK, OneByOne
      <4>2. QED
        BY <2>1, <3>1, <3>2, <3>5, <4>1 DEF Taken, Delivers
    <3>8. OneByOne'
      BY <2>1, <3>5 DEF QueueOK, OneByOne, At
    <3>9. QED
      BY <3>6, <3>7, <3>8 DEF QueueOK
  <2>4. QED
    BY <1>3, <2>2, <2>3 DEF GetPending, GoOn
<1>4. ASSUME Rollback \/ PrepareFails
      PROVE  QueueOK'
  <2>1. /\ UNCHANGED <<queued, processed, answered, discarded>>
        /\ worker.step \in {"rollback", "send"} /\ worker' = Idle
    BY <1>4 DEF Rollback, PrepareFails, Release, tables, At
  <2>2. ~Delivers' /\ ~At("commit")
    BY <2>1, IdleIs DEF Delivers, At
  <2>3. CASE UNCHANGED <<conn, clients>>
    <3>1. \A d \in clients' : conn'[d].tx # "none"
      BY <1>0, <2>3 DEF QueueOK, TablesOK
    <3>2. QED
      BY <2>1, <2>2, <2>3, <3>1, TransactionsEnd
  <2>4. CASE /\ HasClient /\ conn' = [conn EXCEPT ![worker.conn] = NewConnection]
             /\ clients' = clients \ {worker.conn}
    <3>1. \A d \in Conns : IF d = worker.conn THEN Without(d) ELSE Same(d)
      BY <1>0, <2>4, NewConnectionIs
    <3>2. \A d \in clients' : conn'[d].tx # "none"
      BY <1>0, <2>4, <3>1 DEF QueueOK, TablesOK
    <3>3. QED
      BY <2>1, <2>2, <3>1, <3>2, TransactionsEnd
  <2>5. QED
    BY <1>4, <2>3, <2>4 DEF Rollback, PrepareFails, Release, pool
<1>5. CASE Send
  <2>1. /\ worker.step = "send" /\ worker' = [worker EXCEPT !.step = "update"]
        /\ UNCHANGED <<queued, processed, answered, discarded, conn, clients>>
    BY <1>5 DEF Send, At, GoOn, tables, pool
  <2>2. worker'.step = "update" /\ worker'.note = worker.note /\ worker'.conn = worker.conn
    BY <2>1, Typed DEF WorkerType
  <2>3. TablesOK'
    BY <2>1 DEF QueueOK, TablesOK
  <2>4. Taken'
    BY <2>1, <2>2 DEF QueueOK, Taken, Delivers, CanQuery, HasClient
  <2>5. OneByOne'
    BY <2>1, <2>2 DEF QueueOK, OneByOne, At
  <2>6. QED
    BY <2>3, <2>4, <2>5 DEF QueueOK
<1>6. CASE Update
  <2>1. /\ worker.step = "update" /\ worker' = [worker EXCEPT !.step = "commit"]
        /\ UNCHANGED <<queued, processed, answered, discarded, clients>>
        /\ worker.conn \in Conns
    BY <1>0, <1>6 DEF Update, At, GoOn, tables
  <2>2. worker'.step = "commit" /\ worker'.note = worker.note /\ worker'.conn = worker.conn
    BY <2>1, Typed DEF WorkerType
  <2>3. CASE ~CanQuery
    <3>1. conn' = conn
      BY <1>6, <2>3 DEF Update
    <3>2. TablesOK' /\ Taken'
      BY <2>1, <2>2, <3>1 DEF QueueOK, TablesOK, Taken, Delivers
    <3>3. OneByOne'
      BY <2>1, <2>2, <3>1 DEF QueueOK, OneByOne, At
    <3>4. QED
      BY <3>2, <3>3 DEF QueueOK
  <2>4. CASE CanQuery
    <3> DEFINE x == [conn[worker.conn] EXCEPT !.marked = @ \cup {worker.note}]
    <3>1. /\ x.inserted = conn[worker.conn].inserted /\ x.tx = conn[worker.conn].tx
          /\ x.marked = conn[worker.conn].marked \cup {worker.note}
      BY <1>0, <2>1 DEF Connection
    <3>2. conn' = [conn EXCEPT ![worker.conn] = x]
      BY <1>6, <2>4 DEF Update
    <3> HIDE DEF x
    <3>3. conn'[worker.conn] = x /\ \A d \in Conns : d # worker.conn => Same(d)
      BY <1>0, <2>1, <3>2
    <3>4. x.tx = "open"
      BY <1>0, <2>1, <2>4, <3>1 DEF CanQuery, HasClient, QueueOK, TablesOK, Connection
    <3>5. worker.note \in queued \cup conn[worker.conn].inserted
      BY <2>1, <2>4 DEF QueueOK, Taken
    <3>6. TablesOK'
      BY <2>1, <3>1, <3>3, <3>4, <3>5 DEF QueueOK, TablesOK
    <3>7. Taken'
      BY <2>1, <2>2 DEF QueueOK, Taken, Delivers
    <3>8. OneByOne'
      BY <2>1, <2>2, <3>1, <3>3 DEF QueueOK, OneByOne, At
    <3>9. QED
      BY <3>6, <3>7, <3>8 DEF QueueOK
  <2>5. QED
    BY <2>3, <2>4
<1>7. CASE Commit
  <2>1. /\ worker.step = "commit" /\ worker' = Idle /\ worker.conn \in Conns
        /\ UNCHANGED <<answered, discarded>>
    BY <1>0, <1>7 DEF Commit, Release, At
  <2>2. Taken'
    BY <2>1, IdleIs DEF Taken, Delivers
  <2>3. CASE HasClient
    <3>1. /\ queued' = queued \cup conn[worker.conn].inserted
          /\ processed' = processed \cup conn[worker.conn].marked
          /\ conn' = [conn EXCEPT ![worker.conn] = NewConnection]
          /\ clients' = clients \ {worker.conn}
      BY <1>7, <2>3 DEF Commit, Release
    <3>2. Without(worker.conn) /\ \A d \in Conns : d # worker.conn => Same(d)
      BY <1>0, <2>1, <3>1, NewConnectionIs
    <3>3. TablesOK'
      BY <2>1, <3>1, <3>2 DEF QueueOK, TablesOK
    <3>4. OneByOne'
      BY <2>1, <3>2 DEF QueueOK, OneByOne
    <3>5. QED
      BY <2>2, <3>3, <3>4 DEF QueueOK
  <2>4. CASE ~HasClient
    <3>1. UNCHANGED <<queued, processed, conn, clients>>
      BY <1>7, <2>4 DEF Commit, pool
    <3>2. ~discarded => conn[worker.conn].marked = {}
      <4>1. worker.conn \in free
        BY <2>1, <2>4 DEF HasClient, PoolIsWhole
      <4>2. QED
        BY <2>1, <4>1 DEF PoolIsClean, QueueOK, TablesOK
    <3>3. TablesOK'
      BY <2>1, <3>1 DEF QueueOK, TablesOK
    <3>4. OneByOne'
      BY <2>1, <3>1, <3>2 DEF QueueOK, OneByOne
    <3>5. QED
      BY <2>2, <3>3, <3>4 DEF QueueOK
  <2>5. QED
    BY <2>3, <2>4
<1>8. ASSUME NEW c \in Conns, Discard(c)
      PROVE  QueueOK'
  <2>1. /\ UNCHANGED <<queued, processed, answered, worker>>
        /\ discarded => discarded'
        /\ clients' = clients \ {c} /\ conn' = [conn EXCEPT ![c] = Recycle(conn[c])]
    BY <1>8 DEF Discard, tables
  <2>2. conn'[c] = Recycle(conn[c]) /\ \A d \in Conns : d # c => Same(d)
    BY <1>0, <2>1
  <2>3. Same(c) \/ Without(c)
    BY <2>2, NewConnectionIs DEF Recycle
  <2>4. \A d \in clients' : conn'[d].tx # "none"
    BY <1>0, <2>1, <2>2 DEF QueueOK, TablesOK
  <2>5. CanQuery' => CanQuery /\ Same(worker.conn)
    BY <1>0, <2>1, <2>2 DEF CanQuery, HasClient
  <2>6. QED
    BY <2>1, <2>2, <2>3, <2>4, <2>5, TransactionsEnd
<1>9. ASSUME NEW c \in Conns, LoseConnection(c)
      PROVE  QueueOK'
  <2> DEFINE x == IF c \in free THEN NewConnection ELSE [NewConnection EXCEPT !.tx = "lost"]
  <2>1. /\ UNCHANGED <<queued, processed, answered, worker, discarded, clients>>
        /\ conn' = [conn EXCEPT ![c] = x]
    BY <1>9 DEF LoseConnection, tables
  <2>2. x.inserted = {} /\ x.marked = {} /\ (c \notin free => x.tx = "lost")
    BY DEF NewConnection
  <2> HIDE DEF x
  <2>3. conn'[c] = x /\ \A d \in Conns : d # c => Same(d)
    BY <1>0, <2>1
  <2>4. c \in clients => x.tx = "lost"
    BY <2>2 DEF PoolIsWhole
  <2>5. \A d \in clients' : conn'[d].tx # "none"
    BY <1>0, <2>1, <2>3, <2>4 DEF QueueOK, TablesOK
  <2>6. CanQuery' => CanQuery /\ Same(worker.conn)
    BY <1>0, <2>1, <2>3, <2>4 DEF CanQuery, HasClient
  <2>7. QED
    BY <2>1, <2>2, <2>3, <2>5, <2>6, TransactionsEnd
<1>10. CASE Crash
  <2>1. /\ UNCHANGED <<queued, processed, answered, discarded>>
        /\ worker' = Idle /\ clients' = {}
        /\ \A d \in Conns : Without(d)
    BY <1>10, NewConnectionIs DEF Crash, tables
  <2>2. TablesOK' /\ OneByOne'
    BY <1>10, <2>1, NewConnectionIs DEF Crash, QueueOK, TablesOK, OneByOne
  <2>3. Taken'
    BY <2>1, IdleIs DEF Taken, Delivers
  <2>4. QED
    BY <2>2, <2>3 DEF QueueOK
<1>11. CASE UNCHANGED <<queued, processed, answered, discarded, conn, clients, worker>>
  BY <1>11 DEF QueueOK, TablesOK, Taken, OneByOne, Delivers, CanQuery, HasClient, At
<1>12. QED
  <2>1. \/ \E n \in Notes, c \in Conns : Enqueue(n, c)
        \/ \E c \in Conns : Begin(c) \/ Discard(c) \/ LoseConnection(c)
        \/ GetPending \/ Rollback \/ PrepareFails \/ Send \/ Update \/ Commit \/ Crash
        \/ UNCHANGED <<queued, processed, answered, discarded, conn, clients, worker>>
    BY DEF Next, Worker, vars, pool, tables, VerifyEmail
  <2>2. QED
    BY <1>1, <1>2, <1>3, <1>4, <1>5, <1>6, <1>7, <1>8, <1>9, <1>10, <1>11, <2>1

-----------------------------------------------------------------------------
LEMMA InitIInv == Init => IInv
<1> SUFFICES ASSUME Init
             PROVE  IInv
  OBVIOUS
<1> USE DEF Init
<1>1. TypeOK /\ WorkerHas
  <2>1. conn \in [Conns -> Connection] /\ sends \in [Notes -> Nat]
        /\ failures \in 0..MaxFailures
    BY NewConnectionIs
  <2>2. worker \in [step : Steps, conn : Conns \cup {None}, note : Notes \cup {None}]
    BY IdleIs
  <2>3. QED
    BY <2>1, <2>2, IdleIs DEF TypeOK, WorkerHas
<1>2. PoolIsWhole /\ AnsweredIsQueued
  BY DEF PoolIsWhole, AnsweredIsQueued
<1>3. PoolIsClean
  BY NewConnectionIs DEF PoolIsClean
<1>4. Credits
  BY IdleIs DEF Credits, At
<1>5. TablesOK /\ Taken /\ OneByOne
  BY IdleIs, NewConnectionIs DEF TablesOK, Taken, OneByOne, Delivers
<1>6. QED
  BY <1>1, <1>2, <1>3, <1>4, <1>5 DEF IInv

LEMMA Inductive == Spec => []IInv
<1>1. IInv /\ [Next]_vars => IInv'
  BY NextTypesOK, NextPoolIsWhole, NextQueued, NextCredits, NextQueueOK
  DEF IInv, TypesOK, QueueOK
<1>2. QED
  BY InitIInv, <1>1, PTL DEF Spec

(* Every variable stays within its type: see TypeOK.                       *)
THEOREM TypeCorrect == Spec => []TypeOK
BY Inductive, PTL DEF IInv

(* Every connection is in the pool or in the map: see PoolIsWhole.         *)
THEOREM PoolIsWholeAlways == Spec => []PoolIsWhole
BY Inductive, PTL DEF IInv

(* Emails are sent again only after failures: see ResentAfterFailure.      *)
THEOREM ResentAfterFailureAlways == Spec => []ResentAfterFailure
<1>1. IInv => ResentAfterFailure
  <2> SUFFICES ASSUME IInv, NEW n \in Notes
               PROVE  sends[n] <= 1 + failures
    BY DEF ResentAfterFailure
  <2>1. sends[n] <= failures + 1 /\ failures \in Nat
    BY DEF IInv, Credits, TypeOK
  <2>2. QED
    BY <2>1
<1>2. QED
  BY <1>1, Inductive, PTL

(* What a request enqueued is in the table: see AnsweredIsQueued.          *)
THEOREM AnsweredIsQueuedAlways == Spec => []AnsweredIsQueued
BY Inductive, PTL DEF IInv

(* Every step of the queue is one of the abstract outbox: what is accepted *)
(* is kept and settled one by one, and nothing is sent after it is settled:*)
(* see ImplementsOutbox.                                                   *)
THEOREM QueueImplementsOutbox == Spec => ImplementsOutbox
<1> DEFINE row == [n \in Notes |-> Row(n)]
<1>1. Init => Promise!Init
  BY DEF Init, Promise!Init, Row
<1>2. IInv /\ [Next]_vars => [Promise!Next]_(Promise!vars)
  <2> SUFFICES ASSUME IInv, [Next]_vars
               PROVE  [Promise!Next]_(Promise!vars)
    OBVIOUS
  <2>0. /\ queued \subseteq answered /\ processed \subseteq queued /\ answered \subseteq Notes
        /\ TypesOK /\ failures \in Nat
    BY DEF IInv, TablesOK, TypeOK, TypesOK
  (* Steps that the outbox does not see.                                   *)
  <2>1. CASE UNCHANGED <<queued, processed, sends, answered, failures, discarded>>
    <3>1. row' = row
      BY <2>1 DEF Row
    <3>2. QED
      BY <2>1, <3>1 DEF Promise!vars
  <2>2. ASSUME NEW n \in Notes, NEW c \in Conns, Enqueue(n, c)
        PROVE  Promise!Accept(n)
    <3>1. /\ n \notin answered /\ answered' = answered \cup {n}
          /\ UNCHANGED <<processed, sends, failures, discarded>>
      BY <2>2 DEF Enqueue
    <3>2. n \notin queued /\ n \notin processed
      BY <2>0, <3>1
    <3>3. CASE queued' = queued \cup {n}
      <4>1. row'[n] = "pending" /\ \A m \in Notes : m # n => row'[m] = row[m]
        BY <3>1, <3>2, <3>3 DEF Row
      <4>2. row' = [row EXCEPT ![n] = "pending"]
        BY <4>1
      <4>3. QED
        BY <3>1, <4>2 DEF Promise!Accept
    <3>4. CASE UNCHANGED queued /\ conn[c].tx = "open"
      <4>1. discarded
        BY <2>2, <3>4 DEF Enqueue, IInv, PoolIsClean
      <4>2. row' = row
        BY <3>1, <3>4 DEF Row
      <4>3. QED
        BY <3>1, <4>1, <4>2 DEF Promise!Accept
    <3>5. QED
      BY <2>2, <3>3, <3>4 DEF Enqueue
  <2>3. ASSUME Send, sends' # sends
        PROVE  \E n \in Notes : Promise!Send(n)
    <3>1. PICK n \in Notes : n = worker.note
      BY <2>3 DEF Send, At, IInv, WorkerHas
    <3>2. /\ worker.step = "send" /\ sends' = [sends EXCEPT ![n] = @ + 1]
          /\ UNCHANGED <<queued, processed, answered, failures, discarded>>
      BY <2>3, <3>1 DEF Send, At, tables
    <3>3. /\ n \in answered /\ n \notin processed /\ (n \in queued \/ discarded)
          /\ sends[n] <= failures
      BY <3>1, <3>2 DEF IInv, Taken, Delivers, Credits, At
    <3>4. row' = row /\ row[n] # "settled" /\ (row[n] = "pending" \/ discarded)
      BY <3>2, <3>3 DEF Row
    <3>5. QED
      BY <3>2, <3>3, <3>4 DEF Promise!Send
  <2>4. ASSUME Commit, HasClient
        PROVE  [Promise!Next]_(Promise!vars)
    <3> DEFINE c == worker.conn
               found == conn[c].inserted
               settled == conn[c].marked
    <3>1. /\ worker.step = "commit" /\ c \in Conns
          /\ queued' = queued \cup found /\ processed' = processed \cup settled
          /\ UNCHANGED <<sends, answered, failures, discarded>>
      BY <2>0, <2>4, Typed DEF Commit, At
    <3>2. found \subseteq answered /\ settled \subseteq queued \cup found
      BY <3>1 DEF IInv, TablesOK
    <3> HIDE DEF found, settled
    <3>3. CASE discarded
      <4>1. \A n \in Notes :
              Row(n)' = IF row[n] = "settled" \/ n \in settled THEN "settled"
                        ELSE IF n \in found THEN "pending" ELSE row[n]
        BY <3>1, <3>2 DEF Row
      <4>2. row' = [n \in Notes |->
                      IF row[n] = "settled" \/ n \in settled THEN "settled"
                      ELSE IF n \in found THEN "pending" ELSE row[n]]
        BY <4>1
      <4>3. found \in SUBSET answered /\ settled \in SUBSET answered
        BY <2>0, <3>2
      <4>4. Promise!Recover
        BY <3>1, <3>3, <4>2, <4>3 DEF Promise!Recover
      <4>5. QED
        BY <4>4 DEF Promise!Next
    <3>4. CASE ~discarded
      <4>1. found = {} /\ (settled = {} \/ settled = {worker.note})
        BY <3>1, <3>4 DEF IInv, OneByOne, found, settled
      <4>2. CASE settled = {}
        BY <2>1, <3>1, <4>1, <4>2
      <4>3. CASE settled = {worker.note}
        <5>1. PICK n \in Notes : n = worker.note
          BY <3>1 DEF IInv, WorkerHas
        <5>2. n \in queued /\ n \notin processed
          BY <3>1, <3>4, <5>1 DEF IInv, Taken, Delivers
        <5>3. /\ row[n] = "pending" /\ row'[n] = "settled"
              /\ \A m \in Notes : m # n => row'[m] = row[m]
          BY <3>1, <4>1, <4>3, <5>1, <5>2 DEF Row
        <5>4. row' = [row EXCEPT ![n] = "settled"]
          BY <5>3
        <5>5. QED
          BY <3>1, <5>3, <5>4 DEF Promise!Settle, Promise!Next
      <4>4. QED
        BY <4>1, <4>2, <4>3
    <3>5. QED
      BY <3>3, <3>4
  <2>5. ASSUME Crash \/ \E c \in Conns : Discard(c) \/ LoseConnection(c)
        PROVE  Promise!Fail
    <3>1. /\ failures' \in {failures, failures + 1}
          /\ discarded => discarded'
          /\ UNCHANGED <<queued, processed, sends, answered>>
      <4>1. CASE Crash
        BY <4>1 DEF Crash, Fails, tables
      <4>2. ASSUME NEW c \in Conns, Discard(c)
            PROVE  /\ failures' \in {failures, failures + 1}
                   /\ discarded => discarded'
                   /\ UNCHANGED <<queued, processed, sends, answered>>
        BY <4>2 DEF Discard, Fails, tables
      <4>3. ASSUME NEW c \in Conns, LoseConnection(c)
            PROVE  /\ failures' \in {failures, failures + 1}
                   /\ discarded => discarded'
                   /\ UNCHANGED <<queued, processed, sends, answered>>
        BY <4>3 DEF LoseConnection, Fails, tables
      <4>4. QED
        BY <2>5, <4>1, <4>2, <4>3
    <3>2. row' = row
      BY <3>1 DEF Row
    <3>3. discarded' \in BOOLEAN
      BY <2>5 DEF Crash, Discard, LoseConnection, IInv, TypeOK
    <3>4. QED
      BY <3>1, <3>2, <3>3 DEF Promise!Fail
  <2>6. QED
    <3>1. \/ \E n \in Notes, c \in Conns : Enqueue(n, c)
          \/ Send /\ sends' # sends
          \/ Commit /\ HasClient
          \/ Crash \/ \E c \in Conns : Discard(c) \/ LoseConnection(c)
          \/ UNCHANGED <<queued, processed, sends, answered, failures, discarded>>
      BY DEF Next, Worker, vars, pool, tables, VerifyEmail, Begin, GetPending, Rollback,
         PrepareFails, Send, Update, Commit
    <3>2. QED
      BY <2>1, <2>2, <2>3, <2>4, <2>5, <3>1 DEF Promise!Next
<1>3. QED
  BY <1>1, <1>2, Inductive, PTL DEF Spec, ImplementsOutbox, Promise!Spec
=============================================================================
