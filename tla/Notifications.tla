--------------------------- MODULE Notifications ---------------------------
(***************************************************************************)
(* The queue of email notifications, and the transactions and connections  *)
(* it is processed with.                                                   *)
(*                                                                         *)
(* Requests enqueue notifications.  One worker takes the pending ones: it  *)
(* begins a transaction, locks a notification in it, sends the email, marks*)
(* the notification processed, and commits.  Between these calls nothing   *)
(* but the map txs_clients holds the transaction's connection, and a       *)
(* cleaner takes connections out of that map once they are older than 30   *)
(* seconds.  A connection dropped this way goes back to the pool as it is, *)
(* because the pool's default recycling only looks at whether it is closed.*)
(*                                                                         *)
(* The age of a client is abstracted: with SlowDelivery the cleaner may    *)
(* find the worker's client too old at any time.  The order in which       *)
(* pending notifications are taken is abstracted too: any of them may be   *)
(* the oldest, so that what holds here holds for oldest first.             *)
(***************************************************************************)
EXTENDS Integers, FiniteSets

CONSTANTS Notes,         \* notifications, enqueued once each
          Invitations,   \* those only sent to a verified email address
          Unrenderable,  \* those whose content cannot be prepared
          Conns,         \* the connections of the server's pool
          None,          \* no connection, no notification
          SlowDelivery,  \* may a delivery take more than 30 seconds?
          MaxFailures    \* bound on crashes, lost connections and slow
                         \* deliveries together

ASSUME NotesAssumption ==
  Invitations \subseteq Notes /\ Unrenderable \subseteq Notes
ASSUME NoneAssumption == None \notin Conns /\ None \notin Notes
ASSUME BoundsAssumption == SlowDelivery \in BOOLEAN /\ MaxFailures \in Nat

VARIABLES
  queued,     \* committed rows of table notification
  processed,  \* those marked processed, committed
  verified,   \* the invitations whose recipient has verified the address
  conn,       \* the transaction left open on each connection, if any
  free,       \* connections in the pool
  clients,    \* connections in the map txs_clients
  worker,     \* what the worker does next, on which connection and notification
  sends,      \* how often each notification was sent (history)
  answered,   \* notifications whose enqueuing request succeeded (history)
  failures,   \* crashes, lost connections and slow deliveries so far (history)
  discarded   \* was a connection given back with its transaction open? (history)

tables == <<queued, processed, verified>>
pool   == <<conn, free, clients>>
vars   == <<tables, pool, worker, sends, answered, failures, discarded>>

(* A connection: its transaction (open, or lost with the connection), and  *)
(* the rows that the transaction has inserted, marked processed, locked.   *)
Connection == [tx : {"none", "open", "lost"}, inserted : SUBSET Notes,
               marked : SUBSET Notes, locked : SUBSET Notes]

NewConnection == [tx |-> "none", inserted |-> {}, marked |-> {}, locked |-> {}]

Steps == {"idle", "get", "rollback", "send", "update", "commit"}

TypeOK ==
  /\ queued \subseteq Notes /\ processed \subseteq Notes /\ verified \subseteq Notes
  /\ conn \in [Conns -> Connection]
  /\ free \subseteq Conns /\ clients \subseteq Conns
  /\ worker \in [step : Steps, conn : Conns \cup {None}, note : Notes \cup {None}]
  /\ sends \in [Notes -> Nat]
  /\ answered \subseteq Notes
  /\ failures \in 0..MaxFailures
  /\ discarded \in BOOLEAN

Idle == [step |-> "idle", conn |-> None, note |-> None]

Init ==
  /\ queued = {} /\ processed = {} /\ verified = {}
  /\ conn = [c \in Conns |-> NewConnection]
  /\ free = Conns /\ clients = {}
  /\ worker = Idle
  /\ sends = [n \in Notes |-> 0]
  /\ answered = {}
  /\ failures = 0
  /\ discarded = FALSE

Fails == failures < MaxFailures /\ failures' = failures + 1

(* The pool takes a connection back as it is, unless it is closed.         *)
Recycle(c) == IF c.tx = "lost" THEN NewConnection ELSE c

-----------------------------------------------------------------------------
(* Requests.                                                               *)

(* One statement on some free connection: committed at once, or with the   *)
(* transaction that happens to be open there.                              *)
Enqueue(n, c) ==
  /\ n \notin answered /\ c \in free
  /\ IF conn[c].tx = "open"
     THEN /\ conn' = [conn EXCEPT ![c].inserted = @ \cup {n}]
          /\ UNCHANGED queued
     ELSE queued' = queued \cup {n} /\ UNCHANGED conn
  /\ answered' = answered \cup {n}
  /\ UNCHANGED <<processed, verified, free, clients, worker, sends, failures, discarded>>

VerifyEmail(n) ==
  /\ n \in Invitations
  /\ verified' = verified \cup {n}
  /\ UNCHANGED <<queued, processed, pool, worker, sends, answered, failures, discarded>>

-----------------------------------------------------------------------------
(* The worker.                                                             *)

At(step) == worker.step = step

GoOn(step) == worker' = [worker EXCEPT !.step = step]

(* The worker's client is in the map, and its connection works.            *)
HasClient == worker.conn \in clients
CanQuery  == HasClient /\ conn[worker.conn].tx # "lost"

(* Variant with a bug: the connection is not given back.                   *)
ReleaseNothing(connection) ==
  /\ clients' = clients \ {worker.conn}
  /\ conn' = [conn EXCEPT ![worker.conn] = connection]
  /\ worker' = Idle
  /\ UNCHANGED free

(* tx_commit, tx_rollback: the connection leaves the map for the pool.     *)
Release(connection) ==
  /\ clients' = clients \ {worker.conn}
  /\ free' = free \cup {worker.conn}
  /\ conn' = [conn EXCEPT ![worker.conn] = connection]
  /\ worker' = Idle

(* "begin" in a transaction that is open already changes nothing.          *)
Begin(c) ==
  /\ At("idle") /\ c \in free
  /\ free' = free \ {c}
  /\ clients' = clients \cup {c}
  /\ conn' = [conn EXCEPT ![c].tx = "open"]
  /\ worker' = [step |-> "get", conn |-> c, note |-> None]
  /\ UNCHANGED <<tables, sends, answered, failures, discarded>>

(* Variant with a bug: rows another transaction has marked are found again.*)
PendingAgain(c) ==
  {n \in (queued \cup conn[c].inserted) \ conn[c].marked :
     /\ n \in Invitations => n \in verified
     /\ \A d \in Conns \ {c} : n \notin conn[d].locked}

(* What the query of connection c returns: pending to it, deliverable, and *)
(* not locked by another transaction (skip locked).                        *)
Pending(c) ==
  {n \in (queued \cup conn[c].inserted) \ (processed \cup conn[c].marked) :
     /\ n \in Invitations => n \in verified
     /\ \A d \in Conns \ {c} : n \notin conn[d].locked}


GetPending ==
  /\ At("get")
  /\ LET c == worker.conn IN
     IF CanQuery /\ Pending(c) # {}
     THEN \E n \in Pending(c) :
            /\ conn' = [conn EXCEPT ![c].locked = @ \cup {n}]
            /\ worker' = [worker EXCEPT !.step = "send", !.note = n]
     ELSE GoOn("rollback") /\ UNCHANGED conn
  /\ UNCHANGED <<tables, free, clients, sends, answered, failures, discarded>>

(* Variant with a bug: the connection goes back without a rollback.        *)
GiveBack ==
  /\ At("rollback")
  /\ IF HasClient THEN Release(conn[worker.conn])
     ELSE worker' = Idle /\ UNCHANGED pool
  /\ UNCHANGED <<tables, sends, answered, failures, discarded>>

(* Nothing is pending, or the query failed.                                *)
Rollback ==
  /\ At("rollback")
  /\ IF HasClient THEN Release(NewConnection)
     ELSE worker' = Idle /\ UNCHANGED pool
  /\ UNCHANGED <<tables, sends, answered, failures, discarded>>

(* The content cannot be prepared: an early return, with no rollback.      *)
PrepareFails ==
  /\ At("send") /\ worker.note \in Unrenderable
  /\ worker' = Idle
  /\ UNCHANGED <<tables, pool, sends, answered, failures, discarded>>

(* The email is sent; or it is not (an error, or an address that is not on *)
(* the whitelist), which is recorded in the same way.                      *)
Send ==
  /\ At("send") /\ worker.note \notin Unrenderable
  /\ \/ sends' = [sends EXCEPT ![worker.note] = @ + 1]
     \/ UNCHANGED sends
  /\ GoOn("update")
  /\ UNCHANGED <<tables, pool, answered, failures, discarded>>

(* An error here is logged, and the delivery goes on.                      *)
Update ==
  /\ At("update")
  /\ conn' = IF CanQuery THEN [conn EXCEPT ![worker.conn].marked = @ \cup {worker.note}]
                         ELSE conn
  /\ GoOn("commit")
  /\ UNCHANGED <<tables, free, clients, sends, answered, failures, discarded>>

Commit ==
  /\ At("commit")
  /\ IF HasClient
     THEN /\ queued' = queued \cup conn[worker.conn].inserted
          /\ processed' = processed \cup conn[worker.conn].marked
          /\ Release(NewConnection)
     ELSE worker' = Idle /\ UNCHANGED <<queued, processed, pool>>
  /\ UNCHANGED <<verified, sends, answered, failures, discarded>>

-----------------------------------------------------------------------------
(* The cleaner, the network and the process.                               *)

(* A client that no delivery uses any more gets too old; with SlowDelivery *)
(* so does the worker's.                                                   *)
Discard(c) ==
  /\ c \in clients
  /\ IF c = worker.conn THEN SlowDelivery /\ Fails ELSE UNCHANGED failures
  /\ clients' = clients \ {c}
  /\ free' = free \cup {c}
  /\ conn' = [conn EXCEPT ![c] = Recycle(@)]
  /\ discarded' = (discarded \/ conn[c].tx = "open")
  /\ UNCHANGED <<tables, worker, sends, answered>>

(* The database rolls the connection's transaction back.                   *)
LoseConnection(c) ==
  /\ Fails
  /\ conn' = [conn EXCEPT ![c] = IF c \in free THEN NewConnection
                                 ELSE [NewConnection EXCEPT !.tx = "lost"]]
  /\ UNCHANGED <<tables, free, clients, worker, sends, answered, discarded>>

(* The process ends and is started again.                                  *)
Crash ==
  /\ Fails
  /\ conn' = [c \in Conns |-> NewConnection]
  /\ free' = Conns /\ clients' = {}
  /\ worker' = Idle
  /\ UNCHANGED <<tables, sends, answered, discarded>>

-----------------------------------------------------------------------------

Worker ==
  \/ \E c \in Conns : Begin(c)
  \/ GetPending \/ Rollback \/ PrepareFails \/ Send \/ Update \/ Commit

Next ==
  \/ \E n \in Notes : \/ \E c \in Conns : Enqueue(n, c)
                      \/ VerifyEmail(n)
  \/ Worker
  \/ \E c \in Conns : Discard(c) \/ LoseConnection(c)
  \/ Crash

Spec == Init /\ [][Next]_vars

(* The worker loops for ever, the cleaner finds what was left behind, and  *)
(* the pool, a queue, passes no connection over for ever.                  *)
FairSpec == Spec /\ WF_vars(Worker)
                 /\ \A c \in Conns : /\ SF_vars(Begin(c))
                                     /\ WF_vars(c # worker.conn /\ Discard(c))

-----------------------------------------------------------------------------
(* Properties.                                                             *)

(* No connection is lost to the pool or used twice, whichever call of a    *)
(* delivery fails: each is in the pool or in the map, never in both.       *)
PoolIsWhole == free \cap clients = {} /\ free \cup clients = Conns

(* An email is sent again only after a crash, a lost connection or a slow  *)
(* delivery, and once for each: the lock, the mark and the commit of one   *)
(* delivery are never half done otherwise.                                 *)
ResentAfterFailure == \A n \in Notes : sends[n] <= 1 + failures

(* As long as no delivery was so slow, or failed so early, that the cleaner*)
(* gave its connection back in a transaction, a request answered with      *)
(* success has its notification in the table for good.                     *)
AnsweredIsQueued == ~discarded => answered \subseteq queued

(* A connection of the pool holds n in a transaction that is never done: it*)
(* also holds one that cannot be prepared, and may stop at that each time. *)
Stuck(n) ==
  \E c \in free : n \in conn[c].locked /\ conn[c].locked \cap Unrenderable # {}


(* Put together, for those who enqueue (module Outbox): through slow       *)
(* deliveries, connections in the middle of a transaction and crashes,     *)
(* what was accepted is kept and settled one by one, is not sent again once*)
(* it is settled, and not twice without a failure.                         *)
Row(n) == IF n \in processed THEN "settled" ELSE IF n \in queued THEN "pending" ELSE "absent"

Promise == INSTANCE Outbox WITH
  row <- [n \in Notes |-> Row(n)], accepted <- answered, leaky <- discarded
ImplementsOutbox == Promise!Spec

(* "Begins a new transaction": it holds nothing of an earlier one.         *)
BeginsNewTransaction ==
  [][\A c \in Conns : c \in clients' \ clients => conn[c] = NewConnection]_vars
=============================================================================
