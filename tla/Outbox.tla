-------------------------------- MODULE Outbox --------------------------------
(***************************************************************************)
(* What the queue of notifications promises to those who put one in: what  *)
(* was accepted is kept until it is settled, one at a time, and nothing is *)
(* sent after it was settled, or a second time unless something failed.    *)
(*                                                                         *)
(* The queue may become leaky, once and for all: it then may lose what it  *)
(* accepted, and settle several notifications at once.                     *)
(***************************************************************************)
EXTENDS Integers

CONSTANT Notes

VARIABLES
  row,       \* what is kept of each notification
  accepted,  \* the notifications whose senders were told that all is well
  sends,     \* how often each was sent
  failures,  \* how often something failed
  leaky

vars == <<row, accepted, sends, failures, leaky>>

Init ==
  /\ row = [n \in Notes |-> "absent"]
  /\ accepted = {}
  /\ sends = [n \in Notes |-> 0]
  /\ failures = 0
  /\ leaky = FALSE

Accept(n) ==
  /\ n \notin accepted
  /\ accepted' = accepted \cup {n}
  /\ \/ row' = [row EXCEPT ![n] = "pending"]
     \/ leaky /\ UNCHANGED row
  /\ UNCHANGED <<sends, failures, leaky>>

Send(n) ==
  /\ n \in accepted /\ row[n] # "settled"
  /\ row[n] = "pending" \/ leaky
  /\ sends[n] <= failures
  /\ sends' = [sends EXCEPT ![n] = @ + 1]
  /\ UNCHANGED <<row, accepted, failures, leaky>>

Settle(n) ==
  /\ row[n] = "pending"
  /\ row' = [row EXCEPT ![n] = "settled"]
  /\ UNCHANGED <<accepted, sends, failures, leaky>>

(* What a leak held back comes to light.                                   *)
Recover ==
  /\ leaky
  /\ \E found, settled \in SUBSET accepted :
       row' = [n \in Notes |->
                 IF row[n] = "settled" \/ n \in settled THEN "settled"
                 ELSE IF n \in found THEN "pending" ELSE row[n]]
  /\ UNCHANGED <<accepted, sends, failures, leaky>>

Fail ==
  /\ failures' \in {failures, failures + 1}
  /\ leaky => leaky'
  /\ leaky' \in BOOLEAN
  /\ UNCHANGED <<row, accepted, sends>>

Next ==
  \/ \E n \in Notes : Accept(n) \/ Send(n) \/ Settle(n)
  \/ Recover \/ Fail

Spec == Init /\ [][Next]_vars
=============================================================================
