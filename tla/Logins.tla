-------------------------------- MODULE Logins --------------------------------
(***************************************************************************)
(* What a session is good for, whoever's requests save it in whatever      *)
(* order.                                                                  *)
(*                                                                         *)
(* Every session is opened once and ended once.  A session that was opened *)
(* before its user logged in is never one that somebody is logged in to:   *)
(* whoever knew its id then knows nothing later.  A session that somebody  *)
(* is logged in to holds a password that its account has or had, after the *)
(* account was verified; changing the password outdates the others.        *)
(***************************************************************************)
EXTENDS Integers

CONSTANTS Ids, Emails

VARIABLES
  present,  \* the version of each account's password, 0 until it is verified
  holds     \* what each session is

vars == <<present, holds>>

Unused == <<"unused">>
Anonymous == <<"anonymous">>
LoggedIn(e, version) == <<"logged in", e, version>>
Ended == <<"ended">>

Init ==
  /\ present = [e \in Emails |-> 0]
  /\ holds = [i \in Ids |-> Unused]

Verify(e) ==
  /\ present[e] = 0
  /\ present' = [present EXCEPT ![e] = 1]
  /\ UNCHANGED holds

ChangePassword(e) ==
  /\ present[e] # 0
  /\ present' = [present EXCEPT ![e] = @ + 1]
  /\ UNCHANGED holds

(* Of the log ins that overlap, any may be the last to save the session.   *)
Become(i, use) ==
  /\ holds' = [holds EXCEPT ![i] = use]
  /\ UNCHANGED present

LogIn(i) ==
  \E e \in Emails : \E version \in 1..present[e] : Become(i, LoggedIn(e, version))

Open(i) ==
  /\ holds[i] = Unused
  /\ LogIn(i) \/ Become(i, Anonymous)

LogInAgain(i) ==
  /\ holds[i] \notin {Unused, Anonymous, Ended}
  /\ LogIn(i)

End(i) ==
  /\ holds[i] # Unused
  /\ Become(i, Ended)

Next ==
  \/ \E e \in Emails : Verify(e) \/ ChangePassword(e)
  \/ \E i \in Ids : Open(i) \/ LogInAgain(i) \/ End(i)

Spec == Init /\ [][Next]_vars
=============================================================================
