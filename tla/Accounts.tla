------------------------------- MODULE Accounts -------------------------------
(***************************************************************************)
(* Accounts, sessions and the ways to log in.                              *)
(*                                                                         *)
(* An account is created by signing up with a password, unverified until   *)
(* the code mailed to it is used within a day, or verified by a provider   *)
(* (OAuth2 or OpenID Connect) at the first log in with it.  Browsers keep  *)
(* the id of a session in a cookie; sessions are rows, which each request  *)
(* loads as a whole, changes in memory, and saves as a whole when it       *)
(* responds.  Requests overlap, also those of one browser.                 *)
(*                                                                         *)
(* A password is a number, the hash that sessions are checked with (chosen *)
(* at random when a password is set) another.  The state, nonce and next   *)
(* URL of a redirect to a provider are represented by the flow they were   *)
(* made for.  Left out of a session's record are the messages to show, the *)
(* selected employer (module Team) and the provider's name.                *)
(***************************************************************************)
EXTENDS Integers, FiniteSets

CONSTANTS
  Emails,        \* people, by their email address
  Browsers,
  Requests,      \* requests in flight
  Flows,         \* redirects to a provider
  OidcFlows,     \* those of them to an OpenID Connect provider
  Configurations,  \* sets of log in options that may be configured
  None,          \* no account, session, cookie, flow or user
  MaxSessions,   \* bound on sessions ever created
  MaxPasswords   \* bound on the passwords an account has had

ASSUME FlowsAssumption == OidcFlows \subseteq Flows

(* The log in options: passwords, and the two kinds of providers.          *)
Options == {"email", "oauth2", "oidc"}

ASSUME ConfigurationsAssumption == Configurations \subseteq SUBSET Options
ASSUME BrowsersAssumption == Browsers # {}
ASSUME BoundsAssumption == MaxSessions \in Nat /\ MaxPasswords \in Nat \ {0}

VARIABLES
  login,    \* the log in options configured
  user,     \* the account of each email address
  code,     \* its verification code
  mail,     \* the email with that code: none, being enqueued, or enqueued
  session,  \* the rows of table session
  created,  \* sessions created so far
  cookie,   \* each browser's session
  flow,     \* each flow: unused, at the provider, or its code redeemed
  request

vars == <<login, user, code, mail, session, created, cookie, flow, request>>

Ids == 1..MaxSessions

Account == [verified : BOOLEAN, password : 0..MaxPasswords, hash : 0..MaxPasswords]

(* What a session holds: the user that is logged in, the hash the account  *)
(* had, and the redirect it waits for.  opened is the password the account *)
(* had when it was read to log in (history).                               *)
Record == [email : Emails \cup {None}, hash : 0..MaxPasswords,
           opened : 0..MaxPasswords,
           csrf : Flows \cup {None}, nonce : Flows \cup {None},
           next : Flows \cup {None}]

ASSUME NoneAssumption == None \notin Emails \cup Flows \cup Nat \cup Account \cup Record

EmptyRecord == [email |-> None, hash |-> 0, opened |-> 0,
                csrf |-> None, nonce |-> None, next |-> None]

Kinds == {"select", "log_in", "log_out", "redirect", "callback", "details",
          "password"}
Steps == {"idle", "identify", "handle", "lookup", "sign_up", "log_in", "write",
          "respond"}

(* A request: the session it was sent with and holds a record of, the user *)
(* it acts as, and the account it has read (row, of email).                *)
Request == [kind : Kinds, step : Steps, browser : Browsers,
            id : Ids \cup {None}, record : Record, changed : BOOLEAN,
            as : Emails \cup {None}, email : Emails \cup {None},
            row : Account, flow : Flows \cup {None},
            nonce : Flows \cup {None}, next : Flows \cup {None}]

TypeOK ==
  /\ login \in Configurations
  /\ user \in [Emails -> Account \cup {None}]
  /\ code \in [Emails -> {"none", "valid", "expired"}]
  /\ mail \in [Emails -> {"none", "pending", "enqueued"}]
  /\ session \in [Ids -> Record \cup {None}]
  /\ created \in 0..MaxSessions
  /\ cookie \in [Browsers -> Ids \cup {None}]
  /\ flow \in [Flows -> {"unused", "out", "redeemed"}]
  /\ request \in [Requests -> Request]

NoAccount == [verified |-> FALSE, password |-> 0, hash |-> 0]

Idle == [kind |-> "select", step |-> "idle",
         browser |-> CHOOSE b \in Browsers : TRUE, id |-> None,
         record |-> EmptyRecord, changed |-> FALSE, as |-> None,
         email |-> None, row |-> NoAccount, flow |-> None, nonce |-> None,
         next |-> None]

Init ==
  /\ login \in Configurations
  /\ user = [e \in Emails |-> None]
  /\ code = [e \in Emails |-> "none"]
  /\ mail = [e \in Emails |-> "none"]
  /\ session = [i \in Ids |-> None]
  /\ created = 0
  /\ cookie = [b \in Browsers |-> None]
  /\ flow = [f \in Flows |-> "unused"]
  /\ request = [r \in Requests |-> Idle]

At(r, kind, step) == request[r].kind = kind /\ request[r].step = step

-----------------------------------------------------------------------------
(* Accounts.                                                               *)

(* By id, username or email, only verified accounts are found.             *)
Verified(e) == user[e] # None /\ user[e].verified

(* Accounts made by a provider have none.                                  *)
HasPassword(e) == user[e].password # 0

(* The insert fails on an address that has an account, verified or not.    *)
Insert(e, verified, password) ==
  /\ user[e] = None
  /\ user' = [user EXCEPT ![e] = [verified |-> verified, password |-> password,
                                  hash |-> 1]]
  /\ code' = [code EXCEPT ![e] = IF verified THEN "none" ELSE "valid"]

(* sign_up: account and code in one statement, the email in another.       *)
SignUp(e) ==
  /\ "email" \in login
  /\ Insert(e, FALSE, 1)
  /\ mail' = [mail EXCEPT ![e] = "pending"]
  /\ UNCHANGED <<login, session, created, cookie, flow, request>>

EnqueueCode(e) ==
  /\ mail[e] = "pending"
  /\ \E outcome \in {"enqueued", "none"} : mail' = [mail EXCEPT ![e] = outcome]
  /\ UNCHANGED <<login, user, code, session, created, cookie, flow, request>>

(* A day passes.                                                           *)
ExpireCode(e) ==
  /\ code[e] = "valid"
  /\ code' = [code EXCEPT ![e] = "expired"]
  /\ UNCHANGED <<login, user, mail, session, created, cookie, flow, request>>

(* Variant with a bug: an expired code is deleted as well.                 *)
VerifyEmailOnce(e) ==
  /\ "email" \in login /\ mail[e] = "enqueued" /\ code[e] # "none"
  /\ code' = [code EXCEPT ![e] = "none"]
  /\ user' = [user EXCEPT ![e].verified = @ \/ code[e] = "valid"]
  /\ UNCHANGED <<login, mail, session, created, cookie, flow, request>>

(* Whoever has the email opens its link.                                   *)
VerifyEmail(e) ==
  /\ "email" \in login /\ mail[e] = "enqueued" /\ code[e] = "valid"
  /\ code' = [code EXCEPT ![e] = "none"]
  /\ user' = [user EXCEPT ![e].verified = TRUE]
  /\ UNCHANGED <<login, mail, session, created, cookie, flow, request>>

-----------------------------------------------------------------------------
(* A request loads its session and finds out whom it acts as.              *)

Set(r, q) == request' = [request EXCEPT ![r] = q]

(* The handler is done: what is left is the session.                       *)
Done(q) == [Idle EXCEPT !.step = "respond", !.browser = q.browser, !.id = q.id,
                        !.record = q.record, !.changed = q.changed]

(* A request that names a provider must name a configured one.             *)
Configured(f) == IF f \in OidcFlows THEN "oidc" \in login ELSE "oauth2" \in login

(* Routes that depend on the options.                                      *)
Routed(kind, f) ==
  /\ kind = "log_in" => "email" \in login
  /\ f # None => Configured(f)

Load(r, b, kind, f) ==
  /\ request[r].step = "idle"
  /\ Routed(kind, f)
  /\ kind = "redirect" => f # None /\ flow[f] = "unused"
  /\ kind = "callback" => f # None /\ flow[f] # "unused"
  /\ kind \notin {"redirect", "callback"} => f = None
  /\ LET found == cookie[b] # None /\ session[cookie[b]] # None IN
       Set(r, [Idle EXCEPT !.kind = kind, !.step = "identify", !.browser = b,
                           !.flow = f,
                           !.id = IF found THEN cookie[b] ELSE None,
                           !.record = IF found THEN session[cookie[b]]
                                                ELSE EmptyRecord])
  /\ UNCHANGED <<login, user, code, mail, session, created, cookie, flow>>

(* The session's row is deleted and its record emptied.                    *)
Flush(r, q) ==
  /\ session' = IF request[r].id = None THEN session
                ELSE [session EXCEPT ![request[r].id] = None]
  /\ Set(r, [q EXCEPT !.id = None, !.record = EmptyRecord])

(* The account is read again: the session must have been opened with the   *)
(* hash it has now.                                                        *)
Identify(r) ==
  /\ request[r].step = "identify"
  /\ LET q == [request[r] EXCEPT !.step = "handle"]
         e == q.record.email
     IN IF e = None \/ ~Verified(e) THEN Set(r, q) /\ UNCHANGED session
        ELSE IF user[e].hash = q.record.hash
        THEN /\ Set(r, [q EXCEPT !.as = e, !.email = e, !.row = user[e]])
             /\ UNCHANGED session
        ELSE Flush(r, q)
  /\ UNCHANGED <<login, user, code, mail, created, cookie, flow>>

(* A page for which the user must be logged in, and which changes the      *)
(* session (the employer selected).                                        *)
Select(r) ==
  /\ At(r, "select", "handle")
  /\ Set(r, Done([request[r] EXCEPT !.changed = request[r].as # None]))
  /\ UNCHANGED <<login, user, code, mail, session, created, cookie, flow>>

LogOut(r) ==
  /\ At(r, "log_out", "handle")
  /\ Flush(r, Done(request[r]))
  /\ UNCHANGED <<login, user, code, mail, created, cookie, flow>>

-----------------------------------------------------------------------------
(* Ways to log in.                                                         *)

(* The account of a username, if it is verified and has a password, which  *)
(* is compared with the one given.                                         *)
CheckCredentials(r, e) ==
  /\ At(r, "log_in", "handle")
  /\ LET known == Verified(e) /\ HasPassword(e) IN
       \/ /\ known
          /\ Set(r, [request[r] EXCEPT !.step = "log_in", !.email = e,
                                       !.row = user[e]])
       \/ Set(r, Done(request[r]))
  /\ UNCHANGED <<login, user, code, mail, session, created, cookie, flow>>

(* Variant with a bug: the next URL of an earlier redirect is kept.        *)
RedirectKeepingNext(r) ==
  /\ At(r, "redirect", "handle")
  /\ LET f == request[r].flow IN
       /\ flow[f] = "unused"
       /\ flow' = [flow EXCEPT ![f] = "out"]
       /\ Set(r, Done([request[r] EXCEPT
                    !.changed = TRUE, !.record.csrf = f,
                    !.record.nonce = IF f \in OidcFlows THEN f ELSE @,
                    !.record.next = IF @ = None THEN f ELSE @]))
  /\ UNCHANGED <<login, user, code, mail, session, created, cookie>>

(* The browser goes to the provider, with what it has to come back with.   *)
Redirect(r) ==
  /\ At(r, "redirect", "handle")
  /\ LET f == request[r].flow IN
       /\ flow[f] = "unused"
       /\ flow' = [flow EXCEPT ![f] = "out"]
       /\ Set(r, Done([request[r] EXCEPT
                    !.changed = TRUE, !.record.csrf = f,
                    !.record.nonce = IF f \in OidcFlows THEN f ELSE @,
                    !.record.next = f]))
  /\ UNCHANGED <<login, user, code, mail, session, created, cookie>>

(* The browser comes back (perhaps again, perhaps with another session):   *)
(* the state is taken out of the session and compared, then the nonce and  *)
(* next URL are taken.  A provider honours the code of a flow once.        *)
Callback(r) ==
  /\ At(r, "callback", "handle")
  /\ LET f == request[r].flow
         q == [request[r] EXCEPT !.changed = request[r].record.csrf # None,
                                 !.record.csrf = None]
         oidc == f \in OidcFlows
         taken == [q EXCEPT !.record.nonce = IF oidc THEN None ELSE @,
                            !.record.next = None,
                            !.nonce = q.record.nonce, !.next = q.record.next]
     IN IF request[r].record.csrf # f \/ (oidc /\ q.record.nonce = None)
        THEN Set(r, Done(q)) /\ UNCHANGED flow
        ELSE \/ /\ flow[f] = "out"
                /\ flow' = [flow EXCEPT ![f] = "redeemed"]
                /\ \E e \in Emails :
                     Set(r, [taken EXCEPT !.step = "lookup", !.email = e])
             \/ Set(r, Done(taken)) /\ UNCHANGED flow
  /\ UNCHANGED <<login, user, code, mail, session, created, cookie>>

(* Variant with a bug: the account may be unverified.                      *)
LookupAny(r) ==
  /\ request[r].step = "lookup"
  /\ LET e == request[r].email IN
       IF user[e] # None
       THEN Set(r, [request[r] EXCEPT !.step = "log_in", !.row = user[e]])
       ELSE Set(r, [request[r] EXCEPT !.step = "sign_up"])
  /\ UNCHANGED <<login, user, code, mail, session, created, cookie, flow>>

(* The provider vouches for the address: its verified account, if any.     *)
Lookup(r) ==
  /\ request[r].step = "lookup"
  /\ LET e == request[r].email IN
       IF Verified(e)
       THEN Set(r, [request[r] EXCEPT !.step = "log_in", !.row = user[e]])
       ELSE Set(r, [request[r] EXCEPT !.step = "sign_up"])
  /\ UNCHANGED <<login, user, code, mail, session, created, cookie, flow>>

(* An account without a password; it fails if there is one by now, or an   *)
(* unverified one.                                                         *)
SignUpVerified(r) ==
  /\ request[r].step = "sign_up"
  /\ LET e == request[r].email IN
       \/ /\ Insert(e, TRUE, 0)
          /\ Set(r, [request[r] EXCEPT !.step = "log_in", !.row = user'[e]])
       \/ /\ user[e] # None
          /\ Set(r, Done(request[r]))
          /\ UNCHANGED <<login, user, code>>
  /\ UNCHANGED <<login, mail, session, created, cookie, flow>>

(* Variant with a bug: the hash is read again when the session is opened.  *)
LogInAsOfNow(r) ==
  /\ request[r].step = "log_in"
  /\ LET q == request[r]
         fresh == q.record.hash = 0
     IN /\ session' = IF fresh /\ q.id # None
                      THEN [session EXCEPT ![q.id] = None] ELSE session
        /\ Set(r, Done([q EXCEPT !.changed = TRUE,
                                 !.id = IF fresh THEN None ELSE @,
                                 !.record.email = q.email,
                                 !.record.hash = user[q.email].hash,
                                 !.record.opened = q.row.password]))
  /\ UNCHANGED <<login, user, code, mail, created, cookie, flow>>

(* Variant with a bug: the session keeps its id.                           *)
LogInKeepingId(r) ==
  /\ request[r].step = "log_in"
  /\ LET q == request[r] IN
       Set(r, Done([q EXCEPT !.changed = TRUE,
                             !.record.email = q.email,
                             !.record.hash = q.row.hash,
                             !.record.opened = q.row.password]))
  /\ UNCHANGED <<login, user, code, mail, session, created, cookie, flow>>

(* A session that nobody was logged in to gets another id: its row is      *)
(* deleted, and the response creates one.                                  *)
LogIn(r) ==
  /\ request[r].step = "log_in"
  /\ LET q == request[r]
         fresh == q.record.hash = 0
     IN /\ session' = IF fresh /\ q.id # None
                      THEN [session EXCEPT ![q.id] = None] ELSE session
        /\ Set(r, Done([q EXCEPT !.changed = TRUE,
                                 !.id = IF fresh THEN None ELSE @,
                                 !.record.email = q.email,
                                 !.record.hash = q.row.hash,
                                 !.record.opened = q.row.password]))
  /\ UNCHANGED <<login, user, code, mail, created, cookie, flow>>

-----------------------------------------------------------------------------
(* Changes of an account.                                                  *)

(* Of the account loaded with the request, only the name (not modelled) is *)
(* written.                                                                *)
UpdateDetails(r) ==
  /\ At(r, "details", "handle")
  /\ Set(r, Done(request[r]))
  /\ UNCHANGED <<login, user, code, mail, session, created, cookie, flow>>

(* The old password is read and compared with the one given.               *)
CheckPassword(r) ==
  /\ At(r, "password", "handle")
  /\ LET e == request[r].as IN
       \/ /\ e # None /\ HasPassword(e)
          /\ Set(r, [request[r] EXCEPT !.step = "write"])
       \/ Set(r, Done(request[r]))
  /\ UNCHANGED <<login, user, code, mail, session, created, cookie, flow>>

WritePassword(r) ==
  /\ request[r].step = "write"
  /\ LET e == request[r].as IN
       /\ user[e].password < MaxPasswords
       /\ user' = [user EXCEPT ![e].password = @ + 1, ![e].hash = @ + 1]
  /\ Set(r, Done(request[r]))
  /\ UNCHANGED <<login, code, mail, session, created, cookie, flow>>

-----------------------------------------------------------------------------
(* The end of a request.                                                   *)

(* Variant with a bug: a row that is gone is inserted again.               *)
SaveAnyway(i, record) == session' = [session EXCEPT ![i] = record]

(* update ... where session_id: no row is no error.                        *)
Save(i, record) ==
  session' = IF session[i] = None THEN session
             ELSE [session EXCEPT ![i] = record]

Create(record) ==
  /\ created < MaxSessions
  /\ created' = created + 1
  /\ session' = [session EXCEPT ![created'] = record]

(* A session changed is saved, and the cookie sent; if there is no session *)
(* left, the browser is told to forget its cookie.  The response may not   *)
(* get there.                                                              *)
Respond(r) ==
  /\ request[r].step = "respond"
  /\ LET q == request[r]
         gone == q.id = None /\ q.record = EmptyRecord
         SendCookie(i) == \/ cookie' = [cookie EXCEPT ![q.browser] = i]
                          \/ cookie' = cookie
     IN \/ gone /\ SendCookie(None) /\ UNCHANGED <<login, session, created>>
        \/ /\ ~gone /\ q.changed /\ q.id = None
           /\ Create(q.record) /\ SendCookie(created')
        \/ /\ ~gone /\ q.changed /\ q.id # None
           /\ Save(q.id, q.record) /\ SendCookie(q.id) /\ UNCHANGED created
        \/ /\ ~gone /\ ~q.changed
           /\ UNCHANGED <<login, session, created, cookie>>
  /\ Set(r, Idle)
  /\ UNCHANGED <<login, user, code, mail, flow>>

(* An error of the server, or its end: nothing more is done.               *)
Drop(r) ==
  /\ request[r].step # "idle"
  /\ Set(r, Idle)
  /\ UNCHANGED <<login, user, code, mail, session, created, cookie, flow>>

Handle(r) ==
  \/ Select(r) \/ LogOut(r) \/ Redirect(r) \/ Callback(r) \/ Lookup(r)
  \/ SignUpVerified(r) \/ LogIn(r) \/ UpdateDetails(r) \/ CheckPassword(r)
  \/ WritePassword(r)
  \/ \E e \in Emails : CheckCredentials(r, e)

Next ==
  \/ \E e \in Emails : SignUp(e) \/ EnqueueCode(e) \/ ExpireCode(e) \/ VerifyEmail(e)
  \/ \E r \in Requests :
       \/ \E b \in Browsers, kind \in Kinds, f \in Flows \cup {None} :
            Load(r, b, kind, f)
       \/ Identify(r) \/ Handle(r) \/ Respond(r) \/ Drop(r)

Spec == Init /\ [][Next]_vars

-----------------------------------------------------------------------------
(* Properties.                                                             *)

(* A session that a request may still act with was opened with the         *)
(* password its account has now, however log ins and changes of the        *)
(* password overlap (session_auth_hash, update_user_password).             *)
OpenedWithPresentPassword ==
  \A i \in Ids : LET s == session[i] IN
    s # None /\ s.email # None /\ s.hash = user[s.email].hash
      => s.opened = user[s.email].password

(* Nobody is logged in to an account that is not verified, also not when a *)
(* provider vouches for its address.                                       *)
LoggedInIsVerified ==
  \A i \in Ids : session[i] # None /\ session[i].email # None =>
    user[session[i].email].verified

(* The accounts that are not verified are those with a code: no sequence   *)
(* of sign ups, expiries and attempts leaves an account without either.    *)
UnverifiedHaveCodes ==
  \A e \in Emails : code[e] # "none" <=> user[e] # None /\ ~user[e].verified

(* What a callback goes on with (nonce and next URL) was saved by the      *)
(* redirect that it answers, whatever redirects and requests of the same   *)
(* session came before or in between.                                      *)
AnswersOneRedirect ==
  \A r \in Requests : LET q == request[r] IN
    q.kind = "callback" /\ q.step \in {"lookup", "sign_up", "log_in"} =>
      q.next = q.flow /\ (q.flow \in OidcFlows => q.nonce = q.flow)

(* A session that was logged out of, or replaced at log in, never comes    *)
(* back, although requests that loaded it earlier save it later.           *)
EndedStaysEnded ==
  [][\A i \in Ids : i <= created /\ session[i] = None => session'[i] = None]_vars

(* Nobody is ever logged in to a session that was opened before: a log in  *)
(* gets a session of its own, although requests that loaded the earlier    *)
(* one save it as a whole (auth.rs, the session store).                    *)
IdsChangeAtLogIn ==
  [][\A i \in Ids : session[i] # None /\ session'[i] # None =>
       (session[i].email = None <=> session'[i].email = None)]_vars

(* Sessions keep the promise of module Logins: all of the above of one     *)
(* session over time, and nobody is logged in with a password that a       *)
(* verified account never had.                                             *)
Present(e) == IF Verified(e) THEN user[e].hash ELSE 0

Holds(i) ==
  IF session[i] # None
  THEN IF session[i].email = None THEN <<"anonymous">>
       ELSE <<"logged in", session[i].email, session[i].hash>>
  ELSE IF i <= created THEN <<"ended">> ELSE <<"unused">>

Promise == INSTANCE Logins WITH present <- [e \in Emails |-> Present(e)],
                                holds <- [i \in Ids |-> Holds(i)]

ImplementsLogins == Promise!Spec

(* No request brings an earlier password or hash of an account back.       *)
NothingRestored ==
  [][\A e \in Emails : user[e] # None =>
       /\ user'[e].hash >= user[e].hash
       /\ user'[e].password >= user[e].password]_vars
=============================================================================
