---------------------------- MODULE AccountsProofs ----------------------------
(***************************************************************************)
(* Proofs about Accounts, for any people, browsers, requests, flows and    *)
(* configurations, and any number of sessions and passwords.               *)
(*                                                                         *)
(* Copies of a session's record are in its row and in every request that   *)
(* loaded it.  The inductive invariant says what is true of every copy,    *)
(* however old (RecordOK), and what a request that has read an account may *)
(* still rely on (RequestOK).  Both survive any change of the accounts,    *)
(* which only ever grow (Grows).                                           *)
(***************************************************************************)
EXTENDS Accounts, TLAPS

USE NoneAssumption, BoundsAssumption

(* What holds of a copy of a record, given the accounts U: its user is     *)
(* verified, it has no hash from the future, and with the present hash it  *)
(* was opened with the present password; and what it waits for was saved by*)
(* one redirect.                                                           *)
Opened(e, hash, password, U) ==
  /\ U[e] # None /\ U[e].verified
  /\ hash <= U[e].hash
  /\ hash = U[e].hash => password = U[e].password

OneRedirect(R) ==
  R.csrf # None => R.next = R.csrf /\ (R.csrf \in OidcFlows => R.nonce = R.csrf)

RecordOK(R, U) ==
  /\ R.email # None => Opened(R.email, R.hash, R.opened, U)
  /\ OneRedirect(R)

RequestOK(q, U) ==
  /\ RecordOK(q.record, U)
  /\ q.kind = "callback" /\ q.step \in {"identify", "handle"} => q.flow \in Flows
  /\ q.kind = "callback" /\ q.step \in {"lookup", "sign_up", "log_in"} =>
       q.next = q.flow /\ (q.flow \in OidcFlows => q.nonce = q.flow)
  /\ q.step \in {"lookup", "sign_up", "log_in"} => q.email \in Emails
  /\ q.step = "log_in" => Opened(q.email, q.row.hash, q.row.password, U)
  /\ q.as # None => U[q.as] # None
  /\ q.step = "write" => q.as # None /\ U[q.as].password # 0

(* Of an account: its hash changes with its password, and it has a code    *)
(* until it is verified.                                                   *)
AccountsOK ==
  \A e \in Emails :
    /\ user[e] # None /\ user[e].password # 0 => user[e].hash = user[e].password
    /\ code[e] # "none" <=> user[e] # None /\ ~user[e].verified

SessionsOK == \A i \in Ids : session[i] # None => RecordOK(session[i], user)

RequestsOK == \A r \in Requests : RequestOK(request[r], user)

IInv == TypeOK /\ AccountsOK /\ SessionsOK /\ RequestsOK

(* The accounts V are the accounts U some time later.                      *)
Grows(U, V) ==
  \A e \in Emails : U[e] # None =>
    /\ V[e] # None
    /\ U[e].verified => V[e].verified
    /\ V[e].hash >= U[e].hash /\ V[e].password >= U[e].password
    /\ V[e].hash = U[e].hash => V[e].password = U[e].password

-----------------------------------------------------------------------------
(* Old copies stay true of accounts that grow.                             *)
AllAccounts == [Emails -> Account \cup {None}]

LEMMA OpenedStays ==
  ASSUME NEW U \in AllAccounts, NEW V \in AllAccounts, Grows(U, V),
         NEW e \in Emails, NEW h \in 0..MaxPasswords, NEW p \in 0..MaxPasswords,
         Opened(e, h, p, U)
  PROVE  Opened(e, h, p, V)
<1>1. U[e] \in Account /\ V[e] \in Account
  BY DEF AllAccounts, Opened, Grows
<1>2. /\ U[e].hash \in 0..MaxPasswords /\ V[e].hash \in 0..MaxPasswords
      /\ U[e].password \in 0..MaxPasswords /\ V[e].password \in 0..MaxPasswords
  BY <1>1 DEF Account
<1>3. QED
  BY <1>2 DEF Opened, Grows

LEMMA RecordStays ==
  ASSUME NEW U \in AllAccounts, NEW V \in AllAccounts, Grows(U, V),
         NEW R \in Record, RecordOK(R, U)
  PROVE  RecordOK(R, V)
<1>1. R.email \in Emails \cup {None} /\ R.hash \in 0..MaxPasswords
      /\ R.opened \in 0..MaxPasswords
  BY DEF Record
<1>2. QED
  BY <1>1, OpenedStays DEF RecordOK

LEMMA RequestStays ==
  ASSUME NEW U \in AllAccounts, NEW V \in AllAccounts, Grows(U, V),
         NEW q \in Request, RequestOK(q, U)
  PROVE  RequestOK(q, V)
<1>1. /\ q.record \in Record /\ q.row \in Account
      /\ q.as \in Emails \cup {None} /\ q.email \in Emails \cup {None}
  BY DEF Request
<1>2. q.row.hash \in 0..MaxPasswords /\ q.row.password \in 0..MaxPasswords
  BY <1>1 DEF Account
<1>3. RecordOK(q.record, V)
  BY <1>1, RecordStays DEF RequestOK
<1>4. q.step = "log_in" => Opened(q.email, q.row.hash, q.row.password, V)
  BY <1>2, OpenedStays DEF RequestOK
<1>5. /\ q.as # None => V[q.as] # None
      /\ q.step = "write" => q.as # None /\ V[q.as].password # 0
  <2>1. ASSUME q.as # None
        PROVE  V[q.as] # None /\ (U[q.as].password # 0 => V[q.as].password # 0)
    <3>1. q.as \in Emails /\ U[q.as] # None
      BY <1>1, <2>1 DEF RequestOK
    <3>2. U[q.as] \in Account /\ V[q.as] \in Account
      BY <3>1 DEF AllAccounts, Grows
    <3>3. /\ U[q.as].password \in 0..MaxPasswords
          /\ V[q.as].password \in 0..MaxPasswords
      BY <3>2 DEF Account
    <3>4. QED
      BY <3>1, <3>3 DEF Grows
  <2>2. QED
    BY <2>1 DEF RequestOK
<1>6. QED
  BY <1>3, <1>4, <1>5 DEF RequestOK

LEMMA Same ==
  ASSUME NEW U \in AllAccounts
  PROVE  Grows(U, U)
<1>1. \A e \in Emails : U[e] # None =>
        U[e].hash \in 0..MaxPasswords /\ U[e].password \in 0..MaxPasswords
  BY DEF AllAccounts, Account
<1>2. QED
  BY <1>1 DEF Grows

-----------------------------------------------------------------------------
(* What a step leaves to the requests and sessions it does not touch.      *)
LEMMA Untouched ==
  ASSUME IInv, user' \in AllAccounts, Grows(user, user')
  PROVE  /\ \A r \in Requests : RequestOK(request[r], user')
         /\ \A i \in Ids : session[i] # None => RecordOK(session[i], user')
         /\ request' = request => RequestsOK'
         /\ session' = session => SessionsOK'
<1>1. user \in AllAccounts
  BY DEF IInv, TypeOK, AllAccounts
<1>2. \A r \in Requests : request[r] \in Request /\ RequestOK(request[r], user)
  BY DEF IInv, TypeOK, RequestsOK
<1>3. \A i \in Ids : session[i] # None => session[i] \in Record /\ RecordOK(session[i], user)
  BY DEF IInv, TypeOK, SessionsOK
<1>4. \A r \in Requests : RequestOK(request[r], user')
  BY <1>1, <1>2, RequestStays
<1>5. \A i \in Ids : session[i] # None => RecordOK(session[i], user')
  BY <1>1, <1>3, RecordStays
<1>6. QED
  BY <1>4, <1>5 DEF RequestsOK, SessionsOK

(* A request goes on as q.                                                 *)
LEMMA SetKeeps ==
  ASSUME IInv, user' \in AllAccounts, Grows(user, user'), NEW r \in Requests,
         NEW q \in Request, RequestOK(q, user'), Set(r, q)
  PROVE  request' \in [Requests -> Request] /\ RequestsOK'
<1>1. request \in [Requests -> Request] /\ request' = [request EXCEPT ![r] = q]
  BY DEF IInv, TypeOK, Set
<1>2. \A p \in Requests : RequestOK(request[p], user')
  BY Untouched
<1>3. request' \in [Requests -> Request]
  BY <1>1
<1>4. \A p \in Requests : request'[p] = q \/ request'[p] = request[p]
  BY <1>1
<1>5. \A p \in Requests : RequestOK(request'[p], user')
  BY <1>2, <1>4
<1>6. QED
  BY <1>3, <1>5 DEF RequestsOK

(* A row is deleted or written with R.                                     *)
LEMMA RowKeeps ==
  ASSUME IInv, user' \in AllAccounts, Grows(user, user'), NEW i \in Ids,
         NEW R, R = None \/ (R \in Record /\ RecordOK(R, user')),
         session' = [session EXCEPT ![i] = R]
  PROVE  session' \in [Ids -> Record \cup {None}] /\ SessionsOK'
<1>1. session \in [Ids -> Record \cup {None}]
  BY DEF IInv, TypeOK
<1>2. \A k \in Ids : session[k] # None => RecordOK(session[k], user')
  BY Untouched
<1>3. session' \in [Ids -> Record \cup {None}]
  BY <1>1
<1>4. \A k \in Ids : session'[k] = R \/ session'[k] = session[k]
  BY <1>1
<1>5. QED
  BY <1>2, <1>3, <1>4 DEF SessionsOK

(* The ends of a handler and of a request.                                 *)
LEMMA Idles ==
  /\ EmptyRecord \in Record /\ Idle \in Request /\ NoAccount \in Account
  /\ \A U : RecordOK(EmptyRecord, U) /\ RequestOK(Idle, U)
<1>1. EmptyRecord \in Record /\ NoAccount \in Account
  BY DEF EmptyRecord, Record, NoAccount, Account
<1>2. (CHOOSE b \in Browsers : TRUE) \in Browsers
  BY BrowsersAssumption
<1>3. Idle \in Request
  BY <1>1, <1>2 DEF Idle, Request, Kinds, Steps
<1>4. \A U : RecordOK(EmptyRecord, U)
  BY DEF RecordOK, OneRedirect, EmptyRecord
<1>5. \A U : RequestOK(Idle, U)
  <2>1. /\ Idle.record = EmptyRecord /\ Idle.kind = "select" /\ Idle.step = "idle"
        /\ Idle.as = None
    BY DEF Idle
  <2>2. QED
    BY <1>4, <2>1 DEF RequestOK
<1>6. QED
  BY <1>1, <1>3, <1>4, <1>5

LEMMA Ends ==
  ASSUME NEW q \in Request, NEW U, RecordOK(q.record, U)
  PROVE  Done(q) \in Request /\ RequestOK(Done(q), U)
<1>1. Done(q) \in Request
  <2> DEFINE I == Idle
             b == q.browser
             i == q.id
             R == q.record
             c == q.changed
  <2>1. b \in Browsers /\ i \in Ids \cup {None} /\ R \in Record /\ c \in BOOLEAN
    BY DEF Request
  <2>2. I \in Request
    BY Idles
  <2>3. Done(q) = [I EXCEPT !.step = "respond", !.browser = b, !.id = i, !.record = R,
                            !.changed = c]
    BY DEF Done
  <2> HIDE DEF I, b, i, R, c
  <2>4. QED
    BY <2>1, <2>2, <2>3 DEF Request, Steps
<1>2. /\ Done(q).record = q.record /\ Done(q).kind = "select"
      /\ Done(q).step = "respond" /\ Done(q).as = None
  BY DEF Done, Idle
<1>3. QED
  BY <1>1, <1>2 DEF RequestOK

-----------------------------------------------------------------------------
(* Initially.                                                              *)
LEMMA InitIInv == Init => IInv
<1> SUFFICES ASSUME Init
             PROVE  IInv
  OBVIOUS
<1>1. TypeOK
  BY Idles DEF Init, TypeOK
<1>2. AccountsOK
  BY DEF Init, AccountsOK
<1>3. SessionsOK
  BY DEF Init, SessionsOK
<1>4. RequestsOK
  BY Idles DEF Init, RequestsOK
<1>5. QED
  BY <1>1, <1>2, <1>3, <1>4 DEF IInv

(* The accounts.                                                           *)
LEMMA InsertGrows ==
  ASSUME IInv, NEW e \in Emails, NEW verified \in BOOLEAN, NEW p \in {0, 1},
         Insert(e, verified, p)
  PROVE  /\ user' \in AllAccounts /\ Grows(user, user')
         /\ code' \in [Emails -> {"none", "valid", "expired"}] /\ AccountsOK'
         /\ user'[e] = [verified |-> verified, password |-> p, hash |-> 1]
         /\ user'[e] \in Account
<1> DEFINE a == [verified |-> verified, password |-> p, hash |-> 1]
<1>1. a \in Account /\ a # None /\ a.hash = 1 /\ a.password = p /\ a.verified = verified
  BY DEF Account
<1> HIDE DEF a
<1>2. user \in AllAccounts /\ code \in [Emails -> {"none", "valid", "expired"}]
  BY DEF IInv, TypeOK, AllAccounts
<1>3. /\ user[e] = None /\ user' = [user EXCEPT ![e] = a]
      /\ code' = [code EXCEPT ![e] = IF verified THEN "none" ELSE "valid"]
  BY DEF Insert, a
<1>4. user' \in AllAccounts /\ user'[e] = a
  BY <1>1, <1>2, <1>3 DEF AllAccounts
<1>5. \A d \in Emails : d # e => user'[d] = user[d] /\ code'[d] = code[d]
  BY <1>2, <1>3 DEF AllAccounts
<1>6. /\ code' \in [Emails -> {"none", "valid", "expired"}]
      /\ code'[e] = IF verified THEN "none" ELSE "valid"
  BY <1>2, <1>3
<1>7. Grows(user, user')
  BY <1>2, <1>3, <1>5, Same DEF Grows
<1>8. AccountsOK'
  BY <1>1, <1>4, <1>5, <1>6 DEF AccountsOK, IInv
<1>9. QED
  BY <1>4, <1>6, <1>7, <1>8, <1>1 DEF a

(* An account is changed to a.                                             *)
LEMMA ChangeGrows ==
  ASSUME IInv, NEW e \in Emails, user[e] # None, NEW a \in Account,
         user[e].verified => a.verified,
         a.hash >= user[e].hash, a.password >= user[e].password,
         a.hash = user[e].hash => a.password = user[e].password,
         user' = [user EXCEPT ![e] = a]
  PROVE  user' \in AllAccounts /\ Grows(user, user')
<1>1. user \in AllAccounts
  BY DEF IInv, TypeOK, AllAccounts
<1>2. user' \in AllAccounts /\ user'[e] = a /\ a # None
  BY <1>1 DEF AllAccounts
<1>3. \A d \in Emails : d # e => user'[d] = user[d]
  BY <1>1 DEF AllAccounts
<1>4. Grows(user, user)
  BY <1>1, Same
<1>5. QED
  BY <1>2, <1>3, <1>4 DEF Grows

(* The actions outside of requests.                                        *)
LEMMA AccountSteps ==
  ASSUME IInv, NEW e \in Emails,
         SignUp(e) \/ EnqueueCode(e) \/ ExpireCode(e) \/ VerifyEmail(e)
  PROVE  IInv' /\ Grows(user, user')
<1>1. /\ user \in AllAccounts /\ mail \in [Emails -> {"none", "pending", "enqueued"}]
      /\ code \in [Emails -> {"none", "valid", "expired"}]
  BY DEF IInv, TypeOK, AllAccounts
<1>2. /\ user' \in AllAccounts /\ Grows(user, user') /\ AccountsOK'
      /\ mail' \in [Emails -> {"none", "pending", "enqueued"}]
      /\ code' \in [Emails -> {"none", "valid", "expired"}]
      /\ UNCHANGED <<login, session, created, cookie, flow, request>>
  <2>1. CASE SignUp(e)
    BY <1>1, <2>1, InsertGrows DEF SignUp
  <2>2. CASE EnqueueCode(e)
    <3>1. /\ UNCHANGED <<login, session, created, cookie, flow, request>>
          /\ user' = user /\ code' = code
      BY <2>2 DEF EnqueueCode
    <3>2. mail' \in [Emails -> {"none", "pending", "enqueued"}]
      BY <1>1, <2>2 DEF EnqueueCode
    <3>3. QED
      BY <1>1, <3>1, <3>2, Same DEF IInv, AccountsOK
  <2>3. CASE ExpireCode(e)
    <3>1. /\ UNCHANGED <<login, session, created, cookie, flow, request>>
          /\ user' = user /\ mail' = mail
          /\ code[e] = "valid" /\ code' = [code EXCEPT ![e] = "expired"]
      BY <2>3 DEF ExpireCode
    <3>2. code' \in [Emails -> {"none", "valid", "expired"}]
      BY <1>1, <3>1
    <3>3. \A d \in Emails : code'[d] # "none" <=> code[d] # "none"
      BY <1>1, <3>1
    <3>4. AccountsOK'
      BY <3>1, <3>3 DEF IInv, AccountsOK
    <3>5. QED
      BY <1>1, <3>1, <3>2, <3>4, Same
  <2>4. CASE VerifyEmail(e)
    <3> DEFINE a == [user[e] EXCEPT !.verified = TRUE]
    <3>1. /\ UNCHANGED <<login, session, created, cookie, flow, request>>
          /\ mail' = mail /\ user' = [user EXCEPT ![e] = a]
          /\ code[e] = "valid" /\ code' = [code EXCEPT ![e] = "none"]
      BY <1>1, <2>4 DEF VerifyEmail, AllAccounts
    <3>2. user[e] # None /\ user[e] \in Account
      BY <1>1, <3>1 DEF IInv, AccountsOK, AllAccounts
    <3>3. /\ a \in Account /\ a.verified = TRUE /\ a # None
          /\ a.hash = user[e].hash /\ a.password = user[e].password
          /\ a.hash \in 0..MaxPasswords /\ a.password \in 0..MaxPasswords
      BY <3>2 DEF Account
    <3> HIDE DEF a
    <3>4. user' \in AllAccounts /\ Grows(user, user')
      <4>1. /\ a.hash >= user[e].hash /\ a.password >= user[e].password
            /\ a.hash = user[e].hash => a.password = user[e].password
            /\ user[e].verified => a.verified
        BY <3>3
      <4>2. user' = [user EXCEPT ![e] = a] /\ a \in Account
        BY <3>1, <3>3
      <4>3. QED
        BY <3>2, <4>1, <4>2, ChangeGrows
    <3>5. code' \in [Emails -> {"none", "valid", "expired"}]
      BY <1>1, <3>1
    <3>6. AccountsOK'
      <4>1. /\ user'[e] = a /\ code'[e] = "none"
            /\ \A d \in Emails : d # e => user'[d] = user[d] /\ code'[d] = code[d]
        BY <1>1, <3>1 DEF AllAccounts
      <4>2. QED
        BY <3>2, <3>3, <4>1 DEF IInv, AccountsOK
    <3>7. QED
      BY <1>1, <3>1, <3>4, <3>5, <3>6
  <2>5. QED
    BY <2>1, <2>2, <2>3, <2>4
<1>3. RequestsOK' /\ SessionsOK'
  BY <1>2, Untouched
<1>4. TypeOK'
  BY <1>2 DEF IInv, TypeOK, AllAccounts
<1>5. QED
  BY <1>2, <1>3, <1>4 DEF IInv

-----------------------------------------------------------------------------
(* The steps of a request that change nothing but the request itself.      *)
LEMMA Alone ==
  ASSUME IInv, NEW r \in Requests, NEW q \in Request, RequestOK(q, user), Set(r, q),
         UNCHANGED <<login, user, code, mail, session, created, cookie>>,
         flow' \in [Flows -> {"unused", "out", "redeemed"}]
  PROVE  IInv' /\ Grows(user, user')
<1>1. user \in AllAccounts
  BY DEF IInv, TypeOK, AllAccounts
<1>2. Grows(user, user') /\ user' \in AllAccounts /\ RequestOK(q, user')
  BY <1>1, Same
<1>3. request' \in [Requests -> Request] /\ RequestsOK' /\ SessionsOK'
  BY <1>2, SetKeeps, Untouched
<1>4. TypeOK'
  BY <1>3 DEF IInv, TypeOK
<1>5. AccountsOK'
  BY DEF IInv, AccountsOK
<1>6. QED
  BY <1>2, <1>3, <1>4, <1>5 DEF IInv

LEMMA LoadOK ==
  ASSUME IInv, NEW r \in Requests, NEW b \in Browsers, NEW kind \in Kinds,
         NEW f \in Flows \cup {None}, Load(r, b, kind, f)
  PROVE  IInv' /\ Grows(user, user')
<1> DEFINE found == cookie[b] # None /\ session[cookie[b]] # None
           i == IF found THEN cookie[b] ELSE None
           R == IF found THEN session[cookie[b]] ELSE EmptyRecord
<1>1. /\ Set(r, [Idle EXCEPT !.kind = kind, !.step = "identify", !.browser = b,
                             !.flow = f, !.id = i, !.record = R])
      /\ UNCHANGED <<login, user, code, mail, session, created, cookie, flow>>
      /\ kind = "callback" => f # None
  BY DEF Load
<1>2. i \in Ids \cup {None}
  BY DEF IInv, TypeOK
<1>3. R \in Record /\ RecordOK(R, user)
  <2>1. CASE found
    <3>1. cookie[b] \in Ids /\ session[cookie[b]] \in Record
      BY <2>1 DEF IInv, TypeOK
    <3>2. QED
      BY <2>1, <3>1 DEF IInv, SessionsOK
  <2>2. CASE ~found
    BY <2>2, Idles
  <2>3. QED
    BY <2>1, <2>2
<1> HIDE DEF i, R
<1> DEFINE q == [Idle EXCEPT !.kind = kind, !.step = "identify", !.browser = b,
                             !.flow = f, !.id = i, !.record = R]
<1>4. q \in Request
  BY <1>2, <1>3, Idles DEF Idle, Request, Steps
<1>5. /\ q.kind = kind /\ q.step = "identify" /\ q.flow = f /\ q.record = R /\ q.as = None
  BY DEF Idle
<1> HIDE DEF q
<1>6. RequestOK(q, user)
  BY <1>1, <1>3, <1>5 DEF RequestOK
<1>7. flow' \in [Flows -> {"unused", "out", "redeemed"}]
  BY <1>1 DEF IInv, TypeOK
<1>8. Set(r, q)
  BY <1>1 DEF q
<1>9. QED
  BY <1>1, <1>4, <1>6, <1>7, <1>8, Alone

LEMMA FlushOK ==
  ASSUME IInv, NEW r \in Requests, NEW q \in Request, RequestOK(q, user), Flush(r, q),
         UNCHANGED <<login, user, code, mail, created, cookie, flow>>
  PROVE  IInv' /\ Grows(user, user')
<1> DEFINE p == [q EXCEPT !.id = None, !.record = EmptyRecord]
<1>1. user \in AllAccounts
  BY DEF IInv, TypeOK, AllAccounts
<1>2. Grows(user, user') /\ user' \in AllAccounts
  BY <1>1, Same
<1>3. /\ p \in Request /\ p.record = EmptyRecord /\ p.kind = q.kind /\ p.step = q.step
      /\ p.flow = q.flow /\ p.next = q.next /\ p.nonce = q.nonce /\ p.email = q.email
      /\ p.row = q.row /\ p.as = q.as
  BY Idles DEF Request
<1>4. Set(r, p)
  BY DEF Flush
<1> HIDE DEF p
<1>5. RequestOK(p, user')
  BY <1>3, Idles DEF RequestOK
<1>6. request' \in [Requests -> Request] /\ RequestsOK'
  BY <1>2, <1>3, <1>4, <1>5, SetKeeps
<1>7. session' \in [Ids -> Record \cup {None}] /\ SessionsOK'
  <2>1. request[r] \in Request
    BY DEF IInv, TypeOK
  <2>2. request[r].id \in Ids \cup {None}
    BY <2>1 DEF Request
  <2>3. CASE session' = session
    BY <1>2, <2>3, Untouched DEF IInv, TypeOK
  <2>4. CASE request[r].id # None /\ session' = [session EXCEPT ![request[r].id] = None]
    BY <1>2, <2>2, <2>4, RowKeeps
  <2>5. QED
    BY <2>3, <2>4 DEF Flush
<1>8. TypeOK'
  BY <1>6, <1>7 DEF IInv, TypeOK
<1>9. AccountsOK'
  BY DEF IInv, AccountsOK
<1>10. QED
  BY <1>2, <1>6, <1>7, <1>8, <1>9 DEF IInv

LEMMA IdentifyOK ==
  ASSUME IInv, NEW r \in Requests, Identify(r)
  PROVE  IInv' /\ Grows(user, user')
<1> DEFINE q == [request[r] EXCEPT !.step = "handle"]
           e == q.record.email
           p == [q EXCEPT !.as = e, !.email = e, !.row = user[e]]
<1>1. request[r] \in Request /\ RequestOK(request[r], user) /\ request[r].step = "identify"
  BY DEF IInv, TypeOK, RequestsOK, Identify
<1>2. /\ q \in Request /\ q.record = request[r].record /\ q.step = "handle"
      /\ q.flow = request[r].flow /\ q.kind = request[r].kind /\ q.as = request[r].as
      /\ q.record \in Record
  BY <1>1 DEF Request, Steps
<1>3. RequestOK(q, user)
  BY <1>1, <1>2 DEF RequestOK
<1>4. /\ UNCHANGED <<login, user, code, mail, created, cookie, flow>>
      /\ \/ Set(r, q) /\ UNCHANGED session
         \/ e # None /\ Verified(e) /\ Set(r, p) /\ UNCHANGED session
         \/ Flush(r, q)
  BY DEF Identify
<1>5. flow' \in [Flows -> {"unused", "out", "redeemed"}]
  BY <1>4 DEF IInv, TypeOK
<1>6. CASE Set(r, q) /\ UNCHANGED session
  BY <1>2, <1>3, <1>4, <1>5, <1>6, Alone
<1>7. CASE e # None /\ Verified(e) /\ Set(r, p) /\ UNCHANGED session
  <2>1. e \in Emails /\ user[e] # None /\ user[e] \in Account
    BY <1>2, <1>7 DEF IInv, TypeOK, Record, Verified
  <2> HIDE DEF e
  <2>2. /\ p \in Request /\ p.record = q.record /\ p.step = q.step /\ p.kind = q.kind
        /\ p.flow = q.flow /\ p.as = e
    BY <1>2, <2>1 DEF Request
  <2> HIDE DEF p
  <2>3. RequestOK(p, user)
    BY <1>2, <1>3, <2>1, <2>2 DEF RequestOK
  <2>4. QED
    BY <1>4, <1>5, <1>7, <2>2, <2>3, Alone
<1>8. CASE Flush(r, q)
  BY <1>2, <1>3, <1>4, <1>8, FlushOK
<1>9. QED
  BY <1>4, <1>6, <1>7, <1>8

(* The handlers that only end, or go on to another step.                   *)
LEMMA EndOK ==
  ASSUME IInv, NEW r \in Requests, NEW q \in Request, RecordOK(q.record, user),
         Set(r, Done(q)),
         UNCHANGED <<login, user, code, mail, session, created, cookie>>,
         flow' \in [Flows -> {"unused", "out", "redeemed"}]
  PROVE  IInv' /\ Grows(user, user')
BY Ends, Alone

LEMMA ReadOK ==
  ASSUME IInv, NEW r \in Requests, NEW e \in Emails, user[e] # None, user[e].verified,
         NEW q \in Request, RequestOK(q, user),
         q.kind = "callback" => q.step = "lookup"
  PROVE  LET p == [q EXCEPT !.step = "log_in", !.email = e, !.row = user[e]] IN
           p \in Request /\ RequestOK(p, user)
<1> DEFINE p == [q EXCEPT !.step = "log_in", !.email = e, !.row = user[e]]
<1>1. user[e] \in Account
  BY DEF IInv, TypeOK
<1>2. user[e].hash \in 0..MaxPasswords
  BY <1>1 DEF Account
<1>3. /\ p \in Request /\ p.record = q.record /\ p.step = "log_in" /\ p.kind = q.kind
      /\ p.flow = q.flow /\ p.as = q.as /\ p.email = e /\ p.row = user[e]
      /\ p.next = q.next /\ p.nonce = q.nonce
  BY <1>1 DEF Request, Steps
<1> HIDE DEF p
<1>4. Opened(e, user[e].hash, user[e].password, user)
  BY <1>2 DEF Opened
<1>5. RequestOK(p, user)
  BY <1>3, <1>4 DEF RequestOK
<1>6. QED
  BY <1>3, <1>5 DEF p

LEMMA HandlersOK ==
  ASSUME IInv, NEW r \in Requests,
         \/ Select(r) \/ LogOut(r) \/ Lookup(r) \/ UpdateDetails(r) \/ CheckPassword(r)
         \/ Drop(r)
         \/ \E e \in Emails : CheckCredentials(r, e)
  PROVE  IInv' /\ Grows(user, user')
<1> DEFINE q == request[r]
<1>1. q \in Request /\ RequestOK(q, user) /\ RecordOK(q.record, user)
  BY DEF IInv, TypeOK, RequestsOK, RequestOK
<1>2. flow \in [Flows -> {"unused", "out", "redeemed"}]
  BY DEF IInv, TypeOK
<1>3. CASE Select(r)
  <2>1. /\ [q EXCEPT !.changed = q.as # None] \in Request
        /\ [q EXCEPT !.changed = q.as # None].record = q.record
    BY <1>1 DEF Request
  <2>2. QED
    BY <1>1, <1>2, <1>3, <2>1, EndOK DEF Select
<1>4. CASE LogOut(r)
  BY <1>1, <1>4, Ends, FlushOK DEF LogOut
<1>5. CASE Lookup(r)
  <2>1. q.step = "lookup" /\ q.email \in Emails
    BY <1>1, <1>5 DEF Lookup, RequestOK
  <2>2. CASE Verified(q.email)
    BY <1>1, <1>2, <1>5, <2>1, <2>2, ReadOK, Alone DEF Lookup, Verified
  <2>3. CASE ~Verified(q.email)
    <3> DEFINE p == [q EXCEPT !.step = "sign_up"]
    <3>1. /\ p \in Request /\ p.record = q.record /\ p.step = "sign_up" /\ p.kind = q.kind
          /\ p.flow = q.flow /\ p.as = q.as /\ p.email = q.email
          /\ p.next = q.next /\ p.nonce = q.nonce
      BY <1>1 DEF Request, Steps
    <3>2. Set(r, p) /\ UNCHANGED <<login, user, code, mail, session, created, cookie, flow>>
      BY <1>5, <2>3 DEF Lookup
    <3> HIDE DEF p
    <3>3. RequestOK(p, user)
      BY <1>1, <2>1, <3>1 DEF RequestOK
    <3>4. QED
      BY <1>2, <3>1, <3>2, <3>3, Alone
  <2>4. QED
    BY <2>2, <2>3
<1>6. CASE UpdateDetails(r)
  BY <1>1, <1>2, <1>6, EndOK DEF UpdateDetails
<1>7. CASE CheckPassword(r)
  <2> DEFINE p == [q EXCEPT !.step = "write"]
  <2>1. /\ p \in Request /\ p.record = q.record /\ p.step = "write" /\ p.kind = q.kind
        /\ p.flow = q.flow /\ p.as = q.as
    BY <1>1 DEF Request, Steps
  <2>2. UNCHANGED <<login, user, code, mail, session, created, cookie, flow>>
    BY <1>7 DEF CheckPassword
  <2>3. CASE q.as # None /\ HasPassword(q.as) /\ Set(r, p)
    <3> HIDE DEF p
    <3>1. RequestOK(p, user)
      BY <1>1, <2>1, <2>3 DEF RequestOK, HasPassword
    <3>2. QED
      BY <1>2, <2>1, <2>2, <2>3, <3>1, Alone
  <2>4. CASE Set(r, Done(q))
    BY <1>1, <1>2, <2>2, <2>4, EndOK
  <2>5. QED
    BY <1>7, <2>3, <2>4 DEF CheckPassword
<1>8. CASE Drop(r)
  BY <1>2, <1>8, Idles, Alone DEF Drop
<1>9. ASSUME NEW e \in Emails, CheckCredentials(r, e)
      PROVE  IInv' /\ Grows(user, user')
  <2>1. /\ UNCHANGED <<login, user, code, mail, session, created, cookie, flow>>
        /\ q.kind = "log_in"
    BY <1>9 DEF CheckCredentials, At
  <2>2. CASE /\ Verified(e)
             /\ Set(r, [q EXCEPT !.step = "log_in", !.email = e, !.row = user[e]])
    BY <1>1, <1>2, <2>1, <2>2, ReadOK, Alone DEF Verified
  <2>3. CASE Set(r, Done(q))
    BY <1>1, <1>2, <2>1, <2>3, EndOK
  <2>4. QED
    BY <1>9, <2>2, <2>3 DEF CheckCredentials
<1>10. QED
  BY <1>3, <1>4, <1>5, <1>6, <1>7, <1>8, <1>9

LEMMA RedirectOK ==
  ASSUME IInv, NEW r \in Requests, Redirect(r)
  PROVE  IInv' /\ Grows(user, user')
<1> DEFINE q == request[r]
           f == q.flow
           n == IF f \in OidcFlows THEN f ELSE q.record.nonce
           R == [q.record EXCEPT !.csrf = f, !.nonce = n, !.next = f]
           p == [q EXCEPT !.changed = TRUE, !.record = R]
<1>1. q \in Request /\ RecordOK(q.record, user)
  BY DEF IInv, TypeOK, RequestsOK, RequestOK
<1>2. q.record \in Record /\ f \in Flows \cup {None}
  BY <1>1 DEF Request
<1>3. n \in Flows \cup {None} /\ (f \in OidcFlows => n = f)
  BY <1>2, FlowsAssumption DEF Record
<1>4. [q EXCEPT !.changed = TRUE, !.record.csrf = f,
                !.record.nonce = IF f \in OidcFlows THEN f ELSE @, !.record.next = f] = p
  BY <1>1, <1>2 DEF Request, Record
<1>5. /\ Set(r, Done(p)) /\ UNCHANGED <<login, user, code, mail, session, created, cookie>>
      /\ flow' = [flow EXCEPT ![f] = "out"]
  BY <1>4 DEF Redirect
<1>6. flow' \in [Flows -> {"unused", "out", "redeemed"}]
  BY <1>5 DEF IInv, TypeOK
<1> HIDE DEF n
<1>7. /\ R \in Record /\ R.email = q.record.email /\ R.hash = q.record.hash
      /\ R.opened = q.record.opened /\ R.csrf = f /\ R.nonce = n /\ R.next = f
  BY <1>2, <1>3 DEF Record
<1> HIDE DEF R
<1>8. p \in Request /\ p.record = R
  BY <1>1, <1>7 DEF Request
<1>9. RecordOK(R, user)
  BY <1>1, <1>3, <1>7 DEF RecordOK, OneRedirect
<1> HIDE DEF p
<1>10. QED
  BY <1>5, <1>6, <1>8, <1>9, EndOK

LEMMA CallbackOK ==
  ASSUME IInv, NEW r \in Requests, Callback(r)
  PROVE  IInv' /\ Grows(user, user')
<1> DEFINE f == request[r].flow
           R == [request[r].record EXCEPT !.csrf = None]
           q == [request[r] EXCEPT !.changed = request[r].record.csrf # None, !.record = R]
           oidc == f \in OidcFlows
           n == IF oidc THEN None ELSE q.record.nonce
           S == [q.record EXCEPT !.nonce = n, !.next = None]
           taken == [q EXCEPT !.record = S, !.nonce = R.nonce, !.next = R.next]
<1>1. /\ request[r] \in Request /\ RequestOK(request[r], user)
      /\ request[r].kind = "callback" /\ request[r].step = "handle"
  BY DEF IInv, TypeOK, RequestsOK, Callback, At
<1>2. request[r].record \in Record /\ RecordOK(request[r].record, user) /\ f \in Flows
  BY <1>1 DEF Request, RequestOK
<1>3. /\ R \in Record /\ R.email = request[r].record.email /\ R.hash = request[r].record.hash
      /\ R.opened = request[r].record.opened /\ R.csrf = None
      /\ R.nonce = request[r].record.nonce /\ R.next = request[r].record.next
  BY <1>2 DEF Record
<1>4. [request[r] EXCEPT !.changed = request[r].record.csrf # None, !.record.csrf = None] = q
  BY <1>1, <1>2 DEF Request, Record
<1>5. /\ q \in Request /\ q.record = R /\ q.kind = "callback" /\ q.step = "handle"
      /\ q.flow = f /\ q.as = request[r].as
  BY <1>1, <1>3 DEF Request
<1>6. RecordOK(R, user)
  BY <1>2, <1>3 DEF RecordOK, OneRedirect
<1>7. /\ S \in Record /\ S.email = R.email /\ S.hash = R.hash /\ S.opened = R.opened
      /\ S.csrf = None
  BY <1>3, <1>5 DEF Record
<1>8. [q EXCEPT !.record.nonce = IF oidc THEN None ELSE @, !.record.next = None,
                !.nonce = q.record.nonce, !.next = q.record.next] = taken
  BY <1>3, <1>5 DEF Request, Record
<1> DEFINE q0 == [request[r] EXCEPT !.changed = request[r].record.csrf # None,
                                    !.record.csrf = None]
           taken0 == [q0 EXCEPT !.record.nonce = IF oidc THEN None ELSE @,
                                !.record.next = None,
                                !.nonce = q0.record.nonce, !.next = q0.record.next]
<1>8a. /\ UNCHANGED <<login, user, code, mail, session, created, cookie>>
       /\ flow' = flow \/ flow' = [flow EXCEPT ![f] = "redeemed"]
  BY Zenon DEF Callback
<1>8b. \/ Set(r, Done(q0))
       \/ /\ request[r].record.csrf = f
          /\ \E e \in Emails : Set(r, [taken0 EXCEPT !.step = "lookup", !.email = e])
       \/ Set(r, Done(taken0))
  BY Zenon DEF Callback
<1> HIDE DEF q, S
<1>9. /\ taken \in Request /\ taken.record = S /\ taken.kind = "callback"
      /\ taken.flow = f /\ taken.as = request[r].as
      /\ taken.nonce = R.nonce /\ taken.next = R.next
  <2>1. R.nonce \in Flows \cup {None} /\ R.next \in Flows \cup {None}
    BY <1>3 DEF Record
  <2> HIDE DEF R
  <2>2. QED
    BY <1>5, <1>7, <2>1 DEF Request
<1>10. RecordOK(S, user)
  BY <1>6, <1>7 DEF RecordOK, OneRedirect
<1>11. \/ Set(r, Done(q))
       \/ /\ request[r].record.csrf = f
          /\ \E e \in Emails : Set(r, [taken EXCEPT !.step = "lookup", !.email = e])
       \/ Set(r, Done(taken))
  <2>1. q0 = q
    BY <1>4 DEF q
  <2>2. taken0 = taken
    BY <1>8, <2>1
  <2> HIDE DEF q0, taken0, taken, R
  <2>3. QED
    BY <1>8b, <2>1, <2>2
<1>12. flow' \in [Flows -> {"unused", "out", "redeemed"}]
  BY <1>8a DEF IInv, TypeOK
<1> HIDE DEF R, taken, q0, taken0
<1>13. CASE Set(r, Done(q))
  BY <1>5, <1>6, <1>8a, <1>12, <1>13, EndOK
<1>14. CASE Set(r, Done(taken))
  BY <1>9, <1>10, <1>8a, <1>12, <1>14, EndOK
<1>15. ASSUME request[r].record.csrf = f,
              NEW e \in Emails, Set(r, [taken EXCEPT !.step = "lookup", !.email = e])
       PROVE  IInv' /\ Grows(user, user')
  <2> DEFINE p == [taken EXCEPT !.step = "lookup", !.email = e]
  <2>1. /\ p \in Request /\ p.record = S /\ p.kind = "callback" /\ p.step = "lookup"
        /\ p.flow = f /\ p.as = request[r].as /\ p.email = e
        /\ p.nonce = R.nonce /\ p.next = R.next
    BY <1>9 DEF Request, Steps
  <2>2. R.next = f /\ (f \in OidcFlows => R.nonce = f)
    BY <1>2, <1>3, <1>15 DEF RecordOK, OneRedirect
  <2>3. Set(r, p)
    BY <1>15
  <2> HIDE DEF p
  <2>4. RequestOK(p, user)
    BY <1>1, <1>10, <2>1, <2>2 DEF RequestOK
  <2>5. QED
    BY <1>8a, <1>12, <2>1, <2>3, <2>4, Alone
<1>16. QED
  BY <1>11, <1>13, <1>14, <1>15

LEMMA SignUpVerifiedOK ==
  ASSUME IInv, NEW r \in Requests, SignUpVerified(r)
  PROVE  IInv' /\ Grows(user, user')
<1> DEFINE q == request[r]
           e == q.email
<1>1. /\ q \in Request /\ RequestOK(q, user) /\ RecordOK(q.record, user)
      /\ q.step = "sign_up" /\ e \in Emails
  BY DEF IInv, TypeOK, RequestsOK, RequestOK, SignUpVerified
<1>2. /\ UNCHANGED <<login, mail, session, created, cookie, flow>>
      /\ \/ Insert(e, TRUE, 0) /\ Set(r, [q EXCEPT !.step = "log_in", !.row = user'[e]])
         \/ Set(r, Done(q)) /\ UNCHANGED <<user, code>>
  BY DEF SignUpVerified
<1>3. flow' \in [Flows -> {"unused", "out", "redeemed"}]
  BY <1>2 DEF IInv, TypeOK
<1>4. CASE Set(r, Done(q)) /\ UNCHANGED <<user, code>>
  BY <1>1, <1>2, <1>3, <1>4, EndOK
<1>5. CASE Insert(e, TRUE, 0) /\ Set(r, [q EXCEPT !.step = "log_in", !.row = user'[e]])
  <2> DEFINE p == [q EXCEPT !.step = "log_in", !.row = user'[e]]
  <2>1. /\ user' \in AllAccounts /\ Grows(user, user')
        /\ code' \in [Emails -> {"none", "valid", "expired"}] /\ AccountsOK'
        /\ user'[e] = [verified |-> TRUE, password |-> 0, hash |-> 1]
        /\ user'[e] \in Account
    BY <1>1, <1>5, InsertGrows
  <2>2. user'[e] # None /\ user'[e].verified /\ user'[e].hash \in 0..MaxPasswords
    <3>1. user'[e] # None
      BY <2>1
    <3>2. user'[e].verified = TRUE /\ user'[e].hash = 1
      BY <2>1
    <3>3. QED
      BY <3>1, <3>2
  <2>3. /\ p \in Request /\ p.record = q.record /\ p.step = "log_in" /\ p.kind = q.kind
        /\ p.flow = q.flow /\ p.as = q.as /\ p.email = e /\ p.row = user'[e]
        /\ p.next = q.next /\ p.nonce = q.nonce
    BY <1>1, <2>1 DEF Request, Steps
  <2>4. Set(r, p)
    BY <1>5
  <2> HIDE DEF p
  <2>5. RequestOK(q, user')
    BY <2>1, Untouched
  <2>6. RequestOK(p, user')
    <3>1. Opened(e, p.row.hash, p.row.password, user')
      BY <2>2, <2>3 DEF Opened
    <3>2. RecordOK(p.record, user') /\ p.email \in Emails
      BY <1>1, <2>3, <2>5 DEF RequestOK
    <3>3. p.as # None => user'[p.as] # None
      BY <2>3, <2>5 DEF RequestOK
    <3>4. p.kind = "callback" => p.next = p.flow /\ (p.flow \in OidcFlows => p.nonce = p.flow)
      BY <1>1, <2>3 DEF RequestOK
    <3>5. QED
      BY <2>3, <3>1, <3>2, <3>3, <3>4 DEF RequestOK
  <2>7. request' \in [Requests -> Request] /\ RequestsOK' /\ SessionsOK'
    BY <1>2, <2>1, <2>3, <2>4, <2>6, SetKeeps, Untouched
  <2>8. TypeOK'
    BY <1>2, <2>1, <2>7 DEF IInv, TypeOK, AllAccounts
  <2>9. QED
    BY <2>1, <2>7, <2>8 DEF IInv
<1>6. QED
  BY <1>2, <1>4, <1>5

LEMMA LogInOK ==
  ASSUME IInv, NEW r \in Requests, LogIn(r)
  PROVE  IInv' /\ Grows(user, user')
<1> DEFINE q == request[r]
           i == IF q.record.hash = 0 THEN None ELSE q.id
           R == [q.record EXCEPT !.email = q.email, !.hash = q.row.hash,
                                 !.opened = q.row.password]
           p == [q EXCEPT !.changed = TRUE, !.id = i, !.record = R]
<1>1. q \in Request /\ RequestOK(q, user) /\ q.step = "log_in"
  BY DEF IInv, TypeOK, RequestsOK, LogIn
<1>2. /\ q.record \in Record /\ RecordOK(q.record, user) /\ q.row \in Account
      /\ q.email \in Emails /\ q.id \in Ids \cup {None}
      /\ Opened(q.email, q.row.hash, q.row.password, user)
  BY <1>1 DEF Request, RequestOK
<1>3. /\ R \in Record /\ R.email = q.email /\ R.hash = q.row.hash
      /\ R.opened = q.row.password /\ R.csrf = q.record.csrf
      /\ R.nonce = q.record.nonce /\ R.next = q.record.next
  BY <1>2 DEF Record, Account
<1>4. [q EXCEPT !.changed = TRUE, !.id = IF q.record.hash = 0 THEN None ELSE @,
                !.record.email = q.email, !.record.hash = q.row.hash,
                !.record.opened = q.row.password] = p
  BY <1>1, <1>2 DEF Request, Record
<1>5. /\ UNCHANGED <<login, user, code, mail, created, cookie, flow>>
      /\ Set(r, Done(p))
      /\ \/ session' = session
         \/ q.id # None /\ session' = [session EXCEPT ![q.id] = None]
  BY <1>4 DEF LogIn
<1> HIDE DEF R
<1>6. p \in Request /\ p.record = R
  BY <1>1, <1>2, <1>3 DEF Request
<1>7. RecordOK(R, user)
  BY <1>2, <1>3 DEF RecordOK, OneRedirect
<1> HIDE DEF p
<1>8. user' \in AllAccounts /\ Grows(user, user')
  BY <1>5, Same DEF IInv, TypeOK, AllAccounts
<1>9. Done(p) \in Request /\ RequestOK(Done(p), user')
  BY <1>5, <1>6, <1>7, Ends
<1>10. request' \in [Requests -> Request] /\ RequestsOK'
  BY <1>5, <1>8, <1>9, SetKeeps
<1>11. session' \in [Ids -> Record \cup {None}] /\ SessionsOK'
  <2>1. CASE session' = session
    BY <1>8, <2>1, Untouched DEF IInv, TypeOK
  <2>2. CASE q.id # None /\ session' = [session EXCEPT ![q.id] = None]
    BY <1>2, <1>8, <2>2, RowKeeps
  <2>3. QED
    BY <1>5, <2>1, <2>2
<1>12. TypeOK'
  BY <1>5, <1>10, <1>11 DEF IInv, TypeOK
<1>13. AccountsOK'
  BY <1>5 DEF IInv, AccountsOK
<1>14. QED
  BY <1>8, <1>10, <1>11, <1>12, <1>13 DEF IInv

LEMMA WritePasswordOK ==
  ASSUME IInv, NEW r \in Requests, WritePassword(r)
  PROVE  IInv' /\ Grows(user, user')
<1> DEFINE q == request[r]
           e == q.as
           a == [user[e] EXCEPT !.password = user[e].password + 1, !.hash = user[e].hash + 1]
<1>1. q \in Request /\ RequestOK(q, user) /\ q.step = "write"
  BY DEF IInv, TypeOK, RequestsOK, WritePassword
<1>2. user \in AllAccounts
  BY DEF IInv, TypeOK, AllAccounts
<1>3. e \in Emails /\ user[e] # None /\ user[e] \in Account /\ user[e].password # 0
  BY <1>1, <1>2 DEF Request, RequestOK, AllAccounts
<1>4. /\ user[e].password \in 0..MaxPasswords /\ user[e].password < MaxPasswords
      /\ user[e].hash = user[e].password
  BY <1>3 DEF Account, IInv, AccountsOK, WritePassword
<1>5. /\ a \in Account /\ a.password = user[e].password + 1
      /\ a.hash = user[e].hash + 1 /\ a.verified = user[e].verified
  <2> DEFINE n == user[e].password + 1
             m == user[e].hash + 1
  <2>1. n \in 0..MaxPasswords /\ m \in 0..MaxPasswords
    BY <1>4
  <2> HIDE DEF n, m
  <2>2. a = [user[e] EXCEPT !.password = n, !.hash = m]
    BY DEF n, m
  <2>3. /\ [user[e] EXCEPT !.password = n, !.hash = m] \in Account
        /\ [user[e] EXCEPT !.password = n, !.hash = m].password = n
        /\ [user[e] EXCEPT !.password = n, !.hash = m].hash = m
        /\ [user[e] EXCEPT !.password = n, !.hash = m].verified = user[e].verified
    BY <1>3, <2>1 DEF Account
  <2> HIDE DEF a
  <2>4. QED
    BY <2>2, <2>3 DEF n, m
<1>6. [user EXCEPT ![e].password = @ + 1, ![e].hash = @ + 1] = [user EXCEPT ![e] = a]
  BY <1>2, <1>3 DEF AllAccounts, Account
<1>7. /\ user' = [user EXCEPT ![e] = a] /\ Set(r, Done(q))
      /\ UNCHANGED <<login, code, mail, session, created, cookie, flow>>
  BY <1>6 DEF WritePassword
<1> HIDE DEF a
<1>8. user' \in AllAccounts /\ Grows(user, user')
  <2>1. /\ a.hash >= user[e].hash /\ a.password >= user[e].password
        /\ a.hash # user[e].hash
    BY <1>4, <1>5
  <2>2. QED
    BY <1>3, <1>5, <1>7, <2>1, ChangeGrows
<1>9. RequestOK(q, user')
  BY <1>8, Untouched
<1>10. Done(q) \in Request /\ RequestOK(Done(q), user')
  BY <1>1, <1>9, Ends DEF RequestOK
<1>11. request' \in [Requests -> Request] /\ RequestsOK' /\ SessionsOK'
  BY <1>7, <1>8, <1>10, SetKeeps, Untouched
<1>12. TypeOK'
  BY <1>7, <1>8, <1>11 DEF IInv, TypeOK, AllAccounts
<1>13. AccountsOK'
  <2>1. /\ user'[e] = a /\ a # None
        /\ \A d \in Emails : d # e => user'[d] = user[d]
    BY <1>2, <1>3, <1>5, <1>7 DEF AllAccounts
  <2>2. a.hash = a.password
    BY <1>4, <1>5
  <2>3. QED
    BY <1>3, <1>5, <1>7, <2>1, <2>2 DEF IInv, AccountsOK
<1>14. QED
  BY <1>8, <1>11, <1>12, <1>13 DEF IInv

LEMMA RespondOK ==
  ASSUME IInv, NEW r \in Requests, Respond(r)
  PROVE  IInv' /\ Grows(user, user')
<1> DEFINE q == request[r]
<1>1. /\ q \in Request /\ RequestOK(q, user)
      /\ q.record \in Record /\ RecordOK(q.record, user)
      /\ q.id \in Ids \cup {None} /\ q.browser \in Browsers
  BY DEF IInv, TypeOK, RequestsOK, RequestOK, Request
<1>2. UNCHANGED <<login, user, code, mail, flow>> /\ Set(r, Idle)
  BY DEF Respond
<1>3. user' \in AllAccounts /\ Grows(user, user')
  BY <1>2, Same DEF IInv, TypeOK, AllAccounts
<1>4. request' \in [Requests -> Request] /\ RequestsOK'
  BY <1>2, <1>3, Idles, SetKeeps
<1>5. created \in 0..MaxSessions /\ cookie \in [Browsers -> Ids \cup {None}]
      /\ session \in [Ids -> Record \cup {None}]
  BY DEF IInv, TypeOK
<1>6. /\ created' \in 0..MaxSessions /\ cookie' \in [Browsers -> Ids \cup {None}]
      /\ session' \in [Ids -> Record \cup {None}] /\ SessionsOK'
  <2>1. CASE /\ cookie' \in {cookie, [cookie EXCEPT ![q.browser] = None]}
             /\ UNCHANGED <<session, created>>
    <3>1. cookie' \in [Browsers -> Ids \cup {None}]
      BY <1>5, <2>1
    <3>2. QED
      BY <1>3, <1>5, <2>1, <3>1, Untouched
  <2>2. CASE /\ Create(q.record)
             /\ cookie' \in {cookie, [cookie EXCEPT ![q.browser] = created']}
    <3>1. /\ created' \in Ids /\ created' \in 0..MaxSessions
          /\ session' = [session EXCEPT ![created'] = q.record]
      BY <1>5, <2>2 DEF Create, Ids
    <3>2. cookie' \in [Browsers -> Ids \cup {None}]
      BY <1>5, <2>2, <3>1
    <3>3. RecordOK(q.record, user')
      BY <1>1, <1>2
    <3>4. QED
      BY <1>1, <1>3, <3>1, <3>2, <3>3, RowKeeps
  <2>3. CASE /\ q.id # None /\ Save(q.id, q.record) /\ UNCHANGED created
             /\ cookie' \in {cookie, [cookie EXCEPT ![q.browser] = q.id]}
    <3>1. cookie' \in [Browsers -> Ids \cup {None}]
      BY <1>1, <1>5, <2>3
    <3>2. RecordOK(q.record, user') /\ q.id \in Ids
      BY <1>1, <1>2, <2>3
    <3>3. CASE session' = session
      BY <1>3, <1>5, <2>3, <3>1, <3>3, Untouched
    <3>4. CASE session' = [session EXCEPT ![q.id] = q.record]
      BY <1>1, <1>3, <1>5, <2>3, <3>1, <3>2, <3>4, RowKeeps
    <3>5. QED
      BY <2>3, <3>3, <3>4 DEF Save
  <2>4. CASE UNCHANGED <<session, created, cookie>>
    BY <1>3, <1>5, <2>4, Untouched
  <2>5. QED
    BY <2>1, <2>2, <2>3, <2>4 DEF Respond
<1>7. TypeOK'
  BY <1>2, <1>4, <1>6 DEF IInv, TypeOK
<1>8. AccountsOK'
  BY <1>2 DEF IInv, AccountsOK
<1>9. QED
  BY <1>3, <1>4, <1>6, <1>7, <1>8 DEF IInv
-----------------------------------------------------------------------------
(* The inductive invariant, and the growth of accounts with every step.    *)
LEMMA NextIInv == IInv /\ [Next]_vars => IInv' /\ Grows(user, user')
<1> SUFFICES ASSUME IInv, [Next]_vars
             PROVE  IInv' /\ Grows(user, user')
  OBVIOUS
<1>1. CASE UNCHANGED vars
  <2>1. Grows(user, user)
    BY Same DEF IInv, TypeOK, AllAccounts
  <2>2. QED
    BY <1>1, <2>1 DEF vars, IInv, TypeOK, AccountsOK, SessionsOK, RequestsOK
<1>2. ASSUME NEW e \in Emails,
             SignUp(e) \/ EnqueueCode(e) \/ ExpireCode(e) \/ VerifyEmail(e)
      PROVE  IInv' /\ Grows(user, user')
  BY <1>2, AccountSteps
<1>3. ASSUME NEW r \in Requests, NEW b \in Browsers, NEW kind \in Kinds,
             NEW f \in Flows \cup {None}, Load(r, b, kind, f)
      PROVE  IInv' /\ Grows(user, user')
  BY <1>3, LoadOK
<1>4. ASSUME NEW r \in Requests, Identify(r) \/ Respond(r) \/ Drop(r)
      PROVE  IInv' /\ Grows(user, user')
  BY <1>4, IdentifyOK, RespondOK, HandlersOK
<1>5. ASSUME NEW r \in Requests, Handle(r)
      PROVE  IInv' /\ Grows(user, user')
  BY <1>5, HandlersOK, RedirectOK, CallbackOK, SignUpVerifiedOK, LogInOK,
     WritePasswordOK DEF Handle
<1>6. QED
  BY <1>1, <1>2, <1>3, <1>4, <1>5 DEF Next

(* Every state has its type, and every copy of a record is true.           *)
THEOREM Inductive == Spec => []IInv
<1>1. Init => IInv
  BY InitIInv
<1>2. IInv /\ [Next]_vars => IInv'
  BY NextIInv
<1>3. QED
  BY <1>1, <1>2, PTL DEF Spec

(* The variables stay in their types (src/gitjobs-server/src/auth.rs,      *)
(* db/auth.rs, handlers/auth.rs).                                          *)
THEOREM TypeCorrect == Spec => []TypeOK
<1>1. IInv => TypeOK
  BY DEF IInv
<1>2. QED
  BY <1>1, Inductive, PTL

(* A session that may still act was opened with the present password.      *)
THEOREM OpenedWithPresentPasswordAlways == Spec => []OpenedWithPresentPassword
<1>1. IInv => OpenedWithPresentPassword
  BY DEF IInv, SessionsOK, RecordOK, Opened, OpenedWithPresentPassword
<1>2. QED
  BY <1>1, Inductive, PTL

(* Nobody is logged in to an account that is not verified.                 *)
THEOREM LoggedInIsVerifiedAlways == Spec => []LoggedInIsVerified
<1>1. IInv => LoggedInIsVerified
  BY DEF IInv, SessionsOK, RecordOK, Opened, LoggedInIsVerified
<1>2. QED
  BY <1>1, Inductive, PTL

(* The accounts that are not verified are those with a code.               *)
THEOREM UnverifiedHaveCodesAlways == Spec => []UnverifiedHaveCodes
<1>1. IInv => UnverifiedHaveCodes
  BY DEF IInv, AccountsOK, UnverifiedHaveCodes
<1>2. QED
  BY <1>1, Inductive, PTL

(* A callback goes on with what the redirect it answers has saved.         *)
THEOREM AnswersOneRedirectAlways == Spec => []AnswersOneRedirect
<1>1. IInv => AnswersOneRedirect
  BY DEF IInv, RequestsOK, RequestOK, AnswersOneRedirect
<1>2. QED
  BY <1>1, Inductive, PTL

(* No earlier password or hash of an account comes back.                   *)
THEOREM NothingRestoredAlways == Spec => NothingRestored
<1> DEFINE Kept == \A e \in Emails : user[e] # None =>
                     /\ user'[e].hash >= user[e].hash
                     /\ user'[e].password >= user[e].password
<1>1. IInv /\ [Next]_vars => [Kept]_vars
  BY NextIInv DEF Grows
<1>2. QED
  BY <1>1, Inductive, PTL DEF Spec, NothingRestored

-----------------------------------------------------------------------------
(* Only ids that were never used get a row: a request may delete a row,    *)
(* write one that is there, or create the next.                            *)
EndsStay == \A i \in Ids : i <= created /\ session[i] = None => session'[i] = None

LEMMA RowGone ==
  ASSUME IInv, NEW i \in Ids, session' = [session EXCEPT ![i] = None]
  PROVE  EndsStay
BY DEF IInv, TypeOK, EndsStay

LEMMA RespondEndsStay ==
  ASSUME IInv, NEW r \in Requests, Respond(r)
  PROVE  EndsStay
<1> DEFINE q == request[r]
<1>1. session \in [Ids -> Record \cup {None}] /\ created \in 0..MaxSessions
  BY DEF IInv, TypeOK
<1>2. CASE UNCHANGED session
  BY <1>2 DEF EndsStay
<1>3. CASE Create(q.record)
  <2>1. /\ created' = created + 1 /\ session' = [session EXCEPT ![created'] = q.record]
    BY <1>3 DEF Create
  <2>2. \A i \in Ids : i <= created => session'[i] = session[i]
    BY <1>1, <2>1 DEF Ids
  <2>3. QED
    BY <2>2 DEF EndsStay
<1>4. CASE Save(q.id, q.record)
  BY <1>1, <1>4 DEF Save, EndsStay
<1>5. QED
  BY <1>2, <1>3, <1>4 DEF Respond

LEMMA StepEndsStay == IInv /\ [Next]_vars => EndsStay
<1> SUFFICES ASSUME IInv, [Next]_vars
             PROVE  EndsStay
  OBVIOUS
<1>1. \A r \in Requests : request[r].id \in Ids \cup {None}
  BY DEF IInv, TypeOK, Request
<1>2. CASE UNCHANGED session
  BY <1>2 DEF EndsStay
<1>3. ASSUME NEW r \in Requests, NEW q, Flush(r, q)
      PROVE  EndsStay
  BY <1>1, <1>2, <1>3, RowGone DEF Flush
<1>4. ASSUME NEW r \in Requests, LogIn(r)
      PROVE  EndsStay
  BY <1>1, <1>2, <1>4, RowGone DEF LogIn
<1>5. ASSUME NEW r \in Requests, Identify(r) \/ LogOut(r)
      PROVE  EndsStay
  BY <1>2, <1>3, <1>5 DEF Identify, LogOut
<1>6. ASSUME NEW r \in Requests, Handle(r)
      PROVE  EndsStay
  BY <1>2, <1>4, <1>5, <1>6 DEF Handle, Select, Redirect, Callback, Lookup,
     SignUpVerified, UpdateDetails, CheckPassword, WritePassword, CheckCredentials
<1>7. ASSUME NEW r \in Requests, NEW b \in Browsers, NEW kind \in Kinds,
             NEW f \in Flows \cup {None}, Load(r, b, kind, f)
      PROVE  UNCHANGED session
  BY <1>7 DEF Load
<1>8. ASSUME NEW r \in Requests, Drop(r)
      PROVE  UNCHANGED session
  BY <1>8 DEF Drop
<1>9. ASSUME NEW e \in Emails,
             SignUp(e) \/ EnqueueCode(e) \/ ExpireCode(e) \/ VerifyEmail(e)
      PROVE  UNCHANGED session
  BY <1>9 DEF SignUp, EnqueueCode, ExpireCode, VerifyEmail
<1>10. CASE UNCHANGED vars
  BY <1>2, <1>10 DEF vars
<1>11. QED
  BY <1>2, <1>5, <1>6, <1>7, <1>8, <1>9, <1>10, RespondEndsStay DEF Next

(* A session that has ended never comes back.                              *)
THEOREM EndedStaysEndedAlways == Spec => EndedStaysEnded
<1>1. IInv /\ [Next]_vars => [EndsStay]_vars
  BY StepEndsStay
<1>2. [][EndsStay]_vars => EndedStaysEnded
  BY PTL DEF EndedStaysEnded, EndsStay
<1>3. QED
  BY <1>1, <1>2, Inductive, PTL DEF Spec

-----------------------------------------------------------------------------
(* The promise of module Logins.  Its invariant says of all copies of a    *)
(* session, also the outdated ones, that either in all of them somebody is *)
(* logged in or in none (HeldOK): who is logged in may differ.             *)
Copy(R) == R.email = None <=> R.hash = 0

HeldOK(q) ==
  /\ Copy(q.record)
  /\ q.id # None => q.id <= created
  /\ q.id # None /\ session[q.id] # None =>
       (q.record.email = None <=> session[q.id].email = None)
  /\ q.as # None => Verified(q.as)
  /\ q.step = "log_in" => q.row.hash # 0

(* An account has its first hash until it is verified.                     *)
FirstHash ==
  \A e \in Emails : user[e] # None =>
    user[e].hash # 0 /\ (user[e].verified \/ user[e].hash = 1)

RowsOK == \A i \in Ids : session[i] # None => i <= created /\ Copy(session[i])

CopiesOK == \A r \in Requests : HeldOK(request[r])

LInv == IInv /\ FirstHash /\ RowsOK /\ CopiesOK

(* What a step may do to the sessions that there are.                      *)
Onward ==
  /\ created <= created'
  /\ \A i \in Ids : i <= created /\ session'[i] # None =>
       session[i] # None /\ (session'[i].email = None <=> session[i].email = None)

(* The steps by what they do to sessions,                                  *)
Deletes == \E i \in Ids : session' = [session EXCEPT ![i] = None]
Creates == \E r \in Requests : Create(request[r].record)
Saves == \E r \in Requests : request[r].id # None /\ Save(request[r].id, request[r].record)

LEMMA SessionSteps ==
  ASSUME IInv, [Next]_vars
  PROVE  \/ UNCHANGED <<session, created>>
         \/ UNCHANGED user /\ UNCHANGED created /\ Deletes
         \/ UNCHANGED user /\ Creates
         \/ UNCHANGED user /\ UNCHANGED created /\ Saves
<1> DEFINE Goal == \/ UNCHANGED <<session, created>>
                   \/ UNCHANGED user /\ UNCHANGED created /\ Deletes
                   \/ UNCHANGED user /\ Creates
                   \/ UNCHANGED user /\ UNCHANGED created /\ Saves
<1>1. \A r \in Requests : request[r].id \in Ids \cup {None}
  BY DEF IInv, TypeOK, Request
<1>2. CASE UNCHANGED <<session, created>>
  BY <1>2
<1>3. ASSUME NEW r \in Requests, NEW q, Flush(r, q), UNCHANGED <<user, created>>
      PROVE  Goal
  BY <1>1, <1>2, <1>3 DEF Flush, Deletes
<1>4. ASSUME NEW r \in Requests, LogIn(r)
      PROVE  Goal
  BY <1>1, <1>2, <1>4 DEF LogIn, Deletes
<1>5. ASSUME NEW r \in Requests, Identify(r) \/ LogOut(r)
      PROVE  Goal
  BY <1>2, <1>3, <1>5 DEF Identify, LogOut
<1>6. ASSUME NEW r \in Requests, Handle(r)
      PROVE  Goal
  BY <1>2, <1>4, <1>5, <1>6 DEF Handle, Select, Redirect, Callback, Lookup,
     SignUpVerified, UpdateDetails, CheckPassword, WritePassword, CheckCredentials
<1>7. ASSUME NEW r \in Requests, Respond(r)
      PROVE  Goal
  BY <1>2, <1>7 DEF Respond, Creates, Saves
<1>8. ASSUME NEW r \in Requests, NEW b \in Browsers, NEW kind \in Kinds,
             NEW f \in Flows \cup {None}, Load(r, b, kind, f)
      PROVE  UNCHANGED <<session, created>>
  BY <1>8 DEF Load
<1>9. ASSUME NEW r \in Requests, Drop(r)
      PROVE  UNCHANGED <<session, created>>
  BY <1>9 DEF Drop
<1>10. ASSUME NEW e \in Emails,
              SignUp(e) \/ EnqueueCode(e) \/ ExpireCode(e) \/ VerifyEmail(e)
       PROVE  UNCHANGED <<session, created>>
  BY <1>10 DEF SignUp, EnqueueCode, ExpireCode, VerifyEmail
<1>11. CASE UNCHANGED vars
  BY <1>2, <1>11 DEF vars
<1>12. QED
  BY <1>2, <1>5, <1>6, <1>7, <1>8, <1>9, <1>10, <1>11 DEF Next

(* and by what they do to accounts.                                        *)
Inserts(e) == \E verified \in BOOLEAN : \E p \in {0, 1} : Insert(e, verified, p)
Verifies(e) == code[e] = "valid" /\ user' = [user EXCEPT ![e].verified = TRUE]
Changes(e) ==
  /\ Verified(e)
  /\ user' = [user EXCEPT ![e].password = @ + 1, ![e].hash = @ + 1]

LEMMA AccountChanges ==
  ASSUME LInv, [Next]_vars
  PROVE  \/ UNCHANGED user
         \/ \E e \in Emails : Inserts(e) \/ Verifies(e) \/ Changes(e)
<1> DEFINE Goal == \/ UNCHANGED user
                   \/ \E e \in Emails : Inserts(e) \/ Verifies(e) \/ Changes(e)
<1>1. ASSUME NEW e \in Emails,
             SignUp(e) \/ EnqueueCode(e) \/ ExpireCode(e) \/ VerifyEmail(e)
      PROVE  Goal
  BY <1>1 DEF SignUp, EnqueueCode, ExpireCode, VerifyEmail, Inserts, Verifies
<1>2. ASSUME NEW r \in Requests, SignUpVerified(r)
      PROVE  Goal
  <2>1. request[r].email \in Emails
    BY <1>2 DEF LInv, IInv, RequestsOK, RequestOK, SignUpVerified
  <2>2. QED
    BY <1>2, <2>1 DEF SignUpVerified, Inserts
<1>3. ASSUME NEW r \in Requests, WritePassword(r)
      PROVE  Goal
  <2>1. request[r].as \in Emails /\ Verified(request[r].as)
    <3>1. request[r].as # None
      BY <1>3 DEF LInv, IInv, RequestsOK, RequestOK, WritePassword
    <3>2. request[r].as \in Emails \cup {None}
      BY DEF LInv, IInv, TypeOK, Request
    <3>3. QED
      BY <3>1, <3>2 DEF LInv, CopiesOK, HeldOK
  <2>2. QED
    BY <1>3, <2>1 DEF WritePassword, Changes
<1>4. ASSUME NEW r \in Requests, Handle(r)
      PROVE  Goal
  BY <1>2, <1>3, <1>4 DEF Handle, Select, LogOut, Redirect, Callback, Lookup, LogIn,
     UpdateDetails, CheckPassword, CheckCredentials
<1>5. ASSUME NEW r \in Requests, Identify(r) \/ Respond(r) \/ Drop(r)
      PROVE  UNCHANGED user
  BY <1>5 DEF Identify, Respond, Drop
<1>6. ASSUME NEW r \in Requests, NEW b \in Browsers, NEW kind \in Kinds,
             NEW f \in Flows \cup {None}, Load(r, b, kind, f)
      PROVE  UNCHANGED user
  BY <1>6 DEF Load
<1>7. CASE UNCHANGED vars
  BY <1>7 DEF vars
<1>8. QED
  BY <1>1, <1>4, <1>5, <1>6, <1>7 DEF Next

LEMMA FirstHashStep ==
  ASSUME LInv, [Next]_vars
  PROVE  FirstHash'
<1>1. user \in AllAccounts
  BY DEF LInv, IInv, TypeOK, AllAccounts
<1>2. CASE UNCHANGED user
  BY <1>2 DEF LInv, FirstHash
<1>3. ASSUME NEW e \in Emails, Inserts(e)
      PROVE  FirstHash'
  <2>1. PICK verified \in BOOLEAN, p \in {0, 1} : Insert(e, verified, p)
    BY <1>3 DEF Inserts
  <2>2. \A d \in Emails : d # e => user'[d] = user[d]
    BY <1>1, <2>1 DEF Insert, AllAccounts
  <2>3. user'[e].hash = 1
    <3>1. user'[e] = [verified |-> verified, password |-> p, hash |-> 1]
      BY <2>1, InsertGrows DEF LInv
    <3>2. QED
      BY <3>1
  <2>4. QED
    BY <2>2, <2>3 DEF LInv, FirstHash
<1>4. ASSUME NEW e \in Emails, Verifies(e)
      PROVE  FirstHash'
  <2>1. user[e] # None /\ user[e] \in Account
    BY <1>1, <1>4 DEF Verifies, LInv, IInv, AccountsOK, AllAccounts
  <2>2. \A d \in Emails : d # e => user'[d] = user[d]
    BY <1>1, <1>4 DEF Verifies, AllAccounts
  <2>3. user'[e].hash = user[e].hash /\ user'[e].verified
    BY <1>1, <1>4, <2>1 DEF Verifies, AllAccounts, Account
  <2>4. QED
    BY <2>1, <2>2, <2>3 DEF LInv, FirstHash
<1>5. ASSUME NEW e \in Emails, Changes(e)
      PROVE  FirstHash'
  <2>1. user[e] # None /\ user[e] \in Account /\ user[e].verified
    BY <1>1, <1>5 DEF Changes, Verified, AllAccounts
  <2>2. \A d \in Emails : d # e => user'[d] = user[d]
    BY <1>1, <1>5 DEF Changes, AllAccounts
  <2>3. user'[e].hash = user[e].hash + 1 /\ user'[e].verified
    BY <1>1, <1>5, <2>1 DEF Changes, AllAccounts, Account
  <2>4. user'[e].hash # 0
    BY <2>1, <2>3 DEF Account
  <2>5. QED
    BY <2>2, <2>3, <2>4 DEF LInv, FirstHash
<1>6. QED
  BY <1>2, <1>3, <1>4, <1>5, AccountChanges

LEMMA RowsStep ==
  ASSUME LInv, [Next]_vars
  PROVE  Onward /\ RowsOK'
<1>1. session \in [Ids -> Record \cup {None}] /\ created \in 0..MaxSessions
  BY DEF LInv, IInv, TypeOK
<1>2. CASE UNCHANGED <<session, created>>
  BY <1>1, <1>2 DEF LInv, RowsOK, Onward
<1>3. CASE UNCHANGED created /\ Deletes
  BY <1>1, <1>3 DEF LInv, RowsOK, Onward, Deletes
<1>4. CASE Creates
  <2>1. PICK r \in Requests : Create(request[r].record)
    BY <1>4 DEF Creates
  <2> DEFINE R == request[r].record
  <2>2. /\ created' = created + 1 /\ created' \in Ids
        /\ session' = [session EXCEPT ![created'] = R]
    BY <1>1, <2>1 DEF Create, Ids
  <2>3. Copy(R)
    BY DEF LInv, CopiesOK, HeldOK
  <2> HIDE DEF R
  <2>4. session'[created'] = R /\ \A i \in Ids : i # created' => session'[i] = session[i]
    BY <1>1, <2>2
  <2>5. \A i \in Ids : i <= created => i # created'
    BY <1>1, <2>2 DEF Ids
  <2>6. Onward
    BY <1>1, <2>2, <2>4, <2>5 DEF Onward, LInv, RowsOK
  <2>7. RowsOK'
    BY <1>1, <2>2, <2>3, <2>4 DEF LInv, RowsOK, Ids
  <2>8. QED
    BY <2>6, <2>7
<1>5. CASE UNCHANGED created /\ Saves
  <2>1. PICK r \in Requests : request[r].id # None /\ Save(request[r].id, request[r].record)
    BY <1>5 DEF Saves
  <2> DEFINE R == request[r].record
             i == request[r].id
  <2>2. i \in Ids
    BY <2>1 DEF LInv, IInv, TypeOK, Request
  <2>3. CASE session' = session
    BY <1>2, <1>5, <2>3
  <2>4. CASE session[i] # None /\ session' = [session EXCEPT ![i] = R]
    <3>1. Copy(R) /\ i <= created /\ (R.email = None <=> session[i].email = None)
      BY <2>1, <2>4 DEF LInv, CopiesOK, HeldOK
    <3> HIDE DEF R, i
    <3>2. session'[i] = R /\ \A k \in Ids : k # i => session'[k] = session[k]
      BY <1>1, <2>2, <2>4
    <3>3. QED
      BY <1>1, <1>5, <2>4, <3>1, <3>2 DEF LInv, RowsOK, Onward
  <2>5. QED
    BY <2>1, <2>3, <2>4 DEF Save
<1>6. QED
  BY <1>2, <1>3, <1>4, <1>5, SessionSteps DEF LInv

-----------------------------------------------------------------------------
(* What a request goes on with is as true of the state before its step.    *)
LEMMA DoneHeld ==
  ASSUME NEW q,
         /\ Copy(q.record)
         /\ q.id # None => q.id <= created
         /\ q.id # None /\ session[q.id] # None =>
              (q.record.email = None <=> session[q.id].email = None)
  PROVE  HeldOK(Done(q))
<1>1. /\ Done(q).record = q.record /\ Done(q).id = q.id
      /\ Done(q).step = "respond" /\ Done(q).as = None
  BY DEF Done, Idle
<1>2. QED
  BY <1>1 DEF HeldOK

LEMMA EmptyHeld ==
  ASSUME NEW q, q.id = None, q.record = EmptyRecord, q.as # None => Verified(q.as),
         q.step = "log_in" => q.row.hash # 0
  PROVE  HeldOK(q)
BY DEF HeldOK, Copy, EmptyRecord

LEMMA IdleHeld == HeldOK(Idle)
<1>1. /\ Idle.id = None /\ Idle.record = EmptyRecord /\ Idle.as = None
      /\ Idle.step = "idle"
  BY DEF Idle
<1>2. QED
  BY <1>1, EmptyHeld

LEMMA LoadHeld ==
  ASSUME LInv, NEW r \in Requests, NEW b \in Browsers, NEW kind \in Kinds,
         NEW f \in Flows \cup {None}, Load(r, b, kind, f)
  PROVE  \E q : Set(r, q) /\ HeldOK(q)
<1> DEFINE found == cookie[b] # None /\ session[cookie[b]] # None
           i == IF found THEN cookie[b] ELSE None
           R == IF found THEN session[cookie[b]] ELSE EmptyRecord
           q == [Idle EXCEPT !.kind = kind, !.step = "identify", !.browser = b,
                             !.flow = f, !.id = i, !.record = R]
<1>1. Set(r, q)
  BY DEF Load
<1>2. q.id = i /\ q.record = R /\ q.as = None /\ q.step = "identify"
  BY DEF Idle
<1>3. HeldOK(q)
  <2>1. CASE found
    <3>1. cookie[b] \in Ids
      BY <2>1 DEF LInv, IInv, TypeOK
    <3>2. i = cookie[b] /\ R = session[i] /\ i <= created /\ Copy(R)
      BY <2>1, <3>1 DEF LInv, RowsOK
    <3> HIDE DEF q, i, R
    <3>3. QED
      BY <1>2, <3>2 DEF HeldOK
  <2>2. CASE ~found
    <3>1. i = None /\ R = EmptyRecord
      BY <2>2
    <3> HIDE DEF q, i, R
    <3>2. QED
      BY <1>2, <3>1, EmptyHeld
  <2>3. QED
    BY <2>1, <2>2
<1>4. QED
  BY <1>1, <1>3

LEMMA FlushHeld ==
  ASSUME NEW r \in Requests, NEW q \in Request, HeldOK(q), Flush(r, q)
  PROVE  \E p : Set(r, p) /\ HeldOK(p)
<1> DEFINE p == [q EXCEPT !.id = None, !.record = EmptyRecord]
<1>1. /\ p.id = None /\ p.record = EmptyRecord /\ p.as = q.as /\ p.step = q.step
      /\ p.row = q.row
  BY DEF Request
<1>2. Set(r, p)
  BY DEF Flush
<1> HIDE DEF p
<1>3. HeldOK(p)
  BY <1>1, EmptyHeld DEF HeldOK
<1>4. QED
  BY <1>2, <1>3

LEMMA IdentifyHeld ==
  ASSUME LInv, NEW r \in Requests, Identify(r)
  PROVE  \E q : Set(r, q) /\ HeldOK(q)
<1> DEFINE q == [request[r] EXCEPT !.step = "handle"]
           e == q.record.email
           p == [q EXCEPT !.as = e, !.email = e, !.row = user[e]]
<1>1. request[r] \in Request /\ HeldOK(request[r])
  BY DEF LInv, IInv, TypeOK, CopiesOK
<1>2. /\ q \in Request /\ q.record = request[r].record /\ q.step = "handle"
      /\ q.id = request[r].id /\ q.as = request[r].as
  BY <1>1 DEF Request, Steps
<1>3. HeldOK(q)
  BY <1>1, <1>2 DEF HeldOK
<1>4. \/ Set(r, q)
      \/ e # None /\ Verified(e) /\ Set(r, p)
      \/ Flush(r, q)
  BY DEF Identify
<1>5. CASE e # None /\ Verified(e) /\ Set(r, p)
  <2> HIDE DEF e
  <2>1. p.record = q.record /\ p.step = q.step /\ p.id = q.id /\ p.as = e
    BY <1>2 DEF Request
  <2>2. HeldOK(p)
    BY <1>2, <1>3, <1>5, <2>1 DEF HeldOK
  <2>3. QED
    BY <1>5, <2>2
<1>6. QED
  BY <1>2, <1>3, <1>4, <1>5, FlushHeld

LEMMA RedirectHeld ==
  ASSUME LInv, NEW r \in Requests, Redirect(r)
  PROVE  \E q : Set(r, q) /\ HeldOK(q)
<1> DEFINE q == request[r]
           f == q.flow
           n == IF f \in OidcFlows THEN f ELSE q.record.nonce
           R == [q.record EXCEPT !.csrf = f, !.nonce = n, !.next = f]
           p == [q EXCEPT !.changed = TRUE, !.record = R]
<1>1. q \in Request /\ q.record \in Record /\ HeldOK(q)
  BY DEF LInv, IInv, TypeOK, Request, CopiesOK
<1>2. [q EXCEPT !.changed = TRUE, !.record.csrf = f,
                !.record.nonce = IF f \in OidcFlows THEN f ELSE @, !.record.next = f] = p
  BY <1>1 DEF Request, Record
<1>3. Set(r, Done(p))
  BY <1>2 DEF Redirect
<1>4. R.email = q.record.email /\ R.hash = q.record.hash
  BY <1>1 DEF Record
<1> HIDE DEF R
<1>5. p.record = R /\ p.id = q.id
  BY <1>1 DEF Request
<1> HIDE DEF p
<1>6. HeldOK(Done(p))
  BY <1>1, <1>4, <1>5, DoneHeld DEF HeldOK, Copy
<1>7. QED
  BY <1>3, <1>6

LEMMA CallbackHeld ==
  ASSUME LInv, NEW r \in Requests, Callback(r)
  PROVE  \E q : Set(r, q) /\ HeldOK(q)
<1> DEFINE Of(R) == /\ R \in Record /\ R.email = request[r].record.email
                    /\ R.hash = request[r].record.hash
           Goes(q) == q \in Request /\ q.id = request[r].id /\ Of(q.record)
                      /\ q.as = request[r].as
           f == request[r].flow
           q0 == [request[r] EXCEPT !.changed = request[r].record.csrf # None,
                                    !.record.csrf = None]
           taken0 == [q0 EXCEPT !.record.nonce = IF f \in OidcFlows THEN None ELSE @,
                                !.record.next = None,
                                !.nonce = q0.record.nonce, !.next = q0.record.next]
<1>1. request[r] \in Request /\ request[r].record \in Record /\ HeldOK(request[r])
  BY DEF LInv, IInv, TypeOK, Request, CopiesOK
<1>2. Goes(q0)
  <2> DEFINE R == [request[r].record EXCEPT !.csrf = None]
             c == request[r].record.csrf # None
  <2>1. q0 = [request[r] EXCEPT !.changed = c, !.record = R]
    BY <1>1 DEF Request, Record
  <2>2. Of(R) /\ c \in BOOLEAN
    BY <1>1 DEF Record
  <2> HIDE DEF q0, R, c
  <2>3. Goes([request[r] EXCEPT !.changed = c, !.record = R])
    BY <1>1, <2>2 DEF Request
  <2>4. QED
    BY <2>1, <2>3
<1> HIDE DEF q0
<1>3. Goes(taken0)
  <2> DEFINE n == IF f \in OidcFlows THEN None ELSE q0.record.nonce
             R == [q0.record EXCEPT !.nonce = n, !.next = None]
             a == q0.record.nonce
             b == q0.record.next
  <2>1. taken0 = [q0 EXCEPT !.record = R, !.nonce = a, !.next = b]
    BY <1>2 DEF Request, Record
  <2>2. Of(R) /\ a \in Flows \cup {None} /\ b \in Flows \cup {None}
    BY <1>2 DEF Record
  <2> HIDE DEF taken0, R, a, b
  <2>3. Goes([q0 EXCEPT !.record = R, !.nonce = a, !.next = b])
    BY <1>2, <2>2 DEF Request
  <2>4. QED
    BY <2>1, <2>3
<1>4. \/ Set(r, Done(q0))
      \/ \E e \in Emails : Set(r, [taken0 EXCEPT !.step = "lookup", !.email = e])
      \/ Set(r, Done(taken0))
  BY Zenon DEF Callback, q0
<1> HIDE DEF taken0, f
<1>5. ASSUME NEW q, Goes(q)
      PROVE  HeldOK(Done(q))
  BY <1>1, <1>5, DoneHeld DEF HeldOK, Copy
<1>6. ASSUME NEW e \in Emails, Set(r, [taken0 EXCEPT !.step = "lookup", !.email = e])
      PROVE  \E q : Set(r, q) /\ HeldOK(q)
  <2> DEFINE p == [taken0 EXCEPT !.step = "lookup", !.email = e]
  <2>1. /\ p.record = taken0.record /\ p.id = taken0.id /\ p.as = taken0.as
        /\ p.step = "lookup"
    BY <1>3 DEF Request
  <2> HIDE DEF p
  <2>2. HeldOK(p)
    BY <1>1, <1>3, <2>1 DEF HeldOK, Copy
  <2>3. QED
    BY <1>6, <2>2 DEF p
<1>7. QED
  BY <1>2, <1>3, <1>4, <1>5, <1>6

LEMMA LogInHeld ==
  ASSUME LInv, NEW r \in Requests, LogIn(r)
  PROVE  \E q : Set(r, q) /\ HeldOK(q)
<1> DEFINE q == request[r]
           i == IF q.record.hash = 0 THEN None ELSE q.id
           R == [q.record EXCEPT !.email = q.email, !.hash = q.row.hash,
                                 !.opened = q.row.password]
           p == [q EXCEPT !.changed = TRUE, !.id = i, !.record = R]
<1>1. /\ q \in Request /\ q.record \in Record /\ HeldOK(q) /\ q.email \in Emails
      /\ q.step = "log_in"
  BY DEF LInv, IInv, TypeOK, Request, CopiesOK, RequestsOK, RequestOK, LogIn
<1>2. [q EXCEPT !.changed = TRUE, !.id = IF q.record.hash = 0 THEN None ELSE @,
                !.record.email = q.email, !.record.hash = q.row.hash,
                !.record.opened = q.row.password] = p
  BY <1>1 DEF Request, Record
<1>3. Set(r, Done(p))
  BY <1>2 DEF LogIn
<1>4. R.email = q.email /\ R.hash = q.row.hash
  BY <1>1 DEF Record
<1> HIDE DEF R
<1>5. p.record = R /\ p.id = i
  BY <1>1 DEF Request
<1> HIDE DEF p
<1>6. R.email # None /\ R.hash # 0
  BY <1>1, <1>4 DEF HeldOK
<1>7. i # None => q.record.email # None /\ i = q.id
  BY <1>1 DEF HeldOK, Copy
<1>8. HeldOK(Done(p))
  BY <1>1, <1>5, <1>6, <1>7, DoneHeld DEF HeldOK, Copy
<1>9. QED
  BY <1>3, <1>8

LEMMA HandlersHeld ==
  ASSUME LInv, NEW r \in Requests, Handle(r)
  PROVE  \E q : Set(r, q) /\ HeldOK(q)
<1> DEFINE q == request[r]
           Goal == \E p : Set(r, p) /\ HeldOK(p)
<1>1. q \in Request /\ HeldOK(q) /\ RequestOK(q, user)
  BY DEF LInv, IInv, TypeOK, CopiesOK, RequestsOK
<1>2. ASSUME Set(r, Done(q))
      PROVE  Goal
  BY <1>1, <1>2, DoneHeld DEF HeldOK
<1>3. ASSUME NEW e, e \in Emails, Verified(e),
             Set(r, [q EXCEPT !.step = "log_in", !.email = e, !.row = user[e]])
      PROVE  Goal
  <2> DEFINE p == [q EXCEPT !.step = "log_in", !.email = e, !.row = user[e]]
  <2>1. p.record = q.record /\ p.id = q.id /\ p.as = q.as /\ p.row = user[e]
    BY <1>1 DEF Request
  <2>2. user[e].hash # 0
    BY <1>3 DEF Verified, LInv, FirstHash
  <2> HIDE DEF p
  <2>3. HeldOK(p)
    BY <1>1, <2>1, <2>2 DEF HeldOK
  <2>4. QED
    BY <1>3, <2>3 DEF p
<1>4. ASSUME NEW step \in {"sign_up", "write"}, Set(r, [q EXCEPT !.step = step])
      PROVE  Goal
  <2> DEFINE p == [q EXCEPT !.step = step]
  <2>1. p.record = q.record /\ p.id = q.id /\ p.as = q.as /\ p.step # "log_in"
    BY <1>1 DEF Request
  <2> HIDE DEF p
  <2>2. HeldOK(p)
    BY <1>1, <2>1 DEF HeldOK
  <2>3. QED
    BY <1>4, <2>2 DEF p
<1>5. CASE Select(r)
  <2> DEFINE p == [q EXCEPT !.changed = q.as # None]
  <2>1. p.record = q.record /\ p.id = q.id /\ Set(r, Done(p))
    BY <1>1, <1>5 DEF Request, Select
  <2> HIDE DEF p
  <2>2. HeldOK(Done(p))
    BY <1>1, <2>1, DoneHeld DEF HeldOK
  <2>3. QED
    BY <2>1, <2>2
<1>6. CASE LogOut(r)
  <2>1. Flush(r, Done(q)) /\ HeldOK(Done(q))
    BY <1>1, <1>6, DoneHeld DEF LogOut, HeldOK
  <2>2. Done(q) \in Request
    BY <1>1, Ends DEF RequestOK
  <2>3. QED
    BY <2>1, <2>2, FlushHeld
<1>7. CASE Lookup(r)
  <2>1. q.email \in Emails /\ q.step = "lookup"
    BY <1>1, <1>7 DEF Lookup, RequestOK
  <2>2. CASE Verified(q.email)
    <3>1. Set(r, [q EXCEPT !.step = "log_in", !.row = user[q.email]])
      BY <1>7, <2>2 DEF Lookup
    <3>2. [q EXCEPT !.step = "log_in", !.row = user[q.email]] =
          [q EXCEPT !.step = "log_in", !.email = q.email, !.row = user[q.email]]
      BY <1>1 DEF Request
    <3>3. QED
      BY <1>3, <2>1, <2>2, <3>1, <3>2
  <2>3. CASE ~Verified(q.email)
    BY <1>4, <1>7, <2>3 DEF Lookup
  <2>4. QED
    BY <2>2, <2>3
<1>8. CASE SignUpVerified(r)
  <2>1. CASE Set(r, Done(q))
    BY <1>2, <2>1
  <2>2. CASE /\ Insert(q.email, TRUE, 0)
             /\ Set(r, [q EXCEPT !.step = "log_in", !.row = user'[q.email]])
    <3> DEFINE a == user'[q.email]
               p == [q EXCEPT !.step = "log_in", !.row = a]
    <3>1. a.hash = 1
      <4>1. q.email \in Emails
        BY <1>1, <1>8 DEF SignUpVerified, RequestOK
      <4>2. a = [verified |-> TRUE, password |-> 0, hash |-> 1]
        BY <2>2, <4>1, InsertGrows DEF LInv
      <4>3. QED
        BY <4>2
    <3> HIDE DEF a
    <3>2. p.record = q.record /\ p.id = q.id /\ p.as = q.as /\ p.row = a
      BY <1>1 DEF Request
    <3>3. Set(r, p)
      BY <2>2 DEF a
    <3> HIDE DEF p
    <3>4. HeldOK(p)
      BY <1>1, <3>1, <3>2 DEF HeldOK
    <3>5. QED
      BY <3>3, <3>4
  <2>3. QED
    BY <1>8, <2>1, <2>2 DEF SignUpVerified
<1>9. CASE UpdateDetails(r) \/ WritePassword(r)
  BY <1>2, <1>9 DEF UpdateDetails, WritePassword
<1>10. CASE CheckPassword(r)
  BY <1>2, <1>4, <1>10 DEF CheckPassword
<1>11. ASSUME NEW e \in Emails, CheckCredentials(r, e)
       PROVE  Goal
  BY <1>2, <1>3, <1>11 DEF CheckCredentials
<1>12. QED
  BY <1>5, <1>6, <1>7, <1>8, <1>9, <1>10, <1>11, RedirectHeld, CallbackHeld, LogInHeld
     DEF Handle

LEMMA CopiesStep ==
  ASSUME LInv, [Next]_vars
  PROVE  CopiesOK'
<1>1. IInv' /\ Grows(user, user')
  BY NextIInv DEF LInv
<1>2. Onward
  BY RowsStep
<1>3. \A r \in Requests : HeldOK(request[r])
  BY DEF LInv, CopiesOK
<1>4. ASSUME NEW q \in Request, HeldOK(q)
      PROVE  HeldOK(q)'
  <2>1. q.id \in Ids \cup {None} /\ q.as \in Emails \cup {None}
    BY DEF Request
  <2>2. q.id # None => q.id <= created'
    <3>1. Ids \subseteq Nat /\ created \in Nat /\ created' \in Nat
      BY <1>1 DEF Ids, LInv, IInv, TypeOK
    <3>2. created <= created' /\ (q.id # None => q.id <= created)
      BY <1>2, <1>4 DEF HeldOK, Onward
    <3>3. q.id # None => q.id \in Nat
      BY <2>1, <3>1
    <3>4. QED
      BY <3>1, <3>2, <3>3
  <2>3. q.id # None /\ session'[q.id] # None =>
          (q.record.email = None <=> session'[q.id].email = None)
    BY <1>2, <2>1, <1>4 DEF HeldOK, Onward
  <2>4. q.as # None => Verified(q.as)'
    BY <1>1, <2>1, <1>4 DEF HeldOK, Verified, Grows
  <2>5. QED
    BY <1>4, <2>2, <2>3, <2>4 DEF HeldOK
<1>5. request \in [Requests -> Request] /\ request' \in [Requests -> Request]
  BY <1>1 DEF LInv, IInv, TypeOK
<1>6. \A r \in Requests : HeldOK(request'[r])
  <2>1. CASE UNCHANGED request
    BY <1>3, <2>1
  <2>2. ASSUME NEW r \in Requests, NEW q, Set(r, q), HeldOK(q)
        PROVE  \A p \in Requests : HeldOK(request'[p])
    <3>1. \A p \in Requests : request'[p] = q \/ request'[p] = request[p]
      BY <1>5, <2>2 DEF Set
    <3>2. QED
      BY <1>3, <2>2, <3>1
  <2>3. ASSUME NEW e \in Emails,
               SignUp(e) \/ EnqueueCode(e) \/ ExpireCode(e) \/ VerifyEmail(e)
        PROVE  UNCHANGED request
    BY <2>3 DEF SignUp, EnqueueCode, ExpireCode, VerifyEmail
  <2>4. ASSUME NEW r \in Requests, NEW b \in Browsers, NEW kind \in Kinds,
               NEW f \in Flows \cup {None}, Load(r, b, kind, f)
        PROVE  \E q : Set(r, q) /\ HeldOK(q)
    BY <2>4, LoadHeld
  <2>5. ASSUME NEW r \in Requests, Respond(r) \/ Drop(r)
        PROVE  \E q : Set(r, q) /\ HeldOK(q)
    BY <2>5, IdleHeld DEF Respond, Drop
  <2>6. ASSUME NEW r \in Requests, Identify(r) \/ Handle(r)
        PROVE  \E q : Set(r, q) /\ HeldOK(q)
    BY <2>6, IdentifyHeld, HandlersHeld
  <2>7. CASE UNCHANGED vars
    BY <2>1, <2>7 DEF vars
  <2>8. QED
    BY <2>1, <2>2, <2>3, <2>4, <2>5, <2>6, <2>7 DEF Next
<1>7. QED
  BY <1>4, <1>5, <1>6 DEF CopiesOK

LEMMA InitLInv == Init => LInv
<1> SUFFICES ASSUME Init
             PROVE  LInv
  OBVIOUS
<1>1. IInv
  BY InitIInv
<1>2. FirstHash /\ RowsOK
  BY DEF Init, FirstHash, RowsOK
<1>3. CopiesOK
  BY IdleHeld DEF Init, CopiesOK
<1>4. QED
  BY <1>1, <1>2, <1>3 DEF LInv

(* Of all copies of a session, either all are logged in or none is.        *)
THEOREM CopiesAgree == Spec => []LInv
<1>1. Init => LInv
  BY InitLInv
<1>2. LInv /\ [Next]_vars => LInv'
  BY NextIInv, FirstHashStep, RowsStep, CopiesStep DEF LInv
<1>3. QED
  BY <1>1, <1>2, PTL DEF Spec

(* Nobody is ever logged in to a session that was opened before.           *)
THEOREM IdsChangeAtLogInAlways == Spec => IdsChangeAtLogIn
<1> DEFINE Keeps == \A i \in Ids : session[i] # None /\ session'[i] # None =>
                      (session[i].email = None <=> session'[i].email = None)
<1>1. LInv /\ [Next]_vars => [Keeps]_vars
  <2> SUFFICES ASSUME LInv, [Next]_vars
               PROVE  Keeps
    OBVIOUS
  <2>1. Onward /\ RowsOK
    BY RowsStep DEF LInv
  <2>2. QED
    BY <2>1 DEF Onward, RowsOK
<1>2. QED
  BY <1>1, CopiesAgree, PTL DEF Spec, IdsChangeAtLogIn

-----------------------------------------------------------------------------
(* The refinement.                                                         *)
LEMMA VersionsKnown ==
  ASSUME LInv, NEW R \in Record, RecordOK(R, user), Copy(R), R.email # None
  PROVE  R.email \in Emails /\ R.hash \in 1..Present(R.email)
<1>1. R.email \in Emails /\ R.hash \in 0..MaxPasswords /\ R.hash # 0
  BY DEF Record, Copy
<1>2. Opened(R.email, R.hash, R.opened, user)
  BY DEF RecordOK
<1>3. user[R.email] \in Account
  BY <1>1, <1>2 DEF LInv, IInv, TypeOK, Opened
<1>4. user[R.email].hash \in 0..MaxPasswords
  BY <1>3 DEF Account
<1>5. QED
  BY <1>1, <1>2, <1>4 DEF Opened, Present, Verified

LEMMA InitPromise == Init => Promise!Init
<1> SUFFICES ASSUME Init
             PROVE  Promise!Init
  OBVIOUS
<1>1. \A e \in Emails : Present(e) = 0
  BY DEF Init, Present, Verified
<1>2. \A i \in Ids : Holds(i) = <<"unused">>
  BY DEF Init, Holds, Ids
<1>3. QED
  BY <1>1, <1>2 DEF Promise!Init, Promise!Unused

(* What the steps are to one who sees only what sessions are good for.     *)
LEMMA AccountsPromise ==
  ASSUME LInv, [Next]_vars, UNCHANGED <<session, created>>
  PROVE  Promise!Next \/ UNCHANGED Promise!vars
<1> DEFINE P == [e \in Emails |-> Present(e)]
           H == [i \in Ids |-> Holds(i)]
<1>1. H' = H
  <2>1. \A i \in Ids : Holds(i)' = Holds(i)
    BY DEF Holds
  <2>2. QED
    BY <2>1
<1>2. user \in AllAccounts
  BY DEF LInv, IInv, TypeOK, AllAccounts
<1>3. CASE UNCHANGED user
  <2>1. \A e \in Emails : Present(e)' = Present(e)
    BY <1>3 DEF Present, Verified
  <2>2. P' = P
    BY <2>1
  <2>3. QED
    BY <1>1, <2>2 DEF Promise!vars
<1>4. ASSUME NEW e \in Emails, NEW n, Present(e)' = n,
             \A d \in Emails : d # e => user'[d] = user[d]
      PROVE  P' = [P EXCEPT ![e] = n]
  <2>1. \A d \in Emails : d # e => Present(d)' = Present(d)
    BY <1>4 DEF Present, Verified
  <2>2. \A d \in Emails : P'[d] = IF d = e THEN n ELSE P[d]
    BY <1>4, <2>1
  <2>3. QED
    BY <2>2
<1>5. ASSUME NEW e \in Emails, Inserts(e)
      PROVE  Promise!Next \/ UNCHANGED Promise!vars
  <2>1. PICK verified \in BOOLEAN, p \in {0, 1} : Insert(e, verified, p)
    BY <1>5 DEF Inserts
  <2>2. /\ \A d \in Emails : d # e => user'[d] = user[d]
        /\ user[e] = None
    BY <1>2, <2>1 DEF Insert, AllAccounts
  <2>3. user'[e] = [verified |-> verified, password |-> p, hash |-> 1] /\ user'[e] \in Account
    BY <2>1, InsertGrows DEF LInv
  <2>4. user'[e] # None /\ user'[e].verified = verified /\ user'[e].hash = 1
    BY <2>3
  <2>5. P[e] = 0 /\ Present(e)' = IF verified THEN 1 ELSE 0
    BY <2>2, <2>4 DEF Present, Verified
  <2>6. CASE verified
    <3>1. P' = [P EXCEPT ![e] = 1]
      BY <1>4, <2>2, <2>5, <2>6
    <3>2. Promise!Verify(e)
      BY <1>1, <2>5, <3>1 DEF Promise!Verify
    <3>3. QED
      BY <3>2 DEF Promise!Next
  <2>7. CASE ~verified
    <3>1. P' = [P EXCEPT ![e] = 0]
      BY <1>4, <2>2, <2>5, <2>7
    <3>2. P' = P
      BY <2>5, <3>1
    <3>3. QED
      BY <1>1, <3>2 DEF Promise!vars
  <2>8. QED
    BY <2>6, <2>7
<1>6. ASSUME NEW e \in Emails, Verifies(e)
      PROVE  Promise!Next \/ UNCHANGED Promise!vars
  <2>1. user[e] # None /\ user[e] \in Account /\ ~user[e].verified
    BY <1>2, <1>6 DEF Verifies, LInv, IInv, AccountsOK, AllAccounts
  <2>2. \A d \in Emails : d # e => user'[d] = user[d]
    BY <1>2, <1>6 DEF Verifies, AllAccounts
  <2>3. user[e].hash = 1
    BY <2>1 DEF LInv, FirstHash
  <2>4. user'[e] # None /\ user'[e].hash = 1 /\ user'[e].verified
    <3>1. user'[e] \in Account /\ user'[e].hash = user[e].hash /\ user'[e].verified
      BY <1>2, <1>6, <2>1 DEF Verifies, AllAccounts, Account
    <3>2. QED
      BY <2>3, <3>1
  <2>5. P[e] = 0 /\ Present(e)' = 1
    BY <2>1, <2>4 DEF Present, Verified
  <2>6. P' = [P EXCEPT ![e] = 1]
    BY <1>4, <2>2, <2>5
  <2>7. Promise!Verify(e)
    BY <1>1, <2>5, <2>6 DEF Promise!Verify
  <2>8. QED
    BY <2>7 DEF Promise!Next
<1>7. ASSUME NEW e \in Emails, Changes(e)
      PROVE  Promise!Next \/ UNCHANGED Promise!vars
  <2>1. user[e] # None /\ user[e] \in Account /\ user[e].verified
    BY <1>2, <1>7 DEF Changes, Verified, AllAccounts
  <2>2. \A d \in Emails : d # e => user'[d] = user[d]
    BY <1>2, <1>7 DEF Changes, AllAccounts
  <2>3. user'[e].hash = user[e].hash + 1 /\ user'[e].verified
    BY <1>2, <1>7, <2>1 DEF Changes, AllAccounts, Account
  <2>4. user'[e] # None
    BY <2>1, NextIInv DEF LInv, Grows
  <2>5. P[e] = user[e].hash /\ P[e] # 0 /\ Present(e)' = P[e] + 1
    BY <2>1, <2>3, <2>4 DEF Present, Verified, LInv, FirstHash
  <2>6. P' = [P EXCEPT ![e] = P[e] + 1]
    BY <1>4, <2>2, <2>5
  <2>7. Promise!ChangePassword(e)
    BY <1>1, <2>5, <2>6 DEF Promise!ChangePassword
  <2>8. QED
    BY <2>7 DEF Promise!Next
<1>8. QED
  BY <1>3, <1>5, <1>6, <1>7, AccountChanges

LEMMA SessionsPromise ==
  ASSUME LInv, [Next]_vars, UNCHANGED user,
         \/ UNCHANGED created /\ Deletes
         \/ Creates
         \/ UNCHANGED created /\ Saves
  PROVE  Promise!Next \/ UNCHANGED Promise!vars
<1> DEFINE P == [e \in Emails |-> Present(e)]
           H == [i \in Ids |-> Holds(i)]
<1>1. P' = P
  <2>1. \A e \in Emails : Present(e)' = Present(e)
    BY DEF Present, Verified
  <2>2. QED
    BY <2>1
<1>2. session \in [Ids -> Record \cup {None}] /\ created \in 0..MaxSessions
  BY DEF LInv, IInv, TypeOK
<1>3. CASE UNCHANGED <<session, created>>
  BY <1>3, AccountsPromise
<1>4. ASSUME NEW i \in Ids, NEW h, Holds(i)' = h,
             \A k \in Ids : k # i =>
               session'[k] = session[k] /\ (k <= created' <=> k <= created)
      PROVE  H' = [H EXCEPT ![i] = h]
  <2>1. \A k \in Ids : k # i => Holds(k)' = Holds(k)
    BY <1>4 DEF Holds
  <2>2. \A k \in Ids : H'[k] = IF k = i THEN h ELSE H[k]
    BY <1>4, <2>1
  <2>3. QED
    BY <2>2
<1>5. ASSUME NEW i \in Ids, NEW R \in Record, RecordOK(R, user), Copy(R), R.email # None,
             H' = [H EXCEPT ![i] = <<"logged in", R.email, R.hash>>]
      PROVE  Promise!LogIn(i)
  <2>1. R.email \in Emails /\ R.hash \in 1..P[R.email]
    BY <1>5, VersionsKnown
  <2>2. QED
    BY <1>1, <1>5, <2>1 DEF Promise!LogIn, Promise!Become, Promise!LoggedIn
<1>6. CASE UNCHANGED created /\ Deletes
  <2>1. PICK i \in Ids : session' = [session EXCEPT ![i] = None]
    BY <1>6 DEF Deletes
  <2>2. CASE session[i] = None
    BY <1>2, <1>3, <1>6, <2>1, <2>2
  <2>3. CASE session[i] # None
    <3>1. i <= created
      BY <2>3 DEF LInv, RowsOK
    <3>2. session'[i] = None /\ \A k \in Ids : k # i => session'[k] = session[k]
      BY <1>2, <2>1
    <3>3. Holds(i)' = <<"ended">>
      BY <1>6, <3>1, <3>2 DEF Holds
    <3>4. H' = [H EXCEPT ![i] = <<"ended">>]
      BY <1>4, <1>6, <3>2, <3>3
    <3>5. H[i] # <<"unused">>
      BY <2>3 DEF Holds
    <3>6. Promise!End(i)
      BY <1>1, <3>4, <3>5 DEF Promise!End, Promise!Become, Promise!Unused, Promise!Ended
    <3>7. QED
      BY <3>6 DEF Promise!Next
  <2>4. QED
    BY <2>2, <2>3
<1>7. CASE Creates
  <2>1. PICK r \in Requests : Create(request[r].record)
    BY <1>7 DEF Creates
  <2> DEFINE R == request[r].record
  <2>1a. created' \in Ids
    BY <1>2, <2>1 DEF Create, Ids
  <2>1b. PICK i \in Ids : i = created'
    BY <2>1a
  <2>2. created' = created + 1 /\ session' = [session EXCEPT ![i] = R]
    BY <2>1, <2>1b DEF Create
  <2>3. R \in Record /\ RecordOK(R, user) /\ Copy(R)
    BY DEF LInv, IInv, TypeOK, RequestsOK, RequestOK, CopiesOK, HeldOK, Request
  <2>4. R # None
    BY <2>3
  <2> HIDE DEF R
  <2>5. session'[i] = R /\ \A k \in Ids : k # i => session'[k] = session[k]
    BY <1>2, <2>2
  <2>6. \A k \in Ids : k # i => (k <= created' <=> k <= created)
    BY <1>2, <2>1b, <2>2 DEF Ids
  <2>7. H[i] = <<"unused">>
    <3>1. ~(i <= created)
      BY <1>2, <2>1b, <2>2
    <3>2. session[i] = None
      BY <2>2, <3>1 DEF LInv, RowsOK
    <3>3. QED
      BY <2>2, <3>1, <3>2 DEF Holds
  <2>8. CASE R.email = None
    <3>1. Holds(i)' = <<"anonymous">>
      BY <2>1b, <2>4, <2>5, <2>8 DEF Holds
    <3>2. H' = [H EXCEPT ![i] = <<"anonymous">>]
      BY <1>4, <2>2, <2>5, <2>6, <3>1
    <3>3. Promise!Open(i)
      BY <1>1, <2>7, <3>2 DEF Promise!Open, Promise!Become, Promise!Unused, Promise!Anonymous
    <3>4. QED
      BY <2>2, <3>3 DEF Promise!Next
  <2>9. CASE R.email # None
    <3>1. Holds(i)' = <<"logged in", R.email, R.hash>>
      BY <2>1b, <2>4, <2>5, <2>9 DEF Holds
    <3>2. H' = [H EXCEPT ![i] = <<"logged in", R.email, R.hash>>]
      BY <1>4, <2>2, <2>5, <2>6, <3>1
    <3>3. Promise!Open(i)
      BY <1>5, <2>2, <2>3, <2>7, <2>9, <3>2 DEF Promise!Open, Promise!Unused
    <3>4. QED
      BY <2>2, <3>3 DEF Promise!Next
  <2>10. QED
    BY <2>8, <2>9
<1>8. CASE UNCHANGED created /\ Saves
  <2>1. PICK r \in Requests : request[r].id # None /\ Save(request[r].id, request[r].record)
    BY <1>8 DEF Saves
  <2> DEFINE R == request[r].record
  <2>1a. request[r].id \in Ids
    BY <2>1 DEF LInv, IInv, TypeOK, Request
  <2>1b. PICK i \in Ids : i = request[r].id
    BY <2>1a
  <2>2. /\ R \in Record /\ RecordOK(R, user) /\ Copy(R) /\ R # None
        /\ session[i] # None => (R.email = None <=> session[i].email = None)
    <3>1. R \in Record /\ RecordOK(R, user)
      BY DEF LInv, IInv, TypeOK, RequestsOK, RequestOK, Request
    <3>2. HeldOK(request[r])
      BY DEF LInv, CopiesOK
    <3>3. /\ Copy(R)
          /\ session[i] # None => (R.email = None <=> session[i].email = None)
      BY <2>1, <2>1b, <3>2 DEF HeldOK
    <3>4. R # None
      BY <3>1
    <3>5. QED
      BY <3>1, <3>3, <3>4
  <2>3. CASE session' = session
    BY <1>3, <1>8, <2>3
  <2>4. CASE session[i] # None /\ session' = [session EXCEPT ![i] = R]
    <3> HIDE DEF R
    <3>1. session'[i] = R /\ \A k \in Ids : k # i => session'[k] = session[k]
      BY <1>2, <2>2, <2>4
    <3>2. CASE R.email = None
      <4>1. Holds(i)' = <<"anonymous">> /\ H[i] = <<"anonymous">>
        BY <2>2, <2>4, <3>1, <3>2 DEF Holds
      <4>2. H' = [H EXCEPT ![i] = <<"anonymous">>]
        BY <1>4, <1>8, <2>2, <3>1, <4>1
      <4>3. H' = H
        BY <4>1, <4>2
      <4>4. QED
        BY <1>1, <4>3 DEF Promise!vars
    <3>3. CASE R.email # None
      <4>1. Holds(i)' = <<"logged in", R.email, R.hash>>
        BY <2>2, <3>1, <3>3 DEF Holds
      <4>2. H' = [H EXCEPT ![i] = <<"logged in", R.email, R.hash>>]
        BY <1>4, <1>8, <2>2, <3>1, <4>1
      <4>3. H[i] \notin {<<"unused">>, <<"anonymous">>, <<"ended">>}
        BY <2>2, <2>4, <3>3 DEF Holds
      <4>4. Promise!LogInAgain(i)
        BY <1>5, <2>2, <3>3, <4>2, <4>3
           DEF Promise!LogInAgain, Promise!Unused, Promise!Anonymous, Promise!Ended
      <4>5. QED
        BY <2>2, <4>4 DEF Promise!Next
    <3>4. QED
      BY <3>2, <3>3
  <2>5. QED
    BY <2>1, <2>1b, <2>3, <2>4 DEF Save
<1>9. QED
  BY <1>6, <1>7, <1>8

(* Accounts and sessions keep the promise of module Logins.                *)
THEOREM AccountsImplementLogins == Spec => ImplementsLogins
<1>1. LInv /\ [Next]_vars => Promise!Next \/ UNCHANGED Promise!vars
  BY SessionSteps, AccountsPromise, SessionsPromise DEF LInv
<1>2. LInv /\ [Next]_vars => [Promise!Next]_(Promise!vars)
  BY <1>1
<1>3. QED
  BY InitPromise, <1>2, CopiesAgree, PTL DEF Spec, ImplementsLogins, Promise!Spec
=============================================================================
