--------------------------- MODULE JobBoardProofs ---------------------------
(***************************************************************************)
(* Proofs about what the job board serves to everybody: its pages          *)
(* (Listings) and its images (Images), for any jobs, visitors, filters and *)
(* publications, any users, employers, readers and image ids, and any time *)
(* for which answers are remembered.                                       *)
(*                                                                         *)
(* Images.  An upload carries with it all the versions of one of two kinds *)
(* of image (OnItsWay) and writes where nothing is stored (OwnPlace).  How *)
(* long ago an image was public is bounded for each place at which the     *)
(* answer to "is it public?" may be: in a request, in the memo, in a       *)
(* request again (Ages).                                                   *)
(*                                                                         *)
(* Listings.  A job's place in a search is the number of jobs before it:   *)
(* different jobs have different places, and a place moves by no more than *)
(* the number of jobs that left or came.  What a visitor misses has moved  *)
(* in front of the end of the last page (Skipped), what is shown again has *)
(* moved, or is still to be shown, behind it (Again).  Reading on changes  *)
(* neither; a change of the board adds to each at most what it adds to the *)
(* count of the jobs that left, or came.                                   *)
(***************************************************************************)
EXTENDS Images, Listings, FiniteSetTheorems, TLAPS

-----------------------------------------------------------------------------
(* Images.                                                                 *)

USE DayAssumption, NoneAssumption

SizeSet == {"small", "medium", "large"}

LEMMA SizeSetIs == /\ ToSet(Sizes) = SizeSet /\ AnySize = SizeSet
                   /\ Versions = SizeSet \cup {"svg"}
BY DEF Sizes, SizeSet, AnySize, Versions, ToSet

(* The data of versions are of their formats.                              *)
Typed(data) == /\ \A v \in SizeSet : data[v] \in {"png", None}
               /\ data["svg"] \in {"svg", None}

(* With the versions in rest, the data make an image of one kind: the      *)
(* three sizes of a raster image, or the document of an svg.               *)
Whole(data, rest) ==
  LET Has(v) == data[v] # None \/ v \in ToSet(rest)
  IN \/ Has("svg") /\ \A v \in SizeSet : ~Has(v)
     \/ ~Has("svg") /\ \A v \in SizeSet : Has(v)

OnItsWay ==
  \A u \in Users : upload[u] # None =>
    /\ Typed(upload[u].data) /\ Whole(upload[u].data, upload[u].left)
    /\ "svg" \in ToSet(upload[u].left) => upload[u].bytes = "svg"

OwnPlace ==
  /\ \A u \in Users : upload[u] # None => image[upload[u].id] = None
  /\ \A u, w \in Users :
       upload[u] # None /\ upload[w] # None /\ upload[u].id = upload[w].id => u = w

Stored ==
  \A i \in Ids : image[i] # None => Typed(image[i]) /\ Whole(image[i], <<>>)

Late(r) == IF request[r].late THEN 1 ELSE 0

Ages ==
  /\ \A i \in Ids : Public(i) => sincePublic[i] = 0
  /\ \A i \in Ids : Known(i) /\ memo[i].public => sincePublic[i] <= memo[i].age + 1
  /\ \A r \in Readers : request[r].step # "idle" => request[r].id \in Ids
  /\ \A r \in Readers : request[r].step = "store" /\ request[r].public =>
       sincePublic[request[r].id] <= Late(r)
  /\ \A r \in Readers : request[r].step = "serve" =>
       sincePublic[request[r].id] <= Day + Late(r)

-----------------------------------------------------------------------------
(* The first version of those left, and the others.                        *)
LEMMA HeadAndTail ==
  ASSUME NEW S, NEW s \in Seq(S), s # <<>>
  PROVE  /\ Head(s) \in S /\ Tail(s) \in Seq(S)
         /\ Head(s) \in ToSet(s)
         /\ \A v \in ToSet(s) : v = Head(s) \/ v \in ToSet(Tail(s))
         /\ ToSet(Tail(s)) \subseteq ToSet(s)
<1>1. Len(s) >= 1 /\ Head(s) = s[1] /\ Tail(s) \in Seq(S)
  OBVIOUS
<1>2. /\ DOMAIN s = 1..Len(s) /\ DOMAIN Tail(s) = 1..Len(s) - 1
      /\ \A j \in 1..Len(s) - 1 : Tail(s)[j] = s[j + 1]
  BY <1>1
<1>3. ASSUME NEW j \in 1..Len(s)
      PROVE  s[j] = Head(s) \/ s[j] \in ToSet(Tail(s))
  <2>1. CASE j = 1
    BY <1>1, <2>1
  <2>2. CASE j # 1
    <3>1. j - 1 \in 1..Len(s) - 1 /\ Tail(s)[j - 1] = s[j]
      BY <1>1, <1>2, <2>2
    <3>2. QED
      BY <1>2, <3>1 DEF ToSet
  <2>3. QED
    BY <2>1, <2>2
<1>4. ToSet(Tail(s)) \subseteq ToSet(s)
  BY <1>1, <1>2 DEF ToSet
<1>5. Head(s) \in ToSet(s) /\ Head(s) \in S
  BY <1>1, <1>2 DEF ToSet
<1>6. QED
  BY <1>1, <1>2, <1>3, <1>4, <1>5 DEF ToSet

(* A version that is inserted leaves one version less to insert.           *)
LEMMA Inserted ==
  ASSUME NEW p \in Uploads, p.left # <<>>,
         Typed(p.data), Whole(p.data, p.left),
         "svg" \in ToSet(p.left) => p.bytes = "svg"
  PROVE  LET v == Head(p.left)
             q == [p EXCEPT !.data[v] = VersionData(p.bytes, v), !.left = Tail(@)]
         IN  /\ q \in Uploads /\ q.id = p.id
             /\ Typed(q.data) /\ Whole(q.data, q.left)
             /\ "svg" \in ToSet(q.left) => q.bytes = "svg"
<1> DEFINE v == Head(p.left)
           data == [p.data EXCEPT ![v] = VersionData(p.bytes, v)]
           q == [p EXCEPT !.data[v] = VersionData(p.bytes, v), !.left = Tail(@)]
<1>1. p.left \in Seq(Versions) /\ p.data \in Contents /\ p.bytes \in Bytes /\ p.id \in Ids
  BY DEF Uploads
<1>2. /\ v \in Versions /\ v \in ToSet(p.left) /\ Tail(p.left) \in Seq(Versions)
      /\ \A w \in ToSet(p.left) : w = v \/ w \in ToSet(Tail(p.left))
      /\ ToSet(Tail(p.left)) \subseteq ToSet(p.left)
  BY <1>1, HeadAndTail
<1>3. q = [id |-> p.id, data |-> data, left |-> Tail(p.left), bytes |-> p.bytes]
  <2> DEFINE tail == Tail(p.left)
  <2>1. q = [[p EXCEPT !.data = data] EXCEPT !.left = tail]
    OBVIOUS
  <2> HIDE DEF q, data, tail
  <2>2. p = [id |-> p.id, data |-> p.data, left |-> p.left, bytes |-> p.bytes]
    BY DEF Uploads
  <2>3. [p EXCEPT !.data = data]
          = [id |-> p.id, data |-> data, left |-> p.left, bytes |-> p.bytes]
    BY <2>2
  <2>4. QED
    BY <2>1, <2>3 DEF tail
<1>4. /\ VersionData(p.bytes, v) \in {"png", "svg"}
      /\ v = "svg" <=> VersionData(p.bytes, v) = "svg"
  BY <1>2 DEF VersionData
<1>5. /\ data[v] = VersionData(p.bytes, v)
      /\ \A w \in Versions : w # v => data[w] = p.data[w]
      /\ data \in Contents
  BY <1>1, <1>2, <1>4 DEF Contents, Bytes
<1> HIDE DEF data
<1>6. Typed(data)
  BY <1>2, <1>4, <1>5, SizeSetIs DEF Typed, SizeSet
<1>7. Whole(data, Tail(p.left))
  BY <1>2, <1>4, <1>5, SizeSetIs DEF Whole, SizeSet, Bytes
<1>8. q \in Uploads
  BY <1>1, <1>2, <1>3, <1>5 DEF Uploads
<1>9. QED
  BY <1>2, <1>3, <1>6, <1>7, <1>8

-----------------------------------------------------------------------------
(* What uploads write.                                                     *)
UploadsOK ==
  /\ upload \in [Users -> Uploads \cup {None}]
  /\ image \in [Ids -> Contents \cup {None}]
  /\ OnItsWay /\ OwnPlace /\ Stored

LEMMA Missings == /\ Missing \in Contents /\ Typed(Missing)
                  /\ \A v \in SizeSet \cup {"svg"} : Missing[v] = None
BY SizeSetIs DEF Missing, Contents, Typed, SizeSet

(* What an accepted file lets expect.                                      *)
LEMMA AcceptedFile ==
  ASSUME NEW file \in File, Accepted(file)
  PROVE  /\ VersionsOf(file) \in Seq(Versions)
         /\ Whole(Missing, VersionsOf(file))
         /\ "svg" \in ToSet(VersionsOf(file)) => file.bytes = "svg"
<1>1. ToSet(<<"svg">>) = {"svg"} /\ <<"svg">> \in Seq(Versions)
  BY SizeSetIs DEF ToSet
<1>2. ToSet(Sizes) = SizeSet /\ Sizes \in Seq(Versions)
  BY SizeSetIs DEF Sizes, SizeSet
<1>3. CASE file.ext = "svg"
  <2>1. file.bytes = "svg"
    BY <1>3 DEF Accepted, FormatOf, File, Bytes
  <2>2. QED
    BY <1>1, <1>3, <2>1, Missings DEF VersionsOf, Whole, SizeSet
<1>4. CASE file.ext # "svg"
  BY <1>2, <1>4, Missings DEF VersionsOf, Whole, SizeSet
<1>5. QED
  BY <1>3, <1>4

LEMMA NextUploadsOK == UploadsOK /\ [Next]_vars => UploadsOK'
<1> SUFFICES ASSUME UploadsOK, [Next]_vars
             PROVE  UploadsOK'
  OBVIOUS
<1> USE DEF UploadsOK
<1>1. ASSUME NEW u \in Users, NEW file \in File, Begin(u, file)
      PROVE  UploadsOK'
  <2>1. PICK i \in Unused : upload' = [upload EXCEPT ![u] =
          [id |-> i, data |-> Missing, left |-> VersionsOf(file), bytes |-> file.bytes]]
    BY <1>1 DEF Begin
  <2> DEFINE p == [id |-> i, data |-> Missing, left |-> VersionsOf(file),
                   bytes |-> file.bytes]
  <2>2. /\ p.id = i /\ p.data = Missing /\ p.left = VersionsOf(file)
        /\ p.bytes = file.bytes
    OBVIOUS
  <2>3. Accepted(file) /\ UNCHANGED image
    BY <1>1 DEF Begin
  <2>4. i \in Ids /\ image[i] = None
        /\ \A w \in Users : upload[w] # None => upload[w].id # i
    BY DEF Unused
  <2>5. p \in Uploads
    BY <2>3, <2>4, Missings, AcceptedFile DEF Uploads, File
  <2> HIDE DEF p
  <2>6. /\ upload'[u] = p /\ upload' \in [Users -> Uploads \cup {None}]
        /\ \A w \in Users : w # u => upload'[w] = upload[w]
    BY <2>1, <2>5 DEF p
  <2>7. OnItsWay'
    BY <2>2, <2>3, <2>6, Missings, AcceptedFile DEF OnItsWay
  <2>8. OwnPlace'
    BY <2>2, <2>3, <2>4, <2>6 DEF OwnPlace
  <2>9. QED
    BY <2>3, <2>6, <2>7, <2>8 DEF Stored
<1>2. ASSUME NEW u \in Users, InsertVersion(u)
      PROVE  UploadsOK'
  <2> DEFINE q == [upload[u] EXCEPT
                     !.data[Head(upload[u].left)] =
                       VersionData(upload[u].bytes, Head(upload[u].left)),
                     !.left = Tail(@)]
  <2>1. upload[u] # None /\ upload[u].left # <<>> /\ UNCHANGED image
        /\ upload' = [upload EXCEPT ![u] = q]
    BY <1>2 DEF InsertVersion
  <2>2. upload[u] \in Uploads
    BY <2>1
  <2>3. /\ q \in Uploads /\ q.id = upload[u].id
        /\ Typed(q.data) /\ Whole(q.data, q.left)
        /\ "svg" \in ToSet(q.left) => q.bytes = "svg"
    BY <2>1, <2>2, Inserted DEF OnItsWay
  <2> HIDE DEF q
  <2>4. /\ upload'[u] = q /\ upload' \in [Users -> Uploads \cup {None}]
        /\ \A w \in Users : w # u => upload'[w] = upload[w]
    BY <2>1, <2>3
  <2>5. OnItsWay'
    BY <2>3, <2>4 DEF OnItsWay
  <2>6. OwnPlace'
    BY <2>1, <2>3, <2>4 DEF OwnPlace
  <2>7. QED
    BY <2>1, <2>4, <2>5, <2>6 DEF Stored
<1>3. ASSUME NEW u \in Users, Commit(u)
      PROVE  UploadsOK'
  <2> DEFINE i == upload[u].id
             data == upload[u].data
  <2>1. /\ upload[u] # None /\ upload[u].left = <<>>
        /\ image' = [image EXCEPT ![i] = data] /\ upload' = [upload EXCEPT ![u] = None]
    BY <1>3 DEF Commit
  <2>2. i \in Ids /\ data \in Contents
    BY <2>1 DEF Uploads
  <2>3. Typed(data) /\ Whole(data, <<>>)
    BY <2>1 DEF OnItsWay
  <2> HIDE DEF i, data
  <2>4. /\ image'[i] = data /\ image' \in [Ids -> Contents \cup {None}]
        /\ \A j \in Ids : j # i => image'[j] = image[j]
        /\ upload'[u] = None /\ upload' \in [Users -> Uploads \cup {None}]
        /\ \A w \in Users : w # u => upload'[w] = upload[w]
    BY <2>1, <2>2
  <2>5. OnItsWay'
    BY <2>4 DEF OnItsWay
  <2>6. Stored'
    BY <2>3, <2>4 DEF Stored
  <2>7. OwnPlace'
    <3>1. \A w \in Users : w # u /\ upload[w] # None => upload[w].id \in Ids \ {i}
      BY <2>1 DEF OwnPlace, Uploads, i
    <3>2. QED
      BY <2>4, <3>1 DEF OwnPlace
  <2>8. QED
    BY <2>4, <2>5, <2>6, <2>7
<1>4. ASSUME NEW u \in Users, Abandon(u)
      PROVE  UploadsOK'
  <2>1. /\ upload'[u] = None /\ upload' \in [Users -> Uploads \cup {None}]
        /\ \A w \in Users : w # u => upload'[w] = upload[w]
        /\ UNCHANGED image
    BY <1>4 DEF Abandon
  <2>2. QED
    BY <2>1 DEF OnItsWay, OwnPlace, Stored
<1>5. CASE Restart
  BY <1>5 DEF Restart, OnItsWay, OwnPlace, Stored
<1>6. CASE UNCHANGED <<upload, image>>
  BY <1>6 DEF OnItsWay, OwnPlace, Stored
<1>7. QED
  <2>1. \/ \E u \in Users, file \in File : Begin(u, file)
        \/ \E u \in Users : InsertVersion(u) \/ Commit(u) \/ Abandon(u)
        \/ Restart
        \/ UNCHANGED <<upload, image>>
    BY DEF Next, vars, Uploading, Answering, SetLogo, Publish, Check, Query, Store, Lose,
       Serve, Tick
  <2>2. QED
    BY <1>1, <1>2, <1>3, <1>4, <1>5, <1>6, <2>1

-----------------------------------------------------------------------------
(* What requests may answer.                                               *)
Request == [step : {"idle", "query", "store", "serve"}, id : Ids \cup {None},
            public : BOOLEAN, late : BOOLEAN]
Answers == [public : BOOLEAN, age : 0..Day]

RoutesOK ==
  /\ logo \in [Employers -> Ids \cup {None}]
  /\ listed \subseteq Employers
  /\ memo \in [Ids -> Answers \cup {None}]
  /\ request \in [Readers -> Request]
  /\ sincePublic \in [Ids -> 0..Long]
  /\ Ages

(* The memo and the requests are as old as they were when an image becomes *)
(* public or private; how long ago it was public is not more.              *)
LEMMA NotedKeepsAges ==
  ASSUME RoutesOK, UNCHANGED <<memo, request>>,
         sincePublic' = [i \in Ids |-> IF Public(i)' \/ Public(i) THEN 0 ELSE sincePublic[i]]
  PROVE  Ages' /\ sincePublic' \in [Ids -> 0..Long]
<1> USE DEF RoutesOK
<1>1. \A i \in Ids : /\ sincePublic[i] \in 0..Long /\ sincePublic'[i] \in 0..Long
                     /\ sincePublic'[i] <= sincePublic[i]
                     /\ Public(i)' => sincePublic'[i] = 0
  BY DEF Long
<1>2. \A i \in Ids : Known(i)' = Known(i)
  BY DEF Known
<1>3. \A r \in Readers : Late(r)' = Late(r) /\ Late(r) \in Nat
  BY DEF Late
<1>4. \A i \in Ids : memo[i] # None => memo[i].age \in Nat
  BY DEF Answers
<1>5. sincePublic' \in [Ids -> 0..Long]
  BY DEF Long
<1>6. Ages'
  <2>1. \A i \in Ids : Known(i)' /\ memo'[i].public => sincePublic'[i] <= memo'[i].age + 1
    BY <1>1, <1>2, <1>4 DEF Ages, Known
  <2>2. \A r \in Readers : request'[r].step # "idle" => request'[r].id \in Ids
    BY DEF Ages
  <2>3. \A r \in Readers : request'[r].step = "store" /\ request'[r].public =>
          sincePublic'[request'[r].id] <= Late(r)'
    BY <1>1, <1>3 DEF Ages
  <2>4. \A r \in Readers : request'[r].step = "serve" =>
          sincePublic'[request'[r].id] <= Day + Late(r)'
    BY <1>1, <1>3 DEF Ages
  <2>5. QED
    BY <1>1, <2>1, <2>2, <2>3, <2>4 DEF Ages
<1>7. QED
  BY <1>5, <1>6

(* A request of one reader changes; the others and the images do not.      *)
LEMMA OneReader ==
  ASSUME RoutesOK, NEW r \in Readers, NEW q \in Request,
         request' = [request EXCEPT ![r] = q],
         UNCHANGED <<logo, listed, sincePublic>>,
         memo' \in [Ids -> Answers \cup {None}],
         \A i \in Ids : Known(i)' /\ memo'[i].public => sincePublic[i] <= memo'[i].age + 1,
         q.step # "idle" => q.id \in Ids,
         q.step = "store" /\ q.public =>
           sincePublic[q.id] <= IF q.late THEN 1 ELSE 0,
         q.step = "serve" => sincePublic[q.id] <= Day + IF q.late THEN 1 ELSE 0
  PROVE  RoutesOK'
<1> USE DEF RoutesOK
<1>1. /\ request'[r] = q /\ request' \in [Readers -> Request]
      /\ \A w \in Readers : w # r => request'[w] = request[w]
  OBVIOUS
<1>2. \A w \in Readers : w # r => Late(w)' = Late(w)
  BY <1>1 DEF Late
<1>3. Late(r)' = IF q.late THEN 1 ELSE 0
  BY <1>1 DEF Late
<1>4. \A i \in Ids : Public(i)' = Public(i)
  BY DEF Public
<1>5. Ages'
  BY <1>1, <1>2, <1>3, <1>4 DEF Ages
<1>6. QED
  BY <1>1, <1>5

LEMMA NoRequestIs ==
  NoRequest \in Request /\ NoRequest.step = "idle" /\ NoRequest.late = FALSE
BY DEF NoRequest, Request

LEMMA NextRoutesOK == RoutesOK /\ [Next]_vars => RoutesOK'
<1> SUFFICES ASSUME RoutesOK, [Next]_vars
             PROVE  RoutesOK'
  OBVIOUS
<1> USE DEF RoutesOK
<1>1. ASSUME NEW e \in Employers, SetLogo(e) \/ Publish(e)
      PROVE  RoutesOK'
  <2>1. sincePublic' =
          [i \in Ids |-> IF Public(i)' \/ Public(i) THEN 0 ELSE sincePublic[i]]
    BY <1>1 DEF SetLogo, Publish, Noted, Public
  <2>2. logo' \in [Employers -> Ids \cup {None}] /\ listed' \subseteq Employers
    BY <1>1 DEF SetLogo, Publish
  <2>3. UNCHANGED <<memo, request>>
    BY <1>1 DEF SetLogo, Publish
  <2>4. QED
    BY <2>1, <2>2, <2>3, NotedKeepsAges
<1>2. ASSUME NEW r \in Readers, NEW i \in Ids, Check(r, i)
      PROVE  RoutesOK'
  <2> DEFINE q == AfterLookUp(i)
  <2>1. request' = [request EXCEPT ![r] = q]
        /\ UNCHANGED <<logo, listed, memo, sincePublic>>
    BY <1>2 DEF Check
  <2>2. /\ q \in Request /\ ~q.late
        /\ q.step = "idle" \/ (q.step \in {"query", "serve"} /\ q.id = i)
        /\ q.step = "serve" => Known(i) /\ memo[i].public
    BY DEF AfterLookUp, NoRequest, Request
  <2>3. q.step = "serve" => sincePublic[i] <= Day
    <3>1. Known(i) => memo[i].age \in 0..Day /\ memo[i].age < Day
      BY DEF Known, Answers
    <3>2. sincePublic[i] \in Int
      BY DEF Long
    <3>3. QED
      BY <2>2, <3>1, <3>2 DEF Ages
  <2>4. \A j \in Ids : Known(j)' = Known(j)
    BY <2>1 DEF Known
  <2>5. /\ memo' \in [Ids -> Answers \cup {None}]
        /\ \A j \in Ids : Known(j)' /\ memo'[j].public => sincePublic[j] <= memo'[j].age + 1
    BY <2>1, <2>4 DEF Ages
  <2> HIDE DEF q
  <2>6. /\ q.step # "idle" => q.id \in Ids
        /\ q.step # "store"
        /\ q.step = "serve" => sincePublic[q.id] <= Day + IF q.late THEN 1 ELSE 0
    <3>1. sincePublic[i] \in Int
      BY DEF Long
    <3>2. QED
      BY <2>2, <2>3, <3>1
  <2>7. QED
    BY <2>1, <2>2, <2>5, <2>6, OneReader
<1>3. ASSUME NEW r \in Readers, Query(r)
      PROVE  RoutesOK'
  <2> DEFINE i == request[r].id
             q == [request[r] EXCEPT !.step = "store", !.public = Public(i)]
  <2>1. request[r] \in Request /\ request[r].step = "query"
        /\ request' = [request EXCEPT ![r] = q]
        /\ UNCHANGED <<logo, listed, memo, sincePublic>>
    BY <1>3 DEF Query
  <2>2. Public(i) \in BOOLEAN
    BY DEF Public
  <2>3. /\ q \in Request /\ q.step = "store" /\ q.id = i
        /\ q.public = Public(i)
    BY <2>1, <2>2 DEF Request
  <2>4. i \in Ids /\ (Public(i) => sincePublic[i] = 0)
    BY <2>1 DEF Ages
  <2>5. \A j \in Ids : Known(j)' = Known(j)
    BY <2>1 DEF Known
  <2>6. /\ memo' \in [Ids -> Answers \cup {None}]
        /\ \A j \in Ids : Known(j)' /\ memo'[j].public => sincePublic[j] <= memo'[j].age + 1
    BY <2>1, <2>5 DEF Ages
  <2> HIDE DEF q, i
  <2>7. /\ q.step # "idle" => q.id \in Ids
        /\ q.step = "store" /\ q.public => sincePublic[q.id] <= IF q.late THEN 1 ELSE 0
        /\ q.step # "serve"
    BY <2>3, <2>4
  <2>8. QED
    BY <2>1, <2>3, <2>6, <2>7, OneReader
<1>4. ASSUME NEW r \in Readers, Store(r)
      PROVE  RoutesOK'
  <2> DEFINE i == request[r].id
             new == [public |-> request[r].public, age |-> 0]
             q == IF request[r].public THEN [request[r] EXCEPT !.step = "serve"]
                                       ELSE NoRequest
  <2>1. /\ request[r] \in Request /\ request[r].step = "store"
        /\ request' = [request EXCEPT ![r] = q]
        /\ memo' = [memo EXCEPT ![i] = new]
        /\ UNCHANGED <<logo, listed, sincePublic>>
    BY <1>4 DEF Store, Stop
  <2>2. i \in Ids /\ (request[r].public => sincePublic[i] <= Late(r)) /\ Late(r) \in 0..1
        /\ sincePublic[i] \in Int
    BY <2>1 DEF Ages, Late, Long
  <2>3. /\ q \in Request
        /\ q.step = "idle" \/ (request[r].public /\ q.step = "serve" /\ q.id = i)
        /\ q.step = "serve" => q.late = request[r].late
    BY <2>1, NoRequestIs DEF Request
  <2>4. new \in Answers /\ new.public = request[r].public /\ new.age = 0
    BY <2>1 DEF Answers, Request
  <2> HIDE DEF q, i, new
  <2>5. /\ memo' \in [Ids -> Answers \cup {None}]
        /\ memo'[i] = new /\ \A j \in Ids : j # i => memo'[j] = memo[j]
    BY <2>1, <2>2, <2>4
  <2>6. \A j \in Ids : Known(j)' /\ memo'[j].public => sincePublic[j] <= memo'[j].age + 1
    BY <2>2, <2>4, <2>5 DEF Known, Ages
  <2>7. q.step = "serve" => sincePublic[i] <= Day + IF q.late THEN 1 ELSE 0
    BY <2>2, <2>3 DEF Late
  <2>8. QED
    BY <2>1, <2>2, <2>3, <2>5, <2>6, <2>7, OneReader
<1>5. ASSUME NEW r \in Readers, Lose(r) \/ Serve(r)
      PROVE  RoutesOK'
  <2>1. request' = [request EXCEPT ![r] = NoRequest]
        /\ UNCHANGED <<logo, listed, memo, sincePublic>>
    BY <1>5 DEF Lose, Serve, Stop
  <2>2. \A j \in Ids : Known(j)' = Known(j)
    BY <2>1 DEF Known
  <2>3. QED
    BY <2>1, <2>2, NoRequestIs, OneReader DEF Ages
<1>6. CASE Tick
  <2>1. /\ \A r \in Readers : ~request[r].late
        /\ request' = [r \in Readers |-> [request[r] EXCEPT !.late = request[r].step # "idle"]]
        /\ memo' = [i \in Ids |-> IF Known(i) THEN [memo[i] EXCEPT !.age = @ + 1] ELSE memo[i]]
        /\ sincePublic' = [i \in Ids |-> IF Public(i) \/ sincePublic[i] = Long
                                         THEN sincePublic[i] ELSE sincePublic[i] + 1]
        /\ UNCHANGED <<logo, listed>>
    BY <1>6 DEF Tick
  <2>2. \A x \in Request, b \in BOOLEAN :
          /\ [x EXCEPT !.late = b] \in Request
          /\ [x EXCEPT !.late = b].step = x.step /\ [x EXCEPT !.late = b].id = x.id
          /\ [x EXCEPT !.late = b].public = x.public /\ [x EXCEPT !.late = b].late = b
    BY DEF Request
  <2>3. \A r \in Readers : /\ request'[r] \in Request
                           /\ request'[r].step = request[r].step
                           /\ request'[r].id = request[r].id
                           /\ request'[r].public = request[r].public
                           /\ request'[r].late = (request[r].step # "idle")
    <3> SUFFICES ASSUME NEW r \in Readers
                 PROVE  /\ request'[r] \in Request
                        /\ request'[r].step = request[r].step
                        /\ request'[r].id = request[r].id
                        /\ request'[r].public = request[r].public
                        /\ request'[r].late = (request[r].step # "idle")
      OBVIOUS
    <3> DEFINE b == request[r].step # "idle"
    <3>1. request[r] \in Request /\ b \in BOOLEAN
      OBVIOUS
    <3>2. request'[r] = [request[r] EXCEPT !.late = b]
      BY <2>1
    <3> HIDE DEF b
    <3>3. /\ request'[r] \in Request
          /\ request'[r].step = request[r].step
          /\ request'[r].id = request[r].id
          /\ request'[r].public = request[r].public
          /\ request'[r].late = b
      BY <2>2, <3>1, <3>2
    <3>4. QED
      BY <3>3 DEF b
  <2>4. \A i \in Ids : Known(i) =>
          LET m == [memo[i] EXCEPT !.age = @ + 1] IN
            m \in Answers /\ m.public = memo[i].public /\ m.age = memo[i].age + 1
    BY DEF Known, Answers
  <2>5. /\ \A i \in Ids : Known(i) => /\ memo'[i] \in Answers
                                      /\ memo'[i].public = memo[i].public
                                      /\ memo'[i].age = memo[i].age + 1
        /\ \A i \in Ids : ~Known(i) => memo'[i] = memo[i] /\ ~Known(i)'
    BY <2>1, <2>4 DEF Known
  <2>6. \A i \in Ids : /\ sincePublic[i] \in 0..Long /\ sincePublic'[i] \in 0..Long
                       /\ sincePublic'[i] <= sincePublic[i] + 1
                       /\ Public(i) => sincePublic'[i] = sincePublic[i]
    <3>1. Long \in Nat
      BY DEF Long
    <3>2. \A i \in Ids : sincePublic[i] \in 0..Long
      OBVIOUS
    <3>3. \A i \in Ids : sincePublic'[i] = IF Public(i) \/ sincePublic[i] = Long
                                           THEN sincePublic[i] ELSE sincePublic[i] + 1
      BY <2>1
    <3>4. QED
      BY <3>1, <3>2, <3>3
  <2>7. /\ request' \in [Readers -> Request] /\ memo' \in [Ids -> Answers \cup {None}]
        /\ sincePublic' \in [Ids -> 0..Long]
    BY <2>1, <2>3, <2>5, <2>6
  <2>8. \A i \in Ids : Public(i)' = Public(i)
    BY <2>1 DEF Public
  <2>9. \A r \in Readers : Late(r) = 0 /\ (request[r].step # "idle" => Late(r)' = 1)
    BY <2>1, <2>3 DEF Late
  <2>10. \A i \in Ids : Known(i) => memo[i].age \in Nat
    BY DEF Known, Answers
  <2>11. \A i \in Ids : Known(i)' /\ memo'[i].public => sincePublic'[i] <= memo'[i].age + 1
    BY <2>5, <2>6, <2>10 DEF Ages
  <2>12. \A r \in Readers : request'[r].step = "store" /\ request'[r].public =>
           sincePublic'[request'[r].id] <= Late(r)'
    BY <2>3, <2>6, <2>9 DEF Ages
  <2>13. \A r \in Readers : request'[r].step = "serve" =>
           sincePublic'[request'[r].id] <= Day + Late(r)'
    BY <2>3, <2>6, <2>9 DEF Ages
  <2>14. Ages'
    BY <2>3, <2>6, <2>8, <2>11, <2>12, <2>13 DEF Ages
  <2>15. QED
    BY <2>1, <2>7, <2>14
<1>7. CASE Restart
  <2>1. /\ \A r \in Readers : request'[r] = NoRequest
        /\ \A i \in Ids : memo'[i] = None
        /\ UNCHANGED <<logo, listed, sincePublic>>
        /\ request' \in [Readers -> Request] /\ memo' \in [Ids -> Answers \cup {None}]
    BY <1>7, NoRequestIs DEF Restart
  <2>2. Ages'
    BY <2>1, NoRequestIs DEF Ages, Public, Known
  <2>3. QED
    BY <2>1, <2>2
<1>8. CASE UNCHANGED <<logo, listed, memo, request, sincePublic>>
  BY <1>8 DEF Ages, Public, Known, Late
<1>9. QED
  <2>1. \/ \E e \in Employers : SetLogo(e) \/ Publish(e)
        \/ \E r \in Readers, i \in Ids : Check(r, i)
        \/ \E r \in Readers : Query(r) \/ Store(r) \/ Lose(r) \/ Serve(r)
        \/ Tick \/ Restart
        \/ UNCHANGED <<logo, listed, memo, request, sincePublic>>
    BY DEF Next, vars, Uploading, Answering, Begin, InsertVersion, Commit, Abandon
  <2>2. QED
    BY <1>1, <1>2, <1>3, <1>4, <1>5, <1>6, <1>7, <1>8, <2>1
-----------------------------------------------------------------------------
IInv == UploadsOK /\ RoutesOK

LEMMA InitIInv == Init => IInv
<1> SUFFICES ASSUME Init
             PROVE  IInv
  OBVIOUS
<1>1. UploadsOK
  BY DEF Init, UploadsOK, OnItsWay, OwnPlace, Stored
<1>2. Long \in Nat
  BY DEF Long
<1>3. RoutesOK
  BY <1>2, NoRequestIs DEF Init, RoutesOK, Ages, Public, Known
<1>4. QED
  BY <1>1, <1>3 DEF IInv

LEMMA Inductive == Spec => []IInv
<1>1. IInv /\ [Next]_vars => IInv'
  BY NextUploadsOK, NextRoutesOK DEF IInv
<1>2. QED
  BY InitIInv, <1>1, PTL DEF Spec

(* Every variable stays within its type: see TypeOK.                       *)
THEOREM TypeCorrect == Spec => []TypeOK
<1>1. IInv => TypeOK
  BY DEF IInv, UploadsOK, RoutesOK, TypeOK, Request, Answers
<1>2. QED
  BY <1>1, Inductive, PTL

(* What a stored image answers for one of the sizes pages ask for.         *)
LEMMA AnswerOfStored ==
  ASSUME UploadsOK, NEW i \in Ids, NEW v \in AnySize, image[i] # None
  PROVE  Answer(i, v) = IF image[i][v] # None THEN [format |-> "png", data |-> "png"]
                                              ELSE [format |-> "svg", data |-> "svg"]
<1>1. v \in SizeSet /\ v \in Versions
  BY SizeSetIs
<1>2. Typed(image[i]) /\ Whole(image[i], <<>>)
  BY DEF UploadsOK, Stored
<1>3. ToSet(<<>>) = {}
  BY DEF ToSet
<1>4. CASE image[i][v] # None
  BY <1>1, <1>2, <1>4 DEF Answer, Typed
<1>5. CASE image[i][v] = None
  BY <1>1, <1>2, <1>3, <1>5 DEF Answer, Typed, Whole
<1>6. QED
  BY <1>4, <1>5

(* A stored image answers for every size that pages ask for: see           *)
(* StoredIsComplete.                                                       *)
THEOREM StoredIsCompleteAlways == Spec => []StoredIsComplete
<1>1. IInv => StoredIsComplete
  <2> SUFFICES ASSUME IInv, NEW i \in Ids, NEW v \in AnySize, image[i] # None
               PROVE  Answer(i, v) # NotFound
    BY DEF StoredIsComplete
  <2>1. Answer(i, v).format \in {"png", "svg"}
    BY AnswerOfStored DEF IInv
  <2>2. NotFound.format \notin {"png", "svg"}
    BY DEF NotFound, Bytes
  <2>3. QED
    BY <2>1, <2>2
<1>2. QED
  BY <1>1, Inductive, PTL

(* The content type sent is that of the bytes sent: see TypedAsStored.     *)
THEOREM TypedAsStoredAlways == Spec => []TypedAsStored
<1>1. IInv => TypedAsStored
  <2> SUFFICES ASSUME IInv, NEW i \in Ids, NEW v \in AnySize
               PROVE  Answer(i, v).format = Answer(i, v).data
    BY DEF TypedAsStored
  <2>1. CASE image[i] = None
    BY <2>1 DEF Answer, NotFound
  <2>2. CASE image[i] # None
    BY <2>2, AnswerOfStored DEF IInv
  <2>3. QED
    BY <2>1, <2>2
<1>2. QED
  BY <1>1, Inductive, PTL

(* No step changes what was answered once for an image: see                *)
(* AnswersAreImmutable.                                                    *)
THEOREM AnswersNeverChange == Spec => AnswersAreImmutable
<1>1. IInv /\ [Next]_vars =>
        [\A i \in Ids, v \in AnySize :
           Answer(i, v) # NotFound => Answer(i, v)' = Answer(i, v)]_vars
  <2> SUFFICES ASSUME IInv, [Next]_vars, NEW i \in Ids, NEW v \in AnySize,
                      Answer(i, v) # NotFound
               PROVE  Answer(i, v)' = Answer(i, v)
    OBVIOUS
  <2>1. image[i] # None
    BY DEF Answer
  <2>2. image'[i] = image[i]
    <3>1. \A u \in Users : upload[u] # None => upload[u].id # i
      BY <2>1 DEF IInv, UploadsOK, OwnPlace
    <3>2. \A u \in Users : Commit(u) => image'[i] = image[i]
      BY <3>1 DEF Commit, IInv, UploadsOK
    <3>3. (\E u \in Users : Commit(u)) \/ UNCHANGED image
      BY DEF Next, vars, Uploading, Answering, Begin, InsertVersion, Abandon, SetLogo,
         Publish, Check, Query, Store, Lose, Serve, Tick, Restart
    <3>4. QED
      BY <3>2, <3>3
  <2>3. QED
    BY <2>2 DEF Answer
<1>2. QED
  BY <1>1, Inductive, PTL DEF Spec, AnswersAreImmutable

(* The data of a whole image are all of one kind.                          *)
LEMMA OneKind ==
  ASSUME NEW data, Typed(data), Whole(data, <<>>)
  PROVE  \E kind \in {"png", "svg"} : \A v \in AnySize :
           IF data[v] # None THEN kind = "png" /\ data[v] = "png"
                             ELSE kind = "svg" /\ data["svg"] = "svg"
<1>1. ToSet(<<>>) = {}
  BY DEF ToSet
<1>2. CASE \A v \in SizeSet : data[v] # None
  BY <1>2, SizeSetIs DEF Typed
<1>3. CASE \A v \in SizeSet : data[v] = None
  <2>1. data["svg"] # None
    BY <1>1, <1>3 DEF Whole, SizeSet
  <2>2. QED
    BY <1>3, <2>1, SizeSetIs DEF Typed
<1>4. QED
  BY <1>1, <1>2, <1>3 DEF Whole

(* Steps of the store implement the abstract store: an image appears in    *)
(* one piece, as one kind of file, and stays: see ImplementsStore.         *)
THEOREM ImagesImplementStore == Spec => ImplementsStore
<1> DEFINE answers == [i \in Ids |-> {Answer(i, v) : v \in AnySize}]
<1>1. Init => StoreAbstract!Init
  BY SizeSetIs DEF Init, StoreAbstract!Init, StoreAbstract!Sent, Answer, NotFound, SizeSet
<1>2. IInv /\ [Next]_vars => [StoreAbstract!Next]_answers
  <2> SUFFICES ASSUME IInv, [Next]_vars
               PROVE  [StoreAbstract!Next]_answers
    OBVIOUS
  <2>1. CASE UNCHANGED image
    <3>1. answers' = answers
      BY <2>1 DEF Answer
    <3>2. QED
      BY <3>1
  <2>2. ASSUME NEW u \in Users, Commit(u), image' # image
        PROVE  StoreAbstract!Next
    <3>1. PICK p \in Uploads : p = upload[u]
      BY <2>2 DEF Commit, IInv, UploadsOK
    <3>2. /\ p # None /\ p.left = <<>> /\ p.id \in Ids
          /\ image' = [image EXCEPT ![p.id] = p.data]
      BY <2>2, <3>1 DEF Commit, Uploads
    <3>3. /\ image[p.id] = None /\ Typed(p.data) /\ Whole(p.data, <<>>)
          /\ image \in [Ids -> Contents \cup {None}]
      BY <3>1, <3>2 DEF IInv, UploadsOK, OwnPlace, OnItsWay
    <3> DEFINE i == p.id
    <3>4. /\ i \in Ids /\ image[i] = None /\ image'[i] = p.data
          /\ \A j \in Ids : j # i => image'[j] = image[j]
      BY <3>2, <3>3
    <3> HIDE DEF i
    <3>5. PICK kind \in {"png", "svg"} : \A v \in AnySize :
            IF p.data[v] # None THEN kind = "png" /\ p.data[v] = "png"
                                ELSE kind = "svg" /\ p.data["svg"] = "svg"
      BY <3>3, OneKind
    <3>6. p.data # None /\ None \notin {"png", "svg"}
      BY <2>2, <3>2, <3>3 DEF Bytes
    <3>7. \A v \in AnySize : Answer(i, v) = StoreAbstract!Sent(None)
      BY <3>4 DEF Answer, NotFound, StoreAbstract!Sent
    <3>8. \A v \in AnySize : Answer(i, v)' = StoreAbstract!Sent(kind)
      BY <3>4, <3>5, <3>6 DEF Answer, StoreAbstract!Sent, Versions
    <3>9. \A j \in Ids, v \in AnySize : j # i => Answer(j, v)' = Answer(j, v)
      BY <3>4 DEF Answer
    <3>10. "small" \in AnySize
      BY SizeSetIs DEF SizeSet
    <3>11. answers[i] = {StoreAbstract!Sent(None)} /\ answers'[i] = {StoreAbstract!Sent(kind)}
      BY <3>4, <3>7, <3>8, <3>10
    <3>12. answers' = [answers EXCEPT ![i] = {StoreAbstract!Sent(kind)}]
      <4>1. \A j \in Ids : j # i =>
              {Answer(j, v)' : v \in AnySize} = {Answer(j, v) : v \in AnySize}
        BY <3>9
      <4>2. \A j \in Ids : j # i => answers'[j] = answers[j]
        BY <4>1
      <4> HIDE DEF answers
      <4>3. DOMAIN answers = Ids /\ answers = [j \in Ids |-> answers[j]]
            /\ answers' = [j \in Ids |-> answers'[j]]
        BY DEF answers
      <4>4. QED
        BY <3>11, <4>2, <4>3
    <3>13. StoreAbstract!Add(i)
      BY <3>5, <3>11, <3>12 DEF StoreAbstract!Add
    <3>14. QED
      BY <3>4, <3>13 DEF StoreAbstract!Next
  <2>3. (\E u \in Users : Commit(u)) \/ UNCHANGED image
    BY DEF Next, vars, Uploading, Answering, Begin, InsertVersion, Abandon, SetLogo,
       Publish, Check, Query, Store, Lose, Serve, Tick, Restart
  <2>4. QED
    BY <2>1, <2>2, <2>3
<1>3. QED
  BY <1>1, <1>2, Inductive, PTL DEF Spec, ImplementsStore, StoreAbstract!Spec

(* An image that is served was public within the last day: see             *)
(* PublicWithinADay.                                                       *)
THEOREM PublicWithinADayAlways == Spec => []PublicWithinADay
<1>1. IInv => PublicWithinADay
  <2> SUFFICES ASSUME IInv, NEW r \in Readers, request[r].step = "serve"
               PROVE  sincePublic[request[r].id] < Long
    BY DEF PublicWithinADay
  <2>1. request[r].id \in Ids /\ sincePublic[request[r].id] <= Day + Late(r)
    BY DEF IInv, RoutesOK, Ages
  <2>2. Late(r) <= 1 /\ Late(r) \in Nat
    BY DEF Late
  <2>3. sincePublic[request[r].id] \in Int
    BY <2>1 DEF IInv, RoutesOK, Long
  <2>4. QED
    BY <2>1, <2>2, <2>3 DEF Long
<1>2. QED
  BY <1>1, Inductive, PTL

-----------------------------------------------------------------------------
(* Listings: places in a search.                                           *)

USE LimitAssumption, UnsetAssumption

Distinct(p) ==
  \A j, k \in Jobs : j # k /\ p[j] # Unset /\ p[k] # Unset => p[j].number # p[k].number

PublishedJobs == [Jobs -> Publications \cup {Unset}]

(* The order of a search is strict and total on the jobs of the board.     *)
LEMMA BeforeIsOrder ==
  ASSUME NEW f, NEW p \in PublishedJobs, Distinct(p),
         NEW i \in Jobs, NEW j \in Jobs, NEW k \in Jobs,
         p[i] # Unset, p[j] # Unset, p[k] # Unset
  PROVE  /\ ~Before(f, p, j, j)
         /\ j # k => Before(f, p, j, k) \/ Before(f, p, k, j)
         /\ Before(f, p, i, j) /\ Before(f, p, j, k) => Before(f, p, i, k)
<1>1. /\ p[i].number \in Int /\ p[j].number \in Int /\ p[k].number \in Int
      /\ j # k => p[j].number # p[k].number
  <2>1. \A l \in Jobs : p[l] # Unset => p[l].number \in Int
    <3>1. \A q \in Publications : q.number \in Int
      BY JobsAssumption, BoundsAssumption, FS_CardinalityType DEF Publications
    <3>2. QED
      BY <3>1 DEF PublishedJobs
  <2>2. QED
    BY <2>1 DEF Distinct
<1>2. Pay[i] \in Nat \cup {Unset} /\ Pay[j] \in Nat \cup {Unset} /\ Pay[k] \in Nat \cup {Unset}
  BY PayAssumption
<1>3. QED
  BY <1>1, <1>2 DEF Before, Newer

(* The jobs that match are finitely many, at most all.                     *)
LEMMA MatchingFinite ==
  ASSUME NEW f, NEW p, NEW d
  PROVE  /\ Matching(f, p, d) \subseteq Jobs
         /\ IsFiniteSet(Matching(f, p, d))
         /\ Cardinality(Matching(f, p, d)) \in 0..Cardinality(Jobs)
<1>1. Matching(f, p, d) \in SUBSET Jobs
  BY DEF Matching
<1>2. QED
  BY <1>1, JobsAssumption, FS_Subset, FS_CardinalityType

(* Ranks are distinct positions among the jobs that match.                 *)
LEMMA RankIsPosition ==
  ASSUME NEW f, NEW p \in PublishedJobs, Distinct(p), NEW d
  PROVE  /\ \A j \in Matching(f, p, d) :
              Rank(f, p, d, j) \in 0 .. Cardinality(Matching(f, p, d)) - 1
         /\ \A j, k \in Matching(f, p, d) :
              j # k => Rank(f, p, d, j) # Rank(f, p, d, k)
<1> DEFINE M == Matching(f, p, d)
           Ahead(j) == {k \in M : Before(f, p, k, j)}
<1>1. M \subseteq Jobs /\ IsFiniteSet(M) /\ \A j \in M : p[j] # Unset
  BY MatchingFinite DEF Matching
<1>2. \A j \in M : Rank(f, p, d, j) = Cardinality(Ahead(j))
  BY DEF Rank
<1> HIDE DEF M
<1>3. ASSUME NEW j \in M
      PROVE  Cardinality(Ahead(j)) \in 0 .. Cardinality(M) - 1
  <2>1. Ahead(j) \in SUBSET M /\ j \notin Ahead(j)
    BY <1>1, BeforeIsOrder
  <2>2. IsFiniteSet(Ahead(j)) /\ Cardinality(Ahead(j)) # Cardinality(M)
        /\ Cardinality(Ahead(j)) <= Cardinality(M)
    BY <1>1, <2>1, FS_Subset
  <2>3. Cardinality(Ahead(j)) \in Nat /\ Cardinality(M) \in Nat
    BY <1>1, <2>2, FS_CardinalityType
  <2>4. QED
    BY <2>2, <2>3
<1>4. ASSUME NEW j \in M, NEW k \in M, Before(f, p, j, k)
      PROVE  Cardinality(Ahead(j)) # Cardinality(Ahead(k))
  <2>1. Ahead(j) \in SUBSET Ahead(k) /\ j \in Ahead(k) /\ j \notin Ahead(j)
    BY <1>1, <1>4, BeforeIsOrder
  <2>2. IsFiniteSet(Ahead(k))
    BY <1>1, FS_Subset
  <2>3. QED
    BY <2>1, <2>2, FS_Subset
<1>5. \A j, k \in M : j # k => Before(f, p, j, k) \/ Before(f, p, k, j)
  BY <1>1, BeforeIsOrder
<1>6. QED
  BY <1>2, <1>3, <1>4, <1>5 DEF M

(* As many jobs at most have a rank in a range as the range is long.       *)
LEMMA FewInRange ==
  ASSUME NEW f, NEW p \in PublishedJobs, Distinct(p), NEW d,
         NEW a \in Int, NEW n \in Nat, NEW S,
         \A j \in S : j \in Matching(f, p, d) /\ Rank(f, p, d, j) \in a .. a + n - 1
  PROVE  IsFiniteSet(S) /\ Cardinality(S) <= n
<1> DEFINE rank == [j \in S |-> Rank(f, p, d, j)]
<1>1. rank \in Injection(S, a .. a + n - 1)
  <2>1. rank \in [S -> a .. a + n - 1]
    OBVIOUS
  <2>2. \A j, k \in S : rank[j] = rank[k] => j = k
    BY RankIsPosition
  <2>3. QED
    BY <2>1, <2>2 DEF Injection, IsInjective
<1>2. IsFiniteSet(a .. a + n - 1) /\ Cardinality(a .. a + n - 1) = n
  BY FS_Interval
<1> HIDE DEF rank
<1>3. QED
  BY <1>1, <1>2, FS_Injection

(* A job moves up by no more places than jobs ahead of it go: between two  *)
(* boards that agree on the job and on all that match but those in gone.   *)
LEMMA RankFalls ==
  ASSUME NEW f, NEW p, NEW d, NEW q, NEW e, NEW j \in Jobs, p[j] = q[j],
         NEW gone, IsFiniteSet(gone),
         \A k \in Matching(f, p, d) :
           k \in gone \/ (k \in Matching(f, q, e) /\ p[k] = q[k])
  PROVE  Rank(f, p, d, j) <= Rank(f, q, e, j) + Cardinality(gone)
<1> DEFINE Then == {k \in Matching(f, p, d) : Before(f, p, k, j)}
           Now == {k \in Matching(f, q, e) : Before(f, q, k, j)}
<1>1. Then \subseteq Now \cup gone
  BY DEF Before, Newer
<1>2. IsFiniteSet(Now) /\ Now \in SUBSET Matching(f, q, e)
  BY MatchingFinite, FS_Subset
<1>3. IsFiniteSet(Now \cup gone)
      /\ Cardinality(Now \cup gone) = Cardinality(Now) + Cardinality(gone) - Cardinality(Now \cap gone)
  BY <1>2, FS_Union
<1>4. /\ Cardinality(Now) \in Nat /\ Cardinality(gone) \in Nat
      /\ Cardinality(Now \cap gone) \in Nat
  BY <1>2, FS_Intersection, FS_CardinalityType
<1>5. Cardinality(Then) <= Cardinality(Now \cup gone) /\ IsFiniteSet(Then)
  BY <1>1, <1>3, FS_Subset
<1>6. Cardinality(Then) \in Nat
  BY <1>5, FS_CardinalityType
<1>7. QED
  BY <1>3, <1>4, <1>5, <1>6 DEF Rank


-----------------------------------------------------------------------------
(* Listings: searches.                                                     *)

(* What is left out when filters are written is put back when they are     *)
(* read, but for a limit of zero.                                          *)
LEMMA WrittenKeeps ==
  ASSUME NEW f \in Filters
  PROVE  /\ Written(f) \in Filters
         /\ Offset(f) \in Nat /\ Limit(f) \in Nat
         /\ Offset(Written(f)) = Offset(f)
         /\ Limit(Written(f)) \in Nat \ {0}
         /\ f.limit # 0 => Limit(Written(f)) = Limit(f)
BY DEF Filters, Written, Offset, Limit, Or, Unless

(* The link to the next page searches for the same, from there on.         *)
LEMMA NextSearch ==
  ASSUME NEW f \in Filters, f.limit # 0, NEW n \in Nat \ {0}
  PROVE  LET g == Written([f EXCEPT !.offset = n])
         IN  /\ g \in Filters /\ g.limit # 0
             /\ Offset(g) = n /\ Limit(g) = Limit(f)
             /\ Written(g).sort = Written(f).sort
             /\ Written(g).range = Written(f).range
BY DEF Filters, Sorts, Written, Offset, Limit, Or, Unless

LEMMA SameSearch ==
  ASSUME NEW f, NEW g, g.sort = f.sort, g.range = f.range, NEW p, NEW d
  PROVE  /\ Matching(g, p, d) = Matching(f, p, d)
         /\ \A j : Rank(g, p, d, j) = Rank(f, p, d, j)
BY DEF Matching, Rank, Before

-----------------------------------------------------------------------------
(* Listings: the invariant.                                                *)

Search(r) == Written(reading[r].filters)

Place(r, j) == Rank(Search(r), published, day, j)

(* The first place after the last page that was read.                      *)
End(r) == Offset(Search(r)) + Limit(Search(r))

(* The jobs that stayed and that no page will show any more.               *)
Skipped(r) == {j \in stayed[r] : seen[r][j] = 0 /\ Place(r, j) < End(r)}

(* The times after the first that a job that stayed was shown, or will be. *)
Again(r) ==
  {t \in stayed[r] \X Nat :
     /\ 2 <= t[2]
     /\ \/ t[2] <= seen[r][t[1]]
        \/ t[2] = seen[r][t[1]] + 1 /\ Place(r, t[1]) >= End(r)}

Numbered ==
  /\ Distinct(published)
  /\ \A j \in Jobs : published[j] # Unset =>
       published[j].number <= Cardinality(Jobs) + changes

Answered(r) ==
  /\ reading[r].filters.limit = 0 =>
       Offset(reading[r].filters) = 0 /\ reading[r].links.next = Unset
  /\ reading[r].step = "reading" =>
       /\ ~Panics(reading[r].filters, reading[r].total)
       /\ reading[r].links = LinksOf(reading[r].filters, reading[r].total)
  /\ reading[r].step = "failed" =>
       reading[r].links = NoLinks /\ \A j \in Jobs : seen[r][j] = 0

Stays(r) == stayed[r] \subseteq Matching(Search(r), published, day)

Missed(r) == {j \in stayed[r] : seen[r][j] = 0}

Counted(r) ==
  /\ reading[r].step = "reading" => Cardinality(Skipped(r)) <= left[r]
  /\ AtLastPage(r) => Cardinality(Missed(r)) <= left[r]
  /\ IsFiniteSet(Again(r)) /\ Cardinality(Again(r)) <= came[r]

ReaderOK(r) ==
  IF reading[r] = Unset THEN stayed[r] = {}
                        ELSE Answered(r) /\ Stays(r) /\ Counted(r)

ListingsIInv ==
  /\ ListingsTypeOK
  /\ Numbered
  /\ \A r \in Visitors : ReaderOK(r)

-----------------------------------------------------------------------------
(* Listings: answers.                                                      *)

LEMMA LinksTyped ==
  ASSUME NEW f \in Filters, NEW total \in Nat
  PROVE  /\ NoLinks \in Links
         /\ ~Panics(f, total) => LinksOf(f, total) \in Links
<1>1. NoLinks \in Links
  BY DEF NoLinks, Links, Offsets
<1>2. ASSUME ~Panics(f, total)
      PROVE  LinksOf(f, total) \in Links
  <2>1. Offset(f) \in Nat /\ Limit(f) \in Nat
    BY WrittenKeeps
  <2>2. CASE total > Offset(f) + Limit(f)
    <3>1. Limit(f) # 0
      BY <1>2, <2>1, <2>2 DEF Panics, Limit, Or
    <3>2. total % Limit(f) \in 0 .. Limit(f) - 1
      BY <2>1, <3>1
    <3>3. total - Limit(f) \in Nat /\ total - (total % Limit(f)) \in Nat
      BY <2>1, <2>2, <3>2
    <3>4. QED
      BY <2>1, <2>2, <3>3 DEF LinksOf, Links, Offsets
  <2>3. CASE ~(total > Offset(f) + Limit(f))
    BY <2>1, <2>3 DEF LinksOf, Links, Offsets
  <2>4. QED
    BY <2>2, <2>3
<1>3. QED
  BY <1>1, <1>2

(* What a request leaves its visitor with.                                 *)
LEMMA AnswerTyped ==
  ASSUME ListingsTypeOK, NEW r \in Visitors, NEW f \in Filters,
         f.limit = 0 => Offset(f) = 0, Ask(r, f, Total(f))
  PROVE  /\ reading' \in [Visitors -> Readings \cup {Unset}]
         /\ \A w \in Visitors \ {r} : reading'[w] = reading[w]
         /\ reading'[r] \in Readings /\ reading'[r].filters = f
         /\ reading'[r].total = Total(f)
         /\ IF Panics(f, Total(f))
              THEN reading'[r].step = "failed" /\ reading'[r].links = NoLinks
              ELSE reading'[r].step = "reading" /\ reading'[r].links = LinksOf(f, Total(f))
         /\ f.limit = 0 => reading'[r].links.next = Unset
<1>1. Total(f) \in 0..Cardinality(Jobs)
  BY MatchingFinite DEF Total
<1>2. Total(f) \in Nat
  BY <1>1, JobsAssumption, FS_CardinalityType
<1>3. NoLinks \in Links /\ (~Panics(f, Total(f)) => LinksOf(f, Total(f)) \in Links)
  BY <1>2, LinksTyped
<1>4. f.limit = 0 => IF Panics(f, Total(f)) THEN NoLinks.next = Unset
                                            ELSE LinksOf(f, Total(f)).next = Unset
  BY <1>2 DEF Panics, LinksOf, NoLinks, Offset, Limit, Or
<1> HIDE DEF Total, Panics
<1>5. QED
  BY <1>1, <1>3, <1>4 DEF Ask, ListingsTypeOK, Readings

LEMMA TimesShown ==
  ASSUME ListingsTypeOK, NEW r \in Visitors, NEW before \in [Jobs -> Nat], NEW shown,
         Show(r, before, shown)
  PROVE  /\ seen' \in [Visitors -> [Jobs -> Nat]]
         /\ \A w \in Visitors \ {r} : seen'[w] = seen[w]
         /\ \A j \in Jobs : seen'[r][j] = IF j \in shown THEN before[j] + 1 ELSE before[j]
BY DEF Show, ListingsTypeOK

(* Nothing changes for a visitor about whom nothing changes.               *)
LEMMA Untouched ==
  ASSUME NEW r, ReaderOK(r), UNCHANGED <<published, day>>, reading'[r] = reading[r],
         seen'[r] = seen[r], stayed'[r] = stayed[r], left'[r] = left[r],
         came'[r] = came[r]
  PROVE  ReaderOK(r)'
<1>1. Answered(r)' <=> Answered(r)
  BY DEF Answered
<1>2. Search(r)' = Search(r) /\ End(r)' = End(r) /\ \A j : Place(r, j)' = Place(r, j)
  BY DEF Search, End, Place
<1>3. Skipped(r)' = Skipped(r) /\ Again(r)' = Again(r) /\ Missed(r)' = Missed(r)
  BY <1>2 DEF Skipped, Again, Missed
<1>4. QED
  BY <1>1, <1>2, <1>3 DEF ReaderOK, Stays, Counted, AtLastPage

(* What is on a page, and what is not yet or no longer.                    *)
LEMMA PageIs ==
  ASSUME ListingsTypeOK, Numbered, NEW f \in Filters
  PROVE  LET W == Written(f)
             M == Matching(W, published, day)
             Pos(j) == Rank(W, published, day, j)
         IN  /\ Page(W) \subseteq M
             /\ \A j \in M : Pos(j) \in 0 .. Total(f) - 1
             /\ \A j \in M : j \in Page(W) <=>
                  Pos(j) >= Offset(W) /\ Pos(j) < Offset(W) + Limit(W)
<1> DEFINE W == Written(f)
           M == Matching(W, published, day)
<1>1. published \in PublishedJobs /\ Distinct(published)
  BY DEF ListingsTypeOK, PublishedJobs, Numbered
<1>2. \A j \in M : Rank(W, published, day, j) \in 0 .. Cardinality(M) - 1
  BY <1>1, RankIsPosition
<1>3. Offset(W) \in Nat /\ Limit(W) \in Nat
  BY WrittenKeeps
<1>4. Cardinality(M) \in Nat
  BY MatchingFinite, JobsAssumption, FS_CardinalityType
<1>5. QED
  BY <1>2, <1>3, <1>4 DEF Page, Total

(* An answer that is shown, with all that was on the board at the time.    *)
LEMMA LastPageEnds ==
  ASSUME NEW f \in Filters, f.limit = 0 => Offset(f) = 0, NEW total \in Nat,
         ~Panics(f, total), LinksOf(f, total).next = Unset
  PROVE  total <= Offset(Written(f)) + Limit(Written(f))
<1>1. /\ Offset(f) \in Nat /\ Limit(f) \in Nat /\ Offset(Written(f)) = Offset(f)
      /\ Limit(Written(f)) \in Nat /\ (f.limit # 0 => Limit(Written(f)) = Limit(f))
  BY WrittenKeeps
<1>2. ~(total > Offset(f) + Limit(f))
  BY <1>1 DEF LinksOf
<1>3. CASE f.limit = 0
  BY <1>1, <1>3 DEF Panics
<1>4. CASE f.limit # 0
  BY <1>1, <1>2, <1>4
<1>5. QED
  BY <1>3, <1>4

(* The first page: nothing is skipped, and nothing was shown before.       *)
LEMMA OpenKeeps ==
  ASSUME ListingsIInv, NEW r \in Visitors, NEW f \in Asked, Open(r, f)
  PROVE  ListingsIInv'
<1> DEFINE W == Written(f)
           M == Matching(W, published, day)
           Pos(j) == Rank(W, published, day, j)
<1>1. /\ f \in Filters /\ f.offset = Unset /\ Offset(f) = 0
  BY AskedAssumption DEF Offset, Or
<1>2. /\ Ask(r, f, Total(f)) /\ Show(r, [j \in Jobs |-> 0], Shown(f))
      /\ stayed' = [stayed EXCEPT ![r] = M]
      /\ left' = [left EXCEPT ![r] = 0] /\ came' = [came EXCEPT ![r] = 0]
      /\ UNCHANGED <<day, published, changes>>
  BY DEF Open
<1>3. ListingsTypeOK /\ Numbered
  BY DEF ListingsIInv
<1>4. /\ reading' \in [Visitors -> Readings \cup {Unset}]
      /\ \A w \in Visitors \ {r} : reading'[w] = reading[w]
      /\ reading'[r] \in Readings /\ reading'[r].filters = f
      /\ reading'[r].total = Total(f)
      /\ IF Panics(f, Total(f))
           THEN reading'[r].step = "failed" /\ reading'[r].links = NoLinks
           ELSE reading'[r].step = "reading" /\ reading'[r].links = LinksOf(f, Total(f))
      /\ f.limit = 0 => reading'[r].links.next = Unset
  BY <1>1, <1>2, <1>3, AnswerTyped
<1>5. /\ seen' \in [Visitors -> [Jobs -> Nat]]
      /\ \A w \in Visitors \ {r} : seen'[w] = seen[w]
      /\ \A j \in Jobs : seen'[r][j] = IF j \in Shown(f) THEN 1 ELSE 0
  <2>1. [j \in Jobs |-> 0] \in [Jobs -> Nat]
    OBVIOUS
  <2>2. QED
    BY <1>2, <1>3, <2>1, TimesShown
<1>6. M \subseteq Jobs
  BY MatchingFinite
<1>7. ListingsTypeOK'
  BY <1>2, <1>3, <1>4, <1>5, <1>6 DEF ListingsTypeOK
<1>8. Numbered'
  BY <1>2, <1>3 DEF Numbered, Distinct
<1>9. ASSUME NEW w \in Visitors \ {r}
      PROVE  ReaderOK(w)'
  <2>1. ReaderOK(w)
    BY DEF ListingsIInv
  <2>2. stayed'[w] = stayed[w] /\ left'[w] = left[w] /\ came'[w] = came[w]
    BY <1>2, <1>3 DEF ListingsTypeOK
  <2>3. QED
    BY <1>2, <1>4, <1>5, <2>1, <2>2, Untouched
<1>10. ReaderOK(r)'
  <2>1. /\ Search(r)' = W /\ stayed'[r] = M /\ left'[r] = 0 /\ came'[r] = 0
        /\ End(r)' = Offset(W) + Limit(W) /\ \A j : Place(r, j)' = Pos(j)
    BY <1>2, <1>3, <1>4 DEF Search, End, Place, ListingsTypeOK
  <2>2. Answered(r)'
    BY <1>1, <1>4, <1>5 DEF Answered, Shown
  <2>3. Stays(r)'
    BY <1>2, <2>1 DEF Stays
  <2>4. /\ Page(W) \subseteq M
        /\ \A j \in M : Pos(j) \in 0 .. Total(f) - 1
        /\ \A j \in M : j \in Page(W) <=>
             Pos(j) >= Offset(W) /\ Pos(j) < Offset(W) + Limit(W)
    BY <1>1, <1>3, PageIs
  <2>5. /\ Offset(W) = 0 /\ Limit(W) \in Nat /\ Total(f) \in Nat
    <3>1. Offset(W) = 0 /\ Limit(W) \in Nat
      BY <1>1, WrittenKeeps
    <3>2. Total(f) \in Nat
      BY MatchingFinite, JobsAssumption, FS_CardinalityType DEF Total
    <3>3. QED
      BY <3>1, <3>2
  <2>6. ASSUME ~Panics(f, Total(f))
        PROVE  Skipped(r)' = {}
    BY <1>5, <1>6, <2>1, <2>4, <2>5, <2>6 DEF Skipped, Shown
  <2>7. ASSUME ~Panics(f, Total(f)), LinksOf(f, Total(f)).next = Unset
        PROVE  Missed(r)' = {}
    <3>1. Total(f) <= Offset(W) + Limit(W)
      BY <1>1, <2>5, <2>7, LastPageEnds
    <3>2. M \subseteq Page(W)
      BY <2>4, <2>5, <3>1
    <3>3. QED
      BY <1>5, <1>6, <2>1, <2>7, <3>2 DEF Missed, Shown
  <2>8. Again(r)' = {}
    <3>1. \A j \in M : seen'[r][j] = 0 \/ (seen'[r][j] = 1 /\ Pos(j) < End(r)')
      BY <1>5, <1>6, <2>1, <2>4 DEF Shown
    <3>2. \A j \in M : Pos(j) \in Int /\ End(r)' \in Int
      BY <2>1, <2>4, <2>5
    <3>3. QED
      BY <2>1, <3>1, <3>2 DEF Again
  <2>9. Counted(r)'
    <3>1. Cardinality({}) = 0 /\ IsFiniteSet({})
      BY FS_EmptySet
    <3>2. reading'[r].step = "reading" => ~Panics(f, Total(f)) /\ Skipped(r)' = {}
      BY <1>4, <2>6
    <3>3. AtLastPage(r)' => Missed(r)' = {}
      BY <1>4, <2>7 DEF AtLastPage
    <3>4. /\ Skipped(r)' = {} => Cardinality(Skipped(r)') = 0
          /\ Missed(r)' = {} => Cardinality(Missed(r)') = 0
          /\ IsFiniteSet(Again(r)') /\ Cardinality(Again(r)') = 0
      BY <2>8, <3>1, Zenon
    <3>5. left'[r] = 0 /\ came'[r] = 0
      BY <2>1
    <3>6. QED
      BY <3>2, <3>3, <3>4, <3>5 DEF Counted
  <2>10. QED
    BY <1>4, <2>2, <2>3, <2>9 DEF ReaderOK
<1>11. QED
  BY <1>7, <1>8, <1>9, <1>10 DEF ListingsIInv

(* The next page shows the places after those that were read: it skips     *)
(* nothing, and shows again what had fallen back behind them.              *)
LEMMA FollowKeeps ==
  ASSUME ListingsIInv, NEW r \in Visitors, Follow(r)
  PROVE  ListingsIInv'
<1> DEFINE g == reading[r].filters
           f == NextFilters(r)
           W == Written(f)
           M == Matching(W, published, day)
           Pos(j) == Rank(W, published, day, j)
<1>1. /\ Ask(r, f, Total(f)) /\ Show(r, seen[r], Shown(f))
      /\ UNCHANGED <<day, published, changes, stayed, left, came>>
      /\ reading[r] # Unset /\ reading[r].links.next # Unset
  BY DEF Follow
<1>2. ListingsTypeOK /\ Numbered /\ Answered(r) /\ Stays(r) /\ Counted(r)
  BY <1>1 DEF ListingsIInv, ReaderOK
<1>3. reading[r] \in Readings /\ g \in Filters /\ seen[r] \in [Jobs -> Nat]
      /\ stayed[r] \subseteq Jobs
  BY <1>1, <1>2 DEF ListingsTypeOK, Readings
<1>4. /\ g.limit # 0 /\ reading[r].step = "reading"
      /\ reading[r].links = LinksOf(g, reading[r].total)
  BY <1>1, <1>2, <1>3 DEF Answered, Readings, NoLinks
<1>5. /\ Offset(g) \in Nat /\ Limit(g) \in Nat /\ Limit(g) = Limit(Written(g))
      /\ Limit(Written(g)) # 0 /\ Offset(Written(g)) = Offset(g)
  BY <1>3, <1>4, WrittenKeeps
<1>6. reading[r].links.next = Offset(g) + Limit(g) /\ End(r) = Offset(g) + Limit(g)
  BY <1>1, <1>4, <1>5 DEF LinksOf, End, Search
<1>7. /\ f \in Filters /\ f.limit # 0 /\ Offset(f) = End(r)
      /\ Written(f).sort = Written(g).sort /\ Written(f).range = Written(g).range
  BY <1>3, <1>4, <1>5, <1>6, NextSearch DEF NextFilters
<1>8. /\ M = Matching(Written(g), published, day) /\ \A j : Pos(j) = Place(r, j)
  BY <1>7, SameSearch DEF Place, Search
<1>9. /\ End(r) \in Nat /\ Offset(W) = End(r) /\ Limit(W) \in Nat
  BY <1>5, <1>6, <1>7, WrittenKeeps
<1> HIDE DEF f, g
<1>10. /\ reading' \in [Visitors -> Readings \cup {Unset}]
       /\ \A w \in Visitors \ {r} : reading'[w] = reading[w]
       /\ reading'[r] \in Readings /\ reading'[r].filters = f
       /\ reading'[r].total = Total(f)
       /\ IF Panics(f, Total(f))
            THEN reading'[r].step = "failed" /\ reading'[r].links = NoLinks
            ELSE reading'[r].step = "reading" /\ reading'[r].links = LinksOf(f, Total(f))
  BY <1>1, <1>2, <1>7, AnswerTyped
<1>11. ~Panics(f, Total(f))
  BY <1>7 DEF Panics
<1>12. /\ seen' \in [Visitors -> [Jobs -> Nat]]
       /\ \A w \in Visitors \ {r} : seen'[w] = seen[w]
       /\ \A j \in Jobs : seen'[r][j] = IF j \in Page(W) THEN seen[r][j] + 1 ELSE seen[r][j]
  BY <1>1, <1>2, <1>3, <1>11, TimesShown DEF Shown
<1>13. ListingsTypeOK' /\ Numbered'
  BY <1>1, <1>2, <1>10, <1>12 DEF ListingsTypeOK, Numbered, Distinct
<1>14. ASSUME NEW w \in Visitors \ {r}
       PROVE  ReaderOK(w)'
  <2>1. ReaderOK(w)
    BY DEF ListingsIInv
  <2>2. QED
    BY <1>1, <1>10, <1>12, <2>1, Untouched
<1>15. ReaderOK(r)'
  <2>1. /\ Search(r)' = W /\ End(r)' = End(r) + Limit(W)
        /\ \A j : Place(r, j)' = Pos(j)
    BY <1>1, <1>9, <1>10 DEF Search, End, Place
  <2>2. Answered(r)'
    BY <1>7, <1>10, <1>11 DEF Answered
  <2>3. Stays(r)' /\ stayed[r] \subseteq M
    BY <1>1, <1>2, <1>8, <2>1 DEF Stays, Search, g
  <2>4. /\ \A j \in M : Pos(j) \in 0 .. Total(f) - 1
        /\ \A j \in M : j \in Page(W) <=> Pos(j) >= End(r) /\ Pos(j) < End(r)'
    BY <1>2, <1>7, <1>9, <2>1, PageIs
  <2>5. Total(f) \in Nat
    BY MatchingFinite, JobsAssumption, FS_CardinalityType DEF Total
  <2>6. \A j \in stayed[r] : /\ j \in M /\ j \in Jobs /\ Pos(j) \in Nat
                             /\ Place(r, j) = Pos(j) /\ Place(r, j)' = Pos(j)
                             /\ seen[r][j] \in Nat
    BY <1>3, <1>8, <2>1, <2>3, <2>4, <2>5
  <2>7. Skipped(r)' = Skipped(r)
    BY <1>1, <1>9, <1>12, <2>1, <2>4, <2>6 DEF Skipped
  <2>8. Again(r)' = Again(r)
    <3>1. ASSUME NEW j \in stayed[r], NEW n \in Nat, 2 <= n
          PROVE  <<j, n>> \in Again(r)' <=> <<j, n>> \in Again(r)
      BY <1>1, <1>9, <1>12, <2>1, <2>4, <2>6, <3>1 DEF Again
    <3>2. QED
      BY <1>1, <3>1 DEF Again
  <2>9. AtLastPage(r)' => Missed(r)' = Skipped(r)'
    <3>1. SUFFICES ASSUME AtLastPage(r)' PROVE Missed(r)' = Skipped(r)'
      OBVIOUS
    <3>2. Total(f) <= End(r)'
      BY <1>7, <1>9, <1>10, <1>11, <2>1, <2>5, <3>1, LastPageEnds DEF AtLastPage
    <3>3. \A j \in stayed[r] : Pos(j) < End(r)'
      BY <1>9, <2>1, <2>4, <2>5, <2>6, <3>2
    <3>4. QED
      BY <1>1, <2>6, <3>3 DEF Missed, Skipped
  <2>10. Counted(r)'
    BY <1>1, <1>2, <1>4, <2>7, <2>8, <2>9 DEF Counted
  <2>11. QED
    BY <1>10, <2>2, <2>3, <2>10 DEF ReaderOK
<1>16. QED
  BY <1>13, <1>14, <1>15 DEF ListingsIInv

LEMMA LeaveKeeps ==
  ASSUME ListingsIInv, NEW r \in Visitors, Leave(r)
  PROVE  ListingsIInv'
<1>1. ListingsTypeOK /\ Numbered
  BY DEF ListingsIInv
<1>2. ListingsTypeOK' /\ Numbered'
  BY <1>1 DEF Leave, ListingsTypeOK, Numbered, Distinct
<1>3. ASSUME NEW w \in Visitors \ {r}
      PROVE  ReaderOK(w)'
  <2>1. ReaderOK(w)
    BY DEF ListingsIInv
  <2>2. QED
    BY <1>1, <2>1, Untouched DEF Leave, ListingsTypeOK
<1>4. ReaderOK(r)'
  BY <1>1 DEF Leave, ReaderOK, ListingsTypeOK
<1>5. QED
  BY <1>2, <1>3, <1>4 DEF ListingsIInv

-----------------------------------------------------------------------------
(* Listings: changes of the board.                                         *)

LEMMA AtMostBoth ==
  ASSUME NEW S, NEW T, IsFiniteSet(S), IsFiniteSet(T), NEW U, U \subseteq S \cup T
  PROVE  IsFiniteSet(U) /\ Cardinality(U) <= Cardinality(S) + Cardinality(T)
<1>1. /\ IsFiniteSet(S \cup T)
      /\ Cardinality(S \cup T) = Cardinality(S) + Cardinality(T) - Cardinality(S \cap T)
  BY FS_Union
<1>2. IsFiniteSet(U) /\ Cardinality(U) <= Cardinality(S \cup T)
  BY <1>1, FS_Subset
<1>3. IsFiniteSet(S \cap T)
  BY FS_Intersection
<1>4. /\ Cardinality(S) \in Nat /\ Cardinality(T) \in Nat /\ Cardinality(U) \in Nat
      /\ Cardinality(S \cap T) \in Nat
  BY <1>2, <1>3, FS_CardinalityType
<1>5. QED
  BY <1>1, <1>2, <1>4

(* What a change does to a visitor is paid for by the jobs that left, in   *)
(* what is skipped, and by the jobs that came, in what is shown again.     *)
LEMMA ChangePaid ==
  ASSUME ListingsIInv, published' \in PublishedJobs, Distinct(published'),
         NEW r \in Visitors, reading[r] # Unset, UNCHANGED <<reading, seen>>,
         NEW Was, Was = Matching(Search(r), published, day),
         NEW Is, Is = Matching(Search(r), published', day'),
         NEW Same, Same = {j \in Was \cap Is : published'[j] = published[j]},
         stayed'[r] = stayed[r] \cap Same,
         left'[r] = left[r] + Cardinality(Was \ Same),
         came'[r] = came[r] + Cardinality(Is \ Same)
  PROVE  ReaderOK(r)'
<1> DEFINE W == Search(r)
           gone == Cardinality(Was \ Same)
           new == Cardinality(Is \ Same)
<1>1. ListingsTypeOK /\ Numbered /\ Answered(r) /\ Stays(r) /\ Counted(r)
  BY DEF ListingsIInv, ReaderOK
<1>2. /\ published \in PublishedJobs /\ Distinct(published)
      /\ reading[r] \in Readings /\ reading[r].filters \in Filters
      /\ seen[r] \in [Jobs -> Nat] /\ left[r] \in Nat /\ came[r] \in Nat
      /\ stayed[r] \subseteq Jobs
  BY <1>1 DEF ListingsTypeOK, Numbered, PublishedJobs, Readings
<1>3. /\ IsFiniteSet(Was \ Same) /\ IsFiniteSet(Is \ Same)
      /\ gone \in Nat /\ new \in Nat
  <2>1. IsFiniteSet(Was \ Same) /\ IsFiniteSet(Is \ Same)
    BY MatchingFinite, FS_Subset
  <2>2. QED
    BY <2>1, FS_CardinalityType
<1>4. End(r) \in Nat /\ End(r)' = End(r) /\ Search(r)' = W
  <2>1. Search(r)' = W
    BY DEF Search
  <2>2. QED
    BY <1>2, <2>1, WrittenKeeps DEF End, Search
<1>5. \A j : Place(r, j) = Rank(W, published, day, j)
             /\ Place(r, j)' = Rank(W, published', day', j)
  BY <1>4 DEF Place
<1>6. ASSUME NEW j \in Same
      PROVE  /\ j \in Jobs /\ j \in Was /\ j \in Is
             /\ Place(r, j) \in Nat /\ Place(r, j)' \in Nat
             /\ Place(r, j) <= Place(r, j)' + gone
             /\ Place(r, j)' <= Place(r, j) + new
  <2>1. j \in Jobs /\ j \in Was /\ j \in Is /\ published[j] = published'[j]
    BY MatchingFinite
  <2>2. Rank(W, published, day, j) \in Nat
    <3>1. Rank(W, published, day, j) \in 0 .. Cardinality(Was) - 1
      BY <1>2, <2>1, RankIsPosition
    <3>2. QED
      BY <3>1
  <2>3. Rank(W, published', day', j) \in Nat
    <3>1. Rank(W, published', day', j) \in 0 .. Cardinality(Is) - 1
      BY <2>1, RankIsPosition
    <3>2. QED
      BY <3>1
  <2>4. Rank(W, published, day, j) <= Rank(W, published', day', j) + gone
    BY <1>3, <2>1, RankFalls
  <2>5. Rank(W, published', day', j) <= Rank(W, published, day, j) + new
    BY <1>3, <2>1, RankFalls
  <2>6. QED
    BY <1>5, <2>1, <2>2, <2>3, <2>4, <2>5
<1>7. Answered(r)'
  BY <1>1 DEF Answered
<1>8. Stays(r)'
  BY <1>4, <1>6 DEF Stays
<1>9. \A j \in stayed'[r] : j \in Same /\ j \in stayed[r] /\ seen[r][j] \in Nat
  BY <1>2
<1>10. reading[r].step = "reading" => Cardinality(Skipped(r)') <= left'[r]
  <2> DEFINE extra == Skipped(r)' \ Skipped(r)
  <2>1. ASSUME NEW j \in extra
        PROVE  j \in Was /\ Rank(W, published, day, j) \in End(r) .. End(r) + gone - 1
    <3>1. j \in stayed'[r] /\ seen'[r][j] = 0 /\ Place(r, j)' < End(r)'
      BY DEF Skipped
    <3>2. j \in Same /\ j \in stayed[r] /\ seen[r][j] = 0
      BY <1>9, <3>1
    <3>3. ~(Place(r, j) < End(r))
      BY <3>2 DEF Skipped
    <3>4. /\ j \in Was /\ Place(r, j) \in Nat /\ Place(r, j)' \in Nat
          /\ Place(r, j) <= Place(r, j)' + gone
      BY <1>6, <3>2
    <3> HIDE DEF gone, W
    <3>5. Place(r, j) \in End(r) .. End(r) + gone - 1
      BY <1>3, <1>4, <3>1, <3>3, <3>4
    <3>6. QED
      BY <1>5, <3>4, <3>5
  <2>2. IsFiniteSet(extra) /\ Cardinality(extra) <= gone
    <3> HIDE DEF extra, gone
    <3>1. End(r) \in Int
      BY <1>4
    <3>2. QED
      BY <1>2, <1>3, <2>1, <3>1, FewInRange
  <2>3. IsFiniteSet(Skipped(r))
    BY <1>2, JobsAssumption, FS_Subset DEF Skipped
  <2>4. /\ IsFiniteSet(Skipped(r)')
        /\ Cardinality(Skipped(r)') <= Cardinality(Skipped(r)) + Cardinality(extra)
    BY <2>2, <2>3, AtMostBoth
  <2>5. /\ Cardinality(Skipped(r)') \in Nat /\ Cardinality(Skipped(r)) \in Nat
        /\ Cardinality(extra) \in Nat
    BY <2>2, <2>3, <2>4, FS_CardinalityType
  <2> HIDE DEF extra
  <2>6. QED
    BY <1>1, <1>2, <1>3, <2>2, <2>4, <2>5 DEF Counted
<1>11. AtLastPage(r) => Cardinality(Missed(r)') <= left'[r]
  <2>1. Missed(r)' \in SUBSET Missed(r) /\ IsFiniteSet(Missed(r))
    BY <1>2, <1>9, JobsAssumption, FS_Subset DEF Missed
  <2>2. IsFiniteSet(Missed(r)') /\ Cardinality(Missed(r)') <= Cardinality(Missed(r))
    BY <2>1, FS_Subset
  <2>3. Cardinality(Missed(r)) \in Nat /\ Cardinality(Missed(r)') \in Nat
    BY <2>1, <2>2, FS_CardinalityType
  <2>4. QED
    BY <1>1, <1>2, <1>3, <2>2, <2>3 DEF Counted
<1>12. IsFiniteSet(Again(r)') /\ Cardinality(Again(r)') <= came'[r]
  <2> DEFINE fell == {j \in stayed'[r] : Place(r, j) < End(r) /\ Place(r, j)' >= End(r)}
             extra == {<<j, seen[r][j] + 1>> : j \in fell}
             pair == [j \in fell |-> <<j, seen[r][j] + 1>>]
  <2>1. ASSUME NEW j \in fell
        PROVE  j \in Was /\ Rank(W, published, day, j) \in End(r) - new .. End(r) - new + new - 1
    <3>1. j \in Same /\ Place(r, j) < End(r) /\ Place(r, j)' >= End(r)
      BY <1>9
    <3>2. /\ j \in Was /\ Place(r, j) \in Nat /\ Place(r, j)' \in Nat
          /\ Place(r, j)' <= Place(r, j) + new
      BY <1>6, <3>1
    <3> HIDE DEF new, W
    <3>3. Place(r, j) \in End(r) - new .. End(r) - new + new - 1
      BY <1>3, <1>4, <3>1, <3>2
    <3>4. QED
      BY <1>5, <3>2, <3>3
  <2>2. IsFiniteSet(fell) /\ Cardinality(fell) <= new
    <3> HIDE DEF fell, new
    <3>1. End(r) - new \in Int
      BY <1>3, <1>4
    <3>2. QED
      BY <1>2, <1>3, <2>1, <3>1, FewInRange
  <2>3. pair \in Surjection(fell, extra)
    BY DEF Surjection
  <2>4. IsFiniteSet(extra) /\ Cardinality(extra) <= Cardinality(fell)
    <3> HIDE DEF fell, extra, pair
    <3>1. QED
      BY <2>2, <2>3, FS_Surjection
  <2>5. Again(r)' \subseteq Again(r) \cup extra
    <3>1. ASSUME NEW t \in Again(r)', t \notin Again(r)
          PROVE  t \in extra
      <4>1. /\ t \in stayed'[r] \X Nat /\ 2 <= t[2]
            /\ \/ t[2] <= seen[r][t[1]]
               \/ t[2] = seen[r][t[1]] + 1 /\ Place(r, t[1])' >= End(r)'
        BY DEF Again
      <4>2. t = <<t[1], t[2]>> /\ t[1] \in Same /\ t[1] \in stayed[r] /\ t[2] \in Nat
            /\ t[1] \in stayed'[r]
        BY <1>9, <4>1
      <4>3. ~(t[2] <= seen[r][t[1]]) /\ ~(t[2] = seen[r][t[1]] + 1 /\ Place(r, t[1]) >= End(r))
        BY <3>1, <4>1, <4>2 DEF Again
      <4>4. Place(r, t[1]) \in Nat /\ Place(r, t[1])' \in Nat
        BY <1>6, <4>2
      <4>5. t[2] = seen[r][t[1]] + 1 /\ Place(r, t[1])' >= End(r)
        BY <1>4, <4>1, <4>3
      <4>6. Place(r, t[1]) < End(r)
        BY <1>4, <4>3, <4>4, <4>5
      <4>7. QED
        BY <4>2, <4>5, <4>6
    <3>2. QED
      BY <3>1
  <2> HIDE DEF fell, extra
  <2>6. /\ IsFiniteSet(Again(r)')
        /\ Cardinality(Again(r)') <= Cardinality(Again(r)) + Cardinality(extra)
    BY <1>1, <2>4, <2>5, AtMostBoth DEF Counted
  <2>7. /\ Cardinality(Again(r)') \in Nat /\ Cardinality(Again(r)) \in Nat
        /\ Cardinality(extra) \in Nat /\ Cardinality(fell) \in Nat
    BY <1>1, <2>2, <2>4, <2>6, FS_CardinalityType DEF Counted
  <2>8. QED
    BY <1>1, <1>2, <1>3, <2>2, <2>4, <2>6, <2>7 DEF Counted
<1>13. AtLastPage(r)' = AtLastPage(r)
  BY DEF AtLastPage
<1>14. QED
  BY <1>7, <1>8, <1>10, <1>11, <1>12, <1>13 DEF ReaderOK, Counted

(* A change of the board, from one that is in order to another.            *)
LEMMA NoteKeeps ==
  ASSUME ListingsIInv, Numbered', Note, published' \in PublishedJobs,
         day' \in 0..MaxDay, changes' \in 0..MaxChanges
  PROVE  ListingsIInv'
<1>1. ListingsTypeOK /\ published' \in PublishedJobs /\ Distinct(published')
  BY DEF ListingsIInv, Numbered
<1>2. UNCHANGED <<reading, seen>>
  BY DEF Note
<1>3. ASSUME NEW r \in Visitors
      PROVE  /\ stayed'[r] \in SUBSET Jobs /\ left'[r] \in Nat /\ came'[r] \in Nat
             /\ ReaderOK(r)'
  <2> DEFINE Was == IF reading[r] = Unset THEN {} ELSE Matching(Search(r), published, day)
             Is == IF reading[r] = Unset THEN {} ELSE Matching(Search(r), published', day')
             Same == {j \in Was \cap Is : published'[j] = published[j]}
  <2>1. /\ stayed'[r] = stayed[r] \cap Same
        /\ left'[r] = left[r] + Cardinality(Was \ Same)
        /\ came'[r] = came[r] + Cardinality(Is \ Same)
    BY DEF Note, Search
  <2>2. IsFiniteSet(Was \ Same) /\ IsFiniteSet(Is \ Same)
    BY MatchingFinite, FS_EmptySet, FS_Subset
  <2>3. Cardinality(Was \ Same) \in Nat /\ Cardinality(Is \ Same) \in Nat
    BY <2>2, FS_CardinalityType
  <2>4. stayed[r] \in SUBSET Jobs /\ left[r] \in Nat /\ came[r] \in Nat
    BY <1>1 DEF ListingsTypeOK
  <2>5. ReaderOK(r)'
    <3>1. CASE reading[r] = Unset
      BY <1>2, <2>1, <3>1 DEF ListingsIInv, ReaderOK
    <3>2. CASE reading[r] # Unset
      <4>1. Was = Matching(Search(r), published, day) /\ Is = Matching(Search(r), published', day')
        BY <3>2
      <4> HIDE DEF Was, Is
      <4>2. QED
        BY <1>1, <1>2, <2>1, <3>2, <4>1, ChangePaid
    <3>3. QED
      BY <3>1, <3>2
  <2>6. QED
    BY <2>1, <2>3, <2>4, <2>5
<1>4. /\ stayed' = [r \in Visitors |-> stayed'[r]] /\ left' = [r \in Visitors |-> left'[r]]
      /\ came' = [r \in Visitors |-> came'[r]]
  BY DEF Note
<1>5. ListingsTypeOK'
  <2>1. /\ stayed' \in [Visitors -> SUBSET Jobs] /\ left' \in [Visitors -> Nat]
        /\ came' \in [Visitors -> Nat]
    BY <1>3, <1>4
  <2>2. QED
    BY <1>1, <1>2, <2>1 DEF ListingsTypeOK, PublishedJobs
<1>6. QED
  BY <1>3, <1>5 DEF ListingsIInv

LEMMA ApproveKeeps ==
  ASSUME ListingsIInv, NEW j \in Jobs, Approve(j)
  PROVE  ListingsIInv'
<1> DEFINE total == Cardinality(Jobs)
           new == [day |-> day, number |-> total + changes']
<1>1. ListingsTypeOK /\ Numbered /\ total \in Nat
  BY JobsAssumption, FS_CardinalityType DEF ListingsIInv
<1>2. /\ changes \in Nat /\ changes' = changes + 1 /\ changes' \in 0..MaxChanges
      /\ day' = day /\ published' = [published EXCEPT ![j] = new] /\ Note
  BY <1>1, BoundsAssumption DEF Approve, ListingsTypeOK
<1>3. new \in Publications
  BY <1>1, <1>2, BoundsAssumption DEF ListingsTypeOK, Publications
<1>4. published' \in PublishedJobs
  BY <1>1, <1>2, <1>3 DEF ListingsTypeOK, PublishedJobs
<1>5. Numbered'
  <2>1. \A k \in Jobs : published[k] # Unset =>
          published[k].number \in Int /\ published[k].number <= total + changes
    BY <1>1, BoundsAssumption DEF ListingsTypeOK, Publications, Numbered
  <2>2. \A k \in Jobs : published'[k] = IF k = j THEN new ELSE published[k]
    BY <1>1, <1>2 DEF ListingsTypeOK
  <2>3. new.number = total + changes + 1
    BY <1>1, <1>2
  <2> HIDE DEF new, total
  <2>4. Distinct(published')
    BY <1>1, <1>2, <2>1, <2>2, <2>3 DEF Distinct, Numbered
  <2>5. QED
    BY <1>1, <1>2, <2>1, <2>2, <2>3, <2>4 DEF Numbered, total
<1>6. QED
  BY <1>1, <1>2, <1>4, <1>5, NoteKeeps DEF ListingsTypeOK

LEMMA WithdrawKeeps ==
  ASSUME ListingsIInv, NEW j \in Jobs, Withdraw(j)
  PROVE  ListingsIInv'
<1>1. ListingsTypeOK /\ Numbered
  BY DEF ListingsIInv
<1>2. /\ changes \in Nat /\ changes' = changes + 1 /\ changes' \in 0..MaxChanges
      /\ day' = day /\ published' = [published EXCEPT ![j] = Unset] /\ Note
  BY <1>1, BoundsAssumption DEF Withdraw, ListingsTypeOK
<1>3. published' \in PublishedJobs
  BY <1>1, <1>2 DEF ListingsTypeOK, PublishedJobs
<1>4. \A k \in Jobs : published'[k] # Unset => published'[k] = published[k]
  BY <1>1, <1>2 DEF ListingsTypeOK
<1>5. Cardinality(Jobs) \in Nat
  BY JobsAssumption, FS_CardinalityType
<1>6. \A k \in Jobs : published[k] # Unset => published[k].number \in Int
  BY <1>1, <1>5, BoundsAssumption DEF ListingsTypeOK, Publications
<1>7. Numbered'
  BY <1>1, <1>2, <1>4, <1>5, <1>6 DEF Numbered, Distinct
<1>8. QED
  BY <1>1, <1>2, <1>3, <1>7, NoteKeeps DEF ListingsTypeOK

LEMMA NextDayKeeps ==
  ASSUME ListingsIInv, NextDay
  PROVE  ListingsIInv'
<1>1. ListingsTypeOK /\ Numbered
  BY DEF ListingsIInv
<1>2. Numbered' /\ published' \in PublishedJobs /\ changes' \in 0..MaxChanges
      /\ day' \in 0..MaxDay /\ Note
  BY <1>1, BoundsAssumption DEF NextDay, ListingsTypeOK, PublishedJobs, Numbered, Distinct
<1>3. QED
  BY <1>2, NoteKeeps

-----------------------------------------------------------------------------
LEMMA ListingsInitIInv == ListingsInit => ListingsIInv
<1> SUFFICES ASSUME ListingsInit PROVE ListingsIInv
  OBVIOUS
<1>1. Cardinality(Jobs) \in Nat
  BY JobsAssumption, FS_CardinalityType
<1>2. /\ published \in [Jobs -> [day : {0}, number : 1..Cardinality(Jobs)] \cup {Unset}]
      /\ \A j, k \in Jobs : j # k /\ published[j] # Unset => published[j] # published[k]
  BY DEF ListingsInit, Boards
<1>3. [day : {0}, number : 1..Cardinality(Jobs)] \subseteq Publications
  BY <1>1, BoundsAssumption DEF Publications
<1>4. ListingsTypeOK
  BY <1>2, <1>3, BoundsAssumption DEF ListingsInit, ListingsTypeOK
<1>5. Numbered
  <2>1. \A j \in Jobs : published[j] # Unset =>
          published[j] \in [day : {0}, number : 1..Cardinality(Jobs)]
    BY <1>2
  <2>2. \A j \in Jobs : published[j] # Unset =>
          /\ published[j] = [day |-> 0, number |-> published[j].number]
          /\ published[j].number \in 1..Cardinality(Jobs)
    BY <2>1
  <2>3. ASSUME NEW j \in Jobs, NEW k \in Jobs, published[j] # Unset, published[k] # Unset,
               published[j].number = published[k].number
        PROVE  published[j] = published[k]
    <3>1. /\ published[j] = [day |-> 0, number |-> published[j].number]
          /\ published[k] = [day |-> 0, number |-> published[k].number]
      BY <2>2, <2>3
    <3>2. [day |-> 0, number |-> published[j].number]
            = [day |-> 0, number |-> published[k].number]
      BY <2>3
    <3>3. QED
      BY <3>1, <3>2
  <2>4. Distinct(published)
    BY <1>2, <2>3, Zenon DEF Distinct
  <2>5. changes = 0
    BY DEF ListingsInit
  <2>6. \A j \in Jobs : published[j] # Unset =>
          published[j].number \in Nat /\ published[j].number <= Cardinality(Jobs)
    BY <1>1, <2>1
  <2>7. QED
    BY <1>1, <2>4, <2>5, <2>6 DEF Numbered
<1>6. \A r \in Visitors : ReaderOK(r)
  BY DEF ListingsInit, ReaderOK
<1>7. QED
  BY <1>4, <1>5, <1>6 DEF ListingsIInv

LEMMA ListingsInductive ==
  ASSUME ListingsIInv, [ListingsNext]_listingsVars
  PROVE  ListingsIInv'
<1>1. ASSUME NEW r \in Visitors, NEW f \in Asked, Open(r, f)
      PROVE  ListingsIInv'
  BY <1>1, OpenKeeps
<1>2. ASSUME NEW r \in Visitors, Follow(r)
      PROVE  ListingsIInv'
  BY <1>2, FollowKeeps
<1>3. ASSUME NEW r \in Visitors, Leave(r)
      PROVE  ListingsIInv'
  BY <1>3, LeaveKeeps
<1>4. ASSUME NEW j \in Jobs, Approve(j)
      PROVE  ListingsIInv'
  BY <1>4, ApproveKeeps
<1>5. ASSUME NEW j \in Jobs, Withdraw(j)
      PROVE  ListingsIInv'
  BY <1>5, WithdrawKeeps
<1>6. ASSUME NextDay
      PROVE  ListingsIInv'
  BY <1>6, NextDayKeeps
<1>7. CASE UNCHANGED listingsVars
  <2>1. ListingsTypeOK' /\ Numbered'
    BY <1>7 DEF ListingsIInv, listingsVars, ListingsTypeOK, Numbered, Distinct
  <2>2. ASSUME NEW r \in Visitors
        PROVE  ReaderOK(r)'
    BY <1>7, Untouched DEF ListingsIInv, listingsVars
  <2>3. QED
    BY <2>1, <2>2 DEF ListingsIInv
<1>8. QED
  BY <1>1, <1>2, <1>3, <1>4, <1>5, <1>6, <1>7 DEF ListingsNext

LEMMA ListingsInvariant == ListingsSpec => []ListingsIInv
<1>1. QED
  BY ListingsInitIInv, ListingsInductive, PTL DEF ListingsSpec

-----------------------------------------------------------------------------
(* The listings' variables have their types.                               *)
THEOREM ListingsTypeCorrect == ListingsSpec => []ListingsTypeOK
<1>1. ListingsIInv => ListingsTypeOK
  BY DEF ListingsIInv
<1>2. QED
  BY <1>1, ListingsInvariant, PTL

(* Whatever changes while a visitor follows the links from the first page  *)
(* to the last, at most as many of the jobs that stayed on the board are   *)
(* missed as jobs left it.                                                 *)
THEOREM MissedAtMostLeftAlways == ListingsSpec => []MissedAtMostLeft
<1>1. ListingsIInv => MissedAtMostLeft
  BY DEF ListingsIInv, ReaderOK, Counted, Missed, AtLastPage, MissedAtMostLeft
<1>2. QED
  BY <1>1, ListingsInvariant, PTL

(* A visitor is shown jobs that stayed again at most as often as jobs came *)
(* to the board.                                                           *)
THEOREM RepeatedAtMostCameAlways == ListingsSpec => []RepeatedAtMostCame
<1>1. ASSUME ListingsIInv, NEW r \in Visitors
      PROVE  Cardinality(Repetitions(r)) <= came[r]
  <2>1. ListingsTypeOK /\ stayed[r] \subseteq Jobs /\ seen[r] \in [Jobs -> Nat] /\ came[r] \in Nat
    BY <1>1 DEF ListingsIInv, ListingsTypeOK
  <2>2. CASE reading[r] = Unset
    <3>1. stayed[r] = {}
      BY <1>1, <2>2 DEF ListingsIInv, ReaderOK
    <3>2. Repetitions(r) = {}
      BY <3>1 DEF Repetitions
    <3>3. QED
      BY <2>1, <3>2, FS_EmptySet
  <2>3. CASE reading[r] # Unset
    <3>1. IsFiniteSet(Again(r)) /\ Cardinality(Again(r)) <= came[r]
      BY <1>1, <2>3 DEF ListingsIInv, ReaderOK, Counted
    <3>2. Repetitions(r) \in SUBSET Again(r)
      BY <2>1 DEF Again, Repetitions
    <3>3. IsFiniteSet(Repetitions(r)) /\ Cardinality(Repetitions(r)) <= Cardinality(Again(r))
      BY <3>1, <3>2, FS_Subset
    <3>4. Cardinality(Repetitions(r)) \in Nat /\ Cardinality(Again(r)) \in Nat
      BY <3>1, <3>3, FS_CardinalityType
    <3>5. QED
      BY <2>1, <3>1, <3>3, <3>4
  <2>4. QED
    BY <2>2, <2>3
<1>2. ListingsIInv => RepeatedAtMostCame
  BY <1>1 DEF RepeatedAtMostCame
<1>3. QED
  BY <1>2, ListingsInvariant, PTL

(* The links of an answer lead to jobs, whatever the filters.              *)
THEOREM LinksLandAlways == ListingsSpec => []LinksLand
<1>1. ASSUME ListingsIInv, NEW r \in Visitors, reading[r] # Unset
      PROVE  LET f == reading[r].filters
                 limit == Limit(f)
                 links == reading[r].links
             IN  /\ links.next # Unset => links.next = 0 \/ links.next < reading[r].total
                 /\ links.last # Unset => /\ links.last < reading[r].total
                                         /\ links.last + limit >= reading[r].total
                 /\ links.prev # Unset => /\ links.prev + limit >= Offset(f)
                                         /\ links.prev < Offset(f)
  <2> DEFINE f == reading[r].filters
             total == reading[r].total
  <2>1. Answered(r) /\ ListingsTypeOK
    BY <1>1 DEF ListingsIInv, ReaderOK
  <2>2. reading[r] \in Readings /\ f \in Filters /\ total \in Nat
    BY <1>1, <2>1, JobsAssumption, FS_CardinalityType DEF ListingsTypeOK, Readings
  <2>3. Offset(f) \in Nat /\ Limit(f) \in Nat
    BY <2>2, WrittenKeeps
  <2>4. CASE reading[r].step = "failed"
    BY <2>1, <2>4 DEF Answered, NoLinks
  <2>5. CASE reading[r].step = "reading"
    <3>1. reading[r].links = LinksOf(f, total) /\ ~Panics(f, total)
          /\ (f.limit = 0 => Offset(f) = 0)
      BY <2>1, <2>5 DEF Answered
    <3>2. Limit(f) = 0 => f.limit = 0
      BY <2>2 DEF Limit, Or
    <3>3. total > Offset(f) + Limit(f) => Limit(f) # 0
      BY <2>3, <3>1, <3>2 DEF Panics
    <3>4. Limit(f) # 0 => total % Limit(f) \in 0 .. Limit(f) - 1
      BY <2>2, <2>3
    <3>5. Limit(f) = 0 => Offset(f) = 0
      BY <3>1, <3>2
    <3> HIDE DEF f, total
    <3>6. /\ reading[r].links.next \in {Unset, Offset(f) + Limit(f)}
          /\ reading[r].links.next # Unset => total > Offset(f) + Limit(f)
      BY <2>2, <2>3, <3>1 DEF LinksOf
    <3>7. reading[r].links.last # Unset =>
            /\ total > Offset(f) + Limit(f)
            /\ reading[r].links.last = IF total % Limit(f) = 0 THEN total - Limit(f)
                                       ELSE total - (total % Limit(f))
      BY <2>2, <2>3, <3>1 DEF LinksOf
    <3>8. reading[r].links.prev # Unset =>
            /\ Offset(f) > 0
            /\ reading[r].links.prev =
                 IF Offset(f) > Limit(f) THEN Offset(f) - Limit(f) ELSE 0
      BY <2>2, <2>3, <3>1 DEF LinksOf
    <3>9. reading[r].links.last # Unset =>
            /\ reading[r].links.last < total
            /\ reading[r].links.last + Limit(f) >= total
      BY <2>2, <2>3, <3>3, <3>4, <3>7
    <3>10. reading[r].links.prev # Unset =>
             /\ reading[r].links.prev + Limit(f) >= Offset(f)
             /\ reading[r].links.prev < Offset(f)
      BY <2>3, <3>5, <3>8
    <3>11. reading[r].links.next # Unset => reading[r].links.next < total
      BY <3>6
    <3>12. QED
      BY <3>9, <3>10, <3>11 DEF f, total
  <2>6. QED
    BY <2>2, <2>4, <2>5 DEF Readings
<1>2. ListingsIInv => LinksLand
  BY <1>1 DEF LinksLand
<1>3. QED
  BY <1>2, ListingsInvariant, PTL

=============================================================================
